------------------------------- MODULE MCClients -------------------------------
EXTENDS Clients, TLC

\* Calls are interchangeable, and no property tells them apart.
Sym == Permutations(Calls)
================================================================================
