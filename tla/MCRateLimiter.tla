----------------------------- MODULE MCRateLimiter -----------------------------
EXTENDS RateLimiter, TLC

\* Checks are interchangeable: Init ranges over every assignment of requests.
SymChecks == Permutations(Checks)
================================================================================
