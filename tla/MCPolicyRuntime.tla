---------------------------- MODULE MCPolicyRuntime ----------------------------
(* TLC's instances of PolicyRuntime: two connections with an id each. *)
EXTENDS PolicyRuntime, TLC

CONSTANTS k1, k2, fin, hr, finId, hrId

FinId == fin :> finId
SimpleId == (fin :> finId) @@ (hr :> hrId)

\* Connections there from the start: none, one.
Vacant == [r \in Roles |-> NoSecret]
FinOnly == [r \in Roles |-> IF r = fin THEN k1 ELSE NoSecret]

\* Grants there from the start: none, one of the first connection.
Nobody == [i \in Ids |-> {}]
FinHeld == [i \in Ids |-> IF i = finId THEN Subjects ELSE {}]

Sym == Permutations(Requests) \cup Permutations(Calls)
=============================================================================
