----------------------------- MODULE MCPolicyStore -----------------------------
(* TLC's instances of PolicyStore: two connections with an id each. *)
EXTENDS PolicyStore, TLC

CONSTANTS fin, hr, finId, hrId

MCAdminId == (fin :> finId) @@ (hr :> hrId)

Vacant == [r \in Roles |-> NoSecret]

Nobody == [i \in Ids |-> {}]

SymRequests == Permutations(Requests) \cup Permutations(Secrets)
=============================================================================
