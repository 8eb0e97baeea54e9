------------------------------ MODULE PolicyBook ------------------------------
(***************************************************************************)
(* What the policy store promises its operators: however their requests    *)
(* interleave, each takes effect at most once, on the documents as they    *)
(* are at that moment, and only if they admit it then; one that is         *)
(* acknowledged has taken effect.  A request may also have taken effect    *)
(* and never be acknowledged.                                              *)
(***************************************************************************)
EXTENDS PolicyDocuments

CONSTANTS Requests

VARIABLES
    roleMap, grants,   \* the two documents
    ask,               \* ask[q]: the requests made so far and what they ask
    settled,           \* those that took effect
    acked              \* those that were acknowledged

bookVars == <<roleMap, grants, ask, settled, acked>>

NoAsk == [op |-> "none"]

BInit ==
    /\ roleMap = FirstRoleMap
    /\ grants = FirstGrants
    /\ ask = [q \in Requests |-> NoAsk]
    /\ settled = {} /\ acked = {}

Submit(q) ==
    /\ ask[q] = NoAsk
    /\ \E a \in Ask : ask' = [ask EXCEPT ![q] = a]
    /\ UNCHANGED <<roleMap, grants, settled, acked>>

TakeEffect(q) ==
    /\ ask[q] # NoAsk /\ q \notin settled
    /\ Admissible(ask[q], roleMap)
    /\ settled' = settled \cup {q}
    /\ \/ /\ ask[q].op = "grant"
          /\ grants' = GrantsAfter(ask[q], grants)
          /\ UNCHANGED roleMap
       \/ /\ ask[q].op # "grant"
          /\ \E at \in Version : roleMap' = RoleMapAfter(ask[q], roleMap, at)
          /\ UNCHANGED grants
    /\ UNCHANGED <<ask, acked>>

Acknowledge(q) ==
    /\ q \in settled \ acked
    /\ acked' = acked \cup {q}
    /\ UNCHANGED <<roleMap, grants, ask, settled>>

BNext == \E q \in Requests : Submit(q) \/ TakeEffect(q) \/ Acknowledge(q)

BSpec == BInit /\ [][BNext]_bookVars
=============================================================================
