--------------------------- MODULE FetchAndIncrement ---------------------------
(***************************************************************************)
(* What the quota counters of rate-limiter.js promise: every counter is an *)
(* atomic fetch-and-increment.  A caller that is told a position n in a    *)
(* counter is the only one ever told n, and n is the counter's value just  *)
(* after its increment.  A counter may also move without anybody being     *)
(* told (a write whose answer is lost), never the other way round.         *)
(***************************************************************************)
EXTENDS Naturals

CONSTANTS Counter,   \* the counters
          Client     \* who may be given a position

VARIABLES value,     \* value[r]: increments counter r has taken
          issued     \* the positions handed out: <<client, counter, position>>

fvars == <<value, issued>>

FInit ==
    /\ value = [r \in Counter |-> 0]
    /\ issued = {}

\* Client c increments counter r and learns its position.
Issue(c, r) ==
    /\ value' = [value EXCEPT ![r] = @ + 1]
    /\ issued' = issued \cup {<<c, r, value[r] + 1>>}

\* Counter r takes an increment nobody is told of.
Spend(r) ==
    /\ value' = [value EXCEPT ![r] = @ + 1]
    /\ UNCHANGED issued

FNext == \E r \in Counter : Spend(r) \/ \E c \in Client : Issue(c, r)

FSpec == FInit /\ [][FNext]_fvars
================================================================================
