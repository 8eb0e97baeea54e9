---------------------------- MODULE PolicyRuntime ----------------------------
(***************************************************************************)
(* The broker's view of the policy: the cached read of both documents      *)
(* (function-node/src/runtime-policy.js) and the decision brokerHandler    *)
(* takes with what it read (broker.js, connection-grants.js), while        *)
(* operators change the documents.  The operators' side is PolicyBook,     *)
(* which the management API implements (PolicyStore); one host is enough,  *)
(* since hosts share nothing but the store.                                *)
(*                                                                         *)
(* A call stands for one whose token is valid and carries the role of the  *)
(* connection it names; its gates before the policy read hold no state.    *)
(***************************************************************************)
EXTENDS PolicyBook

CONSTANTS
    Calls,        \* requests to the broker
    BrokerId,     \* connectionIdForRole of role-routing.js: the id of each role
    Ttl,          \* POLICY_CACHE_TTL_SECONDS
    MaxLatency,   \* bound: how long a read of the store may take
    MaxTime       \* bound: the clock

ASSUME BrokerIdAssumption ==
    /\ BrokerId \in [Roles -> Ids]
    /\ \A r, s \in Roles : BrokerId[r] = BrokerId[s] => r = s   \* buildRouteTable
ASSUME ClockAssumption == Ttl \in Nat \ {0} /\ MaxLatency \in Nat /\ MaxTime \in Nat

VARIABLES
    now,         \* the clock
    cache,       \* the variable cached of createRuntimePolicy
    call,        \* call[c]: the local variables of a request
    granted,     \* history: granted[i][s], the last moment id i listed subject s
    open,        \* history: open[r], the last moment role r was mapped and enabled
    changed      \* history: when a document last changed

brokerVars == <<now, cache, call>>
history == <<granted, open, changed>>
vars == <<bookVars, brokerVars, history>>

Time == 0..MaxTime
Never == -1
Outcome == {"none", "allowed", "denied", "unavailable"}

\* What a call holds.
Local == [
    pc : {"idle", "reading", "done"},
    role : Roles, subject : Subjects,
    read : SUBSET Docs,        \* the gets that answered
    map : RoleMap, grants : Grants,
    asked : Time,              \* history: when its reads were sent
    outcome : Outcome]

TypeOK ==
    /\ roleMap \in RoleMap /\ grants \in Grants
    /\ now \in Time
    /\ cache \in [map : RoleMap, grants : Grants, exp : 0..MaxTime + Ttl]
    /\ call \in [Calls -> Local]
    /\ granted \in [Ids -> [Subjects -> Time \cup {Never}]]
    /\ open \in [Roles -> Time \cup {Never}]
    /\ changed \in Time

Idle(r, s) == [pc |-> "idle", role |-> r, subject |-> s, read |-> {},
               map |-> FirstRoleMap, grants |-> FirstGrants, asked |-> 0,
               outcome |-> "none"]

Init ==
    /\ BInit
    /\ now = 0
    /\ cache = [map |-> FirstRoleMap, grants |-> FirstGrants, exp |-> 0]
    /\ \E r \in [Calls -> Roles], s \in [Calls -> Subjects] :
         call = [c \in Calls |-> Idle(r[c], s[c])]
    /\ granted = [i \in Ids |-> [s \in Subjects |-> IF s \in Held[i] THEN 0 ELSE Never]]
    /\ open = [r \in Roles |-> IF Standing[r] # NoSecret THEN 0 ELSE Never]
    /\ changed = 0

(***************************************************************************)
(* The decision.                                                           *)
(***************************************************************************)
\* authority.connectionIds: every mapped role has one, a disabled role too.
Known(map) == {BrokerId[r] : r \in Mapped(map)}

\* parseConnectionGrants takes the whole document or none of it: its only fields are
\* version and connections, and each entry names a known connection.
Parses(g, map) ==
    /\ ~g.versioned
    /\ \A i \in Ids : g.to[i] # {} => i \in Known(map)

Decision(map, g, r, s) ==
    IF /\ r \in Mapped(map) /\ map[r].enabled
       /\ Parses(g, map)
       /\ s \in g.to[BrokerId[r]]
    THEN "allowed" ELSE "denied"

(***************************************************************************)
(* The broker's steps.                                                     *)
(***************************************************************************)
\* When a value cached now expires; (mutant) milliseconds taken for seconds.
ExpiryInMillis == now + Ttl * 1000
Expiry == now + Ttl

\* (mutant) a cached value never expires
FreshForever(c) == c.exp > 0
Fresh(c) == c.exp > now

Begin(c, rec) ==
    /\ call[c].pc = "idle"
    /\ call' = [call EXCEPT ![c] = rec]
    /\ UNCHANGED <<bookVars, now, cache, history>>

\* read() answers from the cache, and the handler decides at once.
Hit(c) ==
    /\ Fresh(cache)
    /\ Begin(c, [call[c] EXCEPT !.pc = "done", !.asked = now, !.outcome =
          Decision(cache.map, cache.grants, call[c].role, call[c].subject)])

\* Every request that finds the cache expired reads the store for itself.
Miss(c) ==
    /\ ~Fresh(cache)
    /\ Begin(c, [call[c] EXCEPT !.pc = "reading", !.asked = now])

\* One of the two concurrent gets sees the store.
Get(c, d) ==
    /\ call[c].pc = "reading" /\ d \notin call[c].read
    /\ call' = [call EXCEPT ![c] =
          [call[c] EXCEPT !.read = call[c].read \cup {d},
                          !.map = IF d = "roleMap" THEN roleMap ELSE call[c].map,
                          !.grants = IF d = "grants" THEN grants ELSE call[c].grants]]
    /\ UNCHANGED <<bookVars, now, cache, history>>

\* Both answered: the value replaces whatever another request cached meanwhile.
Arrive(c) ==
    /\ call[c].pc = "reading" /\ call[c].read = Docs
    /\ cache' = [map |-> call[c].map, grants |-> call[c].grants, exp |-> Expiry]
    /\ call' = [call EXCEPT ![c] = [@ EXCEPT !.pc = "done", !.outcome =
          Decision(call[c].map, call[c].grants, call[c].role, call[c].subject)]]
    /\ UNCHANGED <<bookVars, now, history>>

\* A get fails: 503, and the cache stays as it was.
Unavailable(c) ==
    /\ call[c].pc = "reading"
    /\ call' = [call EXCEPT ![c] = [@ EXCEPT !.pc = "done", !.outcome = "unavailable"]]
    /\ UNCHANGED <<bookVars, now, cache, history>>

(***************************************************************************)
(* Operators and time.                                                     *)
(***************************************************************************)
Opened(map) == {r \in Mapped(map) : map[r].enabled}

Operate(q) ==
    /\ Submit(q) \/ TakeEffect(q)
    /\ changed' = IF <<roleMap, grants>>' = <<roleMap, grants>> THEN changed ELSE now
    /\ granted' = [i \in Ids |-> [s \in Subjects |->
          IF s \in grants.to[i] \cup grants'.to[i] THEN now ELSE granted[i][s]]]
    /\ open' = [r \in Roles |->
          IF r \in Opened(roleMap) \cup Opened(roleMap') THEN now ELSE open[r]]
    /\ UNCHANGED brokerVars

Confirm(q) ==
    /\ Acknowledge(q)
    /\ UNCHANGED <<brokerVars, history>>

Tick ==
    /\ now < MaxTime
    /\ \A c \in Calls : call[c].pc = "reading" => now < call[c].asked + MaxLatency
    /\ now' = now + 1
    /\ granted' = [i \in Ids |-> [s \in Subjects |->
          IF s \in grants.to[i] THEN now + 1 ELSE granted[i][s]]]
    /\ open' = [r \in Roles |-> IF r \in Opened(roleMap) THEN now + 1 ELSE open[r]]
    /\ UNCHANGED <<bookVars, cache, call, changed>>

Finished ==
    /\ \A c \in Calls : call[c].pc = "done"
    /\ UNCHANGED vars

Next ==
    \/ Tick \/ Finished
    \/ \E q \in Requests : Operate(q) \/ Confirm(q)
    \/ \E c \in Calls :
         \/ Hit(c) \/ Miss(c) \/ Arrive(c) \/ Unavailable(c)
         \/ \E d \in Docs : Get(c, d)

Spec == Init /\ [][Next]_vars

(***************************************************************************)
(* Properties.                                                             *)
(***************************************************************************)
Decided(c, outcome) == call[c].pc # "done" /\ call'[c].outcome = outcome

\* Every revocation bites within a cache lifetime and one slow read: a call that is
\* let through had its grant, and its connection was enabled, less than that ago.
\* The two documents may be of different moments, and a slow read may replace a
\* newer one in the cache.
RevocationBites ==
    [][\A c \in Calls : Decided(c, "allowed") =>
          /\ now < granted[BrokerId[call[c].role]][call[c].subject] + Ttl + MaxLatency
          /\ now < open[call[c].role] + Ttl + MaxLatency]_vars

\* Refuted: "a revoked grant is effective on the next call" (broker.js:336).  A call
\* that is let through had its grant at a moment when it had begun, or later.
RevokedOnNextCall ==
    [][\A c \in Calls : Decided(c, "allowed") =>
          granted[BrokerId[call[c].role]][call[c].subject] >= call'[c].asked]_vars

\* Once nobody has changed the policy for that long, a granted caller of an enabled
\* connection is let through: the documents the console writes are documents the
\* broker takes ("then add the same principal to the connection grant").
QuietGrantAdmits ==
    [][\A c \in Calls :
          /\ Decided(c, "denied")
          /\ changed + Ttl + MaxLatency <= now
          => ~ /\ call[c].role \in Opened(roleMap)
               /\ call[c].subject \in grants.to[AdminId[call[c].role]]]_vars
=============================================================================
