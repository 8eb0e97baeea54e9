------------------------------ MODULE RateLimiter ------------------------------
(***************************************************************************)
(* function-node/src/rate-limiter.js: fixed-window quota counters in Azure *)
(* Table Storage, shared by every host of the function app.                *)
(*                                                                         *)
(* A check is one call of quotaCheck.  Each await on the table is a step   *)
(* of its own, so the reads and the conditional writes of concurrent       *)
(* checks interleave.  The table's operation and the delivery of its       *)
(* answer are one step: between them nothing the code shares can change.   *)
(***************************************************************************)
EXTENDS Naturals, FiniteSets

CONSTANTS
    Checks,        \* the calls of quotaCheck
    Hosts,         \* function hosts; each has its own module state
    Keys,          \* keyName: secret names (or roles)
    Callers,       \* callerOid values
    NoCaller,      \* a principal without an oid
    KeyLimit,      \* QUOTA_KEY_PER_MIN
    CallerLimit,   \* QUOTA_CALLER_PER_MIN
    MaxRetries,    \* maxRetries of incrementAndCheckWithRetry
    FailMode,      \* RATE_LIMIT_FAIL_MODE
    EtagOptional,  \* environment: the table may answer a read without an etag
    MaxWindow,     \* bound: minutes the clock may reach
    MaxFaults      \* bound: storage failures plus host restarts

ASSUME LimitsAssumption == KeyLimit \in Nat /\ CallerLimit \in Nat
ASSUME BoundsAssumption == MaxWindow \in Nat /\ MaxFaults \in Nat
ASSUME RetriesAssumption == MaxRetries \in Nat \ {0}
ASSUME EtagAssumption == EtagOptional \in BOOLEAN
ASSUME NoCallerAssumption == NoCaller \notin Callers

VARIABLES
    clock,       \* the UTC minute
    faults,      \* storage failures and restarts so far
    client,      \* client[h]: the module variable tableClient of host h is set
    initError,   \* initError[h]: the module variable initError of host h is set
    rows,        \* the table: rows[r].etag = 0 when row r does not exist
    req,         \* req[c]: host, key and caller of check c
    window,      \* window[c]: the minute check c counts in
    pc,          \* pc[c]: what check c awaits
    scope,       \* scope[c]: the counter check c is at
    seen,        \* seen[c]: the entity check c last read
    retries,     \* retries[c]: conflicts at this counter
    ticket,      \* ticket[c][s]: the count check c wrote and was told of; 0: none
    answer       \* answer[c]: what quotaCheck returned

vars == <<clock, faults, client, initError, rows, req, window, pc, scope, seen,
          retries, ticket, answer>>

Scopes == {"key", "caller"}
Window == 0..MaxWindow
Row == [scope : Scopes, id : Keys \cup Callers \cup {NoCaller}, window : Window]
Entity == [count : Nat, etag : Nat]
Absent == [count |-> 0, etag |-> 0]
Waiting == {"connect", "read", "create", "update", "backoff"}
Answers == {"none", "ok", "keyExhausted", "callerExhausted", "missing",
            "unavailable", "bypass"}

Limit(s) == IF s = "key" THEN KeyLimit ELSE CallerLimit

\* Partition "<scope>:<window>", row key: the secret name or the oid.
RowOf(c, s) ==
    [scope |-> s, id |-> IF s = "key" THEN req[c].key ELSE req[c].caller,
     window |-> window[c]]

Here(c) == RowOf(c, scope[c])

TypeOK ==
    /\ clock \in Window
    /\ faults \in 0..MaxFaults
    /\ client \in [Hosts -> BOOLEAN]
    /\ initError \in [Hosts -> BOOLEAN]
    /\ rows \in [Row -> Entity]
    /\ req \in [Checks -> [host : Hosts, key : Keys, caller : Callers \cup {NoCaller}]]
    /\ window \in [Checks -> Window]
    /\ pc \in [Checks -> {"idle", "done", "lost"} \cup Waiting]
    /\ scope \in [Checks -> Scopes]
    /\ seen \in [Checks -> Entity]
    /\ retries \in [Checks -> 0..MaxRetries]
    /\ ticket \in [Checks -> [Scopes -> Nat]]
    /\ answer \in [Checks -> Answers]

Init ==
    /\ clock = 0
    /\ faults = 0
    /\ client = [h \in Hosts |-> FALSE]
    /\ initError = [h \in Hosts |-> FALSE]
    /\ rows = [r \in Row |-> Absent]
    /\ req \in [Checks -> [host : Hosts, key : Keys, caller : Callers \cup {NoCaller}]]
    /\ window = [c \in Checks |-> 0]
    /\ pc = [c \in Checks |-> "idle"]
    /\ scope = [c \in Checks |-> "key"]
    /\ seen = [c \in Checks |-> Absent]
    /\ retries = [c \in Checks |-> 0]
    /\ ticket = [c \in Checks |-> [s \in Scopes |-> 0]]
    /\ answer = [c \in Checks |-> "none"]

--------------------------------------------------------------------------------
(* Pieces of the handler, used by the actions below. *)

Answer(c, a) ==
    /\ answer' = [answer EXCEPT ![c] = a]
    /\ pc' = [pc EXCEPT ![c] = "done"]

\* quotaCheck's catch block.  "bypass" is { ok: true } returned unchecked.
GiveUp(c) == Answer(c, IF FailMode = "open" THEN "bypass" ELSE "unavailable")

Fault == faults < MaxFaults /\ faults' = faults + 1

\* (mutant) the limit is off by one
WithinOneMore(s, n) == n <= Limit(s) + 1

Within(s, n) == n <= Limit(s)

\* (mutants) a conflict does not use up an attempt; one attempt too many
ConflictForever(c) ==
    /\ pc' = [pc EXCEPT ![c] = "backoff"]
    /\ UNCHANGED <<retries, answer, scope, ticket>>
ConflictOneMore(c) ==
    /\ retries' = [retries EXCEPT ![c] = @ + 1]
    /\ IF retries[c] < MaxRetries THEN pc' = [pc EXCEPT ![c] = "backoff"] /\ UNCHANGED answer
                                  ELSE GiveUp(c)
    /\ UNCHANGED <<scope, ticket>>

\* The counter was written by someone else: back off and read again, until
\* MaxRetries attempts have failed.
Conflict(c) ==
    /\ retries' = [retries EXCEPT ![c] = @ + 1]
    /\ \/ /\ retries[c] + 1 < MaxRetries
          /\ pc' = [pc EXCEPT ![c] = "backoff"]
          /\ UNCHANGED answer
       \/ retries[c] + 1 >= MaxRetries /\ GiveUp(c)
    /\ UNCHANGED <<scope, ticket>>

\* (mutant) the caller's counter is taken whatever the key's says
CountedAnyway(c, n) ==
    /\ ticket' = [ticket EXCEPT ![c][scope[c]] = n]
    /\ \/ scope[c] = "key" /\ scope' = [scope EXCEPT ![c] = "caller"]
          /\ retries' = [retries EXCEPT ![c] = 0] /\ pc' = [pc EXCEPT ![c] = "read"]
          /\ UNCHANGED answer
       \/ scope[c] = "caller" /\ Answer(c, IF Within("caller", n) THEN "ok" ELSE "callerExhausted")
          /\ UNCHANGED <<scope, retries>>

\* The write succeeded with count n: compare with the limit, then go from the
\* key's counter to the caller's, or return.
Counted(c, n) ==
    /\ ticket' = [ticket EXCEPT ![c][scope[c]] = n]
    /\ \/ /\ ~Within(scope[c], n)
          /\ Answer(c, IF scope[c] = "key" THEN "keyExhausted" ELSE "callerExhausted")
          /\ UNCHANGED <<scope, retries>>
       \/ /\ Within(scope[c], n) /\ scope[c] = "key"
          /\ scope' = [scope EXCEPT ![c] = "caller"]
          /\ retries' = [retries EXCEPT ![c] = 0]
          /\ pc' = [pc EXCEPT ![c] = "read"]
          /\ UNCHANGED answer
       \/ /\ Within(scope[c], n) /\ scope[c] = "caller"
          /\ Answer(c, "ok")
          /\ UNCHANGED <<scope, retries>>

\* A table operation that has no effect and throws.
StorageFails(c) ==
    /\ Fault
    /\ GiveUp(c)
    /\ UNCHANGED <<rows, scope, retries, ticket>>

\* The table takes the write of count n.
Write(c, n) == rows' = [rows EXCEPT ![Here(c)] = [count |-> n, etag |-> @.etag + 1]]

\* (mutants) createEntity as an upsert; updateEntity without If-Match
UnclaimedUpsert(c) == TRUE
MatchesAnyway(c) == TRUE

\* What createEntity and updateEntity with If-Match ask of the row.
Unclaimed(c) == rows[Here(c)].etag = 0
Matches(c) == rows[Here(c)].etag = seen[c].etag

\* The write took effect, its answer was lost: the SDK either gives up or
\* repeats the conditional write, which its own first attempt now defeats.
WriteUnseen(c) ==
    /\ Fault
    /\ \/ GiveUp(c) /\ UNCHANGED <<scope, retries, ticket>>
       \/ Conflict(c)

--------------------------------------------------------------------------------
\* quotaCheck is called: the window is fixed once, then getTableClient runs
\* up to its first await.
Start(c) ==
    LET h == req[c].host IN
    /\ pc[c] = "idle"
    /\ window' = [window EXCEPT ![c] = clock]
    /\ \/ req[c].caller = NoCaller /\ Answer(c, "missing")
       \/ /\ req[c].caller # NoCaller
          /\ \/ client[h] /\ pc' = [pc EXCEPT ![c] = "read"] /\ UNCHANGED answer
             \/ ~client[h] /\ initError[h] /\ GiveUp(c)
             \/ /\ ~client[h] /\ ~initError[h]
                /\ pc' = [pc EXCEPT ![c] = "connect"]
                /\ UNCHANGED answer
    /\ UNCHANGED <<clock, faults, client, initError, rows, req, scope, seen,
                   retries, ticket>>

\* createTable answers (created, or it existed already) or fails.
Connect(c) ==
    LET h == req[c].host IN
    /\ pc[c] = "connect"
    /\ \/ /\ client' = [client EXCEPT ![h] = TRUE]
          /\ pc' = [pc EXCEPT ![c] = "read"]
          /\ UNCHANGED <<faults, initError, answer>>
       \/ /\ Fault
          /\ initError' = [initError EXCEPT ![h] = TRUE]
          /\ GiveUp(c)
          /\ UNCHANGED client
    /\ UNCHANGED <<clock, rows, req, window, scope, seen, retries, ticket>>

\* getEntity: the row with its etag, a row without one (treated as a
\* conflict), or 404.
Read(c) ==
    /\ pc[c] = "read"
    /\ \/ /\ rows[Here(c)].etag = 0
          /\ pc' = [pc EXCEPT ![c] = "create"]
          /\ UNCHANGED <<faults, rows, scope, seen, retries, ticket, answer>>
       \/ /\ rows[Here(c)].etag # 0
          /\ seen' = [seen EXCEPT ![c] = rows[Here(c)]]
          /\ pc' = [pc EXCEPT ![c] = "update"]
          /\ UNCHANGED <<faults, rows, scope, retries, ticket, answer>>
       \/ /\ EtagOptional /\ rows[Here(c)].etag # 0
          /\ Conflict(c)
          /\ UNCHANGED <<faults, rows, seen>>
       \/ StorageFails(c) /\ UNCHANGED seen
    /\ UNCHANGED <<clock, client, initError, req, window>>

\* createEntity with count 1: 409 when a concurrent check created the row.
Create(c) ==
    /\ pc[c] = "create"
    /\ \/ Unclaimed(c) /\ Write(c, 1) /\ Counted(c, 1) /\ UNCHANGED faults
       \/ Unclaimed(c) /\ Write(c, 1) /\ WriteUnseen(c)
       \/ ~Unclaimed(c) /\ Conflict(c) /\ UNCHANGED <<faults, rows>>
       \/ StorageFails(c)
    /\ UNCHANGED <<clock, client, initError, req, window, seen>>

\* updateEntity with If-Match: 412 when the row changed since it was read.
Update(c) ==
    LET n == seen[c].count + 1 IN
    /\ pc[c] = "update"
    /\ \/ Matches(c) /\ Write(c, n) /\ Counted(c, n) /\ UNCHANGED faults
       \/ Matches(c) /\ Write(c, n) /\ WriteUnseen(c)
       \/ ~Matches(c) /\ Conflict(c) /\ UNCHANGED <<faults, rows>>
       \/ StorageFails(c)
    /\ UNCHANGED <<clock, client, initError, req, window, seen>>

\* The jittered timer between two attempts expires.
Backoff(c) ==
    /\ pc[c] = "backoff"
    /\ pc' = [pc EXCEPT ![c] = "read"]
    /\ UNCHANGED <<clock, faults, client, initError, rows, req, window, scope, seen,
                   retries, ticket, answer>>

\* The host process ends and a new one serves: module state is fresh, the
\* calls it was serving are never answered.
Restart(h) ==
    /\ Fault
    /\ client' = [client EXCEPT ![h] = FALSE]
    /\ initError' = [initError EXCEPT ![h] = FALSE]
    /\ pc' = [c \in Checks |->
                IF req[c].host = h /\ pc[c] \in Waiting THEN "lost" ELSE pc[c]]
    /\ UNCHANGED <<clock, rows, req, window, scope, seen, retries, ticket, answer>>

Tick ==
    /\ clock < MaxWindow
    /\ clock' = clock + 1
    /\ UNCHANGED <<faults, client, initError, rows, req, window, pc, scope, seen,
                   retries, ticket, answer>>

\* Every call has ended: nothing is left to do.
Finished ==
    /\ \A c \in Checks : pc[c] \in {"done", "lost"}
    /\ UNCHANGED vars

Step(c) == Start(c) \/ Connect(c) \/ Read(c) \/ Create(c) \/ Update(c) \/ Backoff(c)

Next ==
    \/ \E c \in Checks : Step(c)
    \/ \E h \in Hosts : Restart(h)
    \/ Tick
    \/ Finished

Spec == Init /\ [][Next]_vars

\* The event loop runs every callback and the SDK gives every request a
\* timeout, so a check that is under way keeps moving.
FairSpec == Spec /\ \A c \in Checks : WF_vars(Step(c))

--------------------------------------------------------------------------------
(* Properties *)

Counts(s, r) == {c \in Checks : ticket[c][s] # 0 /\ RowOf(c, s) = r}
Admitted(s, r) == {c \in Checks : answer[c] = "ok" /\ RowOf(c, s) = r}

\* No increment is lost: no two checks are ever given the same place in a
\* counter, and no place lies beyond the stored count (the race the comment
\* at rate-limiter.js:95 is about).
NoLostIncrement ==
    \A s \in Scopes, c \in Checks :
        /\ ticket[c][s] <= rows[RowOf(c, s)].count
        /\ \A d \in Checks :
              c # d /\ ticket[c][s] # 0 /\ RowOf(c, s) = RowOf(d, s)
                => ticket[c][s] # ticket[d][s]

\* In each minute at most QUOTA_KEY_PER_MIN checks pass for a key and at most
\* QUOTA_CALLER_PER_MIN for a caller, over all hosts, whatever the conflicts,
\* lost answers and restarts (checks that bypass the counters apart).
QuotaBinds ==
    \A s \in Scopes : \A r \in Row : Cardinality(Admitted(s, r)) <= Limit(s)

\* A check is admitted, in closed mode, only after it was counted within both
\* limits; and a caller's budget is spent only by a check the key admitted
\* ("key rejection does NOT consume caller budget", rate-limiter.js:8).
CallerBudgetNeedsKey ==
    \A c \in Checks :
        /\ ticket[c]["caller"] # 0 => ticket[c]["key"] \in 1..KeyLimit
        /\ answer[c] = "ok" => ticket[c]["caller"] \in 1..CallerLimit
        /\ answer[c] = "bypass" => FailMode = "open"

\* The abstract counters of FetchAndIncrement, read off the table and off what
\* the checks were told.
Values == [r \in Row |-> rows[r].count]
Issued == {<<p[1], RowOf(p[1], p[2]), ticket[p[1]][p[2]]>> :
              p \in {q \in Checks \X Scopes : ticket[q[1]][q[2]] # 0}}

Counter == INSTANCE FetchAndIncrement WITH
    Counter <- Row, Client <- Checks, value <- Values, issued <- Issued

\* The counters implement an atomic fetch-and-increment: the etag loop, the
\* create race and lost answers never show in what checks are told.
CounterIsAtomic == Counter!FSpec

\* Every check that is called is answered, unless its host is restarted: the
\* retry loop ends.
EveryCheckEnds == \A c \in Checks : pc[c] \in Waiting ~> pc[c] \in {"done", "lost"}
================================================================================
