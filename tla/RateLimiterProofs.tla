--------------------------- MODULE RateLimiterProofs ---------------------------
(***************************************************************************)
(* The quota counters are exact for any number of checks, hosts, keys,     *)
(* callers, minutes and failures: the theorems of module RateLimiter.      *)
(***************************************************************************)
EXTENDS RateLimiter, FiniteSetTheorems, TLAPS

USE LimitsAssumption, BoundsAssumption, RetriesAssumption, EtagAssumption

\* A row that does not exist counts nothing.
AbsentIsZero == \A r \in Row : rows[r].etag = 0 => rows[r].count = 0

\* What a check read is not newer than the row, and a row with the same etag
\* still has the count that was read.
SeenIsPast ==
    \A c \in Checks : pc[c] = "update" =>
        /\ seen[c].etag <= rows[Here(c)].etag
        /\ seen[c].etag = rows[Here(c)].etag => seen[c].count = rows[Here(c)].count

\* A check that is under way holds no place in the counter it is at, holds an
\* allowed place in the key's counter once it is at the caller's, and has
\* attempts left.
UnderWay ==
    \A c \in Checks : pc[c] \in Waiting =>
        /\ retries[c] < MaxRetries
        /\ answer[c] = "none"
        /\ ticket[c][scope[c]] = 0
        /\ scope[c] = "key" => ticket[c]["caller"] = 0
        /\ scope[c] = "caller" => ticket[c]["key"] \in 1..KeyLimit

\* A check that was not called has left no trace.
NotCalled ==
    \A c \in Checks : pc[c] = "idle" =>
        /\ scope[c] = "key" /\ retries[c] = 0 /\ answer[c] = "none"
        /\ \A s \in Scopes : ticket[c][s] = 0

\* A check that passed was counted within both limits.
OkIsCounted ==
    \A c \in Checks : answer[c] = "ok" =>
        \A s \in Scopes : ticket[c][s] \in 1..Limit(s)

IInv ==
    /\ TypeOK /\ AbsentIsZero /\ SeenIsPast /\ UnderWay /\ NotCalled
    /\ OkIsCounted /\ CallerBudgetNeedsKey /\ NoLostIncrement

\* The row a check counts in is a row of the table.
LEMMA RowOfType ==
    ASSUME TypeOK, NEW c \in Checks, NEW s \in Scopes
    PROVE  RowOf(c, s) \in Row
BY DEF TypeOK, RowOf, Row, Scopes

LEMMA InitIInv == Init => IInv
<1> SUFFICES ASSUME Init PROVE IInv
  OBVIOUS
<1>1. TypeOK
  BY DEF Init, TypeOK, Absent, Entity, Scopes, Answers, Window, Waiting
<1>2. /\ UnderWay /\ SeenIsPast /\ NotCalled /\ OkIsCounted /\ CallerBudgetNeedsKey
      /\ AbsentIsZero
  BY <1>1 DEF Init, UnderWay, SeenIsPast, NotCalled, OkIsCounted, Waiting, Scopes,
     CallerBudgetNeedsKey, AbsentIsZero, Absent
<1>3. NoLostIncrement
  BY <1>1, RowOfType DEF Init, NoLostIncrement, Absent, Scopes
<1> QED
  BY <1>1, <1>2, <1>3 DEF IInv

--------------------------------------------------------------------------------
(* What the pieces of the handler do to the types. *)

LEMMA GiveUpType ==
    ASSUME TypeOK, NEW c \in Checks, GiveUp(c)
    PROVE  /\ answer' \in [Checks -> Answers]
           /\ pc' \in [Checks -> {"idle", "done", "lost"} \cup Waiting]
BY DEF TypeOK, GiveUp, Answer, Answers

LEMMA ConflictType ==
    ASSUME TypeOK, UnderWay, NEW c \in Checks, pc[c] \in Waiting, Conflict(c)
    PROVE  /\ answer' \in [Checks -> Answers]
           /\ pc' \in [Checks -> {"idle", "done", "lost"} \cup Waiting]
           /\ retries' \in [Checks -> 0..MaxRetries]
           /\ scope' \in [Checks -> Scopes]
           /\ ticket' \in [Checks -> [Scopes -> Nat]]
<1>1. retries[c] < MaxRetries /\ retries[c] \in Nat
  BY DEF UnderWay, TypeOK
<1>2. retries' \in [Checks -> 0..MaxRetries]
  BY <1>1 DEF Conflict, TypeOK
<1>3. scope' \in [Checks -> Scopes] /\ ticket' \in [Checks -> [Scopes -> Nat]]
  BY DEF Conflict, TypeOK
<1>4. CASE GiveUp(c)
  BY <1>2, <1>3, <1>4, GiveUpType
<1>5. CASE pc' = [pc EXCEPT ![c] = "backoff"] /\ UNCHANGED answer
  BY <1>2, <1>3, <1>5 DEF TypeOK, Waiting
<1> QED
  BY <1>4, <1>5 DEF Conflict

LEMMA CountedType ==
    ASSUME TypeOK, NEW c \in Checks, NEW n \in Nat, Counted(c, n)
    PROVE  /\ answer' \in [Checks -> Answers]
           /\ pc' \in [Checks -> {"idle", "done", "lost"} \cup Waiting]
           /\ retries' \in [Checks -> 0..MaxRetries]
           /\ scope' \in [Checks -> Scopes]
           /\ ticket' \in [Checks -> [Scopes -> Nat]]
<1>1. ticket' \in [Checks -> [Scopes -> Nat]]
  BY DEF Counted, TypeOK
<1>0. 0 \in 0..MaxRetries
  OBVIOUS
<1>2. scope' \in [Checks -> Scopes] /\ retries' \in [Checks -> 0..MaxRetries]
  <2>1. CASE UNCHANGED <<scope, retries>>
    BY <2>1 DEF TypeOK
  <2>2. CASE scope' = [scope EXCEPT ![c] = "caller"] /\ retries' = [retries EXCEPT ![c] = 0]
    BY <1>0, <2>2 DEF TypeOK, Scopes
  <2> QED
    BY <2>1, <2>2 DEF Counted
<1>3. answer' \in [Checks -> Answers]
  BY DEF Counted, TypeOK, Answer, Answers
<1>4. pc' \in [Checks -> {"idle", "done", "lost"} \cup Waiting]
  BY DEF Counted, TypeOK, Answer, Waiting
<1> QED
  BY <1>1, <1>2, <1>3, <1>4

LEMMA WriteUnseenType ==
    ASSUME TypeOK, UnderWay, NEW c \in Checks, pc[c] \in Waiting, WriteUnseen(c)
    PROVE  /\ answer' \in [Checks -> Answers]
           /\ pc' \in [Checks -> {"idle", "done", "lost"} \cup Waiting]
           /\ retries' \in [Checks -> 0..MaxRetries]
           /\ scope' \in [Checks -> Scopes]
           /\ ticket' \in [Checks -> [Scopes -> Nat]]
           /\ faults' \in 0..MaxFaults
<1>1. faults' \in 0..MaxFaults
  BY DEF WriteUnseen, Fault, TypeOK
<1>2. CASE Conflict(c)
  BY <1>1, <1>2, ConflictType
<1>3. CASE GiveUp(c) /\ UNCHANGED <<scope, retries, ticket>>
  BY <1>1, <1>3, GiveUpType DEF TypeOK
<1> QED
  BY <1>2, <1>3 DEF WriteUnseen

LEMMA StorageFailsType ==
    ASSUME TypeOK, NEW c \in Checks, StorageFails(c)
    PROVE  /\ answer' \in [Checks -> Answers]
           /\ pc' \in [Checks -> {"idle", "done", "lost"} \cup Waiting]
           /\ faults' \in 0..MaxFaults
           /\ UNCHANGED <<rows, scope, retries, ticket>>
BY GiveUpType DEF StorageFails, Fault, TypeOK

LEMMA WriteType ==
    ASSUME TypeOK, NEW c \in Checks, NEW n \in Nat, Write(c, n)
    PROVE  rows' \in [Row -> Entity]
<1>1. Here(c) \in Row
  BY RowOfType DEF Here, TypeOK
<1>2. rows[Here(c)].etag + 1 \in Nat
  BY <1>1 DEF TypeOK, Entity
<1>3. [count |-> n, etag |-> rows[Here(c)].etag + 1] \in Entity
  BY <1>2 DEF Entity
<1> QED
  BY <1>1, <1>3 DEF Write, TypeOK

\* Every step keeps every variable in its type.
LEMMA TypeStep == IInv /\ [Next]_vars => TypeOK'
<1> SUFFICES ASSUME IInv, [Next]_vars PROVE TypeOK'
  OBVIOUS
<1> USE DEF IInv
<1>1. ASSUME NEW c \in Checks, Start(c) PROVE TypeOK'
  <2>1. pc' \in [Checks -> {"idle", "done", "lost"} \cup Waiting]
    BY <1>1, GiveUpType DEF Start, TypeOK, Answer, Waiting
  <2>2. answer' \in [Checks -> Answers]
    BY <1>1, GiveUpType DEF Start, TypeOK, Answer, Answers
  <2>3. window' \in [Checks -> Window]
    BY <1>1 DEF Start, TypeOK
  <2> QED
    BY <1>1, <2>1, <2>2, <2>3 DEF Start, TypeOK
<1>2. ASSUME NEW c \in Checks, Connect(c) PROVE TypeOK'
  <2>1. pc' \in [Checks -> {"idle", "done", "lost"} \cup Waiting]
    BY <1>2, GiveUpType DEF Connect, TypeOK, Waiting
  <2>2. answer' \in [Checks -> Answers] /\ faults' \in 0..MaxFaults
    BY <1>2, GiveUpType DEF Connect, TypeOK, Fault
  <2>3. client' \in [Hosts -> BOOLEAN] /\ initError' \in [Hosts -> BOOLEAN]
    BY <1>2 DEF Connect, TypeOK
  <2> QED
    BY <1>2, <2>1, <2>2, <2>3 DEF Connect, TypeOK
<1>3. ASSUME NEW c \in Checks, Read(c) PROVE TypeOK'
  <2> Here(c) \in Row
    BY RowOfType DEF Here, TypeOK
  <2>1. CASE pc' = [pc EXCEPT ![c] = "create"]
             /\ UNCHANGED <<faults, rows, scope, seen, retries, ticket, answer>>
    BY <1>3, <2>1 DEF Read, TypeOK, Waiting
  <2>2. CASE /\ seen' = [seen EXCEPT ![c] = rows[Here(c)]]
             /\ pc' = [pc EXCEPT ![c] = "update"]
             /\ UNCHANGED <<faults, rows, scope, retries, ticket, answer>>
    BY <1>3, <2>2 DEF Read, TypeOK, Waiting
  <2>3. CASE Conflict(c) /\ UNCHANGED <<faults, rows, seen>>
    BY <1>3, <2>3, ConflictType DEF Read, TypeOK, Waiting
  <2>4. CASE StorageFails(c) /\ UNCHANGED seen
    BY <1>3, <2>4, StorageFailsType DEF Read, TypeOK
  <2> QED
    BY <1>3, <2>1, <2>2, <2>3, <2>4 DEF Read
<1>4. ASSUME NEW c \in Checks, Create(c) PROVE TypeOK'
  <2>1. CASE Write(c, 1) /\ Counted(c, 1) /\ UNCHANGED faults
    BY <1>4, <2>1, WriteType, CountedType DEF Create, TypeOK
  <2>2. CASE Write(c, 1) /\ WriteUnseen(c)
    BY <1>4, <2>2, WriteType, WriteUnseenType DEF Create, TypeOK, Waiting
  <2>3. CASE Conflict(c) /\ UNCHANGED <<faults, rows>>
    BY <1>4, <2>3, ConflictType DEF Create, TypeOK, Waiting
  <2>4. CASE StorageFails(c)
    BY <1>4, <2>4, StorageFailsType DEF Create, TypeOK
  <2> QED
    BY <1>4, <2>1, <2>2, <2>3, <2>4 DEF Create
<1>5. ASSUME NEW c \in Checks, Update(c) PROVE TypeOK'
  <2> DEFINE n == seen[c].count + 1
  <2>0. n \in Nat
    BY DEF TypeOK, Entity
  <2> HIDE DEF n
  <2>1. CASE Write(c, n) /\ Counted(c, n) /\ UNCHANGED faults
    BY <1>5, <2>0, <2>1, WriteType, CountedType DEF Update, TypeOK
  <2>2. CASE Write(c, n) /\ WriteUnseen(c)
    BY <1>5, <2>0, <2>2, WriteType, WriteUnseenType DEF Update, TypeOK, Waiting
  <2>3. CASE Conflict(c) /\ UNCHANGED <<faults, rows>>
    BY <1>5, <2>3, ConflictType DEF Update, TypeOK, Waiting
  <2>4. CASE StorageFails(c)
    BY <1>5, <2>4, StorageFailsType DEF Update, TypeOK
  <2> QED
    BY <1>5, <2>1, <2>2, <2>3, <2>4 DEF Update, n
<1>6. ASSUME NEW c \in Checks, Backoff(c) PROVE TypeOK'
  BY <1>6 DEF Backoff, TypeOK, Waiting
<1>7. ASSUME NEW h \in Hosts, Restart(h) PROVE TypeOK'
  BY <1>7 DEF Restart, TypeOK, Fault
<1>8. CASE Tick
  BY <1>8 DEF Tick, TypeOK, Window
<1>9. CASE UNCHANGED vars
  BY <1>9 DEF vars, TypeOK
<1> QED
  BY <1>1, <1>2, <1>3, <1>4, <1>5, <1>6, <1>7, <1>8, <1>9 DEF Next, Step, Finished

--------------------------------------------------------------------------------
(* The invariants that concern one check at a time. *)

Local(c) ==
    /\ pc[c] \in Waiting =>
         /\ retries[c] < MaxRetries
         /\ answer[c] = "none"
         /\ ticket[c][scope[c]] = 0
         /\ scope[c] = "key" => ticket[c]["caller"] = 0
         /\ scope[c] = "caller" => ticket[c]["key"] \in 1..KeyLimit
    /\ pc[c] = "idle" =>
         /\ scope[c] = "key" /\ retries[c] = 0 /\ answer[c] = "none"
         /\ \A s \in Scopes : ticket[c][s] = 0
    /\ answer[c] = "ok" => \A s \in Scopes : ticket[c][s] \in 1..Limit(s)
    /\ ticket[c]["caller"] # 0 => ticket[c]["key"] \in 1..KeyLimit
    /\ answer[c] = "bypass" => FailMode = "open"

LEMMA LocalIsAll ==
    (\A c \in Checks : Local(c))
      <=> UnderWay /\ NotCalled /\ OkIsCounted /\ CallerBudgetNeedsKey
BY DEF Local, UnderWay, NotCalled, OkIsCounted, CallerBudgetNeedsKey, Scopes, Limit

\* Leaving with an answer, or with a retry, keeps a check's own invariant.
LEMMA GiveUpLocal ==
    ASSUME TypeOK, NEW c \in Checks, Local(c), pc[c] \in Waiting \cup {"idle"}, GiveUp(c),
           UNCHANGED <<scope, retries, ticket>>
    PROVE  Local(c)'
<1>1. pc'[c] = "done" /\ answer'[c] \in {"bypass", "unavailable"}
      /\ (answer'[c] = "bypass" => FailMode = "open")
  BY DEF GiveUp, Answer, TypeOK
<1> QED
  BY <1>1 DEF Local, Waiting

LEMMA ConflictLocal ==
    ASSUME TypeOK, NEW c \in Checks, Local(c), pc[c] \in Waiting, Conflict(c)
    PROVE  Local(c)'
<1>1. /\ scope' = scope /\ ticket' = ticket
      /\ retries'[c] = retries[c] + 1
  BY DEF Conflict, TypeOK
<1>2. CASE GiveUp(c)
  <2>1. pc'[c] = "done" /\ answer'[c] \in {"bypass", "unavailable"}
        /\ (answer'[c] = "bypass" => FailMode = "open")
    BY <1>2 DEF GiveUp, Answer, TypeOK
  <2> QED
    BY <1>1, <2>1 DEF Local, Waiting
<1>3. CASE retries[c] + 1 < MaxRetries /\ pc' = [pc EXCEPT ![c] = "backoff"] /\ UNCHANGED answer
  <2>1. pc'[c] = "backoff"
    BY <1>3 DEF TypeOK
  <2> QED
    BY <1>1, <1>3, <2>1 DEF Local, Waiting
<1> QED
  BY <1>2, <1>3 DEF Conflict

LEMMA CountedLocal ==
    ASSUME TypeOK, NEW c \in Checks, Local(c), pc[c] \in Waiting,
           NEW n \in Nat \ {0}, Counted(c, n)
    PROVE  Local(c)'
<1>1. \A s \in Scopes : ticket'[c][s] = IF s = scope[c] THEN n ELSE ticket[c][s]
  BY DEF Counted, TypeOK
<1>2. scope[c] \in Scopes /\ "key" \in Scopes /\ "caller" \in Scopes
  BY DEF TypeOK, Scopes
<1>3. CASE ~Within(scope[c], n)
  <2>1. pc'[c] = "done" /\ answer'[c] \in {"keyExhausted", "callerExhausted"}
    BY <1>3 DEF Counted, Answer, TypeOK
  <2> QED
    BY <1>1, <1>2, <2>1 DEF Local, Waiting, Scopes
<1>4. CASE Within(scope[c], n) /\ scope[c] = "key"
  <2>1. /\ pc'[c] = "read" /\ answer' = answer /\ scope'[c] = "caller"
        /\ retries'[c] = 0 /\ n <= KeyLimit
    BY <1>4 DEF Counted, TypeOK, Within, Limit
  <2> QED
    BY <1>1, <1>2, <1>4, <2>1 DEF Local, Waiting
<1>5. CASE Within(scope[c], n) /\ scope[c] = "caller"
  <2>1. pc'[c] = "done" /\ answer'[c] = "ok" /\ n <= CallerLimit
    BY <1>5 DEF Counted, Answer, TypeOK, Within, Limit
  <2>2. ticket'[c]["caller"] = n /\ ticket'[c]["key"] = ticket[c]["key"]
    BY <1>1, <1>2, <1>5
  <2>3. ticket'[c]["key"] \in 1..KeyLimit
    BY <2>2, <1>5 DEF Local
  <2> QED
    BY <2>1, <2>2, <2>3 DEF Local, Waiting, Scopes, Limit
<1> QED
  BY <1>2, <1>3, <1>4, <1>5 DEF Scopes

\* A step of check c does not touch what any other check holds.
Untouched(d) ==
    /\ pc'[d] = pc[d] /\ scope'[d] = scope[d] /\ retries'[d] = retries[d]
    /\ ticket'[d] = ticket[d] /\ answer'[d] = answer[d] /\ window'[d] = window[d]
    /\ seen'[d] = seen[d]

LEMMA OthersUntouched ==
    ASSUME TypeOK, NEW c \in Checks, Step(c), NEW d \in Checks, d # c
    PROVE  Untouched(d)
<1>1. ASSUME GiveUp(c) PROVE pc'[d] = pc[d] /\ answer'[d] = answer[d]
  BY <1>1 DEF GiveUp, Answer, TypeOK
<1>2. ASSUME Conflict(c)
      PROVE  /\ pc'[d] = pc[d] /\ answer'[d] = answer[d] /\ scope' = scope
             /\ ticket' = ticket /\ retries'[d] = retries[d]
  BY <1>1, <1>2 DEF Conflict, TypeOK
<1>3. ASSUME NEW n, Counted(c, n)
      PROVE  /\ pc'[d] = pc[d] /\ answer'[d] = answer[d] /\ scope'[d] = scope[d]
             /\ ticket'[d] = ticket[d] /\ retries'[d] = retries[d]
  BY <1>3 DEF Counted, Answer, TypeOK
<1>4. ASSUME StorageFails(c)
      PROVE  /\ pc'[d] = pc[d] /\ answer'[d] = answer[d] /\ scope' = scope
             /\ ticket' = ticket /\ retries' = retries
  BY <1>1, <1>4 DEF StorageFails
<1>5. ASSUME WriteUnseen(c)
      PROVE  /\ pc'[d] = pc[d] /\ answer'[d] = answer[d] /\ scope' = scope
             /\ ticket' = ticket /\ retries'[d] = retries[d]
  BY <1>1, <1>2, <1>5 DEF WriteUnseen
<1>6. CASE Start(c)
  BY <1>1, <1>6 DEF Start, Untouched, TypeOK, Answer
<1>7. CASE Connect(c)
  BY <1>1, <1>7 DEF Connect, Untouched, TypeOK
<1>8. CASE Read(c)
  BY <1>2, <1>4, <1>8 DEF Read, Untouched, TypeOK
<1>9. CASE Create(c)
  BY <1>2, <1>3, <1>4, <1>5, <1>9 DEF Create, Untouched, TypeOK
<1>10. CASE Update(c)
  BY <1>2, <1>3, <1>4, <1>5, <1>10 DEF Update, Untouched, TypeOK
<1>11. CASE Backoff(c)
  BY <1>11 DEF Backoff, Untouched, TypeOK
<1> QED
  BY <1>6, <1>7, <1>8, <1>9, <1>10, <1>11 DEF Step

LEMMA UntouchedLocal ==
    ASSUME NEW d \in Checks, Local(d), Untouched(d)
    PROVE  Local(d)'
BY DEF Local, Untouched

LEMMA LocalStep == IInv /\ [Next]_vars => \A d \in Checks : Local(d)'
<1> SUFFICES ASSUME IInv, [Next]_vars, NEW d \in Checks PROVE Local(d)'
  OBVIOUS
<1>0. TypeOK /\ Local(d)
  BY LocalIsAll DEF IInv
<1>1. CASE Start(d)
  <2>1. pc[d] = "idle" /\ UNCHANGED <<scope, retries, ticket>>
    BY <1>1 DEF Start
  <2>2. CASE GiveUp(d)
    BY <1>0, <2>1, <2>2, GiveUpLocal
  <2>3. CASE Answer(d, "missing")
    <3>1. pc'[d] = "done" /\ answer'[d] = "missing"
      BY <1>0, <2>3 DEF Answer, TypeOK
    <3> QED
      BY <1>0, <2>1, <3>1 DEF Local, Waiting
  <2>4. CASE UNCHANGED answer /\ (pc' = [pc EXCEPT ![d] = "read"]
                                  \/ pc' = [pc EXCEPT ![d] = "connect"])
    <3>1. pc'[d] \in {"read", "connect"}
      BY <1>0, <2>4 DEF TypeOK
    <3> QED
      BY <1>0, <2>1, <2>4, <3>1 DEF Local, Waiting, TypeOK, Scopes
  <2> QED
    BY <1>1, <2>2, <2>3, <2>4 DEF Start
<1>2. CASE Connect(d)
  <2>1. pc[d] = "connect" /\ UNCHANGED <<scope, retries, ticket>>
    BY <1>2 DEF Connect
  <2>2. CASE GiveUp(d)
    BY <1>0, <2>1, <2>2, GiveUpLocal DEF Waiting
  <2>3. CASE pc' = [pc EXCEPT ![d] = "read"] /\ UNCHANGED answer
    <3>1. pc'[d] = "read"
      BY <1>0, <2>3 DEF TypeOK
    <3> QED
      BY <1>0, <2>1, <2>3, <3>1 DEF Local, Waiting
  <2> QED
    BY <1>2, <2>2, <2>3 DEF Connect
<1>3. ASSUME StorageFails(d), pc[d] \in Waiting PROVE Local(d)'
  BY <1>0, <1>3, GiveUpLocal DEF StorageFails
<1>4. ASSUME WriteUnseen(d), pc[d] \in Waiting PROVE Local(d)'
  BY <1>0, <1>4, GiveUpLocal, ConflictLocal DEF WriteUnseen
<1>5. CASE Read(d)
  <2>1. pc[d] = "read"
    BY <1>5 DEF Read
  <2>2. CASE UNCHANGED <<scope, retries, ticket, answer>>
             /\ (pc' = [pc EXCEPT ![d] = "create"] \/ pc' = [pc EXCEPT ![d] = "update"])
    <3>1. pc'[d] \in {"create", "update"}
      BY <1>0, <2>2 DEF TypeOK
    <3> QED
      BY <1>0, <2>1, <2>2, <3>1 DEF Local, Waiting
  <2>3. CASE Conflict(d)
    BY <1>0, <2>1, <2>3, ConflictLocal DEF Waiting
  <2>4. CASE StorageFails(d)
    BY <1>3, <2>1, <2>4 DEF Waiting
  <2> QED
    BY <1>5, <2>2, <2>3, <2>4 DEF Read
<1>6. CASE Create(d)
  <2>1. pc[d] = "create"
    BY <1>6 DEF Create
  <2>2. CASE Counted(d, 1)
    BY <1>0, <2>1, <2>2, CountedLocal DEF Waiting
  <2>3. CASE Conflict(d)
    BY <1>0, <2>1, <2>3, ConflictLocal DEF Waiting
  <2> QED
    BY <1>3, <1>4, <1>6, <2>1, <2>2, <2>3 DEF Create, Waiting
<1>7. CASE Update(d)
  <2>1. pc[d] = "update" /\ seen[d].count + 1 \in Nat \ {0}
    BY <1>0, <1>7 DEF Update, TypeOK, Entity
  <2>2. CASE Counted(d, seen[d].count + 1)
    BY <1>0, <2>1, <2>2, CountedLocal DEF Waiting
  <2>3. CASE Conflict(d)
    BY <1>0, <2>1, <2>3, ConflictLocal DEF Waiting
  <2> QED
    BY <1>3, <1>4, <1>7, <2>1, <2>2, <2>3 DEF Update, Waiting
<1>8. CASE Backoff(d)
  <2>1. pc[d] = "backoff" /\ pc'[d] = "read" /\ UNCHANGED <<scope, retries, ticket, answer>>
    BY <1>0, <1>8 DEF Backoff, TypeOK
  <2> QED
    BY <1>0, <2>1 DEF Local, Waiting
<1>9. ASSUME NEW c \in Checks, Step(c), c # d PROVE Local(d)'
  BY <1>0, <1>9, OthersUntouched, UntouchedLocal
<1>10. ASSUME NEW h \in Hosts, Restart(h) PROVE Local(d)'
  <2>1. /\ UNCHANGED <<scope, retries, ticket, answer>>
        /\ pc'[d] = "lost" \/ pc'[d] = pc[d]
    BY <1>10 DEF Restart
  <2> QED
    BY <1>0, <2>1 DEF Local, Waiting
<1>11. CASE Tick \/ UNCHANGED vars
  BY <1>0, <1>11 DEF Tick, vars, Local
<1> QED
  BY <1>1, <1>2, <1>5, <1>6, <1>7, <1>8, <1>9, <1>10, <1>11 DEF Next, Step, Finished

--------------------------------------------------------------------------------
(* The invariants that relate the checks to the table. *)

\* A counter takes one more increment; the others do not move.
Bumped(r) ==
    rows' = [rows EXCEPT ![r] = [count |-> rows[r].count + 1, etag |-> rows[r].etag + 1]]

\* The table is only written by a create of an absent row or an update whose
\* etag still matches, and both add exactly one.
LEMMA WriteBumps ==
    ASSUME IInv, NEW c \in Checks,
           \/ pc[c] = "create" /\ Unclaimed(c) /\ Write(c, 1)
           \/ pc[c] = "update" /\ Matches(c) /\ Write(c, seen[c].count + 1)
    PROVE  Bumped(Here(c))
<1>1. Here(c) \in Row
  BY RowOfType DEF Here, TypeOK, IInv
<1>2. CASE pc[c] = "create" /\ Unclaimed(c) /\ Write(c, 1)
  <2>1. rows[Here(c)].count = 0
    BY <1>1, <1>2 DEF IInv, AbsentIsZero, Unclaimed
  <2> QED
    BY <1>2, <2>1 DEF Write, Bumped
<1>3. CASE pc[c] = "update" /\ Matches(c) /\ Write(c, seen[c].count + 1)
  <2>1. seen[c].count = rows[Here(c)].count
    BY <1>3 DEF IInv, SeenIsPast, Matches
  <2> QED
    BY <1>3, <2>1 DEF Write, Bumped
<1> QED
  BY <1>2, <1>3

\* Every step leaves the table alone, or is the write of one check: counted,
\* and then the check is told the new count, or unseen.
LEMMA TableStep ==
    ASSUME IInv, [Next]_vars
    PROVE  \/ rows' = rows /\ ticket' = ticket
           \/ \E c \in Checks :
                /\ pc[c] \in {"create", "update"} /\ window' = window /\ seen' = seen
                /\ pc'[c] # "update"
                /\ Bumped(Here(c))
                /\ \/ ticket' = ticket
                   \/ ticket' = [ticket EXCEPT ![c][scope[c]] = rows[Here(c)].count + 1]
<1>1. ASSUME NEW c \in Checks, Conflict(c)
      PROVE  ticket' = ticket /\ pc'[c] # "update"
  BY <1>1 DEF Conflict, GiveUp, Answer, IInv, TypeOK
<1>2. ASSUME NEW c \in Checks, WriteUnseen(c)
      PROVE  ticket' = ticket /\ pc'[c] # "update"
  BY <1>1, <1>2 DEF WriteUnseen, GiveUp, Answer, IInv, TypeOK
<1>3. ASSUME NEW c \in Checks, NEW n, Counted(c, n)
      PROVE  ticket' = [ticket EXCEPT ![c][scope[c]] = n] /\ pc'[c] # "update"
  BY <1>3 DEF Counted, Answer, IInv, TypeOK
<1>4. ASSUME NEW c \in Checks, Create(c), ~UNCHANGED rows
      PROVE  /\ pc[c] = "create" /\ window' = window /\ seen' = seen /\ pc'[c] # "update"
             /\ Bumped(Here(c))
             /\ \/ ticket' = ticket
                \/ ticket' = [ticket EXCEPT ![c][scope[c]] = rows[Here(c)].count + 1]
  <2>1. /\ pc[c] = "create" /\ Unclaimed(c) /\ Write(c, 1) /\ window' = window /\ seen' = seen
        /\ Counted(c, 1) \/ WriteUnseen(c)
    BY <1>4 DEF Create, StorageFails
  <2>2. rows[Here(c)].count = 0
    BY <2>1, RowOfType DEF IInv, AbsentIsZero, Unclaimed, Here, TypeOK
  <2> QED
    BY <1>2, <1>3, <2>1, <2>2, WriteBumps
<1>5. ASSUME NEW c \in Checks, Update(c), ~UNCHANGED rows
      PROVE  /\ pc[c] = "update" /\ window' = window /\ seen' = seen /\ pc'[c] # "update"
             /\ Bumped(Here(c))
             /\ \/ ticket' = ticket
                \/ ticket' = [ticket EXCEPT ![c][scope[c]] = rows[Here(c)].count + 1]
  <2>1. /\ pc[c] = "update" /\ Matches(c) /\ Write(c, seen[c].count + 1)
        /\ window' = window /\ seen' = seen
        /\ Counted(c, seen[c].count + 1) \/ WriteUnseen(c)
    BY <1>5 DEF Update, StorageFails
  <2>2. rows[Here(c)].count = seen[c].count
    BY <2>1 DEF IInv, SeenIsPast, Matches
  <2> QED
    BY <1>2, <1>3, <2>1, <2>2, WriteBumps
<1>6. ASSUME NEW c \in Checks, Create(c) \/ Update(c), UNCHANGED rows
      PROVE  ticket' = ticket
  <2>1. ASSUME NEW n \in Nat, Write(c, n) PROVE FALSE
    <3>1. Here(c) \in Row
      BY RowOfType DEF Here, TypeOK, IInv
    <3>2. rows'[Here(c)].etag = rows[Here(c)].etag + 1 /\ rows[Here(c)].etag \in Nat
      BY <2>1, <3>1 DEF Write, IInv, TypeOK, Entity
    <3> QED
      BY <1>6, <3>2
  <2>2. seen[c].count + 1 \in Nat
    BY DEF IInv, TypeOK, Entity
  <2>3. CASE Create(c)
    BY <1>1, <2>1, <2>3 DEF Create, StorageFails
  <2>4. CASE Update(c)
    BY <1>1, <2>1, <2>2, <2>4 DEF Update, StorageFails
  <2> QED
    BY <1>6, <2>3, <2>4
<1>7. ASSUME NEW c \in Checks, Step(c), ~Create(c), ~Update(c)
      PROVE  rows' = rows /\ ticket' = ticket
  BY <1>1, <1>7 DEF Step, Start, Connect, Read, Backoff, StorageFails
<1>8. ASSUME (\E h \in Hosts : Restart(h)) \/ Tick \/ UNCHANGED vars
      PROVE  rows' = rows /\ ticket' = ticket
  BY <1>8 DEF Restart, Tick, vars
<1> QED
  BY <1>4, <1>5, <1>6, <1>7, <1>8 DEF Next, Finished, Step

\* Counters and etags only grow, and an etag names one count for ever.
LEMMA BumpGrows ==
    ASSUME TypeOK, NEW q \in Row, Bumped(q), NEW r \in Row
    PROVE  /\ rows[r].count <= rows'[r].count /\ rows[r].etag <= rows'[r].etag
           /\ rows'[r].etag = rows[r].etag => rows'[r] = rows[r]
           /\ rows'[r].etag # 0 \/ rows'[r] = rows[r]
           /\ rows'[q].count = rows[q].count + 1
<1>1. rows[q].etag \in Nat /\ rows[q].count \in Nat /\ rows[r].etag \in Nat /\ rows[r].count \in Nat
  BY DEF TypeOK, Entity
<1>2. rows'[r] = IF r = q THEN [count |-> rows[q].count + 1, etag |-> rows[q].etag + 1] ELSE rows[r]
  BY DEF Bumped, TypeOK
<1>3. rows'[q] = [count |-> rows[q].count + 1, etag |-> rows[q].etag + 1]
  BY DEF Bumped, TypeOK
<1> QED
  BY <1>1, <1>2, <1>3

LEMMA TableGrows ==
    ASSUME IInv, [Next]_vars, NEW r \in Row
    PROVE  /\ rows[r].count <= rows'[r].count /\ rows[r].etag <= rows'[r].etag
           /\ rows'[r].etag = rows[r].etag => rows'[r] = rows[r]
           /\ rows'[r].etag # 0 \/ rows'[r] = rows[r]
<1>1. CASE rows' = rows
  BY <1>1 DEF IInv, TypeOK, Entity
<1>2. ASSUME NEW c \in Checks, Bumped(Here(c))
      PROVE  /\ rows[r].count <= rows'[r].count /\ rows[r].etag <= rows'[r].etag
             /\ rows'[r].etag = rows[r].etag => rows'[r] = rows[r]
             /\ rows'[r].etag # 0 \/ rows'[r] = rows[r]
  BY <1>2, BumpGrows, RowOfType DEF IInv, Here, TypeOK
<1> QED
  BY <1>1, <1>2, TableStep

\* The row of a check changes only while the check has not been called.
LEMMA RowOfFixed ==
    ASSUME IInv, [Next]_vars, NEW c \in Checks, NEW s \in Scopes, pc[c] # "idle"
    PROVE  RowOf(c, s)' = RowOf(c, s)
<1>1. req' = req
  BY DEF Next, Step, Start, Connect, Read, Create, Update, Backoff, Restart, Tick, Finished, vars
<1>2. window'[c] = window[c]
  <2>1. CASE Start(c)
    BY <2>1 DEF Start
  <2>2. ASSUME NEW d \in Checks, Start(d), d # c PROVE window'[c] = window[c]
    BY <2>2 DEF Start, IInv, TypeOK
  <2>3. CASE ~\E d \in Checks : Start(d)
    BY <2>3 DEF Next, Step, Connect, Read, Create, Update, Backoff, Restart, Tick, Finished, vars
  <2> QED
    BY <2>1, <2>2, <2>3
<1> QED
  BY <1>1, <1>2 DEF RowOf

LEMMA AbsentStep == IInv /\ [Next]_vars => AbsentIsZero'
<1> SUFFICES ASSUME IInv, [Next]_vars, NEW r \in Row, rows'[r].etag = 0
             PROVE  rows'[r].count = 0
  BY DEF AbsentIsZero, Row, Window
<1> QED
  BY TableGrows DEF IInv, AbsentIsZero

LEMMA SeenStep == IInv /\ [Next]_vars => SeenIsPast'
<1> SUFFICES ASSUME IInv, [Next]_vars, NEW c \in Checks, pc'[c] = "update"
             PROVE  /\ seen'[c].etag <= rows'[Here(c)'].etag
                    /\ seen'[c].etag = rows'[Here(c)'].etag => seen'[c].count = rows'[Here(c)'].count
  BY DEF SeenIsPast
<1>0. TypeOK /\ Here(c) \in Row /\ scope[c] \in Scopes
  BY RowOfType DEF IInv, Here, TypeOK
<1>2. CASE /\ pc[c] = "read" /\ seen' = [seen EXCEPT ![c] = rows[Here(c)]]
           /\ UNCHANGED <<rows, scope>>
  <2>1. Here(c)' = Here(c)
    BY <1>0, <1>2, RowOfFixed DEF Here
  <2> QED
    BY <1>0, <1>2, <2>1 DEF TypeOK, Entity
<1>3. CASE Step(c)
  <2>1. ASSUME GiveUp(c) \/ Conflict(c) \/ (\E n : Counted(c, n)) PROVE FALSE
    BY <1>0, <2>1 DEF GiveUp, Conflict, Counted, Answer, TypeOK
  <2>2. CASE Read(c)
    BY <1>0, <1>2, <2>1, <2>2 DEF Read, StorageFails, TypeOK
  <2>3. CASE Start(c) \/ Connect(c) \/ Backoff(c)
    BY <1>0, <2>1, <2>3 DEF Start, Connect, Backoff, Answer, TypeOK
  <2>4. CASE Create(c) \/ Update(c)
    BY <2>1, <2>4 DEF Create, Update, StorageFails, WriteUnseen
  <2> QED
    BY <1>3, <2>2, <2>3, <2>4 DEF Step
<1>4. ASSUME NEW d \in Checks, Step(d), d # c
      PROVE  pc[c] = "update" /\ seen'[c] = seen[c] /\ scope'[c] = scope[c]
  BY <1>0, <1>4, OthersUntouched DEF Untouched
<1>5. ASSUME pc[c] = "update", seen'[c] = seen[c], scope'[c] = scope[c]
      PROVE  /\ seen'[c].etag <= rows'[Here(c)'].etag
             /\ seen'[c].etag = rows'[Here(c)'].etag => seen'[c].count = rows'[Here(c)'].count
  <2>1. Here(c)' = Here(c)
    BY <1>0, <1>5, RowOfFixed DEF Here
  <2>2. /\ seen[c].etag <= rows[Here(c)].etag
        /\ seen[c].etag = rows[Here(c)].etag => seen[c].count = rows[Here(c)].count
    BY <1>5 DEF IInv, SeenIsPast
  <2>3. /\ rows[Here(c)].etag <= rows'[Here(c)].etag
        /\ rows'[Here(c)].etag = rows[Here(c)].etag => rows'[Here(c)] = rows[Here(c)]
    BY <1>0, TableGrows
  <2>4. rows[Here(c)].etag \in Nat /\ rows'[Here(c)].etag \in Nat /\ seen[c].etag \in Nat
    BY <1>0, TypeStep DEF TypeOK, Entity
  <2> QED
    BY <1>5, <2>1, <2>2, <2>3, <2>4
<1>6. ASSUME NEW h \in Hosts, Restart(h) PROVE pc[c] = "update" /\ UNCHANGED <<seen, scope>>
  BY <1>6 DEF Restart
<1>7. CASE Tick \/ UNCHANGED vars
  BY <1>5, <1>7 DEF Tick, vars
<1> QED
  BY <1>3, <1>4, <1>5, <1>6, <1>7 DEF Next, Finished

LEMMA NoLostStep == IInv /\ [Next]_vars => NoLostIncrement'
<1> SUFFICES ASSUME IInv, [Next]_vars, NEW s \in Scopes, NEW c \in Checks
             PROVE  /\ ticket'[c][s] <= rows'[RowOf(c, s)'].count
                    /\ \A d \in Checks :
                         c # d /\ ticket'[c][s] # 0 /\ RowOf(c, s)' = RowOf(d, s)'
                           => ticket'[c][s] # ticket'[d][s]
  BY DEF NoLostIncrement
<1>0. TypeOK /\ TypeOK'
  BY TypeStep DEF IInv
<1>1. \A d \in Checks : /\ RowOf(d, s) \in Row /\ RowOf(d, s)' \in Row
                         /\ ticket[d][s] \in Nat /\ ticket'[d][s] \in Nat
  <2> SUFFICES ASSUME NEW d \in Checks
               PROVE  /\ RowOf(d, s) \in Row /\ RowOf(d, s)' \in Row
                      /\ ticket[d][s] \in Nat /\ ticket'[d][s] \in Nat
    OBVIOUS
  <2>1. RowOf(d, s) \in Row
    BY <1>0, RowOfType
  <2>2. RowOf(d, s)' \in Row
    BY <1>0 DEF TypeOK, RowOf, Row, Scopes
  <2> QED
    BY <1>0, <2>1, <2>2 DEF TypeOK
<1>2. \A r \in Row : /\ rows[r].count \in Nat /\ rows'[r].count \in Nat
                     /\ rows[r].count <= rows'[r].count
  BY <1>0, TableGrows DEF TypeOK, Entity
<1>3. \A d \in Checks : pc[d] = "idle" => ticket[d][s] = 0
  BY DEF IInv, NotCalled
<1>4. \A d \in Checks : pc[d] # "idle" => RowOf(d, s)' = RowOf(d, s)
  BY RowOfFixed
<1>5. \A d \in Checks : /\ ticket[d][s] <= rows[RowOf(d, s)].count
                         /\ \A e \in Checks : d # e /\ ticket[d][s] # 0 /\ RowOf(d, s) = RowOf(e, s)
                                               => ticket[d][s] # ticket[e][s]
  BY DEF IInv, NoLostIncrement
<1>6. CASE ticket' = ticket
  <2>1. ticket'[c][s] <= rows'[RowOf(c, s)'].count
    BY <1>1, <1>2, <1>3, <1>4, <1>5, <1>6
  <2>2. ASSUME NEW d \in Checks, c # d, ticket[c][s] # 0, RowOf(c, s)' = RowOf(d, s)'
        PROVE  ticket[c][s] # ticket[d][s]
    BY <1>3, <1>4, <1>5, <2>2
  <2> QED
    BY <1>6, <2>1, <2>2
<1>7. ASSUME NEW b \in Checks, pc[b] \in {"create", "update"}, window' = window, Bumped(Here(b)),
             ticket' = [ticket EXCEPT ![b][scope[b]] = rows[Here(b)].count + 1]
      PROVE  /\ ticket'[c][s] <= rows'[RowOf(c, s)'].count
             /\ \A d \in Checks :
                  c # d /\ ticket'[c][s] # 0 /\ RowOf(c, s)' = RowOf(d, s)'
                    => ticket'[c][s] # ticket'[d][s]
  <2>1. \A d \in Checks : RowOf(d, s)' = RowOf(d, s)
    <3>1. req' = req
      BY DEF Next, Step, Start, Connect, Read, Create, Update, Backoff, Restart, Tick, Finished, vars
    <3> QED
      BY <1>7, <3>1 DEF RowOf
  <2>2. Here(b) \in Row /\ rows'[Here(b)].count = rows[Here(b)].count + 1
    BY <1>0, <1>7, BumpGrows, RowOfType DEF Here, TypeOK
  <2>3. \A d \in Checks : ticket'[d][s] = IF d = b /\ s = scope[b] THEN rows[Here(b)].count + 1
                                                                   ELSE ticket[d][s]
    BY <1>0, <1>7 DEF TypeOK
  <2>4. s = scope[b] => Here(b) = RowOf(b, s)
    BY DEF Here
  <2>5. ticket'[c][s] <= rows'[RowOf(c, s)].count
    <3>1. CASE c = b /\ s = scope[b]
      BY <1>1, <1>2, <2>2, <2>3, <2>4, <3>1
    <3>2. CASE ~(c = b /\ s = scope[b])
      BY <1>1, <1>2, <1>5, <2>3, <3>2
    <3> QED
      BY <3>1, <3>2
  <2>6. ASSUME NEW d \in Checks, c # d, ticket'[c][s] # 0, RowOf(c, s) = RowOf(d, s)
        PROVE  ticket'[c][s] # ticket'[d][s]
    <3>1. CASE s # scope[b] \/ (c # b /\ d # b)
      BY <1>5, <2>3, <2>6, <3>1
    <3>2. CASE s = scope[b] /\ (c = b \/ d = b)
      <4>1. ticket[c][s] <= rows[RowOf(c, s)].count /\ ticket[d][s] <= rows[RowOf(d, s)].count
        BY <1>5
      <4>2. RowOf(c, s) = Here(b) /\ RowOf(d, s) = Here(b)
        BY <2>4, <2>6, <3>2
      <4> QED
        BY <1>1, <1>2, <2>2, <2>3, <2>6, <3>2, <4>1, <4>2
    <3> QED
      BY <3>1, <3>2
  <2> QED
    BY <2>1, <2>5, <2>6
<1> QED
  BY <1>6, <1>7, TableStep

--------------------------------------------------------------------------------
LEMMA NextIInv == IInv /\ [Next]_vars => IInv'
<1> SUFFICES ASSUME IInv, [Next]_vars PROVE IInv'
  OBVIOUS
<1>1. (UnderWay /\ NotCalled /\ OkIsCounted /\ CallerBudgetNeedsKey)'
  BY LocalStep, LocalIsAll DEF Local, UnderWay, NotCalled, OkIsCounted,
     CallerBudgetNeedsKey, Scopes, Limit
<1> QED
  BY <1>1, TypeStep, AbsentStep, SeenStep, NoLostStep DEF IInv

THEOREM Invariance == Spec => []IInv
<1> QED
  BY InitIInv, NextIInv, PTL DEF Spec

\* Every variable of the quota store keeps its type.
THEOREM TypeCorrect == Spec => []TypeOK
<1>1. IInv => TypeOK
  BY DEF IInv
<1> QED
  BY <1>1, Invariance, PTL

\* No increment is ever lost, whatever interleaving, conflict, lost answer or
\* restart (rate-limiter.js:95).
THEOREM NeverLost == Spec => []NoLostIncrement
<1>1. IInv => NoLostIncrement
  BY DEF IInv
<1> QED
  BY <1>1, Invariance, PTL

\* A caller's budget is spent only behind the key's, and an admission was
\* counted within both (rate-limiter.js:8, :151).
THEOREM CallerAfterKey == Spec => []CallerBudgetNeedsKey
<1>1. IInv => CallerBudgetNeedsKey
  BY DEF IInv
<1> QED
  BY <1>1, Invariance, PTL

\* Admitted checks hold distinct places within the limit, so there are at most
\* as many of them as the limit.
LEMMA AdmittedBound ==
    ASSUME IInv, NEW s \in Scopes, NEW r \in Row
    PROVE  Cardinality(Admitted(s, r)) <= Limit(s)
<1> DEFINE A == Admitted(s, r)
           place == [c \in A |-> ticket[c][s]]
<1>1. A \subseteq Checks
  BY DEF Admitted
<1>2. \A c \in A : ticket[c][s] \in 1..Limit(s)
  BY DEF Admitted, IInv, OkIsCounted
<1>3. \A c, d \in A : c # d => ticket[c][s] # ticket[d][s]
  BY <1>1, <1>2 DEF Admitted, IInv, NoLostIncrement
<1>4. place \in Injection(A, 1..Limit(s))
  <2>1. place \in [A -> 1..Limit(s)]
    BY <1>2
  <2>2. \A a, b \in A : place[a] = place[b] => a = b
    BY <1>3
  <2> QED
    BY <2>1, <2>2 DEF Injection, IsInjective
<1>5. Limit(s) \in Nat
  BY DEF Limit
<1>6. IsFiniteSet(1..Limit(s)) /\ Cardinality(1..Limit(s)) = Limit(s)
  BY <1>5, FS_Interval
<1> HIDE DEF A, place
<1>7. Cardinality(A) <= Cardinality(1..Limit(s))
  BY <1>4, <1>6, FS_Injection
<1> QED
  BY <1>6, <1>7 DEF A

\* In each minute at most the limit passes, per key and per caller, for every
\* number of hosts and concurrent calls.
THEOREM QuotaHolds == Spec => []QuotaBinds
<1>1. IInv => QuotaBinds
  BY AdmittedBound DEF QuotaBinds
<1> QED
  BY <1>1, Invariance, PTL

--------------------------------------------------------------------------------
(* The table implements an atomic counter. *)

LEMMA InitRefines == Init => Counter!FInit
<1> SUFFICES ASSUME Init PROVE Values = [r \in Row |-> 0] /\ Issued = {}
  BY DEF Counter!FInit
<1>1. Values = [r \in Row |-> 0]
  BY DEF Init, Values, Absent
<1>2. \A q \in Checks \X Scopes : ticket[q[1]][q[2]] = 0
  BY DEF Init
<1> QED
  BY <1>1, <1>2 DEF Issued

\* A step is an increment somebody is told of, one nobody is told of, or no
\* step of the counters at all.
LEMMA StepRefines == IInv /\ [Next]_vars => [Counter!FNext]_(Counter!fvars)
<1> SUFFICES ASSUME IInv, [Next]_vars
             PROVE  \/ Values' = Values /\ Issued' = Issued
                    \/ \E r \in Row : /\ Values' = [Values EXCEPT ![r] = @ + 1]
                                      /\ \/ Issued' = Issued
                                         \/ \E c \in Checks : Issued' = Issued \cup {<<c, r, Values[r] + 1>>}
  BY DEF Counter!FNext, Counter!fvars, Counter!Spend, Counter!Issue
<1>0. TypeOK /\ TypeOK'
  BY TypeStep DEF IInv
<1>1. \A c \in Checks, s \in Scopes : ticket[c][s] # 0 => RowOf(c, s)' = RowOf(c, s)
  BY RowOfFixed DEF IInv, NotCalled
<1>2. ASSUME ticket' = ticket PROVE Issued' = Issued
  BY <1>1, <1>2 DEF Issued
<1>3. CASE rows' = rows /\ ticket' = ticket
  BY <1>2, <1>3 DEF Values
<1>4. ASSUME NEW b \in Checks, pc[b] \in {"create", "update"}, Bumped(Here(b)),
             window' = window,
             \/ ticket' = ticket
             \/ ticket' = [ticket EXCEPT ![b][scope[b]] = rows[Here(b)].count + 1]
      PROVE  \E r \in Row : /\ Values' = [Values EXCEPT ![r] = @ + 1]
                            /\ \/ Issued' = Issued
                               \/ \E c \in Checks : Issued' = Issued \cup {<<c, r, Values[r] + 1>>}
  <2>1. Here(b) \in Row /\ scope[b] \in Scopes /\ Here(b) = RowOf(b, scope[b])
    BY <1>0, RowOfType DEF Here, TypeOK
  <2>2. Values' = [Values EXCEPT ![Here(b)] = @ + 1]
    BY <1>0, <1>4, <2>1 DEF Values, Bumped, TypeOK, Entity
  <2>3. CASE ticket' = ticket
    BY <1>2, <2>1, <2>2, <2>3
  <2>4. CASE ticket' = [ticket EXCEPT ![b][scope[b]] = rows[Here(b)].count + 1]
    <3> DEFINE n == rows[Here(b)].count + 1
    <3>1. \A c \in Checks, s \in Scopes :
            ticket'[c][s] = IF c = b /\ s = scope[b] THEN n ELSE ticket[c][s]
      BY <1>0, <2>4 DEF TypeOK
    <3>2. n # 0 /\ ticket[b][scope[b]] = 0 /\ Values[Here(b)] + 1 = n
      BY <1>0, <1>4, <2>1 DEF IInv, UnderWay, Waiting, Values, TypeOK, Entity
    <3>3. \A c \in Checks, s \in Scopes : RowOf(c, s)' = RowOf(c, s)
      <4>1. req' = req
        BY DEF Next, Step, Start, Connect, Read, Create, Update, Backoff, Restart, Tick, Finished, vars
      <4> QED
        BY <1>4, <4>1 DEF RowOf
    <3> HIDE DEF n
    <3>4. ASSUME NEW t \in Issued' PROVE t \in Issued \cup {<<b, Here(b), n>>}
      <4>1. PICK c \in Checks, s \in Scopes :
              t = <<c, RowOf(c, s)', ticket'[c][s]>> /\ ticket'[c][s] # 0
        BY <3>4 DEF Issued
      <4>2. CASE c = b /\ s = scope[b]
        BY <2>1, <3>1, <3>3, <4>1, <4>2
      <4>3. CASE ~(c = b /\ s = scope[b])
        <5>1. t = <<c, RowOf(c, s), ticket[c][s]>> /\ ticket[c][s] # 0
          BY <3>1, <3>3, <4>1, <4>3
        <5>2. <<c, s>> \in {q \in Checks \X Scopes : ticket[q[1]][q[2]] # 0}
          BY <5>1
        <5> QED
          BY <5>1, <5>2 DEF Issued
      <4> QED
        BY <4>2, <4>3
    <3>5. ASSUME NEW c \in Checks, NEW s \in Scopes, ticket'[c][s] # 0
          PROVE  <<c, RowOf(c, s)', ticket'[c][s]>> \in Issued'
      <4>1. <<c, s>> \in {q \in Checks \X Scopes : ticket'[q[1]][q[2]] # 0}
        BY <3>5
      <4> QED
        BY <4>1 DEF Issued
    <3>6. <<b, Here(b), n>> \in Issued'
      BY <2>1, <3>1, <3>2, <3>3, <3>5
    <3>7. ASSUME NEW t \in Issued PROVE t \in Issued'
      <4>1. PICK c \in Checks, s \in Scopes :
              t = <<c, RowOf(c, s), ticket[c][s]>> /\ ticket[c][s] # 0
        BY <3>7 DEF Issued
      <4>2. t = <<c, RowOf(c, s)', ticket'[c][s]>> /\ ticket'[c][s] # 0
        BY <3>1, <3>2, <3>3, <4>1
      <4> QED
        BY <3>5, <4>2
    <3>8. Issued' = Issued \cup {<<b, Here(b), n>>}
      BY <3>4, <3>6, <3>7
    <3> QED
      BY <2>1, <2>2, <3>2, <3>8
  <2> QED
    BY <1>4, <2>3, <2>4
<1> QED
  BY <1>3, <1>4, TableStep

\* The etag loop implements an atomic fetch-and-increment for any number of
\* checks, hosts and failures.
THEOREM Refinement == Spec => CounterIsAtomic
<1> QED
  BY InitRefines, StepRefines, Invariance, PTL DEF Spec, CounterIsAtomic, Counter!FSpec
================================================================================
