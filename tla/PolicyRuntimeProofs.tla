-------------------------- MODULE PolicyRuntimeProofs --------------------------
(***************************************************************************)
(* Proofs about PolicyRuntime, for any connections, operators, calls,      *)
(* lifetime and latency: the types, that a revocation bites in time, and   *)
(* that a grant nobody touched is honoured.                                *)
(***************************************************************************)
EXTENDS PolicyRuntime, TLAPS

\* Every grant is of a connection: what the documents are to be.
Naming(map, g) == \A i \in Ids : g.to[i] # {} => Named(map, i) # {}

--------------------------------------------------------------------------------
(* The operators' edits: documents stay documents, and no connection is lost. *)

\* The documents there may be from the start.
LEMMA FirstTyped == FirstRoleMap \in RoleMap /\ FirstGrants \in Grants
PROOF
<1>1. 0 \in Version
  BY MaxVersionAssumption DEF Version
<1>2. FirstRoleMap \in RoleMap
  <2>1. ASSUME NEW r \in Roles
        PROVE  [secret |-> Standing[r], enabled |-> Standing[r] # NoSecret, rotated |-> 0] \in Entry
    BY <1>1, StandingAssumption DEF Entry
  <2> QED
    BY <2>1 DEF FirstRoleMap, RoleMap
<1>3. FirstGrants \in Grants
  BY SeededAssumption, HeldAssumption DEF FirstGrants, Grants
<1> QED
  BY <1>2, <1>3

\* Every grant there is from the start is of a connection.
LEMMA FirstAgree == Naming(FirstRoleMap, FirstGrants)
PROOF
  BY HeldAssumption DEF Naming, Named, Mapped, FirstRoleMap, FirstGrants

\* What a request brings along.
LEMMA Kinds ==
    ASSUME NEW wish \in Ask
    PROVE  /\ wish.op \in {"create", "status", "rotate", "grant"}
           /\ wish.op = "create" => wish.secret \in Secrets
           /\ wish.op = "status" => wish.enabled \in BOOLEAN
           /\ wish.op = "grant" => wish.id \in Ids /\ wish.subject \in Subjects
PROOF
  BY DEF Ask, Create, Status, Rotate, Grant

\* An entry that is edited is an entry, and still one of a connection if it was.
LEMMA EditedEntry ==
    ASSUME NEW wish \in Ask, wish.op # "grant", NEW entry \in Entry, NEW at \in Version
    PROVE  /\ EntryAfter(wish, entry, at) \in Entry
           /\ wish.op # "create" => EntryAfter(wish, entry, at).secret = entry.secret
PROOF
<1>1. 0 \in Version
  BY MaxVersionAssumption DEF Version
<1>2. PICK on : on = [entry EXCEPT !.enabled = wish.enabled]
  OBVIOUS
<1>3. PICK rotated : rotated = [entry EXCEPT !.rotated = at]
  OBVIOUS
<1>4. CASE wish.op = "create"
  <2>1. EntryAfter(wish, entry, at) = [secret |-> wish.secret, enabled |-> TRUE, rotated |-> 0]
    BY <1>4 DEF EntryAfter
  <2> QED
    BY <1>1, <1>4, <2>1, Kinds DEF Entry
<1>5. CASE wish.op = "status"
  <2>1. EntryAfter(wish, entry, at) = on
    BY <1>2, <1>5 DEF EntryAfter
  <2>2. on \in Entry /\ on.secret = entry.secret
    BY <1>2, <1>5, Kinds DEF Entry
  <2> QED
    BY <2>1, <2>2
<1>6. CASE wish.op = "rotate"
  <2>1. EntryAfter(wish, entry, at) = rotated
    BY <1>3, <1>6 DEF EntryAfter
  <2>2. rotated \in Entry /\ rotated.secret = entry.secret
    BY <1>3 DEF Entry
  <2> QED
    BY <2>1, <2>2
<1> QED
  BY <1>4, <1>5, <1>6, Kinds

\* An edited role map is one, and no connection is lost from it.
LEMMA EditedMap ==
    ASSUME NEW wish \in Ask, wish.op # "grant", NEW map \in RoleMap, NEW at \in Version, Admissible(wish, map)
    PROVE  /\ RoleMapAfter(wish, map, at) \in RoleMap
           /\ Mapped(map) \subseteq Mapped(RoleMapAfter(wish, map, at))
PROOF
<1> DEFINE after == RoleMapAfter(wish, map, at)
<1>1. \A r \in Roles : map[r] \in Entry
  BY DEF RoleMap
<1>2. \A r \in Roles : after[r] = IF r \in Edited(wish, map) THEN EntryAfter(wish, map[r], at) ELSE map[r]
  BY DEF RoleMapAfter
<1>3. \A r \in Roles : after[r] \in Entry
  BY <1>1, <1>2, EditedEntry
<1>4. \A r \in Mapped(map) : r \in Roles /\ after[r].secret = map[r].secret
  <2>1. \A r \in Mapped(map) : r \in Roles /\ map[r].secret # NoSecret
    BY DEF Mapped
  <2>2. wish.op = "create" => \A r \in Mapped(map) : r \notin Edited(wish, map)
    BY <2>1 DEF Edited, Admissible
  <2>3. ASSUME NEW r \in Mapped(map)
        PROVE  after[r].secret = map[r].secret
    <3>1. map[r] \in Entry /\ r \in Roles
      BY <1>1, <2>1
    <3>2. CASE r \in Edited(wish, map)
      BY <1>2, <2>2, <3>1, <3>2, EditedEntry
    <3>3. CASE r \notin Edited(wish, map)
      BY <1>2, <3>1, <3>3
    <3> QED
      BY <3>2, <3>3
  <2> QED
    BY <2>1, <2>3
<1>5. after \in RoleMap
  BY <1>3 DEF RoleMap, RoleMapAfter
<1>6. Mapped(map) \subseteq Mapped(after)
  BY <1>4 DEF Mapped
<1> QED
  BY <1>5, <1>6

\* Edited grants are grants: one entry changes, by one subject.
LEMMA EditedGrants ==
    ASSUME NEW wish \in Ask, wish.op = "grant", NEW g \in Grants
    PROVE  /\ GrantsAfter(wish, g) \in Grants
           /\ GrantsAfter(wish, g).versioned = g.versioned
           /\ \A i \in Ids : i # wish.id => GrantsAfter(wish, g).to[i] = g.to[i]
PROOF
<1>1. wish.id \in Ids /\ wish.subject \in Subjects /\ g.to \in [Ids -> SUBSET Subjects]
  BY Kinds DEF Grants
<1>2. PICK subjects : subjects = IF wish.remove THEN g.to[wish.id] \ {wish.subject} ELSE g.to[wish.id] \cup {wish.subject}
  OBVIOUS
<1>3. PICK y : y = [g EXCEPT !.to[wish.id] = subjects]
  OBVIOUS
<1>4. GrantsAfter(wish, g) = y
  BY <1>2, <1>3 DEF GrantsAfter
<1>5. subjects \in SUBSET Subjects
  BY <1>1, <1>2
<1>6. y \in Grants /\ y.versioned = g.versioned /\ y.to = [g.to EXCEPT ![wish.id] = subjects]
  BY <1>1, <1>3, <1>5 DEF Grants
<1> QED
  BY <1>1, <1>4, <1>6

--------------------------------------------------------------------------------
(* The invariant. *)

BookTyped ==
    /\ ask \in [Requests -> Ask \cup {NoAsk}]
    /\ settled \subseteq Requests /\ acked \subseteq Requests

\* The histories: what the documents say holds now, nothing is of the future.
HistoryOK ==
    /\ \A r \in Opened(roleMap) : open[r] = now
    /\ \A i \in Ids : \A s \in grants.to[i] : granted[i][s] = now
    /\ changed <= now
    /\ \A r \in Roles : open[r] <= now
    /\ \A i \in Ids : \A s \in Subjects : granted[i][s] <= now

\* The documents are the ones the broker takes, as they were from the start.
BookOK ==
    /\ grants.versioned = FirstGrants.versioned
    /\ Naming(roleMap, grants)

\* What a copy of a document grants was granted at or after the moment t.
MapSince(map, t) == \A r \in Opened(map) : t <= open[r]
GrantsSince(g, t) == \A i \in Ids : \A s \in g.to[i] : t <= granted[i][s]

\* What is cached was read at most MaxLatency before it was cached.
CacheOK(x) ==
    /\ x.exp <= now + Ttl
    /\ MapSince(x.map, x.exp - Ttl - MaxLatency)
    /\ GrantsSince(x.grants, x.exp - Ttl - MaxLatency)
    /\ changed < x.exp - Ttl - MaxLatency => x.map = roleMap /\ x.grants = grants

\* What a call has read, it read since it asked.
CallOK(x) ==
    /\ x.asked <= now
    /\ x.pc # "done" => x.outcome = "none"
    /\ x.pc = "idle" => x.read = {}
    /\ x.pc = "reading" => now <= x.asked + MaxLatency
    /\ x.pc = "reading" /\ "roleMap" \in x.read =>
          MapSince(x.map, x.asked) /\ (changed < x.asked => x.map = roleMap)
    /\ x.pc = "reading" /\ "grants" \in x.read =>
          GrantsSince(x.grants, x.asked) /\ (changed < x.asked => x.grants = grants)

IInv ==
    /\ TypeOK /\ BookTyped /\ HistoryOK /\ BookOK
    /\ CacheOK(cache)
    /\ \A c \in Calls : CallOK(call[c])

--------------------------------------------------------------------------------
(* Numbers. *)

LEMMA Clock ==
    ASSUME TypeOK
    PROVE  /\ now \in Nat /\ changed \in Nat /\ Ttl \in Nat /\ Ttl > 0 /\ MaxLatency \in Nat /\ MaxTime \in Nat
           /\ cache.exp \in Nat
           /\ \A r \in Roles : open[r] \in Int
           /\ \A i \in Ids : \A s \in Subjects : granted[i][s] \in Int
           /\ \A c \in Calls : call[c].asked \in Nat
PROOF
<1>1. Time \subseteq Nat /\ Time \cup {Never} \subseteq Int
  BY ClockAssumption DEF Time, Never
<1>2. \A c \in Calls : call[c].asked \in Nat
  BY <1>1 DEF TypeOK, Local
<1> QED
  BY <1>1, <1>2, ClockAssumption DEF TypeOK

LEMMA OpenedIn ==
    ASSUME NEW map
    PROVE  Opened(map) \subseteq Roles
PROOF
  BY DEF Opened, Mapped

--------------------------------------------------------------------------------
(* Operators and time. *)

\* Time passes or not, and what the histories record does not go back.
Later ==
    /\ now' \in Nat /\ now <= now'
    /\ \A r \in Roles : open'[r] \in Int /\ open[r] <= open'[r]
    /\ \A i \in Ids : \A s \in Subjects : granted'[i][s] \in Int /\ granted[i][s] <= granted'[i][s]

\* The documents are as they were, or it is recorded that they changed now.
Recorded ==
    \/ UNCHANGED <<roleMap, grants, changed>>
    \/ changed' = now

\* What is known of a copy stays true.
LEMMA SinceStays ==
    ASSUME TypeOK, Later, NEW t \in Int
    PROVE  /\ \A map : MapSince(map, t) => MapSince(map, t)'
           /\ \A g \in Grants : GrantsSince(g, t) => GrantsSince(g, t)'
PROOF
<1>1. ASSUME NEW map, MapSince(map, t)
      PROVE  MapSince(map, t)'
  BY <1>1, OpenedIn, Clock DEF MapSince, Later
<1>2. ASSUME NEW g \in Grants, GrantsSince(g, t)
      PROVE  GrantsSince(g, t)'
  <2>1. \A i \in Ids : g.to[i] \subseteq Subjects
    BY DEF Grants
  <2> QED
    BY <1>2, <2>1, Clock DEF GrantsSince, Later
<1> QED
  BY <1>1, <1>2


\* A step of the operators or the clock leaves what the broker knows true.
LEMMA BrokerKnows ==
    ASSUME IInv, Later, Recorded, UNCHANGED <<cache, call>>,
           \A c \in Calls : call[c].pc = "reading" => now' <= call[c].asked + MaxLatency
    PROVE  CacheOK(cache)' /\ \A c \in Calls : CallOK(call[c])'
PROOF
<1> USE DEF IInv
<1>1. /\ now \in Nat /\ now' \in Nat /\ now <= now' /\ changed \in Nat /\ Ttl \in Nat /\ MaxLatency \in Nat
      /\ cache.exp \in Nat /\ cache.exp - Ttl - MaxLatency \in Int /\ cache.grants \in Grants
  BY Clock DEF Later, TypeOK
<1>2. CacheOK(cache)'
  <2>1. MapSince(cache.map, cache.exp - Ttl - MaxLatency)' /\ GrantsSince(cache.grants, cache.exp - Ttl - MaxLatency)'
    BY <1>1, SinceStays DEF CacheOK
  <2>2. changed' < cache.exp - Ttl - MaxLatency => cache.map = roleMap' /\ cache.grants = grants'
    BY <1>1 DEF CacheOK, Recorded
  <2> QED
    BY <1>1, <2>1, <2>2 DEF CacheOK
<1>3. ASSUME NEW c \in Calls
      PROVE  CallOK(call[c])'
  <2>1. PICK x : x = call[c]
    OBVIOUS
  <2>2. CallOK(x) /\ x.asked \in Nat /\ x.grants \in Grants /\ call'[c] = x
    BY <2>1, Clock DEF TypeOK, Local
  <2>3. x.pc = "reading" => now' <= x.asked + MaxLatency
    BY <2>1
  <2>4. x.pc = "reading" /\ "roleMap" \in x.read => MapSince(x.map, x.asked)' /\ (changed' < x.asked => x.map = roleMap')
    BY <1>1, <2>2, SinceStays DEF CallOK, Recorded
  <2>5. x.pc = "reading" /\ "grants" \in x.read => GrantsSince(x.grants, x.asked)' /\ (changed' < x.asked => x.grants = grants')
    BY <1>1, <2>2, SinceStays DEF CallOK, Recorded
  <2>6. x.asked <= now' /\ (x.pc # "done" => x.outcome = "none") /\ (x.pc = "idle" => x.read = {})
    BY <1>1, <2>2 DEF CallOK
  <2> QED
    BY <2>2, <2>3, <2>4, <2>5, <2>6 DEF CallOK
<1> QED
  BY <1>2, <1>3

\* An operator's request keeps the documents what they are to be.
LEMMA BookSteps ==
    ASSUME IInv, NEW q \in Requests, Submit(q) \/ TakeEffect(q) \/ Acknowledge(q)
    PROVE  roleMap' \in RoleMap /\ grants' \in Grants /\ BookTyped' /\ BookOK'
PROOF
<1> USE DEF IInv
<1>1. roleMap \in RoleMap /\ grants \in Grants
  BY DEF TypeOK
<1>2. CASE Submit(q)
  BY <1>1, <1>2 DEF Submit, BookTyped, BookOK
<1>3. CASE Acknowledge(q)
  BY <1>1, <1>3 DEF Acknowledge, BookTyped, BookOK
<1>4. CASE TakeEffect(q)
  <2>1. ask[q] \in Ask /\ Admissible(ask[q], roleMap)
    BY <1>4 DEF TakeEffect, BookTyped
  <2>2. BookTyped'
    BY <1>4 DEF TakeEffect, BookTyped
  <2>3. CASE ask[q].op = "grant" /\ grants' = GrantsAfter(ask[q], grants) /\ UNCHANGED roleMap
    <3>1. grants' \in Grants /\ grants'.versioned = grants.versioned
      BY <1>1, <2>1, <2>3, EditedGrants
    <3>2. Naming(roleMap, grants')
      <4>1. Named(roleMap, ask[q].id) # {}
        BY <2>1, <2>3 DEF Admissible
      <4> QED
        BY <1>1, <2>1, <2>3, <4>1, EditedGrants DEF BookOK, Naming
    <3> QED
      BY <1>1, <2>2, <2>3, <3>1, <3>2 DEF BookOK, Naming, Named, Mapped
  <2>4. CASE ask[q].op # "grant" /\ UNCHANGED grants /\ \E at \in Version : roleMap' = RoleMapAfter(ask[q], roleMap, at)
    <3>1. PICK at \in Version : roleMap' = RoleMapAfter(ask[q], roleMap, at)
      BY <2>4
    <3>2. roleMap' \in RoleMap /\ Mapped(roleMap) \subseteq Mapped(roleMap')
      BY <1>1, <2>1, <2>4, <3>1, EditedMap
    <3>3. Naming(roleMap', grants)
      BY <3>2 DEF BookOK, Naming, Named
    <3> QED
      BY <1>1, <2>2, <2>4, <3>2, <3>3 DEF BookOK, Naming, Named, Mapped
  <2> QED
    BY <1>4, <2>3, <2>4 DEF TakeEffect
<1> QED
  BY <1>2, <1>3, <1>4

LEMMA OperateStep ==
    ASSUME IInv, NEW q \in Requests, Operate(q)
    PROVE  IInv'
PROOF
<1> USE DEF IInv
<1>1. /\ UNCHANGED <<now, cache, call>>
      /\ Submit(q) \/ TakeEffect(q)
      /\ changed' = IF <<roleMap, grants>>' = <<roleMap, grants>> THEN changed ELSE now
      /\ granted' = [i \in Ids |-> [s \in Subjects |->
            IF s \in grants.to[i] \cup grants'.to[i] THEN now ELSE granted[i][s]]]
      /\ open' = [r \in Roles |-> IF r \in Opened(roleMap) \cup Opened(roleMap') THEN now ELSE open[r]]
  BY DEF Operate, brokerVars
<1>2. roleMap' \in RoleMap /\ grants' \in Grants /\ BookTyped' /\ BookOK'
  BY <1>1, BookSteps
<1>3. /\ \A r \in Roles : open'[r] = IF r \in Opened(roleMap) \cup Opened(roleMap') THEN now ELSE open[r]
      /\ \A i \in Ids : \A s \in Subjects :
            granted'[i][s] = IF s \in grants.to[i] \cup grants'.to[i] THEN now ELSE granted[i][s]
  BY <1>1
<1>4. TypeOK'
  <2>1. now \in Time /\ changed' \in Time
    BY <1>1 DEF TypeOK
  <2>2. open' \in [Roles -> Time \cup {Never}]
    BY <1>1, <2>1 DEF TypeOK
  <2>3. granted' \in [Ids -> [Subjects -> Time \cup {Never}]]
    BY <1>1, <2>1 DEF TypeOK
  <2> QED
    BY <1>1, <1>2, <2>1, <2>2, <2>3 DEF TypeOK
<1>5. Later
  BY <1>1, <1>3, Clock DEF Later, HistoryOK
<1>6. Recorded
  BY <1>1 DEF Recorded
<1>7. HistoryOK'
  <2>1. \A r \in Opened(roleMap)' : open'[r] = now'
    BY <1>1, <1>3, OpenedIn DEF Opened, Mapped
  <2>2. \A i \in Ids : \A s \in grants'.to[i] : granted'[i][s] = now'
    <3>1. \A i \in Ids : grants'.to[i] \subseteq Subjects
      BY <1>2 DEF Grants
    <3> QED
      BY <1>1, <1>3, <3>1
  <2>3. changed' <= now'
    BY <1>1, Clock DEF HistoryOK
  <2>4. \A r \in Roles : open'[r] <= now'
    BY <1>1, <1>3, Clock DEF HistoryOK
  <2>5. \A i \in Ids : \A s \in Subjects : granted'[i][s] <= now'
    BY <1>1, <1>3, Clock DEF HistoryOK
  <2> QED
    BY <2>1, <2>2, <2>3, <2>4, <2>5 DEF HistoryOK
<1>8. \A c \in Calls : call[c].pc = "reading" => now' <= call[c].asked + MaxLatency
  BY <1>1 DEF CallOK
<1> QED
  BY <1>1, <1>2, <1>4, <1>5, <1>6, <1>7, <1>8, BrokerKnows

LEMMA TickStep ==
    ASSUME IInv, Tick
    PROVE  IInv'
PROOF
<1> USE DEF IInv
<1>1. /\ now < MaxTime /\ now' = now + 1 /\ UNCHANGED <<roleMap, grants, ask, settled, acked, cache, call, changed>>
      /\ granted' = [i \in Ids |-> [s \in Subjects |-> IF s \in grants.to[i] THEN now + 1 ELSE granted[i][s]]]
      /\ open' = [r \in Roles |-> IF r \in Opened(roleMap) THEN now + 1 ELSE open[r]]
  BY DEF Tick, bookVars
<1>2. now' \in Time
  BY <1>1, Clock DEF Time
<1>3. /\ \A r \in Roles : open'[r] = IF r \in Opened(roleMap) THEN now + 1 ELSE open[r]
      /\ \A i \in Ids : \A s \in Subjects : granted'[i][s] = IF s \in grants.to[i] THEN now + 1 ELSE granted[i][s]
  BY <1>1
<1>4. TypeOK'
  <2>1. open' \in [Roles -> Time \cup {Never}]
    BY <1>1, <1>2 DEF TypeOK
  <2>2. granted' \in [Ids -> [Subjects -> Time \cup {Never}]]
    BY <1>1, <1>2 DEF TypeOK
  <2> QED
    BY <1>1, <1>2, <2>1, <2>2 DEF TypeOK
<1>5. BookTyped' /\ BookOK'
  BY <1>1 DEF BookTyped, BookOK, Naming, Named, Mapped
<1>6. Later
  BY <1>1, <1>3, Clock DEF Later, HistoryOK
<1>7. Recorded
  BY <1>1 DEF Recorded
<1>8. HistoryOK'
  <2>1. \A r \in Opened(roleMap)' : open'[r] = now'
    BY <1>1, <1>3, OpenedIn DEF Opened, Mapped
  <2>2. \A i \in Ids : \A s \in grants'.to[i] : granted'[i][s] = now'
    <3>1. \A i \in Ids : grants'.to[i] \subseteq Subjects
      BY <1>1 DEF TypeOK, Grants
    <3> QED
      BY <1>1, <1>3, <3>1
  <2>3. changed' <= now'
    BY <1>1, Clock DEF HistoryOK
  <2>4. \A r \in Roles : open'[r] <= now'
    BY <1>1, <1>3, Clock DEF HistoryOK
  <2>5. \A i \in Ids : \A s \in Subjects : granted'[i][s] <= now'
    BY <1>1, <1>3, Clock DEF HistoryOK
  <2> QED
    BY <2>1, <2>2, <2>3, <2>4, <2>5 DEF HistoryOK
<1>9. \A c \in Calls : call[c].pc = "reading" => now' <= call[c].asked + MaxLatency
  BY <1>1, Clock DEF Tick
<1> QED
  BY <1>1, <1>4, <1>5, <1>6, <1>7, <1>8, <1>9, BrokerKnows

--------------------------------------------------------------------------------
(* The broker. *)

\* A step of one call keeps the invariant if it leaves the call and the cache right.
LEMMA BrokerStep ==
    ASSUME IInv, NEW c \in Calls, NEW next \in Local, CallOK(next), call' = [call EXCEPT ![c] = next],
           UNCHANGED <<bookVars, now, history>>,
           cache' = cache \/ (cache' \in [map : RoleMap, grants : Grants, exp : 0..MaxTime + Ttl] /\ CacheOK(cache'))
    PROVE  IInv'
PROOF
<1> USE DEF IInv
<1>1. UNCHANGED <<roleMap, grants, ask, settled, acked, now, granted, open, changed>>
  BY DEF bookVars, history
<1>2. call' \in [Calls -> Local] /\ call'[c] = next /\ \A d \in Calls : d # c => call'[d] = call[d]
  BY DEF TypeOK
<1>3. TypeOK'
  BY <1>1, <1>2 DEF TypeOK
<1>4. BookTyped' /\ HistoryOK' /\ BookOK'
  BY <1>1 DEF BookTyped, HistoryOK, BookOK, Opened, Mapped, Naming, Named
<1>5. CacheOK(cache)'
  BY <1>1 DEF CacheOK, MapSince, GrantsSince
<1>6. ASSUME NEW d \in Calls
      PROVE  CallOK(call[d])'
  BY <1>1, <1>2 DEF CallOK, MapSince, GrantsSince
<1> QED
  BY <1>3, <1>4, <1>5, <1>6

LEMMA Decides ==
    ASSUME NEW map, NEW g, NEW r, NEW s
    PROVE  /\ Decision(map, g, r, s) \in Outcome \ {"none"}
           /\ Decision(map, g, r, s) = "allowed" => r \in Opened(map) /\ s \in g.to[BrokerId[r]]
PROOF
  BY DEF Decision, Outcome, Opened

LEMMA HitStep ==
    ASSUME IInv, NEW c \in Calls, Hit(c)
    PROVE  IInv'
PROOF
<1> USE DEF IInv
<1>1. call[c] \in Local /\ now \in Time /\ now \in Nat /\ call[c].pc = "idle"
  BY Clock DEF TypeOK, Hit, Begin
<1>2. PICK out : out = Decision(cache.map, cache.grants, call[c].role, call[c].subject)
  OBVIOUS
<1>3. PICK y : y = [call[c] EXCEPT !.pc = "done", !.asked = now, !.outcome = out]
  OBVIOUS
<1>4. y \in Local /\ y.pc = "done" /\ y.asked = now
  BY <1>1, <1>2, <1>3, Decides DEF Local
<1>5. CallOK(y)
  BY <1>1, <1>4 DEF CallOK
<1>6. call' = [call EXCEPT ![c] = y] /\ UNCHANGED <<bookVars, now, cache, history>>
  BY <1>2, <1>3 DEF Hit, Begin
<1> QED
  BY <1>4, <1>5, <1>6, BrokerStep

LEMMA MissStep ==
    ASSUME IInv, NEW c \in Calls, Miss(c)
    PROVE  IInv'
PROOF
<1> USE DEF IInv
<1>1. call[c] \in Local /\ now \in Time /\ now \in Nat /\ MaxLatency \in Nat /\ call[c].pc = "idle" /\ CallOK(call[c])
  BY Clock DEF TypeOK, Miss, Begin
<1>2. PICK y : y = [call[c] EXCEPT !.pc = "reading", !.asked = now]
  OBVIOUS
<1>3. y \in Local /\ y.pc = "reading" /\ y.asked = now /\ y.read = call[c].read /\ y.outcome = call[c].outcome
  BY <1>1, <1>2 DEF Local
<1>4. CallOK(y)
  BY <1>1, <1>3 DEF CallOK
<1>5. call' = [call EXCEPT ![c] = y] /\ UNCHANGED <<bookVars, now, cache, history>>
  BY <1>2 DEF Miss, Begin
<1> QED
  BY <1>3, <1>4, <1>5, BrokerStep

\* A get sees the stored document, which grants nothing but what is granted now.
LEMMA GetStep ==
    ASSUME IInv, NEW c \in Calls, NEW d \in Docs, Get(c, d)
    PROVE  IInv'
PROOF
<1> USE DEF IInv
<1>1. /\ call[c] \in Local /\ call[c].pc = "reading" /\ CallOK(call[c]) /\ roleMap \in RoleMap /\ grants \in Grants
      /\ now \in Nat /\ call[c].asked \in Nat /\ call[c].asked <= now
  BY Clock DEF TypeOK, Get, CallOK
<1>2. PICK y : y = [call[c] EXCEPT !.read = @ \cup {d},
                                   !.map = IF d = "roleMap" THEN roleMap ELSE @,
                                   !.grants = IF d = "grants" THEN grants ELSE @]
  OBVIOUS
<1>3. /\ y \in Local /\ y.pc = "reading" /\ y.asked = call[c].asked /\ y.outcome = call[c].outcome
      /\ y.read = call[c].read \cup {d}
      /\ y.map = IF d = "roleMap" THEN roleMap ELSE call[c].map
      /\ y.grants = IF d = "grants" THEN grants ELSE call[c].grants
  BY <1>1, <1>2 DEF Local
<1>4. MapSince(roleMap, call[c].asked) /\ GrantsSince(grants, call[c].asked)
  BY <1>1 DEF HistoryOK, MapSince, GrantsSince
<1>5. "roleMap" \in y.read => MapSince(y.map, y.asked) /\ (changed < y.asked => y.map = roleMap)
  BY <1>1, <1>3, <1>4 DEF CallOK
<1>6. "grants" \in y.read => GrantsSince(y.grants, y.asked) /\ (changed < y.asked => y.grants = grants)
  BY <1>1, <1>3, <1>4 DEF CallOK
<1>7. CallOK(y)
  BY <1>1, <1>3, <1>5, <1>6 DEF CallOK
<1>8. call' = [call EXCEPT ![c] = y] /\ UNCHANGED <<bookVars, now, cache, history>>
  BY <1>2 DEF Get
<1> QED
  BY <1>3, <1>7, <1>8, BrokerStep

LEMMA UnavailableStep ==
    ASSUME IInv, NEW c \in Calls, Unavailable(c)
    PROVE  IInv'
PROOF
<1> USE DEF IInv
<1>1. call[c] \in Local /\ CallOK(call[c])
  BY DEF TypeOK
<1>2. PICK y : y = [call[c] EXCEPT !.pc = "done", !.outcome = "unavailable"]
  OBVIOUS
<1>3. y \in Local /\ y.pc = "done" /\ y.asked = call[c].asked
  BY <1>1, <1>2 DEF Local, Outcome
<1>4. CallOK(y)
  BY <1>1, <1>3 DEF CallOK
<1>5. call' = [call EXCEPT ![c] = y] /\ UNCHANGED <<bookVars, now, cache, history>>
  BY <1>2 DEF Unavailable
<1> QED
  BY <1>3, <1>4, <1>5, BrokerStep

\* What both gets read, and was asked at most MaxLatency ago, is cached.
LEMMA ArriveStep ==
    ASSUME IInv, NEW c \in Calls, Arrive(c)
    PROVE  IInv'
PROOF
<1> USE DEF IInv
<1>1. /\ call[c] \in Local /\ call[c].pc = "reading" /\ CallOK(call[c]) /\ call[c].read = Docs
      /\ now \in Nat /\ now \in Time /\ call[c].asked \in Nat /\ call[c].asked <= now
      /\ changed \in Nat /\ Ttl \in Nat /\ MaxLatency \in Nat /\ MaxTime \in Nat
  BY Clock DEF TypeOK, Arrive, CallOK
<1>2. PICK x : x = call[c]
  OBVIOUS
<1>3. /\ x \in Local /\ MapSince(x.map, x.asked) /\ GrantsSince(x.grants, x.asked)
      /\ changed < x.asked => x.map = roleMap /\ x.grants = grants
      /\ now <= x.asked + MaxLatency
  BY <1>1, <1>2 DEF CallOK, Docs
<1>4. PICK out : out = Decision(x.map, x.grants, x.role, x.subject)
  OBVIOUS
<1>5. PICK y : y = [x EXCEPT !.pc = "done", !.outcome = out]
  OBVIOUS
<1>6. y \in Local /\ y.pc = "done" /\ y.asked = x.asked
  BY <1>3, <1>4, <1>5, Decides DEF Local
<1>7. CallOK(y)
  BY <1>1, <1>2, <1>6 DEF CallOK
<1>8. /\ call' = [call EXCEPT ![c] = y] /\ UNCHANGED <<bookVars, now, history>>
      /\ cache' = [map |-> x.map, grants |-> x.grants, exp |-> now + Ttl]
  BY <1>2, <1>4, <1>5 DEF Arrive, Expiry
<1>9. cache' \in [map : RoleMap, grants : Grants, exp : 0..MaxTime + Ttl]
  <2>1. now + Ttl \in 0..MaxTime + Ttl
    BY <1>1 DEF Time
  <2> QED
    BY <1>3, <1>8, <2>1 DEF Local
<1>10. CacheOK(cache')
  <2>1. cache'.exp = now + Ttl /\ cache'.map = x.map /\ cache'.grants = x.grants
    BY <1>8
  <2>2. cache'.exp - Ttl - MaxLatency <= x.asked /\ x.asked \in Nat
    BY <1>1, <1>2, <1>3, <2>1
  <2>3. MapSince(x.map, cache'.exp - Ttl - MaxLatency)
    BY <1>1, <1>3, <2>1, <2>2, OpenedIn, Clock DEF MapSince
  <2>4. GrantsSince(x.grants, cache'.exp - Ttl - MaxLatency)
    <3>1. \A i \in Ids : x.grants.to[i] \subseteq Subjects
      BY <1>3 DEF Local, Grants
    <3> QED
      BY <1>1, <1>3, <2>1, <2>2, <3>1, Clock DEF GrantsSince
  <2>5. changed < cache'.exp - Ttl - MaxLatency => x.map = roleMap /\ x.grants = grants
    BY <1>1, <1>3, <2>1, <2>2
  <2> QED
    BY <1>1, <2>1, <2>3, <2>4, <2>5 DEF CacheOK
<1> QED
  BY <1>6, <1>7, <1>8, <1>9, <1>10, BrokerStep

--------------------------------------------------------------------------------
(* The invariant. *)

LEMMA InitIInv == Init => IInv
PROOF
<1> SUFFICES ASSUME Init PROVE IInv
  OBVIOUS
<1> USE DEF Init, BInit
<1>1. 0 \in Time /\ Never \in Int /\ Ttl \in Nat /\ MaxLatency \in Nat /\ MaxTime \in Nat
  BY ClockAssumption DEF Time, Never
<1>2. TypeOK
  <2>1. cache \in [map : RoleMap, grants : Grants, exp : 0..MaxTime + Ttl]
    BY <1>1, FirstTyped
  <2>2. call \in [Calls -> Local]
    <3>1. PICK r \in [Calls -> Roles], s \in [Calls -> Subjects] : call = [c \in Calls |-> Idle(r[c], s[c])]
      OBVIOUS
    <3>2. \A a \in Roles, b \in Subjects : Idle(a, b) \in Local
      BY <1>1, FirstTyped DEF Idle, Local, Outcome
    <3> QED
      BY <3>1, <3>2
  <2> QED
    BY <1>1, <2>1, <2>2, FirstTyped DEF TypeOK
<1>3. BookTyped
  BY DEF BookTyped
<1>4. \A r \in Opened(FirstRoleMap) : open[r] = 0
  BY DEF Opened, Mapped, FirstRoleMap
<1>5. \A i \in Ids : \A s \in FirstGrants.to[i] : granted[i][s] = 0
  <2>1. FirstGrants.to = Held /\ \A i \in Ids : Held[i] \subseteq Subjects
    BY HeldAssumption DEF FirstGrants
  <2> QED
    BY <2>1
<1>6. HistoryOK
  <2>1. \A r \in Roles : open[r] = IF Standing[r] # NoSecret THEN 0 ELSE Never
    OBVIOUS
  <2>2. \A i \in Ids : \A s \in Subjects : granted[i][s] = IF s \in Held[i] THEN 0 ELSE Never
    OBVIOUS
  <2>3. now = 0 /\ changed = 0 /\ roleMap = FirstRoleMap /\ grants = FirstGrants /\ Never <= 0
    BY DEF Never
  <2> HIDE DEF Init, BInit
  <2>4. /\ \A r \in Roles : open[r] <= now
        /\ \A i \in Ids : \A s \in Subjects : granted[i][s] <= now
    BY <1>1, <2>1, <2>2, <2>3
  <2>5. /\ \A r \in Opened(roleMap) : open[r] = now
        /\ \A i \in Ids : \A s \in grants.to[i] : granted[i][s] = now
    BY <1>4, <1>5, <2>3
  <2> QED
    BY <2>3, <2>4, <2>5 DEF HistoryOK
<1>7. BookOK
  BY FirstAgree DEF BookOK
<1>8. CacheOK(cache)
  <2>1. cache.map = FirstRoleMap /\ cache.grants = FirstGrants /\ cache.exp = 0 /\ now = 0
    OBVIOUS
  <2> HIDE DEF Init, BInit
  <2>2. 0 - Ttl - MaxLatency <= 0
    BY <1>1
  <2>3. MapSince(cache.map, cache.exp - Ttl - MaxLatency) /\ GrantsSince(cache.grants, cache.exp - Ttl - MaxLatency)
    BY <1>1, <1>4, <1>5, <2>1, <2>2 DEF MapSince, GrantsSince
  <2>4. ~(changed < cache.exp - Ttl - MaxLatency)
    BY <1>1, <2>1, <2>2 DEF Init
  <2> QED
    BY <1>1, <2>1, <2>3, <2>4 DEF CacheOK
<1>9. ASSUME NEW c \in Calls
      PROVE  CallOK(call[c])
  <2>1. PICK r \in Roles, s \in Subjects : call[c] = Idle(r, s)
    OBVIOUS
  <2>2. call[c].pc = "idle" /\ call[c].read = {} /\ call[c].asked = 0 /\ call[c].outcome = "none"
    BY <2>1 DEF Idle
  <2> QED
    BY <2>2 DEF CallOK
<1> QED
  BY <1>2, <1>3, <1>6, <1>7, <1>8, <1>9 DEF IInv

LEMMA StepIInv == IInv /\ [Next]_vars => IInv'
PROOF
<1> SUFFICES ASSUME IInv, [Next]_vars PROVE IInv'
  OBVIOUS
<1>1. ASSUME UNCHANGED vars
      PROVE  IInv'
  <2>1. UNCHANGED <<roleMap, grants, ask, settled, acked, now, cache, call, granted, open, changed>>
    BY <1>1 DEF vars, bookVars, brokerVars, history
  <2> QED
    BY <2>1 DEF IInv, TypeOK, BookTyped, HistoryOK, BookOK, CacheOK, CallOK, MapSince, GrantsSince,
                Opened, Mapped, Naming, Named
<1>2. ASSUME NEW q \in Requests, Confirm(q)
      PROVE  IInv'
  <2>1. BookTyped'
    BY <1>2, BookSteps DEF Confirm
  <2>2. UNCHANGED <<roleMap, grants, now, cache, call, granted, open, changed>>
    BY <1>2 DEF Confirm, Acknowledge, brokerVars, history
  <2> QED
    BY <2>1, <2>2 DEF IInv, TypeOK, HistoryOK, BookOK, CacheOK, CallOK, MapSince, GrantsSince,
                      Opened, Mapped, Naming, Named
<1> QED
  BY <1>1, <1>2, OperateStep, TickStep, HitStep, MissStep, GetStep, ArriveStep, UnavailableStep DEF Next, Finished

LEMMA Inductive == Spec => []IInv
PROOF
<1> QED
  BY InitIInv, StepIInv, PTL DEF Spec

\* The cache, the calls and the histories keep their types (runtime-policy.js).
THEOREM TypeCorrect == Spec => []TypeOK
PROOF
<1>1. IInv => TypeOK
  BY DEF IInv
<1> QED
  BY <1>1, Inductive, PTL

\* What a call decides with: the cache while it is fresh, or what it read itself.
LEMMA DecidedWith ==
    ASSUME IInv, [Next]_vars, NEW c \in Calls, NEW outcome \in {"allowed", "denied"}, Decided(c, outcome)
    PROVE  \E map \in RoleMap, g \in Grants :
              /\ outcome = Decision(map, g, call[c].role, call[c].subject)
              /\ MapSince(map, now - Ttl - MaxLatency + 1) /\ GrantsSince(g, now - Ttl - MaxLatency + 1)
              /\ changed + Ttl + MaxLatency <= now => map = roleMap /\ g = grants
PROOF
<1> USE DEF IInv
<1>1. /\ now \in Nat /\ Ttl \in Nat /\ Ttl > 0 /\ MaxLatency \in Nat /\ changed \in Nat /\ cache.exp \in Nat
      /\ call[c].asked \in Nat
      /\ \A r \in Roles : open[r] \in Int
      /\ \A i \in Ids : \A s \in Subjects : granted[i][s] \in Int
  BY Clock
<1>2. call[c] \in Local /\ call[c].pc # "done" /\ call[c].outcome = "none" /\ call'[c].outcome = outcome
  BY DEF Decided, CallOK, TypeOK
<1>3. ASSUME NEW map \in RoleMap, NEW g \in Grants, NEW t \in Int, now - Ttl - MaxLatency + 1 <= t,
             MapSince(map, t), GrantsSince(g, t)
      PROVE  MapSince(map, now - Ttl - MaxLatency + 1) /\ GrantsSince(g, now - Ttl - MaxLatency + 1)
  <2>1. MapSince(map, now - Ttl - MaxLatency + 1)
    BY <1>1, <1>3, OpenedIn DEF MapSince
  <2>2. \A i \in Ids : g.to[i] \subseteq Subjects
    BY DEF Grants
  <2> QED
    BY <1>1, <1>3, <2>1, <2>2 DEF GrantsSince
<1>4. CASE Hit(c)
  <2>1. cache.exp > now /\ outcome = Decision(cache.map, cache.grants, call[c].role, call[c].subject)
    <3>1. PICK out : out = Decision(cache.map, cache.grants, call[c].role, call[c].subject)
      OBVIOUS
    <3>2. PICK y : y = [call[c] EXCEPT !.pc = "done", !.asked = now, !.outcome = out]
      OBVIOUS
    <3>3. y.outcome = out /\ call'[c] = y
      BY <1>2, <1>4, <3>1, <3>2 DEF Hit, Begin, Local, TypeOK
    <3> QED
      BY <1>2, <1>4, <3>1, <3>3 DEF Hit, Fresh
  <2>2. cache.map \in RoleMap /\ cache.grants \in Grants
    BY DEF TypeOK
  <2>3. MapSince(cache.map, cache.exp - Ttl - MaxLatency) /\ GrantsSince(cache.grants, cache.exp - Ttl - MaxLatency)
    BY DEF CacheOK
  <2>4. changed + Ttl + MaxLatency <= now => cache.map = roleMap /\ cache.grants = grants
    BY <1>1, <2>1 DEF CacheOK
  <2> QED
    BY <1>1, <1>3, <2>1, <2>2, <2>3, <2>4
<1>5. CASE Arrive(c)
  <2>1. PICK x : x = call[c]
    OBVIOUS
  <2>2. outcome = Decision(x.map, x.grants, x.role, x.subject)
    <3>1. PICK out : out = Decision(x.map, x.grants, x.role, x.subject)
      OBVIOUS
    <3>2. PICK y : y = [x EXCEPT !.pc = "done", !.outcome = out]
      OBVIOUS
    <3>3. y.outcome = out /\ call'[c] = y
      BY <1>2, <1>5, <2>1, <3>1, <3>2 DEF Arrive, Local, TypeOK
    <3> QED
      BY <1>2, <3>1, <3>3
  <2>3. x \in Local /\ x.pc = "reading" /\ x.read = Docs /\ CallOK(x)
    BY <1>2, <1>5, <2>1 DEF Arrive
  <2>4. /\ MapSince(x.map, x.asked) /\ GrantsSince(x.grants, x.asked)
        /\ changed < x.asked => x.map = roleMap /\ x.grants = grants
        /\ now <= x.asked + MaxLatency /\ x.map \in RoleMap /\ x.grants \in Grants
    BY <2>3 DEF CallOK, Docs, Local
  <2> QED
    BY <1>1, <1>3, <2>1, <2>2, <2>4
<1>6. CASE ~Hit(c) /\ ~Arrive(c)
  <2>1. ASSUME NEW d \in Calls, Miss(d) \/ Unavailable(d) \/ (\E doc \in Docs : Get(d, doc)) \/ (d # c /\ (Hit(d) \/ Arrive(d)))
        PROVE  FALSE
    <3>1. CASE d # c
      BY <1>2, <2>1, <3>1 DEF Miss, Unavailable, Get, Hit, Arrive, Begin, TypeOK
    <3>2. CASE d = c /\ Miss(d)
      <4>1. PICK y : y = [call[c] EXCEPT !.pc = "reading", !.asked = now]
        OBVIOUS
      <4>2. y.outcome = "none" /\ call'[c] = y
        BY <1>2, <3>2, <4>1 DEF Miss, Begin, Local, TypeOK
      <4> QED
        BY <1>2, <4>2
    <3>3. CASE d = c /\ Unavailable(d)
      <4>1. PICK y : y = [call[c] EXCEPT !.pc = "done", !.outcome = "unavailable"]
        OBVIOUS
      <4>2. y.outcome = "unavailable" /\ call'[c] = y
        BY <1>2, <3>3, <4>1 DEF Unavailable, Local, TypeOK
      <4> QED
        BY <1>2, <4>2
    <3>4. ASSUME d = c, NEW doc \in Docs, Get(c, doc)
          PROVE  FALSE
      <4>1. PICK y : y = [call[c] EXCEPT !.read = @ \cup {doc},
                                         !.map = IF doc = "roleMap" THEN roleMap ELSE @,
                                         !.grants = IF doc = "grants" THEN grants ELSE @]
        OBVIOUS
      <4>2. y.outcome = "none" /\ call'[c] = y
        BY <1>2, <3>4, <4>1 DEF Get, Local, TypeOK
      <4> QED
        BY <1>2, <4>2
    <3> QED
      BY <1>6, <2>1, <3>1, <3>2, <3>3, <3>4
  <2>2. call' # call
    BY <1>2
  <2> QED
    BY <1>6, <2>1, <2>2 DEF Next, Finished, Tick, Operate, Confirm, brokerVars, vars
<1> QED
  BY <1>4, <1>5, <1>6

\* A revocation bites within a cache lifetime and one slow read, whatever calls
\* and operators do meanwhile (runtime-policy.js).
THEOREM RevocationInTime == Spec => RevocationBites
PROOF
<1>1. ASSUME IInv, [Next]_vars, NEW c \in Calls, Decided(c, "allowed")
      PROVE  /\ now < granted[BrokerId[call[c].role]][call[c].subject] + Ttl + MaxLatency
             /\ now < open[call[c].role] + Ttl + MaxLatency
  <2>1. PICK map \in RoleMap, g \in Grants :
           /\ "allowed" = Decision(map, g, call[c].role, call[c].subject)
           /\ MapSince(map, now - Ttl - MaxLatency + 1) /\ GrantsSince(g, now - Ttl - MaxLatency + 1)
    BY <1>1, DecidedWith
  <2>2. call[c].role \in Opened(map) /\ call[c].subject \in g.to[BrokerId[call[c].role]]
    BY <2>1, Decides
  <2>3. call[c].role \in Roles /\ call[c].subject \in Subjects /\ BrokerId[call[c].role] \in Ids
    BY <1>1, BrokerIdAssumption DEF IInv, TypeOK, Local
  <2>4. /\ now - Ttl - MaxLatency + 1 <= open[call[c].role]
        /\ now - Ttl - MaxLatency + 1 <= granted[BrokerId[call[c].role]][call[c].subject]
    BY <2>1, <2>2, <2>3 DEF MapSince, GrantsSince
  <2> QED
    BY <1>1, <2>3, <2>4, Clock DEF IInv
<1>2. IInv /\ [Next]_vars => [\A c \in Calls : Decided(c, "allowed") =>
          /\ now < granted[BrokerId[call[c].role]][call[c].subject] + Ttl + MaxLatency
          /\ now < open[call[c].role] + Ttl + MaxLatency]_vars
  BY <1>1
<1> QED
  BY <1>2, Inductive, PTL DEF Spec, RevocationBites

\* Once nobody has touched the policy for that long, a granted caller of an enabled
\* connection is let through, where documents were stored at the start and the
\* two apps name a role's connection alike (runtime-policy.js, connection-grants.js).
THEOREM QuietGrant == ASSUME Seeded, \A r \in Roles : AdminId[r] = BrokerId[r] PROVE Spec => QuietGrantAdmits
PROOF
<1>1. ASSUME IInv, [Next]_vars, NEW c \in Calls, Decided(c, "denied"), changed + Ttl + MaxLatency <= now,
             call[c].role \in Opened(roleMap), call[c].subject \in grants.to[AdminId[call[c].role]]
      PROVE  FALSE
  <2>1. "denied" = Decision(roleMap, grants, call[c].role, call[c].subject)
    BY <1>1, DecidedWith
  <2>2. call[c].role \in Roles /\ call[c].role \in Mapped(roleMap) /\ roleMap[call[c].role].enabled
    BY <1>1 DEF Opened, Mapped
  <2>3. Parses(grants, roleMap)
    <3>1. ~grants.versioned
      BY <1>1 DEF IInv, BookOK, FirstGrants
    <3>2. \A i \in Ids : grants.to[i] # {} => i \in Known(roleMap)
      BY <1>1 DEF IInv, BookOK, Naming, Named, Known, Mapped
    <3> QED
      BY <3>1, <3>2 DEF Parses
  <2> QED
    BY <1>1, <2>1, <2>2, <2>3 DEF Decision
<1>2. IInv /\ [Next]_vars => [\A c \in Calls :
          /\ Decided(c, "denied")
          /\ changed + Ttl + MaxLatency <= now
          => ~ /\ call[c].role \in Opened(roleMap)
               /\ call[c].subject \in grants.to[AdminId[call[c].role]]]_vars
  BY <1>1
<1> QED
  BY <1>2, Inductive, PTL DEF Spec, QuietGrantAdmits

================================================================================
