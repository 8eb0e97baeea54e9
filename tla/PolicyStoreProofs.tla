--------------------------- MODULE PolicyStoreProofs ---------------------------
(***************************************************************************)
(* Proofs about PolicyStore, for any number of requests, connections and   *)
(* subjects, where a write is conditional: in the table, and in App        *)
(* Configuration once documents are stored.  Elsewhere the run             *)
(* PolicyStoreUnseeded shows a lost update.                                *)
(***************************************************************************)
EXTENDS PolicyStore, TLAPS

Conditional == Mode = "table" \/ Seeded

--------------------------------------------------------------------------------
(* The edits of the documents: what they return and preserve. *)

\* No two connections with one secret, and every grant of a connection: what
\* the documents are to be.
Unshared(map) == \A r, s \in Mapped(map) : map[r].secret = map[s].secret => r = s
Naming(map, g) == \A i \in Ids : g.to[i] # {} => Named(map, i) # {}

\* The documents there may be from the start.
LEMMA FirstTyped == FirstRoleMap \in RoleMap /\ FirstGrants \in Grants
PROOF
<1>1. 0 \in Version
  BY MaxVersionAssumption DEF Version
<1>2. FirstRoleMap \in RoleMap
  <2>1. ASSUME NEW r \in Roles
        PROVE  [secret |-> Standing[r], enabled |-> Standing[r] # NoSecret, rotated |-> 0] \in Entry
    BY <1>1, StandingAssumption DEF Entry
  <2> QED
    BY <2>1 DEF FirstRoleMap, RoleMap
<1>3. FirstGrants \in Grants
  BY SeededAssumption, HeldAssumption DEF FirstGrants, Grants
<1> QED
  BY <1>2, <1>3

\* A request is of one of four kinds, told apart by its op.
LEMMA Kinds ==
    ASSUME NEW ask \in Ask
    PROVE  /\ ask.op \in {"create", "status", "rotate", "grant"}
           /\ ask.op = "create" => ask.role \in Roles /\ ask.secret \in Secrets
           /\ ask.op # "create" => ask.id \in Ids
           /\ ask.op = "status" => ask.enabled \in BOOLEAN
           /\ ask.op = "grant" => ask.subject \in Subjects /\ ask.remove \in BOOLEAN
PROOF
<1>1. CASE ask \in Create
  BY <1>1 DEF Create
<1>2. CASE ask \in Status
  BY <1>2 DEF Status
<1>3. CASE ask \in Rotate
  BY <1>3 DEF Rotate
<1>4. CASE ask \in Grant
  BY <1>4 DEF Grant
<1> QED
  BY <1>1, <1>2, <1>3, <1>4 DEF Ask

\* The edit of a role map leaves a secret where it was, and puts one where a
\* connection is created.
LEMMA EntryFields ==
    ASSUME NEW ask \in Ask, ask.op # "grant", NEW entry \in Entry, NEW at \in Version
    PROVE  /\ EntryAfter(ask, entry, at) \in Entry
           /\ EntryAfter(ask, entry, at).secret = IF ask.op = "create" THEN ask.secret ELSE entry.secret
           /\ EntryAfter(ask, entry, at).rotated = IF ask.op = "create" THEN 0
                                                   ELSE IF ask.op = "rotate" THEN at ELSE entry.rotated
PROOF
<1>1. 0 \in Version
  BY MaxVersionAssumption DEF Version
<1>2. CASE ask.op = "create"
  <2>1. EntryAfter(ask, entry, at) = [secret |-> ask.secret, enabled |-> TRUE, rotated |-> 0]
    BY <1>2 DEF EntryAfter
  <2> QED
    BY <1>1, <1>2, <2>1, Kinds DEF Entry
<1>3. CASE ask.op = "status"
  <2>1. PICK y : y = [entry EXCEPT !.enabled = ask.enabled]
    OBVIOUS
  <2>2. y \in Entry /\ y.secret = entry.secret /\ y.rotated = entry.rotated
    BY <1>3, <2>1, Kinds DEF Entry
  <2>3. EntryAfter(ask, entry, at) = y
    BY <1>3, <2>1 DEF EntryAfter
  <2> QED
    BY <1>3, <2>2, <2>3
<1>4. CASE ask.op = "rotate"
  <2>1. PICK y : y = [entry EXCEPT !.rotated = at]
    OBVIOUS
  <2>2. y \in Entry /\ y.secret = entry.secret /\ y.rotated = at
    BY <2>1 DEF Entry
  <2>3. EntryAfter(ask, entry, at) = y
    BY <1>4, <2>1 DEF EntryAfter
  <2> QED
    BY <1>4, <2>2, <2>3
<1> QED
  BY <1>2, <1>3, <1>4, Kinds

\* An edited role map is one, and no connection is lost from it.
LEMMA EditedMap ==
    ASSUME NEW ask \in Ask, ask.op # "grant", NEW map \in RoleMap, NEW at \in Version, Admissible(ask, map)
    PROVE  /\ RoleMapAfter(ask, map, at) \in RoleMap
           /\ \A r \in Mapped(map) : RoleMapAfter(ask, map, at)[r].secret = map[r].secret
           /\ \A r \in Roles : r \notin Mapped(map) /\ RoleMapAfter(ask, map, at)[r].secret # NoSecret
                 => /\ ask.op = "create" /\ r = ask.role
                    /\ RoleMapAfter(ask, map, at)[r].secret = ask.secret
           /\ Mapped(map) \subseteq Mapped(RoleMapAfter(ask, map, at))
PROOF
<1> DEFINE after == RoleMapAfter(ask, map, at)
<1>1. \A r \in Roles : map[r] \in Entry
  BY DEF RoleMap
<1>2. \A r \in Roles : after[r] = IF r \in Edited(ask, map) THEN EntryAfter(ask, map[r], at) ELSE map[r]
  BY DEF RoleMapAfter
<1>3. after \in RoleMap
  <2>1. \A r \in Roles : after[r] \in Entry
    BY <1>1, <1>2, EntryFields
  <2> QED
    BY <2>1 DEF RoleMap, RoleMapAfter
<1>4. \A r \in Mapped(map) : after[r].secret = map[r].secret
  <2>1. ASSUME NEW r \in Mapped(map)
        PROVE  after[r].secret = map[r].secret
    <3>1. r \in Roles /\ map[r].secret # NoSecret
      BY DEF Mapped
    <3>2. CASE r \in Edited(ask, map) /\ ask.op = "create"
      BY <3>1, <3>2 DEF Edited, Admissible
    <3>3. CASE r \in Edited(ask, map) /\ ask.op # "create"
      BY <1>1, <1>2, <3>1, <3>3, EntryFields
    <3>4. CASE r \notin Edited(ask, map)
      BY <1>2, <3>1, <3>4
    <3> QED
      BY <3>2, <3>3, <3>4
  <2> QED
    BY <2>1
<1>5. ASSUME NEW r \in Roles, r \notin Mapped(map), after[r].secret # NoSecret
      PROVE  ask.op = "create" /\ r = ask.role /\ after[r].secret = ask.secret
  <2>1. r \in Edited(ask, map)
    BY <1>2, <1>5 DEF Mapped
  <2>2. ask.op = "create" /\ r = ask.role
    BY <1>5, <2>1 DEF Edited, Named
  <2> QED
    BY <1>1, <1>2, <2>1, <2>2, EntryFields
<1>6. Mapped(map) \subseteq Mapped(after)
  BY <1>4 DEF Mapped
<1> QED
  BY <1>3, <1>4, <1>5, <1>6

\* Edited grants are grants: one entry changes, by one subject.
LEMMA EditedGrants ==
    ASSUME NEW ask \in Ask, ask.op = "grant", NEW g \in Grants
    PROVE  /\ GrantsAfter(ask, g) \in Grants
           /\ GrantsAfter(ask, g).versioned = g.versioned
           /\ \A i \in Ids : i # ask.id => GrantsAfter(ask, g).to[i] = g.to[i]
PROOF
<1>1. ask.id \in Ids /\ ask.subject \in Subjects /\ g.to \in [Ids -> SUBSET Subjects]
  BY Kinds DEF Grants
<1>2. PICK subjects : subjects = IF ask.remove THEN g.to[ask.id] \ {ask.subject} ELSE g.to[ask.id] \cup {ask.subject}
  OBVIOUS
<1>3. PICK y : y = [g EXCEPT !.to[ask.id] = subjects]
  OBVIOUS
<1>4. GrantsAfter(ask, g) = y
  BY <1>2, <1>3 DEF GrantsAfter
<1>5. subjects \in SUBSET Subjects
  BY <1>1, <1>2
<1>6. y \in Grants /\ y.versioned = g.versioned /\ y.to = [g.to EXCEPT ![ask.id] = subjects]
  BY <1>1, <1>3, <1>5 DEF Grants
<1> QED
  BY <1>1, <1>4, <1>6

\* The first documents agree.
LEMMA FirstAgree == Unshared(FirstRoleMap) /\ Naming(FirstRoleMap, FirstGrants)
PROOF
<1>1. Unshared(FirstRoleMap)
  BY StandingAssumption DEF Unshared, FirstRoleMap, Mapped
<1>2. Naming(FirstRoleMap, FirstGrants)
  BY HeldAssumption DEF Naming, Named, Mapped, FirstRoleMap, FirstGrants
<1> QED
  BY <1>1, <1>2

\* An admissible edit keeps both.
LEMMA EditAgrees ==
    ASSUME NEW ask \in Ask, NEW map \in RoleMap, NEW g \in Grants, NEW at \in Version, Admissible(ask, map),
           Unshared(map), Naming(map, g)
    PROVE  /\ ask.op = "grant" => Naming(map, GrantsAfter(ask, g))
           /\ ask.op # "grant" => Unshared(RoleMapAfter(ask, map, at)) /\ Naming(RoleMapAfter(ask, map, at), g)
PROOF
<1>1. ASSUME ask.op = "grant"
      PROVE  Naming(map, GrantsAfter(ask, g))
  <2>1. Named(map, ask.id) # {}
    BY <1>1 DEF Admissible
  <2> QED
    BY <1>1, <2>1, EditedGrants DEF Naming
<1>2. ASSUME ask.op # "grant"
      PROVE  Unshared(RoleMapAfter(ask, map, at)) /\ Naming(RoleMapAfter(ask, map, at), g)
  <2> DEFINE after == RoleMapAfter(ask, map, at)
  <2>1. /\ \A r \in Mapped(map) : after[r].secret = map[r].secret
        /\ \A r \in Roles : r \notin Mapped(map) /\ after[r].secret # NoSecret
              => ask.op = "create" /\ r = ask.role /\ after[r].secret = ask.secret
        /\ Mapped(map) \subseteq Mapped(after)
    BY <1>2, EditedMap
  <2>2. ask.op = "create" => \A r \in Roles : map[r].secret # ask.secret
    BY DEF Admissible
  <2>3. Unshared(after)
    <3> SUFFICES ASSUME NEW r \in Mapped(after), NEW s \in Mapped(after), after[r].secret = after[s].secret
                 PROVE  r = s
      BY DEF Unshared
    <3>1. r \in Roles /\ s \in Roles /\ after[r].secret # NoSecret /\ after[s].secret # NoSecret
      BY DEF Mapped
    <3>2. CASE r \in Mapped(map) /\ s \in Mapped(map)
      BY <2>1, <3>2 DEF Unshared
    <3>3. CASE r \notin Mapped(map) \/ s \notin Mapped(map)
      BY <2>1, <2>2, <3>1, <3>3
    <3> QED
      BY <3>2, <3>3
  <2>4. Naming(after, g)
    BY <2>1 DEF Naming, Named
  <2> QED
    BY <2>3, <2>4
<1> QED
  BY <1>1, <1>2


--------------------------------------------------------------------------------
(* The invariant. *)

\* The rotations a role map shows took place; a connection not there shows none.
Backed(map) ==
    \A r \in Roles : IF map[r].secret = NoSecret THEN map[r].rotated = 0
                     ELSE map[r].rotated <= vault[map[r].secret]

\* A copy whose etag is still current is the stored document.
CopyOK(x) ==
    /\ \A d \in x.read : x.tag[d] <= etag[d] /\ (Seeded => x.tag[d] # 0)
    /\ "roleMap" \in x.read =>
          /\ x.tag["roleMap"] = etag["roleMap"] => x.map = roleMap
          /\ Mapped(x.map) \subseteq Mapped(roleMap)
          /\ Backed(x.map)
    /\ "grants" \in x.read /\ x.tag["grants"] = etag["grants"] => x.grants = grants

\* The new version a rotation records is the connection's own, and later than the last.
RotatedOK(x) ==
    x.pc = "write" /\ x.ask.op = "rotate" =>
        \A r \in Named(x.map, x.ask.id) : x.map[r].rotated <= x.at /\ x.at <= vault[x.map[r].secret]

\* Where a request stands.
PhaseOK(x) ==
    /\ IF x.pc = "idle" THEN x.ask = NoAsk /\ x.read = {} ELSE x.ask \in Ask
    /\ x.pc \in {"vault", "write"} => x.read = Docs /\ Admissible(x.ask, x.map)
    /\ x.pc = "vault" => x.ask.op = "rotate"
    /\ x.applied => x.pc \in {"audit", "done"}
    /\ x.pc = "audit" => x.applied
    /\ x.reply = "ok" => x.applied
    /\ x.pc # "done" => x.reply = "none"

RequestOK(x) == CopyOK(x) /\ RotatedOK(x) /\ PhaseOK(x)

IInv ==
    /\ TypeOK
    /\ Seeded => \A d \in Docs : etag[d] # 0
    /\ Unshared(roleMap) /\ Naming(roleMap, grants) /\ Backed(roleMap)
    /\ \A q \in Requests : RequestOK(req[q])

--------------------------------------------------------------------------------
(* Steps. *)

LEMMA Versions == Version \subseteq Nat /\ 0 \in Version
PROOF
  BY MaxVersionAssumption DEF Version

\* A map entry's parts.
LEMMA EntryTyped ==
    ASSUME NEW map \in RoleMap, NEW r \in Roles
    PROVE  /\ map[r].secret \in Secrets \cup {NoSecret} /\ map[r].rotated \in Version /\ map[r].rotated \in Nat
PROOF
  BY Versions DEF RoleMap, Entry

\* Documents are only added to, and an etag tells one state of a document from another.
Grown ==
    /\ \A d \in Docs : etag'[d] \in Nat /\ etag[d] <= etag'[d]
    /\ etag'["roleMap"] = etag["roleMap"] => roleMap' = roleMap
    /\ etag'["grants"] = etag["grants"] => grants' = grants
    /\ Mapped(roleMap) \subseteq Mapped(roleMap')
    /\ \A s \in Secrets : vault[s] \in Nat /\ vault'[s] \in Nat /\ vault[s] <= vault'[s]

LEMMA BackedStays ==
    ASSUME Grown, NEW map \in RoleMap, Backed(map)
    PROVE  Backed(map)'
PROOF
<1>1. ASSUME NEW r \in Roles, map[r].secret # NoSecret
      PROVE  map[r].rotated <= vault'[map[r].secret]
  <2>1. map[r].secret \in Secrets /\ map[r].rotated \in Nat
    BY <1>1, EntryTyped
  <2> QED
    BY <1>1, <2>1 DEF Backed, Grown
<1> QED
  BY <1>1 DEF Backed

\* What a request knows stays true while others work.
LEMMA RequestStays ==
    ASSUME TypeOK, Grown, NEW x \in Local, RequestOK(x)
    PROVE  RequestOK(x)'
PROOF
<1> USE DEF RequestOK
<1>1. /\ x.read \subseteq Docs /\ x.map \in RoleMap /\ x.at \in Nat
      /\ \A d \in Docs : x.tag[d] \in Nat /\ etag[d] \in Nat
  BY Versions DEF TypeOK, Local
<1>2. CopyOK(x)'
  <2>1. \A d \in x.read : x.tag[d] <= etag'[d] /\ (Seeded => x.tag[d] # 0)
    BY <1>1 DEF CopyOK, Grown
  <2>2. ASSUME "roleMap" \in x.read
        PROVE  /\ x.tag["roleMap"] = etag'["roleMap"] => x.map = roleMap'
               /\ Mapped(x.map) \subseteq Mapped(roleMap)' /\ Backed(x.map)'
    <3>1. "roleMap" \in Docs
      BY DEF Docs
    <3> QED
      BY <1>1, <2>2, <3>1, BackedStays DEF CopyOK, Grown, Mapped
  <2>3. "grants" \in x.read /\ x.tag["grants"] = etag'["grants"] => x.grants = grants'
    <3>1. "grants" \in Docs
      BY DEF Docs
    <3> QED
      BY <1>1, <3>1 DEF CopyOK, Grown
  <2> QED
    BY <2>1, <2>2, <2>3 DEF CopyOK, Mapped
<1>3. RotatedOK(x)'
  <2>1. ASSUME x.pc = "write", x.ask.op = "rotate", NEW r \in Named(x.map, x.ask.id)
        PROVE  x.map[r].rotated <= x.at /\ x.at <= vault'[x.map[r].secret]
    <3>1. r \in Roles /\ x.map[r].secret \in Secrets
      BY <1>1, EntryTyped DEF Named, Mapped
    <3> QED
      BY <1>1, <2>1, <3>1 DEF RotatedOK, Grown
  <2> QED
    BY <2>1 DEF RotatedOK, Named, Mapped
<1>4. PhaseOK(x)'
  BY DEF PhaseOK, Admissible, Named, Mapped
<1> QED
  BY <1>2, <1>3, <1>4

\* A step of one request keeps the invariant if it leaves the request, the
\* documents and the vault right.
LEMMA RequestStep ==
    ASSUME IInv, NEW q \in Requests, NEW next \in Local, Becomes(q, next), RequestOK(next)',
           Grown, roleMap' \in RoleMap, grants' \in Grants,
           etag' \in [Docs -> Nat], vault' \in [Secrets -> Version],
           (Unshared(roleMap) /\ Naming(roleMap, grants) /\ Backed(roleMap))'
    PROVE  IInv'
PROOF
<1> USE DEF IInv
<1>1. req' \in [Requests -> Local] /\ req'[q] = next /\ \A p \in Requests : p # q => req'[p] = req[p]
  BY DEF TypeOK, Becomes
<1>2. TypeOK'
  BY <1>1 DEF TypeOK
<1>3. Seeded => \A d \in Docs : etag'[d] # 0
  BY DEF Grown, TypeOK
<1>4. ASSUME NEW p \in Requests
      PROVE  RequestOK(req[p])'
  <2>1. PICK x : x = req[p]
    OBVIOUS
  <2>2. x \in Local /\ RequestOK(x)
    BY <2>1 DEF TypeOK
  <2>3. RequestOK(x)'
    BY <2>2, RequestStays
  <2>4. CASE p = q
    BY <1>1, <2>4
  <2>5. CASE p # q
    BY <1>1, <2>1, <2>3, <2>5
  <2> QED
    BY <2>4, <2>5
<1> QED
  BY <1>2, <1>3, <1>4

\* The same when nothing but the request changes.
LEMMA LocalStep ==
    ASSUME IInv, NEW q \in Requests, NEW next \in Local, Becomes(q, next), RequestOK(next),
           UNCHANGED <<roleMap, grants, etag, vault>>
    PROVE  IInv'
PROOF
<1>1. Grown
  <2>1. /\ \A d \in Docs : etag[d] \in Nat /\ etag'[d] = etag[d]
        /\ \A s \in Secrets : vault[s] \in Nat /\ vault'[s] = vault[s]
    BY Versions DEF IInv, TypeOK
  <2> QED
    BY <2>1 DEF Grown
<1>2. RequestOK(next)'
  BY <1>1, RequestStays DEF IInv
<1>3. (Unshared(roleMap) /\ Naming(roleMap, grants) /\ Backed(roleMap))'
  BY DEF IInv, Unshared, Naming, Named, Backed, Mapped
<1> QED
  BY <1>1, <1>2, <1>3, RequestStep DEF IInv, TypeOK

LEMMA CallStep ==
    ASSUME IInv, NEW q \in Requests, Call(q)
    PROVE  IInv'
PROOF
<1>1. PICK a \in Ask : Becomes(q, [req[q] EXCEPT !.pc = "read", !.ask = a])
  BY DEF Call
<1>2. PICK y : y = [req[q] EXCEPT !.pc = "read", !.ask = a]
  OBVIOUS
<1>3. req[q] \in Local /\ RequestOK(req[q]) /\ req[q].pc = "idle" /\ req[q].read = {}
  BY DEF IInv, TypeOK, Call, RequestOK, PhaseOK
<1>4. /\ y \in Local /\ y.pc = "read" /\ y.ask = a /\ y.read = {}
      /\ y.applied = req[q].applied /\ y.reply = req[q].reply
  BY <1>2, <1>3 DEF Local
<1>5. RequestOK(y)
  BY <1>3, <1>4 DEF RequestOK, CopyOK, RotatedOK, PhaseOK
<1>6. Becomes(q, y) /\ UNCHANGED <<roleMap, grants, etag, vault>>
  BY <1>1, <1>2 DEF Call
<1> QED
  BY <1>4, <1>5, <1>6, LocalStep

\* A request answered with an error, or whose change was applied, stands right.
LEMMA AnswerStep ==
    ASSUME IInv, NEW q \in Requests, NEW reply \in Reply, Answer(q, reply),
           req[q].pc # "idle", reply = "ok" => req[q].applied,
           UNCHANGED <<roleMap, grants, etag, vault>>
    PROVE  IInv'
PROOF
<1>1. PICK y : y = [req[q] EXCEPT !.pc = "done", !.reply = reply]
  OBVIOUS
<1>2. req[q] \in Local /\ RequestOK(req[q])
  BY DEF IInv, TypeOK
<1>3. /\ y \in Local /\ y.pc = "done" /\ y.reply = reply /\ y.ask = req[q].ask /\ y.read = req[q].read
      /\ y.applied = req[q].applied /\ y.map = req[q].map /\ y.grants = req[q].grants /\ y.tag = req[q].tag
  BY <1>1, <1>2 DEF Local
<1>4. RequestOK(y)
  BY <1>2, <1>3 DEF RequestOK, CopyOK, RotatedOK, PhaseOK
<1>5. Becomes(q, y)
  BY <1>1 DEF Answer
<1> QED
  BY <1>3, <1>4, <1>5, LocalStep

\* A get sees the stored document and its etag.
LEMMA ReadStep ==
    ASSUME IInv, NEW q \in Requests, NEW d \in Docs, Read(q, d)
    PROVE  IInv'
PROOF
<1>1. /\ req[q] \in Local /\ RequestOK(req[q]) /\ req[q].pc = "read" /\ req[q].ask \in Ask
      /\ roleMap \in RoleMap /\ grants \in Grants /\ etag \in [Docs -> Nat] /\ Backed(roleMap)
      /\ Seeded => etag[d] # 0
  BY DEF IInv, TypeOK, Read, RequestOK, PhaseOK
<1>2. UNCHANGED <<roleMap, grants, etag, vault>>
  BY DEF Read
<1>3. PICK seen : seen = Seen(q, d)
  OBVIOUS
<1>4. PICK tag : tag = [req[q].tag EXCEPT ![d] = etag[d]]
  OBVIOUS
<1>5. tag \in [Docs -> Nat] /\ tag[d] = etag[d] /\ \A e \in Docs : e # d => tag[e] = req[q].tag[e]
  BY <1>1, <1>4 DEF Local
<1>6. /\ seen \in Local /\ seen.pc = "read" /\ seen.ask = req[q].ask /\ seen.tag = tag
      /\ seen.read = req[q].read \cup {d} /\ seen.applied = req[q].applied /\ seen.reply = req[q].reply
      /\ seen.map = IF d = "roleMap" THEN roleMap ELSE req[q].map
      /\ seen.grants = IF d = "grants" THEN grants ELSE req[q].grants
  BY <1>1, <1>3, <1>4, <1>5 DEF Seen, Local
<1>7. CopyOK(seen)
  <2>1. CopyOK(req[q]) /\ req[q].read \subseteq Docs
    BY <1>1 DEF RequestOK, Local
  <2>2. \A e \in seen.read : seen.tag[e] <= etag[e] /\ (Seeded => seen.tag[e] # 0)
    BY <1>1, <1>5, <1>6, <2>1 DEF CopyOK
  <2>3. "roleMap" \in seen.read =>
          /\ seen.tag["roleMap"] = etag["roleMap"] => seen.map = roleMap
          /\ Mapped(seen.map) \subseteq Mapped(roleMap)
          /\ Backed(seen.map)
    <3>1. CASE d = "roleMap"
      BY <1>1, <1>6, <3>1
    <3>2. CASE d # "roleMap"
      BY <1>5, <1>6, <2>1, <3>2 DEF CopyOK
    <3> QED
      BY <3>1, <3>2
  <2>4. "grants" \in seen.read /\ seen.tag["grants"] = etag["grants"] => seen.grants = grants
    <3>1. CASE d = "grants"
      BY <1>6, <3>1
    <3>2. CASE d # "grants"
      BY <1>5, <1>6, <2>1, <3>2 DEF CopyOK
    <3> QED
      BY <3>1, <3>2
  <2> QED
    BY <2>2, <2>3, <2>4 DEF CopyOK
<1>8. req[q].applied = FALSE /\ req[q].reply = "none"
  BY <1>1 DEF RequestOK, PhaseOK, Local
<1>9. CASE seen.read # Docs /\ Becomes(q, seen)
  <2>1. RequestOK(seen)
    BY <1>1, <1>6, <1>7, <1>8 DEF RequestOK, RotatedOK, PhaseOK
  <2> QED
    BY <1>2, <1>6, <1>9, <2>1, LocalStep
<1>10. ASSUME NEW pc \in {"vault", "write"}, seen.read = Docs, Admissible(req[q].ask, seen.map),
              pc = IF req[q].ask.op = "rotate" THEN "vault" ELSE "write", Becomes(q, [seen EXCEPT !.pc = pc])
       PROVE  IInv'
  <2>1. PICK y : y = [seen EXCEPT !.pc = pc]
    OBVIOUS
  <2>2. /\ y \in Local /\ y.pc = pc /\ y.ask = seen.ask /\ y.tag = seen.tag /\ y.read = seen.read
        /\ y.applied = seen.applied /\ y.reply = seen.reply /\ y.map = seen.map /\ y.grants = seen.grants
    BY <1>6, <2>1 DEF Local
  <2>3. CopyOK(y)
    BY <1>7, <2>2 DEF CopyOK
  <2>4. RequestOK(y)
    BY <1>1, <1>6, <1>8, <1>10, <2>2, <2>3 DEF RequestOK, RotatedOK, PhaseOK
  <2> QED
    BY <1>2, <1>10, <2>1, <2>2, <2>4, LocalStep
<1>11. ASSUME NEW reply \in {"notFound", "invalid"}, Becomes(q, [seen EXCEPT !.pc = "done", !.reply = reply])
       PROVE  IInv'
  <2>1. PICK y : y = [seen EXCEPT !.pc = "done", !.reply = reply]
    OBVIOUS
  <2>2. /\ y \in Local /\ y.pc = "done" /\ y.ask = seen.ask /\ y.tag = seen.tag /\ y.read = seen.read
        /\ y.applied = seen.applied /\ y.reply = reply /\ y.map = seen.map /\ y.grants = seen.grants
    BY <1>6, <2>1 DEF Local, Reply
  <2>3. CopyOK(y)
    BY <1>7, <2>2 DEF CopyOK
  <2>4. RequestOK(y)
    BY <1>1, <1>6, <1>8, <2>2, <2>3 DEF RequestOK, RotatedOK, PhaseOK
  <2> QED
    BY <1>2, <1>11, <2>1, <2>2, <2>4, LocalStep
<1> QED
  BY <1>3, <1>9, <1>10, <1>11 DEF Read

\* Key Vault stores the next version: later than any the record shows.
LEMMA SetSecretStep ==
    ASSUME IInv, NEW q \in Requests, SetSecret(q)
    PROVE  IInv'
PROOF
<1>1. PICK r \in Named(req[q].map, req[q].ask.id) :
         /\ vault[req[q].map[r].secret] < MaxVersion
         /\ vault' = [vault EXCEPT ![req[q].map[r].secret] = @ + 1]
         /\ \/ Becomes(q, [req[q] EXCEPT !.pc = "write", !.at = vault[req[q].map[r].secret] + 1])
            \/ Answer(q, "invalid")
  BY DEF SetSecret
<1>2. PICK x : x = req[q]
  OBVIOUS
<1>3. PICK s : s = x.map[r].secret
  OBVIOUS
<1>4. /\ x \in Local /\ RequestOK(x) /\ x.pc = "vault" /\ x.read = Docs /\ x.ask \in Ask /\ x.ask.op = "rotate"
      /\ Admissible(x.ask, x.map) /\ ~x.applied /\ x.reply = "none"
  BY <1>2 DEF IInv, TypeOK, SetSecret, RequestOK, PhaseOK
<1>5. /\ r \in Roles /\ s \in Secrets /\ AdminId[r] = x.ask.id
      /\ \A t \in Named(x.map, x.ask.id) : t = r
  BY <1>1, <1>2, <1>3, <1>4, EntryTyped, AdminIdAssumption DEF Named, Mapped, Local
<1>6. /\ vault \in [Secrets -> Version] /\ \A u \in Secrets : vault[u] \in Nat
      /\ vault[s] < MaxVersion /\ vault' = [vault EXCEPT ![s] = vault[s] + 1]
      /\ vault[s] + 1 \in Version /\ vault[s] + 1 \in Nat
      /\ vault'[s] = vault[s] + 1 /\ \A u \in Secrets : u # s => vault'[u] = vault[u]
  BY <1>1, <1>2, <1>3, <1>5, MaxVersionAssumption DEF IInv, TypeOK, Version
<1>7. vault' \in [Secrets -> Version]
  BY <1>6
<1>8. UNCHANGED <<roleMap, grants, etag>> /\ etag \in [Docs -> Nat]
  BY DEF SetSecret, IInv, TypeOK
<1>9. Grown
  <2>1. \A u \in Secrets : vault[u] \in Nat /\ vault'[u] \in Nat /\ vault[u] <= vault'[u]
    BY <1>5, <1>6
  <2>2. \A d \in Docs : etag'[d] \in Nat /\ etag[d] <= etag'[d]
    BY <1>8
  <2> QED
    BY <1>8, <2>1, <2>2 DEF Grown
<1>10. RequestOK(x)'
  BY <1>4, <1>9, RequestStays DEF IInv
<1>11. (Unshared(roleMap) /\ Naming(roleMap, grants) /\ Backed(roleMap))'
  <2>1. Backed(roleMap)'
    <3>1. PICK map : map = roleMap
      OBVIOUS
    <3> QED
      BY <1>8, <1>9, <3>1, BackedStays DEF IInv, TypeOK, Backed
  <2> QED
    BY <1>8, <2>1 DEF IInv, Unshared, Naming, Named, Mapped
<1>12. CASE Becomes(q, [req[q] EXCEPT !.pc = "write", !.at = vault[req[q].map[r].secret] + 1])
  <2>1. PICK y : y = [x EXCEPT !.pc = "write", !.at = vault[s] + 1]
    OBVIOUS
  <2>2. /\ y \in Local /\ y.pc = "write" /\ y.at = vault[s] + 1 /\ y.ask = x.ask /\ y.read = x.read /\ y.tag = x.tag
        /\ y.map = x.map /\ y.grants = x.grants /\ y.reply = x.reply /\ y.applied = x.applied
    BY <1>4, <1>6, <2>1 DEF Local
  <2>3. CopyOK(y)'
    BY <1>10, <2>2 DEF RequestOK, CopyOK
  <2>4. RotatedOK(y)'
    <3>1. x.map[r].rotated <= vault[s] /\ x.map[r].rotated \in Nat
      BY <1>1, <1>2, <1>3, <1>4, <1>5, EntryTyped DEF RequestOK, CopyOK, Backed, Named, Mapped, Docs, Local
    <3>2. x.map[r].rotated <= y.at /\ y.at <= vault'[s]
      BY <1>6, <2>2, <3>1
    <3> QED
      BY <1>3, <1>5, <2>2, <3>2 DEF RotatedOK, Named, Mapped
  <2>5. PhaseOK(y)'
    BY <1>4, <2>2 DEF PhaseOK, Admissible, Named, Mapped
  <2> QED
    BY <1>2, <1>3, <1>7, <1>8, <1>9, <1>11, <1>12, <2>1, <2>2, <2>3, <2>4, <2>5, RequestStep DEF RequestOK, IInv, TypeOK
<1>13. CASE Answer(q, "invalid")
  <2>1. PICK y : y = [x EXCEPT !.pc = "done", !.reply = "invalid"]
    OBVIOUS
  <2>2. /\ y \in Local /\ y.pc = "done" /\ y.ask = x.ask /\ y.read = x.read /\ y.tag = x.tag
        /\ y.map = x.map /\ y.grants = x.grants /\ y.reply = "invalid" /\ y.applied = x.applied
    BY <1>4, <2>1 DEF Local, Reply
  <2>3. CopyOK(y)'
    BY <1>10, <2>2 DEF RequestOK, CopyOK
  <2>4. RotatedOK(y)' /\ PhaseOK(y)'
    BY <1>4, <2>2 DEF RotatedOK, PhaseOK
  <2> QED
    BY <1>2, <1>7, <1>8, <1>9, <1>11, <1>13, <2>1, <2>2, <2>3, <2>4, RequestStep DEF Answer, RequestOK, IInv, TypeOK
<1> QED
  BY <1>1, <1>12, <1>13

\* A write that takes effect edits the stored document as it is: the precondition
\* held, so the copy is current.
LEMMA Written ==
    ASSUME IInv, Conditional, NEW q \in Requests, Write(q)
    PROVE  /\ req[q].ask \in Ask /\ req[q].at \in Version /\ Admissible(req[q].ask, roleMap)
           /\ \/ /\ req[q].ask.op = "grant"
                 /\ grants' = GrantsAfter(req[q].ask, grants) /\ UNCHANGED roleMap
                 /\ etag' = [etag EXCEPT !["grants"] = @ + 1]
              \/ /\ req[q].ask.op # "grant"
                 /\ roleMap' = RoleMapAfter(req[q].ask, roleMap, req[q].at) /\ UNCHANGED grants
                 /\ etag' = [etag EXCEPT !["roleMap"] = @ + 1]
                 /\ RotatedOK(req[q]) /\ req[q].map = roleMap
           /\ UNCHANGED vault /\ req[q].pc = "write"
PROOF
<1>1. PICK d : d = DocOf(req[q].ask)
  OBVIOUS
<1>2. PICK x : x = req[q]
  OBVIOUS
<1>3. /\ x \in Local /\ RequestOK(x) /\ x.pc = "write" /\ x.read = Docs /\ x.ask \in Ask /\ Admissible(x.ask, x.map)
      /\ d \in Docs
  BY <1>1, <1>2 DEF IInv, TypeOK, Write, RequestOK, PhaseOK, DocOf, Docs
<1>4. Precondition(q, d) /\ Store(q, d) /\ UNCHANGED vault
  BY <1>1 DEF Write
<1>5. x.tag[d] = etag[d]
  <2>1. (Seeded => x.tag[d] # 0) /\ x.tag[d] \in Nat
    BY <1>3 DEF RequestOK, CopyOK, Local
  <2>2. IF x.tag[d] # 0 THEN etag[d] = x.tag[d] ELSE Mode = "appconfig" \/ etag[d] = 0
    BY <1>2, <1>4 DEF Precondition
  <2>3. Mode = "appconfig" => Seeded
    BY DEF Conditional
  <2> QED
    BY <2>1, <2>2, <2>3
<1>6. CASE x.ask.op = "grant"
  <2>1. d = "grants" /\ grants' = GrantsAfter(x.ask, x.grants) /\ UNCHANGED roleMap
    BY <1>1, <1>2, <1>4, <1>6 DEF DocOf, Store
  <2>2. x.grants = grants /\ Mapped(x.map) \subseteq Mapped(roleMap)
    BY <1>3, <1>5, <2>1 DEF RequestOK, CopyOK, Docs
  <2>3. Admissible(x.ask, roleMap)
    BY <1>3, <1>6, <2>2 DEF Admissible, Named
  <2>4. x.at \in Version
    BY <1>3 DEF Local
  <2> QED
    BY <1>2, <1>3, <1>4, <1>6, <2>1, <2>2, <2>3, <2>4 DEF Store
<1>7. CASE x.ask.op # "grant"
  <2>1. d = "roleMap" /\ roleMap' = RoleMapAfter(x.ask, x.map, x.at) /\ UNCHANGED grants
    BY <1>1, <1>2, <1>4, <1>7 DEF DocOf, Store
  <2>2. x.map = roleMap
    BY <1>3, <1>5, <2>1 DEF RequestOK, CopyOK, Docs
  <2>3. x.at \in Version
    BY <1>3 DEF Local
  <2> QED
    BY <1>2, <1>3, <1>4, <1>7, <2>1, <2>2, <2>3 DEF Store, RequestOK
<1> QED
  BY <1>6, <1>7

\* What a written role map records took place, and no record went back.
LEMMA RecordStays ==
    ASSUME IInv, NEW x \in Local, x.ask \in Ask, x.ask.op # "grant", x.map = roleMap, Admissible(x.ask, roleMap),
           RotatedOK(x), x.pc = "write", NEW after, after = RoleMapAfter(x.ask, roleMap, x.at)
    PROVE  Backed(after) /\ \A r \in Roles : roleMap[r].rotated <= after[r].rotated
PROOF
<1>1. roleMap \in RoleMap /\ Backed(roleMap) /\ x.at \in Version /\ after \in RoleMap
  BY EditedMap DEF IInv, TypeOK, Local
<1>2. \A s \in Secrets : vault[s] \in Nat
  BY Versions DEF IInv, TypeOK
<1>3. ASSUME NEW r \in Roles
      PROVE  /\ IF after[r].secret = NoSecret THEN after[r].rotated = 0 ELSE after[r].rotated <= vault[after[r].secret]
             /\ roleMap[r].rotated <= after[r].rotated
  <2>1. PICK entry : entry = roleMap[r]
    OBVIOUS
  <2>2. /\ entry \in Entry /\ entry.secret \in Secrets \cup {NoSecret} /\ entry.rotated \in Nat
        /\ IF entry.secret = NoSecret THEN entry.rotated = 0 ELSE entry.rotated <= vault[entry.secret]
    BY <1>1, <2>1, EntryTyped DEF RoleMap, Backed
  <2>3. after[r] = IF r \in Edited(x.ask, roleMap) THEN EntryAfter(x.ask, entry, x.at) ELSE entry
    BY <2>1 DEF RoleMapAfter
  <2>4. CASE r \notin Edited(x.ask, roleMap)
    BY <2>1, <2>2, <2>3, <2>4
  <2>5. CASE r \in Edited(x.ask, roleMap)
    <3>1. /\ after[r].secret = IF x.ask.op = "create" THEN x.ask.secret ELSE entry.secret
          /\ after[r].rotated = IF x.ask.op = "create" THEN 0 ELSE IF x.ask.op = "rotate" THEN x.at ELSE entry.rotated
      BY <1>1, <2>2, <2>3, <2>5, EntryFields
    <3>2. CASE x.ask.op = "create"
      <4>1. entry.secret = NoSecret /\ x.ask.secret \in Secrets
        BY <2>1, <2>5, <3>2, Kinds DEF Edited, Admissible
      <4> QED
        BY <1>2, <2>1, <2>2, <3>1, <3>2, <4>1, NoSecretAssumption
    <3>3. CASE x.ask.op = "rotate"
      <4>1. r \in Named(x.map, x.ask.id) /\ entry.secret # NoSecret
        BY <2>1, <2>5, <3>3 DEF Edited, Named, Mapped
      <4>2. x.map[r].rotated <= x.at /\ x.at <= vault[x.map[r].secret]
        BY <3>3, <4>1 DEF RotatedOK
      <4> QED
        BY <2>1, <2>2, <3>1, <3>3, <4>1, <4>2
    <3>4. CASE x.ask.op # "create" /\ x.ask.op # "rotate"
      BY <2>1, <2>2, <3>1, <3>4
    <3> QED
      BY <3>2, <3>3, <3>4
  <2> QED
    BY <2>4, <2>5
<1> QED
  BY <1>3 DEF Backed

LEMMA WriteStep ==
    ASSUME IInv, Conditional, NEW q \in Requests, Write(q)
    PROVE  IInv'
PROOF
<1>1. PICK x : x = req[q]
  OBVIOUS
<1>2. /\ x \in Local /\ RequestOK(x) /\ x.pc = "write" /\ x.ask \in Ask /\ x.at \in Version
      /\ Admissible(x.ask, roleMap) /\ UNCHANGED vault
  BY <1>1, Written DEF IInv, TypeOK
<1>3. /\ roleMap \in RoleMap /\ grants \in Grants /\ etag \in [Docs -> Nat] /\ vault \in [Secrets -> Version]
      /\ Unshared(roleMap) /\ Naming(roleMap, grants) /\ Backed(roleMap)
      /\ \A s \in Secrets : vault[s] \in Nat
  BY Versions DEF IInv, TypeOK
<1>4. /\ Grown /\ roleMap' \in RoleMap /\ grants' \in Grants /\ etag' \in [Docs -> Nat]
      /\ (Unshared(roleMap) /\ Naming(roleMap, grants) /\ Backed(roleMap))'
  <2>1. CASE /\ x.ask.op = "grant" /\ grants' = GrantsAfter(x.ask, grants) /\ UNCHANGED roleMap
             /\ etag' = [etag EXCEPT !["grants"] = @ + 1]
    <3>1. grants' \in Grants /\ Naming(roleMap, grants')
      BY <1>2, <1>3, <2>1, EditedGrants, EditAgrees
    <3>2. /\ etag' \in [Docs -> Nat] /\ etag'["grants"] = etag["grants"] + 1 /\ etag'["roleMap"] = etag["roleMap"]
          /\ etag["grants"] \in Nat /\ etag["roleMap"] \in Nat
      BY <1>3, <2>1 DEF Docs
    <3>3. Grown
      BY <1>2, <1>3, <2>1, <3>2 DEF Grown, Docs
    <3>4. (Unshared(roleMap) /\ Naming(roleMap, grants) /\ Backed(roleMap))'
      BY <1>2, <1>3, <2>1, <3>1 DEF Unshared, Naming, Named, Mapped, Backed
    <3> QED
      BY <1>3, <2>1, <3>1, <3>2, <3>3, <3>4
  <2>2. CASE /\ x.ask.op # "grant" /\ roleMap' = RoleMapAfter(x.ask, roleMap, x.at) /\ UNCHANGED grants
             /\ etag' = [etag EXCEPT !["roleMap"] = @ + 1] /\ RotatedOK(x) /\ x.map = roleMap
    <3>1. PICK after : after = RoleMapAfter(x.ask, roleMap, x.at)
      OBVIOUS
    <3>2. after \in RoleMap /\ Mapped(roleMap) \subseteq Mapped(after) /\ Unshared(after) /\ Naming(after, grants)
      BY <1>2, <1>3, <2>2, <3>1, EditedMap, EditAgrees
    <3>3. Backed(after)
      BY <1>2, <2>2, <3>1, RecordStays
    <3>4. /\ etag' \in [Docs -> Nat] /\ etag'["roleMap"] = etag["roleMap"] + 1 /\ etag'["grants"] = etag["grants"]
          /\ etag["grants"] \in Nat /\ etag["roleMap"] \in Nat
      BY <1>3, <2>2 DEF Docs
    <3>5. Grown
      BY <1>2, <1>3, <2>2, <3>1, <3>2, <3>4 DEF Grown, Docs, Mapped
    <3>6. (Unshared(roleMap) /\ Naming(roleMap, grants) /\ Backed(roleMap))'
      BY <1>2, <1>3, <2>2, <3>1, <3>2, <3>3 DEF Unshared, Naming, Named, Mapped, Backed
    <3> QED
      BY <1>3, <2>2, <3>1, <3>2, <3>4, <3>5, <3>6
  <2> QED
    BY <1>1, <2>1, <2>2, Written
<1>5. RequestOK(x)'
  BY <1>2, <1>4, RequestStays DEF IInv
<1>6. ASSUME NEW pc \in {"audit", "done"}, NEW reply \in Reply \ {"ok"}, pc = "audit" => reply = "none",
             NEW y \in Local, Becomes(q, y), y.pc = pc, y.reply = reply, y.applied,
             y.ask = x.ask, y.read = x.read, y.tag = x.tag, y.map = x.map, y.grants = x.grants
      PROVE  IInv'
  <2>1. CopyOK(y)'
    BY <1>5, <1>6 DEF RequestOK, CopyOK
  <2>2. RotatedOK(y)' /\ PhaseOK(y)'
    BY <1>2, <1>6 DEF RotatedOK, PhaseOK
  <2> QED
    BY <1>2, <1>3, <1>4, <1>6, <2>1, <2>2, RequestStep DEF RequestOK
<1>7. CASE Becomes(q, [req[q] EXCEPT !.pc = "audit", !.applied = TRUE])
  <2>1. PICK y : y = [x EXCEPT !.pc = "audit", !.applied = TRUE]
    OBVIOUS
  <2>2. /\ y \in Local /\ y.pc = "audit" /\ y.ask = x.ask /\ y.read = x.read /\ y.tag = x.tag
        /\ y.map = x.map /\ y.grants = x.grants /\ y.reply = "none" /\ y.applied
    BY <1>2, <2>1 DEF Local, RequestOK, PhaseOK
  <2> QED
    BY <1>1, <1>6, <1>7, <2>1, <2>2 DEF Reply
<1>8. ASSUME NEW reply \in {"invalid", "conflict"},
             Becomes(q, [req[q] EXCEPT !.pc = "done", !.reply = reply, !.applied = TRUE])
      PROVE  IInv'
  <2>1. PICK y : y = [x EXCEPT !.pc = "done", !.reply = reply, !.applied = TRUE]
    OBVIOUS
  <2>2. /\ y \in Local /\ y.pc = "done" /\ y.ask = x.ask /\ y.read = x.read /\ y.tag = x.tag
        /\ y.map = x.map /\ y.grants = x.grants /\ y.reply = reply /\ y.applied
    BY <1>2, <2>1 DEF Local, Reply
  <2> QED
    BY <1>1, <1>6, <1>8, <2>1, <2>2 DEF Reply
<1> QED
  BY <1>7, <1>8 DEF Write, Refusal

--------------------------------------------------------------------------------
(* The invariant. *)

LEMMA InitIInv == Init => IInv
PROOF
<1> SUFFICES ASSUME Init PROVE IInv
  OBVIOUS
<1> USE DEF Init
<1>1. Quiet \in Local
  BY Versions, FirstTyped DEF Quiet, Local, Reply, Docs
<1>2. TypeOK
  BY <1>1, Versions, FirstTyped DEF TypeOK, Docs
<1>3. Backed(roleMap)
  <2>1. \A r \in Roles : roleMap[r].rotated = 0 /\ roleMap[r].secret \in Secrets \cup {NoSecret}
    BY StandingAssumption DEF FirstRoleMap
  <2>2. \A s \in Secrets : vault[s] = 0
    OBVIOUS
  <2>3. ASSUME NEW r \in Roles, roleMap[r].secret # NoSecret
        PROVE  roleMap[r].rotated <= vault[roleMap[r].secret]
    <3>1. roleMap[r].rotated = 0 /\ vault[roleMap[r].secret] = 0
      BY <2>1, <2>2, <2>3
    <3> HIDE DEF Init
    <3> QED
      BY <3>1
  <2> HIDE DEF Init
  <2> QED
    BY <2>1, <2>3 DEF Backed
<1>4. ASSUME NEW q \in Requests
      PROVE  RequestOK(req[q])
  <2>1. PICK x : x = Quiet
    OBVIOUS
  <2>2. x.pc = "idle" /\ x.ask = NoAsk /\ x.read = {} /\ x.reply = "none" /\ ~x.applied
    BY <2>1 DEF Quiet
  <2>3. RequestOK(x)
    BY <2>2 DEF RequestOK, CopyOK, RotatedOK, PhaseOK
  <2> QED
    BY <2>1, <2>3
<1>5. Unshared(roleMap) /\ Naming(roleMap, grants)
  BY FirstAgree
<1>6. Seeded => \A d \in Docs : etag[d] # 0
  OBVIOUS
<1> QED
  BY <1>2, <1>3, <1>4, <1>5, <1>6 DEF IInv

LEMMA StepIInv == ASSUME Conditional PROVE IInv /\ [Next]_storeVars => IInv'
PROOF
<1> SUFFICES ASSUME IInv, [Next]_storeVars PROVE IInv'
  OBVIOUS
<1>1. CASE UNCHANGED storeVars
  BY <1>1 DEF storeVars, IInv, TypeOK, Unshared, Naming, Named, Mapped, Backed, RequestOK, CopyOK, RotatedOK, PhaseOK,
              Admissible
<1>2. ASSUME NEW q \in Requests, ReadFails(q) \/ SetSecretFails(q) \/ WriteRefused(q) \/ WriteFails(q) \/ Audit(q)
      PROVE  IInv'
  <2>1. PICK reply \in Reply : Answer(q, reply) /\ (reply = "ok" => Audit(q))
    BY <1>2 DEF ReadFails, SetSecretFails, WriteRefused, WriteFails, Audit, Refusal, Reply
  <2>2. req[q].pc # "idle" /\ (Audit(q) => req[q].applied) /\ UNCHANGED <<roleMap, grants, etag, vault>>
    BY <1>2 DEF ReadFails, SetSecretFails, WriteRefused, WriteFails, Audit, IInv, RequestOK, PhaseOK
  <2> QED
    BY <2>1, <2>2, AnswerStep
<1> QED
  BY <1>1, <1>2, CallStep, ReadStep, SetSecretStep, WriteStep DEF Next, Step, Finished

LEMMA Inductive == ASSUME Conditional PROVE Spec => []IInv
PROOF
<1>1. IInv /\ [Next]_storeVars => IInv'
  BY StepIInv
<1> QED
  BY <1>1, InitIInv, PTL DEF Spec

\* The documents, the requests and their copies keep their types (policy-store.js).
THEOREM TypeCorrect == ASSUME Conditional PROVE Spec => []TypeOK
PROOF
<1>1. IInv => TypeOK
  BY DEF IInv
<1> QED
  BY <1>1, Inductive, PTL

\* No two connections share a secret, and the grants name only connections the
\* role map has, whatever requests interleave (admin.js, policy-store.js).
THEOREM Agreement == ASSUME Conditional PROVE Spec => []DocumentsAgree
PROOF
<1>1. IInv => DocumentsAgree
  BY DEF IInv, DocumentsAgree, OneRolePerSecret, GrantsNameConnections, Unshared, Naming
<1> QED
  BY <1>1, Inductive, PTL

--------------------------------------------------------------------------------
(* What a step does to the documents. *)

\* The documents change only by a write, which settles a request against them as
\* they are; anything else leaves them, and the vault only grows.
LEMMA DocumentSteps ==
    ASSUME IInv, Next
    PROVE  \/ \E q \in Requests : Write(q)
           \/ /\ UNCHANGED <<roleMap, grants>>
              /\ \A s \in Secrets : vault[s] \in Nat /\ vault'[s] \in Nat /\ vault[s] <= vault'[s]
PROOF
<1>1. /\ vault \in [Secrets -> Version] /\ \A s \in Secrets : vault[s] \in Nat
  BY Versions DEF IInv, TypeOK
<1>2. ASSUME NEW q \in Requests, SetSecret(q)
      PROVE  UNCHANGED <<roleMap, grants>> /\ \A s \in Secrets : vault'[s] \in Nat /\ vault[s] <= vault'[s]
  <2>1. PICK u : vault' = [vault EXCEPT ![u] = @ + 1] /\ UNCHANGED <<roleMap, grants>>
    BY <1>2 DEF SetSecret
  <2>2. \A s \in Secrets : vault'[s] = vault[s] \/ vault'[s] = vault[s] + 1
    BY <1>1, <2>1
  <2> QED
    BY <1>1, <2>1, <2>2
<1>3. ASSUME NEW q \in Requests, Step(q), ~SetSecret(q), ~Write(q)
      PROVE  UNCHANGED <<roleMap, grants, vault>>
  BY <1>3 DEF Step, Call, ReadFails, Read, SetSecretFails, WriteRefused, WriteFails, Audit
<1>4. CASE Finished
  BY <1>1, <1>4 DEF Finished, storeVars
<1> QED
  BY <1>1, <1>2, <1>3, <1>4 DEF Next

\* A recorded rotation took place, and no record goes back to an earlier one, though
\* rotations of one connection overtake each other (admin.js, recordRotation).
THEOREM Rotations == ASSUME Conditional PROVE Spec => RotationBacked
PROOF
<1>1. ASSUME IInv, IInv', Next
      PROVE  /\ \A r \in Roles : roleMap'[r].rotated >= roleMap[r].rotated
             /\ \A r \in Mapped(roleMap') : roleMap'[r].rotated <= vault'[roleMap'[r].secret]
  <2>1. \A r \in Mapped(roleMap') : roleMap'[r].rotated <= vault'[roleMap'[r].secret]
    BY <1>1 DEF IInv, Backed, Mapped
  <2>2. \A r \in Roles : roleMap[r].rotated \in Nat
    BY <1>1, EntryTyped DEF IInv, TypeOK
  <2>3. CASE UNCHANGED roleMap
    BY <2>1, <2>2, <2>3
  <2>4. ASSUME NEW q \in Requests, Write(q), roleMap' # roleMap
        PROVE  \A r \in Roles : roleMap'[r].rotated >= roleMap[r].rotated
    <3>1. PICK x : x = req[q]
      OBVIOUS
    <3>2. /\ x \in Local /\ x.ask \in Ask /\ x.ask.op # "grant" /\ x.map = roleMap /\ Admissible(x.ask, roleMap)
          /\ RotatedOK(x) /\ x.pc = "write" /\ roleMap' = RoleMapAfter(x.ask, roleMap, x.at)
      BY <1>1, <2>4, <3>1, Written DEF IInv, TypeOK
    <3>3. PICK after : after = RoleMapAfter(x.ask, roleMap, x.at)
      OBVIOUS
    <3>4. \A r \in Roles : roleMap[r].rotated <= after[r].rotated
      BY <1>1, <3>2, <3>3, RecordStays
    <3>5. \A r \in Roles : after[r].rotated \in Nat
      BY <1>1, <3>2, <3>3, EntryTyped DEF IInv, TypeOK
    <3> QED
      BY <2>2, <3>2, <3>3, <3>4, <3>5
  <2> QED
    BY <1>1, <2>1, <2>3, <2>4, DocumentSteps
<1>2. IInv /\ IInv' /\ [Next]_storeVars =>
        [/\ \A r \in Roles : roleMap'[r].rotated >= roleMap[r].rotated
         /\ \A r \in Mapped(roleMap') : roleMap'[r].rotated <= vault'[roleMap'[r].secret]]_storeVars
  BY <1>1
<1> QED
  BY <1>2, Inductive, PTL DEF Spec, RotationBacked

--------------------------------------------------------------------------------
(* The refinement. *)

\* The abstract module's operators are those of the detailed one.
LEMMA SameEdits ==
    /\ Book!Ask = Ask /\ Book!NoAsk = NoAsk /\ Book!Version = Version
    /\ \A a, map : Book!Admissible(a, map) <=> Admissible(a, map)
    /\ \A a, map, at : Book!RoleMapAfter(a, map, at) = RoleMapAfter(a, map, at)
    /\ \A a, g : Book!GrantsAfter(a, g) = GrantsAfter(a, g)
    /\ Book!FirstRoleMap = FirstRoleMap /\ Book!FirstGrants = FirstGrants
PROOF
<1>1. Book!Ask = Ask /\ Book!NoAsk = NoAsk /\ Book!Version = Version
  BY DEF Book!Ask, Book!Create, Book!Status, Book!Rotate, Book!Grant, Ask, Create, Status, Rotate, Grant,
         Book!NoAsk, NoAsk, Book!Version, Version
<1>2. ASSUME NEW a, NEW map
      PROVE  Book!Admissible(a, map) <=> Admissible(a, map)
  BY DEF Book!Admissible, Admissible, Book!Named, Named, Book!Mapped, Mapped
<1>3. ASSUME NEW a, NEW map, NEW at
      PROVE  Book!RoleMapAfter(a, map, at) = RoleMapAfter(a, map, at)
  BY DEF Book!RoleMapAfter, RoleMapAfter, Book!EntryAfter, EntryAfter, Book!Edited, Edited, Book!Named, Named,
         Book!Mapped, Mapped
<1>4. ASSUME NEW a, NEW g
      PROVE  Book!GrantsAfter(a, g) = GrantsAfter(a, g)
  BY DEF Book!GrantsAfter, GrantsAfter
<1>5. Book!FirstRoleMap = FirstRoleMap /\ Book!FirstGrants = FirstGrants
  BY DEF Book!FirstRoleMap, FirstRoleMap, Book!FirstGrants, FirstGrants
<1> QED
  BY <1>1, <1>2, <1>3, <1>4, <1>5

Asks == [q \in Requests |-> req[q].ask]

\* What the book shows of a request that becomes another record.
LEMMA View ==
    ASSUME IInv, NEW q \in Requests, NEW next, Becomes(q, next)
    PROVE  /\ Asks' = [Asks EXCEPT ![q] = next.ask]
           /\ Settled' = IF next.applied THEN Settled \cup {q} ELSE Settled \ {q}
           /\ Acked' = IF next.reply = "ok" THEN Acked \cup {q} ELSE Acked \ {q}
           /\ next.ask = req[q].ask => Asks' = Asks
           /\ next.applied = req[q].applied => Settled' = Settled
           /\ next.reply # "ok" /\ req[q].reply # "ok" => Acked' = Acked
PROOF
<1>1. \A p \in Requests : req'[p] = IF p = q THEN next ELSE req[p]
  BY DEF IInv, TypeOK, Becomes
<1>2. Asks' = [Asks EXCEPT ![q] = next.ask]
  BY <1>1 DEF Asks
<1>3. Settled' = IF next.applied THEN Settled \cup {q} ELSE Settled \ {q}
  BY <1>1 DEF Settled
<1>4. Acked' = IF next.reply = "ok" THEN Acked \cup {q} ELSE Acked \ {q}
  BY <1>1 DEF Acked
<1>5. next.ask = req[q].ask => Asks' = Asks
  BY <1>1 DEF Asks
<1>6. next.applied = req[q].applied => Settled' = Settled
  BY <1>1 DEF Settled
<1>7. next.reply # "ok" /\ req[q].reply # "ok" => Acked' = Acked
  BY <1>1 DEF Acked
<1> QED
  BY <1>2, <1>3, <1>4, <1>5, <1>6, <1>7

\* A request that asks the same, and is as settled and acknowledged as before, is
\* a stutter of the book.
LEMMA Stutter ==
    ASSUME IInv, NEW q \in Requests, NEW next, Becomes(q, next), UNCHANGED <<roleMap, grants>>,
           next.ask = req[q].ask, next.applied = req[q].applied, next.reply # "ok", req[q].reply # "ok"
    PROVE  UNCHANGED Book!bookVars
PROOF
<1>1. Asks' = Asks /\ Settled' = Settled /\ Acked' = Acked
  BY View
<1> QED
  BY <1>1 DEF Book!bookVars, Asks

\* An answer that is not a success is a stutter; no request is answered twice.
LEMMA AnswerStutter ==
    ASSUME IInv, NEW q \in Requests, NEW reply \in Reply \ {"ok"}, Answer(q, reply), req[q].pc # "done",
           UNCHANGED <<roleMap, grants>>
    PROVE  UNCHANGED Book!bookVars
PROOF
<1>1. PICK y : y = [req[q] EXCEPT !.pc = "done", !.reply = reply]
  OBVIOUS
<1>2. y.ask = req[q].ask /\ y.applied = req[q].applied /\ y.reply # "ok" /\ req[q].reply # "ok"
  BY <1>1 DEF IInv, TypeOK, Local, RequestOK, PhaseOK
<1> QED
  BY <1>1, <1>2, Stutter DEF Answer

\* A read is one too.
LEMMA ReadStutter ==
    ASSUME IInv, NEW q \in Requests, NEW d \in Docs, Read(q, d)
    PROVE  UNCHANGED Book!bookVars
PROOF
<1>1. PICK seen : seen = Seen(q, d)
  OBVIOUS
<1>2. /\ req[q] \in Local /\ req[q].reply = "none" /\ etag \in [Docs -> Nat]
      /\ roleMap \in RoleMap /\ grants \in Grants /\ UNCHANGED <<roleMap, grants>>
  BY DEF IInv, TypeOK, Read, RequestOK, PhaseOK
<1>3. PICK tag : tag = [req[q].tag EXCEPT ![d] = etag[d]]
  OBVIOUS
<1>4. seen.ask = req[q].ask /\ seen.applied = req[q].applied /\ seen.reply = "none" /\ seen \in Local
  <2>1. tag \in [Docs -> Nat]
    BY <1>2, <1>3 DEF Local
  <2> QED
    BY <1>1, <1>2, <1>3, <2>1 DEF Seen, Local
<1>5. CASE Becomes(q, seen)
  BY <1>2, <1>4, <1>5, Stutter
<1>6. ASSUME NEW pc, Becomes(q, [seen EXCEPT !.pc = pc])
      PROVE  UNCHANGED Book!bookVars
  <2>1. PICK y : y = [seen EXCEPT !.pc = pc]
    OBVIOUS
  <2>2. y.ask = seen.ask /\ y.applied = seen.applied /\ y.reply = seen.reply
    BY <1>4, <2>1 DEF Local
  <2> QED
    BY <1>2, <1>4, <1>6, <2>1, <2>2, Stutter
<1>7. ASSUME NEW reply \in {"notFound", "invalid"}, Becomes(q, [seen EXCEPT !.pc = "done", !.reply = reply])
      PROVE  UNCHANGED Book!bookVars
  <2>1. PICK y : y = [seen EXCEPT !.pc = "done", !.reply = reply]
    OBVIOUS
  <2>2. y.ask = seen.ask /\ y.applied = seen.applied /\ y.reply = reply
    BY <1>4, <2>1 DEF Local
  <2> QED
    BY <1>2, <1>4, <1>7, <2>1, <2>2, Stutter
<1> QED
  BY <1>1, <1>5, <1>6, <1>7 DEF Read

LEMMA SetSecretStutter ==
    ASSUME IInv, NEW q \in Requests, SetSecret(q)
    PROVE  UNCHANGED Book!bookVars
PROOF
<1>1. PICK at : Becomes(q, [req[q] EXCEPT !.pc = "write", !.at = at]) \/ Answer(q, "invalid")
  BY DEF SetSecret
<1>2. req[q] \in Local /\ req[q].pc = "vault" /\ req[q].reply = "none" /\ UNCHANGED <<roleMap, grants>>
  BY DEF IInv, TypeOK, SetSecret, RequestOK, PhaseOK
<1>3. CASE Becomes(q, [req[q] EXCEPT !.pc = "write", !.at = at])
  <2>1. PICK y : y = [req[q] EXCEPT !.pc = "write", !.at = at]
    OBVIOUS
  <2>2. y.ask = req[q].ask /\ y.applied = req[q].applied /\ y.reply = "none"
    BY <1>2, <2>1 DEF Local
  <2> QED
    BY <1>2, <1>3, <2>1, <2>2, Stutter
<1>4. CASE Answer(q, "invalid")
  BY <1>2, <1>4, AnswerStutter DEF Reply
<1> QED
  BY <1>1, <1>3, <1>4

\* A call is the book's Submit.
LEMMA CallSubmits ==
    ASSUME IInv, NEW q \in Requests, Call(q)
    PROVE  Book!Submit(q)
PROOF
<1>1. PICK a \in Ask : Becomes(q, [req[q] EXCEPT !.pc = "read", !.ask = a])
  BY DEF Call
<1>2. PICK y : y = [req[q] EXCEPT !.pc = "read", !.ask = a]
  OBVIOUS
<1>3. req[q] \in Local /\ req[q].ask = NoAsk /\ ~req[q].applied /\ req[q].reply = "none" /\ UNCHANGED <<roleMap, grants>>
  BY DEF IInv, TypeOK, Call, RequestOK, PhaseOK
<1>4. y.ask = a /\ ~y.applied /\ y.reply = "none"
  BY <1>2, <1>3 DEF Local
<1>5. Asks' = [Asks EXCEPT ![q] = a] /\ Settled' = Settled /\ Acked' = Acked
  BY <1>1, <1>2, <1>3, <1>4, View DEF Settled, Acked
<1> QED
  BY <1>1, <1>3, <1>5, SameEdits DEF Book!Submit, Asks

\* A write that takes effect is the book's TakeEffect.
LEMMA WriteTakesEffect ==
    ASSUME IInv, Conditional, NEW q \in Requests, Write(q)
    PROVE  Book!TakeEffect(q)
PROOF
<1>1. PICK x : x = req[q]
  OBVIOUS
<1>2. x \in Local /\ x.pc = "write" /\ ~x.applied /\ x.reply = "none" /\ x.ask \in Ask /\ x.ask # NoAsk
  <2>1. x \in Local /\ x.pc = "write" /\ ~x.applied /\ x.reply = "none" /\ x.ask \in Ask
    BY <1>1 DEF IInv, TypeOK, Write, RequestOK, PhaseOK
  <2> QED
    BY <2>1, Kinds DEF NoAsk
<1>3. PICK next : next.ask = x.ask /\ next.applied /\ next.reply # "ok" /\ Becomes(q, next)
  <2>1. CASE Becomes(q, [req[q] EXCEPT !.pc = "audit", !.applied = TRUE])
    <3>1. PICK y : y = [x EXCEPT !.pc = "audit", !.applied = TRUE]
      OBVIOUS
    <3>2. y.ask = x.ask /\ y.applied /\ y.reply = "none"
      BY <1>2, <3>1 DEF Local
    <3> QED
      BY <1>1, <2>1, <3>1, <3>2
  <2>2. ASSUME NEW reply \in {"invalid", "conflict"},
               Becomes(q, [req[q] EXCEPT !.pc = "done", !.reply = reply, !.applied = TRUE])
        PROVE  \E next : next.ask = x.ask /\ next.applied /\ next.reply # "ok" /\ Becomes(q, next)
    <3>1. PICK y : y = [x EXCEPT !.pc = "done", !.reply = reply, !.applied = TRUE]
      OBVIOUS
    <3>2. y.ask = x.ask /\ y.applied /\ y.reply = reply
      BY <1>2, <3>1 DEF Local
    <3> QED
      BY <1>1, <2>2, <3>1, <3>2
  <2> QED
    BY <2>1, <2>2 DEF Write, Refusal
<1>4. Asks' = Asks /\ Settled' = Settled \cup {q} /\ Acked' = Acked
  BY <1>1, <1>2, <1>3, View
<1>5. q \notin Settled /\ Asks[q] = x.ask
  BY <1>1, <1>2 DEF Settled, Asks
<1>6. \/ x.ask.op = "grant" /\ grants' = GrantsAfter(x.ask, grants) /\ UNCHANGED roleMap
      \/ x.ask.op # "grant" /\ UNCHANGED grants /\ \E at \in Version : roleMap' = RoleMapAfter(x.ask, roleMap, at)
  BY <1>1, Written
<1>7. Admissible(x.ask, roleMap)
  BY <1>1, Written
<1> QED
  BY <1>2, <1>4, <1>5, <1>6, <1>7, SameEdits DEF Book!TakeEffect, Asks

\* An audit answered is the book's Acknowledge.
LEMMA AuditAcknowledges ==
    ASSUME IInv, NEW q \in Requests, Audit(q)
    PROVE  Book!Acknowledge(q) \/ UNCHANGED Book!bookVars
PROOF
<1>1. /\ req[q] \in Local /\ req[q].pc = "audit" /\ req[q].applied /\ req[q].reply = "none"
      /\ UNCHANGED <<roleMap, grants>>
  BY DEF IInv, TypeOK, Audit, RequestOK, PhaseOK
<1>2. CASE Answer(q, "invalid")
  BY <1>1, <1>2, AnswerStutter DEF Reply
<1>3. CASE Answer(q, "ok")
  <2>1. PICK y : y = [req[q] EXCEPT !.pc = "done", !.reply = "ok"]
    OBVIOUS
  <2>2. y.ask = req[q].ask /\ y.applied /\ y.reply = "ok"
    BY <1>1, <2>1 DEF Local
  <2>3. Asks' = Asks /\ Acked' = Acked \cup {q}
    BY <1>1, <1>3, <2>1, <2>2, View DEF Answer
  <2>4. Settled' = Settled
    BY <1>1, <1>3, <2>1, <2>2, View DEF Answer, Settled
  <2>5. q \in Settled \ Acked
    BY <1>1 DEF Settled, Acked
  <2> QED
    BY <1>1, <2>3, <2>4, <2>5 DEF Book!Acknowledge, Asks
<1> QED
  BY <1>2, <1>3 DEF Audit

\* The store implements the book: no update is lost, and a request answered with
\* success did take effect (policy-store.js).
THEOREM Atomicity == ASSUME Conditional PROVE Spec => BookIsAtomic
PROOF
<1>1. Init => Book!BInit
  <2>1. Init => Settled = {} /\ Acked = {} /\ Asks = [q \in Requests |-> NoAsk]
    BY DEF Init, Settled, Acked, Asks, Quiet
  <2> QED
    BY <2>1, SameEdits DEF Init, Book!BInit, Asks
<1>2. ASSUME IInv, [Next]_storeVars
      PROVE  [Book!BNext]_Book!bookVars
  <2>1. CASE UNCHANGED storeVars
    BY <2>1 DEF storeVars, Book!bookVars, Settled, Acked
  <2>2. ASSUME NEW q \in Requests, ReadFails(q) \/ SetSecretFails(q) \/ WriteRefused(q) \/ WriteFails(q)
        PROVE  UNCHANGED Book!bookVars
    <3>1. PICK reply \in Reply \ {"ok"} : Answer(q, reply)
      BY <2>2 DEF ReadFails, SetSecretFails, WriteRefused, WriteFails, Refusal, Reply
    <3>2. req[q].pc # "done" /\ UNCHANGED <<roleMap, grants>>
      BY <2>2 DEF ReadFails, SetSecretFails, WriteRefused, WriteFails
    <3> QED
      BY <1>2, <3>1, <3>2, AnswerStutter
  <2> QED
    BY <1>2, <2>1, <2>2, CallSubmits, ReadStutter, SetSecretStutter, WriteTakesEffect, AuditAcknowledges
    DEF Next, Step, Finished, Book!BNext
<1>3. IInv /\ [Next]_storeVars => [Book!BNext]_Book!bookVars
  BY <1>2
<1> QED
  BY <1>1, <1>3, Inductive, PTL DEF Spec, BookIsAtomic, Book!BSpec

================================================================================
