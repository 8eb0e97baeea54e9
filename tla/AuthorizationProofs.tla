--------------------------- MODULE AuthorizationProofs ---------------------------
(***************************************************************************)
(* Proofs about Authorization, for every policy, caller and path: only the *)
(* entitled are admitted, when an "allowed" from preflight is honoured,    *)
(* and what a lockdown closes.                                             *)
(***************************************************************************)
EXTENDS Authorization, WellFoundedInduction, TLAPS

\* A request that got past the gates passes them still.
AdmittedPassed == Admitted => PassesAll(req.path, req.method)

\* PassesAll quantifies over Gates; these are the gates by their names.
LEMMA GateByGate ==
    ASSUME NEW path, NEW method, PassesAll(path, method)
    PROVE  /\ ~Ambiguous
           /\ Selected(path) # {}
           /\ \A r \in Selected(path) : roleMap[r].enabled
           /\ \A r \in Selected(path) : Granted(Slug[r])
           /\ \A r \in Selected(path) : Permits(roleMap[r].endpoints, method, Subpath(path))
PROOF
<1>1. Len(Gates) = 8
  BY DEF Gates
<1>2. /\ Gates[1] = "routes" /\ Gates[2] = "role" /\ Gates[3] = "enabled" /\ Gates[7] = "grant"
      /\ Gates[8] = "endpoint"
  BY DEF Gates
<1>3. /\ Passes("routes", path, method) /\ Passes("role", path, method)
      /\ Passes("enabled", path, method) /\ Passes("grant", path, method)
      /\ Passes("endpoint", path, method)
  BY <1>1, <1>2 DEF PassesAll
<1> QED
  BY <1>3 DEF Passes

\* The gates that are not about the configuration of a connection.
LEMMA GatesNamed ==
    GateNames \ {"complete", "endpoint"} = {"routes", "role", "enabled", "identity", "document", "grant"}
PROOF
<1>1. Len(Gates) = 8
  BY DEF Gates
<1>2. /\ Gates[1] = "routes" /\ Gates[2] = "role" /\ Gates[3] = "enabled" /\ Gates[4] = "complete"
      /\ Gates[5] = "identity" /\ Gates[6] = "document" /\ Gates[7] = "grant" /\ Gates[8] = "endpoint"
  BY DEF Gates
<1>3. \A i \in 1..8 : i = 1 \/ i = 2 \/ i = 3 \/ i = 4 \/ i = 5 \/ i = 6 \/ i = 7 \/ i = 8
  OBVIOUS
<1>4. GateNames = {"routes", "role", "enabled", "complete", "identity", "document", "grant", "endpoint"}
  BY <1>1, <1>2, <1>3 DEF GateNames
<1> QED
  BY <1>4

\* Easy Auth, which alone lets a caller without an oid in, brings no groups.
AnonymousHasNoGroups == who.oid = NoOne => who.groups = {}

\* Deny and preflight never give the answers of an admitted request.
LEMMA OtherAnswers ==
    /\ \A i \in 1..Len(Gates) : Gates[i] \notin {"limited", "forwarded"}
    /\ \A slug : PreflightAnswers(slug) \cap {"limited", "forwarded"} = {}
PROOF
<1>1. \A i \in 1..Len(Gates) : Gates[i] \notin {"limited", "forwarded"}
  BY DEF Gates
<1>2. \A r : PreflightResult(r) \notin {"limited", "forwarded"}
  BY DEF PreflightResult
<1> QED
  BY <1>1, <1>2 DEF PreflightAnswers

\* Every answer is one of Answers.
LEMMA AnswersTyped ==
    /\ \A i \in 1..Len(Gates) : Gates[i] \in Answers
    /\ \A slug : PreflightAnswers(slug) \subseteq Answers
PROOF
<1>1. \A i \in 1..Len(Gates) : Gates[i] \in Answers
  BY DEF Answers, GateNames
<1>2. \A r : PreflightResult(r) \in Answers
  BY DEF PreflightResult, Answers
<1>3. {"unauthenticated", "route-denied"} \subseteq Answers
  BY DEF Answers
<1> QED
  BY <1>1, <1>2, <1>3 DEF PreflightAnswers

\* Every step keeps the types.
LEMMA TypeStep ==
    ASSUME TypeOK, [Next]_vars
    PROVE  TypeOK'
PROOF
<1> USE DEF TypeOK
<1>1. ASSUME NEW path \in Paths, NEW method \in Methods \cup {"none"}, NEW answer \in Answers,
             Done(path, method, answer)
      PROVE  TypeOK'
  BY <1>1 DEF Done
<1>2. ASSUME NEW path \in Paths, NEW method \in Methods,
             Unauthenticated(path, method) \/ Unavailable(path, method)
      PROVE  TypeOK'
  <2>1. {"unauthenticated", "unavailable"} \subseteq Answers
    BY DEF Answers
  <2> QED
    BY <1>1, <1>2, <2>1 DEF Unauthenticated, Unavailable
<1>3. ASSUME NEW path \in Paths, NEW method \in Methods,
             PreflightHandler(path, method) \/ Deny(path, method)
      PROVE  TypeOK'
  BY <1>1, <1>3, AnswersTyped DEF PreflightHandler, Deny
<1>4. ASSUME NEW path \in Paths, NEW method \in Methods, Admit(path, method)
      PROVE  TypeOK'
  BY <1>4 DEF Admit, Answers
<1>5. CASE Quota
  <2>1. CASE req' = [req EXCEPT !.pc = "vault"]
    BY <1>5, <2>1 DEF Quota
  <2>2. CASE req' = [req EXCEPT !.pc = "done", !.answer = "limited"]
    <3>1. "limited" \in Answers
      BY DEF Answers
    <3> QED
      BY <1>5, <2>2, <3>1 DEF Quota
  <2> QED
    BY <1>5, <2>1, <2>2 DEF Quota
<1>6. CASE Forward
  <2>1. "forwarded" \in Answers
    BY DEF Answers
  <2> QED
    BY <1>6, <2>1 DEF Forward, Done
<1>7. CASE UNCHANGED vars
  BY <1>7 DEF vars
<1> QED
  BY <1>2, <1>3, <1>4, <1>5, <1>6, <1>7 DEF Next, Finished

\* What a request asks for does not change once it is past the gates.
LEMMA AskedFor ==
    ASSUME TypeOK, Quota \/ Forward
    PROVE  req'.path = req.path /\ req'.method = req.method
PROOF
<1>1. CASE Forward
  BY <1>1 DEF Forward, Done
<1>2. CASE req' = [req EXCEPT !.pc = "vault"]
  BY <1>2 DEF TypeOK
<1>3. CASE req' = [req EXCEPT !.pc = "done", !.answer = "limited"]
  BY <1>3 DEF TypeOK
<1> QED
  BY <1>1, <1>2, <1>3 DEF Quota

\* Every step keeps AdmittedPassed: only Admit lets a request in, and nothing the gates
\* read changes afterwards.
LEMMA PassedStep ==
    ASSUME TypeOK, AdmittedPassed, [Next]_vars
    PROVE  AdmittedPassed'
PROOF
<1>1. ASSUME NEW path, NEW method, NEW answer,
             answer \notin {"limited", "forwarded"}, Done(path, method, answer)
      PROVE  AdmittedPassed'
  BY <1>1 DEF Done, AdmittedPassed, Admitted
<1>2. ASSUME NEW path \in Paths, NEW method \in Methods, Unauthenticated(path, method)
      PROVE  AdmittedPassed'
  BY <1>1, <1>2 DEF Unauthenticated
<1>3. ASSUME NEW path \in Paths, NEW method \in Methods, Unavailable(path, method)
      PROVE  AdmittedPassed'
  BY <1>1, <1>3 DEF Unavailable
<1>4. ASSUME NEW path \in Paths, NEW method \in Methods, PreflightHandler(path, method)
      PROVE  AdmittedPassed'
  BY <1>1, <1>4, OtherAnswers DEF PreflightHandler
<1>5. ASSUME NEW path \in Paths, NEW method \in Methods, Deny(path, method)
      PROVE  AdmittedPassed'
  BY <1>1, <1>5, OtherAnswers DEF Deny
<1>6. ASSUME UNCHANGED <<roleMap, grants, authMode, who>>
      PROVE  \A path, method : PassesAll(path, method) = PassesAll(path, method)'
  BY <1>6 DEF PassesAll, Passes, Ambiguous, Mapped, Selected, NamedBy, Held, Parses, Granting,
              Granted, GroupsWellFormed, Subpath
<1>7. ASSUME NEW path \in Paths, NEW method \in Methods, Admit(path, method)
      PROVE  AdmittedPassed'
  <2>1. PassesAll(path, method)'
    BY <1>6, <1>7 DEF Admit
  <2>2. req'.path = path /\ req'.method = method
    BY <1>7 DEF Admit
  <2> QED
    BY <2>1, <2>2 DEF AdmittedPassed
<1>8. ASSUME Quota \/ Forward, Admitted
      PROVE  AdmittedPassed'
  <2>1. PassesAll(req.path, req.method)'
    <3>1. PassesAll(req.path, req.method)
      BY <1>8 DEF AdmittedPassed
    <3>2. UNCHANGED <<roleMap, grants, authMode, who>>
      BY <1>8 DEF Quota, Forward, Done
    <3>3. req'.path = req.path /\ req'.method = req.method
      BY <1>8, AskedFor
    <3> QED
      BY <1>6, <3>1, <3>2, <3>3
  <2> QED
    BY <1>8, <2>1 DEF AdmittedPassed, Quota, Forward, Done
<1>9. (Quota \/ Forward) => Admitted
  BY DEF Quota, Forward, Admitted
<1>10. ASSUME UNCHANGED vars
       PROVE  AdmittedPassed'
  BY <1>10, <1>6 DEF vars, AdmittedPassed, Admitted
<1> QED
  BY <1>2, <1>3, <1>4, <1>5, <1>7, <1>8, <1>9, <1>10 DEF Next, Finished

\* A request past the gates is one of an entitled caller.
LEMMA PassedIsEntitled ==
    ASSUME AdmittedPassed
    PROVE  EntitledOnly
PROOF
<1> SUFFICES ASSUME Admitted
             PROVE  \E r \in who.roles :
                        /\ roleMap[r].mapped /\ roleMap[r].enabled
                        /\ who.oid \in grants[Slug[r]].subjects
                             \/ who.groups \cap grants[Slug[r]].groups # {}
                        /\ NamedBy(req.path) \subseteq {r}
  BY DEF EntitledOnly
<1>1. PassesAll(req.path, req.method)
  BY DEF AdmittedPassed
<1>2. PICK r \in Selected(req.path) : TRUE
  BY <1>1, GateByGate
<1>3. r \in who.roles /\ r \in Mapped /\ roleMap[r].mapped
  BY <1>2 DEF Selected, Held, Mapped
<1>4. roleMap[r].enabled /\ Granted(Slug[r])
  BY <1>1, <1>2, GateByGate
<1>5. NamedBy(req.path) \subseteq {r}
  <2> SUFFICES ASSUME NEW s \in NamedBy(req.path), s # r
               PROVE  FALSE
    OBVIOUS
  <2>1. r \in NamedBy(req.path)
    BY <1>2 DEF Selected
  <2>2. s \in Mapped /\ Slug[s] = Slug[r]
    BY <2>1 DEF NamedBy
  <2>3. Ambiguous
    BY <1>3, <2>2 DEF Ambiguous
  <2> QED
    BY <1>1, <2>3, GateByGate
<1> QED
  BY <1>3, <1>4, <1>5 DEF Granted

\* Every variable keeps its type.
THEOREM TypeCorrect == Spec => []TypeOK
PROOF
<1>1. Init => TypeOK
  BY DEF Init, TypeOK, Answers
<1>2. TypeOK /\ [Next]_vars => TypeOK'
  BY TypeStep
<1> QED
  BY <1>1, <1>2, PTL DEF Spec

\* README.md:69-72, for every policy, caller and path: a connection is used by the
\* entitled only.
THEOREM Entitled == Spec => []EntitledOnly
PROOF
<1>1. Init => AdmittedPassed
  BY DEF Init, AdmittedPassed, Admitted
<1>2. TypeOK /\ AdmittedPassed /\ [Next]_vars => AdmittedPassed'
  BY PassedStep
<1>3. AdmittedPassed => EntitledOnly
  BY PassedIsEntitled
<1> QED
  BY <1>1, <1>2, <1>3, TypeCorrect, PTL DEF Spec

\* The slug of a role of the map: under an unambiguous map its role is the only one.
LEMMA OneRolePerSlug ==
    ASSUME ~Ambiguous, NEW r \in Mapped, NEW s \in Mapped, Slug[r] = Slug[s]
    PROVE  r = s
PROOF
  BY DEF Ambiguous

\* Nobody who has no oid is granted anything: a grant to a workload admits nobody.
LEMMA NoOneGranted ==
    ASSUME TypeOK, AnonymousHasNoGroups, who.oid = NoOne, NEW path \in Paths
    PROVE  ~(Passes("role", path, "GET") /\ Passes("grant", path, "GET"))
PROOF
<1> SUFFICES ASSUME NEW r \in Selected(path)
             PROVE  ~Granted(Slug[r])
  BY DEF Passes
<1>1. Slug[r] \in Slugs
  BY SlugAssumption DEF Selected, Held, NamedBy, Mapped
<1>2. grants[Slug[r]].subjects \subseteq Users
  BY <1>1, PolicyAssumption DEF TypeOK, GrantEntry
<1> QED
  BY <1>2, NamesAssumption DEF Granted, AnonymousHasNoGroups

\* For every policy, caller and path: who is told "allowed" by preflight is stopped by
\* no route, role or grant when they call, if they have an oid and the map is
\* unambiguous; and is always stopped by one if not (preflight.js:31-39, broker.js:260).
THEOREM PreflightHonoured == Spec => []PreflightSound
PROOF
<1>1. ASSUME NEW s \in Slugs, NEW path \in Paths,
             "allowed" \in PreflightAnswers(s), Reaches(path, s), who.oid # NoOne, ~Ambiguous
      PROVE  \A gate \in GateNames \ {"complete", "endpoint"} : Passes(gate, path, "GET")
  <2>1. PICK r \in Mapped : Slug[r] = s /\ PreflightResult(r) = "allowed"
    BY <1>1 DEF PreflightAnswers
  <2>2. /\ r \in who.roles /\ roleMap[r].enabled /\ GroupsWellFormed
        /\ Parses({s}) /\ PreflightGranted(s)
    BY <1>1, <2>1 DEF PreflightResult
  <2>3. Selected(path) = {r}
    <3>1. CASE NamedBy(path) # {}
      <4>1. NamedBy(path) = {r}
        BY <1>1, <2>1, <3>1, OneRolePerSlug DEF NamedBy, Reaches
      <4> QED
        BY <2>1, <2>2, <3>1, <4>1 DEF Selected, Held
    <3>2. CASE NamedBy(path) = {}
      <4>1. ~Routing
        BY <1>1, <2>1, <3>2 DEF NamedBy, Reaches
      <4>2. PICK q \in Held : Held = {q} /\ Slug[q] = s
        BY <1>1, <4>1 DEF Reaches
      <4>3. q = r
        BY <2>1, <2>2, <4>2 DEF Held
      <4> QED
        BY <3>2, <4>2, <4>3 DEF Selected
    <3> QED
      BY <3>1, <3>2
  <2>4. Parses({Slug[q] : q \in Mapped})
    BY <2>1, <2>2 DEF Parses
  <2>5. Granted(s)
    BY <1>1, <2>2 DEF Granted, PreflightGranted
  <2> QED
    BY <1>1, <2>1, <2>2, <2>3, <2>4, <2>5, GatesNamed DEF Passes
<1>2. ASSUME TypeOK, AnonymousHasNoGroups, NEW path \in Paths,
             \A gate \in GateNames \ {"complete", "endpoint"} : Passes(gate, path, "GET")
      PROVE  who.oid # NoOne /\ ~Ambiguous
  <2>1. /\ Passes("routes", path, "GET") /\ Passes("role", path, "GET") /\ Passes("grant", path, "GET")
    BY <1>2, GatesNamed
  <2> QED
    BY <1>2, <2>1, NoOneGranted DEF Passes
<1>3. TypeOK /\ AnonymousHasNoGroups => PreflightSound
  BY <1>1, <1>2 DEF PreflightSound
<1>4. Init => AnonymousHasNoGroups
  BY DEF Init, AnonymousHasNoGroups
<1>5. AnonymousHasNoGroups /\ [Next]_vars => AnonymousHasNoGroups'
  BY DEF AnonymousHasNoGroups, Next, vars, Unauthenticated, Unavailable, PreflightHandler, Deny, Admit, Quota,
     Forward, Finished, Done
<1> QED
  BY <1>3, <1>4, <1>5, TypeCorrect, PTL DEF Spec

----------------------------------------------------------------------------------
(* What is locked. *)

\* Induction over the natural numbers, of a set of them.
LEMMA Induction ==
    ASSUME NEW S, 0 \in S, \A n \in Nat : n \in S => n + 1 \in S
    PROVE  Nat \subseteq S
PROOF
<1> DEFINE T == Nat \ S
<1> SUFFICES ASSUME T # {}
             PROVE  FALSE
  OBVIOUS
<1>1. PICK n \in T : \A m \in T : ~(<<m, n>> \in OpToRel(<, Nat))
  BY NatLessThanWellFounded, WFMin
<1>2. \A m \in T : ~(m < n)
  BY <1>1 DEF OpToRel
<1>3. n - 1 \in Nat /\ n - 1 \in S
  BY <1>2
<1> QED
  BY <1>3

\* The functions the definition of Names is about, and that there is one.
NamesAt(path, f, i) ==
    IF i = 0 THEN <<>> ELSE IF path[i] = Empty THEN f[i - 1] ELSE Append(f[i - 1], path[i])
NamesUpTo(path, n, f) == f = [i \in 0..n |-> NamesAt(path, f, i)]

LEMMA NamesUpToExists ==
    ASSUME NEW path, NEW n \in Nat
    PROVE  \E f : NamesUpTo(path, n, f)
PROOF
<1> DEFINE S == {m \in Nat : \E f : NamesUpTo(path, m, f)}
<1>1. 0 \in S
  <2>1. NamesUpTo(path, 0, [i \in 0..0 |-> <<>>])
    BY DEF NamesUpTo
  <2> QED
    BY <2>1
<1>2. ASSUME NEW m \in Nat, m \in S
      PROVE  m + 1 \in S
  <2>1. PICK f : NamesUpTo(path, m, f)
    BY <1>2
  <2> DEFINE g == [i \in 0..m + 1 |-> IF i = m + 1 THEN NamesAt(path, f, i) ELSE f[i]]
  <2>2. \A i \in 0..m : g[i] = f[i] /\ f[i] = NamesAt(path, f, i)
    BY <2>1 DEF NamesUpTo
  <2>3. \A i \in 0..m + 1 : g[i] = NamesAt(path, g, i)
    <3> SUFFICES ASSUME NEW i \in 0..m + 1
                 PROVE  g[i] = NamesAt(path, g, i)
      OBVIOUS
    <3>1. i # 0 => i - 1 \in 0..m
      OBVIOUS
    <3>2. NamesAt(path, g, i) = NamesAt(path, f, i)
      BY <2>2, <3>1 DEF NamesAt
    <3> QED
      BY <2>2, <3>2
  <2>4. NamesUpTo(path, m + 1, g)
    BY <2>3 DEF NamesUpTo
  <2> QED
    BY <2>4
<1> HIDE DEF S
<1>3. n \in S
  BY <1>1, <1>2, Induction
<1> QED
  BY <1>3 DEF S

\* Names(path) has none of the empty segments, and only segments of path; it ends with
\* the last one if that is not empty.
LEMMA NamesOf ==
    ASSUME NEW path \in Path
    PROVE  /\ Names(path) \in Seq(Segments \ {Empty})
           /\ path # <<>> /\ path[Len(path)] # Empty => Names(path) # <<>>
PROOF
<1> DEFINE len == Len(path)
           f == CHOOSE g : NamesUpTo(path, len, g)
<1>1. len \in Nat /\ \A i \in 1..len : path[i] \in Segments
  BY DEF Path
<1>2. NamesUpTo(path, len, f)
  BY <1>1, NamesUpToExists
<1>3. Names(path) = f[len]
  BY DEF Names, NamesUpTo, NamesAt
<1> HIDE DEF f
<1>4. /\ f[0] = <<>>
      /\ \A i \in 1..len : f[i] = IF path[i] = Empty THEN f[i - 1] ELSE Append(f[i - 1], path[i])
  <2>1. \A i \in 0..len : f[i] = NamesAt(path, f, i)
    BY <1>2 DEF NamesUpTo
  <2>2. 0 \in 0..len /\ \A i \in 1..len : i \in 0..len /\ i # 0
    BY <1>1
  <2> QED
    BY <2>1, <2>2 DEF NamesAt
<1> DEFINE S == {n \in Nat : n <= len => f[n] \in Seq(Segments \ {Empty})}
<1>5. 0 \in S
  <2>1. <<>> \in Seq(Segments \ {Empty})
    OBVIOUS
  <2> QED
    BY <1>4, <2>1
<1>6. ASSUME NEW n \in Nat, n \in S
      PROVE  n + 1 \in S
  <2> SUFFICES ASSUME n + 1 <= len
               PROVE  f[n + 1] \in Seq(Segments \ {Empty})
    OBVIOUS
  <2>1. n + 1 \in 1..len /\ (n + 1) - 1 = n /\ f[n] \in Seq(Segments \ {Empty})
    BY <1>1, <1>6
  <2>2. path[n + 1] \in Segments /\ f[n + 1] = IF path[n + 1] = Empty THEN f[n] ELSE Append(f[n], path[n + 1])
    BY <1>1, <1>4, <2>1
  <2> QED
    BY <2>1, <2>2
<1>7. \A n \in 0..len : f[n] \in Seq(Segments \ {Empty})
  <2> HIDE DEF S
  <2>1. Nat \subseteq S
    BY <1>5, <1>6, Induction
  <2> QED
    BY <1>1, <2>1 DEF S
<1>8. ASSUME path # <<>>, path[len] # Empty
      PROVE  f[len] # <<>>
  <2>1. len \in 1..len /\ len - 1 \in 0..len
    BY <1>1, <1>8 DEF Path
  <2>2. f[len] = Append(f[len - 1], path[len])
    BY <1>4, <1>8, <2>1
  <2> QED
    BY <1>7, <2>1, <2>2
<1> QED
  BY <1>1, <1>3, <1>7, <1>8

\* A normalised path is its names and, or not, one empty segment after them; the stem of
\* a rule is its names.
LEMMA Normalized ==
    ASSUME NEW path \in Path
    PROVE  /\ NormalizePath(path) = IF Slashed(path) THEN Names(path) \o <<Empty>> ELSE Names(path)
           /\ LET own == NormalizePath(path)
              IN  (IF own[Len(own)] = Empty THEN Len(own) - 1 ELSE Len(own)) = Len(Names(path))
PROOF
<1> DEFINE names == Names(path)
<1>1. names \in Seq(Segments \ {Empty})
  BY NamesOf
<1>2. CASE Slashed(path)
  <2>1. NormalizePath(path) = names \o <<Empty>>
    BY <1>2 DEF NormalizePath
  <2> HIDE DEF names
  <2>2. Len(names \o <<Empty>>) = Len(names) + 1 /\ (names \o <<Empty>>)[Len(names) + 1] = Empty
    BY <1>1
  <2>3. NormalizePath(path) = IF Slashed(path) THEN names \o <<Empty>> ELSE names
    BY <1>2, <2>1
  <2> QED
    BY <1>1, <2>1, <2>2, <2>3 DEF names
<1>3. CASE ~Slashed(path)
  <2>1. NormalizePath(path) = names \o <<>>
    BY <1>3 DEF NormalizePath
  <2>2. names # <<>>
    BY <1>3, NamesOf DEF Slashed
  <2> HIDE DEF names
  <2>3. names \o <<>> = names
    BY <1>1
  <2>4. names[Len(names)] # Empty
    BY <1>1, <2>2
  <2>5. NormalizePath(path) = IF Slashed(path) THEN names \o <<Empty>> ELSE names
    BY <1>3, <2>1, <2>3
  <2> QED
    BY <1>1, <2>1, <2>3, <2>4, <2>5 DEF names
<1> QED
  BY <1>2, <1>3

\* A rule that is a prefix matches what lies below its names.
LEMMA BelowMatches ==
    ASSUME NEW rule, rule.path \in Path, rule.prefix, NEW method, NEW path \in Path,
           rule.methods = {} \/ method \in rule.methods,
           Below(Names(path), Names(rule.path))
    PROVE  RuleMatches(rule, method, NormalizePath(path))
PROOF
<1> DEFINE own == NormalizePath(rule.path)
           at == NormalizePath(path)
           base == Names(rule.path)
           names == Names(path)
<1>1. base \in Seq(Segments) /\ names \in Seq(Segments)
  BY NamesOf
<1>2. own \in Seq(Segments) /\ Len(own) >= Len(base) /\ SubSeq(own, 1, Len(base)) = base
  <2>1. own = base \o <<Empty>> \/ own = base
    BY Normalized
  <2> HIDE DEF own, base
  <2> QED
    BY <1>1, <2>1, SegmentsAssumption
<1>3. Len(at) > Len(base) /\ SubSeq(at, 1, Len(base)) = base
  <2>1. at = names \o <<Empty>> \/ at = names
    BY Normalized
  <2>2. Len(names) > Len(base) /\ SubSeq(names, 1, Len(base)) = base
    BY DEF Below
  <2> HIDE DEF at, base, names
  <2> QED
    BY <1>1, <2>1, <2>2, SegmentsAssumption
<1> QED
  BY <1>2, <1>3, Normalized DEF RuleMatches

\* A rule matches its own path, and as a prefix also that path with a slash behind it.
LEMMA PlaceMatches ==
    ASSUME NEW rule, rule.path \in Path, rule.prefix \in BOOLEAN, NEW method, NEW path \in Path,
           rule.methods = {} \/ method \in rule.methods, SamePlace(path, rule)
    PROVE  RuleMatches(rule, method, NormalizePath(path))
PROOF
<1> DEFINE own == NormalizePath(rule.path)
           at == NormalizePath(path)
           base == Names(rule.path)
<1>1. base \in Seq(Segments) /\ base = Names(path)
  BY NamesOf DEF SamePlace
<1>2. CASE Slashed(path) = Slashed(rule.path)
  <2>1. at = own
    BY <1>1, <1>2, Normalized
  <2> QED
    BY <2>1 DEF RuleMatches
<1>3. CASE rule.prefix /\ Slashed(path) /\ ~Slashed(rule.path)
  <2>1. at = base \o <<Empty>> /\ own = base
    BY <1>1, <1>3, Normalized
  <2>2. (IF own[Len(own)] = Empty THEN Len(own) - 1 ELSE Len(own)) = Len(base)
    BY Normalized
  <2> HIDE DEF own, at, base
  <2>3. Len(at) > Len(base) /\ SubSeq(at, 1, Len(base)) = SubSeq(own, 1, Len(base))
    BY <1>1, <2>1, SegmentsAssumption
  <2> QED
    BY <1>3, <2>2, <2>3 DEF RuleMatches, own, at
<1> QED
  BY <1>2, <1>3 DEF SamePlace

\* What a rule matches is its own path or, for a prefix, lies below it.
LEMMA MatchesBelow ==
    ASSUME NEW rule, rule.path \in Path, NEW method, NEW path \in Path,
           RuleMatches(rule, method, NormalizePath(path))
    PROVE  /\ rule.methods = {} \/ method \in rule.methods
           /\ \/ Names(path) = Names(rule.path)
              \/ rule.prefix /\ Below(Names(path), Names(rule.path))
PROOF
<1> DEFINE own == NormalizePath(rule.path)
           at == NormalizePath(path)
           base == Names(rule.path)
           names == Names(path)
<1>1. base \in Seq(Segments \ {Empty}) /\ names \in Seq(Segments \ {Empty})
  BY NamesOf
<1>2. /\ own = base \o <<Empty>> \/ own = base
      /\ at = names \o <<Empty>> \/ at = names
  BY Normalized
<1>3. \/ at = own
      \/ rule.prefix /\ Len(at) > Len(base) /\ SubSeq(at, 1, Len(base)) = SubSeq(own, 1, Len(base))
  BY Normalized DEF RuleMatches
<1>4. rule.methods = {} \/ method \in rule.methods
  BY DEF RuleMatches
<1> HIDE DEF own, at, base, names
<1>5. CASE at = own
  <2>1. names = base
    <3>1. CASE at = names \o <<Empty>> /\ own = base \o <<Empty>>
      <4>1. /\ Len(at) = Len(names) + 1 /\ \A i \in 1..Len(names) : at[i] = names[i]
            /\ Len(own) = Len(base) + 1 /\ \A i \in 1..Len(base) : own[i] = base[i]
        BY <1>1, <3>1, SegmentsAssumption
      <4>2. Len(names) = Len(base) /\ \A i \in 1..Len(names) : names[i] = base[i]
        BY <1>1, <1>5, <4>1
      <4> QED
        BY <1>1, <4>2
    <3>2. CASE at = names \o <<Empty>> /\ own = base
      <4>1. own[Len(names) + 1] = Empty /\ Len(own) = Len(names) + 1
        BY <1>1, <1>5, <3>2, SegmentsAssumption
      <4> QED
        BY <1>1, <3>2, <4>1
    <3>3. CASE at = names /\ own = base \o <<Empty>>
      <4>1. own[Len(base) + 1] = Empty /\ Len(own) = Len(base) + 1
        BY <1>1, <3>3, SegmentsAssumption
      <4> QED
        BY <1>1, <1>5, <3>3, <4>1
    <3>4. CASE at = names /\ own = base
      BY <1>5, <3>4
    <3> QED
      BY <1>2, <3>1, <3>2, <3>3, <3>4
  <2> QED
    BY <1>4, <2>1 DEF names, base
<1>6. CASE rule.prefix /\ Len(at) > Len(base) /\ SubSeq(at, 1, Len(base)) = SubSeq(own, 1, Len(base))
  <2>1. SubSeq(own, 1, Len(base)) = base
    BY <1>1, <1>2, SegmentsAssumption
  <2>2. Len(names) >= Len(base) /\ SubSeq(names, 1, Len(base)) = SubSeq(at, 1, Len(base))
    BY <1>1, <1>2, <1>6, SegmentsAssumption
  <2>3. CASE Len(names) > Len(base)
    BY <1>4, <1>6, <2>1, <2>2, <2>3 DEF Below, names, base
  <2>4. CASE Len(names) = Len(base)
    <3>1. SubSeq(names, 1, Len(base)) = names
      BY <1>1, <2>4
    <3>2. names = base
      BY <1>6, <2>1, <2>2, <3>1
    <3> QED
      BY <1>4, <3>2 DEF names, base
  <2> QED
    BY <1>1, <2>2, <2>3, <2>4
<1> QED
  BY <1>3, <1>5, <1>6

\* A request past the gates is not locked out.
LEMMA PassedIsOpen ==
    ASSUME TypeOK, AdmittedPassed
    PROVE  LockedOut
PROOF
<1> SUFFICES ASSUME Admitted, NEW r \in Selected(req.path)
             PROVE  LET lock == roleMap[r].endpoints
                        sub == Subpath(req.path)
                        at == Names(sub)
                        Concerns(rule) == rule.methods = {} \/ req.method \in rule.methods
                    IN  /\ lock.mode # "malformed"
                        /\ lock.mode = "deny" => \A rule \in lock.rules : Concerns(rule) =>
                              /\ ~SamePlace(sub, rule)
                              /\ rule.prefix => ~Below(at, Names(rule.path))
                        /\ lock.mode = "allow" => \E rule \in lock.rules :
                              /\ Concerns(rule)
                              /\ \/ at = Names(rule.path)
                                 \/ rule.prefix /\ Below(at, Names(rule.path))
  BY DEF LockedOut
<1> DEFINE lock == roleMap[r].endpoints
           sub == Subpath(req.path)
<1>1. Permits(lock, req.method, sub)
  BY GateByGate DEF AdmittedPassed
<1>2. lock \in Lockdown
  BY PolicyAssumption DEF TypeOK, Selected, Held, NamedBy, Mapped, Entry
<1>3. sub \in Path
  <2>1. req.path \in Path
    <3>1. req.path \in Paths \cup {<<>>}
      BY DEF TypeOK
    <3>2. <<>> \in Path
      BY DEF Path
    <3> QED
      BY <3>1, <3>2, RequestsAssumption
  <2>2. CASE NamedBy(req.path) # {}
    <3>1. Names(req.path) # <<>> /\ Names(req.path) \in Seq(Segments)
      BY <2>1, <2>2, NamesOf DEF NamedBy
    <3> QED
      BY <2>2, <3>1 DEF Subpath, Path
  <2> QED
    BY <2>1, <2>2 DEF Subpath
<1>4. \A rule \in lock.rules : rule.path \in Path /\ rule.prefix \in BOOLEAN
  <2>1. lock.rules = {} \/ lock.rules \subseteq Rule
    BY <1>2 DEF Lockdown
  <2> HIDE DEF lock
  <2> QED
    BY <2>1 DEF Rule, Path
<1> HIDE DEF lock, sub
<1>5. lock.mode # "malformed"
  BY <1>1 DEF Permits
<1>6. ASSUME lock.mode = "deny", NEW rule \in lock.rules, rule.methods = {} \/ req.method \in rule.methods,
             SamePlace(sub, rule) \/ (rule.prefix /\ Below(Names(sub), Names(rule.path)))
      PROVE  FALSE
  <2>1. RuleMatches(rule, req.method, NormalizePath(sub))
    <3>1. CASE SamePlace(sub, rule)
      BY <1>3, <1>4, <1>6, <3>1, PlaceMatches
    <3>2. CASE rule.prefix /\ Below(Names(sub), Names(rule.path))
      BY <1>3, <1>4, <1>6, <3>2, BelowMatches
    <3> QED
      BY <1>6, <3>1, <3>2
  <2> QED
    BY <1>1, <1>6, <2>1 DEF Permits
<1>7. ASSUME lock.mode = "allow"
      PROVE  \E rule \in lock.rules :
                /\ rule.methods = {} \/ req.method \in rule.methods
                /\ \/ Names(sub) = Names(rule.path)
                   \/ rule.prefix /\ Below(Names(sub), Names(rule.path))
  <2>1. PICK rule \in lock.rules : RuleMatches(rule, req.method, NormalizePath(sub))
    BY <1>1, <1>7 DEF Permits
  <2> QED
    BY <1>3, <1>4, <2>1, MatchesBelow
<1> QED
  BY <1>5, <1>6, <1>7 DEF lock, sub

\* endpoint-policy.js:21-26, :49, for every policy, caller and path of any length: neither a
\* denied path, with its slashes doubled or in front, nor what is below a denied prefix is
\* reached, and nothing beside the allowed ones.  A final slash is part of a path.
THEOREM Locked == Spec => []LockedOut
PROOF
<1>1. Init => AdmittedPassed
  BY DEF Init, AdmittedPassed, Admitted
<1>2. TypeOK /\ AdmittedPassed /\ [Next]_vars => AdmittedPassed'
  BY PassedStep
<1>3. TypeOK /\ AdmittedPassed => LockedOut
  BY PassedIsOpen
<1> QED
  BY <1>1, <1>2, <1>3, TypeCorrect, PTL DEF Spec

==================================================================================
