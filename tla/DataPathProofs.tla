------------------------------ MODULE DataPathProofs ------------------------------
(***************************************************************************)
(* Proofs about DataPath, for any lists of headers, any requests and       *)
(* responses, and documents of any height: what the recursive checks of    *)
(* credential-scrubber.js leave of a document, and that nothing            *)
(* credential-shaped gets past them.                                       *)
(***************************************************************************)
EXTENDS DataPath, WellFoundedInduction, TLAPS

--------------------------------------------------------------------------------
(* Induction over documents. *)

\* The least-number principle, of a set.
LEMMA Least ==
    ASSUME NEW T, T \subseteq Nat, T # {}
    PROVE  \E n \in T : \A m \in T : n <= m
PROOF
<1>1. PICK n \in T : \A m \in T : ~(<<m, n>> \in OpToRel(<, Nat))
  BY NatLessThanWellFounded, WFMin
<1>2. \A m \in T : ~(m < n)
  BY <1>1 DEF OpToRel
<1> QED
  BY <1>2

\* A part of a document is one, and is less deep.
LEMMA PartsAreDocuments ==
    ASSUME NEW t \in Documents, NEW k \in DOMAIN Parts(t)
    PROVE  /\ Parts(t)[k] \in Documents /\ Height[Parts(t)[k]] \in Nat
           /\ Height[t] \in Nat /\ Height[Parts(t)[k]] < Height[t]
PROOF
  BY DocumentsAssumption

\* What holds of a document if it holds of its parts holds of every document.
LEMMA DocumentInduction ==
    ASSUME NEW S,
           \A t \in Documents : (\A k \in DOMAIN Parts(t) : Parts(t)[k] \in S) => t \in S
    PROVE  Documents \subseteq S
PROOF
<1> DEFINE T == {Height[t] : t \in Documents \ S}
<1> SUFFICES ASSUME Documents \ S # {}
             PROVE  FALSE
  OBVIOUS
<1>1. T \subseteq Nat /\ T # {}
  BY DocumentsAssumption
<1>2. PICK n \in T : \A m \in T : n <= m
  BY <1>1, Least
<1>3. PICK t \in Documents \ S : n = Height[t]
  BY <1>2
<1>4. ASSUME NEW k \in DOMAIN Parts(t), Parts(t)[k] \notin S
      PROVE  FALSE
  <2>1. Parts(t)[k] \in Documents /\ Height[Parts(t)[k]] < n /\ Height[Parts(t)[k]] \in Nat /\ n \in Nat
    BY <1>3, PartsAreDocuments
  <2>2. n <= Height[Parts(t)[k]]
    BY <1>2, <1>4, <2>1
  <2> QED
    BY <2>1, <2>2
<1> QED
  BY <1>3, <1>4

\* The three recursive functions in one: each applies its own part of the results.
UpTo(n) == {t \in Documents : Height[t] < n}
First(h) == [t \in Documents |-> h[t].violates]
Second(h) == [t \in Documents |-> h[t].scrub]
Third(h) == [t \in Documents |-> h[t].ends]
All(h, t) == [violates |-> ViolatesAt(First(h), t), scrub |-> ScrubAt(Second(h), t), ends |-> EndsAt(Third(h), t)]
Solves(h, T) == h = [t \in T |-> All(h, t)]

\* The results for a document depend on those for its parts only.
LEMMA Congruence ==
    ASSUME NEW g, NEW h, NEW t \in Documents,
           \A k \in DOMAIN Parts(t) : g[Parts(t)[k]] = h[Parts(t)[k]]
    PROVE  All(g, t) = All(h, t)
PROOF
<1>1. \A k \in DOMAIN Parts(t) : /\ First(g)[Parts(t)[k]] = First(h)[Parts(t)[k]]
                                 /\ Second(g)[Parts(t)[k]] = Second(h)[Parts(t)[k]]
                                 /\ Third(g)[Parts(t)[k]] = Third(h)[Parts(t)[k]]
  BY PartsAreDocuments DEF First, Second, Third
<1>2. ViolatesAt(First(g), t) = ViolatesAt(First(h), t)
  BY <1>1 DEF ViolatesAt
<1>3. ScrubAt(Second(g), t) = ScrubAt(Second(h), t)
  <2>1. ScrubbedParts(Second(g), t) = ScrubbedParts(Second(h), t)
    BY <1>1 DEF ScrubbedParts, ScrubbedPart
  <2>2. Scrubbed(Second(g), t) = Scrubbed(Second(h), t)
    BY <2>1 DEF Scrubbed
  <2>3. (\E k \in DOMAIN Parts(t) : Hidden(t, k) \/ Second(g)[Parts(t)[k]].modified)
            = (\E k \in DOMAIN Parts(t) : Hidden(t, k) \/ Second(h)[Parts(t)[k]].modified)
    BY <1>1
  <2> QED
    BY <2>2, <2>3 DEF ScrubAt
<1>4. EndsAt(Third(g), t) = EndsAt(Third(h), t)
  <2>1. \A k \in DOMAIN Parts(t) : Below(t, k, Third(g)[Parts(t)[k]]) = Below(t, k, Third(h)[Parts(t)[k]])
    BY <1>1
  <2>2. {Below(t, k, Third(g)[Parts(t)[k]]) : k \in DOMAIN Parts(t)} = {Below(t, k, Third(h)[Parts(t)[k]]) : k \in DOMAIN Parts(t)}
    BY <2>1
  <2> QED
    BY <2>2 DEF EndsAt
<1> QED
  BY <1>2, <1>3, <1>4 DEF All

\* There is a solution for the documents below any height.
LEMMA SolutionUpTo ==
    ASSUME NEW n \in Nat
    PROVE  \E h : Solves(h, UpTo(n))
PROOF
<1> DEFINE T == {m \in Nat : ~\E h : Solves(h, UpTo(m))}
<1> SUFFICES ASSUME T # {}
             PROVE  FALSE
  OBVIOUS
<1>1. PICK m \in T : \A i \in T : m <= i
  BY Least
<1>2. m # 0
  <2>1. UpTo(0) = {}
    BY DocumentsAssumption DEF UpTo
  <2>2. Solves([t \in {} |-> 0], UpTo(0))
    BY <2>1 DEF Solves
  <2> QED
    BY <1>1, <2>2
<1>3. m - 1 \in Nat /\ m - 1 \notin T
  BY <1>1, <1>2
<1>4. PICK h : Solves(h, UpTo(m - 1))
  BY <1>3
<1> DEFINE g == [t \in UpTo(m) |-> All(h, t)]
<1>5. \A t \in UpTo(m - 1) : t \in UpTo(m) /\ g[t] = h[t]
  BY <1>1, <1>4, DocumentsAssumption DEF UpTo, Solves
<1>6. \A t \in UpTo(m) : \A k \in DOMAIN Parts(t) : Parts(t)[k] \in UpTo(m - 1)
  BY <1>1, PartsAreDocuments DEF UpTo
<1>7. \A t \in UpTo(m) : All(g, t) = All(h, t)
  BY <1>5, <1>6, Congruence DEF UpTo
<1>8. Solves(g, UpTo(m))
  BY <1>7 DEF Solves
<1> QED
  BY <1>1, <1>8

\* Two solutions agree where both are defined.
LEMMA SolutionsAgree ==
    ASSUME NEW m \in Nat, NEW n \in Nat, NEW g, NEW h, Solves(g, UpTo(m)), Solves(h, UpTo(n)),
           NEW t \in UpTo(m), t \in UpTo(n)
    PROVE  g[t] = h[t]
PROOF
<1> DEFINE S == {d \in Documents : d \in UpTo(m) /\ d \in UpTo(n) => g[d] = h[d]}
<1>1. ASSUME NEW d \in Documents, \A k \in DOMAIN Parts(d) : Parts(d)[k] \in S, d \in UpTo(m), d \in UpTo(n)
      PROVE  g[d] = h[d]
  <2>1. \A k \in DOMAIN Parts(d) : Parts(d)[k] \in UpTo(m) /\ Parts(d)[k] \in UpTo(n)
    BY <1>1, PartsAreDocuments DEF UpTo
  <2>2. All(g, d) = All(h, d)
    BY <1>1, <2>1, Congruence
  <2> QED
    BY <1>1, <2>2 DEF Solves
<1>2. Documents \subseteq S
  <2>1. \A d \in Documents : (\A k \in DOMAIN Parts(d) : Parts(d)[k] \in S) => d \in S
    BY <1>1
  <2> HIDE DEF S
  <2> QED
    BY <2>1, DocumentInduction
<1> QED
  BY <1>2 DEF UpTo

\* So there is one for all documents.
LEMMA Solution == \E h : Solves(h, Documents)
PROOF
<1> DEFINE at(n) == CHOOSE h : Solves(h, UpTo(n))
           h == [t \in Documents |-> at(Height[t] + 1)[t]]
<1>1. \A n \in Nat : Solves(at(n), UpTo(n))
  BY SolutionUpTo
<1> HIDE DEF at
<1>2. ASSUME NEW t \in Documents
      PROVE  h[t] = All(h, t)
  <2> DEFINE n == Height[t] + 1
  <2>1. n \in Nat /\ t \in UpTo(n)
    BY DocumentsAssumption DEF UpTo
  <2>2. at(n)[t] = All(at(n), t)
    BY <1>1, <2>1 DEF Solves
  <2>3. ASSUME NEW k \in DOMAIN Parts(t)
        PROVE  at(n)[Parts(t)[k]] = h[Parts(t)[k]]
    <3> DEFINE p == Parts(t)[k]
    <3>1. p \in Documents /\ Height[p] \in Nat /\ Height[p] < Height[t]
      BY PartsAreDocuments
    <3>2. Height[p] + 1 \in Nat /\ p \in UpTo(Height[p] + 1) /\ p \in UpTo(n)
      <4>1. Height[t] \in Nat
        BY DocumentsAssumption
      <4> HIDE DEF p
      <4> QED
        BY <3>1, <4>1 DEF UpTo
    <3>3. at(n)[p] = at(Height[p] + 1)[p]
      <4> HIDE DEF p, n
      <4> QED
        BY <1>1, <2>1, <3>2, SolutionsAgree
    <3> QED
      BY <3>1, <3>3
  <2> QED
    BY <2>2, <2>3, Congruence
<1>3. Solves(h, Documents)
  BY <1>2 DEF Solves
<1> QED
  BY <1>3

\* Each of the functions of credential-scrubber.js is what its recursion says.
LEMMA Equations ==
    ASSUME NEW t \in Documents
    PROVE  /\ Violates[t] = ViolatesAt(Violates, t)
           /\ ScrubObject[t] = ScrubAt(ScrubObject, t)
           /\ Ends[t] = EndsAt(Ends, t)
PROOF
<1>1. PICK h : Solves(h, Documents)
  BY Solution
<1>2. \A d \in Documents : h[d] = All(h, d)
  BY <1>1 DEF Solves
<1>3. \A d \in Documents : /\ h[d].violates = ViolatesAt(First(h), d)
                           /\ h[d].scrub = ScrubAt(Second(h), d)
                           /\ h[d].ends = EndsAt(Third(h), d)
  <2> TAKE d \in Documents
  <2>1. PICK v, w, e : v = ViolatesAt(First(h), d) /\ w = ScrubAt(Second(h), d) /\ e = EndsAt(Third(h), d)
    OBVIOUS
  <2>2. h[d] = [violates |-> v, scrub |-> w, ends |-> e]
    BY <1>2, <2>1, Zenon DEF All
  <2>3. h[d].violates = v /\ h[d].scrub = w /\ h[d].ends = e
    BY <2>2
  <2> QED
    BY <2>1, <2>3, Zenon
<1>4. First(h) = [d \in Documents |-> ViolatesAt(First(h), d)]
  <2>1. First(h) = [d \in Documents |-> h[d].violates]
    BY DEF First
  <2> QED
    BY <1>3, <2>1, Zenon
<1>5. Second(h) = [d \in Documents |-> ScrubAt(Second(h), d)]
  <2>1. Second(h) = [d \in Documents |-> h[d].scrub]
    BY DEF Second
  <2> QED
    BY <1>3, <2>1, Zenon
<1>6. Third(h) = [d \in Documents |-> EndsAt(Third(h), d)]
  <2>1. Third(h) = [d \in Documents |-> h[d].ends]
    BY DEF Third
  <2> QED
    BY <1>3, <2>1, Zenon
<1>7. Violates = [d \in Documents |-> ViolatesAt(Violates, d)]
  BY <1>4 DEF Violates
<1>8. ScrubObject = [d \in Documents |-> ScrubAt(ScrubObject, d)]
  BY <1>5 DEF ScrubObject
<1>9. Ends = [d \in Documents |-> EndsAt(Ends, d)]
  BY <1>6 DEF Ends
<1> QED
  BY <1>7, <1>8, <1>9

\* The two fields of a result of scrubObjectRecursive.
LEMMA ScrubFields ==
    ASSUME NEW t \in Documents
    PROVE  /\ ScrubObject[t].obj = Scrubbed(ScrubObject, t)
           /\ ScrubObject[t].modified = \E k \in DOMAIN Parts(t) : Hidden(t, k) \/ ScrubObject[Parts(t)[k]].modified
PROOF
<1>1. PICK o, m : /\ o = Scrubbed(ScrubObject, t)
                  /\ m = \E k \in DOMAIN Parts(t) : Hidden(t, k) \/ ScrubObject[Parts(t)[k]].modified
  OBVIOUS
<1>2. ScrubObject[t] = [obj |-> o, modified |-> m]
  BY <1>1, Equations, Zenon DEF ScrubAt
<1>3. ScrubObject[t].obj = o /\ ScrubObject[t].modified = m
  BY <1>2
<1> QED
  BY <1>1, <1>3, Zenon

--------------------------------------------------------------------------------
(* The ends of a document, and what the recursions say of them. *)

Steps == UNION {{Step(t, k) : k \in DOMAIN Parts(t)} : t \in Documents}
EndSet == [path : Seq(Steps), kind : {t.kind : t \in Documents}]

\* A document has an end, and its ends are reached by steps into documents.
LEMMA EndsTyped ==
    ASSUME NEW t \in Documents
    PROVE  Ends[t] \subseteq EndSet /\ Ends[t] # {}
PROOF
<1> DEFINE S == {d \in Documents : Ends[d] \subseteq EndSet /\ Ends[d] # {}}
<1>1. ASSUME NEW d \in Documents, \A k \in DOMAIN Parts(d) : Parts(d)[k] \in S
      PROVE  Ends[d] \subseteq EndSet /\ Ends[d] # {}
  <2>1. CASE DOMAIN Parts(d) = {}
    <3>1. Ends[d] = {[path |-> <<>>, kind |-> d.kind]}
      BY <2>1, Equations DEF EndsAt
    <3>2. <<>> \in Seq(Steps)
      OBVIOUS
    <3> QED
      BY <3>1, <3>2 DEF EndSet
  <2>2. CASE DOMAIN Parts(d) # {}
    <3>1. Ends[d] = UNION {Below(d, k, Ends[Parts(d)[k]]) : k \in DOMAIN Parts(d)}
      BY <2>2, Equations DEF EndsAt
    <3>2. ASSUME NEW k \in DOMAIN Parts(d)
          PROVE  Below(d, k, Ends[Parts(d)[k]]) \subseteq EndSet /\ Below(d, k, Ends[Parts(d)[k]]) # {}
      <4>1. Ends[Parts(d)[k]] \subseteq EndSet /\ Ends[Parts(d)[k]] # {}
        BY <1>1
      <4>2. Step(d, k) \in Steps
        BY DEF Steps
      <4>3. ASSUME NEW e \in EndSet
            PROVE  [path |-> <<Step(d, k)>> \o e.path, kind |-> e.kind] \in EndSet
        BY <4>2 DEF EndSet
      <4> QED
        BY <4>1, <4>3 DEF Below
    <3> QED
      BY <2>2, <3>1, <3>2
  <2> QED
    BY <2>1, <2>2
<1>2. Documents \subseteq S
  <2>1. \A d \in Documents : (\A k \in DOMAIN Parts(d) : Parts(d)[k] \in S) => d \in S
    BY <1>1
  <2> HIDE DEF S
  <2> QED
    BY <2>1, DocumentInduction
<1> QED
  BY <1>2

\* The end of a document that is no part of another, or of a part of it.
LEMMA EndCases ==
    ASSUME NEW t \in Documents, NEW e \in Ends[t]
    PROVE  \/ DOMAIN Parts(t) = {} /\ e = [path |-> <<>>, kind |-> t.kind]
           \/ \E k \in DOMAIN Parts(t) : \E f \in Ends[Parts(t)[k]] :
                 /\ f \in EndSet /\ Step(t, k) \in Steps
                 /\ e = [path |-> <<Step(t, k)>> \o f.path, kind |-> f.kind]
PROOF
<1>1. CASE DOMAIN Parts(t) = {}
  BY <1>1, Equations DEF EndsAt
<1>2. CASE DOMAIN Parts(t) # {}
  <2>1. PICK k \in DOMAIN Parts(t) : e \in Below(t, k, Ends[Parts(t)[k]])
    <3>1. Ends[t] = UNION {Below(t, k, Ends[Parts(t)[k]]) : k \in DOMAIN Parts(t)}
      BY <1>2, Equations DEF EndsAt
    <3> QED
      BY <3>1, Zenon
  <2>2. Step(t, k) \in Steps /\ Ends[Parts(t)[k]] \subseteq EndSet
    BY PartsAreDocuments, EndsTyped DEF Steps
  <2> QED
    BY <2>1, <2>2 DEF Below
<1> QED
  BY <1>1, <1>2

\* The keys on a path that begins with a step into a document.
LEMMA KeysOfStep ==
    ASSUME NEW s \in Steps, NEW path \in Seq(Steps)
    PROVE  Keys(<<s>> \o path) = {s.key} \cup Keys(path)
PROOF
<1> DEFINE p == <<s>> \o path
<1>1. Len(p) = Len(path) + 1 /\ DOMAIN p = 1..Len(path) + 1 /\ DOMAIN path = 1..Len(path) /\ Len(path) \in Nat
  OBVIOUS
<1>2. p[1] = s /\ \A i \in 1..Len(path) : p[i + 1] = path[i]
  OBVIOUS
<1> HIDE DEF p
<1>3. \A i \in DOMAIN p : i = 1 \/ (i - 1 \in DOMAIN path /\ p[i] = path[i - 1])
  BY <1>1, <1>2
<1>4. 1 \in DOMAIN p /\ \A i \in DOMAIN path : i + 1 \in DOMAIN p /\ p[i + 1] = path[i]
  BY <1>1, <1>2
<1>5. Keys(p) \subseteq {s.key} \cup Keys(path)
  BY <1>2, <1>3 DEF Keys
<1>6. {s.key} \cup Keys(path) \subseteq Keys(p)
  BY <1>2, <1>4 DEF Keys
<1> QED
  BY <1>5, <1>6 DEF p

\* The empty path has no keys.
LEMMA NoKeys == Keys(<<>>) = {}
PROOF
  BY DEF Keys

\* A step of an array has a name no list has.
LEMMA PlacesAreNoNames == "[]" \notin CREDENTIAL_SHAPED_NAMES /\ "[]" \notin CREDENTIAL_PARAMETER_NAMES
PROOF
  BY HeadersAssumption DEF CREDENTIAL_SHAPED_NAMES, CREDENTIAL_HEADER_NAMES, CREDENTIAL_PARAMETER_NAMES

\* checkObjectRecursive finds every credential-shaped key: on the way to no end of a
\* document it passes is there one.
LEMMA PassedIsClean ==
    ASSUME NEW t \in Documents, ~Violates[t]
    PROVE  \A e \in Ends[t] : Keys(e.path) \cap CREDENTIAL_PARAMETER_NAMES = {}
PROOF
<1> DEFINE Clean(d) == \A e \in Ends[d] : Keys(e.path) \cap CREDENTIAL_PARAMETER_NAMES = {}
           S == {d \in Documents : ~Violates[d] => Clean(d)}
<1>1. ASSUME NEW d \in Documents, \A k \in DOMAIN Parts(d) : Parts(d)[k] \in S, ~Violates[d], NEW e \in Ends[d]
      PROVE  Keys(e.path) \cap CREDENTIAL_PARAMETER_NAMES = {}
  <2>1. CASE e = [path |-> <<>>, kind |-> d.kind]
    BY <2>1, NoKeys
  <2>2. CASE \E k \in DOMAIN Parts(d) : \E f \in Ends[Parts(d)[k]] :
                 /\ f \in EndSet /\ Step(d, k) \in Steps
                 /\ e = [path |-> <<Step(d, k)>> \o f.path, kind |-> f.kind]
    <3> PICK k \in DOMAIN Parts(d) : \E f \in Ends[Parts(d)[k]] :
                 /\ f \in EndSet /\ Step(d, k) \in Steps
                 /\ e = [path |-> <<Step(d, k)>> \o f.path, kind |-> f.kind]
      BY <2>2
    <3>1. PICK f \in Ends[Parts(d)[k]] :
                 /\ f \in EndSet /\ Step(d, k) \in Steps
                 /\ e = [path |-> <<Step(d, k)>> \o f.path, kind |-> f.kind]
      OBVIOUS
    <3>2. ~(d.kind = "object" /\ k \in CREDENTIAL_PARAMETER_NAMES) /\ ~Violates[Parts(d)[k]]
      BY <1>1, Equations DEF ViolatesAt
    <3>3. Keys(f.path) \cap CREDENTIAL_PARAMETER_NAMES = {}
      BY <1>1, <3>2
    <3>4. Step(d, k).key \notin CREDENTIAL_PARAMETER_NAMES
      BY <3>2, PlacesAreNoNames DEF Step
    <3>5. Keys(e.path) = {Step(d, k).key} \cup Keys(f.path)
      BY <3>1, KeysOfStep DEF EndSet
    <3> QED
      BY <3>3, <3>4, <3>5
  <2> QED
    BY <2>1, <2>2, EndCases
<1>2. Documents \subseteq S
  <2>1. \A d \in Documents : (\A k \in DOMAIN Parts(d) : Parts(d)[k] \in S) => d \in S
    BY <1>1
  <2> HIDE DEF S
  <2> QED
    BY <2>1, DocumentInduction
<1> QED
  BY <1>2

\* scrubObjectRecursive reports what it changes: a document it reports unmodified has no
\* credential-shaped key.
LEMMA UnmodifiedIsClean ==
    ASSUME NEW t \in Documents, ~ScrubObject[t].modified
    PROVE  \A e \in Ends[t] : Keys(e.path) \cap CREDENTIAL_SHAPED_NAMES = {}
PROOF
<1> DEFINE Clean(d) == \A e \in Ends[d] : Keys(e.path) \cap CREDENTIAL_SHAPED_NAMES = {}
           S == {d \in Documents : ~ScrubObject[d].modified => Clean(d)}
<1>1. ASSUME NEW d \in Documents, \A k \in DOMAIN Parts(d) : Parts(d)[k] \in S, ~ScrubObject[d].modified,
             NEW e \in Ends[d]
      PROVE  Keys(e.path) \cap CREDENTIAL_SHAPED_NAMES = {}
  <2>1. CASE e = [path |-> <<>>, kind |-> d.kind]
    BY <2>1, NoKeys
  <2>2. CASE \E k \in DOMAIN Parts(d) : \E f \in Ends[Parts(d)[k]] :
                 /\ f \in EndSet /\ Step(d, k) \in Steps
                 /\ e = [path |-> <<Step(d, k)>> \o f.path, kind |-> f.kind]
    <3> PICK k \in DOMAIN Parts(d) : \E f \in Ends[Parts(d)[k]] :
                 /\ f \in EndSet /\ Step(d, k) \in Steps
                 /\ e = [path |-> <<Step(d, k)>> \o f.path, kind |-> f.kind]
      BY <2>2
    <3>1. PICK f \in Ends[Parts(d)[k]] :
                 /\ f \in EndSet /\ Step(d, k) \in Steps
                 /\ e = [path |-> <<Step(d, k)>> \o f.path, kind |-> f.kind]
      OBVIOUS
    <3>2. ~Hidden(d, k) /\ ~ScrubObject[Parts(d)[k]].modified
      BY <1>1, ScrubFields
    <3>3. Keys(f.path) \cap CREDENTIAL_SHAPED_NAMES = {}
      BY <1>1, <3>2
    <3>4. Step(d, k).key \notin CREDENTIAL_SHAPED_NAMES
      BY <3>2, PlacesAreNoNames DEF Step, Hidden
    <3>5. Keys(e.path) = {Step(d, k).key} \cup Keys(f.path)
      BY <3>1, KeysOfStep DEF EndSet
    <3> QED
      BY <3>3, <3>4, <3>5
  <2> QED
    BY <2>1, <2>2, EndCases
<1>2. Documents \subseteq S
  <2>1. \A d \in Documents : (\A k \in DOMAIN Parts(d) : Parts(d)[k] \in S) => d \in S
    BY <1>1
  <2> HIDE DEF S
  <2> QED
    BY <2>1, DocumentInduction
<1> QED
  BY <1>2

\* Where Cut cuts.
LEMMA CutNowhere ==
    ASSUME NEW e, Keys(e.path) \cap CREDENTIAL_SHAPED_NAMES = {}
    PROVE  Cut(e) = e
PROOF
<1>1. {i \in DOMAIN e.path : e.path[i].key \in CREDENTIAL_SHAPED_NAMES} = {}
  BY DEF Keys
<1> QED
  BY <1>1 DEF Cut

\* The cut is after the first credential-shaped step of the path.
LEMMA CutAt ==
    ASSUME NEW path \in Seq(Steps), NEW kind, NEW n \in DOMAIN path,
           path[n].key \in CREDENTIAL_SHAPED_NAMES,
           \A j \in DOMAIN path : path[j].key \in CREDENTIAL_SHAPED_NAMES => n <= j
    PROVE  Cut([path |-> path, kind |-> kind]) = [path |-> SubSeq(path, 1, n), kind |-> "redacted"]
PROOF
<1> DEFINE shaped == {i \in DOMAIN path : path[i].key \in CREDENTIAL_SHAPED_NAMES}
           first == CHOOSE i \in shaped : \A j \in shaped : i <= j
<1>1. shaped \subseteq Nat /\ n \in shaped
  OBVIOUS
<1>2. \A j \in shaped : n <= j
  OBVIOUS
<1>3. Cut([path |-> path, kind |-> kind]) = IF shaped = {} THEN [path |-> path, kind |-> kind]
                                            ELSE [path |-> SubSeq(path, 1, first), kind |-> "redacted"]
  BY DEF Cut
<1> HIDE DEF shaped
<1>4. first \in shaped /\ \A j \in shaped : first <= j
  BY <1>1, <1>2
<1>5. first = n
  <2> HIDE DEF first
  <2> QED
    BY <1>1, <1>2, <1>4
<1> QED
  BY <1>1, <1>3, <1>5

\* Cutting goes on below a step that is not credential-shaped, and ends at one that is.
LEMMA CutBelow ==
    ASSUME NEW s \in Steps, NEW f \in EndSet
    PROVE  LET e == [path |-> <<s>> \o f.path, kind |-> f.kind]
           IN  Cut(e) = IF s.key \in CREDENTIAL_SHAPED_NAMES THEN [path |-> <<s>>, kind |-> "redacted"]
                        ELSE [path |-> <<s>> \o Cut(f).path, kind |-> Cut(f).kind]
PROOF
<1> DEFINE q == f.path
           p == <<s>> \o q
           e == [path |-> p, kind |-> f.kind]
<1>1. q \in Seq(Steps) /\ f = [path |-> q, kind |-> f.kind]
  BY DEF EndSet
<1> HIDE DEF q
<1>2. /\ p \in Seq(Steps) /\ Len(q) \in Nat /\ DOMAIN p = 1..Len(q) + 1 /\ DOMAIN q = 1..Len(q)
      /\ p[1] = s /\ \A i \in 1..Len(q) : p[i + 1] = q[i]
  BY <1>1
<1>3. CASE s.key \in CREDENTIAL_SHAPED_NAMES
  <2>1. 1 \in DOMAIN p /\ p[1].key \in CREDENTIAL_SHAPED_NAMES /\ \A j \in DOMAIN p : 1 <= j
    BY <1>2, <1>3
  <2>2. SubSeq(p, 1, 1) = <<s>>
    <3>1. Len(p) >= 1
      BY <1>2
    <3> HIDE DEF p
    <3>2. SubSeq(p, 1, 1) \in Seq(Steps) /\ Len(SubSeq(p, 1, 1)) = 1 /\ SubSeq(p, 1, 1)[1] = s
      BY <1>2, <3>1
    <3>3. PICK w \in Seq(Steps) : w = SubSeq(p, 1, 1) /\ Len(w) = 1 /\ w[1] = s
      BY <3>2
    <3>4. w = <<w[1]>>
      <4>1. w \in Seq(Steps) /\ Len(w) = 1
        BY <3>3
      <4> QED
        BY <4>1
    <3> QED
      BY <3>3, <3>4
  <2>3. Cut(e) = [path |-> SubSeq(p, 1, 1), kind |-> "redacted"]
    <3> HIDE DEF p
    <3> QED
      BY <1>2, <2>1, CutAt
  <2> QED
    BY <1>3, <2>2, <2>3 DEF q
<1>4. CASE s.key \notin CREDENTIAL_SHAPED_NAMES /\ Keys(q) \cap CREDENTIAL_SHAPED_NAMES = {}
  <2>1. Cut(f) = f
    BY <1>4, CutNowhere DEF q
  <2>2. Keys(p) \cap CREDENTIAL_SHAPED_NAMES = {}
    BY <1>1, <1>4, KeysOfStep
  <2>3. Cut(e) = e
    <3> HIDE DEF p
    <3> QED
      BY <2>2, CutNowhere
  <2> QED
    BY <1>4, <2>1, <2>3 DEF q
<1>5. CASE s.key \notin CREDENTIAL_SHAPED_NAMES /\ Keys(q) \cap CREDENTIAL_SHAPED_NAMES # {}
  <2> DEFINE shaped == {i \in DOMAIN q : q[i].key \in CREDENTIAL_SHAPED_NAMES}
  <2>1. shaped \subseteq Nat /\ shaped # {}
    BY <1>2, <1>5 DEF Keys
  <2>2. PICK n \in shaped : \A j \in shaped : n <= j
    <3> HIDE DEF shaped
    <3> QED
      BY <2>1, Least
  <2>3. n \in 1..Len(q) /\ q[n].key \in CREDENTIAL_SHAPED_NAMES
    BY <1>2, <2>2
  <2>4. \A j \in DOMAIN q : q[j].key \in CREDENTIAL_SHAPED_NAMES => n <= j
    BY <2>2
  <2>5. Cut([path |-> q, kind |-> f.kind]) = [path |-> SubSeq(q, 1, n), kind |-> "redacted"]
    BY <1>1, <1>2, <2>3, <2>4, CutAt
  <2>6. n + 1 \in DOMAIN p /\ p[n + 1].key \in CREDENTIAL_SHAPED_NAMES
    BY <1>2, <2>3
  <2>7. ASSUME NEW j \in DOMAIN p, p[j].key \in CREDENTIAL_SHAPED_NAMES
        PROVE  n + 1 <= j
    <3> HIDE DEF p
    <3>1. j # 1 /\ j - 1 \in 1..Len(q) /\ p[(j - 1) + 1] = q[j - 1] /\ (j - 1) + 1 = j
      BY <1>2, <1>5, <2>7
    <3>2. n <= j - 1
      BY <1>2, <2>4, <2>7, <3>1
    <3> QED
      BY <1>2, <2>3, <3>1, <3>2
  <2>8. Cut(e) = [path |-> SubSeq(p, 1, n + 1), kind |-> "redacted"]
    <3> HIDE DEF p
    <3> QED
      BY <1>2, <2>6, <2>7, CutAt
  <2>9. SubSeq(p, 1, n + 1) = <<s>> \o SubSeq(q, 1, n)
    BY <1>1, <1>2, <2>3
  <2>10. Cut(f) = [path |-> SubSeq(q, 1, n), kind |-> "redacted"]
    BY <1>1, <2>5
  <2>11. Cut(f).path = SubSeq(q, 1, n) /\ Cut(f).kind = "redacted"
    <3>1. PICK y, w : w = SubSeq(q, 1, n) /\ y = [path |-> w, kind |-> "redacted"]
      OBVIOUS
    <3>2. y.path = w /\ y.kind = "redacted"
      BY <3>1
    <3> QED
      BY <2>10, <3>1, <3>2, Zenon
  <2>12. Cut(e) = [path |-> <<s>> \o Cut(f).path, kind |-> Cut(f).kind]
    BY <2>8, <2>9, <2>11, Zenon
  <2> QED
    BY <1>5, <2>12 DEF q
<1> QED
  BY <1>3, <1>4, <1>5

\* The parts of a scrubbed document.
LEMMA ScrubbedShape ==
    ASSUME NEW t \in Documents, NEW o, o = ScrubObject[t].obj
    PROVE  /\ o \in Documents /\ o.kind = t.kind /\ DOMAIN Parts(o) = DOMAIN Parts(t)
           /\ \A k \in DOMAIN Parts(t) :
                 /\ Step(o, k) = Step(t, k)
                 /\ Parts(o)[k] = IF Hidden(t, k) THEN Redacted ELSE ScrubObject[Parts(t)[k]].obj
PROOF
<1>1. o \in Documents
  BY RedactionAssumption
<1>2. o = Scrubbed(ScrubObject, t)
  BY ScrubFields
<1> DEFINE parts == ScrubbedParts(ScrubObject, t)
<1>3. DOMAIN parts = DOMAIN Parts(t) /\ \A k \in DOMAIN Parts(t) :
          parts[k] = IF Hidden(t, k) THEN Redacted ELSE ScrubObject[Parts(t)[k]].obj
  BY DEF ScrubbedParts, ScrubbedPart
<1> HIDE DEF parts
<1>4. CASE t.kind = "object"
  <2>1. o = Obj(parts)
    BY <1>2, <1>4 DEF Scrubbed, parts
  <2>2. o.kind = "object" /\ Parts(o) = parts
    BY <2>1 DEF Obj, Parts
  <2> QED
    BY <1>1, <1>3, <1>4, <2>2 DEF Step
<1>5. CASE t.kind = "array"
  <2>1. o = Arr(parts)
    BY <1>2, <1>5 DEF Scrubbed, parts
  <2>2. o.kind = "array" /\ Parts(o) = parts
    BY <2>1 DEF Arr, Parts
  <2> QED
    BY <1>1, <1>3, <1>5, <2>2 DEF Step
<1>6. CASE t.kind \notin {"object", "array"}
  <2>1. o = t
    BY <1>2, <1>6 DEF Scrubbed
  <2>2. DOMAIN Parts(t) = {}
    BY <1>6 DEF Parts
  <2> QED
    BY <1>1, <2>1, <2>2
<1> QED
  BY <1>4, <1>5, <1>6

\* scrubObjectRecursive: exactly what is under a credential-shaped key is replaced, at any
\* height, and the rest is as it was.
LEMMA ScrubbedEnds ==
    ASSUME NEW t \in Documents
    PROVE  Ends[ScrubObject[t].obj] = {Cut(e) : e \in Ends[t]}
PROOF
<1> DEFINE Was(d) == {Cut(e) : e \in Ends[d]}
           S == {d \in Documents : Ends[ScrubObject[d].obj] = Was(d)}
<1>1. ASSUME NEW d \in Documents, \A k \in DOMAIN Parts(d) : Parts(d)[k] \in S
      PROVE  Ends[ScrubObject[d].obj] = Was(d)
  <2> DEFINE o == ScrubObject[d].obj
  <2>1. /\ o \in Documents /\ o.kind = d.kind /\ DOMAIN Parts(o) = DOMAIN Parts(d)
        /\ \A k \in DOMAIN Parts(d) :
                 /\ Step(o, k) = Step(d, k)
                 /\ Parts(o)[k] = IF Hidden(d, k) THEN Redacted ELSE ScrubObject[Parts(d)[k]].obj
    BY ScrubbedShape
  <2> HIDE DEF o
  <2>2. CASE DOMAIN Parts(d) = {}
    <3>1. Ends[d] = {[path |-> <<>>, kind |-> d.kind]} /\ Ends[o] = {[path |-> <<>>, kind |-> d.kind]}
      BY <2>1, <2>2, Equations DEF EndsAt
    <3>2. Cut([path |-> <<>>, kind |-> d.kind]) = [path |-> <<>>, kind |-> d.kind]
      BY NoKeys, CutNowhere
    <3> QED
      BY <3>1, <3>2 DEF o
  <2>3. CASE DOMAIN Parts(d) # {}
    <3>1. /\ Ends[d] = UNION {Below(d, k, Ends[Parts(d)[k]]) : k \in DOMAIN Parts(d)}
          /\ Ends[o] = UNION {Below(o, k, Ends[Parts(o)[k]]) : k \in DOMAIN Parts(d)}
      BY <2>1, <2>3, Equations DEF EndsAt
    <3>2. ASSUME NEW k \in DOMAIN Parts(d)
          PROVE  Below(o, k, Ends[Parts(o)[k]]) = {Cut(e) : e \in Below(d, k, Ends[Parts(d)[k]])}
      <4> DEFINE c == Parts(d)[k]
                 s == Step(d, k)
                 Under(e) == [path |-> <<s>> \o e.path, kind |-> e.kind]
      <4>1. c \in Documents /\ Ends[c] \subseteq EndSet /\ Ends[c] # {} /\ s \in Steps
        BY PartsAreDocuments, EndsTyped DEF Steps
      <4>2. \A e \in Ends[c] : Cut(Under(e)) = IF s.key \in CREDENTIAL_SHAPED_NAMES
                                               THEN [path |-> <<s>>, kind |-> "redacted"]
                                               ELSE Under(Cut(e))
        BY <4>1, CutBelow
      <4>3. s.key \in CREDENTIAL_SHAPED_NAMES <=> Hidden(d, k)
        BY PlacesAreNoNames DEF Step, Hidden
      <4>4. Step(o, k) = s
        BY <2>1
      <4>5. {Cut(e) : e \in Below(d, k, Ends[c])} = {Cut(Under(e)) : e \in Ends[c]}
        BY DEF Below
      <4>6. CASE Hidden(d, k)
        <5>1. Parts(o)[k] = Redacted /\ Redacted \in Documents
          BY <2>1, <4>6, PartsAreDocuments
        <5>2. DOMAIN Parts(Redacted) = {} /\ Redacted.kind = "redacted"
          BY DEF Redacted, Parts
        <5>3. Ends[Redacted] = {[path |-> <<>>, kind |-> "redacted"]}
          BY <5>1, <5>2, Equations DEF EndsAt
        <5>4. <<s>> \o <<>> = <<s>>
          BY <4>1
        <5>5. Below(o, k, Ends[Parts(o)[k]]) = {[path |-> <<s>>, kind |-> "redacted"]}
          <6> DEFINE x == [path |-> <<>>, kind |-> "redacted"]
          <6>1. Below(o, k, Ends[Parts(o)[k]]) = {Under(e) : e \in {x}}
            BY <4>4, <5>1, <5>3 DEF Below
          <6>2. Under(x) = [path |-> <<s>>, kind |-> "redacted"]
            BY <5>4
          <6> QED
            BY <6>1, <6>2
        <5>6. {Cut(Under(e)) : e \in Ends[c]} = {[path |-> <<s>>, kind |-> "redacted"]}
          BY <4>1, <4>2, <4>3, <4>6
        <5> QED
          BY <4>5, <5>5, <5>6
      <4>7. CASE ~Hidden(d, k)
        <5>1. Ends[Parts(o)[k]] = {Cut(e) : e \in Ends[c]}
          BY <1>1, <2>1, <4>7
        <5>2. Below(o, k, Ends[Parts(o)[k]]) = {Under(Cut(e)) : e \in Ends[c]}
          BY <4>4, <5>1 DEF Below
        <5>3. {Under(Cut(e)) : e \in Ends[c]} = {Cut(Under(e)) : e \in Ends[c]}
          BY <4>2, <4>3, <4>7
        <5> QED
          BY <4>5, <5>2, <5>3
      <4> QED
        BY <4>6, <4>7
    <3>3. Ends[o] = UNION {{Cut(e) : e \in Below(d, k, Ends[Parts(d)[k]])} : k \in DOMAIN Parts(d)}
      BY <3>1, <3>2
    <3> QED
      BY <3>1, <3>3 DEF o
  <2> QED
    BY <2>2, <2>3
<1>2. Documents \subseteq S
  <2>1. \A d \in Documents : (\A k \in DOMAIN Parts(d) : Parts(d)[k] \in S) => d \in S
    BY <1>1
  <2> HIDE DEF S
  <2> QED
    BY <2>1, DocumentInduction
<1> QED
  BY <1>2

\* scrubResponseBody, then: what is answered of a JSON response.
LEMMA ScrubbedBody ==
    ASSUME NEW r, r.tree \in Documents
    PROVE  /\ ScrubBody(r) \in Documents
           /\ Ends[ScrubBody(r)] = IF r.type = "json" THEN {Cut(e) : e \in Ends[r.tree]} ELSE Ends[r.tree]
PROOF
<1>1. CASE r.type = "json" /\ ScrubObject[r.tree].modified
  BY <1>1, ScrubbedEnds, RedactionAssumption DEF ScrubBody
<1>2. CASE r.type = "json" /\ ~ScrubObject[r.tree].modified
  <2>1. \A e \in Ends[r.tree] : Cut(e) = e
    BY <1>2, UnmodifiedIsClean, CutNowhere
  <2> QED
    BY <1>2, <2>1 DEF ScrubBody
<1>3. CASE r.type # "json"
  BY <1>3 DEF ScrubBody
<1> QED
  BY <1>1, <1>2, <1>3

\* What is left under a credential-shaped key of a cut document is redacted.
LEMMA CutIsRedacted ==
    ASSUME NEW e, Keys(Cut(e).path) \cap CREDENTIAL_SHAPED_NAMES # {}
    PROVE  Cut(e).kind = "redacted"
PROOF
<1>1. CASE Keys(e.path) \cap CREDENTIAL_SHAPED_NAMES = {}
  BY <1>1, CutNowhere
<1>2. CASE Keys(e.path) \cap CREDENTIAL_SHAPED_NAMES # {}
  BY <1>2 DEF Cut, Keys
<1> QED
  BY <1>1, <1>2

--------------------------------------------------------------------------------
(* The inductive invariant. *)

BodyOK(b) ==
    /\ b = Body(b.type, b.tree, b.fields, b.large)
    /\ b.tree \in Documents /\ b.fields \in Seq(STRING)

RequestOK ==
    /\ request = [via |-> request.via, headers |-> request.headers, query |-> request.query,
                  method |-> request.method, body |-> request.body]
    /\ BodyOK(request.body)
    /\ pc = "body" => CheckQuery(request.query)

\* An answer of the vendor is the scrubbed response, which stays what it was.
AnswerOK ==
    /\ pc # "done" => answer.reply = "none"
    /\ pc = "response" => response \in Responses
    /\ answer.reply = "vendor" =>
          /\ response \in Responses /\ answer.content.tree = ScrubBody(response)
          /\ answer.content.headers \cap (CREDENTIAL_SHAPED_NAMES \cup {"content-length", "content-encoding"}) = {}

\* What a captured text, or one to be sent, of a body of a type may hold.
TextClean(type, fields, tree) ==
    /\ type = "form" => Fields(fields) \cap CREDENTIAL_PARAMETER_NAMES = {}
    /\ type \in {"json", "json-broken"} => \A e \in Ends[tree] : Keys(e.path) \cap CREDENTIAL_PARAMETER_NAMES = {}
CaptureOK ==
    /\ pc = "client" => capture.kind = "none"
    /\ capture.kind = "text" => TextClean(request.body.type, capture.fields, capture.tree)

\* A row is written last, of what does not change any more.
RowOK ==
    row.kind = "row" => /\ pc = "done" /\ capture.kind # "reading"
                        /\ row.request = capture /\ row.response = answer.content.tree

IInv == DataTypeOK /\ RequestOK /\ AnswerOK /\ CaptureOK /\ RowOK /\ NothingSmuggled /\ ClientsAgree

\* checkRequestBody: a body it passes is clean.
LEMMA CheckedIsClean ==
    ASSUME NEW b, BodyOK(b), CheckBody(b)
    PROVE  TextClean(b.type, b.fields, b.tree)
PROOF
<1>1. CASE b.type = "json"
  <2>1. ~Violates[b.tree]
    BY <1>1 DEF CheckBody
  <2> QED
    BY <1>1, <2>1, PassedIsClean DEF TextClean, BodyOK
<1>2. CASE b.type = "form"
  BY <1>2 DEF CheckBody, TextClean, Fields
<1>3. CASE b.type = "json-broken"
  BY <1>3 DEF CheckBody
<1> QED
  BY <1>1, <1>2, <1>3 DEF TextClean

\* captureRequestContent: what is kept of the first 8 KiB of a body is clean, for the
\* body it came from.
LEMMA CapturedIsClean ==
    ASSUME NEW b, BodyOK(b), NEW p \in Prefixes(b), Captured(p).kind = "text"
    PROVE  TextClean(b.type, Captured(p).fields, Captured(p).tree)
PROOF
<1>1. CheckBody(p)
  BY DEF Captured, Bare
<1>2. Captured(p).fields = p.fields /\ Captured(p).tree = p.tree
  BY <1>1 DEF Captured, Text
<1>3. CASE p = b
  BY <1>1, <1>2, <1>3, CheckedIsClean
<1>4. CASE b.type = "form"
  <2>1. PICK fields : p = [b EXCEPT !.fields = fields] \/ p = b
    BY <1>4 DEF Prefixes
  <2>2. p.type = "form"
    BY <1>4, <2>1 DEF BodyOK, Body
  <2>3. Fields(p.fields) \cap CREDENTIAL_PARAMETER_NAMES = {}
    BY <1>1, <2>2 DEF CheckBody, Fields
  <2> QED
    BY <1>2, <1>4, <2>3 DEF TextClean
<1>5. CASE b.type \in {"json", "json-broken"} /\ p # b
  <2>1. PICK type \in {"json", "json-broken"} : p = [b EXCEPT !.type = type]
    BY <1>5 DEF Prefixes
  <2>2. p = [type |-> type, tree |-> b.tree, fields |-> b.fields, large |-> b.large]
    BY <2>1 DEF BodyOK, Body
  <2>3. BodyOK(p) /\ p.type = type /\ p.tree = b.tree
    BY <2>2 DEF BodyOK, Body
  <2>4. TextClean(type, p.fields, p.tree)
    BY <1>1, <2>3, CheckedIsClean
  <2> QED
    BY <1>2, <1>5, <2>1, <2>4 DEF TextClean
<1> QED
  BY <1>3, <1>4, <1>5 DEF TextClean

\* filterRequestHeaders: no header that is credential-shaped, stripped, or one the
\* credential is put into gets through.
LEMMA ForwardedAreClean ==
    ASSUME NEW names, ~RefusedHeaders(names), NEW key \in ((SUBSET KeyHeaders) \ {{}}) \cup {{"authorization"}}
    PROVE  Forwarded(names) \cap (CREDENTIAL_SHAPED_NAMES \cup key \cup XMs \cup HOP_BY_HOP_HEADER_NAMES) = {}
PROOF
<1>1. Forwarded(names) \cap (CREDENTIAL_SHAPED_NAMES \cup AlwaysStripped \cup HOP_BY_HOP_HEADER_NAMES) = {}
  BY DEF Forwarded, RefusedHeaders
<1>2. key \subseteq CREDENTIAL_SHAPED_NAMES \cup AlwaysStripped /\ XMs \subseteq AlwaysStripped
  BY DEF CREDENTIAL_SHAPED_NAMES, AlwaysStripped
<1> QED
  BY <1>1, <1>2

\* What is sent is clean if it was checked.
LEMMA ForwardStep ==
    ASSUME NEW body, TextClean(body.type, body.fields, body.tree), CheckQuery(request.query),
           NothingSmuggled, pc # "done", AnswerOK, DataTypeOK, Forward(body)
    PROVE  /\ NothingSmuggled'
           /\ \/ pc' = "done" /\ \E r \in {"400", "502"} : answer' = [reply |-> r, content |-> Empty]
              \/ pc' = "send" /\ answer' = answer
PROOF
<1>1. CASE UNCHANGED sent
  BY <1>1 DEF NothingSmuggled, Forward, Reply
<1>2. CASE ~UNCHANGED sent
  <2>1. /\ ~RefusedHeaders(request.headers) /\ pc' = "send" /\ answer' = answer
        /\ \E key \in ((SUBSET KeyHeaders) \ {{}}) \cup {{"authorization"}} :
              sent' = [kind |-> "sent", headers |-> Forwarded(request.headers), key |-> key,
                       query |-> request.query, body |-> body]
    BY <1>2 DEF Forward
  <2>2. PICK key \in ((SUBSET KeyHeaders) \ {{}}) \cup {{"authorization"}} :
              sent' = [kind |-> "sent", headers |-> Forwarded(request.headers), key |-> key,
                       query |-> request.query, body |-> body]
    BY <2>1
  <2>3. sent'.headers \cap (CREDENTIAL_SHAPED_NAMES \cup sent'.key \cup XMs \cup HOP_BY_HOP_HEADER_NAMES) = {}
    BY <2>1, <2>2, ForwardedAreClean
  <2>4. sent'.query \cap CREDENTIAL_PARAMETER_NAMES = {}
    BY <2>2 DEF CheckQuery
  <2>5. sent'.body = body
    BY <2>2
  <2> QED
    BY <2>1, <2>3, <2>4, <2>5 DEF NothingSmuggled, TextClean
<1> QED
  BY <1>1, <1>2 DEF Forward, Reply

--------------------------------------------------------------------------------
(* The steps. *)

\* The invariant holds of a request that has just come in.
LEMMA InitIInv == DataInit => IInv
PROOF
<1> SUFFICES ASSUME DataInit
             PROVE  IInv
  OBVIOUS
<1>1. DataTypeOK
  BY DEF DataInit, DataTypeOK, NoRequest, Absent, Replies, Entries
<1>2. RequestOK
  <2>1. request = [via |-> "raw", headers |-> {}, query |-> {}, method |-> "GET", body |-> NoBody] /\ pc = "client"
    BY DEF DataInit, NoRequest
  <2>2. BodyOK(NoBody)
    BY DocumentsAssumption DEF BodyOK, NoBody, Body
  <2> QED
    BY <2>1, <2>2 DEF RequestOK
<1>3. AnswerOK /\ CaptureOK /\ RowOK /\ NothingSmuggled /\ ClientsAgree
  BY DEF DataInit, AnswerOK, CaptureOK, RowOK, NothingSmuggled, ClientsAgree, Absent
<1> QED
  BY <1>1, <1>2, <1>3 DEF IInv

\* The libraries and the bridge let through no credential-shaped header but one the
\* deployment reserves.
LEMMA ClientHeaders ==
    ASSUME NEW names, NEW own, NEW via \in Entries \ {"raw"},
           ~(via = "node" /\ names \cap CREDENTIAL_HEADERS # {}),
           ~(via = "python" /\ names \cap CallerHeaders # {}),
           own = IF via = "bridge" THEN Bridged(names) ELSE names
    PROVE  LET headers == own \cup {"authorization"} \cup Platform
           IN  ~RefusedHeaders(headers) \/ headers \cap KeyHeaders # {}
PROOF
<1>1. CREDENTIAL_HEADER_NAMES \subseteq CREDENTIAL_HEADERS
  BY DEF CREDENTIAL_HEADER_NAMES, CREDENTIAL_HEADERS
<1>2. own \cap CREDENTIAL_HEADER_NAMES = {}
  BY <1>1 DEF Entries, CallerHeaders, Bridged, Blocked
<1>3. ((own \cup {"authorization"} \cup Platform) \ (AlwaysStripped \cup HOP_BY_HOP_HEADER_NAMES))
          \cap CREDENTIAL_HEADER_NAMES = {}
  BY <1>2, HeadersAssumption DEF AlwaysStripped
<1> QED
  BY <1>3 DEF RefusedHeaders, CREDENTIAL_SHAPED_NAMES

\* The libraries and the bridge.
LEMMA ClientStep ==
    ASSUME IInv, Client
    PROVE  IInv'
PROOF
<1> USE DEF IInv
<1>1. pc = "client" /\ answer.reply = "none" /\ row.kind # "row" /\ UNCHANGED <<bodyRead, sent, response, row>>
  BY DEF Client, AnswerOK, RowOK
<1>2. PICK r \in Inputs :
         IF Thrown(r)
         THEN Reply("thrown", Empty) /\ request' = r /\ UNCHANGED capture
         ELSE /\ request' = [r EXCEPT !.headers = OwnHeaders(r) \cup {"authorization"} \cup Platform]
              /\ pc' = "gates" /\ UNCHANGED answer
              /\ capture' = IF r.method = "GET" THEN Bare("empty") ELSE Bare("reading")
  BY DEF Client
<1>3. /\ r = [via |-> r.via, headers |-> r.headers, query |-> r.query, method |-> r.method, body |-> r.body]
      /\ r.via \in Entries /\ r.method \in {"GET", "POST"} /\ BodyOK(r.body)
  BY InputsAssumption DEF BodyOK
<1>4. CASE Thrown(r)
  <2>1. pc' = "done" /\ answer' = [reply |-> "thrown", content |-> Empty] /\ request' = r /\ UNCHANGED capture
    BY <1>2, <1>4 DEF Reply
  <2>2. capture.kind # "text"
    BY <1>1 DEF CaptureOK
  <2> QED
    BY <1>1, <1>3, <2>1, <2>2 DEF DataTypeOK, Replies, RequestOK, AnswerOK, CaptureOK, RowOK, NothingSmuggled, ClientsAgree
<1>5. CASE ~Thrown(r)
  <2>1. /\ request' = [r EXCEPT !.headers = OwnHeaders(r) \cup {"authorization"} \cup Platform]
        /\ pc' = "gates" /\ UNCHANGED answer
        /\ capture' = IF r.method = "GET" THEN Bare("empty") ELSE Bare("reading")
    BY <1>2, <1>5
  <2>2. request' = [via |-> r.via, headers |-> OwnHeaders(r) \cup {"authorization"} \cup Platform,
                    query |-> r.query, method |-> r.method, body |-> r.body]
    BY <1>3, <2>1
  <2>3. RequestOK'
    BY <1>3, <2>1, <2>2 DEF RequestOK, BodyOK
  <2>4. DataTypeOK'
    BY <1>1, <1>3, <2>1, <2>2 DEF DataTypeOK, Bare
  <2>5. (AnswerOK /\ CaptureOK /\ RowOK /\ NothingSmuggled)'
    BY <1>1, <2>1 DEF AnswerOK, CaptureOK, RowOK, NothingSmuggled, Bare
  <2>6. ClientsAgree'
    <3>1. request'.via = r.via /\ request'.headers = OwnHeaders(r) \cup {"authorization"} \cup Platform
      BY <2>2
    <3>2. OwnHeaders(r) = IF r.via = "bridge" THEN Bridged(r.headers) ELSE r.headers
      BY DEF OwnHeaders
    <3>3. ~(r.via = "node" /\ r.headers \cap CREDENTIAL_HEADERS # {}) /\ ~(r.via = "python" /\ r.headers \cap CallerHeaders # {})
      BY <1>5 DEF Thrown
    <3> QED
      BY <1>3, <3>1, <3>2, <3>3, ClientHeaders DEF ClientsAgree
  <2> QED
    BY <2>3, <2>4, <2>5, <2>6
<1> QED
  BY <1>4, <1>5

\* A step of the handler that ends the call without the vendor's answer.
LEMMA ReplyStep ==
    ASSUME IInv, pc # "done", NEW r \in Replies \ {"vendor"}, Reply(r, Empty),
           UNCHANGED <<request, response, capture, row>>, bodyRead' \in BOOLEAN, NothingSmuggled'
    PROVE  IInv'
PROOF
<1>1. row.kind # "row"
  BY DEF IInv, RowOK
<1>2. pc' = "done" /\ answer' = [reply |-> r, content |-> Empty]
  BY DEF Reply
<1>3. DataTypeOK' /\ RequestOK'
  BY <1>2 DEF IInv, DataTypeOK, RequestOK, BodyOK
<1>4. AnswerOK' /\ CaptureOK' /\ RowOK' /\ ClientsAgree'
  BY <1>1, <1>2 DEF IInv, AnswerOK, CaptureOK, TextClean, RowOK, ClientsAgree
<1> QED
  BY <1>3, <1>4 DEF IInv

\* One that goes on.
LEMMA GoOnStep ==
    ASSUME IInv, pc # "done", pc' \in {"query", "body", "send", "response"},
           pc' \in {"query", "body"} => pc \in {"gates", "query"},
           pc' = "body" => CheckQuery(request.query),
           pc' = "response" => response' \in Responses,
           UNCHANGED <<request, answer, capture, row>>, bodyRead' \in BOOLEAN, NothingSmuggled'
    PROVE  IInv'
PROOF
<1>1. row.kind # "row" /\ answer.reply = "none"
  BY DEF IInv, RowOK, AnswerOK
<1>2. DataTypeOK' /\ RequestOK'
  BY DEF IInv, DataTypeOK, RequestOK, BodyOK, CheckQuery
<1>3. AnswerOK' /\ CaptureOK' /\ RowOK' /\ ClientsAgree'
  BY <1>1 DEF IInv, AnswerOK, CaptureOK, TextClean, RowOK, ClientsAgree
<1> QED
  BY <1>2, <1>3 DEF IInv

\* The gates, the query check and the body check.
LEMMA CheckSteps ==
    ASSUME IInv, Gates \/ Query \/ ReadContent
    PROVE  IInv'
PROOF
<1>1. ASSUME UNCHANGED sent
      PROVE  NothingSmuggled'
  BY <1>1 DEF IInv, NothingSmuggled
<1>2. bodyRead \in BOOLEAN /\ {"denied", "400", "502", "failed"} \subseteq Replies \ {"vendor"}
  BY DEF IInv, DataTypeOK, Replies
<1>3. CASE Gates
  <2>1. CASE Reply("denied", Empty)
    BY <1>1, <1>2, <1>3, <2>1, ReplyStep DEF Gates
  <2>2. CASE pc' = "query" /\ UNCHANGED answer
    BY <1>1, <1>2, <1>3, <2>2, GoOnStep DEF Gates
  <2> QED
    BY <1>3, <2>1, <2>2 DEF Gates
<1>4. ASSUME NEW body, TextClean(body.type, body.fields, body.tree), Forward(body),
             CheckQuery(request.query), pc \in {"query", "body"}, bodyRead' \in BOOLEAN,
             UNCHANGED <<request, response, capture, row>>
      PROVE  IInv'
  <2>1. /\ NothingSmuggled'
        /\ \/ pc' = "done" /\ \E r \in {"400", "502"} : answer' = [reply |-> r, content |-> Empty]
           \/ pc' = "send" /\ answer' = answer
    BY <1>4, ForwardStep DEF IInv
  <2>2. CASE pc' = "done" /\ \E r \in {"400", "502"} : answer' = [reply |-> r, content |-> Empty]
    BY <1>2, <1>4, <2>1, <2>2, ReplyStep DEF Reply
  <2>3. CASE pc' = "send" /\ answer' = answer
    BY <1>4, <2>1, <2>3, GoOnStep
  <2> QED
    BY <2>1, <2>2, <2>3
<1>5. CASE Query
  <2>1. pc = "query" /\ UNCHANGED <<request, bodyRead, response, capture, row>>
    BY <1>5 DEF Query
  <2>2. CASE ~CheckQuery(request.query)
    BY <1>1, <1>2, <1>5, <2>1, <2>2, ReplyStep DEF Query
  <2>3. CASE CheckQuery(request.query) /\ request.method = "POST"
    BY <1>1, <1>2, <1>5, <2>1, <2>3, GoOnStep DEF Query
  <2>4. CASE CheckQuery(request.query) /\ request.method # "POST"
    <3>1. Forward(NoBody)
      BY <1>5, <2>4 DEF Query
    <3>2. TextClean(NoBody.type, NoBody.fields, NoBody.tree)
      BY DEF NoBody, Body, TextClean
    <3> QED
      BY <1>2, <1>4, <2>1, <2>4, <3>1, <3>2
  <2> QED
    BY <2>2, <2>3, <2>4
<1>6. CASE ReadContent
  <2>1. pc = "body" /\ bodyRead' \in BOOLEAN /\ UNCHANGED <<request, response, capture, row>>
    BY <1>6 DEF ReadContent
  <2>2. CASE Reply("failed", Empty) /\ UNCHANGED sent
    BY <1>1, <1>2, <2>1, <2>2, ReplyStep
  <2>3. CASE Reply("400", Empty) /\ UNCHANGED sent
    BY <1>1, <1>2, <2>1, <2>3, ReplyStep
  <2>4. CASE CheckBody(request.body) /\ Forward(request.body)
    <3>1. TextClean(request.body.type, request.body.fields, request.body.tree)
      BY <2>4, CheckedIsClean DEF IInv, RequestOK
    <3>2. CheckQuery(request.query)
      BY <2>1 DEF IInv, RequestOK
    <3> QED
      BY <1>4, <2>1, <2>4, <3>1, <3>2
  <2> QED
    BY <1>6, <2>2, <2>3, <2>4 DEF ReadContent
<1> QED
  BY <1>3, <1>5, <1>6

\* The vendor answers, or not.
LEMMA SendStep ==
    ASSUME IInv, Send
    PROVE  IInv'
PROOF
<1>1. pc = "send" /\ sent' = Absent /\ UNCHANGED <<request, bodyRead, capture, row>>
  BY DEF Send
<1>2. NothingSmuggled' /\ bodyRead' \in BOOLEAN /\ "502" \in Replies \ {"vendor"}
  BY <1>1 DEF IInv, DataTypeOK, NothingSmuggled, Replies
<1>3. CASE Reply("502", Empty) /\ UNCHANGED response
  BY <1>1, <1>2, <1>3, ReplyStep
<1>4. CASE response' \in Responses /\ pc' = "response" /\ UNCHANGED answer
  BY <1>1, <1>2, <1>4, GoOnStep
<1> QED
  BY <1>3, <1>4 DEF Send

\* The answer is scrubbed.
LEMMA RespondStep ==
    ASSUME IInv, Respond
    PROVE  IInv'
PROOF
<1>1. pc = "response" /\ response \in Responses /\ row.kind # "row"
      /\ UNCHANGED <<request, bodyRead, sent, response, capture, row>>
  BY DEF IInv, Respond, AnswerOK, RowOK
<1>2. NothingSmuggled' /\ bodyRead' \in BOOLEAN /\ "failed" \in Replies \ {"vendor"}
  BY <1>1 DEF IInv, DataTypeOK, NothingSmuggled, Replies
<1>3. CASE Reply("failed", Empty)
  BY <1>1, <1>2, <1>3, ReplyStep
<1> DEFINE dropped == HOP_BY_HOP_HEADER_NAMES \cup {"content-encoding", "content-length"}
           content == [headers |-> ScrubHeaders(response.headers) \ dropped, tree |-> ScrubBody(response)]
<1>4. CASE Reply("vendor", content)
  <2>1. pc' = "done" /\ answer' = [reply |-> "vendor", content |-> content]
    BY <1>4 DEF Reply
  <2>2. /\ answer'.content.tree = ScrubBody(response)
        /\ answer'.content.headers \cap (CREDENTIAL_SHAPED_NAMES \cup {"content-length", "content-encoding"}) = {}
    BY <2>1 DEF ScrubHeaders
  <2> HIDE DEF content
  <2>3. DataTypeOK' /\ RequestOK'
    BY <1>1, <2>1 DEF IInv, DataTypeOK, Replies, RequestOK, BodyOK
  <2>4. ScrubBody(response)' = ScrubBody(response)
    BY <1>1 DEF ScrubBody
  <2>5. AnswerOK'
    BY <1>1, <2>1, <2>2, <2>4 DEF AnswerOK
  <2>6. CaptureOK' /\ RowOK' /\ ClientsAgree'
    BY <1>1, <2>1 DEF IInv, CaptureOK, TextClean, RowOK, ClientsAgree
  <2> QED
    BY <1>2, <2>3, <2>5, <2>6 DEF IInv
<1> QED
  BY <1>3, <1>4 DEF Respond

\* The audit has its copy of the body.
LEMMA CaptureStep ==
    ASSUME IInv, Capture
    PROVE  IInv'
PROOF
<1>1. row.kind # "row" /\ pc # "client" /\ UNCHANGED <<request, pc, bodyRead, sent, response, answer, row>>
  BY DEF IInv, Capture, RowOK, CaptureOK
<1>2. CASE \E p \in Prefixes(request.body) : capture' = Captured(p)
  <2>1. PICK p \in Prefixes(request.body) : capture' = Captured(p)
    BY <1>2
  <2>2. capture'.kind \in {"text", "omitted"}
    BY <2>1 DEF Captured, Text, Bare
  <2>3. capture'.kind = "text" => TextClean(request.body.type, capture'.fields, capture'.tree)
    BY <2>1, CapturedIsClean DEF IInv, RequestOK
  <2> QED
    BY <1>1, <2>2, <2>3 DEF IInv, DataTypeOK, RequestOK, BodyOK, CheckQuery, AnswerOK, ScrubBody, CaptureOK, RowOK,
                            NothingSmuggled, ClientsAgree
<1>3. CASE capture' = Bare("unavailable")
  <2>1. capture'.kind = "unavailable"
    BY <1>3 DEF Bare
  <2> QED
    BY <1>1, <2>1 DEF IInv, DataTypeOK, RequestOK, BodyOK, CheckQuery, AnswerOK, ScrubBody, CaptureOK, RowOK,
                      NothingSmuggled, ClientsAgree
<1> QED
  BY <1>2, <1>3 DEF Capture

\* The audit row is written, or lost.
LEMMA RecordStep ==
    ASSUME IInv, Record
    PROVE  IInv'
PROOF
<1>1. pc = "done" /\ capture.kind # "reading" /\ UNCHANGED <<request, pc, bodyRead, sent, response, answer, capture>>
  BY DEF Record
<1>2. row'.kind \in {"row", "lost"} /\ RowOK'
  <2>1. CASE row' = [kind |-> "row", request |-> capture, response |-> answer.content.tree]
    BY <1>1, <2>1 DEF RowOK
  <2>2. CASE row' = [kind |-> "lost"]
    BY <1>1, <2>2 DEF RowOK
  <2> QED
    BY <2>1, <2>2 DEF Record
<1> QED
  BY <1>1, <1>2 DEF IInv, DataTypeOK, RequestOK, BodyOK, CheckQuery, AnswerOK, ScrubBody, CaptureOK, TextClean,
                    NothingSmuggled, ClientsAgree

\* Every step keeps the invariant.
LEMMA StepIInv == IInv /\ [DataNext]_dataVars => IInv'
PROOF
<1> SUFFICES ASSUME IInv, [DataNext]_dataVars
             PROVE  IInv'
  OBVIOUS
<1>1. CASE UNCHANGED dataVars
  BY <1>1 DEF dataVars, IInv, DataTypeOK, RequestOK, BodyOK, CheckQuery, AnswerOK, ScrubBody, CaptureOK, TextClean, RowOK,
              NothingSmuggled, ClientsAgree
<1> QED
  BY <1>1, ClientStep, CheckSteps, SendStep, RespondStep, CaptureStep, RecordStep DEF DataNext, Handler

\* Under the invariant a row is clean.
LEMMA RowIsClean == IInv => AuditClean
PROOF
<1> SUFFICES ASSUME IInv, row.kind = "row"
             PROVE  /\ row.request.kind = "text" => TextClean(request.body.type, row.request.fields, row.request.tree)
                    /\ answer.reply = "vendor" /\ response.type = "json"
                         => \A e \in Ends[row.response] : Keys(e.path) \cap CREDENTIAL_SHAPED_NAMES # {} => e.kind = "redacted"
  BY DEF AuditClean, TextClean
<1>1. row.request.kind = "text" => TextClean(request.body.type, row.request.fields, row.request.tree)
  BY DEF IInv, CaptureOK, RowOK
<1>2. ASSUME answer.reply = "vendor", response.type = "json"
      PROVE  \A e \in Ends[row.response] : Keys(e.path) \cap CREDENTIAL_SHAPED_NAMES # {} => e.kind = "redacted"
  <2>1. row.response = ScrubBody(response) /\ response.tree \in Documents
    BY <1>2, ResponsesAssumption DEF IInv, RowOK, AnswerOK
  <2>2. Ends[row.response] = {Cut(e) : e \in Ends[response.tree]}
    BY <1>2, <2>1, ScrubbedBody
  <2> QED
    BY <2>2, CutIsRedacted
<1> QED
  BY <1>1, <1>2

\* Under the invariant an answer of the vendor is redacted.
LEMMA AnswerIsRedacted == IInv => ResponseRedacted
PROOF
<1> SUFFICES ASSUME IInv, answer.reply = "vendor"
             PROVE  /\ answer.content.headers \cap (CREDENTIAL_SHAPED_NAMES \cup {"content-length", "content-encoding"}) = {}
                    /\ Ends[answer.content.tree] =
                          IF response.type = "json" THEN {Cut(e) : e \in Ends[response.tree]} ELSE Ends[response.tree]
  BY DEF ResponseRedacted
<1>1. answer.content.tree = ScrubBody(response) /\ response.tree \in Documents
  BY ResponsesAssumption DEF IInv, AnswerOK
<1> QED
  BY <1>1, ScrubbedBody DEF IInv, AnswerOK

--------------------------------------------------------------------------------

\* Every variable keeps its type.
THEOREM TypeCorrect == DataSpec => []DataTypeOK
PROOF
<1>1. IInv => DataTypeOK
  BY DEF IInv
<1> QED
  BY <1>1, InitIInv, StepIInv, PTL DEF DataSpec

\* credential-scrubber.js:162-193, for any lists a deployment sets, and documents of any
\* height: the vendor gets no credential-shaped header of the caller, and no query parameter,
\* form field or JSON key under one of CREDENTIAL_PARAMETER_NAMES.
THEOREM Unsmuggled == DataSpec => []NothingSmuggled
PROOF
<1>1. IInv => NothingSmuggled
  BY DEF IInv
<1> QED
  BY <1>1, InitIInv, StepIInv, PTL DEF DataSpec

\* credential-scrubber.js:208-257, for documents of any height: exactly what is under a
\* credential-shaped key is replaced in what the caller gets.
THEOREM Redaction == DataSpec => []ResponseRedacted
PROOF
  BY AnswerIsRedacted, InitIInv, StepIInv, PTL DEF DataSpec

\* api-call-audit.js:40-43: no row keeps a field of a JSON or form body under one of
\* CREDENTIAL_PARAMETER_NAMES, wherever the body is cut off, nor of a JSON answer what is
\* under a credential-shaped key.
THEOREM AuditIsClean == DataSpec => []AuditClean
PROOF
  BY RowIsClean, InitIInv, StepIInv, PTL DEF DataSpec

\* ninja-client.mjs:48, broker_client.py:34, sdk/index.js:46: what the libraries and the
\* bridge let through is not refused for a header the deployment does not reserve.
THEOREM Agreement == DataSpec => []ClientsAgree
PROOF
<1>1. IInv => ClientsAgree
  BY DEF IInv
<1> QED
  BY <1>1, InitIInv, StepIInv, PTL DEF DataSpec

================================================================================
