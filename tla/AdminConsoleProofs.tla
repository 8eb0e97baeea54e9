--------------------------- MODULE AdminConsoleProofs ---------------------------
(***************************************************************************)
(* Proofs about AdminConsole, for any number of requests, connections and  *)
(* subjects: the types, and each of its safety properties, from an         *)
(* inductive invariant.                                                    *)
(***************************************************************************)
EXTENDS AdminConsole, TLAPS

\* What kinds of requests get to a position.
Route == [
    idle   |-> {"idle"},
    auth   |-> {"create", "credential", "grant", "revoke", "observe", "integrate", "overview"},
    find   |-> {"credential", "grant", "revoke", "observe"},
    body   |-> {"create", "credential", "grant", "integrate"},
    write  |-> {"create", "credential"},
    list   |-> {"grant"},
    insert |-> {"create", "grant", "integrate"},
    delete |-> {"revoke"},
    audit  |-> {"create", "credential", "grant", "revoke"},
    read   |-> {"observe", "overview"},
    done   |-> {"idle", "create", "credential", "grant", "revoke", "integrate"}]

\* A request by itself: it is answered when it is done, has changed nothing
\* before its first change, and is not refused after one.
Coherent(r) ==
    /\ consoleReq[r].in.op \in Route[consoleReq[r].pc]
    /\ consoleReq[r].pc # "done" <=> consoleReq[r].reply = "none"
    /\ consoleReq[r].pc \notin {"insert", "audit", "done"} => consoleReq[r].effects = {}
    /\ consoleReq[r].pc = "insert" => "repository" \notin consoleReq[r].effects
    /\ consoleReq[r].pc = "audit" => consoleReq[r].effects # {}
    /\ consoleReq[r].reply \in {"400", "403", "404"} => consoleReq[r].effects = {}

\* Its connection: what it creates or gives a credential to.
Connected(r) ==
    /\ r \in connections => consoleReq[r].in.op = "create" /\ consoleReq[r].effects # {}
    /\ consoleReq[r].in.op = "create" /\ (consoleReq[r].pc = "audit" \/ consoleReq[r].reply = "ok") => r \in connections
    /\ consoleReq[r].in.op = "credential" /\ consoleReq[r].pc \notin {"auth", "find"} => consoleReq[r].in.conn \in connections

\* Its credential.
Stored(r) ==
    /\ consoleReq[r].in.op = "create" /\ consoleReq[r].in.cred /\ (consoleReq[r].pc = "insert" \/ r \in connections) => consoleVault[r] # None
    /\ \A c \in ConsoleIds : consoleVault[c] = r => "vault" \in consoleReq[r].effects /\ consoleReq[r].in.conn = c
                                         /\ consoleReq[r].in.op \in {"create", "credential"}

\* Its record in the audit.
Audited(r) ==
    /\ consoleReq[r].reply = "ok" /\ consoleReq[r].effects # {} /\ consoleReq[r].in.op # "integrate"
          => [action |-> consoleReq[r].in.op, conn |-> consoleReq[r].in.conn, by |-> r] \in audit
    /\ \A a \in audit : a.by = r => consoleReq[r].effects # {}

\* A grant is its request's.
GrantsOfRequests ==
    \A g \in consoleGrants :
        /\ consoleReq[g.id].in.op = "grant" /\ consoleReq[g.id].in.conn = g.conn /\ consoleReq[g.id].in.subject = g.subject
        /\ consoleReq[g.id].effects # {}

\* Between its list and its insert, or with its grant stored.
Live(r) == (consoleReq[r].pc = "insert" /\ consoleReq[r].in.op = "grant") \/ \E g \in consoleGrants : g.id = r

\* Of two such requests for one subject each met the other.
Met ==
    \A p, q \in ConsoleRequests :
        p # q /\ Live(p) /\ Live(q) /\ consoleReq[p].in.conn = consoleReq[q].in.conn /\ consoleReq[p].in.subject = consoleReq[q].in.subject
            => q \in consoleReq[p].met

IInv ==
    /\ ConsoleTypeOK
    /\ \A r \in ConsoleRequests : Coherent(r) /\ Connected(r) /\ Stored(r) /\ Audited(r)
    /\ GrantsOfRequests /\ Met

--------------------------------------------------------------------------------
(* What a step does to the requests. *)

\* Request r moves on to pc, with its answer and effects; a request that ends
\* without effect forgets its input, and the others are as they were.
Moved(r, pc, in, reply, effects) ==
    /\ consoleReq' \in [ConsoleRequests -> ConsoleLocal]
    /\ \A q \in ConsoleRequests : q # r => consoleReq'[q] = consoleReq[q]
    /\ consoleReq'[r].pc = pc /\ consoleReq'[r].reply = reply /\ consoleReq'[r].effects = effects
    /\ pc = "done" /\ effects = {} => consoleReq'[r].in = Nothing
    /\ ~(pc = "done" /\ effects = {}) => consoleReq'[r].in = in /\ consoleReq'[r].met = consoleReq[r].met

\* What the inputs of a request have in common.
LEMMA InputFacts ==
    ASSUME NEW r \in ConsoleRequests, NEW in \in Inputs(r) \cup {Nothing}
    PROVE  /\ in.op \in {"idle", "create", "credential", "grant", "revoke", "observe", "integrate", "overview"}
           /\ in.op = "create" => in.conn = r
           /\ in.op \in {"credential", "grant", "revoke", "observe"} => in.conn \in ConsoleIds
           /\ in.op = "grant" => in.subject \in ConsoleSubjects
           /\ in.op = "credential" => in.cred
           /\ in.cred \in BOOLEAN
           /\ in.cred => in.op \in {"create", "credential"}
PROOF
<1>1. CASE in = Nothing
  BY <1>1 DEF Nothing
<1>2. CASE in \in Input({"create"}, {r}, {None}, {None}, BOOLEAN)
  BY <1>2 DEF Input
<1>3. CASE in \in Input({"credential"}, ConsoleIds, {None}, {None}, {TRUE})
  BY <1>3 DEF Input
<1>4. CASE in \in Input({"grant"}, ConsoleIds, ConsoleSubjects, {None}, {FALSE})
  BY <1>4 DEF Input
<1>5. CASE in \in Input({"revoke"}, ConsoleIds, {None}, ConsoleRequests, {FALSE})
  BY <1>5 DEF Input
<1>6. CASE in \in Input({"observe"}, ConsoleIds, {None}, {None}, {FALSE})
  BY <1>6 DEF Input
<1>7. CASE in \in Input({"integrate", "overview"}, {None}, {None}, {None}, {FALSE})
  BY <1>7 DEF Input
<1> QED
  BY <1>1, <1>2, <1>3, <1>4, <1>5, <1>6, <1>7 DEF Inputs

\* The record of a request, by its fields.
LEMMA Fields ==
    ASSUME ConsoleTypeOK, NEW r \in ConsoleRequests
    PROVE  /\ consoleReq[r] \in ConsoleLocal
           /\ consoleReq[r].in \in Inputs(r) \cup {Nothing}
           /\ consoleReq[r].pc \in Position /\ consoleReq[r].reply \in Replies
           /\ consoleReq[r].effects \in SUBSET {"vault", "repository"} /\ consoleReq[r].met \in SUBSET ConsoleRequests
PROOF
  BY DEF ConsoleTypeOK, ConsoleLocal

\* A step that sets the record of r moves r.
LEMMA SetMoves ==
    ASSUME ConsoleTypeOK, NEW r \in ConsoleRequests, NEW next \in ConsoleLocal, next.met = consoleReq[r].met, Set(r, next)
    PROVE  Moved(r, next.pc, next.in, next.reply, next.effects)
PROOF
<1>1. consoleReq \in [ConsoleRequests -> ConsoleLocal]
  BY DEF ConsoleTypeOK
<1>2. CASE next.pc = "done" /\ next.effects = {}
  <2>1. PICK y : y = [next EXCEPT !.in = Nothing, !.met = {}]
    OBVIOUS
  <2>2. y \in ConsoleLocal /\ y.pc = next.pc /\ y.in = Nothing /\ y.reply = next.reply /\ y.effects = next.effects
    BY <2>1 DEF ConsoleLocal
  <2>3. consoleReq' = [consoleReq EXCEPT ![r] = y]
    BY <1>2, <2>1 DEF Set
  <2> QED
    BY <1>1, <1>2, <2>2, <2>3 DEF Moved
<1>3. CASE ~(next.pc = "done" /\ next.effects = {})
  <2>1. consoleReq' = [consoleReq EXCEPT ![r] = next]
    BY <1>3 DEF Set
  <2> QED
    BY <1>1, <1>3, <2>1 DEF Moved
<1> QED
  BY <1>2, <1>3

\* The pieces of the handler, by their fields.
LEMMA Pieces ==
    ASSUME ConsoleTypeOK, NEW r \in ConsoleRequests
    PROVE  /\ \A code \in Replies : \A y : y = Refuse(r, code) =>
                 /\ y \in ConsoleLocal /\ y.pc = "done" /\ y.in = consoleReq[r].in /\ y.reply = code
                 /\ y.effects = consoleReq[r].effects /\ y.met = consoleReq[r].met
           /\ Fail(r) = Refuse(r, "401") /\ Done(r) = Refuse(r, "ok") /\ Go(r, "done") = Done(r)
           /\ \A pc \in Position : pc # "done" => \A y : y = Go(r, pc) =>
                 /\ y \in ConsoleLocal /\ y.pc = pc /\ y.in = consoleReq[r].in /\ y.reply = consoleReq[r].reply
                 /\ y.effects = consoleReq[r].effects /\ y.met = consoleReq[r].met
PROOF
<1>1. "done" \in Position
  BY DEF Position
<1>2. consoleReq[r] \in ConsoleLocal
  BY Fields
<1>3. ASSUME NEW code \in Replies, NEW y, y = Refuse(r, code)
      PROVE  /\ y \in ConsoleLocal /\ y.pc = "done" /\ y.in = consoleReq[r].in /\ y.reply = code
             /\ y.effects = consoleReq[r].effects /\ y.met = consoleReq[r].met
  BY <1>1, <1>2, <1>3 DEF Refuse, ConsoleLocal
<1>4. ASSUME NEW pc \in Position, pc # "done", NEW y, y = Go(r, pc)
      PROVE  /\ y \in ConsoleLocal /\ y.pc = pc /\ y.in = consoleReq[r].in /\ y.reply = consoleReq[r].reply
             /\ y.effects = consoleReq[r].effects /\ y.met = consoleReq[r].met
  BY <1>2, <1>4 DEF Go, ConsoleLocal
<1>5. Fail(r) = Refuse(r, "401") /\ Done(r) = Refuse(r, "ok") /\ Go(r, "done") = Done(r)
  BY DEF Fail, Done, Refuse, Go
<1> QED
  BY <1>3, <1>4, <1>5

\* A step that refuses, fails, is done or goes on, as a move.
LEMMA Moves ==
    ASSUME ConsoleTypeOK, NEW r \in ConsoleRequests
    PROVE  /\ \A code \in Replies : Set(r, Refuse(r, code)) => Moved(r, "done", consoleReq[r].in, code, consoleReq[r].effects)
           /\ Set(r, Fail(r)) => Moved(r, "done", consoleReq[r].in, "401", consoleReq[r].effects)
           /\ Set(r, Done(r)) => Moved(r, "done", consoleReq[r].in, "ok", consoleReq[r].effects)
           /\ \A pc \in Position : pc # "done" /\ Set(r, Go(r, pc)) => Moved(r, pc, consoleReq[r].in, consoleReq[r].reply, consoleReq[r].effects)
PROOF
<1>1. ASSUME NEW code \in Replies, Set(r, Refuse(r, code))
      PROVE  Moved(r, "done", consoleReq[r].in, code, consoleReq[r].effects)
  <2>1. PICK y : y = Refuse(r, code)
    OBVIOUS
  <2>2. /\ y \in ConsoleLocal /\ y.pc = "done" /\ y.in = consoleReq[r].in /\ y.reply = code
        /\ y.effects = consoleReq[r].effects /\ y.met = consoleReq[r].met
    BY <2>1, Pieces
  <2> QED
    BY <1>1, <2>1, <2>2, SetMoves
<1>2. ASSUME NEW pc \in Position, pc # "done", Set(r, Go(r, pc))
      PROVE  Moved(r, pc, consoleReq[r].in, consoleReq[r].reply, consoleReq[r].effects)
  <2>1. PICK y : y = Go(r, pc)
    OBVIOUS
  <2>2. /\ y \in ConsoleLocal /\ y.pc = pc /\ y.in = consoleReq[r].in /\ y.reply = consoleReq[r].reply
        /\ y.effects = consoleReq[r].effects /\ y.met = consoleReq[r].met
    BY <1>2, <2>1, Pieces
  <2> QED
    BY <1>2, <2>1, <2>2, SetMoves
<1>3. "401" \in Replies /\ "ok" \in Replies
  BY DEF Replies
<1> QED
  BY <1>1, <1>2, <1>3, Pieces

\* A change of a store adds it to the effects.
LEMMA Changes ==
    ASSUME ConsoleTypeOK, NEW r \in ConsoleRequests, NEW store \in {"vault", "repository"}
    PROVE  /\ Set(r, Changing(Fail(r), store)) => Moved(r, "done", consoleReq[r].in, "401", consoleReq[r].effects \cup {store})
           /\ Set(r, Changing(Go(r, "done"), store)) => Moved(r, "done", consoleReq[r].in, "ok", consoleReq[r].effects \cup {store})
           /\ \A pc \in Position : pc # "done" /\ Set(r, Changing(Go(r, pc), store))
                  => Moved(r, pc, consoleReq[r].in, consoleReq[r].reply, consoleReq[r].effects \cup {store})
PROOF
<1>1. ASSUME NEW x \in ConsoleLocal, x.met = consoleReq[r].met, Set(r, Changing(x, store))
      PROVE  Moved(r, x.pc, x.in, x.reply, x.effects \cup {store})
  <2>1. PICK y : y = Changing(x, store)
    OBVIOUS
  <2>2. /\ y \in ConsoleLocal /\ y.pc = x.pc /\ y.in = x.in /\ y.reply = x.reply
        /\ y.effects = x.effects \cup {store} /\ y.met = x.met
    BY <2>1 DEF Changing, ConsoleLocal
  <2> QED
    BY <1>1, <2>1, <2>2, SetMoves
<1>2. ASSUME NEW code \in {"401", "ok"}, Set(r, Changing(Refuse(r, code), store))
      PROVE  Moved(r, "done", consoleReq[r].in, code, consoleReq[r].effects \cup {store})
  <2>1. PICK x : x = Refuse(r, code)
    OBVIOUS
  <2>2. code \in Replies
    BY DEF Replies
  <2>3. /\ x \in ConsoleLocal /\ x.pc = "done" /\ x.in = consoleReq[r].in /\ x.reply = code
        /\ x.effects = consoleReq[r].effects /\ x.met = consoleReq[r].met
    BY <2>1, <2>2, Pieces
  <2> QED
    BY <1>1, <1>2, <2>1, <2>3
<1>3. ASSUME NEW pc \in Position, pc # "done", Set(r, Changing(Go(r, pc), store))
      PROVE  Moved(r, pc, consoleReq[r].in, consoleReq[r].reply, consoleReq[r].effects \cup {store})
  <2>1. PICK x : x = Go(r, pc)
    OBVIOUS
  <2>2. /\ x \in ConsoleLocal /\ x.pc = pc /\ x.in = consoleReq[r].in /\ x.reply = consoleReq[r].reply
        /\ x.effects = consoleReq[r].effects /\ x.met = consoleReq[r].met
    BY <1>3, <2>1, Pieces
  <2> QED
    BY <1>1, <1>3, <2>1, <2>2
<1> QED
  BY <1>2, <1>3, Pieces

--------------------------------------------------------------------------------
(* What a step leaves alone. *)

\* A request stays where it is; it may be met.
Same(q) ==
    /\ consoleReq'[q].pc = consoleReq[q].pc /\ consoleReq'[q].in = consoleReq[q].in
    /\ consoleReq'[q].reply = consoleReq[q].reply /\ consoleReq'[q].effects = consoleReq[q].effects

\* Only request r goes on, and what is new in the stores is r's.
StepOf(r) ==
    /\ \A q \in ConsoleRequests : q # r => Same(q)
    /\ connections \subseteq connections' /\ connections' \subseteq connections \cup {r}
    /\ \A c \in ConsoleIds : consoleVault'[c] = consoleVault[c] \/ consoleVault'[c] = r
    /\ audit \subseteq audit' /\ \A a \in audit' : a \in audit \/ a.by = r

\* A step of r keeps what holds of the other requests.
LEMMA Others ==
    ASSUME IInv, NEW r \in ConsoleRequests, StepOf(r), NEW q \in ConsoleRequests, q # r
    PROVE  Coherent(q)' /\ Connected(q)' /\ Stored(q)' /\ Audited(q)'
PROOF
<1>1. Coherent(q) /\ Connected(q) /\ Stored(q) /\ Audited(q) /\ Same(q)
  BY DEF IInv, StepOf
<1>2. q \in ConsoleIds /\ r # None
  BY NamesAssumption DEF ConsoleIds
<1>3. Coherent(q)'
  BY <1>1 DEF Coherent, Same
<1>4. Connected(q)'
  BY <1>1 DEF Connected, Same, StepOf
<1>5. Stored(q)'
  BY <1>1, <1>2 DEF Stored, Same, StepOf
<1>6. Audited(q)'
  BY <1>1 DEF Audited, Same, StepOf
<1> QED
  BY <1>3, <1>4, <1>5, <1>6

\* A step that adds no grant, and changes no request that made one, keeps the
\* grants with their requests.
LEMMA GrantsKept ==
    ASSUME IInv, consoleGrants' \subseteq consoleGrants,
           \A q \in ConsoleRequests : consoleReq[q].effects # {} => consoleReq'[q].in = consoleReq[q].in /\ consoleReq'[q].effects # {}
    PROVE  GrantsOfRequests'
PROOF
<1>1. \A g \in consoleGrants : g.id \in ConsoleRequests
  BY DEF IInv, ConsoleTypeOK, ConsoleGrant
<1> QED
  BY <1>1 DEF IInv, GrantsOfRequests

\* A step that makes no request live keeps Met.
LEMMA MetKept ==
    ASSUME Met,
           \A q \in ConsoleRequests : Live(q)' => Live(q) /\ consoleReq'[q].in = consoleReq[q].in /\ consoleReq[q].met \subseteq consoleReq'[q].met
    PROVE  Met'
PROOF
  BY DEF Met

\* A request that stays where it is does not become live.
LEMMA StaysLive ==
    ASSUME NEW q, consoleReq'[q] = consoleReq[q], consoleGrants' \subseteq consoleGrants
    PROVE  Live(q)' => Live(q)
PROOF
  BY DEF Live

\* A request without effects has left nothing behind.
LEMMA NoTrace ==
    ASSUME IInv, NEW r \in ConsoleRequests, consoleReq[r].effects = {}
    PROVE  /\ r \notin connections
           /\ \A c \in ConsoleIds : consoleVault[c] # r
           /\ \A a \in audit : a.by # r
           /\ \A g \in consoleGrants : g.id # r
PROOF
<1>1. Connected(r) /\ Stored(r) /\ Audited(r) /\ GrantsOfRequests
  BY DEF IInv
<1> QED
  BY <1>1 DEF Connected, Stored, Audited, GrantsOfRequests

\* The types, after a move.
LEMMA MoveTyped ==
    ASSUME ConsoleTypeOK, NEW r \in ConsoleRequests, NEW pc, NEW in \in Inputs(r) \cup {Nothing}, NEW reply, NEW effects,
           Moved(r, pc, in, reply, effects)
    PROVE  /\ consoleReq' \in [ConsoleRequests -> ConsoleLocal]
           /\ \A q \in ConsoleRequests : consoleReq'[q].in \in Inputs(q) \cup {Nothing}
PROOF
  BY DEF Moved, ConsoleTypeOK

\* A move that leaves the stores alone is a step of its request.
LEMMA MoveIsStep ==
    ASSUME ConsoleTypeOK, NEW r \in ConsoleRequests, NEW pc, NEW in, NEW reply, NEW effects,
           Moved(r, pc, in, reply, effects), UNCHANGED stores
    PROVE  StepOf(r)
PROOF
  BY DEF Moved, StepOf, Same, stores

--------------------------------------------------------------------------------
(* The kinds of steps that change no store. *)

\* A request that has changed nothing is refused, fails, or has been answered.
LEMMA Answered ==
    ASSUME IInv, NEW r \in ConsoleRequests, consoleReq[r].effects = {}, NEW code \in {"ok", "400", "401", "403", "404"},
           Moved(r, "done", consoleReq[r].in, code, consoleReq[r].effects), UNCHANGED <<permitted, stores>>
    PROVE  IInv'
PROOF
<1> USE DEF IInv
<1>1. /\ consoleReq'[r].pc = "done" /\ consoleReq'[r].in = Nothing /\ consoleReq'[r].reply = code /\ consoleReq'[r].effects = {}
      /\ \A q \in ConsoleRequests : q # r => consoleReq'[q] = consoleReq[q]
  BY DEF Moved
<1>2. ConsoleTypeOK'
  BY MoveTyped, Fields DEF ConsoleTypeOK, stores
<1>3. /\ r \notin connections' /\ \A c \in ConsoleIds : consoleVault'[c] # r
      /\ \A a \in audit' : a.by # r
      /\ \A g \in consoleGrants' : g.id # r
  BY NoTrace DEF stores
<1>4. Coherent(r)'
  BY <1>1 DEF Coherent, Route, Nothing
<1>5. Connected(r)' /\ Stored(r)' /\ Audited(r)'
  BY <1>1, <1>3 DEF Connected, Stored, Audited, Nothing
<1>6. \A q \in ConsoleRequests : Coherent(q)' /\ Connected(q)' /\ Stored(q)' /\ Audited(q)'
  BY <1>4, <1>5, Others, MoveIsStep DEF stores
<1>7. GrantsOfRequests'
  BY <1>1, GrantsKept DEF stores
<1>8. Met'
  <2>1. ~Live(r)'
    BY <1>1, <1>3 DEF Live
  <2>2. \A q \in ConsoleRequests : q # r => consoleReq'[q] = consoleReq[q] /\ (Live(q)' => Live(q))
    BY <1>1, StaysLive DEF stores
  <2> QED
    BY <2>1, <2>2, MetKept
<1> QED
  BY <1>2, <1>6, <1>7, <1>8

\* A request that has changed nothing goes on, to where it has changed nothing yet.
LEMMA GoesOn ==
    ASSUME IInv, NEW r \in ConsoleRequests, consoleReq[r].effects = {},
           NEW pc \in {"auth", "find", "body", "write", "list", "insert", "delete", "read"}, NEW in \in Inputs(r),
           in.op \in Route[pc], pc = "insert" => in.op # "grant" /\ ~in.cred,
           in.op = "credential" /\ pc \notin {"auth", "find"} => in.conn \in connections,
           Moved(r, pc, in, "none", consoleReq[r].effects), UNCHANGED <<permitted, stores>>
    PROVE  IInv'
PROOF
<1> USE DEF IInv
<1>1. /\ consoleReq'[r].pc = pc /\ consoleReq'[r].in = in /\ consoleReq'[r].reply = "none" /\ consoleReq'[r].effects = {}
      /\ \A q \in ConsoleRequests : q # r => consoleReq'[q] = consoleReq[q]
  BY DEF Moved
<1>2. ConsoleTypeOK'
  BY MoveTyped, Fields DEF ConsoleTypeOK, stores
<1>3. /\ r \notin connections' /\ \A c \in ConsoleIds : consoleVault'[c] # r
      /\ \A a \in audit' : a.by # r
      /\ \A g \in consoleGrants' : g.id # r
  BY NoTrace DEF stores
<1>4. Coherent(r)'
  BY <1>1 DEF Coherent
<1>5. Connected(r)' /\ Stored(r)' /\ Audited(r)'
  BY <1>1, <1>3 DEF Connected, Stored, Audited, stores
<1>6. \A q \in ConsoleRequests : Coherent(q)' /\ Connected(q)' /\ Stored(q)' /\ Audited(q)'
  BY <1>4, <1>5, Others, MoveIsStep DEF stores
<1>7. GrantsOfRequests'
  BY <1>1, GrantsKept DEF stores
<1>8. Met'
  <2>1. ~Live(r)'
    BY <1>1, <1>3 DEF Live
  <2>2. \A q \in ConsoleRequests : q # r => consoleReq'[q] = consoleReq[q] /\ (Live(q)' => Live(q))
    BY <1>1, StaysLive DEF stores
  <2> QED
    BY <2>1, <2>2, MetKept
<1> QED
  BY <1>2, <1>6, <1>7, <1>8

\* A request fails, whatever it has changed.
LEMMA Fails ==
    ASSUME IInv, NEW r \in ConsoleRequests, consoleReq[r].pc \notin {"idle", "done"},
           Moved(r, "done", consoleReq[r].in, "401", consoleReq[r].effects), UNCHANGED <<permitted, stores>>
    PROVE  IInv'
PROOF
<1> USE DEF IInv
<1>1. CASE consoleReq[r].effects = {}
  BY <1>1, Answered
<1>2. CASE consoleReq[r].effects # {}
  <2>1. /\ consoleReq'[r].pc = "done" /\ consoleReq'[r].in = consoleReq[r].in /\ consoleReq'[r].reply = "401" /\ consoleReq'[r].effects = consoleReq[r].effects
        /\ consoleReq'[r].met = consoleReq[r].met
        /\ \A q \in ConsoleRequests : q # r => consoleReq'[q] = consoleReq[q]
    BY <1>2 DEF Moved
  <2>2. ConsoleTypeOK'
    BY MoveTyped, Fields DEF ConsoleTypeOK, stores
  <2>3. consoleReq[r].pc \in {"insert", "audit"} /\ consoleReq[r].in.op \in Route[consoleReq[r].pc]
    BY <1>2, Fields DEF Coherent, Position
  <2>4. Coherent(r)'
    BY <1>2, <2>1, <2>3 DEF Coherent, Route
  <2>5. Connected(r)'
    BY <1>2, <2>1, <2>3 DEF Connected, stores
  <2>6. Stored(r)'
    BY <1>2, <2>1, <2>3 DEF Stored, stores
  <2>7. Audited(r)'
    BY <1>2, <2>1 DEF Audited, stores
  <2>8. \A q \in ConsoleRequests : Coherent(q)' /\ Connected(q)' /\ Stored(q)' /\ Audited(q)'
    BY <2>4, <2>5, <2>6, <2>7, Others, MoveIsStep DEF stores
  <2>9. GrantsOfRequests'
    BY <2>1, GrantsKept DEF stores
  <2>10. Met'
    <3>1. \A q \in ConsoleRequests : Live(q)' => Live(q)
      BY <2>1 DEF Live, stores
    <3> QED
      BY <2>1, <3>1, MetKept
  <2> QED
    BY <2>2, <2>8, <2>9, <2>10
<1> QED
  BY <1>1, <1>2

--------------------------------------------------------------------------------
(* One lemma per action. *)

\* What is known of a request that is under way.
LEMMA UnderWay ==
    ASSUME IInv, NEW r \in ConsoleRequests, consoleReq[r].pc \notin {"idle", "done"}
    PROVE  /\ consoleReq[r].in \in Inputs(r) /\ consoleReq[r].in.op \in Route[consoleReq[r].pc] /\ consoleReq[r].reply = "none"
           /\ consoleReq[r].pc \notin {"insert", "audit"} => consoleReq[r].effects = {}
PROOF
<1>1. Coherent(r) /\ consoleReq[r].in \in Inputs(r) \cup {Nothing} /\ consoleReq[r].pc \in Position
  BY Fields DEF IInv
<1>2. consoleReq[r].in.op # "idle"
  BY <1>1 DEF Coherent, Route, Position
<1>3. Nothing.op = "idle"
  BY DEF Nothing
<1> QED
  BY <1>1, <1>2, <1>3 DEF Coherent

LEMMA ReceiveStep ==
    ASSUME IInv, NEW r \in ConsoleRequests, Receive(r)
    PROVE  IInv'
PROOF
<1>1. PICK in \in Inputs(r) : Set(r, [consoleReq[r] EXCEPT !.pc = "auth", !.in = in])
  BY DEF Receive
<1>2. ConsoleTypeOK /\ Coherent(r) /\ consoleReq[r].pc = "idle"
  BY DEF IInv, Receive
<1>3. consoleReq[r].effects = {} /\ consoleReq[r].reply = "none"
  BY <1>2 DEF Coherent
<1>4. Moved(r, "auth", in, "none", consoleReq[r].effects)
  <2>1. PICK y : y = [consoleReq[r] EXCEPT !.pc = "auth", !.in = in]
    OBVIOUS
  <2>2. consoleReq[r] \in ConsoleLocal /\ "auth" \in Position
    BY <1>2, Fields DEF Position
  <2>3. /\ y \in ConsoleLocal /\ y.pc = "auth" /\ y.in = in /\ y.reply = "none"
        /\ y.effects = consoleReq[r].effects /\ y.met = consoleReq[r].met
    BY <1>3, <2>1, <2>2 DEF ConsoleLocal
  <2> QED
    BY <1>1, <1>2, <2>1, <2>3, SetMoves
<1>5. in.op \in Route["auth"]
  <2>1. \A x \in Inputs(r) : x.op # "idle"
    BY DEF Inputs, Input
  <2> QED
    BY <2>1, InputFacts DEF Route
<1> QED
  BY <1>3, <1>4, <1>5, GoesOn DEF Receive

LEMMA AuthenticateStep ==
    ASSUME IInv, NEW r \in ConsoleRequests, Authenticate(r)
    PROVE  IInv'
PROOF
<1>1. consoleReq[r].pc = "auth" /\ ConsoleTypeOK /\ UNCHANGED <<permitted, stores>>
  BY DEF Authenticate, IInv
<1>2. consoleReq[r].in \in Inputs(r) /\ consoleReq[r].in.op \in Route["auth"] /\ consoleReq[r].effects = {} /\ consoleReq[r].reply = "none"
  BY <1>1, UnderWay
<1>3. ASSUME NEW code \in {"400", "403", "404"}, Set(r, Refuse(r, code))
      PROVE  IInv'
  BY <1>1, <1>2, <1>3, Moves, Answered DEF Replies
<1>4. CASE Set(r, Fail(r))
  BY <1>1, <1>4, Moves, Fails
<1>5. CASE Set(r, Go(r, AfterAuth(consoleReq[r].in)))
  <2>1. /\ AfterAuth(consoleReq[r].in) \in {"read", "body", "find"}
        /\ consoleReq[r].in.op \in Route[AfterAuth(consoleReq[r].in)]
        /\ consoleReq[r].in.op = "credential" => AfterAuth(consoleReq[r].in) = "find"
    BY <1>2 DEF AfterAuth, Route
  <2>2. AfterAuth(consoleReq[r].in) \in Position
    BY <2>1 DEF Position
  <2>3. Moved(r, AfterAuth(consoleReq[r].in), consoleReq[r].in, "none", consoleReq[r].effects)
    BY <1>1, <1>2, <1>5, <2>1, <2>2, Moves
  <2> QED
    BY <1>1, <1>2, <2>1, <2>3, GoesOn
<1> QED
  BY <1>3, <1>4, <1>5 DEF Authenticate

LEMMA FindStep ==
    ASSUME IInv, NEW r \in ConsoleRequests, Find(r)
    PROVE  IInv'
PROOF
<1>1. consoleReq[r].pc = "find" /\ ConsoleTypeOK /\ UNCHANGED <<permitted, stores>>
  BY DEF Find, IInv
<1>2. consoleReq[r].in \in Inputs(r) /\ consoleReq[r].in.op \in Route["find"] /\ consoleReq[r].effects = {} /\ consoleReq[r].reply = "none"
  BY <1>1, UnderWay
<1>3. CASE Set(r, Refuse(r, "404"))
  BY <1>1, <1>2, <1>3, Moves, Answered DEF Replies
<1>4. CASE Set(r, Fail(r))
  BY <1>1, <1>4, Moves, Fails
<1>5. CASE consoleReq[r].in.conn \in connections /\ Set(r, Go(r, AfterFind(consoleReq[r].in)))
  <2>1. /\ AfterFind(consoleReq[r].in) \in {"read", "delete", "body"}
        /\ consoleReq[r].in.op \in Route[AfterFind(consoleReq[r].in)]
    BY <1>2 DEF AfterFind, Route
  <2>2. AfterFind(consoleReq[r].in) \in Position
    BY <2>1 DEF Position
  <2>3. Moved(r, AfterFind(consoleReq[r].in), consoleReq[r].in, "none", consoleReq[r].effects)
    BY <1>1, <1>2, <1>5, <2>1, <2>2, Moves
  <2> QED
    BY <1>1, <1>2, <1>5, <2>1, <2>3, GoesOn
<1> QED
  BY <1>3, <1>4, <1>5 DEF Find

LEMMA ReadBodyStep ==
    ASSUME IInv, NEW r \in ConsoleRequests, ReadBody(r)
    PROVE  IInv'
PROOF
<1>1. consoleReq[r].pc = "body" /\ ConsoleTypeOK /\ UNCHANGED <<permitted, stores>>
  BY DEF ReadBody, IInv
<1>2. consoleReq[r].in \in Inputs(r) /\ consoleReq[r].in.op \in Route["body"] /\ consoleReq[r].effects = {} /\ consoleReq[r].reply = "none"
  BY <1>1, UnderWay
<1>3. CASE Set(r, Refuse(r, "400"))
  BY <1>1, <1>2, <1>3, Moves, Answered DEF Replies
<1>4. CASE Set(r, Fail(r))
  BY <1>1, <1>4, Moves, Fails
<1>5. CASE Set(r, Go(r, AfterBody(consoleReq[r].in)))
  <2>1. /\ AfterBody(consoleReq[r].in) \in {"list", "write", "insert"}
        /\ consoleReq[r].in.op \in Route[AfterBody(consoleReq[r].in)]
        /\ AfterBody(consoleReq[r].in) = "insert" => consoleReq[r].in.op # "grant" /\ ~consoleReq[r].in.cred
    BY <1>2, InputFacts DEF AfterBody, Route
  <2>2. consoleReq[r].in.op = "credential" => consoleReq[r].in.conn \in connections
    BY <1>1 DEF IInv, Connected
  <2>3. AfterBody(consoleReq[r].in) \in Position
    BY <2>1 DEF Position
  <2>4. Moved(r, AfterBody(consoleReq[r].in), consoleReq[r].in, "none", consoleReq[r].effects)
    BY <1>1, <1>2, <1>5, <2>1, <2>3, Moves
  <2> QED
    BY <1>1, <1>2, <2>1, <2>2, <2>4, GoesOn
<1> QED
  BY <1>3, <1>4, <1>5 DEF ReadBody

LEMMA ObserveStep ==
    ASSUME IInv, NEW r \in ConsoleRequests, Observe(r)
    PROVE  IInv'
PROOF
<1>1. consoleReq[r].pc = "read" /\ ConsoleTypeOK /\ UNCHANGED <<permitted, stores>>
  BY DEF Observe, IInv
<1>2. consoleReq[r].effects = {}
  BY <1>1, UnderWay
<1>3. CASE Set(r, Done(r))
  BY <1>1, <1>2, <1>3, Moves, Answered
<1>4. CASE Set(r, Fail(r))
  BY <1>1, <1>4, Moves, Fails
<1> QED
  BY <1>3, <1>4 DEF Observe

\* The credential is in the sink, whatever the answer.
LEMMA WriteStep ==
    ASSUME IInv, NEW r \in ConsoleRequests, WriteCredential(r)
    PROVE  IInv'
PROOF
<1> DEFINE c == consoleReq[r].in.conn
<1>1. consoleReq[r].pc = "write" /\ ConsoleTypeOK /\ UNCHANGED <<permitted, connections, integrations, consoleGrants, audit>>
  BY DEF WriteCredential, IInv
<1>2. consoleReq[r].in \in Inputs(r) /\ consoleReq[r].in.op \in {"create", "credential"} /\ consoleReq[r].effects = {} /\ consoleReq[r].reply = "none"
  BY <1>1, UnderWay DEF Route
<1>3. c \in ConsoleIds /\ (consoleReq[r].in.op = "create" => c = r)
  BY <1>2, InputFacts DEF ConsoleIds
<1>4. ASSUME NEW pc \in {"insert", "audit", "done"}, NEW reply \in {"none", "401"}, pc = "done" <=> reply = "401",
             pc # "done" => pc = AfterWrite(consoleReq[r].in),
             consoleVault' = [consoleVault EXCEPT ![c] = r], Moved(r, pc, consoleReq[r].in, reply, consoleReq[r].effects \cup {"vault"})
      PROVE  IInv'
  <2>1. /\ consoleReq'[r].pc = pc /\ consoleReq'[r].in = consoleReq[r].in /\ consoleReq'[r].reply = reply /\ consoleReq'[r].effects = {"vault"}
        /\ \A q \in ConsoleRequests : q # r => consoleReq'[q] = consoleReq[q]
    BY <1>2, <1>4 DEF Moved
  <2>2. consoleVault \in [ConsoleIds -> ConsoleRequests \cup {None}]
    BY <1>1 DEF ConsoleTypeOK
  <2>3. ConsoleTypeOK'
    BY <1>1, <1>2, <1>3, <1>4, <2>2, MoveTyped DEF ConsoleTypeOK
  <2>4. StepOf(r)
    BY <1>1, <1>3, <1>4, <2>1, <2>2 DEF StepOf, Same
  <2>5. Coherent(r)'
    BY <1>2, <1>4, <2>1 DEF Coherent, Route, AfterWrite
  <2>6. Connected(r)'
    <3>1. Connected(r) /\ r \notin connections
      BY <1>2, NoTrace DEF IInv
    <3> QED
      BY <1>1, <1>2, <1>4, <2>1, <3>1 DEF Connected, AfterWrite
  <2>7. Stored(r)'
    <3>1. \A d \in ConsoleIds : consoleVault[d] # r
      BY <1>2, NoTrace
    <3>2. r # None
      BY NamesAssumption
    <3> QED
      BY <1>2, <1>3, <1>4, <2>1, <2>2, <3>1, <3>2 DEF Stored
  <2>8. Audited(r)'
    <3>1. \A a \in audit : a.by # r
      BY <1>2, NoTrace
    <3> QED
      BY <1>1, <2>1, <3>1 DEF Audited
  <2>9. GrantsOfRequests'
    BY <1>1, <1>2, <2>1, GrantsKept
  <2>10. Met'
    <3>1. \A g \in consoleGrants : g.id # r
      BY <1>2, NoTrace
    <3>2. ~Live(r)'
      BY <1>1, <1>2, <2>1, <3>1 DEF Live
    <3> QED
      BY <1>1, <2>1, <3>2, StaysLive, MetKept DEF IInv
  <2> QED
    BY <2>3, <2>4, <2>5, <2>6, <2>7, <2>8, <2>9, <2>10, Others DEF IInv
<1>5. CASE consoleVault' = [consoleVault EXCEPT ![c] = r] /\ Set(r, Changing(Go(r, AfterWrite(consoleReq[r].in)), "vault"))
  <2>1. AfterWrite(consoleReq[r].in) \in {"insert", "audit"} /\ AfterWrite(consoleReq[r].in) \in Position
    BY DEF AfterWrite, Position
  <2> QED
    BY <1>1, <1>2, <1>4, <1>5, <2>1, Changes
<1>6. CASE consoleVault' = [consoleVault EXCEPT ![c] = r] /\ Set(r, Changing(Fail(r), "vault"))
  BY <1>1, <1>4, <1>6, Changes
<1>7. CASE UNCHANGED consoleVault /\ (Set(r, Fail(r)) \/ Set(r, Refuse(r, "400")))
  BY <1>1, <1>2, <1>7, Moves, Fails, Answered DEF stores, Replies
<1> QED
  BY <1>5, <1>6, <1>7 DEF WriteCredential

\* The list and the insert of a grant meet the others between the two.
LEMMA ListStep ==
    ASSUME IInv, NEW r \in ConsoleRequests, List(r)
    PROVE  IInv'
PROOF
<1> DEFINE under == {q \in ConsoleRequests \ {r} : consoleReq[q].pc = "insert" /\ consoleReq[q].in.op = "grant"}
<1>1. consoleReq[r].pc = "list" /\ ConsoleTypeOK /\ UNCHANGED <<permitted, stores>>
  BY DEF List, IInv
<1>2. consoleReq[r].in \in Inputs(r) /\ consoleReq[r].in.op = "grant" /\ consoleReq[r].effects = {} /\ consoleReq[r].reply = "none"
  BY <1>1, UnderWay DEF Route
<1>3. CASE Set(r, Refuse(r, "400"))
  BY <1>1, <1>2, <1>3, Moves, Answered DEF Replies
<1>4. CASE Set(r, Fail(r))
  BY <1>1, <1>4, Moves, Fails
<1>5. CASE /\ ~Duplicate(r)
           /\ consoleReq' = [q \in ConsoleRequests |->
                IF q = r THEN [Go(r, "insert") EXCEPT !.met = under]
                ELSE IF q \in under THEN [consoleReq[q] EXCEPT !.met = @ \cup {r}] ELSE consoleReq[q]]
  <2>1. consoleReq'[r] \in ConsoleLocal /\ consoleReq'[r].pc = "insert" /\ consoleReq'[r].in = consoleReq[r].in /\ consoleReq'[r].reply = "none"
        /\ consoleReq'[r].effects = {} /\ consoleReq'[r].met = under
    <3>1. PICK x : x = Go(r, "insert")
      OBVIOUS
    <3>2. "insert" \in Position
      BY DEF Position
    <3>3. x \in ConsoleLocal /\ x.pc = "insert" /\ x.in = consoleReq[r].in /\ x.reply = "none" /\ x.effects = {}
      BY <1>1, <1>2, <3>1, <3>2, Pieces
    <3>4. PICK y : y = [x EXCEPT !.met = under]
      OBVIOUS
    <3>5. y \in ConsoleLocal /\ y.pc = "insert" /\ y.in = consoleReq[r].in /\ y.reply = "none" /\ y.effects = {} /\ y.met = under
      BY <3>3, <3>4 DEF ConsoleLocal
    <3>6. consoleReq'[r] = y
      BY <1>5, <3>1, <3>4
    <3> QED
      BY <3>5, <3>6
  <2>2. ASSUME NEW q \in ConsoleRequests, q # r
        PROVE  /\ consoleReq'[q] \in ConsoleLocal /\ Same(q) /\ consoleReq[q].met \subseteq consoleReq'[q].met
               /\ q \in under => r \in consoleReq'[q].met
    <3>1. CASE q \in under
      <4>1. PICK x : x = consoleReq[q]
        OBVIOUS
      <4>2. PICK y : y = [x EXCEPT !.met = @ \cup {r}]
        OBVIOUS
      <4>3. x \in ConsoleLocal
        BY <1>1, <4>1, Fields
      <4>4. y \in ConsoleLocal /\ y.pc = x.pc /\ y.in = x.in /\ y.reply = x.reply /\ y.effects = x.effects /\ y.met = x.met \cup {r}
        BY <4>2, <4>3 DEF ConsoleLocal
      <4>5. consoleReq'[q] = y
        BY <1>5, <2>2, <3>1, <4>1, <4>2
      <4> QED
        BY <4>1, <4>4, <4>5 DEF Same
    <3>2. CASE q \notin under
      <4>1. consoleReq'[q] = consoleReq[q]
        BY <1>5, <2>2, <3>2
      <4> QED
        BY <1>1, <3>2, <4>1, Fields DEF Same
    <3> QED
      BY <3>1, <3>2
  <2>3. ConsoleTypeOK'
    <3>1. consoleReq' \in [ConsoleRequests -> ConsoleLocal]
      BY <1>5, <2>1, <2>2
    <3>2. \A q \in ConsoleRequests : consoleReq'[q].in \in Inputs(q) \cup {Nothing}
      BY <1>1, <2>1, <2>2 DEF ConsoleTypeOK, Same
    <3> QED
      BY <1>1, <3>1, <3>2 DEF ConsoleTypeOK, stores
  <2>4. StepOf(r)
    BY <1>1, <2>2 DEF StepOf, stores
  <2>5. Coherent(r)'
    BY <1>2, <2>1 DEF Coherent, Route
  <2>6. /\ r \notin connections' /\ \A c \in ConsoleIds : consoleVault'[c] # r
        /\ \A a \in audit' : a.by # r
    BY <1>1, <1>2, NoTrace DEF stores
  <2>7. Connected(r)' /\ Stored(r)' /\ Audited(r)'
    BY <1>2, <2>1, <2>6 DEF Connected, Stored, Audited
  <2>8. GrantsOfRequests'
    BY <1>1, <1>2, <2>1, <2>2, GrantsKept DEF stores, Same
  <2>9. Met'
    <3>1. ASSUME NEW q \in ConsoleRequests, q # r, Live(q)', consoleReq'[q].in.conn = consoleReq[r].in.conn, consoleReq'[q].in.subject = consoleReq[r].in.subject
          PROVE  q \in under
      <4>1. \A g \in consoleGrants : g.id # q
        BY <1>5, <2>2, <3>1 DEF IInv, GrantsOfRequests, Duplicate, Same
      <4> QED
        BY <1>1, <2>2, <3>1, <4>1 DEF Live, Same, stores
    <3>2. ASSUME NEW p \in ConsoleRequests, NEW q \in ConsoleRequests, p # q, p # r, q # r, Live(p)', Live(q)',
                 consoleReq'[p].in.conn = consoleReq'[q].in.conn, consoleReq'[p].in.subject = consoleReq'[q].in.subject
          PROVE  q \in consoleReq'[p].met
      <4>1. Live(p) /\ Live(q)
        BY <1>1, <2>2, <3>2 DEF Live, Same, stores
      <4> QED
        BY <2>2, <3>2, <4>1 DEF IInv, Met, Same
    <3> QED
      BY <2>1, <2>2, <3>1, <3>2 DEF Met
  <2> QED
    BY <2>3, <2>4, <2>5, <2>7, <2>8, <2>9, Others DEF IInv
<1> QED
  BY <1>3, <1>4, <1>5 DEF List

LEMMA InsertStep ==
    ASSUME IInv, NEW r \in ConsoleRequests, Insert(r)
    PROVE  IInv'
PROOF
<1>1. consoleReq[r].pc = "insert" /\ ConsoleTypeOK /\ UNCHANGED <<permitted, consoleVault, audit>>
  BY DEF Insert, IInv
<1>2. consoleReq[r].in \in Inputs(r) /\ consoleReq[r].in.op \in {"create", "grant", "integrate"} /\ consoleReq[r].reply = "none"
  BY <1>1, UnderWay DEF Route
<1>3. /\ consoleReq[r].in.op = "grant" => consoleReq[r].in.conn \in ConsoleIds /\ consoleReq[r].in.subject \in ConsoleSubjects
      /\ r \in ConsoleIds
  BY <1>2, InputFacts DEF ConsoleIds
<1>4. ASSUME NEW pc \in {"audit", "done"}, NEW reply \in {"none", "ok", "401"}, pc = "done" <=> reply # "none",
             reply = "ok" => consoleReq[r].in.op = "integrate", consoleReq[r].in.op = "integrate" => pc = "done",
             Inserted(r), Moved(r, pc, consoleReq[r].in, reply, consoleReq[r].effects \cup {"repository"})
      PROVE  IInv'
  <2>1. /\ consoleReq'[r].pc = pc /\ consoleReq'[r].in = consoleReq[r].in /\ consoleReq'[r].reply = reply
        /\ consoleReq'[r].effects = consoleReq[r].effects \cup {"repository"} /\ consoleReq'[r].met = consoleReq[r].met
        /\ \A q \in ConsoleRequests : q # r => consoleReq'[q] = consoleReq[q]
    BY <1>4 DEF Moved
  <2>2. /\ connections' = IF consoleReq[r].in.op = "create" THEN connections \cup {r} ELSE connections
        /\ integrations' = IF consoleReq[r].in.op = "integrate" THEN integrations \cup {r} ELSE integrations
        /\ consoleGrants' = IF consoleReq[r].in.op = "grant"
                     THEN consoleGrants \cup {[id |-> r, conn |-> consoleReq[r].in.conn, subject |-> consoleReq[r].in.subject]} ELSE consoleGrants
    BY <1>2, <1>4 DEF Inserted
  <2>3. ConsoleTypeOK'
    <3>1. connections' \subseteq ConsoleIds /\ integrations' \subseteq ConsoleRequests
      BY <1>1, <1>3, <2>2 DEF ConsoleTypeOK
    <3>2. consoleGrants' \subseteq ConsoleGrant
      BY <1>1, <1>3, <2>2 DEF ConsoleTypeOK, ConsoleGrant
    <3> QED
      BY <1>1, <1>2, <1>4, <3>1, <3>2, MoveTyped DEF ConsoleTypeOK
  <2>4. StepOf(r)
    BY <1>1, <2>1, <2>2 DEF StepOf, Same
  <2>5. Coherent(r)'
    BY <1>2, <1>4, <2>1 DEF Coherent, Route
  <2>6. Connected(r)'
    <3>1. Connected(r)
      BY DEF IInv
    <3> QED
      BY <1>2, <1>4, <2>1, <2>2, <3>1 DEF Connected
  <2>7. Stored(r)'
    <3>1. Stored(r)
      BY DEF IInv
    <3> QED
      BY <1>1, <1>4, <2>1, <2>2, <3>1 DEF Stored
  <2>8. Audited(r)'
    BY <1>1, <1>4, <2>1 DEF Audited
  <2>9. GrantsOfRequests'
    <3>1. \A g \in consoleGrants : g.id \in ConsoleRequests
      BY <1>1 DEF ConsoleTypeOK, ConsoleGrant
    <3>2. ASSUME NEW g \in consoleGrants
          PROVE  /\ consoleReq'[g.id].in.op = "grant" /\ consoleReq'[g.id].in.conn = g.conn /\ consoleReq'[g.id].in.subject = g.subject
                 /\ consoleReq'[g.id].effects # {}
      BY <2>1, <3>1 DEF IInv, GrantsOfRequests
    <3> QED
      BY <2>1, <2>2, <3>2 DEF GrantsOfRequests
  <2>10. Met'
    <3>1. ASSUME NEW q \in ConsoleRequests, Live(q)'
          PROVE  Live(q) /\ consoleReq'[q].in = consoleReq[q].in /\ consoleReq[q].met \subseteq consoleReq'[q].met
      <4>1. CASE q = r
        <5>1. Live(r)
          <6>1. CASE consoleReq[r].in.op = "grant"
            BY <1>1, <6>1 DEF Live
          <6>2. CASE consoleReq[r].in.op # "grant"
            BY <1>4, <2>1, <2>2, <3>1, <4>1, <6>2 DEF Live
          <6> QED
            BY <6>1, <6>2
        <5> QED
          BY <2>1, <4>1, <5>1
      <4>2. CASE q # r
        BY <2>1, <2>2, <3>1, <4>2 DEF Live
      <4> QED
        BY <4>1, <4>2
    <3> QED
      BY <3>1, MetKept DEF IInv
  <2> QED
    BY <2>3, <2>4, <2>5, <2>6, <2>7, <2>8, <2>9, <2>10, Others DEF IInv
<1>5. CASE Inserted(r) /\ Set(r, Changing(Go(r, AfterInsert(consoleReq[r].in)), "repository"))
  <2>1. CASE consoleReq[r].in.op = "integrate"
    BY <1>1, <1>4, <1>5, <2>1, Changes DEF AfterInsert
  <2>2. CASE consoleReq[r].in.op # "integrate"
    <3>1. AfterInsert(consoleReq[r].in) = "audit" /\ "audit" \in Position
      BY <2>2 DEF AfterInsert, Position
    <3> QED
      BY <1>1, <1>2, <1>4, <1>5, <2>2, <3>1, Changes
  <2> QED
    BY <2>1, <2>2
<1>6. CASE Inserted(r) /\ Set(r, Changing(Fail(r), "repository"))
  BY <1>1, <1>4, <1>6, Changes
<1>7. CASE UNCHANGED <<connections, integrations, consoleGrants>> /\ Set(r, Fail(r))
  BY <1>1, <1>7, Moves, Fails DEF stores
<1> QED
  BY <1>5, <1>6, <1>7 DEF Insert

LEMMA DeleteStep ==
    ASSUME IInv, NEW r \in ConsoleRequests, Delete(r)
    PROVE  IInv'
PROOF
<1>1. consoleReq[r].pc = "delete" /\ ConsoleTypeOK /\ UNCHANGED <<permitted, connections, integrations, consoleVault, audit>>
  BY DEF Delete, IInv
<1>2. consoleReq[r].in \in Inputs(r) /\ consoleReq[r].in.op = "revoke" /\ consoleReq[r].effects = {} /\ consoleReq[r].reply = "none"
  BY <1>1, UnderWay DEF Route
<1>3. ASSUME NEW pc \in {"audit", "done"}, NEW reply \in {"none", "401"}, pc = "done" <=> reply = "401",
             consoleGrants' \subseteq consoleGrants, Moved(r, pc, consoleReq[r].in, reply, consoleReq[r].effects \cup {"repository"})
      PROVE  IInv'
  <2>1. /\ consoleReq'[r].pc = pc /\ consoleReq'[r].in = consoleReq[r].in /\ consoleReq'[r].reply = reply /\ consoleReq'[r].effects = {"repository"}
        /\ \A q \in ConsoleRequests : q # r => consoleReq'[q] = consoleReq[q]
    BY <1>2, <1>3 DEF Moved
  <2>2. ConsoleTypeOK'
    BY <1>1, <1>2, <1>3, MoveTyped DEF ConsoleTypeOK
  <2>3. StepOf(r)
    BY <1>1, <2>1 DEF StepOf, Same
  <2>4. /\ r \notin connections /\ \A c \in ConsoleIds : consoleVault[c] # r
        /\ \A a \in audit : a.by # r
    BY <1>2, NoTrace
  <2>5. Coherent(r)'
    BY <1>2, <1>3, <2>1 DEF Coherent, Route
  <2>6. Connected(r)' /\ Stored(r)' /\ Audited(r)'
    BY <1>1, <1>2, <1>3, <2>1, <2>4 DEF Connected, Stored, Audited
  <2>7. GrantsOfRequests'
    BY <1>2, <1>3, <2>1, GrantsKept
  <2>8. Met'
    <3>1. \A g \in consoleGrants : g.id # r
      BY <1>2, NoTrace
    <3>2. ~Live(r)'
      BY <1>2, <1>3, <2>1, <3>1 DEF Live
    <3> QED
      BY <1>3, <2>1, <3>2, StaysLive, MetKept DEF IInv
  <2> QED
    BY <2>2, <2>3, <2>5, <2>6, <2>7, <2>8, Others DEF IInv
<1>4. CASE consoleGrants' \subseteq consoleGrants /\ Set(r, Changing(Go(r, "audit"), "repository"))
  <2>1. "audit" \in Position
    BY DEF Position
  <2> QED
    BY <1>1, <1>2, <1>3, <1>4, <2>1, Changes
<1>5. CASE consoleGrants' \subseteq consoleGrants /\ Set(r, Changing(Fail(r), "repository"))
  BY <1>1, <1>3, <1>5, Changes
<1>6. CASE UNCHANGED consoleGrants /\ Set(r, Fail(r))
  BY <1>1, <1>6, Moves, Fails DEF stores
<1>7. CASE UNCHANGED consoleGrants /\ Set(r, Refuse(r, "404"))
  BY <1>1, <1>2, <1>7, Moves, Answered DEF stores, Replies
<1> QED
  BY <1>4, <1>5, <1>6, <1>7 DEF Delete

LEMMA AuditStep ==
    ASSUME IInv, NEW r \in ConsoleRequests, AuditChange(r)
    PROVE  IInv'
PROOF
<1> DEFINE record == [action |-> consoleReq[r].in.op, conn |-> consoleReq[r].in.conn, by |-> r]
<1>1. consoleReq[r].pc = "audit" /\ ConsoleTypeOK /\ UNCHANGED <<permitted, connections, integrations, consoleGrants, consoleVault>>
  BY DEF AuditChange, IInv
<1>2. consoleReq[r].in \in Inputs(r) /\ consoleReq[r].in.op \in {"create", "credential", "grant", "revoke"} /\ consoleReq[r].reply = "none"
  BY <1>1, UnderWay DEF Route
<1>3. consoleReq[r].effects # {} /\ consoleReq[r].in.conn \in ConsoleIds
  BY <1>1, <1>2, InputFacts DEF IInv, Coherent, ConsoleIds
<1>4. ASSUME NEW code \in {"ok", "401"}, audit' = audit \cup {record},
             Moved(r, "done", consoleReq[r].in, code, consoleReq[r].effects)
      PROVE  IInv'
  <2>1. /\ consoleReq'[r].pc = "done" /\ consoleReq'[r].in = consoleReq[r].in /\ consoleReq'[r].reply = code /\ consoleReq'[r].effects = consoleReq[r].effects
        /\ consoleReq'[r].met = consoleReq[r].met
        /\ \A q \in ConsoleRequests : q # r => consoleReq'[q] = consoleReq[q]
    BY <1>3, <1>4 DEF Moved
  <2>2. ConsoleTypeOK'
    <3>1. record \in [action : {"create", "credential", "grant", "revoke"}, conn : ConsoleIds, by : ConsoleRequests]
      BY <1>2, <1>3
    <3> QED
      BY <1>1, <1>2, <1>4, <3>1, MoveTyped DEF ConsoleTypeOK
  <2>3. StepOf(r)
    BY <1>1, <1>4, <2>1 DEF StepOf, Same
  <2>4. Coherent(r)'
    BY <1>2, <1>3, <2>1 DEF Coherent, Route
  <2>5. Connected(r)'
    <3>1. Connected(r)
      BY DEF IInv
    <3> QED
      BY <1>1, <2>1, <3>1 DEF Connected
  <2>6. Stored(r)'
    <3>1. Stored(r)
      BY DEF IInv
    <3> QED
      BY <1>1, <2>1, <3>1 DEF Stored
  <2>7. Audited(r)'
    BY <1>3, <1>4, <2>1 DEF Audited
  <2>8. GrantsOfRequests'
    BY <1>1, <2>1, GrantsKept
  <2>9. Met'
    <3>1. \A q \in ConsoleRequests : Live(q)' => Live(q)
      BY <1>1, <2>1 DEF Live
    <3> QED
      BY <2>1, <3>1, MetKept DEF IInv
  <2> QED
    BY <2>2, <2>3, <2>4, <2>5, <2>6, <2>7, <2>8, <2>9, Others DEF IInv
<1>5. CASE audit' = audit \cup {record} /\ (Set(r, Done(r)) \/ Set(r, Fail(r)))
  BY <1>1, <1>4, <1>5, Moves
<1>6. CASE UNCHANGED audit /\ Set(r, Fail(r))
  BY <1>1, <1>6, Moves, Fails DEF stores
<1> QED
  BY <1>5, <1>6 DEF AuditChange

--------------------------------------------------------------------------------
(* The invariant, and what follows from it. *)

LEMMA InitIInv == ConsoleInit => IInv
PROOF
<1> SUFFICES ASSUME ConsoleInit PROVE IInv
  OBVIOUS
<1>1. \A r \in ConsoleRequests : consoleReq[r] = [pc |-> "idle", in |-> Nothing, reply |-> "none", effects |-> {}, met |-> {}]
  BY DEF ConsoleInit
<1>2. [pc |-> "idle", in |-> Nothing, reply |-> "none", effects |-> {}, met |-> {}] \in ConsoleLocal
  BY DEF ConsoleLocal, Position, Replies
<1>3. ConsoleTypeOK
  <2>1. consoleReq \in [ConsoleRequests -> ConsoleLocal]
    BY <1>2 DEF ConsoleInit
  <2>2. ASSUME NEW r \in ConsoleRequests
        PROVE  consoleReq[r].in = Nothing
    <3>1. consoleReq[r] = [pc |-> "idle", in |-> Nothing, reply |-> "none", effects |-> {}, met |-> {}]
      BY <1>1
    <3> QED
      BY <3>1 DEF Nothing
  <2> QED
    BY <2>1, <2>2 DEF ConsoleTypeOK, ConsoleInit, ConsoleIds
<1>4. ASSUME NEW r \in ConsoleRequests
      PROVE  Coherent(r) /\ Connected(r) /\ Stored(r) /\ Audited(r)
  <2>1. /\ r \notin connections /\ audit = {} /\ \A c \in ConsoleIds : consoleVault[c] # r
    BY NamesAssumption DEF ConsoleInit
  <2> QED
    BY <1>1, <2>1 DEF Coherent, Connected, Stored, Audited, Route, Nothing
<1>5. GrantsOfRequests /\ Met
  <2>1. consoleGrants = {} /\ \A r \in ConsoleRequests : ~Live(r)
    BY <1>1 DEF ConsoleInit, Live
  <2> QED
    BY <2>1 DEF GrantsOfRequests, Met
<1> QED
  BY <1>3, <1>4, <1>5 DEF IInv

LEMMA StepIInv == IInv /\ [ConsoleNext]_vars => IInv'
PROOF
<1> SUFFICES ASSUME IInv, [ConsoleNext]_vars PROVE IInv'
  OBVIOUS
<1>1. ASSUME NEW r \in ConsoleRequests, ConsoleStep(r)
      PROVE  IInv'
  BY <1>1, ReceiveStep, AuthenticateStep, FindStep, ReadBodyStep, WriteStep, ListStep, InsertStep,
     DeleteStep, AuditStep, ObserveStep DEF ConsoleStep
<1>2. ASSUME permitted' \in BOOLEAN, UNCHANGED <<stores, consoleReq>>
      PROVE  IInv'
  <2>1. ConsoleTypeOK'
    BY <1>2 DEF IInv, ConsoleTypeOK, stores
  <2>2. \A r \in ConsoleRequests : Coherent(r)' /\ Connected(r)' /\ Stored(r)' /\ Audited(r)'
    BY <1>2 DEF IInv, Coherent, Connected, Stored, Audited, stores
  <2>3. GrantsOfRequests' /\ Met'
    BY <1>2 DEF IInv, GrantsOfRequests, Met, Live, stores
  <2> QED
    BY <2>1, <2>2, <2>3 DEF IInv
<1>3. CASE Permit
  BY <1>2, <1>3 DEF Permit
<1>4. CASE UNCHANGED vars
  BY <1>2, <1>4 DEF vars, stores, IInv, ConsoleTypeOK
<1> QED
  BY <1>1, <1>3, <1>4 DEF ConsoleNext

LEMMA Inductive == ConsoleSpec => []IInv
PROOF
<1> QED
  BY InitIInv, StepIInv, PTL DEF ConsoleSpec

\* Requests and stores keep their types (server.mjs: what a handler may hold,
\* and what it passes to the adapters).
THEOREM TypeCorrect == ConsoleSpec => []ConsoleTypeOK
PROOF
<1>1. IInv => ConsoleTypeOK
  BY DEF IInv
<1> QED
  BY <1>1, Inductive, PTL

\* A connection created with a credential has it before it can be listed, for
\* every number of requests and whatever fails (server.mjs:97-103).
THEOREM CredentialFirst == ConsoleSpec => []CredentialBeforeConnection
PROOF
<1>1. IInv => CredentialBeforeConnection
  <2> SUFFICES ASSUME IInv, NEW r \in ConsoleRequests
               PROVE  /\ r \in connections /\ consoleReq[r].in.cred => consoleVault[r] # None
                      /\ consoleVault[r] = r /\ r \notin connections => consoleReq[r].reply # "ok"
    BY DEF CredentialBeforeConnection
  <2>1. Connected(r) /\ Stored(r) /\ r \in ConsoleIds /\ Coherent(r)
    BY DEF IInv, ConsoleIds
  <2> QED
    BY <2>1 DEF Connected, Stored, Coherent
<1> QED
  BY <1>1, Inductive, PTL

\* Whatever adapter fails and when, a request answered 400, 403 or 404 changed
\* nothing, the audit names only what happened, and a change answered as done is in
\* it (server.mjs:71, :146).  A 401 says nothing of what was done.
THEOREM Told == ConsoleSpec => []ToldAsDone
PROOF
<1>1. IInv => ToldAsDone
  <2> SUFFICES ASSUME IInv PROVE ToldAsDone
    OBVIOUS
  <2>1. ASSUME NEW r \in ConsoleRequests, consoleReq[r].reply \in {"400", "403", "404"}
        PROVE  consoleReq[r].effects = {} /\ consoleVault[r] # r
    <3>1. Coherent(r) /\ Stored(r) /\ r \in ConsoleIds
      BY DEF IInv, ConsoleIds
    <3> QED
      BY <2>1, <3>1 DEF Coherent, Stored
  <2>2. ASSUME NEW a \in audit
        PROVE  consoleReq[a.by].effects # {}
    BY DEF IInv, ConsoleTypeOK, Audited
  <2>3. ASSUME NEW r \in ConsoleRequests, consoleReq[r].reply = "ok", consoleReq[r].effects # {}, consoleReq[r].in.op # "integrate"
        PROVE  [action |-> consoleReq[r].in.op, conn |-> consoleReq[r].in.conn, by |-> r] \in audit
    BY <2>3 DEF IInv, Audited
  <2> QED
    BY <2>1, <2>2, <2>3 DEF ToldAsDone
<1> QED
  BY <1>1, Inductive, PTL

\* Two grants of one subject on one connection are of two requests that were
\* between their list and their insert at one moment (server.mjs:122-123).
THEOREM Races == ConsoleSpec => []DuplicatesOnlyInRaces
PROOF
<1>1. IInv => DuplicatesOnlyInRaces
  <2> SUFFICES ASSUME IInv, NEW g \in consoleGrants, NEW h \in consoleGrants,
                      g.conn = h.conn, g.subject = h.subject, g.id # h.id
               PROVE  h.id \in consoleReq[g.id].met
    BY DEF DuplicatesOnlyInRaces
  <2>1. g.id \in ConsoleRequests /\ h.id \in ConsoleRequests
    BY DEF IInv, ConsoleTypeOK, ConsoleGrant
  <2>2. Live(g.id) /\ Live(h.id)
    BY DEF Live
  <2>3. consoleReq[g.id].in.conn = consoleReq[h.id].in.conn /\ consoleReq[g.id].in.subject = consoleReq[h.id].in.subject
    BY DEF IInv, GrantsOfRequests
  <2> QED
    BY <2>1, <2>2, <2>3 DEF IInv, Met
<1> QED
  BY <1>1, Inductive, PTL

================================================================================
