------------------------------ MODULE AdminConsole ------------------------------
(***************************************************************************)
(* admin-ui/server.mjs: the API of the connections console.  The           *)
(* repository, the credential writer, the audit sink and the check of the  *)
(* administrator are adapters of the hosting service: each is awaited, may *)
(* fail, and may fail after it took effect.  Every await is a step; the    *)
(* handler itself keeps no state, so a request is all there is to          *)
(* interleave with another one.  Names that PolicyStore has as well are    *)
(* prefixed here, so that one module can extend both.                      *)
(***************************************************************************)
CONSTANTS
    ConsoleRequests,     \* requests to the API; also names the UUID a request draws
    ConsoleStanding,     \* connections that exist from the start
    ConsoleSubjects,     \* normalised subjects of grants
    None

ASSUME NamesAssumption ==
    /\ ConsoleRequests \cap ConsoleStanding = {}
    /\ None \notin ConsoleRequests \cup ConsoleStanding \cup ConsoleSubjects

VARIABLES
    permitted,     \* whether requireAdmin finds the permission admin:connections
    connections,   \* repository: ids of connections
    integrations,  \* repository: identity integrations, by the request that made them
    consoleGrants, \* repository: grants
    consoleVault,  \* credential sink: consoleVault[c], the request whose credential c holds
    audit,         \* audit sink
    consoleReq     \* consoleReq[r]: the position and local variables of request r

vars == <<permitted, connections, integrations, consoleGrants, consoleVault, audit, consoleReq>>
stores == <<connections, integrations, consoleGrants, consoleVault, audit>>

ConsoleIds == ConsoleStanding \cup ConsoleRequests
ConsoleGrant == [id : ConsoleRequests, conn : ConsoleIds, subject : ConsoleSubjects]
Replies == {"none", "ok", "400", "401", "403", "404"}

\* What request r may ask for.  A connection is created under a fresh id.
Input(ops, conns, subjects, targets, creds) ==
    [op : ops, conn : conns, subject : subjects, target : targets, cred : creds]
Inputs(r) ==
    Input({"create"}, {r}, {None}, {None}, BOOLEAN)
        \cup Input({"credential"}, ConsoleIds, {None}, {None}, {TRUE})
        \cup Input({"grant"}, ConsoleIds, ConsoleSubjects, {None}, {FALSE})
        \cup Input({"revoke"}, ConsoleIds, {None}, ConsoleRequests, {FALSE})
        \cup Input({"observe"}, ConsoleIds, {None}, {None}, {FALSE})
        \cup Input({"integrate", "overview"}, {None}, {None}, {None}, {FALSE})
Nothing == [op |-> "idle", conn |-> None, subject |-> None, target |-> None, cred |-> FALSE]

Position == {"idle", "auth", "find", "body", "write", "list", "insert", "delete", "audit", "read", "done"}

\* What a request holds.
ConsoleLocal == [
    pc : Position,
    in : {Nothing} \cup UNION {Inputs(r) : r \in ConsoleRequests},
    reply : Replies,
    effects : SUBSET {"vault", "repository"},   \* history: what it changed
    met : SUBSET ConsoleRequests]   \* history: grants made or under way between its list and its insert

ConsoleTypeOK ==
    /\ permitted \in BOOLEAN
    /\ connections \subseteq ConsoleIds /\ integrations \subseteq ConsoleRequests
    /\ consoleGrants \subseteq ConsoleGrant
    /\ consoleVault \in [ConsoleIds -> ConsoleRequests \cup {None}]
    /\ audit \subseteq [action : {"create", "credential", "grant", "revoke"},
                        conn : ConsoleIds, by : ConsoleRequests]
    /\ consoleReq \in [ConsoleRequests -> ConsoleLocal]
    /\ \A r \in ConsoleRequests : consoleReq[r].in \in Inputs(r) \cup {Nothing}

ConsoleInit ==
    /\ permitted = TRUE
    /\ connections = ConsoleStanding /\ integrations = {} /\ consoleGrants = {} /\ audit = {}
    /\ consoleVault = [c \in ConsoleIds |-> None]
    /\ consoleReq = [r \in ConsoleRequests |->
          [pc |-> "idle", in |-> Nothing, reply |-> "none", effects |-> {}, met |-> {}]]

--------------------------------------------------------------------------------
(* Pieces of the handler. *)

\* (mutants) unknown failures answered as invalid; passed on as they are
FailInvalid(r) == [consoleReq[r] EXCEPT !.pc = "done", !.reply = "400"]
FailRaw(r) == [consoleReq[r] EXCEPT !.pc = "done", !.reply = "500"]

\* The catch of the handler: whatever an adapter throws is "unauthorized".
Fail(r) == [consoleReq[r] EXCEPT !.pc = "done", !.reply = "401"]

Refuse(r, code) == [consoleReq[r] EXCEPT !.pc = "done", !.reply = code]
Done(r) == [consoleReq[r] EXCEPT !.pc = "done", !.reply = "ok"]
Go(r, pc) == IF pc = "done" THEN Done(r) ELSE [consoleReq[r] EXCEPT !.pc = pc]
Changing(next, store) == [next EXCEPT !.effects = @ \cup {store}]

\* (a request that ended without effect forgets what it asked for)
Set(r, next) ==
    consoleReq' = [consoleReq EXCEPT ![r] = IF next.pc = "done" /\ next.effects = {}
                              THEN [next EXCEPT !.in = Nothing, !.met = {}] ELSE next]

\* (mutants) the credential is forgotten; the audit record is
AfterBodyNoWrite(in) == CASE in.op = "grant" -> "list" [] in.op = "credential" -> "write" [] OTHER -> "insert"
AfterInsertNoAudit(in) == "done"

\* What is awaited next, by the kind of request.
AfterAuth(in) == CASE in.op = "overview" -> "read" [] in.op \in {"create", "integrate"} -> "body" [] OTHER -> "find"
AfterFind(in) == CASE in.op = "observe" -> "read" [] in.op = "revoke" -> "delete" [] OTHER -> "body"
AfterBody(in) == CASE in.op = "grant" -> "list" [] in.cred -> "write" [] OTHER -> "insert"
AfterWrite(in) == IF in.op = "create" THEN "insert" ELSE "audit"
AfterInsert(in) == IF in.op = "integrate" THEN "done" ELSE "audit"

\* (mutant) grants are compared by id, which is always new
DuplicateId(r) == \E g \in consoleGrants : g.conn = consoleReq[r].in.conn /\ g.id = r

\* The subject already has a grant on the connection.
Duplicate(r) == \E g \in consoleGrants : g.conn = consoleReq[r].in.conn /\ g.subject = consoleReq[r].in.subject

--------------------------------------------------------------------------------
(* One action per await: the answer of an adapter, and the handler up to the *)
(* next one.  Any of them may fail; a failed change may have taken effect.   *)

Receive(r) ==
    /\ consoleReq[r].pc = "idle"
    /\ \E in \in Inputs(r) : Set(r, [consoleReq[r] EXCEPT !.pc = "auth", !.in = in])
    /\ UNCHANGED <<permitted, stores>>

\* authenticated, on every request; then a query string and an unknown route
\* are refused.
Authenticate(r) ==
    /\ consoleReq[r].pc = "auth"
    /\ \/ ~permitted /\ Set(r, Refuse(r, "403"))
       \/ permitted /\ (Set(r, Refuse(r, "400")) \/ Set(r, Refuse(r, "404")))
       \/ permitted /\ Set(r, Go(r, AfterAuth(consoleReq[r].in)))
       \/ Set(r, Fail(r))
    /\ UNCHANGED <<permitted, stores>>

\* requireConnection.
Find(r) ==
    /\ consoleReq[r].pc = "find"
    /\ \/ Set(r, IF consoleReq[r].in.conn \in connections THEN Go(r, AfterFind(consoleReq[r].in))
                                                          ELSE Refuse(r, "404"))
       \/ Set(r, Fail(r))
    /\ UNCHANGED <<permitted, stores>>

\* readBody and the checks of its fields; a broken upload throws.
ReadBody(r) ==
    /\ consoleReq[r].pc = "body"
    /\ \/ Set(r, Go(r, AfterBody(consoleReq[r].in)))
       \/ Set(r, Refuse(r, "400"))
       \/ Set(r, Fail(r))
    /\ UNCHANGED <<permitted, stores>>

\* credentialWriter.write; the sink may also say that it did not store.
WriteCredential(r) ==
    LET c == consoleReq[r].in.conn
    IN
    /\ consoleReq[r].pc = "write"
    /\ \/ /\ consoleVault' = [consoleVault EXCEPT ![c] = r]
          /\ Set(r, Changing(Go(r, AfterWrite(consoleReq[r].in)), "vault"))
       \/ consoleVault' = [consoleVault EXCEPT ![c] = r] /\ Set(r, Changing(Fail(r), "vault"))
       \/ UNCHANGED consoleVault /\ (Set(r, Fail(r)) \/ Set(r, Refuse(r, "400")))
    /\ UNCHANGED <<permitted, connections, integrations, consoleGrants, audit>>

\* listGrants and the check for a duplicate.
List(r) ==
    LET under == {q \in ConsoleRequests \ {r} : consoleReq[q].pc = "insert" /\ consoleReq[q].in.op = "grant"}
    IN
    /\ consoleReq[r].pc = "list"
    /\ \/ Duplicate(r) /\ Set(r, Refuse(r, "400"))
       \/ /\ ~Duplicate(r)
          /\ consoleReq' = [q \in ConsoleRequests |->
               IF q = r THEN [Go(r, "insert") EXCEPT !.met = under]
               ELSE IF q \in under THEN [consoleReq[q] EXCEPT !.met = @ \cup {r}] ELSE consoleReq[q]]
       \/ Set(r, Fail(r))
    /\ UNCHANGED <<permitted, stores>>

Inserted(r) ==
    CASE consoleReq[r].in.op = "create" ->
            connections' = connections \cup {r} /\ UNCHANGED <<integrations, consoleGrants>>
      [] consoleReq[r].in.op = "integrate" ->
            integrations' = integrations \cup {r} /\ UNCHANGED <<connections, consoleGrants>>
      [] OTHER ->
            /\ consoleGrants' = consoleGrants \cup
                  {[id |-> r, conn |-> consoleReq[r].in.conn, subject |-> consoleReq[r].in.subject]}
            /\ UNCHANGED <<connections, integrations>>

\* createConnection, createIdentityIntegration, createGrant.
Insert(r) ==
    /\ consoleReq[r].pc = "insert"
    /\ \/ Inserted(r) /\ Set(r, Changing(Go(r, AfterInsert(consoleReq[r].in)), "repository"))
       \/ Inserted(r) /\ Set(r, Changing(Fail(r), "repository"))
       \/ UNCHANGED <<connections, integrations, consoleGrants>> /\ Set(r, Fail(r))
    /\ UNCHANGED <<permitted, consoleVault, audit>>

\* deleteGrant.
Delete(r) ==
    LET named == {g \in consoleGrants : g.id = consoleReq[r].in.target /\ g.conn = consoleReq[r].in.conn}
    IN
    /\ consoleReq[r].pc = "delete"
    /\ \/ /\ named # {} /\ consoleGrants' = consoleGrants \ named
          /\ Set(r, Changing(Go(r, "audit"), "repository")) \/ Set(r, Changing(Fail(r), "repository"))
       \/ UNCHANGED consoleGrants /\ (Set(r, Fail(r)) \/ (named = {} /\ Set(r, Refuse(r, "404"))))
    /\ UNCHANGED <<permitted, connections, integrations, consoleVault, audit>>

\* auditMutation, then the answer.
AuditChange(r) ==
    LET record == [action |-> consoleReq[r].in.op, conn |-> consoleReq[r].in.conn, by |-> r]
    IN
    /\ consoleReq[r].pc = "audit"
    /\ \/ audit' = audit \cup {record} /\ (Set(r, Done(r)) \/ Set(r, Fail(r)))
       \/ UNCHANGED audit /\ Set(r, Fail(r))
    /\ UNCHANGED <<permitted, connections, integrations, consoleGrants, consoleVault>>

\* The lists, health, usage and audit of a connection.
Observe(r) ==
    /\ consoleReq[r].pc = "read"
    /\ Set(r, Done(r)) \/ Set(r, Fail(r))
    /\ UNCHANGED <<permitted, stores>>

ConsoleStep(r) ==
    \/ Receive(r) \/ Authenticate(r) \/ Find(r) \/ ReadBody(r) \/ WriteCredential(r)
    \/ List(r) \/ Insert(r) \/ Delete(r) \/ AuditChange(r) \/ Observe(r)

\* The administrator loses the permission, or gets it back.
Permit == permitted' = ~permitted /\ UNCHANGED <<stores, consoleReq>>

ConsoleNext == Permit \/ \E r \in ConsoleRequests : ConsoleStep(r)

ConsoleSpec == ConsoleInit /\ [][ConsoleNext]_vars

--------------------------------------------------------------------------------
(* Properties *)

\* A connection created with a credential has it in the sink before anybody
\* can list it, and what is left of a creation that failed in between is a
\* credential whose request was not answered 201 (server.mjs:97-103).
CredentialBeforeConnection ==
    \A r \in ConsoleRequests :
        /\ r \in connections /\ consoleReq[r].in.cred => consoleVault[r] # None
        /\ consoleVault[r] = r /\ r \notin connections => consoleReq[r].reply # "ok"

\* What was refused or recorded is told as it was: a request answered 400, 403 or
\* 404 changed nothing in any store; the audit has nothing that did not happen, and
\* every change to a connection that was answered as done (server.mjs:71, :146).  The
\* 401 that every unknown failure is answered with says nothing: it may follow a
\* change, even one the code knows of, if only the audit of it failed (:101-102).
ToldAsDone ==
    /\ \A r \in ConsoleRequests : consoleReq[r].reply \in {"400", "403", "404"} =>
          consoleReq[r].effects = {} /\ consoleVault[r] # r
    /\ \A a \in audit : consoleReq[a.by].effects # {}
    /\ \A r \in ConsoleRequests :
          consoleReq[r].reply = "ok" /\ consoleReq[r].effects # {} /\ consoleReq[r].in.op # "integrate"
              => [action |-> consoleReq[r].in.op, conn |-> consoleReq[r].in.conn, by |-> r] \in audit

\* A subject has two grants on a connection only if their two requests were
\* both between the list and the insert at one moment (server.mjs:122-123):
\* one after the other, the second is refused.
DuplicatesOnlyInRaces ==
    \A g, h \in consoleGrants :
        g.conn = h.conn /\ g.subject = h.subject /\ g.id # h.id => h.id \in consoleReq[g.id].met

================================================================================
