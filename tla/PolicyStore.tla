----------------------------- MODULE PolicyStore -----------------------------
(***************************************************************************)
(* The management API (admin-function/src/admin.js) over its policy store  *)
(* (policy-store.js): the four kinds of requests that change a connection  *)
(* or a grant.  A handler reads every document at once, checks and edits   *)
(* its copy, writes one document back under the etag it read, and records  *)
(* the change; a rotation stores the new credential in Key Vault first.    *)
(* Every await is a step; any of them may fail.                            *)
(*                                                                         *)
(* An etag is the number of writes to the row, 0 for a row that is not     *)
(* there.  Vendor profiles, principal profiles and branding are further    *)
(* rows with the same read, write and audit steps and are left out.        *)
(***************************************************************************)
EXTENDS PolicyDocuments

CONSTANTS
    Requests,     \* the requests operators make
    Mode          \* "table" or "appconfig"

ASSUME ModeAssumption == Mode \in {"table", "appconfig"}

VARIABLES
    roleMap, grants,   \* the stored documents
    etag,              \* their etags
    vault,             \* the latest version of each secret in Key Vault
    req                \* req[q]: the local variables of api() for request q

storeVars == <<roleMap, grants, etag, vault, req>>

NoAsk == [op |-> "none"]
Reply == {"none", "ok", "invalid", "notFound", "conflict"}

\* What a request holds.
Local == [
    pc : {"idle", "read", "vault", "write", "audit", "done"},
    ask : Ask \cup {NoAsk},
    read : SUBSET Docs,        \* the gets of PolicyStore.read that answered
    map : RoleMap,             \* current.roleMap
    grants : Grants,           \* current.grants
    tag : [Docs -> Nat],       \* current.etags
    at : Version,              \* rotatedAt
    reply : Reply,
    applied : BOOLEAN]         \* history: its write took effect

TypeOK ==
    /\ roleMap \in RoleMap /\ grants \in Grants
    /\ etag \in [Docs -> Nat]
    /\ vault \in [Secrets -> Version]
    /\ req \in [Requests -> Local]

Quiet == [pc |-> "idle", ask |-> NoAsk, read |-> {}, map |-> FirstRoleMap,
          grants |-> FirstGrants, tag |-> [d \in Docs |-> 0], at |-> 0,
          reply |-> "none", applied |-> FALSE]

Init ==
    /\ roleMap = FirstRoleMap
    /\ grants = FirstGrants
    /\ etag = [d \in Docs |-> IF Seeded THEN 1 ELSE 0]
    /\ vault = [s \in Secrets |-> 0]
    /\ req = [q \in Requests |-> Quiet]

(***************************************************************************)
(* Helpers.                                                                *)
(***************************************************************************)
Becomes(q, rec) == req' = [req EXCEPT ![q] = rec]

Answer(q, reply) == Becomes(q, [req[q] EXCEPT !.pc = "done", !.reply = reply])

\* A write is conditional when the read found a row; in the table a missing row
\* is created, which fails if it exists by now; App Configuration just sets it.
\* (mutants) an update without If-Match; a create that overwrites
UpdateAnyway(q, d) == Mode = "table" /\ req[q].tag[d] = 0 => etag[d] = 0
CreateAnyway(q, d) == req[q].tag[d] # 0 => etag[d] = req[q].tag[d]
Precondition(q, d) ==
    IF req[q].tag[d] # 0 THEN etag[d] = req[q].tag[d]
    ELSE Mode = "appconfig" \/ etag[d] = 0

\* createEntity's 409 is passed on as a conflict; updateEntity's 412 and the
\* 412 of App Configuration are mapped to no status and answered 400.
\* (mutant) the storage status is handed to the client as it is
RefusalRaw(q, d) == IF req[q].tag[d] = 0 THEN "conflict" ELSE "412"
Refusal(q, d) == IF Mode = "table" /\ req[q].tag[d] = 0 THEN "conflict" ELSE "invalid"

Store(q, d) ==
    /\ etag' = [etag EXCEPT ![d] = @ + 1]
    /\ \/ /\ d = "grants"
          /\ grants' = GrantsAfter(req[q].ask, req[q].grants)
          /\ UNCHANGED roleMap
       \/ /\ d = "roleMap"
          /\ roleMap' = RoleMapAfter(req[q].ask, req[q].map, req[q].at)
          /\ UNCHANGED grants

(***************************************************************************)
(* The steps of a request.                                                 *)
(***************************************************************************)
Call(q) ==
    /\ req[q].pc = "idle"
    /\ \E a \in Ask : Becomes(q, [req[q] EXCEPT !.pc = "read", !.ask = a])
    /\ UNCHANGED <<roleMap, grants, etag, vault>>

\* What request q holds after the get of document d answered.
Seen(q, d) ==
    [req[q] EXCEPT !.read = @ \cup {d},
                   !.tag = [req[q].tag EXCEPT ![d] = etag[d]],
                   !.map = IF d = "roleMap" THEN roleMap ELSE @,
                   !.grants = IF d = "grants" THEN grants ELSE @]

\* One of the concurrent gets answers.  After the last one the handler checks the
\* request against its copy and goes on to its first write.
Read(q, d) ==
    /\ req[q].pc = "read" /\ d \notin req[q].read
    /\ LET seen == Seen(q, d)
           all == seen.read = Docs
           next == IF req[q].ask.op = "rotate" THEN "vault" ELSE "write"
           no == IF req[q].ask.op = "grant" THEN "notFound" ELSE "invalid"
       IN  \/ ~all /\ Becomes(q, seen)
           \/ /\ all /\ Admissible(req[q].ask, seen.map)
              /\ Becomes(q, [seen EXCEPT !.pc = next])
           \/ /\ all /\ ~Admissible(req[q].ask, seen.map)
              /\ Becomes(q, [seen EXCEPT !.pc = "done", !.reply = no])
    /\ UNCHANGED <<roleMap, grants, etag, vault>>

ReadFails(q) ==
    /\ req[q].pc = "read"
    /\ Answer(q, "invalid")
    /\ UNCHANGED <<roleMap, grants, etag, vault>>

\* (mutant) a failed setSecret is taken for a stored one
SetSecretAssumed(q) ==
    /\ req[q].pc = "vault"
    /\ \E r \in Named(req[q].map, req[q].ask.id) :
         LET s == req[q].map[r].secret
         IN  /\ vault[s] < MaxVersion
             /\ vault' \in {vault, [vault EXCEPT ![s] = @ + 1]}
             /\ Becomes(q, [req[q] EXCEPT !.pc = "write", !.at = vault[s] + 1])
    /\ UNCHANGED <<roleMap, grants, etag>>

\* secretClient.setSecret: the version may exist although its answer is lost.
SetSecret(q) ==
    /\ req[q].pc = "vault"
    /\ \E r \in Named(req[q].map, req[q].ask.id) :
         LET s == req[q].map[r].secret
         IN  /\ vault[s] < MaxVersion
             /\ vault' = [vault EXCEPT ![s] = @ + 1]
             /\ \/ Becomes(q, [req[q] EXCEPT !.pc = "write", !.at = vault[s] + 1])
                \/ Answer(q, "invalid")
    /\ UNCHANGED <<roleMap, grants, etag>>

SetSecretFails(q) ==
    /\ req[q].pc = "vault"
    /\ Answer(q, "invalid")
    /\ UNCHANGED <<roleMap, grants, etag, vault>>

\* The write takes effect.  Its answer may be lost; the client library then sends
\* a create again, which meets the row it made itself.
Write(q) ==
    /\ req[q].pc = "write"
    /\ LET d == DocOf(req[q].ask)
       IN  /\ Precondition(q, d)
           /\ Store(q, d)
           /\ \/ Becomes(q, [req[q] EXCEPT !.pc = "audit", !.applied = TRUE])
              \/ \E reply \in {"invalid", Refusal(q, d)} :
                   Becomes(q, [req[q] EXCEPT !.pc = "done", !.reply = reply, !.applied = TRUE])
    /\ UNCHANGED vault

\* The write is refused: another request was faster.
WriteRefused(q) ==
    /\ req[q].pc = "write"
    /\ LET d == DocOf(req[q].ask)
       IN  /\ ~Precondition(q, d)
           /\ Answer(q, Refusal(q, d))
    /\ UNCHANGED <<roleMap, grants, etag, vault>>

WriteFails(q) ==
    /\ req[q].pc = "write"
    /\ Answer(q, "invalid")
    /\ UNCHANGED <<roleMap, grants, etag, vault>>

\* audit(): a failure answers 400 for a change that is stored.
Audit(q) ==
    /\ req[q].pc = "audit"
    /\ \E reply \in {"ok", "invalid"} : Answer(q, reply)
    /\ UNCHANGED <<roleMap, grants, etag, vault>>

Step(q) ==
    \/ Call(q) \/ ReadFails(q)
    \/ \E d \in Docs : Read(q, d)
    \/ SetSecret(q) \/ SetSecretFails(q)
    \/ Write(q) \/ WriteRefused(q) \/ WriteFails(q)
    \/ Audit(q)

Finished ==
    /\ \A q \in Requests : req[q].pc = "done"
    /\ UNCHANGED storeVars

Next == Finished \/ \E q \in Requests : Step(q)

Spec == Init /\ [][Next]_storeVars

(***************************************************************************)
(* Properties.                                                             *)
(***************************************************************************)
Settled == {q \in Requests : req[q].applied}
Acked == {q \in Requests : req[q].reply = "ok"}
Book == INSTANCE PolicyBook WITH ask <- [q \in Requests |-> req[q].ask],
                                 settled <- Settled, acked <- Acked

\* No update is lost: whatever interleaves, the stored documents change only as if
\* each request had run alone, at most once, against the documents it met, and a
\* request answered with success did take effect.
BookIsAtomic == Book!BSpec

\* No two connections share a Key Vault secret (two requests may create them at
\* the same time): rotating or revoking one never touches another.
OneRolePerSecret ==
    \A r, s \in Mapped(roleMap) : roleMap[r].secret = roleMap[s].secret => r = s

\* The grants name only connections the role map has, though the two documents
\* are written separately: the broker refuses a whole document that names another.
GrantsNameConnections ==
    \A i \in Ids : grants.to[i] # {} => Named(roleMap, i) # {}

\* The stored documents fit each other and themselves: both of the above.
DocumentsAgree == OneRolePerSecret /\ GrantsNameConnections

\* The rotation a connection shows took place, so Key Vault has that version;
\* and of two rotations of one connection that overtake each other, the record
\* never goes back to the earlier.
RotationBacked ==
    [][/\ \A r \in Roles : roleMap'[r].rotated >= roleMap[r].rotated
       /\ \A r \in Mapped(roleMap') : roleMap'[r].rotated <= vault'[roleMap'[r].secret]]_storeVars

\* Refuted where App Configuration holds no document yet: what was stored after a
\* request read a document is not overwritten by that request.
StaleNeverStored ==
    [][\A q \in Requests : req'[q].applied /\ ~req[q].applied =>
          etag[DocOf(req[q].ask)] = req[q].tag[DocOf(req[q].ask)]]_storeVars
=============================================================================
