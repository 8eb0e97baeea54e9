---------------------------- MODULE PolicyDocuments ----------------------------
(***************************************************************************)
(* The two policy documents that decide who may use which connection, and  *)
(* the pure functions of admin-function/src/policy-store.js that edit      *)
(* them.  A role with no entry in the role map has the secret NoSecret; a  *)
(* connection with no entry in the grants has no subject: mutateGrant      *)
(* deletes an entry with its last subject.  The three subject lists of an  *)
(* entry are one set, its members told apart by their prefix.              *)
(***************************************************************************)
EXTENDS Integers

CONSTANTS
    Roles, Secrets, Subjects, Ids,
    NoSecret,
    AdminId,      \* connectionIdForRole of policy-store.js: the id of each role
    Seeded,       \* empty documents were stored before the first request
    Standing,     \* the secret of each connection that exists from the start
    Held,         \* the subjects granted each id from the start
    MaxVersion    \* bound: the versions a secret of Key Vault goes through

ASSUME NoSecretAssumption == NoSecret \notin Secrets
\* The console derives an id from the role's name and does not keep two roles from
\* having one; that they do not is assumed.
ASSUME AdminIdAssumption ==
    /\ AdminId \in [Roles -> Ids]
    /\ \A r, s \in Roles : AdminId[r] = AdminId[s] => r = s
ASSUME SeededAssumption == Seeded \in BOOLEAN
ASSUME StandingAssumption ==
    /\ Standing \in [Roles -> Secrets \cup {NoSecret}]
    /\ \A r, s \in Roles : Standing[r] = Standing[s] => r = s \/ Standing[r] = NoSecret
    /\ Seeded \/ \A r \in Roles : Standing[r] = NoSecret
ASSUME HeldAssumption ==
    /\ Held \in [Ids -> SUBSET Subjects]
    /\ \A i \in Ids : Held[i] # {} => \E r \in Roles : AdminId[r] = i /\ Standing[r] # NoSecret
ASSUME MaxVersionAssumption == MaxVersion \in Nat

Docs == {"roleMap", "grants"}
Version == 0..MaxVersion   \* stands for the time Key Vault stored it, 0 for none
Entry == [secret : Secrets \cup {NoSecret}, enabled : BOOLEAN, rotated : Version]
RoleMap == [Roles -> Entry]
Grants == [versioned : BOOLEAN, to : [Ids -> SUBSET Subjects]]

Mapped(map) == {r \in Roles : map[r].secret # NoSecret}

\* A row that is not there reads as DEFAULTS, whose grants carry a schemaVersion;
\* the documents deploy/lib/product.mjs writes do not.
FirstRoleMap == [r \in Roles |->
    [secret |-> Standing[r], enabled |-> Standing[r] # NoSecret, rotated |-> 0]]
FirstGrants == [versioned |-> ~Seeded, to |-> Held]

\* The requests that change a document, and the vault.
Create == [op : {"create"}, role : Roles, secret : Secrets]
Status == [op : {"status"}, id : Ids, enabled : BOOLEAN]
Rotate == [op : {"rotate"}, id : Ids]
Grant == [op : {"grant"}, id : Ids, subject : Subjects, remove : BOOLEAN]
Ask == Create \cup Status \cup Rotate \cup Grant

DocOf(ask) == IF ask.op = "grant" THEN "grants" ELSE "roleMap"

Named(map, id) == {r \in Mapped(map) : AdminId[r] = id}

\* (mutants) the check of the secret is forgotten; that of the id
AdmissibleSharing(ask, map) ==
    IF ask.op = "create" THEN map[ask.role].secret = NoSecret ELSE Named(map, ask.id) # {}
AdmissibleUnnamed(ask, map) ==
    ask.op = "create" => /\ map[ask.role].secret = NoSecret
                         /\ \A r \in Roles : map[r].secret # ask.secret

\* The checks a handler makes before it edits: a new connection takes a free role
\* and a secret no other role uses, every other request names a connection.
Admissible(ask, map) ==
    \/ /\ ask.op = "create"
       /\ map[ask.role].secret = NoSecret
       /\ \A r \in Roles : map[r].secret # ask.secret
    \/ /\ ask.op # "create"
       /\ Named(map, ask.id) # {}

\* The edited entry of role r: connection.created, updateConnectionStatus,
\* recordRotation (at: the time Key Vault gave the new version).
EntryAfter(ask, entry, at) ==
    CASE ask.op = "create" -> [secret |-> ask.secret, enabled |-> TRUE, rotated |-> 0]
      [] ask.op = "status" -> [entry EXCEPT !.enabled = ask.enabled]
      [] ask.op = "rotate" -> [entry EXCEPT !.rotated = at]

\* The first entry of the id, the only one by AdminIdAssumption.
Edited(ask, map) == IF ask.op = "create" THEN {ask.role} ELSE Named(map, ask.id)

RoleMapAfter(ask, map, at) ==
    [r \in Roles |-> IF r \in Edited(ask, map) THEN EntryAfter(ask, map[r], at) ELSE map[r]]

\* mutateGrant: the rest of the document is copied, its schemaVersion too.
GrantsAfter(ask, grants) ==
    [grants EXCEPT !.to[ask.id] = IF ask.remove THEN @ \ {ask.subject}
                                                ELSE @ \cup {ask.subject}]
=============================================================================
