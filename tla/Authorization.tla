------------------------------ MODULE Authorization ------------------------------
(***************************************************************************)
(* The broker's route (function-node/src/broker.js) from the dispatch of a *)
(* request to the quota: the gates of brokerHandler in their order, and    *)
(* preflight, which tells a caller beforehand whether they would pass.     *)
(* The gates keep no state, so one request of one caller against one       *)
(* policy says all; what changes while a request runs is in PolicyRuntime, *)
(* RateLimiter and VendorCall.                                             *)
(*                                                                         *)
(* A connection id is "azure:" and the slug, so the slug stands for it; a  *)
(* slug stands for all its spellings in upper and lower case.              *)
(***************************************************************************)
EXTENDS EndpointPolicy, FiniteSets

CONSTANTS
    Roles, Slugs,
    Slug,         \* slugForRole
    Users, Clients, NoOne,   \* oid and azp claims, and their absence
    Groups,       \* group claims that begin with "group:"
    OtherGroups,  \* those that do not
    Preflight,    \* the path segment "preflight"
    Routing,      \* MULTI_ROLE_VENDOR_ROUTING
    RoleMaps, GrantDocs,     \* the policies considered
    Principals,              \* the callers considered
    Paths                    \* the paths of the requests considered

Entry == [mapped : BOOLEAN, enabled : BOOLEAN, complete : BOOLEAN, endpoints : Lockdown]
GrantEntry == [subjects : SUBSET Users, groups : SUBSET Groups, workloads : SUBSET Clients]
Principal == [oid : Users \cup {NoOne}, azp : Clients \cup {NoOne}, roles : SUBSET Roles,
              groups : SUBSET (Groups \cup OtherGroups)]

ASSUME SlugAssumption ==
    Slugs \subseteq Segments \ {Empty, Dots} /\ Slug \in [Roles -> Slugs]
ASSUME NamesAssumption == NoOne \notin Users \cup Clients /\ Groups \cap OtherGroups = {}
ASSUME RoutingAssumption == Routing \in BOOLEAN
ASSUME PolicyAssumption ==
    RoleMaps \subseteq [Roles -> Entry] /\ GrantDocs \subseteq [Slugs -> GrantEntry]
ASSUME RequestsAssumption == Principals \subseteq Principal /\ Paths \subseteq Path

VARIABLES
    roleMap, grants,   \* the policy read
    authMode,          \* AUTH_MODE: "easyauth", or "oidc" for it and generic-oidc
    who,               \* the verified claims of the caller
    req                \* the request

vars == <<roleMap, grants, authMode, who, req>>

Gates == <<"routes", "role", "enabled", "complete", "identity", "document", "grant", "endpoint">>
GateNames == {Gates[i] : i \in 1..Len(Gates)}
Answers == {"none", "unauthenticated", "unavailable", "error", "role-denied", "route-denied",
            "grant-denied", "allowed", "limited", "forwarded"} \cup GateNames

TypeOK ==
    /\ roleMap \in RoleMaps
    /\ grants \in GrantDocs
    /\ authMode \in {"easyauth", "oidc"}
    /\ who \in Principals
    /\ req \in [pc : {"idle", "quota", "vault", "done"}, path : Paths \cup {<<>>},
                method : Methods \cup {"none"}, answer : Answers]

\* validateOidcAccessToken demands a subject; Easy Auth's principal brings no groups.
Init ==
    /\ roleMap \in RoleMaps
    /\ grants \in GrantDocs
    /\ authMode \in {"easyauth", "oidc"}
    /\ who \in Principals
    /\ authMode = "oidc" => who.oid # NoOne
    /\ authMode = "easyauth" => who.groups = {}
    /\ req = [pc |-> "idle", path |-> <<>>, method |-> "none", answer |-> "none"]

(***************************************************************************)
(* The gates of brokerHandler.                                             *)
(***************************************************************************)
Mapped == {r \in Roles : roleMap[r].mapped}

\* buildRouteTable throws on two roles with one slug.
Ambiguous == \E r, s \in Mapped : r # s /\ Slug[r] = Slug[s]

Held == who.roles \cap Mapped

NamedBy(path) == {r \in Mapped : Routing /\ Names(path) # <<>> /\ Slug[r] = Names(path)[1]}

\* (mutant) the named role need not be held
SelectedAnyone(path) ==
    IF NamedBy(path) # {} THEN NamedBy(path)
    ELSE {r \in Held : Held = {r}}

\* The role the path names, if the caller holds it; else the only one held.
Selected(path) ==
    IF NamedBy(path) # {} THEN NamedBy(path) \cap Held
    ELSE {r \in Held : Held = {r}}

Subpath(path) == IF NamedBy(path) # {} THEN Tail(Names(path)) ELSE path

Granting(id) == grants[id] # [subjects |-> {}, groups |-> {}, workloads |-> {}]

\* parseConnectionGrants: one entry for an id that is not known spoils the document.
Parses(known) == \A id \in Slugs : Granting(id) => id \in known

\* authorizeGrant with identityForGrants' evidence: a subject, or groups that are
\* all well formed; a workload is never given to it.
GroupsWellFormed == who.groups \subseteq Groups
Granted(id) ==
    /\ GroupsWellFormed
    /\ who.oid \in grants[id].subjects \/ who.groups \cap grants[id].groups # {}

Passes(gate, path, method) ==
    CASE gate = "routes" -> ~Ambiguous
      [] gate = "role" -> Selected(path) # {}
      [] gate = "enabled" -> \A r \in Selected(path) : roleMap[r].enabled
      [] gate = "complete" -> \A r \in Selected(path) : roleMap[r].complete
      [] gate = "identity" -> who.oid # NoOne \/ who.azp # NoOne
      [] gate = "document" -> Parses({Slug[r] : r \in Mapped})
      [] gate = "grant" -> \A r \in Selected(path) : Granted(Slug[r])
      [] gate = "endpoint" ->
           \A r \in Selected(path) : Permits(roleMap[r].endpoints, method, Subpath(path))

FailsAt(i, path, method) ==
    /\ ~Passes(Gates[i], path, method)
    /\ \A j \in 1..i - 1 : Passes(Gates[j], path, method)
PassesAll(path, method) == \A i \in 1..Len(Gates) : Passes(Gates[i], path, method)

(***************************************************************************)
(* runPreflight.                                                           *)
(***************************************************************************)
\* Its evidence has the workload as well; it knows the selected id only, and takes a
\* document it cannot parse for an empty one.
PreflightGranted(id) ==
    IF who.oid # NoOne
    THEN who.oid \in grants[id].subjects \/ who.groups \cap grants[id].groups # {}
    ELSE who.azp \in grants[id].workloads

\* (mutant) a disabled connection is told from one that is not there
PreflightResultTelling(r) ==
    CASE r \notin who.roles -> "role-denied"
      [] r \in who.roles /\ ~roleMap[r].enabled -> "disabled"
      [] OTHER -> IF Parses({Slug[r]}) /\ PreflightGranted(Slug[r]) THEN "allowed"
                                                                   ELSE "grant-denied"

\* (mutant) the connection may be disabled
PreflightResultDisabled(r) ==
    CASE r \notin who.roles -> "role-denied"
      [] OTHER -> IF Parses({Slug[r]}) /\ PreflightGranted(Slug[r]) THEN "allowed"
                                                                   ELSE "grant-denied"

\* The result for the role a slug was found to belong to.
PreflightResult(r) ==
    CASE r \notin who.roles -> "role-denied"
      [] r \in who.roles /\ ~roleMap[r].enabled -> "route-denied"
      [] r \in who.roles /\ roleMap[r].enabled /\ who.oid # NoOne /\ ~GroupsWellFormed -> "error"
      [] OTHER -> IF Parses({Slug[r]}) /\ PreflightGranted(Slug[r]) THEN "allowed"
                                                                   ELSE "grant-denied"

PreflightAnswers(slug) ==
    IF who.oid = NoOne /\ who.azp = NoOne THEN {"unauthenticated"}
    ELSE IF \A r \in Mapped : Slug[r] # slug THEN {"route-denied"}
    ELSE {PreflightResult(r) : r \in {m \in Mapped : Slug[m] = slug}}

(***************************************************************************)
(* The steps of a request.                                                 *)
(***************************************************************************)
Done(path, method, answer) ==
    /\ req' = [pc |-> "done", path |-> path, method |-> method, answer |-> answer]
    /\ UNCHANGED <<roleMap, grants, authMode, who>>

ForPreflight(path, method) ==
    method = "GET" /\ Len(path) = 2 /\ path[1] = Preflight /\ path[2] # Empty

\* The bearer token does not verify.
Unauthenticated(path, method) ==
    /\ req.pc = "idle" /\ authMode = "oidc"
    /\ Done(path, method, "unauthenticated")

Unavailable(path, method) ==
    /\ req.pc = "idle"
    /\ Done(path, method, "unavailable")

PreflightHandler(path, method) ==
    /\ req.pc = "idle" /\ ForPreflight(path, method)
    /\ \E answer \in PreflightAnswers(path[2]) : Done(path, method, answer)

Deny(path, method) ==
    /\ req.pc = "idle" /\ ~ForPreflight(path, method)
    /\ \E i \in 1..Len(Gates) : FailsAt(i, path, method) /\ Done(path, method, Gates[i])

Admit(path, method) ==
    /\ req.pc = "idle" /\ ~ForPreflight(path, method)
    /\ PassesAll(path, method)
    /\ req' = [pc |-> "quota", path |-> path, method |-> method, answer |-> "none"]
    /\ UNCHANGED <<roleMap, grants, authMode, who>>

\* quotaCheck refuses a caller without an oid.
Quota ==
    /\ req.pc = "quota"
    /\ \/ who.oid # NoOne /\ req' = [req EXCEPT !.pc = "vault"]
       \/ req' = [req EXCEPT !.pc = "done", !.answer = "limited"]
    /\ UNCHANGED <<roleMap, grants, authMode, who>>

\* From here on it is VendorCall's.
Forward ==
    /\ req.pc = "vault"
    /\ Done(req.path, req.method, "forwarded")

Finished == req.pc = "done" /\ UNCHANGED vars

Next ==
    \/ \E path \in Paths, method \in Methods :
         \/ Unauthenticated(path, method) \/ Unavailable(path, method)
         \/ PreflightHandler(path, method) \/ Deny(path, method) \/ Admit(path, method)
    \/ Quota \/ Forward \/ Finished

Spec == Init /\ [][Next]_vars

(***************************************************************************)
(* Properties.                                                             *)
(***************************************************************************)
Admitted == req.pc \in {"quota", "vault"} \/ req.answer \in {"limited", "forwarded"}

\* README.md:69-72: a connection is used only if the token has its role and its grant
\* names the caller or one of their groups, it is enabled, and it is the one the path
\* names, if it names one.
EntitledOnly ==
    Admitted => \E r \in who.roles :
        /\ roleMap[r].mapped /\ roleMap[r].enabled
        /\ who.oid \in grants[Slug[r]].subjects \/ who.groups \cap grants[Slug[r]].groups # {}
        /\ NamedBy(req.path) \subseteq {r}

\* Of paths, by their segments only.  A final slash counts: the code takes it for part
\* of the path, so that an exact rule, or a prefix with such a slash, is not met by the
\* same path spelled without it, nor an exact rule without one by the path with it (on
\* the legacy route; where the path names the vendor, a final slash is dropped).
Below(path, base) == Len(path) > Len(base) /\ SubSeq(path, 1, Len(base)) = base
SamePlace(path, rule) ==
    /\ Names(path) = Names(rule.path)
    /\ Slashed(path) = Slashed(rule.path) \/ (rule.prefix /\ Slashed(path))

\* endpoint-policy.js:21-26, :49 "cannot dodge an exact-match rule".  A denied path is
\* not reached, nor what is below a denied prefix, however slashes are doubled or put
\* in front; but a final slash makes another path of it (SamePlace).  Beside the
\* allowed paths nothing is reached, and nothing at all where the policy is malformed.
LockedOut ==
    Admitted => \A r \in Selected(req.path) :
        LET lock == roleMap[r].endpoints
            sub == Subpath(req.path)
            at == Names(sub)
            Concerns(rule) == rule.methods = {} \/ req.method \in rule.methods
        IN  /\ lock.mode # "malformed"
            /\ lock.mode = "deny" => \A rule \in lock.rules : Concerns(rule) =>
                  /\ ~SamePlace(sub, rule)
                  /\ rule.prefix => ~Below(at, Names(rule.path))
            /\ lock.mode = "allow" => \E rule \in lock.rules :
                  /\ Concerns(rule)
                  /\ \/ at = Names(rule.path)
                     \/ rule.prefix /\ Below(at, Names(rule.path))

\* A call to a connection for which preflight says "allowed" is not refused for its
\* route, a role, a disabled connection, an identity or a grant (it may be locked,
\* limited, or misconfigured), if the caller has an oid and the role map is unambiguous;
\* and only then: a workload that has an azp alone may be told "allowed", and so may
\* anybody under a map with two roles of one slug, and each of them is always refused
\* (preflight.js:31-39, :49, :64, broker.js:260, :349-361).
Reaches(path, s) == IF Routing THEN Names(path) # <<>> /\ Names(path)[1] = s
                   ELSE \E r \in Held : Held = {r} /\ Slug[r] = s
PreflightSound ==
    \A s \in Slugs, path \in Paths :
        "allowed" \in PreflightAnswers(s) /\ Reaches(path, s)
        => ((\A gate \in GateNames \ {"complete", "endpoint"} : Passes(gate, path, "GET"))
               <=> who.oid # NoOne /\ ~Ambiguous)

\* Refuted: "this keeps preflight aligned with the main broker handler".  A connection
\* a caller may use is one preflight says they may use.
PreflightAligned ==
    Admitted => \A r \in Selected(req.path) : "allowed" \in PreflightAnswers(Slug[r])
==================================================================================
