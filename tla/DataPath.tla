-------------------------------- MODULE DataPath --------------------------------
(***************************************************************************)
(* What a call carries, from the client library to the vendor and back:    *)
(* the header rules of the clients (ninja-client.mjs, broker_client.py,    *)
(* bridge/request-policy.mjs), the checks and the redaction of             *)
(* credential-scrubber.js where brokerHandler applies them, and the audit  *)
(* row api-call-audit.js writes about it.                                  *)
(*                                                                         *)
(* Names are compared without regard to case everywhere and stand for      *)
(* themselves; values are left out.  A JSON document is a tree of objects  *)
(* and arrays, of any height.                                              *)
(***************************************************************************)
EXTENDS Naturals, Sequences

CONSTANTS
    KeyHeaders,   \* KEY_HEADER_NAME, KEYID_HEADER_NAME, SECRET_HEADER_NAME
    Custom,       \* the deployment's FORWARD_HEADER_ALLOWLIST
    Platform,     \* the headers the transport and Easy Auth add
    Documents,    \* the JSON documents considered, with all their parts
    Height,       \* how deep each of them is
    Inputs,       \* the requests callers make
    Responses     \* the vendor's responses

VARIABLES
    request,      \* the request, with the headers it has by now
    pc,           \* where it is
    bodyRead,     \* whether the handler has read the body
    sent,         \* what fetch sent to the vendor
    response,     \* what the vendor answered
    answer,       \* what the caller is answered
    capture,      \* captureRequestContent: what it resolved to
    row           \* the audit row

dataVars == <<request, pc, bodyRead, sent, response, answer, capture, row>>

--------------------------------------------------------------------------------
(* The lists. *)

CREDENTIAL_HEADER_NAMES == {
    "authorization", "x-api-key", "api-key", "apikey", "api_key", "subscription-key",
    "access_token", "token", "client_id", "client_secret", "x-api-secret", "x-key-id",
    "x-secret", "key", "x-api-key-id"}
HOP_BY_HOP_HEADER_NAMES == {
    "host", "connection", "keep-alive", "transfer-encoding", "upgrade", "content-length",
    "proxy-authorization", "proxy-authenticate"}
CREDENTIAL_PARAMETER_NAMES == {
    "x-api-key", "api-key", "apikey", "api_key", "authorization", "access_token",
    "subscription-key", "x-api-key-id", "x-api-secret", "x-key-id", "x-secret", "client_secret"}
FORWARD_HEADER_ALLOWLIST == Custom \cup {
    "accept", "accept-charset", "accept-encoding", "accept-language", "content-type",
    "user-agent", "traceparent", "tracestate", "x-request-id", "if-match", "if-none-match",
    "if-modified-since", "range", "idempotency-key", "x-correlation-id", "cache-control",
    "prefer", "accept-version"}
\* What the node library does not accept, and the python library.
CREDENTIAL_HEADERS == {
    "authorization", "proxy-authorization", "x-api-key", "api-key", "apikey", "api_key",
    "key", "access_token", "token", "subscription-key", "x-api-key-id", "x-api-secret",
    "x-key-id", "x-secret", "client_id", "client_secret"}
CallerHeaders == CREDENTIAL_HEADERS

XMs == {"x-ms-client-principal", "x-ms-token-aad-id-token"}   \* those that begin with x-ms-

CREDENTIAL_SHAPED_NAMES == CREDENTIAL_HEADER_NAMES \cup KeyHeaders
AlwaysStripped == {"authorization"} \cup XMs
Blocked == CREDENTIAL_HEADER_NAMES \cup HOP_BY_HOP_HEADER_NAMES \cup XMs

--------------------------------------------------------------------------------
(* credential-scrubber.js.  An object is a function from keys to trees. *)

Leaf == [kind |-> "leaf"]
Redacted == [kind |-> "redacted"]
Obj(f) == [kind |-> "object", at |-> f]
Arr(s) == [kind |-> "array", of |-> s]

Parts(t) == CASE t.kind = "object" -> t.at [] t.kind = "array" -> t.of [] OTHER -> <<>>

\* The recursion below ends: what a document is made of is less deep than it is.
ASSUME DocumentsAssumption ==
    /\ Leaf \in Documents
    /\ Height \in [Documents -> Nat]
    /\ \A t \in Documents : \A k \in DOMAIN Parts(t) :
          Parts(t)[k] \in Documents /\ Height[Parts(t)[k]] < Height[t]

\* checkObjectRecursive, of t with the verdict on its parts: a credential-shaped key.
ViolatesAt(violates, t) ==
    \E k \in DOMAIN Parts(t) :
        (t.kind = "object" /\ k \in CREDENTIAL_PARAMETER_NAMES) \/ violates[Parts(t)[k]]
Violates[t \in Documents] == ViolatesAt(Violates, t)

Hidden(t, k) == t.kind = "object" /\ k \in CREDENTIAL_SHAPED_NAMES

ScrubbedPart(scrub, t, k) == IF Hidden(t, k) THEN Redacted ELSE scrub[Parts(t)[k]].obj
ScrubbedParts(scrub, t) == [k \in DOMAIN Parts(t) |-> ScrubbedPart(scrub, t, k)]
Scrubbed(scrub, t) ==
    CASE t.kind = "object" -> Obj(ScrubbedParts(scrub, t))
      [] t.kind = "array" -> Arr(ScrubbedParts(scrub, t))
      [] OTHER -> t

\* (mutant) a change below an array is not reported
ScrubAtForgetful(scrub, t) ==
    [obj |-> Scrubbed(scrub, t),
     modified |-> t.kind = "object" /\ \E k \in DOMAIN Parts(t) : Hidden(t, k) \/ scrub[Parts(t)[k]].modified]

\* scrubObjectRecursive, of t with the results for its parts.
ScrubAt(scrub, t) ==
    [obj |-> Scrubbed(scrub, t),
     modified |-> \E k \in DOMAIN Parts(t) : Hidden(t, k) \/ scrub[Parts(t)[k]].modified]
ScrubObject[t \in Documents] == ScrubAt(ScrubObject, t)

ASSUME RedactionAssumption == \A t \in Documents : ScrubObject[t].obj \in Documents

\* scrubResponseBody: only a parseable application/json, and only if modified.
ScrubBody(r) ==
    LET scrubbed == ScrubObject[r.tree]
    IN IF r.type = "json" /\ scrubbed.modified THEN scrubbed.obj ELSE r.tree

ScrubHeaders(names) == names \ CREDENTIAL_SHAPED_NAMES

CheckQuery(names) == names \cap CREDENTIAL_PARAMETER_NAMES = {}

\* checkRequestBody.
CheckBody(b) ==
    CASE b.type = "json" -> ~Violates[b.tree]
      [] b.type = "json-broken" -> FALSE
      [] b.type = "form" -> \A i \in DOMAIN b.fields : b.fields[i] \notin CREDENTIAL_PARAMETER_NAMES
      [] OTHER -> TRUE

\* (mutant) what the deployment allows is not looked at any further
RefusedUnlessAllowed(names) ==
    (names \ (AlwaysStripped \cup HOP_BY_HOP_HEADER_NAMES \cup FORWARD_HEADER_ALLOWLIST)) \cap CREDENTIAL_SHAPED_NAMES # {}

\* filterRequestHeaders: refused, or what is left of the headers.
RefusedHeaders(names) ==
    (names \ (AlwaysStripped \cup HOP_BY_HOP_HEADER_NAMES)) \cap CREDENTIAL_SHAPED_NAMES # {}
Forwarded(names) == (names \ (AlwaysStripped \cup HOP_BY_HOP_HEADER_NAMES)) \cap FORWARD_HEADER_ALLOWLIST

--------------------------------------------------------------------------------
(* api-call-audit.js *)

Text(content, fields) == [kind |-> "text", tree |-> content, fields |-> fields]
Bare(kind) == [kind |-> kind, tree |-> Leaf, fields |-> <<>>]

\* The first 8 KiB of a body: some of the fields of a form; JSON that is cut
\* off is broken, unless only white space, or what broke it, is cut off.
Prefixes(b) ==
    CASE ~b.large -> {b}
      [] b.type = "form" -> {[b EXCEPT !.fields = SubSeq(@, 1, i)] : i \in 0..Len(b.fields)}
      [] b.type \in {"json", "json-broken"} -> {[b EXCEPT !.type = type] : type \in {"json", "json-broken"}}
      [] OTHER -> {b}

\* (mutant) what is too long is stored as it is
CapturedLong(p) == IF p.large \/ CheckBody(p) THEN Text(p.tree, p.fields) ELSE Bare("omitted")

\* (mutant) a truncated capture is marked in place of its content
CapturedMarked(p) == IF p.large THEN Bare("truncated") ELSE Bare("omitted")

\* What is stored of a body whose first 8 KiB are p.
Captured(p) == IF CheckBody(p) THEN Text(p.tree, p.fields) ELSE Bare("omitted")

--------------------------------------------------------------------------------
Replies == {"none", "thrown", "denied", "400", "502", "vendor", "failed"}
Entries == {"node", "python", "bridge", "raw"}
Absent == [kind |-> "none"]
Empty == [headers |-> {}, tree |-> Leaf]
Body(type, t, fields, large) == [type |-> type, tree |-> t, fields |-> fields, large |-> large]
NoBody == Body("other", Leaf, <<>>, FALSE)

\* No header is named "[]", and what the platform adds is stripped.
ASSUME HeadersAssumption ==
    /\ "[]" \notin KeyHeaders
    /\ Platform \cap CREDENTIAL_HEADER_NAMES \subseteq AlwaysStripped \cup HOP_BY_HOP_HEADER_NAMES
ASSUME InputsAssumption ==
    \A r \in Inputs : /\ r = [via |-> r.via, headers |-> r.headers, query |-> r.query,
                              method |-> r.method, body |-> r.body]
                      /\ r.via \in Entries /\ r.method \in {"GET", "POST"}
                      /\ r.body = Body(r.body.type, r.body.tree, r.body.fields, r.body.large)
                      /\ r.body.tree \in Documents /\ r.body.fields \in Seq(STRING)
ASSUME ResponsesAssumption == Absent \notin Responses /\ \A r \in Responses : r.tree \in Documents

DataTypeOK ==
    /\ request.via \in Entries /\ request.method \in {"GET", "POST"}
    /\ pc \in {"client", "gates", "query", "body", "send", "response", "done"}
    /\ bodyRead \in BOOLEAN
    /\ answer.reply \in Replies
    /\ capture.kind \in {"none", "reading", "empty", "text", "omitted", "unavailable"}
    /\ row.kind \in {"none", "lost", "row"}

NoRequest == [via |-> "raw", headers |-> {}, query |-> {}, method |-> "GET", body |-> NoBody]

DataInit ==
    /\ request = NoRequest
    /\ pc = "client" /\ bodyRead = FALSE
    /\ sent = Absent /\ response = Absent
    /\ answer = [reply |-> "none", content |-> Empty]
    /\ capture = Absent /\ row = Absent

\* The call ends; what was sent is the vendor's business now.
Reply(r, content) == pc' = "done" /\ answer' = [reply |-> r, content |-> content]

\* (mutant) the bridge only replaces the authorization of its client
BridgedRaw(names) == names \ {"authorization"}

\* brokerRequestHeaders.
Bridged(names) == names \ Blocked

\* What the libraries throw at.
Thrown(r) ==
    \/ r.via = "node" /\ r.headers \cap CREDENTIAL_HEADERS # {}
    \/ r.via = "python" /\ r.headers \cap CallerHeaders # {}

OwnHeaders(r) == IF r.via = "bridge" THEN Bridged(r.headers) ELSE r.headers

\* A caller makes a request, of which the library or the bridge builds its own.
Client ==
    /\ pc = "client"
    /\ \E r \in Inputs :
          IF Thrown(r)
          THEN Reply("thrown", Empty) /\ request' = r /\ UNCHANGED capture
          ELSE /\ request' = [r EXCEPT !.headers = OwnHeaders(r) \cup {"authorization"} \cup Platform]
               /\ pc' = "gates" /\ UNCHANGED answer
               /\ capture' = IF r.method = "GET" THEN Bare("empty") ELSE Bare("reading")
    /\ UNCHANGED <<bodyRead, sent, response, row>>

\* Everything before the checks: identity, policy, role, grant, quota, secret.
Gates ==
    /\ pc = "gates"
    /\ Reply("denied", Empty) \/ (pc' = "query" /\ UNCHANGED answer)
    /\ UNCHANGED <<request, bodyRead, sent, response, capture, row>>

\* The header check, then the credential is put in and the request sent.
Forward(body) ==
    IF RefusedHeaders(request.headers)
    THEN Reply("400", Empty) /\ UNCHANGED sent
    ELSE \/ Reply("502", Empty) /\ UNCHANGED sent   \* no credential to put in
         \/ /\ pc' = "send" /\ UNCHANGED answer
            /\ \E key \in ((SUBSET KeyHeaders) \ {{}}) \cup {{"authorization"}} :
                  sent' = [kind |-> "sent", headers |-> Forwarded(request.headers), key |-> key,
                           query |-> request.query, body |-> body]

Query ==
    /\ pc = "query"
    /\ IF ~CheckQuery(request.query) THEN Reply("400", Empty) /\ UNCHANGED sent
       ELSE IF request.method = "POST" THEN pc' = "body" /\ UNCHANGED <<answer, sent>>
       ELSE Forward(NoBody)
    /\ UNCHANGED <<request, bodyRead, response, capture, row>>

\* The body is in; an upload that breaks off makes the handler throw.
ReadContent ==
    /\ pc = "body" /\ bodyRead' = TRUE
    /\ \/ Reply("failed", Empty) /\ UNCHANGED sent
       \/ ~CheckBody(request.body) /\ Reply("400", Empty) /\ UNCHANGED sent
       \/ CheckBody(request.body) /\ Forward(request.body)
    /\ UNCHANGED <<request, response, capture, row>>

\* The vendor answers, or the request fails.
Send ==
    /\ pc = "send" /\ sent' = Absent
    /\ \/ Reply("502", Empty) /\ UNCHANGED response
       \/ response' \in Responses /\ pc' = "response" /\ UNCHANGED answer
    /\ UNCHANGED <<request, bodyRead, capture, row>>

\* Its body is in and scrubbed; one that breaks off makes the handler throw.
Respond ==
    LET dropped == HOP_BY_HOP_HEADER_NAMES \cup {"content-encoding", "content-length"}
    IN
    /\ pc = "response"
    /\ \/ Reply("failed", Empty)
       \/ Reply("vendor", [headers |-> ScrubHeaders(response.headers) \ dropped, tree |-> ScrubBody(response)])
    /\ UNCHANGED <<request, bodyRead, sent, response, capture, row>>

\* The clone of the body has been read, or cancelled after 8 KiB, or failed.
Capture ==
    /\ capture.kind = "reading"
    /\ \/ \E p \in Prefixes(request.body) : capture' = Captured(p)
       \/ capture' = Bare("unavailable")
    /\ UNCHANGED <<request, pc, bodyRead, sent, response, answer, row>>

\* (mutant) only calls that reached the vendor are recorded
RecordableForwarded == answer.reply = "vendor"

\* A handler that throws leaves brokerRouteHandler before recordCall.
Recordable == answer.reply \notin {"thrown", "failed"}

\* recordCall, after the answer; the table may fail it.
Record ==
    /\ pc = "done" /\ Recordable /\ row = Absent
    /\ capture.kind # "reading"
    /\ \/ row' = [kind |-> "row", request |-> capture, response |-> answer.content.tree]
       \/ row' = [kind |-> "lost"]
    /\ UNCHANGED <<request, pc, bodyRead, sent, response, answer, capture>>

Handler == Client \/ Gates \/ Query \/ ReadContent \/ Send \/ Respond
DataNext == Handler \/ Capture \/ Record

\* A clone that was cancelled is let go only when the body itself is read.
LetGo == ~request.body.large \/ bodyRead

DataSpec ==
    /\ DataInit /\ [][DataNext]_dataVars
    /\ WF_dataVars(Record) /\ WF_dataVars(LetGo /\ Capture)

--------------------------------------------------------------------------------
(* A reference that knows nothing of the recursion: where a document ends. *)

\* A step into a document: a key, or a place in an array.
Step(t, k) == IF t.kind = "object" THEN [key |-> k, place |-> 0] ELSE [key |-> "[]", place |-> k]

\* An end, and how it is reached.
Below(t, k, ends) == {[path |-> <<Step(t, k)>> \o e.path, kind |-> e.kind] : e \in ends}
EndsAt(ends, t) ==
    IF DOMAIN Parts(t) = {} THEN {[path |-> <<>>, kind |-> t.kind]}
    ELSE UNION {Below(t, k, ends[Parts(t)[k]]) : k \in DOMAIN Parts(t)}
Ends[t \in Documents] == EndsAt(Ends, t)

Keys(path) == {path[i].key : i \in DOMAIN path}
Fields(form) == {form[i] : i \in DOMAIN form}

\* An end with its path cut after the first credential-shaped key.
Cut(e) ==
    LET shaped == {i \in DOMAIN e.path : e.path[i].key \in CREDENTIAL_SHAPED_NAMES}
        first == CHOOSE i \in shaped : \A j \in shaped : i <= j
    IN IF shaped = {} THEN e ELSE [path |-> SubSeq(e.path, 1, first), kind |-> "redacted"]

(* Properties *)

\* Whatever the deployment allows to be forwarded, the vendor gets no header of
\* the caller that is credential-shaped, the caller's own token or the
\* platform's, and none under a name the credential is put into; and no query
\* parameter, form field or JSON key that the code takes for credential-shaped,
\* which leaves out `key`, `token` and `client_id`; bodies of other types are not
\* looked at (credential-scrubber.js:21-24, :162-193).
NothingSmuggled ==
    sent # Absent =>
        /\ sent.headers \cap (CREDENTIAL_SHAPED_NAMES \cup sent.key \cup XMs \cup HOP_BY_HOP_HEADER_NAMES) = {}
        /\ sent.query \cap CREDENTIAL_PARAMETER_NAMES = {}
        /\ sent.body.type = "form" => Fields(sent.body.fields) \cap CREDENTIAL_PARAMETER_NAMES = {}
        /\ sent.body.type = "json" => \A e \in Ends[sent.body.tree] : Keys(e.path) \cap CREDENTIAL_PARAMETER_NAMES = {}

\* In an answer of the vendor exactly what is under a credential-shaped key is
\* replaced, at any depth, and no length or encoding of the original is passed
\* on with it (credential-scrubber.js:208-257, broker.js:530-535).
ResponseRedacted ==
    answer.reply = "vendor" =>
        /\ answer.content.headers \cap (CREDENTIAL_SHAPED_NAMES \cup {"content-length", "content-encoding"}) = {}
        /\ Ends[answer.content.tree] =
              IF response.type = "json" THEN {Cut(e) : e \in Ends[response.tree]} ELSE Ends[response.tree]

\* The audit row keeps of a JSON or form body none of the fields a request is
\* refused for, whether it was or not and wherever it is cut off, and of the
\* answer what the caller got (api-call-audit.js:3-5).  Fields the check does not
\* know (`key`, `token`, `client_id`) and bodies of other types are kept.
AuditClean ==
    row.kind = "row" =>
        /\ row.request.kind = "text" /\ request.body.type = "form"
              => Fields(row.request.fields) \cap CREDENTIAL_PARAMETER_NAMES = {}
        /\ row.request.kind = "text" /\ request.body.type \in {"json", "json-broken"}
              => \A e \in Ends[row.request.tree] : Keys(e.path) \cap CREDENTIAL_PARAMETER_NAMES = {}
        /\ answer.reply = "vendor" /\ response.type = "json"
              => \A e \in Ends[row.response] : Keys(e.path) \cap CREDENTIAL_SHAPED_NAMES # {} => e.kind = "redacted"

\* The names docs/SYSADMIN-GUIDE.md:296 lists; as headers the code knows them all.
BuiltIn == CREDENTIAL_HEADER_NAMES

\* What the guide says of a request that the vendor answered and the audit has a
\* row of: that with a body field of one of these names it would have been
\* refused, and nothing of it stored (docs/SYSADMIN-GUIDE.md:291, :493).
BuiltInFieldsRejected ==
    answer.reply = "vendor" /\ row.kind = "row" /\ row.request.kind = "text" =>
        /\ request.body.type = "form" => Fields(row.request.fields) \cap BuiltIn = {}
        /\ request.body.type = "json" => \A e \in Ends[row.request.tree] : Keys(e.path) \cap BuiltIn = {}

\* What the libraries and the bridge let through, the broker does not refuse
\* for a header, unless it is one the deployment reserves: the four lists agree
\* (ninja-client.mjs:48, broker_client.py:34, sdk/index.js:46).
ClientsAgree ==
    pc \in {"gates", "query", "body"} /\ request.via # "raw"
        => ~RefusedHeaders(request.headers) \/ request.headers \cap KeyHeaders # {}

\* Every call that was answered is recorded, or the table failed; but for a
\* body beyond 8 KiB that nobody read (api-call-audit.js:37).
Recorded ==
    pc = "done" /\ answer.reply \notin {"thrown", "failed"} /\ (~request.body.large \/ bodyRead)
        ~> row # Absent
================================================================================
