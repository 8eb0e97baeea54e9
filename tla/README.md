# Verification of the Azure API broker

A TLA+ development beside the broker's code: modules that model its stateful parts, TLC
configurations that check them on small instances, and theorems checked by TLAPS.
`PROJECT.json` lists the runs, the source lines behind each definition, the hazards, the
mutants that show each property to have teeth, and what was found.

## The system

Callers hold an Entra ID app role per vendor connection and never see a vendor credential.
The **broker** (function-node) checks the caller, reads the **policy** (who may use which
connection), counts the call against a **quota**, fetches the vendor credential from Key
Vault, injects it, calls the vendor and returns the scrubbed answer. Operators change the
policy through the **management API** (admin-function). Both function apps run on several
hosts that share nothing but the stores: Azure Table Storage (policy, counters, audit) or App
Configuration (policy), and Key Vault (credentials). Around them are client libraries, a local
bridge with browser sign-in, a local admin console, and deployment scripts.

| part | state | operations | what makes it correct |
|---|---|---|---|
| quota counters, `rate-limiter.js` | one row per (scope, id, minute) in the table; per host `tableClient`, `initError` | `quotaCheck` | no increment lost, no quota exceeded, the key counted before the caller, the retry loop ends |
| secret and token caches, vendor call, `broker.js` | per host `secretCache`, `oauthTokenCache` | `getSecret`, `getOauthToken`, the recovery loop | nothing stale is used for longer than promised, a write is sent once, a refused token is replaced |
| policy store and management API, `policy-store.js`, `admin.js` | two documents with etags; Key Vault | create, status, rotate, grant, revoke | no update lost, no shared secret, recorded rotations happened |
| runtime policy and grant decision, `runtime-policy.js`, `connection-grants.js`, `role-routing.js` | per host `cached` | the cached read, `authorizeGrant` | a revocation bites in bounded time, a grant is honoured |
| request pipeline and preflight, `broker.js`, `preflight.js`, `hosted-authority.js` | none but a request's own | gates in order | nothing reaches the vendor past a gate; preflight agrees with the call |
| endpoint policy, `endpoint-policy.js` | none | `evaluateEndpointPolicy` | deny wins, however slashes are doubled |
| scrubber and audit, `credential-scrubber.js`, `api-call-audit.js` | a request's two copies of its body; table rows | check, filter, redact, `captureRequestContent`, `recordCall` | no header or field the code takes for a credential reaches vendor, caller or audit; an answered call is recorded |
| client libraries, `clients/node`, `broker_client.py`, `clients/dotnet` | token caches; python's resolver | call, retry, `pin_dns` | no early retry, no repeated write, no expired token |
| bridge, `clients/bridge` | the session, the server, the application it started | login, `serve`, `run`, signals | nothing is sent without a session, a clean exit leaves nobody behind |
| local admin console, `admin-ui/server.mjs` | what its adapters store | create, credential, grant, revoke, integration, observations | credential before connection, an answer and an audit that tell what was done |
| deployment, migration | none | one-shot scripts | repeatable |

Hard here are: interleavings of hosts and operators over stores that only offer conditional
writes; reads before an await whose result is used after it (every cache takes the clock
before and stores after); answers that are lost after the effect; caches that outlive what
they cached; retries of writes; two documents written and read separately although the
one refers to the other; and, in the local tools, signals and callbacks that meet a request
half done.

## Modules

| module | code | abstract counterpart |
|---|---|---|
| `FetchAndIncrement` | what the quota counters promise | |
| `RateLimiter`, `RateLimiterProofs` | `rate-limiter.js` | `FetchAndIncrement` |
| `VendorCall`, `VendorCallProofs` | `broker.js` 128-180 and 386-553 | |
| `PolicyDocuments` | the documents, the checks of `admin.js`, the edits of `policy-store.js`, as operators | |
| `PolicyBook` | what the store promises operators: requests take effect atomically, at most once | |
| `PolicyStore`, `PolicyStoreProofs` | `admin.js` 183-302 over `policy-store.js` | `PolicyBook` |
| `PolicyRuntime`, `PolicyRuntimeProofs` | `runtime-policy.js`, `connection-grants.js`, `broker.js` 251-361 | extends `PolicyBook`, the operators' side |
| `EndpointPolicy` | `endpoint-policy.js`, as operators | |
| `Authorization`, `AuthorizationProofs` | `broker.js` 227-395 and 562-642, `preflight.js`, `role-routing.js`, `connection-grants.js` | extends `EndpointPolicy` |
| `DataPath`, `DataPathProofs` | `credential-scrubber.js`, `api-call-audit.js`, `broker.js` 397-552, the header lists of the clients | |
| `Clients`, `CallerProofs` | `broker-retry.mjs`, `ninja-client.mjs`, `broker_client.py`, `broker_config.py`, `Program.cs`, against the broker's window | |
| `Bridge`, `CallerProofs` | `broker-bridge.mjs`, `public-oidc.mjs`, `session.mjs`, `launcher.mjs` | |
| `AdminConsole`, `AdminConsoleProofs` | `admin-ui/server.mjs` | |
| `MC*` | model values and symmetry for TLC; `MCCallers` and `MCOperators` unite programs in one run | |

How they meet: a call passes `Authorization`'s gates with the policy `PolicyRuntime` reads,
which is the book that `PolicyStore` implements; then the quota of `RateLimiter`; then
`VendorCall` fetches the credential and `DataPath` is what the call carries there and back.
`Clients` and `Bridge` are in front of all of it, with the quota and the gates reduced to what
they answer. `PolicyRuntime` is the one composition in which both sides take steps: operators
by the atomic book, the broker by its own reads.

Common conventions: every `await` that another actor's step can come between is a step of its
own; a request's local variables are one record (`call`, `req`), of the set `Local` where a
proof needs it, or one variable each; a variable or field marked *history* is written by the
actions and read by properties only; a definition marked *(mutant)* is a broken variant of the
one below it, used only to show that a property notices. Deadlock is checked in every run but
`Callers` and `DataPathBuiltIn`: a bridge's process ends, and so does the one call of `DataPath`.

Two runs unite programs that share nothing: `Callers` those of the callers' side (`Clients`,
`Bridge`, `DataPath`) and `Operators` the two consoles (`PolicyStore`, `AdminConsole`). Each program
has one initial state and takes its steps while the others are in theirs, so the states of the
union are the sum of theirs, each property speaks of its own program, and the fairness is that
of the program that runs. Names that would clash are prefixed in `Bridge`, `DataPath` and
`AdminConsole`.

### RateLimiter

State: the table rows with their count and etag, the module variables `tableClient`
(`client`) and `initError` per host, and per check its position in `quotaCheck`, the entity
it read, its retries and what it was told. `Start`, `Connect`, `Read`, `Create`, `Update` and
`Backoff` are the stretches of `quotaCheck`/`incrementAndCheckWithRetry` between two awaits;
the table operation and the resumption after it are one step, since nothing shared changes
between them. The environment may fail an operation, take a write and lose the answer
(`WriteUnseen`: the SDK then gives up, or repeats the write and meets its own effect),
return a row without an etag, restart a host (losing module state and the checks under way)
and advance the minute.

Run `RateLimiter` (two checks, two hosts, limits 1, three attempts, two faults, two minutes,
open mode) checks the type invariant, `NoLostIncrement`, `QuotaBinds`,
`CallerBudgetNeedsKey`, the refinement `CounterIsAtomic` and, under weak fairness of each
check's step, `EveryCheckEnds`. Two checks are the smallest number that race; two faults
allow a lost answer followed by a failure or restart; a limit of 1 makes the second check
meet it; that nothing depends on these numbers is what the proofs add (liveness apart).
The fairness is that of the event loop and of SDK requests that end; a restart takes a check
away instead of answering it.

Not a run, but seen in the model: `getTableClient` remembers the error of one failed
`createTable`, so a host that met an outage at its first check refuses (or, in open mode,
lets pass uncounted) every later one until it restarts; and in open mode three etag conflicts
are reported by the same exception as an outage, so with four concurrent checks an exhausted
quota is passed while the store is reachable.

### VendorCall

One host, one connection: credential versions, tokens, the two caches, and each call's
position from Key Vault to the answer. A remote read and the arrival of its answer are two
steps because `getSecret` and `getOauthToken` take the clock before the read and write the
cache after it. The environment rotates the secret, retires old credentials, revokes tokens,
lets the vendor fail before or after it executed a request, and advances the clock. The
secret may be injected as a static key or exchanged for a token (`oauth2cc`); `Entra`
injection, whose token the SDK caches, is left out.

Run `VendorCall` (two calls, one of them a write, both injections, secret lifetime 1, token
lifetime 2 with a margin of 1, three instants, two tokens, two versions of the static key)
checks `CachesFresh`, `AppliedAtMostOnce`, `RecoveryBefore401` and, under weak fairness of each
call's step, `EveryCallAnswered`. `CachesFresh` has two halves: a secret is not served longer
than its lifetime after it was replaced, though a slow read may overwrite a newer entry; and a
token is not served into its last margin on the vendor's clock. The lifetimes are long enough
for a token to be cached, expire and be minted again, and for a slow read to come back after a
rotation. The fairness is that the SDKs and `fetch` answer or throw (the code itself sets no
timeout on the vendor call). The bound on tokens takes minting away but never the failure of
it, so it blocks nobody.

Not a run, but seen in the model: a vendor's 401 for a static key is not followed by a new
read of the secret (`broker.js`:501 asks for oauth2cc), although docs/SYSADMIN-GUIDE.md:445 promises
one, so a replaced key is sent until its entry expires; and a token minted from a replaced
credential outlives the secret cache. `CachesFresh` speaks of neither. A token's lifetime is what
the vendor says; the 300 s the code assumes where the vendor says nothing (:157) may be wrong.

### PolicyDocuments, PolicyBook, PolicyStore

State: the two documents with an etag each, Key Vault's version per secret, and each
request's copy of what it read. `Read` is one answer of the concurrent gets of
`PolicyStore.read`; the step of the last one also makes the handler's checks. `Write` edits
the copy and stores it under the etag of the read; the answer may be lost, in which case the
library's second attempt at a create meets its own row. Key Vault may store the version and
lose the answer. `Audit` may fail after the change is stored.

Run `Operators`, its half of `PolicyStore` (three requests of any kind on an empty table, two roles,
two secrets, one subject, two versions), checks `DocumentsAgree` (no secret of two roles, no grant without its
connection), `RotationBacked` (a recorded rotation happened, and the record does not go back)
and the refinement `BookIsAtomic`. Three requests are needed for a connection, a grant on it
and a third that races with either; the symmetry is that of request and secret names, which no
property tells apart (every property checked there is one of safety). Once a row exists, App
Configuration with its If-Match behaves as the table does. Connection ids are assumed to be
different for different roles (`AdminIdAssumption`), which the console does not enforce: it
derives them from the names (`policy-store.js`:169) and edits the first entry it finds.

Run `PolicyStoreUnseeded` refutes `StaleNeverStored` in App Configuration without documents,
where the first write has no condition. Not a run, but seen in the model: of two creates of a
row the loser is told 409, but of two updates the loser is told 400, since a 412 sets
`statusCode` and not the `status` the handler looks at.

### PolicyRuntime

The broker's side: the cached value with its expiry, and each call's two gets, decision and
outcome; the operators' side is `PolicyBook`, which `PolicyStore` implements. One host is
enough, since hosts share only the store. `Parses` refuses the whole grants document for one
unknown connection or field, as `parseConnectionGrants` does. `MaxLatency` bounds a read of the
store; `Ttl` is the cache's lifetime. A call that is let through at `now` did hold its grant
later than `Ttl + MaxLatency` ago (`RevocationBites`), whatever slow answers overwrite; and
once nobody changed the policy for that long a granted caller is let through
(`QuietGrantAdmits`).

Run `PolicyRuntime` (two calls, two connections, two requests, lifetime 1, latency 1, three
instants) checks both. One connection is there and granted from the start, so that two
requests suffice for the torn read: a connection is created and granted between the two gets,
and the document names a connection the role map does not have. Three instants are the
shortest run in which `Ttl + MaxLatency` has passed after a change.

Run `PolicyRuntimeVersioned` refutes `QuietGrantAdmits` on a table without documents: the
console edits a default document whose `schemaVersion` the broker does not take. Run
`PolicyRuntimeRevoked` refutes `RevokedOnNextCall`, what `broker.js`:336, the specification
(spec/broker-bridge-build-spec.md:214, :299) and the runbook (identity/grant-revoke-runbook.md:151)
promise: a call that begins after a grant was removed is let through by a cached copy. What the
code does keep is `RevocationBites`. Not a run, but seen in the model: a role of several segments
has another id in the console than in the broker, so a grant made for it makes the broker refuse
the whole document.

### Authorization, EndpointPolicy

One request against one policy. The gates of `brokerHandler` keep no state and, after the one
await of the policy, nothing they read can change before the quota, so the state is the
policy read, the caller's verified claims and the request; what changes meanwhile is in the
other modules. `Gates` lists the early returns in their order and `Passes` says when each is
passed; `Deny` answers at the first that is not. `PreflightHandler` is the answer of
`runPreflight` with its own view of the same data. `EndpointPolicy` holds the path
normalisation and rule matching over sequences of segments.

Run `Authorization` has three roles of which two have one slug, every combination of a role
map entry (absent, on, off, without a base URL, a denied prefix, a denied path, one allowed
read, malformed)
for the first role, absent or on for the others, a grant to nobody, a user, a group or a
workload on each of two slugs, callers with and without object id, group claims (well formed,
not, or both) and roles, and paths that name a slug, do not, have a doubled, leading or final slash,
a dot segment, or ask for preflight. Two slugs are what the routing, the ambiguity and the
spoiling of a document by another connection's entry need. It checks `EntitledOnly`,
`LockedOut` (against a definition of its own that looks at the segments, and at a slash behind
the last one) and `PreflightSound`. `LockedOut` takes a path with a final slash for another path than
the one without, as the code does: a denied `/v1/models` is reached as `/v1/models/` on the legacy
route (where the path names the vendor, the slash is dropped), and what `endpoint-policy.js`:48
says of dodging an exact rule is about doubled slashes. `PreflightSound` says that an "allowed" is
honoured exactly for callers with an oid under an unambiguous map: a workload with an azp alone may
be told "allowed" and is always denied, and so is everybody when two roles have one slug. Vendor routing is on; the legacy rule of exactly one role is taken by the
paths that name no slug.

Run `AuthorizationPreflight` refutes `PreflightAligned`: `runPreflight` takes the selected
connection for the only known one, so a document that grants any other is refused and the
caller is told "grant-denied". Not a run, but in the model: a workload grant admits nobody,
since `identityForGrants` is never given a workload; a group claim that does not begin with
"group:" makes preflight answer 500.

### DataPath

One call with its headers, query, body and the vendor's answer, and beside it the audit's
capture of the request, which reads the clone of a stream that the handler reads too. `Client`
applies the header rules of the library the call comes through, `Gates`, `Query` and
`ReadContent` are the handler's checks in order, `Send` and `Respond` the exchange with the
vendor, `Capture` and `Record` the audit. Names are compared without regard to case and stand
for themselves; values are left out; a JSON document is a tree; a body may be cut off at 8 KiB
(`large`) or not be what its type says. `Violates` and `ScrubObject` are the code's recursive
functions, over the constant `Documents`: any set of trees that contains their parts
(`DocumentsAssumption`, with `Height` to say that each is finite) and their redactions
(`RedactionAssumption`). The properties compare them with `Ends`, the set of paths to the leaves
of a document, which knows nothing of redaction. `HeadersAssumption` says that no header
a credential is put into is called "[]" (header names have no brackets, and "[]" stands for a
place in an array) and that what the platform adds to a request is stripped, not refused.

Run `Callers` takes, in its part of `DataPath`, every header name of any of the lists, alone,
through each library; every query name; bodies (of a GET too, which the handler does not look
at) of depth two with a key that is credential-shaped everywhere, one that is so only in
responses and one that never is; and vendor documents of the same kind, with two fields or
elements so that a level can hold both. The functions treat each header and each level alike, so
one at a time and two deep reach every branch. It checks `NothingSmuggled`, `ResponseRedacted`,
`AuditClean`, `ClientsAgree` and, under weak fairness of the audit, `Recorded`. A clone of a
body beyond 8 KiB is let go only when the original is read, and the fairness of `Capture` says
so.

What query and body are checked for is `CREDENTIAL_PARAMETER_NAMES`, three names fewer than what
headers are checked for, and `NothingSmuggled` and `AuditClean` say no more than the code looks
for. Run `DataPathBuiltIn` refutes `BuiltInFieldsRejected`, what the guide says
(docs/SYSADMIN-GUIDE.md:291, :296, :493): a body field called `token`, `key` or `client_id` is
not answered 400 but sent on, and it is stored, although request and answer bodies are "never
logged".

Seen in the model, and true of the code: a body that is neither JSON nor a form passes unchecked
and is stored in the audit; an answer that is not `application/json` (such as
`application/problem+json`) is passed on unredacted; a handler that throws, on a broken upload
or answer, leaves no row; and a call refused before its large body was read is never recorded.
`Recorded` excepts the last two, for whose rows nothing in the repository speaks.

### Clients

Calls of any of the libraries against one quota window and a vendor that executes, refuses, or
loses answers. Time is relative (the position in the window, the life left of a
token, the wait left), so the clock needs no bound. The node library retries by
`broker-retry.mjs`, also on its own with an idempotency key; the python and .NET libraries
retry a refusal by the quota; node and .NET cache a token that all calls share, and python
patches the resolver of its process.

Run `Callers`, in its part of `Clients` (two calls; a window of 2 and a limit of 1, so that the second
call is refused and has a window to wait for; tokens of life 2 with a margin of 1; waits of 0 and 3
from the vendor, of which the longer one is more than a timer holds), checks `SentInTime` and
`WriteOnce`. No liveness: a client gives up after its attempts. The node library waits by
`setTimeout`, which makes 1 ms of a delay above 2^31-1 ms (`LongestDelay`): told to wait longer, it
asks again at once, and `SentInTime` excepts exactly this. The broker never says so much
(`DelayAssumption`), a vendor's Retry-After might; there `Task.Delay` and `time.sleep` may throw, and
the call ends. Seen in the model: an HTTP date in Retry-After falls back to one second; python takes one
token before its loop and uses it after both sleeps, so `SentInTime` speaks of the caching
libraries only.

Run `ClientsPinned` refutes `PinnedWhileCalling`, the "invocation-scoped" pin of
`broker_client.py`:8: of two overlapping calls the one that began first takes the pin away from
the other when it ends, and the other puts the first one's back for good.

### Bridge

One run of `serve` or `run`: the command line, discovery, the browser's callback or the timer, the exchange and
verification of the token, listening, requests with their upload, fetch and answer, the
signals, and the application that `run` starts. A token is its expiry. Every await is a step,
and the process may be ended by what the code does not catch: an aborted upload
(`broker-bridge.mjs`:52), a broken answer (:57), a malformed target (:40), a second, different
signal while closing (:67).

Both closes, of the login's callback server in its `finally` and of the bridge's own, wait for
every connection that is not idle; `held` is one on which nobody calls (a browser's preconnect, an
answer nobody reads), and a request in "body" may be an upload that stalls. Node ends neither, since
it stops its timers for them at the close. So a login or a stop need not end, and `NothingHangs`
says when they do: if time and again nobody holds a connection or an upload.

Run `Callers`, in its part of `Bridge` (two requests, a token of life 2, four instants), checks
`AdmittedWithSession`, `CleanExit` and `NothingHangs`. Two requests are one in flight while another
comes. The fairness: fetch ends, the 120 s timer of the login fires, a close whose connections are
gone ends; a browser, a user, an upload or an application owe nothing. `AdmittedWithSession` is
about admission. Seen in the model: a request admitted before
the sign-out is sent with its token after it; an application that ignores the signal outlives
its bridge; a port that is taken ends `serve` with exit code 2 and the session uncleared; and
the bridge never refreshes its token, which spec/broker-bridge-build-spec.md:207 says the package does.
`oidc-session.mjs` is imported by nothing and is not modelled.

### AdminConsole

Every request of the local console's API over adapters (session, repository, secret sink,
audit) that may fail before or after they took effect. A request's position is the await it is
at; its identity is also that of the connection or grant it creates. Two assumptions: an
adapter's error carries no `status` of its own, and an adapter that says "not stored" stored
nothing.

Run `Operators`, its half of `AdminConsole` (three requests of any kind, one connection that is there
already, one subject), checks `CredentialBeforeConnection`, `ToldAsDone` and `DuplicatesOnlyInRaces`. Three
are a create, a grant on it and a second grant. Seen in the model: two grants of one subject
that overlap are both stored; a creation that fails between credential and connection leaves a
credential nobody names; a failure after the effect is answered 401, like every error without a
status, even if only the audit failed and the code knows that the change is stored
(`server.mjs`:101-102, :146), so `ToldAsDone` leaves 401 open; and the creation of an identity integration is not audited.

## Proofs

Each proof module proves what the run of its component checks of safety, for every value of
the constants, from the module's named assumptions. None of the properties is inductive alone;
`IInv` in each (`BridgeInv` for the bridge, `AdmittedPassed` with the types for the pipeline) is
the strengthening, and every proof has one step
per action.

`RateLimiterProofs` (`TypeCorrect`, `NeverLost`, `CallerAfterKey`, `QuotaHolds`, `Refinement`;
where sets are counted, `Checks` is finite). `IInv` adds `AbsentIsZero` (a row that does not
exist has count 0), `SeenIsPast` (an etag identifies the count: if the row still has the etag a
check read, it has the count it read, and a check never holds a later etag than the row),
`UnderWay`, `NotCalled` and `OkIsCounted` (what a check has been told so far). With
`SeenIsPast` a conditional write hands out exactly the stored count plus one, which nobody was
told yet by `NoLostIncrement`; hence tickets of one counter are distinct, and `QuotaHolds`
follows by mapping admitted checks one to one to tickets in `1..Limit`.

`VendorCallProofs` (`TypeCorrect`, `NeverStale`, `NoWriteRepeated`, `RecoveryTried`). A cached
secret expires a lifetime after a moment at which it was current (`SecretEntryOK`): true of the
entry because it is true of the answer on its way (`AnswerOK`: the clock was read before Key
Vault was). The same for a token and its margin (`TokenEntryOK`). A call is executed at most
once per time it is sent (`CountOK`), and a token tried after a 401 is a newer one
(`RecoveryOK`).

`PolicyStoreProofs` (`TypeCorrect`, `Agreement`, `Rotations`, `Atomicity`) assume
`Conditional`: the mode is the table, or documents are there. Without it writes have no
condition, and the run `PolicyStoreUnseeded` shows what follows. The heart of `IInv` is
`CopyOK`: a copy whose etag is still current is the stored document, and connections are never
removed. So a check made on the copy holds of the stored document at the moment of the write,
from which the agreement of the documents follows by the lemmas about what the edits preserve;
a check on the other document, which carries no condition, is saved by connections staying. `RotatedOK` says that the version a rotation is about to record is in Key
Vault. `Atomicity` maps each `Write` that is stored to the book's atomic step (with
`SameEdits`, that the two modules edit alike), each first successful answer to its
acknowledgement, and everything else to a stutter.

`PolicyRuntimeProofs` (`TypeCorrect`, `RevocationInTime`, `QuietGrant`). What a copy of a
document grants was granted at or after the moment the copy was asked for; so what the cache
grants was granted at most `Ttl + MaxLatency` before its entry expires (`CacheOK`, `CallOK`),
in whatever order slow reads come back. If nothing changed since the copy was asked for, it
is the stored document, which gives `QuietGrant`; that one assumes documents from the start
and roles whose ids agree in console and broker, without which it is false.

`AuthorizationProofs` (`TypeCorrect`, `Entitled`, `Locked`, `PreflightHonoured`, for any roles,
slugs, policies, callers and paths, with routing on or off). `Entitled` needs `AdmittedPassed`: an
admitted request passes all gates, still, because no step after `Admit` changes what the gates
read, and no other answer is one of an admitted request (`OtherAnswers`). From it the
entitlement follows gate by gate; that the path names no other role is what the first gate, an
unambiguous map, is for. `PreflightHonoured` compares the two decisions in any one state.
`PreflightHonoured` is an equivalence: without an oid or with an ambiguous map a gate is
never passed. `Locked` is about paths of any length. `NamesOf` shows by induction on the length that the
recursive function in `Names` meets its equation and leaves no empty segment; `Normalized`
that a normalised path is those segments, with at most one slash behind them. From them,
`BelowMatches` says that a prefix rule meets every path whose segments lie below its own, however
the slashes are set, and `MatchesBelow` that a rule meets only its own path and, as a prefix,
those below: the two halves of what the property asks of a denied and of an allowed path.

`AdminConsoleProofs` (`TypeCorrect`, `CredentialFirst`, `Told`, `Races`). Per request
`Coherent`, `Connected`, `Stored` and `Audited` tie its position to what it has changed;
`GrantsOfRequests` traces a grant to its request and `Met` says that of two requests for one
grant that are both past the list, each saw the other there.

`DataPathProofs` (`TypeCorrect`, `Unsmuggled`, `Redaction`, `AuditIsClean`, `Agreement`, for any
injected, allowed and platform headers, any requests and responses, and documents of any
height). That a recursive function meets its equation is not given but proved: `SolutionUpTo`
builds one for the documents below each height, `SolutionsAgree` makes it the only one, and
`Equations` is the result for all three functions at once. Induction over documents
(`DocumentInduction`) is the least-number principle on their heights. With it `PassedIsClean`
says that a body `Violates` passes has no key of `CREDENTIAL_PARAMETER_NAMES` on the way to any end,
`UnmodifiedIsClean` that a document reported unmodified has nothing to redact, and
`ScrubbedEnds` that the ends of a redacted document are the ends of the original, each cut
after its first credential-shaped key. The invariant carries these to where the data goes: what was
sent passed the checks (`RequestOK`), an answer is the scrubbed response (`AnswerOK`), what the
audit keeps passed the same check after it was cut (`CaptureOK`), and the row is made of the two
(`RowOK`).

`CallerProofs` is about the two programs that callers run, `Clients` and `Bridge`; they share no
state, and no step of one is one of the other. For the libraries (`TypeCorrect`, `InTime`,
`Once`: any number of calls, any window, limit, waits and token lifetimes) the invariant says of every call that it
was sent once more than it was retried (`AttemptsOK`); that what is on its way was not executed
and what was answered at most once (`ExecutedOK`), so that asking the vendor before the second
attempt of a write is what keeps `WriteOnce`; that a wait is at least what is left of the last
Retry-After, and of the window if it was the window that refused (`WaitOK`), which is true at the
refusal, since the broker answers with all that is left of its window, which any timer holds, and
which the clock keeps; and that a caching library looked at its token (`TokenOK`). For the bridge (`BridgeTypeCorrect`, `Admitted`, `EndsClean`, for any number of
requests, any lifetime of the token and any bound of the clock): `SessionOK` says when
there is no session (during the login, and from the moment the server begins to close), `AppOK`
that an application is one of `run` and started last, `ToldOK` that one still running when the
server closes was told, and `RequestOK` that requests exist only while the bridge listens or
closes and are lost only by an abrupt end. `Admitted` follows from `SessionOK`: where a request
arrives, a session that is not empty is the login's token and the server is not closing.

So every safety property of a passing run is also a theorem. Only model-checked is liveness
(`EveryCheckEnds`, `EveryCallAnswered`, `NothingHangs`, `Recorded`), since fairness and ENABLED
are beyond the prover; and what the runs refute has no proof, of course. What the
theorems say is about the model: the abstractions named above are taken as they stand.

## Not modelled, and what comes next

* Identity validation (`oidc-identity-adapter.js`, `generic-oidc-validation.js`): checks over
  single tokens and cryptography. `Authorization` takes their verdict. One thing there is not
  visible in the model: in the OIDC modes the request is copied by spreading it
  (`broker.js`:239), and the audit looks for the caller in the original one (:638).
* Vendor profiles, principals and the branding row of the management API, which take the same
  steps as the two documents and are referred to by nothing; the read-only handlers, the
  client-events audit and the traffic report, a pure function over rows.
* Deployment, migration and identity scripts, which drive the Azure CLI. One hazard is worth
  the reader's attention: `bootstrapPolicy` (`deploy/lib/product.mjs`:113-129) sets the empty
  documents unconditionally on every deploy, so a second deploy erases what operators stored,
  wherever the apps read the keys it writes; by default they read others.
* `token-lifecycle.js`, `static-key-rotation.js` and `request-rate-limits.js`, which no handler
  imports.
* The browser UIs, which present these APIs; configuration checks and presets of the clients
  and the bridge; infrastructure templates.

Next would be a third document in `PolicyBook` for profiles and branding, and proofs that the
operators of `Authorization` and `PolicyRuntime` that both model the parsing of the grants
document agree.
