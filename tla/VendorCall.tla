------------------------------- MODULE VendorCall -------------------------------
(***************************************************************************)
(* function-node/src/broker.js from the Key Vault read to the answer: the  *)
(* in-memory secret cache (getSecret), the vendor token cache              *)
(* (getOauthToken) and the recovery loop around the vendor call.           *)
(*                                                                         *)
(* One host, one connection.  Credentials are the versions 1, 2, ... of    *)
(* its Key Vault secret, tokens are numbered in the order the vendor       *)
(* issues them, 0 stands for none.  Every await is a step, and a remote    *)
(* read and the arrival of its answer are two, because the code takes the  *)
(* clock before the one and writes the cache after the other.              *)
(***************************************************************************)
EXTENDS Naturals

CONSTANTS
    Calls,        \* the requests that passed the gates before Key Vault
    Writes,       \* those whose method is neither GET nor HEAD
    Injects,      \* the modes to check: "oauth2cc", "static" (header, bearer, pair, basic)
    SecretTtl,    \* SECRET_TTL_MS
    TokenTtl,     \* expires_in of the vendor's tokens
    Margin,       \* the 60 s by which a cached token expires early
    MaxTime, MaxVersion, MaxTokens,  \* bounds: clock, rotations, tokens issued
    Rotating      \* bound: the modes in which the secret is rotated

ASSUME InjectAssumption == Injects \subseteq {"oauth2cc", "static"}
ASSUME TtlAssumption == SecretTtl \in Nat /\ TokenTtl \in Nat /\ Margin \in Nat /\ Margin <= TokenTtl
ASSUME BoundAssumption == MaxTime \in Nat /\ MaxVersion \in Nat \ {0} /\ MaxTokens \in Nat
ASSUME WritesAssumption == Writes \subseteq Calls

VARIABLES
    inject,       \* the connection's injection mode, the same throughout a behaviour
    now,          \* the clock
    vault,        \* the current version of the secret in Key Vault
    replacedAt,   \* history: when a version stopped being current (Never: it is)
    oldest,       \* vendor: the oldest credential it still accepts
    tokens,       \* vendor: tokens[t] = the credential and expiry of token t
    issued,       \* vendor: how many tokens it issued
    revoked,      \* vendor: the tokens it revoked early
    secretCache,  \* module variable secretCache: its entry for this secret
    tokenCache,   \* module variable oauthTokenCache: its entry for this secret
    call          \* call[c]: the local variables of brokerHandler for call c

vars == <<inject, now, vault, replacedAt, oldest, tokens, issued, revoked, secretCache,
          tokenCache, call>>
vendor == <<inject, oldest, tokens, issued, revoked>>

Never == MaxTime + 1
Time == 0..MaxTime
Version == 0..MaxVersion
Token == 0..MaxTokens
Status == {"none", "ok", "401", "5xx", "502", "refused"}
Awaits == {"vault", "vaultAnswered", "validate", "mint", "minted", "send",
           "status", "backoff"}

\* What a call holds.
Local == [
    pc : {"idle", "done"} \cup Awaits,
    asked : Time,         \* the const now of the cache function in progress
    got : Nat,            \* what the remote read answered
    held : Version,       \* vendorKey, or the pair parsed from it
    token : Token,        \* the bearer token in outHeaders
    reminted : BOOLEAN, retried : BOOLEAN,   \* reminted, retried5xx
    status : Status,      \* vresp.status
    reply : Status,       \* what the caller is answered
    began : Time,         \* history: when the call reached Key Vault
    rejected : Token,     \* history: the token its first 401 refused
    remintFailed : BOOLEAN,   \* history
    applied : 0..3]       \* history: times the vendor executed the request

TypeOK ==
    /\ inject \in Injects
    /\ now \in Time
    /\ vault \in 1..MaxVersion
    /\ replacedAt \in [1..MaxVersion -> 0..Never]
    /\ oldest \in 1..MaxVersion
    /\ tokens \in [1..MaxTokens -> [cred : Version, exp : Nat]]
    /\ issued \in Token
    /\ revoked \subseteq 1..MaxTokens
    /\ secretCache \in [value : Version, exp : Nat]
    /\ tokenCache \in [token : Token, exp : Nat]
    /\ call \in [Calls -> Local]

Idle == [pc |-> "idle", asked |-> 0, got |-> 0, held |-> 0, token |-> 0,
         reminted |-> FALSE, retried |-> FALSE, status |-> "none", reply |-> "none",
         began |-> 0, rejected |-> 0, remintFailed |-> FALSE, applied |-> 0]

Init ==
    /\ inject \in Injects
    /\ now = 0 /\ vault = 1 /\ oldest = 1
    /\ replacedAt = [v \in 1..MaxVersion |-> Never]
    /\ tokens = [t \in 1..MaxTokens |-> [cred |-> 0, exp |-> 0]]
    /\ issued = 0 /\ revoked = {}
    /\ secretCache = [value |-> 0, exp |-> 0]
    /\ tokenCache = [token |-> 0, exp |-> 0]
    /\ call = [c \in Calls |-> Idle]

--------------------------------------------------------------------------------
(* Pieces of the handler.  Each yields the next local state of a call. *)

\* (asked and got are cleared once they are out of scope)
Reply(c, s) == [call[c] EXCEPT !.pc = "done", !.reply = s, !.asked = 0, !.got = 0]
Set(c, next) == call' = [call EXCEPT ![c] = next]

\* getOauthToken up to its first await.
TokenOrMint(c) ==
    IF tokenCache.token # 0 /\ tokenCache.exp > now
    THEN [call[c] EXCEPT !.token = tokenCache.token, !.pc = "send"]
    ELSE [call[c] EXCEPT !.asked = now, !.pc = "mint"]

\* (mutant) the re-mint consults the cache as well
RemintCached(c) ==
    [TokenOrMint(c) EXCEPT !.reminted = TRUE, !.rejected = call[c].token]

\* getOauthToken with forceRefresh: the cache is not consulted.
Remint(c) ==
    [call[c] EXCEPT !.reminted = TRUE, !.rejected = call[c].token, !.asked = now, !.pc = "mint"]

\* (mutants) the clock is read after the answer arrived
SecretEntryLate(c) == [value |-> call[c].got, exp |-> now + SecretTtl]
TokenEntryLate(c) == [token |-> call[c].got, exp |-> now + TokenTtl - Margin]

\* The entries the two caches store.  A token is cached for the lifetime the vendor
\* gave it, and expires then; without an expires_in the code assumes 300 s.
SecretEntry(c) == [value |-> call[c].got, exp |-> call[c].asked + SecretTtl]
TokenEntry(c) == [token |-> call[c].got, exp |-> call[c].asked + TokenTtl - Margin]

\* (mutants) writes are sent again as well; reads without a bound
MayRetryWrites(c) == ~call[c].retried
MayRetryForever(c) == c \notin Writes

\* Only reads are sent again after a 5xx, once.
MayRetry(c) == c \notin Writes /\ ~call[c].retried

\* The vendor's view of the credential in the request.
Accepted(c) ==
    IF inject = "oauth2cc"
    THEN call[c].token \notin revoked /\ tokens[call[c].token].exp > now
    ELSE call[c].held >= oldest

--------------------------------------------------------------------------------
\* Every gate passed; getSecret looks at its cache.
Begin(c) ==
    /\ call[c].pc = "idle"
    /\ Set(c, IF secretCache.value # 0 /\ secretCache.exp > now
              THEN [call[c] EXCEPT !.began = now, !.held = secretCache.value, !.pc = "validate"]
              ELSE [call[c] EXCEPT !.began = now, !.asked = now, !.pc = "vault"])
    /\ UNCHANGED <<now, vault, replacedAt, vendor, secretCache, tokenCache>>

\* Key Vault reads its current version, or fails.
VaultAnswers(c) ==
    /\ call[c].pc = "vault"
    /\ \/ Set(c, [call[c] EXCEPT !.got = vault, !.pc = "vaultAnswered"])
       \/ Set(c, Reply(c, "502"))
    /\ UNCHANGED <<now, vault, replacedAt, vendor, secretCache, tokenCache>>

\* The value arrives: whatever the cache holds by now is overwritten.
SecretArrives(c) ==
    /\ call[c].pc = "vaultAnswered"
    /\ secretCache' = SecretEntry(c)
    /\ Set(c, [call[c] EXCEPT !.held = call[c].got, !.got = 0, !.asked = 0, !.pc = "validate"])
    /\ UNCHANGED <<now, vault, replacedAt, vendor, tokenCache>>

\* Query, body and header checks and the parse of the secret, any of which
\* may end the call; then the credential is put into the request.
Validate(c) ==
    /\ call[c].pc = "validate"
    /\ \/ Set(c, Reply(c, "refused"))
       \/ inject = "static" /\ Set(c, [call[c] EXCEPT !.pc = "send"])
       \/ inject = "oauth2cc" /\ Set(c, TokenOrMint(c))
    /\ UNCHANGED <<now, vault, replacedAt, vendor, secretCache, tokenCache>>

\* The token endpoint issues a token for the pair the call holds.
Mint(c) ==
    /\ call[c].pc = "mint"
    /\ call[c].held >= oldest /\ issued < MaxTokens
    /\ issued' = issued + 1
    /\ tokens' = [tokens EXCEPT ![issued + 1] = [cred |-> call[c].held, exp |-> now + TokenTtl]]
    /\ Set(c, [call[c] EXCEPT !.got = issued + 1, !.pc = "minted"])
    /\ UNCHANGED <<inject, now, vault, replacedAt, oldest, revoked, secretCache, tokenCache>>

\* The endpoint refuses the pair or fails: 502, or after a 401 the 401 stands.
MintFails(c) ==
    /\ call[c].pc = "mint"
    /\ Set(c, IF call[c].reminted
              THEN [Reply(c, "401") EXCEPT !.remintFailed = TRUE]
              ELSE Reply(c, "502"))
    /\ UNCHANGED <<now, vault, replacedAt, vendor, secretCache, tokenCache>>

TokenArrives(c) ==
    /\ call[c].pc = "minted"
    /\ tokenCache' = TokenEntry(c)
    /\ Set(c, [call[c] EXCEPT !.token = call[c].got, !.got = 0, !.asked = 0, !.pc = "send"])
    /\ UNCHANGED <<now, vault, replacedAt, vendor, secretCache>>

\* The vendor handles the request.  A 401 executes nothing; a 5xx, or a
\* connection that breaks, may come after the request took effect.
Send(c) ==
    LET Executed(next) == [next EXCEPT !.applied = @ + 1]
        With(s) == [call[c] EXCEPT !.status = s, !.pc = "status"]
    IN
    /\ call[c].pc = "send"
    /\ \/ ~Accepted(c) /\ Set(c, With("401"))
       \/ Accepted(c) /\ Set(c, Executed(With("ok")))
       \/ Accepted(c) /\ (Set(c, With("5xx")) \/ Set(c, Executed(With("5xx"))))
       \/ Set(c, Reply(c, "502"))
       \/ Accepted(c) /\ Set(c, Executed(Reply(c, "502")))
    /\ UNCHANGED <<now, vault, replacedAt, vendor, secretCache, tokenCache>>

\* The response arrives: one re-mint after a 401, one retry of a read after a
\* 5xx, else the response is passed on.
HandleStatus(c) ==
    /\ call[c].pc = "status"
    /\ \/ /\ call[c].status = "401" /\ inject = "oauth2cc" /\ ~call[c].reminted
          /\ Set(c, Remint(c))
       \/ /\ call[c].status = "5xx" /\ MayRetry(c)
          /\ Set(c, [call[c] EXCEPT !.retried = TRUE, !.pc = "backoff"])
       \/ /\ call[c].status = "401" => inject = "static" \/ call[c].reminted
          /\ call[c].status = "5xx" => ~MayRetry(c)
          /\ Set(c, Reply(c, call[c].status))
    /\ UNCHANGED <<now, vault, replacedAt, vendor, secretCache, tokenCache>>

Backoff(c) ==
    /\ call[c].pc = "backoff"
    /\ Set(c, [call[c] EXCEPT !.pc = "send"])
    /\ UNCHANGED <<now, vault, replacedAt, vendor, secretCache, tokenCache>>

Step(c) ==
    \/ Begin(c) \/ VaultAnswers(c) \/ SecretArrives(c) \/ Validate(c) \/ Mint(c)
    \/ MintFails(c) \/ TokenArrives(c) \/ Send(c) \/ HandleStatus(c) \/ Backoff(c)

--------------------------------------------------------------------------------
(* The world around the broker. *)

Tick ==
    /\ now < MaxTime
    /\ now' = now + 1
    /\ UNCHANGED <<vault, replacedAt, vendor, secretCache, tokenCache, call>>

\* An operator or the admin console stores a new version of the secret.
Rotate ==
    /\ inject \in Rotating
    /\ vault < MaxVersion
    /\ vault' = vault + 1
    /\ replacedAt' = [replacedAt EXCEPT ![vault] = now]
    /\ UNCHANGED <<now, vendor, secretCache, tokenCache, call>>

\* The vendor stops accepting the credentials that were replaced, or a token.
RetireOld ==
    /\ oldest < vault
    /\ oldest' = vault
    /\ UNCHANGED <<inject, now, vault, replacedAt, tokens, issued, revoked, secretCache, tokenCache, call>>

Revoke ==
    /\ \E t \in 1..issued \ revoked : revoked' = revoked \cup {t}
    /\ UNCHANGED <<inject, now, vault, replacedAt, oldest, tokens, issued, secretCache, tokenCache, call>>

Finished ==
    /\ \A c \in Calls : call[c].pc = "done"
    /\ UNCHANGED vars

Next ==
    \/ \E c \in Calls : Step(c)
    \/ Tick \/ Rotate \/ RetireOld \/ Revoke \/ Finished

Spec == Init /\ [][Next]_vars

\* Every await of the handler completes: the SDKs and fetch answer or throw.
FairSpec == Spec /\ \A c \in Calls : WF_vars(Step(c))

--------------------------------------------------------------------------------
(* Properties *)

\* A secret served from the cache was the current version within the last
\* SECRET_CACHE_TTL_SECONDS, although the read that filled the cache may have
\* been slow and may have been overtaken by another (broker.js:173).
SecretFresh ==
    secretCache.value # 0 /\ secretCache.exp > now
        => now < replacedAt[secretCache.value] + SecretTtl

\* A token served from the cache outlives the moment by the safety margin, on
\* the vendor's own clock (broker.js:128, "until 60s before expiry").
TokenLive ==
    tokenCache.token # 0 /\ tokenCache.exp > now
        => tokens[tokenCache.token].exp > now + Margin

\* What the caches serve is current: both of the above.
CachesFresh == SecretFresh /\ TokenLive

\* A request that is not a GET or HEAD is executed at most once, whatever
\* recovery happens in between (broker.js:488, "never re-send a
\* non-idempotent POST/PATCH the origin may have already partially applied").
AppliedAtMostOnce == \A c \in Writes : call[c].applied <= 1

\* With oauth2cc a caller is shown the vendor's 401 only after the broker tried
\* a token other than the refused one, or could not get one (broker.js:486).
RecoveryBefore401 ==
    \A c \in Calls : inject = "oauth2cc" /\ call[c].reply = "401" =>
        /\ call[c].reminted
        /\ call[c].remintFailed \/ call[c].token # call[c].rejected

\* The recovery loop ends: every call is answered.
EveryCallAnswered == \A c \in Calls : call[c].pc \in Awaits ~> call[c].pc = "done"
================================================================================
