---------------------------- MODULE VendorCallProofs ----------------------------
(***************************************************************************)
(* Proofs about VendorCall, for any calls, lifetimes and bounds: the       *)
(* types, that the caches serve nothing stale, that a write is executed at *)
(* most once, and that a 401 is shown only after a recovery was tried.     *)
(***************************************************************************)
EXTENDS VendorCall, TLAPS

\* A cached secret expires a lifetime after some moment at which it was current.
SecretEntryOK ==
    /\ secretCache.value # 0 => secretCache.exp <= replacedAt[secretCache.value] + SecretTtl
    /\ secretCache.exp <= now + SecretTtl

\* A cached token expires a margin before the vendor's own expiry.
TokenEntryOK ==
    /\ tokenCache.token <= issued
    /\ tokenCache.token # 0 => tokenCache.exp + Margin <= tokens[tokenCache.token].exp

\* The versions from the current one on have not been replaced.
NotReplaced == \A v \in vault..MaxVersion : replacedAt[v] = Never

\* An answer under way was read after the clock was.
AnswerOK(x) ==
    /\ x.asked <= now
    /\ x.pc = "vaultAnswered" => x.got \in 1..MaxVersion /\ x.asked <= replacedAt[x.got]
    /\ x.pc = "minted" => x.got \in 1..issued /\ x.asked + TokenTtl <= tokens[x.got].exp

\* A call is executed once per time it is sent: once, and once more after a 5xx.
Sent(x) == IF x.retried THEN 1 ELSE 0
CountOK(c, x) ==
    /\ x.retried => c \notin Writes
    /\ x.applied <= Sent(x) + 1
    /\ x.pc \notin {"status", "done"} \/ (x.pc = "status" /\ x.status = "401") => x.applied <= Sent(x)

\* After a 401 another token is tried.
RecoveryOK(x) ==
    /\ x.token <= issued /\ x.rejected <= issued
    /\ x.reply # "none" => x.pc = "done"
    /\ x.pc \in {"idle", "vault", "vaultAnswered", "validate"} => ~x.reminted
    /\ x.reminted /\ x.pc = "minted" => x.got # x.rejected
    /\ x.reminted /\ x.pc \in {"send", "status", "backoff"} => x.token # x.rejected
    /\ inject = "oauth2cc" /\ x.reply = "401" => x.reminted /\ (x.remintFailed \/ x.token # x.rejected)

CallOK(c, x) == AnswerOK(x) /\ CountOK(c, x) /\ RecoveryOK(x)

IInv ==
    /\ TypeOK
    /\ SecretEntryOK /\ TokenEntryOK /\ NotReplaced
    /\ \A c \in Calls : CallOK(c, call[c])

--------------------------------------------------------------------------------
(* What a step leaves alone. *)

\* A step that changes the record of one call.
LEMMA SetCall ==
    ASSUME TypeOK, NEW c \in Calls, NEW next \in Local, Set(c, next)
    PROVE  /\ call' \in [Calls -> Local]
           /\ call'[c] = next
           /\ \A d \in Calls : d # c => call'[d] = call[d]
PROOF
  BY DEF TypeOK, Set

\* What is known of a call stays true while time passes, tokens are issued and
\* secrets replaced.
LEMMA CallStays ==
    ASSUME TypeOK, NEW c \in Calls, CallOK(c, call[c]), call'[c] = call[c],
           inject' = inject, now' \in Nat, now <= now', issued' \in Nat, issued <= issued',
           \A t \in 1..issued : tokens'[t] = tokens[t],
           \A v \in 1..MaxVersion : replacedAt'[v] = replacedAt[v] \/ replacedAt'[v] = now
    PROVE  CallOK(c, call[c])'
PROOF
<1>1. /\ now \in Nat /\ issued \in Nat /\ MaxVersion \in Nat
      /\ replacedAt \in [1..MaxVersion -> 0..Never] /\ Never \in Nat
      /\ call[c] \in Local /\ call[c].asked \in Nat /\ call[c].token \in Nat /\ call[c].rejected \in Nat
  BY BoundAssumption DEF TypeOK, Time, Token, Local, Never
<1>2. AnswerOK(call[c])'
  <2>1. PICK x : x = call[c]
    OBVIOUS
  <2>2. x.asked \in Nat /\ x.asked <= now'
    BY <1>1, <2>1 DEF CallOK, AnswerOK
  <2>3. x.pc = "vaultAnswered" => x.got \in 1..MaxVersion /\ x.asked <= replacedAt'[x.got]
    BY <1>1, <2>1, <2>2 DEF CallOK, AnswerOK
  <2>4. x.pc = "minted" => x.got \in 1..issued' /\ x.asked + TokenTtl <= tokens'[x.got].exp
    BY <1>1, <2>1 DEF CallOK, AnswerOK
  <2> QED
    BY <2>1, <2>2, <2>3, <2>4 DEF AnswerOK
<1>3. CountOK(c, call[c])'
  BY DEF CallOK, CountOK, Sent
<1>4. RecoveryOK(call[c])'
  BY <1>1 DEF CallOK, RecoveryOK
<1> QED
  BY <1>2, <1>3, <1>4 DEF CallOK

\* A step of one call that changes nothing else keeps the invariant if what is
\* known of the call is true of its new record.
LEMMA OwnStep ==
    ASSUME IInv, NEW c \in Calls, NEW next \in Local, CallOK(c, next), Set(c, next),
           UNCHANGED <<now, vault, replacedAt, vendor, secretCache, tokenCache>>
    PROVE  IInv'
PROOF
<1> USE DEF IInv
<1>1. call' \in [Calls -> Local] /\ call'[c] = next /\ \A d \in Calls : d # c => call'[d] = call[d]
  BY SetCall
<1>2. TypeOK'
  BY <1>1 DEF TypeOK, vendor
<1>3. SecretEntryOK' /\ TokenEntryOK' /\ NotReplaced'
  BY DEF SecretEntryOK, TokenEntryOK, NotReplaced, vendor
<1>4. CallOK(c, call[c])'
  BY <1>1 DEF CallOK, AnswerOK, CountOK, Sent, RecoveryOK, vendor
<1>5. ASSUME NEW d \in Calls, d # c
      PROVE  CallOK(d, call[d])'
  BY <1>1, <1>5 DEF CallOK, AnswerOK, CountOK, Sent, RecoveryOK, vendor
<1> QED
  BY <1>2, <1>3, <1>4, <1>5

--------------------------------------------------------------------------------
(* One lemma per action. *)

LEMMA BeginStep ==
    ASSUME IInv, NEW c \in Calls, Begin(c)
    PROVE  IInv'
PROOF
<1> USE DEF IInv
<1>1. call[c] \in Local /\ call[c].pc = "idle" /\ CallOK(c, call[c]) /\ now \in Time
  BY DEF TypeOK, Begin
<1>2. PICK y : y = [call[c] EXCEPT !.began = now, !.held = secretCache.value, !.pc = "validate"]
  OBVIOUS
<1>3. PICK z : z = [call[c] EXCEPT !.began = now, !.asked = now, !.pc = "vault"]
  OBVIOUS
<1>4. y \in Local /\ CallOK(c, y)
  <2>1. secretCache.value \in Version
    BY DEF TypeOK
  <2>2. y \in Local
    BY <1>1, <1>2, <2>1 DEF Local, Awaits
  <2>3. /\ y.pc = "validate" /\ y.asked = call[c].asked /\ y.token = call[c].token /\ y.rejected = call[c].rejected
        /\ y.retried = call[c].retried /\ y.applied = call[c].applied /\ y.reply = call[c].reply
        /\ y.reminted = call[c].reminted
    BY <1>1, <1>2 DEF Local
  <2> QED
    BY <1>1, <2>2, <2>3 DEF CallOK, AnswerOK, CountOK, Sent, RecoveryOK
<1>5. z \in Local /\ CallOK(c, z)
  <2>1. z \in Local
    BY <1>1, <1>3 DEF Local, Awaits
  <2>2. /\ z.pc = "vault" /\ z.asked = now /\ z.token = call[c].token /\ z.rejected = call[c].rejected
        /\ z.retried = call[c].retried /\ z.applied = call[c].applied /\ z.reply = call[c].reply
        /\ z.reminted = call[c].reminted
    BY <1>1, <1>3 DEF Local
  <2> QED
    BY <1>1, <2>1, <2>2, BoundAssumption DEF CallOK, AnswerOK, CountOK, Sent, RecoveryOK, Time
<1> QED
  BY <1>2, <1>3, <1>4, <1>5, OwnStep DEF Begin

\* A call that is answered: only a 401 says something of its tokens.
LEMMA Replied ==
    ASSUME IInv, NEW c \in Calls, call[c].pc \notin {"idle", "done"}, NEW s \in Status, NEW y, y = Reply(c, s),
           inject = "oauth2cc" /\ s = "401" => call[c].reminted /\ call[c].token # call[c].rejected
    PROVE  y \in Local /\ CallOK(c, y)
PROOF
<1>1. call[c] \in Local /\ CallOK(c, call[c]) /\ now \in Nat
  BY DEF IInv, TypeOK, Time
<1>2. 0 \in Time
  BY BoundAssumption DEF Time
<1>3. y \in Local
  BY <1>1, <1>2 DEF Reply, Local
<1>4. /\ y.pc = "done" /\ y.asked = 0 /\ y.token = call[c].token /\ y.reply = s
      /\ y.rejected = call[c].rejected /\ y.retried = call[c].retried /\ y.applied = call[c].applied
      /\ y.reminted = call[c].reminted
  BY <1>1 DEF Reply, Local
<1>5. call[c].applied \in 0..3
  BY <1>1 DEF Local
<1>6. AnswerOK(y)
  BY <1>1, <1>4 DEF AnswerOK
<1>7. CountOK(c, y)
  BY <1>1, <1>4, <1>5 DEF CallOK, CountOK, Sent
<1>8. RecoveryOK(y)
  BY <1>1, <1>4 DEF CallOK, RecoveryOK
<1> QED
  BY <1>3, <1>6, <1>7, <1>8 DEF CallOK

LEMMA ReplyStep ==
    ASSUME IInv, NEW c \in Calls, call[c].pc \notin {"idle", "done"}, NEW s \in Status, Set(c, Reply(c, s)),
           inject = "oauth2cc" /\ s = "401" => call[c].reminted /\ call[c].token # call[c].rejected,
           UNCHANGED <<now, vault, replacedAt, vendor, secretCache, tokenCache>>
    PROVE  IInv'
PROOF
<1>1. PICK y : y = Reply(c, s)
  OBVIOUS
<1>2. y \in Local /\ CallOK(c, y)
  BY <1>1, Replied
<1> QED
  BY <1>1, <1>2, OwnStep

LEMMA VaultAnswersStep ==
    ASSUME IInv, NEW c \in Calls, VaultAnswers(c)
    PROVE  IInv'
PROOF
<1> USE DEF IInv
<1>1. call[c] \in Local /\ call[c].pc = "vault" /\ CallOK(c, call[c]) /\ vault \in 1..MaxVersion /\ vault \in Nat
  BY BoundAssumption DEF TypeOK, VaultAnswers
<1>2. PICK y : y = [call[c] EXCEPT !.got = vault, !.pc = "vaultAnswered"]
  OBVIOUS
<1>3. y \in Local /\ CallOK(c, y)
  <2>1. y \in Local
    BY <1>1, <1>2, BoundAssumption DEF Local, Awaits
  <2>2. /\ y.pc = "vaultAnswered" /\ y.got = vault /\ y.asked = call[c].asked /\ y.token = call[c].token
        /\ y.rejected = call[c].rejected /\ y.retried = call[c].retried /\ y.applied = call[c].applied
        /\ y.reply = call[c].reply /\ y.reminted = call[c].reminted
    BY <1>1, <1>2 DEF Local
  <2>3. y.asked <= replacedAt[y.got]
    BY <1>1, <2>2, BoundAssumption DEF CallOK, AnswerOK, NotReplaced, TypeOK, Time, Never, Local
  <2> QED
    BY <1>1, <2>1, <2>2, <2>3 DEF CallOK, AnswerOK, CountOK, Sent, RecoveryOK
<1>4. CASE Set(c, Reply(c, "502"))
  BY <1>1, <1>4, ReplyStep DEF VaultAnswers, Status
<1> QED
  BY <1>2, <1>3, <1>4, OwnStep DEF VaultAnswers

\* The fields a step of the recovery does not touch.
SameTokens(c, y) ==
    /\ y.token = call[c].token /\ y.rejected = call[c].rejected /\ y.reminted = call[c].reminted
    /\ y.reply = call[c].reply
SameCount(c, y) == y.retried = call[c].retried /\ y.applied = call[c].applied

\* getOauthToken's first stretch, for a call that has not had its token refused.
LEMMA TokenOrMintStep ==
    ASSUME IInv, NEW c \in Calls, call[c].pc = "validate", Set(c, TokenOrMint(c)),
           UNCHANGED <<now, vault, replacedAt, vendor, secretCache, tokenCache>>
    PROVE  IInv'
PROOF
<1> USE DEF IInv
<1>1. /\ call[c] \in Local /\ CallOK(c, call[c]) /\ now \in Time /\ now \in Nat
      /\ tokenCache.token \in Token /\ tokenCache.token <= issued
  BY DEF TypeOK, TokenEntryOK, Time
<1>2. CASE tokenCache.token # 0 /\ tokenCache.exp > now
  <2>1. PICK y : y = [call[c] EXCEPT !.token = tokenCache.token, !.pc = "send"]
    OBVIOUS
  <2>2. /\ y \in Local /\ SameCount(c, y) /\ y.pc = "send" /\ y.asked = call[c].asked /\ y.token = tokenCache.token
        /\ y.rejected = call[c].rejected /\ y.reminted = call[c].reminted /\ y.reply = call[c].reply
    BY <1>1, <2>1 DEF Local, Awaits, SameCount
  <2>3. CallOK(c, y)
    BY <1>1, <2>2 DEF CallOK, AnswerOK, CountOK, Sent, RecoveryOK, SameCount
  <2> QED
    BY <1>2, <2>1, <2>2, <2>3, OwnStep DEF TokenOrMint
<1>3. CASE ~(tokenCache.token # 0 /\ tokenCache.exp > now)
  <2>1. PICK y : y = [call[c] EXCEPT !.asked = now, !.pc = "mint"]
    OBVIOUS
  <2>2. y \in Local /\ SameCount(c, y) /\ SameTokens(c, y) /\ y.pc = "mint" /\ y.asked = now
    BY <1>1, <2>1 DEF Local, Awaits, SameCount, SameTokens
  <2>3. CallOK(c, y)
    BY <1>1, <2>2 DEF CallOK, AnswerOK, CountOK, Sent, RecoveryOK, SameCount, SameTokens
  <2> QED
    BY <1>3, <2>1, <2>2, <2>3, OwnStep DEF TokenOrMint
<1> QED
  BY <1>2, <1>3

LEMMA ValidateStep ==
    ASSUME IInv, NEW c \in Calls, Validate(c)
    PROVE  IInv'
PROOF
<1> USE DEF IInv
<1>1. call[c] \in Local /\ call[c].pc = "validate" /\ CallOK(c, call[c])
  BY DEF TypeOK, Validate
<1>2. CASE Set(c, Reply(c, "refused"))
  BY <1>1, <1>2, ReplyStep DEF Validate, Status
<1>3. CASE Set(c, [call[c] EXCEPT !.pc = "send"])
  <2>1. PICK y : y = [call[c] EXCEPT !.pc = "send"]
    OBVIOUS
  <2>2. y \in Local /\ SameCount(c, y) /\ SameTokens(c, y) /\ y.pc = "send" /\ y.asked = call[c].asked
    BY <1>1, <2>1 DEF Local, Awaits, SameCount, SameTokens
  <2>3. CallOK(c, y)
    BY <1>1, <2>2 DEF CallOK, AnswerOK, CountOK, Sent, RecoveryOK, SameCount, SameTokens
  <2> QED
    BY <1>3, <2>1, <2>2, <2>3, OwnStep DEF Validate
<1>4. CASE Set(c, TokenOrMint(c))
  BY <1>1, <1>4, TokenOrMintStep DEF Validate
<1> QED
  BY <1>2, <1>3, <1>4 DEF Validate

LEMMA MintFailsStep ==
    ASSUME IInv, NEW c \in Calls, MintFails(c)
    PROVE  IInv'
PROOF
<1> USE DEF IInv
<1>1. call[c] \in Local /\ call[c].pc = "mint" /\ CallOK(c, call[c]) /\ now \in Nat /\ 0 \in Time
  BY BoundAssumption DEF TypeOK, MintFails, Time
<1>2. CASE ~call[c].reminted
  BY <1>1, <1>2, ReplyStep DEF MintFails, Status
<1>3. CASE call[c].reminted
  <2>1. PICK x : x = Reply(c, "401")
    OBVIOUS
  <2>2. PICK y : y = [x EXCEPT !.remintFailed = TRUE]
    OBVIOUS
  <2>3. /\ x \in Local /\ SameCount(c, x) /\ x.pc = "done" /\ x.asked = 0 /\ x.reply = "401"
        /\ x.token = call[c].token /\ x.rejected = call[c].rejected /\ x.reminted = call[c].reminted
    BY <1>1, <2>1 DEF Local, Reply, Status, SameCount
  <2>4. /\ y \in Local /\ SameCount(c, y) /\ y.pc = "done" /\ y.asked = 0 /\ y.reply = "401" /\ y.remintFailed
        /\ y.token = call[c].token /\ y.rejected = call[c].rejected /\ y.reminted = call[c].reminted
    BY <2>2, <2>3 DEF Local, SameCount
  <2>5. call[c].applied \in 0..3
    BY <1>1 DEF Local
  <2>6. CallOK(c, y)
    BY <1>1, <1>3, <2>4, <2>5 DEF CallOK, AnswerOK, CountOK, Sent, RecoveryOK, SameCount
  <2> QED
    BY <1>3, <2>1, <2>2, <2>4, <2>6, OwnStep DEF MintFails
<1> QED
  BY <1>2, <1>3

LEMMA BackoffStep ==
    ASSUME IInv, NEW c \in Calls, Backoff(c)
    PROVE  IInv'
PROOF
<1> USE DEF IInv
<1>1. call[c] \in Local /\ call[c].pc = "backoff" /\ CallOK(c, call[c])
  BY DEF TypeOK, Backoff
<1>2. PICK y : y = [call[c] EXCEPT !.pc = "send"]
  OBVIOUS
<1>3. y \in Local /\ SameCount(c, y) /\ SameTokens(c, y) /\ y.pc = "send" /\ y.asked = call[c].asked
  BY <1>1, <1>2 DEF Local, Awaits, SameCount, SameTokens
<1>4. CallOK(c, y)
  BY <1>1, <1>3 DEF CallOK, AnswerOK, CountOK, Sent, RecoveryOK, SameCount, SameTokens
<1> QED
  BY <1>2, <1>3, <1>4, OwnStep DEF Backoff

\* The value arrives: the entry is as fresh as the clock read before it.
LEMMA SecretArrivesStep ==
    ASSUME IInv, NEW c \in Calls, SecretArrives(c)
    PROVE  IInv'
PROOF
<1> USE DEF IInv
<1>1. /\ call[c] \in Local /\ call[c].pc = "vaultAnswered" /\ CallOK(c, call[c])
      /\ now \in Nat /\ 0 \in Time /\ MaxVersion \in Nat /\ SecretTtl \in Nat
      /\ UNCHANGED <<now, vault, replacedAt, vendor, tokenCache>>
  BY BoundAssumption, TtlAssumption DEF TypeOK, SecretArrives, Time
<1>2. /\ call[c].got \in 1..MaxVersion /\ call[c].asked <= replacedAt[call[c].got]
      /\ call[c].asked <= now /\ call[c].asked \in Nat /\ replacedAt[call[c].got] \in Nat
  BY <1>1, BoundAssumption DEF CallOK, AnswerOK, Local, Time, TypeOK, Never
<1>3. PICK y : y = [call[c] EXCEPT !.held = call[c].got, !.got = 0, !.asked = 0, !.pc = "validate"]
  OBVIOUS
<1>4. call[c].got \in Version
  BY <1>1, <1>2 DEF Version
<1>5. y \in Local /\ SameCount(c, y) /\ SameTokens(c, y) /\ y.pc = "validate" /\ y.asked = 0
  BY <1>1, <1>3, <1>4 DEF Local, Awaits, SameCount, SameTokens
<1>6. call' \in [Calls -> Local] /\ call'[c] = y /\ \A d \in Calls : d # c => call'[d] = call[d]
  BY <1>3, <1>5, SetCall DEF SecretArrives
<1>7. secretCache' = [value |-> call[c].got, exp |-> call[c].asked + SecretTtl]
  BY DEF SecretArrives, SecretEntry
<1>8. TypeOK'
  <2>1. secretCache' \in [value : Version, exp : Nat]
    BY <1>1, <1>2, <1>4, <1>7
  <2> QED
    BY <1>1, <1>6, <2>1 DEF TypeOK, vendor
<1>9. SecretEntryOK' /\ TokenEntryOK' /\ NotReplaced'
  <2>1. SecretEntryOK'
    BY <1>1, <1>2, <1>7 DEF SecretEntryOK
  <2> QED
    BY <1>1, <2>1 DEF TokenEntryOK, NotReplaced, vendor
<1>10. CallOK(c, y)'
  BY <1>1, <1>5 DEF CallOK, AnswerOK, CountOK, Sent, RecoveryOK, SameCount, SameTokens, vendor
<1>11. ASSUME NEW d \in Calls, d # c
       PROVE  CallOK(d, call[d])'
  BY <1>1, <1>6, <1>11 DEF CallOK, AnswerOK, CountOK, Sent, RecoveryOK, vendor
<1> QED
  BY <1>6, <1>8, <1>9, <1>10, <1>11

\* A token is issued: no other token is touched.
LEMMA MintStep ==
    ASSUME IInv, NEW c \in Calls, Mint(c)
    PROVE  IInv'
PROOF
<1> USE DEF IInv
<1>1. /\ call[c] \in Local /\ call[c].pc = "mint" /\ CallOK(c, call[c])
      /\ now \in Nat /\ issued \in Nat /\ issued < MaxTokens /\ MaxTokens \in Nat /\ TokenTtl \in Nat
      /\ call[c].asked \in Nat /\ call[c].asked <= now /\ call[c].held \in Version /\ MaxVersion \in Nat
      /\ UNCHANGED <<inject, now, vault, replacedAt, oldest, revoked, secretCache, tokenCache>>
  BY BoundAssumption, TtlAssumption DEF TypeOK, Mint, Time, Token, Local, CallOK, AnswerOK
<1>2. /\ issued' = issued + 1 /\ issued' \in 1..MaxTokens /\ issued' \in Token /\ issued' \in Nat
      /\ tokens' = [tokens EXCEPT ![issued'] = [cred |-> call[c].held, exp |-> now + TokenTtl]]
  BY <1>1 DEF Mint, Token
<1>3. PICK y : y = [call[c] EXCEPT !.got = issued + 1, !.pc = "minted"]
  OBVIOUS
<1>4. /\ y \in Local /\ SameCount(c, y) /\ SameTokens(c, y) /\ y.pc = "minted"
      /\ y.asked = call[c].asked /\ y.got = issued'
  BY <1>1, <1>2, <1>3 DEF Local, Awaits, SameCount, SameTokens
<1>5. call' \in [Calls -> Local] /\ call'[c] = y /\ \A d \in Calls : d # c => call'[d] = call[d]
  BY <1>3, <1>4, SetCall DEF Mint
<1>6. tokens' \in [1..MaxTokens -> [cred : Version, exp : Nat]]
  BY <1>1, <1>2 DEF TypeOK
<1>7. /\ tokens'[issued'].exp = now + TokenTtl
      /\ \A t \in 1..issued : tokens'[t] = tokens[t]
  BY <1>1, <1>2 DEF TypeOK
<1>8. TypeOK'
  BY <1>1, <1>2, <1>5, <1>6 DEF TypeOK
<1>9. SecretEntryOK' /\ NotReplaced'
  BY <1>1 DEF SecretEntryOK, NotReplaced
<1>10. TokenEntryOK'
  <2>1. tokenCache.token \in Nat /\ tokenCache.token <= issued
    BY DEF TypeOK, TokenEntryOK, Token
  <2>2. tokenCache.token # 0 => tokens'[tokenCache.token] = tokens[tokenCache.token]
    BY <1>1, <1>7, <2>1
  <2> QED
    BY <1>1, <1>2, <2>1, <2>2 DEF TokenEntryOK
<1>11. CallOK(c, y)'
  <2>1. AnswerOK(y)'
    BY <1>1, <1>2, <1>4, <1>7 DEF AnswerOK
  <2>2. CountOK(c, y)'
    BY <1>1, <1>4 DEF CallOK, CountOK, Sent, SameCount
  <2>3. call[c].token \in Nat /\ call[c].rejected \in Nat
    BY <1>1 DEF Local, Token
  <2>4. RecoveryOK(y)'
    BY <1>1, <1>2, <1>4, <2>3 DEF CallOK, RecoveryOK, SameTokens
  <2> QED
    BY <2>1, <2>2, <2>4 DEF CallOK
<1>12. ASSUME NEW d \in Calls, d # c
       PROVE  CallOK(d, call[d])'
  BY <1>1, <1>2, <1>5, <1>7, <1>12, CallStays
<1> QED
  BY <1>5, <1>8, <1>9, <1>10, <1>11, <1>12

\* The token arrives: its entry expires a margin before it does.
LEMMA TokenArrivesStep ==
    ASSUME IInv, NEW c \in Calls, TokenArrives(c)
    PROVE  IInv'
PROOF
<1> USE DEF IInv
<1>1. /\ call[c] \in Local /\ call[c].pc = "minted" /\ CallOK(c, call[c])
      /\ now \in Nat /\ 0 \in Time /\ issued \in Nat /\ issued <= MaxTokens /\ MaxTokens \in Nat
      /\ TokenTtl \in Nat /\ Margin \in Nat /\ Margin <= TokenTtl
      /\ UNCHANGED <<now, vault, replacedAt, vendor, secretCache>>
  BY BoundAssumption, TtlAssumption DEF TypeOK, TokenArrives, Time, Token
<1>2. /\ call[c].got \in 1..issued /\ call[c].got \in Token /\ call[c].asked \in Nat /\ tokens[call[c].got].exp \in Nat
      /\ call[c].asked + TokenTtl <= tokens[call[c].got].exp
  BY <1>1 DEF CallOK, AnswerOK, Local, Time, Token, TypeOK
<1>3. PICK y : y = [call[c] EXCEPT !.token = call[c].got, !.got = 0, !.asked = 0, !.pc = "send"]
  OBVIOUS
<1>4. /\ y \in Local /\ SameCount(c, y) /\ y.pc = "send" /\ y.asked = 0 /\ y.token = call[c].got
      /\ y.rejected = call[c].rejected /\ y.reminted = call[c].reminted /\ y.reply = call[c].reply
  BY <1>1, <1>2, <1>3 DEF Local, Awaits, SameCount
<1>5. call' \in [Calls -> Local] /\ call'[c] = y /\ \A d \in Calls : d # c => call'[d] = call[d]
  BY <1>3, <1>4, SetCall DEF TokenArrives
<1>6. tokenCache' = [token |-> call[c].got, exp |-> call[c].asked + TokenTtl - Margin]
  BY DEF TokenArrives, TokenEntry
<1>7. TypeOK'
  <2>1. tokenCache' \in [token : Token, exp : Nat]
    BY <1>1, <1>2, <1>6
  <2> QED
    BY <1>1, <1>5, <2>1 DEF TypeOK, vendor
<1>8. SecretEntryOK' /\ TokenEntryOK' /\ NotReplaced'
  <2>1. TokenEntryOK'
    BY <1>1, <1>2, <1>6 DEF TokenEntryOK, vendor
  <2> QED
    BY <1>1, <2>1 DEF SecretEntryOK, NotReplaced
<1>9. CallOK(c, y)'
  BY <1>1, <1>2, <1>4 DEF CallOK, AnswerOK, CountOK, Sent, RecoveryOK, SameCount, vendor
<1>10. ASSUME NEW d \in Calls, d # c
       PROVE  CallOK(d, call[d])'
  BY <1>1, <1>5, <1>10 DEF CallOK, AnswerOK, CountOK, Sent, RecoveryOK, vendor
<1> QED
  BY <1>5, <1>7, <1>8, <1>9, <1>10

\* The vendor answers, or the connection breaks, before or after it executed the request.
LEMMA SendStep ==
    ASSUME IInv, NEW c \in Calls, Send(c)
    PROVE  IInv'
PROOF
<1> USE DEF IInv
<1>1. /\ call[c] \in Local /\ call[c].pc = "send" /\ CallOK(c, call[c]) /\ call[c].applied \in 0..1
      /\ UNCHANGED <<now, vault, replacedAt, vendor, secretCache, tokenCache>>
  BY DEF TypeOK, Send, CallOK, CountOK, Sent, Local
<1>2. ASSUME NEW s \in {"401", "ok", "5xx"}, NEW x, x = [call[c] EXCEPT !.status = s, !.pc = "status"]
      PROVE  x \in Local /\ SameTokens(c, x) /\ SameCount(c, x) /\ x.pc = "status" /\ x.status = s /\ x.asked = call[c].asked
  BY <1>1, <1>2 DEF Local, Awaits, Status, SameTokens, SameCount
<1>3. ASSUME NEW s \in {"401", "ok", "5xx"}, Set(c, [call[c] EXCEPT !.status = s, !.pc = "status"])
      PROVE  IInv'
  <2>1. PICK x : x = [call[c] EXCEPT !.status = s, !.pc = "status"]
    OBVIOUS
  <2>2. x \in Local /\ SameTokens(c, x) /\ SameCount(c, x) /\ x.pc = "status" /\ x.asked = call[c].asked
    BY <1>2, <2>1
  <2>3. CallOK(c, x)
    BY <1>1, <2>2 DEF CallOK, AnswerOK, CountOK, Sent, RecoveryOK, SameTokens, SameCount
  <2> QED
    BY <1>1, <1>3, <2>1, <2>2, <2>3, OwnStep
<1>4. ASSUME NEW s \in {"ok", "5xx"},
             Set(c, [[call[c] EXCEPT !.status = s, !.pc = "status"] EXCEPT !.applied = @ + 1])
      PROVE  IInv'
  <2>1. PICK x : x = [call[c] EXCEPT !.status = s, !.pc = "status"]
    OBVIOUS
  <2>2. x \in Local /\ SameTokens(c, x) /\ SameCount(c, x) /\ x.pc = "status" /\ x.status = s /\ x.asked = call[c].asked
    BY <1>2, <2>1
  <2>3. PICK y : y = [x EXCEPT !.applied = @ + 1]
    OBVIOUS
  <2>4. /\ y \in Local /\ SameTokens(c, y) /\ y.pc = "status" /\ y.status = s /\ y.asked = call[c].asked
        /\ y.retried = call[c].retried /\ y.applied = call[c].applied + 1
    BY <1>1, <2>2, <2>3 DEF Local, SameTokens, SameCount
  <2>5. CallOK(c, y)
    BY <1>1, <2>4 DEF CallOK, AnswerOK, CountOK, Sent, RecoveryOK, SameTokens
  <2> QED
    BY <1>1, <1>4, <2>1, <2>3, <2>4, <2>5, OwnStep
<1>5. CASE Set(c, Reply(c, "502"))
  BY <1>1, <1>5, ReplyStep DEF Status
<1>6. CASE Set(c, [Reply(c, "502") EXCEPT !.applied = @ + 1])
  <2>1. PICK x : x = Reply(c, "502")
    OBVIOUS
  <2>2. x \in Local /\ CallOK(c, x)
    BY <1>1, <2>1, Replied DEF Status
  <2>3. /\ x.pc = "done" /\ x.retried = call[c].retried /\ x.applied = call[c].applied
    BY <1>1, <2>1 DEF Reply, Local
  <2>4. PICK y : y = [x EXCEPT !.applied = @ + 1]
    OBVIOUS
  <2>5. /\ y \in Local /\ y.pc = "done" /\ y.asked = x.asked /\ y.retried = x.retried /\ y.applied = call[c].applied + 1
        /\ y.token = x.token /\ y.rejected = x.rejected /\ y.reminted = x.reminted /\ y.reply = x.reply
        /\ y.remintFailed = x.remintFailed
    BY <1>1, <2>2, <2>3, <2>4 DEF Local
  <2>6. CallOK(c, y)
    BY <1>1, <2>2, <2>3, <2>5 DEF CallOK, AnswerOK, CountOK, Sent, RecoveryOK
  <2> QED
    BY <1>1, <1>6, <2>1, <2>4, <2>5, <2>6, OwnStep
<1> QED
  BY <1>3, <1>4, <1>5, <1>6 DEF Send

LEMMA HandleStatusStep ==
    ASSUME IInv, NEW c \in Calls, HandleStatus(c)
    PROVE  IInv'
PROOF
<1> USE DEF IInv
<1>1. /\ call[c] \in Local /\ call[c].pc = "status" /\ CallOK(c, call[c])
      /\ now \in Time /\ now \in Nat
      /\ UNCHANGED <<now, vault, replacedAt, vendor, secretCache, tokenCache>>
  BY DEF TypeOK, HandleStatus, Time
<1>2. CASE call[c].status = "401" /\ Set(c, Remint(c))
  <2>1. PICK y : y = [call[c] EXCEPT !.reminted = TRUE, !.rejected = call[c].token, !.asked = now, !.pc = "mint"]
    OBVIOUS
  <2>2. call[c].token \in Token
    BY <1>1 DEF Local
  <2>3. /\ y \in Local /\ SameCount(c, y) /\ y.pc = "mint" /\ y.asked = now /\ y.token = call[c].token
        /\ y.rejected = call[c].token /\ y.reply = call[c].reply
    BY <1>1, <2>1, <2>2 DEF Local, Awaits, SameCount
  <2>4. CallOK(c, y)
    BY <1>1, <1>2, <2>3 DEF CallOK, AnswerOK, CountOK, Sent, RecoveryOK, SameCount
  <2> QED
    BY <1>1, <1>2, <2>1, <2>3, <2>4, OwnStep DEF Remint
<1>3. CASE /\ call[c].status = "5xx" /\ MayRetry(c)
           /\ Set(c, [call[c] EXCEPT !.retried = TRUE, !.pc = "backoff"])
  <2>1. PICK y : y = [call[c] EXCEPT !.retried = TRUE, !.pc = "backoff"]
    OBVIOUS
  <2>2. /\ y \in Local /\ SameTokens(c, y) /\ y.pc = "backoff" /\ y.asked = call[c].asked
        /\ y.retried /\ y.applied = call[c].applied
    BY <1>1, <2>1 DEF Local, Awaits, SameTokens
  <2>3. c \notin Writes /\ call[c].retried = FALSE /\ call[c].applied \in Nat
    BY <1>1, <1>3 DEF MayRetry, Local
  <2>4. CallOK(c, y)
    BY <1>1, <2>2, <2>3 DEF CallOK, AnswerOK, CountOK, Sent, RecoveryOK, SameTokens
  <2> QED
    BY <1>1, <1>3, <2>1, <2>2, <2>4, OwnStep
<1>4. CASE /\ call[c].status = "401" => inject = "static" \/ call[c].reminted
           /\ Set(c, Reply(c, call[c].status))
  <2>1. call[c].status \in Status
    BY <1>1 DEF Local
  <2>2. inject = "oauth2cc" /\ call[c].status = "401" => call[c].reminted /\ call[c].token # call[c].rejected
    BY <1>1, <1>4 DEF CallOK, RecoveryOK
  <2> QED
    BY <1>1, <1>4, <2>1, <2>2, ReplyStep
<1> QED
  BY <1>2, <1>3, <1>4 DEF HandleStatus

\* A secret is replaced: what was cached or read of it was so while it was current.
LEMMA RotateStep ==
    ASSUME IInv, Rotate
    PROVE  IInv'
PROOF
<1> USE DEF IInv
<1>1. /\ vault \in 1..MaxVersion /\ vault < MaxVersion /\ vault' = vault + 1 /\ MaxVersion \in Nat /\ now \in Nat
      /\ now \in 0..Never /\ issued \in Nat /\ MaxTime \in Nat
      /\ replacedAt \in [1..MaxVersion -> 0..Never] /\ replacedAt' = [replacedAt EXCEPT ![vault] = now]
      /\ UNCHANGED <<now, vendor, secretCache, tokenCache, call>>
  BY BoundAssumption DEF TypeOK, Rotate, Time, Token, Never
<1>2. \A v \in 1..MaxVersion : replacedAt'[v] = IF v = vault THEN now ELSE replacedAt[v]
  BY <1>1
<1>3. TypeOK'
  BY <1>1 DEF TypeOK, vendor
<1>4. SecretEntryOK'
  <2>1. secretCache.value \in 0..MaxVersion
    BY DEF TypeOK, Version
  <2> QED
    BY <1>1, <1>2, <2>1 DEF SecretEntryOK
<1>5. TokenEntryOK' /\ NotReplaced'
  BY <1>1, <1>2 DEF TokenEntryOK, NotReplaced, vendor
<1>6. ASSUME NEW c \in Calls
      PROVE  CallOK(c, call[c])'
  BY <1>1, <1>2, CallStays DEF vendor
<1> QED
  BY <1>3, <1>4, <1>5, <1>6

LEMMA WorldStep ==
    ASSUME IInv, Tick \/ RetireOld \/ Revoke \/ UNCHANGED vars
    PROVE  IInv'
PROOF
<1> USE DEF IInv
<1>1. now \in Nat /\ now' \in Time /\ now' \in Nat /\ now <= now' /\ issued \in Nat
  BY BoundAssumption DEF TypeOK, Tick, RetireOld, Revoke, vars, Time, Token
<1>2. UNCHANGED <<inject, vault, replacedAt, tokens, issued, secretCache, tokenCache, call>>
  BY DEF Tick, RetireOld, Revoke, vars, vendor
<1>3. oldest' \in 1..MaxVersion /\ revoked' \subseteq 1..MaxTokens
  <2>1. 1..issued \subseteq 1..MaxTokens
    BY BoundAssumption DEF TypeOK, Token
  <2> QED
    BY <2>1 DEF TypeOK, Tick, RetireOld, Revoke, vars, vendor
<1>4. TypeOK'
  BY <1>1, <1>2, <1>3 DEF TypeOK
<1>5. SecretEntryOK' /\ TokenEntryOK' /\ NotReplaced'
  <2>1. secretCache.exp \in Nat /\ SecretTtl \in Nat
    BY TtlAssumption DEF TypeOK
  <2> QED
    BY <1>1, <1>2, <2>1 DEF SecretEntryOK, TokenEntryOK, NotReplaced
<1>6. ASSUME NEW c \in Calls
      PROVE  CallOK(c, call[c])'
  BY <1>1, <1>2, CallStays
<1> QED
  BY <1>4, <1>5, <1>6

--------------------------------------------------------------------------------
(* The invariant, and what follows from it. *)

LEMMA InitIInv == Init => IInv
PROOF
<1> SUFFICES ASSUME Init PROVE IInv
  OBVIOUS
<1> USE DEF Init
<1>1. /\ MaxTime \in Nat /\ MaxVersion \in Nat \ {0} /\ MaxTokens \in Nat /\ SecretTtl \in Nat /\ 0 \in Time
      /\ 0 \in Token /\ 0 \in Version
  BY BoundAssumption, TtlAssumption DEF Time, Token, Version
<1>2. Idle \in Local
  BY <1>1 DEF Idle, Local, Status
<1>3. TypeOK
  BY <1>1, <1>2 DEF TypeOK, Never
<1>4. SecretEntryOK /\ TokenEntryOK /\ NotReplaced
  BY <1>1 DEF SecretEntryOK, TokenEntryOK, NotReplaced
<1>5. ASSUME NEW c \in Calls
      PROVE  CallOK(c, call[c])
  <2>1. call[c] = Idle
    OBVIOUS
  <2> QED
    BY <2>1 DEF Idle, CallOK, AnswerOK, CountOK, Sent, RecoveryOK
<1> QED
  BY <1>3, <1>4, <1>5 DEF IInv

LEMMA StepIInv == IInv /\ [Next]_vars => IInv'
PROOF
<1> SUFFICES ASSUME IInv, [Next]_vars PROVE IInv'
  OBVIOUS
<1>1. ASSUME NEW c \in Calls, Step(c)
      PROVE  IInv'
  BY <1>1, BeginStep, VaultAnswersStep, SecretArrivesStep, ValidateStep, MintStep, MintFailsStep,
     TokenArrivesStep, SendStep, HandleStatusStep, BackoffStep DEF Step
<1> QED
  BY <1>1, RotateStep, WorldStep DEF Next, Finished

LEMMA Inductive == Spec => []IInv
PROOF
<1> QED
  BY InitIInv, StepIInv, PTL DEF Spec

\* Caches, tokens and the local variables of a call keep their types; a call
\* is executed by the vendor at most twice (broker.js:482-500).
THEOREM TypeCorrect == Spec => []TypeOK
PROOF
<1>1. IInv => TypeOK
  BY DEF IInv
<1> QED
  BY <1>1, Inductive, PTL

\* The caches serve no secret that was replaced more than SECRET_TTL ago and no
\* token within the margin of its expiry, for all lifetimes and however slow the
\* reads (broker.js:128-180).
THEOREM NeverStale == Spec => []CachesFresh
PROOF
<1>1. IInv => CachesFresh
  <2> SUFFICES ASSUME IInv PROVE CachesFresh
    OBVIOUS
  <2>1. /\ now \in Nat /\ secretCache.exp \in Nat /\ tokenCache.exp \in Nat /\ Margin \in Nat /\ SecretTtl \in Nat
        /\ secretCache.value # 0 => replacedAt[secretCache.value] \in Nat
        /\ tokenCache.token # 0 => tokens[tokenCache.token].exp \in Nat
    BY BoundAssumption, TtlAssumption DEF IInv, TypeOK, Time, Version, Token, Never
  <2>2. SecretFresh
    BY <2>1 DEF IInv, SecretEntryOK, SecretFresh
  <2>3. TokenLive
    BY <2>1 DEF IInv, TokenEntryOK, TokenLive
  <2> QED
    BY <2>2, <2>3 DEF CachesFresh
<1> QED
  BY <1>1, Inductive, PTL

\* No recovery repeats a write, for any number of calls (broker.js:488).
THEOREM NoWriteRepeated == Spec => []AppliedAtMostOnce
PROOF
<1>1. IInv => AppliedAtMostOnce
  <2> SUFFICES ASSUME IInv, NEW c \in Writes PROVE call[c].applied <= 1
    BY DEF AppliedAtMostOnce
  <2>1. c \in Calls /\ CallOK(c, call[c]) /\ call[c].applied \in Nat
    BY WritesAssumption DEF IInv, TypeOK, Local
  <2> QED
    BY <2>1 DEF CallOK, CountOK, Sent
<1> QED
  BY <1>1, Inductive, PTL

\* A 401 is shown only after another token was tried or could not be had
\* (broker.js:486).
THEOREM RecoveryTried == Spec => []RecoveryBefore401
PROOF
<1>1. IInv => RecoveryBefore401
  BY DEF IInv, CallOK, RecoveryOK, RecoveryBefore401
<1> QED
  BY <1>1, Inductive, PTL

================================================================================
