------------------------------ MODULE CallerProofs ------------------------------
(***************************************************************************)
(* Proofs about what callers run.  First the client libraries (Clients),   *)
(* for any calls, windows, limits, waits and lifetimes of a token: that no *)
(* attempt leaves early or with an expired token, that no write is         *)
(* executed twice.                                                         *)
(* Then the bridge (Bridge), for any number of requests, any lifetime of   *)
(* its token and any bound of the clock: that nothing is sent without a    *)
(* session, and what a clean exit leaves behind.  The two programs share   *)
(* no state.                                                               *)
(***************************************************************************)
EXTENDS Clients, Bridge, TLAPS

--------------------------------------------------------------------------------
(* The libraries: the invariant. *)

Replied == {"sent", "refused", "check"}
Waiting == {"token", "minting", "asleep"}

\* A request has been sent once more than it was retried.
AttemptsOK(x) ==
    /\ x.pc \in Waiting => IF x.write THEN x.attempts = IF x.retried THEN 1 ELSE 0
                           ELSE x.attempts <= x.retries
    /\ x.pc \in Replied => IF x.write THEN x.attempts = IF x.retried THEN 2 ELSE 1
                            ELSE x.attempts <= x.retries + 1
    /\ x.pc = "check" => x.write /\ ~x.retried

\* What is on its way was not executed; what was answered, at most once.
ExecutedOK(x) ==
    /\ x.executed <= 1 /\ (~x.write => x.executed = 0)
    /\ x.pc \notin {"refused", "check", "done"} => x.executed = 0

\* A wait is as long as what is left of the last Retry-After, unless the timer did
\* not hold it, and, if the window refused the request, of the window.
WaitOK(x) ==
    /\ x.pc \in {"idle", "token", "minting", "sent", "done"} => ~x.spent
    /\ x.pc \in {"token", "minting", "sent"} => x.unheld \/ x.notBefore = 0
    /\ x.pc \in {"refused", "check"} =>
          /\ IF x.header = NoNumber THEN x.notBefore = 0 ELSE x.notBefore <= x.header
          /\ x.spent => x.header \in 1..LongestDelay /\ Window - second <= x.header
    /\ x.pc = "asleep" =>
          /\ x.unheld \/ x.notBefore <= x.sleep
          /\ x.spent => Window - second <= x.sleep

\* Only the libraries that cache a token ask for one, and they look at it before
\* they send it.
TokenOK(x) ==
    /\ x.pc \in {"token", "minting"} => x.lib \in Caching
    /\ x.pc = "sent" /\ x.lib \in Caching => x.live

CallOK(x) == AttemptsOK(x) /\ ExecutedOK(x) /\ WaitOK(x) /\ TokenOK(x)

IInv ==
    /\ TypeOK
    /\ \A c \in Calls : CallOK(call[c])

--------------------------------------------------------------------------------
(* What the pieces of the libraries return. *)

\* What the assumptions say.
LEMMA Constants == Window \in Nat /\ Window > 0 /\ Limit \in Nat /\ Ttl \in Nat /\ Ttl > 0 /\ Margin \in Nat /\ Waits \subseteq Nat
                   /\ LongestDelay \in Nat /\ Window <= LongestDelay
PROOF
  BY WindowAssumption, TokenAssumption, WaitsAssumption, DelayAssumption

\* A call that is not there yet, or not any more.
LEMMA IdleTyped == Idle \in Local
PROOF
  BY DEF Idle, Local, Libraries, Retries, MaxRetries, NoNumber

LEMMA Ended ==
    ASSUME NEW x \in Local
    PROVE  \E y : /\ y = [Idle EXCEPT !.pc = "done", !.lib = x.lib, !.write = x.write, !.executed = x.executed]
                  /\ y \in Local /\ y.pc = "done" /\ y.lib = x.lib /\ y.write = x.write /\ y.executed = x.executed
                  /\ y.notBefore = 0 /\ ~y.spent
PROOF
<1>1. PICK y : y = [Idle EXCEPT !.pc = "done", !.lib = x.lib, !.write = x.write, !.executed = x.executed]
  OBVIOUS
<1>2. y \in Local /\ y.pc = "done" /\ y.lib = x.lib /\ y.write = x.write /\ y.executed = x.executed
  BY <1>1, IdleTyped DEF Local
<1>3. y.notBefore = 0 /\ ~y.spent
  BY <1>1 DEF Idle
<1> QED
  BY <1>1, <1>2, <1>3

\* An attempt.
LEMMA SentFields ==
    ASSUME NEW x \in Local, x.attempts <= MaxRetries, NEW life \in Int
    PROVE  \E y : /\ y = Sent(x, life) /\ y \in Local /\ y.pc = "sent" /\ y.attempts = x.attempts + 1
                  /\ y.live <=> life > 0
                  /\ y.lib = x.lib /\ y.write = x.write /\ y.retries = x.retries /\ y.retried = x.retried
                  /\ y.executed = x.executed /\ y.notBefore = x.notBefore /\ y.spent = x.spent /\ y.unheld = x.unheld
PROOF
<1>1. PICK m : m = Least(x.attempts + 1, MaxRetries + 2)
  OBVIOUS
<1>2. m = x.attempts + 1 /\ m \in 0..MaxRetries + 1
  BY <1>1 DEF Least, MaxRetries, Local
<1>3. PICK b \in BOOLEAN : b = (life > 0)
  <2>1. (life > 0) \in BOOLEAN
    OBVIOUS
  <2> WITNESS (life > 0) \in BOOLEAN
  <2> QED
    OBVIOUS
<1>4. PICK y : y = [x EXCEPT !.pc = "sent", !.live = b, !.header = NoNumber, !.attempts = m]
  OBVIOUS
<1>5. y = Sent(x, life)
  BY <1>1, <1>3, <1>4, Zenon DEF Sent
<1>6. y \in Local /\ y.pc = "sent" /\ y.attempts = m /\ y.live = b
  BY <1>2, <1>4 DEF Local, Running
<1>7. /\ y.lib = x.lib /\ y.write = x.write /\ y.retries = x.retries /\ y.retried = x.retried
      /\ y.executed = x.executed /\ y.notBefore = x.notBefore /\ y.spent = x.spent /\ y.unheld = x.unheld
  BY <1>4 DEF Local
<1> QED
  BY <1>2, <1>3, <1>5, <1>6, <1>7

\* A refusal.
LEMMA RefusedFields ==
    ASSUME NEW x \in Local, NEW h \in Nat \cup {NoNumber}
    PROVE  \E y : /\ y = Refused(x, h) /\ y \in Local /\ y.pc = "refused" /\ y.header = h
                  /\ y.notBefore = (IF h = NoNumber THEN 0 ELSE h)
                  /\ y.lib = x.lib /\ y.write = x.write /\ y.retries = x.retries /\ y.retried = x.retried
                  /\ y.attempts = x.attempts /\ y.executed = x.executed /\ y.spent = x.spent /\ y.unheld = x.unheld
PROOF
<1>1. PICK m : m = IF h = NoNumber THEN 0 ELSE h
  OBVIOUS
<1>2. m \in Nat
  BY <1>1
<1>3. PICK y : y = [x EXCEPT !.pc = "refused", !.header = h, !.live = FALSE, !.notBefore = m]
  OBVIOUS
<1>4. y = Refused(x, h)
  BY <1>1, <1>3 DEF Refused
<1>5. y \in Local /\ y.pc = "refused" /\ y.header = h /\ y.notBefore = m
  BY <1>2, <1>3 DEF Local, Running
<1>6. /\ y.lib = x.lib /\ y.write = x.write /\ y.retries = x.retries /\ y.retried = x.retried
      /\ y.attempts = x.attempts /\ y.executed = x.executed /\ y.spent = x.spent /\ y.unheld = x.unheld
  BY <1>3 DEF Local
<1> QED
  BY <1>1, <1>4, <1>5, <1>6

\* A wait, if it is one.
LEMMA AsleepFields ==
    ASSUME TypeOK, NEW c \in Calls
    PROVE  \E y : /\ y = Asleep(c) /\ y \in Local /\ y.pc = "asleep" /\ y.header = NoNumber
                  /\ y.unheld => Overlong(c)
                  /\ y.sleep = IF y.unheld THEN 0 ELSE Parsed(c)
                  /\ y.lib = call[c].lib /\ y.write = call[c].write /\ y.retries = call[c].retries
                  /\ y.retried = call[c].retried /\ y.attempts = call[c].attempts /\ y.executed = call[c].executed
                  /\ y.notBefore = call[c].notBefore /\ y.spent = call[c].spent
PROOF
<1>1. call[c] \in Local
  BY DEF TypeOK
<1>2. Parsed(c) \in Nat
  BY <1>1 DEF Parsed, Local, Default, NoNumber
<1>3. PICK b \in BOOLEAN : b = (call[c].lib \in Timed /\ Overlong(c))
  <2>1. (call[c].lib \in Timed /\ Overlong(c)) \in BOOLEAN
    OBVIOUS
  <2> WITNESS (call[c].lib \in Timed /\ Overlong(c)) \in BOOLEAN
  <2> QED
    OBVIOUS
<1>4. PICK n \in Nat : n = IF b THEN 0 ELSE Parsed(c)
  BY <1>2
<1>5. PICK y : y = [call[c] EXCEPT !.pc = "asleep", !.sleep = n, !.unheld = b, !.header = NoNumber]
  OBVIOUS
<1>6. y = Asleep(c)
  BY <1>3, <1>4, <1>5, Zenon DEF Asleep
<1>7. y \in Local /\ y.pc = "asleep" /\ y.sleep = n /\ y.unheld = b /\ y.header = NoNumber
  BY <1>1, <1>5 DEF Local, Running
<1>8. /\ y.lib = call[c].lib /\ y.write = call[c].write /\ y.retries = call[c].retries
      /\ y.retried = call[c].retried /\ y.attempts = call[c].attempts /\ y.executed = call[c].executed
      /\ y.notBefore = call[c].notBefore /\ y.spent = call[c].spent
  BY <1>1, <1>5 DEF Local
<1>9. b => Overlong(c)
  BY <1>3, Zenon
<1> QED
  BY <1>4, <1>6, <1>7, <1>8, <1>9

--------------------------------------------------------------------------------
(* The steps. *)

\* Where a call stands after a step of it.
LEMMA AfterSet ==
    ASSUME IInv, NEW c \in Calls, NEW next \in Local, Set(c, next)
    PROVE  /\ call' \in [Calls -> Local] /\ call'[c] = next /\ \A d \in Calls : d # c => call'[d] = call[d]
PROOF
  BY DEF IInv, TypeOK, Set

\* A step of one call.
LEMMA CallStep ==
    ASSUME IInv, NEW c \in Calls, NEW next \in Local, CallOK(next), Set(c, next), UNCHANGED second,
           used' \in 0..Limit, cached' \in [Caching -> -1..Ttl],
           resolver' \in Calls \cup {None}
    PROVE  IInv'
PROOF
<1>1. call' \in [Calls -> Local] /\ call'[c] = next /\ \A d \in Calls : d # c => call'[d] = call[d]
  BY AfterSet
<1>2. \A d \in Calls : CallOK(call[d])'
  <2>1. ASSUME NEW d \in Calls
        PROVE  CallOK(call[d])'
    <3>1. CallOK(call[d])
      BY DEF IInv
    <3>2. CASE d = c
      BY <1>1, <3>2 DEF CallOK, AttemptsOK, ExecutedOK, WaitOK, TokenOK
    <3>3. CASE d # c
      BY <1>1, <3>1, <3>3 DEF CallOK, AttemptsOK, ExecutedOK, WaitOK, TokenOK
    <3> QED
      BY <3>2, <3>3
  <2> QED
    BY <2>1
<1>3. TypeOK'
  BY <1>1 DEF IInv, TypeOK
<1> QED
  BY <1>2, <1>3 DEF IInv

\* One that does not end the call.
LEMMA GoOnStep ==
    ASSUME IInv, NEW c \in Calls, NEW next \in Local, CallOK(next), Set(c, next), UNCHANGED <<second, resolver>>,
           used' \in 0..Limit, cached' \in [Caching -> -1..Ttl]
    PROVE  IInv'
PROOF
  BY CallStep DEF IInv, TypeOK

\* One that does.
LEMMA EndStep ==
    ASSUME IInv, NEW c \in Calls, NEW x \in Local, Finish(c, x), UNCHANGED second,
           used' \in 0..Limit, cached' \in [Caching -> -1..Ttl],
           x.executed <= 1, ~x.write => x.executed = 0
    PROVE  IInv'
PROOF
<1>1. PICK y : /\ y = [Idle EXCEPT !.pc = "done", !.lib = x.lib, !.write = x.write, !.executed = x.executed]
               /\ y \in Local /\ y.pc = "done" /\ y.lib = x.lib /\ y.write = x.write /\ y.executed = x.executed
               /\ y.notBefore = 0 /\ ~y.spent
  BY Ended
<1>2. Set(c, y)
  BY <1>1 DEF Finish
<1>3. CallOK(y)
  BY <1>1 DEF CallOK, AttemptsOK, ExecutedOK, WaitOK, TokenOK, Waiting, Replied
<1>4. resolver' \in Calls \cup {None}
  <2>1. call[c] \in Local /\ resolver \in Calls \cup {None}
    BY DEF IInv, TypeOK
  <2>2. resolver' = call[c].saved \/ resolver' = resolver
    BY DEF Finish, Restored
  <2> QED
    BY <2>1, <2>2 DEF Local
<1> QED
  BY <1>1, <1>2, <1>3, <1>4, CallStep

\* At the start nobody has called.
LEMMA InitIInv == Init => IInv
PROOF
<1> SUFFICES ASSUME Init
             PROVE  IInv
  OBVIOUS
<1>1. TypeOK
  <2>1. 0 \in 0..Window - 1 /\ 0 \in 0..Limit /\ -1 \in -1..Ttl
    BY Constants
  <2>2. cached \in [Caching -> -1..Ttl]
    BY <2>1 DEF Init
  <2>3. call \in [Calls -> Local]
    BY IdleTyped DEF Init
  <2> QED
    BY <2>1, <2>2, <2>3 DEF Init, TypeOK
<1>2. ASSUME NEW c \in Calls
      PROVE  CallOK(call[c])
  <2>1. call[c] = Idle
    BY DEF Init
  <2> QED
    BY <2>1 DEF Idle, CallOK, AttemptsOK, ExecutedOK, WaitOK, TokenOK, Waiting, Replied
<1> QED
  BY <1>1, <1>2 DEF IInv

\* A call begins.
LEMMA BeginStep ==
    ASSUME IInv, NEW c \in Calls, Begin(c)
    PROVE  IInv'
PROOF
<1>1. PICK lib \in Libraries, write \in BOOLEAN, keyed \in BOOLEAN, retries \in Retries :
          LET new == [Idle EXCEPT !.lib = lib, !.write = write, !.keyed = keyed, !.retries = retries]
          IN
          /\ lib = "direct" => write
          /\ keyed => lib = "direct"
          /\ write => retries = 0
          /\ lib = "dotnet" /\ ~write => retries = MaxRetries
          /\ CASE lib \in Caching -> Set(c, [new EXCEPT !.pc = "token"]) /\ UNCHANGED resolver
               [] lib = "direct" -> Set(c, Sent(new, Ttl)) /\ UNCHANGED resolver
               [] lib = "python" -> Set(c, [Sent(new, Ttl) EXCEPT !.saved = resolver]) /\ resolver' = c
  BY DEF Begin
<1>2. call[c].pc = "idle" /\ UNCHANGED <<second, used, cached>>
  BY DEF Begin
<1>3. PICK new : new = [Idle EXCEPT !.lib = lib, !.write = write, !.keyed = keyed, !.retries = retries]
  OBVIOUS
<1>4. /\ new \in Local /\ new.lib = lib /\ new.write = write /\ new.retries = retries
      /\ new.retried = FALSE /\ new.attempts = 0 /\ new.executed = 0 /\ new.notBefore = 0 /\ ~new.spent
  <2>1. new \in Local
    BY <1>3, IdleTyped DEF Local
  <2> QED
    BY <1>3, <2>1 DEF Idle
<1>5. used \in 0..Limit /\ cached \in [Caching -> -1..Ttl] /\ resolver \in Calls \cup {None}
  BY <1>2 DEF IInv, TypeOK
<1>6. PICK sent :
         /\ sent = Sent(new, Ttl) /\ sent \in Local /\ sent.pc = "sent" /\ sent.attempts = 1
         /\ sent.lib = lib /\ sent.write = write /\ sent.retries = retries /\ sent.retried = FALSE
         /\ sent.executed = 0 /\ sent.notBefore = 0 /\ ~sent.spent /\ sent.live
  <2>1. Ttl \in Int /\ Ttl > 0 /\ new.attempts <= MaxRetries
    BY <1>4, Constants DEF MaxRetries
  <2> QED
    BY <1>4, <2>1, SentFields
<1>7. retries \in Nat
  BY DEF Retries, MaxRetries
<1>8. CASE lib \in Caching
  <2>1. PICK y : y = [new EXCEPT !.pc = "token"]
    OBVIOUS
  <2>2. /\ y \in Local /\ y.pc = "token" /\ y.lib = lib /\ y.write = write /\ y.retries = retries
        /\ y.retried = FALSE /\ y.attempts = 0 /\ y.executed = 0 /\ y.notBefore = 0 /\ ~y.spent
    BY <1>4, <2>1 DEF Local, Running
  <2>3. Set(c, y) /\ UNCHANGED resolver
    BY <1>1, <1>3, <1>8, <2>1 DEF Caching
  <2>4. CallOK(y)
    BY <1>7, <1>8, <2>2 DEF CallOK, AttemptsOK, ExecutedOK, WaitOK, TokenOK, Waiting, Replied
  <2> QED
    BY <1>2, <1>5, <2>2, <2>3, <2>4, CallStep
<1>9. CASE lib = "direct"
  <2>1. Set(c, sent) /\ UNCHANGED resolver
    BY <1>1, <1>3, <1>6, <1>9 DEF Caching
  <2>2. CallOK(sent)
    BY <1>6, <1>7 DEF CallOK, AttemptsOK, ExecutedOK, WaitOK, TokenOK, Waiting, Replied
  <2> QED
    BY <1>2, <1>5, <1>6, <2>1, <2>2, CallStep
<1>10. CASE lib = "python"
  <2>1. PICK y : y = [sent EXCEPT !.saved = resolver]
    OBVIOUS
  <2>2. /\ y \in Local /\ y.pc = "sent" /\ y.lib = lib /\ y.write = write /\ y.retries = retries
        /\ y.retried = FALSE /\ y.attempts = 1 /\ y.executed = 0 /\ y.notBefore = 0 /\ ~y.spent /\ y.live
    BY <1>5, <1>6, <2>1 DEF Local
  <2>3. Set(c, y) /\ resolver' = c
    BY <1>1, <1>3, <1>6, <1>10, <2>1 DEF Caching
  <2>4. CallOK(y)
    BY <1>7, <2>2 DEF CallOK, AttemptsOK, ExecutedOK, WaitOK, TokenOK, Waiting, Replied
  <2> QED
    BY <1>2, <1>5, <2>2, <2>3, <2>4, CallStep
<1> QED
  BY <1>8, <1>9, <1>10 DEF Libraries, Caching

\* An attempt leaves, with a token that is live if it was looked at.
LEMMA SendStep ==
    ASSUME IInv, NEW c \in Calls, call[c].pc \in Waiting, call[c].unheld \/ call[c].notBefore = 0, ~call[c].spent,
           NEW life \in Int, call[c].lib \in Caching => life > 0, Set(c, Sent(call[c], life)),
           UNCHANGED <<second, resolver>>, used' \in 0..Limit, cached' \in [Caching -> -1..Ttl]
    PROVE  IInv'
PROOF
<1>1. call[c] \in Local /\ CallOK(call[c])
  BY DEF IInv, TypeOK
<1>2. call[c].attempts <= MaxRetries /\ call[c].attempts \in Nat /\ call[c].retries \in Nat /\ call[c].pc \in Running
  BY <1>1 DEF CallOK, AttemptsOK, Waiting, Local, Retries, MaxRetries, Running
<1>3. PICK y :
         /\ y = Sent(call[c], life) /\ y \in Local /\ y.pc = "sent" /\ y.attempts = call[c].attempts + 1
         /\ y.live <=> life > 0
         /\ y.lib = call[c].lib /\ y.write = call[c].write /\ y.retries = call[c].retries /\ y.retried = call[c].retried
         /\ y.executed = call[c].executed /\ y.notBefore = call[c].notBefore /\ y.spent = call[c].spent
         /\ y.unheld = call[c].unheld
  BY <1>1, <1>2, SentFields
<1>4. AttemptsOK(y)
  BY <1>1, <1>2, <1>3 DEF CallOK, AttemptsOK, Waiting, Replied
<1>5. ExecutedOK(y) /\ WaitOK(y) /\ TokenOK(y)
  BY <1>1, <1>3 DEF CallOK, ExecutedOK, WaitOK, TokenOK, Waiting
<1> QED
  BY <1>2, <1>3, <1>4, <1>5, GoOnStep DEF CallOK, Running

\* The cached token is taken, or a new one asked for.
LEMMA TokenStep ==
    ASSUME IInv, NEW c \in Calls, Token(c)
    PROVE  IInv'
PROOF
<1>1. /\ call[c].pc = "token" /\ call[c] \in Local /\ CallOK(call[c]) /\ UNCHANGED <<second, used, cached, resolver>>
      /\ used \in 0..Limit /\ cached \in [Caching -> -1..Ttl]
  BY DEF Token, IInv, TypeOK
<1>2. call[c].attempts <= MaxRetries
  BY <1>1 DEF CallOK, AttemptsOK, Waiting, Local, Retries, MaxRetries
<1>3. CASE Usable(call[c].lib)
  <2>1. Set(c, Sent(call[c], cached[call[c].lib]))
    BY <1>3 DEF Token
  <2>2. call[c].lib \in Caching
    BY <1>1 DEF CallOK, TokenOK
  <2>3. cached[call[c].lib] \in Int /\ cached[call[c].lib] > 0
    BY <1>1, <1>3, <2>2, Constants DEF Usable
  <2>4. call[c].pc \in Waiting /\ (call[c].unheld \/ call[c].notBefore = 0) /\ ~call[c].spent
    BY <1>1 DEF CallOK, WaitOK, Waiting
  <2> QED
    BY <1>1, <2>1, <2>3, <2>4, SendStep
<1>4. CASE ~Usable(call[c].lib)
  <2>1. PICK y : y = [call[c] EXCEPT !.pc = "minting"]
    OBVIOUS
  <2>2. /\ y \in Local /\ y.pc = "minting" /\ y.lib = call[c].lib /\ y.write = call[c].write /\ y.retries = call[c].retries
        /\ y.retried = call[c].retried /\ y.attempts = call[c].attempts /\ y.executed = call[c].executed
        /\ y.notBefore = call[c].notBefore /\ y.spent = call[c].spent /\ y.unheld = call[c].unheld
    BY <1>1, <2>1 DEF Local, Running
  <2>3. CallOK(y)
    BY <1>1, <2>2 DEF CallOK, AttemptsOK, ExecutedOK, WaitOK, TokenOK, Waiting, Replied
  <2>4. Set(c, y)
    BY <1>4, <2>1 DEF Token
  <2> QED
    BY <1>1, <2>2, <2>3, <2>4, GoOnStep DEF Running
<1> QED
  BY <1>3, <1>4

\* A new token is there, or not.
LEMMA MintedStep ==
    ASSUME IInv, NEW c \in Calls, Minted(c)
    PROVE  IInv'
PROOF
<1>1. /\ call[c].pc = "minting" /\ call[c] \in Local /\ CallOK(call[c]) /\ UNCHANGED <<second, used>>
      /\ used \in 0..Limit /\ cached \in [Caching -> -1..Ttl]
  BY DEF Minted, IInv, TypeOK
<1>2. CASE \E life \in 1..Ttl :
             /\ cached' = [cached EXCEPT ![call[c].lib] = life] /\ Set(c, Sent(call[c], life))
             /\ UNCHANGED resolver
  <2>1. PICK life \in 1..Ttl :
             /\ cached' = [cached EXCEPT ![call[c].lib] = life] /\ Set(c, Sent(call[c], life))
             /\ UNCHANGED resolver
    BY <1>2
  <2>2. life \in Int /\ life > 0 /\ life \in -1..Ttl
    BY Constants
  <2>3. cached' \in [Caching -> -1..Ttl]
    BY <1>1, <2>1, <2>2
  <2>4. call[c].pc \in Waiting /\ (call[c].unheld \/ call[c].notBefore = 0) /\ ~call[c].spent
    BY <1>1 DEF CallOK, WaitOK, Waiting
  <2> QED
    BY <1>1, <2>1, <2>2, <2>3, <2>4, SendStep
<1>3. CASE Finish(c, call[c]) /\ UNCHANGED cached
  BY <1>1, <1>3, EndStep DEF CallOK, ExecutedOK, Running
<1> QED
  BY <1>2, <1>3 DEF Minted

\* A refused call goes to sleep for as long as it was told.
LEMMA SleepStep ==
    ASSUME IInv, NEW c \in Calls, call[c].pc \in {"refused", "check"}, NEW next \in Local,
           next.pc = "asleep", next.sleep = (IF next.unheld THEN 0 ELSE Parsed(c)), next.unheld => Overlong(c),
           next.lib = call[c].lib, next.write = call[c].write, next.retries = call[c].retries,
           next.attempts = call[c].attempts, next.executed = 0,
           next.notBefore = call[c].notBefore, next.spent = call[c].spent,
           IF call[c].write THEN next.retried /\ ~call[c].retried
                            ELSE next.retried = call[c].retried /\ call[c].attempts <= call[c].retries,
           Set(c, next), UNCHANGED <<second, used, cached, resolver>>
    PROVE  IInv'
PROOF
<1>1. call[c] \in Local /\ CallOK(call[c]) /\ used \in 0..Limit /\ cached \in [Caching -> -1..Ttl]
  BY DEF IInv, TypeOK
<1>2. AttemptsOK(next)
  BY <1>1 DEF CallOK, AttemptsOK, Waiting, Replied
<1>3. ExecutedOK(next) /\ TokenOK(next)
  BY DEF ExecutedOK, TokenOK
<1>4. WaitOK(next)
  <2>1. call[c].header \in Nat \cup {NoNumber} /\ call[c].notBefore \in Nat
    BY <1>1 DEF Local
  <2>2. CASE next.unheld
    <3>1. ~call[c].spent
      BY <1>1, <2>1, <2>2, Constants DEF CallOK, WaitOK, Parsed, Overlong, NoNumber
    <3> QED
      BY <2>2, <3>1 DEF WaitOK
  <2>3. CASE ~next.unheld
    BY <1>1, <2>1, <2>3, Constants DEF CallOK, WaitOK, Parsed, Default, NoNumber
  <2> QED
    BY <2>2, <2>3
<1> QED
  BY <1>1, <1>2, <1>3, <1>4, GoOnStep DEF CallOK, Running

\* The 429 has arrived.
LEMMA ReceivedStep ==
    ASSUME IInv, NEW c \in Calls, Received(c)
    PROVE  IInv'
PROOF
<1>1. /\ call[c].pc = "refused" /\ call[c] \in Local /\ CallOK(call[c]) /\ UNCHANGED <<second, used, cached>>
      /\ used \in 0..Limit /\ cached \in [Caching -> -1..Ttl]
  BY DEF Received, IInv, TypeOK
<1>2. CASE MayRead(c) /\ Set(c, Asleep(c)) /\ UNCHANGED resolver
  <2>1. PICK y : /\ y = Asleep(c) /\ y \in Local /\ y.pc = "asleep" /\ y.header = NoNumber /\ (y.unheld => Overlong(c))
                 /\ y.sleep = (IF y.unheld THEN 0 ELSE Parsed(c))
                 /\ y.lib = call[c].lib /\ y.write = call[c].write /\ y.retries = call[c].retries
                 /\ y.retried = call[c].retried /\ y.attempts = call[c].attempts /\ y.executed = call[c].executed
                 /\ y.notBefore = call[c].notBefore /\ y.spent = call[c].spent
    BY AsleepFields DEF IInv
  <2>2. call[c].executed = 0
    BY <1>1, <1>2 DEF CallOK, ExecutedOK, MayRead
  <2>3. ~call[c].write /\ call[c].attempts <= call[c].retries
    BY <1>2 DEF MayRead
  <2> QED
    BY <1>1, <1>2, <2>1, <2>2, <2>3, SleepStep
<1>3. CASE MayAsk(c) /\ Set(c, [call[c] EXCEPT !.pc = "check"]) /\ UNCHANGED resolver
  <2>1. PICK y : y = [call[c] EXCEPT !.pc = "check"]
    OBVIOUS
  <2>2. /\ y \in Local /\ y.pc = "check" /\ y.lib = call[c].lib /\ y.write = call[c].write /\ y.retries = call[c].retries
        /\ y.retried = call[c].retried /\ y.attempts = call[c].attempts /\ y.executed = call[c].executed
        /\ y.header = call[c].header
        /\ y.notBefore = call[c].notBefore /\ y.spent = call[c].spent /\ y.unheld = call[c].unheld
    BY <1>1, <2>1 DEF Local, Running
  <2>3. AttemptsOK(y)
    <3>1. call[c].write /\ ~call[c].retried
      BY <1>3 DEF MayAsk
    <3> QED
      BY <1>1, <2>2, <3>1 DEF CallOK, AttemptsOK, Waiting, Replied
  <2>4. ExecutedOK(y) /\ WaitOK(y) /\ TokenOK(y)
    BY <1>1, <2>2 DEF CallOK, ExecutedOK, WaitOK, TokenOK
  <2> QED
    BY <1>1, <1>3, <2>1, <2>2, <2>3, <2>4, GoOnStep DEF CallOK, Running
<1>4. CASE Finish(c, call[c])
  BY <1>1, <1>4, EndStep DEF CallOK, ExecutedOK, Running
<1> QED
  BY <1>2, <1>3, <1>4 DEF Received

\* Whether the write was executed is known, or not.
LEMMA CheckStep ==
    ASSUME IInv, NEW c \in Calls, Check(c)
    PROVE  IInv'
PROOF
<1>1. /\ call[c].pc = "check" /\ call[c] \in Local /\ CallOK(call[c]) /\ UNCHANGED <<second, used, cached>>
      /\ used \in 0..Limit /\ cached \in [Caching -> -1..Ttl]
  BY DEF Check, IInv, TypeOK
<1>2. CASE Finish(c, call[c])
  BY <1>1, <1>2, EndStep DEF CallOK, ExecutedOK, Running
<1>3. CASE ~Finish(c, call[c])
  <2>1. PICK status \in {"unknown", IF call[c].executed > 0 THEN "executed" ELSE "not-executed"} :
            NotExecuted(status) /\ Set(c, [Asleep(c) EXCEPT !.retried = TRUE]) /\ UNCHANGED resolver
    BY <1>3 DEF Check
  <2>2. call[c].executed = 0
    BY <1>1, <2>1 DEF NotExecuted, Local
  <2>3. PICK y : /\ y = Asleep(c) /\ y \in Local /\ y.pc = "asleep" /\ y.header = NoNumber /\ (y.unheld => Overlong(c))
                 /\ y.sleep = (IF y.unheld THEN 0 ELSE Parsed(c))
                 /\ y.lib = call[c].lib /\ y.write = call[c].write /\ y.retries = call[c].retries
                 /\ y.retried = call[c].retried /\ y.attempts = call[c].attempts /\ y.executed = call[c].executed
                 /\ y.notBefore = call[c].notBefore /\ y.spent = call[c].spent
    BY AsleepFields DEF IInv
  <2>4. PICK z : z = [y EXCEPT !.retried = TRUE]
    OBVIOUS
  <2>5. /\ z \in Local /\ z.pc = "asleep" /\ z.retried /\ (z.unheld => Overlong(c))
        /\ z.sleep = (IF z.unheld THEN 0 ELSE Parsed(c))
        /\ z.lib = call[c].lib /\ z.write = call[c].write /\ z.retries = call[c].retries
        /\ z.attempts = call[c].attempts /\ z.executed = 0
        /\ z.notBefore = call[c].notBefore /\ z.spent = call[c].spent
    BY <2>2, <2>3, <2>4 DEF Local
  <2>6. Set(c, z)
    BY <2>1, <2>3, <2>4
  <2>7. call[c].write /\ ~call[c].retried
    BY <1>1 DEF CallOK, AttemptsOK
  <2> QED
    BY <1>1, <2>1, <2>5, <2>6, <2>7, SleepStep
<1> QED
  BY <1>2, <1>3

\* The wait is over.
LEMMA WakeStep ==
    ASSUME IInv, NEW c \in Calls, Wake(c)
    PROVE  IInv'
PROOF
<1>1. /\ call[c].pc = "asleep" /\ call[c].sleep = 0 /\ call[c] \in Local /\ CallOK(call[c])
      /\ UNCHANGED <<second, used, cached, resolver>> /\ second \in 0..Window - 1
      /\ used \in 0..Limit /\ cached \in [Caching -> -1..Ttl]
  BY DEF Wake, IInv, TypeOK
<1>2. (call[c].unheld \/ call[c].notBefore = 0) /\ ~call[c].spent
  BY <1>1, Constants DEF CallOK, WaitOK, Local
<1>3. CASE call[c].lib \in Caching
  <2>1. PICK y : y = [call[c] EXCEPT !.pc = "token"]
    OBVIOUS
  <2>2. /\ y \in Local /\ y.pc = "token" /\ y.lib = call[c].lib /\ y.write = call[c].write /\ y.retries = call[c].retries
        /\ y.retried = call[c].retried /\ y.attempts = call[c].attempts /\ y.executed = call[c].executed
        /\ y.notBefore = call[c].notBefore /\ y.spent = call[c].spent /\ y.unheld = call[c].unheld
    BY <1>1, <2>1 DEF Local, Running
  <2>3. CallOK(y)
    BY <1>1, <1>2, <1>3, <2>2 DEF CallOK, AttemptsOK, ExecutedOK, WaitOK, TokenOK, Waiting, Replied
  <2>4. Set(c, y)
    BY <1>3, <2>1 DEF Wake
  <2> QED
    BY <1>1, <2>2, <2>3, <2>4, GoOnStep DEF Running
<1>4. CASE call[c].lib \notin Caching
  <2>1. Set(c, Sent(call[c], Ttl)) /\ Ttl \in Int
    BY <1>4, Constants DEF Wake
  <2> QED
    BY <1>1, <1>2, <1>4, <2>1, SendStep DEF Waiting
<1> QED
  BY <1>3, <1>4

\* The window's quota is used up.
LEMMA RefuseStep ==
    ASSUME IInv, NEW c \in Calls, Refuse(c)
    PROVE  IInv'
PROOF
<1>1. /\ call[c].pc = "sent" /\ call[c] \in Local /\ CallOK(call[c]) /\ second \in 0..Window - 1
      /\ UNCHANGED <<second, used, cached, resolver>>
      /\ used \in 0..Limit /\ cached \in [Caching -> -1..Ttl]
  BY DEF Refuse, IInv, TypeOK
<1>2. PICK h \in Nat : h = RetryAfter /\ h # NoNumber /\ h = Window - second
  BY <1>1, Constants DEF RetryAfter, NoNumber
<1>3. PICK y : /\ y = Refused(call[c], h) /\ y \in Local /\ y.pc = "refused" /\ y.header = h
               /\ y.notBefore = h
               /\ y.lib = call[c].lib /\ y.write = call[c].write /\ y.retries = call[c].retries /\ y.retried = call[c].retried
               /\ y.attempts = call[c].attempts /\ y.executed = call[c].executed /\ y.spent = call[c].spent
               /\ y.unheld = call[c].unheld
  <2>1. h \in Nat \cup {NoNumber} /\ (IF h = NoNumber THEN 0 ELSE h) = h
    BY <1>2
  <2>2. call[c] \in Local
    BY <1>1
  <2> HIDE <1>1, <1>2
  <2> QED
    BY <2>1, <2>2, RefusedFields
<1>4. PICK z : z = [y EXCEPT !.spent = TRUE]
  OBVIOUS
<1>5. /\ z \in Local /\ z.pc = "refused" /\ z.header = h /\ z.notBefore = h /\ z.spent
      /\ z.lib = call[c].lib /\ z.write = call[c].write /\ z.retries = call[c].retries /\ z.retried = call[c].retried
      /\ z.attempts = call[c].attempts /\ z.executed = call[c].executed /\ z.unheld = call[c].unheld
  BY <1>3, <1>4 DEF Local
<1>6. CallOK(z)
  BY <1>1, <1>2, <1>5, Constants DEF CallOK, AttemptsOK, ExecutedOK, WaitOK, TokenOK, Waiting, Replied
<1>7. Set(c, z)
  BY <1>2, <1>3, <1>4 DEF Refuse
<1> QED
  BY <1>1, <1>5, <1>6, <1>7, GoOnStep DEF Running

\* The vendor answers, whatever it executed.
LEMMA ServeStep ==
    ASSUME IInv, NEW c \in Calls, Serve(c)
    PROVE  IInv'
PROOF
<1>1. /\ call[c].pc = "sent" /\ call[c] \in Local /\ CallOK(call[c]) /\ UNCHANGED <<second, cached>>
      /\ used' \in 0..Limit /\ cached \in [Caching -> -1..Ttl]
  BY Constants DEF Serve, IInv, TypeOK
<1>2. PICK next \in Executing(call[c]) :
          \/ Finish(c, next)
          \/ (\E h \in Waits \cup {NoNumber} : Set(c, Refused(next, h))) /\ UNCHANGED resolver
  BY DEF Serve
<1>3. /\ next \in Local /\ next.lib = call[c].lib /\ next.write = call[c].write /\ next.retries = call[c].retries
      /\ next.retried = call[c].retried /\ next.attempts = call[c].attempts /\ next.executed <= 1
      /\ ~next.write => next.executed = 0
      /\ ~next.spent /\ next.unheld = call[c].unheld
  <2>1. call[c].executed = 0 /\ (call[c].unheld \/ call[c].notBefore = 0) /\ ~call[c].spent
    BY <1>1 DEF CallOK, ExecutedOK, WaitOK
  <2>2. CASE next = call[c]
    BY <1>1, <2>1, <2>2
  <2>3. CASE call[c].write /\ next = [call[c] EXCEPT !.executed = Least(@ + 1, 2)]
    <3>1. Least(call[c].executed + 1, 2) = 1
      BY <2>1 DEF Least
    <3>2. next = [call[c] EXCEPT !.executed = 1]
      BY <2>3, <3>1
    <3>3. next \in Local /\ next.executed = 1
      BY <1>1, <3>2 DEF Local
    <3>4. /\ next.lib = call[c].lib /\ next.write = call[c].write /\ next.retries = call[c].retries
          /\ next.retried = call[c].retried /\ next.attempts = call[c].attempts
          /\ next.notBefore = call[c].notBefore /\ next.spent = call[c].spent /\ next.unheld = call[c].unheld
      BY <1>1, <3>2 DEF Local
    <3>5. next.executed <= 1 /\ next.write
      BY <2>3, <3>3, <3>4
    <3> QED
      BY <2>1, <3>3, <3>4, <3>5, Zenon
  <2> QED
    BY <2>2, <2>3 DEF Executing
<1>4. CASE Finish(c, next)
  BY <1>1, <1>3, <1>4, EndStep DEF Running
<1>5. CASE (\E h \in Waits \cup {NoNumber} : Set(c, Refused(next, h))) /\ UNCHANGED resolver
  <2>1. PICK h \in Waits \cup {NoNumber} : Set(c, Refused(next, h))
    BY <1>5
  <2>2. h \in Nat \cup {NoNumber}
    BY Constants
  <2>3. PICK y : /\ y = Refused(next, h) /\ y \in Local /\ y.pc = "refused" /\ y.header = h
                 /\ y.notBefore = (IF h = NoNumber THEN 0 ELSE h)
                 /\ y.lib = next.lib /\ y.write = next.write /\ y.retries = next.retries /\ y.retried = next.retried
                 /\ y.attempts = next.attempts /\ y.executed = next.executed /\ y.spent = next.spent /\ y.unheld = next.unheld
    BY <1>3, <2>2, RefusedFields
  <2>4. CallOK(y)
    BY <1>1, <1>3, <2>2, <2>3 DEF CallOK, AttemptsOK, ExecutedOK, WaitOK, TokenOK, Waiting, Replied, NoNumber
  <2> QED
    BY <1>1, <1>3, <1>5, <2>1, <2>3, <2>4, GoOnStep DEF Running
<1> QED
  BY <1>2, <1>4, <1>5

\* The request is lost, or turned down before the quota.
LEMMA LoseStep ==
    ASSUME IInv, NEW c \in Calls, Lose(c)
    PROVE  IInv'
PROOF
<1>1. /\ call[c].pc = "sent" /\ call[c] \in Local /\ CallOK(call[c]) /\ UNCHANGED <<second, used, cached>>
      /\ used \in 0..Limit /\ cached \in [Caching -> -1..Ttl] /\ Finish(c, call[c])
  BY DEF Lose, IInv, TypeOK
<1> QED
  BY <1>1, EndStep DEF CallOK, ExecutedOK, Running

\* What is left of a wait goes down with the clock.
Ticked(x, over, y) ==
    /\ y = [x EXCEPT !.sleep = Down(x.sleep), !.notBefore = Down(x.notBefore), !.spent = x.spent /\ ~over]
    /\ y \in Local /\ y.sleep = Down(x.sleep) /\ y.notBefore = Down(x.notBefore)
    /\ y.spent <=> (x.spent /\ ~over)
    /\ y.pc = x.pc /\ y.lib = x.lib /\ y.write = x.write /\ y.retries = x.retries /\ y.retried = x.retried
    /\ y.attempts = x.attempts /\ y.header = x.header /\ y.executed = x.executed /\ y.live = x.live
    /\ y.unheld = x.unheld

LEMMA TickFields ==
    ASSUME NEW x \in Local, NEW over \in BOOLEAN
    PROVE  \E y : Ticked(x, over, y)
PROOF
<1>1. PICK sleep \in Nat : sleep = Down(x.sleep)
  BY DEF Down, Local
<1>2. PICK notBefore \in Nat : notBefore = Down(x.notBefore)
  BY DEF Down, Local
<1>3. PICK spent \in BOOLEAN : spent = (x.spent /\ ~over)
  BY Zenon
<1>4. PICK y : y = [x EXCEPT !.sleep = sleep, !.notBefore = notBefore, !.spent = spent]
  OBVIOUS
<1>5. y = [x EXCEPT !.sleep = Down(x.sleep), !.notBefore = Down(x.notBefore), !.spent = x.spent /\ ~over]
  BY <1>1, <1>2, <1>3, <1>4, Zenon
<1>6. y \in Local /\ y.sleep = sleep /\ y.notBefore = notBefore /\ y.spent = spent
  BY <1>4 DEF Local
<1>7. /\ y.pc = x.pc /\ y.lib = x.lib /\ y.write = x.write /\ y.retries = x.retries /\ y.retried = x.retried
      /\ y.attempts = x.attempts /\ y.header = x.header /\ y.executed = x.executed /\ y.live = x.live
      /\ y.unheld = x.unheld
  BY <1>4 DEF Local
<1> QED
  BY <1>1, <1>2, <1>3, <1>5, <1>6, <1>7, Zenon DEF Ticked

\* A second passes.
LEMMA TickStep ==
    ASSUME IInv, Tick
    PROVE  IInv'
PROOF
<1>0. PICK over \in BOOLEAN : over <=> second = Window - 1
  OBVIOUS
<1>1. second \in 0..Window - 1 /\ used \in 0..Limit /\ cached \in [Caching -> -1..Ttl] /\ call \in [Calls -> Local]
  BY DEF IInv, TypeOK
<1>2. /\ second' = IF over THEN 0 ELSE second + 1
      /\ used' = IF over THEN 0 ELSE used
      /\ cached' = [p \in Caching |-> Down(cached[p])]
      /\ UNCHANGED resolver
  BY <1>0 DEF Tick
<1>3. second' \in 0..Window - 1 /\ second' \in Nat /\ (~over => second' = second + 1)
  <2>1. CASE over
    BY <1>2, <2>1, Constants
  <2>2. CASE ~over
    BY <1>0, <1>1, <1>2, <2>2, Constants
  <2> QED
    BY <2>1, <2>2
<1>4. call' = [c \in Calls |-> [call[c] EXCEPT !.sleep = Down(@), !.notBefore = Down(@), !.spent = @ /\ ~over]]
  <2>1. over = (second = Window - 1)
    BY <1>0, Zenon
  <2> QED
    BY <2>1, Zenon DEF Tick
<1>5. used' \in 0..Limit
  <2>1. used' = used \/ used' = 0
    BY <1>2
  <2> QED
    BY <1>1, <2>1, Constants
<1>6. cached' \in [Caching -> -1..Ttl]
  <2>1. \A p \in Caching : Down(cached[p]) \in -1..Ttl
    BY <1>1, Constants DEF Down
  <2> QED
    BY <1>2, <2>1
<1>7. ASSUME NEW c \in Calls
      PROVE  /\ call'[c] \in Local /\ CallOK(call[c])'
             /\ call'[c].pc = call[c].pc /\ call'[c].lib = call[c].lib
  <2>1. PICK x \in Local : x = call[c]
    BY <1>1
  <2>2. PICK y : Ticked(x, over, y)
    BY TickFields
  <2> USE DEF Ticked
  <2>3. call'[c] = y
    BY <1>4, <2>1, <2>2, Zenon
  <2>4. CallOK(x)
    BY <2>1 DEF IInv
  <2>5. AttemptsOK(y) /\ ExecutedOK(y) /\ TokenOK(y)
    BY <2>2, <2>4 DEF CallOK, AttemptsOK, ExecutedOK, TokenOK
  <2>6. WaitOK(y)'
    <3>1. CASE x.pc \in {"idle", "token", "minting", "sent", "done"}
      BY <2>2, <2>4, <3>1 DEF CallOK, WaitOK, Down
    <3>2. CASE x.pc \in {"refused", "check"}
      <4>1. x.notBefore \in Nat /\ x.header \in Nat \cup {NoNumber}
        BY DEF Local
      <4>2. IF y.header = NoNumber THEN y.notBefore = 0 ELSE y.notBefore <= y.header
        BY <2>2, <2>4, <3>2, <4>1 DEF CallOK, WaitOK, Down, NoNumber
      <4>3. y.spent => y.header \in 1..LongestDelay /\ Window - second' <= y.header
        BY <1>1, <1>3, <2>2, <2>4, <3>2, <4>1, Constants DEF CallOK, WaitOK, NoNumber
      <4> QED
        BY <2>2, <3>2, <4>2, <4>3 DEF WaitOK
    <3>3. CASE x.pc = "asleep"
      <4>1. x.notBefore \in Nat /\ x.sleep \in Nat
        BY DEF Local
      <4>2. y.unheld \/ y.notBefore <= y.sleep
        BY <2>2, <2>4, <3>3, <4>1 DEF CallOK, WaitOK, Down
      <4>3. y.spent => Window - second' <= y.sleep
        BY <1>1, <1>3, <2>2, <2>4, <3>3, <4>1, Constants DEF CallOK, WaitOK, Down
      <4> QED
        BY <2>2, <3>3, <4>2, <4>3 DEF WaitOK
    <3> QED
      BY <3>1, <3>2, <3>3 DEF Local, Running
  <2>7. CallOK(y)'
    BY <2>5, <2>6 DEF CallOK, AttemptsOK, ExecutedOK, TokenOK
  <2> QED
    BY <2>1, <2>2, <2>3, <2>7
<1>10. call' \in [Calls -> Local]
  BY <1>4, <1>7
<1>11. TypeOK'
  BY <1>2, <1>3, <1>5, <1>6, <1>10 DEF IInv, TypeOK
<1> QED
  BY <1>7, <1>11 DEF IInv

\* Every step keeps the invariant.
LEMMA StepIInv == IInv /\ [Next]_vars => IInv'
PROOF
<1> SUFFICES ASSUME IInv, [Next]_vars
             PROVE  IInv'
  OBVIOUS
<1>1. CASE UNCHANGED vars
  <2>1. UNCHANGED <<second, used, cached, resolver, call>>
    BY <1>1 DEF vars
  <2>2. TypeOK'
    BY <2>1 DEF IInv, TypeOK
  <2>3. \A c \in Calls : CallOK(call[c])'
    BY <2>1 DEF IInv, CallOK, AttemptsOK, ExecutedOK, WaitOK, TokenOK
  <2> QED
    BY <2>2, <2>3 DEF IInv
<1> QED
  BY <1>1, TickStep, BeginStep, TokenStep, MintedStep, ReceivedStep, CheckStep, WakeStep, RefuseStep, ServeStep, LoseStep
     DEF Next, Library, Broker

\* The clients' variables keep their types, for any calls, windows and waits.
THEOREM TypeCorrect == Spec => []TypeOK
PROOF
<1>1. IInv => TypeOK
  BY DEF IInv
<1> QED
  BY <1>1, InitIInv, StepIInv, PTL DEF Spec

\* broker-retry.mjs:77, ninja-client.mjs:38: for any window, quota, Retry-After and lifetime
\* of a token, no attempt leaves in a window that refused it, none early unless node's timer
\* could not hold the wait, and none of a caching library with an expired token.
THEOREM InTime == Spec => []SentInTime
PROOF
<1>1. IInv => SentInTime
  BY DEF IInv, CallOK, WaitOK, TokenOK, SentInTime
<1> QED
  BY <1>1, InitIInv, StepIInv, PTL DEF Spec

\* broker-retry.mjs:69-73: for any calls and any answers that get lost, no write is executed
\* twice.
THEOREM Once == Spec => []WriteOnce
PROOF
<1>1. IInv => WriteOnce
  BY DEF IInv, CallOK, ExecutedOK, WriteOnce
<1> QED
  BY <1>1, InitIInv, StepIInv, PTL DEF Spec

--------------------------------------------------------------------------------
(* The bridge: the invariant. *)

\* The ends that nobody decides: a default signal, an uncaught error.
Abrupt == {"killed", "crash"}

\* Before the server of the bridge listens.
Early == Login \cup {"cli", "resolve"}

\* The application is one of `run`, and is started last.
AppOK ==
    /\ phase \notin {"cli", "gone"} => mode # "none"
    /\ phase = "health" \/ app # "none" => mode = "run"
    /\ phase \in Early \cup {"health"} => app = "none"

\* The session begins when the token is verified and is over when the server closes.
SessionOK ==
    /\ phase \in (Login \ {"leaving"}) \cup {"cli"} => session = 0 /\ exit = "none"
    /\ phase = "closing" => session = 0
    /\ phase = "leaving" => exit = "none" \/ (exit \in {"1", "2"} /\ session = 0)
    /\ phase = "gone" /\ exit \notin Abrupt /\ exit # "2" => session = 0

\* An application that is still running when the server closes was told.
ToldOK == phase = "closing" \/ (phase = "gone" /\ exit \notin Abrupt) => (app = "running" => told)

\* Nobody calls before the bridge listens or is waited for once it is gone.
RequestOK(x) ==
    /\ phase \in Early => x.pc = "idle"
    /\ x.pc = "lost" => phase = "gone" /\ exit \in Abrupt
    /\ phase = "gone" => x.pc \notin Held

BridgeInv ==
    /\ BridgeTypeOK /\ AppOK /\ SessionOK /\ ToldOK
    /\ \A q \in Requests : RequestOK(req[q])

--------------------------------------------------------------------------------
(* Kinds of steps. *)

\* The clock and the expiry of a token are bounded.
LEMMA Clock ==
    Time \subseteq 0..MaxTime + Lifetime /\ Time \subseteq Nat /\ MaxTime + Lifetime \in Nat
PROOF
  BY LifetimeAssumption DEF Time

\* A step of one request that ends neither the process nor its phase.
LEMMA RequestStep ==
    ASSUME BridgeInv, NEW q \in Requests, NEW next \in Handling, SetReq(q, next), session' \in {0, session},
           phase \notin Early \cup {"gone"}, next.pc # "lost",
           UNCHANGED <<mode, now, token, phase, exit, signals, app, told, held>>
    PROVE  BridgeInv'
PROOF
<1> USE DEF BridgeInv
<1>1. req' \in [Requests -> Handling] /\ req'[q] = next /\ \A p \in Requests : p # q => req'[p] = req[p]
  BY DEF BridgeTypeOK, SetReq
<1>2. BridgeTypeOK'
  BY <1>1 DEF BridgeTypeOK
<1>3. AppOK' /\ SessionOK' /\ ToldOK'
  BY DEF AppOK, SessionOK, ToldOK
<1>4. \A p \in Requests : RequestOK(req[p])'
  BY <1>1 DEF RequestOK
<1> QED
  BY <1>2, <1>3, <1>4

\* The process ends abruptly: everybody it had taken on is lost.
LEMMA BrokenStep ==
    ASSUME BridgeInv, NEW code \in Abrupt, Broken(code), session' \in {0, session},
           signals' \subseteq Signals, told' \in BOOLEAN, UNCHANGED <<mode, now, token, app, held>>
    PROVE  BridgeInv'
PROOF
<1> USE DEF BridgeInv
<1>1. phase' = "gone" /\ exit' = code
  BY DEF Broken, Gone
<1>2. ASSUME NEW q \in Requests
      PROVE  req'[q] \in Handling /\ req'[q].pc \notin Held
  <2>1. req[q] \in Handling
    BY DEF BridgeTypeOK
  <2>2. CASE q \in InFlight
    <3>1. req'[q] = [req[q] EXCEPT !.pc = "lost"]
      BY <2>2 DEF Broken
    <3> QED
      BY <2>1, <3>1 DEF Handling, Held
  <2>3. CASE q \notin InFlight
    <3>1. req'[q] = req[q]
      BY <2>3 DEF Broken
    <3> QED
      BY <2>1, <2>3, <3>1 DEF InFlight
  <2> QED
    BY <2>2, <2>3
<1>3. req' \in [Requests -> Handling]
  BY <1>2 DEF Broken
<1>4. BridgeTypeOK'
  BY <1>1, <1>3 DEF BridgeTypeOK, Abrupt
<1>5. AppOK' /\ SessionOK' /\ ToldOK'
  BY <1>1 DEF AppOK, SessionOK, ToldOK, Early, Login, Abrupt
<1>6. \A q \in Requests : RequestOK(req[q])'
  BY <1>1, <1>2 DEF RequestOK, Early, Login
<1> QED
  BY <1>4, <1>5, <1>6

\* Any other step leaves the requests alone.
LEMMA MainStep ==
    ASSUME BridgeInv, BridgeTypeOK', AppOK', SessionOK', ToldOK', UNCHANGED req,
           phase' \in Early => phase \in Early,
           phase = "gone" => phase' = "gone" /\ exit' = exit,
           phase' = "gone" => InFlight = {}
    PROVE  BridgeInv'
PROOF
<1>1. ASSUME NEW q \in Requests
      PROVE  RequestOK(req[q])'
  BY DEF BridgeInv, RequestOK, InFlight
<1> QED
  BY <1>1 DEF BridgeInv

--------------------------------------------------------------------------------
(* The login and the application. *)

\* Before the server listens nobody calls.
LEMMA NobodyYet ==
    ASSUME BridgeInv, phase \in Early
    PROVE  InFlight = {}
PROOF
  BY DEF BridgeInv, RequestOK, InFlight, Held

\* The command line, and connections.
LEMMA ParseCliStep ==
    ASSUME BridgeInv, ParseCli
    PROVE  BridgeInv'
PROOF
<1> USE DEF BridgeInv
<1>1. /\ phase = "cli" /\ session = 0 /\ app = "none" /\ phase' \in {"discover", "gone"}
      /\ mode' \in {"none", "serve", "run"}
      /\ phase' = "discover" => exit' = "none" /\ mode' # "none"
      /\ exit' \in {"none", "0", "2"}
      /\ UNCHANGED <<now, token, session, signals, app, told, req, held>>
  BY DEF ParseCli, Gone, BridgeTypeOK, SessionOK, AppOK, Early
<1>2. BridgeTypeOK'
  BY <1>1 DEF BridgeTypeOK, Login
<1>3. AppOK' /\ SessionOK' /\ ToldOK'
  BY <1>1 DEF AppOK, SessionOK, ToldOK, Early, Login
<1> QED
  BY <1>1, <1>2, <1>3, NobodyYet, MainStep DEF Early, Login

LEMMA ConnectionStep ==
    ASSUME BridgeInv, Connect \/ HangUp
    PROVE  BridgeInv'
PROOF
<1>1. held' \in BOOLEAN /\ UNCHANGED <<mode, now, token, session, phase, exit, signals, app, told, req>>
  BY DEF Connect, HangUp
<1> QED
  BY <1>1 DEF BridgeInv, BridgeTypeOK, AppOK, SessionOK, ToldOK, RequestOK

\* The login.
LEMMA LogInStep ==
    ASSUME BridgeInv, LogIn
    PROVE  BridgeInv'
PROOF
<1> USE DEF BridgeInv
<1>1. /\ phase \in Login /\ phase' \in (Login \ {"discover"}) \cup {"resolve", "gone"}
      /\ phase' = "gone" => exit' \in {"1", "2"} /\ session' = 0
      /\ phase' = "leaving" => exit' = "none" \/ (exit' \in {"1", "2"} /\ session' = 0)
      /\ phase' \in Login \ {"leaving"} => session' = 0 /\ exit' = "none"
      /\ phase' = "resolve" => exit' = "none"
      /\ UNCHANGED <<mode, now, signals, app, told, req, held>>
  BY DEF LogIn, Discover, Callback, Answered, Exchange, Verify, Leave, LoginFails, Failure, Gone, Login, SessionOK
<1>2. token' \in 0..MaxTime + Lifetime /\ session' \in {0, token'}
  <2>1. CASE Exchange
    <3>1. now + Lifetime \in 0..MaxTime + Lifetime
      BY LifetimeAssumption DEF BridgeTypeOK, Time
    <3>2. session = 0
      BY <2>1 DEF Exchange, SessionOK, Login
    <3> QED
      BY <2>1, <3>1, <3>2 DEF Exchange, BridgeTypeOK
  <2>2. CASE Discover \/ Callback \/ Verify \/ Leave
    BY <2>2 DEF Discover, Callback, Verify, Verified, Leave, BridgeTypeOK
  <2> QED
    BY <2>1, <2>2 DEF LogIn
<1>3. BridgeTypeOK'
  BY <1>1, <1>2 DEF BridgeTypeOK
<1>4. AppOK' /\ SessionOK' /\ ToldOK'
  BY <1>1 DEF AppOK, SessionOK, ToldOK, Early, Login
<1> QED
  BY <1>1, <1>3, <1>4, NobodyYet, MainStep DEF Early, Login

\* The server listens, or the process ends.
LEMMA ListenStep ==
    ASSUME BridgeInv, Listen
    PROVE  BridgeInv'
PROOF
<1> USE DEF BridgeInv
<1>1. /\ phase = "resolve" /\ phase' \in {"serving", "health", "gone"}
      /\ phase' = "health" => mode = "run"
      /\ phase' = "gone" => exit' \in {"1", "2"} /\ (exit' # "2" => session' = 0)
      /\ phase' # "gone" => exit' = exit
      /\ session' \in {0, session}
      /\ UNCHANGED <<mode, now, token, signals, app, told, req, held>>
  BY DEF Listen, Gone, BridgeTypeOK, AppOK
<1>2. BridgeTypeOK'
  BY <1>1 DEF BridgeTypeOK, Open
<1>3. AppOK' /\ SessionOK' /\ ToldOK'
  BY <1>1 DEF AppOK, SessionOK, ToldOK, Early, Login
<1> QED
  BY <1>1, <1>2, <1>3, NobodyYet, MainStep DEF Early, Login

\* The application starts, or the bridge stops.
LEMMA StartAppStep ==
    ASSUME BridgeInv, StartApp
    PROVE  BridgeInv'
PROOF
<1> USE DEF BridgeInv
<1>1. /\ phase = "health" /\ mode = "run" /\ app = "none"
      /\ \/ phase' = "serving" /\ app' = "running" /\ session' = session /\ exit' = exit
         \/ phase' = "closing" /\ app' = app /\ session' = 0 /\ exit' = "1"
      /\ UNCHANGED <<mode, now, token, signals, told, req, held>>
  BY DEF StartApp, Stopping, AppOK
<1>2. BridgeTypeOK'
  BY <1>1 DEF BridgeTypeOK, Open
<1>3. AppOK' /\ SessionOK' /\ ToldOK'
  BY <1>1 DEF AppOK, SessionOK, ToldOK, Early, Login
<1> QED
  BY <1>1, <1>2, <1>3, MainStep DEF Early, Login

\* The application ends.
LEMMA AppEndsStep ==
    ASSUME BridgeInv, AppEnds
    PROVE  BridgeInv'
PROOF
<1> USE DEF BridgeInv
<1>1. /\ app = "running" /\ app' = "ended" /\ mode = "run"
      /\ phase \notin Early \cup {"health"}
      /\ \/ phase = "serving" /\ phase' = "closing" /\ session' = 0 /\ exit' = "app"
         \/ phase' = phase /\ session' = session /\ exit' = exit
      /\ UNCHANGED <<mode, now, token, signals, told, req, held>>
  BY DEF AppEnds, Stopping, AppOK
<1>2. BridgeTypeOK'
  BY <1>1 DEF BridgeTypeOK
<1>3. AppOK' /\ SessionOK' /\ ToldOK'
  BY <1>1 DEF AppOK, SessionOK, ToldOK, Early, Login
<1>4. phase = "gone" => InFlight = {}
  BY DEF RequestOK, InFlight
<1> QED
  BY <1>1, <1>2, <1>3, <1>4, MainStep DEF Early, Login

\* The server closes.
LEMMA CloseStep ==
    ASSUME BridgeInv, Close
    PROVE  BridgeInv'
PROOF
<1> USE DEF BridgeInv
<1>1. /\ phase = "closing" /\ InFlight = {} /\ phase' = "gone" /\ exit' = exit
      /\ UNCHANGED <<mode, now, token, session, signals, app, told, req, held>>
  BY DEF Close, Gone, Drained
<1>2. BridgeTypeOK'
  BY <1>1 DEF BridgeTypeOK
<1>3. AppOK' /\ SessionOK' /\ ToldOK'
  BY <1>1 DEF AppOK, SessionOK, ToldOK, Early, Login
<1> QED
  BY <1>1, <1>2, <1>3, MainStep DEF Early, Login

--------------------------------------------------------------------------------
(* Signals, requests and time. *)

\* A signal.
LEMMA SignalStep ==
    ASSUME BridgeInv, NEW s \in Signals, Signal(s)
    PROVE  BridgeInv'
PROOF
<1> USE DEF BridgeInv
<1> DEFINE Unheard == phase \in Login \/ (mode = "run" /\ phase \in {"resolve", "closing"}) \/ s \in signals
<1>1. phase \notin {"cli", "gone"} /\ UNCHANGED <<mode, now, token, app, held>>
  BY DEF Signal
<1>2. CASE Unheard
  <2>1. Broken("killed") /\ UNCHANGED <<session, signals, told>>
    BY <1>2 DEF Signal
  <2> QED
    BY <1>1, <2>1, BrokenStep DEF BridgeTypeOK, Abrupt
<1>3. CASE ~Unheard /\ mode = "run"
  <2>1. Stopping("interrupted") /\ ForwardSignal /\ UNCHANGED <<signals, req>>
    BY <1>3 DEF Signal
  <2>2. /\ phase \notin Early \cup {"closing", "gone"} /\ phase' = "closing"
        /\ session' = 0 /\ exit' = "interrupted"
        /\ told' \in BOOLEAN /\ (app' = "running" => told')
    BY <1>1, <1>3, <2>1 DEF Stopping, ForwardSignal, BridgeTypeOK, Early
  <2>3. BridgeTypeOK'
    BY <1>1, <2>1, <2>2 DEF BridgeTypeOK
  <2>4. AppOK' /\ SessionOK' /\ ToldOK'
    BY <1>1, <2>2 DEF AppOK, SessionOK, ToldOK, Early, Login
  <2> QED
    BY <1>1, <2>1, <2>2, <2>3, <2>4, MainStep DEF Early, Login
<1>4. CASE ~Unheard /\ mode # "run"
  <2>1. /\ signals' = signals \cup {s} /\ UNCHANGED told /\ phase \notin {"cli", "gone"}
        /\ phase \in {"resolve", "serving", "closing"}
        /\ \/ phase = "resolve" /\ Gone("0") /\ session' = 0 /\ UNCHANGED req
           \/ phase = "serving" /\ Stopping("0") /\ UNCHANGED req
           \/ phase = "closing" /\ Broken("crash") /\ session' = 0
    <3>1. phase \in {"resolve", "serving", "closing"}
      BY <1>1, <1>4 DEF BridgeTypeOK, AppOK, Open, Signal
    <3> QED
      BY <1>4, <3>1 DEF Signal
  <2>2. signals' \subseteq Signals /\ app = "none"
    BY <1>4, <2>1 DEF BridgeTypeOK, AppOK
  <2>3. CASE phase = "closing"
    BY <1>1, <2>1, <2>2, <2>3, BrokenStep DEF BridgeTypeOK, Abrupt
  <2>4. CASE phase # "closing"
    <3>1. /\ UNCHANGED req /\ session' = 0 /\ exit' = "0"
          /\ (phase = "resolve" /\ phase' = "gone") \/ (phase = "serving" /\ phase' = "closing")
      BY <2>1, <2>4 DEF Gone, Stopping
    <3>2. BridgeTypeOK'
      BY <1>1, <2>1, <2>2, <3>1 DEF BridgeTypeOK
    <3>3. AppOK' /\ SessionOK' /\ ToldOK'
      BY <1>1, <2>2, <3>1 DEF AppOK, SessionOK, ToldOK, Early, Login
    <3> QED
      BY <3>1, <3>2, <3>3, NobodyYet, MainStep DEF Early, Login
  <2> QED
    BY <2>3, <2>4
<1> QED
  BY <1>2, <1>3, <1>4

\* What a request is let through with.
LEMMA Admission ==
    ASSUME BridgeInv, NEW q \in Requests, Arrive(q), req'[q].pc \in Held
    PROVE  phase \in Open /\ req'[q].token = token /\ now < token
PROOF
<1> USE DEF BridgeInv
<1>1. /\ phase \in Open \/ phase = "closing"
      /\ \/ SetReq(q, Replying(q, "local"))
         \/ Current = 0 /\ SetReq(q, Replying(q, "401"))
         \/ Current # 0 /\ \E pc \in {"body", "fetch"} : SetReq(q, [req[q] EXCEPT !.pc = pc, !.token = Current])
  BY DEF Arrive
<1>2. req[q] \in Handling
  BY DEF BridgeTypeOK
<1>3. ~SetReq(q, Replying(q, "local")) /\ ~SetReq(q, Replying(q, "401"))
  BY <1>2 DEF SetReq, Replying, Handling, Held, BridgeTypeOK
<1>4. Current # 0 /\ req'[q].token = Current
  <2>1. Current # 0
    BY <1>1, <1>3
  <2>2. PICK pc \in {"body", "fetch"} : SetReq(q, [req[q] EXCEPT !.pc = pc, !.token = Current])
    BY <1>1, <1>3
  <2>3. PICK next : next = [req[q] EXCEPT !.pc = pc, !.token = Current]
    OBVIOUS
  <2>4. next.token = Current
    BY <1>2, <2>3 DEF Handling
  <2>5. req'[q] = next
    BY <2>2, <2>3 DEF SetReq, BridgeTypeOK
  <2> QED
    BY <2>1, <2>4, <2>5
<1>5. session \in {0, token} /\ session # 0 /\ Current = session /\ session > now
  BY <1>4 DEF Current, BridgeTypeOK
<1>6. now \in Nat /\ token \in Nat
  BY Clock DEF BridgeTypeOK
<1> QED
  BY <1>1, <1>4, <1>5, <1>6 DEF SessionOK

\* A request comes in.
LEMMA ArriveStep ==
    ASSUME BridgeInv, NEW q \in Requests, Arrive(q)
    PROVE  BridgeInv'
PROOF
<1> USE DEF BridgeInv
<1>1. /\ phase \notin Early \cup {"gone"}
      /\ UNCHANGED <<mode, now, token, phase, exit, signals, app, told, held>>
      /\ session' \in {0, session}
  BY DEF Arrive, Open, Early, Login, Current
<1>2. req[q] \in Handling
  BY DEF BridgeTypeOK
<1>3. Current \in 0..MaxTime + Lifetime
  BY LifetimeAssumption DEF BridgeTypeOK, Current
<1>4. ASSUME NEW r \in {"local", "401"}
      PROVE  Replying(q, r) \in Handling /\ Replying(q, r).pc # "lost"
  BY <1>2 DEF Replying, Handling
<1>5. ASSUME NEW pc \in {"body", "fetch"}
      PROVE  [req[q] EXCEPT !.pc = pc, !.token = Current] \in Handling
             /\ [req[q] EXCEPT !.pc = pc, !.token = Current].pc # "lost"
  BY <1>2, <1>3 DEF Handling, Held
<1>6. \E next \in Handling : next.pc # "lost" /\ SetReq(q, next)
  <2>1. \/ SetReq(q, Replying(q, "local")) \/ SetReq(q, Replying(q, "401"))
        \/ \E pc \in {"body", "fetch"} : SetReq(q, [req[q] EXCEPT !.pc = pc, !.token = Current])
    BY DEF Arrive
  <2> QED
    BY <1>4, <1>5, <2>1
<1> QED
  BY <1>1, <1>6, RequestStep

\* A request goes on.
LEMMA HandleStep ==
    ASSUME BridgeInv, NEW q \in Requests, Handle(q)
    PROVE  BridgeInv'
PROOF
<1> USE DEF BridgeInv
<1>1. req[q] \in Handling /\ req[q].pc \in Held /\ UNCHANGED <<mode, now, token, session, signals, app, told, held>>
  BY DEF Handle, ReadBody, Fetch, Answer, Held, BridgeTypeOK
<1>2. phase \notin Early \cup {"gone"}
  BY <1>1 DEF RequestOK, Held
<1>3. ASSUME NEW r \in {"502", "broker"}
      PROVE  Replying(q, r) \in Handling /\ Replying(q, r).pc # "lost"
  BY <1>1 DEF Replying, Handling
<1>4. ASSUME NEW pc \in {"fetch", "answer"}
      PROVE  [req[q] EXCEPT !.pc = pc] \in Handling /\ [req[q] EXCEPT !.pc = pc].pc # "lost"
  BY <1>1 DEF Handling, Held
<1>5. \/ Broken("crash")
      \/ UNCHANGED <<phase, exit>> /\ \E next \in Handling : next.pc # "lost" /\ SetReq(q, next)
  BY <1>3, <1>4 DEF Handle, ReadBody, Fetch, Answer
<1>6. CASE Broken("crash")
  BY <1>1, <1>6, BrokenStep DEF BridgeTypeOK, Abrupt
<1>7. CASE UNCHANGED <<phase, exit>> /\ \E next \in Handling : next.pc # "lost" /\ SetReq(q, next)
  BY <1>1, <1>2, <1>7, RequestStep
<1> QED
  BY <1>5, <1>6, <1>7

\* Every step of the bridge keeps its invariant.
LEMMA BridgeStepInv ==
    ASSUME BridgeInv, [BridgeNext]_bridgeVars
    PROVE  BridgeInv'
PROOF
<1>1. CASE Malformed
  BY <1>1, BrokenStep DEF Malformed, BridgeInv, BridgeTypeOK, Abrupt
<1>2. CASE Advance
  BY <1>2, LifetimeAssumption DEF Advance, Time, BridgeInv, BridgeTypeOK, AppOK, SessionOK, ToldOK, RequestOK
<1>3. CASE UNCHANGED bridgeVars
  BY <1>3 DEF bridgeVars, BridgeInv, BridgeTypeOK, AppOK, SessionOK, ToldOK, RequestOK
<1> QED
  BY <1>1, <1>2, <1>3, ParseCliStep, ConnectionStep, LogInStep, ListenStep, StartAppStep, AppEndsStep, CloseStep, SignalStep, ArriveStep,
     HandleStep DEF BridgeNext

\* The invariant holds when the bridge starts.
LEMMA BridgeInitInv == BridgeInit => BridgeInv
PROOF
<1> SUFFICES ASSUME BridgeInit PROVE BridgeInv
  OBVIOUS
<1>1. 0 \in Time /\ 0 \in 0..MaxTime + Lifetime
  BY LifetimeAssumption DEF Time
<1>2. ASSUME NEW q \in Requests
      PROVE  req[q].pc = "idle" /\ [pc |-> "idle", reply |-> "none", token |-> 0] \in Handling
  BY <1>1 DEF BridgeInit, Handling
<1>3. BridgeTypeOK
  BY <1>1, <1>2 DEF BridgeInit, BridgeTypeOK, Early, Login, Signals
<1>4. AppOK /\ SessionOK /\ ToldOK
  BY DEF BridgeInit, AppOK, SessionOK, ToldOK, Early, Login
<1>5. ASSUME NEW q \in Requests
      PROVE  RequestOK(req[q])
  BY <1>2 DEF BridgeInit, RequestOK, Early, Login
<1> QED
  BY <1>3, <1>4, <1>5 DEF BridgeInv

\* The invariant of the bridge.
LEMMA BridgeInductive == BridgeSpec => []BridgeInv
PROOF
<1>1. BridgeInv /\ [BridgeNext]_bridgeVars => BridgeInv'
  BY BridgeStepInv
<1> QED
  BY <1>1, BridgeInitInv, PTL DEF BridgeSpec

--------------------------------------------------------------------------------
(* The properties. *)

\* The variables of the process and of its requests keep their types.
THEOREM BridgeTypeCorrect == BridgeSpec => []BridgeTypeOK
PROOF
<1>1. BridgeInv => BridgeTypeOK
  BY DEF BridgeInv
<1> QED
  BY <1>1, BridgeInductive, PTL

\* For any number of requests and whenever the token expires, a request is let
\* through only with the session's token while it is live, and none once the
\* bridge is closing (broker-bridge.mjs:46, :119, :125).  One that was let
\* through may be sent on with this token after it has expired or been cleared.
THEOREM Admitted == BridgeSpec => AdmittedWithSession
PROOF
<1>1. ASSUME BridgeInv, BridgeNext, NEW q \in Requests, req[q].pc = "idle", req'[q].pc \in Held
      PROVE  Arrive(q)
  <2>1. ASSUME NEW p \in Requests, p # q, Arrive(p) \/ Handle(p)
        PROVE  req'[q].pc \notin Held
    <3>1. CASE \E next : SetReq(p, next)
      BY <1>1, <2>1, <3>1 DEF SetReq, BridgeInv, BridgeTypeOK, Held
    <3>2. CASE Broken("crash")
      BY <1>1, <2>1, <3>2 DEF Broken, InFlight, Held
    <3> QED
      BY <2>1, <3>1, <3>2 DEF Arrive, Handle, ReadBody, Fetch, Answer
  <2>2. ~Handle(q)
    BY <1>1 DEF Handle, ReadBody, Fetch, Answer
  <2>3. ASSUME \/ ParseCli \/ Connect \/ HangUp
               \/ LogIn \/ Listen \/ StartApp \/ AppEnds \/ Close \/ Malformed \/ Advance
               \/ \E s \in Signals : Signal(s)
        PROVE  req'[q].pc \notin Held
    <3>1. UNCHANGED req \/ \E code : Broken(code)
      <4>1. ASSUME NEW s \in Signals, Signal(s)
            PROVE  UNCHANGED req \/ \E code : Broken(code)
        <5>1. CASE phase \in Login \/ (mode = "run" /\ phase \in {"resolve", "closing"}) \/ s \in signals
          BY <4>1, <5>1 DEF Signal
        <5>2. CASE ~(phase \in Login \/ (mode = "run" /\ phase \in {"resolve", "closing"}) \/ s \in signals)
                   /\ mode = "run"
          BY <4>1, <5>2 DEF Signal
        <5>3. CASE ~(phase \in Login \/ (mode = "run" /\ phase \in {"resolve", "closing"}) \/ s \in signals)
                   /\ mode # "run"
          <6>1. phase \in {"resolve", "serving", "closing"}
            BY <1>1, <4>1, <5>3 DEF Signal, BridgeInv, BridgeTypeOK, AppOK, Open
          <6> QED
            BY <4>1, <5>3, <6>1 DEF Signal
        <5> QED
          BY <5>1, <5>2, <5>3
      <4>2. ASSUME \/ ParseCli \/ Connect \/ HangUp
                   \/ LogIn \/ Listen \/ StartApp \/ AppEnds \/ Close \/ Malformed \/ Advance
            PROVE  UNCHANGED req \/ \E code : Broken(code)
        BY <4>2 DEF ParseCli, Connect, HangUp, LogIn, Discover, Callback, Exchange, Verify, Leave, Listen, StartApp, AppEnds, Close, Malformed, Advance
      <4> QED
        BY <2>3, <4>1, <4>2
    <3>2. CASE UNCHANGED req
      BY <1>1, <3>2 DEF Held
    <3>3. CASE \E code : Broken(code)
      BY <1>1, <3>3 DEF Broken, InFlight, Held
    <3> QED
      BY <3>1, <3>2, <3>3
  <2> QED
    BY <1>1, <2>1, <2>2, <2>3 DEF BridgeNext
<1>2. BridgeInv /\ [BridgeNext]_bridgeVars =>
        [\A q \in Requests : req[q].pc = "idle" /\ req'[q].pc \in Held =>
            phase \in Open /\ req'[q].token = token /\ now < token]_bridgeVars
  BY <1>1, Admission
<1> QED
  BY <1>2, BridgeInductive, PTL DEF BridgeSpec, AdmittedWithSession

\* A process that ended by itself has answered everyone, is signed out if it had
\* listened, and has told the application it leaves behind (launcher.mjs:24).
THEOREM EndsClean == BridgeSpec => []CleanExit
PROOF
<1>1. BridgeInv => CleanExit
  <2> SUFFICES ASSUME BridgeInv, phase = "gone", exit \notin {"killed", "crash"}
               PROVE  /\ \A q \in Requests : req[q].pc \in {"idle", "done"}
                      /\ exit # "2" => session = 0
                      /\ app = "running" => told
    BY DEF CleanExit
  <2>1. ASSUME NEW q \in Requests
        PROVE  req[q].pc \in {"idle", "done"}
    <3>1. req[q] \in Handling /\ RequestOK(req[q])
      BY DEF BridgeInv, BridgeTypeOK
    <3> QED
      BY <3>1 DEF RequestOK, Handling, Abrupt
  <2> QED
    BY <2>1 DEF BridgeInv, SessionOK, ToldOK, Abrupt
<1> QED
  BY <1>1, BridgeInductive, PTL

================================================================================
