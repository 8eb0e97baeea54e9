-------------------------------- MODULE Clients --------------------------------
(***************************************************************************)
(* The client libraries against the broker's quota: broker-retry.mjs with  *)
(* ninja-client.mjs ("node") or used on its own with an idempotency key    *)
(* ("direct"), broker_client.py ("python") and Program.cs ("dotnet").      *)
(* The broker refuses by a fixed window and says when the next one starts; *)
(* the vendor behind it may refuse as well.  All time is relative, so that *)
(* the clock needs no bound: `second` is the position in the window, the   *)
(* rest counts down.                                                       *)
(***************************************************************************)
EXTENDS Integers

CONSTANTS
    Calls,        \* calls made by the clients, each of one request
    Window, Limit,   \* length of the quota's window, and its limit
    Ttl,          \* longest life of a token the identity library returns
    Margin,       \* the 120 s for which a cached token is not used any more
    Waits,        \* the numbers a vendor writes into Retry-After
    LongestDelay, \* the longest wait a timer of node holds: 2^31 - 1 ms
    None

ASSUME WindowAssumption == Window \in Nat \ {0} /\ Limit \in Nat
ASSUME TokenAssumption == Ttl \in Nat \ {0} /\ Margin \in Nat
ASSUME WaitsAssumption == Waits \subseteq Nat /\ None \notin Calls /\ None \notin Nat
ASSUME DelayAssumption == LongestDelay \in Nat /\ Window <= LongestDelay

VARIABLES
    second,       \* the seconds of the current window that have passed
    used,         \* the broker's counter for the current window
    cached,       \* cachedEntra of a node process, _cached of a .NET process: the life left
    resolver,     \* socket.getaddrinfo of the python process: whose pin it is
    call

vars == <<second, used, cached, resolver, call>>

Libraries == {"node", "direct", "python", "dotnet"}
Caching == {"node", "dotnet"}
MaxRetries == 2
NoNumber == -1     \* no Retry-After, or a date
Retries == {0, MaxRetries}
Default == 1
Timed == {"node", "direct"}     \* wait by setTimeout
Running == {"token", "minting", "sent", "refused", "check", "asleep"}

Local == [
    pc : {"idle", "done"} \cup Running,
    lib : Libraries,
    write : BOOLEAN,            \* neither GET nor HEAD
    keyed : BOOLEAN,            \* has an idempotency key and checkExecutionStatus
    retries : Retries,          \* policy.maxRetries, max_retries
    attempts : 0..MaxRetries + 1,
    retried : BOOLEAN,          \* writeRetryUsed
    header : Nat \cup {NoNumber},   \* Retry-After of the 429
    sleep : Nat,                \* what is left of the wait
    saved : Calls \cup {None},  \* original_getaddrinfo
    executed : 0..2,            \* vendor: how often it executed the request
    live : BOOLEAN,             \* history: the token was live when last sent
    notBefore : Nat,            \* history: what is left of the last Retry-After
    unheld : BOOLEAN,           \* history: the timer did not hold the last wait
    spent : BOOLEAN]            \* history: the current window refused it

TypeOK ==
    /\ second \in 0..Window - 1 /\ used \in 0..Limit
    /\ cached \in [Caching -> -1..Ttl]
    /\ resolver \in Calls \cup {None}
    /\ call \in [Calls -> Local]

Idle == [pc |-> "idle", lib |-> "node", write |-> FALSE, keyed |-> FALSE, retries |-> 0,
         attempts |-> 0, retried |-> FALSE, header |-> NoNumber, sleep |-> 0,
         saved |-> None, executed |-> 0, live |-> FALSE, notBefore |-> 0, unheld |-> FALSE,
         spent |-> FALSE]

Init ==
    /\ second = 0 /\ used = 0
    /\ cached = [p \in Caching |-> -1]
    /\ resolver = None
    /\ call = [c \in Calls |-> Idle]

--------------------------------------------------------------------------------
(* Pieces of the libraries. *)

Set(c, next) == call' = [call EXCEPT ![c] = next]

\* parseRetryAfter, _retry_after_seconds, RetryAfter?.Delta: digits, or 1 s.
Parsed(c) == IF call[c].header = NoNumber THEN Default ELSE call[c].header

\* (mutant) one retry too many
MayReadOnce(c) == ~call[c].write /\ call[c].attempts <= call[c].retries + 1

\* A read is sent again while retries are left, whatever the library.
MayRead(c) == ~call[c].write /\ call[c].attempts <= call[c].retries

\* A write is sent again once, if the caller brought the means to find out.
MayAsk(c) == call[c].write /\ call[c].keyed /\ ~call[c].retried

\* (mutant) an unknown outcome counts as none
NotExecutedOrUnknown(status) == status \in {"not-executed", "unknown"}

NotExecuted(status) == status = "not-executed"

Least(a, b) == IF a < b THEN a ELSE b

\* The request leaves with a token of this life (attempts saturates one beyond
\* its type).
Sent(next, life) ==
    [next EXCEPT !.pc = "sent", !.live = life > 0, !.header = NoNumber, !.attempts = Least(@ + 1, MaxRetries + 2)]

\* A 429 arrives, with this Retry-After.
Refused(next, h) == [next EXCEPT !.pc = "refused", !.header = h, !.live = FALSE, !.notBefore = IF h = NoNumber THEN 0 ELSE h]

Overlong(c) == Parsed(c) > LongestDelay

\* Asleep; the jitter only makes it later, and so may the wake-up be.  A delay
\* that setTimeout does not hold becomes one of 1 ms.
Asleep(c) ==
    LET unheld == call[c].lib \in Timed /\ Overlong(c)
    IN  [call[c] EXCEPT !.pc = "asleep", !.sleep = IF unheld THEN 0 ELSE Parsed(c), !.unheld = unheld, !.header = NoNumber]

\* The finally of pin_dns.
Restored(c) == call[c].saved

\* The call returns or throws.
Finish(c, next) ==
    /\ Set(c, [Idle EXCEPT !.pc = "done", !.lib = next.lib, !.write = next.write,
                           !.executed = next.executed])
    /\ IF next.lib = "python"
       THEN resolver' = Restored(c)
       ELSE UNCHANGED resolver

--------------------------------------------------------------------------------
(* The libraries. *)

\* A call up to its first await; python asks for its token before it pins.
\* `direct` is the use of broker-retry for a write with a key.
Begin(c) ==
    /\ call[c].pc = "idle"
    /\ \E lib \in Libraries, write \in BOOLEAN, keyed \in BOOLEAN, retries \in Retries :
          LET new == [Idle EXCEPT !.lib = lib, !.write = write, !.keyed = keyed, !.retries = retries]
          IN
          /\ lib = "direct" => write
          /\ keyed => lib = "direct"
          /\ write => retries = 0
          /\ lib = "dotnet" /\ ~write => retries = MaxRetries
          /\ CASE lib \in Caching -> Set(c, [new EXCEPT !.pc = "token"]) /\ UNCHANGED resolver
               [] lib = "direct" -> Set(c, Sent(new, Ttl)) /\ UNCHANGED resolver
               [] lib = "python" -> Set(c, [Sent(new, Ttl) EXCEPT !.saved = resolver]) /\ resolver' = c
    /\ UNCHANGED <<second, used, cached>>

\* (mutant) the margin is added
UsableLate(p) == cached[p] # -1 /\ cached[p] + Margin > 0

Usable(p) == cached[p] # -1 /\ cached[p] - Margin > 0

\* entraToken, GetEntraTokenAsync: the cache, or the identity library.
Token(c) ==
    /\ call[c].pc = "token"
    /\ Set(c, IF Usable(call[c].lib) THEN Sent(call[c], cached[call[c].lib])
              ELSE [call[c] EXCEPT !.pc = "minting"])
    /\ UNCHANGED <<second, used, cached, resolver>>

\* The identity library answers with a token it vouches for, or throws.
Minted(c) ==
    /\ call[c].pc = "minting"
    /\ \/ \E life \in 1..Ttl :
             cached' = [cached EXCEPT ![call[c].lib] = life] /\ Set(c, Sent(call[c], life))
          /\ UNCHANGED resolver
       \/ Finish(c, call[c]) /\ UNCHANGED cached
    /\ UNCHANGED <<second, used>>

\* Handed to the caller; time.sleep and Task.Delay throw at what is too long for
\* them, which is no less than what a timer of node holds.
GivesUp(c) == (~MayRead(c) /\ ~MayAsk(c)) \/ (call[c].lib \notin Timed /\ Overlong(c))

\* The 429 arrives: asleep, asked about, or given up.
Received(c) ==
    /\ call[c].pc = "refused"
    /\ \/ MayRead(c) /\ Set(c, Asleep(c)) /\ UNCHANGED resolver
       \/ MayAsk(c) /\ Set(c, [call[c] EXCEPT !.pc = "check"]) /\ UNCHANGED resolver
       \/ GivesUp(c) /\ Finish(c, call[c])
    /\ UNCHANGED <<second, used, cached>>

\* checkExecutionStatus tells the truth, does not know, or throws.
Check(c) ==
    /\ call[c].pc = "check"
    /\ \/ \E status \in {"unknown", IF call[c].executed > 0 THEN "executed" ELSE "not-executed"} :
             IF NotExecuted(status)
             THEN Set(c, [Asleep(c) EXCEPT !.retried = TRUE]) /\ UNCHANGED resolver
             ELSE Finish(c, call[c])
       \/ Finish(c, call[c])
    /\ UNCHANGED <<second, used, cached>>

Wake(c) ==
    /\ call[c].pc = "asleep" /\ call[c].sleep = 0
    /\ Set(c, IF call[c].lib \in Caching THEN [call[c] EXCEPT !.pc = "token"] ELSE Sent(call[c], Ttl))
    /\ UNCHANGED <<second, used, cached, resolver>>

--------------------------------------------------------------------------------
(* The broker, the vendor and the clock. *)

\* (mutant) the window that is left, less the second that has begun
RetryAfterShort == Window - 1 - second

\* secondsUntilWindowRollover.
RetryAfter == Window - second

\* The quota of the window is used up.
Refuse(c) ==
    /\ call[c].pc = "sent" /\ used = Limit
    /\ Set(c, [Refused(call[c], RetryAfter) EXCEPT !.spent = TRUE])
    /\ UNCHANGED <<second, used, cached, resolver>>

\* (what reads execute is of no interest)
Executing(next) == IF next.write THEN {next, [next EXCEPT !.executed = Least(@ + 1, 2)]} ELSE {next}

\* The request gets to the vendor: it may execute it whatever it answers, and
\* an answer may get lost.
Serve(c) ==
    /\ call[c].pc = "sent" /\ used < Limit
    /\ used' = used + 1
    /\ \E next \in Executing(call[c]) :
          \/ Finish(c, next)
          \/ (\E h \in Waits \cup {NoNumber} : Set(c, Refused(next, h))) /\ UNCHANGED resolver
    /\ UNCHANGED <<second, cached>>

\* Turned down before the quota, or never arrived.
Lose(c) ==
    /\ call[c].pc = "sent" /\ Finish(c, call[c])
    /\ UNCHANGED <<second, used, cached>>

Down(n) == IF n > 0 THEN n - 1 ELSE n

Tick ==
    LET over == second = Window - 1
    IN
    /\ second' = IF over THEN 0 ELSE second + 1
    /\ used' = IF over THEN 0 ELSE used
    /\ cached' = [p \in Caching |-> Down(cached[p])]
    /\ call' = [c \in Calls |-> [call[c] EXCEPT
          !.sleep = Down(@), !.notBefore = Down(@),
          !.spent = @ /\ ~over]]
    /\ UNCHANGED resolver

Library(c) == Begin(c) \/ Token(c) \/ Minted(c) \/ Received(c) \/ Check(c) \/ Wake(c)
Broker(c) == Refuse(c) \/ Serve(c) \/ Lose(c)
Next == Tick \/ \E c \in Calls : Library(c) \/ Broker(c)

Spec == Init /\ [][Next]_vars

--------------------------------------------------------------------------------
(* Properties *)

\* An attempt leaves neither too early nor too late.  A request is never sent
\* again in the window whose quota refused it, nor before the seconds it was told
\* are over (broker-retry.mjs:77, spec/broker-bridge-build-spec.md:215 "a
\* compliant client does not retry early"), except by a node program that was
\* told by the vendor to wait longer than setTimeout can: that one is sent again
\* at once.  However long the waits, no attempt of the node and .NET clients
\* leaves with an expired token, although their calls share a cache
\* (ninja-client.mjs:38, :79, :85, Program.cs:46, :65).
SentInTime ==
    \A c \in Calls : call[c].pc = "sent" =>
        /\ ~call[c].spent
        /\ call[c].notBefore = 0 \/ call[c].unheld
        /\ call[c].lib \in Caching => call[c].live

\* No write is executed twice: python and .NET send it once, broker-retry a
\* second time only if it was not executed (broker-retry.mjs:69-73).
WriteOnce == \A c \in Calls : call[c].write => call[c].executed <= 1

\* Refuted: "invocation-scoped DNS pinning" (clients/python/broker_client.py:8).  The
\* host is pinned while a call of the python client runs, and only then.
PinnedWhileCalling ==
    LET inside == {c \in Calls : call[c].lib = "python" /\ call[c].pc \in Running}
    IN resolver = None <=> inside = {}
================================================================================
