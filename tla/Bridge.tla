--------------------------------- MODULE Bridge ---------------------------------
(***************************************************************************)
(* clients/bridge: one run of the loopback bridge, from the browser login  *)
(* over the forwarding of requests to the end of the process.  The login   *)
(* is public-oidc.mjs, the session is the module variable of session.mjs,  *)
(* the handler and the two commands are broker-bridge.mjs, the application *)
(* of `run` is started by launcher.mjs.  A token is its expiry; 0 stands   *)
(* for none.  Names that Clients has as well are prefixed here, so that    *)
(* one module can extend both.                                             *)
(***************************************************************************)
EXTENDS Naturals

CONSTANTS
    Requests,     \* requests of loopback clients
    Lifetime,     \* lifetime of the access token
    MaxTime       \* bound: the clock

ASSUME LifetimeAssumption == Lifetime \in Nat \ {0} /\ MaxTime \in Nat

VARIABLES
    mode,         \* the command: "serve" or "run"
    now,          \* the clock
    token,        \* login: the access token it was given, not yet verified
    session,      \* session.mjs: current
    phase,        \* where main is
    exit,         \* the exit code, or how else the process ends
    signals,      \* the signals whose once-handler has fired
    app,          \* the application of `run`
    told,         \* whether a signal was passed on to it
    req,          \* req[q]: request q and what its handler holds
    held          \* whether somebody keeps a connection busy with no request

bridgeVars == <<mode, now, token, session, phase, exit, signals, app, told, req, held>>

Time == 0..MaxTime
Signals == {"SIGINT", "SIGTERM"}
Login == {"discover", "callback", "exchange", "verify", "leaving"}
CallbackOpen == {"callback", "exchange", "verify"}   \* the server of the login listens
Open == {"health", "serving"}
Held == {"body", "fetch", "answer"}
InFlight == {q \in Requests : req[q].pc \in Held}

Handling == [
    pc : {"idle", "done", "lost"} \cup Held,
    reply : {"none", "local", "401", "502", "broker"},
    token : 0..MaxTime + Lifetime]   \* the token it was admitted with

BridgeTypeOK ==
    /\ mode \in {"none", "serve", "run"} /\ now \in Time
    /\ token \in 0..MaxTime + Lifetime /\ session \in {0, token}
    /\ phase \in Login \cup {"cli", "resolve", "closing", "gone"} \cup Open
    /\ exit \in {"none", "0", "1", "2", "app", "interrupted", "killed", "crash"}
    /\ signals \subseteq Signals
    /\ app \in {"none", "running", "ended"} /\ told \in BOOLEAN /\ held \in BOOLEAN
    /\ req \in [Requests -> Handling]

BridgeInit ==
    /\ mode = "none" /\ now = 0 /\ token = 0 /\ session = 0
    /\ phase = "cli" /\ exit = "none" /\ signals = {}
    /\ app = "none" /\ told = FALSE /\ held = FALSE
    /\ req = [q \in Requests |-> [pc |-> "idle", reply |-> "none", token |-> 0]]

--------------------------------------------------------------------------------
(* How the process ends. *)

Gone(code) == phase' = "gone" /\ exit' = code

\* Nobody is told anything more: an unhandled rejection, or a default signal.
Broken(code) ==
    /\ Gone(code)
    /\ req' = [q \in Requests |-> IF q \in InFlight THEN [req[q] EXCEPT !.pc = "lost"] ELSE req[q]]

\* (mutant) the session is left to expire
StoppingSignedIn(code) == phase' = "closing" /\ exit' = code /\ UNCHANGED session

\* clear, then close.
Stopping(code) == session' = 0 /\ phase' = "closing" /\ exit' = code

\* (mutants) close does not wait; it waits for kept-alive connections as well
DrainedAtOnce == TRUE
DrainedIdle == \A q \in Requests : req[q].pc = "idle"

\* server.close waits for every connection that is not idle: one with a request
\* in flight, one that has not sent any yet, one whose answer is not read.
Drained == InFlight = {} /\ ~held

Close ==
    /\ phase = "closing" /\ Drained
    /\ Gone(exit)
    /\ UNCHANGED <<mode, now, token, session, signals, app, told, req, held>>

--------------------------------------------------------------------------------
(* Connections that nobody calls on: they come as long as a server listens, and
   go when they like. *)

Connect ==
    /\ phase \in CallbackOpen \cup Open /\ held' = TRUE
    /\ UNCHANGED <<mode, now, token, session, phase, exit, signals, app, told, req>>

HangUp ==
    /\ phase # "gone" /\ held /\ held' = FALSE
    /\ UNCHANGED <<mode, now, token, session, phase, exit, signals, app, told, req>>

--------------------------------------------------------------------------------
(* login, then listen. *)

\* parseCli: one of the two commands, or help, the version, an error.
ParseCli ==
    /\ phase = "cli"
    /\ \/ mode' \in {"serve", "run"} /\ phase' = "discover" /\ UNCHANGED exit
       \/ Gone("0") /\ UNCHANGED mode
       \/ Gone("2") /\ UNCHANGED mode
    /\ UNCHANGED <<now, token, session, signals, app, told, req, held>>

\* (mutant) a stray request to the callback is ignored, and nothing times out
CallbackOrNever == phase' = "exchange" /\ now < Lifetime /\ UNCHANGED exit

Failure == IF mode = "serve" THEN "2" ELSE "1"

\* The way out leads through the `finally` that closes the server.
LoginFails == phase' = "leaving" /\ exit' = Failure

\* The first request decides: the right state and a code, or the login has
\* failed; so it has after 120 s without one.
Answered == (phase' = "exchange" /\ UNCHANGED exit) \/ LoginFails

Discover ==
    /\ phase = "discover"
    /\ (phase' = "callback" /\ UNCHANGED exit) \/ Gone(Failure)
    /\ UNCHANGED <<mode, now, token, session, signals, app, told, req, held>>

Callback ==
    /\ phase = "callback" /\ Answered
    /\ UNCHANGED <<mode, now, token, session, signals, app, told, req, held>>

\* The code is exchanged for tokens that are checked against the clock.
Exchange ==
    /\ phase = "exchange"
    /\ \/ phase' = "verify" /\ token' = now + Lifetime /\ UNCHANGED exit
       \/ LoginFails /\ UNCHANGED token
    /\ UNCHANGED <<mode, now, session, signals, app, told, req, held>>

\* (mutant) the lifetime is counted from the end of the login
VerifiedRelative == now + Lifetime

Verified == token

\* The keys have been fetched: setAccessToken.
Verify ==
    /\ phase = "verify"
    /\ \/ session' = Verified /\ phase' = "leaving" /\ UNCHANGED exit
       \/ LoginFails /\ UNCHANGED session
    /\ UNCHANGED <<mode, now, token, signals, app, told, req, held>>

\* The server of the login is closed, and login ends or throws.
Leave ==
    /\ phase = "leaving" /\ ~held
    /\ (exit = "none" /\ phase' = "resolve" /\ UNCHANGED exit) \/ (exit # "none" /\ Gone(exit))
    /\ UNCHANGED <<mode, now, token, session, signals, app, told, req, held>>

\* resolveBrokerDiscovery and listen.
Listen ==
    /\ phase = "resolve"
    /\ \/ phase' = (IF mode = "serve" THEN "serving" ELSE "health") /\ UNCHANGED <<session, exit>>
       \/ mode = "serve" /\ Gone("2") /\ UNCHANGED session
       \/ mode = "run" /\ Gone("1") /\ session' = 0
    /\ UNCHANGED <<mode, now, token, signals, app, told, req, held>>

\* The environment of the application is built and the application started;
\* either may fail while the bridge is listening.
StartApp ==
    /\ phase = "health"
    /\ \/ phase' = "serving" /\ app' = "running" /\ UNCHANGED <<session, exit>>
       \/ Stopping("1") /\ UNCHANGED app
    /\ UNCHANGED <<mode, now, token, signals, told, req, held>>

\* The application may end long after the bridge.
AppEnds ==
    /\ app = "running" /\ app' = "ended"
    /\ IF phase = "serving" THEN Stopping("app") ELSE UNCHANGED <<session, phase, exit>>
    /\ UNCHANGED <<mode, now, token, signals, told, req, held>>

--------------------------------------------------------------------------------
(* Signals. *)

\* (mutant) only the bridge hears of the signal
ForwardNone == UNCHANGED told

ForwardSignal == told' = (app = "running" \/ told)

\* Before its handlers are installed, and after they are removed, a signal
\* kills the process.  A second `stop` closes a server that is closing, and
\* the rejection is unhandled.
Signal(s) ==
    /\ phase \notin {"cli", "gone"}
    /\ IF phase \in Login \/ (mode = "run" /\ phase \in {"resolve", "closing"}) \/ s \in signals
       THEN Broken("killed") /\ UNCHANGED <<session, signals, told>>
       ELSE IF mode = "run"
       THEN Stopping("interrupted") /\ ForwardSignal /\ UNCHANGED <<signals, req>>
       ELSE /\ signals' = signals \cup {s} /\ UNCHANGED told
            /\ CASE phase = "resolve" -> Gone("0") /\ session' = 0 /\ UNCHANGED req
                 [] phase = "serving" -> Stopping("0") /\ UNCHANGED req
                 [] phase = "closing" -> Broken("crash") /\ session' = 0
    /\ UNCHANGED <<mode, now, token, app, held>>

--------------------------------------------------------------------------------
(* The handler. *)

SetReq(q, next) == req' = [req EXCEPT ![q] = next]
Replying(q, r) == [req[q] EXCEPT !.pc = "done", !.reply = r]

\* (mutant) the expiry the adapter reports, MAX_SAFE_INTEGER, is the only one
CurrentUnchecked == session

\* getAccessToken.
Current == IF session > now THEN session ELSE 0

\* Up to the first await that is not the session: after the bridge began to
\* close, a request can only come on a connection that is there already.
Arrive(q) ==
    /\ req[q].pc = "idle"
    /\ phase \in Open \/ (phase = "closing" /\ ~Drained)
    /\ \/ SetReq(q, Replying(q, "local")) /\ UNCHANGED session
       \/ /\ session' = Current
          /\ IF Current = 0 THEN SetReq(q, Replying(q, "401"))
             ELSE \E pc \in {"body", "fetch"} :
                     SetReq(q, [req[q] EXCEPT !.pc = pc, !.token = Current])
    /\ UNCHANGED <<mode, now, token, phase, exit, signals, app, told, held>>

\* The upload ends; if it breaks off, readBody rejects and nobody catches it.
ReadBody(q) ==
    /\ req[q].pc = "body"
    /\ \/ SetReq(q, [req[q] EXCEPT !.pc = "fetch"]) /\ UNCHANGED <<phase, exit>>
       \/ Broken("crash")
    /\ UNCHANGED <<mode, now, token, session, signals, app, told, held>>

Fetch(q) ==
    /\ req[q].pc = "fetch"
    /\ SetReq(q, Replying(q, "502")) \/ SetReq(q, [req[q] EXCEPT !.pc = "answer"])
    /\ UNCHANGED <<mode, now, token, session, phase, exit, signals, app, told, held>>

\* The body of the broker's answer; if it breaks off, nobody catches it.
Answer(q) ==
    /\ req[q].pc = "answer"
    /\ \/ SetReq(q, Replying(q, "broker")) /\ UNCHANGED <<phase, exit>>
       \/ Broken("crash")
    /\ UNCHANGED <<mode, now, token, session, signals, app, told, held>>

\* A request target that is no URL: the handler throws, that of the login too.
Malformed ==
    /\ phase \in CallbackOpen \cup Open \/ (phase \in {"leaving", "closing"} /\ ~Drained)
    /\ Broken("crash")
    /\ UNCHANGED <<mode, now, token, session, signals, app, told, held>>

Advance ==
    /\ phase # "cli" /\ now < MaxTime /\ now' = now + 1
    /\ UNCHANGED <<mode, token, session, phase, exit, signals, app, told, req, held>>

Handle(q) == ReadBody(q) \/ Fetch(q) \/ Answer(q)
LogIn == Discover \/ Callback \/ Exchange \/ Verify \/ Leave

BridgeNext ==
    \/ ParseCli \/ Connect \/ HangUp
    \/ LogIn \/ Listen \/ StartApp \/ AppEnds \/ Close \/ Malformed \/ Advance
    \/ \E s \in Signals : Signal(s)
    \/ \E q \in Requests : Arrive(q) \/ Handle(q)

\* fetch ends, the timer of the login fires.  Nothing makes an upload go on, or
\* a connection hang up.
BridgeSpec ==
    /\ BridgeInit /\ [][BridgeNext]_bridgeVars
    /\ WF_bridgeVars(LogIn) /\ WF_bridgeVars(Close)
    /\ \A q \in Requests : WF_bridgeVars(Fetch(q)) /\ WF_bridgeVars(Answer(q))

--------------------------------------------------------------------------------
(* Properties *)

\* A request gets to the broker only with the token of this login, which had
\* neither expired nor been signed out when the request came in, although the
\* adapter reports an expiry that never comes; and none once the bridge stops,
\* on whatever connection it comes, since the session is cleared before the
\* server is closed (broker-bridge.mjs:46, :99, :119, :125).
AdmittedWithSession ==
    [][\A q \in Requests : req[q].pc = "idle" /\ req'[q].pc \in Held =>
          phase \in Open /\ req'[q].token = token /\ now < token]_bridgeVars

\* A process that ends by itself answered every request it took, signed out if
\* it had listened, and leaves the application of `run` behind only if a signal
\* was passed on to it (broker-bridge.mjs:67, launcher.mjs:24, README.md:13
\* "stops the bridge when the application exits").
CleanExit ==
    phase = "gone" /\ exit \notin {"killed", "crash"} =>
        /\ \A q \in Requests : req[q].pc \in {"idle", "done"}
        /\ exit # "2" => session = 0
        /\ app = "running" => told

\* Unless somebody keeps a connection busy or an upload stalled for ever, a login
\* ends, whoever calls the callback or does not, and a bridge that was told to
\* stop stops (public-oidc.mjs:12, :14, broker-bridge.mjs:67).  The code has no
\* limit for them: both closes wait, and node times out neither after close.
NothingHangs ==
    []<>(~held /\ \A q \in Requests : req[q].pc # "body") =>
        /\ phase \in Login ~> phase \notin Login
        /\ phase = "closing" ~> phase = "gone"
================================================================================
