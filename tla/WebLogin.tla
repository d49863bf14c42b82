------------------------------ MODULE WebLogin ------------------------------
(***************************************************************************)
(* Logging in through the browser, rbtools/utils/web_login.py: the main    *)
(* thread starts a small HTTP server in a thread of its own and waits for  *)
(* a stop event or for its deadline; the server hands every POST of the    *)
(* browser to a daemon thread, which gives the API client the token, notes *)
(* the outcome, answers and sets the event.                                *)
(*                                                                         *)
(* A GET or OPTIONS request changes nothing and is left out.  The browser  *)
(* is external: it may post twice, post garbage, or hang up.               *)
(***************************************************************************)
EXTENDS Naturals

CONSTANTS
  Handler,       \* bound: the POST requests of one login
  ServerVersion, \* as 10000 * major + 100 * minor + patch
  None           \* the server's information was not fetched

ASSUME VersionAssumption == ServerVersion \subseteq Nat /\ None \notin Nat

VARIABLES
  version,       \* the version in server_info, or None
  capability,    \* the capability authentication.client_web_login
  allow,         \* web_login_options.allow
  main,          \* where the main thread is in wait_login_result
  reason,        \* why it leaves its loop
  serve,         \* where the thread is in serve_forever
  shutdown,      \* the flag shutdown() raises
  deadline,      \* has timeout_epoch_secs passed?
  stopEvent,     \* WebLoginServer.stop_event
  successful,    \* WebLoginServer.login_successful
  token,         \* does the API client hold a token of this login?
  rejected,      \* history: did a POST without a token come?
  handler,       \* handler[h]: where a handler thread is in POST_login
  outcome        \* what attempt_web_login ended with

vars == <<version, capability, allow, main, reason, serve, shutdown, deadline,
          stopEvent, successful, token, rejected, handler, outcome>>

options == <<version, capability, allow>>

-----------------------------------------------------------------------------
(* is_web_login_enabled: without server_info the answer is yes; releases   *)
(* with a broken capability are taken to support it.                       *)
Enabled ==
  version # None =>
    \/ version \in 50005..50007 \cup 60000..60002
    \/ version > 50007 /\ capability

Init ==
  /\ version \in ServerVersion \cup {None}
  /\ capability \in BOOLEAN
  /\ allow \in BOOLEAN
  /\ main = "calling"
  /\ reason = "none"
  /\ serve = "none"
  /\ shutdown = FALSE
  /\ deadline = FALSE
  /\ stopEvent = FALSE
  /\ successful = FALSE
  /\ token = FALSE
  /\ rejected = FALSE
  /\ handler = [h \in Handler |-> "none"]
  /\ outcome = "none"

-----------------------------------------------------------------------------
(* The main thread *)

(* The server is started before the options are looked at. *)
MutantNotAllowed ==
  /\ main = "calling"
  /\ ~Enabled \/ ~allow
  /\ main' = "done"
  /\ serve' = "starting"
  /\ outcome' = "not allowed"
  /\ UNCHANGED <<options, reason, shutdown, deadline, stopEvent, successful,
                 token, rejected, handler>>

(* attempt_web_login: WebLoginNotAllowed, or the server is started. *)
NotAllowed ==
  /\ main = "calling"
  /\ ~Enabled \/ ~allow
  /\ main' = "done"
  /\ outcome' = "not allowed"
  /\ UNCHANGED <<options, reason, serve, shutdown, deadline, stopEvent,
                 successful, token, rejected, handler>>

Start ==
  /\ main = "calling"
  /\ Enabled /\ allow
  /\ main' = "testing"
  /\ serve' = "starting"
  /\ UNCHANGED <<options, reason, shutdown, deadline, stopEvent, successful,
                 token, rejected, handler, outcome>>

(* The loop of wait_login_result: the event, the sleep, the deadline. *)
TestEvent ==
  /\ main = "testing"
  /\ IF stopEvent
       THEN main' = "stopping" /\ reason' = "event"
       ELSE main' = "sleeping" /\ UNCHANGED reason
  /\ UNCHANGED <<options, serve, shutdown, deadline, stopEvent, successful,
                 token, rejected, handler, outcome>>

(* The deadline is never looked at. *)
MutantTestDeadline ==
  /\ main = "sleeping"
  /\ main' = "testing"
  /\ UNCHANGED <<options, reason, serve, shutdown, deadline, stopEvent,
                 successful, token, rejected, handler, outcome>>

TestDeadline ==
  /\ main = "sleeping"
  /\ IF deadline
       THEN main' = "stopping" /\ reason' = "timeout"
       ELSE main' = "testing" /\ UNCHANGED reason
  /\ UNCHANGED <<options, serve, shutdown, deadline, stopEvent, successful,
                 token, rejected, handler, outcome>>

(* KeyboardInterrupt, while the main thread waits. *)
Interrupt ==
  /\ main \in {"testing", "sleeping"}
  /\ main' = "stopping"
  /\ reason' = "interrupt"
  /\ UNCHANGED <<options, serve, shutdown, deadline, stopEvent, successful,
                 token, rejected, handler, outcome>>

(* stop_server.  After a timeout it is called twice; the second call finds *)
(* the thread gone.                                                        *)
ShutDown ==
  /\ main = "stopping"
  /\ main' = "joining"
  /\ shutdown' = TRUE
  /\ UNCHANGED <<options, reason, serve, deadline, stopEvent, successful,
                 token, rejected, handler, outcome>>

(* What wait_login_result returns or raises. *)
Result ==
  IF reason = "event" THEN IF successful THEN "true" ELSE "false"
  ELSE IF reason = "timeout" THEN "TimeoutError" ELSE "KeyboardInterrupt"

(* The result is returned without waiting for the server's thread. *)
MutantJoin ==
  /\ main = "joining"
  /\ main' = "done"
  /\ outcome' = Result
  /\ UNCHANGED <<options, reason, serve, shutdown, deadline, stopEvent,
                 successful, token, rejected, handler>>

(* The thread has ended. *)
Join ==
  /\ main = "joining"
  /\ serve = "ended"
  /\ main' = "done"
  /\ outcome' = Result
  /\ UNCHANGED <<options, reason, serve, shutdown, deadline, stopEvent,
                 successful, token, rejected, handler>>

(* timeout_secs go by. *)
Expire ==
  /\ main # "calling"
  /\ ~deadline
  /\ deadline' = TRUE
  /\ UNCHANGED <<options, main, reason, serve, shutdown, stopEvent, successful,
                 token, rejected, handler, outcome>>

-----------------------------------------------------------------------------
(* serve_forever: the flag is tested before and after every wait for a     *)
(* connection, and a connection is handled before it is tested again.      *)
Poll ==
  /\ serve \in {"starting", "polling"}
  /\ serve' = IF shutdown THEN "ended"
              ELSE IF serve = "starting" THEN "polling" ELSE "accepting"
  /\ UNCHANGED <<options, main, reason, shutdown, deadline, stopEvent,
                 successful, token, rejected, handler, outcome>>

Accept ==
  /\ serve = "accepting"
  /\ serve' = "polling"
  /\ \/ \E h \in Handler : /\ handler[h] = "none"
                           /\ handler' = [handler EXCEPT ![h] = "reading"]
     \/ UNCHANGED handler
  /\ UNCHANGED <<options, main, reason, shutdown, deadline, stopEvent,
                 successful, token, rejected, outcome>>

-----------------------------------------------------------------------------
(* POST_login, in the thread of handler h *)

Goto(h, q) == handler' = [handler EXCEPT ![h] = q]

(* The outcome is noted before the client logs in. *)
MutantRead(h) ==
  /\ handler[h] = "reading"
  /\ \E q \in {"logging in", "failing", "ended"} :
       /\ Goto(h, q)
       /\ successful' = (successful \/ q = "logging in")
  /\ UNCHANGED <<options, main, reason, serve, shutdown, deadline, stopEvent,
                 token, rejected, outcome>>

(* The body holds a token, no token, or cannot be parsed; a handler that   *)
(* fails never sets the event.                                             *)
Read(h) ==
  /\ handler[h] = "reading"
  /\ \E q \in {"logging in", "failing", "ended"} : Goto(h, q)
  /\ UNCHANGED <<options, main, reason, serve, shutdown, deadline, stopEvent,
                 successful, token, rejected, outcome>>

(* The event is set before the outcome is noted. *)
MutantLogIn(h) ==
  /\ handler[h] = "logging in"
  /\ token' = TRUE
  /\ stopEvent' = TRUE
  /\ Goto(h, "succeeding")
  /\ UNCHANGED <<options, main, reason, serve, shutdown, deadline, successful,
                 rejected, outcome>>

LogIn(h) ==
  /\ handler[h] = "logging in"
  /\ token' = TRUE
  /\ Goto(h, "succeeding")
  /\ UNCHANGED <<options, main, reason, serve, shutdown, deadline, stopEvent,
                 successful, rejected, outcome>>

Succeed(h) ==
  /\ handler[h] = "succeeding"
  /\ successful' = TRUE
  /\ Goto(h, "answering")
  /\ UNCHANGED <<options, main, reason, serve, shutdown, deadline, stopEvent,
                 token, rejected, outcome>>

Fail(h) ==
  /\ handler[h] = "failing"
  /\ successful' = FALSE
  /\ rejected' = TRUE
  /\ Goto(h, "answering")
  /\ UNCHANGED <<options, main, reason, serve, shutdown, deadline, stopEvent,
                 token, outcome>>

(* The answer is sent, or the browser has hung up. *)
Answer(h) ==
  /\ handler[h] = "answering"
  /\ \E q \in {"stopping", "ended"} : Goto(h, q)
  /\ UNCHANGED <<options, main, reason, serve, shutdown, deadline, stopEvent,
                 successful, token, rejected, outcome>>

Stop(h) ==
  /\ handler[h] = "stopping"
  /\ stopEvent' = TRUE
  /\ Goto(h, "ended")
  /\ UNCHANGED <<options, main, reason, serve, shutdown, deadline, successful,
                 token, rejected, outcome>>

Main == NotAllowed \/ Start \/ TestEvent \/ TestDeadline \/ ShutDown \/ Join

Serve == Poll \/ Accept

Handle(h) ==
  Read(h) \/ LogIn(h) \/ Succeed(h) \/ Fail(h) \/ Answer(h) \/ Stop(h)

Next ==
  \/ Main
  \/ Interrupt
  \/ Expire
  \/ Serve
  \/ \E h \in Handler : Handle(h)

Spec == Init /\ [][Next]_vars

(* The threads run on, and time passes; nothing makes the browser post. *)
FairSpec ==
  /\ Spec
  /\ WF_vars(Main)
  /\ WF_vars(Serve)
  /\ WF_vars(Expire)
  /\ \A h \in Handler : WF_vars(Handle(h))

-----------------------------------------------------------------------------
(* Properties *)

FlagsTyped ==
  /\ capability \in BOOLEAN /\ allow \in BOOLEAN /\ shutdown \in BOOLEAN
  /\ deadline \in BOOLEAN /\ stopEvent \in BOOLEAN /\ successful \in BOOLEAN
  /\ token \in BOOLEAN /\ rejected \in BOOLEAN

ThreadsTyped ==
  /\ version \in ServerVersion \cup {None}
  /\ main \in {"calling", "testing", "sleeping", "stopping", "joining", "done"}
  /\ reason \in {"none", "event", "timeout", "interrupt"}
  /\ serve \in {"none", "starting", "polling", "accepting", "ended"}
  /\ handler \in [Handler -> {"none", "reading", "logging in", "succeeding",
                             "failing", "answering", "stopping", "ended"}]
  /\ outcome \in {"none", "not allowed", "true", "false", "TimeoutError",
                  "KeyboardInterrupt"}

(* The server has a thread once it was started, and only if web login is   *)
(* allowed.                                                                *)
ServerStarted == serve = "none" <=> main = "calling" \/ outcome = "not allowed"

TypeOK == FlagsTyped /\ ThreadsTyped /\ ServerStarted

(* When the wait ends with success the API client holds the token, so the  *)
(* request that is sent again is authenticated, even when another handler  *)
(* set the event: POST_login logs in before it notes the success.          *)
SuccessHasToken == outcome = "true" => token

(* When the wait has ended, in whatever way, no connection is accepted any *)
(* more: wait_login_result stops the server on every path, and joins it.   *)
ServerStopped == main = "done" => serve \in {"none", "ended"}

(* False is returned only if the browser posted something without a token: *)
(* POST_login notes the outcome before it sets the event.                  *)
FailureWasPosted == outcome = "false" => rejected

(* "This will return True if the login was successful and False            *)
(* otherwise": wait_login_result does not return False once the API client *)
(* has been logged in.                                                     *)
ReportsSuccess == [][token /\ outcome' = "false" => outcome = "false"]_vars

(* "the web login server will eventually time out": the call ends even if  *)
(* nothing is ever posted, a handler dies or two of them race.             *)
WaitEnds == <>(main = "done")
=============================================================================
