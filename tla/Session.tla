------------------------------- MODULE Session -------------------------------
(***************************************************************************)
(* Who the user is: rbt login, rbt logout, and the commands that ask for   *)
(* an authenticated session (rbtools/utils/users.py), as callers of the    *)
(* client and its authentication handlers (HttpAuth).  The handlers may    *)
(* log in by themselves within any of their requests, and the server may   *)
(* forget a session between any two.                                       *)
(*                                                                         *)
(* The cookie file outlives the process.  The client reads it when it is   *)
(* made, drops the session cookie if it is given a username, and writes    *)
(* the file after every request that succeeds.                             *)
(***************************************************************************)
EXTENDS HttpAuth

CONSTANTS
  NumRetries,      \* num_retries of get_authenticated_session
  MaxLogins        \* bound: logins after which a script stops logging in

ASSUME SessionAssumption == NumRetries \in Nat /\ MaxLogins \in Nat

VARIABLES
  command,     \* "script" is any use of the client, as scripts make of it
  closed,      \* does the server require a login for everything?
  step,        \* the request the command is in or makes next, or its end
  tries,       \* the prompts after the first
  entered,     \* the user the command prompted for, or None
  found,       \* the user of the session the command has found, or None
  saved,       \* is the session cookie in the file that of the jar?
  left         \* if not, the user of the session in the file, or None

fileVars == <<saved, left>>
commandVars == <<command, closed, step, tries, entered, found>>
sessionVars == <<vars, commandVars, fileVars>>

(* "user" requires a user, "optional" makes do without. *)
Commands == {"login", "logout", "user", "optional"}
Requests == {"root", "session", "info", "web session", "self"}
Steps == Requests \cup {"web login", "prompt", "delete", "done", "failed"}

(* The session that the next command will find in the file. *)
FileUser == IF saved THEN SessionUser ELSE left

SessionInit ==
  /\ Init
  /\ command \in Commands \cup {"script"}
  /\ closed \in BOOLEAN
  /\ step = "root"
  /\ tries = 0
  /\ entered = None
  /\ found = None
  /\ saved = (user = None)
  /\ left \in IF user = None THEN {None} ELSE Maybe(User)

Goto(s) == step' = s

Stay == UNCHANGED commandVars

(* The command goes on at s, and nothing else of it changes. *)
Proceed(s) == Goto(s) /\ UNCHANGED <<command, closed, tries, entered, found>>

(* It ends with the session of u, or with none. *)
End(u) ==
  Goto("done") /\ found' = u /\ UNCHANGED <<command, closed, tries, entered>>

KeepFile == UNCHANGED fileVars

(* MozillaCookieJar.save writes all cookies of the jar. *)
SaveCookies == saved' = TRUE /\ left' = None

-----------------------------------------------------------------------------
(* The calls of a command *)

(* rbt logout does without the server if there is no session cookie. *)
HasNoCookie ==
  /\ command = "logout" /\ step = "root" /\ op = "none"
  /\ jar = None
  /\ End(None)
  /\ UNCHANGED <<vars, fileVars>>

(* On a closed server each of these requests needs a login. *)
SendRequest ==
  /\ command # "script" /\ step \in Requests
  /\ command = "logout" /\ step = "root" => jar # None
  /\ Request(closed)
  /\ Stay /\ KeepFile

(* attempt_web_login: not allowed, done in the browser, or given up there. *)
AttemptWebLogin ==
  /\ step = "web login"
  /\ \/ Proceed("prompt") /\ UNCHANGED vars
     \/ (\E t \in ApiToken : Login(None, None, t)) /\ Proceed("web session")
     \/ Proceed("failed") /\ UNCHANGED vars
  /\ KeepFile

(* Only the first answer is used to log in. *)
MutantPrompt ==
  /\ step = "prompt"
  /\ \/ /\ \E u \in User, p \in Password :
             /\ IF tries = 0 THEN Login(u, p, None) ELSE UNCHANGED vars
             /\ entered' = u
        /\ Goto("self")
        /\ UNCHANGED <<command, closed, tries, found>>
     \/ Proceed("failed") /\ UNCHANGED vars
  /\ KeepFile

(* credentials_prompt fails where it cannot prompt. *)
Prompt ==
  /\ step = "prompt"
  /\ \/ /\ \E u \in User, p \in Password :
             Login(u, p, None) /\ entered' = u
        /\ Goto("self")
        /\ UNCHANGED <<command, closed, tries, found>>
     \/ Proceed("failed") /\ UNCHANGED vars
  /\ KeepFile

DeleteSession ==
  /\ step = "delete"
  /\ Logout
  /\ Stay /\ KeepFile

-----------------------------------------------------------------------------
(* What a request returns: the session is that of as, or anonymous. *)
SessionFound(as) ==
  IF command = "logout"
    THEN IF as = None THEN End(None) ELSE Proceed("delete")
  ELSE IF as # None \/ command = "optional" THEN End(as)
  ELSE Proceed("info")

Return(as) ==
  \/ step = "root" /\ Proceed("session")
  \/ step = "session" /\ SessionFound(as)
  \/ step = "info" /\ Proceed("web login")
  \/ step \in {"web session", "self"} /\ End(as)

(* make_request saves the cookies of every answer, nested ones included;   *)
(* logout saves once more, when the session cookie is gone.                *)
RequestReturns ==
  /\ Answer
  /\ IF command = "script" THEN Stay ELSE Return(last'.as)
  /\ SaveCookies

LogoutReturns ==
  /\ FinishLogout
  /\ IF command = "script" THEN Stay ELSE End(None)
  /\ SaveCookies

InfoReturns ==
  /\ AnswerInfo
  /\ Stay
  /\ SaveCookies

(* AuthorizationError: get_authenticated_session prompts again. *)
RequestRefused ==
  /\ GiveUp
  /\ IF command = "script" THEN Stay
     ELSE IF step = "self" /\ tries < NumRetries
       THEN /\ Goto("prompt")
            /\ tries' = tries + 1
            /\ UNCHANGED <<command, closed, entered, found>>
     ELSE Proceed("failed")
  /\ KeepFile

RequestFails ==
  /\ Abort
  /\ IF command = "script" THEN Stay ELSE Proceed("failed")
  /\ KeepFile

(* The handlers are at work on the request. *)
Handle ==
  /\ \/ Open \/ Refuse \/ StartWebLogin \/ SkipWebLogin
     \/ WebLoginSucceeds \/ WebLoginFails \/ Retry
  /\ Stay /\ KeepFile

Script ==
  /\ command = "script"
  /\ Call
  /\ logins < MaxLogins \/ logins' = logins
  /\ Stay /\ KeepFile

SessionExpires ==
  /\ \/ Expire /\ KeepFile
     \/ left # None /\ left' = None /\ UNCHANGED <<vars, saved>>
  /\ Stay

(* The command and its client, when nothing fails outside them. *)
CommandStep ==
  \/ HasNoCookie \/ SendRequest \/ AttemptWebLogin \/ Prompt \/ DeleteSession
  \/ RequestReturns \/ LogoutReturns \/ InfoReturns \/ RequestRefused
  \/ Handle

SessionNext == CommandStep \/ RequestFails \/ Script \/ SessionExpires

SessionSpec == SessionInit /\ [][SessionNext]_sessionVars

(* The command runs on, the server answers and the user too. *)
FairSessionSpec == SessionSpec /\ WF_sessionVars(CommandStep)

-----------------------------------------------------------------------------
(* Properties *)

(* The type invariant of what Session adds; the prompts are bounded. *)
SessionTyped ==
  /\ command \in Commands \cup {"script"}
  /\ closed \in BOOLEAN
  /\ step \in Steps
  /\ tries \in 0..NumRetries
  /\ entered \in Maybe(User) /\ found \in Maybe(User)
  /\ saved \in BOOLEAN /\ left \in Maybe(User)

(* "Log out of a session on the Review Board server", and "return an       *)
(* authenticated session": a command that ends well leaves what was asked  *)
(* for.  After rbt logout the cookie file holds no session that works,     *)
(* whichever one the handlers started on the way; a user who was prompted  *)
(* for gets a session of that user, whoever the client acted as before.    *)
(* A file that the client was told to disregard is left as it is.          *)
EndsAsAsked ==
  step = "done" =>
    /\ command = "logout" => (saved => FileUser = None)
    /\ command # "logout" /\ entered # None => found = entered

(* Every call of the client returns, and every command ends. *)
CommandsEnd ==
  /\ Terminates
  /\ <>(command = "script" \/ step \in {"done", "failed"})
=============================================================================
