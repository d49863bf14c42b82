------------------------------ MODULE HttpAuth ------------------------------
(***************************************************************************)
(* Authentication of API requests, rbtools/api/request.py: the urllib      *)
(* handlers ReviewBoardServer installs, in the order urllib calls them.    *)
(* A request goes out with the credentials PresetHTTPAuthHandler adds.  On *)
(* a 401 ReviewBoardWebLoginHandler may log in through the browser, then   *)
(* ReviewBoardHTTPBasicAuthHandler may retry with a password and with a    *)
(* two-factor token; each retry opens the same request again.              *)
(*                                                                         *)
(* The handlers live as long as the client and share its password manager, *)
(* so what one request leaves in them decides what the next one does.  The *)
(* web login callback of the commands makes an API request of its own      *)
(* (get_info), while the first request waits.                              *)
(*                                                                         *)
(* The server is external: a valid session cookie overrides an             *)
(* Authorization header, and good credentials start a session.             *)
(***************************************************************************)
EXTENDS Integers

CONSTANTS
  User, Password,
  RightPassword,       \* RightPassword[u]: the password of u
  ApiToken, Owner,     \* Owner[t]: the user of token t, or None
  OtpUser,             \* users with two-factor authentication
  MaxOtpTokenAttempts, \* MAX_OTP_TOKEN_ATTEMPTS
  HasAuthCallback, HasOtpCallback, HasWebLogin,
  None

ASSUME UserAssumption ==
  /\ RightPassword \in [User -> Password]
  /\ Owner \in [ApiToken -> User \cup {None}]
  /\ OtpUser \subseteq User
  /\ None \notin User \cup Password \cup ApiToken
ASSUME BoundAssumption ==
  /\ MaxOtpTokenAttempts \in Nat
  /\ {HasAuthCallback, HasOtpCallback, HasWebLogin} \subseteq BOOLEAN

VARIABLES
  op,                  \* what the caller is in: "none", "request", "logout"
  call,                \* the request being opened
  suspended,           \* the request that waits for the web login callback
  user, password, apiToken,  \* rb_user, rb_pass, api_token
  webUsed,             \* ReviewBoardWebLoginHandler.used
  presetUsed,          \* PresetHTTPAuthHandler.used
  triedLogin,          \* _tried_login
  otpMethod,           \* is _otp_token_method set?
  otpAttempts,         \* _otp_token_attempts
  apiRoot,             \* has the command fetched its api_root?
  jar,                 \* the user of the session cookie
  alive,               \* does the server still know that session?
  logins,              \* history: calls of reset, the constructor included
  submitted,           \* history: requests decided by their credentials
  last                 \* history: what the last step returned

vars == <<op, call, suspended, user, password, apiToken, webUsed, presetUsed,
          triedLogin, otpMethod, otpAttempts, apiRoot, jar, alive, logins,
          submitted, last>>

manager == <<user, password, apiToken>>
handlers == <<webUsed, presetUsed, triedLogin, otpMethod, otpAttempts>>
session == <<jar, alive>>

Maybe(S) == S \cup {None}

(* The value of an Authorization header. *)
Auth == [user : Maybe(User), password : Maybe(Password),
         token : Maybe(ApiToken)]

Basic(u, p) == [user |-> u, password |-> p, token |-> None]
Token(t) == [user |-> None, password |-> None, token |-> t]

Otp == {"right", "wrong"}

(* A urllib Request and the handler that holds it: headers set by          *)
(* add_header and by add_unredirected_header; stale when its Cookie header *)
(* names a session the server has forgotten.  rejected and retries are     *)
(* history: what a 401 refused, and Basic retries without a token.         *)
Frame ==
  [pc : {"open", "sent", "unauthorized", "weblogin", "basic"},
   private : BOOLEAN, header : Maybe(Auth), unredirected : Maybe(Auth),
   otp : Maybe(Otp), otpRequired : BOOLEAN, stale : BOOLEAN,
   rejected : SUBSET Auth, retries : Nat]

Result == [op : {"request", "get_info", "logout"}, as : Maybe(User)]

ASSUME NoneAssumption ==
  /\ None \notin Frame
  /\ None \notin Auth
  /\ None \notin Otp
  /\ None \notin Result

NewFrame(private) ==
  [pc |-> "open", private |-> private, header |-> None, unredirected |-> None,
   otp |-> None, otpRequired |-> FALSE, stale |-> FALSE, rejected |-> {}, retries |-> 0]

(* urllib sends an unredirected header in preference to a plain one. *)
Effective(f) == IF f.unredirected # None THEN f.unredirected ELSE f.header

-----------------------------------------------------------------------------
(* The server *)

Knows(a) ==
  IF a.token # None THEN Owner[a.token] # None
  ELSE a.user # None /\ a.password = RightPassword[a.user]

AuthUser(a) == IF a.token # None THEN Owner[a.token] ELSE a.user

NeedsOtp(a) == a.token = None /\ a.user \in OtpUser

SessionUser == IF alive THEN jar ELSE None

(* The session f names: a Cookie header is added to a request that has     *)
(* none, so one that is opened again keeps the session it was refused with *)
(* and does not see a session that was started in the meantime.            *)
SessionOf(f) == IF f.stale THEN None ELSE SessionUser

(* Does the server answer f, and is it f's credentials that decide? *)
ByCredentials(f) == SessionOf(f) = None /\ Effective(f) # None

Accepts(f) ==
  IF ByCredentials(f)
    THEN /\ Knows(Effective(f))
         /\ NeedsOtp(Effective(f)) => f.otp = "right"
    ELSE SessionOf(f) # None \/ ~f.private

AnsweredAs(f) ==
  IF ByCredentials(f) THEN AuthUser(Effective(f)) ELSE SessionOf(f)

(* The X-ReviewBoard-OTP header of a 401. *)
AsksForOtp(f) ==
  ByCredentials(f) /\ Knows(Effective(f)) /\ NeedsOtp(Effective(f))

-----------------------------------------------------------------------------
(* A client with these credentials is created, with an API token too if    *)
(* one is given: a username clears the session cookie, or it would override *)
(* the username and password.                                              *)
NoCredentials == user = None /\ apiToken = None

(* The session cookie stays when a username is given. *)
MutantInit ==
  /\ op = "none"
  /\ call = None
  /\ suspended = None
  /\ user \in Maybe(User)
  /\ password \in IF user = None THEN {None} ELSE Maybe(Password)
  /\ apiToken \in Maybe(ApiToken)
  /\ jar \in Maybe(User)
  /\ alive \in IF jar = None THEN {FALSE} ELSE BOOLEAN
  /\ webUsed = FALSE /\ presetUsed = FALSE /\ triedLogin = FALSE
  /\ otpMethod = FALSE /\ otpAttempts = 0 /\ apiRoot = FALSE
  /\ logins = 1 /\ submitted = 0 /\ last = None

Init ==
  /\ op = "none"
  /\ call = None
  /\ suspended = None
  /\ user \in Maybe(User)
  /\ password \in IF user = None THEN {None} ELSE Maybe(Password)
  /\ apiToken \in Maybe(ApiToken)
  /\ jar \in IF user = None THEN Maybe(User) ELSE {None}
  /\ alive \in IF jar = None THEN {FALSE} ELSE BOOLEAN
  /\ webUsed = FALSE
  /\ presetUsed = FALSE
  /\ triedLogin = FALSE
  /\ otpMethod = FALSE
  /\ otpAttempts = 0
  /\ apiRoot = FALSE
  /\ logins = 1
  /\ submitted = 0
  /\ last = None

(* PresetHTTPAuthHandler.reset *)
Reset(u, p, t) ==
  /\ user' = u
  /\ password' = p
  /\ apiToken' = t
  /\ presetUsed' = FALSE
  /\ logins' = logins + 1

(* ReviewBoardServer.login *)
Login(u, p, t) ==
  /\ op = "none"
  /\ (u # None /\ p # None) \/ t # None
  /\ Reset(u, p, t)
  /\ last' = None
  /\ UNCHANGED <<op, call, suspended, webUsed, triedLogin, otpMethod,
                 otpAttempts, apiRoot, session, submitted>>

(* ReviewBoardServer.make_request *)
Request(private) ==
  /\ op = "none"
  /\ op' = "request"
  /\ call' = NewFrame(private)
  /\ last' = None
  /\ UNCHANGED <<suspended, manager, handlers, apiRoot, session, logins,
                 submitted>>

(* ReviewBoardServer.logout: the credentials go, then the session is       *)
(* deleted with a request like any other.                                  *)
Logout ==
  /\ op = "none"
  /\ Reset(None, None, None)
  /\ op' = "logout"
  /\ call' = NewFrame(TRUE)
  /\ last' = None
  /\ UNCHANGED <<suspended, webUsed, triedLogin, otpMethod, otpAttempts,
                 apiRoot, session, submitted>>

(* An error reaches the caller; so does one of the request the web login   *)
(* callback makes.                                                         *)
Raise ==
  /\ op' = "none"
  /\ call' = None
  /\ suspended' = None

(* The network fails, the user interrupts a prompt, or web login times     *)
(* out.  A 401 whose two-factor header cannot be parsed ends here too:     *)
(* http_error_auth_reqed gives up and the HTTPError reaches the caller,    *)
(* with the handlers as they were.                                         *)
Abort ==
  /\ call # None
  /\ Raise
  /\ last' = None
  /\ UNCHANGED <<manager, handlers, apiRoot, session, logins, submitted>>

(* The server forgets the session. *)
Expire ==
  /\ alive
  /\ alive' = FALSE
  /\ last' = None
  /\ UNCHANGED <<op, call, suspended, manager, handlers, apiRoot, jar, logins,
                 submitted>>

-----------------------------------------------------------------------------
(* Sending a request *)

(* find_user_password: the callback asks for what is missing. *)
Credentials ==
  IF HasAuthCallback
    THEN (IF user = None THEN User ELSE {user})
           \X (IF password = None THEN Password ELSE {password})
    ELSE {<<user, password>>}

(* The handler forgets that it was used. *)
MutantAddPreset ==
  /\ ~presetUsed
  /\ ~NoCredentials
  /\ \E c \in Credentials :
       call' = [call EXCEPT !.pc = "sent",
                  !.header = IF apiToken # None THEN Token(apiToken)
                             ELSE Basic(c[1], c[2])]
  /\ UNCHANGED <<manager, presetUsed>>

(* PresetHTTPAuthHandler.http_request *)
AddPreset ==
  /\ ~presetUsed
  /\ \/ /\ apiToken # None
        /\ call' = [call EXCEPT !.pc = "sent", !.header = Token(apiToken)]
        /\ UNCHANGED manager
     \/ /\ apiToken = None /\ user # None
        /\ \E c \in Credentials :
             /\ user' = c[1]
             /\ password' = c[2]
             /\ call' = [call EXCEPT !.pc = "sent",
                                    !.header = Basic(c[1], c[2])]
        /\ UNCHANGED apiToken
  /\ presetUsed' = TRUE

AddNothing ==
  /\ presetUsed \/ NoCredentials
  /\ call' = [call EXCEPT !.pc = "sent"]
  /\ UNCHANGED <<manager, presetUsed>>

(* OpenerDirector.open: the processors, then the request goes out. *)
Open ==
  /\ call # None
  /\ call.pc = "open"
  /\ AddPreset \/ AddNothing
  /\ last' = None
  /\ UNCHANGED <<op, suspended, webUsed, triedLogin, otpMethod, otpAttempts,
                 apiRoot, session, logins, submitted>>

Count == submitted' = submitted + (IF ByCredentials(call) THEN 1 ELSE 0)

(* HTTPCookieProcessor: a login starts a session. *)
KeepSession ==
  /\ jar' = IF AnsweredAs(call) # None THEN AnsweredAs(call) ELSE jar
  /\ alive' = (alive \/ AnsweredAs(call) # None)

Answering(o) ==
  /\ call # None
  /\ call.pc = "sent"
  /\ op = o
  /\ Accepts(call)
  /\ Count

(* The request succeeds.  The first one of a command fetches api_root. *)
Answer ==
  /\ Answering("request")
  /\ suspended = None
  /\ KeepSession
  /\ op' = "none"
  /\ call' = None
  /\ apiRoot' = TRUE
  /\ last' = [op |-> "request", as |-> AnsweredAs(call)]
  /\ UNCHANGED <<suspended, manager, handlers, logins>>

(* get_info succeeds: the web login callback goes on. *)
AnswerInfo ==
  /\ Answering(op)
  /\ suspended # None
  /\ KeepSession
  /\ call' = suspended
  /\ suspended' = None
  /\ last' = [op |-> "get_info", as |-> AnsweredAs(call)]
  /\ UNCHANGED <<op, manager, handlers, apiRoot, logins>>

(* The session is deleted on the server and the jar cleared. *)
FinishLogout ==
  /\ Answering("logout")
  /\ suspended = None
  /\ jar' = None
  /\ alive' = FALSE
  /\ op' = "none"
  /\ call' = None
  /\ last' = [op |-> "logout", as |-> AnsweredAs(call)]
  /\ UNCHANGED <<suspended, manager, handlers, apiRoot, logins>>

(* A 401. *)
Refuse ==
  /\ call # None
  /\ call.pc = "sent"
  /\ ~Accepts(call)
  /\ Count
  /\ call' = [call EXCEPT
       !.pc = "unauthorized",
       !.otpRequired = AsksForOtp(call),
       !.stale = @ \/ jar # None,
       !.rejected = IF ByCredentials(call) /\ ~AsksForOtp(call)
                     THEN @ \cup {Effective(call)} ELSE @]
  /\ last' = None
  /\ UNCHANGED <<op, suspended, manager, handlers, apiRoot, session, logins>>

-----------------------------------------------------------------------------
(* ReviewBoardWebLoginHandler.http_error_401 *)

(* used is set when the callback has returned. *)
MutantStartWebLogin ==
  /\ call # None
  /\ call.pc = "unauthorized"
  /\ ~webUsed /\ HasWebLogin /\ NoCredentials
  /\ LET waiting == [call EXCEPT !.pc = "weblogin"]
     IN  IF apiRoot
           THEN /\ suspended' = waiting
                /\ \E private \in BOOLEAN : call' = NewFrame(private)
           ELSE /\ call' = waiting
                /\ UNCHANGED suspended
  /\ last' = None
  /\ UNCHANGED <<op, manager, handlers, apiRoot, session, logins, submitted>>

(* attempt_web_login finds no credentials and calls the callback, which    *)
(* asks a server whose api_root is known for its information first.        *)
StartWebLogin ==
  /\ call # None
  /\ call.pc = "unauthorized"
  /\ ~webUsed /\ HasWebLogin /\ NoCredentials
  /\ webUsed' = TRUE
  /\ LET waiting == [call EXCEPT !.pc = "weblogin"]
     IN  IF apiRoot
           THEN /\ suspended' = waiting
                /\ \E private \in BOOLEAN : call' = NewFrame(private)
           ELSE /\ call' = waiting
                /\ UNCHANGED suspended
  /\ last' = None
  /\ UNCHANGED <<op, manager, presetUsed, triedLogin, otpMethod, otpAttempts,
                 apiRoot, session, logins, submitted>>

SkipWebLogin ==
  /\ call # None
  /\ call.pc = "unauthorized"
  /\ webUsed \/ ~HasWebLogin \/ ~NoCredentials
  /\ webUsed' = TRUE
  /\ call' = [call EXCEPT !.pc = "basic"]
  /\ last' = None
  /\ UNCHANGED <<op, suspended, manager, presetUsed, triedLogin, otpMethod,
                 otpAttempts, apiRoot, session, logins, submitted>>

(* The browser posted an API token: api_client.login, and the request is   *)
(* opened again.                                                           *)
WebLoginSucceeds ==
  /\ call # None
  /\ call.pc = "weblogin"
  /\ \E t \in ApiToken : Reset(None, None, t)
  /\ call' = [call EXCEPT !.pc = "open"]
  /\ last' = None
  /\ UNCHANGED <<op, suspended, webUsed, triedLogin, otpMethod, otpAttempts,
                 apiRoot, session, submitted>>

(* It did not, or web login is not allowed: the next handler tries. *)
WebLoginFails ==
  /\ call # None
  /\ call.pc = "weblogin"
  /\ call' = [call EXCEPT !.pc = "basic"]
  /\ last' = None
  /\ UNCHANGED <<op, suspended, manager, handlers, apiRoot, session, logins,
                 submitted>>

-----------------------------------------------------------------------------
(* ReviewBoardHTTPBasicAuthHandler *)

(* http_error_auth_reqed notes that the server wants a token. *)
OtpMethod == otpMethod \/ call.otpRequired

MutantDeclines ==
  \/ otpAttempts > MaxOtpTokenAttempts
  \/ apiToken # None

MutantDeclinesUnlimited ==
  \/ ~OtpMethod /\ triedLogin
  \/ apiToken # None

(* retry_http_basic_auth does not even look for credentials. *)
Declines ==
  \/ otpAttempts > MaxOtpTokenAttempts
  \/ ~OtpMethod /\ triedLogin
  \/ apiToken # None

RetryCredentials ==
  {c \in IF otpAttempts > 0 THEN {<<user, password>>} ELSE Credentials :
     c[2] # None}

(* The token get_otp_token returns, if the server wants one. *)
Tokens == IF OtpMethod /\ HasOtpCallback THEN Otp ELSE {None}

(* The request is opened again.  The comparison with the header of the     *)
(* attempt before, a str with bytes, never holds.                          *)
Retry ==
  /\ call # None
  /\ call.pc = "basic"
  /\ ~Declines
  /\ otpMethod' = OtpMethod
  /\ \E c \in RetryCredentials, t \in Tokens :
       /\ user' = c[1]
       /\ password' = c[2]
       /\ call' = [call EXCEPT
            !.pc = "open",
            !.unredirected = Basic(c[1], c[2]),
            !.otp = IF t = None THEN @ ELSE t,
            !.retries = IF t = None THEN @ + 1 ELSE @]
       /\ otpAttempts' = otpAttempts + (IF t = None THEN 0 ELSE 1)
  /\ triedLogin' = TRUE
  /\ last' = None
  /\ UNCHANGED <<op, suspended, apiToken, webUsed, presetUsed, apiRoot,
                 session, logins, submitted>>

(* No handler answers the 401: HTTPError. *)
GiveUp ==
  /\ call # None
  /\ call.pc = "basic"
  /\ Declines \/ RetryCredentials = {}
  /\ otpMethod' = OtpMethod
  /\ Raise
  /\ last' = None
  /\ UNCHANGED <<manager, webUsed, presetUsed, triedLogin, otpAttempts, apiRoot,
                 session, logins, submitted>>

Step ==
  \/ Open \/ Answer \/ AnswerInfo \/ FinishLogout \/ Refuse
  \/ StartWebLogin \/ SkipWebLogin \/ WebLoginSucceeds \/ WebLoginFails
  \/ Retry \/ GiveUp

(* The caller of the client: commands do what Session says. *)
Call ==
  \/ \E u \in User, p \in Password : Login(u, p, None)
  \/ \E t \in ApiToken : Login(None, None, t)
  \/ \E private \in BOOLEAN : Request(private)
  \/ Logout

Next == Call \/ Step \/ Abort \/ Expire

Spec == Init /\ [][Next]_vars

-----------------------------------------------------------------------------
(* Properties *)

CallTyped ==
  /\ op \in {"none", "request", "logout"}
  /\ call \in Maybe(Frame)
  /\ suspended \in Maybe(Frame)
  /\ last \in Maybe(Result)

CredentialsTyped ==
  /\ user \in Maybe(User)
  /\ password \in Maybe(Password)
  /\ apiToken \in Maybe(ApiToken)
  /\ jar \in Maybe(User)

FlagsTyped ==
  /\ webUsed \in BOOLEAN /\ presetUsed \in BOOLEAN /\ triedLogin \in BOOLEAN
  /\ otpMethod \in BOOLEAN /\ apiRoot \in BOOLEAN /\ alive \in BOOLEAN

CountsTyped ==
  /\ otpAttempts \in 0..(MaxOtpTokenAttempts + 1)
  /\ logins \in Nat
  /\ submitted \in Nat

TypeOK == CallTyped /\ CredentialsTyped /\ FlagsTyped /\ CountsTyped

(* Credentials are on a request that has not been answered yet. *)
Pending ==
  /\ call # None
  /\ \/ call.pc = "open" /\ call.unredirected # None
     \/ call.pc = "sent" /\ Effective(call) # None

Unused(flag) == IF flag THEN 0 ELSE 1

(* The login attempts the handlers still allow. *)
AttemptsLeft ==
  Unused(presetUsed) + Unused(triedLogin)
    + (MaxOtpTokenAttempts + 1 - otpAttempts) + Unused(~Pending)

Budget == INSTANCE LoginBudget WITH Attempts <- MaxOtpTokenAttempts + 3,
                                    left <- AttemptsLeft, granted <- logins

(* The handlers implement LoginBudget: over all requests, nested ones      *)
(* included, the client makes one attempt for each login, one retry, and   *)
(* the two-factor attempts, in whatever order they come.                   *)
ImplementsBudget == Budget!Spec

(* The number of attempts the server sees is bounded by the number of      *)
(* logins: retry_http_basic_auth, PresetHTTPAuthHandler.used and reset.    *)
AttemptsBounded == submitted + AttemptsLeft <= logins + MaxOtpTokenAttempts + 2

(* "This subclass only retries once to make sure we've attempted with a    *)
(* valid username and password": ReviewBoardHTTPBasicAuthHandler.          *)
RetriesOnce == call # None => call.retries <= 1

(* "No point trying again and wasting a login attempt":                    *)
(* retry_http_basic_auth does not send what was refused before.            *)
RefusedNotResent ==
  call # None /\ call.pc = "open" => Effective(call) \notin call.rejected

(* Whom the credentials of the client stand for: a token comes first. *)
ClientUser == IF apiToken # None THEN Owner[apiToken] ELSE user

(* Until login or logout is called, a client with a username acts as that  *)
(* user, or as the owner of its token if it has one too, and never on the  *)
(* session of another: the cookie is cleared when a username is given, and *)
(* the callback is only asked for one when there is no session.            *)
ActsAsUser ==
  logins = 1 /\ user # None /\ last # None /\ last.as # None =>
    last.as = ClientUser

(* Every call of the client returns: no handler opens a request forever. *)
Terminates == (op # "none") ~> (op = "none")
=============================================================================
