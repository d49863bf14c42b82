--------------------------- MODULE HttpAuthProofs ---------------------------
(***************************************************************************)
(* Proofs about HttpAuth for every set of users, passwords and tokens and  *)
(* every bound: the handlers implement LoginBudget when a two-factor token *)
(* can be asked for, or no user needs one.  The inductive invariant says   *)
(* that a request goes out with credentials only when they were paid for:  *)
(* a request opened again without a Basic retry carries none.              *)
(* Two smaller ones follow: retries are counted by a flag that is never    *)
(* cleared, and headers and session name the user the client has.          *)
(* The rest is about Session, for any number of prompts: its commands use  *)
(* the client as HttpAuth allows, and end as they were asked to.           *)
(***************************************************************************)
EXTENDS Session, TLAPS

(* A token can be asked for whenever the server may want one. *)
OtpCanBeAsked == HasOtpCallback \/ OtpUser = {}

Clean(f) == f.header = None /\ f.unredirected = None

(* What holds of the request being opened. *)
CallOK ==
  /\ call.pc = "open" /\ call.unredirected = None => call.header = None
  /\ call.pc = "weblogin" => Clean(call)
  /\ ~webUsed => call.unredirected = None
  /\ call.header # None => ~NoCredentials
  /\ call.otpRequired => HasOtpCallback

(* What holds of the request that waits for the web login callback. *)
SuspendedOK ==
  /\ suspended.pc = "weblogin"
  /\ Clean(suspended)
  /\ suspended.otpRequired => HasOtpCallback
  /\ webUsed

IInv ==
  /\ TypeOK
  /\ call # None => CallOK
  /\ suspended # None => SuspendedOK
  /\ call # None /\ call.pc \in {"weblogin", "basic"} => webUsed
  /\ op = "none" <=> call = None
  /\ call = None => suspended = None
  /\ otpMethod => HasOtpCallback
  /\ AttemptsBounded
  /\ OtpCanBeAsked

(* A step of LoginBudget, or one it does not see. *)
BudgetStep == Budget!Next \/ UNCHANGED <<logins, submitted, AttemptsLeft>>

-----------------------------------------------------------------------------
LEMMA LeftType ==
  ASSUME TypeOK PROVE AttemptsLeft \in 0..(MaxOtpTokenAttempts + 4)
BY BoundAssumption DEF TypeOK, FlagsTyped, CountsTyped, AttemptsLeft, Unused

LEMMA LeftTypeNext ==
  ASSUME TypeOK' PROVE AttemptsLeft' \in 0..(MaxOtpTokenAttempts + 4)
<1>1. Unused(presetUsed)' \in 0..1 /\ Unused(triedLogin)' \in 0..1
      /\ Unused(~Pending)' \in 0..1
  BY DEF Unused
<1>2. otpAttempts' \in 0..(MaxOtpTokenAttempts + 1)
  BY DEF TypeOK, CountsTyped
<1> QED BY <1>1, <1>2, BoundAssumption DEF AttemptsLeft

LEMMA InitInv ==
  ASSUME OtpCanBeAsked, Init PROVE IInv /\ Budget!Init
<1>1. TypeOK
  <2>1. CredentialsTyped
    BY DEF Init, CredentialsTyped, Maybe
  <2>2. FlagsTyped
    BY Zenon DEF Init, FlagsTyped
  <2>3. CallTyped
    BY DEF Init, CallTyped, Maybe
  <2>4. CountsTyped
    BY BoundAssumption DEF Init, CountsTyped
  <2> QED BY <2>1, <2>2, <2>3, <2>4 DEF TypeOK
<1>2. AttemptsLeft = MaxOtpTokenAttempts + 3
  BY BoundAssumption DEF Init, AttemptsLeft, Unused, Pending
<1> QED BY <1>1, <1>2, BoundAssumption
        DEF Init, IInv, AttemptsBounded, Budget!Init

(* Once the types are kept, what is left to show of a step: the requests   *)
(* it leaves are accounted for, and LoginBudget allows it.                 *)
Accounted ==
  /\ call' # None => CallOK'
  /\ suspended' # None => SuspendedOK'
  /\ call' # None /\ call'.pc \in {"weblogin", "basic"} => webUsed'
  /\ op' = "none" <=> call' = None
  /\ call' = None => suspended' = None
  /\ otpMethod' => HasOtpCallback
  /\ submitted' + AttemptsLeft' + logins <= submitted + AttemptsLeft + logins'
  /\ BudgetStep

LEMMA AccountedInv ==
  ASSUME IInv, TypeOK', Accounted PROVE IInv' /\ BudgetStep
<1>1. AttemptsBounded'
  BY LeftType, LeftTypeNext, BoundAssumption
  DEF IInv, Accounted, SuspendedOK, Clean, AttemptsBounded, TypeOK, CountsTyped
<1> QED BY <1>1 DEF IInv, Accounted, SuspendedOK, Clean

LEMMA FrameType ==
  ASSUME NEW private \in BOOLEAN
  PROVE  /\ NewFrame(private) \in Frame /\ NewFrame(private) # None
         /\ NewFrame(private).pc = "open"
<1>1. NewFrame(private) \in Frame
  BY DEF NewFrame, Frame, Maybe
<1> QED BY <1>1, NoneAssumption DEF NewFrame

LEMMA LoginInv ==
  ASSUME IInv, NEW u \in Maybe(User), NEW p \in Maybe(Password),
         NEW t \in Maybe(ApiToken), Login(u, p, t)
  PROVE  IInv' /\ BudgetStep
<1> USE DEF Login, Reset, session
<1>1. TypeOK'
  <2>1. CallTyped' BY DEF IInv, TypeOK, CallTyped, Maybe
  <2>2. CredentialsTyped' BY DEF IInv, TypeOK, CredentialsTyped
  <2>3. FlagsTyped' BY DEF IInv, TypeOK, FlagsTyped
  <2>4. CountsTyped' BY DEF IInv, TypeOK, CountsTyped
  <2> QED BY <2>1, <2>2, <2>3, <2>4 DEF TypeOK
<1>2. submitted' = submitted /\ AttemptsLeft' <= AttemptsLeft + 1
  BY BoundAssumption
  DEF IInv, TypeOK, CountsTyped, FlagsTyped, AttemptsLeft, Unused, Pending
<1>3. Accounted
  BY <1>1, <1>2, LeftType, LeftTypeNext, BoundAssumption
  DEF IInv, Accounted, SuspendedOK, Clean, TypeOK, CountsTyped, BudgetStep, Budget!Next, Budget!LogIn
<1> QED BY <1>1, <1>3, AccountedInv

LEMMA RequestInv ==
  ASSUME IInv, NEW private \in BOOLEAN, Request(private)
  PROVE  IInv' /\ BudgetStep
<1> USE DEF Request, session, manager, handlers
<1>1. TypeOK'
  <2>1. CallTyped' BY FrameType DEF IInv, TypeOK, CallTyped, Maybe
  <2>2. CredentialsTyped' BY DEF IInv, TypeOK, CredentialsTyped
  <2>3. FlagsTyped' BY DEF IInv, TypeOK, FlagsTyped
  <2>4. CountsTyped' BY DEF IInv, TypeOK, CountsTyped
  <2> QED BY <2>1, <2>2, <2>3, <2>4 DEF TypeOK
<1>2. CallOK' /\ ~Pending'
  BY DEF CallOK, NewFrame, Pending, Clean
<1>3. AttemptsLeft' <= AttemptsLeft
  BY <1>2, BoundAssumption
  DEF IInv, TypeOK, CountsTyped, FlagsTyped, AttemptsLeft, Unused
<1>4. Accounted
  BY <1>1, <1>2, <1>3, LeftType, LeftTypeNext, BoundAssumption, FrameType
  DEF IInv, Accounted, SuspendedOK, Clean, TypeOK, CountsTyped, BudgetStep,
      Budget!Next, Budget!Forgo
<1> QED BY <1>1, <1>4, AccountedInv

LEMMA LogoutInv == ASSUME IInv, Logout PROVE IInv' /\ BudgetStep
<1> USE DEF Logout, Reset, session
<1>1. TypeOK'
  <2>1. CallTyped' BY FrameType DEF IInv, TypeOK, CallTyped, Maybe
  <2>2. CredentialsTyped' BY DEF IInv, TypeOK, CredentialsTyped, Maybe
  <2>3. FlagsTyped' BY DEF IInv, TypeOK, FlagsTyped
  <2>4. CountsTyped' BY DEF IInv, TypeOK, CountsTyped
  <2> QED BY <2>1, <2>2, <2>3, <2>4 DEF TypeOK
<1>2. CallOK' /\ ~Pending'
  BY DEF CallOK, NewFrame, Pending, Clean
<1>3. AttemptsLeft' <= AttemptsLeft + 1
  BY <1>2, BoundAssumption
  DEF IInv, TypeOK, CountsTyped, FlagsTyped, AttemptsLeft, Unused
<1>4. BudgetStep
  BY <1>1, <1>3, LeftType, LeftTypeNext, BoundAssumption
  DEF IInv, TypeOK, CountsTyped, BudgetStep, Budget!Next, Budget!LogIn
<1>5. call' # None /\ call'.pc = "open" /\ op' # "none" /\ suspended' = None
  BY FrameType DEF IInv
<1>6. submitted' + AttemptsLeft' + logins <= submitted + AttemptsLeft + logins'
  BY <1>1, <1>3, LeftType, LeftTypeNext, BoundAssumption
  DEF IInv, TypeOK, CountsTyped
<1>7. Accounted
  BY <1>2, <1>4, <1>5, <1>6 DEF IInv, Accounted, SuspendedOK, Clean
<1> QED BY <1>1, <1>7, AccountedInv

LEMMA AbortInv == ASSUME IInv, Abort PROVE IInv' /\ BudgetStep
<1> USE DEF Abort, Raise, session, manager, handlers
<1>1. TypeOK'
  <2>1. CallTyped' BY DEF IInv, TypeOK, CallTyped, Maybe
  <2>2. CredentialsTyped' BY DEF IInv, TypeOK, CredentialsTyped
  <2>3. FlagsTyped' BY DEF IInv, TypeOK, FlagsTyped
  <2>4. CountsTyped' BY DEF IInv, TypeOK, CountsTyped
  <2> QED BY <2>1, <2>2, <2>3, <2>4 DEF TypeOK
<1>2. ~Pending'
  BY DEF Pending
<1>3. AttemptsLeft' <= AttemptsLeft
  BY <1>2, BoundAssumption
  DEF IInv, TypeOK, CountsTyped, FlagsTyped, AttemptsLeft, Unused
<1>4. Accounted
  BY <1>1, <1>2, <1>3, LeftType, LeftTypeNext, BoundAssumption
  DEF IInv, Accounted, SuspendedOK, Clean, TypeOK, CountsTyped, BudgetStep,
      Budget!Next, Budget!Forgo
<1> QED BY <1>1, <1>4, AccountedInv

LEMMA ExpireInv == ASSUME IInv, Expire PROVE IInv' /\ BudgetStep
<1> USE DEF Expire, manager, handlers
<1>1. TypeOK'
  <2>1. CallTyped' BY DEF IInv, TypeOK, CallTyped, Maybe
  <2>2. CredentialsTyped' BY DEF IInv, TypeOK, CredentialsTyped
  <2>3. FlagsTyped' BY DEF IInv, TypeOK, FlagsTyped
  <2>4. CountsTyped' BY DEF IInv, TypeOK, CountsTyped
  <2> QED BY <2>1, <2>2, <2>3, <2>4 DEF TypeOK
<1>2. UNCHANGED <<submitted, AttemptsLeft>>
  BY DEF AttemptsLeft, Unused, Pending
<1>3. Accounted
  BY <1>1, <1>2, LeftType, BoundAssumption
  DEF IInv, Accounted, SuspendedOK, Clean, TypeOK, CountsTyped, BudgetStep, CallOK, NoCredentials
<1> QED BY <1>1, <1>3, AccountedInv

LEMMA CallType == ASSUME IInv, call # None PROVE call \in Frame
BY DEF IInv, TypeOK, CallTyped, Maybe

LEMMA EffectiveType ==
  ASSUME NEW f \in Frame PROVE Effective(f) \in Maybe(Auth)
BY DEF Effective, Frame, Maybe

LEMMA CredentialsType ==
  ASSUME IInv, NEW c \in Credentials
  PROVE  /\ c[1] \in Maybe(User) /\ c[2] \in Maybe(Password)
         /\ user # None => c[1] = user
         /\ Basic(c[1], c[2]) \in Auth
BY DEF IInv, TypeOK, CredentialsTyped, Credentials, Basic, Auth, Maybe

LEMMA OpenInv == ASSUME IInv, Open PROVE IInv' /\ BudgetStep
<1> USE DEF Open, session
<1>0. call \in Frame /\ CallOK
  BY CallType DEF IInv
<1>1. ASSUME AddPreset PROVE IInv' /\ BudgetStep
  <2>1. PICK h \in Auth : call' = [call EXCEPT !.pc = "sent", !.header = h]
    BY <1>1, CredentialsType
    DEF AddPreset, Token, Auth, Maybe, IInv, TypeOK, CredentialsTyped
  <2>2. call' \in Frame /\ call' # None /\ call'.pc = "sent"
    <3> DEFINE new == [call EXCEPT !.pc = "sent", !.header = h]
    <3>1. h \in Maybe(Auth)
      BY DEF Maybe
    <3>2. new \in Frame /\ new.pc = "sent"
      BY <1>0, <3>1 DEF Frame
    <3> HIDE DEF new
    <3>3. call' = new
      BY <2>1 DEF new
    <3> QED BY <3>2, <3>3, NoneAssumption
  <2>3. TypeOK'
    <3>1. CallTyped' BY <2>2 DEF IInv, TypeOK, CallTyped, Maybe
    <3>2. CredentialsTyped'
      BY <1>1, CredentialsType
      DEF AddPreset, manager, IInv, TypeOK, CredentialsTyped
    <3>3. FlagsTyped' BY <1>1 DEF AddPreset, IInv, TypeOK, FlagsTyped
    <3>4. CountsTyped' BY DEF IInv, TypeOK, CountsTyped
    <3> QED BY <3>1, <3>2, <3>3, <3>4 DEF TypeOK
  <2>4. ~NoCredentials'
    BY <1>1, CredentialsType DEF AddPreset, manager, NoCredentials
  <2>5. CallOK'
    BY <1>0, <2>1, <2>4 DEF CallOK, Frame
  <2>6. AttemptsLeft' <= AttemptsLeft
    <3>1. ~presetUsed /\ presetUsed'
      BY <1>1 DEF AddPreset
    <3>2. Unused(presetUsed) = 1 /\ Unused(presetUsed)' = 0
      BY <3>1 DEF Unused
    <3>3. Unused(~Pending)' \in 0..1 /\ Unused(~Pending) \in 0..1
      BY DEF Unused
    <3>4. Unused(triedLogin)' = Unused(triedLogin) /\ Unused(triedLogin) \in 0..1
      BY DEF Unused
    <3> QED BY <3>2, <3>3, <3>4, BoundAssumption
            DEF IInv, TypeOK, CountsTyped, AttemptsLeft
  <2>7. Accounted
    BY <2>2, <2>3, <2>5, <2>6, LeftType, LeftTypeNext, BoundAssumption
    DEF IInv, Accounted, SuspendedOK, Clean, TypeOK, CountsTyped, BudgetStep,
      Budget!Next, Budget!Forgo
  <2> QED BY <2>3, <2>7, AccountedInv
<1>2. ASSUME AddNothing PROVE IInv' /\ BudgetStep
  <2> USE <1>2 DEF AddNothing, manager
  <2>1. call' = [call EXCEPT !.pc = "sent"] /\ call' \in Frame /\ call' # None
    BY <1>0, NoneAssumption DEF Frame
  <2>2. TypeOK'
    <3>1. CallTyped' BY <2>1 DEF IInv, TypeOK, CallTyped, Maybe
    <3>2. CredentialsTyped' BY DEF IInv, TypeOK, CredentialsTyped
    <3>3. FlagsTyped' BY DEF IInv, TypeOK, FlagsTyped
    <3>4. CountsTyped' BY DEF IInv, TypeOK, CountsTyped
    <3> QED BY <3>1, <3>2, <3>3, <3>4 DEF TypeOK
  <2>3. CallOK'
    BY <1>0, <2>1 DEF CallOK, Frame, NoCredentials
  <2>4. Pending' => Pending
    BY <1>0, <2>1 DEF Pending, CallOK, Effective, Frame
  <2>5. AttemptsLeft' <= AttemptsLeft
    BY <2>4, BoundAssumption
    DEF IInv, TypeOK, CountsTyped, FlagsTyped, AttemptsLeft, Unused
  <2>6. Accounted
    BY <2>1, <2>2, <2>3, <2>5, LeftType, LeftTypeNext, BoundAssumption
    DEF IInv, Accounted, SuspendedOK, Clean, TypeOK, CountsTyped, BudgetStep,
      Budget!Next, Budget!Forgo
  <2> QED BY <2>2, <2>6, AccountedInv
<1> QED BY <1>1, <1>2

(* The answer to a pending request, good or bad, uses up what it was paid. *)
LEMMA CountInv ==
  ASSUME IInv, TypeOK', call # None, call.pc = "sent", Count, ~Pending',
         UNCHANGED <<presetUsed, triedLogin, otpAttempts, logins>>
  PROVE  /\ submitted' + AttemptsLeft' + logins <= submitted + AttemptsLeft + logins'
         /\ BudgetStep
<1>1. ByCredentials(call) => Pending
  BY DEF ByCredentials, Pending
<1>2. AttemptsLeft' = AttemptsLeft - (IF Pending THEN 1 ELSE 0)
  BY BoundAssumption
  DEF IInv, TypeOK, CountsTyped, FlagsTyped, AttemptsLeft, Unused
<1>3. CASE ByCredentials(call)
  <2>1. submitted' = submitted + 1 /\ AttemptsLeft' = AttemptsLeft - 1
    BY <1>1, <1>2, <1>3 DEF Count
  <2> QED BY <2>1, LeftType, LeftTypeNext, BoundAssumption
          DEF IInv, TypeOK, CountsTyped, BudgetStep, Budget!Next, Budget!Submit
<1>4. CASE ~ByCredentials(call)
  <2>1. submitted' = submitted /\ AttemptsLeft' <= AttemptsLeft
    BY <1>2, <1>4, LeftType, LeftTypeNext, BoundAssumption
    DEF Count, IInv, TypeOK, CountsTyped
  <2> QED BY <2>1, LeftType, LeftTypeNext, BoundAssumption
          DEF IInv, TypeOK, CountsTyped, BudgetStep, Budget!Next, Budget!Forgo
<1> QED BY <1>3, <1>4

LEMMA AnsweredType ==
  ASSUME IInv, call # None, call.pc = "sent", Accepts(call)
  PROVE  AnsweredAs(call) \in Maybe(User)
<1>1. Effective(call) \in Maybe(Auth)
  BY CallType, EffectiveType
<1>2. CASE ByCredentials(call)
  BY <1>1, <1>2, UserAssumption
  DEF AnsweredAs, AuthUser, ByCredentials, Auth, Maybe
<1>3. CASE ~ByCredentials(call)
  BY <1>3
  DEF AnsweredAs, SessionOf, SessionUser, IInv, TypeOK, CredentialsTyped, Maybe
<1> QED BY <1>2, <1>3

LEMMA AnswerInv == ASSUME IInv, Answer PROVE IInv' /\ BudgetStep
<1> USE DEF Answer, Answering, KeepSession, manager, handlers
<1>0. AnsweredAs(call) \in Maybe(User)
  BY AnsweredType
<1>1. TypeOK'
  <2>1. CallTyped' BY <1>0 DEF IInv, TypeOK, CallTyped, Maybe, Result
  <2>2. CredentialsTyped' BY <1>0 DEF IInv, TypeOK, CredentialsTyped
  <2>3. FlagsTyped' BY DEF IInv, TypeOK, FlagsTyped
  <2>4. CountsTyped' BY DEF IInv, TypeOK, CountsTyped, Count
  <2> QED BY <2>1, <2>2, <2>3, <2>4 DEF TypeOK
<1>2. ~Pending'
  BY DEF Pending
<1>3. /\ submitted' + AttemptsLeft' + logins <= submitted + AttemptsLeft + logins'
      /\ BudgetStep
  BY <1>1, <1>2, CountInv
<1>4. Accounted
  BY <1>3 DEF IInv, Accounted, SuspendedOK, Clean
<1> QED BY <1>1, <1>4, AccountedInv

LEMMA AnswerInfoInv == ASSUME IInv, AnswerInfo PROVE IInv' /\ BudgetStep
<1> USE DEF AnswerInfo, Answering, KeepSession, manager, handlers
<1>0. AnsweredAs(call) \in Maybe(User)
  BY AnsweredType
<1>1. TypeOK'
  <2>1. CallTyped' BY <1>0 DEF IInv, TypeOK, CallTyped, Maybe, Result
  <2>2. CredentialsTyped' BY <1>0 DEF IInv, TypeOK, CredentialsTyped
  <2>3. FlagsTyped' BY DEF IInv, TypeOK, FlagsTyped
  <2>4. CountsTyped' BY DEF IInv, TypeOK, CountsTyped, Count
  <2> QED BY <2>1, <2>2, <2>3, <2>4 DEF TypeOK
<1>2. ~Pending' /\ CallOK'
  <2> HIDE DEF KeepSession
  <2>1. call' = suspended /\ suspended # None /\ webUsed' = webUsed
    OBVIOUS
  <2>2. SuspendedOK
    BY <2>1 DEF IInv
  <2> QED BY <2>1, <2>2 DEF Pending, CallOK, Clean, SuspendedOK
<1>3. /\ submitted' + AttemptsLeft' + logins <= submitted + AttemptsLeft + logins'
      /\ BudgetStep
  BY <1>1, <1>2, CountInv
<1>4. Accounted
  BY <1>2, <1>3 DEF IInv, Accounted, SuspendedOK, Clean
<1> QED BY <1>1, <1>4, AccountedInv

LEMMA FinishLogoutInv == ASSUME IInv, FinishLogout PROVE IInv' /\ BudgetStep
<1> USE DEF FinishLogout, Answering, manager, handlers
<1>0. AnsweredAs(call) \in Maybe(User)
  BY AnsweredType
<1>1. TypeOK'
  <2>1. CallTyped' BY <1>0 DEF IInv, TypeOK, CallTyped, Maybe, Result
  <2>2. CredentialsTyped' BY DEF IInv, TypeOK, CredentialsTyped, Maybe
  <2>3. FlagsTyped' BY DEF IInv, TypeOK, FlagsTyped
  <2>4. CountsTyped' BY DEF IInv, TypeOK, CountsTyped, Count
  <2> QED BY <2>1, <2>2, <2>3, <2>4 DEF TypeOK
<1>2. ~Pending'
  BY DEF Pending
<1>3. /\ submitted' + AttemptsLeft' + logins <= submitted + AttemptsLeft + logins'
      /\ BudgetStep
  BY <1>1, <1>2, CountInv
<1>4. Accounted
  BY <1>3 DEF IInv, Accounted, SuspendedOK, Clean
<1> QED BY <1>1, <1>4, AccountedInv

LEMMA AsksForOtpCallback ==
  ASSUME IInv, AsksForOtp(call) PROVE HasOtpCallback
BY DEF IInv, OtpCanBeAsked, AsksForOtp, NeedsOtp

LEMMA RefuseInv == ASSUME IInv, Refuse PROVE IInv' /\ BudgetStep
<1> USE DEF Refuse, session, manager, handlers
<1>0. call \in Frame /\ CallOK /\ Effective(call) \in Maybe(Auth)
  BY CallType, EffectiveType DEF IInv
<1>1. PICK r \in SUBSET Auth, b \in BOOLEAN, s \in BOOLEAN :
        /\ call' = [call EXCEPT !.pc = "unauthorized", !.otpRequired = b,
                               !.stale = s, !.rejected = r]
        /\ b => AsksForOtp(call)
  <2>1. AsksForOtp(call) \in BOOLEAN /\ (call.stale \/ jar # None) \in BOOLEAN
    BY DEF AsksForOtp
  <2> QED BY <1>0, <2>1 DEF Frame, ByCredentials, Maybe
<1>2. call' \in Frame
  <2> HIDE DEF Refuse
  <2> QED BY <1>0, <1>1 DEF Frame
<1>3. call' # None
  BY <1>2, NoneAssumption
<1>4. TypeOK'
  <2>1. CallTyped' BY <1>2 DEF IInv, TypeOK, CallTyped, Maybe
  <2>2. CredentialsTyped' BY DEF IInv, TypeOK, CredentialsTyped
  <2>3. FlagsTyped' BY DEF IInv, TypeOK, FlagsTyped
  <2>4. CountsTyped' BY DEF IInv, TypeOK, CountsTyped, Count
  <2> QED BY <2>1, <2>2, <2>3, <2>4 DEF TypeOK
<1>5. ~Pending' /\ CallOK'
  BY <1>0, <1>1, AsksForOtpCallback DEF Pending, CallOK, Frame, NoCredentials
<1>6. /\ submitted' + AttemptsLeft' + logins <= submitted + AttemptsLeft + logins'
      /\ BudgetStep
  BY <1>4, <1>5, CountInv
<1>7. Accounted
  BY <1>3, <1>5, <1>6 DEF IInv, Accounted, SuspendedOK, Clean
<1> QED BY <1>4, <1>7, AccountedInv

(* The frames the 401 handlers leave. *)
LEMMA WithPc ==
  ASSUME NEW f \in Frame, NEW q \in {"open", "weblogin", "basic"}
  PROVE  [f EXCEPT !.pc = q] \in Frame /\ [f EXCEPT !.pc = q] # None
<1>1. [f EXCEPT !.pc = q] \in Frame
  BY DEF Frame
<1> QED BY <1>1, NoneAssumption

LEMMA StartWebLoginInv == ASSUME IInv, StartWebLogin PROVE IInv' /\ BudgetStep
<1> USE DEF StartWebLogin, session, manager
<1>0. call \in Frame /\ CallOK
  BY CallType DEF IInv
<1>1. Clean(call) /\ (call.otpRequired => HasOtpCallback)
  BY <1>0 DEF CallOK, Clean
<1> DEFINE waiting == [call EXCEPT !.pc = "weblogin"]
<1>2. /\ waiting \in Frame /\ waiting # None /\ waiting.pc = "weblogin"
      /\ Clean(waiting) /\ waiting.otpRequired = call.otpRequired
  BY <1>0, <1>1, WithPc DEF Frame, Clean
<1> HIDE DEF waiting
<1>3. CASE apiRoot
  <2>1. PICK private \in BOOLEAN :
          call' = NewFrame(private) /\ suspended' = waiting
    BY <1>3 DEF waiting
  <2>2. TypeOK'
    <3>1. CallTyped' BY <1>2, <2>1, FrameType DEF IInv, TypeOK, CallTyped, Maybe
    <3>2. CredentialsTyped' BY DEF IInv, TypeOK, CredentialsTyped
    <3>3. FlagsTyped' BY DEF IInv, TypeOK, FlagsTyped
    <3>4. CountsTyped' BY DEF IInv, TypeOK, CountsTyped
    <3> QED BY <3>1, <3>2, <3>3, <3>4 DEF TypeOK
  <2>3. call' # None /\ CallOK' /\ ~Pending'
    BY <2>1, FrameType DEF CallOK, NewFrame, Pending, Clean
  <2>4. AttemptsLeft' <= AttemptsLeft
    BY <2>3, BoundAssumption
    DEF IInv, TypeOK, CountsTyped, FlagsTyped, AttemptsLeft, Unused
  <2>5. suspended'.pc = "weblogin" /\ Clean(suspended') /\ webUsed'
        /\ (suspended'.otpRequired => HasOtpCallback)
    BY <1>1, <1>2, <2>1
  <2>6. Accounted
    BY <2>2, <2>3, <2>4, <2>5, LeftType, LeftTypeNext, BoundAssumption
    DEF IInv, Accounted, SuspendedOK, Clean, TypeOK, CountsTyped, BudgetStep,
      Budget!Next, Budget!Forgo
  <2> QED BY <2>2, <2>6, AccountedInv
<1>4. CASE ~apiRoot
  <2>1. call' = waiting /\ suspended' = suspended
    BY <1>4 DEF waiting
  <2>2. TypeOK'
    <3>1. CallTyped' BY <1>2, <2>1 DEF IInv, TypeOK, CallTyped, Maybe
    <3>2. CredentialsTyped' BY DEF IInv, TypeOK, CredentialsTyped
    <3>3. FlagsTyped' BY DEF IInv, TypeOK, FlagsTyped
    <3>4. CountsTyped' BY DEF IInv, TypeOK, CountsTyped
    <3> QED BY <3>1, <3>2, <3>3, <3>4 DEF TypeOK
  <2>3. call' # None /\ CallOK' /\ ~Pending'
    BY <1>1, <1>2, <2>1 DEF CallOK, Pending, Clean
  <2>4. AttemptsLeft' <= AttemptsLeft
    BY <2>3, BoundAssumption
    DEF IInv, TypeOK, CountsTyped, FlagsTyped, AttemptsLeft, Unused
  <2>5. Accounted
    BY <2>1, <2>2, <2>3, <2>4, LeftType, LeftTypeNext, BoundAssumption
    DEF IInv, Accounted, SuspendedOK, Clean, TypeOK, CountsTyped, BudgetStep,
      Budget!Next, Budget!Forgo
  <2> QED BY <2>2, <2>5, AccountedInv
<1> QED BY <1>3, <1>4

LEMMA SkipWebLoginInv == ASSUME IInv, SkipWebLogin PROVE IInv' /\ BudgetStep
<1> USE DEF SkipWebLogin, session, manager
<1>0. call \in Frame /\ CallOK /\ call' \in Frame /\ call' # None
  BY CallType, WithPc DEF IInv
<1>1. TypeOK'
  <2>1. CallTyped' BY <1>0 DEF IInv, TypeOK, CallTyped, Maybe
  <2>2. CredentialsTyped' BY DEF IInv, TypeOK, CredentialsTyped
  <2>3. FlagsTyped' BY DEF IInv, TypeOK, FlagsTyped
  <2>4. CountsTyped' BY DEF IInv, TypeOK, CountsTyped
  <2> QED BY <2>1, <2>2, <2>3, <2>4 DEF TypeOK
<1>2. ~Pending' /\ CallOK'
  BY <1>0 DEF Pending, CallOK, Frame, NoCredentials
<1>3. AttemptsLeft' <= AttemptsLeft
  BY <1>2, BoundAssumption
  DEF IInv, TypeOK, CountsTyped, FlagsTyped, AttemptsLeft, Unused
<1>4. Accounted
  BY <1>0, <1>1, <1>2, <1>3, LeftType, LeftTypeNext, BoundAssumption
  DEF IInv, Accounted, SuspendedOK, Clean, TypeOK, CountsTyped, BudgetStep,
      Budget!Next, Budget!Forgo
<1> QED BY <1>1, <1>4, AccountedInv

LEMMA WebLoginSucceedsInv ==
  ASSUME IInv, WebLoginSucceeds PROVE IInv' /\ BudgetStep
<1> USE DEF WebLoginSucceeds, Reset, session
<1>0. call \in Frame /\ CallOK /\ call' \in Frame /\ call' # None
  BY CallType, WithPc DEF IInv
<1>1. TypeOK'
  <2>1. CallTyped' BY <1>0 DEF IInv, TypeOK, CallTyped, Maybe
  <2>2. CredentialsTyped' BY DEF IInv, TypeOK, CredentialsTyped, Maybe
  <2>3. FlagsTyped' BY DEF IInv, TypeOK, FlagsTyped
  <2>4. CountsTyped' BY DEF IInv, TypeOK, CountsTyped
  <2> QED BY <2>1, <2>2, <2>3, <2>4 DEF TypeOK
<1>2. ~Pending' /\ CallOK'
  BY <1>0 DEF Pending, CallOK, Frame, Clean
<1>3. AttemptsLeft' <= AttemptsLeft + 1
  BY <1>2, BoundAssumption
  DEF IInv, TypeOK, CountsTyped, FlagsTyped, AttemptsLeft, Unused
<1>4. logins' = logins + 1 /\ submitted' = submitted
  OBVIOUS
<1>5. BudgetStep
  BY <1>1, <1>3, <1>4, LeftType, LeftTypeNext, BoundAssumption
  DEF IInv, TypeOK, CountsTyped, BudgetStep, Budget!Next, Budget!LogIn
<1>6. submitted' + AttemptsLeft' + logins <= submitted + AttemptsLeft + logins'
  BY <1>1, <1>3, <1>4, LeftType, LeftTypeNext, BoundAssumption
  DEF IInv, TypeOK, CountsTyped
<1>7. Accounted
  BY <1>0, <1>2, <1>5, <1>6 DEF IInv, Accounted, SuspendedOK, Clean
<1> QED BY <1>1, <1>7, AccountedInv

LEMMA WebLoginFailsInv == ASSUME IInv, WebLoginFails PROVE IInv' /\ BudgetStep
<1> USE DEF WebLoginFails, session, manager, handlers
<1>0. call \in Frame /\ CallOK /\ call' \in Frame /\ call' # None
  BY CallType, WithPc DEF IInv
<1>1. TypeOK'
  <2>1. CallTyped' BY <1>0 DEF IInv, TypeOK, CallTyped, Maybe
  <2>2. CredentialsTyped' BY DEF IInv, TypeOK, CredentialsTyped
  <2>3. FlagsTyped' BY DEF IInv, TypeOK, FlagsTyped
  <2>4. CountsTyped' BY DEF IInv, TypeOK, CountsTyped
  <2> QED BY <2>1, <2>2, <2>3, <2>4 DEF TypeOK
<1>2. ~Pending' /\ CallOK'
  BY <1>0 DEF Pending, CallOK, Frame, NoCredentials
<1>3. AttemptsLeft' <= AttemptsLeft
  BY <1>2, BoundAssumption
  DEF IInv, TypeOK, CountsTyped, FlagsTyped, AttemptsLeft, Unused
<1>4. Accounted
  BY <1>0, <1>1, <1>2, <1>3, LeftType, LeftTypeNext, BoundAssumption
  DEF IInv, Accounted, SuspendedOK, Clean, TypeOK, CountsTyped, BudgetStep,
      Budget!Next, Budget!Forgo
<1> QED BY <1>1, <1>4, AccountedInv

LEMMA OtpMethodType ==
  ASSUME IInv, call # None
  PROVE  OtpMethod \in BOOLEAN /\ (OtpMethod => HasOtpCallback)
BY CallType DEF IInv, TypeOK, FlagsTyped, OtpMethod, Frame, CallOK

LEMMA RetryInv == ASSUME IInv, Retry PROVE IInv' /\ BudgetStep
<1> USE DEF Retry, session
<1>0. call \in Frame /\ CallOK /\ webUsed \in BOOLEAN
  BY CallType DEF IInv, TypeOK, FlagsTyped
<1>1. PICK c \in RetryCredentials, t \in Tokens :
        /\ user' = c[1]
        /\ password' = c[2]
        /\ call' = [call EXCEPT
             !.pc = "open",
             !.unredirected = Basic(c[1], c[2]),
             !.otp = IF t = None THEN @ ELSE t,
             !.retries = IF t = None THEN @ + 1 ELSE @]
        /\ otpAttempts' = otpAttempts + (IF t = None THEN 0 ELSE 1)
  OBVIOUS
<1>2. /\ c[1] \in Maybe(User) /\ c[2] \in Maybe(Password)
      /\ user # None => c[1] = user
      /\ Basic(c[1], c[2]) \in Auth
  BY <1>1, CredentialsType
  DEF RetryCredentials, IInv, TypeOK, CredentialsTyped, Basic, Auth, Maybe
<1> HIDE DEF Retry
<1>3. call' \in Frame
  <2>1. PICK o \in Maybe(Otp), n \in Nat :
          call' = [call EXCEPT !.pc = "open", !.unredirected = Basic(c[1], c[2]),
                               !.otp = o, !.retries = n]
    <3>1. CASE t = None
      <4>1. call' = [call EXCEPT !.pc = "open", !.unredirected = Basic(c[1], c[2]),
                                 !.otp = call.otp, !.retries = call.retries + 1]
        BY <1>1, <3>1
      <4>2. call.otp \in Maybe(Otp) /\ call.retries + 1 \in Nat
        BY <1>0 DEF Frame
      <4> QED BY <4>1, <4>2
    <3>2. CASE t # None
      <4>1. call' = [call EXCEPT !.pc = "open", !.unredirected = Basic(c[1], c[2]),
                                 !.otp = t, !.retries = call.retries]
        BY <1>1, <3>2
      <4>2. t \in Maybe(Otp)
        BY <3>2 DEF Tokens, Maybe
      <4>3. call.retries \in Nat
        BY <1>0 DEF Frame
      <4> QED BY <4>1, <4>2, <4>3
    <3> QED BY <3>1, <3>2
  <2> QED BY <1>0, <1>2, <2>1 DEF Frame, Maybe
<1>4. call' # None
  BY <1>3, NoneAssumption
<1>5. ~Declines /\ triedLogin' /\ otpMethod' = OtpMethod /\ call.pc = "basic"
  BY DEF Retry
<1>6. otpAttempts <= MaxOtpTokenAttempts /\ apiToken = None
      /\ (~OtpMethod => ~triedLogin)
  <2>1. otpAttempts \in Int
    BY DEF IInv, TypeOK, CountsTyped
  <2> QED BY <1>5, <2>1, BoundAssumption DEF Declines
<1>7. TypeOK'
  <2>1. CallTyped' BY <1>3 DEF Retry, IInv, TypeOK, CallTyped, Maybe
  <2>2. CredentialsTyped'
    BY <1>1, <1>2 DEF Retry, IInv, TypeOK, CredentialsTyped
  <2>3. FlagsTyped'
    BY OtpMethodType DEF Retry, IInv, TypeOK, FlagsTyped
  <2>4. CountsTyped'
    BY <1>1, <1>6, BoundAssumption DEF Retry, IInv, TypeOK, CountsTyped
  <2> QED BY <2>1, <2>2, <2>3, <2>4 DEF TypeOK
<1>8. call'.pc = "open" /\ call'.unredirected # None
      /\ call'.header = call.header /\ call'.otpRequired = call.otpRequired
  BY <1>0, <1>1, <1>2, NoneAssumption DEF Frame
<1>9. CallOK'
  <2>1. NoCredentials' => NoCredentials
    BY <1>1, <1>2, <1>6 DEF NoCredentials, Retry
  <2>2. webUsed
    BY DEF Retry, IInv
  <2> QED BY <1>0, <1>8, <2>1, <2>2 DEF CallOK, Retry
<1>10. AttemptsLeft' <= AttemptsLeft
  <2>1. ~Pending
    BY <1>5 DEF Pending
  <2>2. Unused(~Pending) = 0 /\ Unused(~Pending)' \in 0..1
    BY <2>1 DEF Unused
  <2>3. Unused(triedLogin)' = 0 /\ Unused(triedLogin) \in 0..1
        /\ (~triedLogin => Unused(triedLogin) = 1)
    BY <1>5 DEF Unused
  <2>4. Unused(presetUsed)' = Unused(presetUsed) /\ Unused(presetUsed) \in 0..1
    BY DEF Unused, Retry
  <2>5. \/ otpAttempts' = otpAttempts + 1
        \/ otpAttempts' = otpAttempts /\ Unused(triedLogin) = 1
    BY <1>1, <1>6, <2>3, OtpMethodType, NoneAssumption
    DEF Tokens, Retry, IInv, TypeOK, CountsTyped
  <2> QED BY <2>2, <2>3, <2>4, <2>5, BoundAssumption
          DEF AttemptsLeft, IInv, TypeOK, CountsTyped
<1>11. BudgetStep
  BY <1>7, <1>10, LeftType, LeftTypeNext, BoundAssumption
  DEF Retry, IInv, TypeOK, CountsTyped, BudgetStep, Budget!Next, Budget!Forgo
<1>12. submitted' + AttemptsLeft' + logins <= submitted + AttemptsLeft + logins'
  BY <1>7, <1>10, LeftType, LeftTypeNext, BoundAssumption
  DEF Retry, IInv, TypeOK, CountsTyped
<1>13. Accounted
  BY <1>4, <1>5, <1>9, <1>11, <1>12, OtpMethodType
  DEF Retry, IInv, Accounted, SuspendedOK, Clean
<1> QED BY <1>7, <1>13, AccountedInv

LEMMA GiveUpInv == ASSUME IInv, GiveUp PROVE IInv' /\ BudgetStep
<1> USE DEF GiveUp, Raise, session, manager
<1>1. TypeOK'
  <2>1. CallTyped' BY DEF IInv, TypeOK, CallTyped, Maybe
  <2>2. CredentialsTyped' BY DEF IInv, TypeOK, CredentialsTyped
  <2>3. FlagsTyped' BY OtpMethodType DEF IInv, TypeOK, FlagsTyped
  <2>4. CountsTyped' BY DEF IInv, TypeOK, CountsTyped
  <2> QED BY <2>1, <2>2, <2>3, <2>4 DEF TypeOK
<1>2. ~Pending'
  BY DEF Pending
<1>3. AttemptsLeft' <= AttemptsLeft
  BY <1>2, BoundAssumption
  DEF IInv, TypeOK, CountsTyped, FlagsTyped, AttemptsLeft, Unused
<1>4. Accounted
  BY <1>1, <1>2, <1>3, OtpMethodType, LeftType, LeftTypeNext, BoundAssumption
  DEF IInv, Accounted, SuspendedOK, Clean, TypeOK, CountsTyped, BudgetStep,
      Budget!Next, Budget!Forgo
<1> QED BY <1>1, <1>4, AccountedInv

-----------------------------------------------------------------------------
LEMMA NextInv == ASSUME IInv, [Next]_vars PROVE IInv' /\ BudgetStep
<1>1. CASE Step
  BY <1>1, OpenInv, AnswerInv, AnswerInfoInv, FinishLogoutInv, RefuseInv,
     StartWebLoginInv, SkipWebLoginInv, WebLoginSucceedsInv, WebLoginFailsInv,
     RetryInv, GiveUpInv DEF Step
<1>2. ASSUME NEW u \in User, NEW p \in Password, Login(u, p, None)
      PROVE  IInv' /\ BudgetStep
  BY <1>2, LoginInv DEF Maybe
<1>3. ASSUME NEW t \in ApiToken, Login(None, None, t)
      PROVE  IInv' /\ BudgetStep
  BY <1>3, LoginInv DEF Maybe
<1>4. CASE \E private \in BOOLEAN : Request(private)
  BY <1>4, RequestInv
<1>5. CASE UNCHANGED vars
  BY <1>5
  DEF vars, IInv, TypeOK, CallTyped, CredentialsTyped, FlagsTyped, CountsTyped,
      CallOK, SuspendedOK, Clean, NoCredentials, AttemptsBounded,
      AttemptsLeft, Unused, Pending,
      BudgetStep
<1> QED BY <1>1, <1>2, <1>3, <1>4, <1>5, LogoutInv, AbortInv, ExpireInv DEF Next, Call

THEOREM AuthInvariant == ASSUME OtpCanBeAsked PROVE Spec => []IInv
<1>0. Init => IInv
  BY InitInv
<1>1. IInv /\ [Next]_vars => IInv'
  BY NextInv
<1> QED BY <1>0, <1>1, PTL DEF Spec

(* The state keeps its types, the count of two-factor attempts its bound.  *)
THEOREM TypeCorrect == ASSUME OtpCanBeAsked PROVE Spec => []TypeOK
<1>1. IInv => TypeOK
  BY DEF IInv
<1> QED BY AuthInvariant, <1>1, PTL

(* Over any sequence of requests, logins and logouts, the server sees at   *)
(* most one login attempt for each login, one retry, and one for each      *)
(* two-factor token the handler may ask for.                               *)
THEOREM LoginAttemptsBounded ==
  ASSUME OtpCanBeAsked PROVE Spec => []AttemptsBounded
<1>1. IInv => AttemptsBounded
  BY DEF IInv
<1> QED BY AuthInvariant, <1>1, PTL

(* The authentication handlers implement LoginBudget: every step of theirs *)
(* is a step it allows, or one it does not see.                            *)
THEOREM HandlersImplementBudget ==
  ASSUME OtpCanBeAsked PROVE Spec => ImplementsBudget
<1>1. Init => Budget!Init
  BY InitInv
<1>2. IInv /\ [Next]_vars => [Budget!Next]_<<logins, submitted, AttemptsLeft>>
  BY NextInv DEF BudgetStep
<1> QED BY <1>1, <1>2, AuthInvariant, PTL DEF Spec, ImplementsBudget, Budget!Spec
-----------------------------------------------------------------------------
(* Basic retries.  A retry without a two-factor token is made once, because *)
(* _tried_login is set by the first and reset by nothing; a token that the *)
(* server wants can be asked for, so every other retry has one.            *)
RetriedAtMostOnce(f) == f.retries <= 1 /\ (f.retries = 1 => triedLogin)

RetryBound ==
  /\ call # None => RetriedAtMostOnce(call)
  /\ suspended # None => RetriedAtMostOnce(suspended)

LEMMA InitRetries == Init => RetryBound
BY DEF Init, RetryBound

LEMMA RetryKeepsBound ==
  ASSUME IInv, RetryBound, Retry PROVE RetryBound'
<1>1. call \in Frame /\ call # None
  BY CallType DEF Retry
<1>2. PICK c \in RetryCredentials, t \in Tokens :
        call' = [call EXCEPT
             !.pc = "open",
             !.unredirected = Basic(c[1], c[2]),
             !.otp = IF t = None THEN @ ELSE t,
             !.retries = IF t = None THEN @ + 1 ELSE @]
  BY DEF Retry
<1>3. call.retries \in Nat /\ RetriedAtMostOnce(call)
  BY <1>1 DEF Frame, RetryBound
<1>4. call'.retries = IF t = None THEN call.retries + 1 ELSE call.retries
  BY <1>1, <1>2 DEF Frame
<1>5. t = None => ~triedLogin
  <2>1. t = None => ~OtpMethod
    BY <1>1, OtpMethodType, NoneAssumption DEF Tokens
  <2>2. ~Declines
    BY DEF Retry
  <2> QED BY <2>1, <2>2 DEF Declines
<1>6. t = None => call.retries = 0
  BY <1>3, <1>5 DEF RetriedAtMostOnce
<1>7. triedLogin' /\ suspended' = suspended
  BY DEF Retry
<1>8. RetriedAtMostOnce(call)'
  BY <1>3, <1>4, <1>6, <1>7 DEF RetriedAtMostOnce
<1>9. suspended' # None => RetriedAtMostOnce(suspended)'
  BY <1>7 DEF RetryBound, RetriedAtMostOnce
<1> QED BY <1>8, <1>9 DEF RetryBound

(* What the steps other than Retry do to the requests: they drop them,     *)
(* make new ones, or leave the retries as they are.                        *)
LEMMA OthersKeepBound ==
  ASSUME IInv, RetryBound, [Next]_vars, ~Retry PROVE RetryBound'
<1> DEFINE Kept == \A f \in {call', suspended'} :
                     \/ f = None \/ f.retries = 0
                     \/ call # None /\ f.retries = call.retries
                     \/ suspended # None /\ f.retries = suspended.retries
<1>1. call # None => call \in Frame
  BY CallType
<1>2. UNCHANGED triedLogin
  BY DEF Next, Call, Step, vars, Login, Request, Logout, Abort, Expire, Open, Answer,
         AnswerInfo, FinishLogout, Refuse, StartWebLogin, SkipWebLogin,
         WebLoginSucceeds, WebLoginFails, GiveUp, handlers
<1>3. Kept
  <2>1. CASE UNCHANGED <<call, suspended>>
    BY <2>1
  <2>2. CASE (\E private \in BOOLEAN : Request(private)) \/ Logout
             \/ Abort \/ Answer \/ FinishLogout \/ GiveUp
    BY <2>2 DEF Request, Logout, Abort, Answer, FinishLogout, GiveUp, Raise,
                NewFrame, IInv
  <2>3. CASE AnswerInfo
    BY <2>3 DEF AnswerInfo
  <2>4. CASE Open
    BY <1>1, <2>4 DEF Open, AddPreset, AddNothing, Frame
  <2>5. CASE Refuse \/ SkipWebLogin \/ WebLoginSucceeds \/ WebLoginFails
    BY <1>1, <2>5 DEF Refuse, SkipWebLogin, WebLoginSucceeds, WebLoginFails,
                      Frame
  <2>6. CASE StartWebLogin
    BY <1>1, <2>6 DEF StartWebLogin, NewFrame, Frame
  <2> QED BY <2>1, <2>2, <2>3, <2>4, <2>5, <2>6
          DEF Next, Call, Step, vars, Login, Expire
<1>4. \A f \in {call', suspended'} : f = None \/ RetriedAtMostOnce(f)'
  BY <1>2, <1>3 DEF RetryBound, RetriedAtMostOnce
<1> QED BY <1>4 DEF RetryBound, RetriedAtMostOnce

(* One request is retried with a password once, however many requests and  *)
(* logins there are; every further retry has a two-factor token.           *)
THEOREM BasicRetriesOnce == ASSUME OtpCanBeAsked PROVE Spec => []RetriesOnce
<1>1. Init => RetryBound
  BY InitRetries
<1>2. IInv /\ RetryBound /\ [Next]_vars => RetryBound'
  BY RetryKeepsBound, OthersKeepBound
<1>3. RetryBound => RetriesOnce
  BY DEF RetryBound, RetriedAtMostOnce, RetriesOnce
<1> QED BY <1>1, <1>2, <1>3, AuthInvariant, PTL DEF Spec

-----------------------------------------------------------------------------
(* Whom the client acts as.  Until a login or a logout, a user name, once  *)
(* known, does not change; without a token every header names it, with one *)
(* every header holds the token; the session is of whom they stand for.    *)
FrameFields == {"pc", "private", "header", "unredirected", "otp",
                "otpRequired", "stale", "rejected", "retries"}

Carries(f) ==
  /\ f.header # None =>
       user # None /\ f.header.user = user /\ f.header.token = None
  /\ f.unredirected # None =>
       user # None /\ f.unredirected.user = user /\ f.unredirected.token = None

CarriesToken(f) ==
  /\ f.header # None => f.header.token = apiToken
  /\ f.unredirected = None

Refused(f) == f.stale \/ f.pc \in {"unauthorized", "weblogin", "basic"}

FirstUser ==
  /\ user = None => password = None
  /\ user # None => SessionUser \in {None, ClientUser}
  /\ call # None /\ apiToken = None => Carries(call)
  /\ call # None /\ apiToken # None => CarriesToken(call)
  /\ call # None /\ user = None /\ Refused(call) => SessionUser = None
  /\ suspended # None =>
       /\ apiToken = None
       /\ Carries(suspended)
       /\ user = None => SessionUser = None

UserInv ==
  /\ logins \in Nat /\ logins >= 1
  /\ call # None => DOMAIN call = FrameFields
  /\ suspended # None => DOMAIN suspended = FrameFields
  /\ logins = 1 => FirstUser /\ ActsAsUser

LEMMA InitUser == Init => UserInv
BY DEF Init, UserInv, FirstUser, ActsAsUser, SessionUser, ClientUser, Maybe

LEMMA UserFrames ==
  ASSUME UserInv, [Next]_vars
  PROVE  /\ logins' \in Nat /\ logins' >= logins
         /\ call' # None => DOMAIN call' = FrameFields
         /\ suspended' # None => DOMAIN suspended' = FrameFields
<1> USE DEF UserInv
<1>1. \A private : DOMAIN NewFrame(private) = FrameFields
  BY DEF NewFrame, FrameFields
<1>2. CASE \/ \E u \in User, p \in Password : Login(u, p, None)
           \/ \E t \in ApiToken : Login(None, None, t)
  BY <1>2 DEF Login, Reset
<1>3. CASE (\E private \in BOOLEAN : Request(private)) \/ Logout
  <2>1. /\ suspended' = suspended /\ logins' \in {logins, logins + 1}
        /\ \E private : call' = NewFrame(private)
    BY <1>3 DEF Request, Logout, Reset
  <2> QED BY <1>1, <2>1
<1>4. CASE Abort \/ Expire \/ Answer \/ AnswerInfo \/ FinishLogout \/ GiveUp
  BY <1>4 DEF Abort, Expire, Answer, AnswerInfo, FinishLogout, GiveUp, Raise
<1>5. CASE Open \/ Refuse \/ SkipWebLogin \/ WebLoginFails \/ WebLoginSucceeds
  <2>1. /\ suspended' = suspended /\ logins' \in {logins, logins + 1}
        /\ call # None
    BY <1>5 DEF Open, Refuse, SkipWebLogin, WebLoginFails, WebLoginSucceeds,
                Reset
  <2>2. CASE Open
    <3>1. CASE AddNothing
      BY <2>1, <2>2, <3>1 DEF Open, AddNothing
    <3>2. CASE AddPreset
      <4>1. \E h : call' = [call EXCEPT !.pc = "sent", !.header = h]
        BY <3>2 DEF AddPreset
      <4>2. DOMAIN call' = DOMAIN call
        BY <4>1
      <4> QED BY <2>1, <2>2, <4>2 DEF Open
    <3> QED BY <2>2, <3>1, <3>2 DEF Open
  <2>3. CASE Refuse
    BY <2>1, <2>3 DEF Refuse
  <2>4. CASE SkipWebLogin \/ WebLoginFails
    BY <2>1, <2>4 DEF SkipWebLogin, WebLoginFails
  <2>5. CASE WebLoginSucceeds
    BY <2>1, <2>5 DEF WebLoginSucceeds
  <2> QED BY <1>5, <2>2, <2>3, <2>4, <2>5
<1>6. CASE Retry
  BY <1>6 DEF Retry
<1>7. CASE StartWebLogin
  BY <1>1, <1>7 DEF StartWebLogin
<1>8. CASE UNCHANGED vars
  BY <1>8 DEF vars
<1> QED BY <1>2, <1>3, <1>4, <1>5, <1>6, <1>7, <1>8
   DEF Next, Call, Step

(* Whom the server takes a request for *)
LEMMA AnsweredFirst ==
  ASSUME FirstUser, call # None
  PROVE  /\ user # None => AnsweredAs(call) \in {None, ClientUser}
         /\ user = None /\ apiToken = None =>
              AnsweredAs(call) \in {None, SessionUser}
<1>1. SessionOf(call) \in {None, SessionUser}
  BY DEF SessionOf
<1>2. CASE apiToken = None
  BY <1>1, <1>2
  DEF FirstUser, Carries, AnsweredAs, AuthUser, ByCredentials, Effective,
      ClientUser
<1>3. CASE apiToken # None
  BY <1>1, <1>3
  DEF FirstUser, CarriesToken, AnsweredAs, AuthUser, ByCredentials, Effective,
      ClientUser
<1> QED BY <1>2, <1>3

LEMMA KeepsFirstSession ==
  ASSUME FirstUser, call # None, KeepSession, UNCHANGED <<user, apiToken>>
  PROVE  /\ user # None => SessionUser' \in {None, ClientUser}
         /\ user = None /\ apiToken = None /\ SessionUser = None =>
              SessionUser' = None
<1>1. /\ AnsweredAs(call) # None => SessionUser' = AnsweredAs(call)
      /\ AnsweredAs(call) = None => SessionUser' = SessionUser
  BY DEF KeepSession, SessionUser
<1> QED BY <1>1, AnsweredFirst DEF FirstUser

LEMMA RefusedWithoutSession ==
  ASSUME FirstUser, call # None, ~Accepts(call), user = None
  PROVE  SessionUser = None
BY DEF Accepts, ByCredentials, SessionOf, FirstUser, Refused

(* A user is only asked for where there is none, and then no request has a *)
(* header and no one is logged in.                                         *)
LEMMA AsksForFirst ==
  ASSUME NEW c \in Credentials, user = None => password = None
  PROVE  /\ user # None => c[1] = user
         /\ c[2] # None => c[1] # None
         /\ HasAuthCallback => c[1] # None
BY UserAssumption DEF Credentials

LEMMA OpenUser ==
  ASSUME UserInv, Open, logins = 1 PROVE FirstUser' /\ ActsAsUser'
<1> USE DEF Open
<1>1. FirstUser /\ DOMAIN call = FrameFields /\ UNCHANGED SessionUser
  BY DEF UserInv, session, SessionUser
<1>2. /\ ActsAsUser' /\ call'.pc = "sent" /\ call'.stale = call.stale
      /\ UNCHANGED <<suspended, apiToken>>
  BY <1>1 DEF ActsAsUser, AddPreset, AddNothing, manager, FrameFields
<1>3. CASE AddNothing \/ apiToken # None
  <2>1. UNCHANGED <<user, password>>
    BY <1>3 DEF AddNothing, AddPreset, manager
  <2>2. \/ call' = [call EXCEPT !.pc = "sent"]
        \/ /\ apiToken # None
           /\ call' = [call EXCEPT !.pc = "sent", !.header = Token(apiToken)]
    BY <1>3 DEF AddNothing, AddPreset
  <2>3. Token(apiToken).token = apiToken
    BY DEF Token
  <2>4. /\ call'.unredirected = call.unredirected
        /\ \/ call'.header = call.header
           \/ apiToken # None /\ call'.header = Token(apiToken)
    BY <1>1, <2>2 DEF FrameFields
  <2> QED BY <1>1, <1>2, <2>1, <2>3, <2>4
          DEF FirstUser, Carries, CarriesToken, Refused, ClientUser
<1>4. CASE AddPreset /\ apiToken = None
  <2>1. PICK c \in Credentials :
          /\ user' = c[1] /\ password' = c[2]
          /\ call' = [call EXCEPT !.pc = "sent", !.header = Basic(c[1], c[2])]
    BY <1>4 DEF AddPreset
  <2>2. user # None /\ user' = user
    BY <1>1, <1>4, <2>1, AsksForFirst DEF AddPreset, FirstUser
  <2>3. Carries(call)'
    BY <1>1, <1>4, <2>1, <2>2 DEF FirstUser, Carries, FrameFields, Basic
  <2> QED BY <1>1, <1>2, <1>4, <2>2, <2>3
          DEF FirstUser, Carries, Refused, ClientUser
<1> QED BY <1>3, <1>4

LEMMA RetryUser ==
  ASSUME UserInv, Retry, logins = 1 PROVE FirstUser' /\ ActsAsUser'
<1>1. /\ FirstUser /\ DOMAIN call = FrameFields /\ call # None
      /\ UNCHANGED <<suspended, apiToken, SessionUser>>
      /\ call.pc = "basic" /\ last' = None /\ apiToken = None
  BY DEF UserInv, Retry, session, SessionUser, Declines
<1>2. PICK c \in RetryCredentials, t \in Tokens :
        /\ user' = c[1]
        /\ password' = c[2]
        /\ call' = [call EXCEPT
             !.pc = "open",
             !.unredirected = Basic(c[1], c[2]),
             !.otp = IF t = None THEN @ ELSE t,
             !.retries = IF t = None THEN @ + 1 ELSE @]
  BY DEF Retry
<1>3. c[1] # None /\ (user # None => c[1] = user)
  BY <1>1, AsksForFirst DEF RetryCredentials, FirstUser
<1>4. SessionUser' \in {None, ClientUser'}
  BY <1>1, <1>2, <1>3 DEF FirstUser, Refused, ClientUser
<1>5. /\ call'.header = call.header /\ call'.pc = "open"
      /\ call'.unredirected = Basic(c[1], c[2])
  BY <1>1, <1>2 DEF FrameFields
<1>6. Carries(call)'
  BY <1>1, <1>2, <1>3, <1>5 DEF FirstUser, Carries, Basic
<1>7. suspended' # None => Carries(suspended)'
  BY <1>1, <1>2, <1>3 DEF FirstUser, Carries
<1> QED BY <1>1, <1>2, <1>3, <1>4, <1>6, <1>7 DEF FirstUser, ActsAsUser

LEMMA AnswerUser ==
  ASSUME UserInv, Answer \/ AnswerInfo \/ FinishLogout, logins = 1
  PROVE  FirstUser' /\ ActsAsUser'
<1>1. FirstUser /\ call # None /\ UNCHANGED <<user, password, apiToken>>
  BY DEF UserInv, Answer, AnswerInfo, FinishLogout, Answering, manager
<1>2. ActsAsUser'
  BY <1>1, AnsweredFirst
     DEF ActsAsUser, ClientUser, Answer, AnswerInfo, FinishLogout
<1>3. CASE Answer \/ AnswerInfo
  <2>1. /\ user # None => SessionUser' \in {None, ClientUser}
        /\ user = None /\ apiToken = None /\ SessionUser = None =>
             SessionUser' = None
    BY <1>1, <1>3, KeepsFirstSession DEF Answer, AnswerInfo
  <2>2. /\ suspended' = None
        /\ call' = None \/ (suspended # None /\ call' = suspended)
    BY <1>3 DEF Answer, AnswerInfo
  <2> QED BY <1>1, <1>2, <2>1, <2>2
          DEF FirstUser, Carries, Refused, ClientUser
<1>4. CASE FinishLogout
  <2>1. SessionUser' = None /\ call' = None /\ suspended' = None
    BY <1>4 DEF FinishLogout, SessionUser
  <2> QED BY <1>1, <1>2, <2>1 DEF FirstUser
<1> QED BY <1>3, <1>4

LEMMA WebLoginUser ==
  ASSUME UserInv, StartWebLogin \/ SkipWebLogin \/ WebLoginFails, logins = 1
  PROVE  FirstUser' /\ ActsAsUser'
<1>1. /\ FirstUser /\ DOMAIN call = FrameFields /\ call # None /\ last' = None
      /\ UNCHANGED <<user, password, apiToken, SessionUser>>
  BY DEF UserInv, StartWebLogin, SkipWebLogin, WebLoginFails, manager,
         session, SessionUser
<1>2. call.pc \in {"unauthorized", "weblogin"}
  BY DEF StartWebLogin, SkipWebLogin, WebLoginFails
<1>3. CASE SkipWebLogin \/ WebLoginFails
  <2>1. call' = [call EXCEPT !.pc = "basic"] /\ suspended' = suspended
    BY <1>3 DEF SkipWebLogin, WebLoginFails
  <2>2. /\ call'.header = call.header /\ call'.unredirected = call.unredirected
        /\ call'.stale = call.stale
    BY <1>1, <2>1 DEF FrameFields
  <2> QED BY <1>1, <1>2, <2>1, <2>2
          DEF FirstUser, ActsAsUser, Carries, CarriesToken, Refused, ClientUser
<1>4. CASE StartWebLogin
  <2> DEFINE waiting == [call EXCEPT !.pc = "weblogin"]
  <2>1. apiToken = None /\ user = None
    BY <1>4 DEF StartWebLogin, NoCredentials
  <2>2. SessionUser = None /\ waiting.header = None
        /\ waiting.unredirected = None
    BY <1>1, <1>2, <2>1 DEF FirstUser, Carries, Refused, FrameFields
  <2>3. \/ call' = waiting /\ suspended' = suspended
        \/ /\ suspended' = waiting
           /\ \E private \in BOOLEAN : call' = NewFrame(private)
    BY <1>4 DEF StartWebLogin
  <2>4. \A private \in BOOLEAN : NewFrame(private).header = None
                              /\ NewFrame(private).unredirected = None
    BY DEF NewFrame
  <2> HIDE DEF waiting
  <2> QED BY <1>1, <2>1, <2>2, <2>3, <2>4
          DEF FirstUser, ActsAsUser, Carries, ClientUser
<1> QED BY <1>3, <1>4

LEMMA OtherUser ==
  ASSUME UserInv, logins = 1,
         \/ \E private \in BOOLEAN : Request(private)
         \/ Abort \/ Expire \/ Refuse \/ GiveUp \/ UNCHANGED vars
  PROVE  FirstUser' /\ ActsAsUser'
<1>1. FirstUser /\ ActsAsUser /\ UNCHANGED <<user, password, apiToken>>
  BY DEF UserInv, Request, Abort, Expire, Refuse, GiveUp, vars, manager
<1>2. SessionUser' \in {None, SessionUser}
  BY DEF Request, Abort, Expire, Refuse, GiveUp, vars, session, SessionUser
<1>3. ActsAsUser'
  BY <1>1
  DEF ActsAsUser, ClientUser, Request, Abort, Expire, Refuse, GiveUp, vars
<1> USE DEF ClientUser
<1>4. CASE \E private \in BOOLEAN : Request(private)
  BY <1>1, <1>2, <1>3, <1>4
  DEF Request, FirstUser, Carries, CarriesToken, Refused, NewFrame
<1>5. CASE Abort \/ GiveUp
  BY <1>1, <1>2, <1>3, <1>5 DEF Abort, GiveUp, Raise, FirstUser
<1>6. CASE Expire \/ UNCHANGED vars
  BY <1>1, <1>2, <1>3, <1>6
  DEF Expire, vars, FirstUser, Carries, CarriesToken, Refused
<1>7. CASE Refuse
  <2>1. /\ DOMAIN call = FrameFields /\ call # None /\ suspended' = suspended
        /\ user = None => SessionUser = None
    BY <1>1, <1>7, RefusedWithoutSession DEF Refuse, UserInv
  <2>2. call'.header = call.header /\ call'.unredirected = call.unredirected
    BY <1>7, <2>1 DEF Refuse, FrameFields
  <2> QED BY <1>1, <1>2, <1>3, <2>1, <2>2
          DEF FirstUser, Carries, CarriesToken
<1> QED BY <1>4, <1>5, <1>6, <1>7

LEMMA UserStep == ASSUME UserInv, [Next]_vars PROVE UserInv'
<1>1. logins' = 1 => logins = 1
  BY UserFrames DEF UserInv
<1>2. ASSUME logins' = 1 PROVE FirstUser' /\ ActsAsUser'
  <2>1. /\ \A u, p, t : ~Login(u, p, t)
        /\ ~Logout /\ ~WebLoginSucceeds
    BY <1>1, <1>2 DEF Login, Logout, WebLoginSucceeds, Reset
  <2> QED BY <1>1, <1>2, <2>1, OpenUser, RetryUser, AnswerUser, WebLoginUser,
             OtherUser DEF Next, Call, Step
<1> QED BY <1>2, UserFrames DEF UserInv

(* Until a login or a logout, what the client is told was told to the user *)
(* it has: neither a session left in the cookie jar, nor one a nested      *)
(* request starts, is ever used for another.                               *)
THEOREM ActsAsItsUser == Spec => []ActsAsUser
<1>1. UserInv => ActsAsUser
  BY DEF UserInv, ActsAsUser
<1> QED BY <1>1, InitUser, UserStep, PTL DEF Spec

-----------------------------------------------------------------------------
(* Commands as callers of the client *)

LEMMA ClosedStays ==
  ASSUME [SessionNext]_sessionVars
  PROVE  closed' = closed /\ command' = command
<1> USE DEF Stay, Proceed, End, commandVars
<1>1. CASE CommandStep
  BY <1>1 DEF CommandStep, HasNoCookie, SendRequest, AttemptWebLogin, Prompt,
              DeleteSession, RequestReturns, LogoutReturns, InfoReturns,
              RequestRefused, Handle, Return, SessionFound
<1>2. CASE RequestFails \/ Script \/ SessionExpires \/ UNCHANGED sessionVars
  BY <1>2 DEF RequestFails, Script, SessionExpires, sessionVars
<1> QED BY <1>1, <1>2 DEF SessionNext

LEMMA SessionStepIsStep ==
  ASSUME closed \in BOOLEAN, [SessionNext]_sessionVars PROVE [Next]_vars
<1> USE DEF Next, Call, Step
<1>1. CASE SendRequest
  BY <1>1 DEF SendRequest
<1>2. CASE HasNoCookie \/ AttemptWebLogin \/ Prompt \/ DeleteSession
  BY <1>2 DEF HasNoCookie, AttemptWebLogin, Prompt, DeleteSession
<1>3. CASE RequestReturns \/ LogoutReturns \/ InfoReturns \/ RequestRefused
           \/ Handle
  BY <1>3 DEF RequestReturns, LogoutReturns, InfoReturns, RequestRefused,
              Handle
<1>4. CASE RequestFails \/ Script \/ SessionExpires \/ UNCHANGED sessionVars
  BY <1>4 DEF RequestFails, Script, SessionExpires, sessionVars
<1> QED BY <1>1, <1>2, <1>3, <1>4 DEF SessionNext, CommandStep

(* rbt login, rbt logout and the commands that ask for a user are callers  *)
(* of the client: what is proved of its handlers, for any use of them,     *)
(* holds of these commands, however often they prompt.                     *)
THEOREM SessionUsesClient == SessionSpec => Spec
<1>1. SessionInit => Init /\ closed \in BOOLEAN
  BY DEF SessionInit
<1>2. closed \in BOOLEAN /\ [SessionNext]_sessionVars => (closed \in BOOLEAN)'
  BY ClosedStays
<1>3. closed \in BOOLEAN /\ [SessionNext]_sessionVars => [Next]_vars
  BY SessionStepIsStep
<1> QED BY <1>1, <1>2, <1>3, PTL DEF SessionSpec, Spec

-----------------------------------------------------------------------------
(* A request whose session was refused is opened again with credentials.   *)
Resent ==
  /\ call.pc = "open" => call.unredirected # None
                          \/ ~(presetUsed \/ NoCredentials)
  /\ call.pc = "sent" => Effective(call) # None

(* One request at a time; what is known of the handlers while it is there. *)
Sequential ==
  /\ op \in {"none", "request", "logout"}
  /\ op = "none" => call = None /\ suspended = None
  /\ suspended # None => webUsed
  /\ call # None /\ call.pc # "open" => presetUsed \/ NoCredentials
  /\ call # None /\ call.stale => Resent

LEMMA SequentialInit == Init => Sequential
BY DEF Init, Sequential

LEMMA RetryFrame ==
  ASSUME IInv, Retry
  PROVE  \E b \in Auth : \E o, n :
           call' = [call EXCEPT !.pc = "open", !.unredirected = b,
                                !.otp = o, !.retries = n]
<1>1. PICK c \in RetryCredentials, t \in Tokens :
        call' = [call EXCEPT
             !.pc = "open",
             !.unredirected = Basic(c[1], c[2]),
             !.otp = IF t = None THEN @ ELSE t,
             !.retries = IF t = None THEN @ + 1 ELSE @]
  BY DEF Retry
<1>2. Basic(c[1], c[2]) \in Auth
  BY <1>1, CredentialsType
  DEF RetryCredentials, IInv, TypeOK, CredentialsTyped, Basic, Auth, Maybe
<1> DEFINE b == Basic(c[1], c[2])
           o == IF t = None THEN call.otp ELSE t
           n == IF t = None THEN call.retries + 1 ELSE call.retries
<1>3. call' = [call EXCEPT !.pc = "open", !.unredirected = b,
                           !.otp = o, !.retries = n]
  BY <1>1
<1> QED BY <1>2, <1>3

LEMMA SequentialStep ==
  ASSUME IInv, Sequential, [Next]_vars PROVE Sequential'
<1> USE DEF Sequential
<1>1. call # None => call \in Frame
  BY CallType
<1>2. CASE \/ \E u \in User, p \in Password : Login(u, p, None)
           \/ \E t \in ApiToken : Login(None, None, t)
  BY <1>2 DEF Login, Reset
<1>3. CASE (\E private \in BOOLEAN : Request(private)) \/ Logout
  BY <1>3 DEF Request, Logout, Reset, NewFrame
<1>4. CASE Abort \/ Answer \/ FinishLogout \/ GiveUp
  BY <1>4 DEF Abort, Answer, FinishLogout, GiveUp, Raise
<1>5. CASE Expire \/ UNCHANGED vars
  BY <1>5
  DEF Expire, vars, manager, handlers, NoCredentials, Resent, Effective
<1>6. CASE AnswerInfo
  BY <1>6
  DEF AnswerInfo, Answering, manager, handlers, NoCredentials, IInv,
      SuspendedOK, Resent
<1>7. CASE Open
  <2>1. call # None /\ op' = op /\ suspended' = suspended /\ webUsed' = webUsed
    BY <1>7 DEF Open
  <2>2. presetUsed' \/ NoCredentials'
    <3>1. CASE AddPreset
      BY <3>1 DEF AddPreset
    <3>2. CASE AddNothing
      BY <3>2 DEF AddNothing, NoCredentials, manager
    <3> QED BY <1>7, <3>1, <3>2 DEF Open
  <2>3. call'.pc = "sent" /\ call'.stale = call.stale
    BY <1>1, <1>7 DEF Open, AddPreset, AddNothing, Frame
  <2>4. call.stale => Effective(call)' # None
    <3>1. CASE AddNothing
      <4>1. call' = [call EXCEPT !.pc = "sent"]
        BY <3>1 DEF AddNothing
      <4>2. call.stale => call.unredirected # None
        BY <1>7, <3>1 DEF Open, AddNothing, Resent
      <4> QED BY <1>1, <2>1, <4>1, <4>2 DEF Effective, Frame
    <3>2. CASE AddPreset
      <4>1. PICK h \in Auth : call' = [call EXCEPT !.pc = "sent", !.header = h]
        BY <3>2, CredentialsType
        DEF AddPreset, Token, Auth, Maybe, IInv, TypeOK, CredentialsTyped
      <4>2. call'.header = h /\ h # None
        BY <1>1, <2>1, <4>1, NoneAssumption DEF Frame
      <4> QED BY <4>2 DEF Effective
    <3> QED BY <1>7, <3>1, <3>2 DEF Open
  <2> QED BY <2>1, <2>2, <2>3, <2>4 DEF Resent
<1>8. CASE Refuse \/ SkipWebLogin \/ WebLoginFails
  <2>1. call # None /\ call.pc # "open" /\ op # "none"
    BY <1>8 DEF Refuse, SkipWebLogin, WebLoginFails
  <2>2. call'.pc \in {"unauthorized", "basic"}
    BY <1>1, <1>8 DEF Refuse, SkipWebLogin, WebLoginFails, Frame
  <2>3. Resent'
    BY <2>2 DEF Resent
  <2> QED BY <1>8, <2>1, <2>3 DEF Refuse, SkipWebLogin, WebLoginFails, manager,
                            handlers, NoCredentials
<1>9. CASE StartWebLogin
  <2>1. call # None /\ op' = op /\ webUsed' = TRUE
    BY <1>9 DEF StartWebLogin
  <2>2. NoCredentials'
    BY <1>9 DEF StartWebLogin, NoCredentials, manager
  <2>3. call'.stale => Resent'
    BY <1>1, <1>9 DEF StartWebLogin, NewFrame, Resent, Frame
  <2> QED BY <2>1, <2>2, <2>3
<1>10. CASE WebLoginSucceeds
  <2>1. call'.pc = "open"
    BY <1>1, <1>10 DEF WebLoginSucceeds, Frame
  <2>2. ~(presetUsed \/ NoCredentials)'
    BY <1>10, UserAssumption DEF WebLoginSucceeds, Reset, NoCredentials
  <2> QED BY <1>10, <2>1, <2>2 DEF WebLoginSucceeds, Resent
<1>11. CASE Retry
  <2>1. PICK b \in Auth : \E o, n :
          call' = [call EXCEPT !.pc = "open", !.unredirected = b,
                               !.otp = o, !.retries = n]
    BY <1>11, RetryFrame
  <2>2. b # None /\ call \in Frame /\ call # None
    BY <1>1, <1>11, NoneAssumption DEF Retry
  <2>3. PICK o, n : call' = [call EXCEPT !.pc = "open", !.unredirected = b,
                                         !.otp = o, !.retries = n]
    BY <2>1
  <2>4. call'.pc = "open" /\ call'.unredirected # None
    BY <2>2, <2>3 DEF Frame
  <2> QED BY <1>11, <2>4 DEF Retry, Resent
<1> QED BY <1>2, <1>3, <1>4, <1>5, <1>6, <1>7, <1>8, <1>9, <1>10, <1>11
   DEF Next, Call, Step

LEMMA NewFrameFields ==
  ASSUME NEW private \in BOOLEAN
  PROVE  /\ NewFrame(private) # None
         /\ NewFrame(private).pc = "open"
         /\ NewFrame(private).private = private
         /\ NewFrame(private).header = None
         /\ NewFrame(private).unredirected = None
<1>1. NewFrame(private) \in Frame
  BY DEF NewFrame, Frame, Maybe
<1> QED BY <1>1, NoneAssumption DEF NewFrame

-----------------------------------------------------------------------------
(* What a command knows where it stands                                    *)

(* Before the prompts: the server answers anyone, and nothing is sent that *)
(* would make it start a session.                                          *)
Anonymous ==
  /\ ~closed
  /\ SessionUser = None
  /\ presetUsed \/ NoCredentials
  /\ call # None =>
       /\ suspended = None
       /\ call.pc \in {"open", "sent"}
       /\ call.header = None /\ call.unredirected = None

Names(a, u) == a = None \/ (a.user = u /\ a.token = None)

(* After a prompt: every header is for the user who was entered.           *)
Entered ==
  /\ SessionUser = None
  /\ entered \in User /\ user = entered /\ password # None /\ apiToken = None
  /\ op = "none" => ~presetUsed
  /\ call # None =>
       /\ suspended = None
       /\ call.pc \in {"open", "sent", "unauthorized", "basic"}
       /\ Names(call.header, entered) /\ Names(call.unredirected, entered)
       /\ call.pc = "open" => ~presetUsed \/ call.unredirected # None
       /\ call.pc = "sent" => Effective(call) # None

AsClosed ==
  call # None => IF suspended = None THEN call.private = closed
                                     ELSE suspended.private = closed

CommandInv ==
  /\ closed \in BOOLEAN
  /\ command = "script" => step = "root"
  /\ command # "script" =>
       /\ op = "request" => step \in Requests
       /\ op = "logout" => step = "delete"
       /\ step = "delete" => command = "logout"
       /\ command = "logout" =>
            step \in {"root", "session", "delete", "done", "failed"}
       /\ step \in Requests => AsClosed
       /\ step = "session" /\ op = "none" => presetUsed \/ NoCredentials
       /\ step = "info" => Anonymous
       /\ step \in {"web login", "prompt"} => SessionUser = None
       /\ step = "self" => Entered
       /\ entered # None => step \in {"prompt", "self", "done", "failed"}
       /\ EndsAsAsked

(* An anonymous answer tells that there is no session, and that the server *)
(* does not ask for one.                                                   *)
LEMMA AnonymousAnswer ==
  ASSUME Sequential, call # None, call.pc = "sent", Accepts(call),
         AnsweredAs(call) = None
  PROVE  SessionUser = None /\ ~call.private
<1>1. Knows(Effective(call)) => AuthUser(Effective(call)) # None
  BY DEF Knows, AuthUser
<1>2. ~ByCredentials(call) /\ SessionOf(call) = None /\ ~call.private
  BY <1>1 DEF Accepts, AnsweredAs
<1>3. ~call.stale
  BY <1>2 DEF ByCredentials, Sequential, Resent
<1> QED BY <1>2, <1>3 DEF SessionOf

(* No 401 comes where nothing was sent that could be wrong.                *)
LEMMA AnonymousAccepted ==
  ASSUME Anonymous, AsClosed, call # None
  PROVE  Accepts(call) /\ AnsweredAs(call) = None
<1>1. Effective(call) = None /\ call.private = closed
  BY DEF Anonymous, AsClosed, Effective
<1> QED BY <1>1 DEF Anonymous, Accepts, AnsweredAs, ByCredentials, SessionOf

LEMMA EnteredAnswer ==
  ASSUME Entered, call # None, call.pc = "sent"
  PROVE  AnsweredAs(call) = entered
<1>1. ByCredentials(call) /\ Names(Effective(call), entered)
  BY DEF Entered, ByCredentials, SessionOf, Effective
<1> QED BY <1>1 DEF Entered, AnsweredAs, AuthUser, Names, ByCredentials

(* Steps of the handlers *)
LEMMA HandleAsClosed ==
  ASSUME IInv, Sequential, AsClosed, Handle, closed' = closed
  PROVE  AsClosed'
<1>1. call \in Frame /\ call # None
  BY CallType DEF Handle, Open, Refuse, StartWebLogin, SkipWebLogin,
                  WebLoginSucceeds, WebLoginFails, Retry
<1>2. CASE StartWebLogin
  <2> DEFINE waiting == [call EXCEPT !.pc = "weblogin"]
  <2>1. waiting \in Frame /\ waiting.private = call.private
    BY <1>1 DEF Frame
  <2>2. waiting # None
    BY <2>1, NoneAssumption
  <2>3. suspended = None
    BY <1>2 DEF StartWebLogin, Sequential
  <2>4. \/ suspended' = waiting
        \/ call' = waiting /\ suspended' = suspended
    BY <1>2 DEF StartWebLogin
  <2> HIDE DEF waiting
  <2> QED BY <1>1, <2>1, <2>2, <2>3, <2>4 DEF AsClosed
<1>3. CASE ~StartWebLogin
  <2>1. suspended' = suspended
    BY <1>3 DEF Handle, Open, Refuse, SkipWebLogin, WebLoginSucceeds,
                WebLoginFails, Retry
  <2>2. call'.private = call.private
    BY <1>1, <1>3 DEF Handle, Open, AddPreset, AddNothing, Refuse,
       SkipWebLogin, WebLoginSucceeds, WebLoginFails, Retry, Frame
  <2> QED BY <1>1, <2>1, <2>2 DEF AsClosed
<1> QED BY <1>2, <1>3

LEMMA HandleAnonymous ==
  ASSUME IInv, Sequential, AsClosed, Anonymous, Handle,
         UNCHANGED <<closed, SessionUser>>
  PROVE  Anonymous'
<1>1. call \in Frame /\ call # None
  BY CallType DEF Handle, Open, Refuse, StartWebLogin, SkipWebLogin,
                  WebLoginSucceeds, WebLoginFails, Retry
<1>2. Accepts(call)
  BY <1>1, AnonymousAccepted
<1>3. Open
  BY <1>2 DEF Handle, Anonymous, Refuse, StartWebLogin, SkipWebLogin,
              WebLoginSucceeds, WebLoginFails, Retry
<1>4. ~AddPreset
  BY DEF Anonymous, AddPreset, NoCredentials
<1>5. /\ call' = [call EXCEPT !.pc = "sent"]
      /\ UNCHANGED <<manager, presetUsed, suspended>>
  BY <1>3, <1>4 DEF Open, AddNothing
<1> QED BY <1>1, <1>5 DEF Anonymous, Frame, manager, NoCredentials

LEMMA HandleEntered ==
  ASSUME IInv, Entered, Handle, UNCHANGED <<entered, SessionUser>>, op # "none"
  PROVE  Entered'
<1>1. call \in Frame /\ call # None
  BY CallType DEF Handle, Open, Refuse, StartWebLogin, SkipWebLogin,
                  WebLoginSucceeds, WebLoginFails, Retry
<1>2. user # None /\ ~NoCredentials /\ op' = op
  BY UserAssumption DEF Entered, NoCredentials, Handle, Open, Refuse,
     StartWebLogin, SkipWebLogin, WebLoginSucceeds, WebLoginFails, Retry
<1>3. \A c \in Credentials : c[1] = user /\ c[2] = password
  BY <1>2 DEF Entered, Credentials
<1>4. CASE Open
  <2>1. CASE AddPreset
    <3>1. PICK c \in Credentials :
            /\ user' = c[1] /\ password' = c[2]
            /\ call' = [call EXCEPT !.pc = "sent", !.header = Basic(c[1], c[2])]
      BY <2>1 DEF AddPreset, Entered
    <3>2. call'.header = Basic(user, password) /\ call'.pc = "sent"
          /\ call'.unredirected = call.unredirected
      BY <1>1, <1>3, <3>1 DEF Frame
    <3>3. Basic(user, password) # None
      <4>1. Basic(user, password) \in Auth
        BY DEF Basic, Auth, Maybe, IInv, TypeOK, CredentialsTyped
      <4> QED BY <4>1, NoneAssumption
    <3>4. user' = user /\ password' = password /\ apiToken' = apiToken
          /\ suspended' = suspended
      BY <1>3, <1>4, <2>1, <3>1 DEF AddPreset, Open, Entered
    <3> QED BY <1>1, <1>2, <3>2, <3>3, <3>4
            DEF Entered, Names, Basic, Effective
  <2>2. CASE AddNothing
    <3>1. call' = [call EXCEPT !.pc = "sent"] /\ UNCHANGED manager
          /\ presetUsed
      BY <1>2, <2>2 DEF AddNothing
    <3>2. call.unredirected # None
      BY <1>1, <1>4, <3>1 DEF Entered, Open
    <3> QED BY <1>1, <1>2, <1>4, <3>1, <3>2
            DEF Entered, Names, Effective, Frame, manager, Open
  <2> QED BY <1>4, <2>1, <2>2 DEF Open
<1>5. CASE Refuse \/ SkipWebLogin
  <2>1. call'.header = call.header /\ call'.unredirected = call.unredirected
        /\ call'.pc \in {"unauthorized", "basic"}
        /\ UNCHANGED <<user, password, apiToken, suspended>>
    BY <1>1, <1>5 DEF Refuse, SkipWebLogin, Frame, manager
  <2> QED BY <1>1, <1>2, <2>1 DEF Entered, Names
<1>6. CASE Retry
  <2>1. PICK c \in RetryCredentials, t \in Tokens :
          /\ user' = c[1]
          /\ password' = c[2]
          /\ call' = [call EXCEPT
               !.pc = "open",
               !.unredirected = Basic(c[1], c[2]),
               !.otp = IF t = None THEN @ ELSE t,
               !.retries = IF t = None THEN @ + 1 ELSE @]
    BY <1>6 DEF Retry
  <2>2. c[1] = user /\ c[2] = password
    BY <1>3 DEF RetryCredentials
  <2>3. call'.header = call.header /\ call'.pc = "open"
        /\ call'.unredirected = Basic(user, password)
    BY <1>1, <2>1, <2>2 DEF Frame
  <2>4. Basic(user, password) # None
    <3>1. Basic(user, password) \in Auth
      BY DEF Basic, Auth, Maybe, IInv, TypeOK, CredentialsTyped
    <3> QED BY <3>1, NoneAssumption
  <2>5. UNCHANGED <<suspended, apiToken>>
    BY <1>6 DEF Retry
  <2> QED BY <1>1, <1>2, <2>1, <2>2, <2>3, <2>4, <2>5
          DEF Entered, Names, Basic
<1>7. ~StartWebLogin /\ ~WebLoginSucceeds /\ ~WebLoginFails
  BY <1>1, <1>2 DEF Entered, StartWebLogin, WebLoginSucceeds, WebLoginFails
<1> QED BY <1>4, <1>5, <1>6, <1>7 DEF Handle

LEMMA HandleKeeps ==
  ASSUME IInv, Sequential, CommandInv, Handle PROVE CommandInv'
<1>1. /\ op \in {"request", "logout"}
      /\ UNCHANGED <<op, commandVars, fileVars>>
      /\ jar' = jar /\ alive' = alive
  BY DEF Handle, Open, Refuse, StartWebLogin, SkipWebLogin, WebLoginSucceeds,
         WebLoginFails, Retry, Stay, KeepFile, Sequential, session
<1>2. UNCHANGED <<command, closed, step, tries, entered, found, SessionUser>>
  BY <1>1 DEF commandVars, SessionUser
<1>3. command # "script" => step \in Requests \cup {"delete"}
  BY <1>1 DEF CommandInv
<1>4. command # "script" /\ step \in Requests => AsClosed'
  BY <1>2, HandleAsClosed DEF CommandInv
<1>5. command # "script" /\ step = "info" => Anonymous'
  BY <1>2, HandleAnonymous DEF CommandInv, Requests
<1>6. command # "script" /\ step = "self" => Entered'
  BY <1>1, <1>2, HandleEntered DEF CommandInv
<1> QED BY <1>1, <1>2, <1>3, <1>4, <1>5, <1>6
        DEF CommandInv, EndsAsAsked, Requests

-----------------------------------------------------------------------------
(* Steps of the command *)
LEMMA CallsKeep ==
  ASSUME IInv, Sequential, CommandInv,
         HasNoCookie \/ SendRequest \/ AttemptWebLogin \/ Prompt
           \/ DeleteSession
  PROVE  CommandInv'
<1>1. CASE HasNoCookie
  <2>1. /\ command = "logout" /\ step' = "done" /\ op' = "none"
        /\ UNCHANGED <<command, closed, entered, saved>>
        /\ SessionUser' = None
    BY <1>1 DEF HasNoCookie, End, Goto, vars, fileVars, SessionUser, session
  <2>2. entered = None
    BY <1>1, <2>1 DEF HasNoCookie, CommandInv
  <2> QED BY <2>1, <2>2 DEF CommandInv, EndsAsAsked, FileUser, Requests
<1>2. CASE SendRequest
  <2>1. /\ command # "script" /\ step \in Requests /\ op = "none"
        /\ op' = "request" /\ call' = NewFrame(closed)
        /\ UNCHANGED <<command, closed, step, entered, found, SessionUser>>
        /\ UNCHANGED <<user, password, apiToken, presetUsed, suspended>>
    BY <1>2 DEF SendRequest, Request, Stay, commandVars, manager, handlers,
                session, SessionUser
  <2>2. suspended = None /\ closed \in BOOLEAN
    BY <2>1 DEF Sequential, CommandInv
  <2>3. AsClosed'
    BY <2>1, <2>2, NewFrameFields DEF AsClosed
  <2>4. step = "info" => Anonymous'
    BY <2>1, <2>2, NewFrameFields DEF CommandInv, Anonymous, NoCredentials
  <2>5. step = "self" => Entered'
    BY <2>1, <2>2, NewFrameFields DEF CommandInv, Entered, Names
  <2> QED BY <2>1, <2>2, <2>3, <2>4, <2>5
          DEF CommandInv, EndsAsAsked, Requests
<1>3. CASE AttemptWebLogin
  <2>1. /\ step = "web login" /\ op' = op /\ SessionUser' = SessionUser
        /\ call' = call /\ suspended' = suspended
        /\ step' \in {"prompt", "web session", "failed"}
        /\ UNCHANGED <<command, closed, entered>>
    <3>1. /\ step = "web login" /\ UNCHANGED <<command, closed, entered>>
          /\ step' \in {"prompt", "web session", "failed"}
      BY <1>3 DEF AttemptWebLogin, Proceed, Goto
    <3>2. UNCHANGED vars \/ \E t \in ApiToken : Login(None, None, t)
      BY <1>3 DEF AttemptWebLogin
    <3>3. UNCHANGED <<op, call, suspended, session>>
      BY <3>2 DEF Login, vars, session
    <3> QED BY <3>1, <3>3 DEF session, SessionUser
  <2>2. command # "script" => op = "none" /\ call = None /\ entered = None
                               /\ SessionUser = None
    BY <2>1 DEF CommandInv, Requests, Sequential
  <2> QED BY <2>1, <2>2 DEF CommandInv, EndsAsAsked, AsClosed, Requests
<1>4. CASE Prompt
  <2>1. /\ step = "prompt" /\ UNCHANGED <<command, closed, op, SessionUser>>
        /\ call' = call /\ suspended' = suspended
    BY <1>4 DEF Prompt, Login, Proceed, vars, session, SessionUser
  <2>2. command # "script" => op = "none" /\ call = None /\ SessionUser = None
                               /\ command # "logout"
    BY <2>1 DEF CommandInv, Requests, Sequential
  <2>3. CASE step' = "self"
    <3>1. PICK u \in User, p \in Password : Login(u, p, None) /\ entered' = u
      BY <1>4, <2>3 DEF Prompt, Proceed, Goto
    <3>2. /\ user' = u /\ password' = p /\ apiToken' = None /\ ~presetUsed'
      BY <3>1 DEF Login, Reset
    <3>3. command # "script" => Entered'
      BY <2>1, <2>2, <3>1, <3>2, UserAssumption DEF Entered
    <3> QED BY <2>1, <2>2, <2>3, <3>3
            DEF CommandInv, EndsAsAsked, AsClosed, Requests
  <2>4. CASE step' = "failed"
    BY <2>1, <2>2, <2>4 DEF CommandInv, EndsAsAsked, Requests
  <2> QED BY <1>4, <2>3, <2>4 DEF Prompt, Proceed, Goto
<1>5. CASE DeleteSession
  <2>1. /\ step = "delete" /\ op' = "logout"
        /\ UNCHANGED <<command, closed, step, entered, found>>
    BY <1>5 DEF DeleteSession, Logout, Stay, commandVars
  <2> QED BY <2>1 DEF CommandInv, EndsAsAsked, Requests
<1> QED BY <1>1, <1>2, <1>3, <1>4, <1>5

LEMMA ReturnKeeps ==
  ASSUME IInv, Sequential, CommandInv, RequestReturns PROVE CommandInv'
<1>1. /\ op = "request" /\ op' = "none" /\ call' = None /\ suspended = None
      /\ call # None /\ call.pc = "sent" /\ Accepts(call) /\ KeepSession
      /\ UNCHANGED <<user, password, apiToken, presetUsed, suspended>>
      /\ last'.as = AnsweredAs(call) /\ saved' = TRUE
  BY DEF RequestReturns, Answer, Answering, SaveCookies, manager, handlers
<1>2. presetUsed \/ NoCredentials
  BY <1>1 DEF Sequential
<1>3. (presetUsed \/ NoCredentials)'
  BY <1>1, <1>2 DEF NoCredentials
<1>4. CASE command = "script"
  BY <1>4 DEF RequestReturns, Stay, commandVars, CommandInv
<1>5. CASE command # "script"
  <2> DEFINE as == AnsweredAs(call)
  <2>1. Return(as) /\ step \in Requests /\ AsClosed
    BY <1>1, <1>5 DEF RequestReturns, CommandInv
  <2>2. as = None => SessionUser = None /\ ~closed /\ SessionUser' = None
    <3>1. as = None => SessionUser = None /\ ~call.private
      BY <1>1, AnonymousAnswer
    <3>2. as = None => SessionUser' = SessionUser
      BY <1>1 DEF KeepSession, SessionUser
    <3> QED BY <1>1, <2>1, <3>1, <3>2 DEF AsClosed
  <2>3. step = "info" => as = None
    BY <1>1, <1>5, <2>1, AnonymousAccepted DEF CommandInv
  <2>4. step = "self" => as = entered
    BY <1>1, <1>5, EnteredAnswer DEF CommandInv
  <2>5. step # "self" => entered = None
    BY <1>5, <2>1 DEF CommandInv, Requests
  <2> HIDE DEF as
  <2>6. UNCHANGED <<command, closed, entered>>
    BY <2>1 DEF Return, SessionFound, End, Proceed
  <2>7. CASE step = "root"
    BY <1>1, <1>3, <1>5, <2>1, <2>5, <2>6, <2>7
    DEF Return, Proceed, Goto, CommandInv, EndsAsAsked, AsClosed, Requests
  <2>8. CASE step = "session"
    <3>1. CASE step' = "info"
      <4>1. as = None /\ command # "logout"
        BY <2>1, <2>8, <3>1 DEF Return, SessionFound, End, Proceed, Goto
      <4>2. Anonymous'
        BY <1>1, <1>3, <2>2, <2>6, <4>1 DEF Anonymous
      <4> QED BY <1>1, <1>5, <2>5, <2>6, <2>8, <3>1, <4>1, <4>2
              DEF CommandInv, EndsAsAsked, AsClosed, Requests
    <3>2. CASE step' = "delete"
      <4>1. command = "logout"
        BY <2>1, <2>8, <3>2 DEF Return, SessionFound, End, Proceed, Goto
      <4> QED BY <1>1, <2>5, <2>6, <2>8, <3>2, <4>1
              DEF CommandInv, EndsAsAsked, Requests
    <3>3. CASE step' = "done"
      <4>1. command = "logout" => as = None
        BY <2>1, <2>8, <3>3 DEF Return, SessionFound, End, Proceed, Goto
      <4>2. command' = "logout" => FileUser' = None
        BY <1>1, <2>2, <2>6, <4>1 DEF FileUser
      <4> QED BY <1>1, <1>5, <2>5, <2>6, <2>8, <3>3, <4>2
              DEF CommandInv, EndsAsAsked, Requests
    <3> QED BY <2>1, <2>8, <3>1, <3>2, <3>3
            DEF Return, SessionFound, End, Proceed, Goto
  <2>9. CASE step = "info"
    <3>1. step' = "web login" /\ command # "logout"
      BY <1>5, <2>1, <2>9 DEF Return, Proceed, Goto, CommandInv
    <3> QED BY <1>1, <2>2, <2>3, <2>5, <2>6, <2>9, <3>1
            DEF CommandInv, EndsAsAsked, Requests
  <2>10. CASE step \in {"web session", "self"}
    <3>1. step' = "done" /\ found' = as /\ command # "logout"
      BY <1>5, <2>1, <2>10 DEF Return, End, Goto, CommandInv
    <3> QED BY <1>1, <2>4, <2>5, <2>6, <2>10, <3>1
            DEF CommandInv, EndsAsAsked, Requests
  <2> QED BY <2>1, <2>7, <2>8, <2>9, <2>10 DEF Requests
<1> QED BY <1>4, <1>5

LEMMA OthersKeep ==
  ASSUME IInv, Sequential, CommandInv,
         LogoutReturns \/ InfoReturns \/ RequestRefused \/ RequestFails
  PROVE  CommandInv'
<1>1. CASE command = "script"
  BY <1>1 DEF LogoutReturns, InfoReturns, RequestRefused, RequestFails, Stay,
              commandVars, CommandInv
<1>2. CASE LogoutReturns /\ command # "script"
  <2>1. /\ op = "logout" /\ op' = "none" /\ SessionUser' = None /\ saved' = TRUE
        /\ step' = "done" /\ UNCHANGED <<command, closed, entered>>
    BY <1>2 DEF LogoutReturns, FinishLogout, Answering, SaveCookies, End, Goto,
                SessionUser
  <2>2. command = "logout" /\ entered = None
    BY <1>2, <2>1 DEF CommandInv
  <2> QED BY <2>1, <2>2 DEF CommandInv, EndsAsAsked, FileUser, Requests
<1>3. CASE InfoReturns /\ command # "script"
  <2>1. /\ op' = op /\ op # "none" /\ suspended # None
        /\ call' = suspended /\ suspended' = None
        /\ UNCHANGED <<command, closed, step, entered, found>>
    BY <1>3 DEF InfoReturns, AnswerInfo, Answering, Stay, commandVars,
                Sequential
  <2>2. step \in Requests \cup {"delete"} /\ step \notin {"info", "self"}
    BY <1>3, <2>1 DEF CommandInv, Sequential, Anonymous, Entered,
       InfoReturns, AnswerInfo, Answering
  <2>3. step \in Requests => AsClosed'
    BY <1>3, <2>1 DEF CommandInv, AsClosed, InfoReturns, AnswerInfo, Answering
  <2> QED BY <1>3, <2>1, <2>2, <2>3 DEF CommandInv, EndsAsAsked, Requests
<1>4. CASE RequestRefused /\ command # "script"
  <2>1. /\ op' = "none" /\ call # None
        /\ UNCHANGED <<command, closed, entered, SessionUser>>
        /\ \/ step' = "failed"
           \/ step' = "prompt" /\ step = "self"
    BY <1>4 DEF RequestRefused, GiveUp, Raise, Goto, Proceed, session,
                SessionUser
  <2>2. step = "self" => SessionUser = None /\ command # "logout"
    BY <1>4 DEF CommandInv, Entered
  <2> QED BY <1>4, <2>1, <2>2 DEF CommandInv, EndsAsAsked, Requests
<1>5. CASE RequestFails /\ command # "script"
  <2>1. op' = "none" /\ step' = "failed" /\ UNCHANGED <<command, closed>>
    BY <1>5 DEF RequestFails, Abort, Raise, Proceed, Goto
  <2> QED BY <1>5, <2>1 DEF CommandInv, EndsAsAsked, Requests
<1> QED BY <1>1, <1>2, <1>3, <1>4, <1>5

LEMMA ExpiresKeeps ==
  ASSUME IInv, Sequential, CommandInv, SessionExpires \/ UNCHANGED sessionVars
  PROVE  CommandInv'
<1>1. /\ UNCHANGED <<command, closed, step, entered, found, saved>>
      /\ UNCHANGED <<op, call, suspended, user, password, apiToken, presetUsed>>
  BY DEF SessionExpires, Expire, KeepFile, fileVars, Stay, sessionVars, vars,
         commandVars, manager, handlers
<1>2. SessionUser' \in {None, SessionUser}
  BY DEF SessionExpires, Expire, sessionVars, vars, SessionUser
<1>3. saved => FileUser' \in {None, FileUser}
  BY <1>1, <1>2 DEF FileUser
<1>4. Anonymous => Anonymous'
  BY <1>1, <1>2 DEF Anonymous, NoCredentials
<1>5. Entered => Entered'
  BY <1>1, <1>2 DEF Entered, Names, Effective
<1>6. (AsClosed => AsClosed') /\ (EndsAsAsked => EndsAsAsked')
  BY <1>1, <1>3 DEF AsClosed, EndsAsAsked
<1>7. NoCredentials' = NoCredentials
  BY <1>1 DEF NoCredentials
<1> QED BY <1>1, <1>2, <1>4, <1>5, <1>6, <1>7 DEF CommandInv

(* A command ends as its user asked: rbt logout leaves no session that     *)
(* works in the cookie file, though its own requests may have started one; *)
(* and who was asked for by a prompt is whose session the command gets.    *)
THEOREM CommandsEndAsAsked ==
  ASSUME OtpCanBeAsked PROVE SessionSpec => []EndsAsAsked
<1>1. SessionInit => IInv /\ Sequential /\ CommandInv
  <2> SUFFICES ASSUME SessionInit PROVE IInv /\ Sequential /\ CommandInv
    OBVIOUS
  <2>1. Init /\ op = "none" /\ call = None
    BY DEF SessionInit, Init
  <2> QED BY <2>1, InitInv, SequentialInit
          DEF SessionInit, CommandInv, EndsAsAsked, AsClosed, Requests
<1>2. IInv /\ Sequential /\ CommandInv /\ [SessionNext]_sessionVars
      => IInv' /\ Sequential' /\ CommandInv'
  <2> SUFFICES ASSUME IInv, Sequential, CommandInv, [SessionNext]_sessionVars
               PROVE  IInv' /\ Sequential' /\ CommandInv'
    OBVIOUS
  <2>1. [Next]_vars
    BY SessionStepIsStep DEF CommandInv
  <2>2. IInv' /\ Sequential'
    BY <2>1, NextInv, SequentialStep
  <2>3. Script => CommandInv'
    <3>1. Script => command = "script" /\ UNCHANGED <<command, closed, step>>
      BY DEF Script, Stay, commandVars
    <3> QED BY <3>1 DEF CommandInv
  <2>4. CommandInv'
    BY <2>3, HandleKeeps, CallsKeep, ReturnKeeps, OthersKeep, ExpiresKeeps
    DEF SessionNext, CommandStep
  <2> QED BY <2>2, <2>4
<1>3. CommandInv => EndsAsAsked
  BY DEF CommandInv, EndsAsAsked
<1> QED BY <1>1, <1>2, <1>3, PTL DEF SessionSpec

-----------------------------------------------------------------------------
LEMMA AnsweredAsUser ==
  ASSUME IInv, call # None PROVE AnsweredAs(call) \in Maybe(User)
<1>1. call \in Frame
  BY CallType
<1>2. SessionOf(call) \in Maybe(User)
  BY DEF IInv, TypeOK, CredentialsTyped, SessionOf, SessionUser, Maybe
<1>3. ByCredentials(call) => AuthUser(Effective(call)) \in Maybe(User)
  BY <1>1, UserAssumption
  DEF ByCredentials, AuthUser, Effective, Frame, Auth, Maybe
<1> QED BY <1>2, <1>3 DEF AnsweredAs

LEMMA NextCount ==
  ASSUME NEW n \in Nat, NEW t \in 0..n, t < n PROVE t + 1 \in 0..n
OBVIOUS

LEMMA SessionTypedStep ==
  ASSUME IInv, SessionTyped, [SessionNext]_sessionVars PROVE SessionTyped'
<1> USE DEF SessionTyped, Steps, Requests
<1>1. command' = command /\ closed' = closed
  BY ClosedStays
<1>2. saved' \in BOOLEAN /\ left' \in Maybe(User)
  BY DEF SessionNext, CommandStep, HasNoCookie, SendRequest, AttemptWebLogin,
         Prompt, DeleteSession, RequestReturns, LogoutReturns, InfoReturns,
         RequestRefused, RequestFails, Handle, Script, SessionExpires,
         SaveCookies, KeepFile, fileVars, sessionVars, Maybe
<1>3. CASE \/ DeleteSession \/ SendRequest \/ InfoReturns \/ Handle \/ Script
           \/ SessionExpires \/ UNCHANGED sessionVars
  <2>1. UNCHANGED commandVars
    BY <1>3 DEF DeleteSession, SendRequest, InfoReturns, Handle, Script,
                SessionExpires, Stay, sessionVars
  <2> QED BY <1>2, <2>1 DEF commandVars
<1>4. CASE HasNoCookie \/ AttemptWebLogin \/ RequestFails \/ LogoutReturns
  BY <1>1, <1>2, <1>4 DEF HasNoCookie, AttemptWebLogin, RequestFails,
     LogoutReturns, End, Goto, Proceed, Stay, commandVars, Maybe
<1>5. CASE Prompt
  BY <1>1, <1>2, <1>5 DEF Prompt, Goto, Proceed, Maybe
<1>6. CASE RequestReturns
  <2>1. last'.as \in Maybe(User)
    BY <1>6, AnsweredAsUser DEF RequestReturns, Answer, Answering
  <2> QED BY <1>1, <1>2, <1>6, <2>1 DEF RequestReturns, Return, SessionFound,
             End, Goto, Proceed, Stay, commandVars, Maybe
<1>7. CASE RequestRefused
  <2>1. UNCHANGED <<entered, found>> /\ step' \in {step, "prompt", "failed"}
    BY <1>7 DEF RequestRefused, Goto, Proceed, Stay, commandVars
  <2>2. tries' = tries \/ (tries < NumRetries /\ tries' = tries + 1)
    BY <1>7 DEF RequestRefused, Proceed, Stay, commandVars
  <2>3. tries' \in 0..NumRetries
    <3>1. NumRetries \in Nat /\ tries \in 0..NumRetries
      BY SessionAssumption
    <3>2. CASE tries' = tries
      BY <3>1, <3>2
    <3>3. CASE tries < NumRetries /\ tries' = tries + 1
      <4>1. tries + 1 \in 0..NumRetries
        BY <3>1, <3>3, NextCount
      <4> QED BY <3>3, <4>1
    <3> QED BY <2>2, <3>2, <3>3
  <2> QED BY <1>1, <1>2, <2>1, <2>3
<1> QED BY <1>3, <1>4, <1>5, <1>6, <1>7 DEF SessionNext, CommandStep

(* The user is prompted at most 1 + num_retries times, and the state of    *)
(* the command and of the cookie file stays within its types.              *)
THEOREM PromptsBounded ==
  ASSUME OtpCanBeAsked PROVE SessionSpec => []SessionTyped
<1>1. SessionInit => IInv /\ SessionTyped /\ Init
  BY InitInv, SessionAssumption
  DEF SessionInit, SessionTyped, Steps, Requests, Maybe
<1>2. IInv /\ SessionTyped /\ [SessionNext]_sessionVars
      => IInv' /\ SessionTyped'
  BY SessionStepIsStep, NextInv, SessionTypedStep DEF SessionTyped
<1> QED BY <1>1, <1>2, PTL DEF SessionSpec
=============================================================================
