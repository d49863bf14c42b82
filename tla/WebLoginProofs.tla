--------------------------- MODULE WebLoginProofs ---------------------------
(***************************************************************************)
(* Proofs about WebLogin for any number of POST requests: what the main    *)
(* thread returns agrees with what the handler threads did, however they   *)
(* interleave, and the server is gone when the wait is over.               *)
(***************************************************************************)
EXTENDS WebLogin, TLAPS

(* Whoever noted a success logged in first. *)
LoggedIn ==
  /\ successful => token
  /\ \A h \in Handler : handler[h] = "succeeding" => token
  /\ outcome = "true" => token

(* Whoever is past noting an outcome left a trace of it. *)
Noted ==
  /\ \A h \in Handler : handler[h] \in {"answering", "stopping"} =>
                          successful \/ rejected
  /\ stopEvent => successful \/ rejected
  /\ reason = "event" => stopEvent
  /\ outcome = "false" => rejected

Undecided == outcome = "none" <=> main # "done"

IInv == TypeOK /\ Undecided /\ LoggedIn /\ Noted /\ ServerStopped

-----------------------------------------------------------------------------
LEMMA InitInv == ASSUME Init PROVE IInv
<1>1. FlagsTyped BY Zenon DEF Init, FlagsTyped
<1>2. ThreadsTyped BY DEF Init, ThreadsTyped
<1> QED BY <1>1, <1>2 DEF Init, IInv, TypeOK, ServerStarted, Undecided, LoggedIn,
                          Noted, ServerStopped

(* The main thread and time leave the handlers alone.                      *)
LEMMA MainInv ==
  ASSUME IInv, Main \/ Interrupt \/ Expire PROVE IInv'
<1> USE DEF IInv, TypeOK, options
<1>1. CASE NotAllowed
  <2>1. FlagsTyped' BY <1>1, Zenon DEF NotAllowed, FlagsTyped
  <2>2. ThreadsTyped' BY <1>1 DEF NotAllowed, ThreadsTyped
  <2>3. ServerStarted' BY <1>1 DEF NotAllowed, ServerStarted, Undecided
  <2>4. LoggedIn' BY <1>1 DEF NotAllowed, LoggedIn, FlagsTyped, ThreadsTyped
  <2>5. Noted' BY <1>1 DEF NotAllowed, Noted, FlagsTyped, ThreadsTyped
  <2>6. ServerStopped' BY <1>1 DEF NotAllowed, ServerStopped, ServerStarted
  <2>7. Undecided' BY <1>1 DEF NotAllowed, Undecided, ThreadsTyped
  <2> QED BY <2>1, <2>2, <2>3, <2>4, <2>5, <2>6, <2>7
<1>2. CASE Start
  <2>1. FlagsTyped' BY <1>2, Zenon DEF Start, FlagsTyped
  <2>2. ThreadsTyped' BY <1>2 DEF Start, ThreadsTyped
  <2>3. ServerStarted' BY <1>2 DEF Start, ServerStarted, Undecided
  <2>4. LoggedIn' BY <1>2 DEF Start, LoggedIn, FlagsTyped, ThreadsTyped
  <2>5. Noted' BY <1>2 DEF Start, Noted, FlagsTyped, ThreadsTyped
  <2>6. ServerStopped' BY <1>2 DEF Start, ServerStopped, ThreadsTyped
  <2>7. Undecided' BY <1>2 DEF Start, Undecided, ThreadsTyped
  <2> QED BY <2>1, <2>2, <2>3, <2>4, <2>5, <2>6, <2>7
<1>3. CASE TestEvent
  <2>1. FlagsTyped' BY <1>3, Zenon DEF TestEvent, FlagsTyped
  <2>2. ThreadsTyped' BY <1>3 DEF TestEvent, ThreadsTyped
  <2>3. ServerStarted' BY <1>3 DEF TestEvent, ServerStarted, Undecided
  <2>4. LoggedIn' BY <1>3 DEF TestEvent, LoggedIn, FlagsTyped, ThreadsTyped
  <2>5. Noted' BY <1>3 DEF TestEvent, Noted, FlagsTyped, ThreadsTyped
  <2>6. ServerStopped' BY <1>3 DEF TestEvent, ServerStopped, ThreadsTyped
  <2>7. Undecided' BY <1>3 DEF TestEvent, Undecided, ThreadsTyped
  <2> QED BY <2>1, <2>2, <2>3, <2>4, <2>5, <2>6, <2>7
<1>4. CASE TestDeadline
  <2>1. FlagsTyped' BY <1>4, Zenon DEF TestDeadline, FlagsTyped
  <2>2. ThreadsTyped' BY <1>4 DEF TestDeadline, ThreadsTyped
  <2>3. ServerStarted' BY <1>4 DEF TestDeadline, ServerStarted, Undecided
  <2>4. LoggedIn' BY <1>4 DEF TestDeadline, LoggedIn, FlagsTyped, ThreadsTyped
  <2>5. Noted' BY <1>4 DEF TestDeadline, Noted, FlagsTyped, ThreadsTyped
  <2>6. ServerStopped' BY <1>4 DEF TestDeadline, ServerStopped, ThreadsTyped
  <2>7. Undecided' BY <1>4 DEF TestDeadline, Undecided, ThreadsTyped
  <2> QED BY <2>1, <2>2, <2>3, <2>4, <2>5, <2>6, <2>7
<1>5. CASE ShutDown
  <2>1. FlagsTyped' BY <1>5, Zenon DEF ShutDown, FlagsTyped
  <2>2. ThreadsTyped' BY <1>5 DEF ShutDown, ThreadsTyped
  <2>3. ServerStarted' BY <1>5 DEF ShutDown, ServerStarted, Undecided
  <2>4. LoggedIn' BY <1>5 DEF ShutDown, LoggedIn, FlagsTyped, ThreadsTyped
  <2>5. Noted' BY <1>5 DEF ShutDown, Noted, FlagsTyped, ThreadsTyped
  <2>6. ServerStopped' BY <1>5 DEF ShutDown, ServerStopped, ThreadsTyped
  <2>7. Undecided' BY <1>5 DEF ShutDown, Undecided, ThreadsTyped
  <2> QED BY <2>1, <2>2, <2>3, <2>4, <2>5, <2>6, <2>7
<1>6. CASE Join
  <2>1. FlagsTyped' BY <1>6, Zenon DEF Join, Result, FlagsTyped
  <2>2. ThreadsTyped' BY <1>6 DEF Join, Result, ThreadsTyped
  <2>3. ServerStarted' BY <1>6 DEF Join, Result, ServerStarted, Undecided
  <2>4. LoggedIn' BY <1>6 DEF Join, Result, LoggedIn, FlagsTyped, ThreadsTyped
  <2>5. Noted' BY <1>6 DEF Join, Result, Noted, FlagsTyped, ThreadsTyped
  <2>6. ServerStopped' BY <1>6 DEF Join, Result, ServerStopped, ThreadsTyped
  <2>7. Undecided' BY <1>6 DEF Join, Result, Undecided, ThreadsTyped
  <2> QED BY <2>1, <2>2, <2>3, <2>4, <2>5, <2>6, <2>7
<1>7. CASE Interrupt
  <2>1. FlagsTyped' BY <1>7, Zenon DEF Interrupt, FlagsTyped
  <2>2. ThreadsTyped' BY <1>7 DEF Interrupt, ThreadsTyped
  <2>3. ServerStarted' BY <1>7 DEF Interrupt, ServerStarted, Undecided
  <2>4. LoggedIn' BY <1>7 DEF Interrupt, LoggedIn, FlagsTyped, ThreadsTyped
  <2>5. Noted' BY <1>7 DEF Interrupt, Noted, FlagsTyped, ThreadsTyped
  <2>6. ServerStopped' BY <1>7 DEF Interrupt, ServerStopped, ThreadsTyped
  <2>7. Undecided' BY <1>7 DEF Interrupt, Undecided, ThreadsTyped
  <2> QED BY <2>1, <2>2, <2>3, <2>4, <2>5, <2>6, <2>7
<1>8. CASE Expire
  <2>1. FlagsTyped' BY <1>8, Zenon DEF Expire, FlagsTyped
  <2>2. ThreadsTyped' BY <1>8 DEF Expire, ThreadsTyped
  <2>3. ServerStarted' BY <1>8 DEF Expire, ServerStarted, Undecided
  <2>4. LoggedIn' BY <1>8 DEF Expire, LoggedIn, FlagsTyped, ThreadsTyped
  <2>5. Noted' BY <1>8 DEF Expire, Noted, FlagsTyped, ThreadsTyped
  <2>6. ServerStopped' BY <1>8 DEF Expire, ServerStopped, ThreadsTyped
  <2>7. Undecided' BY <1>8 DEF Expire, Undecided, ThreadsTyped
  <2> QED BY <2>1, <2>2, <2>3, <2>4, <2>5, <2>6, <2>7
<1> QED BY <1>1, <1>2, <1>3, <1>4, <1>5, <1>6, <1>7, <1>8 DEF Main

LEMMA ServeInv == ASSUME IInv, Serve PROVE IInv'
<1> USE DEF IInv, TypeOK, options
<1>1. CASE Poll
  <2>1. FlagsTyped' BY <1>1, Zenon DEF Poll, FlagsTyped
  <2>2. ThreadsTyped' BY <1>1 DEF Poll, ThreadsTyped
  <2>3. ServerStarted' BY <1>1 DEF Poll, ServerStarted, Undecided
  <2>4. LoggedIn' BY <1>1 DEF Poll, LoggedIn, FlagsTyped, ThreadsTyped
  <2>5. Noted' BY <1>1 DEF Poll, Noted, FlagsTyped, ThreadsTyped
  <2>6. ServerStopped' BY <1>1 DEF Poll, ServerStopped, ThreadsTyped
  <2>7. Undecided' BY <1>1 DEF Poll, Undecided, ThreadsTyped
  <2> QED BY <2>1, <2>2, <2>3, <2>4, <2>5, <2>6, <2>7
<1>2. CASE Accept
  <2>1. FlagsTyped' BY <1>2, Zenon DEF Accept, FlagsTyped
  <2>2. ThreadsTyped' BY <1>2 DEF Accept, ThreadsTyped
  <2>3. ServerStarted' BY <1>2 DEF Accept, ServerStarted, Undecided
  <2>4. LoggedIn' BY <1>2 DEF Accept, LoggedIn, FlagsTyped, ThreadsTyped
  <2>5. Noted' BY <1>2 DEF Accept, Noted, FlagsTyped, ThreadsTyped
  <2>6. ServerStopped' BY <1>2 DEF Accept, ServerStopped, ThreadsTyped
  <2>7. Undecided' BY <1>2 DEF Accept, Undecided, ThreadsTyped
  <2> QED BY <2>1, <2>2, <2>3, <2>4, <2>5, <2>6, <2>7
<1> QED BY <1>1, <1>2 DEF Serve

LEMMA HandleInv == ASSUME IInv, NEW h \in Handler, Handle(h) PROVE IInv'
<1> USE DEF IInv, TypeOK, options, Goto
<1>1. CASE Read(h)
  <2>1. FlagsTyped' BY <1>1, Zenon DEF Read, FlagsTyped
  <2>2. ThreadsTyped' BY <1>1 DEF Read, ThreadsTyped
  <2>3. ServerStarted' BY <1>1 DEF Read, ServerStarted, Undecided
  <2>4. LoggedIn' BY <1>1 DEF Read, LoggedIn, FlagsTyped, ThreadsTyped
  <2>5. Noted' BY <1>1 DEF Read, Noted, FlagsTyped, ThreadsTyped
  <2>6. ServerStopped' BY <1>1 DEF Read, ServerStopped, ThreadsTyped
  <2>7. Undecided' BY <1>1 DEF Read, Undecided, ThreadsTyped
  <2> QED BY <2>1, <2>2, <2>3, <2>4, <2>5, <2>6, <2>7
<1>2. CASE LogIn(h)
  <2>1. FlagsTyped' BY <1>2, Zenon DEF LogIn, FlagsTyped
  <2>2. ThreadsTyped' BY <1>2 DEF LogIn, ThreadsTyped
  <2>3. ServerStarted' BY <1>2 DEF LogIn, ServerStarted, Undecided
  <2>4. LoggedIn' BY <1>2 DEF LogIn, LoggedIn, FlagsTyped, ThreadsTyped
  <2>5. Noted' BY <1>2 DEF LogIn, Noted, FlagsTyped, ThreadsTyped
  <2>6. ServerStopped' BY <1>2 DEF LogIn, ServerStopped, ThreadsTyped
  <2>7. Undecided' BY <1>2 DEF LogIn, Undecided, ThreadsTyped
  <2> QED BY <2>1, <2>2, <2>3, <2>4, <2>5, <2>6, <2>7
<1>3. CASE Succeed(h)
  <2>1. FlagsTyped' BY <1>3, Zenon DEF Succeed, FlagsTyped
  <2>2. ThreadsTyped' BY <1>3 DEF Succeed, ThreadsTyped
  <2>3. ServerStarted' BY <1>3 DEF Succeed, ServerStarted, Undecided
  <2>4. LoggedIn' BY <1>3 DEF Succeed, LoggedIn, FlagsTyped, ThreadsTyped
  <2>5. Noted' BY <1>3 DEF Succeed, Noted, FlagsTyped, ThreadsTyped
  <2>6. ServerStopped' BY <1>3 DEF Succeed, ServerStopped, ThreadsTyped
  <2>7. Undecided' BY <1>3 DEF Succeed, Undecided, ThreadsTyped
  <2> QED BY <2>1, <2>2, <2>3, <2>4, <2>5, <2>6, <2>7
<1>4. CASE Fail(h)
  <2>1. FlagsTyped' BY <1>4, Zenon DEF Fail, FlagsTyped
  <2>2. ThreadsTyped' BY <1>4 DEF Fail, ThreadsTyped
  <2>3. ServerStarted' BY <1>4 DEF Fail, ServerStarted, Undecided
  <2>4. LoggedIn' BY <1>4 DEF Fail, LoggedIn, FlagsTyped, ThreadsTyped
  <2>5. Noted' BY <1>4 DEF Fail, Noted, FlagsTyped, ThreadsTyped
  <2>6. ServerStopped' BY <1>4 DEF Fail, ServerStopped, ThreadsTyped
  <2>7. Undecided' BY <1>4 DEF Fail, Undecided, ThreadsTyped
  <2> QED BY <2>1, <2>2, <2>3, <2>4, <2>5, <2>6, <2>7
<1>5. CASE Answer(h)
  <2>1. FlagsTyped' BY <1>5, Zenon DEF Answer, FlagsTyped
  <2>2. ThreadsTyped' BY <1>5 DEF Answer, ThreadsTyped
  <2>3. ServerStarted' BY <1>5 DEF Answer, ServerStarted, Undecided
  <2>4. LoggedIn' BY <1>5 DEF Answer, LoggedIn, FlagsTyped, ThreadsTyped
  <2>5. Noted' BY <1>5 DEF Answer, Noted, FlagsTyped, ThreadsTyped
  <2>6. ServerStopped' BY <1>5 DEF Answer, ServerStopped, ThreadsTyped
  <2>7. Undecided' BY <1>5 DEF Answer, Undecided, ThreadsTyped
  <2> QED BY <2>1, <2>2, <2>3, <2>4, <2>5, <2>6, <2>7
<1>6. CASE Stop(h)
  <2>1. FlagsTyped' BY <1>6, Zenon DEF Stop, FlagsTyped
  <2>2. ThreadsTyped' BY <1>6 DEF Stop, ThreadsTyped
  <2>3. ServerStarted' BY <1>6 DEF Stop, ServerStarted, Undecided
  <2>4. LoggedIn' BY <1>6 DEF Stop, LoggedIn, FlagsTyped, ThreadsTyped
  <2>5. Noted' BY <1>6 DEF Stop, Noted, FlagsTyped, ThreadsTyped
  <2>6. ServerStopped' BY <1>6 DEF Stop, ServerStopped, ThreadsTyped
  <2>7. Undecided' BY <1>6 DEF Stop, Undecided, ThreadsTyped
  <2> QED BY <2>1, <2>2, <2>3, <2>4, <2>5, <2>6, <2>7
<1> QED BY <1>1, <1>2, <1>3, <1>4, <1>5, <1>6 DEF Handle

THEOREM WaitInvariant == Spec => []IInv
<1>1. Init => IInv
  BY InitInv
<1>2. IInv /\ [Next]_vars => IInv'
  <2>1. ASSUME IInv, UNCHANGED vars PROVE IInv'
    <3> USE <2>1 DEF vars, options, IInv, TypeOK
    <3>1. FlagsTyped' BY Zenon DEF FlagsTyped
    <3>2. ThreadsTyped' BY DEF ThreadsTyped
    <3>3. ServerStarted' /\ Undecided' /\ ServerStopped'
      BY DEF ServerStarted, Undecided, ServerStopped
    <3>4. LoggedIn' /\ Noted' BY DEF LoggedIn, Noted
    <3> QED BY <3>1, <3>2, <3>3, <3>4
  <2> QED BY <2>1, MainInv, ServeInv, HandleInv DEF Next
<1> QED BY <1>1, <1>2, PTL DEF Spec

(* The state keeps its types, and the server runs only if it was started.  *)
THEOREM TypeCorrect == Spec => []TypeOK
<1>1. IInv => TypeOK
  BY DEF IInv
<1> QED BY WaitInvariant, <1>1, PTL

(* However many POSTs race, success is returned only when the API client   *)
(* holds the token.                                                        *)
THEOREM SuccessIsAuthenticated == Spec => []SuccessHasToken
<1>1. IInv => SuccessHasToken
  BY DEF IInv, LoggedIn, SuccessHasToken
<1> QED BY WaitInvariant, <1>1, PTL

(* Failure is returned only when a POST without a token came.              *)
THEOREM FailureIsDeserved == Spec => []FailureWasPosted
<1>1. IInv => FailureWasPosted
  BY DEF IInv, Noted, FailureWasPosted
<1> QED BY WaitInvariant, <1>1, PTL

(* The server's thread never outlives the wait.                            *)
THEOREM NothingServedAfter == Spec => []ServerStopped
<1>1. IInv => ServerStopped
  BY DEF IInv
<1> QED BY WaitInvariant, <1>1, PTL
=============================================================================
