---------------------------- MODULE LoginBudget ----------------------------
(***************************************************************************)
(* What a user may expect of the API client's authentication, whatever the *)
(* server answers: every set of credentials handed to the client buys a    *)
(* bounded number of login attempts, so a wrong password is sent a few     *)
(* times at most and never locks the account.                              *)
(***************************************************************************)
EXTENDS Naturals

CONSTANT Attempts      \* attempts the client starts with

VARIABLES
  granted,             \* how often the client was given credentials
  submitted,           \* login attempts the server has seen
  left                 \* login attempts the client may still make

Init == granted = 1 /\ submitted = 0 /\ left \in 0..Attempts

(* Credentials are sent: each attempt uses up at least one. *)
Submit ==
  /\ left > 0
  /\ submitted' = submitted + 1
  /\ left' \in 0..(left - 1)
  /\ UNCHANGED granted

(* An attempt is given up without being made. *)
Forgo ==
  /\ left' \in 0..left
  /\ UNCHANGED <<granted, submitted>>

(* The caller logs in, or out: one attempt more at most. *)
LogIn ==
  /\ granted' = granted + 1
  /\ left' \in 0..(left + 1)
  /\ UNCHANGED submitted

Next == Submit \/ Forgo \/ LogIn

Spec == Init /\ [][Next]_<<granted, submitted, left>>
=============================================================================
