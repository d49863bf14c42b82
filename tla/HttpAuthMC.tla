----------------------------- MODULE HttpAuthMC -----------------------------
(* Instances of Session, and so of HttpAuth, for TLC. *)
EXTENDS Session, TLC

CONSTANTS good, bad, valid, revoked

(* Every user's password is the good one. *)
Passwords == {good, bad}
GoodPassword == [u \in User |-> good]

(* One user's token is valid; another token was revoked. *)
Tokens2 == {valid, revoked}
Owners == [t \in Tokens2 |-> IF t = valid THEN CHOOSE u \in User : TRUE ELSE None]
=============================================================================
