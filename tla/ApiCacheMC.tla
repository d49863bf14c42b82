----------------------------- MODULE ApiCacheMC -----------------------------
(* Instances of ApiCache for TLC: the caching headers of the server. *)
EXTENDS ApiCache, TLC

CONSTANTS v1

Symmetry == Permutations(Proc) \cup Permutations(Content)

Base == [expires |-> None, max_age |-> None, no_cache |-> FALSE,
         no_store |-> FALSE, etag |-> FALSE, last_modified |-> FALSE,
         vary |-> {}]

(* Headers that differ in freshness, validators and what they vary on.      *)
Lasting == [Base EXCEPT !.max_age = 1, !.expires = 2, !.etag = TRUE]
Expiring == [Base EXCEPT !.expires = 3, !.vary = Header]
OnlyValidated == [Base EXCEPT !.etag = TRUE]
MustRevalidate == [Base EXCEPT !.no_cache = TRUE, !.max_age = 2,
                               !.last_modified = TRUE]
NotStored == [Base EXCEPT !.no_store = TRUE]

Varying == [Lasting EXCEPT !.vary = Header]

RacePolicies == {Lasting, OnlyValidated, NotStored}
Policies == {Lasting, Expiring, MustRevalidate, NotStored}
CookiePolicies == {Lasting, Expiring}
VaryPolicies == {Lasting, Varying}
AllPolicies == Policies \cup RacePolicies \cup VaryPolicies

(* Three scenarios in one instance.  One process meets every kind of        *)
(* header, the server keeps its content and the clock runs to the end; or   *)
(* two processes race each other, the clock and a server that changes       *)
(* content, without a header the server varies on; or they race each other  *)
(* and a server that changes content and what it varies on, so that one     *)
(* looks between the deletion of a row and the saving of its successor.     *)
Alone ==
  /\ \A p, q \in Proc : pc[p] # "idle" /\ pc[q] # "idle" => p = q
  /\ \E c \in Content :
       /\ \A u \in Url : content[u] = c /\ policy[u] \in Policies
       /\ \A e \in db : e.headers \in Policies /\ e.body.content = c

Racing ==
  /\ now <= 2
  /\ \A u \in Url : policy[u] \in RacePolicies
  /\ \A e \in db : e.headers \in RacePolicies
  /\ \A p \in Proc : request[p] # None =>
       \A h \in Header : request[p].headers[h] = None

RacingVary ==
  /\ now <= 1
  /\ \A u \in Url : policy[u] \in VaryPolicies
  /\ \A e \in db : e.headers \in VaryPolicies
  /\ \A p \in Proc : request[p] # None =>
       \A h \in Header : request[p].headers[h] = v1

Scenarios == Alone \/ Racing \/ RacingVary
=============================================================================
