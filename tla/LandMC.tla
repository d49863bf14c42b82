------------------------------- MODULE LandMC -------------------------------
(***************************************************************************)
(* Small instances of Land.                                                *)
(***************************************************************************)
EXTENDS Land

CONSTANTS a, b, c, main, feature, other

MCVertex == Resource

(* Links that only go from a request to a later one of the list *)
ListedRequests == <<Root, a, b, c>>
Later(rr) ==
  {ListedRequests[j] : j \in {k \in 1..4 :
     \E i \in 1..(k - 1) : ListedRequests[i] = rr}}

AcyclicLinks ==
  {d \in [ReviewRequest -> SUBSET ReviewRequest] :
     \A rr \in ReviewRequest : d[rr] \subseteq Later(rr)}

Approved ==
  [approved |-> TRUE, reason |-> TRUE, submitted |-> FALSE, ours |-> TRUE]
RefusedOne == [Approved EXCEPT !.approved = FALSE]
Unexplained == [RefusedOne EXCEPT !.reason = FALSE]
Submitted == [Approved EXCEPT !.submitted = TRUE]
Elsewhere == [Approved EXCEPT !.ours = FALSE]

Standings(odd) ==
  {[rr \in ReviewRequest |-> IF rr = r THEN s ELSE Approved] :
     r \in ReviewRequest, s \in odd}

Plain == [
  depends_on |-> [rr \in ReviewRequest |-> {}],
  standing |-> [rr \in ReviewRequest |-> Approved],
  branch_name |-> None, rid |-> TRUE, is_local |-> FALSE,
  recursive |-> TRUE, dry_run |-> FALSE, push |-> FALSE,
  delete_branch |-> TRUE, clean |-> TRUE, can_merge |-> TRUE,
  can_push |-> TRUE,
  current |-> main, destination |-> main, source |-> feature]

(* Every acyclic graph, with at most one request that may not be landed *)
Recursive ==
  {[Plain EXCEPT !.depends_on = d, !.standing = s] :
     d \in AcyclicLinks,
     s \in Standings({Approved, RefusedOne, Unexplained, Submitted,
                       Elsewhere})}

(* A chain of one dependency, with every combination of the options *)
Chain == [rr \in ReviewRequest |-> IF rr = Root THEN {a} ELSE {}]
Options ==
  {[Plain EXCEPT !.depends_on = Chain, !.branch_name = name, !.rid = rid,
                 !.is_local = local, !.recursive = recursive,
                 !.dry_run = dry, !.push = push, !.delete_branch = delete,
                 !.current = head] :
     name \in {None, feature}, rid \in BOOLEAN, local \in BOOLEAN,
     recursive \in BOOLEAN, dry \in BOOLEAN, push \in BOOLEAN,
     delete \in BOOLEAN, head \in {main, feature}}

Unready ==
  {[Plain EXCEPT !.push = TRUE, !.clean = x[1], !.can_merge = x[2],
                 !.can_push = x[3]] : x \in BOOLEAN \X BOOLEAN \X BOOLEAN}

MCSetups == Recursive \cup Options \cup Unready

(* Links in which every request has at most one, cycles included *)
LinearLinks ==
  {d \in [{Root, a, b} -> SUBSET {Root, a, b}] :
     \A rr \in {Root, a, b} : Cardinality(d[rr]) <= 1}

CyclicSetups ==
  {[Plain EXCEPT !.depends_on = [rr \in ReviewRequest |->
        IF rr = c THEN {} ELSE d[rr]]] : d \in LinearLinks}

(* One request of a chain is refused, with a reason or without *)
RefusedSetups ==
  {[Plain EXCEPT !.depends_on = Chain, !.standing = s] :
     s \in Standings({RefusedOne, Unexplained})}
=============================================================================
