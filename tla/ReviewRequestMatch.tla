-------------------------- MODULE ReviewRequestMatch --------------------------
(***************************************************************************)
(* Which review request a commit belongs to: find_review_request_matches   *)
(* and the choice guess_existing_review_request makes of its result.       *)
(*                                                                         *)
(* A candidate is what the list of pending review requests says of one: an *)
(* id, and the commit and text of its draft, or of the published request   *)
(* when it has none.  "tree" is what the SCM client makes of its           *)
(* extra_data: TRUE and FALSE decide, None leaves it to the rest.  Summary *)
(* and description are one text, a sequence of words.                      *)
(***************************************************************************)
EXTENDS Integers, FiniteSets, SequencesExt, Sublist

CONSTANTS
  MaxReviewRequests, \* max_review_requests of find_review_request_matches
  MaxPrompts,        \* fuzzy matches the user is asked about
  Unknown            \* no commit, or nothing known of the tree

Tests(candidate, commit_id, text) == [
  commit |-> commit_id # Unknown /\ candidate.commit_id = commit_id,
  tree |-> candidate.tree,
  text |-> text # <<>> /\ candidate.text = text]

(* A plausible bug: an equal text counts where the tree says no *)
MutantByText(t) == t.text

(* Step 1 and 2: a tree that does not match undoes a commit that does *)
ByCommit(t) == t.commit /\ t.tree # FALSE
ByTree(t) == t.tree = TRUE
(* Step 3, for what the steps before have not decided *)
ByText(t) == t.text /\ t.tree # FALSE
IsExact(t) == ByCommit(t) \/ ByTree(t) \/ ByText(t)

(* The ids of exact matches in the order the dictionary was filled *)
Distinct(ids) ==
  At(ids, {i \in DOMAIN ids : \A j \in 1..(i - 1) : ids[j] # ids[i]})

ExactMatches(candidates, commit_id, text) ==
  LET test(i) == Tests(candidates[i], commit_id, text)
      ids == [i \in DOMAIN candidates |-> candidates[i].id]
  IN  Distinct(At(ids, {i \in DOMAIN ids : ByCommit(test(i))})
               \o At(ids, {i \in DOMAIN ids : ByTree(test(i))})
               \o At(ids, {i \in DOMAIN ids : ByText(test(i))}))

(* Everything else, if there is a text to compare with; the order of the   *)
(* scores depends on the words.  One that the list gave twice counts once. *)
FuzzyMatches(candidates, commit_id, text) ==
  {candidates[i].id : i \in {j \in DOMAIN candidates :
     LET t == Tests(candidates[j], commit_id, text)
     IN  text # <<>> /\ t.tree # FALSE /\ ~IsExact(t)}}

(* s[m:n], which may reach beyond the end *)
Slice(s, m, n) == SubSeq(s, m, Min({n, Len(s)}))

(* One exact match is taken unasked; otherwise the user is asked about     *)
(* every exact one and then about the fuzzy ones, in an unknown order.     *)
TakenUnasked(candidates, commit_id, text) ==
  LET exact == ExactMatches(candidates, commit_id, text)
  IN  IF Len(exact) = 1 THEN exact[1] ELSE Unknown

Questions(candidates, commit_id, text) ==
  LET exact == ExactMatches(candidates, commit_id, text)
      fuzzy == FuzzyMatches(candidates, commit_id, text) \ ToSet(exact)
  IN  {Slice(exact \o order, 1, MaxPrompts) : order \in SetToSeqs(fuzzy)}
=============================================================================
