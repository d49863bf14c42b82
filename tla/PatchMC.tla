------------------------------ MODULE PatchMC ------------------------------
(***************************************************************************)
(* Small instances of Patch: two text files and a binary one.              *)
(***************************************************************************)
EXTENDS Patch

CONSTANTS t, u, b, edited

Contents == {0, 1, 2, edited}

Files(x, y, z) == [f \in File |-> IF f = t THEN x ELSE IF f = u THEN y ELSE z]

(* Histories: two commits that build on each other, with an empty binary   *)
(* file list; a text file and a binary one are added; a binary one changes *)
(* and is deleted, in one commit each.                                     *)
Chained == <<Files(0, 0, Absent), Files(1, 0, Absent), Files(2, 1, Absent)>>
Adding == <<Files(0, Absent, Absent), Files(1, Absent, 1), Files(1, 1, 1)>>
Modifying == <<Files(0, 0, 0), Files(1, 0, 0), Files(1, 1, 1)>>
Deleting == <<Files(0, 0, 0), Files(0, 0, Absent), Files(0, 1, Absent)>>
OnlyBinary == <<Files(0, 0, 0), Files(0, 0, 1), Files(0, 0, Absent)>>

Base == [
  diff_revision |-> None, commit |-> FALSE, commit_no_edit |-> FALSE,
  commit_ids |-> FALSE, squash |-> FALSE, revert_patch |-> FALSE,
  supports_history |-> TRUE, with_commits |-> TRUE, sees_draft |-> TRUE,
  published |-> 1, draft |-> 0, history |-> Chained,
  head |-> Chained[1], index |-> Chained[1], work |-> Chained[1]]

At(s, tree) == [s EXCEPT !.head = tree, !.index = tree, !.work = tree]

(* Each way to call for the patch, from each end of each history. *)
Called ==
  {At([Base EXCEPT !.commit = o[1], !.commit_no_edit = o[2], !.squash = o[3],
                   !.revert_patch = o[4], !.history = h], h[i]) :
     o \in BOOLEAN \X BOOLEAN \X BOOLEAN \X BOOLEAN, i \in {1, 3},
     h \in {Chained, Adding, Modifying, Deleting, OnlyBinary}}

(* Edits that are there before, staged or not, in any one file. *)
Edit(tree, f) == [tree EXCEPT ![f] = edited]

Edited ==
  {[At([Base EXCEPT !.commit = o[1], !.commit_no_edit = ~o[1],
                    !.squash = o[2], !.history = h], h[1])
      EXCEPT !.index = IF o[3] THEN Edit(h[1], f) ELSE h[1],
             !.work = Edit(h[1], f)] :
     o \in BOOLEAN \X BOOLEAN \X BOOLEAN, f \in File,
     h \in {Chained, Adding, Modifying, Deleting}}

(* The server: drafts, older servers, review requests without commits.     *)
Served ==
  {[Base EXCEPT !.diff_revision = r, !.published = n, !.commit_ids = o[4],
                !.draft = IF o[1] THEN n + 1 ELSE 0, !.sees_draft = o[2],
                !.supports_history = o[3], !.with_commits = o[3] /\ ~o[4]] :
     r \in {None, 1, 2}, n \in 0..1,
     o \in BOOLEAN \X BOOLEAN \X BOOLEAN \X BOOLEAN}

MCSetups == Called \cup Edited \cup Served

(* Reverting text files, from the tree the history leads to. *)
RevertSetups ==
  {At([Base EXCEPT !.revert_patch = TRUE, !.squash = s, !.commit = c],
      Chained[3]) : s \in BOOLEAN, c \in BOOLEAN}
=============================================================================
