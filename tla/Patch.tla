-------------------------------- MODULE Patch --------------------------------
(***************************************************************************)
(* rbt patch: fetch the diff of a review request and apply it, or revert   *)
(* it, in a Git working tree (Patcher).  The diff is the draft's if the    *)
(* user can see one and the latest published one otherwise, found by       *)
(* several requests between which the owner uploads, publishes and         *)
(* discards drafts.                                                        *)
(*                                                                         *)
(* All revisions of the diff lead along the same history; which of them is *)
(* applied is told by its number.                                          *)
(***************************************************************************)
EXTENDS Patcher, SequencesExt

CONSTANTS
  Setups,          \* the situations the command is started in
  MaxChanges,      \* bound: changes of the owner during one run
  None

(* A situation: the options, the server and the review request, the tree *)
SetupType(s) ==
  /\ s.diff_revision \in Nat \cup {None}
  /\ \A flag \in {"commit", "commit_no_edit", "commit_ids", "squash",
                  "revert_patch", "supports_history", "with_commits",
                  "sees_draft"} : s[flag] \in BOOLEAN
  /\ s.published \in Nat /\ s.draft \in {0, s.published + 1}
  /\ s.history \in Seq(Tree) /\ Len(s.history) > 1
  /\ s.head \in Tree /\ s.index \in Tree /\ s.work \in Tree

ASSUME PatchAssumption ==
  /\ None \notin Nat
  /\ MaxChanges \in Nat
  /\ \A s \in Setups : SetupType(s)

VARIABLES
  setup,       \* the situation, fixed for the run
  pc,          \* where the command is
  published,   \* the server: how many diffs are published
  draft,       \* the revision of the draft diff, or 0
  changes,     \* changes of the owner so far
  newest,      \* history: the revisions that were the newest the user sees
  revision     \* the revision asked for, then that of the diff found

serverVars == <<published, draft, changes, newest>>
vars == <<patcherVars, serverVars, setup, pc, revision>>

(* The newest revision that the user can see *)
Newest(p, d) == IF setup.sees_draft /\ d # 0 THEN d ELSE p

Init ==
  /\ setup \in Setups
  /\ pc = "options"
  /\ published = setup.published
  /\ draft = setup.draft
  /\ changes = 0
  /\ newest = {Newest(setup.published, setup.draft)}
  /\ revision = setup.diff_revision
  /\ patches = <<>>
  /\ revert = FALSE /\ squash = FALSE /\ commit = FALSE
  /\ num = 1
  /\ stage = "new"
  /\ head = <<setup.head>>
  /\ index = setup.index
  /\ work = setup.work
  /\ pending = Dirty
  /\ interrupted = FALSE

Goto(q) == pc' = q

(* A CommandError, or an exception nothing catches *)
Abort == Goto("failed") /\ UNCHANGED revision

-----------------------------------------------------------------------------
(* Finding the diff *)

(* Only the working tree is compared with the index. *)
MutantHasPendingChanges == \E f \in File : index[f] # Absent /\ work[f] # index[f]

(* GitClient.has_pending_changes does not look at untracked files. *)
HasPendingChanges ==
  \E f \in File : \/ index[f] # Committed[f]
                  \/ index[f] # Absent /\ work[f] # index[f]

(* Pending changes stop --commit; --commit-no-edit only warns.  If git     *)
(* status fails there are none.  A list of commit IDs is trimmed by a      *)
(* method that strings do not have.                                        *)
CheckOptions ==
  /\ pc = "options"
  /\ \E status_fails \in BOOLEAN :
       /\ interrupted' = (interrupted \/ status_fails)
       /\ IF \/ setup.commit /\ HasPendingChanges /\ ~status_fails
             \/ setup.commit_ids
            THEN Abort
            ELSE /\ Goto(IF setup.diff_revision = None THEN "draft" ELSE "diff")
                 /\ UNCHANGED revision
  /\ UNCHANGED <<callVars, num, stage, head, index, work, pending, serverVars,
                 setup>>

FindDraft(found, other) ==
  \/ /\ setup.sees_draft /\ found
     /\ revision' = draft
     /\ Goto("patches")
     /\ UNCHANGED interrupted
  \/ /\ ~(setup.sees_draft /\ found)
     /\ Goto(other)
     /\ UNCHANGED <<revision, interrupted>>
  \/ /\ Goto(other)                     \* the request fails
     /\ interrupted' = TRUE
     /\ UNCHANGED revision

(* Published diffs only. *)
MutantGetDraftDiff ==
  /\ pc = "draft"
  /\ Goto("count")
  /\ UNCHANGED <<callVars, num, stage, head, index, work, pending, serverVars,
                 setup, revision, interrupted>>

GetDraftDiff ==
  /\ pc = "draft"
  /\ FindDraft(draft # 0, "count")
  /\ UNCHANGED <<callVars, num, stage, head, index, work, pending, serverVars,
                 setup>>

CountDiffs ==
  /\ pc = "count"
  /\ \/ /\ revision' = published
        /\ Goto("diff")
        /\ UNCHANGED interrupted
     \/ Abort /\ interrupted' = TRUE
  /\ UNCHANGED <<callVars, num, stage, head, index, work, pending, serverVars,
                 setup>>

(* A revision that was asked for and is not published may be the draft's.  *)
GetDiff ==
  /\ pc = "diff"
  /\ \/ /\ revision \in 1..published
        /\ Goto("patches")
        /\ UNCHANGED interrupted
     \/ /\ Goto(IF setup.diff_revision = None THEN "failed" ELSE "fallback")
        /\ interrupted' = (interrupted \/ revision \in 1..published)
  /\ UNCHANGED <<callVars, num, stage, head, index, work, pending, serverVars,
                 setup, revision>>

GetMatchingDraft ==
  /\ pc = "fallback"
  /\ FindDraft(draft = revision /\ draft # 0, "failed")
  /\ UNCHANGED <<callVars, num, stage, head, index, work, pending, serverVars,
                 setup>>

-----------------------------------------------------------------------------
(* get_patches, and the call of the patcher *)

(* The attachments that _get_binary_file_from_filediff takes: in reverse   *)
(* the source's, and none for a file that will be added.                   *)
Attached(from, to) ==
  {f \in Binary : /\ from[f] # to[f]
                  /\ to[f] # Absent
                  /\ setup.revert_patch => from[f] # Absent}

PatchOf(i, j) ==
  LET from == setup.history[i]
      to == setup.history[j]
  IN [from |-> from, to |-> to, attached |-> Attached(from, to)]

(* One patch for each commit, or one of them all; backwards to revert.     *)
GetPatches ==
  LET last == Len(setup.history)
      each == [i \in 1..(last - 1) |-> PatchOf(i, i + 1)]
  IN IF setup.squash \/ ~setup.supports_history \/ ~setup.with_commits
       THEN <<PatchOf(1, last)>>
     ELSE IF setup.revert_patch THEN Reverse(each) ELSE each

(* Every patch, and the review request, is fetched before the tree is      *)
(* touched; a patch of a draft that is gone is not found.                  *)
ApplyPatches ==
  /\ pc = "patches"
  /\ \/ /\ CallPatch(GetPatches,
                     [revert |-> setup.revert_patch,
                      squash |-> setup.squash,
                      commit |-> setup.commit \/ setup.commit_no_edit])
        /\ Goto("patching")
        /\ UNCHANGED <<interrupted, revision>>
     \/ /\ Abort
        /\ interrupted' = TRUE
        /\ UNCHANGED <<callVars, num, stage, head, index, work, pending>>
  /\ UNCHANGED <<serverVars, setup>>

PatchStep ==
  /\ pc = "patching"
  /\ Patching
  /\ UNCHANGED <<serverVars, setup, pc, revision>>

Exit ==
  /\ pc = "patching"
  /\ stage \in {"done", "failed"}
  /\ Goto(stage)
  /\ UNCHANGED <<patcherVars, serverVars, setup, revision>>

(* The owner of the review request *)
OwnerChanges ==
  /\ pc \notin {"done", "failed"}
  /\ changes < MaxChanges
  /\ changes' = changes + 1
  /\ \/ /\ draft = 0                    \* upload
        /\ draft' = published + 1
        /\ UNCHANGED published
     \/ /\ draft # 0                    \* publish
        /\ published' = draft
        /\ draft' = 0
     \/ /\ draft # 0                    \* discard
        /\ draft' = 0
        /\ UNCHANGED published
  /\ newest' = newest \cup {Newest(published', draft')}
  /\ UNCHANGED <<patcherVars, setup, pc, revision>>

Next ==
  \/ CheckOptions \/ GetDraftDiff \/ CountDiffs \/ GetDiff
  \/ GetMatchingDraft \/ ApplyPatches \/ PatchStep \/ Exit
  \/ OwnerChanges

Spec == Init /\ [][Next]_vars

-----------------------------------------------------------------------------
(* Properties *)

TypeOK ==
  /\ SetupType(setup)
  /\ pc \in {"options", "draft", "count", "diff", "fallback", "patches",
             "patching", "done", "failed"}
  /\ published \in Nat /\ draft \in {0, published + 1}
  /\ changes \in 0..MaxChanges
  /\ newest \subseteq Nat
  /\ revision \in Nat \cup {None}
  /\ patches \in Seq(PatchType)
  /\ \A flag \in {revert, squash, commit, interrupted} : flag \in BOOLEAN
  /\ num \in 1..(Len(patches) + 1)
  /\ stage \in {"new", "applying", "applied", "committing", "failed", "done"}
  /\ head \in Seq(Tree) /\ head # <<>>
  /\ index \in WorkTree /\ work \in WorkTree
  /\ pending \subseteq File

(* "this will return a draft diff if available, or the latest published    *)
(* diff if not": without --diff-revision the diff is one that was, at some *)
(* moment of the run, the newest the user could see, however the owner's   *)
(* changes fall between the requests.                                      *)
AppliesLatestDiff ==
  stage # "new" /\ setup.diff_revision = None /\ ~interrupted =>
    revision \in newest

(* What a commit may have of a file: what HEAD had, what a patch that      *)
(* changes the file makes of it, or what the user had staged; the latter   *)
(* only without --commit, or when git status failed.                       *)
MayCommit(f) ==
  LET theirs == {i \in 1..Len(patches) : f \in Changed(patches[i])}
  IN {setup.head[f]} \cup {Target(patches[i])[f] : i \in theirs}
     \cup {c \in {setup.index[f]} : setup.commit => interrupted}

(* What the user has edited stays the user's.  No commit holds an edit,    *)
(* but for those staged before --commit-no-edit, although a commit takes   *)
(* all that is staged and one patch may touch the file that the next does  *)
(* not; and an edit of a text file that is not staged is never overwritten.*)
EditsStayApart ==
  /\ \A i \in 1..Len(head), f \in File : head[i][f] \in MayCommit(f)
  /\ \A f \in File \ Binary :
       setup.work[f] # setup.index[f] => work[f] = setup.work[f]

StartsFrom(tree) ==
  setup.head = tree /\ setup.index = tree /\ setup.work = tree

(* Each binary file is changed once, and each commit has something staged. *)
Plain ==
  /\ \A i \in 1..Len(patches) : commit =>
       Changed(patches[i]) # Modified(patches[i])
  /\ \A i, j \in 1..Len(patches) :
       i # j => Changed(patches[i]) \cap Changed(patches[j]) \cap Binary = {}

(* On the tree that the diff was made from, every patch of it applies and  *)
(* is committed: each leaves the tree as the next one expects it.          *)
AppliesToItsBase ==
  ~interrupted /\ ~revert /\ StartsFrom(setup.history[1]) /\ Plain =>
    stage # "failed"

(* "Return patches in the order needed to revert them": a tree that holds  *)
(* exactly the diff's changes can be brought back to its base.             *)
RevertsOnItsTarget ==
  ~interrupted /\ revert /\ StartsFrom(setup.history[Len(setup.history)])
               /\ Plain =>
    stage # "failed"
=============================================================================
