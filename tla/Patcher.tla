------------------------------ MODULE Patcher ------------------------------
(***************************************************************************)
(* rbtools.diffs.patcher.Patcher, as GitPatcher specialises it: apply, or  *)
(* revert, a list of patches one at a time to a Git working tree, and      *)
(* commit each of them when asked.                                         *)
(*                                                                         *)
(* A tree gives every file its content.  A patch is the tree it was made   *)
(* from and the tree it leads to: the files in which they differ are those *)
(* it changes.  "git apply -3" works on text through the index; binary     *)
(* files are excluded from it and written by the patcher from attachments  *)
(* that it downloads.                                                      *)
(***************************************************************************)
EXTENDS Naturals, Sequences

CONSTANTS
  File, Binary,    \* the files of the repository; those that are binary
  Content,
  Absent,          \* the content of a file that is not there
  Conflicted       \* the content of a file with conflict markers

ASSUME PatcherAssumption ==
  /\ Binary \subseteq File
  /\ Absent \notin Content /\ Conflicted \notin Content
  /\ Absent # Conflicted

VARIABLES
  patches,     \* the patches, in the order the caller gives them
  revert,
  squash,
  commit,      \* set by prepare_for_commit
  num,         \* the number of the patch being applied, from 1
  stage,       \* where patch() is
  head,        \* the trees of HEAD: at the start, and after each commit
  index,       \* the tree that is staged
  work,        \* the files
  pending,     \* history: the files with changes that were there before
  interrupted  \* history: has anything failed outside the program?

callVars == <<patches, revert, squash, commit>>
patcherVars == <<callVars, num, stage, head, index, work, pending, interrupted>>

Tree == [File -> Content \cup {Absent}]
WorkTree == [File -> Content \cup {Absent, Conflicted}]

(* attached: the binary files a BinaryFilePatch has an attachment for *)
PatchType == [from : Tree, to : Tree, attached : SUBSET Binary]

Committed == head[Len(head)]

MutantNth(i) == patches[Len(patches) - i + 1]

(* apply_patches goes through the list backwards to revert it. *)
Nth(i) == IF revert THEN patches[Len(patches) - i + 1] ELSE patches[i]

(* "git apply -R" *)
Source(p) == IF revert THEN p.to ELSE p.from
Target(p) == IF revert THEN p.from ELSE p.to

Changed(p) == {f \in File : p.from[f] # p.to[f]}
Text(p) == Changed(p) \ Binary

(* The statuses of a BinaryFilePatch; moves and copies are left out. *)
Deleted(p) == {f \in Changed(p) \cap Binary : Target(p)[f] = Absent}
Added(p) == {f \in Changed(p) \cap Binary : Source(p)[f] = Absent}
Modified(p) == (Changed(p) \cap Binary) \ (Deleted(p) \cup Added(p))

-----------------------------------------------------------------------------
PatcherInit ==
  /\ patches = <<>>
  /\ revert = FALSE /\ squash = FALSE /\ commit = FALSE
  /\ num = 1
  /\ stage = "new"
  /\ index \in Tree /\ work \in Tree
  /\ \E tree \in Tree : head = <<tree>>
  /\ pending = {f \in File : work[f] # Committed[f] \/ index[f] # Committed[f]}
  /\ interrupted = FALSE

(* The caller makes a patcher, prepares it for commits and calls patch().  *)
CallPatch(list, flags) ==
  /\ stage = "new"
  /\ patches' = list
  /\ revert' = flags.revert
  /\ squash' = flags.squash
  /\ commit' = flags.commit
  /\ stage' = "applying"
  /\ UNCHANGED <<num, head, index, work, pending>>

-----------------------------------------------------------------------------
(* GitPatcher.apply_single_patch *)

(* --index: the files of the patch must have no unstaged changes. *)
InSync(p) == \A f \in Text(p) : work[f] = index[f]

(* -3: a three-way merge of the index with the two sides of the patch.     *)
Merges(p, f) == index[f] \in {Source(p)[f], Target(p)[f]}

Merged(p, f) == IF Merges(p, f) THEN Target(p)[f] ELSE Conflicted

(* handle_add_file and handle_remove_file stage what they do,              *)
(* handle_write_file does not.  git rm wants a file without changes, or    *)
(* one that has gone from the working tree already.                        *)
Removable(f) ==
  /\ index[f] # Absent
  /\ work[f] = Absent \/ (index[f] = work[f] /\ index[f] = Committed[f])

Removed(p) == {f \in Deleted(p) : Removable(f)}
Written(p, downloaded) == (Added(p) \cup Modified(p)) \cap downloaded

(* Binary files that are added are written like those that change. *)
MutantStaged(p, downloaded) == Removed(p)

Staged(p, downloaded) == Removed(p) \cup (Added(p) \cap downloaded)

(* Conflicts are not failures. *)
MutantSuccess(p, downloaded) ==
  Changed(p) \cap Binary = Removed(p) \cup Written(p, downloaded)

(* success: applied, without conflicts, and with every binary file.        *)
Success(p, downloaded) ==
  /\ \A f \in Text(p) : Merges(p, f)
  /\ Changed(p) \cap Binary = Removed(p) \cup Written(p, downloaded)

(* Commit every patch, or when squashing the last. *)
MutantCommitsNow == commit /\ num = Len(patches)

CommitsNow == commit /\ (~squash \/ num = Len(patches))

ApplySinglePatch(downloaded) ==
  LET p == Nth(num) IN
  /\ stage = "applying"
  /\ InSync(p)
  /\ index' = [f \in File |->
                 IF f \in Text(p) THEN Merged(p, f)
                 ELSE IF f \in Staged(p, downloaded) THEN Target(p)[f]
                 ELSE index[f]]
  /\ work' = [f \in File |->
                IF f \in Text(p) THEN Merged(p, f)
                ELSE IF f \in Removed(p) \cup Written(p, downloaded)
                  THEN Target(p)[f]
                ELSE work[f]]
  /\ stage' = IF ~Success(p, downloaded) THEN "failed"
              ELSE IF CommitsNow THEN "committing" ELSE "applied"
  /\ interrupted' = (interrupted \/ downloaded # p.attached)
  /\ UNCHANGED <<callVars, num, head, pending>>

(* git apply changes nothing when a file is out of step, or when it has    *)
(* not got the blobs for a merge.                                          *)
RefusePatch ==
  LET p == Nth(num) IN
  /\ stage = "applying"
  /\ num <= Len(patches)
  /\ \E f \in Text(p) : work[f] # index[f] \/ index[f] # Source(p)[f]
  /\ stage' = "failed"
  /\ UNCHANGED <<callVars, num, head, index, work, pending, interrupted>>

(* GitClient.create_commit without files: what is staged.  Git refuses an  *)
(* empty commit; the editor, a hook or git itself may fail.                *)
CreateCommit ==
  /\ stage = "committing"
  /\ \/ /\ index # Committed
        /\ head' = Append(head, index)
        /\ stage' = "applied"
        /\ UNCHANGED interrupted
     \/ /\ stage' = "failed"
        /\ interrupted' = (interrupted \/ index # Committed)
        /\ UNCHANGED head
  /\ UNCHANGED <<callVars, num, index, work, pending>>

(* The result is yielded and the caller asks for the next. *)
NextPatch ==
  /\ stage = "applied"
  /\ num' = num + 1
  /\ stage' = "applying"
  /\ UNCHANGED <<callVars, head, index, work, pending, interrupted>>

PatchesEnd ==
  /\ stage = "applying"
  /\ num > Len(patches)
  /\ stage' = "done"
  /\ UNCHANGED <<callVars, num, head, index, work, pending, interrupted>>

Patching ==
  \/ /\ num <= Len(patches)
     /\ \E downloaded \in SUBSET Nth(num).attached :
          ApplySinglePatch(downloaded)
  \/ RefusePatch \/ CreateCommit \/ NextPatch \/ PatchesEnd

(* Before the call anything else may fail. *)
CallerFails ==
  /\ stage = "new"
  /\ interrupted' \in BOOLEAN
  /\ UNCHANGED <<callVars, num, stage, head, index, work, pending>>

Call ==
  \E list \in Seq(PatchType),
     flags \in [revert : BOOLEAN, squash : BOOLEAN, commit : BOOLEAN] :
    CallPatch(list, flags) /\ UNCHANGED interrupted

PatcherSpec ==
  PatcherInit /\ [][Call \/ CallerFails \/ Patching]_patcherVars

-----------------------------------------------------------------------------
(* Properties *)

(* handle_write_file leaves these changed and not staged. *)
Unstaged == {f \in Binary : \E i \in 1..Len(patches) : f \in Modified(patches[i])}

Current == IF stage \in {"committing", "failed"} THEN Changed(Nth(num)) ELSE {}

Dirty == {f \in File : work[f] # Committed[f] \/ index[f] # Committed[f]}

(* Whichever patch fails to apply or to be committed, those before it are  *)
(* committed and nothing of them is left in the tree: at any time the tree *)
(* differs from HEAD only by what was pending and by one patch.            *)
OnePatchAtATime ==
  commit /\ ~squash => Dirty \subseteq pending \cup Unstaged \cup Current

(* Every commit holds one patch of the list, whole and alone: nothing of   *)
(* another patch gets into it, though all that is staged is committed.     *)
CommitsHoldPatches ==
  commit /\ ~squash =>
    \A i \in 1..(Len(head) - 1) : \A f \in File \ (pending \cup Unstaged) :
      head[i + 1][f] = IF f \in Changed(Nth(i)) THEN Target(Nth(i))[f]
                                                ELSE head[i][f]
=============================================================================
