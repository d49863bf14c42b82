----------------------------- MODULE PatchProofs -----------------------------
(***************************************************************************)
(* Proofs about the patcher and about the command that drives it, for      *)
(* every set of files, tree, list of patches and situation.                *)
(*                                                                         *)
(* First Patcher alone: what a failure leaves behind is the work of one    *)
(* patch, and each commit holds exactly one patch.  Then Patch: the        *)
(* command uses the patcher as Patcher's specification says, so that what  *)
(* is proved of the patcher holds of the command; it applies the newest    *)
(* diff, keeps edits and commits none, and applies to the tree that the    *)
(* diff was made from.                                                     *)
(***************************************************************************)
EXTENDS Patch, TLAPS

Stages == {"new", "applying", "applied", "committing", "failed", "done"}

TreesTyped ==
  /\ head \in Seq(Tree) /\ Len(head) \in Nat \ {0}
  /\ index \in WorkTree /\ work \in WorkTree
  /\ stage # "failed" => index \in Tree
  /\ pending \subseteq File

StageTyped ==
  /\ stage \in Stages
  /\ num \in Nat \ {0}
  /\ stage = "new" => num = 1 /\ patches = <<>> /\ Len(head) = 1
  /\ num <= Len(patches) + 1
  /\ stage \in {"applied", "committing", "failed"} => num <= Len(patches)

CallTyped ==
  /\ patches \in Seq(PatchType)
  /\ revert \in BOOLEAN /\ squash \in BOOLEAN /\ commit \in BOOLEAN
  /\ interrupted \in BOOLEAN

(* Files whose commits are the patcher's business *)
Ours == File \ (pending \cup Unstaged)

EachCommitted == commit /\ ~squash

InStep == \A f \in Ours : work[f] = index[f]

(* Nothing is left over from an earlier patch. *)
LeftOver ==
  EachCommitted \/ stage = "new" =>
    \A f \in Ours \ Current : index[f] = Committed[f]

(* HEAD has moved once for each patch that is done. *)
OneEach ==
  EachCommitted =>
    Len(head) = IF stage = "applied" THEN num + 1 ELSE num

(* What is about to be committed is the patch. *)
Ready ==
  EachCommitted /\ stage = "committing" =>
    \A f \in Ours \cap Changed(Nth(num)) : index[f] = Target(Nth(num))[f]

PatcherInv ==
  /\ TreesTyped /\ StageTyped /\ CallTyped
  /\ InStep /\ LeftOver /\ OneEach /\ Ready
  /\ CommitsHoldPatches

-----------------------------------------------------------------------------
(* A patch of the list, by its number *)
LEMMA NthInList ==
  ASSUME CallTyped, NEW i \in Nat \ {0}, i <= Len(patches)
  PROVE  /\ Nth(i) \in PatchType
         /\ \E k \in 1..Len(patches) : Nth(i) = patches[k]
<1>1. Len(patches) - i + 1 \in 1..Len(patches)
  BY DEF CallTyped
<1>2. i \in 1..Len(patches)
  OBVIOUS
<1>3. \A k \in 1..Len(patches) : patches[k] \in PatchType
  BY DEF CallTyped
<1> QED BY <1>1, <1>2, <1>3 DEF Nth

LEMMA ModifiedIsUnstaged ==
  ASSUME CallTyped, NEW i \in Nat \ {0}, i <= Len(patches)
  PROVE  Modified(Nth(i)) \subseteq Unstaged
<1>1. PICK k \in 1..Len(patches) : Nth(i) = patches[k]
  BY NthInList
<1> QED BY <1>1 DEF Unstaged, Modified

(* The two sides of a patch *)
LEMMA SidesTyped ==
  ASSUME CallTyped, NEW p \in PatchType
  PROVE  /\ Source(p) \in Tree /\ Target(p) \in Tree
         /\ \A f \in File : f \in Changed(p) <=> Source(p)[f] # Target(p)[f]
         /\ Changed(p) \subseteq File
<1>1. p.from \in Tree /\ p.to \in Tree
  BY DEF PatchType
<1> QED BY <1>1 DEF Source, Target, Changed, CallTyped

(* What apply_single_patch does to the index and the files *)
LEMMA PatchEffect ==
  ASSUME TreesTyped, StageTyped, CallTyped, stage = "applying",
         num <= Len(patches),
         NEW downloaded, ApplySinglePatch(downloaded)
  PROVE  LET p == Nth(num) IN
         /\ index' \in WorkTree /\ work' \in WorkTree
         /\ \A f \in File \ Changed(p) :
              index'[f] = index[f] /\ work'[f] = work[f]
         /\ \A f \in File \ Modified(p) :
              work[f] = index[f] => work'[f] = index'[f]
         /\ stage' # "failed" =>
              /\ index' \in Tree
              /\ \A f \in Changed(p) \ Modified(p) : index'[f] = Target(p)[f]
<1> DEFINE p == Nth(num)
<1>1. p \in PatchType
  BY NthInList DEF StageTyped
<1> HIDE DEF p
<1>2. /\ Source(p) \in Tree /\ Target(p) \in Tree
      /\ \A f \in File : f \in Changed(p) <=> Source(p)[f] # Target(p)[f]
      /\ Changed(p) \subseteq File
  BY <1>1, SidesTyped
<1>3. /\ index' = [f \in File |->
                     IF f \in Text(p) THEN Merged(p, f)
                     ELSE IF f \in Staged(p, downloaded) THEN Target(p)[f]
                     ELSE index[f]]
      /\ work' = [f \in File |->
                    IF f \in Text(p) THEN Merged(p, f)
                    ELSE IF f \in Removed(p) \cup Written(p, downloaded)
                      THEN Target(p)[f]
                    ELSE work[f]]
      /\ stage' = "failed" \/ Success(p, downloaded)
  BY DEF ApplySinglePatch, p
<1>4. \A f \in File : /\ Merged(p, f) \in Content \cup {Absent, Conflicted}
                      /\ Target(p)[f] \in Content \cup {Absent}
  BY <1>2 DEF Merged, Tree
<1>5. /\ Text(p) \subseteq Changed(p)
      /\ Staged(p, downloaded) \subseteq Changed(p)
      /\ Removed(p) \cup Written(p, downloaded) \subseteq Changed(p)
      /\ Text(p) \cap Modified(p) = {}
  BY DEF Text, Staged, Removed, Written, Deleted, Added, Modified
<1>6. index' \in WorkTree /\ work' \in WorkTree
  BY <1>3, <1>4 DEF WorkTree, TreesTyped
<1>7. \A f \in File \ Changed(p) : index'[f] = index[f] /\ work'[f] = work[f]
  BY <1>3, <1>5
<1>8. ASSUME NEW f \in File \ Modified(p), work[f] = index[f]
      PROVE  work'[f] = index'[f]
  <2>1. f \in Staged(p, downloaded) <=>
        f \in Removed(p) \cup Written(p, downloaded)
    BY DEF Staged, Written
  <2> QED BY <1>3, <1>8, <2>1
<1>9. ASSUME stage' # "failed"
      PROVE  /\ index' \in Tree
             /\ \A f \in Changed(p) \ Modified(p) : index'[f] = Target(p)[f]
  <2>1. Success(p, downloaded)
    BY <1>3, <1>9
  <2>2. \A f \in Text(p) : Merged(p, f) = Target(p)[f]
    BY <2>1 DEF Success, Merged
  <2>3. ASSUME NEW f \in Changed(p) \ Modified(p), f \notin Text(p)
        PROVE  f \in Staged(p, downloaded)
    <3>1. f \in Binary /\ f \in Removed(p) \cup Written(p, downloaded)
      BY <2>1, <2>3 DEF Success, Text
    <3> QED BY <3>1, <2>3 DEF Staged, Written
  <2>4. \A f \in Changed(p) \ Modified(p) : index'[f] = Target(p)[f]
    BY <1>2, <1>3, <2>2, <2>3
  <2>5. index \in Tree
    BY DEF TreesTyped
  <2>6. \A f \in File : index'[f] \in Content \cup {Absent}
    BY <1>3, <1>4, <2>2, <2>5 DEF Tree
  <2>7. index' = [f \in File |-> index'[f]]
    BY <1>3
  <2> QED BY <2>4, <2>6, <2>7 DEF Tree
<1> QED BY <1>6, <1>7, <1>8, <1>9 DEF p

-----------------------------------------------------------------------------
LEMMA PatcherInitOK == ASSUME PatcherInit PROVE PatcherInv
<1>1. PICK tree \in Tree : head = <<tree>>
  BY DEF PatcherInit
<1>2. Len(head) = 1 /\ head[Len(head)] = tree /\ head \in Seq(Tree)
  BY <1>1
<1>3. TreesTyped
  BY <1>2 DEF PatcherInit, TreesTyped, Tree, WorkTree
<1>4. StageTyped /\ CallTyped
  <2>1. <<>> \in Seq(PatchType)
    OBVIOUS
  <2>2. StageTyped
    BY <1>2 DEF PatcherInit, StageTyped, Stages
  <2> QED BY <2>1, <2>2 DEF PatcherInit, CallTyped
<1>5. InStep /\ LeftOver
  BY DEF PatcherInit, InStep, LeftOver, Ours
<1>6. OneEach /\ Ready /\ CommitsHoldPatches
  BY DEF PatcherInit, OneEach, Ready, CommitsHoldPatches, EachCommitted
<1> QED BY <1>3, <1>4, <1>5, <1>6 DEF PatcherInv

(* The caller sets the patches; the tree is as it was at the start. *)
LEMMA CallOK == ASSUME PatcherInv, Call PROVE PatcherInv'
<1>1. PICK list \in Seq(PatchType),
           flags \in [revert : BOOLEAN, squash : BOOLEAN, commit : BOOLEAN] :
        CallPatch(list, flags) /\ UNCHANGED interrupted
  BY DEF Call
<1>2. /\ stage = "new" /\ stage' = "applying" /\ patches' = list
      /\ revert' = flags.revert /\ squash' = flags.squash
      /\ commit' = flags.commit
      /\ UNCHANGED <<num, head, index, work, pending, interrupted>>
  BY <1>1 DEF CallPatch
<1>3. num = 1 /\ Len(head) = 1 /\ Len(list) \in Nat /\ patches = <<>>
  BY <1>2 DEF PatcherInv, StageTyped
<1>4. TreesTyped'
  BY <1>2 DEF PatcherInv, TreesTyped
<1>5. StageTyped'
  BY <1>2, <1>3 DEF StageTyped, Stages
<1>6. CallTyped'
  BY <1>2 DEF PatcherInv, CallTyped
<1>7. Ours' \subseteq Ours
  <2>1. Unstaged = {}
    BY <1>3 DEF Unstaged
  <2> QED BY <1>2, <2>1 DEF Ours
<1>8. InStep'
  BY <1>2, <1>7 DEF PatcherInv, InStep
<1>9. LeftOver'
  BY <1>2, <1>7 DEF PatcherInv, LeftOver, Current, Committed
<1>10. OneEach' /\ Ready'
  BY <1>2, <1>3 DEF OneEach, Ready
<1>11. CommitsHoldPatches'
  <2>1. 1..(Len(head') - 1) = {}
    BY <1>2, <1>3
  <2> QED BY <2>1 DEF CommitsHoldPatches
<1> QED
  BY <1>4, <1>5, <1>6, <1>8, <1>9, <1>10, <1>11 DEF PatcherInv

(* Commits that are made already are not affected by what goes on. *)
LEMMA CommitsKept ==
  ASSUME CommitsHoldPatches, UNCHANGED <<callVars, head, pending>>
  PROVE  CommitsHoldPatches' /\ Ours' = Ours
BY DEF CommitsHoldPatches, callVars, Nth, Target, Changed, Unstaged, Modified,
       Deleted, Added, Source, Ours

LEMMA ApplyOK ==
  ASSUME PatcherInv, num <= Len(patches),
         NEW downloaded, ApplySinglePatch(downloaded)
  PROVE  PatcherInv'
<1> DEFINE p == Nth(num)
<1>0. stage = "applying" /\ TreesTyped /\ StageTyped /\ CallTyped
  BY DEF ApplySinglePatch, PatcherInv
<1>1. /\ index' \in WorkTree /\ work' \in WorkTree
      /\ \A f \in File \ Changed(p) :
           index'[f] = index[f] /\ work'[f] = work[f]
      /\ \A f \in File \ Modified(p) :
           work[f] = index[f] => work'[f] = index'[f]
      /\ stage' # "failed" =>
           /\ index' \in Tree
           /\ \A f \in Changed(p) \ Modified(p) : index'[f] = Target(p)[f]
  BY <1>0, PatchEffect
<1>2. /\ stage' \in {"failed", "committing", "applied"}
      /\ stage' = "applied" => ~CommitsNow
      /\ UNCHANGED <<callVars, num, head, pending>>
      /\ interrupted' \in BOOLEAN
  BY <1>0 DEF ApplySinglePatch, CallTyped
<1>3. Modified(p) \subseteq Unstaged
  BY <1>0, ModifiedIsUnstaged DEF StageTyped
<1>4. CommitsHoldPatches' /\ Ours' = Ours
  BY <1>2, CommitsKept DEF PatcherInv
<1>5. Nth(num)' = p /\ Changed(p)' = Changed(p) /\ Target(p)' = Target(p)
      /\ EachCommitted' = EachCommitted /\ Committed' = Committed
  BY <1>2 DEF callVars, Nth, Changed, Target, EachCommitted, Committed
<1> HIDE DEF p
<1>6. TreesTyped'
  BY <1>0, <1>1, <1>2 DEF TreesTyped
<1>7. StageTyped'
  BY <1>0, <1>2 DEF StageTyped, Stages, callVars
<1>8. CallTyped'
  BY <1>0, <1>2 DEF CallTyped, callVars
<1>9. InStep'
  BY <1>1, <1>3, <1>4 DEF PatcherInv, InStep, Ours
<1>10. ~(EachCommitted /\ stage' = "applied")
  BY <1>2 DEF CommitsNow, EachCommitted
<1>11. EachCommitted => Current' = Changed(p)
  BY <1>2, <1>5, <1>10 DEF Current, p
<1>12. LeftOver'
  <2>1. Current = {}
    BY <1>0 DEF Current
  <2>2. EachCommitted => \A f \in Ours : index[f] = Committed[f]
    BY <2>1 DEF PatcherInv, LeftOver
  <2> QED BY <1>1, <1>2, <1>4, <1>5, <1>11, <2>2 DEF LeftOver, Ours
<1>13. OneEach'
  BY <1>0, <1>2, <1>5, <1>10 DEF PatcherInv, OneEach
<1>14. Ready'
  BY <1>1, <1>2, <1>3, <1>4, <1>5 DEF Ready, Ours, p
<1> QED
  BY <1>4, <1>6, <1>7, <1>8, <1>9, <1>12, <1>13, <1>14 DEF PatcherInv

(* A commit: what is staged is the patch, and nothing else is.             *)
LEMMA CommitOK == ASSUME PatcherInv, CreateCommit PROVE PatcherInv'
<1>0. stage = "committing" /\ TreesTyped /\ StageTyped /\ CallTyped
  BY DEF CreateCommit, PatcherInv
<1>1. /\ UNCHANGED <<callVars, num, index, work, pending>>
      /\ interrupted' \in BOOLEAN
  BY <1>0 DEF CreateCommit, CallTyped
<1>2. EachCommitted' = EachCommitted /\ Ours' = Ours
  BY <1>1 DEF callVars, EachCommitted, Ours, Unstaged, Modified, Deleted,
              Added, Changed, Target, Source
<1>3. CallTyped' /\ InStep'
  BY <1>0, <1>1, <1>2 DEF CallTyped, callVars, PatcherInv, InStep
<1>4. CASE head' = Append(head, index) /\ stage' = "applied"
  <2>1. /\ head' \in Seq(Tree) /\ Len(head') = Len(head) + 1
        /\ head'[Len(head')] = index
        /\ \A i \in 1..Len(head) : head'[i] = head[i]
    BY <1>0, <1>4 DEF TreesTyped
  <2>2. TreesTyped'
    BY <1>0, <1>1, <1>4, <2>1 DEF TreesTyped
  <2>3. StageTyped'
    BY <1>0, <1>1, <1>4 DEF StageTyped, Stages, callVars
  <2>4. LeftOver'
    BY <1>1, <1>4, <2>1 DEF LeftOver, Committed
  <2>5. OneEach' /\ Ready'
    BY <1>0, <1>1, <1>2, <1>4, <2>1 DEF PatcherInv, OneEach, Ready, TreesTyped
  <2>6. CommitsHoldPatches'
    <3> SUFFICES ASSUME EachCommitted, NEW i \in 1..Len(head), NEW f \in Ours
                 PROVE  head'[i + 1][f] =
                          IF f \in Changed(Nth(i)) THEN Target(Nth(i))[f]
                                                   ELSE head'[i][f]
      BY <1>0, <1>1, <1>2, <2>1
      DEF CommitsHoldPatches, EachCommitted, Ours, Nth, Target, Changed,
          callVars, TreesTyped
    <3>1. Len(head) = num /\ Len(head) \in Nat
      BY <1>0 DEF PatcherInv, OneEach, TreesTyped
    <3>2. CASE i = Len(head)
      <4>1. head'[i + 1] = index /\ head'[i] = Committed
        BY <3>2, <2>1, <3>1 DEF Committed
      <4>2. Current = Changed(Nth(i))
        BY <1>0, <3>1, <3>2 DEF Current
      <4> QED
        BY <4>1, <4>2, <3>1, <3>2, <1>0 DEF PatcherInv, Ready, LeftOver
    <3>3. CASE i < Len(head)
      <4>1. i \in 1..(Len(head) - 1) /\ i + 1 \in 1..Len(head)
        BY <3>1, <3>3
      <4> QED
        BY <4>1, <2>1 DEF PatcherInv, CommitsHoldPatches, Ours, EachCommitted
    <3> QED BY <3>1, <3>2, <3>3
  <2> QED BY <1>3, <2>2, <2>3, <2>4, <2>5, <2>6 DEF PatcherInv
<1>5. CASE stage' = "failed" /\ UNCHANGED head
  <2>1. TreesTyped'
    BY <1>0, <1>1, <1>5 DEF TreesTyped
  <2>2. StageTyped'
    BY <1>0, <1>1, <1>5 DEF StageTyped, Stages, callVars
  <2>3. Current' = Current /\ Committed' = Committed
    BY <1>0, <1>1, <1>5 DEF Current, Committed, Nth, Changed, callVars
  <2>4. LeftOver'
    BY <1>0, <1>1, <1>2, <1>5, <2>3 DEF PatcherInv, LeftOver
  <2>5. OneEach' /\ Ready'
    BY <1>0, <1>1, <1>2, <1>5 DEF PatcherInv, OneEach, Ready
  <2>6. CommitsHoldPatches'
    BY <1>1, <1>5, CommitsKept DEF PatcherInv
  <2> QED BY <1>3, <2>1, <2>2, <2>4, <2>5, <2>6 DEF PatcherInv
<1> QED BY <1>4, <1>5 DEF CreateCommit

(* The other steps leave the trees as they are. *)
LEMMA QuietOK ==
  ASSUME PatcherInv, RefusePatch \/ NextPatch \/ PatchesEnd \/ CallerFails
         \/ UNCHANGED patcherVars,
         interrupted' \in BOOLEAN
  PROVE  PatcherInv'
<1>1. /\ UNCHANGED <<callVars, head, index, work, pending>>
      /\ TreesTyped /\ StageTyped /\ CallTyped
  BY DEF PatcherInv, RefusePatch, NextPatch, PatchesEnd, CallerFails,
         patcherVars
<1>2. CommitsHoldPatches' /\ Ours' = Ours
  BY <1>1, CommitsKept DEF PatcherInv
<1>3. CallTyped' /\ InStep' /\ EachCommitted' = EachCommitted
      /\ Committed' = Committed
  BY <1>1, <1>2 DEF CallTyped, callVars, PatcherInv, InStep, EachCommitted,
                    Committed
<1>4. CASE RefusePatch
  <2>1. /\ stage = "applying" /\ stage' = "failed" /\ num' = num
        /\ num <= Len(patches)
    BY <1>4 DEF RefusePatch
  <2>2. TreesTyped' BY <1>1, <2>1 DEF TreesTyped
  <2>3. StageTyped' BY <1>1, <2>1 DEF StageTyped, Stages, callVars
  <2>4. LeftOver'
    BY <1>1, <1>2, <1>3, <2>1 DEF PatcherInv, LeftOver, Current
  <2>5. OneEach' /\ Ready'
    BY <1>1, <1>3, <2>1 DEF PatcherInv, OneEach, Ready
  <2> QED BY <1>2, <1>3, <2>2, <2>3, <2>4, <2>5 DEF PatcherInv
<1>5. CASE NextPatch
  <2>1. stage = "applied" /\ stage' = "applying" /\ num' = num + 1
    BY <1>5 DEF NextPatch
  <2>2. TreesTyped' BY <1>1, <2>1 DEF TreesTyped
  <2>3. StageTyped' BY <1>1, <2>1 DEF StageTyped, Stages, callVars, CallTyped
  <2>4. LeftOver'
    BY <1>1, <1>2, <1>3, <2>1 DEF PatcherInv, LeftOver, Current
  <2>5. OneEach' /\ Ready'
    BY <1>1, <1>3, <2>1 DEF PatcherInv, OneEach, Ready
  <2> QED BY <1>2, <1>3, <2>2, <2>3, <2>4, <2>5 DEF PatcherInv
<1>6. CASE PatchesEnd
  <2>1. stage = "applying" /\ stage' = "done" /\ num' = num
    BY <1>6 DEF PatchesEnd
  <2>2. TreesTyped' BY <1>1, <2>1 DEF TreesTyped
  <2>3. StageTyped' BY <1>1, <2>1 DEF StageTyped, Stages, callVars
  <2>4. LeftOver'
    BY <1>1, <1>2, <1>3, <2>1 DEF PatcherInv, LeftOver, Current
  <2>5. OneEach' /\ Ready'
    BY <1>1, <1>3, <2>1 DEF PatcherInv, OneEach, Ready
  <2> QED BY <1>2, <1>3, <2>2, <2>3, <2>4, <2>5 DEF PatcherInv
<1>7. CASE CallerFails \/ UNCHANGED patcherVars
  <2>1. stage' = stage /\ num' = num
    BY <1>7 DEF CallerFails, patcherVars
  <2>2. TreesTyped' BY <1>1, <2>1 DEF TreesTyped
  <2>3. StageTyped' BY <1>1, <2>1 DEF StageTyped, Stages, callVars
  <2>4. Current' = Current
    BY <1>1, <2>1 DEF Current, Nth, Changed, callVars
  <2>5. LeftOver'
    BY <1>1, <1>2, <1>3, <2>1, <2>4 DEF PatcherInv, LeftOver
  <2>6. OneEach'
    BY <1>1, <1>3, <2>1 DEF PatcherInv, OneEach
  <2>7. Ready'
    BY <1>1, <1>2, <1>3, <2>1
    DEF PatcherInv, Ready, Nth, Changed, Target, callVars
  <2> QED BY <1>2, <1>3, <2>2, <2>3, <2>5, <2>6, <2>7 DEF PatcherInv
<1> QED BY <1>4, <1>5, <1>6, <1>7

LEMMA PatcherStepOK ==
  ASSUME PatcherInv, interrupted' \in BOOLEAN,
         Call \/ CallerFails \/ Patching \/ UNCHANGED patcherVars
  PROVE  PatcherInv'
BY CallOK, ApplyOK, CommitOK, QuietOK DEF Patching

LEMMA InterruptedTyped ==
  ASSUME PatcherInv, [Call \/ CallerFails \/ Patching]_patcherVars
  PROVE  interrupted' \in BOOLEAN
BY DEF PatcherInv, CallTyped, Call, CallerFails, Patching, ApplySinglePatch,
       RefusePatch, CreateCommit, NextPatch, PatchesEnd, patcherVars

(* Between them these say what a failure leaves. *)
LEMMA LeftOverIsOnePatch == ASSUME PatcherInv PROVE OnePatchAtATime
BY DEF PatcherInv, InStep, LeftOver, Ours, EachCommitted, OnePatchAtATime,
       Dirty

-----------------------------------------------------------------------------
(* The inductive invariant: the state of Patcher and of the tree while it  *)
(* works, for any list of patches and any tree to start from.              *)
THEOREM PatcherInvariant == PatcherSpec => []PatcherInv
<1>1. PatcherInit => PatcherInv
  BY PatcherInitOK
<1>2. PatcherInv /\ [Call \/ CallerFails \/ Patching]_patcherVars => PatcherInv'
  BY PatcherStepOK, InterruptedTyped
<1> QED BY <1>1, <1>2, PTL DEF PatcherSpec

(* When patches are committed one by one, whatever fails in between leaves *)
(* the tree different from HEAD by at most the patch in hand, what was     *)
(* pending before, and binary files that were changed (Patcher.patch).     *)
THEOREM LeavesOnePatch == PatcherSpec => []OnePatchAtATime
<1>1. PatcherInv => OnePatchAtATime
  BY LeftOverIsOnePatch
<1> QED BY <1>1, PatcherInvariant, PTL

(* Each commit that apply_patches makes holds the patch of its turn, whole *)
(* and nothing else, in either direction.                                  *)
THEOREM CommitsAreWhole == PatcherSpec => []CommitsHoldPatches
<1>1. PatcherInv => CommitsHoldPatches
  BY DEF PatcherInv
<1> QED BY <1>1, PatcherInvariant, PTL
-----------------------------------------------------------------------------

Finding == {"options", "draft", "count", "diff", "fallback", "patches"}

CommandTyped ==
  /\ setup \in Setups
  /\ pc \in Finding \cup {"patching", "done", "failed"}
  /\ revision \in Nat \cup {None}
  /\ pc \in Finding => stage = "new"

ServerTyped ==
  /\ published \in Nat /\ draft \in {0, published + 1}
  /\ changes \in 0..MaxChanges
  /\ newest \subseteq Nat

(* What the command has learnt was the newest at some moment; before it    *)
(* counts, the newest it can see is a published one, or was.               *)
Latest ==
  /\ Newest(published, draft) \in newest
  /\ setup.diff_revision = None /\ ~interrupted =>
       /\ pc = "count" => published \in newest
       /\ pc \in {"diff", "patches"} \/ stage # "new" => revision \in newest

(* A text file with an unstaged edit is left alone, staged or not.         *)
EditsKept ==
  \A f \in File \ Binary :
    setup.work[f] # setup.index[f] =>
      work[f] = setup.work[f] /\ index[f] = setup.index[f]

PatchInv == CommandTyped /\ ServerTyped /\ Latest /\ EditsKept

otherVars == <<callVars, num, stage, head, index, work, pending>>

-----------------------------------------------------------------------------
LEMMA SetupTyped == ASSUME CommandTyped PROVE SetupType(setup)
BY PatchAssumption DEF CommandTyped

LEMMA PatchInitOK == ASSUME Init PROVE PatchInv /\ PatcherInit
<1>1. setup \in Setups /\ SetupType(setup)
  BY PatchAssumption DEF Init
<1>2. CommandTyped
  BY <1>1 DEF Init, CommandTyped, Finding, SetupType
<1>3. ServerTyped
  BY <1>1, PatchAssumption DEF Init, ServerTyped, SetupType, Newest
<1>4. Latest
  BY DEF Init, Latest
<1>5. EditsKept
  BY DEF Init, EditsKept
<1>6. PatcherInit
  <2>1. Committed = setup.head
    BY DEF Init, Committed
  <2>2. setup.head \in Tree /\ setup.index \in Tree /\ setup.work \in Tree
    BY <1>1 DEF SetupType
  <2>3. \E tree \in Tree : head = <<tree>>
    BY <2>2 DEF Init
  <2> QED BY <2>2, <2>3 DEF Init, PatcherInit, Dirty
<1> QED BY <1>2, <1>3, <1>4, <1>5, <1>6 DEF PatchInv

-----------------------------------------------------------------------------
(* The patches that the command makes *)
LEMMA PatchesTyped == ASSUME CommandTyped PROVE GetPatches \in Seq(PatchType)
<1> DEFINE history == setup.history
           last == Len(history)
           each == [i \in 1..(last - 1) |-> PatchOf(i, i + 1)]
<1>1. history \in Seq(Tree) /\ last \in Nat /\ last > 1
  BY SetupTyped DEF SetupType
<1>2. ASSUME NEW i \in 1..last, NEW j \in 1..last
      PROVE  PatchOf(i, j) \in PatchType
  <2>1. history[i] \in Tree /\ history[j] \in Tree
    BY <1>1, <1>2
  <2>2. Attached(history[i], history[j]) \in SUBSET Binary
    BY DEF Attached
  <2> QED BY <2>1, <2>2 DEF PatchOf, PatchType
<1>3. \A i \in 1..(last - 1) : i \in 1..last /\ i + 1 \in 1..last
  BY <1>1
<1>4. each \in Seq(PatchType)
  <2>1. \A i \in 1..(last - 1) : PatchOf(i, i + 1) \in PatchType
    BY <1>2, <1>3
  <2> HIDE DEF last
  <2>2. last - 1 \in Nat
    BY <1>1
  <2> QED BY <2>1, <2>2
<1>5. Reverse(each) \in Seq(PatchType)
  <2> HIDE DEF each
  <2>1. Reverse(each) = [i \in 1..Len(each) |-> each[(Len(each) - i) + 1]]
    BY DEF Reverse
  <2>2. \A i \in 1..Len(each) : (Len(each) - i) + 1 \in 1..Len(each)
    BY <1>4
  <2> QED BY <1>4, <2>1, <2>2
<1>6. <<PatchOf(1, last)>> \in Seq(PatchType)
  <2>1. 1 \in 1..last /\ last \in 1..last
    BY <1>1
  <2>2. PatchOf(1, last) \in PatchType
    BY <1>2, <2>1
  <2> QED BY <2>2
<1> QED BY <1>4, <1>5, <1>6 DEF GetPatches

-----------------------------------------------------------------------------
(* Steps of Patch, as the patcher sees them *)

Preparing ==
  CheckOptions \/ GetDraftDiff \/ CountDiffs \/ GetDiff \/ GetMatchingDraft

(* Until the patches are there the tree is not touched. *)
LEMMA PreparingLeavesTree ==
  ASSUME CommandTyped, Preparing,
         interrupted \in BOOLEAN
  PROVE  /\ stage = "new" /\ UNCHANGED otherVars /\ interrupted' \in BOOLEAN
         /\ UNCHANGED <<serverVars, setup>>
         /\ pc \in {"options", "draft", "count", "diff", "fallback"}
         /\ pc' \in {"draft", "count", "diff", "fallback", "patches", "failed"}
<1>1. CASE CheckOptions
  BY <1>1 DEF CommandTyped, CheckOptions, Abort, Goto, Finding, otherVars
<1>2. CASE GetDraftDiff
  BY <1>2 DEF CommandTyped, GetDraftDiff, FindDraft, Goto, Finding, otherVars
<1>3. CASE CountDiffs
  BY <1>3 DEF CommandTyped, CountDiffs, Abort, Goto, Finding, otherVars
<1>4. CASE GetDiff
  BY <1>4 DEF CommandTyped, GetDiff, Goto, Finding, otherVars
<1>5. CASE GetMatchingDraft
  BY <1>5 DEF CommandTyped, GetMatchingDraft, FindDraft, Goto, Finding,
              otherVars
<1> QED BY <1>1, <1>2, <1>3, <1>4, <1>5 DEF Preparing

LEMMA StepIsPatcherStep ==
  ASSUME CommandTyped, PatcherInv, [Next]_vars
  PROVE  [Call \/ CallerFails \/ Patching]_patcherVars
<1>0. interrupted \in BOOLEAN
  BY DEF PatcherInv, CallTyped
<1>1. CASE Preparing
  BY <1>0, <1>1, PreparingLeavesTree DEF CallerFails, otherVars
<1>2. CASE ApplyPatches
  <2>1. stage = "new"
    BY <1>2 DEF ApplyPatches, CommandTyped, Finding
  <2>2. /\ setup.revert_patch \in BOOLEAN /\ setup.squash \in BOOLEAN
        /\ setup.commit \in BOOLEAN /\ setup.commit_no_edit \in BOOLEAN
    BY SetupTyped DEF SetupType
  <2> DEFINE flags == [revert |-> setup.revert_patch,
                       squash |-> setup.squash,
                       commit |-> setup.commit \/ setup.commit_no_edit]
  <2>3. flags \in [revert : BOOLEAN, squash : BOOLEAN, commit : BOOLEAN]
    BY <2>2
  <2>4. CASE CallPatch(GetPatches, flags) /\ UNCHANGED interrupted
    <3> HIDE DEF flags
    <3> QED BY <2>3, <2>4, PatchesTyped DEF Call
  <2>5. CASE UNCHANGED otherVars /\ interrupted' = TRUE
    BY <2>1, <2>5 DEF CallerFails, otherVars
  <2> QED BY <1>2, <2>4, <2>5 DEF ApplyPatches, otherVars
<1>3. CASE PatchStep
  BY <1>3 DEF PatchStep
<1>4. CASE Exit \/ OwnerChanges \/ UNCHANGED vars
  BY <1>4 DEF Exit, OwnerChanges, vars
<1> QED BY <1>1, <1>2, <1>3, <1>4 DEF Next, Preparing

-----------------------------------------------------------------------------
(* The invariant, a conjunct at a time *)

LEMMA CommandTypedOK ==
  ASSUME CommandTyped, ServerTyped, PatcherInv, [Next]_vars
  PROVE  CommandTyped'
<1>0. interrupted \in BOOLEAN
  BY DEF PatcherInv, CallTyped
<1>1. CASE Preparing
  <2>1. stage' = "new" /\ setup' = setup
        /\ pc' \in Finding \cup {"patching", "done", "failed"}
    BY <1>0, <1>1, PreparingLeavesTree DEF Finding, otherVars
  <2>2. revision' \in Nat \cup {None}
    BY <1>1 DEF Preparing, CheckOptions, GetDraftDiff, CountDiffs, GetDiff,
                GetMatchingDraft, FindDraft, Abort, CommandTyped, ServerTyped
  <2> QED BY <2>1, <2>2 DEF CommandTyped
<1>2. CASE ApplyPatches
  BY <1>2 DEF ApplyPatches, Abort, Goto, CommandTyped, Finding
<1>3. CASE PatchStep
  BY <1>3 DEF PatchStep, CommandTyped, Finding
<1>4. CASE Exit
  BY <1>4 DEF Exit, Goto, CommandTyped, Finding, patcherVars
<1>5. CASE OwnerChanges \/ UNCHANGED vars
  BY <1>5 DEF OwnerChanges, vars, CommandTyped, Finding, patcherVars
<1> QED BY <1>1, <1>2, <1>3, <1>4, <1>5 DEF Next, Preparing

LEMMA ServerTypedOK ==
  ASSUME CommandTyped, ServerTyped, [Next]_vars
  PROVE  ServerTyped'
<1>1. CASE OwnerChanges
  <2>1. published' \in Nat /\ draft' \in {0, published' + 1}
    BY <1>1 DEF OwnerChanges, ServerTyped
  <2>2. changes' \in 0..MaxChanges
    BY <1>1, PatchAssumption DEF OwnerChanges, ServerTyped
  <2>3. newest' \subseteq Nat
    BY <1>1, <2>1 DEF OwnerChanges, ServerTyped, Newest
  <2> QED BY <2>1, <2>2, <2>3 DEF ServerTyped
<1>2. CASE UNCHANGED serverVars
  BY <1>2 DEF ServerTyped, serverVars
<1>3. OwnerChanges \/ UNCHANGED serverVars
  BY DEF Next, vars, CheckOptions, GetDraftDiff, CountDiffs, GetDiff,
         GetMatchingDraft, ApplyPatches, PatchStep, Exit
<1> QED BY <1>1, <1>2, <1>3

(* The owner publishes what was the newest for those who see drafts; for   *)
(* the others it becomes the newest by being published.                    *)
LEMMA LatestOK ==
  ASSUME CommandTyped, ServerTyped, Latest, PatcherInv, [Next]_vars
  PROVE  Latest'
<1>0. interrupted \in BOOLEAN /\ SetupType(setup)
  BY SetupTyped DEF PatcherInv, CallTyped
<1> USE DEF Latest
<1>1. CASE CheckOptions
  BY <1>1 DEF CheckOptions, Goto, Abort, serverVars, patcherVars, CommandTyped,
              Finding, Newest
<1>2. CASE GetDraftDiff
  BY <1>0, <1>2 DEF GetDraftDiff, FindDraft, Goto, serverVars, CommandTyped,
                    Finding, Newest, SetupType, ServerTyped
<1>3. CASE CountDiffs
  BY <1>3 DEF CountDiffs, Goto, Abort, serverVars, CommandTyped, Finding,
              Newest
<1>4. CASE GetDiff
  BY <1>0, <1>4 DEF GetDiff, Goto, serverVars, CommandTyped, Finding, Newest
<1>5. CASE GetMatchingDraft
  BY <1>0, <1>5 DEF GetMatchingDraft, FindDraft, Goto, serverVars,
                    CommandTyped, Finding, Newest, SetupType, ServerTyped
<1>6. CASE ApplyPatches
  BY <1>6 DEF ApplyPatches, CallPatch, Goto, Abort, serverVars, CommandTyped,
              Finding, Newest
<1>7. CASE PatchStep
  <2>1. stage # "new" /\ (interrupted' = FALSE => interrupted = FALSE)
    BY <1>0, <1>7 DEF PatchStep, Patching, ApplySinglePatch, RefusePatch,
                      CreateCommit, NextPatch, PatchesEnd
  <2>2. interrupted' \in BOOLEAN
    BY <1>0, <1>7 DEF PatchStep, Patching, ApplySinglePatch, RefusePatch,
                      CreateCommit, NextPatch, PatchesEnd
  <2> QED BY <1>0, <1>7, <2>1, <2>2 DEF PatchStep, serverVars, Newest
<1>8. CASE Exit
  BY <1>8 DEF Exit, Goto, serverVars, patcherVars, Newest
<1>9. CASE OwnerChanges
  BY <1>9 DEF OwnerChanges, patcherVars, Newest, ServerTyped
<1>10. CASE UNCHANGED vars
  BY <1>10 DEF vars, serverVars, patcherVars, Newest
<1> QED
  BY <1>1, <1>2, <1>3, <1>4, <1>5, <1>6, <1>7, <1>8, <1>9, <1>10 DEF Next

(* Only apply_single_patch writes files, and not those out of step.        *)
LEMMA EditsKeptOK ==
  ASSUME CommandTyped, PatcherInv, EditsKept, [Next]_vars
  PROVE  EditsKept'
<1>0. interrupted \in BOOLEAN /\ StageTyped /\ CallTyped
  BY DEF PatcherInv, CallTyped
<1>1. setup' = setup
  BY DEF Next, vars, CheckOptions, GetDraftDiff, CountDiffs, GetDiff,
         GetMatchingDraft, ApplyPatches, PatchStep, Exit, OwnerChanges
<1>2. CASE PatchStep /\ num <= Len(patches)
           /\ \E downloaded \in SUBSET Nth(num).attached :
                ApplySinglePatch(downloaded)
  <2>1. PICK downloaded \in SUBSET Nth(num).attached :
          ApplySinglePatch(downloaded)
    BY <1>2
  <2> DEFINE p == Nth(num)
  <2>2. /\ InSync(p)
        /\ index' = [f \in File |->
                       IF f \in Text(p) THEN Merged(p, f)
                       ELSE IF f \in Staged(p, downloaded) THEN Target(p)[f]
                       ELSE index[f]]
        /\ work' = [f \in File |->
                      IF f \in Text(p) THEN Merged(p, f)
                      ELSE IF f \in Removed(p) \cup Written(p, downloaded)
                        THEN Target(p)[f]
                      ELSE work[f]]
    BY <2>1 DEF ApplySinglePatch
  <2>3. Staged(p, downloaded) \subseteq Binary
        /\ Removed(p) \cup Written(p, downloaded) \subseteq Binary
    BY DEF Staged, Removed, Written, Deleted, Added, Modified
  <2> HIDE DEF p
  <2>4. ASSUME NEW f \in File \ Binary, setup.work[f] # setup.index[f]
        PROVE  work'[f] = setup.work[f] /\ index'[f] = setup.index[f]
    <3>1. work[f] = setup.work[f] /\ index[f] = setup.index[f]
      BY <2>4 DEF EditsKept
    <3>2. f \notin Text(p)
      BY <2>2, <2>4, <3>1 DEF InSync
    <3> QED BY <2>2, <2>3, <3>1, <3>2
  <2> QED BY <1>1, <2>4 DEF EditsKept
<1>3. CASE UNCHANGED <<index, work>>
  BY <1>1, <1>3 DEF EditsKept
<1>4. PatchStep => \/ /\ num <= Len(patches)
                      /\ \E downloaded \in SUBSET Nth(num).attached :
                           ApplySinglePatch(downloaded)
                   \/ UNCHANGED <<index, work>>
  BY DEF PatchStep, Patching, RefusePatch, CreateCommit, NextPatch, PatchesEnd
<1>5. PatchStep \/ UNCHANGED <<index, work>>
  BY DEF Next, vars, patcherVars, CheckOptions, GetDraftDiff, CountDiffs,
         GetDiff, GetMatchingDraft, ApplyPatches, CallPatch, Exit, OwnerChanges
<1> QED BY <1>2, <1>3, <1>4, <1>5

-----------------------------------------------------------------------------
(* The tree along the history.  The command hands the patcher the patches  *)
(* that GetPatches makes, and each starts where the one before it ends.    *)

Made ==
  IF stage = "new"
  THEN /\ num = 1 /\ revert = FALSE
       /\ head = <<setup.head>> /\ index = setup.index /\ work = setup.work
  ELSE /\ patches = GetPatches
       /\ revert = setup.revert_patch /\ squash = setup.squash

(* The tree after n patches.  A binary file has been changed once at most, *)
(* and until then nothing has touched it.                                  *)
Stands(tree, n) ==
  /\ \A f \in File \ Binary : index[f] = tree[f] /\ work[f] = tree[f]
  /\ \A f \in Binary :
       (\A i \in 1..n : f \notin Changed(patches[i])) =>
         index[f] = tree[f] /\ work[f] = tree[f] /\ Committed[f] = tree[f]

NothingStaged == commit => index = Committed

FromBase ==
  ~interrupted /\ ~revert /\ StartsFrom(setup.history[1]) /\ Plain

Follows ==
  FromBase =>
    /\ stage # "failed"
    /\ stage = "applying" /\ num <= Len(patches) =>
         Stands(patches[num].from, num - 1) /\ NothingStaged
    /\ stage = "committing" =>
         Stands(patches[num].to, num) /\ index # Committed
    /\ stage = "applied" => Stands(patches[num].to, num) /\ NothingStaged

-----------------------------------------------------------------------------
(* The list: it starts at the base, is a chain, and has an attachment for  *)
(* each binary file that is written.                                       *)
IsChain(list) ==
  /\ Len(list) \in Nat \ {0}
  /\ list[1].from = setup.history[1]
  /\ \A i \in 1..(Len(list) - 1) : list[i + 1].from = list[i].to
  /\ \A i \in 1..Len(list) : \A f \in Binary :
       list[i].from[f] # list[i].to[f] /\ list[i].to[f] # Absent =>
         f \in list[i].attached

Listed == IsChain(patches) /\ (squash => Len(patches) = 1)

LEMMA GetPatchesChains ==
  ASSUME CommandTyped, ~setup.revert_patch
  PROVE  IsChain(GetPatches) /\ (setup.squash => Len(GetPatches) = 1)
<1> DEFINE history == setup.history
           last == Len(history)
           each == [i \in 1..(last - 1) |-> PatchOf(i, i + 1)]
<1>1. history \in Seq(Tree) /\ last \in Nat /\ last > 1
  BY SetupTyped DEF SetupType
<1>2. \A i, j : /\ PatchOf(i, j).from = history[i]
                /\ PatchOf(i, j).to = history[j]
                /\ PatchOf(i, j).attached = Attached(history[i], history[j])
  BY DEF PatchOf
<1>3. \A i, j : \A f \in Binary :
        /\ PatchOf(i, j).from[f] # PatchOf(i, j).to[f]
        /\ PatchOf(i, j).to[f] # Absent
        => f \in PatchOf(i, j).attached
  BY <1>2 DEF Attached
<1>4. \/ GetPatches = <<PatchOf(1, last)>>
      \/ GetPatches = each /\ ~setup.squash
  BY DEF GetPatches
<1>5. CASE GetPatches = <<PatchOf(1, last)>>
  <2>1. Len(GetPatches) = 1 /\ GetPatches[1] = PatchOf(1, last)
    BY <1>5
  <2> HIDE DEF last
  <2> QED BY <2>1, <1>2, <1>3 DEF IsChain
<1>6. CASE GetPatches = each /\ ~setup.squash
  <2> HIDE DEF last
  <2>1. Len(GetPatches) = last - 1
    BY <1>1, <1>6
  <2>2. \A i \in 1..(last - 1) : GetPatches[i] = PatchOf(i, i + 1)
    BY <1>6
  <2>3. GetPatches[1].from = history[1]
    BY <1>1, <1>2, <2>2
  <2>4. ASSUME NEW i \in 1..(Len(GetPatches) - 1)
        PROVE  GetPatches[i + 1].from = GetPatches[i].to
    <3>1. i \in 1..(last - 1) /\ i + 1 \in 1..(last - 1)
      BY <1>1, <2>1
    <3> QED BY <1>2, <2>2, <3>1
  <2>5. ASSUME NEW i \in 1..Len(GetPatches), NEW f \in Binary,
               GetPatches[i].from[f] # GetPatches[i].to[f],
               GetPatches[i].to[f] # Absent
        PROVE  f \in GetPatches[i].attached
    <3>1. GetPatches[i] = PatchOf(i, i + 1)
      BY <2>1, <2>2
    <3> QED BY <1>3, <2>5, <3>1
  <2> HIDE DEF each
  <2>6. IsChain(GetPatches)
    BY <1>1, <2>1, <2>3, <2>4, <2>5 DEF IsChain
  <2> QED BY <1>6, <2>6
<1> QED BY <1>4, <1>5, <1>6

LEMMA ListIsChain ==
  ASSUME CommandTyped, Made, stage # "new", ~revert
  PROVE  Listed
BY GetPatchesChains DEF Made, Listed

LEMMA MadeOK ==
  ASSUME CommandTyped, Made, PatcherInv, [Next]_vars
  PROVE  Made'
<1>0. interrupted \in BOOLEAN
  BY DEF PatcherInv, CallTyped
<1>1. setup' = setup
  BY DEF Next, vars, CheckOptions, GetDraftDiff, CountDiffs, GetDiff,
         GetMatchingDraft, ApplyPatches, PatchStep, Exit, OwnerChanges
<1>2. CASE UNCHANGED otherVars
  BY <1>1, <1>2 DEF Made, otherVars, callVars, GetPatches, PatchOf, Attached
<1>3. CASE ApplyPatches
  <2>1. CASE CallPatch(GetPatches,
                       [revert |-> setup.revert_patch,
                        squash |-> setup.squash,
                        commit |-> setup.commit \/ setup.commit_no_edit])
    BY <1>1, <2>1 DEF CallPatch, Made, GetPatches, PatchOf, Attached
  <2> QED BY <1>2, <1>3, <2>1 DEF ApplyPatches, otherVars
<1>4. CASE PatchStep
  <2>1. stage # "new" /\ stage' # "new" /\ UNCHANGED callVars
    BY <1>4 DEF PatchStep, Patching, ApplySinglePatch, RefusePatch,
                CreateCommit, NextPatch, PatchesEnd
  <2> QED BY <1>1, <2>1 DEF Made, callVars, GetPatches, PatchOf, Attached
<1>5. CASE Exit \/ OwnerChanges \/ UNCHANGED vars
  BY <1>2, <1>5 DEF Exit, OwnerChanges, vars, patcherVars, otherVars
<1> QED
  BY <1>0, <1>2, <1>3, <1>4, <1>5, PreparingLeavesTree DEF Next, Preparing

-----------------------------------------------------------------------------
(* The next step finds what the last one left.                             *)

(* A patch that starts from the tree as it stands applies: every text file *)
(* merges, what is deleted is as HEAD has it, and the rest is downloaded.  *)
LEMMA PatchFits ==
  ASSUME PatcherInv, Listed, ~revert, num <= Len(patches),
         Stands(patches[num].from, num - 1), Plain
  PROVE  /\ \A f \in Text(Nth(num)) :
              Merges(Nth(num), f) /\ work[f] = index[f]
                                  /\ index[f] = Source(Nth(num))[f]
         /\ Success(Nth(num), Nth(num).attached)
         /\ \A f \in Changed(Nth(num)) \cap Binary :
              index[f] = Source(Nth(num))[f]
<1> DEFINE p == patches[num]
<1>1. Nth(num) = p /\ Source(p) = p.from /\ Target(p) = p.to
  BY DEF Nth, Source, Target
<1>2. num \in 1..Len(patches)
  BY DEF PatcherInv, StageTyped, Listed, IsChain
<1>3. \A f \in Binary : f \in Changed(p) =>
        \A i \in 1..(num - 1) : f \notin Changed(patches[i])
  <2> SUFFICES ASSUME NEW f \in Binary, f \in Changed(p),
                      NEW i \in 1..(num - 1)
               PROVE  f \notin Changed(patches[i])
    OBVIOUS
  <2>1. i \in 1..Len(patches) /\ i # num
    BY <1>2 DEF Listed, IsChain
  <2> QED BY <1>2, <2>1 DEF Plain
<1> HIDE DEF p
<1>4. Stands(p.from, num - 1)
  BY DEF p
<1>5. \A f \in Changed(p) \cap Binary :
        index[f] = p.from[f] /\ work[f] = p.from[f] /\ Committed[f] = p.from[f]
  BY <1>3, <1>4 DEF Stands
<1>6. \A f \in Text(p) : work[f] = p.from[f] /\ index[f] = p.from[f]
  BY <1>4 DEF Stands, Text, Changed
<1>7. \A f \in Binary : p.from[f] # p.to[f] /\ p.to[f] # Absent =>
        f \in p.attached
  BY <1>2 DEF Listed, IsChain, p
<1>8. Removed(p) = Deleted(p)
  BY <1>1, <1>5 DEF Removed, Deleted, Removable, Changed
<1>9. Written(p, p.attached) = Added(p) \cup Modified(p)
  BY <1>1, <1>7 DEF Written, Added, Modified, Deleted, Changed
<1>10. Changed(p) \cap Binary = Removed(p) \cup Written(p, p.attached)
  BY <1>8, <1>9 DEF Modified, Added, Deleted
<1>11. \A f \in Text(p) : Merges(p, f)
  BY <1>1, <1>6 DEF Merges
<1> QED BY <1>1, <1>5, <1>6, <1>10, <1>11 DEF Success

(* It leaves the tree as the next patch expects it.                        *)
LEMMA PatchLeads ==
  ASSUME PatcherInv, Listed, ~revert, num <= Len(patches), Plain,
         Stands(patches[num].from, num - 1), NothingStaged,
         ApplySinglePatch(Nth(num).attached)
  PROVE  /\ Stands(patches[num].to, num)'
         /\ stage' = IF commit THEN "committing" ELSE "applied"
         /\ commit => index' # Committed'
<1> DEFINE p == patches[num]
<1>1. Nth(num) = p /\ Source(p) = p.from /\ Target(p) = p.to
  BY DEF Nth, Source, Target
<1>2. num \in 1..Len(patches) /\ p \in PatchType
  BY DEF PatcherInv, StageTyped, CallTyped, Listed, IsChain
<1>3. p.from \in Tree /\ p.to \in Tree
  BY <1>2 DEF PatchType
<1> HIDE DEF p
<1>4. /\ \A f \in Text(p) : Merges(p, f)
      /\ Success(p, p.attached)
      /\ \A f \in Changed(p) : index[f] = p.from[f]
  BY <1>1, PatchFits DEF Text, p
<1>5. /\ index' = [f \in File |->
                     IF f \in Text(p) THEN Merged(p, f)
                     ELSE IF f \in Staged(p, p.attached) THEN Target(p)[f]
                     ELSE index[f]]
      /\ work' = [f \in File |->
                    IF f \in Text(p) THEN Merged(p, f)
                    ELSE IF f \in Removed(p) \cup Written(p, p.attached)
                      THEN Target(p)[f]
                    ELSE work[f]]
      /\ stage' = IF ~Success(p, p.attached) THEN "failed"
                  ELSE IF CommitsNow THEN "committing" ELSE "applied"
      /\ UNCHANGED <<callVars, num, head>>
  BY <1>1 DEF ApplySinglePatch
<1>6. /\ Staged(p, p.attached) \subseteq Binary
      /\ Removed(p) \cup Written(p, p.attached) \subseteq Changed(p) \cap Binary
      /\ Staged(p, p.attached) \subseteq Changed(p)
  BY DEF Staged, Removed, Written, Deleted, Added, Modified
<1>7. \A f \in Text(p) : Merged(p, f) = p.to[f]
  BY <1>1, <1>4 DEF Merged
<1>8. \A f \in File \ Binary : index'[f] = p.to[f] /\ work'[f] = p.to[f]
  <2> SUFFICES ASSUME NEW f \in File \ Binary
               PROVE  index'[f] = p.to[f] /\ work'[f] = p.to[f]
    OBVIOUS
  <2>1. CASE f \in Text(p)
    BY <1>5, <1>7, <2>1
  <2>2. CASE f \notin Text(p)
    <3>1. index[f] = p.from[f] /\ work[f] = p.from[f] /\ p.from[f] = p.to[f]
      BY <2>2 DEF Stands, Text, Changed, p
    <3>2. index'[f] = index[f] /\ work'[f] = work[f]
      BY <1>5, <1>6, <2>2
    <3> QED BY <3>1, <3>2
  <2> QED BY <2>1, <2>2
<1>9. ASSUME NEW f \in Binary,
             \A i \in 1..num : f \notin Changed(patches[i])
      PROVE  index'[f] = p.to[f] /\ work'[f] = p.to[f] /\ Committed[f] = p.to[f]
  <2>1. f \in File
    BY PatcherAssumption
  <2>2. f \notin Changed(p) /\ \A i \in 1..(num - 1) : f \notin Changed(patches[i])
    BY <1>2, <1>9 DEF p
  <2>3. index[f] = p.from[f] /\ work[f] = p.from[f] /\ Committed[f] = p.from[f]
        /\ p.from[f] = p.to[f]
    BY <2>1, <2>2 DEF Stands, Changed, p
  <2>4. index'[f] = index[f] /\ work'[f] = work[f]
    BY <1>5, <1>6, <2>1, <2>2 DEF Text
  <2> QED BY <2>3, <2>4
<1>10. Committed' = Committed
  BY <1>5 DEF Committed
<1>11. Stands(patches[num].to, num)'
  <2>1. patches' = patches /\ num' = num
    BY <1>5 DEF callVars
  <2>2. (patches[num].to)' = p.to
    BY <2>1 DEF p
  <2>3. \A f \in Binary :
          (\A i \in 1..num' : f \notin Changed(patches[i])') =>
            index'[f] = p.to[f] /\ work'[f] = p.to[f] /\ Committed'[f] = p.to[f]
    BY <1>9, <1>10, <2>1 DEF Changed
  <2> QED BY <1>8, <2>2, <2>3 DEF Stands
<1>12. CommitsNow = commit
  <2>1. commit \in BOOLEAN /\ squash \in BOOLEAN
    BY DEF PatcherInv, CallTyped
  <2>2. ASSUME squash PROVE num = Len(patches)
    <3>1. Len(patches) = 1
      BY <2>2 DEF Listed
    <3> QED BY <1>2, <3>1
  <2> QED BY <2>1, <2>2 DEF CommitsNow
<1>13. stage' = IF commit THEN "committing" ELSE "applied"
  BY <1>4, <1>5, <1>12
<1>14. ASSUME commit PROVE index' # Committed'
  <2>1. Changed(p) # Modified(p)
    BY <1>2, <1>14 DEF Plain, p
  <2>2. PICK f \in Changed(p) : f \notin Modified(p)
    BY <2>1 DEF Modified
  <2>3. f \in File /\ p.from[f] # p.to[f] /\ index[f] = p.from[f]
    BY <1>4, <2>2 DEF Changed
  <2>4. Success(p, p.attached)
    BY <1>4
  <2>5. f \in Text(p) \cup Staged(p, p.attached)
    BY <2>2, <2>4 DEF Success, Text, Staged, Modified, Written
  <2>6. index'[f] = p.to[f]
    BY <1>1, <1>5, <1>7, <2>3, <2>5
  <2>7. index = Committed
    BY <1>14 DEF NothingStaged
  <2> QED BY <1>10, <2>3, <2>6, <2>7
<1> QED BY <1>11, <1>13, <1>14

LEMMA FromBaseBefore ==
  ASSUME PatcherInv, Patching, FromBase', setup' = setup
  PROVE  FromBase /\ callVars' = callVars
<1>1. callVars' = callVars /\ (interrupted' = FALSE => interrupted = FALSE)
  BY DEF Patching, ApplySinglePatch, RefusePatch, CreateCommit, NextPatch,
         PatchesEnd, PatcherInv, CallTyped
<1>2. interrupted' \in BOOLEAN
  BY DEF Patching, ApplySinglePatch, RefusePatch, CreateCommit, NextPatch,
         PatchesEnd, PatcherInv, CallTyped
<1> QED
  BY <1>1, <1>2 DEF FromBase, callVars, StartsFrom, Plain, Changed, Modified,
                    Deleted, Added, Source, Target

LEMMA FollowsOK ==
  ASSUME CommandTyped, Made, PatcherInv, Follows, [Next]_vars
  PROVE  Follows'
<1>0. /\ setup' = setup
      /\ num \in Nat \ {0} /\ patches \in Seq(PatchType)
  BY DEF Next, vars, CheckOptions, GetDraftDiff, CountDiffs, GetDiff,
         GetMatchingDraft, ApplyPatches, PatchStep, Exit, OwnerChanges,
         PatcherInv, StageTyped, CallTyped
<1>1. CASE stage' = "new"
  BY <1>1 DEF Follows
<1>2. CASE ApplyPatches /\ stage' # "new"
  <2>1. stage = "new"
    BY <1>2 DEF ApplyPatches, CommandTyped, Finding
  <2>2. /\ stage' = "applying" /\ UNCHANGED <<num, head, index, work>>
    BY <1>2, <2>1 DEF ApplyPatches, CallPatch
  <2>4. CASE ~FromBase'
    BY <2>4 DEF Follows
  <2>5. CASE FromBase'
    <3>1. /\ patches' = GetPatches /\ ~setup.revert_patch
      BY <1>2, <2>1, <2>2, <2>5 DEF ApplyPatches, CallPatch, FromBase
    <3>2. num' = 1 /\ patches'[1].from = setup.history[1]
      BY <2>1, <2>2, <3>1, GetPatchesChains DEF Made, IsChain
    <3>3. /\ index' = setup.history[1] /\ work' = setup.history[1]
          /\ Committed' = setup.history[1]
      <4>1. /\ setup.head = setup.history[1] /\ setup.index = setup.history[1]
            /\ setup.work = setup.history[1]
        BY <1>0, <2>5 DEF FromBase, StartsFrom
      <4>2. head' = <<setup.head>> /\ index' = setup.index /\ work' = setup.work
        BY <2>1, <2>2 DEF Made
      <4>3. Committed' = setup.head
        BY <4>2 DEF Committed
      <4> QED BY <4>1, <4>2, <4>3
    <3>4. (Stands(patches[num].from, num - 1))' /\ NothingStaged'
      BY <3>2, <3>3 DEF Stands, NothingStaged
    <3> QED BY <2>2, <3>4 DEF Follows
  <2> QED BY <2>4, <2>5
<1>3. CASE PatchStep /\ FromBase'
  <2>1. Patching /\ FromBase /\ callVars' = callVars
    BY <1>0, <1>3, FromBaseBefore DEF PatchStep
  <2>2. stage # "new"
    BY <2>1 DEF Patching, ApplySinglePatch, RefusePatch, CreateCommit,
                NextPatch, PatchesEnd
  <2>3. ~revert /\ Plain /\ Listed
    BY <2>1, <2>2, ListIsChain DEF FromBase
  <2>4. ~interrupted' /\ patches' = patches
    BY <1>3, <2>1 DEF FromBase, callVars
  <2>5. CASE /\ num <= Len(patches)
             /\ \E downloaded \in SUBSET Nth(num).attached :
                  ApplySinglePatch(downloaded)
    <3>1. PICK downloaded \in SUBSET Nth(num).attached :
            ApplySinglePatch(downloaded)
      BY <2>5
    <3>2. downloaded = Nth(num).attached /\ stage = "applying"
      BY <2>4, <3>1 DEF ApplySinglePatch
    <3>3. ApplySinglePatch(Nth(num).attached)
      BY <3>1, <3>2
    <3>4. Stands(patches[num].from, num - 1) /\ NothingStaged
      BY <2>1, <2>5, <3>2 DEF Follows
    <3>5. /\ Stands(patches[num].to, num)'
          /\ stage' = IF commit THEN "committing" ELSE "applied"
          /\ commit => index' # Committed'
      BY <2>3, <2>5, <3>3, <3>4, PatchLeads
    <3>6. commit' = commit
      BY <2>1 DEF callVars
    <3> QED BY <3>5, <3>6 DEF Follows, NothingStaged
  <2>6. CASE RefusePatch
    <3>1. /\ stage = "applying" /\ num <= Len(patches)
          /\ \E f \in Text(Nth(num)) :
               work[f] # index[f] \/ index[f] # Source(Nth(num))[f]
      BY <2>6 DEF RefusePatch
    <3>2. Stands(patches[num].from, num - 1)
      BY <2>1, <3>1 DEF Follows
    <3> QED BY <2>3, <3>1, <3>2, PatchFits
  <2>7. CASE CreateCommit
    <3>1. /\ Stands(patches[num].to, num) /\ index # Committed
          /\ UNCHANGED <<callVars, num, index, work>>
      BY <2>1, <2>7 DEF Follows, CreateCommit
    <3>2. head' = Append(head, index) /\ stage' = "applied"
      BY <2>4, <2>7, <3>1 DEF CreateCommit
    <3>3. Committed' = index
      BY <3>2 DEF Committed, PatcherInv, TreesTyped
    <3>4. Stands(patches[num].to, num)'
      BY <2>4, <3>1, <3>3 DEF Stands, Changed
    <3>5. NothingStaged'
      BY <3>1, <3>3 DEF NothingStaged
    <3> QED BY <3>2, <3>4, <3>5 DEF Follows
  <2>8. CASE NextPatch
    <3>1. /\ Stands(patches[num].to, num) /\ NothingStaged
          /\ num' = num + 1 /\ stage' = "applying"
          /\ UNCHANGED <<callVars, head, index, work>>
      BY <2>1, <2>8 DEF Follows, NextPatch
    <3>2. NothingStaged'
      BY <3>1 DEF NothingStaged, Committed, callVars
    <3>3. CASE num + 1 <= Len(patches)
      <4>1. num \in 1..(Len(patches) - 1)
        BY <1>0, <3>3
      <4>2. patches[num + 1].from = patches[num].to
        BY <2>3, <4>1 DEF Listed, IsChain
      <4>3. num' - 1 = num
        BY <1>0, <3>1
      <4>4. (patches[num].from)' = patches[num].to
        BY <2>4, <3>1, <4>2
      <4>5. Committed' = Committed
        BY <3>1 DEF Committed
      <4>6. (Stands(patches[num].from, num - 1))'
        BY <2>4, <3>1, <4>3, <4>4, <4>5 DEF Stands, Changed
      <4> QED BY <3>1, <3>2, <4>6 DEF Follows
    <3>4. CASE ~(num + 1 <= Len(patches))
      BY <2>4, <3>1, <3>4 DEF Follows
    <3> QED BY <3>3, <3>4
  <2>9. CASE PatchesEnd
    BY <2>9 DEF PatchesEnd, Follows
  <2> QED BY <2>1, <2>5, <2>6, <2>7, <2>8, <2>9 DEF Patching
<1>4. CASE UNCHANGED patcherVars
  BY <1>0, <1>4
  DEF Follows, FromBase, patcherVars, callVars, StartsFrom, Plain, Changed,
      Modified, Deleted, Added, Source, Target, Stands, NothingStaged,
      Committed
<1>5. CASE Preparing
  <2>1. stage' = "new"
    BY <1>5, PreparingLeavesTree DEF otherVars, PatcherInv, CallTyped
  <2> QED BY <1>1, <2>1
<1>6. CASE ~FromBase'
  BY <1>6 DEF Follows
<1> QED
  BY <1>1, <1>2, <1>3, <1>4, <1>5, <1>6
  DEF Next, Preparing, Exit, OwnerChanges, vars

-----------------------------------------------------------------------------
(* Where the contents of the index and of the commits come from.           *)

Underway == pc \notin {"options", "done", "failed"}

Apart ==
  /\ Underway /\ stage # "failed" =>
       \A f \in File : index[f] \in MayCommit(f)
  /\ \A i \in 1..Len(head), f \in File : head[i][f] \in MayCommit(f)

LEMMA MayCommitKept ==
  ASSUME setup' = setup, interrupted => interrupted',
         callVars' = callVars \/ patches = <<>>
  PROVE  \A f \in File : MayCommit(f) \subseteq MayCommit(f)'
<1>1. CASE callVars' = callVars
  BY <1>1 DEF MayCommit, callVars, Changed, Target
<1>2. CASE patches = <<>>
  BY <1>2 DEF MayCommit
<1> QED BY <1>1, <1>2

LEMMA ApartKept ==
  ASSUME Apart, setup' = setup, interrupted => interrupted',
         callVars' = callVars \/ patches = <<>>, UNCHANGED <<head, index>>,
         Underway' /\ stage' # "failed" => Underway /\ stage # "failed"
  PROVE  Apart'
BY MayCommitKept DEF Apart

(* Pending changes have been found, or the index is as HEAD has it.        *)
LEMMA CheckedOptions ==
  ASSUME CommandTyped, Made, CheckOptions, Underway'
  PROVE  \A f \in File : index[f] \in MayCommit(f)'
<1>0. pc = "options" /\ stage = "new" /\ setup' = setup
  BY DEF CheckOptions, CommandTyped, Finding
<1>1. index = setup.index /\ Committed = setup.head
  <2>1. index = setup.index /\ head = <<setup.head>>
    BY <1>0 DEF Made
  <2>2. Len(head) = 1 /\ head[1] = setup.head
    BY <2>1
  <2> QED BY <2>1, <2>2 DEF Committed
<1>2. ~(setup.commit => interrupted') => ~HasPendingChanges
  BY DEF CheckOptions, Abort, Goto, Underway
<1>3. ~HasPendingChanges => \A f \in File : index[f] = setup.head[f]
  BY <1>1 DEF HasPendingChanges
<1> QED BY <1>0, <1>1, <1>2, <1>3 DEF MayCommit

(* A patch that applies puts its own contents in the index.                *)
LEMMA AppliedApart ==
  ASSUME PatcherInv, Apart, Underway, setup' = setup, num <= Len(patches),
         NEW downloaded, ApplySinglePatch(downloaded)
  PROVE  Apart'
<1> DEFINE p == Nth(num)
<1>0. /\ TreesTyped /\ StageTyped /\ CallTyped /\ stage = "applying"
      /\ callVars' = callVars /\ head' = head
      /\ interrupted => interrupted'
  BY DEF PatcherInv, ApplySinglePatch
<1>1. /\ \A f \in File \ Changed(p) : index'[f] = index[f]
      /\ index' = [f \in File |->
                     IF f \in Text(p) THEN Merged(p, f)
                     ELSE IF f \in Staged(p, downloaded) THEN Target(p)[f]
                     ELSE index[f]]
      /\ stage' # "failed" => \A f \in Text(p) : Merged(p, f) = Target(p)[f]
  BY <1>0, PatchEffect DEF ApplySinglePatch, Success, Merged
<1>2. \A f \in File : MayCommit(f) \subseteq MayCommit(f)'
  BY <1>0, MayCommitKept
<1>3. \A f \in Changed(p) : Target(p)[f] \in MayCommit(f)
  <2>1. PICK k \in 1..Len(patches) : p = patches[k]
    BY <1>0, NthInList DEF StageTyped
  <2> QED BY <2>1 DEF MayCommit
<1> HIDE DEF p
<1>4. ASSUME stage' # "failed", NEW f \in File
      PROVE  index'[f] \in MayCommit(f)'
  <2>1. index[f] \in MayCommit(f)
    BY <1>0 DEF Apart
  <2>2. \/ index'[f] = index[f]
        \/ f \in Changed(p) /\ index'[f] = Target(p)[f]
    BY <1>1, <1>4
  <2> QED BY <1>2, <1>3, <2>1, <2>2 DEF Changed
<1>5. \A i \in 1..Len(head'), f \in File : head'[i][f] \in MayCommit(f)'
  BY <1>0, <1>2 DEF Apart
<1> QED BY <1>4, <1>5 DEF Apart

(* A commit takes the index as it is.                                      *)
LEMMA CommittedApart ==
  ASSUME PatcherInv, Apart, Underway, Underway', setup' = setup, CreateCommit
  PROVE  Apart'
<1>1. /\ callVars' = callVars /\ index' = index /\ stage = "committing"
      /\ interrupted => interrupted' /\ head \in Seq(Tree)
      /\ index \in Tree
  BY DEF CreateCommit, PatcherInv, TreesTyped, CallTyped
<1>2. CASE head' = head
  BY <1>1, <1>2, ApartKept
<1>3. CASE head' = Append(head, index)
  <2>1. \A f \in File : MayCommit(f) \subseteq MayCommit(f)'
    BY <1>1, MayCommitKept
  <2>2. \A f \in File : index[f] \in MayCommit(f)
    BY <1>1 DEF Apart
  <2>3. \A i \in 1..Len(head') : head'[i] = index \/ \E j \in 1..Len(head) :
                                                     head'[i] = head[j]
    BY <1>1, <1>3
  <2>4. \A i \in 1..Len(head'), f \in File : head'[i][f] \in MayCommit(f)'
    BY <2>1, <2>2, <2>3 DEF Apart
  <2> QED BY <1>1, <2>1, <2>2, <2>4 DEF Apart
<1> QED BY <1>2, <1>3 DEF CreateCommit

LEMMA ApartOK ==
  ASSUME CommandTyped, Made, PatcherInv, Apart, [Next]_vars
  PROVE  Apart'
<1>0. /\ setup' = setup
      /\ interrupted \in BOOLEAN /\ StageTyped
  BY DEF Next, vars, CheckOptions, GetDraftDiff, CountDiffs, GetDiff,
         GetMatchingDraft, ApplyPatches, PatchStep, Exit, OwnerChanges,
         PatcherInv, CallTyped
<1>1. CASE CheckOptions
  <2>1. /\ callVars' = callVars /\ UNCHANGED <<head, index>>
        /\ interrupted => interrupted'
    BY <1>1 DEF CheckOptions
  <2>2. CASE Underway'
    <3>1. \A f \in File : index'[f] \in MayCommit(f)'
      BY <1>1, <2>1, <2>2, CheckedOptions
    <3>2. \A f \in File : MayCommit(f) \subseteq MayCommit(f)'
      BY <1>0, <2>1, MayCommitKept
    <3> QED BY <2>1, <3>1, <3>2 DEF Apart
  <2>3. CASE ~Underway'
    BY <1>0, <2>1, <2>3, ApartKept
  <2> QED BY <2>2, <2>3
<1>2. CASE GetDraftDiff \/ CountDiffs \/ GetDiff \/ GetMatchingDraft
  <2>1. /\ UNCHANGED otherVars /\ Underway
        /\ interrupted => interrupted'
    BY <1>0, <1>2 DEF GetDraftDiff, CountDiffs, GetDiff, GetMatchingDraft,
                      FindDraft, Abort, otherVars, Underway
  <2> QED BY <1>0, <2>1, ApartKept DEF otherVars
<1>3. CASE ApplyPatches
  <2>1. /\ stage = "new" /\ patches = <<>> /\ Underway
    BY <1>0, <1>3 DEF ApplyPatches, CommandTyped, Finding, StageTyped, Underway
  <2>2. UNCHANGED <<head, index>> /\ (interrupted => interrupted')
    BY <1>3 DEF ApplyPatches, CallPatch
  <2> QED BY <1>0, <2>1, <2>2, ApartKept
<1>4. CASE PatchStep
  <2>1. Patching /\ Underway /\ Underway'
    BY <1>4 DEF PatchStep, Underway
  <2>2. CASE /\ num <= Len(patches)
             /\ \E downloaded \in SUBSET Nth(num).attached :
                  ApplySinglePatch(downloaded)
    BY <1>0, <2>1, <2>2, AppliedApart
  <2>3. CASE CreateCommit
    BY <1>0, <2>1, <2>3, CommittedApart
  <2>4. CASE RefusePatch \/ NextPatch \/ PatchesEnd
    <3>1. /\ callVars' = callVars /\ UNCHANGED <<head, index, interrupted>>
          /\ stage # "failed"
      BY <2>4 DEF RefusePatch, NextPatch, PatchesEnd
    <3> QED BY <1>0, <2>1, <3>1, ApartKept
  <2> QED BY <2>1, <2>2, <2>3, <2>4 DEF Patching
<1>5. CASE Exit \/ OwnerChanges \/ UNCHANGED vars
  <2>1. /\ callVars' = callVars /\ UNCHANGED <<head, index, interrupted, stage>>
        /\ Underway' => Underway
    BY <1>5 DEF Exit, Goto, OwnerChanges, vars, patcherVars, Underway
  <2> QED BY <1>0, <2>1, ApartKept
<1> QED BY <1>1, <1>2, <1>3, <1>4, <1>5 DEF Next

-----------------------------------------------------------------------------
THEOREM PatchInvariant == Spec => [](PatchInv /\ PatcherInv)
<1>1. Init => PatchInv /\ PatcherInv
  BY PatchInitOK, PatcherInitOK
<1>2. PatchInv /\ PatcherInv /\ [Next]_vars => PatchInv' /\ PatcherInv'
  BY StepIsPatcherStep, InterruptedTyped, PatcherStepOK, CommandTypedOK,
     ServerTypedOK, LatestOK, EditsKeptOK
  DEF PatchInv
<1> QED BY <1>1, <1>2, PTL DEF Spec

(* rbt patch uses the patcher, and touches the tree, only as a caller of   *)
(* Patcher may: it makes one call, before anything is patched.             *)
THEOREM PatchImplementsPatcher == Spec => PatcherSpec
<1>1. Init => PatcherInit
  BY PatchInitOK
<1>2. PatchInv /\ PatcherInv /\ [Next]_vars
      => [Call \/ CallerFails \/ Patching]_patcherVars
  BY StepIsPatcherStep DEF PatchInv
<1> QED BY <1>1, <1>2, PatchInvariant, PTL DEF Spec, PatcherSpec

(* The variables of Patch and Patcher keep their types.                    *)
THEOREM TypeCorrect == Spec => []TypeOK
<1>1. PatchInv /\ PatcherInv => TypeOK
  <2> SUFFICES ASSUME PatchInv, PatcherInv PROVE TypeOK
    OBVIOUS
  <2>1. SetupType(setup)
    BY SetupTyped DEF PatchInv
  <2>2. num \in 1..(Len(patches) + 1) /\ head # <<>>
    <3>1. Len(patches) \in Nat
      BY DEF PatcherInv, CallTyped
    <3>2. head \in Seq(Tree) /\ Len(head) > 0
      BY DEF PatcherInv, TreesTyped
    <3> QED BY <3>1, <3>2 DEF PatcherInv, StageTyped
  <2> QED
    BY <2>1, <2>2 DEF TypeOK, PatchInv, PatcherInv, CommandTyped, ServerTyped,
                      Finding, TreesTyped, StageTyped, CallTyped, Stages
<1> QED BY <1>1, PatchInvariant, PTL

(* Without --diff-revision, the diff that is applied was the newest one    *)
(* that the user could see at some moment of the run, however the owner's  *)
(* uploads and publications fall between the requests.                     *)
THEOREM LatestDiffIsApplied == Spec => []AppliesLatestDiff
<1>1. PatchInv => AppliesLatestDiff
  BY DEF PatchInv, Latest, AppliesLatestDiff
<1> QED BY <1>1, PatchInvariant, PTL

(* What is committed comes from HEAD or from a patch, or was staged when   *)
(* --commit-no-edit was given, though a commit takes all that is staged;   *)
(* and no edit of a text file that is not staged is overwritten.           *)
THEOREM EditsAreKept == Spec => []EditsStayApart
<1>1. Init => Made /\ Apart
  <2> SUFFICES ASSUME Init PROVE Made /\ Apart
    OBVIOUS
  <2>1. Len(head) = 1 /\ head[1] = setup.head
    BY DEF Init
  <2>2. \A i \in 1..Len(head) : head[i] = setup.head
    BY <2>1
  <2> QED BY <2>2 DEF Init, Made, Apart, MayCommit, Underway
<1>2. PatchInv /\ PatcherInv /\ Made /\ Apart /\ [Next]_vars
      => Made' /\ Apart'
  BY MadeOK, ApartOK DEF PatchInv
<1>3. PatchInv /\ Apart => EditsStayApart
  BY DEF PatchInv, EditsKept, Apart, EditsStayApart
<1> QED BY <1>1, <1>2, <1>3, PatchInvariant, PTL DEF Spec

(* What is proved of the patcher, of the command: a failure leaves one     *)
(* patch in the tree, and each commit holds one.                           *)
THEOREM FailuresAndCommits ==
  Spec => []OnePatchAtATime /\ []CommitsHoldPatches
BY PatchImplementsPatcher, LeavesOnePatch, CommitsAreWhole

(* On the tree that the diff was made from every patch applies and every   *)
(* commit is made, in whatever form the diff comes, whatever the owner     *)
(* does in between: nothing but a failure outside the program stops it.    *)
THEOREM AppliesOnItsBase == Spec => []AppliesToItsBase
<1>1. Init => Made /\ Follows
  BY DEF Init, Made, Follows
<1>2. PatchInv /\ PatcherInv /\ Made /\ Follows /\ [Next]_vars
      => Made' /\ Follows'
  BY MadeOK, FollowsOK DEF PatchInv
<1>3. Follows => AppliesToItsBase
  BY DEF Follows, FromBase, AppliesToItsBase
<1> QED BY <1>1, <1>2, <1>3, PatchInvariant, PTL DEF Spec
=============================================================================
