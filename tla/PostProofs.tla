----------------------------- MODULE PostProofs -----------------------------
(***************************************************************************)
(* Proofs about Post, for every set of review requests, every history of   *)
(* commits, every series of runs and every failure.                        *)
(***************************************************************************)
EXTENDS Post, PostLemmas, TLAPS

(* Stages at which there is a diff to post, and a review request for it *)
Uploading == {"uploading", "empty", "commits", "files", "draft", "stamping",
              "updating", "posted"}
Planned == {"validating", "creating"} \cup Uploading

RepoType == IsHistory(repo)

(* The types, and the parts of the situation that do not change *)
TypeInv ==
  /\ TypeOK
  /\ setup \in Setups
  /\ stage # "idle" => run # 0
  /\ stage \in Uploading => target # None
  /\ RepoType

(* What a change of the server does, whatever becomes of the order *)
LEMMA Touches ==
  ASSUME NEW r, NEW record, Touch(r, record)
  PROVE  rr' = [rr EXCEPT ![r] = record]
BY DEF Touch

LEMMA Writes ==
  ASSUME NEW r, NEW fields, WriteDraft(r, fields)
  PROVE  rr' = [rr EXCEPT ![r] = [rr[r] EXCEPT !.draft = <<fields>>]]
BY Touches DEF WriteDraft

LEMMA InitTypes == Init => TypeInv
<1>1. SUFFICES ASSUME Init PROVE TypeInv
  OBVIOUS
<1>2. setup \in Setups /\ repo = setup.repository /\ rr = setup.requests
      /\ changes = 0 /\ run = 0 /\ stage = "idle" /\ target = None
      /\ page = 0 /\ sent = 0 /\ chosen = "none" /\ disturbed = {}
      /\ posted = None
  BY <1>1 DEF Init
<1>3. Len(setup.posts) \in Nat /\ setup.web \in Nat /\ DOMAIN rr = Request
      /\ \A r \in Request : IsRequest(rr[r])
  BY <1>2, SetupAssumption
<1>4. TypeOK
  BY <1>2, <1>3 DEF TypeOK, Stages
<1>5. QED
  BY <1>2, <1>4, SetupAssumption DEF TypeInv, Uploading, RepoType

(* Fields that are written to a draft leave the rest of the record *)
LEMMA DraftTypes ==
  ASSUME NEW record, IsRequest(record), NEW fields, IsFields(fields)
  PROVE  /\ IsRequest([record EXCEPT !.draft = <<fields>>])
         /\ [record EXCEPT !.draft = <<fields>>].status = record.status
BY DEF IsRequest

(* One review request changes, and exists afterwards *)
LEMMA ServerTypes ==
  ASSUME DOMAIN rr = Request, \A q \in Request : IsRequest(rr[q]),
         NEW r \in Request, NEW record, IsRequest(record),
         record.status # "unused", rr' = [rr EXCEPT ![r] = record]
  PROVE  /\ DOMAIN rr' = Request /\ \A q \in Request : IsRequest(rr'[q])
         /\ Existing \cup {r} \subseteq Existing'
         /\ rr'[r] = record
BY DEF Existing

LEMMA DraftOrNewTypes ==
  ASSUME NEW r \in Request, IsRequest(rr[r])
  PROVE  IsFields(DraftOrNew(r)) /\ (HasDraft(r) => IsFields(Draft(r)))
<1>1. CASE HasDraft(r)
  <2>1. DraftOrNew(r) = Draft(r)
    BY <1>1 DEF DraftOrNew
  <2>2. IsFields(Draft(r))
    BY <1>1 DEF IsRequest, HasDraft, Draft
  <2>3. QED
    BY <2>1, <2>2
<1>2. CASE ~HasDraft(r)
  <2>1. DraftOrNew(r) = [rr[r].current EXCEPT !.diff = NoDiff]
    BY <1>2 DEF DraftOrNew
  <2>2. IsFields(DraftOrNew(r))
    BY <2>1 DEF IsRequest, IsFields
  <2>3. QED
    BY <1>2, <2>2
<1>3. QED
  BY <1>1, <1>2

(* Writing a draft keeps the types *)
LEMMA WriteTypes ==
  ASSUME TypeInv, NEW r \in Existing, NEW fields, IsFields(fields),
         rr' = [rr EXCEPT ![r] = [rr[r] EXCEPT !.draft = <<fields>>]]
  PROVE  /\ DOMAIN rr' = Request /\ \A q \in Request : IsRequest(rr'[q])
         /\ Existing \subseteq Existing'
<1>1. /\ DOMAIN rr = Request /\ \A q \in Request : IsRequest(rr[q])
      /\ r \in Request /\ rr[r].status # "unused"
  BY DEF TypeInv, TypeOK, Existing
<1> DEFINE record == [rr[r] EXCEPT !.draft = <<fields>>]
<1>2. IsRequest(rr[r])
  BY <1>1
<1>3. IsRequest(record) /\ record.status = rr[r].status
  BY <1>2, DraftTypes
<1>4. rr' = [rr EXCEPT ![r] = record]
  OBVIOUS
<1> HIDE DEF record
<1>5. QED
  BY <1>1, <1>3, <1>4, ServerTypes

LEMMA SameServer ==
  ASSUME TypeInv, UNCHANGED rr
  PROVE  /\ DOMAIN rr' = Request /\ \A q \in Request : IsRequest(rr'[q])
         /\ Existing' = Existing
BY DEF TypeInv, TypeOK, Existing

(* The steps that change nothing on the server *)
Reads == ParseOptions \/ FetchPage \/ TakeMatch \/ AskAboutMatches \/ Confirm
         \/ Decline \/ FetchRequest \/ MakeDiff \/ ValidateSquashedDiff
         \/ ValidateCommit \/ UseExisting \/ SkipDiff \/ GetDraft
         \/ StampCommit \/ SkipStamp \/ NothingToUpdate
Ends == RefuseOptions \/ NoMatch \/ RefuseRequest \/ RefuseDiff \/ Fail
Edits == CreateRequest \/ UploadDiff \/ GetOrCreateDraft \/ CreateEmpty
         \/ UploadCommit \/ FinalizeCommitSeries \/ UploadFile \/ UpdateDraft

LEMMA NextSteps ==
  Next <=> Start \/ Reads \/ Ends \/ Edits \/ OnTheWeb \/ Commits
BY DEF Next, Command, Match, Prepare, Upload, Finish, Reads, Ends, Edits

LEMMA StartTypes == TypeInv /\ Start => TypeInv'
<1>1. SUFFICES ASSUME TypeInv, Start PROVE TypeInv'
  OBVIOUS
<1>2. /\ UNCHANGED <<setup, repo, rr, changes, posted>>
      /\ run' = run + 1 /\ run < Len(setup.posts) /\ stage' = "options"
      /\ page' = 0 /\ target' = None /\ sent' = 0 /\ chosen' = "none"
      /\ disturbed' = {}
  BY <1>1 DEF Start, Goto, serverVars
<1>3. run' \in 0..Len(setup'.posts) /\ run' # 0
  <2>1. setup \in Setups /\ run \in 0..Len(setup.posts)
    BY <1>1 DEF TypeInv, TypeOK
  <2>2. Len(setup.posts) \in Nat
    BY <2>1, SetupAssumption
  <2>3. QED
    BY <2>1, <2>2, <1>2
<1>4. TypeOK'
  BY <1>1, <1>2, <1>3, SameServer DEF TypeInv, TypeOK, Stages
<1>5. QED
  BY <1>1, <1>2, <1>3, <1>4 DEF TypeInv, Uploading, RepoType

LEMMA EndTypes == TypeInv /\ Ends => TypeInv'
<1>1. SUFFICES ASSUME TypeInv, Ends PROVE TypeInv'
  OBVIOUS
<1>2. /\ UNCHANGED <<setup, repo, rr, changes, run, disturbed>>
      /\ Abort /\ stage # "idle"
  BY <1>1 DEF Ends, RefuseOptions, NoMatch, RefuseRequest, RefuseDiff, Fail,
              Running, serverVars
<1>3. QED
  BY <1>1, <1>2, SameServer
     DEF Abort, Goto, TypeInv, TypeOK, Stages, Uploading, RepoType

(* Commits are added; those that there are stay as they are *)
LEMMA RepoGrows ==
  ASSUME RepoType, StampCommit \/ Commits
  PROVE  Extends(repo, repo')
<1> DEFINE new == Len(repo.parents) + 1
<1>1. /\ IsHistory(repo) /\ new \in Nat /\ repo.head \in Commit(repo)
      /\ repo.head \in Nat /\ repo.change[repo.head] \in Nat
  BY DEF RepoType, IsHistory, Commit
<1>2. CASE StampCommit
  BY <1>1, <1>2, AmendExtends DEF StampCommit
<1>3. CASE Commits
  <2>1. PICK words : repo' \in {AddCommit(repo, <<repo.head>>, new, words),
                                Amend(repo, new, repo.message[repo.head]),
                                Amend(repo, repo.change[repo.head], words)}
    BY <1>3 DEF Commits
  <2>2. <<repo.head>> \in Seq(Nat) /\ ToSet(<<repo.head>>) \subseteq Commit(repo)
    BY <1>1 DEF ToSet
  <2> HIDE DEF new
  <2> QED BY <1>1, <2>1, <2>2, AddCommitExtends, AmendExtends
<1> QED BY <1>2, <1>3

LEMMA PageTypes ==
  ASSUME TypeInv, FetchPage
  PROVE  page' \in Nat
<1>1. page \in Nat
  BY DEF TypeInv, TypeOK
<1>2. page' = page + 1
  BY DEF FetchPage
<1>3. QED
  BY <1>1, <1>2

LEMMA ReadTypes == TypeInv /\ Reads => TypeInv'
<1>1. SUFFICES ASSUME TypeInv, Reads PROVE TypeInv'
  OBVIOUS
<1> USE <1>1, SameServer
    DEF Goto, TypeInv, TypeOK, Stages, Uploading, RepoType, serverVars,
        matchVars, planVars
<1>2. CASE ParseOptions
  BY <1>2 DEF ParseOptions, Updates
<1>3. CASE FetchPage
  BY <1>3, PageTypes DEF FetchPage
<1>4. CASE TakeMatch
  BY <1>4 DEF TakeMatch
<1>5. CASE AskAboutMatches
  BY <1>5 DEF AskAboutMatches
<1>6. CASE Confirm
  BY <1>6 DEF Confirm
<1>7. CASE Decline
  BY <1>7 DEF Decline
<1>8. CASE FetchRequest
  BY <1>8 DEF FetchRequest
<1>9. CASE MakeDiff
  BY <1>9 DEF MakeDiff
<1>10. CASE ValidateSquashedDiff
  BY <1>10 DEF ValidateSquashedDiff, AfterValidation
<1>11. CASE ValidateCommit
  BY <1>11 DEF ValidateCommit, AfterValidation
<1>12. CASE UseExisting
  BY <1>12, PostAssumption DEF UseExisting, Existing
<1>13. CASE SkipDiff
  BY <1>13 DEF SkipDiff
<1>14. CASE GetDraft
  BY <1>14 DEF GetDraft
<1>15. CASE StampCommit
  <2>1. /\ stage = "stamping" /\ stage' = "updating"
        /\ repo' = Amend(repo, repo.change[repo.head], Append(Text, target))
        /\ UNCHANGED <<setup, rr, changes, run, target, page, sent, chosen,
                       disturbed, posted>>
    BY <1>15 DEF StampCommit
  <2>2. RepoType'
    BY <1>15, RepoGrows DEF RepoType, Extends
  <2>3. QED
    BY <2>1, <2>2 DEF RepoType
<1>16. CASE SkipStamp
  BY <1>16 DEF SkipStamp
<1>17. CASE NothingToUpdate
  <2>1. target \in Existing /\ PostedFor(target).request = target
    BY <1>17 DEF NothingToUpdate, PostedFor
  <2> QED BY <1>17, <2>1 DEF NothingToUpdate, Remember
<1>18. QED
  BY <1>2, <1>3, <1>4, <1>5, <1>6, <1>7, <1>8, <1>9, <1>10, <1>11, <1>12,
     <1>13, <1>14, <1>15, <1>16, <1>17 DEF Reads

(* The actions that write to the review request, by what they write *)
LEMMA EditedFields ==
  ASSUME TypeInv, IsRequest(rr[target]), target \in Existing
  PROVE  /\ UploadDiff => \E f : IsFields(f) /\ WriteDraft(target, f)
         /\ CreateEmpty => \E f : IsFields(f) /\ WriteDraft(target, f)
         /\ UploadCommit => \E f : IsFields(f) /\ WriteDraft(target, f)
         /\ FinalizeCommitSeries => \E f : IsFields(f) /\ WriteDraft(target, f)
         /\ UploadFile => \E f : IsFields(f) /\ WriteDraft(target, f)
<1>1. IsFields(DraftOrNew(target)) /\ (HasDraft(target) => IsFields(Draft(target)))
  BY DraftOrNewTypes DEF Existing
<1> USE <1>1 DEF IsFields
<1>2. ASSUME UploadDiff PROVE \E f : IsFields(f) /\ WriteDraft(target, f)
  BY <1>2 DEF UploadDiff
<1>3. ASSUME CreateEmpty PROVE \E f : IsFields(f) /\ WriteDraft(target, f)
  BY <1>3 DEF CreateEmpty
<1>4. ASSUME UploadCommit PROVE \E f : IsFields(f) /\ WriteDraft(target, f)
  BY <1>4 DEF UploadCommit, HasDraftDiff
<1>5. ASSUME FinalizeCommitSeries
      PROVE  \E f : IsFields(f) /\ WriteDraft(target, f)
  BY <1>5 DEF FinalizeCommitSeries, HasDraftDiff
<1>6. ASSUME UploadFile PROVE \E f : IsFields(f) /\ WriteDraft(target, f)
  BY <1>6 DEF UploadFile, HasDraftDiff
<1>7. QED
  BY <1>2, <1>3, <1>4, <1>5, <1>6

LEMMA PublishedTypes ==
  ASSUME NEW r \in Request, IsRequest(rr[r]), NEW f, IsFields(f)
  PROVE  IsRequest(Published(r, f)) /\ Published(r, f).status = rr[r].status
<1> DEFINE g == [f EXCEPT !.diff = IF HasDiff(f) THEN @
                                   ELSE rr[r].current.diff]
<1>1. IsFields(g)
  BY DEF IsFields
<1>2. Published(r, f) = [rr[r] EXCEPT !.current = g, !.draft = <<>>]
  BY DEF Published
<1> HIDE DEF g
<1>3. QED
  BY <1>1, <1>2 DEF IsRequest

LEMMA DraftFieldsTypes ==
  ASSUME IsFields(DraftOrNew(target))
  PROVE  IsFields(DraftFields)
<1> DEFINE old == DraftOrNew(target)
<1> HIDE DEF old
<1>1. IsFields(old)
  BY DEF old
<1>2. DraftFields = [old EXCEPT !.text = IF TextToSet = None THEN @ ELSE TextToSet,
              !.commit_id = IF SetsCommitId THEN plan.commit_id ELSE @]
  BY DEF DraftFields, old
<1>3. QED
  BY <1>1, <1>2 DEF IsFields

LEMMA EditTypes == TypeInv /\ Edits => TypeInv'
<1>1. SUFFICES ASSUME TypeInv, Edits PROVE TypeInv'
  OBVIOUS
<1>2. /\ DOMAIN rr = Request
      /\ \A q \in Request : IsRequest(rr[q])
      /\ Existing \subseteq Request /\ None \notin Request
  BY <1>1, PostAssumption DEF TypeInv, TypeOK, Existing
<1> DEFINE Kept == /\ DOMAIN rr' = Request
                   /\ \A q \in Request : IsRequest(rr'[q])
                   /\ Existing \subseteq Existing'
<1>3. CASE CreateRequest
  <2>1. PICK r \in Request \ Existing : Touch(r, NewRequest) /\ target' = r
    BY <1>3 DEF CreateRequest
  <2>2. IsRequest(NewRequest) /\ NewRequest.status = "pending"
    BY DEF IsRequest, NewRequest, NoFields, IsFields
  <2>3. rr' = [rr EXCEPT ![r] = NewRequest]
    BY <2>1, Touches
  <2>4. Kept /\ r \in Existing'
    BY <1>2, <2>1, <2>2, <2>3, ServerTypes
  <2>5. QED
    BY <1>1, <1>2, <1>3, <2>1, <2>4
       DEF CreateRequest, TypeInv, TypeOK, Stages, Uploading, Goto, matchVars,
           planVars, RepoType
<1>4. ASSUME target \in Existing, NEW f, IsFields(f), WriteDraft(target, f)
      PROVE  Kept
  BY <1>1, <1>4, Writes, WriteTypes
<1>5. ASSUME \/ UploadDiff \/ GetOrCreateDraft \/ CreateEmpty \/ UploadCommit
             \/ FinalizeCommitSeries \/ UploadFile \/ UpdateDraft
      PROVE  target \in Existing /\ target # None /\ IsRequest(rr[target])
             /\ stage # "idle"
  BY <1>1, <1>2, <1>5
     DEF TypeInv, TypeOK, Uploading, UploadDiff, GetOrCreateDraft,
         CreateEmpty, UploadCommit, FinalizeCommitSeries, UploadFile,
         UpdateDraft
<1>6. CASE UploadDiff
  <2>1. Kept
    BY <1>1, <1>4, <1>5, <1>6, EditedFields
  <2>2. QED
    BY <1>1, <1>5, <1>6, <2>1
       DEF UploadDiff, TypeInv, TypeOK, Stages, Uploading, Goto, matchVars,
           RepoType
<1>7. CASE GetOrCreateDraft
  <2>1. IsFields(DraftOrNew(target))
    BY <1>5, <1>7, DraftOrNewTypes DEF Existing
  <2>2. Kept
    BY <1>1, <1>2, <1>4, <1>5, <1>7, <2>1, SameServer
       DEF GetOrCreateDraft, serverVars
  <2>3. QED
    BY <1>1, <1>5, <1>7, <2>2
       DEF GetOrCreateDraft, TypeInv, TypeOK, Stages, Uploading, Goto,
           matchVars, planVars, RepoType
<1>8. CASE CreateEmpty
  <2>1. Kept
    BY <1>1, <1>4, <1>5, <1>8, EditedFields
  <2>2. QED
    BY <1>1, <1>5, <1>8, <2>1
       DEF CreateEmpty, TypeInv, TypeOK, Stages, Uploading, Goto, matchVars,
           planVars, RepoType
<1>9. CASE UploadCommit
  <2>1. Kept
    BY <1>1, <1>4, <1>5, <1>9, EditedFields
  <2>2. sent' \in Nat
    <3>1. sent \in Nat
      BY <1>1 DEF TypeInv, TypeOK
    <3>2. sent' = sent + 1
      BY <1>9 DEF UploadCommit
    <3>3. QED
      BY <3>1, <3>2
  <2>3. QED
    BY <1>1, <1>5, <1>9, <2>1, <2>2
       DEF UploadCommit, TypeInv, TypeOK, Stages, Uploading, matchVars,
           RepoType
<1>10. CASE FinalizeCommitSeries
  <2>1. Kept
    BY <1>1, <1>4, <1>5, <1>10, EditedFields
  <2>2. QED
    BY <1>1, <1>5, <1>10, <2>1
       DEF FinalizeCommitSeries, TypeInv, TypeOK, Stages, Uploading, Goto,
           matchVars, RepoType
<1>11. CASE UploadFile
  <2>1. Kept
    BY <1>1, <1>4, <1>5, <1>11, EditedFields
  <2>2. QED
    BY <1>1, <1>5, <1>11, <2>1
       DEF UploadFile, TypeInv, TypeOK, Stages, Uploading, matchVars,
           RepoType
<1>12. CASE UpdateDraft
  <2>1. IsFields(DraftFields)
    BY <1>5, <1>12, DraftOrNewTypes, DraftFieldsTypes DEF Existing
  <2>2. Kept
    <3>1. CASE opt.publish
      <4>1. rr' = [rr EXCEPT ![target] = Published(target, DraftFields)]
        BY <1>12, <3>1, Touches DEF UpdateDraft
      <4>2. QED
        BY <1>2, <1>5, <1>12, <2>1, <4>1, PublishedTypes, ServerTypes
           DEF Existing
    <3>2. CASE ~opt.publish
      <4>1. WriteDraft(target, DraftFields)
        BY <1>12, <3>2 DEF UpdateDraft, WriteDraft
      <4>2. QED
        BY <1>4, <1>5, <1>12, <2>1, <4>1
    <3>3. QED
      BY <3>1, <3>2
  <2>3. target' = target /\ target' \in Existing'
    BY <1>5, <1>12, <2>2 DEF UpdateDraft
  <2>4. posted' # None => posted'.request = target
    <3>1. PostedFor(target).request = target
      BY DEF PostedFor
    <3> QED BY <1>12, <3>1 DEF UpdateDraft, Remember
  <2>5. QED
    BY <1>1, <1>5, <1>12, <2>2, <2>3, <2>4
       DEF UpdateDraft, TypeInv, TypeOK, Stages, Uploading, Goto, matchVars,
           planVars, RepoType
<1>13. QED
  BY <1>1, <1>3, <1>6, <1>7, <1>8, <1>9, <1>10, <1>11, <1>12 DEF Edits

(* What a change through the web makes of a review request *)
WebRecord(r, record) ==
  \/ HasDraft(r) /\ record = Published(r, Draft(r))
  \/ HasDraft(r) /\ record = [rr[r] EXCEPT !.draft = <<>>]
  \/ record = [rr[r] EXCEPT !.draft = <<[DraftOrNew(r) EXCEPT !.text = Edited]>>]
  \/ \E status \in {"pending", "submitted", "discarded"} :
       record = [rr[r] EXCEPT !.status = status]

LEMMA WebSteps ==
  ASSUME OnTheWeb
  PROVE  \E r \in Existing : \E record :
           WebRecord(r, record) /\ WebChange(r, record)
BY DEF OnTheWeb, WebRecord

LEMMA WebTypes ==
  ASSUME NEW r \in Existing, \A q \in Request : IsRequest(rr[q]),
         NEW record, WebRecord(r, record)
  PROVE  IsRequest(record) /\ record.status # "unused"
<1>1. r \in Request /\ rr[r].status # "unused" /\ IsRequest(rr[r])
  BY DEF Existing
<1>2. IsFields(DraftOrNew(r)) /\ (HasDraft(r) => IsFields(Draft(r)))
  BY <1>1, DraftOrNewTypes
<1>3. CASE HasDraft(r) /\ record = Published(r, Draft(r))
  BY <1>1, <1>2, <1>3, PublishedTypes
<1>4. CASE record = [rr[r] EXCEPT !.draft = <<>>]
  BY <1>1, <1>4 DEF IsRequest
<1>5. CASE record = [rr[r] EXCEPT
                       !.draft = <<[DraftOrNew(r) EXCEPT !.text = Edited]>>]
  <2>1. IsFields([DraftOrNew(r) EXCEPT !.text = Edited])
    BY <1>2 DEF IsFields
  <2>2. QED
    BY <1>1, <1>5, <2>1, DraftTypes
<1>6. CASE \E status \in {"pending", "submitted", "discarded"} :
             record = [rr[r] EXCEPT !.status = status]
  BY <1>1, <1>6 DEF IsRequest
<1>7. QED
  BY <1>3, <1>4, <1>5, <1>6 DEF WebRecord

LEMMA OtherTypes == TypeInv /\ (OnTheWeb \/ Commits) => TypeInv'
<1>1. SUFFICES ASSUME TypeInv, OnTheWeb \/ Commits PROVE TypeInv'
  OBVIOUS
<1>2. CASE OnTheWeb
  <2>1. PICK r, record :
          r \in Existing /\ WebRecord(r, record) /\ WebChange(r, record)
    BY <1>2, WebSteps
  <2>2. /\ UNCHANGED <<setup, repo, run, stage, page, sent, target, chosen>>
        /\ changes < setup.web /\ changes' = changes + 1
        /\ disturbed' = disturbed \cup {r} /\ posted' = None
        /\ Touch(r, record)
    BY <2>1 DEF WebChange, commandVars, matchVars, planVars
  <2>3. /\ DOMAIN rr = Request
        /\ \A q \in Request : IsRequest(rr[q])
        /\ r \in Request
    BY <1>1, <2>1 DEF TypeInv, TypeOK, Existing
  <2>4. /\ DOMAIN rr' = Request
        /\ \A q \in Request : IsRequest(rr'[q])
        /\ Existing \subseteq Existing'
    BY <2>1, <2>2, <2>3, WebTypes, Touches, ServerTypes
  <2>5. changes' \in 0..setup'.web
    <3>1. setup \in Setups /\ changes \in 0..setup.web
      BY <1>1 DEF TypeInv, TypeOK
    <3>2. setup.web \in Nat
      BY <3>1, SetupAssumption
    <3>3. QED
      BY <2>2, <3>1, <3>2
  <2>6. TypeOK'
    BY <1>1, <2>2, <2>3, <2>4, <2>5 DEF TypeInv, TypeOK
  <2>7. QED
    BY <1>1, <2>2, <2>6 DEF TypeInv, RepoType
<1>3. CASE Commits
  <2>1. UNCHANGED <<setup, rr, changes, run, stage, page, sent, target,
                    chosen, disturbed, posted>>
    BY <1>3 DEF Commits, serverVars, commandVars, matchVars, planVars
  <2>2. RepoType'
    BY <1>1, <1>3, RepoGrows DEF TypeInv, RepoType, Extends
  <2>3. TypeOK'
    BY <1>1, <2>1, SameServer DEF TypeInv, TypeOK
  <2>4. QED
    BY <1>1, <2>1, <2>2, <2>3 DEF TypeInv
<1>4. QED
  BY <1>1, <1>2, <1>3

LEMMA TypeStep == TypeInv /\ [Next]_vars => TypeInv'
<1>1. SUFFICES ASSUME TypeInv, [Next]_vars PROVE TypeInv'
  OBVIOUS
<1>2. CASE Next
  BY <1>1, <1>2, NextSteps, StartTypes, ReadTypes, EndTypes, EditTypes,
     OtherTypes
<1>3. CASE UNCHANGED vars
  BY <1>1, <1>3, SameServer
     DEF vars, serverVars, commandVars, matchVars, planVars, TypeInv, TypeOK,
         RepoType
<1>4. QED
  BY <1>1, <1>2, <1>3

(* Every state has the types that later steps of main rely on: the review  *)
(* request that is updated exists, and every record has its fields.        *)
THEOREM TypeCorrect == Spec => []TypeOK
<1>1. TypeInv => TypeOK
  BY DEF TypeInv
<1>2. QED
  BY <1>1, InitTypes, TypeStep, PTL DEF Spec
-----------------------------------------------------------------------------
(* What is good of every review request on the server, in public and in    *)
(* its draft: a diff has the kind its review request was created with, and *)
(* its commits are a chain.                                                *)
KindFits(diff, record) ==
  diff.kind = "file" \/ (diff.kind = "history" <=> record.created_with_history)

GoodFields(f, record) ==
  HasDiff(f) => IsChain(f.diff.commits) /\ KindFits(f.diff, record)

GoodRecord(record) ==
  /\ record.created_with_history => cap.history /\ ~cap.changesets
  /\ GoodFields(record.current, record)
  /\ record.draft # <<>> => GoodFields(record.draft[1], record)

ServerInv == \A r \in Existing : GoodRecord(rr[r])

(* The commits as they are to be uploaded *)
ToUpload ==
  [i \in 1..Len(plan.entries) |->
     [commit_id |-> plan.entries[i].commit_id,
      parent_id |-> plan.entries[i].parent_id, diff |-> plan.entries[i].diff,
      info |-> [j \in 1..(i - 1) |-> plan.entries[j].commit_id]]]
FirstUploads(n) == [i \in 1..n |-> ToUpload[i]]

(* validation_info: for every commit what is known of those before it *)
Known(k) == [j \in 1..(k - 1) |-> plan.entries[j].commit_id]

ValidatedInv ==
  plan.kind = "history" =>
    /\ Len(validated) \in 1..(Len(plan.entries) + 1)
    /\ stage = "validating" => Len(validated) <= Len(plan.entries)
    /\ stage # "validating" => Len(validated) = Len(plan.entries) + 1
    /\ validated = [k \in 1..Len(validated) |-> Known(k)]

(* The diff that was made, and the review request it is for *)
KindOfPlan ==
  /\ plan.kind \in {"squashed", "history", "file"}
  /\ plan.kind = "history" => cap.history /\ ~cap.changesets
  /\ plan.changenum # None => plan.kind = "squashed" /\ cap.changesets
  /\ Len(plan.entries) \in Nat
  /\ DOMAIN plan.entries = 1..Len(plan.entries)
  /\ plan.kind # "history" => Len(plan.entries) = 0

FitsTarget ==
  target # None /\ plan.kind # "file" =>
    (plan.kind = "history" <=> rr[target].created_with_history)

PlanInv ==
  /\ stage = "creating" => target = None
  /\ stage = "diffing" /\ target # None =>
       fetched.created_with_history = rr[target].created_with_history
  /\ stage \in Planned => KindOfPlan /\ FitsTarget /\ ValidatedInv
  /\ stage \in {"empty", "commits"} => plan.kind = "history"

LEMMA InitServer == Init => ServerInv /\ PlanInv
<1>1. SUFFICES ASSUME Init PROVE ServerInv /\ PlanInv
  OBVIOUS
<1>2. setup \in Setups /\ rr = setup.requests /\ stage = "idle"
  BY <1>1 DEF Init
<1>3. ASSUME NEW r \in Existing PROVE GoodRecord(rr[r])
  <2>1. /\ r \in Request /\ IsRequest(rr[r])
        /\ \A f \in Versions(rr[r]) : f.diff = NoDiff
        /\ rr[r].created_with_history => cap.history /\ ~cap.changesets
    BY <1>2, SetupAssumption DEF Existing, cap
  <2>2. rr[r].current \in Versions(rr[r])
    BY DEF Versions
  <2>3. rr[r].draft # <<>> => rr[r].draft[1] \in Versions(rr[r])
    <3>1. SUFFICES ASSUME rr[r].draft # <<>>
                   PROVE  rr[r].draft[1] \in Versions(rr[r])
      OBVIOUS
    <3>2. 1 \in DOMAIN rr[r].draft
      BY <2>1, <3>1 DEF IsRequest
    <3>3. QED
      BY <3>2 DEF Versions, ToSet
  <2>4. QED
    BY <2>1, <2>2, <2>3 DEF GoodRecord, GoodFields, HasDiff, NoDiff
<1>4. QED
  BY <1>2, <1>3 DEF ServerInv, PlanInv, Planned, Uploading

(* One review request is changed into a good one *)
LEMMA ServerKept ==
  ASSUME ServerInv, UNCHANGED setup, DOMAIN rr = Request, NEW r \in Request,
         NEW record, GoodRecord(record), rr' = [rr EXCEPT ![r] = record]
  PROVE  ServerInv'
<1>1. \A f, x : GoodFields(f, x)' <=> GoodFields(f, x)
  BY DEF GoodFields
<1>2. \A x : GoodRecord(x)' <=> GoodRecord(x)
  BY <1>1 DEF GoodRecord, cap
<1>3. ASSUME NEW q \in Existing' PROVE GoodRecord(rr'[q])
  BY <1>3 DEF ServerInv, Existing
<1>4. QED
  BY <1>2, <1>3 DEF ServerInv

LEMMA ServerSame ==
  ASSUME ServerInv, UNCHANGED <<setup, rr>>
  PROVE  ServerInv'
<1>1. \A f, x : GoodFields(f, x)' <=> GoodFields(f, x)
  BY DEF GoodFields
<1>2. \A x : GoodRecord(x)' <=> GoodRecord(x)
  BY <1>1 DEF GoodRecord, cap
<1>3. ASSUME NEW q \in Existing' PROVE GoodRecord(rr'[q])
  BY <1>3 DEF ServerInv, Existing
<1>4. QED
  BY <1>2, <1>3 DEF ServerInv

LEMMA GoodDraft ==
  ASSUME NEW record, IsRequest(record), GoodRecord(record), NEW f,
         GoodFields(f, record)
  PROVE  GoodRecord([record EXCEPT !.draft = <<f>>])
<1> DEFINE new == [record EXCEPT !.draft = <<f>>]
<1>1. /\ new.draft = <<f>> /\ new.current = record.current
      /\ new.created_with_history = record.created_with_history
  BY DEF IsRequest
<1> HIDE DEF new
<1>2. \A g : GoodFields(g, record) => GoodFields(g, new)
  BY <1>1 DEF GoodFields, KindFits
<1>3. new.draft[1] = f
  BY <1>1
<1>4. GoodRecord(new)
  BY <1>1, <1>2, <1>3 DEF GoodRecord
<1>5. QED
  BY <1>4 DEF new

LEMMA GoodNow ==
  ASSUME NEW r \in Existing, TypeInv, ServerInv
  PROVE  /\ r \in Request /\ IsRequest(rr[r]) /\ GoodRecord(rr[r])
         /\ GoodFields(DraftOrNew(r), rr[r])
         /\ HasDraft(r) => GoodFields(Draft(r), rr[r])
<1>1. r \in Request /\ IsRequest(rr[r]) /\ GoodRecord(rr[r])
  BY DEF TypeInv, TypeOK, Existing, ServerInv
<1>2. HasDraft(r) => GoodFields(Draft(r), rr[r])
  BY <1>1 DEF GoodRecord, HasDraft, Draft
<1>3. ~HasDraft(r) => GoodFields(DraftOrNew(r), rr[r])
  <2>1. SUFFICES ASSUME ~HasDraft(r) PROVE DraftOrNew(r).diff = NoDiff
    BY DEF GoodFields, HasDiff, NoDiff
  <2>2. "diff" \in DOMAIN rr[r].current
    BY <1>1 DEF IsRequest, IsFields
  <2>3. QED
    BY <2>1, <2>2 DEF DraftOrNew
<1>4. HasDraft(r) => DraftOrNew(r) = Draft(r)
  BY DEF DraftOrNew
<1>5. QED
  BY <1>1, <1>2, <1>3, <1>4

LEMMA GoodPublished ==
  ASSUME NEW r \in Existing, TypeInv, ServerInv, NEW f, IsFields(f),
         GoodFields(f, rr[r])
  PROVE  GoodRecord(Published(r, f))
<1> DEFINE g == [f EXCEPT !.diff = IF HasDiff(f) THEN @
                                   ELSE rr[r].current.diff]
           new == Published(r, f)
<1>1. IsRequest(rr[r]) /\ GoodRecord(rr[r])
  BY GoodNow
<1>2. new = [rr[r] EXCEPT !.current = g, !.draft = <<>>]
  BY DEF Published
<1>3. /\ new.draft = <<>> /\ new.current = g
      /\ new.created_with_history = rr[r].created_with_history
  BY <1>1, <1>2 DEF IsRequest
<1>4. g.diff = IF HasDiff(f) THEN f.diff ELSE rr[r].current.diff
  BY DEF IsFields
<1>5. GoodFields(rr[r].current, rr[r])
  BY <1>1 DEF GoodRecord
<1> HIDE DEF new, g
<1>6. GoodFields(g, new)
  BY <1>3, <1>4, <1>5 DEF GoodFields, KindFits, HasDiff
<1>7. GoodRecord(new)
  BY <1>1, <1>3, <1>6 DEF GoodRecord
<1>8. QED
  BY <1>7 DEF new

ChangeOnly == cap.changesets /\ opt.change_only

(* The diff of a draft while it is uploaded: the commits that were sent,   *)
(* then everything but the binary files that are left.                     *)
PartDiff(n) == Posted(None, FirstUploads(n))
WholeDiff ==
  [kind |-> plan.kind, base_commit_id |-> BaseCommitId,
   parent_diff |-> plan.parent_diff, diff |-> plan.diff,
   commits |-> ToUpload, attached |-> FilesToUpload \ files]

(* The diff of the draft, as far as it is uploaded; only through the web   *)
(* does it disappear.                                                      *)
DiffInv ==
  /\ stage \notin {"commits", "files", "draft", "stamping", "updating",
                   "posted"} => sent = 0
  /\ stage = "commits" =>
       /\ sent \in 0..Len(plan.entries)
       /\ HasDraftDiff => Draft(target).diff = PartDiff(sent)
  /\ stage = "files" => files \subseteq FilesToUpload /\ ~ChangeOnly
  /\ stage = "draft" => ChangeOnly
  /\ stage \in {"files", "stamping", "updating"} /\ ~ChangeOnly =>
       /\ HasDraftDiff => Draft(target).diff = WholeDiff
       /\ stage # "files" => files = {}
  /\ stage \in {"commits", "files", "stamping", "updating"}
       /\ ~ChangeOnly /\ target \notin disturbed => HasDraftDiff
  /\ stage = "posted" /\ ~ChangeOnly /\ target \notin disturbed =>
       /\ files = {}
       /\ opt.publish => ~HasDraft(target)
                         /\ rr[target].current.diff = WholeDiff
       /\ ~opt.publish => HasDraft(target) /\ Draft(target).diff = WholeDiff

LEMMA InitDiff == Init => DiffInv
BY DEF Init, DiffInv

(* Any number of first commits is a chain *)
LEMMA FirstIsChain ==
  ASSUME NEW n \in Nat, Len(plan.entries) \in Nat, n <= Len(plan.entries)
  PROVE  IsChain(FirstUploads(n))
<1>1. ASSUME NEW i \in 1..n
      PROVE  FirstUploads(n)[i].info = [j \in 1..(i - 1) |->
                                          FirstUploads(n)[j].commit_id]
  <2>1. i \in 1..Len(plan.entries)
    OBVIOUS
  <2>2. FirstUploads(n)[i].info
          = [j \in 1..(i - 1) |-> plan.entries[j].commit_id]
    BY <2>1 DEF FirstUploads, ToUpload
  <2>3. \A j \in 1..(i - 1) :
          FirstUploads(n)[j].commit_id = plan.entries[j].commit_id
    BY DEF FirstUploads, ToUpload
  <2>4. QED
    BY <2>2, <2>3
<1>2. DOMAIN FirstUploads(n) = 1..n
  BY DEF FirstUploads
<1>3. QED
  BY <1>1, <1>2 DEF IsChain

LEMMA PartIsGood ==
  ASSUME NEW n \in Nat, Len(plan.entries) \in Nat, n <= Len(plan.entries),
         NEW record, plan.kind = "history" <=> record.created_with_history,
         NEW f, f.diff.kind = plan.kind, f.diff.commits = FirstUploads(n)
  PROVE  GoodFields(f, record)
BY FirstIsChain DEF GoodFields, KindFits

(* The next commit is sent with what is known of those before it *)
LEMMA NextUpload ==
  ASSUME ValidatedInv, KindOfPlan, plan.kind = "history", stage = "commits",
         sent \in Nat, sent < Len(plan.entries),
         NEW commit,
         commit = [commit_id |-> plan.entries[sent + 1].commit_id,
                   parent_id |-> plan.entries[sent + 1].parent_id,
                   diff |-> plan.entries[sent + 1].diff,
                   info |-> validated[sent + 1]]
  PROVE  Append(FirstUploads(sent), commit) = FirstUploads(sent + 1)
<1>1. sent + 1 \in 1..Len(plan.entries) /\ sent + 1 \in 1..Len(validated)
  <2>1. Len(plan.entries) \in Nat
    BY DEF KindOfPlan
  <2>2. Len(validated) = Len(plan.entries) + 1
    BY DEF ValidatedInv
  <2>3. QED
    BY <2>1, <2>2
<1>2. validated[sent + 1] = Known(sent + 1)
  BY <1>1 DEF ValidatedInv
<1>3. commit = ToUpload[sent + 1]
  BY <1>1, <1>2 DEF ToUpload, Known
<1>4. Len(FirstUploads(sent)) = sent
  BY DEF FirstUploads
<1>5. Append(FirstUploads(sent), commit)
        = [i \in 1..(sent + 1) |-> IF i <= sent THEN FirstUploads(sent)[i]
                                   ELSE commit]
  BY <1>4
<1>6. ASSUME NEW i \in 1..(sent + 1)
      PROVE  (IF i <= sent THEN FirstUploads(sent)[i] ELSE commit)
               = ToUpload[i]
  BY <1>3 DEF FirstUploads
<1>7. QED
  BY <1>5, <1>6 DEF FirstUploads

(* The fields of the review request that the edits of an upload write *)
LEMMA EditIsGood ==
  ASSUME TypeInv, PlanInv, DiffInv, ServerInv, target \in Existing,
         stage \in Planned
  PROVE  /\ UploadDiff \/ CreateEmpty \/ UploadCommit
              \/ FinalizeCommitSeries \/ UploadFile =>
              \E f : /\ GoodFields(f, rr[target])
                     /\ WriteDraft(target, f)
         /\ GoodFields(DraftFields, rr[target])
<1>1. /\ KindOfPlan /\ FitsTarget /\ ValidatedInv /\ target # None
      /\ GoodFields(DraftOrNew(target), rr[target])
      /\ IsFields(DraftOrNew(target))
      /\ HasDraft(target) => GoodFields(Draft(target), rr[target])
                             /\ IsFields(Draft(target))
  BY GoodNow, DraftOrNewTypes, PostAssumption DEF PlanInv, Existing
<1>2. ASSUME UploadDiff
      PROVE  \E f : GoodFields(f, rr[target]) /\ WriteDraft(target, f)
  <2> DEFINE f == [DraftOrNew(target) EXCEPT !.diff = Posted(plan.diff, <<>>)]
  <2>1. WriteDraft(target, f) /\ plan.kind # "history"
    BY <1>2 DEF UploadDiff
  <2>2. f.diff = Posted(plan.diff, <<>>)
    BY <1>1 DEF IsFields
  <2>3. f.diff.commits = <<>> /\ f.diff.kind = plan.kind
    BY <2>2 DEF Posted
  <2> HIDE DEF f
  <2>4. IsChain(<<>>)
    BY DEF IsChain
  <2>5. GoodFields(f, rr[target])
    BY <1>1, <2>1, <2>3, <2>4 DEF GoodFields, KindFits, FitsTarget
  <2>6. QED
    BY <2>1, <2>5
<1>3. ASSUME CreateEmpty
      PROVE  \E f : GoodFields(f, rr[target]) /\ WriteDraft(target, f)
  <2> DEFINE f == [Draft(target) EXCEPT !.diff = Posted(None, <<>>)]
  <2>1. WriteDraft(target, f) /\ plan.kind = "history" /\ HasDraft(target)
    BY <1>3 DEF CreateEmpty, PlanInv
  <2>2. f.diff = Posted(None, <<>>)
    BY <1>1, <2>1 DEF IsFields
  <2>3. f.diff.commits = <<>> /\ f.diff.kind = plan.kind
    BY <2>2 DEF Posted
  <2> HIDE DEF f
  <2>4. IsChain(<<>>)
    BY DEF IsChain
  <2>5. GoodFields(f, rr[target])
    BY <1>1, <2>1, <2>3, <2>4 DEF GoodFields, KindFits, FitsTarget
  <2>6. QED
    BY <2>1, <2>5
<1>4. ASSUME UploadCommit
      PROVE  \E f : GoodFields(f, rr[target]) /\ WriteDraft(target, f)
  <2> DEFINE commit == [commit_id |-> plan.entries[sent + 1].commit_id,
                        parent_id |-> plan.entries[sent + 1].parent_id,
                        diff |-> plan.entries[sent + 1].diff,
                        info |-> validated[sent + 1]]
             f == [Draft(target) EXCEPT !.diff.commits = Append(@, commit)]
  <2>1. /\ WriteDraft(target, f) /\ plan.kind = "history"
        /\ HasDraftDiff /\ HasDraft(target) /\ stage = "commits"
        /\ sent < Len(plan.entries)
    BY <1>4 DEF UploadCommit, PlanInv, HasDraftDiff
  <2>2. sent \in 0..Len(plan.entries) /\ Draft(target).diff = PartDiff(sent)
    BY <2>1 DEF DiffInv
  <2>3. f.diff = [PartDiff(sent) EXCEPT !.commits = Append(@, commit)]
    BY <1>1, <2>1, <2>2 DEF IsFields
  <2>4. /\ f.diff.kind = plan.kind
        /\ f.diff.commits = Append(FirstUploads(sent), commit)
    BY <2>3 DEF PartDiff, Posted
  <2>5. Len(plan.entries) \in Nat
    BY <1>1 DEF KindOfPlan
  <2>6. sent \in Nat /\ sent + 1 \in Nat /\ sent + 1 <= Len(plan.entries)
    BY <2>1, <2>2, <2>5
  <2>7. Append(FirstUploads(sent), commit) = FirstUploads(sent + 1)
    BY <1>1, <2>1, <2>6, NextUpload
  <2> HIDE DEF f, commit
  <2>8. plan.kind = "history" <=> rr[target].created_with_history
    BY <1>1, <2>1 DEF FitsTarget
  <2>9. GoodFields(f, rr[target])
    BY <2>4, <2>5, <2>6, <2>7, <2>8, PartIsGood
  <2>10. QED
    BY <2>1, <2>9
<1>5. ASSUME FinalizeCommitSeries
      PROVE  \E f : GoodFields(f, rr[target]) /\ WriteDraft(target, f)
  <2> DEFINE f == [Draft(target) EXCEPT !.diff.diff = plan.diff,
                                        !.diff.parent_diff = plan.parent_diff]
  <2>1. /\ WriteDraft(target, f) /\ plan.kind = "history"
        /\ HasDraftDiff /\ HasDraft(target) /\ stage = "commits"
    BY <1>5 DEF FinalizeCommitSeries, PlanInv, HasDraftDiff
  <2>2. Draft(target).diff = PartDiff(sent)
    BY <2>1 DEF DiffInv
  <2>3. f.diff = [[PartDiff(sent) EXCEPT !.diff = plan.diff]
                    EXCEPT !.parent_diff = plan.parent_diff]
    BY <1>1, <2>1, <2>2 DEF IsFields
  <2>5. Draft(target).diff.kind = plan.kind
    BY <2>2 DEF PartDiff, Posted
  <2> HIDE DEF f
  <2> DEFINE d == PartDiff(sent)
  <2>8. DOMAIN d = {"kind", "diff", "parent_diff", "base_commit_id",
                    "commits", "attached"} /\ d.kind = plan.kind
    BY DEF PartDiff, Posted
  <2>9. f.diff = [[d EXCEPT !.diff = plan.diff]
                    EXCEPT !.parent_diff = plan.parent_diff]
    BY <2>3
  <2> HIDE DEF d
  <2>10. f.diff.kind = d.kind /\ f.diff.commits = d.commits
    BY <2>8, <2>9
  <2>4. f.diff.kind = plan.kind /\ f.diff.commits = Draft(target).diff.commits
    BY <2>2, <2>8, <2>10 DEF d
  <2>6. GoodFields(f, rr[target])
    BY <1>1, <2>1, <2>4, <2>5 DEF GoodFields, KindFits, HasDiff, HasDraftDiff
  <2>7. QED
    BY <2>1, <2>6
<1>6. ASSUME UploadFile
      PROVE  \E f : GoodFields(f, rr[target]) /\ WriteDraft(target, f)
  <2>1. PICK x \in files :
          WriteDraft(target, [Draft(target) EXCEPT
                                !.diff.attached = @ \cup {x}])
    BY <1>6 DEF UploadFile
  <2> DEFINE f == [Draft(target) EXCEPT !.diff.attached = @ \cup {x}]
  <2>2. /\ WriteDraft(target, f) /\ HasDraftDiff /\ HasDraft(target)
        /\ stage = "files"
    BY <1>6, <2>1 DEF UploadFile, HasDraftDiff
  <2>3. Draft(target).diff = WholeDiff
    BY <2>2 DEF DiffInv
  <2>4. f.diff = [WholeDiff EXCEPT !.attached = @ \cup {x}]
    BY <1>1, <2>2, <2>3 DEF IsFields
  <2>5. /\ f.diff.kind = Draft(target).diff.kind
        /\ f.diff.commits = Draft(target).diff.commits
    BY <2>3, <2>4 DEF WholeDiff
  <2> HIDE DEF f
  <2>6. GoodFields(f, rr[target])
    BY <1>1, <2>2, <2>5 DEF GoodFields, KindFits, HasDiff, HasDraftDiff
  <2>7. QED
    BY <2>2, <2>6
<1>7. GoodFields(DraftFields, rr[target])
  <2> DEFINE old == DraftOrNew(target)
  <2>1. DraftFields = [old EXCEPT
          !.text = IF TextToSet = None THEN @ ELSE TextToSet,
          !.commit_id = IF SetsCommitId THEN plan.commit_id ELSE @]
    BY DEF DraftFields
  <2> HIDE DEF old
  <2>2. IsFields(old)
    BY <1>1 DEF old
  <2>3. DraftFields.diff = old.diff
    BY <2>1, <2>2 DEF IsFields
  <2>4. QED
    BY <1>1, <2>3 DEF GoodFields, KindFits, HasDiff, old
<1>8. QED
  BY <1>2, <1>3, <1>4, <1>5, <1>6, <1>7

LEMMA WebIsGood ==
  ASSUME TypeInv, ServerInv, NEW r \in Existing, NEW record,
         WebRecord(r, record)
  PROVE  GoodRecord(record)
<1>1. /\ r \in Request /\ IsRequest(rr[r]) /\ GoodRecord(rr[r])
      /\ GoodFields(DraftOrNew(r), rr[r])
      /\ HasDraft(r) => GoodFields(Draft(r), rr[r])
  BY GoodNow
<1>2. IsFields(DraftOrNew(r)) /\ (HasDraft(r) => IsFields(Draft(r)))
  BY <1>1, DraftOrNewTypes
<1>3. CASE HasDraft(r) /\ record = Published(r, Draft(r))
  BY <1>1, <1>2, <1>3, GoodPublished
<1>4. CASE record = [rr[r] EXCEPT !.draft = <<>>]
  BY <1>1, <1>4 DEF IsRequest, GoodRecord, GoodFields, KindFits
<1>5. CASE record = [rr[r] EXCEPT
                       !.draft = <<[DraftOrNew(r) EXCEPT !.text = Edited]>>]
  <2> DEFINE old == DraftOrNew(r)
             f == [old EXCEPT !.text = Edited]
  <2>1. IsFields(old) /\ GoodFields(old, rr[r])
    BY <1>1, <1>2
  <2> HIDE DEF old
  <2>2. f.diff = old.diff
    BY <2>1 DEF IsFields
  <2> HIDE DEF f
  <2>3. GoodFields(f, rr[r])
    BY <2>1, <2>2 DEF GoodFields, HasDiff
  <2>4. record = [rr[r] EXCEPT !.draft = <<f>>]
    BY <1>5 DEF f, old
  <2>5. QED
    BY <1>1, <2>3, <2>4, GoodDraft
<1>6. CASE \E status \in {"pending", "submitted", "discarded"} :
             record = [rr[r] EXCEPT !.status = status]
  BY <1>1, <1>6 DEF IsRequest, GoodRecord, GoodFields, KindFits
<1>7. QED
  BY <1>3, <1>4, <1>5, <1>6 DEF WebRecord

(* A new review request has no diff, and a history only where there is one *)
LEMMA NewIsGood ==
  ASSUME KindOfPlan PROVE GoodRecord(NewRequest)
<1>1. /\ NewRequest.created_with_history <=> plan.kind = "history"
      /\ NewRequest.current.diff = NoDiff
      /\ NewRequest.draft[1].diff = NoDiff
  BY DEF NewRequest, NoFields
<1>2. QED
  BY <1>1 DEF GoodRecord, GoodFields, HasDiff, NoDiff, KindOfPlan

LEMMA EditKeepsServer ==
  ASSUME TypeInv, PlanInv, DiffInv, ServerInv, Edits
  PROVE  ServerInv'
<1>1. /\ DOMAIN rr = Request /\ Existing \subseteq Request
      /\ None \notin Request /\ UNCHANGED setup
  BY PostAssumption
     DEF TypeInv, TypeOK, Existing, Edits, CreateRequest, UploadDiff,
         GetOrCreateDraft, CreateEmpty, UploadCommit, FinalizeCommitSeries,
         UploadFile, UpdateDraft
<1>2. CASE CreateRequest
  <2>1. PICK r \in Request : Touch(r, NewRequest)
    BY <1>2 DEF CreateRequest
  <2>2. KindOfPlan
    BY <1>2 DEF CreateRequest, PlanInv, Planned
  <2>3. QED
    BY <1>1, <2>1, <2>2, NewIsGood, Touches, ServerKept
<1>3. ASSUME \/ UploadDiff \/ GetOrCreateDraft \/ CreateEmpty \/ UploadCommit
             \/ FinalizeCommitSeries \/ UploadFile \/ UpdateDraft
      PROVE  target \in Existing /\ stage \in Planned
  BY <1>1, <1>3
     DEF TypeInv, TypeOK, Uploading, Planned, UploadDiff, GetOrCreateDraft,
         CreateEmpty, UploadCommit, FinalizeCommitSeries, UploadFile,
         UpdateDraft
<1>4. ASSUME target \in Existing, NEW f, GoodFields(f, rr[target]),
             WriteDraft(target, f)
      PROVE  ServerInv'
  <2>1. target \in Request /\ IsRequest(rr[target]) /\ GoodRecord(rr[target])
    BY <1>4, GoodNow
  <2>2. GoodRecord([rr[target] EXCEPT !.draft = <<f>>])
    BY <1>4, <2>1, GoodDraft
  <2>3. rr' = [rr EXCEPT ![target] = [rr[target] EXCEPT !.draft = <<f>>]]
    BY <1>4, Writes
  <2>4. QED
    BY <1>1, <2>1, <2>2, <2>3, ServerKept
<1>5. CASE UploadDiff \/ CreateEmpty \/ UploadCommit \/ FinalizeCommitSeries
           \/ UploadFile
  BY <1>3, <1>4, <1>5, EditIsGood
<1>6. CASE GetOrCreateDraft
  <2>1. CASE HasDraft(target)
    BY <1>1, <1>6, <2>1, ServerSame DEF GetOrCreateDraft, serverVars
  <2>2. CASE ~HasDraft(target)
    BY <1>3, <1>4, <1>6, <2>2, GoodNow DEF GetOrCreateDraft
  <2>3. QED
    BY <2>1, <2>2
<1>7. CASE UpdateDraft
  <2>1. target \in Existing /\ GoodFields(DraftFields, rr[target])
    BY <1>3, <1>7, EditIsGood
  <2>2. CASE opt.publish
    <3>1. rr' = [rr EXCEPT ![target] = Published(target, DraftFields)]
      BY <1>7, <2>2, Touches DEF UpdateDraft
    <3>2. IsFields(DraftFields)
      BY <2>1, GoodNow, DraftOrNewTypes, DraftFieldsTypes
    <3>3. GoodRecord(Published(target, DraftFields))
      BY <2>1, <3>2, GoodPublished
    <3>4. QED
      BY <1>1, <2>1, <3>1, <3>3, ServerKept
  <2>3. CASE ~opt.publish
    <3>1. WriteDraft(target, DraftFields)
      BY <1>7, <2>3 DEF UpdateDraft, WriteDraft
    <3>2. QED
      BY <1>4, <2>1, <3>1
  <2>4. QED
    BY <2>2, <2>3
<1>8. QED
  BY <1>2, <1>5, <1>6, <1>7 DEF Edits

LEMMA ServerStep ==
  TypeInv /\ PlanInv /\ DiffInv /\ ServerInv /\ [Next]_vars => ServerInv'
<1>1. SUFFICES ASSUME TypeInv, PlanInv, DiffInv, ServerInv, [Next]_vars
               PROVE  ServerInv'
  OBVIOUS
<1>2. CASE Start \/ Reads \/ Ends \/ Commits \/ UNCHANGED vars
  <2>1. UNCHANGED <<setup, rr>>
    BY <1>2
       DEF Start, Reads, Ends, Commits, vars, serverVars, RefuseOptions,
           NoMatch, RefuseRequest, RefuseDiff, Fail, ParseOptions, FetchPage,
           TakeMatch, AskAboutMatches, Confirm, Decline, FetchRequest,
           MakeDiff, ValidateSquashedDiff, ValidateCommit, UseExisting,
           SkipDiff, GetDraft, StampCommit, SkipStamp, NothingToUpdate
  <2>2. QED
    BY <1>1, <2>1, ServerSame
<1>3. CASE Edits
  BY <1>1, <1>3, EditKeepsServer
<1>4. CASE OnTheWeb
  <2>1. PICK r, record :
          r \in Existing /\ WebRecord(r, record) /\ WebChange(r, record)
    BY <1>4, WebSteps
  <2>2. UNCHANGED setup /\ rr' = [rr EXCEPT ![r] = record]
    BY <2>1, Touches DEF WebChange
  <2>3. r \in Request /\ DOMAIN rr = Request
    BY <1>1, <2>1 DEF Existing, TypeInv, TypeOK
  <2>4. QED
    BY <1>1, <2>1, <2>2, <2>3, WebIsGood, ServerKept
<1>5. QED
  BY <1>1, <1>2, <1>3, <1>4, NextSteps

(* The commits of a range are finitely many, and an entry is made of each *)
LEMMA EntriesOf ==
  ASSUME RepoType, NEW r, CommitHistory(repo, r) # None
  PROVE  /\ Len(CommitHistory(repo, r)) \in Nat \ {0}
         /\ DOMAIN CommitHistory(repo, r) = 1..Len(CommitHistory(repo, r))
<1> DEFINE S == RevList(repo, {r.tip}, {r.base})
           n == Cardinality(S)
           commits == OldestFirst(repo, r.tip, r.base)
<1>1. n \in Nat
  <2>1. Commit(repo) = 1..Len(repo.parents) /\ Len(repo.parents) \in Nat
    BY DEF RepoType, IsHistory, Commit
  <2>2. IsFiniteSet(Commit(repo))
    BY <2>1, FS_Interval
  <2>3. S \subseteq Commit(repo)
    BY DEF RevList
  <2>4. QED
    BY <2>2, <2>3, FS_Subset, FS_CardinalityType
<1> DEFINE entry(c) == [commit_id |-> c, parent_id |-> FirstParent(repo, c),
                        diff |-> DiffBetween(repo, FirstParent(repo, c), c)]
           entries == [i \in DOMAIN commits |-> entry(commits[i])]
<1>2. commits = [i \in 1..n |-> Nth(S, i)]
  BY DEF OldestFirst
<1>3. commits # <<>> /\ CommitHistory(repo, r) = entries
  BY DEF CommitHistory
<1> HIDE DEF S, n
<1>4. n # 0
  BY <1>2, <1>3
<1> HIDE DEF commits, entry
<1>5. DOMAIN commits = 1..n
  BY <1>2
<1> DEFINE result == CommitHistory(repo, r)
<1> HIDE DEF result
<1>6. result = [i \in 1..n |-> entry(commits[i])]
  BY <1>3, <1>5 DEF result
<1>7. DOMAIN result = 1..n /\ Len(result) = n
  BY <1>1, <1>6
<1>8. QED
  BY <1>1, <1>4, <1>7 DEF result

(* A review request stays, of the kind it was created with *)
LEMMA KindIsFixed ==
  ASSUME TypeInv, [Next]_vars, NEW r \in Existing
  PROVE  rr'[r].created_with_history = rr[r].created_with_history
<1>1. /\ DOMAIN rr = Request /\ Existing \subseteq Request
      /\ None \notin Request /\ IsRequest(rr[r]) /\ r \in Request
  BY PostAssumption DEF TypeInv, TypeOK, Existing
<1>2. CASE Start \/ Reads \/ Ends \/ Commits \/ UNCHANGED vars
  BY <1>2
     DEF Start, Reads, Ends, Commits, vars, serverVars, RefuseOptions,
         NoMatch, RefuseRequest, RefuseDiff, Fail, ParseOptions, FetchPage,
         TakeMatch, AskAboutMatches, Confirm, Decline, FetchRequest,
         MakeDiff, ValidateSquashedDiff, ValidateCommit, UseExisting,
         SkipDiff, GetDraft, StampCommit, SkipStamp, NothingToUpdate
<1>3. ASSUME NEW q \in Request, NEW f, WriteDraft(q, f)
      PROVE  rr'[r].created_with_history = rr[r].created_with_history
  <2>1. rr' = [rr EXCEPT ![q] = [rr[q] EXCEPT !.draft = <<f>>]]
    BY <1>3, Writes
  <2>2. QED
    BY <1>1, <2>1 DEF IsRequest
<1>4. ASSUME NEW q, NEW f
      PROVE  Published(q, f).created_with_history = rr[q].created_with_history
             \/ ~IsRequest(rr[q])
  <2> DEFINE g == [f EXCEPT !.diff = IF HasDiff(f) THEN @
                                     ELSE rr[q].current.diff]
  <2>1. Published(q, f) = [rr[q] EXCEPT !.current = g, !.draft = <<>>]
    BY DEF Published
  <2> HIDE DEF g
  <2>2. QED
    BY <2>1 DEF IsRequest
<1>5. CASE Edits
  <2>1. CASE CreateRequest
    <3>1. PICK q \in Request \ Existing : Touch(q, NewRequest)
      BY <2>1 DEF CreateRequest
    <3>2. QED
      BY <1>1, <3>1, Touches
  <2>2. ASSUME ~CreateRequest PROVE target \in Existing
    BY <1>1, <1>5, <2>2
       DEF TypeInv, TypeOK, Uploading, Edits, UploadDiff, GetOrCreateDraft,
           CreateEmpty, UploadCommit, FinalizeCommitSeries, UploadFile,
           UpdateDraft
  <2>3. CASE UpdateDraft
    <3>1. CASE opt.publish
      <4>1. rr' = [rr EXCEPT ![target] = Published(target, DraftFields)]
        BY <2>3, <3>1, Touches DEF UpdateDraft
      <4>2. QED
        BY <1>1, <1>4, <4>1
    <3>2. CASE ~opt.publish
      <4>1. WriteDraft(target, DraftFields)
        BY <2>3, <3>2 DEF UpdateDraft, WriteDraft
      <4>2. target \in Request
        BY <1>1, <2>2, <2>3, <4>1 DEF UpdateDraft, CreateRequest
      <4>3. QED
        BY <1>3, <4>1, <4>2
    <3>3. QED
      BY <3>1, <3>2
  <2>4. CASE \/ UploadDiff \/ GetOrCreateDraft \/ CreateEmpty
             \/ UploadCommit \/ FinalizeCommitSeries \/ UploadFile
    <3>1. target \in Request
      BY <1>1, <2>4
         DEF TypeInv, TypeOK, Uploading, UploadDiff, GetOrCreateDraft,
             CreateEmpty, UploadCommit, FinalizeCommitSeries, UploadFile
    <3>2. UNCHANGED rr \/ \E f : WriteDraft(target, f)
      BY <2>4 DEF UploadDiff, GetOrCreateDraft, CreateEmpty, UploadCommit,
                  FinalizeCommitSeries, UploadFile, serverVars
    <3>3. QED
      BY <1>3, <3>1, <3>2
  <2>5. QED
    BY <1>5, <2>1, <2>3, <2>4 DEF Edits
<1>6. CASE OnTheWeb
  <2>1. PICK q, record :
          q \in Existing /\ WebRecord(q, record) /\ WebChange(q, record)
    BY <1>6, WebSteps
  <2>2. rr' = [rr EXCEPT ![q] = record]
    BY <2>1, Touches DEF WebChange
  <2>3. IsRequest(rr[q])
    BY <2>1 DEF TypeInv, TypeOK, Existing
  <2>4. record.created_with_history = rr[q].created_with_history
    <3>1. CASE HasDraft(q) /\ record = Published(q, Draft(q))
      BY <1>4, <2>3, <3>1
    <3>2. CASE record = [rr[q] EXCEPT !.draft = <<>>]
      BY <2>3, <3>2 DEF IsRequest
    <3>3. CASE \E f : record = [rr[q] EXCEPT !.draft = <<f>>]
      BY <2>3, <3>3 DEF IsRequest
    <3>4. CASE \E status : record = [rr[q] EXCEPT !.status = status]
      BY <2>3, <3>4 DEF IsRequest
    <3>5. QED
      BY <2>1, <3>1, <3>2, <3>3, <3>4 DEF WebRecord
  <2>5. QED
    BY <1>1, <2>2, <2>4
<1>7. QED
  BY <1>2, <1>5, <1>6, NextSteps

(* The diff that is made, of the kind the review request asks for *)
LEMMA MadePlan ==
  ASSUME TypeInv, ServerInv, PlanInv, MakeDiff
  PROVE  KindOfPlan' /\ FitsTarget' /\ ValidatedInv'
<1>1. /\ stage = "diffing" /\ ~HasNothingToPost(DiffToPost)
      /\ plan' = DiffToPost /\ validated' = <<<<>>>>
      /\ stage' = "validating" /\ UNCHANGED <<setup, target, rr>>
  BY DEF MakeDiff, Goto, serverVars
<1>2. target # None =>
        /\ fetched.created_with_history = rr[target].created_with_history
        /\ rr[target].created_with_history => cap.history /\ ~cap.changesets
  BY <1>1 DEF PlanInv, TypeInv, TypeOK, ServerInv, GoodRecord
<1>3. CASE opt.diff_filename
  <2>1. /\ plan'.kind = "file" /\ plan'.entries = <<>>
        /\ plan'.changenum = None
    BY <1>1, <1>3 DEF DiffToPost, FileDiff
  <2>2. QED
    BY <2>1 DEF KindOfPlan, FitsTarget, ValidatedInv
<1>4. CASE ~opt.diff_filename /\ WithHistory
  <2>1. plan' = DiffHistory
    BY <1>1, <1>4 DEF DiffToPost
  <2>2. /\ plan'.kind = "history" /\ plan'.changenum = None
        /\ plan'.entries = CommitHistory(repo, revisions)
    BY <2>1 DEF DiffHistory
  <2>3. plan'.entries # None
    BY <1>1, <2>2 DEF HasNothingToPost
  <2>4. /\ Len(plan'.entries) \in Nat \ {0}
        /\ DOMAIN plan'.entries = 1..Len(plan'.entries)
    BY <2>2, <2>3, EntriesOf DEF TypeInv
  <2>5. cap.history /\ ~cap.changesets
    BY <1>2, <1>4 DEF WithHistory, SupportsCommitHistory
  <2>6. FitsTarget'
    BY <1>1, <1>2, <1>4, <2>2 DEF WithHistory, FitsTarget
  <2>7. KindOfPlan'
    BY <1>1, <2>2, <2>4, <2>5 DEF KindOfPlan, cap
  <2>8. ValidatedInv'
    <3> DEFINE v == validated'
               e == plan'.entries
               m == Len(plan'.entries)
    <3>1. v = <<<<>>>> /\ Len(v) = 1 /\ DOMAIN v = 1..1 /\ v[1] = <<>>
      BY <1>1
    <3>2. [j \in 1..(1 - 1) |-> e[j].commit_id] = <<>>
      OBVIOUS
    <3>3. m \in Nat \ {0}
      BY <2>4
    <3> HIDE DEF v, e, m
    <3>4. Len(v) \in 1..(m + 1) /\ Len(v) <= m
      BY <3>1, <3>3
    <3>5. v = [k \in 1..Len(v) |-> [j \in 1..(k - 1) |-> e[j].commit_id]]
      BY <3>1, <3>2
    <3>6. QED
      BY <1>1, <3>1, <3>4, <3>5 DEF ValidatedInv, Known, v, e, m
  <2>9. QED
    BY <2>6, <2>7, <2>8
<1>5. CASE ~opt.diff_filename /\ ~WithHistory
  <2>1. plan' = SquashedDiff
    BY <1>1, <1>5 DEF DiffToPost
  <2>2. /\ plan'.kind = "squashed" /\ plan'.entries = <<>>
        /\ plan'.changenum # None => cap.changesets
    BY <2>1 DEF SquashedDiff
  <2>3. target # None => ~rr[target].created_with_history
    BY <1>2, <1>5 DEF WithHistory
  <2>4. QED
    BY <1>1, <2>2, <2>3 DEF KindOfPlan, FitsTarget, ValidatedInv, cap
<1>6. QED
  BY <1>3, <1>4, <1>5

(* What is known of one more commit *)
LEMMA NextKnown ==
  ASSUME PlanInv, ValidateCommit
  PROVE  ValidatedInv'
<1>1. /\ stage = "validating" /\ plan.kind = "history" /\ UNCHANGED plan
      /\ validated' = Append(validated, Append(validated[Len(validated)],
                               plan.entries[Len(validated)].commit_id))
      /\ stage' = IF Len(validated') > Len(plan.entries)
                  THEN AfterValidation ELSE "validating"
  BY DEF ValidateCommit, Goto
<1> DEFINE v == validated
           k == Len(validated)
           m == Len(plan.entries)
           known == Append(v[k], plan.entries[k].commit_id)
<1>2. k \in 1..m /\ m \in Nat /\ v = [i \in 1..k |-> Known(i)]
  BY <1>1 DEF PlanInv, Planned, KindOfPlan, ValidatedInv
<1>3. known = Known(k + 1)
  <2>1. v[k] = [j \in 1..(k - 1) |-> plan.entries[j].commit_id]
    BY <1>2 DEF Known
  <2> DEFINE e == plan.entries
             old == v[k]
  <2> HIDE DEF k, e, old
  <2>2. Len(old) = k - 1 /\ \A j \in 1..(k - 1) : old[j] = e[j].commit_id
    BY <1>2, <2>1 DEF old, e
  <2>3. Append(old, e[k].commit_id)
          = [j \in 1..k |-> IF j <= k - 1 THEN old[j] ELSE e[k].commit_id]
    BY <1>2, <2>1, <2>2 DEF old, e
  <2>4. \A j \in 1..k : (IF j <= k - 1 THEN old[j] ELSE e[k].commit_id)
                          = e[j].commit_id
    BY <1>2, <2>2
  <2>5. QED
    BY <1>2, <2>3, <2>4 DEF Known, old, e
<1> HIDE DEF known
<1> DEFINE w == validated'
<1>4. w = [i \in 1..(k + 1) |-> IF i <= k THEN v[i] ELSE known]
      /\ DOMAIN v = 1..k /\ \A i \in 1..k : v[i] = Known(i)
  <2>1. w = Append(v, known) /\ Len(v) = k
    BY <1>1 DEF known
  <2> HIDE DEF w, v, k, m
  <2>2. k \in Nat
    BY <1>2
  <2>3. QED
    BY <1>2, <2>1, <2>2
<1> HIDE DEF w, v, k, m
<1>5. k \in Nat /\ w = [i \in 1..(k + 1) |-> Known(i)] /\ Len(w) = k + 1
  <2>1. k \in Nat
    BY <1>2
  <2>2. \A i \in 1..(k + 1) :
          (IF i <= k THEN v[i] ELSE known) = Known(i)
    BY <1>3, <1>4, <2>1
  <2>3. w = [i \in 1..(k + 1) |-> Known(i)]
    BY <1>4, <2>2
  <2>4. QED
    BY <2>1, <2>3
<1>6. \A i : Known(i)' = Known(i)
  BY <1>1 DEF Known
<1>7. stage' # "validating" <=> k + 1 > m
  BY <1>1, <1>5 DEF AfterValidation, w, m
<1>8. QED
  BY <1>1, <1>2, <1>5, <1>6, <1>7 DEF ValidatedInv, w, m

(* The diff, the review request and what was validated, once made, stay *)
LEMMA PlanKept ==
  ASSUME TypeInv, PlanInv, [Next]_vars,
         UNCHANGED <<setup, plan, validated, target>>,
         \/ stage' = stage /\ UNCHANGED fetched
         \/ stage \in Planned \ {"validating"} /\ stage' \in Uploading,
         stage' \in {"empty", "commits"} => plan.kind = "history"
  PROVE  PlanInv'
<1>1. stage \in Planned => KindOfPlan' /\ ValidatedInv'
  BY DEF PlanInv, KindOfPlan, ValidatedInv, Known, cap, Uploading, Planned
<1>2. ASSUME target # None, stage \in Planned \cup {"diffing"}
      PROVE  rr'[target].created_with_history = rr[target].created_with_history
  <2>1. target \in Existing
    BY <1>2 DEF TypeInv, TypeOK, Planned, Uploading
  <2>2. QED
    BY <2>1, KindIsFixed
<1>3. stage \in Planned => FitsTarget'
  BY <1>2 DEF PlanInv, FitsTarget
<1>4. stage' = "creating" => target' = None
  BY DEF PlanInv, Uploading
<1>5. stage' = "diffing" /\ target' # None =>
        fetched'.created_with_history = rr'[target'].created_with_history
  BY <1>2 DEF PlanInv, Uploading
<1>6. stage' \in Planned => stage \in Planned
  BY DEF Uploading, Planned
<1>7. QED
  BY <1>1, <1>3, <1>4, <1>5, <1>6 DEF PlanInv

LEMMA PlanStep ==
  TypeInv /\ ServerInv /\ PlanInv /\ [Next]_vars => PlanInv'
<1>1. SUFFICES ASSUME TypeInv, ServerInv, PlanInv, [Next]_vars
               PROVE  PlanInv'
  OBVIOUS
<1>2. ASSUME stage' \in {"options", "listing", "matching", "asking",
                         "fetching", "failed"} PROVE PlanInv'
  BY <1>2 DEF PlanInv, Planned, Uploading
<1>3. CASE Start \/ Ends
  BY <1>2, <1>3 DEF Start, Ends, RefuseOptions, NoMatch, RefuseRequest,
                    RefuseDiff, Fail, Abort, Goto
<1>4. CASE FetchPage \/ TakeMatch \/ AskAboutMatches \/ Confirm \/ Decline
  BY <1>2, <1>4 DEF FetchPage, TakeMatch, AskAboutMatches, Confirm, Decline,
                    Goto
<1>5. CASE ParseOptions
  BY <1>5 DEF ParseOptions, Goto, Updates, PlanInv, Planned, Uploading
<1>6. CASE FetchRequest
  BY <1>6 DEF FetchRequest, Goto, serverVars, PlanInv, Planned, Uploading
<1>7. CASE MakeDiff
  <2>1. KindOfPlan' /\ FitsTarget' /\ ValidatedInv' /\ stage' = "validating"
    BY <1>1, <1>7, MadePlan DEF MakeDiff, Goto
  <2>2. QED
    BY <2>1 DEF PlanInv
<1>8. ASSUME ValidateSquashedDiff \/ ValidateCommit
      PROVE  PlanInv'
  <2>1. /\ UNCHANGED <<setup, rr, target, plan>> /\ stage = "validating"
        /\ stage' \in {"validating", AfterValidation}
    BY <1>8 DEF ValidateSquashedDiff, ValidateCommit, Goto, planVars,
                serverVars
  <2>2. KindOfPlan' /\ FitsTarget'
    BY <1>1, <2>1 DEF PlanInv, Planned, KindOfPlan, FitsTarget, cap
  <2>3. ValidatedInv'
    <3>1. CASE ValidateCommit
      BY <1>1, <3>1, NextKnown
    <3>2. CASE ValidateSquashedDiff
      BY <3>2 DEF ValidateSquashedDiff, planVars, ValidatedInv
    <3>3. QED
      BY <1>8, <3>1, <3>2
  <2>4. QED
    BY <2>1, <2>2, <2>3 DEF PlanInv, AfterValidation
<1>9. CASE CreateRequest
  <2>1. PICK r \in Request \ Existing : Touch(r, NewRequest) /\ target' = r
    BY <1>9 DEF CreateRequest
  <2>2. rr' = [rr EXCEPT ![r] = NewRequest] /\ DOMAIN rr = Request
    BY <1>1, <2>1, Touches DEF TypeInv, TypeOK
  <2>3. /\ UNCHANGED <<setup, plan, validated>> /\ stage = "creating"
        /\ stage' = "uploading"
    BY <1>9 DEF CreateRequest, Goto, planVars
  <2>4. rr'[target'].created_with_history <=> plan.kind = "history"
    BY <2>1, <2>2 DEF NewRequest
  <2>5. KindOfPlan' /\ FitsTarget' /\ ValidatedInv'
    BY <1>1, <2>3, <2>4
       DEF PlanInv, Planned, KindOfPlan, FitsTarget, ValidatedInv, Known, cap
  <2>6. QED
    BY <2>3, <2>5 DEF PlanInv
<1>10. CASE UseExisting
  <2>1. PICK r \in Existing : InUse(r) /\ target' = r
    BY <1>10 DEF UseExisting
  <2>2. /\ UNCHANGED <<setup, rr, plan, validated>> /\ stage = "creating"
        /\ stage' = "uploading"
    BY <1>10 DEF UseExisting, Goto, planVars, serverVars
  <2>3. plan.kind = "squashed" /\ cap.changesets
    BY <1>1, <2>1, <2>2 DEF PlanInv, Planned, KindOfPlan, InUse
  <2>4. ~rr[r].created_with_history
    BY <1>1, <2>1, <2>3 DEF ServerInv, GoodRecord
  <2>5. KindOfPlan' /\ FitsTarget' /\ ValidatedInv'
    BY <1>1, <2>1, <2>2, <2>3, <2>4
       DEF PlanInv, Planned, KindOfPlan, FitsTarget, ValidatedInv, cap
  <2>6. QED
    BY <2>2, <2>5 DEF PlanInv
<1>11. CASE SkipDiff \/ GetDraft \/ StampCommit \/ SkipStamp
            \/ NothingToUpdate \/ UploadDiff \/ GetOrCreateDraft
            \/ CreateEmpty \/ UploadCommit \/ FinalizeCommitSeries
            \/ UploadFile \/ UpdateDraft
  <2>1. /\ UNCHANGED <<setup, plan, validated, target>>
        /\ stage \in Planned \ {"validating"} /\ stage' \in Uploading
        /\ stage' \in {"empty", "commits"} => plan.kind = "history"
    BY <1>1, <1>11
       DEF PlanInv, Planned, Uploading, Goto, planVars, SkipDiff, GetDraft,
           StampCommit, SkipStamp, NothingToUpdate, UploadDiff,
           GetOrCreateDraft, CreateEmpty, UploadCommit, FinalizeCommitSeries,
           UploadFile, UpdateDraft
  <2>2. QED
    BY <1>1, <2>1, PlanKept
<1>12. CASE OnTheWeb \/ Commits \/ UNCHANGED vars
  <2>1. UNCHANGED <<setup, plan, validated, target, fetched, stage>>
    BY <1>12 DEF OnTheWeb, WebChange, Commits, vars, commandVars, planVars
  <2>2. QED
    BY <1>1, <2>1, PlanKept DEF PlanInv
<1>13. QED
  BY <1>1, <1>3, <1>4, <1>5, <1>6, <1>7, <1>8, <1>9, <1>10, <1>11, <1>12,
     NextSteps DEF Reads, Edits

(* What is being posted, and what the draft becomes when it is written *)
LEMMA SamePlan ==
  ASSUME UNCHANGED <<setup, plan>>
  PROVE  /\ ToUpload' = ToUpload /\ FilesToUpload' = FilesToUpload
         /\ BaseCommitId' = BaseCommitId
         /\ \A n : FirstUploads(n)' = FirstUploads(n)
         /\ \A n : PartDiff(n)' = PartDiff(n)
         /\ files' = files => WholeDiff' = WholeDiff
         /\ run' = run => (ChangeOnly' <=> ChangeOnly) /\ opt' = opt
<1>1. ToUpload' = ToUpload /\ FilesToUpload' = FilesToUpload
      /\ BaseCommitId' = BaseCommitId
  BY DEF ToUpload, FilesToUpload, BaseCommitId, cap
<1>2. \A n : FirstUploads(n)' = FirstUploads(n)
  BY <1>1 DEF FirstUploads
<1>3. \A n : PartDiff(n)' = PartDiff(n)
  BY <1>1, <1>2 DEF PartDiff, Posted
<1>4. files' = files => WholeDiff' = WholeDiff
  BY <1>1 DEF WholeDiff
<1>5. run' = run => (ChangeOnly' <=> ChangeOnly) /\ opt' = opt
  BY DEF ChangeOnly, cap, opt
<1>6. QED
  BY <1>1, <1>2, <1>3, <1>4, <1>5

LEMMA Written ==
  ASSUME TypeInv, target \in Existing, UNCHANGED target, NEW f,
         WriteDraft(target, f)
  PROVE  /\ HasDraft(target)' /\ Draft(target)' = f
         /\ HasDraftDiff' <=> HasDiff(f)
<1>1. /\ rr' = [rr EXCEPT ![target] = [rr[target] EXCEPT !.draft = <<f>>]]
      /\ target \in DOMAIN rr /\ IsRequest(rr[target])
  BY Writes DEF TypeInv, TypeOK, Existing
<1>2. rr'[target].draft = <<f>>
  BY <1>1 DEF IsRequest
<1>3. HasDraft(target)' /\ Draft(target)' = f
  BY <1>2 DEF HasDraft, Draft
<1>4. QED
  BY <1>3 DEF HasDraftDiff, HasDiff

(* Nothing but another edit of the owner happens to what is posted *)
LEMMA DiffKept ==
  ASSUME DiffInv,
         UNCHANGED <<setup, run, plan, sent, files, target, stage>>,
         HasDraftDiff' =>
           HasDraftDiff /\ Draft(target)'.diff = Draft(target).diff,
         target \notin disturbed' =>
           target \notin disturbed /\ rr'[target] = rr[target]
  PROVE  DiffInv'
<1>1. /\ WholeDiff' = WholeDiff /\ PartDiff(sent)' = PartDiff(sent)
      /\ FilesToUpload' = FilesToUpload /\ (ChangeOnly' <=> ChangeOnly)
      /\ opt' = opt
  BY SamePlan
<1>2. target \notin disturbed' =>
        /\ HasDraft(target)' <=> HasDraft(target)
        /\ HasDraftDiff' <=> HasDraftDiff
        /\ Draft(target)' = Draft(target)
  BY DEF HasDraft, HasDraftDiff, Draft, HasDiff
<1>3. QED
  BY <1>1, <1>2 DEF DiffInv

LEMMA UploadDiffs ==
  ASSUME TypeInv, PlanInv, DiffInv, target \in Existing, KindOfPlan,
         UploadDiff
  PROVE  DiffInv'
<1> DEFINE f == [DraftOrNew(target) EXCEPT !.diff = Posted(plan.diff, <<>>)]
<1>1. /\ WriteDraft(target, f) /\ plan.kind # "history" /\ ~ChangeOnly
      /\ stage = "uploading" /\ stage' = "files" /\ files' = FilesToUpload
      /\ UNCHANGED <<setup, plan, run, sent, target>>
  BY DEF UploadDiff, ChangeOnly, Goto
<1>2. IsFields(DraftOrNew(target))
  BY DraftOrNewTypes DEF TypeInv, TypeOK, Existing
<1>3. f.diff = Posted(plan.diff, <<>>)
  BY <1>2 DEF IsFields
<1> HIDE DEF f
<1>4. ToUpload = <<>>
  <2>1. Len(plan.entries) = 0
    BY <1>1 DEF KindOfPlan
  <2>2. QED
    BY <2>1 DEF ToUpload
<1>5. f.diff = WholeDiff'
  <2>1. FilesToUpload' \ files' = {}
    BY <1>1, SamePlan
  <2>2. WholeDiff' = [kind |-> plan.kind, base_commit_id |-> BaseCommitId,
                      parent_diff |-> plan.parent_diff, diff |-> plan.diff,
                      commits |-> <<>>, attached |-> {}]
    BY <1>1, <1>4, <2>1, SamePlan DEF WholeDiff
  <2>3. QED
    BY <1>1, <1>3, <2>2 DEF Posted
<1>6. HasDiff(f)
  BY <1>1, <1>3 DEF HasDiff, Posted, KindOfPlan
<1>7. /\ HasDraftDiff' /\ Draft(target)'.diff = WholeDiff'
      /\ files' \subseteq FilesToUpload' /\ ~ChangeOnly'
  BY <1>1, <1>5, <1>6, SamePlan, Written
<1>8. QED
  BY <1>1, <1>7 DEF DiffInv

LEMMA EmptyDiffs ==
  ASSUME TypeInv, PlanInv, DiffInv, target \in Existing, KindOfPlan,
         CreateEmpty
  PROVE  DiffInv'
<1> DEFINE f == [Draft(target) EXCEPT !.diff = Posted(None, <<>>)]
<1>1. /\ WriteDraft(target, f) /\ HasDraft(target)
      /\ stage = "empty" /\ stage' = "commits"
      /\ UNCHANGED <<setup, plan, run, sent, target>>
  BY DEF CreateEmpty, Goto, planVars
<1>2. IsFields(Draft(target))
  BY <1>1, DraftOrNewTypes DEF TypeInv, TypeOK, Existing
<1>3. f.diff = Posted(None, <<>>)
  BY <1>2 DEF IsFields
<1> HIDE DEF f
<1>4. sent = 0 /\ FirstUploads(0) = <<>>
  BY <1>1 DEF DiffInv, FirstUploads
<1>5. HasDraftDiff' /\ Draft(target)'.diff = PartDiff(sent)'
  <2>1. f.diff = PartDiff(sent)
    BY <1>3, <1>4 DEF PartDiff
  <2>2. PartDiff(sent)' = PartDiff(sent)
    BY <1>1, SamePlan
  <2>3. HasDiff(f)
    BY <1>3 DEF HasDiff, Posted, KindOfPlan
  <2>4. QED
    BY <1>1, <2>1, <2>2, <2>3, Written
<1>6. sent' \in 0..Len(plan'.entries)
  BY <1>1, <1>4 DEF KindOfPlan
<1>7. QED
  BY <1>1, <1>5, <1>6 DEF DiffInv

LEMMA CommitDiffs ==
  ASSUME TypeInv, PlanInv, DiffInv, target \in Existing, KindOfPlan,
         ValidatedInv, UploadCommit
  PROVE  DiffInv'
<1> DEFINE commit == [commit_id |-> plan.entries[sent + 1].commit_id,
                      parent_id |-> plan.entries[sent + 1].parent_id,
                      diff |-> plan.entries[sent + 1].diff,
                      info |-> validated[sent + 1]]
           f == [Draft(target) EXCEPT !.diff.commits = Append(@, commit)]
<1>1. /\ WriteDraft(target, f) /\ HasDraftDiff /\ HasDraft(target)
      /\ stage = "commits" /\ stage' = "commits" /\ sent' = sent + 1
      /\ sent < Len(plan.entries) /\ plan.kind = "history"
      /\ UNCHANGED <<setup, plan, run, target>>
  BY DEF UploadCommit, HasDraftDiff, PlanInv
<1>2. IsFields(Draft(target))
  BY <1>1, DraftOrNewTypes DEF TypeInv, TypeOK, Existing
<1>3. Len(plan.entries) \in Nat /\ sent \in 0..Len(plan.entries)
      /\ Draft(target).diff = PartDiff(sent)
  BY <1>1 DEF DiffInv, KindOfPlan
<1>4. sent \in Nat /\ sent + 1 \in 0..Len(plan.entries)
  BY <1>1, <1>3
<1>5. Append(FirstUploads(sent), commit) = FirstUploads(sent + 1)
  BY <1>1, <1>4, NextUpload
<1>6. f.diff = [PartDiff(sent) EXCEPT !.commits = Append(@, commit)]
  BY <1>2, <1>3 DEF IsFields
<1> HIDE DEF f, commit
<1>7. f.diff = PartDiff(sent + 1)
  BY <1>5, <1>6 DEF PartDiff, Posted
<1>8. HasDiff(f)
  BY <1>1, <1>7 DEF HasDiff, PartDiff, Posted
<1>9. PartDiff(sent)' = f.diff
  <2>1. f.diff = Posted(None, FirstUploads(sent + 1))
    BY <1>7 DEF PartDiff
  <2>2. FirstUploads(sent)' = FirstUploads(sent + 1)
    BY <1>1, SamePlan DEF FirstUploads
  <2>3. QED
    BY <1>1, <2>1, <2>2, SamePlan DEF PartDiff, Posted
<1>10. HasDraftDiff' /\ Draft(target)'.diff = PartDiff(sent)'
  BY <1>1, <1>8, <1>9, Written
<1>11. QED
  BY <1>1, <1>4, <1>10 DEF DiffInv

LEMMA FinalDiffs ==
  ASSUME TypeInv, PlanInv, DiffInv, target \in Existing, KindOfPlan,
         FinalizeCommitSeries
  PROVE  DiffInv'
<1> DEFINE f == [Draft(target) EXCEPT !.diff.diff = plan.diff,
                                      !.diff.parent_diff = plan.parent_diff]
<1>1. /\ WriteDraft(target, f) /\ HasDraftDiff /\ HasDraft(target)
      /\ stage = "commits" /\ stage' = "files" /\ sent = Len(plan.entries)
      /\ plan.kind = "history" /\ files' = FilesToUpload
      /\ UNCHANGED <<setup, plan, run, target, sent>>
  BY DEF FinalizeCommitSeries, HasDraftDiff, PlanInv, Goto
<1>2. IsFields(Draft(target))
  BY <1>1, DraftOrNewTypes DEF TypeInv, TypeOK, Existing
<1>3. Draft(target).diff = PartDiff(sent)
  BY <1>1 DEF DiffInv
<1>4. f.diff = [[PartDiff(sent) EXCEPT !.diff = plan.diff]
                  EXCEPT !.parent_diff = plan.parent_diff]
  BY <1>2, <1>3 DEF IsFields
<1> HIDE DEF f
<1>5. FirstUploads(sent) = ToUpload
  BY <1>1 DEF FirstUploads, ToUpload
<1>6. f.diff = [kind |-> plan.kind, base_commit_id |-> BaseCommitId,
                parent_diff |-> plan.parent_diff, diff |-> plan.diff,
                commits |-> ToUpload, attached |-> {}]
  BY <1>4, <1>5 DEF PartDiff, Posted
<1>7. WholeDiff' = f.diff
  <2>1. FilesToUpload' \ files' = {}
    BY <1>1, SamePlan
  <2>2. QED
    BY <1>1, <1>6, <2>1, SamePlan DEF WholeDiff
<1>8. HasDiff(f)
  BY <1>1, <1>6 DEF HasDiff
<1>9. ~ChangeOnly'
  BY <1>1, SamePlan DEF ChangeOnly, KindOfPlan
<1>10. /\ HasDraftDiff' /\ Draft(target)'.diff = WholeDiff'
       /\ files' \subseteq FilesToUpload'
  BY <1>1, <1>7, <1>8, SamePlan, Written
<1>11. QED
  BY <1>1, <1>9, <1>10 DEF DiffInv

LEMMA FileDiffs ==
  ASSUME TypeInv, DiffInv, target \in Existing, KindOfPlan, UploadFile
  PROVE  DiffInv'
<1>1. PICK x \in files :
        /\ WriteDraft(target, [Draft(target) EXCEPT
                                 !.diff.attached = @ \cup {x}])
        /\ files' = files \ {x}
  BY DEF UploadFile
<1> DEFINE f == [Draft(target) EXCEPT !.diff.attached = @ \cup {x}]
<1>2. /\ WriteDraft(target, f) /\ HasDraftDiff /\ HasDraft(target)
      /\ stage = "files" /\ stage' = "files"
      /\ UNCHANGED <<setup, plan, run, target, sent>>
  BY <1>1 DEF UploadFile, HasDraftDiff
<1>3. IsFields(Draft(target))
  BY <1>2, DraftOrNewTypes DEF TypeInv, TypeOK, Existing
<1>4. /\ Draft(target).diff = WholeDiff /\ ~ChangeOnly
      /\ files \subseteq FilesToUpload
  BY <1>2 DEF DiffInv
<1>5. f.diff = [WholeDiff EXCEPT !.attached = @ \cup {x}]
  BY <1>3, <1>4 DEF IsFields
<1> HIDE DEF f
<1>6. (FilesToUpload \ files) \cup {x} = FilesToUpload \ files'
  BY <1>1, <1>4
<1>7. f.diff = [kind |-> plan.kind, base_commit_id |-> BaseCommitId,
                parent_diff |-> plan.parent_diff, diff |-> plan.diff,
                commits |-> ToUpload, attached |-> FilesToUpload \ files']
  BY <1>5, <1>6 DEF WholeDiff
<1>8. WholeDiff' = f.diff
  BY <1>2, <1>7, SamePlan DEF WholeDiff
<1>9. HasDiff(f)
  BY <1>7 DEF HasDiff, KindOfPlan
<1>10. /\ HasDraftDiff' /\ Draft(target)'.diff = WholeDiff'
       /\ files' \subseteq FilesToUpload' /\ ~ChangeOnly'
  BY <1>1, <1>2, <1>4, <1>8, <1>9, SamePlan, Written
<1>11. QED
  BY <1>2, <1>10 DEF DiffInv

(* The update of the draft keeps its diff, and publishes it when asked *)
LEMMA UpdatedDiffs ==
  ASSUME TypeInv, DiffInv, target \in Existing, UpdateDraft
  PROVE  DiffInv'
<1>1. /\ stage = "updating" /\ stage' = "posted"
      /\ UNCHANGED <<setup, plan, run, target, sent, files, disturbed>>
  BY DEF UpdateDraft, Goto, planVars
<1>2. SUFFICES ASSUME ~ChangeOnly, target \notin disturbed
               PROVE  /\ files' = {}
                      /\ opt.publish => ~HasDraft(target)'
                           /\ rr'[target].current.diff = WholeDiff
                      /\ ~opt.publish => HasDraft(target)'
                           /\ Draft(target)'.diff = WholeDiff
  BY <1>1, SamePlan DEF DiffInv
<1>3. /\ files = {} /\ HasDraftDiff /\ HasDraft(target)
      /\ Draft(target).diff = WholeDiff
  BY <1>1, <1>2 DEF DiffInv, HasDraftDiff
<1>4. /\ IsFields(DraftOrNew(target)) /\ IsRequest(rr[target])
      /\ target \in DOMAIN rr
  BY DraftOrNewTypes DEF TypeInv, TypeOK, Existing
<1> DEFINE old == DraftOrNew(target)
           f == DraftFields
<1>5. f = [old EXCEPT
             !.text = IF TextToSet = None THEN @ ELSE TextToSet,
             !.commit_id = IF SetsCommitId THEN plan.commit_id ELSE @]
  BY DEF DraftFields
<1>6. IsFields(old) /\ old.diff = WholeDiff
  BY <1>3, <1>4 DEF DraftOrNew
<1> HIDE DEF old, f
<1>7. IsFields(f) /\ f.diff = WholeDiff
  BY <1>5, <1>6 DEF IsFields
<1>8. HasDiff(f)
  BY <1>3, <1>7 DEF HasDraftDiff, HasDiff
<1>9. CASE opt.publish
  <2> DEFINE g == [f EXCEPT !.diff = IF HasDiff(f) THEN @
                                     ELSE rr[target].current.diff]
  <2>1. rr' = [rr EXCEPT ![target] =
                 [rr[target] EXCEPT !.current = g, !.draft = <<>>]]
    BY <1>9, Touches DEF UpdateDraft, Published, f
  <2>2. g.diff = WholeDiff
    BY <1>7, <1>8 DEF IsFields
  <2> HIDE DEF g
  <2>3. rr'[target].draft = <<>> /\ rr'[target].current = g
    BY <1>4, <2>1 DEF IsRequest
  <2>4. QED
    BY <1>1, <1>3, <1>9, <2>2, <2>3 DEF HasDraft
<1>10. CASE ~opt.publish
  <2>1. WriteDraft(target, f)
    BY <1>10 DEF UpdateDraft, WriteDraft, f
  <2>2. HasDraft(target)' /\ Draft(target)' = f
    BY <1>1, <2>1, Written
  <2>3. QED
    BY <1>1, <1>3, <1>7, <1>10, <2>2
<1>11. QED
  BY <1>9, <1>10

(* What the owner does through the web keeps the diff, or disturbs it *)
LEMMA WebDiffs ==
  ASSUME TypeInv, DiffInv, OnTheWeb
  PROVE  DiffInv'
<1>1. PICK r, record :
        r \in Existing /\ WebRecord(r, record) /\ WebChange(r, record)
  BY WebSteps
<1>2. /\ UNCHANGED <<setup, run, plan, sent, files, target, stage>>
      /\ rr' = [rr EXCEPT ![r] = record]
      /\ disturbed' = disturbed \cup {r}
  BY <1>1, Touches DEF WebChange, commandVars, planVars
<1>3. r \in DOMAIN rr /\ IsRequest(rr[r])
  BY <1>1 DEF TypeInv, TypeOK, Existing
<1>4. CASE target # r
  <2>1. rr'[target] = rr[target]
    BY <1>2, <1>4
  <2>2. Draft(target)' = Draft(target) /\ (HasDraft(target)' <=> HasDraft(target))
    BY <1>2, <2>1 DEF Draft, HasDraft
  <2>3. HasDraftDiff' <=> HasDraftDiff
    BY <2>2 DEF HasDraftDiff, HasDiff
  <2>4. QED
    BY <1>2, <1>4, <2>1, <2>2, <2>3, DiffKept
<1>5. CASE target = r
  <2>1. rr'[target] = record /\ target' = target
    BY <1>2, <1>3, <1>5
  <2>2. IsFields(DraftOrNew(r))
    BY <1>3, DraftOrNewTypes DEF TypeInv, TypeOK, Existing
  <2>3. \/ record.draft = <<>> \/ record.draft = rr[r].draft
        \/ record.draft = <<[DraftOrNew(r) EXCEPT !.text = Edited]>>
    <3>1. HasDraft(r) /\ record = Published(r, Draft(r)) => record.draft = <<>>
      <4> DEFINE g == [Draft(r) EXCEPT !.diff =
                         IF HasDiff(Draft(r)) THEN @ ELSE rr[r].current.diff]
      <4>1. Published(r, Draft(r)) = [rr[r] EXCEPT !.current = g, !.draft = <<>>]
        BY DEF Published
      <4> HIDE DEF g
      <4>2. QED
        BY <1>3, <4>1 DEF IsRequest
    <3>2. QED
      BY <1>1, <1>3, <3>1 DEF WebRecord, IsRequest
  <2>4. HasDraftDiff' => HasDraftDiff /\ Draft(target)'.diff = Draft(target).diff
    <3>1. CASE record.draft = <<>>
      BY <2>1, <3>1 DEF HasDraftDiff, HasDraft
    <3>2. CASE record.draft = rr[r].draft
      BY <1>5, <2>1, <3>2 DEF HasDraftDiff, HasDraft, HasDiff, Draft
    <3>3. CASE record.draft = <<[DraftOrNew(r) EXCEPT !.text = Edited]>>
      <4> DEFINE old == DraftOrNew(r)
                 f == [old EXCEPT !.text = Edited]
      <4>1. Draft(target)' = f
        BY <2>1, <3>3 DEF Draft
      <4>2. IsFields(old)
        BY <2>2
      <4> HIDE DEF old
      <4>3. f.diff = old.diff
        BY <4>2 DEF IsFields
      <4> HIDE DEF f
      <4>4. HasDraftDiff' => HasDiff(old)
        BY <4>1, <4>3 DEF HasDraftDiff, HasDiff
      <4>5. ~HasDraft(r) => old.diff = NoDiff
        BY <1>3 DEF old, DraftOrNew, IsRequest, IsFields
      <4>6. HasDraft(r) => old = Draft(r)
        BY DEF old, DraftOrNew
      <4>7. HasDiff(old) => HasDraft(r)
        BY <4>5 DEF HasDiff, NoDiff
      <4>8. QED
        BY <1>5, <4>1, <4>3, <4>4, <4>6, <4>7 DEF HasDraftDiff
    <3>4. QED
      BY <2>3, <3>1, <3>2, <3>3
  <2>5. QED
    BY <1>2, <1>5, <2>4, DiffKept
<1>6. QED
  BY <1>4, <1>5

LEMMA DiffStep ==
  TypeInv /\ PlanInv /\ DiffInv /\ [Next]_vars => DiffInv'
<1>1. SUFFICES ASSUME TypeInv, PlanInv, DiffInv, [Next]_vars PROVE DiffInv'
  OBVIOUS
<1> DEFINE Late == {"commits", "files", "draft", "stamping", "updating",
                    "posted"}
<1>2. ASSUME stage' \notin Late, sent' = 0 PROVE DiffInv'
  BY <1>2 DEF DiffInv
<1>3. CASE Start \/ Ends
  BY <1>2, <1>3 DEF Start, Ends, RefuseOptions, NoMatch, RefuseRequest,
                    RefuseDiff, Fail, Abort, Goto
<1>4. CASE \/ ParseOptions \/ FetchPage \/ TakeMatch \/ AskAboutMatches
           \/ Confirm \/ Decline \/ FetchRequest \/ MakeDiff
           \/ ValidateSquashedDiff \/ ValidateCommit \/ CreateRequest
           \/ UseExisting \/ GetOrCreateDraft
  <2>1. stage \notin Late /\ stage' \notin Late /\ UNCHANGED sent
    BY <1>4 DEF ParseOptions, FetchPage, TakeMatch, AskAboutMatches, Confirm,
                Decline, FetchRequest, MakeDiff, ValidateSquashedDiff,
                ValidateCommit, CreateRequest, UseExisting, GetOrCreateDraft,
                AfterValidation, Goto, planVars
  <2>2. sent = 0
    BY <1>1, <2>1 DEF DiffInv
  <2>3. QED
    BY <1>2, <2>1, <2>2
<1>5. ASSUME stage \in Uploading
      PROVE  target \in Existing /\ KindOfPlan /\ ValidatedInv
  BY <1>1, <1>5 DEF TypeInv, TypeOK, Uploading, PlanInv, Planned
<1>6. CASE UploadDiff
  BY <1>1, <1>5, <1>6, UploadDiffs DEF UploadDiff, Uploading
<1>7. CASE SkipDiff
  <2>1. stage' = "draft" /\ ChangeOnly'
    BY <1>7 DEF SkipDiff, Goto, ChangeOnly, cap, opt
  <2>2. QED
    BY <2>1 DEF DiffInv
<1>8. CASE CreateEmpty
  BY <1>1, <1>5, <1>8, EmptyDiffs DEF CreateEmpty, Uploading
<1>9. CASE UploadCommit
  BY <1>1, <1>5, <1>9, CommitDiffs DEF UploadCommit, Uploading
<1>10. CASE FinalizeCommitSeries
  BY <1>1, <1>5, <1>10, FinalDiffs DEF FinalizeCommitSeries, Uploading
<1>11. CASE UploadFile
  BY <1>1, <1>5, <1>11, FileDiffs DEF UploadFile, Uploading
<1>12. CASE UpdateDraft
  BY <1>1, <1>5, <1>12, UpdatedDiffs DEF UpdateDraft, Uploading
<1>13. CASE GetDraft \/ StampCommit \/ SkipStamp \/ NothingToUpdate
  <2>1. /\ UNCHANGED <<setup, run, rr, plan, sent, files, target, disturbed>>
        /\ stage \in {"files", "draft", "stamping", "updating"}
        /\ stage = "files" => files = {}
        /\ stage' \in {"stamping", "updating", "posted"}
        /\ stage' = "posted" => stage = "updating" /\ ~opt.publish
    BY <1>13 DEF GetDraft, StampCommit, SkipStamp, NothingToUpdate, Goto,
                 planVars, serverVars, HasUpdateFields
  <2>2. /\ WholeDiff' = WholeDiff /\ (ChangeOnly' <=> ChangeOnly)
        /\ opt' = opt /\ (HasDraftDiff' <=> HasDraftDiff)
        /\ (HasDraft(target)' <=> HasDraft(target))
        /\ Draft(target)' = Draft(target)
    BY <2>1, SamePlan DEF HasDraftDiff, HasDraft, Draft, HasDiff
  <2>3. HasDraftDiff => HasDraft(target)
    BY DEF HasDraftDiff
  <2>4. QED
    BY <1>1, <2>1, <2>2, <2>3 DEF DiffInv
<1>14. CASE OnTheWeb
  BY <1>1, <1>14, WebDiffs
<1>15. CASE Commits \/ UNCHANGED vars
  <2>1. UNCHANGED <<setup, run, rr, plan, sent, files, target, stage,
                    disturbed>>
    BY <1>15 DEF Commits, vars, commandVars, planVars, serverVars
  <2>2. Draft(target)' = Draft(target) /\ (HasDraftDiff' <=> HasDraftDiff)
    BY <2>1 DEF HasDraftDiff, HasDraft, Draft, HasDiff
  <2>3. QED
    BY <1>1, <2>1, <2>2, DiffKept
<1>16. QED
  BY <1>1, <1>3, <1>4, <1>6, <1>7, <1>8, <1>9, <1>10, <1>11, <1>12, <1>13,
     <1>14, <1>15, NextSteps DEF Reads, Edits
-----------------------------------------------------------------------------
PostInv == TypeInv /\ ServerInv /\ PlanInv /\ DiffInv

LEMMA PostInvariant == Spec => []PostInv
<1>1. Init => PostInv
  BY InitTypes, InitServer, InitDiff DEF PostInv
<1>2. PostInv /\ [Next]_vars => PostInv'
  BY TypeStep, ServerStep, PlanStep, DiffStep DEF PostInv
<1>3. QED
  BY <1>1, <1>2, PTL DEF Spec

LEMMA GoodVersions ==
  ASSUME TypeInv, ServerInv, NEW r \in Existing, NEW f \in Versions(rr[r])
  PROVE  GoodFields(f, rr[r])
<1>1. IsRequest(rr[r]) /\ GoodRecord(rr[r])
  BY GoodNow
<1>2. CASE f = rr[r].current
  BY <1>1, <1>2 DEF GoodRecord
<1>3. CASE f \in ToSet(rr[r].draft)
  <2>1. PICK i \in DOMAIN rr[r].draft : f = rr[r].draft[i]
    BY <1>3 DEF ToSet
  <2>2. rr[r].draft # <<>> /\ i = 1
    BY <1>1, <2>1 DEF IsRequest
  <2>3. QED
    BY <1>1, <2>1, <2>2 DEF GoodRecord
<1>4. QED
  BY <1>2, <1>3 DEF Versions

(* Diffs of commits are only ever found at review requests created with    *)
(* history, squashed ones only at the others: main decides by the review   *)
(* request it updates, and by the options only for a new one.              *)
THEOREM KindsMatch == Spec => []KindMatches
<1>1. PostInv => KindMatches
  BY GoodVersions DEF PostInv, KindMatches, GoodFields, KindFits
<1>2. QED
  BY <1>1, PostInvariant, PTL

(* Every commit on the server was sent with what the server had said of    *)
(* the commits before it, however the uploads of several runs interleave   *)
(* with failures and with what the owner does.                             *)
THEOREM ValidationIsChained == Spec => []ValidationChains
<1>1. PostInv => ValidationChains
  BY GoodVersions DEF PostInv, ValidationChains, GoodFields
<1>2. QED
  BY <1>1, PostInvariant, PTL

LEMMA WholeIsWhole ==
  ASSUME KindOfPlan, files = {}
  PROVE  IsWhole(WholeDiff)
<1> DEFINE d == WholeDiff
           m == Len(plan.entries)
<1>1. /\ d.kind = plan.kind /\ d.base_commit_id = BaseCommitId
      /\ d.diff = plan.diff /\ d.parent_diff = plan.parent_diff
      /\ d.commits = ToUpload /\ d.attached = FilesToUpload
  BY DEF WholeDiff
<1>2. m \in Nat /\ DOMAIN plan.entries = 1..m
  BY DEF KindOfPlan
<1>3. Len(ToUpload) = m
  BY <1>2 DEF ToUpload
<1>4. ASSUME NEW i \in DOMAIN plan.entries
      PROVE  /\ ToUpload[i].commit_id = plan.entries[i].commit_id
             /\ ToUpload[i].parent_id = plan.entries[i].parent_id
             /\ ToUpload[i].diff = plan.entries[i].diff
  BY <1>2 DEF ToUpload
<1> HIDE DEF d, m
<1>5. IsWhole(d)
  BY <1>1, <1>3, <1>4 DEF IsWhole, m
<1>6. QED
  BY <1>5 DEF d

(* A review request that is reported as posted has the whole diff that was *)
(* made: every commit in order, every binary file, its parent diff and its *)
(* base; where the reader is told to look for it.                          *)
THEOREM PostsTheWholeDiff == Spec => []PostedIsWhole
<1>1. ASSUME PostInv PROVE PostedIsWhole
  <2>1. SUFFICES ASSUME stage = "posted", target \notin disturbed, ~ChangeOnly
                 PROVE  IF opt.publish
                        THEN /\ ~HasDraft(target)
                             /\ IsWhole(rr[target].current.diff)
                        ELSE HasDraft(target) /\ IsWhole(Draft(target).diff)
    BY DEF PostedIsWhole, ChangeOnly
  <2>2. KindOfPlan
    BY <1>1, <2>1 DEF PostInv, PlanInv, Planned, Uploading
  <2>3. /\ files = {}
        /\ opt.publish => ~HasDraft(target)
                          /\ rr[target].current.diff = WholeDiff
        /\ ~opt.publish => HasDraft(target) /\ Draft(target).diff = WholeDiff
    BY <1>1, <2>1 DEF PostInv, DiffInv
  <2>4. QED
    BY <2>2, <2>3, WholeIsWhole
<1>2. QED
  BY <1>1, PostInvariant, PTL
-----------------------------------------------------------------------------
(* How the review request was found, for what may be done to it *)
Fixed == {"diffing"} \cup Planned

ChosenInv ==
  /\ chosen = "named" => opt.rid # None
  /\ chosen \in {"exact", "confirmed"} => Updates(opt)
  /\ stage \in {"listing", "matching", "asking"} =>
       Updates(opt) /\ target = None /\ chosen = "none"
  /\ stage = "fetching" => chosen \in {"named", "exact", "confirmed"}
  /\ stage \in Fixed => (target # None <=> chosen # "none")
  /\ stage \in Fixed /\ target # None /\ target \notin disturbed
       /\ chosen # "in use" => rr[target].status # "submitted"

LEMMA InitChosen == Init => ChosenInv
BY DEF Init, ChosenInv, Fixed, Planned, Uploading

LEMMA PublishedKeeps ==
  ASSUME NEW r, IsRequest(rr[r]), NEW f, IsFields(f)
  PROVE  /\ Published(r, f).status = rr[r].status
         /\ Published(r, f).draft = <<>>
         /\ Published(r, f).current.text = f.text
         /\ Published(r, f).current.commit_id = f.commit_id
<1> DEFINE g == [f EXCEPT !.diff = IF HasDiff(f) THEN @
                                   ELSE rr[r].current.diff]
<1>1. Published(r, f) = [rr[r] EXCEPT !.current = g, !.draft = <<>>]
  BY DEF Published
<1>2. g.text = f.text /\ g.commit_id = f.commit_id
  BY DEF IsFields
<1> HIDE DEF g
<1>3. QED
  BY <1>1, <1>2 DEF IsRequest

(* What an edit leaves as it is: the status, always; the text, unless the  *)
(* update of the draft sets one.                                           *)
LEMMA EditKeeps ==
  ASSUME TypeInv, Edits, ~CreateRequest
  PROVE  /\ target \in Existing /\ target # None /\ stage \in Uploading
         /\ \A r \in Existing : r # target => rr'[r] = rr[r]
         /\ rr'[target].status = rr[target].status
         /\ TextToSet = None \/ ~UpdateDraft =>
              DraftOrCurrent(target)'.text = DraftOrCurrent(target).text
<1>1. target \in Existing /\ target # None /\ stage \in Uploading
      /\ UNCHANGED target
  BY PostAssumption
     DEF TypeInv, TypeOK, Existing, Uploading, Edits, UploadDiff,
         GetOrCreateDraft, CreateEmpty, UploadCommit, FinalizeCommitSeries,
         UploadFile, UpdateDraft
<1>2. /\ IsRequest(rr[target]) /\ target \in DOMAIN rr
      /\ IsFields(DraftOrNew(target))
      /\ HasDraft(target) => IsFields(Draft(target))
  BY <1>1, DraftOrNewTypes DEF TypeInv, TypeOK, Existing
<1>3. HasDraft(target) => Draft(target) = DraftOrNew(target)
  BY DEF DraftOrNew
<1>4. DraftOrNew(target).text = DraftOrCurrent(target).text
  BY <1>2 DEF DraftOrNew, DraftOrCurrent, IsRequest, IsFields
<1> DEFINE old == DraftOrNew(target)
           Goal == /\ \A r \in Existing : r # target => rr'[r] = rr[r]
                   /\ rr'[target].status = rr[target].status
<1>5. ASSUME NEW f, WriteDraft(target, f)
      PROVE  Goal /\ DraftOrCurrent(target)' = f
  <2>1. rr' = [rr EXCEPT ![target] = [rr[target] EXCEPT !.draft = <<f>>]]
    BY <1>5, Writes
  <2>2. Goal
    BY <1>2, <2>1 DEF IsRequest
  <2>3. HasDraft(target)' /\ Draft(target)' = f
    BY <1>1, <1>5, Written
  <2>4. QED
    BY <1>1, <2>2, <2>3 DEF DraftOrCurrent
<1>6. CASE \/ UploadDiff \/ GetOrCreateDraft \/ CreateEmpty \/ UploadCommit
           \/ FinalizeCommitSeries \/ UploadFile
  <2>1. \/ HasDraft(target) /\ UNCHANGED rr
        \/ \E diff : WriteDraft(target, [old EXCEPT !.diff = diff])
        \/ WriteDraft(target, old)
    BY <1>3, <1>6 DEF UploadDiff, GetOrCreateDraft, CreateEmpty, UploadCommit,
           FinalizeCommitSeries, UploadFile, HasDraftDiff, serverVars
  <2>2. IsFields(old) /\ old.text = DraftOrCurrent(target).text
    BY <1>2, <1>4
  <2> HIDE DEF old
  <2>3. \A diff : [old EXCEPT !.diff = diff].text = old.text
    BY <2>2 DEF IsFields
  <2>4. CASE HasDraft(target) /\ UNCHANGED rr
    BY <1>1, <2>4 DEF DraftOrCurrent, HasDraft, Draft
  <2>5. CASE \E diff : WriteDraft(target, [old EXCEPT !.diff = diff])
    <3>1. PICK diff : WriteDraft(target, [old EXCEPT !.diff = diff])
      BY <2>5
    <3> DEFINE f == [old EXCEPT !.diff = diff]
    <3>2. f.text = old.text /\ WriteDraft(target, f)
      BY <2>3, <3>1
    <3> HIDE DEF f
    <3>3. Goal /\ DraftOrCurrent(target)' = f
      BY <1>5, <3>2
    <3>4. QED
      BY <1>1, <2>2, <3>2, <3>3
  <2>6. CASE WriteDraft(target, old)
    BY <1>1, <1>5, <2>2, <2>6
  <2>7. QED
    BY <1>1, <2>1, <2>4, <2>5, <2>6
<1>7. CASE UpdateDraft
  <2> DEFINE f == DraftFields
  <2>1. IsFields(f) /\ (TextToSet = None => f.text = old.text)
    <3>1. f = [old EXCEPT
                 !.text = IF TextToSet = None THEN @ ELSE TextToSet,
                 !.commit_id = IF SetsCommitId THEN plan.commit_id ELSE @]
      BY DEF DraftFields
    <3> HIDE DEF f
    <3>2. IsFields(old)
      BY <1>2
    <3> HIDE DEF old
    <3>3. QED
      BY <3>1, <3>2 DEF IsFields
  <2> HIDE DEF f
  <2>2. CASE opt.publish
    <3>1. rr' = [rr EXCEPT ![target] = Published(target, f)]
      BY <1>7, <2>2, Touches DEF UpdateDraft, f
    <3>2. rr'[target].draft = <<>> /\ rr'[target].current.text = f.text
          /\ rr'[target].status = rr[target].status
      BY <1>2, <2>1, <3>1, PublishedKeeps
    <3>3. DraftOrCurrent(target)'.text = f.text
      BY <1>1, <3>2 DEF DraftOrCurrent, HasDraft
    <3>4. Goal
      BY <3>1, <3>2
    <3>5. QED
      BY <1>1, <1>4, <1>7, <2>1, <3>3, <3>4
  <2>3. CASE ~opt.publish
    <3>1. WriteDraft(target, f)
      BY <1>7, <2>3 DEF UpdateDraft, WriteDraft, f
    <3>2. QED
      BY <1>1, <1>4, <1>5, <1>7, <2>1, <3>1
  <2>4. QED
    BY <2>2, <2>3
<1>8. QED
  BY <1>6, <1>7 DEF Edits

LEMMA ChosenStep ==
  TypeInv /\ ChosenInv /\ [Next]_vars => ChosenInv'
<1>1. SUFFICES ASSUME TypeInv, ChosenInv, [Next]_vars PROVE ChosenInv'
  OBVIOUS
<1> USE DEF Fixed, Planned, Uploading
<1>2. ASSUME UNCHANGED <<setup, run>> PROVE opt' = opt
  BY <1>2 DEF opt
<1>3. CASE Start \/ Ends
  <2>1. chosen' = "none" /\ stage' \in {"options", "failed"}
    BY <1>3 DEF Start, Ends, RefuseOptions, NoMatch, RefuseRequest,
                RefuseDiff, Fail, Abort, Goto
  <2>2. QED
    BY <2>1 DEF ChosenInv
<1>4. CASE ParseOptions
  <2>1. opt' = opt
    BY <1>2, <1>4 DEF ParseOptions
  <2>2. QED
    BY <1>4, <2>1 DEF ParseOptions, Goto, Updates, ChosenInv
<1>5. CASE FetchPage \/ AskAboutMatches \/ Decline
  <2>1. /\ UNCHANGED <<setup, run, target, chosen>>
        /\ stage \in {"listing", "matching", "asking"}
        /\ stage' \in {"listing", "matching", "asking"}
    BY <1>5 DEF FetchPage, AskAboutMatches, Decline, Goto
  <2>2. QED
    BY <1>1, <1>2, <2>1 DEF ChosenInv
<1>6. CASE TakeMatch \/ Confirm
  <2>1. /\ UNCHANGED <<setup, run>> /\ stage \in {"matching", "asking"}
        /\ stage' = "fetching" /\ chosen' \in {"exact", "confirmed"}
    BY <1>6 DEF TakeMatch, Confirm, Goto
  <2>2. QED
    BY <1>1, <1>2, <2>1 DEF ChosenInv
<1>7. CASE FetchRequest
  <2>1. /\ UNCHANGED <<setup, run, rr, target, chosen>>
        /\ stage = "fetching" /\ stage' = "diffing"
        /\ target \in Existing /\ rr[target].status # "submitted"
    BY <1>7 DEF FetchRequest, Goto, serverVars
  <2>2. target # None
    BY <2>1, PostAssumption DEF Existing
  <2>3. chosen \in {"named", "exact", "confirmed"}
    BY <1>1, <2>1 DEF ChosenInv
  <2>4. /\ chosen = "named" => opt'.rid # None
        /\ chosen \in {"exact", "confirmed"} => Updates(opt')
    BY <1>1, <1>2, <2>1 DEF ChosenInv
  <2>5. target' # None /\ rr'[target'].status # "submitted"
    BY <2>1, <2>2
  <2>6. QED
    BY <2>1, <2>3, <2>4, <2>5 DEF ChosenInv
<1>8. CASE CreateRequest
  <2>1. PICK r \in Request \ Existing : Touch(r, NewRequest) /\ target' = r
    BY <1>8 DEF CreateRequest
  <2>2. rr'[r].status = "pending" /\ r # None
    <3>1. rr' = [rr EXCEPT ![r] = NewRequest]
      BY <2>1, Touches
    <3>2. r \in DOMAIN rr
      BY <1>1, <2>1 DEF TypeInv, TypeOK
    <3>3. QED
      BY <2>1, <3>1, <3>2, PostAssumption DEF NewRequest
  <2>3. chosen' = "created" /\ stage' = "uploading"
    BY <1>8 DEF CreateRequest, Goto
  <2>4. QED
    BY <2>1, <2>2, <2>3 DEF ChosenInv
<1>9. CASE UseExisting
  <2>1. chosen' = "in use" /\ stage' = "uploading" /\ target' \in Existing
    BY <1>9 DEF UseExisting, Goto
  <2>2. target' # None
    BY <2>1, PostAssumption DEF Existing
  <2>3. QED
    BY <2>1, <2>2 DEF ChosenInv
<1>10. ASSUME UNCHANGED <<setup, run, target, chosen, disturbed>>,
              stage \in Fixed /\ stage' \in Fixed,
              target # None => rr'[target].status = rr[target].status
       PROVE  ChosenInv'
  BY <1>1, <1>2, <1>10 DEF ChosenInv
<1>11. CASE \/ MakeDiff \/ ValidateSquashedDiff \/ ValidateCommit \/ SkipDiff
            \/ GetDraft \/ StampCommit \/ SkipStamp \/ NothingToUpdate
  <2>1. /\ UNCHANGED <<setup, run, rr, target, chosen, disturbed>>
        /\ stage \in Fixed /\ stage' \in Fixed
    BY <1>11 DEF MakeDiff, ValidateSquashedDiff, ValidateCommit, SkipDiff,
                 GetDraft, StampCommit, SkipStamp, NothingToUpdate, Goto,
                 serverVars, AfterValidation
  <2>2. QED
    BY <1>10, <2>1
<1>12. CASE Edits /\ ~CreateRequest
  <2>1. rr'[target].status = rr[target].status
    BY <1>1, <1>12, EditKeeps
  <2>2. /\ UNCHANGED <<setup, run, target, chosen, disturbed>>
        /\ stage \in Fixed /\ stage' \in Fixed
    BY <1>12 DEF Edits, UploadDiff, GetOrCreateDraft, CreateEmpty,
                 UploadCommit, FinalizeCommitSeries, UploadFile, UpdateDraft,
                 Goto
  <2>3. QED
    BY <1>10, <2>1, <2>2
<1>13. CASE OnTheWeb
  <2>1. PICK r, record :
          r \in Existing /\ WebRecord(r, record) /\ WebChange(r, record)
    BY <1>13, WebSteps
  <2>2. /\ UNCHANGED <<setup, run, target, chosen, stage>>
        /\ rr' = [rr EXCEPT ![r] = record]
        /\ disturbed' = disturbed \cup {r}
    BY <2>1, Touches DEF WebChange, commandVars
  <2>3. target \notin disturbed' => rr'[target] = rr[target]
    BY <2>2
  <2>4. QED
    BY <1>1, <1>2, <2>2, <2>3 DEF ChosenInv
<1>14. CASE Commits \/ UNCHANGED vars
  <2>1. UNCHANGED <<setup, run, rr, target, chosen, stage, disturbed>>
    BY <1>14 DEF Commits, vars, commandVars, serverVars
  <2>2. QED
    BY <1>1, <1>2, <2>1 DEF ChosenInv
<1>15. QED
  BY <1>1, <1>3, <1>4, <1>5, <1>6, <1>7, <1>8, <1>9, <1>11, <1>12, <1>13,
     <1>14, NextSteps DEF Reads

(* What the command writes, it writes to the review request it updates *)
LEMMA CommandWrites ==
  ASSUME TypeInv, [Next]_vars, changes' = changes, NEW r \in Existing,
         rr'[r] # rr[r]
  PROVE  Edits /\ ~CreateRequest /\ r = target
<1>1. ~(Start \/ Reads \/ Ends \/ Commits \/ UNCHANGED vars)
  BY DEF Start, Reads, Ends, Commits, vars, serverVars, RefuseOptions,
         NoMatch, RefuseRequest, RefuseDiff, Fail, ParseOptions, FetchPage,
         TakeMatch, AskAboutMatches, Confirm, Decline, FetchRequest,
         MakeDiff, ValidateSquashedDiff, ValidateCommit, UseExisting,
         SkipDiff, GetDraft, StampCommit, SkipStamp, NothingToUpdate
<1>2. ~OnTheWeb
  <2>1. SUFFICES ASSUME OnTheWeb PROVE FALSE
    OBVIOUS
  <2>2. changes' = changes + 1
    BY <2>1 DEF OnTheWeb, WebChange
  <2>3. changes \in 0..setup.web /\ setup.web \in Nat
    BY SetupAssumption DEF TypeInv, TypeOK
  <2>4. QED
    BY <2>2, <2>3
<1>3. ~CreateRequest
  <2>1. SUFFICES ASSUME CreateRequest PROVE FALSE
    OBVIOUS
  <2>2. PICK q \in Request \ Existing : Touch(q, NewRequest)
    BY <2>1 DEF CreateRequest
  <2>3. rr' = [rr EXCEPT ![q] = NewRequest] /\ q # r
    BY <2>2, Touches
  <2>4. QED
    BY <2>3
<1>4. Edits
  BY <1>1, <1>2, NextSteps
<1>5. QED
  BY <1>3, <1>4, EditKeeps

LEMMA ChosenInvariant == Spec => [](TypeInv /\ ChosenInv)
<1>1. Init => TypeInv /\ ChosenInv
  BY InitTypes, InitChosen
<1>2. TypeInv /\ ChosenInv /\ [Next]_vars => TypeInv' /\ ChosenInv'
  BY TypeStep, ChosenStep
<1>3. QED
  BY <1>1, <1>2, PTL DEF Spec

(* The status is looked at once, long before the last write; still no      *)
(* write of the command meets a submitted review request, unless it was    *)
(* submitted during the run, or the server itself named it.                *)
THEOREM SubmittedIsLeftAlone == Spec => LeavesSubmittedAlone
<1> DEFINE A == \A r \in Existing :
                  changes' = changes /\ rr'[r] # rr[r]
                    /\ rr[r].status = "submitted"
                  => r \in disturbed \/ chosen = "in use"
<1>1. TypeInv /\ ChosenInv /\ [Next]_vars => [A]_vars
  <2>1. SUFFICES ASSUME TypeInv, ChosenInv, [Next]_vars PROVE A
    OBVIOUS
  <2>2. SUFFICES ASSUME NEW r \in Existing, changes' = changes,
                        rr'[r] # rr[r], rr[r].status = "submitted"
                 PROVE  r \in disturbed \/ chosen = "in use"
    OBVIOUS
  <2>3. Edits /\ ~CreateRequest /\ r = target
    BY <2>1, <2>2, CommandWrites
  <2>4. stage \in Uploading /\ target # None
    BY <2>1, <2>3, EditKeeps
  <2>5. QED
    BY <2>1, <2>2, <2>3, <2>4 DEF ChosenInv, Fixed, Planned
<1>2. QED
  BY <1>1, ChosenInvariant, PTL DEF Spec, LeavesSubmittedAlone

(* An update that is given no text and is not told to guess one leaves the *)
(* summary and the description as the owner has them, in the draft or in   *)
(* public, however the review request was found.                           *)
THEOREM TextIsKept == Spec => KeepsUsersText
<1> DEFINE A == \A r \in Existing :
                  changes' = changes
                    /\ chosen \in {"named", "exact", "confirmed"}
                    /\ opt.text = None /\ opt.guess # "yes"
                  => DraftOrCurrent(r)'.text = DraftOrCurrent(r).text
<1>1. TypeInv /\ ChosenInv /\ [Next]_vars => [A]_vars
  <2>1. SUFFICES ASSUME TypeInv, ChosenInv, [Next]_vars PROVE A
    OBVIOUS
  <2>2. SUFFICES ASSUME NEW r \in Existing, changes' = changes,
                        chosen \in {"named", "exact", "confirmed"},
                        opt.text = None, opt.guess # "yes"
                 PROVE  DraftOrCurrent(r)'.text = DraftOrCurrent(r).text
    OBVIOUS
  <2>3. TextToSet = None
    BY <2>1, <2>2 DEF ChosenInv, TextToSet, GuessesText
  <2>4. CASE rr'[r] = rr[r]
    BY <2>4 DEF DraftOrCurrent, HasDraft, Draft
  <2>5. CASE rr'[r] # rr[r]
    <3>1. Edits /\ ~CreateRequest /\ r = target
      BY <2>1, <2>2, <2>5, CommandWrites
    <3>2. target' = target
      BY <3>1 DEF Edits, UploadDiff, GetOrCreateDraft, CreateEmpty,
                  UploadCommit, FinalizeCommitSeries, UploadFile, UpdateDraft
    <3>3. DraftOrCurrent(target)'.text = DraftOrCurrent(target).text
      BY <2>1, <2>3, <3>1, EditKeeps
    <3>4. QED
      BY <3>1, <3>2, <3>3 DEF DraftOrCurrent, HasDraft, Draft
  <2>6. QED
    BY <2>4, <2>5
<1>2. QED
  BY <1>1, ChosenInvariant, PTL DEF Spec, KeepsUsersText
-----------------------------------------------------------------------------
(* The revisions are commits of the history, and the parent base is what   *)
(* was computed of them: commits are added, so that it stays so after a    *)
(* stamp and between two runs.  What was planned starts at a commit.       *)
RemoteBase == YoungestRemoteAncestor(repo, revisions.base)

RevInv ==
  /\ Commit(setup.repository) \subseteq Commit(repo)
  /\ stage \notin Planned => plan = None
  /\ revisions # None =>
       /\ revisions.base \in Commit(repo) /\ revisions.tip \in Commit(repo)
       /\ revisions.parent_base = IF RemoteBase = revisions.base THEN None
                                  ELSE RemoteBase
  /\ Running /\ stage # "options" /\ ~opt.diff_filename => revisions # None
  /\ plan # None /\ plan.kind # "file" =>
       revisions # None /\ plan.base_commit_id \in Commit(repo)

LEMMA OursAreNumbers == RepoType => Commit(repo) \subseteq Nat
BY CommitsAreNumbers DEF RepoType

(* What ParseRevisionSpec, GitDiff and what the plan is made of *)
LEMMA BaseIs ==
  ASSUME RepoType, RevInv, revisions # None
  PROVE  GitDiff(repo, revisions).base_commit_id = RemoteBase
         /\ RemoteBase \in Commit(repo)
<1>1. RemoteBase \in Commit(repo) /\ RemoteBase # None
  BY RemoteAncestorIs, OursAreNumbers, PostAssumption
     DEF RevInv, RemoteBase, RepoType
<1> QED BY <1>1 DEF GitDiff, RevInv

(* The other steps know nothing of revisions *)
LEMMA OtherSteps ==
  ASSUME [Next]_vars,
         ~(Start \/ Ends \/ ParseOptions \/ MakeDiff \/ StampCommit \/ Commits)
  PROVE  /\ UNCHANGED <<setup, repo, run, revisions, plan>>
         /\ stage' # stage => Running /\ stage # "options"
         /\ stage' \notin Planned => stage \notin Planned
<1> USE DEF serverVars, matchVars, planVars, commandVars, Goto, Running,
            Planned, Uploading
<1>1. CASE UNCHANGED vars
  BY <1>1 DEF vars
<1>2. CASE FetchPage \/ TakeMatch \/ AskAboutMatches \/ Confirm \/ Decline
           \/ FetchRequest
  BY <1>2 DEF FetchPage, TakeMatch, AskAboutMatches, Confirm, Decline,
              FetchRequest
<1>3. CASE ValidateSquashedDiff \/ ValidateCommit
  BY <1>3 DEF ValidateSquashedDiff, ValidateCommit, AfterValidation
<1>6. CASE UseExisting \/ SkipDiff \/ GetDraft \/ SkipStamp \/ NothingToUpdate
  BY <1>6 DEF UseExisting, SkipDiff, GetDraft, SkipStamp, NothingToUpdate
<1>4. CASE Edits
  BY <1>4 DEF Edits, CreateRequest, UploadDiff, GetOrCreateDraft, CreateEmpty,
              UploadCommit, FinalizeCommitSeries, UploadFile, UpdateDraft
<1>5. CASE OnTheWeb
  BY <1>5, WebSteps DEF WebChange
<1> QED BY <1>1, <1>2, <1>3, <1>4, <1>5, <1>6, NextSteps DEF Reads

LEMMA RevInit == Init => RevInv
BY DEF Init, RevInv, Running

LEMMA RevStep == TypeInv /\ RevInv /\ [Next]_vars => RevInv'
<1>1. SUFFICES ASSUME TypeInv, RevInv, [Next]_vars PROVE RevInv'
  OBVIOUS
<1>2. RepoType /\ IsHistory(repo)
  BY <1>1 DEF TypeInv, RepoType
<1>3. CASE Start \/ Ends
  <2>1. revisions' = None /\ plan' = None /\ stage' \in {"options", "failed"}
        /\ UNCHANGED <<setup, repo>>
    BY <1>3 DEF Start, Ends, RefuseOptions, NoMatch, RefuseRequest, RefuseDiff,
                Fail, Abort, Goto
  <2> QED BY <1>1, <2>1 DEF RevInv, Running
<1>4. CASE ParseOptions
  <2>1. /\ UNCHANGED <<setup, repo, run, plan>> /\ stage = "options"
        /\ revisions' = IF opt.diff_filename THEN None
                        ELSE ParseRevisionSpec(repo, opt.spec)
        /\ opt.diff_filename \/ ParseRevisionSpec(repo, opt.spec) # None
    BY <1>4 DEF ParseOptions, planVars
  <2>2. plan = None
    BY <1>1, <2>1 DEF RevInv, Planned, Uploading
  <2>3. IsSpec(repo, opt.spec)
    <3>1. setup \in Setups /\ run \in 1..Len(setup.posts)
      <4>1. setup \in Setups /\ run \in 0..Len(setup.posts) /\ run # 0
        BY <1>1, <2>1 DEF TypeInv, TypeOK
      <4>2. Len(setup.posts) \in Nat
        BY <4>1, SetupAssumption
      <4> QED BY <4>1, <4>2
    <3>2. IsSpec(setup.repository, opt.spec)
      BY <3>1, SetupAssumption DEF opt
    <3> QED BY <1>1, <3>2 DEF RevInv, IsSpec
  <2>4. ASSUME revisions' # None
        PROVE  /\ revisions'.base \in Commit(repo)
               /\ revisions'.tip \in Commit(repo)
               /\ revisions'.parent_base =
                    IF YoungestRemoteAncestor(repo, revisions'.base)
                       = revisions'.base
                    THEN None ELSE YoungestRemoteAncestor(repo, revisions'.base)
    BY <1>2, <2>1, <2>3, <2>4, RevisionsAre
  <2>5. opt' = opt
    BY <2>1 DEF opt
  <2> QED BY <1>1, <2>1, <2>2, <2>4, <2>5 DEF RevInv, RemoteBase
<1>5. CASE MakeDiff
  <2>1. /\ UNCHANGED <<setup, repo, run, revisions>> /\ stage = "diffing"
        /\ plan' = DiffToPost /\ stage' = "validating"
    BY <1>5 DEF MakeDiff, Goto
  <2>2. /\ opt' = opt /\ RemoteBase' = RemoteBase
    BY <2>1 DEF opt, RemoteBase
  <2>3. ASSUME plan'.kind # "file"
        PROVE  revisions # None /\ plan'.base_commit_id \in Commit(repo)
    <3>1. ~opt.diff_filename /\ (plan' = DiffHistory \/ plan' = SquashedDiff)
      BY <2>1, <2>3 DEF DiffToPost, FileDiff
    <3>2. revisions # None
      BY <1>1, <2>1, <3>1 DEF RevInv, Running
    <3>3. plan'.base_commit_id = GitDiff(repo, revisions).base_commit_id
      BY <3>1 DEF DiffHistory, SquashedDiff
    <3> QED BY <1>1, <1>2, <3>2, <3>3, BaseIs
  <2> QED BY <1>1, <2>1, <2>2, <2>3 DEF RevInv, Planned, Running
<1>6. CASE StampCommit \/ Commits
  <2>1. UNCHANGED <<setup, run, revisions, plan>> /\ Extends(repo, repo')
        /\ (stage' # stage => Running /\ stage # "options")
        /\ (stage' \notin Planned => stage \notin Planned)
    BY <1>2, <1>6, RepoGrows DEF StampCommit, Commits, commandVars, planVars,
                                 Running, Goto, Planned, Uploading
  <2>2. Commit(repo) \subseteq Commit(repo')
    BY <2>1 DEF Extends
  <2>3. revisions # None => RemoteBase' = RemoteBase
    BY <1>1, <2>1, HistoryStays DEF RevInv, RemoteBase
  <2> QED BY <1>1, <2>1, <2>2, <2>3 DEF RevInv, opt, Running
<1>7. CASE ~(Start \/ Ends \/ ParseOptions \/ MakeDiff \/ StampCommit
             \/ Commits)
  BY <1>1, <1>7, OtherSteps DEF RevInv, RemoteBase, opt, Running
<1> QED BY <1>3, <1>4, <1>5, <1>6, <1>7
-----------------------------------------------------------------------------
(* The history of a range is one entry for each commit, oldest first *)
LEMMA HistoryIs ==
  ASSUME RepoType, NEW r, r.base \in Commit(repo), r.tip \in Commit(repo),
         CommitHistory(repo, r) # None
  PROVE  LET S == RevList(repo, {r.tip}, {r.base})
             e == CommitHistory(repo, r)
         IN  /\ S # {} /\ \A c \in S : Len(repo.parents[c]) = 1
             /\ e = [i \in 1..Cardinality(S) |->
                      [commit_id |-> Nth(S, i),
                       parent_id |-> FirstParent(repo, Nth(S, i)),
                       diff |-> DiffBetween(repo, FirstParent(repo, Nth(S, i)),
                                            Nth(S, i))]]
<1> DEFINE S == RevList(repo, {r.tip}, {r.base})
           e == CommitHistory(repo, r)
           commits == OldestFirst(repo, r.tip, r.base)
<1>1. S \in SUBSET Nat /\ IsFiniteSet(S) /\ IsHistory(repo)
  BY RevListIs DEF RepoType
<1>2. commits = [i \in 1..Cardinality(S) |-> Nth(S, i)]
  BY DEF OldestFirst
<1>3. /\ commits # <<>> /\ \A c \in ToSet(commits) : Len(repo.parents[c]) = 1
      /\ e = [i \in DOMAIN commits |->
                [commit_id |-> commits[i],
                 parent_id |-> FirstParent(repo, commits[i]),
                 diff |-> DiffBetween(repo, FirstParent(repo, commits[i]),
                                      commits[i])]]
  BY DEF CommitHistory
<1> HIDE DEF S, commits, e
<1>4. DOMAIN commits = 1..Cardinality(S)
      /\ \A i \in 1..Cardinality(S) : commits[i] = Nth(S, i)
  BY <1>2
<1>5. \A c \in S : Len(repo.parents[c]) = 1
  <2>1. TAKE c \in S
  <2>2. PICK i \in 1..Cardinality(S) : c = Nth(S, i)
    BY <1>1, NthOrder
  <2>3. c \in ToSet(commits)
    BY <1>4, <2>2 DEF ToSet
  <2> QED BY <1>3, <2>3
<1>6. S # {}
  <2>1. SUFFICES ASSUME S = {} PROVE FALSE
    OBVIOUS
  <2>2. Cardinality(S) = 0
    BY <2>1, FS_EmptySet
  <2>3. commits = <<>>
    BY <1>2, <2>2
  <2> QED BY <1>3, <2>3
<1>7. e = [i \in 1..Cardinality(S) |->
             [commit_id |-> Nth(S, i),
              parent_id |-> FirstParent(repo, Nth(S, i)),
              diff |-> DiffBetween(repo, FirstParent(repo, Nth(S, i)),
                                   Nth(S, i))]]
  BY <1>3, <1>4
<1> QED BY <1>5, <1>6, <1>7 DEF S, e

(* Diffs that follow one another from one tree to another *)
IsSeries(diffs, n, from, to) ==
  /\ n \in Nat \ {0} /\ diffs = [i \in 1..n |-> diffs[i]]
  /\ \A i \in 1..n : diffs[i] # None
  /\ diffs[1][1] = from /\ diffs[n][2] = to
  /\ \A i \in 1..(n - 1) : diffs[i + 1][1] = diffs[i][2]

(* The diffs of a history follow one another from the base to the tip *)
LEMMA HistoryLeads ==
  ASSUME RepoType, NEW r, r.tip \in Commit(repo),
         r.base \in Ancestors(repo)[r.tip],
         NEW e, e = CommitHistory(repo, r), e # None,
         \A i \in DOMAIN e : e[i].diff # None
  PROVE  \E n \in Nat : IsSeries([i \in DOMAIN e |-> e[i].diff], n,
                                Tree(repo, r.base), Tree(repo, r.tip))
<1> DEFINE S == RevList(repo, {r.tip}, {r.base})
           n == Cardinality(S)
           d(i) == DiffBetween(repo, FirstParent(repo, Nth(S, i)), Nth(S, i))
<1>1. IsHistory(repo) /\ r.base \in Commit(repo)
  BY AncestorsOrder DEF RepoType
<1>2. /\ S # {} /\ \A c \in S : Len(repo.parents[c]) = 1
      /\ e = [i \in 1..n |->
                [commit_id |-> Nth(S, i),
                 parent_id |-> FirstParent(repo, Nth(S, i)), diff |-> d(i)]]
  BY <1>1, HistoryIs
<1> HIDE DEF S
<1>3. /\ n \in Nat \ {0} /\ Nth(S, n) = r.tip
      /\ FirstParent(repo, Nth(S, 1)) = r.base
      /\ \A i \in 1..(n - 1) : FirstParent(repo, Nth(S, i + 1)) = Nth(S, i)
  <2>1. S = RevList(repo, {r.tip}, {r.base}) /\ r.tip \in Commit(repo)
        /\ r.base \in Ancestors(repo)[r.tip]
    BY DEF S
  <2>2. IsLine(repo, r.base, r.tip, S)
    BY <1>1, <1>2, <2>1, OldestFirstIsLine DEF OneParentEach
  <2> QED BY <2>2 DEF IsLine
<1>4. \A i \in 1..n : e[i].diff = d(i)
  BY <1>2
<1>5. \A i \in 1..n :
        e[i].diff = <<Tree(repo, FirstParent(repo, Nth(S, i))),
                      Tree(repo, Nth(S, i))>>
  <2>1. TAKE i \in 1..n
  <2>2. d(i) # None
    BY <1>2, <1>4
  <2> QED BY <1>4, <2>2 DEF DiffBetween
<1> HIDE DEF n, d
<1>6. n \in 1..n /\ 1 \in 1..n
  BY <1>3, Places
<1>7. DOMAIN e = 1..n
  BY <1>2
<1>8. e[1].diff[1] = Tree(repo, r.base) /\ e[n].diff[2] = Tree(repo, r.tip)
  BY <1>3, <1>5, <1>6
<1>9. \A i \in 1..(n - 1) : e[i + 1].diff[1] = e[i].diff[2]
  <2>1. TAKE i \in 1..(n - 1)
  <2>2. i \in 1..n /\ i + 1 \in 1..n
    BY <1>3, Places
  <2> QED BY <1>3, <1>5, <2>2
<1> DEFINE diffs == [i \in DOMAIN e |-> e[i].diff]
<1>10. diffs = [i \in 1..n |-> diffs[i]] /\ \A i \in 1..n : diffs[i] = e[i].diff
  BY <1>7
<1> HIDE DEF diffs
<1>11. IsSeries(diffs, n, Tree(repo, r.base), Tree(repo, r.tip))
  <2>1. \A i \in 1..(n - 1) : diffs[i + 1][1] = diffs[i][2]
    <3>1. TAKE i \in 1..(n - 1)
    <3>2. i \in 1..n /\ i + 1 \in 1..n
      BY <1>3, Places
    <3> QED BY <1>9, <1>10, <3>2
  <2> QED BY <1>3, <1>6, <1>7, <1>8, <1>10, <2>1 DEF IsSeries
<1> QED BY <1>3, <1>11 DEF diffs

(* A first diff, if there is one, before what leads on *)
LEMMA LeadsOn ==
  ASSUME NEW from, NEW mid, NEW to, NEW first, NEW n, NEW rest,
         IsSeries(rest, n, mid, to),
         \/ first = None /\ from = mid
         \/ first # None /\ first[1] = from /\ first[2] = mid
  PROVE  LeadsTo(from, (IF first = None THEN <<>> ELSE <<first>>) \o rest, to)
<1> DEFINE U == Range(rest) \cup {first}
           s == <<first>> \o rest
<1>4. /\ n \in Nat \ {0} /\ rest = [i \in 1..n |-> rest[i]]
      /\ \A i \in 1..n : rest[i] # None
      /\ rest[1][1] = mid /\ rest[n][2] = to
      /\ \A i \in 1..(n - 1) : rest[i + 1][1] = rest[i][2]
  BY DEF IsSeries
<1>1. rest \in Seq(U) /\ Len(rest) = n /\ <<first>> \in Seq(U)
      /\ DOMAIN rest = 1..n
  <2>1. DOMAIN rest = 1..n
    BY <1>4
  <2>2. \A i \in 1..n : rest[i] \in U
    BY <2>1 DEF Range
  <2> HIDE DEF U
  <2>3. rest \in [1..n -> U]
    BY <1>4, <2>2
  <2>4. first \in U
    BY DEF U
  <2> QED BY <1>4, <2>1, <2>3, <2>4
<1>2. CASE first = None
  <2>1. <<>> \o rest = rest
    BY <1>1, ConcatEmptySeq
  <2>2. \A i \in 1..n : rest[i][1] = IF i = 1 THEN from ELSE rest[i - 1][2]
    <3>1. TAKE i \in 1..n
    <3>2. i # 1 => i - 1 \in 1..(n - 1) /\ (i - 1) + 1 = i
      BY <1>4
    <3> QED BY <1>2, <1>4, <3>2
  <2>3. n + 1 # 1 /\ (n + 1) - 1 = n
    BY <1>4
  <2> QED BY <1>1, <1>2, <1>4, <2>1, <2>2, <2>3 DEF LeadsTo
<1>3. CASE first # None
  <2>1. /\ s \in Seq(U) /\ Len(s) = 1 + n
        /\ \A i \in 1..(1 + n) : s[i] = IF i <= 1 THEN first ELSE rest[i - 1]
    BY <1>1, ConcatProperties
  <2> HIDE DEF s, U
  <2>2. ASSUME NEW i \in 1..(n + 1)
        PROVE  /\ s[i] # None
               /\ s[i][1] = IF i = 1 THEN from ELSE s[i - 1][2]
    <3>a. 1 \in 1..n /\ 1 \in 1..(1 + n) /\ 1 <= 1
      BY <1>4
    <3>b. s[1] = first
      BY <2>1, <3>a
    <3>c. rest[1] # None /\ rest[1][1] = mid
      BY <1>4, <3>a
    <3>1. CASE i = 1
      BY <1>3, <3>1, <3>b
    <3>2. CASE i = 2
      <4>1. 2 \in 1..(1 + n) /\ ~(2 <= 1) /\ 2 - 1 = 1 /\ 2 # 1
        BY <1>4, <3>2
      <4>2. s[2] = rest[1]
        BY <2>1, <4>1
      <4> QED BY <1>3, <3>2, <3>b, <3>c, <4>1, <4>2
    <3>3. CASE i > 2
      <4>1. /\ i - 1 \in 1..n /\ i - 2 \in 1..(n - 1) /\ (i - 2) + 1 = i - 1
            /\ i - 1 \in 1..(1 + n) /\ i \in 1..(1 + n)
            /\ ~(i <= 1) /\ ~(i - 1 <= 1) /\ (i - 1) - 1 = i - 2 /\ i # 1
        BY <1>4, <3>3
      <4>2. s[i] = rest[i - 1] /\ s[i - 1] = rest[i - 2]
        BY <2>1, <4>1
      <4>3. rest[i - 1] # None
        BY <1>4, <4>1
      <4>4. rest[(i - 2) + 1][1] = rest[i - 2][2]
        BY <1>4, <4>1
      <4> QED BY <4>1, <4>2, <4>3, <4>4
    <3> QED BY <1>4, <3>1, <3>2, <3>3
  <2>3. /\ n + 1 \in 1..(1 + n) /\ ~(n + 1 <= 1) /\ (n + 1) - 1 = n
        /\ (n + 1) + 1 # 1 /\ ((n + 1) + 1) - 1 = n + 1
    BY <1>4
  <2>4. s[n + 1][2] = to
    BY <1>4, <2>1, <2>3
  <2>5. DOMAIN s = 1..(n + 1) /\ Len(s) = n + 1
    BY <1>4, <2>1
  <2> QED BY <1>3, <2>2, <2>3, <2>4, <2>5 DEF LeadsTo, s
<1> QED BY <1>2, <1>3

LEMMA TreesAre ==
  ASSUME RepoType, NEW a \in Commit(repo), NEW b \in Commit(repo)
  PROVE  \/ /\ DiffBetween(repo, a, b) = None
            /\ Tree(repo, a) = Tree(repo, b)
         \/ /\ DiffBetween(repo, a, b) # None
            /\ DiffBetween(repo, a, b) = <<Tree(repo, a), Tree(repo, b)>>
<1>1. \A c \in Commit(repo) : Ancestors(repo)[c] \subseteq Commit(repo)
  BY AncestorsClosed DEF RepoType, IsClosed
<1>2. \A c \in Commit(repo) : repo.change[c] \in Nat
  BY DEF RepoType, IsHistory, Commit
<1>3. Tree(repo, a) \in SUBSET Nat /\ Tree(repo, b) \in SUBSET Nat
  BY <1>1, <1>2 DEF Tree
<1>4. None # <<Tree(repo, a), Tree(repo, b)>>
  BY <1>3, PostAssumption
<1> QED BY <1>4 DEF DiffBetween

(* The diffs that are made lead from the remote to the tip *)
LEMMA ShowsMade ==
  ASSUME TypeInv, RevInv, MakeDiff
  PROVE  ShowsTheCommits'
<1>1. /\ UNCHANGED <<setup, repo, run, revisions>> /\ stage = "diffing"
      /\ plan' = DiffToPost /\ ~HasNothingToPost(DiffToPost)
  BY DEF MakeDiff
<1>2. SUFFICES ASSUME plan'.kind # "file", HasSoundBase
               PROVE  /\ IsPushed(plan'.base_commit_id)
                      /\ LeadsTo(Tree(repo, plan'.base_commit_id),
                                 DiffsOf(plan'), Tree(repo, revisions.tip))
  BY <1>1 DEF ShowsTheCommits, HasSoundBase, IsPushed
<1> DEFINE base == revisions.base
           tip == revisions.tip
           d == GitDiff(repo, revisions)
<1>3. RepoType /\ IsHistory(repo)
  BY DEF TypeInv, RepoType
<1>4. ~opt.diff_filename /\ (plan' = DiffHistory \/ plan' = SquashedDiff)
  BY <1>1, <1>2 DEF DiffToPost, FileDiff
<1>5. revisions # None
  BY <1>1, <1>4 DEF RevInv, Running
<1>6. /\ base \in Commit(repo) /\ tip \in Commit(repo)
      /\ revisions.parent_base = IF RemoteBase = base THEN None ELSE RemoteBase
      /\ base \in Ancestors(repo)[tip]
      /\ \A c \in RevList(repo, {base}, repo.remotes) : ~IsRoot(repo, c)
  BY <1>2, <1>5 DEF RevInv, HasSoundBase
<1>7. /\ plan'.base_commit_id = d.base_commit_id
      /\ plan'.parent_diff = d.parent_diff
  BY <1>4 DEF DiffHistory, SquashedDiff
<1>8. plan'.base_commit_id = RemoteBase /\ RemoteBase \in Commit(repo)
      /\ RemoteBase # None
  BY <1>3, <1>5, <1>7, BaseIs, OursAreNumbers, PostAssumption
<1>9. IsPushed(plan'.base_commit_id)
  BY <1>3, <1>6, <1>8, RemoteAncestorIs DEF IsPushed, RemoteBase
<1> DEFINE from == Tree(repo, RemoteBase)
           mid == Tree(repo, base)
           to == Tree(repo, tip)
           first == plan'.parent_diff
<1>10. \/ first = None /\ from = mid
       \/ first # None /\ first[1] = from /\ first[2] = mid
  <2>1. first = IF RemoteBase = base THEN None
                ELSE DiffBetween(repo, RemoteBase, base)
    BY <1>6, <1>7, <1>8 DEF GitDiff
  <2> HIDE DEF first
  <2> QED BY <1>3, <1>6, <1>8, <2>1, TreesAre
<1>11. CASE plan' = SquashedDiff
  <2>1. plan'.kind = "squashed" /\ plan'.diff = DiffBetween(repo, base, tip)
        /\ plan'.diff # None
    BY <1>1, <1>11 DEF SquashedDiff, GitDiff, HasNothingToPost
  <2> DEFINE rest == <<plan'.diff>>
  <2>2. plan'.diff = <<mid, to>>
    BY <2>1 DEF DiffBetween
  <2>3. IsSeries(rest, 1, mid, to)
    BY <2>1, <2>2 DEF IsSeries
  <2>4. DiffsOf(plan') = (IF first = None THEN <<>> ELSE <<first>>) \o rest
    BY <2>1 DEF DiffsOf
  <2> HIDE DEF rest, from, mid, to, first
  <2>5. LeadsTo(from, (IF first = None THEN <<>> ELSE <<first>>) \o rest, to)
    BY <1>10, <2>3, LeadsOn
  <2> QED BY <1>8, <1>9, <2>4, <2>5 DEF from, to
<1>12. CASE plan' = DiffHistory
  <2> DEFINE e == plan'.entries
             rest == [i \in DOMAIN e |-> e[i].diff]
  <2>1. /\ plan'.kind = "history" /\ e = CommitHistory(repo, revisions)
        /\ e # None /\ \A i \in DOMAIN e : e[i].diff # None
    BY <1>1, <1>12 DEF DiffHistory, HasNothingToPost
  <2>2. PICK n \in Nat : IsSeries(rest, n, mid, to)
    <3> HIDE DEF e
    <3> QED BY <1>3, <1>6, <2>1, HistoryLeads
  <2>3. DiffsOf(plan') = (IF first = None THEN <<>> ELSE <<first>>) \o rest
    BY <2>1 DEF DiffsOf
  <2> HIDE DEF e, rest, from, mid, to, first
  <2>4. LeadsTo(from, (IF first = None THEN <<>> ELSE <<first>>) \o rest, to)
    BY <1>10, <2>2, LeadsOn
  <2> QED BY <1>8, <1>9, <2>3, <2>4 DEF from, to
<1> QED BY <1>4, <1>11, <1>12

(* More commits change nothing of what is shown *)
LEMMA ShowsStays ==
  ASSUME TypeInv, RevInv, ShowsTheCommits, StampCommit \/ Commits
  PROVE  ShowsTheCommits'
<1>1. /\ UNCHANGED <<revisions, plan>> /\ Extends(repo, repo')
  BY RepoGrows DEF StampCommit, Commits, commandVars, planVars, TypeInv
<1>2. SUFFICES ASSUME plan # None, plan.kind # "file", HasSoundBase'
               PROVE  /\ IsPushed(plan.base_commit_id)'
                      /\ LeadsTo(Tree(repo', plan.base_commit_id), DiffsOf(plan),
                                 Tree(repo', revisions.tip))
  BY <1>1 DEF ShowsTheCommits
<1>3. /\ revisions.base \in Commit(repo) /\ revisions.tip \in Commit(repo)
      /\ plan.base_commit_id \in Commit(repo)
  BY <1>2 DEF RevInv
<1>4. HasSoundBase
  <2>1. Ancestors(repo')[revisions.tip] = Ancestors(repo)[revisions.tip]
    BY <1>1, <1>3, AncestorsStay
  <2> QED BY <1>1, <1>2, <1>3, <2>1, HistoryStays DEF HasSoundBase
<1>5. /\ IsPushed(plan.base_commit_id)
      /\ LeadsTo(Tree(repo, plan.base_commit_id), DiffsOf(plan),
                 Tree(repo, revisions.tip))
  BY <1>2, <1>4 DEF ShowsTheCommits
<1> QED BY <1>1, <1>3, <1>5, HistoryStays DEF IsPushed

LEMMA ShowsStep ==
  TypeInv /\ RevInv /\ ShowsTheCommits /\ [Next]_vars => ShowsTheCommits'
<1>1. SUFFICES ASSUME TypeInv, RevInv, ShowsTheCommits, [Next]_vars
               PROVE  ShowsTheCommits'
  OBVIOUS
<1>2. CASE MakeDiff
  BY <1>1, <1>2, ShowsMade
<1>3. CASE StampCommit \/ Commits
  BY <1>1, <1>3, ShowsStays
<1>4. CASE Start \/ Ends
  BY <1>4 DEF ShowsTheCommits, Start, Ends, RefuseOptions, NoMatch,
              RefuseRequest, RefuseDiff, Fail, Abort
<1>5. CASE ParseOptions
  <2>1. plan' = None
    BY <1>1, <1>5 DEF ParseOptions, planVars, RevInv, Planned, Uploading
  <2> QED BY <2>1 DEF ShowsTheCommits
<1>6. CASE ~(Start \/ Ends \/ ParseOptions \/ MakeDiff \/ StampCommit
             \/ Commits)
  <2>1. UNCHANGED <<repo, revisions, plan>>
    BY <1>1, <1>6, OtherSteps
  <2> QED BY <1>1, <2>1 DEF ShowsTheCommits, HasSoundBase, IsPushed
<1> QED BY <1>2, <1>3, <1>4, <1>5, <1>6

(* What is posted leads a reader from a commit that the remote has to the  *)
(* tip of the revisions, for every history and every revisions of it: the  *)
(* parent diff is complete, and the diffs of the commits follow one        *)
(* another (parse_revision_spec, diff and get_commit_history).             *)
THEOREM DiffsShowTheCommits == Spec => []ShowsTheCommits
<1>1. Init => TypeInv /\ RevInv /\ ShowsTheCommits
  BY InitTypes, RevInit DEF Init, ShowsTheCommits
<1>2. TypeInv /\ RevInv /\ ShowsTheCommits /\ [Next]_vars
        => TypeInv' /\ RevInv' /\ ShowsTheCommits'
  BY TypeStep, RevStep, ShowsStep
<1> QED BY <1>1, <1>2, PTL DEF Spec
-----------------------------------------------------------------------------
(* The list of review requests and what has been read of it *)
ListInv ==
  /\ order \in Seq(Request)
  /\ seen \in Seq(ToSet(seen))
  /\ \A i \in DOMAIN seen : seen[i].id \in Request
  /\ stage = "options" => seen = <<>> /\ page = 0

IsOnTop(r) == order # <<>> /\ order[1] = r

LEMMA ListInit == Init => ListInv
<1>1. SUFFICES ASSUME Init PROVE ListInv
  OBVIOUS
<1>2. setup \in Setups /\ order = setup.order /\ seen = <<>>
      /\ stage = "idle"
  BY <1>1 DEF Init
<1>3. order \in Seq(Request)
  BY <1>2, SetupAssumption
<1> QED BY <1>2, <1>3 DEF ListInv, ToSet

(* A list of anything is one of its own elements *)
LEMMA OfItself ==
  ASSUME NEW S, NEW s \in Seq(S)
  PROVE  /\ s \in Seq(ToSet(s)) /\ ToSet(s) \subseteq S
         /\ Len(s) \in Nat /\ DOMAIN s = 1..Len(s)
<1>1. Len(s) \in Nat /\ DOMAIN s = 1..Len(s)
  OBVIOUS
<1>2. \A i \in 1..Len(s) : s[i] \in ToSet(s) /\ s[i] \in S
  BY <1>1 DEF ToSet
<1>3. s = [i \in 1..Len(s) |-> s[i]]
  OBVIOUS
<1>4. s \in [1..Len(s) -> ToSet(s)]
  BY <1>2, <1>3
<1>5. s \in Seq(ToSet(s))
  BY <1>1, <1>4
<1>6. ToSet(s) \subseteq S
  BY <1>1, <1>2 DEF ToSet
<1> QED BY <1>1, <1>5, <1>6

(* A change moves its review request to the front of the list *)
LEMMA TouchOrder ==
  ASSUME order \in Seq(Request), NEW r \in Request, NEW record,
         Touch(r, record)
  PROVE  order' \in Seq(Request) /\ IsOnTop(r)'
<1> DEFINE P == {i \in DOMAIN order : order[i] # r}
           rest == At(order, P)
<1>1. P \in SUBSET (1..Len(order))
  OBVIOUS
<1>2. order' = <<r>> \o rest
  BY DEF Touch
<1> HIDE DEF P
<1>3. rest \in Seq(Request)
  BY <1>1, AtIs
<1> HIDE DEF rest
<1>4. <<r>> \in Seq(Request) /\ <<r>> # <<>> /\ <<r>>[1] = r
  OBVIOUS
<1> QED BY <1>2, <1>3, <1>4, ConcatSet DEF IsOnTop

LEMMA EditsTouch ==
  ASSUME TypeInv, Edits
  PROVE  /\ target' \in Request
         /\ \/ \E record : Touch(target', record)
            \/ GetOrCreateDraft /\ HasDraft(target) /\ UNCHANGED <<rr, order>>
<1>1. CASE CreateRequest
  BY <1>1 DEF CreateRequest
<1>2. CASE ~CreateRequest
  <2>1. target \in Request /\ UNCHANGED target
    BY <1>2, EditKeeps
       DEF Existing, Edits, UploadDiff, GetOrCreateDraft, CreateEmpty,
           UploadCommit, FinalizeCommitSeries, UploadFile, UpdateDraft
  <2>2. CASE GetOrCreateDraft
    BY <2>1, <2>2 DEF GetOrCreateDraft, WriteDraft, serverVars
  <2>3. CASE UpdateDraft
    BY <2>1, <2>3 DEF UpdateDraft
  <2>4. CASE ~GetOrCreateDraft /\ ~UpdateDraft
    <3>1. \E fields : WriteDraft(target, fields)
      BY <1>2, <2>4 DEF Edits, UploadDiff, CreateEmpty, UploadCommit,
                        FinalizeCommitSeries, UploadFile
    <3> QED BY <2>1, <3>1 DEF WriteDraft
  <2> QED BY <2>2, <2>3, <2>4
<1> QED BY <1>1, <1>2

(* A page of the list: the list that is read grows at its end, and begins  *)
(* with what was changed last if that is pending.                          *)
LEMMA PageIs ==
  ASSUME TypeInv, ListInv, FetchPage
  PROVE  /\ seen' \in Seq(ToSet(seen'))
         /\ \A i \in DOMAIN seen' : seen'[i].id \in Request
         /\ Len(seen') <= MaxReviewRequests
         /\ stage' = "listing" => Len(seen') > Len(seen)
         /\ seen # <<>> => seen' # <<>> /\ seen'[1] = seen[1]
         /\ \A r \in Request :
              page = 0 /\ seen = <<>> /\ IsOnTop(r) /\ rr[r].status = "pending"
                => seen' # <<>> /\ seen'[1] = Candidate(r)
<1> DEFINE pending == Pending
           size == page * PageSize
           items == Slice(pending, size + 1, size + PageSize)
           cands == [i \in DOMAIN items |-> Candidate(items[i])]
           read == seen \o cands
           C == {Candidate(r) : r \in Request} \cup ToSet(seen)
           P == {i \in DOMAIN order : rr[order[i]].status = "pending"}
           max == MaxReviewRequests
<1>1. /\ page \in Nat /\ PageSize \in Nat \ {0} /\ max \in Nat \ {0}
      /\ size \in Nat /\ (page + 1) * PageSize = size + PageSize
  <2>1. page \in Nat /\ PageSize \in Nat \ {0} /\ max \in Nat \ {0}
    BY PostAssumption DEF TypeInv, TypeOK
  <2> QED BY <2>1
<1>2. /\ seen' = Slice(read, 1, max)
      /\ stage' = IF Len(pending) > size + PageSize /\ Len(read) < max
                  THEN "listing" ELSE "matching"
  BY <1>1 DEF FetchPage, Goto
<1>3. page = 0 => size = 0
  BY <1>1
<1>4. /\ pending \in Seq(Request)
      /\ \A r \in Request : IsOnTop(r) /\ rr[r].status = "pending" =>
           pending # <<>> /\ pending[1] = r
  <2>1. order \in Seq(Request) /\ P \in SUBSET (1..Len(order))
    BY DEF ListInv
  <2>2. \A r \in Request : IsOnTop(r) /\ rr[r].status = "pending" => 1 \in P
    BY <2>1 DEF IsOnTop
  <2>3. pending = At(order, P)
    BY DEF Pending
  <2> HIDE DEF P, pending
  <2>4. At(order, P) \in Seq(Request)
        /\ (1 \in P => At(order, P) # <<>> /\ At(order, P)[1] = order[1])
    BY <2>1, AtIs
  <2> QED BY <2>2, <2>3, <2>4 DEF IsOnTop
<1> HIDE DEF pending, size, P
<1> DEFINE k == End(pending, size + PageSize)
<1>5. /\ items \in Seq(Request)
      /\ Len(items) = IF size + 1 <= k THEN k - (size + 1) + 1 ELSE 0
      /\ \A i \in 1..(k - (size + 1) + 1) : items[i] = pending[size + 1 + i - 1]
  <2>1. size + 1 \in Nat \ {0} /\ size + PageSize \in Nat
    BY <1>1
  <2>2. pending \in Seq(Request)
    BY <1>4
  <2>3. IsSlice(items, Request, pending, size + 1, size + PageSize)
    BY <2>1, <2>2, SliceIs
  <2> HIDE DEF items
  <2> QED BY <2>3 DEF IsSlice
<1>6. /\ Len(pending) \in Nat
      /\ k = IF size + PageSize <= Len(pending) THEN size + PageSize
             ELSE Len(pending)
  BY <1>4 DEF End
<1> HIDE DEF k
<1>7. Len(items) \in Nat
      /\ (Len(pending) > size + PageSize => Len(items) > 0)
      /\ (page = 0 /\ pending # <<>> => Len(items) > 0 /\ items[1] = pending[1])
  <2>1. Len(pending) > size + PageSize => k = size + PageSize
    BY <1>1, <1>6
  <2>2. pending # <<>> => Len(pending) > 0
    BY <1>4
  <2>3. k \in Nat
    BY <1>1, <1>6
  <2>4. Len(items) \in Nat /\ (Len(pending) > size + PageSize => Len(items) > 0)
    BY <1>1, <1>5, <2>1, <2>3
  <2>5. ASSUME page = 0, pending # <<>>
        PROVE  Len(items) > 0 /\ items[1] = pending[1]
    <3>1. size = 0 /\ k >= 1 /\ Len(items) = k
      BY <1>1, <1>3, <1>5, <1>6, <2>2, <2>3, <2>5
    <3>2. 1 \in 1..(k - (size + 1) + 1) /\ size + 1 + 1 - 1 = 1
      BY <3>1, <2>3
    <3> QED BY <1>5, <2>3, <3>1, <3>2
  <2> QED BY <2>4, <2>5
<1> HIDE DEF items
<1>8. /\ cands \in Seq(C) /\ Len(cands) = Len(items)
      /\ \A i \in 1..Len(items) : cands[i] = Candidate(items[i])
  <2>1. DOMAIN items = 1..Len(items)
    BY <1>5
  <2>2. \A i \in 1..Len(items) : Candidate(items[i]) \in C
    BY <1>5, <2>1
  <2> HIDE DEF C
  <2>3. cands \in [1..Len(items) -> C]
    BY <2>1, <2>2
  <2> QED BY <1>7, <2>1, <2>3
<1>9. seen \in Seq(C) /\ Len(seen) \in Nat
  <2>1. seen \in Seq(ToSet(seen)) /\ ToSet(seen) \subseteq C
    BY DEF ListInv
  <2> HIDE DEF C
  <2> QED BY <2>1
<1>10. \A c \in C : c.id \in Request
  <2>1. \A r \in Request : Candidate(r).id = r
    BY DEF Candidate
  <2>2. \A c \in ToSet(seen) : c.id \in Request
    BY DEF ListInv, ToSet
  <2> QED BY <2>1, <2>2
<1> HIDE DEF cands, C
<1>11. /\ read \in Seq(C) /\ Len(read) = Len(seen) + Len(cands)
       /\ seen # <<>> => read # <<>> /\ read[1] = seen[1]
       /\ seen = <<>> => read = cands
  <2>1. read \in Seq(C) /\ Len(read) = Len(seen) + Len(cands)
    BY <1>8, <1>9, ConcatProperties
  <2>2. /\ seen # <<>> => read # <<>> /\ read[1] = seen[1]
        /\ seen = <<>> => read = cands
    BY <1>8, <1>9, ConcatSet
  <2> QED BY <2>1, <2>2
<1> HIDE DEF read
<1> DEFINE j == End(read, max)
<1>12. /\ seen' \in Seq(C) /\ Len(seen') = j
       /\ read # <<>> => seen' # <<>> /\ seen'[1] = read[1]
  <2>1. read \in Seq(C) /\ max \in Nat \ {0}
    BY <1>1, <1>11
  <2> QED BY <1>2, <2>1, FirstSlice
<1>13. /\ Len(read) \in Nat /\ j \in Nat /\ j <= max
       /\ (Len(read) < max => j = Len(read))
  BY <1>1, <1>11 DEF End
<1> HIDE DEF j
<1>15. seen' \in Seq(ToSet(seen'))
       /\ \A i \in DOMAIN seen' : seen'[i].id \in Request
  BY <1>10, <1>12, OfItself DEF ToSet
<1>16. Len(seen') <= MaxReviewRequests
  BY <1>12, <1>13
<1>17. stage' = "listing" => Len(seen') > Len(seen)
  BY <1>2, <1>7, <1>8, <1>9, <1>11, <1>12, <1>13
<1>18. ASSUME NEW r \in Request, page = 0, seen = <<>>, IsOnTop(r),
              rr[r].status = "pending"
       PROVE  seen' # <<>> /\ seen'[1] = Candidate(r)
  <2>1. Len(items) > 0 /\ items[1] = r
    BY <1>4, <1>7, <1>18
  <2>2. 1 \in 1..Len(items) /\ cands # <<>> /\ cands[1] = Candidate(r)
    BY <1>7, <1>8, <2>1
  <2> QED BY <1>11, <1>12, <1>18, <2>2
<1> QED BY <1>11, <1>12, <1>15, <1>16, <1>17, <1>18

(* The steps that neither read the list nor change it *)
LEMMA ListSteps ==
  ASSUME TypeInv, [Next]_vars, ~FetchPage, ~Edits, ~OnTheWeb
  PROVE  /\ UNCHANGED order
         /\ \/ UNCHANGED <<seen, page>>
            \/ seen' = <<>> /\ page' = 0
         /\ stage' = "options" =>
              \/ stage = "options" /\ UNCHANGED <<seen, page>>
              \/ seen' = <<>> /\ page' = 0
<1> USE DEF serverVars, matchVars, planVars, commandVars, Goto
<1>1. CASE UNCHANGED vars
  BY <1>1 DEF vars
<1>2. CASE Start \/ Ends
  BY <1>2 DEF Start, Ends, RefuseOptions, NoMatch, RefuseRequest, RefuseDiff,
              Fail, Abort
<1>3. CASE Reads /\ ~FetchPage
  BY <1>3 DEF Reads, ParseOptions, TakeMatch, AskAboutMatches, Confirm, Decline,
              FetchRequest, MakeDiff, ValidateSquashedDiff, ValidateCommit,
              AfterValidation, UseExisting, SkipDiff, GetDraft, StampCommit,
              SkipStamp, NothingToUpdate
<1>4. CASE Commits
  <2>1. order' = order /\ seen' = seen /\ page' = page
        /\ stage' = stage /\ stage # "options"
    BY <1>4 DEF Commits, Running
  <2> QED BY <2>1
<1> QED BY <1>1, <1>2, <1>3, <1>4, NextSteps

LEMMA ListStep == TypeInv /\ ListInv /\ [Next]_vars => ListInv'
<1>1. SUFFICES ASSUME TypeInv, ListInv, [Next]_vars PROVE ListInv'
  OBVIOUS
<1>2. CASE FetchPage
  <2>1. UNCHANGED order /\ stage' # "options"
    BY <1>2 DEF FetchPage, serverVars, Goto
  <2> QED BY <1>1, <1>2, <2>1, PageIs DEF ListInv
<1>3. CASE Edits
  <2>1. UNCHANGED <<seen, page>> /\ stage' # "options"
    BY <1>3 DEF Edits, CreateRequest, UploadDiff, GetOrCreateDraft,
                CreateEmpty, UploadCommit, FinalizeCommitSeries, UploadFile,
                UpdateDraft, matchVars, Goto
  <2>2. order' \in Seq(Request)
    BY <1>1, <1>3, EditsTouch, TouchOrder DEF ListInv
  <2> QED BY <1>1, <2>1, <2>2 DEF ListInv
<1>4. CASE OnTheWeb
  <2>1. PICK r \in Existing : \E record : WebChange(r, record)
    BY <1>4, WebSteps
  <2>2. PICK record : WebChange(r, record)
    BY <2>1
  <2>3. UNCHANGED <<seen, page, stage>> /\ Touch(r, record)
    BY <2>2 DEF WebChange, commandVars, matchVars
  <2>4. r \in Request /\ order \in Seq(Request)
    BY <1>1 DEF ListInv, Existing
  <2>5. order' \in Seq(Request)
    BY <2>3, <2>4, TouchOrder
  <2> QED BY <1>1, <2>3, <2>5 DEF ListInv
<1>5. CASE ~FetchPage /\ ~Edits /\ ~OnTheWeb
  <2>1. /\ UNCHANGED order
        /\ \/ UNCHANGED <<seen, page>>
           \/ seen' = <<>> /\ page' = 0
        /\ stage' = "options" =>
              \/ stage = "options" /\ UNCHANGED <<seen, page>>
              \/ seen' = <<>> /\ page' = 0
    BY <1>1, <1>5, ListSteps
  <2>2. <<>> \in Seq(ToSet(<<>>)) /\ DOMAIN <<>> = {}
    OBVIOUS
  <2> QED BY <1>1, <2>1, <2>2 DEF ListInv
<1> QED BY <1>2, <1>3, <1>4, <1>5

(* The candidates a reader would pick are the exact matches *)
LEMMA CandidatesAre ==
  ASSUME ListInv
  PROVE  LET exact == ExactMatches(seen, revisions.commit_id, Text)
         IN  /\ exact \in Seq(Request)
             /\ ToSet(exact) =
                  {seen[i].id : i \in {j \in DOMAIN seen : IsCandidate(j)}}
<1> DEFINE exact == ExactMatches(seen, revisions.commit_id, Text)
           test(i) == Tests(seen[i], revisions.commit_id, Text)
<1>1. IsList(seen, Request)
  BY OfItself DEF ListInv, IsList
<1>2. /\ exact \in Seq(Request)
      /\ ToSet(exact) = {seen[i].id : i \in {j \in DOMAIN seen :
                                               IsExact(test(j))}}
  BY <1>1, ExactMatchesAre
<1>3. \A i \in DOMAIN seen : IsExact(test(i)) <=> IsCandidate(i)
  BY PostAssumption
     DEF IsExact, ByCommit, ByTree, ByText, Tests, IsCandidate
<1> HIDE DEF exact
<1> QED BY <1>2, <1>3 DEF exact

LEMMA FetchingSteps ==
  ASSUME [Next]_vars, stage' = "fetching", chosen' = "exact", ~TakeMatch
  PROVE  UNCHANGED <<repo, seen, revisions, target, stage, chosen>>
<1> USE DEF Goto, commandVars, matchVars
<1>1. CASE UNCHANGED vars
  BY <1>1 DEF vars
<1>2. ~(Start \/ Ends)
  BY DEF Start, Ends, RefuseOptions, NoMatch, RefuseRequest, RefuseDiff,
         Fail, Abort
<1>3. ~Reads
  BY DEF Reads, ParseOptions, FetchPage, AskAboutMatches, Confirm, Decline,
         FetchRequest, MakeDiff, ValidateSquashedDiff, ValidateCommit,
         AfterValidation, UseExisting, SkipDiff, GetDraft, StampCommit,
         SkipStamp, NothingToUpdate
<1>4. ~Edits
  BY DEF Edits, CreateRequest, UploadDiff, GetOrCreateDraft, CreateEmpty,
         UploadCommit, FinalizeCommitSeries, UploadFile, UpdateDraft
<1>5. CASE OnTheWeb
  BY <1>5, WebSteps DEF WebChange
<1>6. ~Commits
  BY DEF Commits, Running
<1> QED BY <1>1, <1>2, <1>3, <1>4, <1>5, <1>6, NextSteps

LEMMA SoleStep ==
  ListInv /\ UnaskedMatchIsSole /\ [Next]_vars => UnaskedMatchIsSole'
<1>1. SUFFICES ASSUME ListInv, UnaskedMatchIsSole, [Next]_vars,
                      stage' = "fetching", chosen' = "exact"
               PROVE  {seen[i].id : i \in {j \in DOMAIN seen :
                                             IsCandidate(j)}}'
                      = {target'}
  BY DEF UnaskedMatchIsSole
<1> DEFINE ids == {seen[i].id : i \in {j \in DOMAIN seen : IsCandidate(j)}}
<1>2. UNCHANGED <<repo, seen, revisions>> => ids' = ids
  BY DEF IsCandidate, Text
<1>3. CASE TakeMatch
  <2> DEFINE exact == ExactMatches(seen, revisions.commit_id, Text)
  <2>1. /\ TakenUnasked(seen, revisions.commit_id, Text) # None
        /\ target' = TakenUnasked(seen, revisions.commit_id, Text)
        /\ UNCHANGED <<repo, seen, revisions>>
    BY <1>3 DEF TakeMatch, matchVars
  <2>2. Len(exact) = 1 /\ target' = exact[1]
    BY <2>1, PostAssumption DEF TakenUnasked
  <2>3. exact \in Seq(Request) /\ ToSet(exact) = ids
    BY <1>1, CandidatesAre
  <2> HIDE DEF exact, ids
  <2>4. ToSet(exact) = {exact[1]}
    <3>1. DOMAIN exact = {1}
      BY <2>2, <2>3
    <3> QED BY <3>1 DEF ToSet
  <2>5. ids' = {target'}
    BY <1>2, <2>1, <2>2, <2>3, <2>4
  <2> QED BY <2>5 DEF ids
<1>4. CASE ~TakeMatch
  <2>1. UNCHANGED <<repo, seen, revisions, target, stage, chosen>>
    BY <1>1, <1>4, FetchingSteps
  <2>2. ids = {target}
    BY <1>1, <2>1 DEF UnaskedMatchIsSole
  <2>3. ids' = {target'}
    BY <1>2, <2>1, <2>2
  <2> QED BY <2>3
<1> QED BY <1>3, <1>4

(* An update without a question goes to the one candidate that has the     *)
(* commit or the exact text, or whose tree the client recognises, however  *)
(* many pages there are and whatever the owner changes between them.       *)
THEOREM MatchIsSole == Spec => []UnaskedMatchIsSole
<1> DEFINE Inv == TypeInv /\ ListInv /\ UnaskedMatchIsSole
<1>1. Init => Inv
  BY InitTypes, ListInit DEF Init, UnaskedMatchIsSole
<1>2. Inv /\ [Next]_vars => Inv'
  BY TypeStep, ListStep, SoleStep
<1> QED BY <1>1, <1>2, PTL DEF Spec
-----------------------------------------------------------------------------
(* What is left to be asked about and to be uploaded is finite *)
FiniteInv ==
  /\ asking \in Seq(Request)
  /\ IsFiniteSet(files)
  /\ stage \in Planned => IsFiniteSet(plan.binary)

LEMMA FiniteInit == Init => FiniteInv
<1>1. IsFiniteSet({})
  BY FS_EmptySet
<1> QED BY <1>1 DEF Init, FiniteInv, Planned, Uploading

LEMMA PlanIsFinite ==
  ASSUME TypeInv, RevInv, MakeDiff
  PROVE  IsFiniteSet(plan'.binary)
<1>1. plan' = DiffToPost /\ stage = "diffing"
  BY DEF MakeDiff
<1>2. CASE opt.diff_filename
  <2>1. plan'.binary = {}
    BY <1>1, <1>2 DEF DiffToPost, FileDiff
  <2> QED BY <2>1, FS_EmptySet
<1>3. CASE ~opt.diff_filename
  <2>1. /\ IsHistory(repo) /\ revisions # None
        /\ revisions.base \in Commit(repo) /\ revisions.tip \in Commit(repo)
    BY <1>1, <1>3 DEF TypeInv, RepoType, RevInv, Running
  <2>2. IsFiniteSet(Commit(repo))
    <3>1. Len(repo.parents) \in Nat /\ Commit(repo) = 1..Len(repo.parents)
      BY <2>1 DEF IsHistory, Commit
    <3>2. IsFiniteSet(1..Len(repo.parents))
      BY <3>1, FS_Interval
    <3> QED BY <3>1, <3>2
  <2>3. CASE plan' = DiffHistory
    <3> DEFINE commits == RevList(repo, {revisions.tip}, {revisions.base})
               changed == {repo.change[c] : c \in commits}
    <3>1. plan'.binary = setup.binary \cap changed
      BY <2>3 DEF DiffHistory
    <3>2. commits \in SUBSET Commit(repo)
      BY DEF RevList
    <3> HIDE DEF commits
    <3>3. IsFiniteSet(commits)
      BY <2>2, <3>2, FS_Subset
    <3>4. IsFiniteSet(changed)
      BY <3>3, ImageIsFinite
    <3>5. plan'.binary \in SUBSET changed
      BY <3>1
    <3> HIDE DEF changed
    <3> QED BY <3>4, <3>5, FS_Subset
  <2>4. CASE plan' = SquashedDiff
    <3> DEFINE d == DiffBetween(repo, revisions.base, revisions.tip)
               tree == Tree(repo, revisions.tip)
    <3>1. plan'.binary = setup.binary \cap (IF d = None THEN {}
                                            ELSE d[2] \ d[1])
      BY <2>4 DEF SquashedDiff, GitDiff
    <3>2. d = None \/ d[2] = tree
      BY DEF DiffBetween
    <3> HIDE DEF d, tree
    <3>3. plan'.binary \in SUBSET tree
      BY <3>1, <3>2
    <3>4. IsFiniteSet(tree)
      BY <2>1, TreeIsFinite DEF tree
    <3> QED BY <3>3, <3>4, FS_Subset
  <2> QED BY <1>1, <1>3, <2>3, <2>4 DEF DiffToPost
<1> QED BY <1>2, <1>3

LEMMA UploadsAreFinite ==
  ASSUME IsFiniteSet(plan.binary)
  PROVE  IsFiniteSet(FilesToUpload)
<1>1. IsFiniteSet({}) /\ IsFiniteSet({"dest"})
  BY FS_EmptySet, FS_Singleton
<1>2. IsFiniteSet({"dest", "source"})
  <2>1. IsFiniteSet({"dest"} \cup {"source"})
    BY <1>1, FS_AddElement
  <2>2. {"dest"} \cup {"source"} = {"dest", "source"}
    OBVIOUS
  <2> QED BY <2>1, <2>2
<1>3. IsFiniteSet(plan.binary \X {"dest"})
      /\ IsFiniteSet(plan.binary \X {"dest", "source"})
  BY <1>1, <1>2, FS_Product
<1> QED BY <1>1, <1>3 DEF FilesToUpload

(* The steps that are not about questions, the plan or the files *)
LEMMA FiniteSteps ==
  ASSUME [Next]_vars,
         ~(AskAboutMatches \/ Decline \/ MakeDiff \/ UploadDiff
           \/ FinalizeCommitSeries \/ UploadFile)
  PROVE  /\ asking' = asking \/ asking' = <<>>
         /\ files' = files \/ files' = {}
         /\ stage' \in Planned => stage \in Planned /\ plan' = plan
<1> USE DEF serverVars, matchVars, planVars, commandVars, Goto, Planned,
            Uploading
<1>1. CASE UNCHANGED vars
  BY <1>1 DEF vars
<1>2. CASE Start \/ Ends
  BY <1>2 DEF Start, Ends, RefuseOptions, NoMatch, RefuseRequest, RefuseDiff,
              Fail, Abort
<1>3. CASE ParseOptions \/ FetchPage \/ TakeMatch \/ Confirm \/ FetchRequest
  BY <1>3 DEF ParseOptions, FetchPage, TakeMatch, Confirm, FetchRequest
<1>4. CASE ValidateSquashedDiff \/ ValidateCommit \/ UseExisting \/ SkipDiff
           \/ GetDraft \/ StampCommit \/ SkipStamp \/ NothingToUpdate
  BY <1>4 DEF ValidateSquashedDiff, ValidateCommit, AfterValidation,
              UseExisting, SkipDiff, GetDraft, StampCommit, SkipStamp,
              NothingToUpdate
<1>5. CASE Edits
  BY <1>5 DEF Edits, CreateRequest, GetOrCreateDraft, CreateEmpty, UploadCommit,
              UpdateDraft
<1>6. CASE OnTheWeb
  BY <1>6, WebSteps DEF WebChange
<1>7. CASE Commits
  BY <1>7 DEF Commits
<1> QED BY <1>1, <1>2, <1>3, <1>4, <1>5, <1>6, <1>7, NextSteps DEF Reads

LEMMA FiniteStep ==
  TypeInv /\ RevInv /\ ListInv /\ FiniteInv /\ [Next]_vars => FiniteInv'
<1>1. SUFFICES ASSUME TypeInv, RevInv, ListInv, FiniteInv, [Next]_vars
               PROVE  FiniteInv'
  OBVIOUS
<1> USE DEF Planned, Uploading
<1>2. CASE AskAboutMatches
  <2>1. /\ asking' \in Questions(seen, revisions.commit_id, Text)
        /\ stage' = "asking" /\ UNCHANGED files
    BY <1>2 DEF AskAboutMatches, Goto, planVars
  <2>2. IsList(seen, Request) /\ MaxPrompts \in Nat \ {0}
    BY <1>1, OfItself, PostAssumption DEF ListInv, IsList
  <2>3. asking' \in Seq(Request)
    BY <2>1, <2>2, QuestionsAre
  <2> QED BY <1>1, <2>1, <2>3 DEF FiniteInv
<1>3. CASE Decline
  <2>1. /\ asking' = Tail(asking) /\ asking # <<>> /\ stage = "asking"
        /\ UNCHANGED <<stage, files>>
    BY <1>3 DEF Decline, planVars
  <2>2. asking \in Seq(Request)
    BY <1>1 DEF FiniteInv
  <2>3. asking' \in Seq(Request)
    BY <2>1, <2>2, HeadTailProperties
  <2> QED BY <1>1, <2>1, <2>3 DEF FiniteInv
<1>4. CASE MakeDiff
  <2>1. UNCHANGED <<asking, files>>
    BY <1>4 DEF MakeDiff, matchVars
  <2> QED BY <1>1, <1>4, <2>1, PlanIsFinite DEF FiniteInv
<1>5. CASE UploadDiff \/ FinalizeCommitSeries
  <2>1. /\ UNCHANGED <<asking, plan>> /\ stage \in Planned
        /\ files' = FilesToUpload
    BY <1>5 DEF UploadDiff, FinalizeCommitSeries, matchVars
  <2> QED BY <1>1, <2>1, UploadsAreFinite DEF FiniteInv
<1>6. CASE UploadFile
  <2>1. /\ UNCHANGED <<asking, plan, stage>>
        /\ \E f \in files : files' = files \ {f}
    BY <1>6 DEF UploadFile, matchVars
  <2>2. IsFiniteSet(files')
    BY <1>1, <2>1, FS_RemoveElement DEF FiniteInv
  <2> QED BY <1>1, <2>1, <2>2 DEF FiniteInv
<1>7. CASE ~(AskAboutMatches \/ Decline \/ MakeDiff \/ UploadDiff
             \/ FinalizeCommitSeries \/ UploadFile)
  <2>1. /\ asking' = asking \/ asking' = <<>>
        /\ files' = files \/ files' = {}
        /\ stage' \in Planned => stage \in Planned /\ plan' = plan
    BY <1>1, <1>7, FiniteSteps
  <2>2. <<>> \in Seq(Request) /\ IsFiniteSet({})
    BY FS_EmptySet
  <2> QED BY <1>1, <2>1, <2>2 DEF FiniteInv
<1> QED BY <1>2, <1>3, <1>4, <1>5, <1>6, <1>7

(* The order of the stages *)
LEMMA Ranks ==
  /\ RankOf["options"] = 15 /\ RankOf["listing"] = 14
  /\ RankOf["matching"] = 13 /\ RankOf["asking"] = 12
  /\ RankOf["fetching"] = 11 /\ RankOf["diffing"] = 10
  /\ RankOf["validating"] = 9 /\ RankOf["creating"] = 8
  /\ RankOf["uploading"] = 7 /\ RankOf["empty"] = 6
  /\ RankOf["commits"] = 5 /\ RankOf["files"] = 4 /\ RankOf["draft"] = 3
  /\ RankOf["stamping"] = 2 /\ RankOf["updating"] = 1
BY DEF RankOf

Nearer ==
  /\ LeftToDo' >= 0
  /\ Rank' < Rank \/ (Rank' = Rank /\ LeftToDo' < LeftToDo)

(* One step less, or a later stage *)
LEMMA Loops ==
  ASSUME TypeInv, PlanInv, DiffInv, ListInv, FiniteInv,
         FetchPage \/ Decline \/ ValidateCommit \/ UploadCommit \/ UploadFile
  PROVE  Nearer
<1> USE Ranks DEF Nearer, Rank, LeftToDo, Goto
<1>1. CASE FetchPage
  <2>1. /\ stage = "listing" /\ stage' \in {"listing", "matching"}
        /\ MaxReviewRequests \in Nat
    BY <1>1, PostAssumption DEF FetchPage
  <2>2. /\ seen' \in Seq(ToSet(seen')) /\ seen \in Seq(ToSet(seen))
        /\ Len(seen') <= MaxReviewRequests
        /\ stage' = "listing" => Len(seen') > Len(seen)
    BY <1>1, PageIs DEF ListInv
  <2>3. Len(seen') \in Nat /\ Len(seen) \in Nat
    BY <2>2
  <2> QED BY <2>1, <2>2, <2>3
<1>2. CASE Decline
  <2>1. /\ stage = "asking" /\ stage' = "asking" /\ asking # <<>>
        /\ asking' = Tail(asking) /\ asking \in Seq(Request)
    BY <1>2 DEF Decline, FiniteInv
  <2>2. Len(asking') = Len(asking) - 1 /\ Len(asking) \in Nat
        /\ Len(asking) # 0
    BY <2>1, HeadTailProperties
  <2> QED BY <2>1, <2>2
<1>3. CASE ValidateCommit
  <2>1. /\ stage = "validating" /\ plan.kind = "history" /\ plan' = plan
        /\ validated' = Append(validated, Append(validated[Len(validated)],
                          plan.entries[Len(validated)].commit_id))
        /\ stage' = IF Len(validated') > Len(plan.entries)
                    THEN AfterValidation ELSE "validating"
    BY <1>3 DEF ValidateCommit
  <2>2. /\ Len(plan.entries) \in Nat /\ Len(validated) \in Nat
        /\ validated = [k \in 1..Len(validated) |-> Known(k)]
    BY <2>1 DEF PlanInv, Planned, KindOfPlan, ValidatedInv
  <2>3. Len(validated') = Len(validated) + 1
    BY <2>1, <2>2
  <2>4. CASE Len(validated') > Len(plan.entries)
    <3>1. stage' \in {"creating", "uploading"}
      BY <2>1, <2>4 DEF AfterValidation
    <3> QED BY <2>1, <3>1
  <2>5. CASE ~(Len(validated') > Len(plan.entries))
    <3>1. stage' = "validating"
      BY <2>1, <2>5
    <3>2. stage = "validating" /\ plan' = plan
      BY <2>1
    <3>3. /\ LeftToDo = Len(plan.entries) + 1 - Len(validated)
          /\ LeftToDo' = Len(plan.entries) + 1 - Len(validated')
          /\ Rank = 9 /\ Rank' = 9
      BY <3>1, <3>2
    <3> HIDE DEF LeftToDo, Rank
    <3> DEFINE count == Len(plan.entries)
               old == Len(validated)
               new == Len(validated')
    <3>4. /\ count \in Nat /\ old \in Nat /\ new = old + 1
          /\ ~(new > count)
          /\ LeftToDo = count + 1 - old /\ LeftToDo' = count + 1 - new
      BY <2>2, <2>3, <2>5, <3>3
    <3> HIDE DEF count, old, new
    <3>5. LeftToDo' >= 0 /\ LeftToDo' < LeftToDo
      BY ONLY <3>4
    <3> QED BY <3>3, <3>5
  <2> QED BY <2>4, <2>5
<1>4. CASE UploadCommit
  <2>1. /\ stage = "commits" /\ stage' = "commits" /\ plan' = plan
        /\ sent < Len(plan.entries) /\ sent' = sent + 1
    BY <1>4 DEF UploadCommit
  <2>2. Len(plan.entries) \in Nat /\ sent \in Nat
    BY <2>1 DEF PlanInv, Planned, Uploading, KindOfPlan, DiffInv, TypeInv,
                TypeOK
  <2> QED BY <2>1, <2>2
<1>5. CASE UploadFile
  <2>1. PICK f \in files : files' = files \ {f}
    BY <1>5 DEF UploadFile
  <2>2. stage = "files" /\ stage' = "files" /\ IsFiniteSet(files)
    BY <1>5 DEF UploadFile, FiniteInv
  <2>3. /\ Cardinality(files') = Cardinality(files) - 1
        /\ IsFiniteSet(files')
    BY <2>1, <2>2, FS_RemoveElement
  <2>4. Cardinality(files) \in Nat /\ Cardinality(files') \in Nat
    BY <2>2, <2>3, FS_CardinalityType
  <2> QED BY <2>2, <2>3, <2>4
<1> QED BY <1>1, <1>2, <1>3, <1>4, <1>5

(* A stage that begins with something to do *)
LEMMA Begins ==
  ASSUME TypeInv, PlanInv, DiffInv, ListInv, FiniteInv, FiniteInv', PlanInv',
         ParseOptions \/ AskAboutMatches \/ MakeDiff \/ CreateEmpty
         \/ UploadDiff \/ FinalizeCommitSeries
  PROVE  Nearer
<1> USE Ranks DEF Nearer, Rank, LeftToDo, Goto
<1>1. CASE ParseOptions
  <2>1. /\ stage = "options" /\ stage' \in {"listing", "fetching", "diffing"}
        /\ seen' = seen /\ MaxReviewRequests \in Nat
    BY <1>1, PostAssumption DEF ParseOptions, matchVars
  <2>2. Len(seen) = 0
    BY <2>1 DEF ListInv
  <2> QED BY <2>1, <2>2
<1>2. CASE AskAboutMatches
  <2>1. stage = "matching" /\ stage' = "asking" /\ asking' \in Seq(Request)
    BY <1>2 DEF AskAboutMatches, FiniteInv
  <2>2. Len(asking') \in Nat
    BY <2>1
  <2> QED BY <2>1, <2>2
<1>3. CASE MakeDiff
  <2>1. /\ stage = "diffing" /\ stage' = "validating" /\ validated' = <<<<>>>>
    BY <1>3 DEF MakeDiff
  <2>2. Len(plan'.entries) \in Nat
    BY <2>1 DEF PlanInv, Planned, KindOfPlan
  <2>3. Len(validated') = 1
    BY <2>1
  <2> DEFINE count == Len(plan'.entries)
  <2>4. Rank = 10 /\ Rank' = 9 /\ LeftToDo' = count + 1 - 1
    BY <2>1, <2>3
  <2>5. count \in Nat
    BY <2>2
  <2> HIDE DEF count, Rank, LeftToDo
  <2> QED BY <2>4, <2>5
<1>4. CASE CreateEmpty
  <2>1. /\ stage = "empty" /\ stage' = "commits" /\ plan' = plan
        /\ sent' = sent
    BY <1>4 DEF CreateEmpty, planVars
  <2>2. Len(plan.entries) \in Nat /\ sent = 0
    BY <2>1 DEF PlanInv, Planned, Uploading, KindOfPlan, DiffInv
  <2> QED BY <2>1, <2>2
<1>5. CASE UploadDiff \/ FinalizeCommitSeries
  <2>1. stage \in {"uploading", "commits"} /\ stage' = "files"
        /\ IsFiniteSet(files')
    BY <1>5 DEF UploadDiff, FinalizeCommitSeries, FiniteInv
  <2>2. Cardinality(files') \in Nat
    BY <2>1, FS_CardinalityType
  <2> QED BY <2>1, <2>2
<1> QED BY <1>1, <1>2, <1>3, <1>4, <1>5

(* A later stage with one thing to do *)
LEMMA Passes ==
  ASSUME TypeInv, Running, Running',
         Reads \/ Edits,
         ~(FetchPage \/ Decline \/ ValidateCommit \/ UploadCommit \/ UploadFile),
         ~(ParseOptions \/ AskAboutMatches \/ MakeDiff \/ CreateEmpty
           \/ UploadDiff \/ FinalizeCommitSeries)
  PROVE  Nearer
<1> USE Ranks DEF Nearer, Rank, LeftToDo, Goto, Running
<1>1. CASE TakeMatch \/ Confirm \/ FetchRequest
  BY <1>1 DEF TakeMatch, Confirm, FetchRequest
<1>2. CASE ValidateSquashedDiff
  <2>1. stage = "validating" /\ stage' \in {"creating", "uploading"}
    BY <1>2 DEF ValidateSquashedDiff, AfterValidation
  <2> QED BY <2>1
<1>7. CASE CreateRequest \/ UseExisting
  <2>1. stage = "creating" /\ stage' = "uploading"
    BY <1>7 DEF CreateRequest, UseExisting
  <2> QED BY <2>1
<1>3. CASE SkipDiff \/ GetOrCreateDraft
  BY <1>3 DEF SkipDiff, GetOrCreateDraft
<1>4. CASE GetDraft
  BY <1>4 DEF GetDraft
<1>5. CASE StampCommit \/ SkipStamp
  BY <1>5 DEF StampCommit, SkipStamp
<1>6. CASE UpdateDraft \/ NothingToUpdate
  BY <1>6 DEF UpdateDraft, NothingToUpdate
<1> QED BY <1>1, <1>2, <1>3, <1>4, <1>5, <1>6, <1>7 DEF Reads, Edits

(* Every step of a run takes it to a later stage, or nearer to the end of  *)
(* the list, the questions, the commits or the files, however long these   *)
(* are: a run that is not left waiting comes to an end.                    *)
THEOREM RunsComeToAnEnd == Spec => ComesToAnEnd
<1> DEFINE A == Running /\ Running' /\ changes' = changes => Nearer
           Inv == PostInv /\ RevInv /\ ListInv /\ FiniteInv
<1>1. Init => Inv
  BY InitTypes, InitServer, InitDiff, RevInit, ListInit, FiniteInit
     DEF PostInv
<1>2. Inv /\ [Next]_vars => Inv'
  BY TypeStep, ServerStep, PlanStep, DiffStep, RevStep, ListStep, FiniteStep
     DEF PostInv
<1>3. Inv /\ Inv' /\ [Next]_vars => [A]_vars
  <2>1. SUFFICES ASSUME Inv, Inv', [Next]_vars, ~UNCHANGED vars, Running,
                        Running', changes' = changes
                 PROVE  Nearer
    OBVIOUS
  <2>2. TypeInv /\ PlanInv /\ DiffInv /\ ListInv /\ FiniteInv /\ FiniteInv'
        /\ PlanInv'
    BY <2>1 DEF PostInv
  <2>3. ~(Start \/ Ends \/ Commits)
    BY <2>1 DEF Start, Ends, Commits, RefuseOptions, NoMatch, RefuseRequest,
                RefuseDiff, Fail, Abort, Goto, Running
  <2>4. ~OnTheWeb
    <3>1. SUFFICES ASSUME OnTheWeb PROVE FALSE
      OBVIOUS
    <3>2. changes' = changes + 1
      BY <3>1 DEF OnTheWeb, WebChange
    <3>3. changes \in 0..setup.web /\ setup.web \in Nat
      BY <2>2, SetupAssumption DEF TypeInv, TypeOK
    <3> QED BY <2>1, <3>2, <3>3
  <2>5. Reads \/ Edits
    BY <2>1, <2>3, <2>4, NextSteps
  <2> QED BY <2>1, <2>2, <2>5, Loops, Begins, Passes
<1>4. [A]_vars => [Running /\ Running' /\ changes' = changes =>
                     /\ LeftToDo' >= 0
                     /\ Rank' < Rank
                        \/ (Rank' = Rank /\ LeftToDo' < LeftToDo)]_vars
  BY DEF Nearer
<1> QED BY <1>1, <1>2, <1>3, <1>4, PTL DEF Spec, ComesToAnEnd
-----------------------------------------------------------------------------
(* What a run knows of its review request at the end: that nobody has      *)
(* changed another since it was created, and which commit its draft names  *)
KnownCommit ==
  stage \in Planned /\ plan.commit_id # None =>
    plan.changenum = None /\ plan.kind # "history"

LastInv ==
  /\ KnownCommit
  /\ stage \in {"diffing", "validating"} /\ target # None => ~fetched.is_new
  /\ stage \in Uploading \ {"posted"} /\ disturbed = {} =>
       /\ fetched.is_new /\ plan.changenum = None => IsOnTop(target)
       /\ stage \in {"stamping", "updating"} =>
            HasDraft(target) /\ Draft(target).commit_id = draft_commit

LEMMA LastInit == Init => LastInv
BY DEF Init, LastInv, KnownCommit, Planned, Uploading

LEMMA CommitIsKnown ==
  ASSUME TypeInv, KnownCommit, [Next]_vars
  PROVE  KnownCommit'
<1> USE DEF KnownCommit, Planned, Uploading, Goto, commandVars, planVars
<1>1. CASE UNCHANGED vars
  BY <1>1 DEF vars
<1>2. CASE Start \/ Ends
  BY <1>2 DEF Start, Ends, RefuseOptions, NoMatch, RefuseRequest, RefuseDiff,
              Fail, Abort
<1>3. CASE MakeDiff
  <2>1. plan' = DiffToPost
    BY <1>3 DEF MakeDiff
  <2>2. /\ FileDiff.commit_id = None /\ DiffHistory.commit_id = None
        /\ SquashedDiff.kind = "squashed"
        /\ SquashedDiff.commit_id # None => SquashedDiff.changenum = None
    BY DEF FileDiff, DiffHistory, SquashedDiff
  <2> HIDE DEF KnownCommit
  <2>3. plan'.commit_id # None =>
          plan'.changenum = None /\ plan'.kind # "history"
    BY <2>1, <2>2 DEF DiffToPost
  <2> QED BY <2>3 DEF KnownCommit
<1>4. CASE Reads /\ ~MakeDiff
  <2>1. UNCHANGED plan /\ (stage' \in Planned => stage \in Planned)
    BY <1>4 DEF Reads, ParseOptions, FetchPage, TakeMatch, AskAboutMatches,
                Confirm, Decline, FetchRequest, ValidateSquashedDiff,
                ValidateCommit, UseExisting, SkipDiff, GetDraft, StampCommit,
                SkipStamp, NothingToUpdate
  <2> QED BY <2>1
<1>5. CASE Edits
  <2>1. UNCHANGED plan /\ stage \in Planned
    BY <1>5 DEF Edits, CreateRequest, UploadDiff, GetOrCreateDraft,
                CreateEmpty, UploadCommit, FinalizeCommitSeries, UploadFile,
                UpdateDraft
  <2> QED BY <2>1
<1>6. CASE OnTheWeb
  BY <1>6, WebSteps DEF WebChange
<1>7. CASE Commits
  BY <1>7 DEF Commits
<1> QED BY <1>1, <1>2, <1>3, <1>4, <1>5, <1>6, <1>7, NextSteps

LEMMA LastStep ==
  TypeInv /\ ListInv /\ LastInv /\ [Next]_vars => LastInv'
<1>1. SUFFICES ASSUME TypeInv, ListInv, LastInv, [Next]_vars PROVE LastInv'
  OBVIOUS
<1>2. KnownCommit'
  BY <1>1, CommitIsKnown DEF LastInv
<1> USE DEF Uploading, Goto, commandVars, planVars, serverVars
<1>3. CASE UNCHANGED vars
  BY <1>1, <1>2, <1>3 DEF vars, LastInv, IsOnTop, HasDraft, Draft
<1>4. CASE Start \/ Ends
  <2>1. stage' \in {"options", "failed"}
    BY <1>4 DEF Start, Ends, RefuseOptions, NoMatch, RefuseRequest,
                RefuseDiff, Fail, Abort
  <2> QED BY <1>2, <2>1 DEF LastInv
<1>5. CASE Reads
  <2>1. CASE ParseOptions
    BY <1>2, <2>1 DEF ParseOptions, LastInv
  <2>2. CASE \/ FetchPage \/ TakeMatch \/ AskAboutMatches \/ Confirm
             \/ Decline \/ NothingToUpdate
    <3>1. stage' \notin {"diffing", "validating"}
          /\ stage' \notin Uploading \ {"posted"}
      BY <2>2 DEF FetchPage, TakeMatch, AskAboutMatches, Confirm, Decline,
                  NothingToUpdate
    <3> QED BY <1>2, <3>1 DEF LastInv
  <2>3. CASE FetchRequest
    BY <1>2, <2>3 DEF FetchRequest, LastInv
  <2>4. CASE MakeDiff
    BY <1>1, <1>2, <2>4 DEF MakeDiff, LastInv
  <2>5. CASE ValidateSquashedDiff \/ ValidateCommit
    <3>1. /\ stage = "validating" /\ UNCHANGED <<target, fetched>>
          /\ stage' \in {"validating", "creating", "uploading"}
          /\ stage' = "uploading" => target # None
      BY <2>5 DEF ValidateSquashedDiff, ValidateCommit, AfterValidation
    <3> QED BY <1>1, <1>2, <3>1 DEF LastInv
  <2>6. CASE UseExisting
    BY <1>2, <2>6 DEF UseExisting, InUse, LastInv
  <2>7. CASE SkipDiff
    BY <1>1, <1>2, <2>7 DEF SkipDiff, LastInv, IsOnTop
  <2>8. CASE GetDraft
    BY <1>1, <1>2, <2>8 DEF GetDraft, LastInv, IsOnTop, HasDraft, Draft
  <2>9. CASE StampCommit \/ SkipStamp
    BY <1>1, <1>2, <2>9
       DEF StampCommit, SkipStamp, LastInv, IsOnTop, HasDraft, Draft
  <2> QED BY <1>5, <2>1, <2>2, <2>3, <2>4, <2>5, <2>6, <2>7, <2>8, <2>9
          DEF Reads
<1>6. CASE Edits
  <2>1. stage' \in Uploading \ {"stamping", "updating"}
    BY <1>6 DEF Edits, CreateRequest, UploadDiff, GetOrCreateDraft,
                CreateEmpty, UploadCommit, FinalizeCommitSeries, UploadFile,
                UpdateDraft
  <2>2. \/ IsOnTop(target)'
        \/ GetOrCreateDraft /\ UNCHANGED order
    BY <1>1, <1>6, EditsTouch, TouchOrder DEF ListInv
  <2>3. CASE IsOnTop(target)'
    BY <1>2, <2>1, <2>3 DEF LastInv
  <2>4. CASE GetOrCreateDraft /\ UNCHANGED order
    BY <1>1, <1>2, <2>1, <2>4 DEF GetOrCreateDraft, LastInv, IsOnTop
  <2> QED BY <2>2, <2>3, <2>4
<1>7. CASE OnTheWeb
  <2>1. /\ UNCHANGED <<stage, target, fetched>>
        /\ disturbed' # {}
    BY <1>7, WebSteps DEF WebChange
  <2> QED BY <1>1, <1>2, <2>1 DEF LastInv
<1>8. CASE Commits
  BY <1>1, <1>2, <1>8 DEF Commits, LastInv, IsOnTop, HasDraft, Draft
<1> QED BY <1>1, <1>3, <1>4, <1>5, <1>6, <1>7, <1>8, NextSteps

(* What was posted last, while nobody has changed anything since: it heads *)
(* the list, has the commit and the text, and is the first that is read.   *)
AsPosted ==
  /\ IsOnTop(posted.request)
  /\ posted.commit_id # None =>
       DraftOrCurrent(posted.request).commit_id = posted.commit_id
  /\ posted.text # None =>
       DraftOrCurrent(posted.request).text = posted.text

IsReadFirst ==
  \/ stage = "listing" /\ page = 0 /\ seen = <<>>
  \/ seen # <<>> /\ seen[1] = Candidate(posted.request)

PostedInv ==
  /\ stage \in {"idle", "failed"} => posted = None
  /\ posted # None /\ (posted.commit_id # None \/ posted.text # None) =>
       /\ stage \in {"posted", "options", "listing", "matching"} => AsPosted
       /\ stage \in {"listing", "matching"}
            /\ rr[posted.request].status = "pending" => IsReadFirst

LEMMA PostedInit == Init => PostedInv
BY DEF Init, PostedInv

(* The last write leaves the draft, or what is published of it, with the   *)
(* commit and the text that the run posted.                                *)
LEMMA UpdatePosts ==
  ASSUME TypeInv, ListInv, LastInv, UpdateDraft, disturbed = {}
  PROVE  AsPosted'
<1>1. /\ target \in Existing /\ target # None /\ stage = "updating"
      /\ UNCHANGED target /\ posted' = PostedFor(target)
  BY PostAssumption
     DEF TypeInv, TypeOK, Existing, UpdateDraft, Remember, Uploading
<1>2. /\ target \in Request /\ IsRequest(rr[target]) /\ target \in DOMAIN rr
      /\ IsFields(DraftOrNew(target))
  BY <1>1, DraftOrNewTypes DEF TypeInv, TypeOK, Existing
<1>3. HasDraft(target) /\ Draft(target).commit_id = draft_commit
      /\ KnownCommit
  BY <1>1 DEF LastInv, Uploading
<1> DEFINE f == DraftFields
           old == DraftOrNew(target)
           commit == PostedFor(target).commit_id
<1>4. old.commit_id = draft_commit
  BY <1>3 DEF DraftOrNew
<1>5. commit # None =>
        /\ ~opt.diff_only /\ cap.commit_ids /\ commit = plan.commit_id
        /\ plan.kind # "history"
  BY <1>1, <1>3 DEF PostedFor, KnownCommit, Planned, Uploading
<1>6. /\ IsFields(f)
      /\ f.text = IF TextToSet = None THEN old.text ELSE TextToSet
      /\ f.commit_id = IF SetsCommitId THEN plan.commit_id ELSE old.commit_id
  <2>1. f = [old EXCEPT
               !.text = IF TextToSet = None THEN @ ELSE TextToSet,
               !.commit_id = IF SetsCommitId THEN plan.commit_id ELSE @]
    BY DEF DraftFields
  <2>2. IsFields(old)
    BY <1>2
  <2> HIDE DEF f, old
  <2> QED BY <2>1, <2>2 DEF IsFields
<1>7. /\ commit # None => f.commit_id = commit
      /\ PostedFor(target).text # None => f.text = PostedFor(target).text
  BY <1>4, <1>5, <1>6 DEF SetsCommitId, PostedFor
<1> HIDE DEF f, old, commit
<1>8. IsOnTop(target)'
  <2>1. PICK record : Touch(target, record)
    BY DEF UpdateDraft
  <2> QED BY <1>1, <1>2, <2>1, TouchOrder DEF ListInv
<1>9. /\ DraftOrCurrent(target)'.commit_id = f.commit_id
      /\ DraftOrCurrent(target)'.text = f.text
  <2>1. CASE opt.publish
    <3>1. rr' = [rr EXCEPT ![target] = Published(target, f)]
      BY <2>1, Touches DEF UpdateDraft, f
    <3>2. /\ Published(target, f).draft = <<>>
          /\ Published(target, f).current.text = f.text
          /\ Published(target, f).current.commit_id = f.commit_id
      BY <1>2, <1>6, PublishedKeeps
    <3> QED BY <1>1, <1>2, <3>1, <3>2 DEF DraftOrCurrent, HasDraft
  <2>2. CASE ~opt.publish
    <3>1. WriteDraft(target, f)
      BY <2>2 DEF UpdateDraft, WriteDraft, f
    <3>2. HasDraft(target)' /\ Draft(target)' = f
      BY <1>1, <3>1, Written
    <3> QED BY <1>1, <3>2 DEF DraftOrCurrent
  <2> QED BY <2>1, <2>2
<1>10. posted'.request = target /\ posted'.commit_id = commit
       /\ posted'.text = PostedFor(target).text
  BY <1>1 DEF PostedFor, commit
<1> QED BY <1>1, <1>7, <1>8, <1>9, <1>10 DEF AsPosted

(* A run that has nothing to update created the review request, and stored *)
(* the commit with it.                                                     *)
LEMMA CreationPosts ==
  ASSUME TypeInv, LastInv, NothingToUpdate, disturbed = {},
         posted'.commit_id # None \/ posted'.text # None
  PROVE  AsPosted'
<1>1. /\ target \in Existing /\ target # None /\ stage = "updating"
      /\ UNCHANGED <<target, rr, order>> /\ posted' = PostedFor(target)
      /\ fetched.is_new /\ TextToSet = None /\ ~SetsCommitId
  BY PostAssumption
     DEF TypeInv, TypeOK, Existing, NothingToUpdate, Remember, Uploading,
         HasUpdateFields, serverVars
<1>2. /\ HasDraft(target) /\ Draft(target).commit_id = draft_commit
      /\ KnownCommit
      /\ fetched.is_new /\ plan.changenum = None => IsOnTop(target)
  BY <1>1 DEF LastInv, Uploading
<1>3. posted'.request = target /\ posted'.text = None
      /\ posted'.commit_id # None
  BY <1>1 DEF PostedFor
<1>4. ~opt.diff_only /\ cap.commit_ids /\ posted'.commit_id = plan.commit_id
  BY <1>1, <1>3 DEF PostedFor
<1>5. plan.changenum = None /\ plan.kind # "history"
  BY <1>1, <1>2, <1>3, <1>4 DEF KnownCommit, Planned, Uploading
<1>6. IsOnTop(target) /\ Draft(target).commit_id = posted'.commit_id
  BY <1>1, <1>2, <1>4, <1>5 DEF SetsCommitId
<1> QED BY <1>1, <1>2, <1>3, <1>6
        DEF AsPosted, IsOnTop, DraftOrCurrent, HasDraft, Draft

LEMMA PostedStep ==
  TypeInv /\ ListInv /\ LastInv /\ PostedInv /\ [Next]_vars => PostedInv'
<1>1. SUFFICES ASSUME TypeInv, ListInv, LastInv, PostedInv, [Next]_vars
               PROVE  PostedInv'
  OBVIOUS
<1> USE DEF Goto, commandVars, matchVars, serverVars
<1>2. UNCHANGED <<rr, order, posted>> =>
        /\ AsPosted' <=> AsPosted
        /\ Candidate(posted.request)' = Candidate(posted.request)
  BY DEF AsPosted, IsOnTop, Candidate, DraftOrCurrent, HasDraft, Draft
<1>3. CASE UNCHANGED vars \/ Commits
  <2>1. UNCHANGED <<rr, order, posted, stage, page, seen>>
    BY <1>3 DEF vars, Commits
  <2> QED BY <1>1, <1>2, <2>1 DEF PostedInv, IsReadFirst
<1>4. CASE Start
  <2>1. /\ UNCHANGED <<rr, order, posted>> /\ stage' = "options"
        /\ stage \in {"idle", "posted", "failed"}
    BY <1>4 DEF Start
  <2> QED BY <1>1, <1>2, <2>1 DEF PostedInv
<1>5. CASE Ends
  <2>1. posted' = None
    BY <1>5 DEF Ends, RefuseOptions, NoMatch, RefuseRequest, RefuseDiff,
                Fail, Abort
  <2> QED BY <2>1 DEF PostedInv
<1>6. CASE ParseOptions
  <2>1. /\ UNCHANGED <<rr, order, posted, seen, page>> /\ stage = "options"
        /\ stage' \in {"listing", "fetching", "diffing"}
    BY <1>6 DEF ParseOptions
  <2>2. seen = <<>> /\ page = 0
    BY <1>1, <2>1 DEF ListInv
  <2> QED BY <1>1, <1>2, <2>1, <2>2 DEF PostedInv, IsReadFirst
<1>7. CASE FetchPage
  <2>1. /\ UNCHANGED <<rr, order, posted>> /\ stage = "listing"
        /\ stage' \in {"listing", "matching"}
    BY <1>7 DEF FetchPage
  <2>2. SUFFICES ASSUME posted # None,
                        posted.commit_id # None \/ posted.text # None
                 PROVE  /\ AsPosted
                        /\ rr[posted.request].status = "pending" =>
                             seen' # <<>> /\ seen'[1] = Candidate(posted.request)
    BY <1>2, <2>1 DEF PostedInv, IsReadFirst
  <2>3. /\ AsPosted /\ posted.request \in Request
        /\ rr[posted.request].status = "pending" => IsReadFirst
    BY <1>1, <2>1, <2>2 DEF PostedInv, TypeInv, TypeOK, Existing
  <2> QED BY <1>1, <1>7, <2>3, PageIs DEF IsReadFirst, AsPosted
<1>8. CASE UpdateDraft \/ NothingToUpdate
  <2>1. /\ stage' = "posted"
        /\ disturbed # {} => posted' = None
    BY <1>8 DEF UpdateDraft, NothingToUpdate, Remember
  <2>2. disturbed = {} /\ (posted'.commit_id # None \/ posted'.text # None)
          => AsPosted'
    BY <1>1, <1>8, UpdatePosts, CreationPosts
  <2> QED BY <2>1, <2>2 DEF PostedInv
<1>9. CASE /\ Reads \/ Edits
           /\ ~(ParseOptions \/ FetchPage \/ UpdateDraft \/ NothingToUpdate)
  <2>1. stage' \notin {"idle", "failed", "posted", "options", "listing",
                       "matching"}
    BY <1>9
       DEF Reads, Edits, TakeMatch, AskAboutMatches, Confirm, Decline,
           FetchRequest, MakeDiff, ValidateSquashedDiff, ValidateCommit,
           AfterValidation, UseExisting, SkipDiff, GetDraft, StampCommit,
           SkipStamp, CreateRequest, UploadDiff, GetOrCreateDraft,
           CreateEmpty, UploadCommit, FinalizeCommitSeries, UploadFile
  <2> QED BY <2>1 DEF PostedInv
<1>10. CASE OnTheWeb
  <2>1. posted' = None
    BY <1>10, WebSteps DEF WebChange
  <2> QED BY <2>1 DEF PostedInv
<1> QED BY <1>1, <1>3, <1>4, <1>5, <1>6, <1>7, <1>8, <1>9, <1>10, NextSteps
        DEF Reads, Edits

(* What comes first in the list and is an exact match comes first among    *)
(* the exact matches, too, unless the tree of another one is recognised.   *)
LEMMA FirstIsExact ==
  ASSUME ListInv, PostedInv, IsPostedAgain, stage = "matching"
  PROVE  LET exact == ExactMatches(seen, revisions.commit_id, Text)
         IN  exact # <<>> /\ exact[1] = posted.request
<1> DEFINE test(i) == Tests(seen[i], revisions.commit_id, Text)
           r == posted.request
<1>1. posted.commit_id # None \/ posted.text # None
  BY DEF IsPostedAgain
<1>2. AsPosted /\ seen # <<>> /\ seen[1] = Candidate(r)
  BY <1>1 DEF PostedInv, IsPostedAgain, IsReadFirst
<1>3. IsList(seen, Request) /\ 1 \in DOMAIN seen
  BY <1>2, OfItself DEF ListInv, IsList
<1>4. /\ seen[1].id = r /\ seen[1].tree = None
      /\ posted.commit_id # None => seen[1].commit_id = posted.commit_id
      /\ posted.text # None => seen[1].text = posted.text
  BY <1>2 DEF Candidate, AsPosted, IsPostedAgain
<1>5. None # FALSE /\ Unknown = None
  BY PostAssumption
<1>6. CASE posted.commit_id # None /\ revisions.commit_id = posted.commit_id
  <2>1. ByCommit(test(1))
    BY <1>4, <1>5, <1>6 DEF ByCommit, Tests
  <2> QED BY <1>3, <1>4, <2>1, ExactMatchesAre
<1>7. CASE /\ posted.text # None /\ posted.text = Text /\ Text # <<>>
           /\ \/ revisions.commit_id = None
              \/ \A i \in DOMAIN seen : seen[i].commit_id # revisions.commit_id
  <2>1. ByText(test(1))
    BY <1>4, <1>5, <1>7 DEF ByText, Tests
  <2>2. \A i \in DOMAIN seen : ~ByCommit(test(i)) /\ ~ByTree(test(i))
    BY <1>5, <1>7 DEF ByCommit, ByTree, Tests, IsPostedAgain
  <2> QED BY <1>3, <1>4, <2>1, <2>2, ExactMatchesAre
<1> QED BY <1>6, <1>7 DEF IsPostedAgain

(* rbt post -u of what the last run posted, with nothing changed on the    *)
(* web since, takes it or asks about it first, however many other review   *)
(* requests there are, and however they are paged and ordered.             *)
THEOREM ItsPostIsFound == Spec => FindsItsPost
<1> DEFINE A == stage = "matching" /\ stage' \notin {"matching", "failed"}
                  /\ IsPostedAgain
                => \/ target' = posted.request
                   \/ asking' # <<>> /\ asking'[1] = posted.request
           Inv == TypeInv /\ ListInv /\ LastInv /\ PostedInv
<1>1. Init => Inv
  BY InitTypes, ListInit, LastInit, PostedInit
<1>2. Inv /\ [Next]_vars => Inv'
  BY TypeStep, ListStep, LastStep, PostedStep
<1>3. Inv /\ [Next]_vars => [A]_vars
  <2>1. SUFFICES ASSUME Inv, [Next]_vars, stage = "matching",
                        stage' \notin {"matching", "failed"}, IsPostedAgain
                 PROVE  \/ target' = posted.request
                        \/ asking' # <<>> /\ asking'[1] = posted.request
    OBVIOUS
  <2> DEFINE exact == ExactMatches(seen, revisions.commit_id, Text)
  <2>2. /\ exact # <<>> /\ exact[1] = posted.request
        /\ IsList(seen, Request)
    BY <2>1, FirstIsExact, OfItself DEF ListInv, IsList
  <2>3. TakeMatch \/ AskAboutMatches
    BY <2>1, WebSteps
       DEF vars, Next, Command, Match, Prepare, Upload, Finish, Start,
           ParseOptions, RefuseOptions, FetchPage, Confirm, Decline, NoMatch,
           FetchRequest, RefuseRequest, MakeDiff, RefuseDiff,
           ValidateSquashedDiff, ValidateCommit, CreateRequest, UseExisting,
           UploadDiff, SkipDiff, GetOrCreateDraft, CreateEmpty, UploadCommit,
           FinalizeCommitSeries, UploadFile, GetDraft, StampCommit, SkipStamp,
           UpdateDraft, NothingToUpdate, Fail, Abort, Goto, WebChange,
           Commits, commandVars
  <2>4. CASE TakeMatch
    BY <2>2, <2>4, PostAssumption DEF TakeMatch, TakenUnasked
  <2>5. CASE AskAboutMatches
    <3>1. asking' \in Questions(seen, revisions.commit_id, Text)
      BY <2>5 DEF AskAboutMatches
    <3>2. MaxPrompts \in Nat \ {0}
      BY PostAssumption
    <3> QED BY <2>2, <3>1, <3>2, QuestionsAre
  <2> QED BY <2>3, <2>4, <2>5
<1>4. [A]_vars => [stage = "matching" /\ stage' \notin {"matching", "failed"}
                     /\ IsPostedAgain
                   => \/ target' = posted.request
                      \/ asking' # <<>> /\ asking'[1] = posted.request]_vars
  OBVIOUS
<1> QED BY <1>1, <1>2, <1>3, <1>4, PTL DEF Spec, FindsItsPost
=============================================================================
