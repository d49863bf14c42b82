-------------------------------- MODULE Post --------------------------------
(***************************************************************************)
(* rbt post: create a review request, or update one, from the commits of a *)
(* Git working tree.                                                       *)
(*                                                                         *)
(* One run of the command parses its revisions, finds the review request   *)
(* to update (named with -r, or matched with -u from the pages of a list), *)
(* makes a squashed diff or one diff for each commit, has it validated,    *)
(* creates the review request if there is none, uploads, and updates the   *)
(* draft, which publishes it when asked.  Each step that is a request to   *)
(* the server is an action; the run may fail or be interrupted at any of   *)
(* them, before or after the server has acted, and what it did stays.      *)
(* Meanwhile the owner uses the web, and between two runs commits.         *)
(*                                                                         *)
(* The server is external and liberal: it accepts what the code does not   *)
(* rule out.  Review requests are model values; summary and description    *)
(* are one text; a tool with changesets stands for Perforce, of which only *)
(* the change number matters.                                              *)
(***************************************************************************)
EXTENDS Revisions, ReviewRequestMatch

CONSTANTS
  Request,     \* review requests of the user in this repository
  Word,        \* what messages are made of; a stamp is the request itself
  Setups,      \* situations: server, repository, and the runs to come
  PageSize,    \* review requests on a page of a list
  MaxCommits   \* bound: commits in the repository

ASSUME PostAssumption ==
  /\ Unknown = None
  /\ None \notin Request \cup Nat \cup {TRUE, FALSE}
  /\ None \notin (SUBSET Nat) \X (SUBSET Nat)
  /\ PageSize \in Nat \ {0} /\ MaxReviewRequests \in Nat \ {0}
  /\ MaxPrompts \in Nat \ {0} /\ MaxCommits \in Nat

(* The fields of a review request or of its draft.  A draft is a list, as  *)
(* in the answers of the server: it is empty or has one element.           *)
IsFields(f) == DOMAIN f = {"commit_id", "text", "diff"}
NoDiff == [kind |-> "none"]
HasDiff(f) == f.diff.kind # "none"
Versions(record) == {record.current} \cup ToSet(record.draft)

IsRequest(record) ==
  /\ DOMAIN record = {"status", "created_with_history", "changenum", "tree",
                      "current", "draft"}
  /\ record.status \in {"unused", "pending", "submitted", "discarded"}
  /\ record.created_with_history \in BOOLEAN
  /\ IsFields(record.current)
  /\ \/ record.draft = <<>>
     \/ DOMAIN record.draft = {1} /\ IsFields(record.draft[1])

(* A server without history has no review request created with history,    *)
(* and a tool with changesets makes none.  A diff that was posted before   *)
(* the first run is not looked at.                                         *)
ASSUME SetupAssumption ==
  \A s \in Setups :
    /\ Len(s.posts) \in Nat /\ s.web \in Nat
    /\ DOMAIN s.requests = Request /\ s.order \in Seq(Request)
    /\ IsHistory(s.repository)
    /\ \A i \in 1..Len(s.posts) : IsSpec(s.repository, s.posts[i].spec)
    /\ \A r \in Request : LET record == s.requests[r] IN
         /\ IsRequest(record)
         /\ \A f \in Versions(record) : f.diff = NoDiff
         /\ record.created_with_history =>
              s.capabilities.history /\ ~s.capabilities.changesets

VARIABLES
  setup,       \* the situation, fixed
  repo,        \* the history of the working tree
  rr,          \* request -> what the server has
  order,       \* the requests, most recently changed first
  changes,     \* changes through the web so far; the situation bounds them
  run,         \* number of the current or last run
  stage,       \* where the command is
  revisions,   \* the parsed revisions, or None
  seen,        \* candidates read from the list so far
  page,        \* number of the next page
  asking,      \* review requests the user is still to be asked about
  target,      \* the review request that is updated, or None
  fetched,     \* what the command knows of it
  plan,        \* the diff to post
  validated,   \* validation_info: one entry more than commits validated
  sent,        \* commits uploaded
  files,       \* binary files still to be uploaded
  draft_commit,\* commit_id of the draft that was fetched
  chosen,      \* history: how the target was found
  disturbed,   \* history: requests changed through the web during the run
  posted       \* history: what the last run posted, if it was left alone

serverVars == <<rr, order>>
matchVars == <<seen, page, asking>>
planVars == <<plan, validated, sent, files, draft_commit>>
commandVars == <<stage, revisions, matchVars, target, fetched, planVars,
                 chosen>>
vars == <<setup, repo, serverVars, changes, run, commandVars, disturbed,
          posted>>

opt == setup.posts[run]
cap == setup.capabilities
Existing == {r \in Request : rr[r].status # "unused"}
HasDraft(r) == rr[r].draft # <<>>
Draft(r) == rr[r].draft[1]

(* get_draft_or_current_value *)
DraftOrCurrent(r) == IF HasDraft(r) THEN Draft(r) ELSE rr[r].current

(* A new draft has the fields of the review request, and no diff of its    *)
(* own; to publish a draft without a diff leaves the one there is.         *)
DraftOrNew(r) == IF HasDraft(r) THEN Draft(r)
                 ELSE [rr[r].current EXCEPT !.diff = NoDiff]

Published(r, draft) ==
  [rr[r] EXCEPT !.current = [draft EXCEPT !.diff =
                  IF HasDiff(draft) THEN @ ELSE rr[r].current.diff],
                !.draft = <<>>]

NoFields == [commit_id |-> None, text |-> <<>>, diff |-> NoDiff]
-----------------------------------------------------------------------------
Init ==
  /\ setup \in Setups
  /\ repo = setup.repository
  /\ rr = setup.requests
  /\ order = setup.order
  /\ changes = 0 /\ run = 0 /\ stage = "idle"
  /\ revisions = None
  /\ seen = <<>> /\ page = 0 /\ asking = <<>>
  /\ target = None /\ fetched = None
  /\ plan = None /\ validated = <<>> /\ sent = 0 /\ files = {}
  /\ draft_commit = None
  /\ chosen = "none" /\ disturbed = {} /\ posted = None

Goto(next) == stage' = next

(* A CommandError, an exception nothing catches, or the end of the process *)
Abort ==
  /\ Goto("failed")
  /\ revisions' = None
  /\ seen' = <<>> /\ page' = 0 /\ asking' = <<>>
  /\ target' = None /\ fetched' = None
  /\ plan' = None /\ validated' = <<>> /\ sent' = 0 /\ files' = {}
  /\ draft_commit' = None
  /\ chosen' = "none" /\ posted' = None

(* The server's side of a change: the list is ordered by the last change *)
Touch(r, record) ==
  /\ rr' = [rr EXCEPT ![r] = record]
  /\ order' = <<r>> \o At(order, {i \in DOMAIN order : order[i] # r})

WriteDraft(r, fields) == Touch(r, [rr[r] EXCEPT !.draft = <<fields>>])
-----------------------------------------------------------------------------
(* post_process_options: combinations that are refused *)
Refused(o) ==
  \/ o.diff_filename /\ o.update
  \/ o.with_history /\ (o.diff_filename \/ o.stamp)

(* -r overrides -u *)
Updates(o) == o.update /\ o.rid = None

Start ==
  /\ stage \in {"idle", "posted", "failed"}
  /\ run < Len(setup.posts)
  /\ run' = run + 1
  /\ Goto("options")
  /\ revisions' = None
  /\ seen' = <<>> /\ page' = 0 /\ asking' = <<>>
  /\ target' = None /\ fetched' = None
  /\ plan' = None /\ validated' = <<>> /\ sent' = 0 /\ files' = {}
  /\ draft_commit' = None
  /\ chosen' = "none" /\ disturbed' = {}
  /\ UNCHANGED <<setup, repo, serverVars, changes, posted>>

(* Options and revisions, before anything is asked of the server *)
ParseOptions ==
  /\ stage = "options"
  /\ ~Refused(opt)
  /\ opt.diff_filename \/ ParseRevisionSpec(repo, opt.spec) # None
  /\ revisions' = IF opt.diff_filename THEN None
                  ELSE ParseRevisionSpec(repo, opt.spec)
  /\ target' = opt.rid
  /\ chosen' = IF opt.rid # None THEN "named" ELSE "none"
  /\ Goto(IF Updates(opt) THEN "listing"
          ELSE IF opt.rid # None THEN "fetching"
          ELSE "diffing")
  /\ UNCHANGED <<setup, repo, serverVars, changes, run, matchVars, fetched,
                 planVars, disturbed, posted>>

RefuseOptions ==
  /\ stage = "options"
  /\ \/ Refused(opt)
     \/ ~opt.diff_filename /\ ParseRevisionSpec(repo, opt.spec) = None
  /\ Abort
  /\ UNCHANGED <<setup, repo, serverVars, changes, run, disturbed>>
-----------------------------------------------------------------------------
(* The pending review requests, one page at a time until there are enough *)
Pending ==
  At(order, {i \in DOMAIN order : rr[order[i]].status = "pending"})

(* A plausible bug: what is published is compared, not the draft *)
MutantCandidate(r) == [id |-> r, commit_id |-> rr[r].current.commit_id,
                 text |-> rr[r].current.text, tree |-> rr[r].tree]

Candidate(r) == [id |-> r, commit_id |-> DraftOrCurrent(r).commit_id,
                 text |-> DraftOrCurrent(r).text, tree |-> rr[r].tree]

FetchPage ==
  LET items == Slice(Pending, page * PageSize + 1, (page + 1) * PageSize)
      read == seen \o [i \in DOMAIN items |-> Candidate(items[i])]
  IN  /\ stage = "listing"
      /\ seen' = Slice(read, 1, MaxReviewRequests)
      /\ page' = page + 1
      /\ Goto(IF /\ Len(Pending) > (page + 1) * PageSize
                 /\ Len(read) < MaxReviewRequests
              THEN "listing" ELSE "matching")
      /\ UNCHANGED <<setup, repo, serverVars, changes, run, revisions, asking,
                     target, fetched, planVars, chosen, disturbed, posted>>

(* get_commit_message; the text of the commits is what it compares *)
Text == RawCommitMessage(repo, revisions)

TakeMatch ==
  LET match == TakenUnasked(seen, revisions.commit_id, Text)
  IN  /\ stage = "matching"
      /\ match # None
      /\ target' = match
      /\ chosen' = "exact"
      /\ Goto("fetching")
      /\ UNCHANGED <<setup, repo, serverVars, changes, run, revisions,
                     matchVars, fetched, planVars, disturbed, posted>>

AskAboutMatches ==
  /\ stage = "matching"
  /\ TakenUnasked(seen, revisions.commit_id, Text) = None
  /\ asking' \in Questions(seen, revisions.commit_id, Text)
  /\ Goto("asking")
  /\ UNCHANGED <<setup, repo, serverVars, changes, run, revisions, seen, page,
                 target, fetched, planVars, chosen, disturbed, posted>>

Confirm ==
  /\ stage = "asking" /\ asking # <<>>
  /\ target' = Head(asking)
  /\ chosen' = "confirmed"
  /\ Goto("fetching")
  /\ UNCHANGED <<setup, repo, serverVars, changes, run, revisions, matchVars,
                 fetched, planVars, disturbed, posted>>

(* A plausible bug: what is declined is asked again at the end *)
MutantDecline ==
  /\ stage = "asking" /\ asking # <<>>
  /\ asking' = Append(Tail(asking), Head(asking))
  /\ UNCHANGED <<setup, repo, serverVars, changes, run, stage, revisions, seen,
                 page, target, fetched, planVars, chosen, disturbed, posted>>

Decline ==
  /\ stage = "asking" /\ asking # <<>>
  /\ asking' = Tail(asking)
  /\ UNCHANGED <<setup, repo, serverVars, changes, run, stage, revisions, seen,
                 page, target, fetched, planVars, chosen, disturbed, posted>>

(* "Could not determine existing review request to update." *)
NoMatch ==
  /\ stage = "asking" /\ asking = <<>>
  /\ Abort
  /\ UNCHANGED <<setup, repo, serverVars, changes, run, disturbed>>

(* A plausible bug: the status is taken from the list, which is pending *)
MutantFetchRequest ==
  /\ stage = "fetching"
  /\ target \in Existing
  /\ fetched' = [created_with_history |-> rr[target].created_with_history,
                 is_new |-> FALSE]
  /\ Goto("diffing")
  /\ UNCHANGED <<setup, repo, serverVars, changes, run, revisions, matchVars,
                 target, planVars, chosen, disturbed, posted>>

(* A plausible bug: an error from the server is taken for an empty answer *)
MutantFetchesAny ==
  /\ stage = "fetching"
  /\ rr[target].status # "submitted"
  /\ fetched' = [created_with_history |-> rr[target].created_with_history,
                 is_new |-> FALSE]
  /\ Goto("diffing")
  /\ UNCHANGED <<setup, repo, serverVars, changes, run, revisions, matchVars,
                 target, planVars, chosen, disturbed, posted>>

(* The review request is fetched again by its id, whoever gave the id *)
FetchRequest ==
  /\ stage = "fetching"
  /\ target \in Existing
  /\ rr[target].status # "submitted"
  /\ fetched' = [created_with_history |-> rr[target].created_with_history,
                 is_new |-> FALSE]
  /\ Goto("diffing")
  /\ UNCHANGED <<setup, repo, serverVars, changes, run, revisions, matchVars,
                 target, planVars, chosen, disturbed, posted>>

RefuseRequest ==
  /\ stage = "fetching"
  /\ target \notin Existing \/ rr[target].status = "submitted"
  /\ Abort
  /\ UNCHANGED <<setup, repo, serverVars, changes, run, disturbed>>
-----------------------------------------------------------------------------
(* main and _should_post_with_history: an existing review request decides *)
(* for itself, a server without history for everyone.                      *)
SupportsCommitHistory == ~cap.changesets

(* A plausible bug: an update decides as a new review request does *)
MutantWithHistory ==
  /\ cap.history
  /\ SupportsCommitHistory
  /\ ~opt.squash_history \/ opt.with_history

WithHistory ==
  /\ cap.history
  /\ IF target # None THEN fetched.created_with_history
     ELSE /\ SupportsCommitHistory
          /\ ~opt.squash_history \/ opt.with_history

SquashedDiff ==
  LET d == GitDiff(repo, revisions) IN
  [kind |-> "squashed", diff |-> d.diff, parent_diff |-> d.parent_diff,
   base_commit_id |-> d.base_commit_id, entries |-> <<>>,
   commit_id |-> IF cap.changesets THEN None ELSE d.commit_id,
   changenum |-> IF cap.changesets THEN repo.change[revisions.tip] ELSE None,
   binary |-> setup.binary \cap (IF d.diff = None THEN {}
                                 ELSE d.diff[2] \ d.diff[1])]

(* --diff-filename: a diff that nothing more is known of *)
FileDiff ==
  [kind |-> "file", diff |-> <<{}, {0}>>, parent_diff |-> None,
   base_commit_id |-> None, entries |-> <<>>, commit_id |-> None,
   changenum |-> None, binary |-> {}]

DiffHistory ==
  LET d == GitDiff(repo, revisions)
      commits == RevList(repo, {revisions.tip}, {revisions.base}) IN
  [kind |-> "history", diff |-> d.diff, parent_diff |-> d.parent_diff,
   base_commit_id |-> d.base_commit_id,
   entries |-> CommitHistory(repo, revisions), commit_id |-> None,
   changenum |-> None,
   binary |-> setup.binary \cap {repo.change[c] : c \in commits}]

(* "There don't seem to be any diffs", "Your history contains an empty     *)
(* diff", and -H for a tool that has no history                            *)
HasNothingToPost(p) ==
  \/ p.kind # "history" /\ p.diff = None
  \/ p.kind = "history" /\ p.entries = None
  \/ /\ p.kind = "history" /\ p.entries # None
     /\ \E i \in DOMAIN p.entries : p.entries[i].diff = None

DiffToPost == IF opt.diff_filename THEN FileDiff
              ELSE IF WithHistory THEN DiffHistory
              ELSE SquashedDiff

RefusesHistory ==
  cap.history /\ target = None /\ ~SupportsCommitHistory /\ opt.with_history

MakeDiff ==
  /\ stage = "diffing"
  /\ ~RefusesHistory /\ ~HasNothingToPost(DiffToPost)
  /\ plan' = DiffToPost
  /\ validated' = <<<<>>>>
  /\ Goto("validating")
  /\ UNCHANGED <<setup, repo, serverVars, changes, run, revisions, matchVars,
                 target, fetched, sent, files, draft_commit, chosen,
                 disturbed, posted>>

RefuseDiff ==
  /\ stage = "diffing"
  /\ RefusesHistory \/ HasNothingToPost(DiffToPost)
  /\ Abort
  /\ UNCHANGED <<setup, repo, serverVars, changes, run, disturbed>>
-----------------------------------------------------------------------------
AfterValidation == IF target = None THEN "creating" ELSE "uploading"

ValidateSquashedDiff ==
  /\ stage = "validating" /\ plan.kind # "history"
  /\ Goto(AfterValidation)
  /\ UNCHANGED <<setup, repo, serverVars, changes, run, revisions, matchVars,
                 target, fetched, planVars, chosen, disturbed, posted>>

(* The server answers with what it knows of the commits up to this one, to *)
(* be sent with the next.                                                  *)
ValidateCommit ==
  LET commit == plan.entries[Len(validated)].commit_id IN
  /\ stage = "validating" /\ plan.kind = "history"
  /\ validated' = Append(validated,
                         Append(validated[Len(validated)], commit))
  /\ Goto(IF Len(validated') > Len(plan.entries) THEN AfterValidation
          ELSE "validating")
  /\ UNCHANGED <<setup, repo, serverVars, changes, run, revisions, matchVars,
                 target, fetched, plan, sent, files, draft_commit, chosen,
                 disturbed, posted>>
-----------------------------------------------------------------------------
InUse(r) == plan.changenum # None /\ rr[r].changenum = plan.changenum

NewRequest ==
  LET fields == [NoFields EXCEPT !.commit_id =
                   IF cap.commit_ids THEN plan.commit_id ELSE None]
  IN  [status |-> "pending", created_with_history |-> plan.kind = "history",
       changenum |-> plan.changenum, tree |-> None,
       current |-> fields, draft |-> <<fields>>]

CreateRequest ==
  /\ stage = "creating"
  /\ \A r \in Existing : ~InUse(r)
  /\ \E r \in Request \ Existing :
       /\ Touch(r, NewRequest)
       /\ target' = r
  /\ fetched' = [created_with_history |-> plan.kind = "history",
                 is_new |-> TRUE]
  /\ chosen' = "created"
  /\ Goto("uploading")
  /\ UNCHANGED <<setup, repo, changes, run, revisions, matchVars, planVars,
                 disturbed, posted>>

(* Error 204: the request that has the change number is fetched and used,  *)
(* whatever its status, and still counts as new.                           *)
UseExisting ==
  /\ stage = "creating"
  /\ \E r \in Existing :
       /\ InUse(r)
       /\ target' = r
  /\ fetched' = [created_with_history |-> FALSE, is_new |-> TRUE]
  /\ chosen' = "in use"
  /\ Goto("uploading")
  /\ UNCHANGED <<setup, repo, serverVars, changes, run, revisions, matchVars,
                 planVars, disturbed, posted>>
-----------------------------------------------------------------------------
(* A diff on the server.  A series of commits has no diff of its own until *)
(* it is finalized.                                                        *)
BaseCommitId == IF cap.base_commit_ids THEN plan.base_commit_id ELSE None

Posted(diff, commits) ==
  [kind |-> plan.kind, base_commit_id |-> BaseCommitId,
   parent_diff |-> IF plan.kind = "history" /\ diff = None THEN None
                   ELSE plan.parent_diff,
   diff |-> diff, commits |-> commits, attached |-> {}]

(* The binary files to upload, and with a parent diff their source too *)
FilesToUpload ==
  IF ~cap.attachments THEN {}
  ELSE plan.binary \X (IF plan.parent_diff = None THEN {"dest"}
                       ELSE {"dest", "source"})

UploadDiff ==
  /\ stage = "uploading" /\ plan.kind # "history"
  /\ ~(cap.changesets /\ opt.change_only)
  /\ WriteDraft(target, [DraftOrNew(target) EXCEPT
                           !.diff = Posted(plan.diff, <<>>)])
  /\ files' = FilesToUpload
  /\ Goto("files")
  /\ UNCHANGED <<setup, repo, changes, run, revisions, matchVars, target,
                 fetched, plan, validated, sent, draft_commit, chosen,
                 disturbed, posted>>

SkipDiff ==
  /\ stage = "uploading" /\ plan.kind # "history"
  /\ cap.changesets /\ opt.change_only
  /\ Goto("draft")
  /\ UNCHANGED <<setup, repo, serverVars, changes, run, revisions, matchVars,
                 target, fetched, planVars, chosen, disturbed, posted>>

GetOrCreateDraft ==
  /\ stage = "uploading" /\ plan.kind = "history"
  /\ IF HasDraft(target) THEN UNCHANGED serverVars
     ELSE WriteDraft(target, DraftOrNew(target))
  /\ Goto("empty")
  /\ UNCHANGED <<setup, repo, changes, run, revisions, matchVars, target,
                 fetched, planVars, chosen, disturbed, posted>>

(* The draft and its diff that the next request names must still be there *)
HasDraftDiff == HasDraft(target) /\ HasDiff(Draft(target))

CreateEmpty ==
  /\ stage = "empty" /\ HasDraft(target)
  /\ WriteDraft(target, [Draft(target) EXCEPT !.diff = Posted(None, <<>>)])
  /\ Goto("commits")
  /\ UNCHANGED <<setup, repo, changes, run, revisions, matchVars, target,
                 fetched, planVars, chosen, disturbed, posted>>

(* A plausible bug: each commit is sent with what validating it returned *)
MutantUploadCommit ==
  LET entry == plan.entries[sent + 1]
      commit == [commit_id |-> entry.commit_id,
                 parent_id |-> entry.parent_id, diff |-> entry.diff,
                 info |-> validated[sent + 2]]
  IN  /\ stage = "commits" /\ HasDraftDiff
      /\ sent < Len(plan.entries)
      /\ WriteDraft(target, [Draft(target) EXCEPT
                               !.diff.commits = Append(@, commit)])
      /\ sent' = sent + 1
      /\ UNCHANGED <<setup, repo, changes, run, stage, revisions, matchVars,
                     target, fetched, plan, validated, files, draft_commit,
                     chosen, disturbed, posted>>

(* upload_commit: an entry with the validation_info it is zipped with *)
UploadCommit ==
  LET entry == plan.entries[sent + 1]
      commit == [commit_id |-> entry.commit_id,
                 parent_id |-> entry.parent_id, diff |-> entry.diff,
                 info |-> validated[sent + 1]]
  IN  /\ stage = "commits" /\ HasDraftDiff
      /\ sent < Len(plan.entries)
      /\ WriteDraft(target, [Draft(target) EXCEPT
                               !.diff.commits = Append(@, commit)])
      /\ sent' = sent + 1
      /\ UNCHANGED <<setup, repo, changes, run, stage, revisions, matchVars,
                     target, fetched, plan, validated, files, draft_commit,
                     chosen, disturbed, posted>>

(* A plausible bug: it does not wait for the last commit *)
MutantFinalizeCommitSeries ==
  /\ stage = "commits" /\ HasDraftDiff
  /\ WriteDraft(target, [Draft(target) EXCEPT
                           !.diff.diff = plan.diff,
                           !.diff.parent_diff = plan.parent_diff])
  /\ files' = FilesToUpload
  /\ Goto("files")
  /\ UNCHANGED <<setup, repo, changes, run, revisions, matchVars, target,
                 fetched, plan, validated, sent, draft_commit, chosen,
                 disturbed, posted>>

FinalizeCommitSeries ==
  /\ stage = "commits" /\ HasDraftDiff
  /\ sent = Len(plan.entries)
  /\ WriteDraft(target, [Draft(target) EXCEPT
                           !.diff.diff = plan.diff,
                           !.diff.parent_diff = plan.parent_diff])
  /\ files' = FilesToUpload
  /\ Goto("files")
  /\ UNCHANGED <<setup, repo, changes, run, revisions, matchVars, target,
                 fetched, plan, validated, sent, draft_commit, chosen,
                 disturbed, posted>>

(* upload_attachment, to the diff that was just uploaded *)
UploadFile ==
  /\ stage = "files" /\ HasDraftDiff
  /\ \E f \in files :
       /\ f[2] = "source" => <<f[1], "dest">> \notin files
       /\ WriteDraft(target, [Draft(target) EXCEPT
                                !.diff.attached = @ \cup {f}])
       /\ files' = files \ {f}
  /\ UNCHANGED <<setup, repo, changes, run, stage, revisions, matchVars,
                 target, fetched, plan, validated, sent, draft_commit,
                 chosen, disturbed, posted>>
-----------------------------------------------------------------------------
GetDraft ==
  /\ \/ stage = "files" /\ files = {}
     \/ stage = "draft"
  /\ HasDraft(target)
  /\ draft_commit' = Draft(target).commit_id
  /\ Goto(IF opt.stamp THEN "stamping" ELSE "updating")
  /\ UNCHANGED <<setup, repo, serverVars, changes, run, revisions, matchVars,
                 target, fetched, plan, validated, sent, files, chosen,
                 disturbed, posted>>

(* stamp_commit_with_review_url and amend_commit_description: the text of  *)
(* all the commits, with the URL, becomes the message of HEAD.             *)
StampCommit ==
  /\ stage = "stamping"
  /\ plan.kind = "squashed"
  /\ ~Contains(Text, target)
  /\ revisions.tip = repo.head
  /\ Len(repo.parents) < MaxCommits
  /\ repo' = Amend(repo, repo.change[repo.head], Append(Text, target))
  /\ Goto("updating")
  /\ UNCHANGED <<setup, serverVars, changes, run, revisions, matchVars,
                 target, fetched, planVars, chosen, disturbed, posted>>

(* It is not supported, already there, or does not work: only a message *)
SkipStamp ==
  /\ stage = "stamping"
  /\ Goto("updating")
  /\ UNCHANGED <<setup, repo, serverVars, changes, run, revisions, matchVars,
                 target, fetched, planVars, chosen, disturbed, posted>>

(* A plausible bug: -r is forgotten *)
MutantGuessesText ==
  /\ ~opt.diff_filename /\ opt.text = None
  /\ \/ opt.guess = "yes"
     \/ opt.guess = "auto" /\ ~Updates(opt)

(* check_guess_fields: the text that is set, if any.  When a text is given *)
(* nothing is guessed, and automatically only for a new review request.    *)
GuessesText ==
  /\ ~opt.diff_filename /\ opt.text = None
  /\ \/ opt.guess = "yes"
     \/ opt.guess = "auto" /\ opt.rid = None /\ ~Updates(opt)

TextToSet ==
  IF opt.diff_only THEN None
  ELSE IF GuessesText /\ Text # <<>> THEN Text
  ELSE opt.text

(* A squashed diff keeps the commit_id of the draft up to date *)
SetsCommitId ==
  /\ ~opt.diff_only /\ plan.kind # "history" /\ cap.commit_ids
  /\ plan.commit_id # draft_commit

DraftFields ==
  LET old == DraftOrNew(target) IN
  [old EXCEPT !.text = IF TextToSet = None THEN @ ELSE TextToSet,
              !.commit_id = IF SetsCommitId THEN plan.commit_id ELSE @]

HasUpdateFields ==
  \/ opt.publish \/ TextToSet # None \/ SetsCommitId
  \/ ~fetched.is_new

(* History, which properties alone read: what a later run may look for is  *)
(* what this one posted, if nobody else has changed anything meanwhile.    *)
PostedFor(request) ==
  [request |-> request, text |-> TextToSet,
   commit_id |-> IF opt.diff_only \/ ~cap.commit_ids THEN None
                 ELSE plan.commit_id]

Remember == posted' = IF disturbed = {} THEN PostedFor(target) ELSE None

UpdateDraft ==
  /\ stage = "updating" /\ HasUpdateFields
  /\ Touch(target,
           IF opt.publish
           THEN Published(target, DraftFields)
           ELSE [rr[target] EXCEPT !.draft = <<DraftFields>>])
  /\ Remember
  /\ Goto("posted")
  /\ UNCHANGED <<setup, repo, changes, run, revisions, matchVars, target,
                 fetched, planVars, chosen, disturbed>>

NothingToUpdate ==
  /\ stage = "updating" /\ ~HasUpdateFields
  /\ Remember
  /\ Goto("posted")
  /\ UNCHANGED <<setup, repo, serverVars, changes, run, revisions, matchVars,
                 target, fetched, planVars, chosen, disturbed>>

(* A request is refused or not answered, or the command is interrupted *)
Running == stage \notin {"idle", "posted", "failed"}

Fail ==
  /\ Running
  /\ Abort
  /\ UNCHANGED <<setup, repo, serverVars, changes, run, disturbed>>
-----------------------------------------------------------------------------
(* What the owner does through the web *)
WebChange(r, record) ==
  /\ changes < setup.web
  /\ changes' = changes + 1
  /\ Touch(r, record)
  /\ disturbed' = disturbed \cup {r}
  /\ posted' = None
  /\ UNCHANGED <<setup, repo, run, commandVars>>

Edited == <<"edited">>

OnTheWeb ==
  \E r \in Existing :
    \/ /\ HasDraft(r)
       /\ \/ WebChange(r, Published(r, Draft(r)))
          \/ WebChange(r, [rr[r] EXCEPT !.draft = <<>>])
    \/ WebChange(r, [rr[r] EXCEPT
                       !.draft = <<[DraftOrNew(r) EXCEPT !.text = Edited]>>])
    \/ \E status \in {"pending", "submitted", "discarded"} \ {rr[r].status} :
         WebChange(r, [rr[r] EXCEPT !.status = status])

(* Between two runs: git commit, or git commit --amend of message or tree *)
Commits ==
  LET new == Len(repo.parents) + 1 IN
  /\ ~Running /\ run \in 1..(Len(setup.posts) - 1)
  /\ new <= MaxCommits
  /\ \E words \in {<<w>> : w \in Word} :
       repo' \in {AddCommit(repo, <<repo.head>>, new, words),
                  Amend(repo, new, repo.message[repo.head]),
                  Amend(repo, repo.change[repo.head], words)}
  /\ UNCHANGED <<setup, serverVars, changes, run, commandVars, disturbed,
                 posted>>

Match == FetchPage \/ TakeMatch \/ AskAboutMatches \/ Confirm \/ Decline
         \/ NoMatch \/ FetchRequest \/ RefuseRequest
Prepare == Start \/ ParseOptions \/ RefuseOptions \/ MakeDiff \/ RefuseDiff
           \/ ValidateSquashedDiff \/ ValidateCommit
Upload == CreateRequest \/ UseExisting \/ UploadDiff \/ SkipDiff
          \/ GetOrCreateDraft \/ CreateEmpty \/ UploadCommit
          \/ FinalizeCommitSeries \/ UploadFile
Finish == GetDraft \/ StampCommit \/ SkipStamp \/ UpdateDraft
          \/ NothingToUpdate
Command == Match \/ Prepare \/ Upload \/ Finish \/ Fail

Next == Command \/ OnTheWeb \/ Commits

Spec == Init /\ [][Next]_vars
-----------------------------------------------------------------------------
Stages == {"idle", "options", "listing", "matching", "asking", "fetching",
           "diffing", "validating", "creating", "uploading", "empty",
           "commits", "files", "draft", "stamping", "updating", "posted",
           "failed"}

(* The types of the variables.  What later steps of main rely on: once it  *)
(* has been fetched, the review request they write to is on the server,    *)
(* and a draft is one or none.                                             *)
TypeOK ==
  /\ run \in 0..Len(setup.posts)
  /\ changes \in 0..setup.web
  /\ stage \in Stages
  /\ DOMAIN rr = Request
  /\ \A r \in Request : IsRequest(rr[r])
  /\ target # None /\ stage # "fetching" => target \in Existing
  /\ page \in Nat /\ sent \in Nat
  /\ chosen \in {"none", "named", "exact", "confirmed", "created", "in use"}
  /\ disturbed \subseteq Request
  /\ posted # None => posted.request \in Existing

(* What post_request promises of the diff: the one that was made, whole,   *)
(* with all of its commits in order and every binary file.                 *)
IsWhole(diff) ==
  /\ diff.kind = plan.kind /\ diff.base_commit_id = BaseCommitId
  /\ diff.diff = plan.diff /\ diff.parent_diff = plan.parent_diff
  /\ Len(diff.commits) = Len(plan.entries)
  /\ \A i \in DOMAIN plan.entries :
       /\ diff.commits[i].commit_id = plan.entries[i].commit_id
       /\ diff.commits[i].parent_id = plan.entries[i].parent_id
       /\ diff.commits[i].diff = plan.entries[i].diff
  /\ diff.attached = FilesToUpload

(* "Review request posted" is said only of one that has the whole diff, in *)
(* its draft or, when it was to be published, in public.  What the owner   *)
(* does meanwhile through the web is his own; --change-only has no diff.   *)
PostedIsWhole ==
  stage = "posted" /\ target \notin disturbed
    /\ ~(cap.changesets /\ opt.change_only)
  => IF opt.publish
     THEN ~HasDraft(target) /\ IsWhole(rr[target].current.diff)
     ELSE HasDraft(target) /\ IsWhole(Draft(target).diff)

(* A commit is uploaded with the validation of the commits before it, and  *)
(* of no other: what _validate_diff_history collects and                   *)
(* _post_diff_history zips with the entries.                               *)
IsChain(commits) ==
  \A i \in DOMAIN commits :
    commits[i].info = [j \in 1..(i - 1) |-> commits[j].commit_id]

ValidationChains ==
  \A r \in Existing : \A f \in Versions(rr[r]) :
    HasDiff(f) => IsChain(f.diff.commits)

(* Diffs of commits go to review requests created with history, squashed   *)
(* ones to those created without, whatever -H, --squash and the server say *)
(* at the time of an update: main asks the review request.  A diff of      *)
(* --diff-filename is squashed whatever it goes to.                        *)
KindMatches ==
  \A r \in Existing : \A f \in Versions(rr[r]) :
    HasDiff(f) => f.diff.kind = "file"
                  \/ (f.diff.kind = "history" <=> rr[r].created_with_history)

(* The command itself never writes to a review request that is submitted,  *)
(* unless it became so during the run or was found by its change number.   *)
LeavesSubmittedAlone ==
  [][\A r \in Existing :
       changes' = changes /\ rr'[r] # rr[r] /\ rr[r].status = "submitted"
         => r \in disturbed \/ chosen = "in use"]_vars

(* An update without a question goes to the one candidate, of all that     *)
(* were read, that has the commit or the exact text, or whose tree the     *)
(* client recognises; never to one it says is another's.                   *)
IsCandidate(i) ==
  /\ seen[i].tree # FALSE
  /\ \/ seen[i].tree = TRUE
     \/ revisions.commit_id # None /\ seen[i].commit_id = revisions.commit_id
     \/ Text # <<>> /\ seen[i].text = Text

UnaskedMatchIsSole ==
  stage = "fetching" /\ chosen = "exact" =>
    {seen[i].id : i \in {j \in DOMAIN seen : IsCandidate(j)}} = {target}

(* rbt post -u after rbt post of the same commit, with nothing changed on  *)
(* the web, finds what was posted, or asks about it first: by the commit,  *)
(* or by the text if no request that was read has the commit.              *)
IsPostedAgain ==
  /\ posted # None
  /\ rr[posted.request].tree = None
  /\ \/ posted.commit_id # None /\ revisions.commit_id = posted.commit_id
     \/ /\ posted.text # None /\ posted.text = Text /\ Text # <<>>
        /\ revisions.commit_id = None
           \/ \A i \in DOMAIN seen : seen[i].commit_id # revisions.commit_id
  /\ \A i \in DOMAIN seen : seen[i].tree # TRUE
  /\ rr[posted.request].status = "pending"

FindsItsPost ==
  [][stage = "matching" /\ stage' \notin {"matching", "failed"}
       /\ IsPostedAgain
     => \/ target' = posted.request
        \/ asking' # <<>> /\ asking'[1] = posted.request]_vars

(* The diffs lead a reader from a commit the remote has to the tip: parent *)
(* diff, then the diff or the commits one after another.  Not if the base  *)
(* is no ancestor of the tip, as when the upstream has moved on, or if     *)
(* what is not pushed begins with a root.                                  *)
LeadsTo(from, diffs, to) ==
  LET at(i) == IF i = 1 THEN from ELSE diffs[i - 1][2]
  IN  /\ \A i \in DOMAIN diffs : diffs[i] # None /\ diffs[i][1] = at(i)
      /\ at(Len(diffs) + 1) = to

DiffsOf(p) ==
  (IF p.parent_diff = None THEN <<>> ELSE <<p.parent_diff>>) \o
  (IF p.kind = "squashed" THEN <<p.diff>>
   ELSE [i \in DOMAIN p.entries |-> p.entries[i].diff])

IsPushed(c) == c \in UNION {Ancestors(repo)[t] : t \in repo.remotes}

HasSoundBase ==
  /\ revisions.base \in Ancestors(repo)[revisions.tip]
  /\ \A c \in RevList(repo, {revisions.base}, repo.remotes) : ~IsRoot(repo, c)

ShowsTheCommits ==
  plan # None /\ plan.kind # "file" /\ HasSoundBase =>
    /\ IsPushed(plan.base_commit_id)
    /\ LeadsTo(Tree(repo, plan.base_commit_id), DiffsOf(plan),
               Tree(repo, revisions.tip))

(* An update leaves the summary and the description as the owner has them, *)
(* unless it is given a text or told to guess with -g.                     *)
KeepsUsersText ==
  [][\A r \in Existing :
       changes' = changes /\ chosen \in {"named", "exact", "confirmed"}
         /\ opt.text = None /\ opt.guess # "yes"
       => DraftOrCurrent(r)'.text = DraftOrCurrent(r).text]_vars

(* Every run ends, whatever the server and the user answer: each of its    *)
(* steps takes it to a later stage, or nearer to the end of the list that  *)
(* is read, of the questions, of the commits or of the files.  The next    *)
(* step always comes, since a request is answered or fails.                *)
RankOf ==
  [options |-> 15, listing |-> 14, matching |-> 13, asking |-> 12,
   fetching |-> 11, diffing |-> 10, validating |-> 9, creating |-> 8,
   uploading |-> 7, empty |-> 6, commits |-> 5, files |-> 4, draft |-> 3,
   stamping |-> 2, updating |-> 1]
Rank == RankOf[stage]

LeftToDo ==
  IF stage = "listing" THEN MaxReviewRequests - Len(seen)
  ELSE IF stage = "asking" THEN Len(asking)
  ELSE IF stage = "validating" THEN Len(plan.entries) + 1 - Len(validated)
  ELSE IF stage = "commits" THEN Len(plan.entries) - sent
  ELSE IF stage = "files" THEN Cardinality(files)
  ELSE 0

ComesToAnEnd ==
  [][Running /\ Running' /\ changes' = changes =>
       /\ LeftToDo' >= 0
       /\ Rank' < Rank \/ (Rank' = Rank /\ LeftToDo' < LeftToDo)]_vars
=============================================================================
