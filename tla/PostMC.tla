------------------------------- MODULE PostMC -------------------------------
(***************************************************************************)
(* Small instances of Post: revisions of every small history, matches      *)
(* among three review requests, and runs after runs.                       *)
(***************************************************************************)
EXTENDS Post

CONSTANTS r1, r2, r3

Modern == [history |-> TRUE, commit_ids |-> TRUE, base_commit_ids |-> TRUE,
           attachments |-> TRUE, changesets |-> FALSE]
Old == [Modern EXCEPT !.history = FALSE, !.commit_ids = FALSE,
                      !.base_commit_ids = FALSE, !.attachments = FALSE]
Squashing == [Modern EXCEPT !.history = FALSE]
Perforce == [Modern EXCEPT !.history = FALSE, !.changesets = TRUE]

Head1 == [form |-> "head", a |-> None, b |-> None]
Plain == [spec |-> Head1, update |-> FALSE, rid |-> None,
          with_history |-> FALSE, squash_history |-> FALSE,
          diff_filename |-> FALSE, publish |-> FALSE, diff_only |-> FALSE,
          change_only |-> FALSE, stamp |-> FALSE, guess |-> "auto",
          text |-> None]

Names == <<"a", "b", "c", "d">>
History(parents, upstream, remotes) ==
  [parents |-> parents, change |-> [c \in DOMAIN parents |-> c],
   message |-> [c \in DOMAIN parents |-> <<Names[c]>>],
   head |-> Len(parents), upstream |-> upstream, remotes |-> remotes]

(* One commit pushed, one of a local parent branch, two to post *)
Linear == <<<<>>, <<1>>, <<2>>, <<3>>>>
Small == History(<<<<>>, <<1>>, <<2>>>>, 1, {1})
Stacked == History(Linear, 2, {1})

Nobody == [r \in Request |->
  [status |-> "unused", created_with_history |-> FALSE, changenum |-> None,
   tree |-> None, current |-> NoFields, draft |-> <<>>]]
Situation == [capabilities |-> Modern, repository |-> Stacked,
              requests |-> Nobody, order |-> <<>>, binary |-> {},
              posts |-> <<Plain>>, web |-> 0]
-----------------------------------------------------------------------------
(* Every revision specification on forks, merges and two roots, wherever   *)
(* the parent branch and the remote's branches are, an empty commit too    *)
Shapes == {Linear, <<<<>>, <<1>>, <<1>>, <<2>>>>,
           <<<<>>, <<1>>, <<1>>, <<2, 3>>>>, <<<<>>, <<1>>, <<>>, <<2, 3>>>>}
Histories ==
  {[History(p, u, t) EXCEPT !.change[3] = e] :
     p \in Shapes, u \in 1..4, t \in {{1}, {2}, {3}, {2, 3}}, e \in {0, 3}}
Specs ==
  {Head1} \cup [form : {"one"}, a : 1..4, b : {None}]
          \cup [form : {"range", "since"}, a : 1..4, b : 1..4]
RevisionSetups ==
  {[Situation EXCEPT !.repository = h, !.capabilities = c,
                     !.posts[1].spec = s] :
     h \in Histories, s \in Specs, c \in {Modern, Squashing}}
-----------------------------------------------------------------------------
(* Three pending review requests that hold the commit, its text, both or   *)
(* neither, in public or in a draft, whatever the client makes of the tree *)
Fields(commit, text) == [commit_id |-> commit, text |-> text, diff |-> NoDiff]
Request1(fields, draft, tree) ==
  [status |-> "pending", created_with_history |-> FALSE, changenum |-> None,
   tree |-> tree, current |-> fields, draft |-> draft]
Held == {Fields(c, t) : c \in {None, 3}, t \in {<<"z">>, <<"b", "c">>}}
InPublic == {Request1(f, <<>>, t) : f \in Held, t \in {None, TRUE, FALSE}}
InDraft == {Request1(Fields(3, <<"z">>), <<f>>, None) : f \in Held}
MatchSetups ==
  {[Situation EXCEPT
      !.repository = Small, !.capabilities = Squashing, !.web = 1,
      !.requests = r1 :> x @@ r2 :> y @@ r3 :> z, !.order = <<r1, r2, r3>>,
      !.posts[1].update = TRUE, !.posts[1].spec = s] :
     x \in InPublic \cup InDraft, y \in InPublic,
     z \in {Request1(Fields(c, <<"z">>), <<>>, None) : c \in {None, 3}},
     s \in {Head1, [form |-> "range", a |-> 1, b |-> 3]}}
-----------------------------------------------------------------------------
(* One run with every option that matters to the upload, against a review  *)
(* request of either kind and any status, while the owner is on the web;   *)
(* -r may name one that is not there                                       *)
Existing1(history, status) ==
  [Request1(Fields(None, <<"z">>), <<>>, None) EXCEPT
     !.created_with_history = history, !.status = status]
RunSetups ==
  {[Situation EXCEPT
      !.capabilities = x[1], !.web = 1, !.binary = {4},
      !.requests[r1] = x[2], !.order = <<r1>>,
      !.posts[1] = [Plain EXCEPT
         !.rid = o[1], !.with_history = o[2], !.squash_history = o[3],
         !.publish = o[4], !.diff_filename = o[5], !.stamp = o[6]]] :
     x \in {<<y[1], Existing1(y[2], s)>> :
              y \in {<<Modern, TRUE>>, <<Modern, FALSE>>, <<Old, FALSE>>},
              s \in {"pending", "submitted"}},
     o \in {None, r1, r2} \X BOOLEAN \X BOOLEAN \X BOOLEAN \X BOOLEAN
           \X BOOLEAN}

(* Two runs: what is posted is updated, with commits in between *)
First == {[Plain EXCEPT !.squash_history = s, !.publish = p,
                        !.diff_only = d, !.stamp = m] :
            s \in BOOLEAN, p \in BOOLEAN, d \in BOOLEAN, m \in BOOLEAN}
Second == {Plain} \cup
          {[Plain EXCEPT !.update = TRUE, !.guess = x[1], !.text = x[2]] :
             x \in {<<"auto", None>>, <<"yes", None>>, <<"auto", <<"t">>>>}}
AgainSetups ==
  {[Situation EXCEPT !.repository = Small, !.capabilities = c,
      !.requests[r3] = Existing1(FALSE, "pending"), !.order = <<r3>>,
      !.posts = <<f, s>>] :
     c \in {Modern, Squashing, Old}, f \in First, s \in Second}

(* A tool with changesets, whose change number may be in use *)
PerforceSetups ==
  {[Situation EXCEPT !.repository = Small, !.capabilities = Perforce,
      !.requests[r1] = [Existing1(FALSE, s) EXCEPT !.changenum = n],
      !.order = <<r1>>, !.web = 1,
      !.posts[1].change_only = k, !.posts[1].with_history = h,
      !.posts[1].rid = i] :
     s \in {"pending", "submitted", "discarded"}, n \in {None, 3},
     k \in BOOLEAN, h \in BOOLEAN, i \in {None, r1}}

MCSetups == RevisionSetups \cup MatchSetups \cup RunSetups \cup AgainSetups
            \cup PerforceSetups
=============================================================================
