# RBTools in TLA+

RBTools is the set of `rbt` commands, and the Python client of the Review
Board Web API, with which a developer posts, fetches, applies and lands review
requests from a working tree. This directory holds specifications of the parts
of it that have behaviour over time: the HTTP cache that the processes share,
the authentication of requests, the sessions of the user, the login through a
browser, the posting of review requests from the commits of a Git working tree,
the landing of review requests with their dependencies, and the application of
patches. TLC checks them on small instances; TLAPS proves the theorems for
every value of the constants.

`PROJECT.json` maps every definition to the lines of code it models. All
source paths below are under `src/rbtools/`.

## Inventory

| Component | State it keeps | Operations | Used by / uses |
|---|---|---|---|
| HTTP cache, `api/cache.py` | a SQLite table shared by all `rbt` processes of a user | `make_request`, freshness and Vary look-up, revalidation, store, delete | called by `api/request.py` for every GET |
| Authentication, `api/request.py` | credentials, flags and counters in urllib handlers that live as long as the client; a cookie jar on disk | the Preset, WebLogin and Basic handlers, `login`, `logout` | callbacks into the command; calls itself through the web login |
| Web login, `utils/web_login.py` | an HTTP server in a thread, a handler thread per POST, a stop event and a result flag | `attempt_web_login`, `wait_login_result`, `POST_login`, `stop_server` | called from the 401 handler; logs in to the API client |
| Dependency graphs, `utils/graphs.py`, `api/resource/review_request.py` | queue, visited set, graph, fetched resources | `build_dependency_graph`, `path_exists`, `toposort` | `rbt land` |
| `rbt land`, `commands/land.py` | the stage of the command; branches, checkout and tree of the repository | option checks, approval, patches, merge, deletion of the branch, push | runs `rbt patch`; the Git client |
| `rbt patch`, `commands/patch.py` | the diff revision chosen, the list of patches | option checks, search for the diff, binary files, apply, revert, commit | the Web API; a patcher |
| Patchers, `diffs/patcher.py`, `clients/git.py` | HEAD, index and files of the tree; number of the patch in hand | `patch`, `apply_patches`, `apply_single_patch`, `create_commit` | `rbt patch` |
| `rbt post`, `commands/post.py` | the stage of the command; the review request it updates, the diff to post, what was validated and what is uploaded; the review request and its draft on the server | option checks, match or create, diff or history, validation, upload, binary files, stamping, draft, publication | the Web API, the matching, the SCM client |
| Matching, `utils/review_request.py` | the candidates read from a list | `find_review_request_matches`, `guess_existing_review_request` | `post`; the pages of a list |
| Revisions of the Git client, `clients/git.py` | the history of the working tree | `parse_revision_spec`, `diff`, `get_commit_history`, `get_raw_commit_message`, `amend_commit_description` | `post`, `diff` |
| Web API resources, `api/resource/`, `api/factory.py`, `api/client.py`, `api/transport/` | payloads of answers | links, lists and pages | everything above |
| Sessions, `utils/users.py`, `commands/login.py`, `commands/logout.py` | the session cookie, in the jar of the client and in a file | `get_authenticated_session`, `rbt login`, `rbt logout` | authentication, web login |
| Command lifecycle, `commands/base/` | configuration, SCM client, server and API root of one command | `initialize`, prompts, exit codes | every command |
| Other commands | none beyond the server | one or a few requests | the Web API |
| Configuration, `config/` | merged dictionaries | load, merge, write back | the lifecycle |
| SCM registry and clients, `clients/` | lazily registered classes; output of external tools | scan, revision specifications, diffs | the lifecycle, `post`, `diff` |
| Diff tools, utilities, hooks | none, or temporary files | conversions and process calls | everything |

What is hard in this code, and which properties are for it:

- *Processes that share the cache.* Each decides from a row, waits for the
  server, and writes a row that others may have renewed or deleted since.
  Correct means: nothing is served unasked beyond the lifetime its headers
  gave it, for the wrong request headers, or older than that lifetime says;
  and what is returned after asking was current after the question.
- *Handlers with memory.* A 401 runs up to three handlers which open the same
  request again, from inside each other, with counters nothing resets but a
  login. Correct means: a bounded number of login attempts for each set of
  credentials over all requests, and every call returns.
- *Sessions below the commands.* Any request of `rbt login` or `rbt logout` may
  start a session by itself, the server may forget one at any time, and the
  cookie in the file is not always that of the client. Correct means: after a
  logout no session is left, whoever is asked for a password is logged in, and
  the prompts end.
- *Threads of the web login.* The result flag, the stop event, the deadline, a
  second POST and the shutdown race. Correct means: success is reported only
  with a token, nothing is served after the end, and the wait ends.
- *A landing in many steps.* A queue, a sort and a reversal decide the order;
  any process may fail in between; the server changes. Correct means:
  dependencies first, everything exactly once, nothing after a refusal, no work
  lost.
- *A series of patches.* Each may apply in part or not be committed; the diff
  is found by several requests while its owner works. Correct means: a failure
  leaves one patch in the tree, a commit holds one patch, edits survive, the
  newest diff is applied and fits the tree it was made from.

- *A post in many requests.* Status, kind and draft of a review request are
  read once and used several requests later; each request may fail before or
  after the server acted, and the user runs the command again. Which review
  request is meant is guessed from lists that shift while they are read, and
  what the commits are from a graph of commits. Correct means: a run that
  reports success has posted all of its diff, a diff is of the kind its review
  request was made for, every commit is validated and posted on top of the one
  before it, no text of the user is replaced by a guess, a submitted review
  request stays as it is, and the next run finds what the last one posted.

## Modules

| Module | What it models |
|---|---|
| `ApiCache` | `APICache.make_request` in three steps (look-up, answer, save) for any number of processes, the server, and the clock |
| `HttpAuth` | the urllib handlers in the order urllib calls them, with the nested request of the web login callback; the server is external |
| `Session` | `rbt login`, `rbt logout`, `get_authenticated_session` and the cookie file; EXTENDS `HttpAuth` and makes its calls, as scripts make any others |
| `LoginBudget` | the abstract promise of `HttpAuth`: each login buys a bounded number of attempts |
| `WebLogin` | main thread, server thread and handler threads of one web login |
| `Toposort` | `toposort`, one vertex at a time, on any graph; `heads.pop()` may return any member |
| `Land` | `rbt land` from its option checks to the push; EXTENDS `Toposort`, whose variables it builds and reads |
| `Patcher` | `Patcher.patch`, `apply_patches`, the Git patcher and `create_commit` on trees of files |
| `Patch` | `rbt patch`: options, the search for the diff, `get_patches`; EXTENDS `Patcher` and makes its one call |
| `Sublist` | some items of a sequence in their order, as operators |
| `Revisions` | the Git client's view of a history of commits, as operators: revision specifications, diff and parent diff, commit history, messages, `commit` and `commit --amend` |
| `ReviewRequestMatch` | exact and fuzzy matches among candidates, and the choice between them, as operators |
| `Post` | runs of `rbt post`, one after another; EXTENDS `Revisions` and `ReviewRequestMatch` |
| `ApiCacheMC`, `HttpAuthMC`, `LandMC`, `PatchMC`, `PostMC` | instances for TLC |
| `ApiCacheProofs`, `HttpAuthProofs`, `WebLoginProofs`, `ToposortProofs`, `LandProofs`, `PatchProofs`, `PostProofs` | theorems |
| `PostLemmas` | lemmas about the operators of `Revisions`, `ReviewRequestMatch` and `Sublist` that `PostProofs` cites |

How code becomes state and actions:

- A method that runs without interruption by the others is one action; it is
  split where something else can happen: a request to the server, a
  transaction of the database, a thread switch, a process that may fail.
- `pc`, `stage`, `main`, `serve` and `handler` say where a command, process or
  thread is. A CommandError, or an exception nothing catches, is `Abort`.
- A review request, a branch, a body, a file or its content is a model value.
  In `ApiCache` a body stands for what the server held, so that a stale answer
  can be told from a current one. In `Land` a branch is the set of changes in
  its history. In `Patcher` a patch is a pair of trees, and a file is a hunk:
  `git apply -3` merges a file whose index is one of the two sides of the patch
  and makes a conflict of any other.
- A review request may be two resources, one reached by its `absolute_url` and
  one by a link: `Land` keeps them apart, because the code compares
  resources in one place, URLs in another and IDs in a third.
- In `Post` a commit is a number in the order of dates, a tree is the set of
  changes in a commit's ancestry, a diff is a pair of trees, and summary and
  description are one text. A review request on the server has the fields of
  its published state and at most one draft. What the owner does on the web
  and what the user commits between two runs are actions of their own, and
  `Fail` ends a run at any stage, which stands for a refused request, a lost
  answer and an interruption alike: what the server did before stays.
- Variables commented as history (`lastCurrent`, `submitted`, `newest`,
  `pending`, `interrupted`, `chosen`, `disturbed`, `posted`, ...) are read by properties only.
- `Mutant...` definitions are variants of the definition after them with a
  plausible bug. No specification uses them: with one of them in its place, the
  property it goes with fails, which shows that the property can fail.

## What TLC checks

| Run | Instance | States | Shows |
|---|---|---|---|
| `cache` | two processes and two contents, with and without a server that changes what it varies on, and one process with four kinds of caching headers and a skewed clock that runs to 3 | 1,194,000 | types, `LifetimeHonoured`, `VaryHonoured`, `BoundedStaleness`, `CurrentWhenContacted` |
| `cache_cookie` | a server that varies on a header urllib adds late | violation | the cached answer of one session is served to another |
| `auth` | two users, one with two-factor authentication, every callback; commands that log in, log out and ask for a session on an open or a closed server, and scripts with two logins | 81,000 | `AttemptsBounded`, `RetriesOnce`, `ActsAsUser`, `EndsAsAsked`, refinement of `LoginBudget`, `CommandsEnd` |
| `auth_resent` | one user who gives the same password again | violation | refused credentials are sent again: str is compared with bytes |
| `weblogin` | two POSTs, four server versions | 35,000 | `SuccessHasToken`, `ServerStopped`, `FailureWasPosted`, `WaitEnds` |
| `weblogin_reports` | the same, newest server | violation | a second POST turns a login into a failure |
| `land` | all acyclic graphs of four review requests with one odd one, refused with a reason or without among them; all options on a chain | 658,000 | `HeadsBeforeTails`, `DependenciesFirst`, `RefusalLeavesTree`, `LandsEverythingOnce`, `WorkIsKept`, `Terminates` |
| `land_cyclic` | graphs in which each of three requests has one link | violation | two requests that depend on each other are followed for ever |
| `land_refused` | a chain with one refusal, with a reason or without | violation | a review request that is refused without a reason lands: `can_land` returns the reason, and None reads as approved |
| `patch` | five histories of two commits over three files, every option, an edit in any file, drafts in any state | 63,000 | `OnePatchAtATime`, `CommitsHoldPatches`, `AppliesLatestDiff`, `EditsStayApart`, `AppliesToItsBase` |
| `patch_revert` | reverts from the tree the history leads to | violation | patches are put into reverse order twice |
| `post` | five families of situations, see below | 1,265,000 | `PostedIsWhole`, `KindMatches`, `ValidationChains`, `ShowsTheCommits`, `UnaskedMatchIsSole`, `FindsItsPost`, `LeavesSubmittedAlone`, `KeepsUsersText`, `ComesToAnEnd` |

The families of `post` (`PostMC`): *revisions*, every revision specification on
128 histories with forks, merges, two roots and an empty commit, wherever the
parent branch and the branches of the remote are; *matches*, three review
requests that hold the commit, its text, both or neither, in public or in a
draft, read from pages of one while one of them changes; *runs*, every
combination of the options that matter to the upload, against no review
request, one that is not there, or one of either kind, pending or submitted,
with one change through the web; *again*, a second run after commits and
amendments by the user or by the stamp; *Perforce*, a change number that is
free, in use, submitted or discarded.

Why the bounds are enough. In the cache, a hazard takes one process that acts
on a row and another that changed it, so two processes; a row is either fresh,
stale or gone, and a clock of 1 to 3 seconds with lifetimes of 1 to 3 reaches
each. In authentication the counters have fixed limits (`MaxOtpTokenAttempts`
is that of the code, and so is `NumRetries`, the prompts after the first) and
a second login is the first one that finds them used; a command logs in as
often as it prompts.
Two POSTs are the fewest that race; a third does what the second did. Four
review requests give chains, diamonds and two paths to one request; three
give the shortest cycles that are not a link to itself, and paths into them.
Two commits are the fewest with something before and something after, three
files show a change, another change and a binary file. In `post`, lists of
two out of three candidates and pages of one show a list that is cut off, one
that shifts and one that is read to its end; two questions out of three
matches show a user who is not asked about all; two runs are the fewest of
which the second finds what the first left; five commits are four to start
from and one that stamping, amending or committing adds. Bounds on the
environment (`MaxTime`, `MaxLogins`, `Handler`, `MaxReviews`, `MaxChanges`,
`MaxCommits`, `setup.web`, `setup.posts`) stop the clock, the caller, the
browser, the reviewers, the owner and the committer, never the program; of
these `MaxLogins` is about scripts only. Deadlock checking is off where the
program ends or the clock stops.

Fairness. Each fair specification says only that a process or thread that can
take a step eventually does (`WF` of the command's own actions), that time
passes (`Expire` in `WebLogin`), and never that a browser posts, a server
changes or a user acts. One process that runs and threads of the operating
system justify that. In `Session` (`WF` of `CommandStep`) it also stands for a
server that answers, or a network that fails, and for a user who answers a
prompt or interrupts it: the code has no timeout of its own there, and
nothing could end without. A user, a script or the server may still do as they
like in between; sessions expire without fairness. Liveness is `Terminates` of
`Land`, `CommandsEnd` of `Session` (every call of the client returns, and every
command ends) and `WaitEnds`. That a run of `rbt post` ends needs no fairness:
`ComesToAnEnd` states that every step of the command lowers what it has left
to do, pages, questions, commits and files, whatever the web does to the list
in between.

## What is proved

Every theorem rests on an inductive invariant, stated as a conjunction of
named parts, and is proved action by action.

- `ApiCacheProofs`. `CacheInvariant`: every row, every entry a process holds
  and every answer under way was content the server held when it vouched for
  it; other processes only move rows about, so no race makes it false. Types,
  `LifetimeHonoured`, `BoundedStaleness` and `CurrentWhenContacted` follow.
  The first two assume `ClockSkew >= 0`, a local clock that is not behind GMT:
  the code compares local time with dates in GMT, so to the west of GMT an
  entry with an Expires date lives longer than it should by the difference,
  and the bounds do not hold. East of GMT it expires early, which is safe.
  `VariesAsTheServer` proves `VaryHonoured` where every header a server varies
  on is visible to the cache (`Hidden = {}`); `cache_cookie` shows that it
  fails otherwise.
- `HttpAuthProofs`. `AuthInvariant` relates the counters, flags and the request
  in flight; `HandlersImplementBudget` is the step simulation of `LoginBudget`,
  and `LoginAttemptsBounded` its consequence. Assumption `OtpCanBeAsked`: with
  two-factor users the client has a two-factor callback. Without it the
  attempts are unbounded, see the finding of `auth_resent`.
  `BasicRetriesOnce` counts the retries of one request by a flag that is never
  cleared, and `ActsAsItsUser`, which needs no assumption, follows every header
  and session back to the user of the client, or to the owner of its token if
  it has both. A request that is opened again keeps the Cookie header it had:
  if its session was dead it goes on without one, and the invariant says that
  it then carries credentials (`Resent`).
  The commands of `Session` are callers of the client, `SessionUsesClient`, so
  all of this holds of them. `CommandsEndAsAsked` and `PromptsBounded` are for
  any number of prompts. The invariant says what a command knows where it
  stands: once it was told that the session is anonymous the server answers
  anyone, the handlers have nothing to send, and the request for the server's
  information cannot start a session; after a prompt every header is for the
  user who was entered, and no session is there to override it.
- `WebLoginProofs`. For any number of handler threads: success only with a
  token, failure only after a POST without one, nothing served after the end.
- `ToposortProofs`. For every finite graph: the output is topological, and a
  sort that returns has every vertex. The in-degree of a vertex is the number
  of edges that remain, which is the strengthening both need.
- `LandProofs`. `LandInvariant` follows the graph from the queue through the
  sort into the list to land: what the queue has released has all its edges in
  the graph, only the request has no edge to it, the list is the sort
  backwards. From it, for any set of review requests, links, options and
  failures: dependencies first, and a refusal that gives its reason, of whatever
  the command needs, stops it before the tree is touched
  (`RefusalStopsTheCommand`). Nothing of the kind holds of a refusal without a
  reason, which `land_refused` shows to be landed.
  `LandImplementsSort` shows that `Land` uses `Toposort` as specified.
  `TreeInvariant` adds the branches: the command is on the destination from the
  checkout until the end of the merge, deletes the merged branch only, and that
  only when the destination holds all it held. `WorkSurvives` follows, and with
  both invariants the types, `TypeCorrect`. `OnceInvariant` is the converse of
  the first: every edge is a link to a pending request and every vertex is
  needed. So what reaches the push is the plan, each request once and the one
  asked for last, `LandsEachOnce`; the point that is easy to miss is that the
  request under its second URL, reached by a circular link, cannot be sorted,
  for it would have an edge to the vertex right behind the first.
  `LandsThere`: a command that starts on the destination never leaves it, so
  what it lands is on the destination.
- `PatchProofs`, of the patcher. `PatcherInvariant`: between two patches nothing of ours is
  left in index or files, HEAD has moved once for each patch, and what is about
  to be committed is the patch in hand. `LeavesOnePatch` and `CommitsAreWhole`
  follow for every list of patches and every tree to start from.
- `PatchProofs`, of the command. `PatchImplementsPatcher`: the command touches the tree only
  through one call of the patcher, so the theorems above hold of the command.
  `LatestDiffIsApplied` has an invariant of its own, and so has `EditsAreKept`:
  with `--commit` the index is that of HEAD when the first patch is applied,
  unless git status failed, and from then on every file in index and commits
  comes from HEAD or from a patch that changes it. That a file no patch touches
  keeps its edit, and that one a text patch meets is refused, are its other
  half.
  `AppliesOnItsBase`: without `--revert` the list the command makes is a chain
  from the base to the target of the diff, in whatever form it was fetched, and
  the tree after *n* patches is the *n*-th of the chain; so on the base every
  patch meets the tree it was made from, applies, and is committed.
- `PostProofs`. `PostInvariant`, for any server, any history, any number of
  runs and of changes through the web: every diff on the server, published or
  in a draft, is of the kind its review request was made for, and if it
  consists of commits they are a chain and match its cumulative diff
  (`ServerInv`); the plan fits the target, and what has been validated is what
  the server was told of it, one entry behind the commits (`PlanInv`); the
  draft has as much of the diff as the run has uploaded, unless the owner
  touched it meanwhile (`DiffInv`). `PostedIsWhole`, `KindMatches` and
  `ValidationChains` follow. `ChosenInvariant` says how the target was found,
  which is what `LeavesSubmittedAlone` needs: whoever named or matched it, it is
  fetched again and refused when it is submitted; only the one the server names
  as the holder of a change number is not looked at, and the property leaves it
  out (see the disagreements below).
  `TextIsKept` needs no invariant but reads both places that decide on a guess.

  `DiffsShowTheCommits` rests on what the operators of `Revisions` compute,
  which `PostLemmas` proves for every history. Ancestry is a recursive function
  over the numbers of the commits; since a parent has the smaller number, the
  least commit for which a claim about ancestors fails leads to a
  contradiction, and no induction theorem is needed. So the commits between a
  base and a tip that each have one parent form a line, and the diffs along it
  compose. `RevInv` adds that the revisions of the command stay what they were
  in a repository that only grows, by commits or by the stamp.
  `MatchIsSole` and `ItsPostIsFound` follow the list of review requests.
  `ListInv` types it; a page appends to what was read and keeps its head
  (`PageIs`); the exact matches are the candidates that fit and those by commit
  come first (`ExactMatchesAre`). `PostedInv` is the argument of the second
  theorem: what was posted last heads the list, has the commit and the text
  that were posted, and is read first, while nobody else changes anything;
  `LastInv` says why, down to the run that had nothing left to update, whose
  review request heads the list because creating it was the last change.
  `RunsComeToAnEnd` needs that all four loops are finite (`FiniteInv`): the
  list that is read has a limit, the questions, commits and files are what
  finite sets are made of.

Where TLC and the provers disagreed at first, the model was wrong for values
no run has, and was corrected: `FindsItsPost` failed when the owner changes
something while the matches are looked at (now `posted` is forgotten as soon as
anything is changed, and after a failed run), and when the text that was posted
is empty, for an empty text is never compared.

Only model-checked: liveness, that is `Terminates`, `CommandsEnd` and
`WaitEnds` (fairness and ENABLED are beyond the prover). Every other property
of a passing run is the statement of a theorem.

## Assumptions and abstractions to know of

- `ApiCache`: the opening of the database and its schema are left out; a body
  is what the server held, not its bytes; time has the second of DATE_FORMAT.
- `HttpAuth`: the server accepts a session cookie before an Authorization
  header, and starts a session for good credentials.
- `Session`: a server is closed as a whole (every request of a command needs a
  login) or open; one process uses the cookie file. What `attempt_web_login`
  returns is an outcome, and `WebLogin` says which one comes when. A stale
  session in a file may be forgotten by the server while no client holds it.
- `WebLogin`: GET and OPTIONS change nothing and are left out.
- `Land`: a refusal comes with or without a reason (`Standing`). A git status
  that fails reads as a clean tree, as in the code. What a change contains is not modelled, so any
  patch or merge may conflict. Only Git is modelled, `--squash` and `--edit`
  change what a commit looks like and are left out.
- `Patch`: all revisions of a diff lead along one history, and are told apart
  by their number. Binary files that are changed but not staged are excluded by
  name (`Unstaged`, `Plain`) from the properties about commits: the code leaves
  them out of the commit, and no text promises otherwise.
- `Post`: no commit is older than its parents, as no clock was wrong; a page
  holds something, and the limits on candidates and questions are positive (the
  code has 50 and 5). The server accepts whatever the code does not rule out. New drafts
  have no diff of their own, and publishing a draft without a diff keeps the
  one there is. Every binary file of a diff is uploaded, on both sides; its
  size and type are not looked at. Scores of fuzzy matches are an unknown
  order. Left out: include and exclude filters, bugs, `public`, extra_data,
  the description of a change, `--submit-as` and the fields that are copied
  from an option. What a client makes of the tree of a candidate
  (`get_tree_matches_review_request`) is an input. The Git clone is a plain one
  with a parent branch that is given; the newest common ancestor stands for
  the merge base.

## Where code and text disagree

The runs that expect a violation show six disagreements, and `PROJECT.json`
quotes the text of each. `Post`, `Session`
and `Land` were modelled as the code is where its comments, docstrings and
messages, or the documentation, say something else:

- `commands/post.py:733`: the commit is stamped so that the stamped message can
  be used when guessing. `self.revisions` still names the commits of before
  the amendment, so the old message and the old commit_id are posted, and a
  later `-u` finds the review request by its text only. `FindsItsPost` is
  stated with what was stored.
- `commands/post.py:722`: the diff "is not attached", also when it is, and the
  upload of a binary file or the update of the draft failed.
- `commands/post.py:670`: a change number that is in use leads to its review
  request without a look at its status or its kind, which an update by `-r` or
  `-u` has. `LeavesSubmittedAlone` leaves this path out, and text that is
  guessed replaces that of the owner, which `KeepsUsersText` leaves out.
- `commands/post.py:1078`: the refusal of `-H` by a server without history is
  not reached, as the caller asks with `server_supports_history` only where it
  is true; the diff is squashed without a word.
- `clients/git.py:1112`: the youngest remote ancestor is said to be the nearest
  by parent links; it is the parent of the oldest local commit by date, another
  one where branches were merged. `ShowsTheCommits` holds of either.
- `clients/git.py`, `parse_revision_spec`: the diff is that of `(base, tip]`;
  when the parent branch has moved on, the base is no ancestor of the tip, and
  the diff also takes back what the parent branch gained. `HasSoundBase` leaves
  this out.
- `commands/logout.py:42`: "delete the session cookie from .rbtools-cookies"
  (docs/rbtools/rbt/commands/logout.rst). A client that is given a username, by
  an option or the configuration, has dropped the cookie of the file when it
  was made (`api/request.py:1442`), so that `rbt logout` finds none, reports
  that the user is logged out already, and leaves the session in the file for
  the next command without a username. `EndsAsAsked` leaves this out (`saved`).
- `commands/logout.py:57`: a cookie whose session the server has forgotten stays
  in the file as well; it is of no use to anyone, and `EndsAsAsked` is about
  sessions that work.
- `commands/login.py:100`: "we check whether we have a session cookie before
  that happens, so that we can print the right success message". A stale cookie
  is one, and a user who has just typed a password is told that he was logged
  in already.
- `commands/land.py:300`: without a local branch "`rbt land` will attempt to
  apply the latest patch on that review request to the destination branch"
  (docs/rbtools/rbt/commands/land.rst:59). The `rbt patch` process commits to
  the branch that is checked out, nothing checks the destination out first, and
  with `--push` that branch is what is pushed. `LandsEverythingOnce` speaks of
  commands that were started on the destination.
- A retry after a failed upload, or after an answer to the creation that is
  lost, makes a second review request; nothing says it would not.

## Not modelled

Diffs of the SCM clients other than Git, formatting of diffs and of output,
prompts, wrappers of processes and files: conversions and I/O without state
over time. They are most of the lines of the repository: clients for Perforce,
ClearCase, Subversion and others translate the output of a tool into bytes of
a diff, and the resources of the Web API are names, docstrings and wrappers of
JSON. The command lifecycle, configuration and the registry are not modelled
yet. Of paging only the walk `rbt post` makes through a list is.
`PROJECT.json` gives the reason for each component, and lists every hazard
found, with those no property covers.

## Plan

In order of how much can go wrong:

1. Two processes that share the cookie file: each writes the whole jar it read
   when it started, so the later one restores a session the other has deleted.
2. `LandPatch`: `Land` with its "rbt patch" processes as instances of `Patch`,
   to ask whether the revision that lands is the one that was approved.
3. `ApiCacheSchema`: creation, upgrade and clearing of the database by two
   processes.
4. Pure operators, checked against reference definitions: the merging of
   configurations, aliases, the choice of an SCM client by the scan.
5. The Mercurial and Jujutsu patchers as further instances of `Patcher`, and
   their revisions beside those of Git in `Post`.
6. An abstract `ReviewRequestDraft` that `Post` implements: what a reader of the
   review request can tell of a post that failed.
7. `ValidationChains` of whole commits: each entry of a diff on the server made
   on top of the one before it, and the last one leading to the tree of the
   cumulative diff. `HistoryIs` in `PostProofs` has what the proof needs of the
   local revisions; `KindOfPlan` has to carry it to the plan.
8. Decreasing measures for `Land` and `Session`, as `ComesToAnEnd` is one for
   `Post`: the safety half of `Terminates` and `CommandsEnd`.
