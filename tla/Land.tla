-------------------------------- MODULE Land --------------------------------
(***************************************************************************)
(* rbt land: land a review request, and with --recursive everything it     *)
(* depends on, in a Git working tree.                                      *)
(*                                                                         *)
(* The command checks its options, fetches the review request, checks that *)
(* it is approved, builds the dependency graph one link at a time from the *)
(* server (ReviewRequestItemResource.build_dependency_graph), sorts it     *)
(* (Toposort), checks that every dependency is approved, and only then     *)
(* touches the tree: each dependency is an "rbt patch" process, the        *)
(* request itself a patch or a merge of a local branch, and the            *)
(* destination branch is pushed when asked.  Meanwhile reviewers change    *)
(* the server, and others push to the same branch upstream.                *)
(*                                                                         *)
(* A review request's change is named by the request.  A branch is the set *)
(* of changes in its history; what a change contains is abstracted, so a   *)
(* patch or a merge either applies or conflicts.                           *)
(***************************************************************************)
EXTENDS Toposort, SequencesExt

CONSTANTS
  ReviewRequest,   \* review requests on the server
  Root,            \* the one the command is run for
  Branch,          \* branches of the local repository
  Foreign,         \* a change someone else pushes upstream
  None,
  Setups,          \* the situations the command is started in
  MaxReviews       \* bound: server-side changes during one run

(* What the server says of a review request: is it approved, does a        *)
(* refusal come with a reason (approval_failure), is it submitted, and is  *)
(* it in the repository of the one the command was run for?                *)
Standing ==
  [approved: BOOLEAN, reason: BOOLEAN, submitted: BOOLEAN, ours: BOOLEAN]

(* A situation: the links between review requests, the options, the tree *)
SetupType(s) ==
  /\ s.depends_on \in [ReviewRequest -> SUBSET ReviewRequest]
  /\ s.standing \in [ReviewRequest -> Standing]
  /\ s.branch_name \in Branch \cup {None}
  /\ s.current \in Branch /\ s.destination \in Branch /\ s.source \in Branch
  /\ \A flag \in {"rid", "is_local", "recursive", "dry_run", "push",
                  "delete_branch", "clean", "can_merge", "can_push"} :
       s[flag] \in BOOLEAN

ASSUME LandAssumption ==
  /\ Root \in ReviewRequest
  /\ IsFiniteSet(ReviewRequest)
  /\ Foreign \notin ReviewRequest
  /\ None \notin Branch
  /\ \A S \in SUBSET (ReviewRequest \cup {Foreign}) : S # None
  /\ MaxReviews \in Nat
  /\ \A s \in Setups : SetupType(s)

(* The request the command was run for is the resource it already has; one *)
(* reached through a link is fetched by its URL, at most once per URL.     *)
Self == <<"absolute_url", Root>>
Linked(rr) == <<"href", rr>>
Resource == {Self} \cup {Linked(rr) : rr \in ReviewRequest}
Id(resource) == resource[2]
Url(resource) == <<"url", resource[1], resource[2]>>

(* The vertices that are sorted are those resources *)
ASSUME VertexAssumption == Vertex = Resource

VARIABLES
  setup,       \* the situation, fixed for the run
  pc,          \* where the command is
  standing,    \* the server: approval, status and repository of each request
  reviews,     \* server-side changes so far
  fetched,     \* resource -> its standing when it was fetched, or None
  unvisited,   \* build_dependency_graph's queue
  visited,     \* its set of URLs
  links,       \* the links of the queue's first resource still to follow
  branch_name, \* the local branch that is landed, or None to patch
  to_land,     \* dependencies still to be landed, in order
  landed,      \* the requests reported as landed, in order
  contents,    \* branch -> the changes in its history, or None once deleted
  current,     \* the branch checked out
  clean,       \* the working tree has no uncommitted changes
  upstream     \* changes in the destination branch of the remote

graphVars == <<fetched, unvisited, visited, links>>
treeVars  == <<contents, current, clean, upstream>>
serverVars == <<standing, reviews>>
landVars == <<setup, pc, serverVars, graphVars, branch_name, to_land, landed,
              treeVars>>
vars == <<sortVars, landVars>>

Stages == {"options", "fetch", "approve", "graph", "sort", "approve_all",
           "land", "checkout", "merge", "commit", "delete", "report",
           "push", "pull", "upload", "done", "failed"}

TypeOK ==
  /\ SetupType(setup)
  /\ pc \in Stages
  /\ standing \in [ReviewRequest -> Standing]
  /\ reviews \in 0..MaxReviews
  /\ DOMAIN fetched = Resource
  /\ \A x \in Resource : fetched[x] # None => fetched[x] \in Standing
  /\ unvisited \in Seq(Resource)
  /\ visited \subseteq {Url(x) : x \in Resource}
  /\ links \subseteq ReviewRequest
  /\ branch_name \in Branch \cup {None}
  /\ to_land \in Seq(Resource)
  /\ landed \in Seq(ReviewRequest)
  /\ \A b \in Branch : contents[b] # None =>
       contents[b] \subseteq ReviewRequest \cup {Foreign}
  /\ current \in Branch
  /\ clean \in BOOLEAN
  /\ upstream \subseteq ReviewRequest \cup {Foreign}
  /\ IsGraph(graph)
  /\ DOMAIN indegrees \subseteq Resource
  /\ heads \subseteq Resource
  /\ order \in Seq(Resource)
  /\ sorting \in {"idle", "popping", "sorted", "cyclic"}

Init ==
  /\ SortInit
  /\ setup \in Setups
  /\ pc = "options"
  /\ standing = setup.standing
  /\ reviews = 0
  /\ fetched = [x \in Resource |-> None]
  /\ unvisited = <<>>
  /\ visited = {}
  /\ links = {}
  /\ branch_name = setup.branch_name
  /\ to_land = <<>>
  /\ landed = <<>>
  /\ contents = [b \in Branch |-> IF b = setup.source THEN {Root} ELSE {}]
  /\ current = setup.current
  /\ clean = setup.clean
  /\ upstream = {}

Goto(stage) == pc' = stage

(* A CommandError, or an exception nothing catches: the command ends and   *)
(* what it has already done to the tree stays done.                        *)
Abort == Goto("failed")
-----------------------------------------------------------------------------
(* Checks before anything is asked of the server; if git status fails the  *)
(* tree counts as clean (GitClient.has_pending_changes).                   *)
CheckOptions ==
  /\ pc = "options"
  /\ \E status_fails \in BOOLEAN :
       IF /\ setup.can_merge
          /\ setup.push => setup.can_push
          /\ clean \/ status_fails
         THEN Goto("fetch") ELSE Abort
  /\ UNCHANGED <<sortVars, setup, serverVars, graphVars, branch_name,
                 to_land, landed, treeVars>>

(* Find the review request, by its ID or by guessing it from the local     *)
(* commits, and decide whether a local branch is merged or a patch applied.*)
FetchReviewRequest ==
  LET is_local == \/ setup.is_local
                  \/ ~setup.rid
                  \/ setup.branch_name # None
      name == IF setup.branch_name = None THEN current ELSE setup.branch_name
  IN
  /\ pc = "fetch"
  /\ \/ /\ Abort        \* no match, or an APIError
        /\ UNCHANGED <<fetched, branch_name>>
     \/ /\ fetched' = [fetched EXCEPT ![Self] = standing[Root]]
        /\ branch_name' = IF is_local THEN name ELSE None
        /\ IF branch_name' = setup.destination THEN Abort ELSE Goto("approve")
  /\ UNCHANGED <<sortVars, setup, serverVars, unvisited, visited, links,
                 to_land, landed, treeVars>>

(* can_land returns the reason of a refusal, and None is no error: a       *)
(* refusal without a reason reads as an approval.                          *)
CanLand(resource) == fetched[resource].approved \/ ~fetched[resource].reason

CheckApproval ==
  /\ pc = "approve"
  /\ IF ~CanLand(Self) THEN Abort /\ UNCHANGED unvisited
     ELSE IF setup.recursive THEN Goto("graph") /\ unvisited' = <<Self>>
     ELSE Goto("report") /\ UNCHANGED unvisited
  /\ UNCHANGED <<sortVars, setup, serverVars, fetched, visited, links,
                 branch_name, to_land, landed, treeVars>>
-----------------------------------------------------------------------------
(* build_dependency_graph *)

(* Take the next resource of the queue.  The set holds URLs and the test   *)
(* is for the resource.                                                    *)
VisitHead ==
  LET head == Head(unvisited) IN
  /\ pc = "graph"
  /\ links = {}
  /\ unvisited # <<>>
  /\ IF head \in visited
       THEN UNCHANGED <<visited, links>> /\ unvisited' = Tail(unvisited)
       ELSE /\ visited' = visited \cup {Url(head)}
            /\ links' = setup.depends_on[Id(head)]
            /\ unvisited' = IF links' = {} THEN Tail(unvisited) ELSE unvisited
  /\ UNCHANGED <<sortVars, setup, pc, serverVars, fetched, branch_name,
                 to_land, landed, treeVars>>

(* Only the head itself is found on a path from its own ID: the graph's    *)
(* vertices are resources, and path_exists is given IDs.                   *)
CircularDependency(head, tail) == Id(tail) = Id(head)

InGraph(tail) ==
  LET known == fetched'[tail] IN known.ours /\ ~known.submitted

(* The head goes back to the end of the queue with the tail. *)
MutantFollowLink(rr) ==
  LET head == Head(unvisited)
      tail == Linked(rr)
      rest == IF links = {rr} THEN Tail(unvisited) ELSE unvisited
  IN
  /\ pc = "graph"
  /\ rr \in links
  /\ fetched' = [fetched EXCEPT ![tail] =
                    IF @ = None THEN standing[rr] ELSE @]
  /\ links' = links \ {rr}
  /\ graph' = IF InGraph(tail)
                THEN [v \in DOMAIN graph \cup {head} |->
                        IF v = head THEN Tails(head) \cup {tail}
                                    ELSE graph[v]]
                ELSE graph
  /\ unvisited' = IF links = {rr} THEN Append(rest, head) ELSE rest
  /\ UNCHANGED <<indegrees, heads, order, sorting, setup, pc, serverVars,
                 visited, branch_name, to_land, landed, treeVars>>

(* Follow one link of the head: fetch the request unless its URL is known, *)
(* and add the edge unless it is submitted or of another repository.       *)
FollowLink(rr) ==
  LET head == Head(unvisited)
      tail == Linked(rr)
      rest == IF links = {rr} THEN Tail(unvisited) ELSE unvisited
      tails == Tails(head) \cup {tail}
  IN
  /\ pc = "graph"
  /\ rr \in links
  /\ \/ /\ fetched[tail] # None
        /\ UNCHANGED fetched
     \/ /\ fetched[tail] = None
        /\ fetched' = [fetched EXCEPT ![tail] = standing[rr]]
     \/ /\ fetched[tail] = None      \* the request for it fails
        /\ UNCHANGED fetched
  /\ IF fetched'[tail] = None \/ CircularDependency(head, tail)
       THEN Abort /\ UNCHANGED <<unvisited, links, graph>>
       ELSE /\ links' = links \ {rr}
            /\ graph' = IF InGraph(tail)
                          THEN [v \in DOMAIN graph \cup {head} |->
                                  IF v = head THEN tails ELSE graph[v]]
                          ELSE graph
            /\ unvisited' = IF InGraph(tail) THEN Append(rest, tail) ELSE rest
            /\ UNCHANGED pc
  /\ UNCHANGED <<indegrees, heads, order, sorting, setup, serverVars, visited,
                 branch_name, to_land, landed, treeVars>>

GraphBuilt ==
  /\ pc = "graph"
  /\ unvisited = <<>>
  /\ Goto("sort")
  /\ UNCHANGED <<sortVars, setup, serverVars, graphVars, branch_name,
                 to_land, landed, treeVars>>
-----------------------------------------------------------------------------
(* toposort(dependency_graph)[1:] *)
SortStep ==
  /\ pc = "sort"
  /\ Sort
  /\ UNCHANGED landVars

(* Nothing is dropped from the sorted graph. *)
MutantSortReturns ==
  /\ pc = "sort"
  /\ sorting \in {"sorted", "cyclic"}
  /\ Goto("approve_all")
  /\ to_land' = order
  /\ UNCHANGED <<sortVars, setup, serverVars, graphVars, branch_name, landed,
                 treeVars>>

SortReturns ==
  /\ pc = "sort"
  /\ sorting \in {"sorted", "cyclic"}
  /\ IF sorting = "cyclic" THEN Abort /\ UNCHANGED to_land
       ELSE Goto("approve_all") /\ to_land' = SubSeq(order, 2, Len(order))
  /\ UNCHANGED <<sortVars, setup, serverVars, graphVars, branch_name, landed,
                 treeVars>>

(* The sorted graph is not reversed. *)
MutantDependenciesLast ==
  /\ pc = "approve_all"
  /\ IF \A i \in 1..Len(to_land) : CanLand(to_land[i])
       THEN Goto("land") ELSE Abort
  /\ UNCHANGED <<sortVars, setup, serverVars, graphVars, branch_name, to_land,
                 landed, treeVars>>

(* Only the request's own dependencies are checked. *)
MutantCheckDirect ==
  /\ pc = "approve_all"
  /\ IF \A x \in Tails(Self) : CanLand(x)
       THEN Goto("land") /\ to_land' = Reverse(to_land)
       ELSE Abort /\ UNCHANGED to_land
  /\ UNCHANGED <<sortVars, setup, serverVars, graphVars, branch_name, landed,
                 treeVars>>

(* Every dependency is checked before the first is landed *)
CheckDependencies ==
  /\ pc = "approve_all"
  /\ IF \A i \in 1..Len(to_land) : CanLand(to_land[i])
       THEN Goto("land") /\ to_land' = Reverse(to_land)
       ELSE Abort /\ UNCHANGED to_land
  /\ UNCHANGED <<sortVars, setup, serverVars, graphVars, branch_name, landed,
                 treeVars>>
-----------------------------------------------------------------------------
(* Land.patch: an "rbt patch" process commits the change on the branch     *)
(* that is checked out.  It only warns of a tree that is not clean, may    *)
(* leave changed binary files out of the commit, and when it fails may     *)
(* leave the tree half patched.                                            *)
Patch(rr) ==
  \/ /\ contents' = [contents EXCEPT ![current] = @ \cup {rr}]
     /\ clean' \in {clean, FALSE}
     /\ landed' = Append(landed, rr)
     /\ UNCHANGED <<pc, current, upstream>>
  \/ /\ clean' \in {clean, FALSE}
     /\ Abort
     /\ UNCHANGED <<landed, contents, current, upstream>>

Report(rr) ==
  /\ landed' = Append(landed, rr)
  /\ UNCHANGED <<pc, treeVars>>

(* The resource is reported, not its ID. *)
MutantLandDependency ==
  /\ pc = "land"
  /\ to_land # <<>>
  /\ to_land' = Tail(to_land)
  /\ IF setup.dry_run THEN Report(Head(to_land)) ELSE Patch(Head(to_land))
  /\ UNCHANGED <<sortVars, setup, serverVars, graphVars, branch_name>>

LandDependency ==
  /\ pc = "land"
  /\ to_land # <<>>
  /\ to_land' = Tail(to_land)
  /\ IF setup.dry_run THEN Report(Id(Head(to_land)))
                      ELSE Patch(Id(Head(to_land)))
  /\ UNCHANGED <<sortVars, setup, serverVars, graphVars, branch_name>>

DependenciesLanded ==
  /\ pc = "land"
  /\ to_land = <<>>
  /\ Goto("report")
  /\ UNCHANGED <<sortVars, setup, serverVars, graphVars, branch_name,
                 to_land, landed, treeVars>>

(* The request itself: simulated, patched, or the start of a merge *)
LandReviewRequest ==
  /\ pc = "report"
  /\ \/ /\ setup.dry_run
        /\ landed' = Append(landed, Root)
        /\ Goto("push")
        /\ UNCHANGED treeVars
     \/ /\ ~setup.dry_run
        /\ branch_name = None
        /\ contents' = [contents EXCEPT ![current] = @ \cup {Root}]
        /\ clean' \in {clean, FALSE}
        /\ landed' = Append(landed, Root)
        /\ Goto("push")
        /\ UNCHANGED <<current, upstream>>
     \/ /\ ~setup.dry_run
        /\ branch_name = None
        /\ clean' \in {clean, FALSE}
        /\ Abort
        /\ UNCHANGED <<landed, contents, current, upstream>>
     \/ /\ ~setup.dry_run
        /\ branch_name # None
        /\ Goto("checkout")
        /\ UNCHANGED <<landed, treeVars>>
  /\ UNCHANGED <<sortVars, setup, serverVars, graphVars, branch_name, to_land>>

(* A git process that fails raises MergeError or PushError: CommandError *)
GitFails ==
  /\ pc \in {"checkout", "merge", "commit", "delete", "pull", "upload"}
  /\ Abort
  /\ clean' = IF pc \in {"merge", "pull"} THEN FALSE ELSE clean
  /\ UNCHANGED <<sortVars, setup, serverVars, graphVars, branch_name,
                 to_land, landed, contents, current, upstream>>

Checkout ==
  /\ pc = "checkout"
  /\ current' = setup.destination
  /\ Goto("merge")
  /\ UNCHANGED <<sortVars, setup, serverVars, graphVars, branch_name,
                 to_land, landed, contents, clean, upstream>>

(* The branch is deleted before the merge is committed. *)
MutantMerge ==
  /\ pc = "merge"
  /\ clean' = FALSE
  /\ Goto("commit")
  /\ contents' = [contents EXCEPT ![branch_name] =
                    IF setup.delete_branch THEN None ELSE @]
  /\ UNCHANGED <<sortVars, setup, serverVars, graphVars, branch_name,
                 to_land, landed, current, upstream>>

(* --no-commit: the merge is staged and not yet in the branch *)
Merge ==
  /\ pc = "merge"
  /\ clean' = FALSE
  /\ Goto("commit")
  /\ UNCHANGED <<sortVars, setup, serverVars, graphVars, branch_name,
                 to_land, landed, contents, current, upstream>>

LandedByMerge == landed' = Append(landed, Root) /\ Goto("push")

(* The merge is committed; a file that an earlier patch left changed stays *)
(* so.                                                                     *)
Commit ==
  /\ pc = "commit"
  /\ contents' = [contents EXCEPT ![current] = @ \cup contents[branch_name]]
  /\ clean' \in BOOLEAN
  /\ IF setup.delete_branch THEN Goto("delete") /\ UNCHANGED landed
                            ELSE LandedByMerge
  /\ UNCHANGED <<sortVars, setup, serverVars, graphVars, branch_name,
                 to_land, current, upstream>>

(* git branch -D, whether or not the branch is merged *)
DeleteBranch ==
  /\ pc = "delete"
  /\ branch_name # current
  /\ contents' = [contents EXCEPT ![branch_name] = None]
  /\ LandedByMerge
  /\ UNCHANGED <<sortVars, setup, serverVars, graphVars, branch_name,
                 to_land, current, clean, upstream>>
-----------------------------------------------------------------------------
(* push_upstream: no remote for the branch is a PushError too *)
StartPush ==
  /\ pc = "push"
  /\ IF ~setup.push \/ setup.dry_run THEN Goto("done")
                                     ELSE pc' \in {"pull", "failed"}
  /\ UNCHANGED <<sortVars, setup, serverVars, graphVars, branch_name,
                 to_land, landed, treeVars>>

(* git pull --rebase works on the branch that is checked out *)
Pull ==
  /\ pc = "pull"
  /\ contents' = [contents EXCEPT ![current] = @ \cup upstream]
  /\ Goto("upload")
  /\ UNCHANGED <<sortVars, setup, serverVars, graphVars, branch_name,
                 to_land, landed, current, clean, upstream>>

(* git push of the destination branch; the remote refuses what does not    *)
(* fast-forward it.                                                        *)
Push ==
  /\ pc = "upload"
  /\ upstream \subseteq contents[setup.destination]
  /\ upstream' = contents[setup.destination]
  /\ Goto("done")
  /\ UNCHANGED <<sortVars, setup, serverVars, graphVars, branch_name,
                 to_land, landed, contents, current, clean>>
-----------------------------------------------------------------------------
(* Reviewers and other committers, bounded by MaxReviews *)
ServerChanges ==
  /\ pc \notin {"done", "failed"}
  /\ reviews < MaxReviews
  /\ reviews' = reviews + 1
  /\ \/ /\ \E rr \in ReviewRequest :
             \/ standing' = [standing EXCEPT ![rr].approved = ~@]
             \/ standing' = [standing EXCEPT ![rr].submitted = ~@]
        /\ UNCHANGED upstream
     \/ /\ upstream' = upstream \cup {Foreign}
        /\ UNCHANGED standing
  /\ UNCHANGED <<sortVars, setup, pc, graphVars, branch_name, to_land, landed,
                 contents, current, clean>>

Command ==
  \/ CheckOptions \/ FetchReviewRequest \/ CheckApproval
  \/ VisitHead \/ (\E rr \in links : FollowLink(rr)) \/ GraphBuilt
  \/ SortStep \/ SortReturns \/ CheckDependencies
  \/ LandDependency \/ DependenciesLanded \/ LandReviewRequest
  \/ Checkout \/ Merge \/ Commit \/ DeleteBranch \/ GitFails
  \/ StartPush \/ Pull \/ Push

Next == Command \/ ServerChanges

Spec == Init /\ [][Next]_vars

(* One process, which runs until it ends *)
FairSpec == Spec /\ WF_vars(Command)
-----------------------------------------------------------------------------
(* PROPERTIES *)

(* What the server said, when it was asked, must be landed first *)
Pending(rr) ==
  LET known == fetched[Linked(rr)] IN
  known # None /\ known.ours /\ ~known.submitted

Dependencies(rr) ==
  IF setup.recursive THEN {d \in setup.depends_on[rr] : Pending(d)} ELSE {}

(* Everything the request depends on, through any number of links: the     *)
(* smallest set that holds the dependencies of Root and of its members.    *)
Planned ==
  LET Closed(S) == \A rr \in S \cup {Root} : Dependencies(rr) \subseteq S
  IN {rr \in ReviewRequest :
        \A S \in SUBSET ReviewRequest : Closed(S) => rr \in S}

TreeTouched ==
  \/ current # setup.current
  \/ clean # setup.clean
  \/ \E b \in Branch :
       contents[b] # IF b = setup.source THEN {Root} ELSE {}

(* Whatever fails on the way, a review request is only ever landed after   *)
(* every pending request it depends on (queue of links, sort and reversal  *)
(* together).                                                              *)
DependenciesFirst ==
  \A i \in 1..Len(landed) : \A rr \in Dependencies(landed[i]) :
    \E j \in 1..(i - 1) : landed[j] = rr

(* The server refused the request, and said why.                           *)
Refused(resource) == ~fetched[resource].approved /\ fetched[resource].reason

(* One refusal that gives its reason, anywhere in the dependency graph,    *)
(* stops the command before it has changed the tree, and a dry run never   *)
(* changes it.  Of a refusal without a reason this says nothing:           *)
(* LandsOnlyApproved.                                                      *)
RefusalLeavesTree ==
  TreeTouched =>
    /\ ~setup.dry_run
    /\ ~Refused(Self)
    /\ \A rr \in Planned : ~Refused(Linked(rr))

(* Patches go to the branch that is checked out and merges to the          *)
(* destination.  Where these are the same, and what is merged is the       *)
(* branch with the work, everything reported as landed is there.           *)
OnDestination ==
  /\ ~setup.dry_run
  /\ setup.current = setup.destination
  /\ branch_name \in {None, setup.source}
  => \A i \in 1..Len(landed) : landed[i] \in contents[setup.destination]

(* A command that gets as far as pushing has landed the request and all    *)
(* its dependencies, each exactly once, the request last: dropping the     *)
(* first vertex of the sorted graph dropped the request itself.  They are  *)
(* then on the destination branch, if the command was started there.       *)
LandsEverythingOnce ==
  pc \in {"push", "pull", "upload", "done"} =>
    /\ \A i, j \in 1..Len(landed) : landed[i] = landed[j] => i = j
    /\ {landed[i] : i \in 1..Len(landed)} = Planned \cup {Root}
    /\ landed[Len(landed)] = Root
    /\ OnDestination

(* Merging, then deleting, the local branch never loses the work on it,    *)
(* whichever git process fails.                                            *)
WorkIsKept ==
  setup.source # setup.destination =>
    \E b \in Branch : contents[b] # None /\ Root \in contents[b]

(* The command ends, on every graph without cycles: with paths that meet   *)
(* again as well as without.  On one with a cycle it does not.             *)
Terminates == <>(pc \in {"done", "failed"})

(* "A review request can be landed if it is approved": each one that is    *)
(* landed was approved when it was fetched.                                *)
LandsOnlyApproved ==
  \A i \in 1..Len(landed) : \E x \in Resource :
    Id(x) = landed[i] /\ fetched[x] # None /\ fetched[x].approved
=============================================================================
