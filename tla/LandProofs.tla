----------------------------- MODULE LandProofs -----------------------------
(***************************************************************************)
(* Proofs about Land, for every set of review requests, links, options and *)
(* server-side changes.                                                    *)
(*                                                                         *)
(* Every step of the command is a step of toposort or leaves its variables *)
(* alone, so that Land inherits SortInv.  On top of it stands what the     *)
(* queue of build_dependency_graph guarantees: when it is empty, every     *)
(* vertex has an edge to each pending request it links to (Explored).      *)
(* With the order of the sort, reversed, that gives DependenciesFirst; and *)
(* as the request itself is the only vertex no edge leads to (OneSource),  *)
(* it is the vertex that [1:] drops, so every other one is checked before  *)
(* the tree is touched: RefusalLeavesTree.                                 *)
(*                                                                         *)
(* Three more invariants build on it.  TreeInv follows the branches        *)
(* through a merge; OnceInv says that the graph holds nothing but what is  *)
(* planned, and that the list is complete when the command gets to the     *)
(* push; ReachesInv, that a command started on the destination stays       *)
(* there, where all that was reported as landed is.                        *)
(***************************************************************************)
EXTENDS Land, ToposortProofs, SequenceTheorems

(* All links of a resource were followed and its edges are in the graph *)
Followed(x, rr) ==
  /\ fetched[Linked(rr)] # None
  /\ Pending(rr) => Linked(rr) \in Tails(x)

Explored(x) == \A rr \in setup.depends_on[Id(x)] : Followed(x, rr)

Queued(x) == \E i \in 1..Len(unvisited) : unvisited[i] = x

Early == {"options", "fetch", "approve"}

(* Stages of a command that has passed every check *)
Cleared == {"land", "report", "checkout", "merge", "commit", "delete",
            "push", "pull", "upload", "done"}

GraphTypeOK ==
  /\ setup \in Setups
  /\ pc \in Stages
  /\ unvisited \in Seq(Resource)
  /\ visited \subseteq {Url(x) : x \in Resource}
  /\ links \subseteq ReviewRequest
  /\ DOMAIN fetched = Resource
  /\ standing \in [ReviewRequest -> Standing]
  /\ \A x \in Resource : fetched[x] # None => fetched[x] \in Standing

(* What a stage says about the queue and the sort *)
StageOK ==
  /\ pc \in Early \cup {"graph"} => sorting = "idle"
  /\ pc \in Early => graph = NoEdges /\ unvisited = <<>> /\ links = {}
  /\ pc \in {"graph", "sort", "approve_all"} => setup.recursive
  /\ pc \in {"approve_all"} \cup Cleared =>
       (setup.recursive => sorting = "sorted")
  /\ ~setup.recursive => sorting = "idle"
  /\ pc = "graph" /\ links # {} => unvisited # <<>>

(* The links of the head that are no longer in the list were followed, and *)
(* a vertex that is not in the queue any more was explored.                *)
GraphOK ==
  /\ pc = "graph" /\ links # {} =>
       \A rr \in setup.depends_on[Id(Head(unvisited))] \ links :
         Followed(Head(unvisited), rr)
  /\ pc = "graph" =>
       \A x \in {Self} \cup Vertices : Explored(x) \/ Queued(x)
  /\ pc = "sort" \/ sorting # "idle" =>
       \A x \in {Self} \cup Vertices : Explored(x)

(* Every vertex but the request itself was reached through an edge *)
OneSource ==
  /\ EdgesInto(Self) = {}
  /\ \A x \in Vertices : x # Self => EdgesInto(x) # {}
  /\ \A i \in 1..Len(unvisited) :
       unvisited[i] # Self => EdgesInto(unvisited[i]) # {}
  /\ order # <<>> => order[1] = Self

DepCount == IF order = <<>> THEN 0 ELSE Len(order) - 1

(* How the list to land and the reported requests follow from the sort *)
LandingOK ==
  /\ landed \in Seq(ReviewRequest)
  /\ to_land \in Seq(Resource)
  /\ pc \in Early \cup {"graph", "sort", "approve_all"} => landed = <<>>
  /\ pc = "approve_all" => to_land = SubSeq(order, 2, Len(order))
  /\ pc = "land" =>
       /\ Len(landed) + Len(to_land) = DepCount
       /\ \A k \in 1..Len(to_land) :
            to_land[k] = order[Len(order) + 1 - (Len(landed) + k)]
  /\ pc \in {"report", "checkout", "merge", "commit", "delete"} =>
       Len(landed) = DepCount
  /\ Len(landed) <= DepCount + 1
  /\ \A i \in 1..Len(landed) :
       landed[i] = IF i <= DepCount THEN Id(order[Len(order) + 1 - i])
                                    ELSE Root
  /\ landed # <<>> /\ setup.recursive => sorting = "sorted"

AllCleared ==
  /\ CanLand(Self)
  /\ setup.recursive =>
       /\ sorting = "sorted"
       /\ \A i \in 2..Len(order) : CanLand(order[i])

TreeOK ==
  /\ pc \in {"graph", "sort", "approve_all"} => CanLand(Self)
  /\ pc \in Early \cup {"graph", "sort", "approve_all"} => ~TreeTouched
  /\ pc \in Cleared => AllCleared
  /\ pc \in {"checkout", "merge", "commit", "delete", "pull", "upload"} =>
       ~setup.dry_run
  /\ TreeTouched => ~setup.dry_run /\ AllCleared

IInv ==
  /\ SortInv
  /\ GraphTypeOK
  /\ StageOK
  /\ GraphOK
  /\ OneSource
  /\ LandingOK
  /\ TreeOK

-----------------------------------------------------------------------------
(* Lemmas about the resources *)

LEMMA Resources ==
  /\ Self \in Resource /\ Id(Self) = Root
  /\ \A rr \in ReviewRequest :
       Linked(rr) \in Resource /\ Id(Linked(rr)) = rr /\ Linked(rr) # Self
  /\ \A x \in Resource : Id(x) \in ReviewRequest
  /\ Vertex = Resource
BY LandAssumption, VertexAssumption DEF Resource, Self, Linked, Id

(* The set of visited URLs holds no resource *)
LEMMA NotVisited ==
  ASSUME NEW x \in Resource, NEW y \in Resource
  PROVE  x # Url(y)
<1>1. Len(x) = 2
  BY DEF Resource, Self, Linked
<1>2. Len(Url(y)) = 3
  BY DEF Url
<1> QED BY <1>1, <1>2

(* An element of a queue is its head or in the tail *)
LEMMA HeadOrTail ==
  ASSUME NEW S, NEW s \in Seq(S), s # <<>>, NEW i \in 1..Len(s)
  PROVE  s[i] = Head(s) \/ \E j \in 1..Len(Tail(s)) : Tail(s)[j] = s[i]
<1>1. Len(s) \in Nat /\ Head(s) = s[1]
  OBVIOUS
<1>2. /\ Len(Tail(s)) = Len(s) - 1
      /\ \A j \in 1..Len(Tail(s)) : Tail(s)[j] = s[j + 1]
  BY HeadTailProperties
<1>3. CASE i # 1
  <2>1. i - 1 \in 1..Len(Tail(s)) /\ Tail(s)[i - 1] = s[i]
    BY <1>1, <1>2, <1>3
  <2> QED BY <2>1
<1> QED BY <1>1, <1>3

LEMMA ResourceFinite == IsFiniteSet(Vertex)
<1> DEFINE Links == {Linked(rr) : rr \in ReviewRequest}
           f == [rr \in ReviewRequest |-> Linked(rr)]
<1>1. f \in Surjection(ReviewRequest, Links)
  BY DEF Surjection
<1>2. IsFiniteSet(Links)
  BY <1>1, LandAssumption, FS_Surjection
<1>3. Resource = Links \cup {Self}
  BY DEF Resource
<1> QED BY <1>2, <1>3, FS_AddElement, VertexAssumption

LEMMA SetupFields ==
  ASSUME NEW s \in Setups
  PROVE  /\ s.depends_on \in [ReviewRequest -> SUBSET ReviewRequest]
         /\ s.standing \in [ReviewRequest -> Standing]
         /\ s.branch_name \in Branch \cup {None}
         /\ s.current \in Branch /\ s.destination \in Branch
         /\ s.source \in Branch
BY LandAssumption DEF SetupType, Standing

-----------------------------------------------------------------------------
(* Frames: what a step leaves alone *)

(* The steps that neither build nor sort the graph *)
Quiet ==
  \/ CheckOptions \/ SortReturns \/ CheckDependencies
  \/ LandDependency \/ DependenciesLanded \/ LandReviewRequest
  \/ Checkout \/ Merge \/ Commit \/ DeleteBranch \/ GitFails
  \/ StartPush \/ Pull \/ Push \/ ServerChanges

LEMMA QuietFrame ==
  ASSUME Quiet
  PROVE  UNCHANGED <<graph, indegrees, heads, order, sorting, setup, fetched,
                     unvisited, visited, links>>
<1> USE DEF sortVars, graphVars, serverVars, treeVars
<1>1. CASE CheckOptions       BY <1>1 DEF CheckOptions
<1>2. CASE SortReturns        BY <1>2 DEF SortReturns
<1>3. CASE CheckDependencies  BY <1>3 DEF CheckDependencies
<1>4. CASE LandDependency     BY <1>4 DEF LandDependency
<1>5. CASE DependenciesLanded BY <1>5 DEF DependenciesLanded
<1>6. CASE LandReviewRequest  BY <1>6 DEF LandReviewRequest
<1>7. CASE Checkout           BY <1>7 DEF Checkout
<1>8. CASE Merge              BY <1>8 DEF Merge
<1>9. CASE Commit             BY <1>9 DEF Commit
<1>10. CASE DeleteBranch      BY <1>10 DEF DeleteBranch
<1>11. CASE GitFails          BY <1>11 DEF GitFails
<1>12. CASE StartPush         BY <1>12 DEF StartPush
<1>13. CASE Pull              BY <1>13 DEF Pull
<1>14. CASE Push              BY <1>14 DEF Push
<1>15. CASE ServerChanges     BY <1>15 DEF ServerChanges
<1> QED BY <1>1, <1>2, <1>3, <1>4, <1>5, <1>6, <1>7, <1>8, <1>9, <1>10,
           <1>11, <1>12, <1>13, <1>14, <1>15 DEF Quiet

(* From which stage to which stage they lead *)
Moves ==
  \/ pc' = pc
  \/ pc' = "failed"
  \/ pc = "options" /\ pc' = "fetch"
  \/ pc = "sort" /\ pc' = "approve_all" /\ sorting = "sorted"
  \/ pc = "approve_all" /\ pc' = "land"
  \/ pc \in Cleared /\ pc' \in Cleared \ {"land"}

LEMMA QuietMoves ==
  ASSUME Quiet, sorting \in {"idle", "popping", "sorted", "cyclic"}
  PROVE  Moves
<1> USE DEF Moves, Goto, Abort, Cleared
<1>1. CASE CheckOptions       BY <1>1 DEF CheckOptions
<1>2. CASE SortReturns        BY <1>2 DEF SortReturns
<1>3. CASE CheckDependencies  BY <1>3 DEF CheckDependencies
<1>4. CASE LandDependency     BY <1>4 DEF LandDependency, Report, Patch
<1>5. CASE DependenciesLanded BY <1>5 DEF DependenciesLanded
<1>6. CASE LandReviewRequest  BY <1>6 DEF LandReviewRequest
<1>7. CASE Checkout           BY <1>7 DEF Checkout
<1>8. CASE Merge              BY <1>8 DEF Merge
<1>9. CASE Commit             BY <1>9 DEF Commit, LandedByMerge
<1>10. CASE DeleteBranch      BY <1>10 DEF DeleteBranch, LandedByMerge
<1>11. CASE GitFails          BY <1>11 DEF GitFails
<1>12. CASE StartPush         BY <1>12 DEF StartPush
<1>13. CASE Pull              BY <1>13 DEF Pull
<1>14. CASE Push              BY <1>14 DEF Push
<1>15. CASE ServerChanges     BY <1>15 DEF ServerChanges
<1> QED BY <1>1, <1>2, <1>3, <1>4, <1>5, <1>6, <1>7, <1>8, <1>9, <1>10,
           <1>11, <1>12, <1>13, <1>14, <1>15 DEF Quiet

(* The operators of the invariant when the graph is left alone *)
LEMMA GraphFrame ==
  ASSUME UNCHANGED <<graph, setup, fetched, unvisited>>
  PROVE  /\ Vertices' = Vertices
         /\ \A x : Tails(x)' = Tails(x) /\ EdgesInto(x)' = EdgesInto(x)
         /\ \A x, rr : Followed(x, rr)' <=> Followed(x, rr)
         /\ \A x : Explored(x)' <=> Explored(x)
         /\ \A x : Queued(x)' <=> Queued(x)
         /\ \A x : CanLand(x)' = CanLand(x)
<1>1. /\ Vertices' = Vertices
      /\ \A x : Tails(x)' = Tails(x) /\ EdgesInto(x)' = EdgesInto(x)
  BY DEF Vertices, Tails, EdgesInto
<1>2. \A x, rr : Followed(x, rr)' <=> Followed(x, rr)
  BY DEF Followed, Pending, Tails
<1>3. \A x : Explored(x)' <=> Explored(x)
  BY <1>2 DEF Explored
<1>4. \A x : Queued(x)' <=> Queued(x)
  BY DEF Queued
<1>5. \A x : CanLand(x)' = CanLand(x)
  BY DEF CanLand
<1> QED BY <1>1, <1>2, <1>3, <1>4, <1>5

LEMMA NextCases ==
  ASSUME [Next]_vars
  PROVE  \/ Quiet
         \/ FetchReviewRequest \/ CheckApproval \/ VisitHead
         \/ (\E rr \in links : FollowLink(rr)) \/ GraphBuilt \/ SortStep
         \/ UNCHANGED vars
BY DEF Next, Command, Quiet

(* The same steps as seen by toposort *)
LEMMA SortFrame ==
  ASSUME FetchReviewRequest \/ CheckApproval \/ VisitHead \/ GraphBuilt
  PROVE  UNCHANGED <<graph, indegrees, heads, order, sorting, setup>>
<1>1. CASE FetchReviewRequest BY <1>1 DEF FetchReviewRequest, sortVars
<1>2. CASE CheckApproval      BY <1>2 DEF CheckApproval, sortVars
<1>3. CASE VisitHead          BY <1>3 DEF VisitHead, sortVars
<1>4. CASE GraphBuilt         BY <1>4 DEF GraphBuilt, sortVars
<1> QED BY <1>1, <1>2, <1>3, <1>4

-----------------------------------------------------------------------------
LEMMA InitOK == Init => IInv
<1> SUFFICES ASSUME Init PROVE IInv
  OBVIOUS
<1>1. SortInv
  BY SortInitOK DEF Init
<1>2. pc = "options" /\ unvisited = <<>> /\ links = {} /\ sorting = "idle"
      /\ graph = NoEdges /\ order = <<>> /\ landed = <<>> /\ to_land = <<>>
      /\ fetched = [x \in Resource |-> None] /\ visited = {}
      /\ setup \in Setups /\ standing = setup.standing
  BY DEF Init, SortInit
<1>3. GraphTypeOK
  BY <1>2, SetupFields DEF GraphTypeOK, Stages
<1>4. StageOK /\ GraphOK
  BY <1>2 DEF StageOK, GraphOK, Early, Cleared
<1>5. OneSource
  BY <1>2 DEF OneSource, EdgesInto, Vertices, NoEdges
<1>6. LandingOK
  BY <1>2 DEF LandingOK, DepCount, Early
<1>7. ~TreeTouched
  BY DEF Init, TreeTouched
<1>8. TreeOK
  BY <1>2, <1>7 DEF TreeOK, Cleared
<1> QED BY <1>1, <1>3, <1>4, <1>5, <1>6, <1>8 DEF IInv
-----------------------------------------------------------------------------
(* What building the graph does to it *)

LEMMA VisitHeadEffect ==
  ASSUME GraphTypeOK, StageOK, VisitHead
  PROVE  LET head == Head(unvisited) IN
         /\ pc = "graph" /\ pc' = "graph"
         /\ links = {} /\ unvisited # <<>> /\ head \in Resource
         /\ links' = setup.depends_on[Id(head)] /\ links' \subseteq ReviewRequest
         /\ visited' = visited \cup {Url(head)}
         /\ unvisited' = IF links' = {} THEN Tail(unvisited) ELSE unvisited
         /\ UNCHANGED <<graph, indegrees, heads, order, sorting, setup,
                        fetched, standing, to_land, landed>>
<1> DEFINE head == Head(unvisited)
<1>1. head \in Resource
  BY HeadTailProperties DEF GraphTypeOK, VisitHead
<1>2. head \notin visited
  BY <1>1, NotVisited DEF GraphTypeOK
<1>3. setup.depends_on[Id(head)] \subseteq ReviewRequest
  BY <1>1, Resources, SetupFields DEF GraphTypeOK
<1> QED
  BY <1>1, <1>2, <1>3 DEF VisitHead, sortVars, graphVars, serverVars

LEMMA FollowLinkEffect ==
  ASSUME GraphTypeOK, StageOK, NEW rr \in links, FollowLink(rr)
  PROVE  LET head == Head(unvisited)
             tail == Linked(rr)
             rest == IF links = {rr} THEN Tail(unvisited) ELSE unvisited
         IN
         /\ pc = "graph" /\ unvisited # <<>> /\ head \in Resource
         /\ rr \in ReviewRequest
         /\ UNCHANGED <<indegrees, heads, order, sorting, setup, standing,
                        visited, to_land, landed>>
         /\ fetched' = fetched \/
              (fetched[tail] = None /\
               fetched' = [fetched EXCEPT ![tail] = standing[rr]])
         /\ \/ pc' = "failed" /\ UNCHANGED <<unvisited, links, graph>>
            \/ /\ pc' = "graph"
               /\ fetched'[tail] # None
               /\ links' = links \ {rr}
               /\ \/ /\ Pending(rr)'
                     /\ graph' = [v \in DOMAIN graph \cup {head} |->
                          IF v = head THEN Tails(head) \cup {tail}
                                      ELSE graph[v]]
                     /\ unvisited' = Append(rest, tail)
                  \/ /\ ~Pending(rr)'
                     /\ graph' = graph
                     /\ unvisited' = rest
<1> DEFINE head == Head(unvisited)
           tail == Linked(rr)
<1>1. pc = "graph" /\ unvisited # <<>> /\ head \in Resource
  BY HeadTailProperties DEF GraphTypeOK, StageOK, FollowLink
<1>2. rr \in ReviewRequest
  BY DEF GraphTypeOK
<1>3. fetched'[tail] # None => (InGraph(tail) <=> Pending(rr)')
  BY DEF InGraph, Pending
<1>4. /\ UNCHANGED <<indegrees, heads, order, sorting, setup, standing,
                     visited, to_land, landed>>
      /\ fetched' = fetched \/
           (fetched[tail] = None /\
            fetched' = [fetched EXCEPT ![tail] = standing[rr]])
  BY DEF FollowLink, serverVars
<1>5. \/ pc' = "failed" /\ UNCHANGED <<unvisited, links, graph>>
      \/ /\ pc' = pc
         /\ fetched'[tail] # None
         /\ links' = links \ {rr}
         /\ graph' = IF InGraph(tail)
                       THEN [v \in DOMAIN graph \cup {head} |->
                              IF v = head THEN Tails(head) \cup {tail}
                                          ELSE graph[v]]
                       ELSE graph
         /\ unvisited' = IF InGraph(tail)
              THEN Append(IF links = {rr} THEN Tail(unvisited)
                                          ELSE unvisited, tail)
              ELSE IF links = {rr} THEN Tail(unvisited) ELSE unvisited
  BY DEF FollowLink, Abort, Goto
<1> QED BY <1>1, <1>2, <1>3, <1>4, <1>5

-----------------------------------------------------------------------------
LEMMA GraphTypeStep ==
  ASSUME IInv, [Next]_vars
  PROVE  GraphTypeOK'
<1> USE DEF GraphTypeOK, Stages, Goto, Abort
<1>0. GraphTypeOK /\ StageOK
  BY DEF IInv
<1>1. CASE Quiet
  <2>1. standing' \in [ReviewRequest -> Standing]
    <3>1. CASE ServerChanges
      <4>1. ASSUME NEW rr \in ReviewRequest
            PROVE  /\ standing[rr] \in Standing
                   /\ [standing[rr] EXCEPT !.approved = ~@] \in Standing
                   /\ [standing[rr] EXCEPT !.submitted = ~@] \in Standing
        BY <1>0 DEF Standing
      <4> QED BY <3>1, <4>1, <1>0 DEF ServerChanges
    <3>2. CASE ~ServerChanges
      <4>1. standing' = standing
        BY <1>1, <3>2 DEF Quiet, CheckOptions, SortReturns, CheckDependencies,
             LandDependency, DependenciesLanded, LandReviewRequest, Checkout,
             Merge, Commit, DeleteBranch, GitFails, StartPush, Pull, Push,
             serverVars
      <4> QED BY <4>1, <1>0
    <3> QED BY <3>1, <3>2
  <2>2. pc' \in Stages
    BY <1>0, <1>1, QuietMoves DEF Moves, Cleared, IInv, SortInv, SortTypeOK
  <2> QED BY <1>0, <1>1, <2>1, <2>2, QuietFrame
<1>2. CASE FetchReviewRequest
  BY <1>0, <1>2, SetupFields, LandAssumption
     DEF FetchReviewRequest, sortVars, serverVars
<1>3. CASE CheckApproval
  <2>1. unvisited' \in {unvisited, <<Self>>} /\ pc' \in Stages
    BY <1>3 DEF CheckApproval
  <2>2. <<Self>> \in Seq(Resource)
    BY Resources
  <2>3. UNCHANGED <<setup, standing, fetched, visited, links>>
    BY <1>3 DEF CheckApproval, serverVars
  <2> QED BY <1>0, <2>1, <2>2, <2>3
<1>4. CASE VisitHead
  <2>1. Tail(unvisited) \in Seq(Resource)
    BY <1>0, <1>4, VisitHeadEffect, HeadTailProperties
  <2> QED BY <2>1, <1>0, <1>4, VisitHeadEffect
<1>5. ASSUME NEW rr \in links, FollowLink(rr) PROVE GraphTypeOK'
  <2> DEFINE tail == Linked(rr)
             rest == IF links = {rr} THEN Tail(unvisited) ELSE unvisited
  <2>1. tail \in Resource /\ unvisited # <<>>
    BY <1>0, <1>5, FollowLinkEffect, Resources
  <2>2. rest \in Seq(Resource)
    BY <1>0, <2>1, HeadTailProperties
  <2>3. Append(rest, tail) \in Seq(Resource)
    BY <2>1, <2>2
  <2>4. unvisited' \in Seq(Resource)
    BY <1>0, <1>5, <2>2, <2>3, FollowLinkEffect
  <2>5. /\ DOMAIN fetched' = Resource
        /\ \A x \in Resource : fetched'[x] # None => fetched'[x] \in Standing
    BY <1>0, <1>5, <2>1, FollowLinkEffect
  <2> QED BY <1>0, <1>5, <2>4, <2>5, FollowLinkEffect
<1>6. CASE GraphBuilt
  BY <1>0, <1>6 DEF GraphBuilt, sortVars, graphVars, serverVars
<1>7. CASE SortStep
  BY <1>0, <1>7 DEF SortStep, landVars, graphVars, serverVars
<1>8. CASE UNCHANGED vars
  BY <1>0, <1>8 DEF vars, landVars, graphVars, serverVars
<1> QED
  BY <1>1, <1>2, <1>3, <1>4, <1>5, <1>6, <1>7, <1>8, NextCases

LEMMA StageStep ==
  ASSUME IInv, [Next]_vars
  PROVE  StageOK'
<1> USE DEF StageOK, Goto, Abort, Early, Cleared
<1>0. GraphTypeOK /\ StageOK /\ SortTypeOK
  BY DEF IInv, SortInv
<1>1. CASE Quiet
  BY <1>0, <1>1, QuietFrame, QuietMoves DEF Moves, SortTypeOK
<1>2. CASE FetchReviewRequest
  BY <1>0, <1>2, SortFrame DEF FetchReviewRequest
<1>3. CASE CheckApproval
  BY <1>0, <1>3, SortFrame DEF CheckApproval
<1>4. CASE VisitHead
  BY <1>0, <1>4, VisitHeadEffect
<1>5. ASSUME NEW rr \in links, FollowLink(rr) PROVE StageOK'
  <2>1. links' # {} => unvisited' # <<>>
    <3>1. CASE UNCHANGED <<unvisited, links>>
      BY <3>1, <1>0, <1>5, FollowLinkEffect
    <3>2. CASE links' = links \ {rr} /\ links # {rr}
      <4>1. unvisited \in Seq(Resource) /\ unvisited # <<>> /\ rr \in ReviewRequest
        BY <1>0, <1>5, FollowLinkEffect DEF GraphTypeOK
      <4>2. Append(unvisited, Linked(rr)) # <<>>
        BY <4>1, Resources, AppendProperties
      <4> QED BY <3>2, <4>1, <4>2, <1>0, <1>5, FollowLinkEffect
    <3> QED BY <3>1, <3>2, <1>0, <1>5, FollowLinkEffect
  <2> QED BY <2>1, <1>0, <1>5, FollowLinkEffect
<1>6. CASE GraphBuilt
  BY <1>0, <1>6, SortFrame DEF GraphBuilt
<1>7. CASE SortStep
  BY <1>0, <1>7 DEF SortStep, landVars, graphVars, Sort, CountIndegrees,
                    PopHead, Finish
<1>8. CASE UNCHANGED vars
  BY <1>0, <1>8 DEF vars, sortVars, landVars, graphVars
<1> QED
  BY <1>1, <1>2, <1>3, <1>4, <1>5, <1>6, <1>7, <1>8, NextCases
LEMMA GraphStep ==
  ASSUME IInv, [Next]_vars
  PROVE  GraphOK'
<1>0. GraphTypeOK /\ StageOK /\ SortTypeOK /\ GraphOK
  BY DEF IInv, SortInv
<1>1. CASE Quiet
  <2>1. UNCHANGED <<graph, setup, fetched, unvisited, links, sorting>>
    BY <1>1, QuietFrame
  <2>2. pc' = "graph" => pc = "graph"
    BY <1>1, <1>0, QuietMoves DEF Moves, Cleared, SortTypeOK
  <2>3. pc' = "sort" => pc = "sort"
    BY <1>1, <1>0, QuietMoves DEF Moves, Cleared, SortTypeOK
  <2> QED BY <1>0, <2>1, <2>2, <2>3, GraphFrame DEF GraphOK
<1>2. CASE FetchReviewRequest
  BY <1>0, <1>2, SortFrame
     DEF FetchReviewRequest, GraphOK, StageOK, Early, Goto, Abort
<1>3. CASE CheckApproval
  <2>1. /\ sorting = "idle" /\ sorting' = "idle" /\ pc' # "sort"
        /\ graph' = NoEdges /\ links' = {}
        /\ pc' = "graph" => unvisited' = <<Self>>
    BY <1>0, <1>3, SortFrame
       DEF CheckApproval, StageOK, Early, Goto, Abort
  <2>2. Vertices' = {}
    BY <2>1 DEF Vertices, NoEdges
  <2>3. pc' = "graph" => Queued(Self)'
    BY <2>1 DEF Queued
  <2> QED BY <2>1, <2>2, <2>3 DEF GraphOK
<1>4. CASE VisitHead
  <2>0. PICK head : head = Head(unvisited)
    OBVIOUS
  <2>1. /\ pc = "graph" /\ pc' = "graph" /\ sorting = "idle"
        /\ unvisited # <<>> /\ unvisited \in Seq(Resource)
        /\ links' = setup.depends_on[Id(head)]
        /\ unvisited' = IF links' = {} THEN Tail(unvisited) ELSE unvisited
        /\ UNCHANGED <<graph, setup, fetched, sorting>>
    BY <1>0, <1>4, <2>0, VisitHeadEffect DEF GraphTypeOK, StageOK
  <2>2. /\ Vertices' = Vertices
        /\ \A x : Tails(x)' = Tails(x)
        /\ \A x, rr : Followed(x, rr)' <=> Followed(x, rr)
    BY <2>1 DEF Vertices, Tails, Followed, Pending
  <2>3. \A x : Explored(x)' <=> Explored(x)
    BY <2>1, <2>2 DEF Explored
  <2>4. CASE links' # {}
    <3>1. \A x : Queued(x)' <=> Queued(x)
      BY <2>1, <2>4 DEF Queued
    <3> QED BY <2>0, <2>1, <2>2, <2>3, <2>4, <3>1, <1>0 DEF GraphOK
  <2>5. CASE links' = {}
    <3>1. Explored(head)'
      BY <2>1, <2>3, <2>5 DEF Explored
    <3>2. \A x : Queued(x) => x = head \/ Queued(x)'
      BY <2>0, <2>1, <2>5, HeadOrTail DEF Queued
    <3> QED BY <2>1, <2>2, <2>3, <2>5, <3>1, <3>2, <1>0 DEF GraphOK
  <2> QED BY <2>4, <2>5
<1>5. ASSUME NEW rr \in links, FollowLink(rr) PROVE GraphOK'
  <2>0. PICK head : head = Head(unvisited)
    OBVIOUS
  <2> DEFINE tail == Linked(rr)
             rest == IF links = {rr} THEN Tail(unvisited) ELSE unvisited
  <2>1. /\ pc = "graph" /\ unvisited # <<>> /\ unvisited \in Seq(Resource)
        /\ head \in Resource /\ rr \in ReviewRequest /\ tail \in Resource
        /\ sorting = "idle" /\ sorting' = "idle" /\ setup' = setup
        /\ DOMAIN fetched = Resource
        /\ fetched' = fetched \/
             (fetched[tail] = None /\
              fetched' = [fetched EXCEPT ![tail] = standing[rr]])
    BY <1>0, <1>5, <2>0, FollowLinkEffect, Resources
       DEF GraphTypeOK, StageOK
  <2>2. CASE pc' = "failed"
    BY <2>1, <2>2 DEF GraphOK
  <2>3. CASE pc' # "failed"
    <3>1. /\ pc' = "graph" /\ fetched'[tail] # None /\ links' = links \ {rr}
          /\ \/ /\ Pending(rr)'
                /\ graph' = [v \in DOMAIN graph \cup {head} |->
                     IF v = head THEN Tails(head) \cup {tail} ELSE graph[v]]
                /\ unvisited' = Append(rest, tail)
             \/ /\ ~Pending(rr)'
                /\ graph' = graph
                /\ unvisited' = rest
      BY <1>0, <1>5, <2>0, <2>3, FollowLinkEffect
    <3>2. \A x : Tails(x) \subseteq Tails(x)'
      BY <3>1 DEF Tails
    <3>3. Pending(rr)' => tail \in Tails(head)'
      BY <3>1 DEF Tails
    <3>4. Followed(head, rr)'
      BY <3>1, <3>3 DEF Followed
    <3>5. \A q \in ReviewRequest : fetched[Linked(q)] # None =>
            fetched'[Linked(q)] = fetched[Linked(q)]
      BY <2>1, Resources
    <3>6. \A x : \A q \in ReviewRequest : Followed(x, q) => Followed(x, q)'
      BY <3>2, <3>5 DEF Followed, Pending
    <3>7. \A x \in Resource : setup.depends_on[Id(x)] \subseteq ReviewRequest
      BY <1>0, Resources, SetupFields DEF GraphTypeOK
    <3>8. \A x \in Resource : Explored(x) => Explored(x)'
      BY <2>1, <3>6, <3>7 DEF Explored
    <3>9. \A q \in setup.depends_on[Id(head)] \ links' : Followed(head, q)'
      <4>1. \A q \in setup.depends_on[Id(head)] \ links : Followed(head, q)
        BY <1>0, <2>0, <2>1, <1>5 DEF GraphOK
      <4> QED BY <4>1, <3>1, <3>4, <3>6, <3>7, <2>1
    <3>10. rest \in Seq(Resource)
      BY <2>1, HeadTailProperties
    <3>11. /\ Len(rest) \in Nat
           /\ \A i \in 1..Len(rest) : unvisited'[i] = rest[i]
           /\ Len(unvisited') >= Len(rest) /\ Len(unvisited') \in Nat
      BY <3>1, <3>10, <2>1, AppendProperties
    <3>12. Pending(rr)' => Queued(tail)'
      <4>1. /\ Len(Append(rest, tail)) = Len(rest) + 1
            /\ Append(rest, tail)[Len(rest) + 1] = tail
        BY <3>10, <2>1, AppendProperties
      <4> QED BY <4>1, <3>1, <3>11 DEF Queued
    <3>13. \A x : Queued(x) => Queued(x)' \/ (x = head /\ links = {rr})
      <4>1. CASE links = {rr}
        <5>1. \A x : Queued(x) =>
                x = head \/ \E i \in 1..Len(rest) : rest[i] = x
          BY <4>1, <2>0, <2>1, HeadOrTail DEF Queued
        <5>2. \A i \in 1..Len(rest) :
                i \in 1..Len(unvisited') /\ unvisited'[i] = rest[i]
          BY <3>11
        <5>3. ASSUME NEW x, NEW i \in 1..Len(rest), rest[i] = x
              PROVE  Queued(x)'
          BY <5>2, <5>3 DEF Queued
        <5> QED BY <5>1, <5>3, <4>1
      <4>2. CASE links # {rr}
        BY <4>2, <3>11 DEF Queued
      <4> QED BY <4>1, <4>2
    <3>14. links = {rr} => Explored(head)'
      BY <3>1, <3>9, <2>1 DEF Explored
    <3>15. /\ Vertices' \subseteq Vertices \cup {head, tail}
           /\ tail \in Vertices' => tail \in Vertices \/ Pending(rr)'
      BY <3>1 DEF Vertices, Tails
    <3>16. Vertices \subseteq Resource /\ Self \in Resource
      BY <1>0, VerticesInVertex, Resources DEF SortTypeOK
    <3>17. Queued(head)
      BY <2>0, <2>1, HeadTailProperties DEF Queued
    <3>18. \A x \in {Self} \cup Vertices' : Explored(x)' \/ Queued(x)'
      <4> SUFFICES ASSUME NEW x \in {Self} \cup Vertices'
                   PROVE  Explored(x)' \/ Queued(x)'
        OBVIOUS
      <4>1. CASE x \in {Self} \cup Vertices
        <5>1. Explored(x) \/ Queued(x)
          BY <4>1, <1>0, <2>1 DEF GraphOK
        <5> QED BY <5>1, <4>1, <3>8, <3>13, <3>14, <3>16
      <4>2. CASE x = head
        BY <4>2, <3>13, <3>14, <3>17
      <4>3. CASE x = tail /\ x \notin {Self} \cup Vertices
        BY <4>3, <3>12, <3>15
      <4> QED BY <4>1, <4>2, <4>3, <3>15
    <3>19. links' # {} => Head(unvisited') = head
      <4> SUFFICES ASSUME links' # {} PROVE Head(unvisited') = head
        OBVIOUS
      <4>1. rest = unvisited /\ Len(unvisited) >= 1
        BY <3>1, <2>1
      <4>2. Head(Append(unvisited, tail)) = Head(unvisited)
        BY <2>1, HeadTailAppend
      <4> QED BY <4>1, <4>2, <3>1, <2>0
    <3> QED BY <3>1, <3>9, <3>18, <3>19, <2>1 DEF GraphOK
  <2> QED BY <2>2, <2>3
<1>6. CASE GraphBuilt
  <2>1. /\ pc = "graph" /\ pc' = "sort" /\ unvisited = <<>>
        /\ UNCHANGED <<graph, setup, fetched, unvisited, links, sorting>>
    BY <1>6 DEF GraphBuilt, sortVars, graphVars, Goto
  <2>2. \A x : ~Queued(x)
    BY <2>1 DEF Queued
  <2> QED BY <1>0, <2>1, <2>2, GraphFrame DEF GraphOK
<1>7. CASE SortStep
  <2>1. pc = "sort"
        /\ UNCHANGED <<graph, pc, setup, fetched, unvisited, links>>
    BY <1>7 DEF SortStep, landVars, graphVars, Sort, CountIndegrees,
                PopHead, Finish
  <2> QED BY <1>0, <2>1, GraphFrame DEF GraphOK
<1>8. CASE UNCHANGED vars
  <2>1. UNCHANGED <<graph, pc, setup, fetched, unvisited, links, sorting>>
    BY <1>8 DEF vars, sortVars, landVars, graphVars
  <2> QED BY <1>0, <2>1, GraphFrame DEF GraphOK
<1> QED
  BY <1>1, <1>2, <1>3, <1>4, <1>5, <1>6, <1>7, <1>8, NextCases
-----------------------------------------------------------------------------
(* Every step of the command is one of toposort, of its caller, or stutters *)
LEMMA StepsSort ==
  ASSUME IInv, [Next]_vars
  PROVE  [BuildGraph \/ Sort]_sortVars
<1>0. GraphTypeOK /\ StageOK /\ SortTypeOK
  BY DEF IInv, SortInv
<1>1. CASE Quiet
  BY <1>1, QuietFrame DEF sortVars
<1>2. CASE FetchReviewRequest \/ CheckApproval \/ VisitHead \/ GraphBuilt
  BY <1>2, SortFrame DEF sortVars
<1>3. ASSUME NEW rr \in links, FollowLink(rr)
      PROVE  [BuildGraph \/ Sort]_sortVars
  <2>1. /\ sorting = "idle"
        /\ UNCHANGED <<indegrees, heads, order, sorting>>
        /\ Head(unvisited) \in Vertex /\ Linked(rr) \in Vertex
    BY <1>0, <1>3, FollowLinkEffect, Resources DEF StageOK
  <2>2. IsGraph(graph')
    <3>1. IsGraph(graph) /\ Tails(Head(unvisited)) \subseteq Vertex
      BY <1>0 DEF SortTypeOK, IsGraph, Tails
    <3>2. CASE graph' = graph
      BY <3>1, <3>2
    <3>3. CASE graph' # graph
      <4>1. graph' = [v \in DOMAIN graph \cup {Head(unvisited)} |->
                 IF v = Head(unvisited)
                   THEN Tails(Head(unvisited)) \cup {Linked(rr)}
                   ELSE graph[v]]
        BY <1>0, <1>3, <3>3, FollowLinkEffect
      <4> QED BY <2>1, <3>1, <4>1 DEF IsGraph
    <3> QED BY <3>2, <3>3
  <2> QED BY <2>1, <2>2 DEF BuildGraph
<1>4. CASE SortStep
  BY <1>4 DEF SortStep
<1>5. CASE UNCHANGED vars
  BY <1>5 DEF vars
<1> QED BY <1>1, <1>2, <1>3, <1>4, <1>5, NextCases

LEMMA SourceStep ==
  ASSUME IInv, [Next]_vars
  PROVE  OneSource'
<1>0. GraphTypeOK /\ StageOK /\ SortTypeOK /\ OneSource
  BY DEF IInv, SortInv
<1>1. ASSUME UNCHANGED <<graph, order>>,
             \A i \in 1..Len(unvisited') :
               \/ unvisited'[i] = Self
               \/ \E j \in 1..Len(unvisited) : unvisited'[i] = unvisited[j]
      PROVE  OneSource'
  <2>1. Vertices' = Vertices /\ \A x : EdgesInto(x)' = EdgesInto(x)
    BY <1>1 DEF Vertices, EdgesInto
  <2>2. \A i \in 1..Len(unvisited') :
          unvisited'[i] # Self => EdgesInto(unvisited'[i]) # {}
    BY <1>0, <1>1 DEF OneSource
  <2>3. \A i \in 1..Len(unvisited') :
          unvisited'[i] # Self => EdgesInto(unvisited[i])' # {}
    BY <2>2, <1>1 DEF EdgesInto
  <2> QED BY <1>0, <1>1, <2>1, <2>3 DEF OneSource
<1>2. CASE UNCHANGED <<graph, order, unvisited>>
  BY <1>1, <1>2
<1>3. CASE CheckApproval
  <2>1. unvisited' = unvisited \/ unvisited' = <<Self>>
    BY <1>3 DEF CheckApproval
  <2> QED BY <1>1, <1>3, <2>1, SortFrame
<1>4. CASE VisitHead
  <2>1. /\ unvisited' = unvisited \/ unvisited' = Tail(unvisited)
        /\ unvisited \in Seq(Resource) /\ unvisited # <<>>
    BY <1>0, <1>4, VisitHeadEffect DEF GraphTypeOK
  <2>2. \A i \in 1..Len(Tail(unvisited)) :
          /\ i + 1 \in 1..Len(unvisited)
          /\ Tail(unvisited)[i] = unvisited[i + 1]
    BY <2>1, HeadTailProperties
  <2> QED BY <1>1, <1>4, <2>1, <2>2, SortFrame
<1>5. ASSUME NEW rr \in links, FollowLink(rr) PROVE OneSource'
  <2>0. PICK head : head = Head(unvisited)
    OBVIOUS
  <2> DEFINE tail == Linked(rr)
             rest == IF links = {rr} THEN Tail(unvisited) ELSE unvisited
  <2>1. /\ unvisited # <<>> /\ unvisited \in Seq(Resource) /\ order' = order
        /\ head \in Resource /\ tail \in Resource /\ tail # Self
    BY <1>0, <1>5, <2>0, FollowLinkEffect, Resources DEF GraphTypeOK
  <2>2. CASE UNCHANGED <<graph, unvisited>>
    BY <1>2, <2>1, <2>2
  <2>3. rest \in Seq(Resource)
        /\ \A i \in 1..Len(rest) :
             \E j \in 1..Len(unvisited) : rest[i] = unvisited[j]
    <3>1. /\ Tail(unvisited) \in Seq(Resource)
          /\ \A i \in 1..Len(Tail(unvisited)) :
               /\ i + 1 \in 1..Len(unvisited)
               /\ Tail(unvisited)[i] = unvisited[i + 1]
      BY <2>1, HeadTailProperties
    <3> QED BY <3>1, <2>1
  <2>4. CASE graph' = graph /\ unvisited' = rest
    BY <1>1, <2>1, <2>3, <2>4
  <2>5. CASE /\ graph' = [v \in DOMAIN graph \cup {head} |->
                   IF v = head THEN Tails(head) \cup {tail} ELSE graph[v]]
             /\ unvisited' = Append(rest, tail)
    <3>1. Vertices' = Vertices \cup {head, tail}
      <4>1. /\ DOMAIN graph' = DOMAIN graph \cup {head}
            /\ tail \in graph'[head]
            /\ \A v \in DOMAIN graph : graph[v] \subseteq graph'[v]
            /\ \A v \in DOMAIN graph' :
                 graph'[v] \subseteq {tail} \cup UNION {graph[u] :
                                                         u \in DOMAIN graph}
        BY <2>5 DEF Tails
      <4>2. Vertices' \subseteq Vertices \cup {head, tail}
        BY <4>1 DEF Vertices
      <4>3. {head, tail} \subseteq Vertices'
        BY <4>1 DEF Vertices
      <4>4. Vertices \subseteq Vertices'
        BY <4>1 DEF Vertices
      <4> QED BY <4>2, <4>3, <4>4
    <3>2. head \in EdgesInto(tail)'
      BY <2>5 DEF EdgesInto
    <3>3. \A x : x # tail => EdgesInto(x)' = EdgesInto(x)
      BY <2>5 DEF EdgesInto, Tails
    <3>4. head # Self => EdgesInto(head)' # {}
      <4>1. unvisited[1] = head /\ 1 \in 1..Len(unvisited)
        BY <2>0, <2>1, HeadTailProperties
      <4>2. head # Self => EdgesInto(head) # {}
        BY <4>1, <1>0 DEF OneSource
      <4> QED BY <4>2, <3>2, <3>3
    <3>5. ASSUME NEW i \in 1..Len(unvisited'), NEW x, unvisited'[i] = x,
                 x # Self
          PROVE  EdgesInto(x)' # {}
      <4>1. CASE x = tail
        BY <4>1, <3>2
      <4>2. CASE x # tail
        <5>1. \E k \in 1..Len(rest) : rest[k] = x
          BY <2>5, <3>5, <4>2, <2>1, <2>3, AppendProperties
        <5>2. \E j \in 1..Len(unvisited) : unvisited[j] = x
          BY <5>1, <2>3
        <5>3. EdgesInto(x) # {}
          BY <5>2, <3>5, <1>0 DEF OneSource
        <5> QED BY <5>3, <4>2, <3>3
      <4> QED BY <4>1, <4>2
    <3>6. \A i \in 1..Len(unvisited') :
            unvisited'[i] # Self => EdgesInto(unvisited[i])' # {}
      BY <3>5
    <3>7. EdgesInto(Self)' = {}
      BY <3>3, <2>1, <1>0 DEF OneSource
    <3>8. \A x \in Vertices' : x # Self => EdgesInto(x)' # {}
      BY <3>1, <3>2, <3>3, <3>4, <1>0 DEF OneSource
    <3> QED BY <3>6, <3>7, <3>8, <2>1, <1>0 DEF OneSource
  <2> QED BY <2>2, <2>4, <2>5, <2>0, <1>0, <1>5, FollowLinkEffect
<1>6. CASE SortStep
  <2>1. UNCHANGED <<graph, unvisited>>
    BY <1>6 DEF SortStep, Sort, CountIndegrees, PopHead, Finish, landVars,
                graphVars
  <2>2. CASE order' = order
    BY <1>2, <2>1, <2>2
  <2>3. ASSUME NEW h \in heads, PopHead(h) PROVE OneSource'
    <3>1. order' = Append(order, h) /\ order \in Seq(Resource)
          /\ sorting = "popping" /\ h \in Resource /\ h \in Vertices
      BY <2>3, <1>0, VerticesInVertex, Resources
         DEF PopHead, SortTypeOK, IInv, SortInv, HeadsAreFree
    <3>2. CASE order = <<>>
      <4>1. Placed = {}
        BY <3>2 DEF Placed
      <4>2. Unplaced(h) = {}
        BY <3>1 DEF IInv, SortInv, HeadsAreFree
      <4>3. EdgesInto(h) = {}
        BY <4>1, <4>2 DEF Unplaced
      <4>4. h = Self
        BY <4>3, <3>1, <1>0 DEF OneSource
      <4> QED BY <4>4, <3>1, <3>2, <2>1, <1>0
              DEF OneSource, EdgesInto, Vertices
    <3>3. CASE order # <<>>
      <4>1. order'[1] = order[1]
        BY <3>1, <3>3
      <4> QED BY <4>1, <3>3, <2>1, <1>0 DEF OneSource, EdgesInto, Vertices
    <3> QED BY <3>2, <3>3
  <2> QED
    BY <1>6, <2>2, <2>3 DEF SortStep, Sort, CountIndegrees, Finish
<1>7. CASE Quiet
  BY <1>2, <1>7, QuietFrame
<1>8. CASE FetchReviewRequest \/ GraphBuilt
  BY <1>2, <1>8, SortFrame DEF FetchReviewRequest, GraphBuilt, graphVars
<1>9. CASE UNCHANGED vars
  BY <1>2, <1>9 DEF vars, sortVars, landVars, graphVars
<1> QED
  BY <1>3, <1>4, <1>5, <1>6, <1>7, <1>8, <1>9, NextCases
-----------------------------------------------------------------------------
(* Landing: the list is the sort without its first vertex, backwards *)

MergeStages == {"report", "checkout", "merge", "commit", "delete"}

LEMMA DepCountType ==
  ASSUME SortTypeOK
  PROVE  DepCount \in Nat /\ Len(order) \in Nat
         /\ (order # <<>> => Len(order) = DepCount + 1)
<1>1. order \in Seq(Vertex) /\ Len(order) \in Nat
  BY DEF SortTypeOK
<1>2. order # <<>> => Len(order) >= 1
  BY <1>1
<1> QED BY <1>1, <1>2 DEF DepCount

(* Steps that report nothing and leave the list alone *)
LEMMA NothingLanded ==
  ASSUME IInv, UNCHANGED <<landed, to_land, order, sorting, setup>>,
         pc' \in Early \cup {"graph", "sort"} =>
           pc \in Early \cup {"graph", "sort"},
         pc' # "approve_all" \/ pc = "approve_all",
         pc' # "land" \/ pc = "land",
         pc' \in MergeStages => pc \in MergeStages \/ Len(landed) = DepCount
  PROVE  LandingOK'
<1>1. DepCount' = DepCount
  BY DEF DepCount
<1> QED BY <1>1 DEF IInv, LandingOK, MergeStages, Early

(* The request itself, once its dependencies are *)
LEMMA RootLanded ==
  ASSUME IInv, UNCHANGED <<to_land, order, sorting, setup>>,
         pc \in MergeStages, pc' = "push", landed' = Append(landed, Root)
  PROVE  LandingOK'
<1>1. DepCount' = DepCount /\ DepCount \in Nat /\ Len(landed) = DepCount
      /\ landed \in Seq(ReviewRequest) /\ Root \in ReviewRequest
  BY DepCountType, LandAssumption
     DEF DepCount, IInv, SortInv, LandingOK, MergeStages
<1>2. /\ landed' \in Seq(ReviewRequest)
      /\ Len(landed') = DepCount + 1
      /\ \A i \in 1..DepCount : landed'[i] = landed[i]
      /\ landed'[DepCount + 1] = Root
  BY <1>1, AppendProperties
<1>3. \A i \in 1..DepCount : landed'[i] = Id(order[Len(order) + 1 - i])
  BY <1>1, <1>2 DEF IInv, LandingOK
<1>4. \A i \in 1..(DepCount + 1) : i <= DepCount \/ i = DepCount + 1
  BY <1>1
<1>5. \A i \in 1..Len(landed') :
        landed'[i] = IF i <= DepCount THEN Id(order[Len(order) + 1 - i])
                                      ELSE Root
  BY <1>1, <1>2, <1>3, <1>4
<1>6. setup.recursive => sorting = "sorted"
  BY DEF IInv, StageOK, MergeStages, Cleared
<1> QED
  BY <1>1, <1>2, <1>5, <1>6 DEF LandingOK, IInv, MergeStages, Early

LEMMA DependencyLanded ==
  ASSUME IInv, LandDependency
  PROVE  LandingOK'
<1> DEFINE dep == Head(to_land)
<1>1. /\ pc = "land" /\ to_land # <<>> /\ to_land' = Tail(to_land)
      /\ UNCHANGED <<order, sorting, setup>>
      /\ \/ landed' = Append(landed, Id(dep)) /\ pc' = "land"
         \/ landed' = landed /\ pc' = "failed"
  BY QuietFrame DEF LandDependency, Report, Patch, Abort, Goto, Quiet
<1>2. /\ DepCount' = DepCount /\ DepCount \in Nat /\ Len(order) \in Nat
      /\ landed \in Seq(ReviewRequest) /\ Len(landed) \in Nat
      /\ to_land \in Seq(Resource)
      /\ Len(landed) + Len(to_land) = DepCount
      /\ \A k \in 1..Len(to_land) :
            to_land[k] = order[Len(order) + 1 - (Len(landed) + k)]
      /\ \A i \in 1..Len(landed) :
           landed[i] = IF i <= DepCount THEN Id(order[Len(order) + 1 - i])
                                        ELSE Root
  BY <1>1, DepCountType DEF DepCount, IInv, SortInv, LandingOK
<1>3. /\ dep \in Resource /\ dep = to_land[1] /\ Len(to_land) >= 1
      /\ Tail(to_land) \in Seq(Resource)
      /\ Len(Tail(to_land)) = Len(to_land) - 1
      /\ \A k \in 1..Len(Tail(to_land)) : Tail(to_land)[k] = to_land[k + 1]
  BY <1>1, <1>2, HeadTailProperties
<1>4. CASE landed' = landed /\ pc' = "failed"
  BY <1>1, <1>2, <1>3, <1>4 DEF LandingOK, IInv, Early
<1>5. CASE landed' = Append(landed, Id(dep)) /\ pc' = "land"
  <2>1. /\ landed' \in Seq(ReviewRequest)
        /\ Len(landed') = Len(landed) + 1
        /\ \A i \in 1..Len(landed) : landed'[i] = landed[i]
        /\ landed'[Len(landed) + 1] = Id(dep)
    BY <1>2, <1>3, <1>5, Resources, AppendProperties
  <2>2. dep = order[Len(order) + 1 - (Len(landed) + 1)]
    BY <1>2, <1>3
  <2>3. \A i \in 1..Len(landed') :
          landed'[i] = IF i <= DepCount THEN Id(order[Len(order) + 1 - i])
                                        ELSE Root
    <3> SUFFICES ASSUME NEW i \in 1..Len(landed')
                 PROVE  landed'[i] = Id(order[Len(order) + 1 - i])
                        /\ i <= DepCount
      OBVIOUS
    <3>1. CASE i = Len(landed) + 1
      BY <3>1, <1>2, <1>3, <2>1, <2>2
    <3>2. CASE i \in 1..Len(landed)
      BY <3>2, <1>2, <1>3, <2>1
    <3> QED BY <3>1, <3>2, <2>1, <1>2
  <2>4. \A k \in 1..Len(to_land') :
          to_land'[k] = order[Len(order) + 1 - (Len(landed') + k)]
    <3> SUFFICES ASSUME NEW k \in 1..Len(to_land')
                 PROVE  to_land'[k] =
                          order[Len(order) + 1 - (Len(landed') + k)]
      OBVIOUS
    <3>1. to_land'[k] = to_land[k + 1] /\ k + 1 \in 1..Len(to_land)
      BY <1>1, <1>3
    <3>2. Len(landed) + (k + 1) = Len(landed') + k
      BY <1>2, <2>1
    <3> QED BY <3>1, <3>2, <1>2
  <2>5. setup.recursive => sorting = "sorted"
    BY <1>1 DEF IInv, StageOK, Cleared
  <2> QED
    BY <1>1, <1>2, <1>3, <1>5, <2>1, <2>3, <2>4, <2>5 DEF LandingOK, Early
<1> QED BY <1>1, <1>4, <1>5

LEMMA LandingStep ==
  ASSUME IInv, [Next]_vars
  PROVE  LandingOK'
<1> USE DEF Goto, Abort, sortVars, MergeStages, Early
<1>0. GraphTypeOK /\ StageOK /\ SortTypeOK /\ LandingOK
  BY DEF IInv, SortInv
<1>1. CASE CheckOptions
  BY <1>1, NothingLanded DEF CheckOptions
<1>2. CASE FetchReviewRequest
  BY <1>2, NothingLanded DEF FetchReviewRequest
<1>3. CASE CheckApproval
  <2>1. pc = "approve" /\ UNCHANGED <<landed, to_land, order, sorting, setup>>
        /\ pc' \in {"failed", "graph", "report"}
    BY <1>3 DEF CheckApproval
  <2>2. landed = <<>> /\ order = <<>>
    BY <2>1, <1>0 DEF LandingOK, StageOK, SortTypeOK
  <2>3. Len(landed) = DepCount
    BY <2>2 DEF DepCount
  <2> QED BY <2>1, <2>3, NothingLanded
<1>4. CASE VisitHead
  BY <1>4, <1>0, VisitHeadEffect, NothingLanded
<1>5. ASSUME NEW rr \in links, FollowLink(rr) PROVE LandingOK'
  BY <1>5, <1>0, FollowLinkEffect, NothingLanded
<1>6. CASE GraphBuilt
  BY <1>6, NothingLanded DEF GraphBuilt
<1>7. CASE SortStep
  <2>1. pc = "sort" /\ UNCHANGED <<pc, landed, to_land, setup>>
    BY <1>7 DEF SortStep, landVars
  <2>2. landed = <<>>
    BY <2>1, <1>0 DEF LandingOK
  <2>3. SortTypeOK'
    BY StepsSort, SortStepOK, ResourceFinite DEF IInv, SortInv
  <2>4. 0 <= DepCount' + 1
    <3>1. order' \in Seq(Vertex)
      BY <2>3 DEF SortTypeOK
    <3>2. Len(order') \in Nat /\ (order' # <<>> => Len(order') >= 1)
      BY <3>1
    <3> QED BY <3>2 DEF DepCount
  <2>5. /\ landed' = <<>> /\ Len(landed') = 0
        /\ landed' \in Seq(ReviewRequest) /\ to_land' \in Seq(Resource)
    BY <2>1, <2>2, <1>0 DEF LandingOK
  <2>6. \A i \in 1..Len(landed') : FALSE
    BY <2>5
  <2>8. \A i \in 1..Len(landed') :
          landed'[i] = IF i <= DepCount' THEN Id(order'[Len(order') + 1 - i])
                                         ELSE Root
    BY <2>6
  <2>9. pc' = "sort"
    BY <2>1
  <2> HIDE DEF Early
  <2> QED BY <2>4, <2>5, <2>8, <2>9 DEF LandingOK
<1>8. CASE SortReturns
  <2>1. CASE pc' = "failed"
    BY <1>8, <2>1, NothingLanded DEF SortReturns
  <2>2. CASE pc' # "failed"
    <3>1. /\ pc = "sort" /\ pc' = "approve_all"
          /\ UNCHANGED <<landed, order, sorting, setup>>
          /\ to_land' = SubSeq(order, 2, Len(order))
      BY <1>8, <2>2 DEF SortReturns
    <3>2. order \in Seq(Resource) /\ landed = <<>>
      BY <3>1, <1>0, Resources DEF SortTypeOK, LandingOK
    <3>3. to_land' \in Seq(Resource)
      BY <3>1, <3>2, SubSeqProperties
    <3>4. DepCount' = DepCount
      BY <3>1 DEF DepCount
    <3> QED BY <3>1, <3>2, <3>3, <3>4, <1>0 DEF LandingOK
  <2> QED BY <2>1, <2>2
<1>9. CASE CheckDependencies
  <2>1. CASE pc' = "failed"
    BY <1>9, <2>1, NothingLanded DEF CheckDependencies
  <2>2. CASE pc' # "failed"
    <3>1. /\ pc = "approve_all" /\ pc' = "land"
          /\ UNCHANGED <<landed, order, sorting, setup>>
          /\ to_land' = Reverse(to_land)
      BY <1>9, <2>2 DEF CheckDependencies
    <3>2. /\ order \in Seq(Resource) /\ landed = <<>> /\ Len(order) \in Nat
          /\ to_land = SubSeq(order, 2, Len(order))
          /\ DepCount' = DepCount /\ DepCount \in Nat
          /\ order # <<>> => Len(order) = DepCount + 1
      BY <3>1, <1>0, Resources, DepCountType
         DEF SortTypeOK, LandingOK, DepCount
    <3>3. /\ to_land \in Seq(Resource) /\ Len(to_land) = DepCount
          /\ \A i \in 1..DepCount : to_land[i] = order[i + 1]
      <4>1. /\ Len(to_land) = IF 2 <= Len(order) THEN Len(order) - 1 ELSE 0
            /\ \A i \in 1..(Len(order) - 1) : to_land[i] = order[i + 1]
        BY <3>2
      <4>2. order = <<>> => DepCount = 0 /\ Len(order) = 0
        BY DEF DepCount
      <4> QED BY <4>1, <4>2, <3>2, <1>0 DEF LandingOK
    <3>4. to_land' = [i \in 1..DepCount |-> to_land[(DepCount - i) + 1]]
      BY <3>1, <3>3 DEF Reverse
    <3>5. /\ to_land' \in Seq(Resource) /\ Len(to_land') = DepCount
          /\ \A k \in 1..DepCount : to_land'[k] = order[DepCount + 2 - k]
      <4>1. \A k \in 1..DepCount :
              /\ (DepCount - k) + 1 \in 1..DepCount
              /\ to_land[(DepCount - k) + 1] = order[((DepCount - k) + 1) + 1]
              /\ ((DepCount - k) + 1) + 1 = DepCount + 2 - k
        BY <3>2, <3>3
      <4>2. \A k \in 1..DepCount : to_land[(DepCount - k) + 1] \in Resource
        BY <3>3, <4>1
      <4>3. to_land' \in [1..DepCount -> Resource]
        BY <3>4, <4>2
      <4>4. to_land' \in Seq(Resource) /\ Len(to_land') = DepCount
        BY <4>3, <3>2
      <4>5. \A k \in 1..DepCount : to_land'[k] = order[DepCount + 2 - k]
        BY <3>4, <4>1
      <4> QED BY <4>4, <4>5
    <3>6. ASSUME NEW k \in 1..DepCount
          PROVE  DepCount + 2 - k = Len(order') + 1 - (Len(landed') + k)
      <4>1. DepCount # 0
        BY <3>2, <3>6
      <4>2. Len(order) = DepCount + 1 /\ Len(landed') = 0 /\ order' = order
        BY <4>1, <3>1, <3>2 DEF DepCount
      <4> QED BY <4>2, <3>2
    <3>7. Len(landed') = 0
      BY <3>1, <3>2
    <3>8. \A k \in 1..Len(to_land') :
            to_land'[k] = order'[Len(order') + 1 - (Len(landed') + k)]
      BY <3>1, <3>5, <3>6
    <3> QED BY <3>1, <3>2, <3>5, <3>7, <3>8, <1>0 DEF LandingOK
  <2> QED BY <2>1, <2>2
<1>10. CASE LandDependency
  BY <1>10, DependencyLanded
<1>11. CASE DependenciesLanded
  <2>1. /\ pc = "land" /\ to_land = <<>> /\ pc' = "report"
        /\ UNCHANGED <<landed, to_land, order, sorting, setup>>
    BY <1>11 DEF DependenciesLanded
  <2>2. Len(landed) = DepCount
    <3>1. Len(landed) \in Nat /\ Len(to_land) = 0
          /\ Len(landed) + Len(to_land) = DepCount
      BY <2>1, <1>0 DEF LandingOK
    <3> QED BY <3>1
  <2> QED BY <2>1, <2>2, NothingLanded
<1>12. CASE LandReviewRequest
  <2>1. CASE landed' = landed
    <3>1. pc = "report" /\ pc' \in {"failed", "checkout", "push"}
          /\ UNCHANGED <<to_land, order, sorting, setup>>
      BY <1>12 DEF LandReviewRequest
    <3> QED BY <2>1, <3>1, NothingLanded
  <2>2. CASE landed' # landed
    <3>1. pc = "report" /\ pc' = "push" /\ landed' = Append(landed, Root)
          /\ UNCHANGED <<to_land, order, sorting, setup>>
      BY <1>12, <2>2 DEF LandReviewRequest
    <3> QED BY <3>1, RootLanded
  <2> QED BY <2>1, <2>2
<1>13. CASE Checkout
  BY <1>13, NothingLanded DEF Checkout
<1>14. CASE Merge
  BY <1>14, NothingLanded DEF Merge
<1>15. CASE Commit
  <2>1. CASE setup.delete_branch
    BY <1>15, <2>1, NothingLanded DEF Commit
  <2>2. CASE ~setup.delete_branch
    BY <1>15, <2>2, RootLanded DEF Commit, LandedByMerge
  <2> QED BY <2>1, <2>2
<1>16. CASE DeleteBranch
  BY <1>16, RootLanded DEF DeleteBranch, LandedByMerge
<1>17. CASE GitFails
  BY <1>17, NothingLanded DEF GitFails
<1>18. CASE StartPush
  BY <1>18, NothingLanded DEF StartPush
<1>19. CASE Pull
  BY <1>19, NothingLanded DEF Pull
<1>20. CASE Push
  BY <1>20, NothingLanded DEF Push
<1>21. CASE ServerChanges
  BY <1>21, NothingLanded DEF ServerChanges
<1>22. CASE UNCHANGED vars
  BY <1>22, NothingLanded DEF vars, landVars
<1> QED
  BY <1>1, <1>2, <1>3, <1>4, <1>5, <1>6, <1>7, <1>8, <1>9, <1>10, <1>11,
     <1>12, <1>13, <1>14, <1>15, <1>16, <1>17, <1>18, <1>19, <1>20, <1>21,
     <1>22, NextCases DEF Quiet
-----------------------------------------------------------------------------
(* The tree: touched only by a cleared command that is not a dry run *)

GitStages == {"checkout", "merge", "commit", "delete", "pull", "upload"}
Checks == {"graph", "sort", "approve_all"}

LEMMA TreeKept ==
  ASSUME IInv, UNCHANGED <<contents, current, clean, setup, fetched, order,
                           sorting>>,
         pc' \in Checks => CanLand(Self),
         pc' \in Early \cup Checks => pc \in Early \cup Checks,
         pc' \in Cleared => AllCleared,
         pc' \in GitStages => ~setup.dry_run
  PROVE  TreeOK'
<1>1. TreeTouched' <=> TreeTouched
  BY DEF TreeTouched
<1>2. (CanLand(Self)' <=> CanLand(Self)) /\ (AllCleared' <=> AllCleared)
  BY DEF AllCleared, CanLand
<1>3. UNCHANGED setup /\ TreeOK
  BY DEF IInv
<1> QED BY <1>1, <1>2, <1>3 DEF TreeOK, GitStages, Checks

LEMMA TreeChanged ==
  ASSUME IInv, UNCHANGED <<setup, fetched, order, sorting>>,
         pc \in Cleared, pc' \in Cleared \cup {"failed"}, ~setup.dry_run
  PROVE  TreeOK'
<1>1. AllCleared'
  BY DEF IInv, TreeOK, AllCleared, CanLand
<1> QED BY <1>1 DEF TreeOK, Cleared, Early

LEMMA TreeStep ==
  ASSUME IInv, [Next]_vars
  PROVE  TreeOK'
<1> USE DEF Goto, Abort, sortVars, graphVars, treeVars, Early, Cleared,
            GitStages, Checks
<1>0. GraphTypeOK /\ StageOK /\ SortTypeOK /\ LandingOK /\ TreeOK
  BY DEF IInv, SortInv
<1>1. CASE CheckOptions
  BY <1>1, TreeKept DEF CheckOptions
<1>2. CASE FetchReviewRequest
  <2>1. /\ pc = "fetch" /\ pc' \in {"failed", "approve"}
        /\ UNCHANGED <<contents, current, clean, setup>>
    BY <1>2 DEF FetchReviewRequest
  <2>2. ~TreeTouched'
    BY <2>1, <1>0 DEF TreeOK, TreeTouched
  <2> QED BY <2>1, <2>2 DEF TreeOK
<1>3. CASE CheckApproval
  <2>1. /\ pc = "approve"
        /\ UNCHANGED <<contents, current, clean, setup, fetched, order,
                       sorting>>
        /\ \/ pc' = "failed"
           \/ pc' = "graph" /\ CanLand(Self)
           \/ pc' = "report" /\ CanLand(Self) /\ ~setup.recursive
    BY <1>3 DEF CheckApproval
  <2> QED BY <2>1, TreeKept DEF AllCleared
<1>4. CASE VisitHead
  <2>1. pc = "graph" /\ pc' = pc
        /\ UNCHANGED <<contents, current, clean, setup, fetched, order,
                       sorting>>
    BY <1>4 DEF VisitHead
  <2> QED BY <2>1, <1>0, TreeKept DEF TreeOK
<1>5. ASSUME NEW rr \in links, FollowLink(rr) PROVE TreeOK'
  <2>1. /\ pc = "graph" /\ pc' \in {"graph", "failed"}
        /\ UNCHANGED <<contents, current, clean, setup>>
    BY <1>5 DEF FollowLink
  <2>2. fetched'[Self] = fetched[Self]
    BY <1>0, <1>5, FollowLinkEffect, Resources DEF GraphTypeOK
  <2>3. CanLand(Self)' /\ ~TreeTouched'
    BY <1>0, <2>1, <2>2 DEF TreeOK, TreeTouched, CanLand
  <2> QED BY <2>1, <2>3 DEF TreeOK
<1>6. CASE GraphBuilt
  BY <1>6, <1>0, TreeKept DEF GraphBuilt, TreeOK
<1>7. CASE SortStep
  <2>1. /\ pc = "sort" /\ pc' = "sort"
        /\ UNCHANGED <<contents, current, clean, setup, fetched>>
    BY <1>7 DEF SortStep, landVars
  <2>2. CanLand(Self)' /\ ~TreeTouched'
    BY <1>0, <2>1 DEF TreeOK, TreeTouched, CanLand
  <2> QED BY <2>1, <2>2 DEF TreeOK
<1>8. CASE SortReturns
  BY <1>8, <1>0, TreeKept DEF SortReturns, TreeOK
<1>9. CASE CheckDependencies
  <2>1. /\ pc = "approve_all"
        /\ UNCHANGED <<contents, current, clean, setup, fetched, order,
                       sorting>>
        /\ \/ pc' = "failed"
           \/ /\ pc' = "land"
              /\ \A i \in 1..Len(to_land) : CanLand(to_land[i])
    BY <1>9 DEF CheckDependencies
  <2>2. CASE pc' = "failed"
    BY <2>1, <2>2, TreeKept
  <2>3. CASE pc' = "land"
    <3>1. to_land = SubSeq(order, 2, Len(order)) /\ order \in Seq(Resource)
      BY <2>1, <1>0, Resources DEF LandingOK, SortTypeOK
    <3>2. ASSUME NEW i \in 2..Len(order) PROVE CanLand(order[i])
      <4>1. i - 1 \in 1..Len(to_land) /\ to_land[i - 1] = order[i]
        BY <3>1, <3>2
      <4> QED BY <4>1, <2>1, <2>3
    <3>3. CanLand(Self) /\ (setup.recursive => sorting = "sorted")
      BY <2>1, <1>0 DEF TreeOK, StageOK
    <3>4. AllCleared
      BY <3>2, <3>3 DEF AllCleared
    <3> QED BY <2>1, <2>3, <3>3, <3>4, TreeKept
  <2> QED BY <2>1, <2>2, <2>3
<1>10. CASE LandDependency
  <2>1. /\ pc = "land" /\ pc' \in {"land", "failed"}
        /\ UNCHANGED <<setup, fetched, order, sorting>>
        /\ setup.dry_run => UNCHANGED <<pc, contents, current, clean>>
    BY <1>10 DEF LandDependency, Report, Patch
  <2>2. AllCleared
    BY <2>1, <1>0 DEF TreeOK
  <2> QED BY <2>1, <2>2, TreeKept, TreeChanged
<1>11. CASE DependenciesLanded
  BY <1>11, <1>0, TreeKept DEF DependenciesLanded, TreeOK
<1>12. CASE LandReviewRequest
  <2>1. /\ pc = "report" /\ pc' \in {"push", "failed", "checkout"}
        /\ UNCHANGED <<setup, fetched, order, sorting>>
        /\ setup.dry_run =>
             pc' # "checkout" /\ UNCHANGED <<contents, current, clean>>
    BY <1>12 DEF LandReviewRequest
  <2>2. AllCleared
    BY <2>1, <1>0 DEF TreeOK
  <2> QED BY <2>1, <2>2, TreeKept, TreeChanged
<1>13. CASE Checkout \/ Merge \/ Commit \/ DeleteBranch \/ GitFails \/ Pull
            \/ Push
  <2>1. /\ pc \in GitStages /\ pc' \in Cleared \cup {"failed"}
        /\ UNCHANGED <<setup, fetched, order, sorting>>
    BY <1>13 DEF Checkout, Merge, Commit, DeleteBranch, GitFails, Pull, Push,
                 LandedByMerge
  <2>2. ~setup.dry_run
    BY <2>1, <1>0 DEF TreeOK
  <2> QED BY <2>1, <2>2, TreeChanged
<1>14. CASE StartPush
  <2>1. /\ pc = "push" /\ pc' \in {"done", "pull", "failed"}
        /\ pc' = "pull" => ~setup.dry_run
        /\ UNCHANGED <<contents, current, clean, setup, fetched, order,
                       sorting>>
    BY <1>14 DEF StartPush
  <2> QED BY <2>1, <1>0, TreeKept DEF TreeOK
<1>15. CASE ServerChanges
  BY <1>15, <1>0, TreeKept DEF ServerChanges, TreeOK
<1>16. CASE UNCHANGED vars
  BY <1>16, <1>0, TreeKept DEF vars, landVars, TreeOK
<1> QED
  BY <1>1, <1>2, <1>3, <1>4, <1>5, <1>6, <1>7, <1>8, <1>9, <1>10, <1>11,
     <1>12, <1>13, <1>14, <1>15, <1>16, NextCases DEF Quiet

-----------------------------------------------------------------------------
(* The inductive invariant, for every set of review requests and set-ups *)
THEOREM LandInvariant == Spec => []IInv
<1>1. Init => IInv
  BY InitOK
<1>2. IInv /\ [Next]_vars => IInv'
  <2> SUFFICES ASSUME IInv, [Next]_vars PROVE IInv'
    OBVIOUS
  <2>1. SortInv'
    BY StepsSort, SortStepOK, ResourceFinite DEF IInv
  <2> QED
    BY <2>1, GraphTypeStep, StageStep, GraphStep, SourceStep, LandingStep,
       TreeStep DEF IInv
<1> QED BY <1>1, <1>2, PTL DEF Spec

(* rbt land calls toposort as its specification says it is called *)
THEOREM LandImplementsSort == Spec => SortSpec
<1>1. Init => SortInit
  BY DEF Init
<1>2. IInv /\ [Next]_vars => [BuildGraph \/ Sort]_sortVars
  BY StepsSort
<1> QED BY <1>1, <1>2, LandInvariant, PTL DEF Spec, SortSpec

(* The sorted dependency graph never puts a request behind one it needs *)
THEOREM GraphIsSorted == Spec => []HeadsBeforeTails
<1>1. IInv => HeadsBeforeTails
  BY DEF IInv, SortInv
<1> QED BY <1>1, LandInvariant, PTL

LEMMA SortedDependency ==
  ASSUME IInv, setup.recursive, sorting = "sorted",
         NEW x \in {Self} \cup Vertices, NEW rr \in Dependencies(Id(x))
  PROVE  /\ rr \in ReviewRequest
         /\ \E m \in 1..Len(order) : order[m] = Linked(rr)
         /\ Linked(rr) \in Tails(x)
         /\ Linked(rr) \in Vertices
<1>1. x \in Resource
  BY VerticesInVertex, Resources DEF IInv, SortInv, SortTypeOK
<1>2. rr \in setup.depends_on[Id(x)] /\ Pending(rr) /\ rr \in ReviewRequest
  BY <1>1, Resources, SetupFields DEF Dependencies, IInv, GraphTypeOK
<1>3. Explored(x)
  BY DEF IInv, GraphOK
<1>4. Linked(rr) \in Tails(x)
  BY <1>2, <1>3 DEF Explored, Followed
<1>5. Linked(rr) \in Vertices
  BY <1>4, TailsAreVertices DEF IInv, SortInv, SortTypeOK
<1>6. ReturnsEveryVertex
  BY SortedIsComplete, ResourceFinite DEF IInv
<1> QED BY <1>2, <1>4, <1>5, <1>6 DEF ReturnsEveryVertex

(* Whatever fails, no review request lands before one it depends on *)
THEOREM LandsDependenciesFirst == Spec => []DependenciesFirst
<1>1. IInv => DependenciesFirst
  <2> SUFFICES ASSUME IInv, NEW i \in 1..Len(landed),
                      NEW rr \in Dependencies(landed[i])
               PROVE  \E j \in 1..(i - 1) : landed[j] = rr
    BY DEF DependenciesFirst
  <2>1. setup.recursive
    BY DEF Dependencies
  <2>2. /\ sorting = "sorted" /\ Len(landed) \in Nat
        /\ Len(landed) <= DepCount + 1
        /\ \A k \in 1..Len(landed) :
             landed[k] = IF k <= DepCount THEN Id(order[Len(order) + 1 - k])
                                          ELSE Root
    BY <2>1 DEF IInv, LandingOK
  <2>3. /\ DepCount \in Nat /\ Len(order) \in Nat
        /\ order # <<>> => Len(order) = DepCount + 1
        /\ order = <<>> => DepCount = 0
        /\ HeadsBeforeTails
    BY DepCountType DEF IInv, SortInv, DepCount
  <2>4. \A k \in 1..Len(order) : order[k] \in Vertices
    BY <2>2 DEF IInv, SortInv, HeadsAreFree, Placed
  (* The dependency was sorted, and behind the first vertex. *)
  <2>5. \E m \in 2..Len(order) :
          /\ order[m] = Linked(rr)
          /\ i <= DepCount => Len(order) + 1 - i < m
    <3>1. CASE i <= DepCount
      <4>1. /\ Len(order) + 1 - i \in 1..Len(order)
            /\ Len(order) + 1 - i >= 2
            /\ landed[i] = Id(order[Len(order) + 1 - i])
        BY <3>1, <2>2, <2>3
      <4>2. PICK m \in 1..Len(order) :
              /\ order[m] = Linked(rr)
              /\ Linked(rr) \in Tails(order[Len(order) + 1 - i])
        BY <4>1, <2>1, <2>2, <2>4, SortedDependency
      <4>3. Len(order) + 1 - i < m
        BY <4>1, <4>2, <2>3 DEF HeadsBeforeTails
      <4>4. m \in 2..Len(order)
        BY <4>1, <4>2, <4>3, <2>3
      <4> QED BY <4>2, <4>3, <4>4
    <3>2. CASE ~(i <= DepCount)
      <4>1. landed[i] = Root /\ rr \in Dependencies(Id(Self))
        BY <3>2, <2>2, Resources
      <4>2. PICK m \in 1..Len(order) :
              /\ order[m] = Linked(rr)
              /\ Linked(rr) \in Tails(Self) /\ rr \in ReviewRequest
        BY <4>1, <2>1, <2>2, SortedDependency
      <4>3. order[1] = Self
        BY <4>2, <2>3 DEF IInv, OneSource
      <4>4. m # 1
        BY <4>2, <4>3, Resources
      <4> QED BY <4>2, <4>4, <3>2, <2>3
    <3> QED BY <3>1, <3>2
  <2>6. PICK m \in 2..Len(order) :
          /\ order[m] = Linked(rr)
          /\ i <= DepCount => Len(order) + 1 - i < m
    BY <2>5
  <2> DEFINE j == Len(order) + 1 - m
  <2>7. Len(order) = DepCount + 1
    BY <2>3, <2>6
  <2>8. j \in 1..(i - 1) /\ j <= DepCount /\ Len(order) + 1 - j = m
    BY <2>2, <2>3, <2>6, <2>7
  <2>9. landed[j] = Id(order[m])
    BY <2>2, <2>3, <2>8
  <2>10. rr \in ReviewRequest
    <3>1. landed[i] \in ReviewRequest
      BY DEF IInv, LandingOK
    <3> QED BY <3>1, SetupFields DEF Dependencies, IInv, GraphTypeOK
  <2> QED BY <2>6, <2>8, <2>9, <2>10, Resources
<1> QED BY <1>1, LandInvariant, PTL

(* Planned is the smallest of these sets. *)
Closed(S) == \A rr \in S \cup {Root} : Dependencies(rr) \subseteq S

(* All that is planned is in the graph, which is closed under dependency. *)
LEMMA PlannedIsSorted ==
  ASSUME IInv, setup.recursive, sorting = "sorted", NEW rr \in Planned
  PROVE  Linked(rr) \in Vertices
<1> DEFINE S == {q \in ReviewRequest : Linked(q) \in Vertices}
<1>1. Closed(S)
  <2> SUFFICES ASSUME NEW q \in S \cup {Root}, NEW d \in Dependencies(q)
               PROVE  d \in S
    BY DEF Closed
  <2>1. CASE q = Root
    BY <2>1, Resources, SortedDependency
  <2>2. CASE q \in S
    BY <2>2, Resources, SortedDependency
  <2> QED BY <2>1, <2>2
<1>2. S \in SUBSET ReviewRequest
  OBVIOUS
<1>3. rr \in S
  BY <1>1, <1>2 DEF Planned, Closed
<1> QED BY <1>3

(* The tree is touched only when no planned request was refused with a     *)
(* reason: can_land is asked of every one of them, and first.              *)
THEOREM RefusalStopsTheCommand == Spec => []RefusalLeavesTree
<1>1. IInv => RefusalLeavesTree
  <2> SUFFICES ASSUME IInv, TreeTouched, NEW rr \in Planned
               PROVE  CanLand(Linked(rr))
    BY DEF RefusalLeavesTree, Refused, CanLand, IInv, TreeOK, AllCleared
  <2>1. AllCleared /\ rr \in ReviewRequest
    BY DEF IInv, TreeOK, Planned
  <2>2. CASE ~setup.recursive
    <3>1. Closed({})
      BY <2>2 DEF Closed, Dependencies
    <3> QED BY <3>1 DEF Planned, Closed
  <2>3. CASE setup.recursive
    <3>1. sorting = "sorted"
      BY <2>1, <2>3 DEF AllCleared
    <3>2. Linked(rr) \in Vertices
      BY <2>3, <3>1, PlannedIsSorted
    <3>3. PICK i \in 1..Len(order) : order[i] = Linked(rr)
      BY <3>1, <3>2, SortedIsComplete, ResourceFinite
         DEF IInv, ReturnsEveryVertex
    <3>4. order \in Seq(Vertex) /\ order # <<>> /\ order[1] = Self
      BY <3>3 DEF IInv, SortInv, SortTypeOK, OneSource
    <3>5. i \in 2..Len(order)
      BY <3>3, <3>4, <2>1, Resources
    <3> QED BY <3>3, <3>5, <2>1, <2>3 DEF AllCleared
  <2> QED BY <2>2, <2>3
<1> QED BY <1>1, LandInvariant, PTL

-----------------------------------------------------------------------------
(* The working tree *)

Change == ReviewRequest \cup {Foreign}

Merging == {"merge", "commit", "delete"}
Deleted == {"push", "pull", "upload", "done", "failed"}

(* Only the branch that was merged is ever deleted, and it is neither the  *)
(* destination nor checked out.                                            *)
BranchOK(b) ==
  \/ contents[b] \subseteq Change
  \/ /\ contents[b] = None
     /\ pc \in Deleted
     /\ b # current /\ b # setup.destination

TreeTyped ==
  /\ setup \in Setups
  /\ reviews \in 0..MaxReviews
  /\ branch_name \in Branch \cup {None}
  /\ DOMAIN contents = Branch
  /\ current \in Branch
  /\ clean \in BOOLEAN
  /\ upstream \subseteq Change
  /\ pc \in Merging \cup {"checkout"} => branch_name \in Branch
  /\ pc \notin {"options", "fetch", "failed"} =>
       branch_name # setup.destination
  /\ pc \in Merging => current = setup.destination
  /\ \A b \in Branch : BranchOK(b)

(* The work on the local branch is there, or on the destination.           *)
WorkOK ==
  /\ pc = "delete" => contents[branch_name] \subseteq contents[current]
  /\ setup.source # setup.destination =>
       \/ contents[setup.source] # None /\ Root \in contents[setup.source]
       \/ Root \in contents[setup.destination]

TreeInv == TreeTyped /\ WorkOK

LEMMA TreeInvInit == ASSUME Init PROVE TreeInv
<1>1. setup \in Setups /\ SetupType(setup)
  BY LandAssumption DEF Init
<1>2. \A b \in Branch : contents[b] \subseteq Change
  BY LandAssumption DEF Init, Change
<1>3. TreeTyped
  BY <1>1, <1>2, LandAssumption
  DEF Init, TreeTyped, SetupType, Merging, BranchOK, Change
<1>4. contents[setup.source] = {Root}
  BY <1>1 DEF Init, SetupType
<1>5. {Root} # None
  BY LandAssumption
<1> QED BY <1>3, <1>4, <1>5 DEF TreeInv, WorkOK, Init

(* A branch is added to and the others are left alone.                     *)
LEMMA BranchGrows ==
  ASSUME TreeInv, NEW b \in Branch, NEW C \in SUBSET Change,
         contents[b] \subseteq Change,
         contents' = [contents EXCEPT ![b] = @ \cup C],
         UNCHANGED <<setup, current>>,
         pc \notin Deleted \/ pc' \in Deleted
  PROVE  /\ DOMAIN contents' = Branch
         /\ \A c \in Branch : BranchOK(c)'
         /\ setup.source # setup.destination =>
              \/ contents'[setup.source] # None /\ Root \in contents'[setup.source]
              \/ Root \in contents'[setup.destination]
<1>1. DOMAIN contents' = Branch /\ contents'[b] = contents[b] \cup C
      /\ \A c \in Branch \ {b} : contents'[c] = contents[c]
  BY DEF TreeInv, TreeTyped
<1>2. contents'[b] \subseteq Change /\ contents'[b] # None
  BY <1>1, LandAssumption DEF Change
<1>3. \A c \in Branch : BranchOK(c)'
  <2> SUFFICES ASSUME NEW c \in Branch \ {b} PROVE BranchOK(c)'
    BY <1>2 DEF BranchOK
  <2>1. BranchOK(c) /\ contents'[c] = contents[c]
    BY <1>1 DEF TreeInv, TreeTyped
  <2>2. contents[c] \subseteq Change => BranchOK(c)'
    BY <2>1 DEF BranchOK
  <2>3. contents[c] = None /\ pc \in Deleted => BranchOK(c)'
    BY <2>1 DEF BranchOK
  <2> QED BY <2>1, <2>2, <2>3 DEF BranchOK
<1>4. setup.source \in Branch /\ setup.destination \in Branch
  BY SetupFields DEF TreeInv, TreeTyped
<1> QED BY <1>1, <1>2, <1>3, <1>4 DEF TreeInv, WorkOK

(* Steps that change no branch                                             *)
LEMMA BranchesKept ==
  ASSUME TreeInv, UNCHANGED <<setup, contents, current>>,
         pc \notin Deleted \/ pc' \in Deleted
  PROVE  /\ \A b \in Branch : BranchOK(b)'
         /\ DOMAIN contents' = Branch /\ current' \in Branch
         /\ setup.source # setup.destination =>
              \/ contents'[setup.source] # None /\ Root \in contents'[setup.source]
              \/ Root \in contents'[setup.destination]
BY DEF TreeInv, TreeTyped, WorkOK, BranchOK

LEMMA TreeInvStep == ASSUME TreeInv, IInv, [Next]_vars PROVE TreeInv'
<1> USE DEF Merging, Deleted
<1>0. setup' = setup /\ setup' \in Setups
  <2>1. setup' = setup
    BY NextCases, QuietFrame, SortFrame
    DEF FollowLink, SortStep, vars, landVars
  <2> QED BY <2>1 DEF TreeInv, TreeTyped
<1>1. CASE CheckOptions
  <2>1. /\ pc = "options" /\ pc' \in {"fetch", "failed"}
        /\ UNCHANGED <<branch_name, contents, current, clean, upstream, reviews>>
    BY <1>1 DEF CheckOptions, Goto, Abort, treeVars, serverVars
  <2> QED BY <2>1, <1>0, BranchesKept DEF TreeInv, TreeTyped, WorkOK
<1>2. CASE FetchReviewRequest
  <2>1. /\ pc = "fetch" /\ pc' \in {"approve", "failed"}
        /\ branch_name' \in Branch \cup {None}
        /\ pc' = "approve" => branch_name' # setup.destination
        /\ UNCHANGED <<contents, current, clean, upstream, reviews>>
    <3>1. setup.branch_name \in Branch \cup {None} /\ current \in Branch
      BY SetupFields DEF TreeInv, TreeTyped
    <3>2. branch_name' \in {branch_name, None, current, setup.branch_name}
      BY <1>2 DEF FetchReviewRequest
    <3> QED BY <1>2, <3>1, <3>2
            DEF FetchReviewRequest, Goto, Abort, treeVars, serverVars, TreeInv,
                TreeTyped
  <2> QED BY <2>1, <1>0, BranchesKept DEF TreeInv, TreeTyped, WorkOK
<1>3. CASE CheckApproval
  <2>1. /\ pc = "approve" /\ pc' \in {"graph", "report", "failed"}
        /\ UNCHANGED <<branch_name, contents, current, clean, upstream, reviews>>
    BY <1>3 DEF CheckApproval, Goto, Abort, treeVars, serverVars
  <2> QED BY <2>1, <1>0, BranchesKept DEF TreeInv, TreeTyped, WorkOK
<1>4. CASE VisitHead \/ GraphBuilt \/ SortStep \/ SortReturns
           \/ CheckDependencies \/ \E rr \in links : FollowLink(rr)
  <2>1. /\ pc \in {"graph", "sort", "approve_all"}
        /\ pc' \in {"graph", "sort", "approve_all", "land", "failed"}
        /\ UNCHANGED <<branch_name, contents, current, clean, upstream, reviews>>
    BY <1>4 DEF VisitHead, GraphBuilt, SortStep, SortReturns,
                CheckDependencies, FollowLink, Goto, Abort, treeVars,
                serverVars, landVars
  <2> QED BY <2>1, <1>0, BranchesKept DEF TreeInv, TreeTyped, WorkOK
<1>5. CASE DependenciesLanded
  <2>1. /\ pc = "land" /\ pc' = "report"
        /\ UNCHANGED <<branch_name, contents, current, clean, upstream, reviews>>
    BY <1>5 DEF DependenciesLanded, Goto, treeVars, serverVars
  <2> QED BY <2>1, <1>0, BranchesKept DEF TreeInv, TreeTyped, WorkOK
<1>6. CASE LandDependency
  <2>1. /\ pc = "land" /\ pc' \in {"land", "failed"}
        /\ clean' \in BOOLEAN
        /\ UNCHANGED <<branch_name, current, upstream, reviews>>
    BY <1>6 DEF LandDependency, Patch, Report, Abort, Goto, treeVars,
                serverVars, TreeInv, TreeTyped
  <2>2. CASE UNCHANGED contents
    BY <2>1, <2>2, <1>0, BranchesKept DEF TreeInv, TreeTyped, WorkOK
  <2>3. CASE contents' = [contents EXCEPT ![current] =
                            @ \cup {Id(Head(to_land))}]
    <3>1. Id(Head(to_land)) \in ReviewRequest
      BY <1>6, Resources, HeadTailProperties
      DEF LandDependency, IInv, LandingOK
    <3>2. {Id(Head(to_land))} \in SUBSET Change
      BY <3>1 DEF Change
    <3>3. contents[current] \subseteq Change /\ current \in Branch
      BY DEF TreeInv, TreeTyped, BranchOK
    <3> QED
      BY <2>1, <2>3, <1>0, <3>2, <3>3, BranchGrows DEF TreeInv, TreeTyped, WorkOK
  <2> QED BY <1>6, <2>2, <2>3 DEF LandDependency, Patch, Report, treeVars
<1>7. CASE LandReviewRequest
  <2>1. /\ pc = "report" /\ pc' \in {"push", "checkout", "failed"}
        /\ pc' = "checkout" => branch_name # None
        /\ clean' \in BOOLEAN
        /\ UNCHANGED <<branch_name, current, upstream, reviews>>
    BY <1>7 DEF LandReviewRequest, Abort, Goto, treeVars, serverVars, TreeInv,
                TreeTyped
  <2>2. CASE UNCHANGED contents
    BY <2>1, <2>2, <1>0, BranchesKept DEF TreeInv, TreeTyped, WorkOK
  <2>3. CASE contents' = [contents EXCEPT ![current] = @ \cup {Root}]
    <3>1. {Root} \in SUBSET Change
      BY LandAssumption DEF Change
    <3>2. contents[current] \subseteq Change /\ current \in Branch
      BY DEF TreeInv, TreeTyped, BranchOK
    <3> QED
      BY <2>1, <2>3, <1>0, <3>1, <3>2, BranchGrows DEF TreeInv, TreeTyped, WorkOK
  <2> QED BY <1>7, <2>2, <2>3 DEF LandReviewRequest, treeVars
<1>8. CASE Checkout
  <2>1. /\ pc = "checkout" /\ pc' = "merge" /\ current' = setup.destination
        /\ UNCHANGED <<branch_name, contents, clean, upstream, reviews>>
    BY <1>8 DEF Checkout, Goto, serverVars
  <2>2. setup.destination \in Branch
    BY SetupFields DEF TreeInv, TreeTyped
  <2>3. \A b \in Branch : contents[b] \subseteq Change
    BY <2>1 DEF TreeInv, TreeTyped, BranchOK
  <2> QED BY <2>1, <2>2, <2>3, <1>0 DEF TreeInv, TreeTyped, WorkOK, BranchOK
<1>9. CASE Merge
  <2>1. /\ pc = "merge" /\ pc' = "commit" /\ clean' \in BOOLEAN
        /\ UNCHANGED <<branch_name, contents, current, upstream, reviews>>
    BY <1>9 DEF Merge, Goto, serverVars
  <2> QED BY <2>1, <1>0, BranchesKept DEF TreeInv, TreeTyped, WorkOK
<1>10. CASE Commit
  <2>1. /\ pc = "commit" /\ pc' \in {"delete", "push"} /\ clean' \in BOOLEAN
        /\ contents' = [contents EXCEPT ![current] =
                          @ \cup contents[branch_name]]
        /\ UNCHANGED <<branch_name, current, upstream, reviews>>
    BY <1>10 DEF Commit, LandedByMerge, Goto, serverVars
  <2>2. branch_name \in Branch /\ current \in Branch
        /\ branch_name # current /\ current = setup.destination
        /\ DOMAIN contents = Branch
    BY <2>1 DEF TreeInv, TreeTyped
  <2>3. \A b \in Branch : contents[b] \subseteq Change
    BY <2>1 DEF TreeInv, TreeTyped, BranchOK
  <2>4. contents'[branch_name] \subseteq contents'[current]
    BY <2>1, <2>2
  <2>5. contents[branch_name] \in SUBSET Change
    BY <2>2, <2>3
  <2>6. /\ DOMAIN contents' = Branch
        /\ \A c \in Branch : BranchOK(c)'
        /\ setup.source # setup.destination =>
             \/ contents'[setup.source] # None /\ Root \in contents'[setup.source]
             \/ Root \in contents'[setup.destination]
    BY <2>1, <2>2, <2>3, <2>5, <1>0, BranchGrows
  <2> QED BY <2>1, <2>2, <2>4, <2>6, <1>0 DEF TreeInv, TreeTyped, WorkOK
<1>11. CASE DeleteBranch
  <2>1. /\ pc = "delete" /\ pc' = "push" /\ branch_name # current
        /\ contents' = [contents EXCEPT ![branch_name] = None]
        /\ UNCHANGED <<branch_name, current, clean, upstream, reviews>>
    BY <1>11 DEF DeleteBranch, LandedByMerge, Goto, serverVars
  <2>2. branch_name \in Branch /\ current = setup.destination
        /\ DOMAIN contents = Branch /\ current \in Branch
        /\ contents[branch_name] \subseteq contents[current]
        /\ setup.source \in Branch
    BY <2>1, SetupFields DEF TreeInv, TreeTyped, WorkOK
  <2>3. \A b \in Branch : contents[b] \subseteq Change
    BY <2>1 DEF TreeInv, TreeTyped, BranchOK
  <2>4. DOMAIN contents' = Branch /\ \A b \in Branch :
          contents'[b] = IF b = branch_name THEN None ELSE contents[b]
    BY <2>1, <2>2
  <2>5. \A b \in Branch : BranchOK(b)'
    BY <2>1, <2>2, <2>3, <2>4, <1>0 DEF BranchOK
  <2>6. WorkOK'
    BY <2>1, <2>2, <2>4, <1>0 DEF TreeInv, WorkOK
  <2> QED BY <2>1, <2>4, <2>5, <2>6, <1>0 DEF TreeInv, TreeTyped
<1>12. CASE GitFails \/ StartPush
  <2>1. /\ pc' \in Deleted /\ pc \notin {"options", "fetch", "failed"}
        /\ clean' \in BOOLEAN
        /\ UNCHANGED <<branch_name, contents, current, upstream, reviews>>
    BY <1>12 DEF GitFails, StartPush, Abort, Goto, treeVars, serverVars,
                 TreeInv, TreeTyped
  <2> QED BY <2>1, <1>0, BranchesKept DEF TreeInv, TreeTyped, WorkOK
<1>13. CASE Pull
  <2>1. /\ pc = "pull" /\ pc' = "upload"
        /\ contents' = [contents EXCEPT ![current] = @ \cup upstream]
        /\ UNCHANGED <<branch_name, current, clean, upstream, reviews>>
    BY <1>13 DEF Pull, Goto, serverVars
  <2>2. contents[current] \subseteq Change /\ current \in Branch
        /\ upstream \in SUBSET Change
    BY DEF TreeInv, TreeTyped, BranchOK
  <2> QED BY <2>1, <2>2, <1>0, BranchGrows DEF TreeInv, TreeTyped, WorkOK
<1>14. CASE Push
  <2>1. /\ pc = "upload" /\ pc' = "done"
        /\ upstream' = contents[setup.destination]
        /\ UNCHANGED <<branch_name, contents, current, clean, reviews>>
    BY <1>14 DEF Push, Goto, serverVars
  <2>2. contents[setup.destination] \subseteq Change
    BY SetupFields DEF TreeInv, TreeTyped, BranchOK
  <2> QED BY <2>1, <2>2, <1>0, BranchesKept DEF TreeInv, TreeTyped, WorkOK
<1>15. CASE ServerChanges
  <2>1. /\ reviews' \in 0..MaxReviews /\ upstream' \subseteq Change
    BY <1>15, LandAssumption DEF ServerChanges, TreeInv, TreeTyped, Change
  <2>2. UNCHANGED <<pc, branch_name, contents, current, clean>>
    BY <1>15 DEF ServerChanges
  <2> QED BY <2>1, <2>2, <1>0, BranchesKept DEF TreeInv, TreeTyped, WorkOK
<1>16. CASE UNCHANGED vars
  BY <1>16, <1>0, BranchesKept
  DEF vars, landVars, treeVars, serverVars, TreeInv, TreeTyped, WorkOK
<1> QED
  BY <1>1, <1>2, <1>3, <1>4, <1>5, <1>6, <1>7, <1>8, <1>9, <1>10, <1>11,
     <1>12, <1>13, <1>14, <1>15, <1>16, NextCases DEF Quiet

(* The inductive invariant of the tree: the command is on the destination  *)
(* while it merges, only the merged branch is ever deleted, and only after *)
(* the destination got what that branch held.                              *)
THEOREM TreeInvariant == Spec => []TreeInv
<1>1. Init => TreeInv
  BY TreeInvInit
<1>2. TreeInv /\ IInv /\ [Next]_vars => TreeInv'
  BY TreeInvStep
<1> QED BY <1>1, <1>2, LandInvariant, PTL DEF Spec

(* Merging the local branch and deleting it never loses the work on it,    *)
(* whichever git process fails: the branch goes only once the destination  *)
(* holds all that it held.                                                 *)
THEOREM WorkSurvives == Spec => []WorkIsKept
<1>1. TreeInv => WorkIsKept
  <2> SUFFICES ASSUME TreeInv, setup.source # setup.destination
               PROVE  \E b \in Branch : contents[b] # None /\ Root \in contents[b]
    BY DEF WorkIsKept
  <2>1. setup.source \in Branch /\ setup.destination \in Branch
    BY SetupFields DEF TreeInv, TreeTyped
  <2>2. contents[setup.destination] \subseteq Change
    BY <2>1 DEF TreeInv, TreeTyped, BranchOK
  <2>3. contents[setup.destination] # None
    BY <2>2, LandAssumption DEF Change
  <2> QED BY <2>1, <2>3 DEF TreeInv, WorkOK
<1> QED BY <1>1, TreeInvariant, PTL

-----------------------------------------------------------------------------
(* What is reported is there.  A command that is started on the            *)
(* destination stays on it, whether it patches or merges.                  *)
ReachesInv ==
  /\ setup.current = setup.destination => current = setup.destination
  /\ OnDestination

(* OnDestination after a step that reports at most one more request.       *)
LEMMA ReportedIsThere ==
  ASSUME ReachesInv, TreeInv, landed \in Seq(ReviewRequest),
         UNCHANGED setup,
         current' \in {current, setup.destination},
         contents[setup.destination] \subseteq contents'[setup.destination],
         branch_name' = branch_name \/ landed' = <<>>,
         \/ landed' \in {landed, <<>>}
         \/ \E rr \in ReviewRequest :
              /\ landed' = Append(landed, rr)
              /\ ~setup.dry_run /\ setup.current = setup.destination
                   /\ branch_name \in {None, setup.source} =>
                      rr \in contents'[setup.destination]
  PROVE  ReachesInv'
<1>1. (setup.current = setup.destination => current = setup.destination)'
  BY DEF ReachesInv
<1>2. OnDestination'
  <2>1. CASE landed' = <<>>
    BY <2>1 DEF OnDestination
  <2>2. CASE landed' = landed /\ landed' # <<>>
    BY <2>2 DEF ReachesInv, OnDestination
  <2>3. ASSUME NEW rr \in ReviewRequest, landed' = Append(landed, rr),
               ~setup.dry_run /\ setup.current = setup.destination
                 /\ branch_name \in {None, setup.source} =>
                    rr \in contents'[setup.destination]
        PROVE  OnDestination'
    <3>1. /\ landed' # <<>> /\ Len(landed') = Len(landed) + 1
          /\ Len(landed) \in Nat
          /\ \A i \in 1..Len(landed) : landed'[i] = landed[i]
          /\ landed'[Len(landed) + 1] = rr
      BY <2>3, AppendProperties
    <3>2. \A i \in 1..Len(landed') :
            i \in 1..Len(landed) \/ i = Len(landed) + 1
      BY <3>1
    <3> QED BY <2>3, <3>1, <3>2 DEF ReachesInv, OnDestination
  <2> QED BY <2>1, <2>2, <2>3
<1> QED BY <1>1, <1>2 DEF ReachesInv

LEMMA ReachesStep ==
  ASSUME ReachesInv, TreeInv, IInv, [Next]_vars PROVE ReachesInv'
<1> DEFINE d == setup.destination
<1>0. /\ setup' = setup /\ setup \in Setups /\ landed \in Seq(ReviewRequest)
      /\ d \in Branch /\ current \in Branch /\ DOMAIN contents = Branch
      /\ contents[d] \subseteq Change
  <2>1. setup' = setup
    BY NextCases, QuietFrame, SortFrame
    DEF FollowLink, SortStep, vars, landVars
  <2> QED BY <2>1, SetupFields
          DEF TreeInv, TreeTyped, BranchOK, IInv, LandingOK
<1> USE DEF Goto, Abort, treeVars, LandedByMerge
<1>1. CASE UNCHANGED <<landed, contents, current, branch_name>>
  BY <1>0, <1>1, ReportedIsThere
<1>2. CASE FetchReviewRequest
  <2>1. pc = "fetch" /\ UNCHANGED <<landed, contents, current>>
    BY <1>2 DEF FetchReviewRequest
  <2>2. landed' = <<>>
    BY <2>1 DEF IInv, LandingOK, Early
  <2> QED BY <1>0, <2>1, <2>2, ReportedIsThere
(* A request is patched, or reported in a dry run.                         *)
<1>3. ASSUME NEW rr \in ReviewRequest, UNCHANGED <<branch_name, current>>,
             landed' \in {landed, Append(landed, rr)},
             \/ contents' = contents
             \/ contents' = [contents EXCEPT ![current] = @ \cup {rr}],
             \/ landed' = landed \/ setup.dry_run
             \/ contents' = [contents EXCEPT ![current] = @ \cup {rr}]
      PROVE  ReachesInv'
  <2>1. contents[d] \subseteq contents'[d]
    BY <1>0, <1>3
  <2>2. \/ landed' = landed \/ setup.dry_run \/ setup.current # d
        \/ rr \in contents'[d]
    BY <1>0, <1>3 DEF ReachesInv
  <2> HIDE DEF d
  <2> QED BY <1>0, <1>3, <2>1, <2>2, ReportedIsThere DEF d
<1>4. CASE LandDependency
  <2>1. Id(Head(to_land)) \in ReviewRequest
    BY <1>4, Resources, HeadTailProperties
    DEF LandDependency, IInv, LandingOK
  <2>2. /\ UNCHANGED <<branch_name, current>>
        /\ landed' \in {landed, Append(landed, Id(Head(to_land)))}
        /\ \/ contents' = contents
           \/ contents' = [contents EXCEPT ![current] =
                             @ \cup {Id(Head(to_land))}]
        /\ \/ landed' = landed \/ setup.dry_run
           \/ contents' = [contents EXCEPT ![current] =
                             @ \cup {Id(Head(to_land))}]
    BY <1>4 DEF LandDependency, Report, Patch
  <2> QED BY <1>3, <2>1, <2>2
<1>5. CASE LandReviewRequest
  <2>1. /\ UNCHANGED <<branch_name, current>>
        /\ landed' \in {landed, Append(landed, Root)}
        /\ \/ contents' = contents
           \/ contents' = [contents EXCEPT ![current] = @ \cup {Root}]
        /\ \/ landed' = landed \/ setup.dry_run
           \/ contents' = [contents EXCEPT ![current] = @ \cup {Root}]
    BY <1>5 DEF LandReviewRequest
  <2> QED BY <1>3, <2>1, LandAssumption
<1>6. CASE Checkout
  BY <1>0, <1>6, ReportedIsThere DEF Checkout
(* The branch with the work is merged.                                     *)
<1>7. CASE Commit
  <2>1. /\ pc = "commit"
        /\ contents' = [contents EXCEPT ![current] =
                          @ \cup contents[branch_name]]
        /\ landed' \in {landed, Append(landed, Root)}
        /\ UNCHANGED <<branch_name, current>>
    BY <1>7 DEF Commit
  <2>2. /\ current = d /\ branch_name # d /\ branch_name \in Branch
        /\ setup.source # d =>
             Root \in contents[setup.source] \/ Root \in contents[d]
    BY <2>1 DEF TreeInv, TreeTyped, WorkOK, Merging
  <2>3. contents'[d] = contents[d] \cup contents[branch_name]
    BY <1>0, <2>1, <2>2
  <2>4. branch_name \in {None, setup.source} => Root \in contents'[d]
    BY <2>2, <2>3, LandAssumption
  <2>5. landed' = landed \/ \E rr \in ReviewRequest :
          /\ landed' = Append(landed, rr)
          /\ branch_name \in {None, setup.source} => rr \in contents'[d]
    BY <2>1, <2>4, LandAssumption
  <2> QED BY <1>0, <2>1, <2>3, <2>5, ReportedIsThere
<1>8. CASE DeleteBranch
  <2>1. /\ pc = "delete" /\ branch_name # current
        /\ contents' = [contents EXCEPT ![branch_name] = None]
        /\ landed' = Append(landed, Root)
        /\ UNCHANGED <<branch_name, current>>
    BY <1>8 DEF DeleteBranch
  <2>2. /\ current = d /\ branch_name \in Branch
        /\ contents[branch_name] \subseteq contents[d]
        /\ setup.source # d =>
             Root \in contents[setup.source] \/ Root \in contents[d]
    BY <2>1 DEF TreeInv, TreeTyped, WorkOK, Merging
  <2>3. contents'[d] = contents[d]
    BY <1>0, <2>1, <2>2
  <2>4. branch_name \in {None, setup.source} => Root \in contents'[d]
    BY <2>1, <2>2, <2>3, LandAssumption
  <2>5. \E rr \in ReviewRequest :
          /\ landed' = Append(landed, rr)
          /\ branch_name \in {None, setup.source} => rr \in contents'[d]
    BY <2>1, <2>4, LandAssumption
  <2> QED BY <1>0, <2>1, <2>3, <2>5, ReportedIsThere
<1>9. CASE Pull
  <2>1. contents' = [contents EXCEPT ![current] = @ \cup upstream]
        /\ UNCHANGED <<branch_name, current, landed>>
    BY <1>9 DEF Pull
  <2>2. contents[d] \subseteq contents'[d]
    BY <1>0, <2>1
  <2> QED BY <1>0, <2>1, <2>2, ReportedIsThere
<1>10. CASE CheckOptions \/ CheckApproval \/ VisitHead \/ GraphBuilt
            \/ SortStep \/ SortReturns \/ CheckDependencies
            \/ DependenciesLanded \/ Merge \/ GitFails \/ StartPush \/ Push
            \/ ServerChanges \/ \E rr \in links : FollowLink(rr)
  BY <1>1, <1>10
  DEF CheckOptions, CheckApproval, VisitHead, GraphBuilt, SortStep,
      SortReturns, CheckDependencies, DependenciesLanded, Merge, GitFails,
      StartPush, Push, ServerChanges, FollowLink, landVars
<1>11. CASE UNCHANGED vars
  BY <1>1, <1>11 DEF vars, landVars
<1> QED BY <1>2, <1>4, <1>5, <1>6, <1>7, <1>8, <1>9, <1>10, <1>11, NextCases
        DEF Quiet

(* Everything that is reported as landed is on the destination, where the  *)
(* command was started on it and lands the branch with the work.           *)
THEOREM LandsThere == Spec => []OnDestination
<1>1. Init => ReachesInv
  BY DEF Init, ReachesInv, OnDestination
<1>2. ReachesInv /\ TreeInv /\ IInv /\ [Next]_vars => ReachesInv'
  BY ReachesStep
<1>3. ReachesInv => OnDestination
  BY DEF ReachesInv
<1> QED BY <1>1, <1>2, <1>3, TreeInvariant, LandInvariant, PTL DEF Spec

(* Before the call of toposort there are neither heads nor in-degrees.     *)
IdleOK == sorting = "idle" => heads = {} /\ DOMAIN indegrees = {}

LEMMA IdleHasNoHeads == Spec => []IdleOK
<1>1. SortInit => IdleOK
  BY DEF SortInit, IdleOK
<1>2. IdleOK /\ [BuildGraph \/ Sort]_sortVars => IdleOK'
  BY DEF IdleOK, BuildGraph, Sort, CountIndegrees, PopHead, Finish, sortVars
<1> QED BY <1>1, <1>2, LandImplementsSort, PTL DEF SortSpec

(* The variables of Land keep their types, for every set-up.               *)
THEOREM TypeCorrect == Spec => []TypeOK
<1>1. IInv /\ TreeInv /\ IdleOK => TypeOK
  <2> SUFFICES ASSUME IInv, TreeInv, IdleOK PROVE TypeOK
    OBVIOUS
  <2>1. SetupType(setup)
    BY LandAssumption DEF TreeInv, TreeTyped
  <2>2. \A b \in Branch : contents[b] # None => contents[b] \subseteq Change
    BY DEF TreeInv, TreeTyped, BranchOK
  <2>3. /\ IsGraph(graph) /\ order \in Seq(Resource)
        /\ sorting \in {"idle", "popping", "sorted", "cyclic"}
    BY VertexAssumption DEF IInv, SortInv, SortTypeOK
  <2>4. Vertices \subseteq Resource
    BY <2>3, VerticesInVertex, VertexAssumption
  <2>5. DOMAIN indegrees \subseteq Resource /\ heads \subseteq Resource
    BY <2>4 DEF IInv, SortInv, Counted, HeadsAreFree, IdleOK
  <2> QED
    BY <2>1, <2>2, <2>3, <2>5
    DEF TypeOK, IInv, GraphTypeOK, Standing, LandingOK,
        TreeInv, TreeTyped, Change
<1> QED BY <1>1, LandInvariant, TreeInvariant, IdleHasNoHeads, PTL
-----------------------------------------------------------------------------
(* Everything once.  An edge of the graph is a link to a pending request,   *)
(* and a vertex is needed: it lies in every set that holds what the request *)
(* and its members depend on.                                               *)

EdgesOK ==
  \A x \in DOMAIN graph : \A y \in graph[x] :
    \E rr \in setup.depends_on[Id(x)] : y = Linked(rr) /\ Pending(rr)

NeededOK ==
  \A S \in SUBSET ReviewRequest :
    Closed(S) => \A x \in Vertices : x # Self => Id(x) \in S

LinksOK ==
  pc = "graph" /\ links # {} =>
    links \subseteq setup.depends_on[Id(Head(unvisited))]

CountOK ==
  pc \in {"push", "pull", "upload", "done"} => Len(landed) = DepCount + 1

OnceInv ==
  /\ ~setup.recursive => graph = NoEdges
  /\ EdgesOK
  /\ NeededOK
  /\ LinksOK
  /\ CountOK

LEMMA OnceInvInit == ASSUME Init PROVE OnceInv
<1>1. graph = NoEdges /\ pc = "options"
  BY DEF Init, SortInit
<1>2. DOMAIN graph = {} /\ Vertices = {}
  BY <1>1 DEF NoEdges, Vertices
<1> QED
  BY <1>1, <1>2 DEF OnceInv, EdgesOK, NeededOK, LinksOK, CountOK

(* Steps that leave the graph and what is known of the links               *)
LEMMA GraphStays ==
  ASSUME IInv, OnceInv, UNCHANGED <<graph, setup>>,
         \A rr \in ReviewRequest : Pending(rr)' <=> Pending(rr)
  PROVE  (~setup.recursive => graph = NoEdges)' /\ EdgesOK' /\ NeededOK'
<1>1. \A x \in DOMAIN graph : setup.depends_on[Id(x)] \subseteq ReviewRequest
  <2>1. DOMAIN graph \subseteq Resource
    BY VerticesInVertex, Resources
    DEF IInv, SortInv, SortTypeOK, Vertices
  <2> QED BY <2>1, Resources, SetupFields DEF IInv, GraphTypeOK
<1>2. EdgesOK'
  BY <1>1 DEF OnceInv, EdgesOK
<1>3. ASSUME NEW S \in SUBSET ReviewRequest, Closed(S)'
      PROVE  Closed(S)
  <2>1. \A rr \in S \cup {Root} : setup.depends_on[rr] \subseteq ReviewRequest
    BY LandAssumption, SetupFields DEF IInv, GraphTypeOK
  <2> QED BY <1>3, <2>1 DEF Closed, Dependencies
<1>4. Vertices' = Vertices
  BY DEF Vertices
<1> QED BY <1>2, <1>3, <1>4 DEF OnceInv, NeededOK

LEMMA FollowLinkOnce ==
  ASSUME IInv, OnceInv, NEW rr \in links, FollowLink(rr)
  PROVE  OnceInv'
<1>0. PICK head : head = Head(unvisited)
  OBVIOUS
<1> DEFINE tail == Linked(rr)
<1>1. /\ pc = "graph" /\ unvisited # <<>> /\ unvisited \in Seq(Resource)
      /\ head \in Resource /\ rr \in ReviewRequest
      /\ UNCHANGED <<setup, order, landed>>
      /\ DOMAIN fetched = Resource /\ tail \in Resource
      /\ fetched' = fetched \/
           (fetched[tail] = None /\
            fetched' = [fetched EXCEPT ![tail] = standing[rr]])
  BY <1>0, FollowLinkEffect, Resources DEF IInv, GraphTypeOK
<1>2. setup.recursive /\ setup.depends_on \in [ReviewRequest -> SUBSET ReviewRequest]
  BY <1>1, SetupFields DEF IInv, StageOK, GraphTypeOK
(* What was known of a link stays known. *)
<1>3. \A q \in ReviewRequest : Pending(q) => Pending(q)'
  <2> SUFFICES ASSUME NEW q \in ReviewRequest, Pending(q) PROVE Pending(q)'
    OBVIOUS
  <2>1. fetched[Linked(q)] # None
    BY DEF Pending
  <2>2. fetched'[Linked(q)] = fetched[Linked(q)]
    BY <1>1, <2>1, Resources
  <2> QED BY <2>1, <2>2 DEF Pending
<1>4. ASSUME NEW S \in SUBSET ReviewRequest, Closed(S)'
      PROVE  Closed(S)
  <2>1. \A q \in S \cup {Root} : setup.depends_on[q] \subseteq ReviewRequest
    BY <1>2, LandAssumption
  <2> QED BY <1>1, <1>3, <1>4, <2>1 DEF Closed, Dependencies
<1>5. rr \in setup.depends_on[Id(head)]
  BY <1>0, <1>1 DEF OnceInv, LinksOK
<1>6. \A x \in DOMAIN graph : setup.depends_on[Id(x)] \subseteq ReviewRequest
  <2>1. DOMAIN graph \subseteq Resource
    BY VerticesInVertex, Resources DEF IInv, SortInv, SortTypeOK, Vertices
  <2> QED BY <2>1, <1>2, Resources
<1>7. head = Self \/ head \in Vertices
  <2>1. unvisited[1] = head /\ 1 \in 1..Len(unvisited)
    BY <1>0, <1>1
  <2>2. head # Self => EdgesInto(head) # {}
    BY <2>1 DEF IInv, OneSource
  <2> QED BY <2>2 DEF EdgesInto, Vertices
<1>8. CASE pc' = "failed"
  <2>1. graph' = graph
    BY <1>8, FollowLinkEffect DEF IInv
  <2>2. EdgesOK'
    BY <1>1, <1>3, <1>6, <2>1 DEF OnceInv, EdgesOK
  <2>3. NeededOK'
    BY <1>4, <2>1 DEF OnceInv, NeededOK, Vertices
  <2> QED BY <1>1, <1>2, <1>8, <2>2, <2>3 DEF OnceInv, LinksOK, CountOK
<1>9. CASE pc' # "failed"
  <2>1. /\ pc' = "graph" /\ links' = links \ {rr}
        /\ \/ /\ Pending(rr)'
              /\ graph' = [v \in DOMAIN graph \cup {head} |->
                    IF v = head THEN Tails(head) \cup {tail} ELSE graph[v]]
              /\ unvisited' = Append(IF links = {rr} THEN Tail(unvisited)
                                       ELSE unvisited, tail)
           \/ /\ graph' = graph
              /\ unvisited' = IF links = {rr} THEN Tail(unvisited)
                                              ELSE unvisited
    BY <1>0, <1>9, FollowLinkEffect DEF IInv
  <2>2. EdgesOK'
    <3>1. CASE graph' = graph
      BY <1>1, <1>3, <1>6, <3>1 DEF OnceInv, EdgesOK
    <3>2. CASE graph' # graph
      <4> SUFFICES ASSUME NEW x \in DOMAIN graph', NEW y \in graph'[x]
                   PROVE  \E q \in setup.depends_on[Id(x)] :
                            y = Linked(q) /\ Pending(q)'
        BY <1>1 DEF EdgesOK
      <4>1. CASE x \in DOMAIN graph /\ y \in graph[x]
        BY <4>1, <1>3, <1>6 DEF OnceInv, EdgesOK
      <4>2. CASE x = head /\ y = tail
        BY <4>2, <1>5, <2>1, <3>2
      <4> QED BY <4>1, <4>2, <2>1, <3>2 DEF Tails
    <3> QED BY <3>1, <3>2
  <2>3. NeededOK'
    <3> SUFFICES ASSUME NEW S \in SUBSET ReviewRequest, Closed(S)',
                        NEW x \in Vertices', x # Self
                 PROVE  Id(x) \in S
      BY DEF NeededOK
    <3>1. Closed(S)
      BY <1>4
    <3>2. CASE x \in Vertices
      BY <3>1, <3>2 DEF OnceInv, NeededOK
    <3>3. CASE x = tail /\ Pending(rr)'
      <4>1. Id(head) \in S \cup {Root}
        BY <1>7, <3>1, Resources DEF OnceInv, NeededOK
      <4>2. rr \in Dependencies(Id(head))'
        BY <1>1, <1>2, <1>5, <3>3 DEF Dependencies
      <4> QED BY <4>1, <4>2, <3>3, <1>1, Resources DEF Closed
    <3>4. CASE x = head /\ x \notin Vertices
      BY <3>4, <1>7
    <3>5. Vertices' \subseteq Vertices \cup {head, tail}
          /\ (tail \in Vertices' => tail \in Vertices \/ Pending(rr)')
      BY <2>1 DEF Vertices, Tails
    <3> QED BY <3>2, <3>3, <3>4, <3>5
  <2>4. LinksOK'
    <3> SUFFICES ASSUME links' # {}
                 PROVE  links' \subseteq setup.depends_on[Id(Head(unvisited'))]
      BY <1>1 DEF LinksOK
    <3>1. Head(unvisited') = head
      <4>1. links # {rr}
        BY <2>1
      <4>2. Head(Append(unvisited, tail)) = head
        BY <1>0, <1>1, HeadTailAppend
      <4> QED BY <4>1, <4>2, <2>1, <1>0
    <3> QED BY <3>1, <1>0, <1>1, <2>1 DEF OnceInv, LinksOK
  <2> QED BY <1>1, <1>2, <2>1, <2>2, <2>3, <2>4 DEF OnceInv, CountOK
<1> QED BY <1>8, <1>9

LEMMA CountStep ==
  ASSUME IInv, OnceInv, [Next]_vars, ~(\E rr \in links : FollowLink(rr))
  PROVE  CountOK'
<1> DEFINE Pushing == {"push", "pull", "upload", "done"}
<1> USE DEF Goto, Abort, sortVars
(* Either the step is behind the landing, or the request lands in it.      *)
<1>1. \/ pc' \notin Pushing
      \/ pc \in Pushing /\ UNCHANGED <<order, landed>>
      \/ /\ pc \in {"report", "commit", "delete"}
         /\ order' = order /\ landed' = Append(landed, Root)
  <2>1. CASE Quiet
    <3>1. CASE CheckOptions       BY <3>1 DEF CheckOptions
    <3>2. CASE SortReturns        BY <3>2 DEF SortReturns
    <3>3. CASE CheckDependencies  BY <3>3 DEF CheckDependencies
    <3>4. CASE LandDependency
      BY <3>4 DEF LandDependency, Report, Patch
    <3>5. CASE DependenciesLanded BY <3>5 DEF DependenciesLanded
    <3>6. CASE LandReviewRequest  BY <3>6 DEF LandReviewRequest
    <3>7. CASE Checkout           BY <3>7 DEF Checkout
    <3>8. CASE Merge              BY <3>8 DEF Merge
    <3>9. CASE Commit             BY <3>9 DEF Commit, LandedByMerge
    <3>10. CASE DeleteBranch      BY <3>10 DEF DeleteBranch, LandedByMerge
    <3>11. CASE GitFails          BY <3>11 DEF GitFails
    <3>12. CASE StartPush         BY <3>12 DEF StartPush
    <3>13. CASE Pull              BY <3>13 DEF Pull
    <3>14. CASE Push              BY <3>14 DEF Push
    <3>15. CASE ServerChanges     BY <3>15 DEF ServerChanges
    <3> QED
      BY <2>1, <3>1, <3>2, <3>3, <3>4, <3>5, <3>6, <3>7, <3>8, <3>9, <3>10,
         <3>11, <3>12, <3>13, <3>14, <3>15 DEF Quiet
  <2>2. CASE FetchReviewRequest BY <2>2 DEF FetchReviewRequest
  <2>3. CASE CheckApproval      BY <2>3 DEF CheckApproval
  <2>4. CASE VisitHead          BY <2>4 DEF VisitHead
  <2>5. CASE GraphBuilt         BY <2>5 DEF GraphBuilt
  <2>6. CASE SortStep           BY <2>6 DEF SortStep, landVars
  <2>7. CASE UNCHANGED vars     BY <2>7 DEF vars, landVars
  <2> QED BY <2>1, <2>2, <2>3, <2>4, <2>5, <2>6, <2>7, NextCases
<1>2. CASE pc' \notin Pushing
  BY <1>2 DEF CountOK
<1>3. CASE pc \in Pushing /\ UNCHANGED <<order, landed>>
  BY <1>3 DEF CountOK, DepCount, OnceInv
<1>4. CASE /\ pc \in {"report", "commit", "delete"}
           /\ order' = order /\ landed' = Append(landed, Root)
  <2>1. Len(landed) = DepCount /\ landed \in Seq(ReviewRequest)
    BY <1>4 DEF IInv, LandingOK
  <2>2. Len(landed') = DepCount + 1
    BY <1>4, <2>1, AppendProperties, LandAssumption
  <2> QED BY <1>4, <2>2 DEF CountOK, DepCount
<1> QED BY <1>1, <1>2, <1>3, <1>4

LEMMA OnceInvStep == OnceInv /\ IInv /\ [Next]_vars => OnceInv'
<1> SUFFICES ASSUME OnceInv, IInv, [Next]_vars PROVE OnceInv'
  OBVIOUS
<1> USE DEF Goto, Abort, sortVars, graphVars, serverVars
<1>0. GraphTypeOK /\ StageOK /\ LinksOK
  BY DEF IInv, OnceInv
<1>1. CASE \E rr \in links : FollowLink(rr)
  BY <1>1, FollowLinkOnce
<1>2. CASE ~(\E rr \in links : FollowLink(rr))
  <2>1. CountOK'
    BY <1>2, CountStep
  <2>2. UNCHANGED <<graph, setup>>
    <3>1. CASE Quiet       BY <3>1, QuietFrame
    <3>2. CASE SortStep
      BY <3>2 DEF SortStep, landVars, Sort, CountIndegrees, PopHead, Finish
    <3>3. CASE UNCHANGED vars
      BY <3>3 DEF vars, landVars
    <3> QED BY <1>2, <3>1, <3>2, <3>3, SortFrame, NextCases
  <2>3. \A rr \in ReviewRequest : Pending(rr)' <=> Pending(rr)
    <3>1. \A rr \in ReviewRequest : fetched'[Linked(rr)] = fetched[Linked(rr)]
      <4>1. CASE FetchReviewRequest
        BY <4>1, <1>0, Resources DEF FetchReviewRequest, GraphTypeOK
      <4>2. CASE ~FetchReviewRequest
        <5>1. CASE Quiet          BY <5>1, QuietFrame
        <5>2. CASE CheckApproval  BY <5>2 DEF CheckApproval
        <5>3. CASE VisitHead      BY <5>3 DEF VisitHead
        <5>4. CASE GraphBuilt     BY <5>4 DEF GraphBuilt
        <5>5. CASE SortStep       BY <5>5 DEF SortStep, landVars
        <5>6. CASE UNCHANGED vars BY <5>6 DEF vars, landVars
        <5> QED
          BY <1>2, <4>2, <5>1, <5>2, <5>3, <5>4, <5>5, <5>6, NextCases
      <4> QED BY <4>1, <4>2
    <3> QED BY <3>1 DEF Pending
  <2>4. LinksOK'
    <3>1. CASE Quiet
      <4>1. UNCHANGED <<unvisited, links, setup>> /\ (pc' = "graph" => pc = "graph")
        BY <1>0, <3>1, QuietFrame, QuietMoves
        DEF Moves, Cleared, IInv, SortInv, SortTypeOK
      <4> QED BY <1>0, <4>1 DEF LinksOK
    <3>2. CASE VisitHead
      BY <1>0, <3>2, VisitHeadEffect DEF LinksOK
    <3>3. CASE CheckApproval
      BY <1>0, <3>3 DEF CheckApproval, LinksOK, StageOK, Early
    <3>4. CASE FetchReviewRequest
      BY <3>4 DEF FetchReviewRequest, LinksOK
    <3>5. CASE GraphBuilt
      BY <3>5 DEF GraphBuilt, LinksOK
    <3>6. CASE SortStep
      BY <3>6 DEF SortStep, landVars, LinksOK
    <3>7. CASE UNCHANGED vars
      BY <1>0, <3>7 DEF vars, landVars, LinksOK
    <3> QED
      BY <1>2, <3>1, <3>2, <3>3, <3>4, <3>5, <3>6, <3>7, NextCases
  <2> QED BY <2>1, <2>2, <2>3, <2>4, GraphStays DEF OnceInv
<1> QED BY <1>1, <1>2

(* The inductive invariant of what is in the graph and in the list: every  *)
(* edge is a link to a pending request, every vertex is needed, and at the *)
(* push the list is as long as the sort.                                   *)
THEOREM OnceInvariant == Spec => []OnceInv
<1>1. Init => OnceInv
  BY OnceInvInit
<1> QED BY <1>1, OnceInvStep, LandInvariant, PTL DEF Spec

(* The sort behind its first vertex: what is planned, each once, and never *)
(* the request under its second name, for then it would wait for itself.   *)
LEMMA SortedPlan ==
  ASSUME IInv, OnceInv, setup.recursive, sorting = "sorted"
  PROVE  /\ \A m \in 2..Len(order) :
              /\ order[m] = Linked(Id(order[m]))
              /\ Id(order[m]) \in Planned
              /\ Id(order[m]) # Root
         /\ \A rr \in Planned : \E m \in 2..Len(order) : order[m] = Linked(rr)
<1>1. /\ order \in Seq(Resource) /\ Len(order) \in Nat
      /\ order # <<>> => order[1] = Self
      /\ HeadsBeforeTails /\ ReturnsEveryVertex
      /\ Vertices \subseteq Resource
  BY SortedIsComplete, ResourceFinite, VerticesInVertex, Resources
  DEF IInv, SortInv, SortTypeOK, OneSource
<1>2. \A m \in 1..Len(order) : order[m] \in Vertices
  BY DEF IInv, SortInv, HeadsAreFree, Placed
<1>3. \A m \in 2..Len(order) : m \in 1..Len(order) /\ order[1] = Self
                               /\ order[m] # Self /\ 1 \in 1..Len(order)
  BY <1>1 DEF HeadsBeforeTails
<1>4. \A x \in Resource : x # Self => x = Linked(Id(x))
  BY DEF Resource, Linked, Id
<1>5. ASSUME NEW m \in 2..Len(order)
      PROVE  order[m] = Linked(Id(order[m])) /\ Id(order[m]) \in Planned
  <2>1. order[m] \in Vertices /\ order[m] # Self /\ order[m] \in Resource
    BY <1>1, <1>2, <1>3
  <2>2. \A S \in SUBSET ReviewRequest : Closed(S) => Id(order[m]) \in S
    BY <2>1 DEF OnceInv, NeededOK
  <2>3. Id(order[m]) \in ReviewRequest
    BY <2>1, Resources
  <2> QED BY <2>1, <2>2, <2>3, <1>4 DEF Planned, Closed
(* If Linked(Root) were sorted, it would have an edge to the second vertex. *)
<1>6. ASSUME NEW m \in 2..Len(order), order[m] = Linked(Root)
      PROVE  FALSE
  <2>1. 2 \in 1..Len(order) /\ order[2] \in Vertices /\ order[2] # Self
    BY <1>1, <1>2, <1>3
  <2>2. EdgesInto(order[2]) # {}
    BY <2>1 DEF IInv, OneSource
  <2>3. PICK x \in DOMAIN graph : order[2] \in graph[x]
    BY <2>2 DEF EdgesInto
  <2>4. PICK i \in 1..Len(order) : order[i] = x
    BY <1>1, <2>3 DEF ReturnsEveryVertex, Vertices
  <2>5. order[2] \in Tails(x)
    BY <2>3 DEF Tails
  <2>6. x = Self
    BY <2>1, <2>4, <2>5, <1>1, <1>3 DEF HeadsBeforeTails
  <2>7. PICK q \in setup.depends_on[Root] :
          order[2] = Linked(q) /\ Pending(q)
    BY <2>3, <2>6, Resources DEF OnceInv, EdgesOK
  <2>8. Linked(Root) \in Vertices /\ Id(Linked(Root)) = Root
    BY <1>2, <1>3, <1>6, LandAssumption, Resources
  <2>9. order[2] \in Tails(Linked(Root))
    BY <2>7, <2>8, SortedDependency DEF Dependencies
  <2>10. m < 2
    BY <2>1, <2>9, <1>1, <1>3, <1>6 DEF HeadsBeforeTails
  <2> QED BY <2>10, <1>1
<1>7. ASSUME NEW rr \in Planned
      PROVE  \E m \in 2..Len(order) : order[m] = Linked(rr)
  <2>1. Linked(rr) \in Vertices /\ rr \in ReviewRequest
    BY PlannedIsSorted DEF Planned
  <2>2. PICK m \in 1..Len(order) : order[m] = Linked(rr)
    BY <1>1, <2>1 DEF ReturnsEveryVertex
  <2>3. m # 1
    BY <1>1, <2>1, <2>2, Resources
  <2> QED BY <1>1, <2>2, <2>3
<1> QED BY <1>5, <1>6, <1>7

(* A command that reaches the push has landed the request and all it       *)
(* depends on, each once, and the request last, all of it on the           *)
(* destination if it was started there.                                    *)
THEOREM LandsEachOnce == Spec => []LandsEverythingOnce
<1>1. IInv /\ OnceInv /\ OnDestination => LandsEverythingOnce
  <2> SUFFICES ASSUME IInv, OnceInv, OnDestination,
                      pc \in {"push", "pull", "upload", "done"}
               PROVE  /\ \A i, j \in 1..Len(landed) :
                           landed[i] = landed[j] => i = j
                      /\ {landed[i] : i \in 1..Len(landed)}
                           = Planned \cup {Root}
                      /\ landed[Len(landed)] = Root
    BY DEF LandsEverythingOnce
  <2>1. /\ Len(landed) = DepCount + 1 /\ DepCount \in Nat
        /\ Len(order) \in Nat
        /\ order # <<>> => Len(order) = DepCount + 1
        /\ order = <<>> => DepCount = 0
    BY DepCountType DEF OnceInv, CountOK, IInv, SortInv, DepCount
  <2>2. /\ landed[DepCount + 1] = Root
        /\ \A i \in 1..DepCount : landed[i] = Id(order[Len(order) + 1 - i])
    BY <2>1 DEF IInv, LandingOK
  <2>3. CASE ~setup.recursive
    <3>1. order = <<>>
      BY <2>3 DEF IInv, StageOK, SortInv, SortTypeOK
    <3>2. DepCount = 0
      BY <3>1, <2>1
    <3>3. Planned = {}
      <4>1. Closed({})
        BY <2>3 DEF Closed, Dependencies
      <4> QED BY <4>1 DEF Planned, Closed
    <3> QED BY <2>1, <2>2, <3>2, <3>3
  <2>4. CASE setup.recursive
    <3>1. sorting = "sorted"
      BY <2>4 DEF IInv, StageOK, Cleared
    <3>2. /\ \A m \in 2..Len(order) :
               /\ order[m] = Linked(Id(order[m]))
               /\ Id(order[m]) \in Planned
               /\ Id(order[m]) # Root
          /\ \A rr \in Planned :
               \E m \in 2..Len(order) : order[m] = Linked(rr)
      BY <2>4, <3>1, SortedPlan
    (* Position i of the list is position Len(order) + 1 - i of the sort.  *)
    <3>3. \A i \in 1..DepCount : Len(order) + 1 - i \in 2..Len(order)
      BY <2>1
    <3>4. \A i \in 1..DepCount :
            landed[i] \in Planned /\ landed[i] # Root
      BY <2>2, <3>2, <3>3
    <3>5. \A i, j \in 1..DepCount : landed[i] = landed[j] => i = j
      <4> SUFFICES ASSUME NEW i \in 1..DepCount, NEW j \in 1..DepCount,
                          landed[i] = landed[j]
                   PROVE  i = j
        OBVIOUS
      <4>1. order[Len(order) + 1 - i] = order[Len(order) + 1 - j]
        <5>1. /\ landed[i] = Id(order[Len(order) + 1 - i])
              /\ landed[j] = Id(order[Len(order) + 1 - j])
          BY <2>2
        <5>2. /\ order[Len(order) + 1 - i] = Linked(landed[i])
              /\ order[Len(order) + 1 - j] = Linked(landed[j])
          BY <3>2, <3>3, <5>1
        <5> QED BY <5>2
      <4>2. Len(order) + 1 - i = Len(order) + 1 - j
        <5>1. /\ Len(order) + 1 - i \in 2..Len(order)
              /\ Len(order) + 1 - j \in 2..Len(order)
          BY <3>3
        <5>2. \A a, b \in 1..Len(order) : order[a] = order[b] => a = b
          BY <2>1 DEF IInv, SortInv, HeadsBeforeTails
        <5> DEFINE a == Len(order) + 1 - i
                   b == Len(order) + 1 - j
        <5>3. a \in 1..Len(order) /\ b \in 1..Len(order)
          BY <5>1
        <5> QED BY <5>2, <5>3, <4>1
      <4> QED BY <4>2, <2>1
    <3>6. \A rr \in Planned : \E i \in 1..DepCount : landed[i] = rr
      <4> SUFFICES ASSUME NEW rr \in Planned
                   PROVE  \E i \in 1..DepCount : landed[i] = rr
        OBVIOUS
      <4>1. PICK m \in 2..Len(order) : order[m] = Linked(rr)
        BY <3>2
      <4>2. /\ Len(order) + 1 - m \in 1..DepCount
            /\ Len(order) + 1 - (Len(order) + 1 - m) = m
        BY <2>1, <4>1
      <4>3. landed[Len(order) + 1 - m] = Id(Linked(rr))
        BY <2>2, <4>1, <4>2
      <4>4. rr \in ReviewRequest
        BY DEF Planned
      <4> QED BY <4>2, <4>3, <4>4, Resources
    <3>7. 1..Len(landed) = 1..DepCount \cup {DepCount + 1}
      BY <2>1
    <3>8. \A i, j \in 1..Len(landed) : landed[i] = landed[j] => i = j
      BY <2>2, <3>4, <3>5, <3>7
    <3>9. {landed[i] : i \in 1..Len(landed)} = Planned \cup {Root}
      BY <2>2, <3>4, <3>6, <3>7
    <3> QED BY <2>1, <2>2, <3>8, <3>9
  <2> QED BY <2>3, <2>4
<1> QED BY <1>1, LandInvariant, OnceInvariant, LandsThere, PTL
=============================================================================
