--------------------------- MODULE ToposortProofs ---------------------------
(***************************************************************************)
(* toposort returns the vertices of any finite graph, each once, heads     *)
(* before tails.  The in-degree table alone does not say so: the inductive *)
(* invariant is that it counts, for every vertex, the edges from vertices  *)
(* that have not been output, and that heads are the vertices left without *)
(* such an edge.                                                           *)
(***************************************************************************)
EXTENDS Toposort, FiniteSetTheorems, TLAPS

Placed == {order[i] : i \in 1..Len(order)}

Unplaced(tail) == {head \in EdgesInto(tail) : head \notin Placed}

SortTypeOK ==
  /\ sorting \in {"idle", "popping", "sorted", "cyclic"}
  /\ order \in Seq(Vertex)
  /\ IsGraph(graph)
  /\ sorting = "idle" => order = <<>>

Counted ==
  sorting # "idle" =>
    /\ DOMAIN indegrees = Vertices
    /\ \A v \in Vertices : indegrees[v] = Cardinality(Unplaced(v))

HeadsAreFree ==
  sorting # "idle" =>
    /\ heads \subseteq Vertices
    /\ Placed \subseteq Vertices
    /\ heads \cap Placed = {}
    /\ \A v \in Vertices : Unplaced(v) = {} <=> v \in heads \cup Placed

SortedIsEmpty ==
  sorting = "sorted" => \A v \in Vertices : indegrees[v] = 0 /\ v \notin heads

SortInv ==
  /\ SortTypeOK
  /\ Counted
  /\ HeadsAreFree
  /\ SortedIsEmpty
  /\ HeadsBeforeTails

-----------------------------------------------------------------------------
LEMMA VerticesInVertex ==
  ASSUME IsGraph(graph)
  PROVE  Vertices \subseteq Vertex
BY DEF IsGraph, Vertices

LEMMA TailsAreVertices ==
  ASSUME IsGraph(graph), NEW v
  PROVE  Tails(v) \subseteq Vertices
BY DEF IsGraph, Vertices, Tails

LEMMA EdgesAreTails ==
  ASSUME NEW u, NEW v
  PROVE  u \in EdgesInto(v) <=> v \in Tails(u)
BY DEF EdgesInto, Tails

(* Only a vertex that is a key has tails, so edges leave vertices of the   *)
(* graph; the set of them is finite when there are finitely many vertices. *)
LEMMA FewEdges ==
  ASSUME IsFiniteSet(Vertex), IsGraph(graph), NEW v
  PROVE  /\ EdgesInto(v) \subseteq Vertices
         /\ IsFiniteSet(Unplaced(v))
         /\ IsFiniteSet(EdgesInto(v))
<1>1. EdgesInto(v) \subseteq Vertices
  BY DEF EdgesInto, Vertices
<1>2. EdgesInto(v) \subseteq Vertex /\ Unplaced(v) \subseteq Vertex
  BY <1>1, VerticesInVertex DEF Unplaced
<1> QED
  BY <1>1, <1>2, FS_Subset

(* What outputting one more vertex does to the edges that are left. *)
LEMMA PlaceOne ==
  ASSUME NEW h \in Vertex, order \in Seq(Vertex),
         order' = Append(order, h), graph' = graph
  PROVE  /\ Placed' = Placed \cup {h}
         /\ Vertices' = Vertices
         /\ \A v : Tails(v)' = Tails(v)
         /\ \A v : Unplaced(v)' = Unplaced(v) \ {h}
<1>1. /\ Len(order') = Len(order) + 1
      /\ \A i \in 1..Len(order) : order'[i] = order[i]
      /\ order'[Len(order) + 1] = h
      /\ Len(order) \in Nat
  OBVIOUS
<1>2. Placed' = Placed \cup {h}
  <2>1. \A x \in Placed' : x \in Placed \cup {h}
    BY <1>1 DEF Placed
  <2>2. \A x \in Placed : x \in Placed'
    BY <1>1 DEF Placed
  <2>3. h \in Placed'
    BY <1>1 DEF Placed
  <2> QED BY <2>1, <2>2, <2>3
<1>3. Vertices' = Vertices /\ \A v : Tails(v)' = Tails(v)
  BY DEF Vertices, Tails
<1>4. \A v : EdgesInto(v)' = EdgesInto(v)
  BY DEF EdgesInto
<1>5. \A v : Unplaced(v)' = Unplaced(v) \ {h}
  BY <1>2, <1>4 DEF Unplaced
<1> QED BY <1>2, <1>3, <1>5

-----------------------------------------------------------------------------
LEMMA SortInitOK == SortInit => SortInv
<1> SUFFICES ASSUME SortInit PROVE SortInv
  OBVIOUS
<1>1. order \in Seq(Vertex) /\ Len(order) = 0
  BY DEF SortInit
<1>2. SortTypeOK
  BY <1>1 DEF SortInit, SortTypeOK, IsGraph, NoEdges
<1>3. HeadsBeforeTails
  BY <1>1 DEF HeadsBeforeTails
<1> QED
  BY <1>2, <1>3 DEF SortInit, SortInv, Counted, HeadsAreFree, SortedIsEmpty

LEMMA BuildGraphOK == SortInv /\ BuildGraph => SortInv'
<1> SUFFICES ASSUME SortInv, BuildGraph PROVE SortInv'
  OBVIOUS
<1>1. sorting = "idle" /\ sorting' = "idle" /\ order = <<>> /\ order' = <<>>
  BY DEF SortInv, SortTypeOK, BuildGraph
<1>2. SortTypeOK'
  BY <1>1 DEF SortInv, SortTypeOK, BuildGraph, IsGraph
<1>3. HeadsBeforeTails'
  BY <1>1 DEF HeadsBeforeTails
<1> QED
  BY <1>1, <1>2, <1>3 DEF SortInv, Counted, HeadsAreFree, SortedIsEmpty

LEMMA CountIndegreesOK ==
  ASSUME IsFiniteSet(Vertex), SortInv, CountIndegrees
  PROVE  SortInv'
<1>1. /\ sorting' = "popping" /\ graph' = graph
      /\ order = <<>> /\ order' = <<>> /\ IsGraph(graph)
  BY DEF SortInv, SortTypeOK, CountIndegrees
<1>2. Placed' = {} /\ Len(order') = 0
  BY <1>1 DEF Placed
<1>3. /\ Vertices' = Vertices
      /\ \A v : EdgesInto(v)' = EdgesInto(v)
  BY <1>1 DEF Vertices, EdgesInto
<1>4. \A v : Unplaced(v)' = EdgesInto(v)
  BY <1>2, <1>3 DEF Unplaced
<1>5. /\ indegrees' = [v \in Vertices |-> Cardinality(EdgesInto(v))]
      /\ heads' = {v \in Vertices : indegrees'[v] = 0}
  BY DEF CountIndegrees
<1>6. SortTypeOK'
  BY <1>1 DEF SortTypeOK, SortInv, IsGraph
<1>7. Counted'
  BY <1>3, <1>4, <1>5 DEF Counted
<1>8. HeadsAreFree'
  <2>1. \A v \in Vertices : EdgesInto(v) = {} <=> v \in heads'
    BY <1>1, <1>5, FewEdges, FS_EmptySet
  <2> QED
    BY <2>1, <1>2, <1>3, <1>4, <1>5 DEF HeadsAreFree
<1>9. HeadsBeforeTails'
  BY <1>2 DEF HeadsBeforeTails
<1> QED
  BY <1>1, <1>6, <1>7, <1>8, <1>9 DEF SortInv, SortedIsEmpty

LEMMA PopHeadOK ==
  ASSUME IsFiniteSet(Vertex), SortInv, NEW h \in heads, PopHead(h)
  PROVE  SortInv'
<1>1. /\ sorting = "popping" /\ sorting' = "popping" /\ graph' = graph
      /\ IsGraph(graph) /\ order \in Seq(Vertex) /\ order' = Append(order, h)
  BY DEF SortInv, SortTypeOK, PopHead
<1>2. /\ heads \subseteq Vertices /\ Placed \subseteq Vertices
      /\ heads \cap Placed = {}
      /\ \A v \in Vertices : Unplaced(v) = {} <=> v \in heads \cup Placed
  BY <1>1 DEF SortInv, HeadsAreFree
<1>3. /\ DOMAIN indegrees = Vertices
      /\ \A v \in Vertices : indegrees[v] = Cardinality(Unplaced(v))
  BY <1>1 DEF SortInv, Counted
<1>4. h \in Vertex /\ h \in Vertices
  BY <1>1, <1>2, VerticesInVertex
<1>5. /\ Placed' = Placed \cup {h}
      /\ Vertices' = Vertices
      /\ \A v : Tails(v)' = Tails(v)
      /\ \A v : Unplaced(v)' = Unplaced(v) \ {h}
  BY <1>1, <1>4, PlaceOne
(* The edges that leave h are left until now, so its tails are not output. *)
<1>6. \A v : v \in Tails(h) <=> h \in Unplaced(v)
  BY <1>2, EdgesAreTails DEF Unplaced
<1>7. \A v \in Tails(h) : v \in Vertices /\ v \notin heads \cup Placed
  BY <1>1, <1>2, <1>6, TailsAreVertices
<1>8. \A v \in Vertices : indegrees'[v] = Cardinality(Unplaced(v)')
  <2> SUFFICES ASSUME NEW v \in Vertices
               PROVE  indegrees'[v] = Cardinality(Unplaced(v)')
    OBVIOUS
  <2>1. indegrees'[v] = IF v \in Tails(h) THEN indegrees[v] - 1
                                          ELSE indegrees[v]
    BY <1>3 DEF PopHead
  <2>2. CASE v \in Tails(h)
    <3>1. Cardinality(Unplaced(v) \ {h}) = Cardinality(Unplaced(v)) - 1
      BY <2>2, <1>1, <1>6, FewEdges, FS_RemoveElement
    <3> QED BY <3>1, <2>1, <2>2, <1>3, <1>5
  <2>3. CASE v \notin Tails(h)
    <3>1. Unplaced(v) \ {h} = Unplaced(v)
      BY <2>3, <1>6
    <3> QED BY <3>1, <2>1, <2>3, <1>3, <1>5
  <2> QED BY <2>2, <2>3
<1>9. Counted'
  <2>1. DOMAIN indegrees' = Vertices
    BY <1>3 DEF PopHead
  <2> QED BY <2>1, <1>5, <1>8 DEF Counted
<1>10. heads' = (heads \ {h}) \cup {t \in Tails(h) : Unplaced(t)' = {}}
  <2>1. \A t \in Tails(h) : indegrees'[t] = 0 <=> Unplaced(t)' = {}
    <3> SUFFICES ASSUME NEW t \in Tails(h)
                 PROVE  indegrees'[t] = 0 <=> Unplaced(t)' = {}
      OBVIOUS
    <3>1. IsFiniteSet(Unplaced(t)')
      BY <1>1, <1>5, FewEdges, FS_Subset
    <3> QED BY <3>1, <1>7, <1>8, FS_EmptySet
  <2> QED BY <2>1 DEF PopHead
<1>11. HeadsAreFree'
  <2>1. \A v \in Vertices : Unplaced(v)' = {} <=> v \in heads' \cup Placed'
    <3> SUFFICES ASSUME NEW v \in Vertices
                 PROVE Unplaced(v)' = {} <=> v \in heads' \cup Placed'
      OBVIOUS
    <3>1. CASE v \in Tails(h)
      BY <3>1, <1>5, <1>7, <1>10
    <3>2. CASE v \notin Tails(h)
      <4>1. Unplaced(v)' = Unplaced(v)
        BY <3>2, <1>5, <1>6
      <4> QED BY <4>1, <3>2, <1>2, <1>5, <1>10
    <3> QED BY <3>1, <3>2
  <2>2. heads' \subseteq Vertices /\ heads' \cap Placed' = {}
    BY <1>2, <1>5, <1>7, <1>10
  <2> QED BY <2>1, <2>2, <1>2, <1>4, <1>5 DEF HeadsAreFree
<1>12. SortTypeOK'
  BY <1>1, <1>4 DEF SortTypeOK, IsGraph
<1>13. HeadsBeforeTails'
  <2>1. HeadsBeforeTails
    BY DEF SortInv
  <2>2. /\ Len(order') = Len(order) + 1 /\ Len(order) \in Nat
        /\ \A i \in 1..Len(order) : order'[i] = order[i] /\ order[i] \in Placed
        /\ order'[Len(order) + 1] = h
    BY <1>1, <1>4 DEF Placed
  <2>3. h \notin Placed /\ \A v \in Placed \cup {h} : v \notin Tails(h)
    BY <1>2, <1>7
  <2> SUFFICES ASSUME NEW i \in 1..Len(order'), NEW j \in 1..Len(order')
               PROVE  /\ order'[i] = order'[j] => i = j
                      /\ order'[j] \in Tails(order'[i]) => i < j
    BY <1>5 DEF HeadsBeforeTails
  <2>4. CASE i \in 1..Len(order) /\ j \in 1..Len(order)
    BY <2>1, <2>2, <2>4 DEF HeadsBeforeTails
  <2>5. CASE i = Len(order) + 1
    BY <2>2, <2>3, <2>5
  <2>6. CASE i \in 1..Len(order) /\ j = Len(order) + 1
    BY <2>2, <2>3, <2>6
  <2> QED BY <2>2, <2>4, <2>5, <2>6
<1> QED
  BY <1>1, <1>9, <1>11, <1>12, <1>13 DEF SortInv, SortedIsEmpty

LEMMA FinishOK ==
  ASSUME SortInv, Finish
  PROVE  SortInv'
<1>1. UNCHANGED <<graph, indegrees, heads, order>> /\ sorting = "popping"
  BY DEF Finish
<1>2. /\ Vertices' = Vertices /\ Placed' = Placed
      /\ \A v : Unplaced(v)' = Unplaced(v) /\ Tails(v)' = Tails(v)
  BY <1>1 DEF Vertices, Placed, Unplaced, Tails, EdgesInto
<1>3. SortTypeOK'
  BY <1>1 DEF SortInv, SortTypeOK, Finish, IsGraph
<1>4. Counted' /\ HeadsAreFree'
  BY <1>1, <1>2 DEF SortInv, Counted, HeadsAreFree
<1>5. SortedIsEmpty'
  BY <1>1, <1>2 DEF SortInv, Counted, SortedIsEmpty, Finish
<1>6. HeadsBeforeTails'
  BY <1>1, <1>2 DEF SortInv, HeadsBeforeTails
<1> QED BY <1>3, <1>4, <1>5, <1>6 DEF SortInv

LEMMA SortStepOK ==
  ASSUME IsFiniteSet(Vertex), SortInv, [BuildGraph \/ Sort]_sortVars
  PROVE  SortInv'
<1>1. CASE BuildGraph
  BY <1>1, BuildGraphOK
<1>2. CASE CountIndegrees
  BY <1>2, CountIndegreesOK
<1>3. ASSUME NEW h \in heads, PopHead(h) PROVE SortInv'
  BY <1>3, PopHeadOK
<1>4. CASE Finish
  BY <1>4, FinishOK
<1>5. CASE UNCHANGED sortVars
  <2>1. UNCHANGED <<graph, indegrees, heads, order, sorting>>
    BY <1>5 DEF sortVars
  <2>2. /\ Vertices' = Vertices /\ Placed' = Placed
        /\ \A v : Unplaced(v)' = Unplaced(v) /\ Tails(v)' = Tails(v)
    BY <2>1 DEF Vertices, Placed, Unplaced, Tails, EdgesInto
  <2> QED
    BY <2>1, <2>2 DEF SortInv, SortTypeOK, Counted, HeadsAreFree,
                      SortedIsEmpty, HeadsBeforeTails, IsGraph
<1> QED
  BY <1>1, <1>2, <1>3, <1>4, <1>5 DEF Sort

-----------------------------------------------------------------------------
(* The invariant, for every finite set of vertices and every graph the     *)
(* caller may build.                                                       *)
THEOREM SortInvariant ==
  ASSUME IsFiniteSet(Vertex)
  PROVE  SortSpec => []SortInv
<1>1. SortInit => SortInv
  BY SortInitOK
<1>2. SortInv /\ [BuildGraph \/ Sort]_sortVars => SortInv'
  BY SortStepOK
<1> QED BY <1>1, <1>2, PTL DEF SortSpec

(* toposort outputs no vertex twice and none before one with an edge to it *)
THEOREM SortIsTopological ==
  ASSUME IsFiniteSet(Vertex)
  PROVE  SortSpec => []HeadsBeforeTails
<1>1. SortInv => HeadsBeforeTails
  BY DEF SortInv
<1> QED BY <1>1, SortInvariant, PTL

(* When it returns, every vertex is in what it returns *)
LEMMA SortedIsComplete ==
  ASSUME IsFiniteSet(Vertex), SortInv
  PROVE  ReturnsEveryVertex
<1> SUFFICES ASSUME sorting = "sorted", NEW v \in Vertices
             PROVE  v \in Placed
  BY DEF ReturnsEveryVertex, Placed
<1>1. Cardinality(Unplaced(v)) = 0 /\ v \notin heads
  BY DEF SortInv, Counted, SortedIsEmpty
<1>2. Unplaced(v) = {}
  BY <1>1, FewEdges, FS_EmptySet DEF SortInv, SortTypeOK
<1> QED BY <1>1, <1>2 DEF SortInv, HeadsAreFree

THEOREM SortIsComplete ==
  ASSUME IsFiniteSet(Vertex)
  PROVE  SortSpec => []ReturnsEveryVertex
<1>1. SortInv => ReturnsEveryVertex
  BY SortedIsComplete
<1> QED BY <1>1, SortInvariant, PTL
=============================================================================
