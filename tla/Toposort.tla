----------------------------- MODULE Toposort -----------------------------
(***************************************************************************)
(* rbtools.utils.graphs.toposort: Kahn's algorithm as the code runs it.    *)
(*                                                                         *)
(* A graph is a dictionary from a head to the set of its tails; a vertex   *)
(* without tails need not be a key.  "heads" is a Python set whose pop()   *)
(* returns any member.  The caller owns the dictionary until it calls.     *)
(***************************************************************************)
EXTENDS Naturals, Sequences, FiniteSets

CONSTANT Vertex

VARIABLES
  graph,      \* the argument: head -> set of tails
  indegrees,  \* the in-degree of each vertex, less the edges removed so far
  heads,      \* vertices with no edge into them left
  order,      \* "result", the vertices returned
  sorting     \* "idle" | "popping" | "sorted" | "cyclic" (ValueError raised)

sortVars == <<graph, indegrees, heads, order, sorting>>

IsGraph(g) ==
  /\ DOMAIN g \subseteq Vertex
  /\ \A v \in DOMAIN g : g[v] \subseteq Vertex

NoEdges == [v \in {} |-> {}]

(* graph[head] if head in graph, else nothing to visit *)
Tails(head) == IF head \in DOMAIN graph THEN graph[head] ELSE {}

Vertices == DOMAIN graph \cup UNION {graph[head] : head \in DOMAIN graph}

EdgesInto(tail) == {head \in DOMAIN graph : tail \in graph[head]}

SortInit ==
  /\ graph = NoEdges
  /\ indegrees = [v \in {} |-> 0]
  /\ heads = {}
  /\ order = <<>>
  /\ sorting = "idle"

(* The caller puts edges in the dictionary before it calls toposort *)
BuildGraph ==
  /\ sorting = "idle"
  /\ IsGraph(graph')
  /\ UNCHANGED <<indegrees, heads, order, sorting>>

(* The call: count the in-degrees and collect the vertices with none *)
CountIndegrees ==
  /\ sorting = "idle"
  /\ indegrees' = [v \in Vertices |-> Cardinality(EdgesInto(v))]
  /\ heads' = {v \in Vertices : indegrees'[v] = 0}
  /\ sorting' = "popping"
  /\ UNCHANGED <<graph, order>>

(* Every tail of the head becomes a head, other edges into it or not. *)
MutantPopHead(head) ==
  /\ sorting = "popping"
  /\ head \in heads
  /\ order' = Append(order, head)
  /\ indegrees' = [v \in DOMAIN indegrees |->
                     IF v \in Tails(head) THEN indegrees[v] - 1
                                          ELSE indegrees[v]]
  /\ heads' = (heads \ {head}) \cup Tails(head)
  /\ UNCHANGED <<graph, sorting>>

(* One turn of the loop: output a head, remove its edges, and collect the  *)
(* tails whose last incoming edge that was.                                *)
PopHead(head) ==
  /\ sorting = "popping"
  /\ head \in heads
  /\ order' = Append(order, head)
  /\ indegrees' = [v \in DOMAIN indegrees |->
                     IF v \in Tails(head) THEN indegrees[v] - 1
                                          ELSE indegrees[v]]
  /\ heads' = (heads \ {head}) \cup
              {tail \in Tails(head) : indegrees'[tail] = 0}
  /\ UNCHANGED <<graph, sorting>>

(* No heads left: edges that are still there lie on, or behind, a cycle *)
Finish ==
  /\ sorting = "popping"
  /\ heads = {}
  /\ sorting' = IF \E v \in DOMAIN indegrees : indegrees[v] # 0
                  THEN "cyclic" ELSE "sorted"
  /\ UNCHANGED <<graph, indegrees, heads, order>>

Sort == CountIndegrees \/ (\E head \in heads : PopHead(head)) \/ Finish

SortSpec == SortInit /\ [][BuildGraph \/ Sort]_sortVars

-----------------------------------------------------------------------------
(* No vertex is output twice and none before a vertex that has an edge to   *)
(* it: "a topological sorting of the vertices in the directed graph".       *)
HeadsBeforeTails ==
  \A i, j \in 1..Len(order) :
    /\ order[i] = order[j] => i = j
    /\ order[j] \in Tails(order[i]) => i < j

(* What the function returns, when it returns, holds every vertex *)
ReturnsEveryVertex ==
  sorting = "sorted" =>
    \A v \in Vertices : \E i \in 1..Len(order) : order[i] = v
=============================================================================
