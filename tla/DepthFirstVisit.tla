---------------------------- MODULE DepthFirstVisit ----------------------------
(* Boost's depth_first_visit with the visitor of build_order, over a graph    *)
(* that grows while it is walked: discovering a node with a task runs the     *)
(* scanners of the task, which add edges.  A node is a number, its address:   *)
(* out-edge lists are ordered by it, and iterators over them stay valid when  *)
(* edges are inserted.  What scanning does is up to the modules that extend   *)
(* this one.  An operator named Bug... is a faulty variant of the definition  *)
(* below it.                                                                  *)
EXTENDS Naturals, Sequences, FiniteSets, FiniteSetsExt

CONSTANTS
  M,           \* number of nodes
  Goal         \* the end goal, a node without task

Vertices == 1 .. M

ASSUME VerticesAssumption == M \in Nat /\ Goal \in Vertices

End == M + 1     \* the end iterator of an edge list

VARIABLES
  out,       \* out-edges of each node
  color,     \* "white", "gray", "black"
  stack,     \* depth_first_visit: the node and the next edge of each frame, top first
  scanned,   \* discover_vertex: the edge being scanned, 0 before the first, End after the last
  order,     \* BuildOrder
  thrown     \* not_a_dag

walkVars == <<color, stack, scanned, order, thrown>>

\* The next edge of n's list after v.
NextEdge(n, v) ==
  LET later == { w \in out[n] : w > v } IN IF later = {} THEN End ELSE Min(later)

Node == stack[1].node

\* The walk begins at the end goal, which has nothing to scan.
StartAtGoal == [node |-> Goal, next |-> 0]

Discovering == scanned # End

Walking == ~thrown /\ ~Discovering /\ stack # <<>>

\* The edge the top frame looks at; a frame starts with the first one, once its
\* node has been scanned.
Looking == IF stack[1].next = 0 THEN NextEdge(Node, 0) ELSE stack[1].next

BugEdgesTakenBeforeScan(hasTask) ==
  /\ Walking /\ Looking # End
  /\ color[Looking] = "white"
  /\ color' = [color EXCEPT ![Looking] = "gray"]
  /\ stack' = <<[node |-> Looking, next |-> NextEdge(Looking, 0)],
                [node |-> Node, next |-> NextEdge(Node, Looking)]>> \o Tail(stack)
  /\ scanned' = IF Looking \in hasTask THEN 0 ELSE End
  /\ UNCHANGED <<out, order, thrown>>

\* A white node is discovered; the frame below resumes at the edge that follows now.
TreeEdge(hasTask) ==
  /\ Walking /\ Looking # End
  /\ color[Looking] = "white"
  /\ color' = [color EXCEPT ![Looking] = "gray"]
  /\ stack' = <<[node |-> Looking, next |-> 0],
                [node |-> Node, next |-> NextEdge(Node, Looking)]>> \o Tail(stack)
  /\ scanned' = IF Looking \in hasTask THEN 0 ELSE End
  /\ UNCHANGED <<out, order, thrown>>

BugOnlySelfLoops == Looking = Node

IsBackEdge == color[Looking] = "gray"

BackEdge ==
  /\ Walking /\ Looking # End
  /\ IsBackEdge
  /\ thrown' = TRUE
  /\ UNCHANGED <<out, color, stack, scanned, order>>

BugEdgeNotPassed ==
  /\ Walking /\ Looking # End
  /\ color[Looking] # "white" /\ ~IsBackEdge
  /\ stack' = [stack EXCEPT ![1].next = Looking]
  /\ UNCHANGED <<out, color, scanned, order, thrown>>

ForwardEdge ==
  /\ Walking /\ Looking # End
  /\ color[Looking] # "white" /\ ~IsBackEdge
  /\ stack' = [stack EXCEPT ![1].next = NextEdge(Node, Looking)]
  /\ UNCHANGED <<out, color, scanned, order, thrown>>

FinishVertex ==
  /\ Walking /\ Looking = End
  /\ color' = [color EXCEPT ![Node] = "black"]
  /\ order' = Append(order, Node)
  /\ stack' = Tail(stack)
  /\ UNCHANGED <<out, scanned, thrown>>

Visit(hasTask) == TreeEdge(hasTask) \/ BackEdge \/ ForwardEdge \/ FinishVertex

-------------------------------------------------------------------------------
(* What a build order should be. *)

Pairs(rel, n) == { e[2] : e \in { e \in rel : e[1] = n } }

\* The nodes reachable from those of S along rel.
ReachableFrom(S, rel) ==
  CHOOSE R \in SUBSET Vertices :
    /\ S \subseteq R /\ \A n \in R : Pairs(rel, n) \subseteq R
    /\ \A Q \in SUBSET Vertices :
         S \subseteq Q /\ (\A n \in Q : Pairs(rel, n) \subseteq Q) => R \subseteq Q

Edges == { e \in Vertices \X Vertices : e[2] \in out[e[1]] }

\* The graph with nodes numbered in build order, which is how Taskmaster takes it.
Renumbered ==
  [i \in 1 .. Len(order) |-> { j \in 1 .. Len(order) : order[j] \in out[order[i]] }]

G == INSTANCE BuildGraph WITH N <- Len(order)

\* What parallel_build relies on (taskmaster.cpp:217 looks every dependency up in
\* the build order and never tests for its absence): the order is closed, the
\* edges found while walking included, lists nothing twice and ends with the goal;
\* and it is one of the orders Taskmaster is checked and proved for.
IsBuildOrder ==
  /\ { order[i] : i \in DOMAIN order } = ReachableFrom({Goal}, Edges)
  /\ \A i, j \in DOMAIN order : order[i] = order[j] => i = j
  /\ order[Len(order)] = Goal
  /\ Renumbered \in G!BuildOrders
===============================================================================
