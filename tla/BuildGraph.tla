------------------------------ MODULE BuildGraph ------------------------------
(* The dependency graph as the task loop sees it.  A build order numbers the *)
(* nodes 1..N in the order depth_first_visit finishes them, so the end goal  *)
(* is N and every dependency has a smaller number.                           *)
EXTENDS Naturals

CONSTANT N

ASSUME NAssumption == N \in Nat \ {0}

Nodes == 1 .. N

Topological(deps) ==
  /\ deps \in [Nodes -> SUBSET Nodes]
  /\ \A n \in Nodes : deps[n] \subseteq 1 .. (n - 1)

\* Only what the end goal reaches is in the order: everything else has a dependent.
Reachable(deps) == \A n \in 1 .. (N - 1) : \E m \in Nodes : m > n /\ n \in deps[m]

\* parent[n] is the node from which the search discovered n; a subtree is
\* finished before its root, so the intervals n .. parent[n] nest.
IsSearchTree(parent, deps) ==
  \A n \in 1 .. (N - 1) :
    /\ parent[n] > n
    /\ n \in deps[parent[n]]
    /\ \A m \in (n + 1) .. (parent[n] - 1) : parent[m] <= parent[n]

\* The dependency relations whose nodes a depth-first search can finish in the order 1..N.
BuildOrders ==
  { deps \in [Nodes -> SUBSET Nodes] :
      /\ Topological(deps)
      /\ Reachable(deps)
      /\ \E parent \in [1 .. (N - 1) -> Nodes] : IsSearchTree(parent, deps) }
===============================================================================
