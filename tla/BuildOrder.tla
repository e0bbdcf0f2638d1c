------------------------------ MODULE BuildOrder ------------------------------
(* build_order of taskmaster.cpp for tasks that scan for includes: the walk   *)
(* of DepthFirstVisit, where discovering a node scans its sources (scan_cpp)  *)
(* and every include found becomes an edge of that node.  One action is one   *)
(* edge examined, one source scanned or one include looked up.  An operator   *)
(* named Bug... is a faulty variant of the definition below it.               *)
EXTENDS DepthFirstVisit

CONSTANTS
  EdgeSets,    \* the edges the build script may have made, as sets of pairs
  IncludeSets  \* which file includes which, as sets of pairs

ASSUME SetsAssumption ==
  /\ EdgeSets \subseteq SUBSET (Vertices \X Vertices)
  /\ IncludeSets \subseteq SUBSET (Vertices \X Vertices)

VARIABLES
  declared, includes, hasTask,   \* inputs
  scanning   \* the calls of scan_cpp under way: the includes each has still to look up, top first

inputs == <<declared, includes, hasTask>>
vars == <<inputs, out, walkVars, scanning>>

Init ==
  /\ declared \in EdgeSets
  /\ includes \in IncludeSets
  /\ hasTask \in SUBSET (Vertices \ {Goal})
  /\ out = [n \in Vertices |-> Pairs(declared, n)]
  /\ color = [n \in Vertices |-> IF n = Goal THEN "gray" ELSE "white"]
  /\ stack = <<StartAtGoal>>
  /\ scanned = End /\ scanning = <<>>
  /\ order = <<>> /\ thrown = FALSE

-------------------------------------------------------------------------------
(* discover_vertex. *)

\* The loop over the sources comes to its next one and calls scan_cpp.
ScanSource ==
  /\ ~thrown /\ Discovering /\ scanning = <<>>
  /\ scanned' = NextEdge(Node, scanned)
  /\ scanning' = IF scanned' = End THEN <<>> ELSE <<Pairs(includes, scanned')>>
  /\ UNCHANGED <<inputs, out, color, stack, order, thrown>>

BugNoRecursion(file) == [scanning EXCEPT ![1] = @ \ {file}]

\* The call for an included file: made only when its edge is new.
Recurse(file) ==
  LET rest == [scanning EXCEPT ![1] = @ \ {file}] IN
  IF file \in out[Node] THEN rest ELSE <<Pairs(includes, file)>> \o rest

LookUp(file) ==
  /\ ~thrown /\ scanning # <<>>
  /\ file \in scanning[1]
  /\ out' = [out EXCEPT ![Node] = @ \cup {file}]
  /\ scanning' = Recurse(file)
  /\ UNCHANGED <<inputs, walkVars>>

EndScan ==
  /\ ~thrown /\ scanning # <<>>
  /\ scanning[1] = {}
  /\ scanning' = Tail(scanning)
  /\ UNCHANGED <<inputs, out, walkVars>>

-------------------------------------------------------------------------------
Done == (thrown \/ stack = <<>>) /\ UNCHANGED vars

Discover == ScanSource \/ EndScan \/ \E file \in Vertices : LookUp(file)

Walk == Visit(hasTask) /\ UNCHANGED <<inputs, scanning>>

Next == Discover \/ Walk \/ Done

Spec == Init /\ [][Next]_vars

\* One thread runs the walk.
FairSpec == Spec /\ WF_vars(Discover \/ Walk)

-------------------------------------------------------------------------------
(* Properties. *)

Returned == stack = <<>>

OnCycle(n) == n \in ReachableFrom(out[n], Edges)

\* What build_order returns is what parallel_build relies on, the edges that scans
\* inserted during the walk included (taskmaster.cpp:86-94, 217).
OrderIsRight == Returned => IsBuildOrder

\* not_a_dag (taskmaster.cpp:85) is thrown exactly for the graphs that have a cycle
\* below the goal, a cycle made by includes too.
ThrownForCycles ==
  /\ thrown => \E n \in ReachableFrom({Goal}, Edges) : OnCycle(n)
  /\ Returned => \A n \in ReachableFrom({Goal}, Edges) : ~OnCycle(n)

\* A node in the build order depends on everything its dependencies include,
\* directly or not, although scan_cpp.cpp:107 recurses only into new edges and
\* taskmaster.cpp:91 inserts into the list it iterates over; and on nothing else.
IncludesAreDependencies ==
  \A i \in DOMAIN order :
    LET n == order[i] IN
    out[n] = IF n \in hasTask THEN ReachableFrom(Pairs(declared, n), includes)
             ELSE Pairs(declared, n)

\* The walk ends for every graph and circular includes ("to prevent infinite
\* recursion in case of circular includes", scan_cpp.cpp:107).
Terminates == <>(thrown \/ Returned)
===============================================================================
