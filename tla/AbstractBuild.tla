---------------------------- MODULE AbstractBuild ----------------------------
(* What a parallel build promises, whatever queues and locks implement it:   *)
(* a node starts or is skipped only when everything it depends on is built,  *)
(* at most Slots commands run at once, a failure reaches only dependents,    *)
(* and a node that has an outcome keeps it.                                  *)
EXTENDS Naturals, FiniteSets

CONSTANTS Nodes, Unlimited, Slots

VARIABLES deps, status

vars == <<deps, status>>

TypeOK ==
  /\ deps \in [Nodes -> SUBSET Nodes]
  /\ status \in [Nodes -> {"waiting", "running", "built", "failed"}]

Running == { n \in Nodes : status[n] = "running" }

DepsBuilt(n) == \A d \in deps[n] : status[d] = "built"

Become(n, s) == status' = [status EXCEPT ![n] = s] /\ UNCHANGED deps

Init ==
  /\ deps \in [Nodes -> SUBSET Nodes]
  /\ status = [n \in Nodes |-> "waiting"]

Start(n) ==
  /\ status[n] = "waiting"
  /\ DepsBuilt(n)
  /\ Slots # Unlimited => Cardinality(Running) < Slots
  /\ Become(n, "running")

Skip(n) == status[n] = "waiting" /\ DepsBuilt(n) /\ Become(n, "built")

Finish(n, s) == status[n] = "running" /\ Become(n, s)

Propagate(n) ==
  /\ status[n] = "waiting"
  /\ \E d \in deps[n] : status[d] = "failed"
  /\ Become(n, "failed")

Next ==
  \E n \in Nodes :
    \/ Start(n) \/ Skip(n) \/ Propagate(n)
    \/ \E s \in {"built", "failed"} : Finish(n, s)

Spec == Init /\ [][Next]_vars
==============================================================================
