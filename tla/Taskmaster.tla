------------------------------ MODULE Taskmaster ------------------------------
(* parallel_build of taskmaster.cpp: the main thread walks the build order    *)
(* again and again, starting one detached thread per job, and JobServer       *)
(* carries the results back.  One action is what a thread does between two    *)
(* points where another thread can be seen: a critical section of             *)
(* num_scheduled_jobs_mutex, the unlocked read of have_free_slots, or one     *)
(* node of the pass.  The graph, the tasks and the recorded statuses are      *)
(* inputs: Init chooses them.  An operator named Bug... is a faulty variant   *)
(* of the definition below it: nothing uses it, and a run in which it takes   *)
(* that definition's place must violate a property.                           *)
EXTENDS BuildGraph, FiniteSets, Sequences

CONSTANTS
  Tasks, NoTask,
  ByTimestamp,          \* the tasks decided by timestamp_pure_decider (the Makefile's)
  Unlimited,            \* num_jobs holds no value (-j without an argument)
  JobsOption,           \* the value of -j
  HardwareConcurrency,  \* std::thread::hardware_concurrency()
  KeepGoing, AlwaysBuild,
  MayThrow              \* deciding or starting a job may throw

ASSUME ConstantsAssumption ==
  /\ NoTask \notin Tasks
  /\ ByTimestamp \subseteq Tasks
  /\ Unlimited \notin Nat
  /\ JobsOption \in Nat \cup {Unlimited}
  /\ HardwareConcurrency \in Nat
  /\ {KeepGoing, AlwaysBuild, MayThrow} \subseteq BOOLEAN

VARIABLES
  deps, task,   \* inputs: out-edges, and the task of each BuildOrderEntry
  state,        \* BuildOrderEntry::state
  pc,           \* where the main thread is
  cursor,       \* the node the pass looks at
  results,      \* what the main thread has moved out of resultVec
  resultVec, numScheduled,   \* JobServer
  job,          \* the thread started for a node and its result
  statusOk,     \* nodes whose in-memory task_status is 0
  jobCounter

inputs == <<deps, task>>
mainVars == <<state, pc, cursor, results, statusOk, jobCounter>>
serverVars == <<resultVec, numScheduled, job>>
vars == <<inputs, mainVars, serverVars>>

States == {"TO_BUILD", "BLOCKED", "SCHEDULED", "BUILT", "FAILED"}
Ended == {"returned", "failed", "aborted"}
MainPoints ==
  {"loop", "wait", "asleep", "collect", "scan", "slots", "drain", "drainAsleep"} \cup Ended

NumJobs ==
  IF JobsOption # 0 THEN JobsOption
  ELSE IF HardwareConcurrency # 0 THEN HardwareConcurrency
  ELSE 1

Running == { n \in Nodes : job[n] = "running" }

BugOneJobTooMany == NumJobs # Unlimited => numScheduled <= NumJobs

HaveFreeSlots == NumJobs # Unlimited => numScheduled < NumJobs

RequestedTargets(t) == { n \in Nodes : task[n] = t }

Init ==
  /\ deps \in BuildOrders
  /\ task \in [Nodes -> Tasks \cup {NoTask}]
  /\ statusOk \in SUBSET { n \in Nodes : task[n] # NoTask }
  /\ state = [n \in Nodes |-> "TO_BUILD"]
  /\ pc = "loop" /\ cursor = 1
  /\ results = <<>> /\ resultVec = <<>>
  /\ numScheduled = 0
  /\ job = [n \in Nodes |-> "none"]
  /\ jobCounter = 0

-------------------------------------------------------------------------------
(* The head of the loop and JobServer::wait_for_results. *)

LoopTest ==
  /\ pc = "loop"
  /\ pc' = IF state[N] \in {"BUILT", "FAILED"} THEN "returned" ELSE "wait"
  /\ UNCHANGED <<inputs, serverVars, state, cursor, results, statusOk, jobCounter>>

Sleep ==
  /\ pc = "wait"
  /\ ~HaveFreeSlots
  /\ pc' = "asleep"
  /\ UNCHANGED <<inputs, serverVars, state, cursor, results, statusOk, jobCounter>>

TakeResults ==
  /\ pc = "wait"
  /\ HaveFreeSlots
  /\ pc' = "collect"
  /\ results' = resultVec
  /\ resultVec' = <<>>
  /\ UNCHANGED <<inputs, numScheduled, job, state, cursor, statusOk, jobCounter>>

BugNotifyLost == pc

\* A condition variable may wake without a notification.
Awake ==
  IF pc = "asleep" THEN "wait"
  ELSE IF pc = "drainAsleep" THEN "drain"
  ELSE pc

SpuriousWake ==
  /\ pc \in {"asleep", "drainAsleep"}
  /\ pc' = Awake
  /\ UNCHANGED <<inputs, serverVars, state, cursor, results, statusOk, jobCounter>>

-------------------------------------------------------------------------------
(* Recording the results. *)

BugIgnoreFailure == "collect"

AfterFailure == IF KeepGoing THEN "collect" ELSE "drain"

RecordResult ==
  LET n == Head(results) IN
  /\ pc = "collect"
  /\ results # <<>>
  /\ results' = Tail(results)
  /\ \/ /\ job[n] = "ok"
        /\ statusOk' = statusOk \cup {n}
        /\ state' = [state EXCEPT ![n] = "BUILT"]
        /\ jobCounter' = jobCounter + 1
        /\ pc' = pc
     \/ /\ job[n] = "failed"
        /\ statusOk' = statusOk \ {n}
        /\ state' = [state EXCEPT ![n] = "FAILED"]
        /\ pc' = AfterFailure
        /\ UNCHANGED jobCounter
  /\ UNCHANGED <<inputs, serverVars, cursor>>

BugNoDrain ==
  /\ pc = "drain"
  /\ pc' = "failed"
  /\ UNCHANGED <<inputs, serverVars, state, cursor, results, statusOk, jobCounter>>

\* wait_for_all, then the exception that ends the build.
Drain ==
  /\ pc = "drain"
  /\ pc' = IF numScheduled = 0 THEN "failed" ELSE "drainAsleep"
  /\ UNCHANGED <<inputs, serverVars, state, cursor, results, statusOk, jobCounter>>

-------------------------------------------------------------------------------
(* The pass over the build order. *)

BugPassFromZero ==
  /\ pc = "collect"
  /\ results = <<>>
  /\ pc' = "scan" /\ cursor' = 0
  /\ UNCHANGED <<inputs, serverVars, state, results, statusOk, jobCounter>>

StartPass ==
  /\ pc = "collect"
  /\ results = <<>>
  /\ pc' = "scan" /\ cursor' = 1
  /\ UNCHANGED <<inputs, serverVars, state, results, statusOk, jobCounter>>

EndPass ==
  /\ pc = "scan"
  /\ cursor > N
  /\ pc' = "loop"
  /\ UNCHANGED <<inputs, serverVars, state, cursor, results, statusOk, jobCounter>>

BugRevisit(n) == state[n] # "SCHEDULED"

Undecided(n) == state[n] \in {"TO_BUILD", "BLOCKED"}

BugOnlyScheduledBlocks(n) ==
  IF \E d \in deps[n] : state[d] = "FAILED" THEN "FAILED"
  ELSE IF \E d \in deps[n] : state[d] = "SCHEDULED" THEN "BLOCKED"
  ELSE "TO_BUILD"

BugBlockedIsFailed(n) ==
  IF \E d \in deps[n] : state[d] \in {"FAILED", "BLOCKED"} THEN "FAILED"
  ELSE IF \E d \in deps[n] : state[d] = "SCHEDULED" THEN "BLOCKED"
  ELSE "TO_BUILD"

\* The state the edge loop leaves in n.
EdgeState(n) ==
  IF \E d \in deps[n] : state[d] = "FAILED" THEN "FAILED"
  ELSE IF \E d \in deps[n] : state[d] \in {"SCHEDULED", "BLOCKED"} THEN "BLOCKED"
  ELSE "TO_BUILD"

At(n) == pc = "scan" /\ cursor = n

PassOver(n) ==
  /\ At(n)
  /\ ~Undecided(n)
  /\ cursor' = cursor + 1
  /\ UNCHANGED <<inputs, serverVars, state, pc, results, statusOk, jobCounter>>

Hold(n) ==
  /\ At(n)
  /\ Undecided(n)
  /\ EdgeState(n) # "TO_BUILD"
  /\ state' = [state EXCEPT ![n] = EdgeState(n)]
  /\ cursor' = cursor + 1
  /\ UNCHANGED <<inputs, serverVars, pc, results, statusOk, jobCounter>>

BugStatusNotAsked(t) == SUBSET RequestedTargets(t)

\* What the task's decider may find outdated.  What makes a target outdated (a
\* changed source, a new signature, a timestamp) is left open; but database_decider
\* also asks whether the target is recorded as built, timestamp_pure_decider does not.
OutdatedSets(t) ==
  { bad \in SUBSET RequestedTargets(t) :
      t \in ByTimestamp \/ RequestedTargets(t) \ statusOk \subseteq bad }

BugNoReset(t, bad) == statusOk

\* database_decider walks the requested targets in order and, from the first
\* outdated one on, resets every task_status; timestamp_pure_decider resets none.
StatusAfterDecider(t, bad) ==
  { n \in statusOk :
      t \notin ByTimestamp => ~(n \in RequestedTargets(t) /\ \E b \in bad : b <= n) }

MarkBuilt(n) ==
  /\ At(n)
  /\ Undecided(n)
  /\ EdgeState(n) = "TO_BUILD"
  /\ \/ task[n] = NoTask
     \/ {} \in OutdatedSets(task[n]) /\ ~AlwaysBuild
  /\ state' = [state EXCEPT ![n] = "BUILT"]
  /\ cursor' = cursor + 1
  /\ UNCHANGED <<inputs, serverVars, pc, results, statusOk, jobCounter>>

\* JobServer::schedule, and the SCHEDULED mark that follows it.
Schedule(n) ==
  /\ At(n)
  /\ Undecided(n)
  /\ EdgeState(n) = "TO_BUILD"
  /\ task[n] # NoTask
  /\ \E bad \in OutdatedSets(task[n]) :
       /\ bad # {} \/ AlwaysBuild
       /\ statusOk' = StatusAfterDecider(task[n], bad)
  /\ numScheduled' = numScheduled + 1
  /\ job' = [job EXCEPT ![n] = "running"]
  /\ state' = [state EXCEPT ![n] = "SCHEDULED"]
  /\ pc' = "slots"
  /\ UNCHANGED <<inputs, resultVec, cursor, results, jobCounter>>

\* The decider, the database or the creation of the thread throws: parallel_build
\* is left at once.
Abort(n) ==
  /\ MayThrow
  /\ At(n)
  /\ Undecided(n)
  /\ EdgeState(n) = "TO_BUILD"
  /\ task[n] # NoTask
  /\ pc' = "aborted"
  /\ \E bad \in OutdatedSets(task[n]) :
       statusOk' \in {statusOk, StatusAfterDecider(task[n], bad)}
  /\ UNCHANGED <<inputs, serverVars, state, cursor, results, jobCounter>>

\* have_free_slots is read without the lock.
CheckSlots ==
  /\ pc = "slots"
  /\ IF HaveFreeSlots
       THEN pc' = "scan" /\ cursor' = cursor + 1
       ELSE pc' = "loop" /\ UNCHANGED cursor
  /\ UNCHANGED <<inputs, serverVars, state, results, statusOk, jobCounter>>

-------------------------------------------------------------------------------
(* The job threads. *)

\* The task has run; the thread reports under the lock.
Report(n, outcome) ==
  /\ pc \notin Ended
  /\ job[n] = "running"
  /\ job' = [job EXCEPT ![n] = outcome]
  /\ numScheduled' = numScheduled - 1
  /\ resultVec' = Append(resultVec, n)
  /\ pc' = Awake
  /\ UNCHANGED <<inputs, state, cursor, results, statusOk, jobCounter>>

\* The JobServer the thread refers to is gone; only the command's own outcome is modelled.
ReportToNobody(n, outcome) ==
  /\ pc \in Ended
  /\ job[n] = "running"
  /\ job' = [job EXCEPT ![n] = outcome]
  /\ UNCHANGED <<inputs, mainVars, resultVec, numScheduled>>

Worker(n) == \E outcome \in {"ok", "failed"} : Report(n, outcome) \/ ReportToNobody(n, outcome)

-------------------------------------------------------------------------------

AtNode(n) == PassOver(n) \/ Hold(n) \/ MarkBuilt(n) \/ Schedule(n) \/ Abort(n)

Main ==
  \/ LoopTest \/ Sleep \/ TakeResults \/ RecordResult \/ Drain
  \/ StartPass \/ EndPass \/ CheckSlots
  \/ \E n \in Nodes : AtNode(n)

\* The build is over and no command runs: the process may exit.
Finished == pc \in Ended /\ Running = {} /\ UNCHANGED vars

Next == Main \/ SpuriousWake \/ (\E n \in Nodes : Worker(n)) \/ Finished

Spec == Init /\ [][Next]_vars

\* The main thread runs, and every command ends.
Fairness == WF_vars(Main) /\ \A n \in Nodes : WF_vars(Worker(n))

FairSpec == Spec /\ Fairness
-------------------------------------------------------------------------------
(* Properties. *)

\* Every variable stays in its type.
TypeOK ==
  /\ deps \in [Nodes -> SUBSET Nodes]
  /\ task \in [Nodes -> Tasks \cup {NoTask}]
  /\ state \in [Nodes -> States]
  /\ pc \in MainPoints
  /\ cursor \in 1 .. (N + 1)
  /\ results \in Seq(Nodes)
  /\ resultVec \in Seq(Nodes)
  /\ numScheduled \in Nat
  /\ job \in [Nodes -> {"none", "running", "ok", "failed"}]
  /\ statusOk \in SUBSET Nodes
  /\ jobCounter \in Nat

Pending == results \o resultVec

Elems(s) == { s[i] : i \in DOMAIN s }

Distinct(s) == \A i, j \in DOMAIN s : s[i] = s[j] => i = j

Unrecorded == Elems(Pending)

\* JobServer's books (taskmaster.cpp:171-178, 184-189): num_scheduled_jobs counts
\* the threads that run, and a node is SCHEDULED exactly while its job runs or
\* its result waits, once, in one of the two vectors.
JobAccounting ==
  pc \notin Ended =>
    /\ numScheduled = Cardinality(Running)
    /\ { n \in Nodes : state[n] = "SCHEDULED" } = Running \cup Unrecorded
    /\ Running \cap Unrecorded = {}
    /\ Distinct(Pending)

\* Never more threads than the resolved -j allows (taskmaster.cpp:200-211, 264),
\* although have_free_slots is tested after scheduling and read without the lock.
SlotLimit == NumJobs # Unlimited => Cardinality(Running) <= NumJobs

\* A command starts, and a node counts as built, only when every dependency is
\* built (taskmaster.cpp:245-258); the edge loop never looks for TO_BUILD, so
\* this rests on the order of the pass.
DependenciesFirst ==
  \A n \in Nodes : state[n] \in {"SCHEDULED", "BUILT"} => \A d \in deps[n] : state[d] = "BUILT"

\* FAILED is never invented: the node's own command failed or a dependency is
\* FAILED (taskmaster.cpp:230-231, 250-253).
FailureHasCause ==
  \A n \in Nodes : state[n] = "FAILED" =>
    job[n] = "failed" \/ \E d \in deps[n] : state[d] = "FAILED"

DecidedByDatabase(n) == task[n] # NoTask /\ task[n] \notin ByTimestamp

\* Another requested target of n's task was executed, or its decider call ended
\* the build with an exception.
SiblingDecided(n) ==
  \E m \in RequestedTargets(task[n]) \ {n} : job[m] # "none" \/ (pc = "aborted" /\ cursor = m)

\* A node counted as built is recorded as built (taskmaster.cpp:223-229), when
\* database_decider decides its task: the record is lost only to a later call of
\* the decider for another requested target of the same task, which finds that one
\* outdated and resets them all (task.cpp:117-119).
BuiltIsRecorded ==
  \A n \in Nodes : state[n] = "BUILT" /\ DecidedByDatabase(n) =>
    n \in statusOk \/ SiblingDecided(n)

OnlyTargetOfItsTask(n) == RequestedTargets(task[n]) = {n}

\* task.cpp:117-119, "mark node as unbuilt, in case build is interrupted": while the
\* command of a node that database_decider decides runs, and once it has failed, the
\* node is not recorded as built, whether or not its result is ever read and
\* however the loop was left.
InterruptedNotBuilt ==
  \A n \in Nodes :
    DecidedByDatabase(n) /\ OnlyTargetOfItsTask(n) /\ n \in statusOk =>
      job[n] \notin {"running", "failed"}

\* A build that returns without -k has built all the end goal needs, has no job
\* or result left, and counts the commands it ran (taskmaster.cpp:222, 279).
ReturnIsComplete ==
  pc = "returned" /\ ~KeepGoing =>
    /\ \A n \in Nodes : state[n] = "BUILT"
    /\ Running = {} /\ resultVec = <<>>
    /\ jobCounter = Cardinality({ n \in Nodes : job[n] = "ok" })

\* The threads refer to the JobServer by address (taskmaster.cpp:162): when the
\* loop is left by a return or by "Task failed", none may be running.  An exception
\* of the loop itself ("aborted") waits for nobody.
JobServerOutlivesJobs == pc \in {"returned", "failed"} => Running = {}

\* options.cpp:65: with -k, the build continues after a failure and builds all
\* targets that do not depend on failed ones: it never returns with a node undecided.
KeepGoingCompletes == pc = "returned" => \A n \in Nodes : state[n] \in {"BUILT", "FAILED"}

\* Without -k nothing starts once the main thread has read a failure
\* (taskmaster.cpp:232-236).
NoStartAfterFailure ==
  [][~KeepGoing /\ (\E n \in Nodes : state[n] = "FAILED") => Running' \subseteq Running]_vars

\* A node is executed at most once in a build, and an outcome is never revised
\* (taskmaster.cpp:241-243).
OutcomeIsFinal ==
  [][\A n \in Nodes :
       /\ state[n] \in {"BUILT", "FAILED"} => state'[n] = state[n]
       /\ job[n] # "none" => job'[n] # "none" /\ (job[n] # "running" => job'[n] = job[n])]_vars

\* The build always ends: no wake-up is lost and the loop never turns for ever
\* with nothing running (taskmaster.cpp:186-193, 222).
Terminates == <>(pc \in Ended)

-------------------------------------------------------------------------------
(* The abstract build: a node's outcome is its job's, or the one propagated to it. *)

AbstractStatus(n) ==
  IF job[n] = "running" THEN "running"
  ELSE IF job[n] = "ok" \/ (job[n] = "none" /\ state[n] = "BUILT") THEN "built"
  ELSE IF job[n] = "failed" \/ (job[n] = "none" /\ state[n] = "FAILED") THEN "failed"
  ELSE "waiting"

Abstract == INSTANCE AbstractBuild
  WITH status <- [n \in Nodes |-> AbstractStatus(n)], Slots <- NumJobs

\* Behind its result queues, condition variable and repeated passes, parallel_build
\* is the abstract build.
ImplementsAbstractBuild == Abstract!Spec

-------------------------------------------------------------------------------
(* The inductive invariant behind the proofs of Taskmaster_proofs. *)

GraphInv == deps \in BuildOrders

\* The books of the JobServer; an undecided node has no job.
BooksInv ==
  /\ pc \notin {"collect", "drain", "drainAsleep"} \cup Ended => results = <<>>
  /\ \A n \in Nodes : Undecided(n) => job[n] = "none"
  /\ \A n \in Unrecorded : job[n] \in {"ok", "failed"}
  /\ Distinct(Pending)
  /\ pc \notin Ended =>
       /\ numScheduled = Cardinality(Running)
       /\ { n \in Nodes : state[n] = "SCHEDULED" } = Running \cup Unrecorded

\* A pass leaves no node TO_BUILD behind it.
PassInv ==
  /\ pc \in {"scan", "slots"} => \A n \in 1 .. (cursor - 1) : state[n] # "TO_BUILD"
  /\ pc = "slots" => cursor \in Nodes /\ state[cursor] = "SCHEDULED"

\* The main thread collects and scans only with a slot to give.
SlotInv ==
  NumJobs # Unlimited =>
    /\ pc \notin Ended => numScheduled <= NumJobs
    /\ pc \in {"collect", "scan"} => numScheduled < NumJobs

\* What every step of the build preserves: the books, the progress of a pass and
\* the slot the main thread holds back together give SlotLimit and DependenciesFirst.
IInv ==
  /\ TypeOK /\ GraphInv /\ BooksInv /\ PassInv /\ SlotInv
  /\ SlotLimit /\ DependenciesFirst
===============================================================================
