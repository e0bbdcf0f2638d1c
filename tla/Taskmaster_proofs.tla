-------------------------- MODULE Taskmaster_proofs --------------------------
(* Proofs about Taskmaster, for every graph, number of tasks, -j and option:  *)
(* the inductive invariant, what a build leaves behind (outcomes, recorded    *)
(* statuses, the end of the loop), and the abstract build it implements.      *)
EXTENDS Taskmaster, FiniteSetTheorems, SequenceTheorems, WellFoundedInduction, TLAPS

-------------------------------------------------------------------------------
(* Sequences of distinct elements. *)

\* Taking the first result leaves the others.
LEMMA TailOfDistinct ==
  ASSUME NEW S, NEW s \in Seq(S), s # <<>>, Distinct(s)
  PROVE  /\ Head(s) \in S /\ Tail(s) \in Seq(S)
         /\ Distinct(Tail(s))
         /\ Elems(Tail(s)) = Elems(s) \ {Head(s)}
         /\ Head(s) \in Elems(s)
<1>1. /\ Head(s) \in S /\ Tail(s) \in Seq(S) /\ Len(s) \in Nat \ {0}
      /\ DOMAIN s = 1 .. Len(s) /\ Len(Tail(s)) = Len(s) - 1
      /\ DOMAIN Tail(s) = 1 .. (Len(s) - 1)
      /\ \A i \in 1 .. (Len(s) - 1) : Tail(s)[i] = s[i + 1]
      /\ Head(s) = s[1]
  BY HeadTailProperties, EmptySeq, LenProperties
<1>2. Distinct(Tail(s))
  <2> SUFFICES ASSUME NEW i \in 1 .. (Len(s) - 1), NEW j \in 1 .. (Len(s) - 1),
                      Tail(s)[i] = Tail(s)[j]
               PROVE  i = j
    BY <1>1 DEF Distinct
  <2>1. i + 1 \in DOMAIN s /\ j + 1 \in DOMAIN s /\ s[i + 1] = s[j + 1]
    BY <1>1
  <2> QED BY <2>1 DEF Distinct
<1>3. Elems(Tail(s)) \subseteq Elems(s) \ {Head(s)}
  <2> SUFFICES ASSUME NEW i \in 1 .. (Len(s) - 1)
               PROVE  Tail(s)[i] \in Elems(s) /\ Tail(s)[i] # Head(s)
    BY <1>1 DEF Elems
  <2>1. i + 1 \in DOMAIN s /\ 1 \in DOMAIN s /\ Tail(s)[i] = s[i + 1] /\ i + 1 # 1
    BY <1>1
  <2> QED BY <2>1, <1>1 DEF Elems, Distinct
<1>4. Elems(s) \ {Head(s)} \subseteq Elems(Tail(s))
  <2> SUFFICES ASSUME NEW i \in 1 .. Len(s), s[i] # s[1]
               PROVE  s[i] \in Elems(Tail(s))
    BY <1>1 DEF Elems
  <2>1. i - 1 \in 1 .. (Len(s) - 1) /\ (i - 1) + 1 = i
    BY <1>1
  <2>2. Tail(s)[i - 1] = s[i]
    BY <2>1, <1>1
  <2> QED BY <2>1, <2>2, <1>1 DEF Elems
<1>5. Head(s) \in Elems(s)
  BY <1>1 DEF Elems
<1> QED BY <1>1, <1>2, <1>3, <1>4, <1>5

\* Appending a new result adds it.
LEMMA AppendToDistinct ==
  ASSUME NEW S, NEW s \in Seq(S), NEW e \in S, Distinct(s), e \notin Elems(s)
  PROVE  /\ Append(s, e) \in Seq(S)
         /\ Distinct(Append(s, e))
         /\ Elems(Append(s, e)) = Elems(s) \cup {e}
<1>1. /\ Len(s) \in Nat /\ DOMAIN s = 1 .. Len(s) /\ Append(s, e) \in Seq(S)
      /\ DOMAIN Append(s, e) = 1 .. (Len(s) + 1)
      /\ \A i \in 1 .. Len(s) : Append(s, e)[i] = s[i]
      /\ Append(s, e)[Len(s) + 1] = e
  BY AppendProperties, LenProperties
<1>2. \A i \in 1 .. Len(s) : s[i] \in Elems(s)
  BY <1>1 DEF Elems
<1>3. 1 .. (Len(s) + 1) = 1 .. Len(s) \cup {Len(s) + 1}
  BY <1>1
<1>4. Distinct(Append(s, e))
  BY <1>1, <1>2, <1>3 DEF Distinct
<1>5. Elems(Append(s, e)) = Elems(s) \cup {e}
  BY <1>1, <1>3 DEF Elems
<1> QED BY <1>1, <1>4, <1>5

\* The two vectors behave as one queue.
LEMMA OneQueue ==
  ASSUME NEW S, NEW s \in Seq(S), NEW t \in Seq(S)
  PROVE  /\ s \o t \in Seq(S)
         /\ s # <<>> => /\ s \o t # <<>> 
                        /\ Head(s \o t) = Head(s)
                        /\ Tail(s) \o t = Tail(s \o t)
         /\ \A e \in S : s \o Append(t, e) = Append(s \o t, e)
         /\ t \o <<>> = <<>> \o t
<1>1. s \o t \in Seq(S) /\ t \o <<>> = <<>> \o t
  BY ConcatProperties, ConcatEmptySeq
<1>2. ASSUME s # <<>>
      PROVE  s \o t # <<>> /\ Head(s \o t) = Head(s) /\ Tail(s) \o t = Tail(s \o t)
  BY <1>2
<1>3. ASSUME NEW e \in S
      PROVE  s \o Append(t, e) = Append(s \o t, e)
  OBVIOUS
<1> QED BY <1>1, <1>2, <1>3

-------------------------------------------------------------------------------
(* Facts about the constants and the graph. *)

\* -j resolves to "unlimited" or to at least one job.
LEMMA NumJobsType == NumJobs = Unlimited \/ NumJobs \in Nat \ {0}
BY ConstantsAssumption DEF NumJobs

LEMMA NodesAreNat == Nodes \subseteq Nat \ {0} /\ N \in Nodes /\ IsFiniteSet(Nodes)
BY NAssumption, FS_Interval DEF Nodes

\* A build order is topological.
LEMMA OrderIsTopological ==
  ASSUME GraphInv
  PROVE  /\ deps \in [Nodes -> SUBSET Nodes]
         /\ \A n \in Nodes : deps[n] \subseteq 1 .. (n - 1)
BY DEF GraphInv, BuildOrders, Topological

LEMMA RunningIsFinite ==
  IsFiniteSet(Running) /\ Cardinality(Running) \in Nat
BY NodesAreNat, FS_Subset, FS_CardinalityType DEF Running

\* A node whose edges leave it TO_BUILD, when the pass has settled every smaller
\* node, has only built dependencies.
LEMMA ToBuildMeansReady ==
  ASSUME TypeOK, GraphInv, PassInv, NEW n \in Nodes, At(n), EdgeState(n) = "TO_BUILD"
  PROVE  \A d \in deps[n] : d < n /\ state[d] = "BUILT"
<1> SUFFICES ASSUME NEW d \in deps[n]
             PROVE  d < n /\ state[d] = "BUILT"
  OBVIOUS
<1>1. d \in Nodes /\ d \in 1 .. (n - 1) /\ d < n
  BY OrderIsTopological, NodesAreNat
<1>2. state[d] # "TO_BUILD"
  BY <1>1 DEF PassInv, At
<1>3. state[d] \notin {"FAILED", "SCHEDULED", "BLOCKED"}
  BY DEF EdgeState
<1> QED BY <1>1, <1>2, <1>3 DEF TypeOK, States

-------------------------------------------------------------------------------
(* IInv holds initially and is preserved by every step. *)

LEMMA InitEstablishesIInv == Init => IInv
<1> SUFFICES ASSUME Init PROVE IInv
  OBVIOUS
<1>1. Running = {}
  BY DEF Init, Running
<1>2. TypeOK
  BY NodesAreNat, OrderIsTopological, NAssumption DEF Init, TypeOK, States, MainPoints, GraphInv
<1>3. GraphInv
  BY DEF Init, GraphInv
<1>4. Pending = <<>> /\ Unrecorded = {} /\ Distinct(Pending)
  BY DEF Init, Pending, Unrecorded, Elems, Distinct
<1>5. Cardinality(Running) = 0
  BY <1>1, FS_EmptySet
<1>6. BooksInv
  BY <1>1, <1>4, <1>5 DEF Init, BooksInv, Undecided, Ended
<1>7. PassInv
  BY DEF Init, PassInv
<1>8. SlotInv /\ SlotLimit
  BY <1>5, NumJobsType DEF Init, SlotInv, SlotLimit, Ended
<1>9. DependenciesFirst
  BY DEF Init, DependenciesFirst
<1> QED BY <1>2, <1>3, <1>6, <1>7, <1>8, <1>9 DEF IInv

\* Steps that move the main thread and nothing else but its cursor.
LEMMA MovePreservesIInv ==
  ASSUME IInv, LoopTest \/ Sleep \/ SpuriousWake \/ Drain \/ StartPass \/ EndPass \/ CheckSlots
                \/ \E n \in Nodes : PassOver(n)
  PROVE  IInv'
<1> USE DEF IInv
<1>1. /\ UNCHANGED <<inputs, serverVars, state, results, statusOk, jobCounter>>
      /\ pc' \in MainPoints
      /\ cursor' \in 1 .. (N + 1)
  <2>1. CASE LoopTest \/ Sleep \/ SpuriousWake \/ Drain \/ EndPass
    BY <2>1 DEF LoopTest, Sleep, SpuriousWake, Drain, EndPass, MainPoints, Awake, Ended, TypeOK
  <2>2. CASE StartPass
    BY <2>2, NAssumption DEF StartPass, MainPoints
  <2>3. CASE CheckSlots
    BY <2>3, NAssumption DEF CheckSlots, MainPoints, TypeOK, PassInv, Nodes
  <2>4. CASE \E n \in Nodes : PassOver(n)
    BY <2>4, NAssumption DEF PassOver, At, MainPoints, TypeOK, Nodes
  <2> QED BY <2>1, <2>2, <2>3, <2>4
<1>2. TypeOK' /\ GraphInv'
  BY <1>1 DEF TypeOK, GraphInv, inputs, serverVars
<1>3. Running' = Running /\ Pending' = Pending /\ Unrecorded' = Unrecorded
  BY <1>1 DEF Running, Pending, Unrecorded, Elems, serverVars
<1>4. /\ pc' \notin Ended => pc \notin Ended
      /\ pc' \notin {"collect", "drain", "drainAsleep"} \cup Ended
           => pc \notin {"collect", "drain", "drainAsleep"} \cup Ended \/ results = <<>>
  BY DEF LoopTest, Sleep, SpuriousWake, Drain, StartPass, EndPass, CheckSlots, PassOver,
     At, Awake, Ended, MainPoints
<1>5. BooksInv'
  BY <1>1, <1>3, <1>4 DEF BooksInv, Undecided, Distinct, serverVars
<1>6. PassInv'
  <2>1. CASE StartPass
    BY <1>1, <2>1 DEF StartPass, PassInv
  <2>2. CASE CheckSlots
    <3>1. CASE HaveFreeSlots
      <4>1. pc' = "scan" /\ cursor' = cursor + 1 /\ state' = state /\ cursor \in Nat
        BY <2>2, <3>1 DEF CheckSlots, TypeOK
      <4>2. 1 .. (cursor' - 1) = 1 .. (cursor - 1) \cup {cursor} \/ cursor = 0
        BY <4>1
      <4>3. cursor \in Nodes /\ state[cursor] = "SCHEDULED"
        BY <2>2 DEF CheckSlots, PassInv
      <4> QED BY <2>2, <4>1, <4>2, <4>3, NodesAreNat DEF CheckSlots, PassInv
    <3>2. CASE ~HaveFreeSlots
      BY <2>2, <3>2 DEF CheckSlots, PassInv
    <3> QED BY <3>1, <3>2
  <2>3. ASSUME NEW n \in Nodes, PassOver(n)
        PROVE  PassInv'
    BY <1>1, <2>3, NodesAreNat DEF PassOver, At, PassInv, Undecided
  <2>4. CASE LoopTest \/ Sleep \/ SpuriousWake \/ Drain \/ EndPass
    BY <2>4 DEF LoopTest, Sleep, SpuriousWake, Drain, EndPass, PassInv, Awake
  <2> QED BY <2>1, <2>2, <2>3, <2>4
<1>7. SlotInv'
  <2> SUFFICES ASSUME NumJobs # Unlimited
               PROVE  /\ pc' \notin Ended => numScheduled <= NumJobs
                      /\ pc' \in {"collect", "scan"} => numScheduled < NumJobs
    BY <1>1 DEF SlotInv, serverVars
  <2>1. pc' \in {"collect", "scan"} => pc \in {"collect", "scan"} \/ HaveFreeSlots
    BY DEF LoopTest, Sleep, SpuriousWake, Drain, StartPass, EndPass, CheckSlots, PassOver, At, Awake
  <2> QED BY <2>1, <1>4 DEF SlotInv, HaveFreeSlots
<1>8. SlotLimit' /\ DependenciesFirst'
  BY <1>1, <1>3 DEF SlotLimit, DependenciesFirst, inputs
<1> QED BY <1>2, <1>5, <1>6, <1>7, <1>8

LEMMA TakeResultsPreservesIInv ==
  ASSUME IInv, TakeResults
  PROVE  IInv'
<1> USE DEF IInv
<1>1. results = <<>> /\ pc' = "collect" /\ pc \notin Ended
  BY DEF TakeResults, BooksInv, Ended
<1>2. TypeOK' /\ GraphInv'
  BY DEF TakeResults, TypeOK, GraphInv, inputs, MainPoints
<1>3. Pending' = Pending /\ Unrecorded' = Unrecorded /\ Running' = Running
  <2>1. resultVec \o <<>> = <<>> \o resultVec
    BY OneQueue DEF TypeOK
  <2> QED BY <1>1, <2>1 DEF TakeResults, Pending, Unrecorded, Elems, Running
<1>4. BooksInv'
  BY <1>1, <1>3 DEF TakeResults, BooksInv, Undecided, Distinct
<1>5. PassInv' /\ SlotInv'
  BY <1>1 DEF TakeResults, PassInv, SlotInv, HaveFreeSlots
<1>6. SlotLimit' /\ DependenciesFirst'
  BY <1>3 DEF TakeResults, SlotLimit, DependenciesFirst, inputs
<1> QED BY <1>2, <1>4, <1>5, <1>6

\* The head of the queue was SCHEDULED; it leaves the queue and gets its outcome.
LEMMA RecordResultPreservesIInv ==
  ASSUME IInv, RecordResult
  PROVE  IInv'
<1> USE DEF IInv
<1> DEFINE n == Head(results)
           s == IF job[n] = "ok" THEN "BUILT" ELSE "FAILED"
<1>1. /\ pc = "collect" /\ results # <<>> /\ n \in Nodes
      /\ Tail(results) \in Seq(Nodes)
  BY HeadTailProperties DEF RecordResult, TypeOK
<1>2. /\ results' = Tail(results) /\ state' = [state EXCEPT ![n] = s]
      /\ pc' \in {"collect", "drain"}
      /\ UNCHANGED <<inputs, serverVars, cursor>>
  <2>1. CASE job[n] = "ok"
    BY <1>1, <2>1 DEF RecordResult
  <2>2. CASE job[n] = "failed"
    BY <1>1, <2>2 DEF RecordResult, AfterFailure
  <2>3. job[n] = "ok" \/ job[n] = "failed"
    BY DEF RecordResult
  <2> QED BY <2>1, <2>2, <2>3
<1>3. /\ Pending \in Seq(Nodes) /\ Pending # <<>> /\ Head(Pending) = n
      /\ Pending' = Tail(Pending)
  <2>1. results \in Seq(Nodes) /\ resultVec \in Seq(Nodes)
    BY DEF TypeOK
  <2>2. /\ Pending \in Seq(Nodes) /\ Pending # <<>> /\ Head(Pending) = n
        /\ Tail(results) \o resultVec = Tail(Pending)
    BY <1>1, <2>1, OneQueue DEF Pending
  <2> QED BY <1>2, <2>2 DEF Pending, serverVars
<1>4. /\ Distinct(Pending)' /\ Unrecorded' = Unrecorded \ {n} /\ n \in Unrecorded
  <2>1. Distinct(Pending)
    BY DEF BooksInv
  <2>2. /\ Distinct(Tail(Pending))
        /\ Elems(Tail(Pending)) = Elems(Pending) \ {n} /\ n \in Elems(Pending)
    BY <1>3, <2>1, TailOfDistinct
  <2> QED BY <1>3, <2>2 DEF Unrecorded, Distinct, Elems
<1>5. Running' = Running /\ n \notin Running /\ state[n] = "SCHEDULED"
  BY <1>1, <1>2, <1>4 DEF Running, BooksInv, serverVars, Ended
<1>6. TypeOK' /\ GraphInv'
  <2>1. statusOk' \in SUBSET Nodes /\ jobCounter' \in Nat
    BY <1>1 DEF RecordResult, TypeOK
  <2> QED BY <1>1, <1>2, <2>1 DEF TypeOK, GraphInv, inputs, serverVars, States, MainPoints
<1>7. BooksInv'
  <2>1. \A m \in Nodes : Undecided(m)' => job'[m] = "none"
    BY <1>1, <1>2 DEF BooksInv, Undecided, serverVars, TypeOK
  <2>2. { m \in Nodes : state[m] = "SCHEDULED" }' = Running' \cup Unrecorded'
    <3>1. { m \in Nodes : state[m] = "SCHEDULED" }' = { m \in Nodes : state[m] = "SCHEDULED" } \ {n}
      BY <1>1, <1>2 DEF TypeOK
    <3>2. { m \in Nodes : state[m] = "SCHEDULED" } = Running \cup Unrecorded
      BY <1>1 DEF BooksInv, Ended
    <3> QED BY <3>1, <3>2, <1>4, <1>5
  <2>3. numScheduled' = Cardinality(Running)'
    BY <1>1, <1>2, <1>5 DEF BooksInv, serverVars, Ended
  <2>4. \A m \in Unrecorded' : job'[m] \in {"ok", "failed"}
    BY <1>2, <1>4 DEF BooksInv, serverVars
  <2> QED BY <1>2, <1>4, <2>1, <2>2, <2>3, <2>4 DEF BooksInv
<1>8. PassInv' /\ SlotInv'
  BY <1>1, <1>2 DEF PassInv, SlotInv, serverVars, Ended
<1>9. SlotLimit'
  BY <1>5 DEF SlotLimit
<1>10. DependenciesFirst'
  <2>1. \A m \in Nodes : state'[m] \in {"SCHEDULED", "BUILT"} => state[m] \in {"SCHEDULED", "BUILT"}
    BY <1>1, <1>2, <1>5 DEF TypeOK
  <2>2. \A m \in Nodes : state[m] = "BUILT" => state'[m] = "BUILT"
    BY <1>1, <1>2, <1>5 DEF TypeOK
  <2> QED BY <1>2, <2>1, <2>2 DEF DependenciesFirst, inputs, TypeOK
<1> QED BY <1>6, <1>7, <1>8, <1>9, <1>10

\* The pass settles node n without a job.
LEMMA SettlePreservesIInv ==
  ASSUME IInv, NEW n \in Nodes, Hold(n) \/ MarkBuilt(n)
  PROVE  IInv'
<1> USE DEF IInv
<1> DEFINE s == state'[n]
<1>1. /\ At(n) /\ pc = "scan" /\ cursor = n /\ Undecided(n)
      /\ cursor' = cursor + 1 /\ pc' = pc
      /\ UNCHANGED <<inputs, serverVars, results, statusOk, jobCounter>>
  BY DEF Hold, MarkBuilt, At
<1>2. /\ state' = [state EXCEPT ![n] = s] /\ s \in {"BUILT", "BLOCKED", "FAILED"}
  BY DEF Hold, MarkBuilt, TypeOK, EdgeState
<1>3. TypeOK' /\ GraphInv'
  <2>1. cursor' \in 1 .. (N + 1)
    BY <1>1, NodesAreNat DEF Nodes
  <2>2. state' \in [Nodes -> States]
    BY <1>2 DEF TypeOK, States
  <2> QED BY <1>1, <2>1, <2>2 DEF TypeOK, GraphInv, inputs, serverVars
<1>4. Running' = Running /\ Pending' = Pending /\ Unrecorded' = Unrecorded
  BY <1>1 DEF Running, Pending, Unrecorded, Elems, serverVars
<1>5. { m \in Nodes : state[m] = "SCHEDULED" }' = { m \in Nodes : state[m] = "SCHEDULED" }
  BY <1>1, <1>2 DEF TypeOK, Undecided
<1>6. BooksInv'
  BY <1>1, <1>2, <1>4, <1>5 DEF BooksInv, Undecided, Distinct, serverVars, TypeOK, Ended
<1>7. PassInv'
  <2>1. 1 .. (cursor' - 1) = 1 .. (cursor - 1) \cup {n}
    BY <1>1, NodesAreNat
  <2> QED BY <1>1, <1>2, <2>1, NodesAreNat DEF PassInv, TypeOK, Nodes
<1>8. SlotInv' /\ SlotLimit'
  BY <1>1, <1>4 DEF SlotInv, SlotLimit, serverVars
<1>9. DependenciesFirst'
  <2>1. \A m \in Nodes : state'[m] \in {"SCHEDULED", "BUILT"} =>
          state[m] \in {"SCHEDULED", "BUILT"} \/ (m = n /\ MarkBuilt(n))
    BY <1>1, <1>2 DEF TypeOK, Hold, EdgeState
  <2>2. MarkBuilt(n) => \A d \in deps[n] : d < n /\ state[d] = "BUILT"
    BY <1>1, ToBuildMeansReady DEF MarkBuilt
  <2>3. \A d \in Nodes : state[d] = "BUILT" => state'[d] = "BUILT"
    BY <1>1, <1>2 DEF TypeOK, Undecided
  <2> QED BY <1>1, <2>1, <2>2, <2>3 DEF DependenciesFirst, inputs, TypeOK
<1> QED BY <1>3, <1>6, <1>7, <1>8, <1>9

\* A ready node gets its thread, and the main thread its slot back to find.
LEMMA SchedulePreservesIInv ==
  ASSUME IInv, NEW n \in Nodes, Schedule(n)
  PROVE  IInv'
<1> USE DEF IInv
<1>1. /\ At(n) /\ pc = "scan" /\ cursor = n /\ Undecided(n) /\ job[n] = "none"
      /\ numScheduled' = numScheduled + 1
      /\ job' = [job EXCEPT ![n] = "running"]
      /\ state' = [state EXCEPT ![n] = "SCHEDULED"]
      /\ pc' = "slots"
      /\ UNCHANGED <<inputs, resultVec, cursor, results, jobCounter>>
  BY DEF Schedule, At, BooksInv
<1>2. statusOk' \subseteq Nodes
  BY DEF Schedule, StatusAfterDecider, TypeOK
<1>3. TypeOK' /\ GraphInv'
  <2>1. /\ state' \in [Nodes -> States]
        /\ job' \in [Nodes -> {"none", "running", "ok", "failed"}]
    BY <1>1 DEF TypeOK, States
  <2> QED BY <1>1, <1>2, <2>1 DEF TypeOK, GraphInv, inputs, MainPoints
<1>4. Running' = Running \cup {n} /\ n \notin Running
  BY <1>1 DEF Running, TypeOK
<1>5. Cardinality(Running') = Cardinality(Running) + 1
  BY <1>4, RunningIsFinite, FS_AddElement
<1>6. Pending' = Pending /\ Unrecorded' = Unrecorded
  BY <1>1 DEF Pending, Unrecorded, Elems
<1>7. BooksInv'
  <2>1. { m \in Nodes : state[m] = "SCHEDULED" }' = { m \in Nodes : state[m] = "SCHEDULED" } \cup {n}
    BY <1>1 DEF TypeOK
  <2>2. /\ { m \in Nodes : state[m] = "SCHEDULED" } = Running \cup Unrecorded
        /\ numScheduled = Cardinality(Running) /\ results = <<>>
        /\ \A m \in Unrecorded : job[m] \in {"ok", "failed"}
    BY <1>1 DEF BooksInv, Ended
  <2>3. \A m \in Nodes : Undecided(m)' => job'[m] = "none"
    BY <1>1 DEF BooksInv, Undecided, TypeOK
  <2>4. \A m \in Unrecorded' : job'[m] \in {"ok", "failed"}
    BY <1>1, <1>6, <2>2 DEF TypeOK
  <2>5. Distinct(Pending)'
    BY <1>6 DEF BooksInv, Distinct
  <2> QED BY <1>1, <1>4, <1>5, <1>6, <2>1, <2>2, <2>3, <2>4, <2>5 DEF BooksInv
<1>8. PassInv'
  BY <1>1 DEF PassInv, TypeOK
<1>9. SlotInv' /\ SlotLimit'
  <2> SUFFICES ASSUME NumJobs # Unlimited
               PROVE  numScheduled' <= NumJobs /\ Cardinality(Running') <= NumJobs
    BY <1>1 DEF SlotInv, SlotLimit
  <2>1. NumJobs \in Nat /\ numScheduled \in Nat /\ numScheduled < NumJobs
    BY <1>1, NumJobsType DEF SlotInv, TypeOK
  <2>2. numScheduled = Cardinality(Running)
    BY <1>1 DEF BooksInv, Ended
  <2> QED BY <1>1, <1>5, <2>1, <2>2
<1>10. DependenciesFirst'
  <2>1. \A d \in deps[n] : d < n /\ state[d] = "BUILT"
    BY <1>1, ToBuildMeansReady DEF Schedule
  <2>2. \A m \in Nodes : state[m] = "BUILT" => state'[m] = "BUILT"
    BY <1>1 DEF TypeOK, Undecided
  <2>3. \A m \in Nodes : m # n => state'[m] = state[m]
    BY <1>1 DEF TypeOK
  <2>4. \A m \in Nodes : \A d \in deps[m] : d \in Nodes
    BY DEF TypeOK
  <2> QED BY <1>1, <2>1, <2>2, <2>3, <2>4 DEF DependenciesFirst, inputs
<1> QED BY <1>3, <1>7, <1>8, <1>9, <1>10

LEMMA AbortPreservesIInv ==
  ASSUME IInv, NEW n \in Nodes, Abort(n)
  PROVE  IInv'
<1> USE DEF IInv
<1>1. /\ pc' = "aborted" /\ pc' \in Ended
      /\ UNCHANGED <<inputs, serverVars, state, cursor, results, jobCounter>>
  BY DEF Abort, Ended
<1>2. TypeOK' /\ GraphInv'
  <2>1. statusOk' \in SUBSET Nodes
    BY DEF Abort, StatusAfterDecider, TypeOK
  <2> QED BY <1>1, <2>1 DEF TypeOK, GraphInv, inputs, serverVars, MainPoints
<1>3. Running' = Running /\ Pending' = Pending /\ Unrecorded' = Unrecorded
  BY <1>1 DEF Running, Pending, Unrecorded, Elems, serverVars
<1>4. BooksInv' /\ PassInv' /\ SlotInv'
  BY <1>1, <1>3 DEF BooksInv, PassInv, SlotInv, Undecided, Distinct, serverVars, Ended
<1>5. SlotLimit' /\ DependenciesFirst'
  BY <1>1, <1>3 DEF SlotLimit, DependenciesFirst, inputs
<1> QED BY <1>2, <1>4, <1>5

\* A job ends: its node moves from the running ones to the queue, or out of sight.
LEMMA WorkerPreservesIInv ==
  ASSUME IInv, NEW n \in Nodes, NEW outcome \in {"ok", "failed"},
         Report(n, outcome) \/ ReportToNobody(n, outcome)
  PROVE  IInv'
<1> USE DEF IInv
<1>1. /\ job[n] = "running" /\ job' = [job EXCEPT ![n] = outcome]
      /\ UNCHANGED <<inputs, state, cursor, results, statusOk, jobCounter>>
  BY DEF Report, ReportToNobody, mainVars
<1>2. Running' = Running \ {n} /\ n \in Running
  BY <1>1 DEF Running, TypeOK
<1>3. Cardinality(Running') = Cardinality(Running) - 1 /\ Cardinality(Running) \in Nat
  BY <1>2, RunningIsFinite, FS_RemoveElement
<1>4. SlotLimit'
  BY <1>3, NumJobsType DEF SlotLimit
<1>5. DependenciesFirst' /\ GraphInv'
  BY <1>1 DEF DependenciesFirst, GraphInv, inputs
<1>6. n \notin Unrecorded /\ ~Undecided(n)
  BY <1>1 DEF BooksInv, Undecided
<1>7. \A m \in Nodes : Undecided(m)' => job'[m] = "none"
  BY <1>1, <1>6 DEF BooksInv, Undecided, TypeOK
<1>8. job' \in [Nodes -> {"none", "running", "ok", "failed"}]
  BY <1>1 DEF TypeOK
<1>9. CASE Report(n, outcome)
  <2>1. /\ pc \notin Ended /\ pc' = Awake
        /\ numScheduled' = numScheduled - 1 /\ resultVec' = Append(resultVec, n)
    BY <1>9 DEF Report
  <2>2. numScheduled = Cardinality(Running) /\ numScheduled' \in Nat /\ numScheduled \in Nat
    BY <1>2, <1>3, <2>1, FS_EmptySet, RunningIsFinite DEF BooksInv, TypeOK
  <2>3. /\ pc' \in MainPoints /\ pc' \notin Ended
        /\ pc \in {"collect", "drain", "drainAsleep"} <=> pc' \in {"collect", "drain", "drainAsleep"}
        /\ pc' \in {"scan", "slots", "collect"} => pc' = pc
    BY <2>1 DEF Awake, TypeOK, MainPoints, Ended
  <2>4. TypeOK'
    <3>1. resultVec' \in Seq(Nodes)
      BY <2>1, AppendProperties DEF TypeOK
    <3> QED BY <1>1, <1>8, <2>2, <2>3, <3>1 DEF TypeOK, inputs
  <2>5. Distinct(Pending)' /\ Unrecorded' = Unrecorded \cup {n}
    <3>1. Pending \in Seq(Nodes) /\ Pending' = Append(Pending, n)
      BY <1>1, <2>1, OneQueue DEF TypeOK, Pending
    <3>2. Distinct(Pending) /\ n \notin Elems(Pending)
      BY <1>6 DEF BooksInv, Unrecorded
    <3>3. Distinct(Append(Pending, n)) /\ Elems(Append(Pending, n)) = Elems(Pending) \cup {n}
      BY <3>1, <3>2, AppendToDistinct
    <3> QED BY <3>1, <3>3 DEF Unrecorded, Distinct, Elems
  <2>6. BooksInv'
    <3>1. { m \in Nodes : state[m] = "SCHEDULED" } = Running \cup Unrecorded
      BY <2>1 DEF BooksInv
    <3>2. { m \in Nodes : state[m] = "SCHEDULED" }' = Running' \cup Unrecorded'
      BY <1>1, <1>2, <2>5, <3>1
    <3>3. \A m \in Unrecorded' : job'[m] \in {"ok", "failed"}
      BY <1>1, <1>6, <2>5 DEF BooksInv, TypeOK
    <3>4. pc' \notin {"collect", "drain", "drainAsleep"} \cup Ended => results' = <<>>
      BY <1>1, <2>1, <2>3 DEF BooksInv
    <3> QED BY <1>3, <1>7, <2>1, <2>2, <2>5, <3>2, <3>3, <3>4 DEF BooksInv
  <2>7. PassInv'
    BY <1>1, <2>3 DEF PassInv
  <2>8. SlotInv'
    BY <2>1, <2>2, <2>3, NumJobsType DEF SlotInv
  <2> QED BY <1>4, <1>5, <2>4, <2>6, <2>7, <2>8
<1>10. CASE ReportToNobody(n, outcome)
  <2>1. pc \in Ended /\ UNCHANGED <<pc, resultVec, numScheduled>>
    BY <1>10 DEF ReportToNobody, mainVars
  <2>2. TypeOK'
    BY <1>1, <1>8, <2>1 DEF TypeOK, inputs
  <2>3. Pending' = Pending /\ Unrecorded' = Unrecorded
    BY <1>1, <2>1 DEF Pending, Unrecorded, Elems
  <2>4. BooksInv' /\ PassInv' /\ SlotInv'
    BY <1>1, <1>6, <1>7, <2>1, <2>3 DEF BooksInv, PassInv, SlotInv, Distinct, Ended, TypeOK
  <2> QED BY <1>4, <1>5, <2>2, <2>4
<1> QED BY <1>9, <1>10

LEMMA NextPreservesIInv == IInv /\ [Next]_vars => IInv'
<1> SUFFICES ASSUME IInv, [Next]_vars PROVE IInv'
  OBVIOUS
<1>1. CASE LoopTest \/ Sleep \/ SpuriousWake \/ Drain \/ StartPass \/ EndPass \/ CheckSlots
  BY <1>1, MovePreservesIInv
<1>2. CASE TakeResults
  BY <1>2, TakeResultsPreservesIInv
<1>3. CASE RecordResult
  BY <1>3, RecordResultPreservesIInv
<1>4. ASSUME NEW n \in Nodes, AtNode(n)
      PROVE  IInv'
  BY <1>4, MovePreservesIInv, SettlePreservesIInv, SchedulePreservesIInv, AbortPreservesIInv DEF AtNode
<1>5. ASSUME NEW n \in Nodes, Worker(n)
      PROVE  IInv'
  BY <1>5, WorkerPreservesIInv DEF Worker
<1>6. CASE UNCHANGED vars
  BY <1>6 DEF vars, inputs, mainVars, serverVars, IInv, TypeOK, GraphInv, BooksInv, PassInv, SlotInv,
     SlotLimit, DependenciesFirst, Running, Unrecorded, Pending, Elems, Distinct, Undecided
<1> QED BY <1>1, <1>2, <1>3, <1>4, <1>5, <1>6 DEF Next, Main, Finished

THEOREM IInvHolds == Spec => []IInv
BY InitEstablishesIInv, NextPreservesIInv, PTL DEF Spec

\* Every variable of the build loop keeps its type, whatever the graph and the options.
THEOREM TypeCorrect == Spec => []TypeOK
BY IInvHolds, PTL DEF IInv

\* No command starts, and no node counts as built, before all its dependencies are built.
THEOREM DependenciesAreFirst == Spec => []DependenciesFirst
BY IInvHolds, PTL DEF IInv

\* The number of commands that run never exceeds what -j resolves to.
THEOREM SlotsAreLimited == Spec => []SlotLimit
BY IInvHolds, PTL DEF IInv

\* JobServer's counter, its threads, the two result vectors and the SCHEDULED marks
\* always agree: no result is lost, duplicated or recorded for a node that still runs.
THEOREM BooksAgree == Spec => []JobAccounting
<1>1. IInv => JobAccounting
  <2> SUFFICES ASSUME IInv, pc \notin Ended PROVE JobAccounting
    BY DEF JobAccounting
  <2>1. BooksInv
    BY DEF IInv
  <2>2. Running \cap Unrecorded = {}
    BY <2>1 DEF BooksInv, Running
  <2> QED BY <2>1, <2>2 DEF BooksInv, JobAccounting
<1> QED BY <1>1, IInvHolds, PTL

-------------------------------------------------------------------------------
(* Outcomes are final and have a cause. *)

LEMMA StepKeepsOutcomes ==
  ASSUME IInv, [Next]_vars, NEW n \in Nodes
  PROVE  /\ state[n] \in {"BUILT", "FAILED"} => state'[n] = state[n]
         /\ job[n] # "none" => job'[n] # "none" /\ (job[n] # "running" => job'[n] = job[n])
<1> DEFINE Keeps == /\ state[n] \in {"BUILT", "FAILED"} => state'[n] = state[n]
                    /\ job[n] # "none" => job'[n] # "none" /\ (job[n] # "running" => job'[n] = job[n])
<1> SUFFICES Keeps
  OBVIOUS
<1>1. TypeOK /\ BooksInv
  BY DEF IInv
<1>2. CASE RecordResult
  <2>1. Head(results) \in Unrecorded
    <3>1. results \in Seq(Nodes) /\ results # <<>> /\ resultVec \in Seq(Nodes)
      BY <1>1, <1>2 DEF RecordResult, TypeOK
    <3>2. Pending \in Seq(Nodes) /\ Pending # <<>> /\ Head(Pending) = Head(results)
      BY <3>1, OneQueue DEF Pending
    <3> QED BY <3>2, <1>1, TailOfDistinct DEF BooksInv, Unrecorded
  <2>2. state[Head(results)] = "SCHEDULED"
    BY <1>1, <1>2, <2>1 DEF RecordResult, BooksInv, Ended
  <2> QED BY <1>1, <1>2, <2>2 DEF RecordResult, TypeOK, serverVars
<1>3. ASSUME NEW m \in Nodes, Hold(m) \/ MarkBuilt(m)
      PROVE  Keeps
  BY <1>1, <1>3 DEF Hold, MarkBuilt, Undecided, TypeOK, serverVars
<1>4. ASSUME NEW m \in Nodes, Schedule(m)
      PROVE  Keeps
  BY <1>1, <1>4 DEF Schedule, Undecided, TypeOK, BooksInv
<1>5. ASSUME NEW m \in Nodes, Worker(m)
      PROVE  Keeps
  BY <1>1, <1>5 DEF Worker, Report, ReportToNobody, TypeOK, mainVars
<1>6. ASSUME NEW m \in Nodes, PassOver(m) \/ Abort(m)
      PROVE  Keeps
  BY <1>6 DEF PassOver, Abort, serverVars
<1>7. CASE \/ LoopTest \/ Sleep \/ SpuriousWake \/ Drain \/ StartPass \/ EndPass
           \/ CheckSlots \/ TakeResults
  BY <1>7 DEF LoopTest, Sleep, SpuriousWake, Drain, StartPass, EndPass, CheckSlots, TakeResults,
     serverVars
<1>8. CASE UNCHANGED vars
  BY <1>8 DEF vars, mainVars, serverVars
<1> QED BY <1>2, <1>3, <1>4, <1>5, <1>6, <1>7, <1>8 DEF Next, Main, AtNode, Finished

\* A node runs at most once and its outcome is never revised.
THEOREM OutcomesAreFinal == Spec => OutcomeIsFinal
<1>1. IInv /\ [Next]_vars =>
        [\A n \in Nodes :
           /\ state[n] \in {"BUILT", "FAILED"} => state'[n] = state[n]
           /\ job[n] # "none" => job'[n] # "none" /\ (job[n] # "running" => job'[n] = job[n])]_vars
  BY StepKeepsOutcomes
<1> QED BY <1>1, IInvHolds, PTL DEF Spec, OutcomeIsFinal

\* A FAILED node has failed itself or depends on a FAILED one.
THEOREM FailuresHaveCauses == Spec => []FailureHasCause
<1>1. Init => FailureHasCause
  BY DEF Init, FailureHasCause
<1>2. FailureHasCause /\ IInv /\ [Next]_vars => FailureHasCause'
  <2> SUFFICES ASSUME FailureHasCause, IInv, [Next]_vars,
                      NEW n \in Nodes, state'[n] = "FAILED",
                      job'[n] # "failed"
               PROVE  \E d \in deps'[n] : state'[d] = "FAILED"
    BY DEF FailureHasCause
  <2>1. TypeOK /\ deps' = deps
    BY DEF IInv, Next, Main, AtNode, Worker, Finished, LoopTest, Sleep, TakeResults, RecordResult, Drain,
       StartPass, EndPass, CheckSlots, PassOver, Hold, MarkBuilt, Schedule, Abort, SpuriousWake,
       Report, ReportToNobody, vars, inputs
  <2>2. \A d \in deps[n] : d \in Nodes
    BY <2>1 DEF TypeOK
  <2>3. CASE state[n] = "FAILED"
    <3>1. job[n] # "failed"
      BY StepKeepsOutcomes
    <3>2. PICK d \in deps[n] : state[d] = "FAILED"
      BY <2>3, <3>1 DEF FailureHasCause
    <3> QED BY <2>1, <2>2, <3>2, StepKeepsOutcomes
  <2>4. CASE state[n] # "FAILED"
    <3>1. CASE RecordResult
      BY <2>1, <2>4, <3>1 DEF RecordResult, TypeOK, serverVars
    <3>2. ASSUME NEW m \in Nodes, Hold(m)
          PROVE  \E d \in deps[n] : state'[d] = "FAILED"
      <4>1. m = n /\ EdgeState(n) = "FAILED"
        BY <2>1, <2>4, <3>2 DEF Hold, TypeOK
      <4>2. PICK d \in deps[n] : state[d] = "FAILED"
        BY <4>1 DEF EdgeState
      <4> QED BY <2>2, <4>2, StepKeepsOutcomes
    <3>3. ASSUME NEW m \in Nodes, MarkBuilt(m) \/ Schedule(m) \/ PassOver(m) \/ Abort(m) \/ Worker(m)
          PROVE  FALSE
      BY <2>1, <2>4, <3>3 DEF MarkBuilt, Schedule, PassOver, Abort, Worker, Report, ReportToNobody,
         TypeOK, mainVars
    <3>4. CASE \/ LoopTest \/ Sleep \/ SpuriousWake \/ Drain \/ StartPass \/ EndPass
               \/ CheckSlots \/ TakeResults \/ UNCHANGED vars
      BY <2>4, <3>4 DEF LoopTest, Sleep, SpuriousWake, Drain, StartPass, EndPass, CheckSlots,
         TakeResults, vars, mainVars
    <3> QED BY <2>1, <3>1, <3>2, <3>3, <3>4 DEF Next, Main, AtNode, Finished
  <2> QED BY <2>3, <2>4, <2>1
<1> QED BY <1>1, <1>2, IInvHolds, PTL DEF Spec

-------------------------------------------------------------------------------
(* The recorded statuses. *)

\* When up-to-date nodes are not rebuilt, no node that database_decider decides is
\* recorded as built while its command runs or after it failed.
THEOREM InterruptedIsNotBuilt ==
  ASSUME ~AlwaysBuild
  PROVE  Spec => []InterruptedNotBuilt
<1>1. Init => InterruptedNotBuilt
  BY DEF Init, InterruptedNotBuilt
<1>2. InterruptedNotBuilt /\ IInv /\ [Next]_vars => InterruptedNotBuilt'
  <2> SUFFICES ASSUME InterruptedNotBuilt, IInv, [Next]_vars,
                      NEW n \in Nodes, DecidedByDatabase(n)', OnlyTargetOfItsTask(n)', n \in statusOk'
               PROVE  job'[n] \notin {"running", "failed"}
    BY DEF InterruptedNotBuilt
  <2>1. TypeOK /\ UNCHANGED inputs
    BY DEF IInv, Next, Main, AtNode, Worker, Finished, LoopTest, Sleep, TakeResults, RecordResult, Drain,
       StartPass, EndPass, CheckSlots, PassOver, Hold, MarkBuilt, Schedule, Abort, SpuriousWake,
       Report, ReportToNobody, vars, inputs
  <2>2. /\ OnlyTargetOfItsTask(n) /\ RequestedTargets(task[n]) = {n}
        /\ DecidedByDatabase(n) /\ task[n] \notin ByTimestamp
    BY <2>1 DEF OnlyTargetOfItsTask, RequestedTargets, DecidedByDatabase, inputs
  <2>3. CASE RecordResult
    BY <2>1, <2>2, <2>3 DEF RecordResult, InterruptedNotBuilt, serverVars, TypeOK
  <2>4. ASSUME NEW m \in Nodes, Schedule(m)
        PROVE  job'[n] \notin {"running", "failed"}
    <3>1. PICK bad \in OutdatedSets(task[m]) : bad # {} /\ statusOk' = StatusAfterDecider(task[m], bad)
      BY <2>4 DEF Schedule
    <3>2. n \in statusOk
      BY <3>1 DEF StatusAfterDecider
    <3>3. m # n
      <4> SUFFICES ASSUME m = n PROVE FALSE
        OBVIOUS
      <4>1. bad = {n}
        BY <2>2, <3>1 DEF OutdatedSets
      <4>2. n \in RequestedTargets(task[m]) /\ n <= n
        BY <2>2, NodesAreNat
      <4> QED BY <2>2, <3>1, <4>1, <4>2 DEF StatusAfterDecider
    <3> QED BY <2>1, <2>2, <2>4, <3>2, <3>3 DEF Schedule, InterruptedNotBuilt, TypeOK
  <2>5. ASSUME NEW m \in Nodes, Abort(m)
        PROVE  job'[n] \notin {"running", "failed"}
    BY <2>2, <2>5 DEF Abort, StatusAfterDecider, InterruptedNotBuilt, serverVars
  <2>6. ASSUME NEW m \in Nodes, Worker(m)
        PROVE  job'[n] \notin {"running", "failed"}
    BY <2>1, <2>2, <2>6 DEF Worker, Report, ReportToNobody, InterruptedNotBuilt, TypeOK, mainVars
  <2>7. ASSUME NEW m \in Nodes, PassOver(m) \/ Hold(m) \/ MarkBuilt(m)
        PROVE  job'[n] \notin {"running", "failed"}
    BY <2>2, <2>7 DEF PassOver, Hold, MarkBuilt, InterruptedNotBuilt, serverVars
  <2>8. CASE \/ LoopTest \/ Sleep \/ SpuriousWake \/ Drain \/ StartPass \/ EndPass
             \/ CheckSlots \/ TakeResults \/ UNCHANGED vars
    BY <2>2, <2>8 DEF LoopTest, Sleep, SpuriousWake, Drain, StartPass, EndPass, CheckSlots, TakeResults,
       vars, mainVars, serverVars, InterruptedNotBuilt
  <2> QED BY <2>3, <2>4, <2>5, <2>6, <2>7, <2>8 DEF Next, Main, AtNode, Finished
<1> QED BY <1>1, <1>2, IInvHolds, PTL DEF Spec

\* What a sibling's decider call or command did is not undone.
LEMMA SiblingStaysDecided ==
  ASSUME IInv, [Next]_vars, NEW n \in Nodes, SiblingDecided(n)
  PROVE  SiblingDecided(n)'
<1>1. PICK m \in RequestedTargets(task[n]) \ {n} :
        job[m] # "none" \/ (pc = "aborted" /\ cursor = m)
  BY DEF SiblingDecided
<1>2. UNCHANGED inputs
  BY DEF Next, Main, AtNode, Worker, Finished, LoopTest, Sleep, TakeResults, RecordResult, Drain,
     StartPass, EndPass, CheckSlots, PassOver, Hold, MarkBuilt, Schedule, Abort, SpuriousWake,
     Report, ReportToNobody, vars
<1>3. m \in (RequestedTargets(task[n]) \ {n})' /\ m \in Nodes
  BY <1>1, <1>2 DEF RequestedTargets, inputs
<1>4. CASE job[m] # "none"
  <2>1. job'[m] # "none"
    BY <1>3, <1>4, StepKeepsOutcomes
  <2> QED BY <1>3, <2>1 DEF SiblingDecided
<1>5. CASE pc = "aborted" /\ cursor = m
  <2>1. pc' = "aborted" /\ cursor' = cursor
    BY <1>5 DEF Next, Main, AtNode, Worker, Finished, LoopTest, Sleep, TakeResults, RecordResult,
       Drain, StartPass, EndPass, CheckSlots, PassOver, Hold, MarkBuilt, Schedule, Abort, At,
       SpuriousWake, Report, ReportToNobody, vars, mainVars, Ended
  <2> QED BY <1>3, <1>5, <2>1 DEF SiblingDecided
<1> QED BY <1>1, <1>4, <1>5

\* A node counted as built is recorded as built, unless a sibling target was decided later.
THEOREM BuiltIsAlwaysRecorded == Spec => []BuiltIsRecorded
<1>1. Init => BuiltIsRecorded
  BY DEF Init, BuiltIsRecorded
<1>2. BuiltIsRecorded /\ IInv /\ [Next]_vars => BuiltIsRecorded'
  <2> SUFFICES ASSUME BuiltIsRecorded, IInv, [Next]_vars,
                      NEW n \in Nodes, state'[n] = "BUILT", DecidedByDatabase(n)'
               PROVE  n \in statusOk' \/ SiblingDecided(n)'
    BY DEF BuiltIsRecorded
  <2>1. TypeOK /\ UNCHANGED inputs
    BY DEF IInv, Next, Main, AtNode, Worker, Finished, LoopTest, Sleep, TakeResults, RecordResult, Drain,
       StartPass, EndPass, CheckSlots, PassOver, Hold, MarkBuilt, Schedule, Abort, SpuriousWake,
       Report, ReportToNobody, vars, inputs
  <2>2. task[n] # NoTask /\ task[n] \notin ByTimestamp /\ DecidedByDatabase(n)
    BY <2>1 DEF DecidedByDatabase, inputs
  <2> SUFFICES ASSUME ~SiblingDecided(n), ~SiblingDecided(n)'
               PROVE  n \in statusOk'
    BY SiblingStaysDecided
  <2>3. CASE RecordResult
    BY <2>1, <2>2, <2>3 DEF RecordResult, BuiltIsRecorded, TypeOK
  <2>4. ASSUME NEW m \in Nodes, Schedule(m) \/ Abort(m)
        PROVE  n \in statusOk'
    <3>1. Undecided(m) /\ (m # n => state'[n] = state[n])
      BY <2>1, <2>4 DEF Schedule, Abort, TypeOK
    <3>2. m # n /\ state[n] = "BUILT" /\ n \in statusOk
      BY <2>1, <2>2, <2>4, <3>1 DEF Schedule, Abort, Undecided, TypeOK, BuiltIsRecorded
    <3>3. job'[m] # "none" \/ (pc' = "aborted" /\ cursor' = m)
      BY <2>1, <2>4 DEF Schedule, Abort, At, TypeOK
    <3>4. m \notin (RequestedTargets(task[n]))'
      BY <3>2, <3>3 DEF SiblingDecided
    <3>5. n \notin RequestedTargets(task[m])
      BY <2>1, <3>4 DEF RequestedTargets, inputs
    <3> QED BY <2>4, <3>2, <3>5 DEF Schedule, Abort, StatusAfterDecider
  <2>5. ASSUME NEW m \in Nodes, MarkBuilt(m)
        PROVE  n \in statusOk'
    <3>1. CASE m = n
      <4>1. {} \in OutdatedSets(task[n]) /\ n \in RequestedTargets(task[n])
        BY <2>2, <2>5, <3>1 DEF MarkBuilt, RequestedTargets
      <4> QED BY <2>2, <2>5, <4>1 DEF OutdatedSets, MarkBuilt
    <3>2. CASE m # n
      BY <2>1, <2>2, <2>5, <3>2 DEF MarkBuilt, TypeOK, BuiltIsRecorded
    <3> QED BY <3>1, <3>2
  <2>6. ASSUME NEW m \in Nodes, PassOver(m) \/ Hold(m) \/ Worker(m)
        PROVE  n \in statusOk'
    BY <2>1, <2>2, <2>6 DEF PassOver, Hold, Worker, Report, ReportToNobody, BuiltIsRecorded, TypeOK,
       mainVars, EdgeState
  <2>7. CASE \/ LoopTest \/ Sleep \/ SpuriousWake \/ Drain \/ StartPass \/ EndPass
             \/ CheckSlots \/ TakeResults \/ UNCHANGED vars
    BY <2>2, <2>7 DEF LoopTest, Sleep, SpuriousWake, Drain, StartPass, EndPass, CheckSlots, TakeResults,
       vars, mainVars, BuiltIsRecorded
  <2> QED BY <2>3, <2>4, <2>5, <2>6, <2>7 DEF Next, Main, AtNode, Finished
<1> QED BY <1>1, <1>2, IInvHolds, PTL DEF Spec

-------------------------------------------------------------------------------
(* The end of the loop. *)

LEMMA LargestNode ==
  ASSUME NEW T, T \subseteq Nodes, T # {}
  PROVE  \E x \in T : \A y \in T : y <= x
<1> DEFINE U == { N - x : x \in T }
<1>1. U \subseteq Nat /\ U # {} /\ T \subseteq Nat /\ N \in Nat
  <2>1. N \in Nat /\ \A x \in T : x \in Nat /\ N - x \in Nat
    BY NodesAreNat DEF Nodes
  <2>2. PICK x \in T : TRUE
    OBVIOUS
  <2>3. N - x \in U
    OBVIOUS
  <2> QED BY <2>1, <2>3
<1>2. PICK u \in U : \A v \in U : <<v, u>> \notin OpToRel(<, Nat)
  BY <1>1, WFMin, NatLessThanWellFounded
<1>3. PICK x \in T : u = N - x
  OBVIOUS
<1>4. \A y \in T : N - y \in U /\ ~(N - y < N - x)
  BY <1>1, <1>2, <1>3 DEF OpToRel
<1>5. ASSUME NEW y \in T PROVE y <= x
  <2>1. y \in Int /\ x \in Int /\ N \in Int
    BY <1>1, <1>3
  <2>2. ~(N - y < N - x)
    BY <1>4
  <2> QED BY <2>1, <2>2
<1> QED BY <1>5

\* The end goal is built only when everything is.
LEMMA EndGoalBuiltMeansAllBuilt ==
  ASSUME GraphInv, DependenciesFirst, state[N] = "BUILT"
  PROVE  \A n \in Nodes : state[n] = "BUILT"
<1> DEFINE T == { n \in Nodes : state[n] # "BUILT" }
<1> SUFFICES ASSUME T # {} PROVE FALSE
  OBVIOUS
<1>1. PICK n \in T : \A m \in T : m <= n
  BY LargestNode
<1>2. n \in 1 .. (N - 1)
  BY NodesAreNat DEF Nodes
<1>3. PICK m \in Nodes : m > n /\ n \in deps[m]
  BY <1>2 DEF GraphInv, BuildOrders, Reachable
<1>4. m \notin T
  BY <1>1, <1>3, NodesAreNat
<1> QED BY <1>1, <1>3, <1>4 DEF DependenciesFirst

Counted == { n \in Nodes : state[n] = "BUILT" /\ job[n] = "ok" }

\* Without -k a failure ends the loop at once; a running job's node is SCHEDULED;
\* the counter counts the recorded successes.
EndInv ==
  /\ ~KeepGoing => \A n \in Nodes : state[n] = "FAILED" => pc \in {"drain", "drainAsleep", "failed"}
  /\ \A n \in Running : state[n] = "SCHEDULED"
  /\ jobCounter = Cardinality(Counted)
  /\ pc = "failed" => Running = {}
  /\ pc = "returned" => state[N] \in {"BUILT", "FAILED"}
  /\ pc = "returned" /\ ~KeepGoing => Pending = <<>>

LEMMA CountedIsFinite == IsFiniteSet(Counted) /\ Cardinality(Counted) \in Nat
BY NodesAreNat, FS_Subset, FS_CardinalityType DEF Counted

LEMMA InitEstablishesEndInv == Init => EndInv
<1> SUFFICES ASSUME Init PROVE EndInv
  OBVIOUS
<1>1. Counted = {} /\ Running = {}
  BY DEF Init, Counted, Running
<1> QED BY <1>1, FS_EmptySet DEF Init, EndInv

LEMMA NothingPendingWhenAllBuilt ==
  ASSUME IInv, pc \notin Ended, \A n \in Nodes : state[n] = "BUILT"
  PROVE  Pending = <<>>
<1>1. Unrecorded = {}
  <2>1. { n \in Nodes : state[n] = "SCHEDULED" } = Running \cup Unrecorded
    BY DEF IInv, BooksInv
  <2> QED BY <2>1
<1>2. Pending \in Seq(Nodes)
  BY OneQueue DEF IInv, TypeOK, Pending
<1>3. Pending # <<>> => Head(Pending) \in Unrecorded
  BY <1>2, TailOfDistinct DEF IInv, BooksInv, Unrecorded
<1> QED BY <1>1, <1>3

LEMMA NextPreservesEndInv == EndInv /\ IInv /\ [Next]_vars => EndInv'
<1> SUFFICES ASSUME EndInv, IInv, [Next]_vars PROVE EndInv'
  OBVIOUS
<1>1. TypeOK /\ BooksInv /\ GraphInv /\ DependenciesFirst
  BY DEF IInv
<1>2. CASE RecordResult
  <2> DEFINE n == Head(results)
  <2>1. n \in Nodes /\ n \in Unrecorded
    <3>1. results \in Seq(Nodes) /\ results # <<>> /\ resultVec \in Seq(Nodes)
      BY <1>1, <1>2 DEF RecordResult, TypeOK
    <3>2. Pending \in Seq(Nodes) /\ Pending # <<>> /\ Head(Pending) = n
      BY <3>1, OneQueue DEF Pending
    <3> QED BY <3>2, <1>1, TailOfDistinct DEF BooksInv, Unrecorded
  <2>2. state[n] = "SCHEDULED" /\ n \notin Counted /\ pc = "collect"
    BY <1>1, <1>2, <2>1 DEF RecordResult, BooksInv, Counted, Ended
  <2>3. UNCHANGED job /\ Running' = Running /\ n \notin Running
    BY <1>1, <1>2, <2>1 DEF RecordResult, serverVars, Running, BooksInv
  <2>4. CASE job[n] = "ok"
    <3>1. state' = [state EXCEPT ![n] = "BUILT"] /\ jobCounter' = jobCounter + 1 /\ pc' = pc
      BY <1>2, <2>4 DEF RecordResult
    <3>2. Counted' = Counted \cup {n}
      BY <1>1, <2>1, <2>3, <2>4, <3>1 DEF Counted, TypeOK
    <3>3. jobCounter' = Cardinality(Counted')
      BY <2>2, <3>1, <3>2, CountedIsFinite, FS_AddElement DEF EndInv
    <3> QED BY <1>1, <2>1, <2>2, <2>3, <3>1, <3>3 DEF EndInv, TypeOK, Running
  <2>5. CASE job[n] = "failed"
    <3>1. state' = [state EXCEPT ![n] = "FAILED"] /\ jobCounter' = jobCounter /\ pc' = AfterFailure
      BY <1>2, <2>5 DEF RecordResult
    <3>2. Counted' = Counted
      BY <1>1, <2>1, <2>2, <2>3, <2>5, <3>1 DEF Counted, TypeOK
    <3>3. pc' \in {"collect", "drain"} /\ (~KeepGoing => pc' = "drain")
      BY <3>1 DEF AfterFailure
    <3> QED BY <1>1, <2>1, <2>2, <2>3, <3>1, <3>2, <3>3 DEF EndInv, TypeOK, Running
  <2> QED BY <1>2, <2>4, <2>5 DEF RecordResult
<1>3. ASSUME NEW n \in Nodes, Hold(n) \/ MarkBuilt(n)
      PROVE  EndInv'
  <2>1. /\ pc = "scan" /\ pc' = pc /\ Undecided(n) /\ job[n] = "none"
        /\ UNCHANGED <<serverVars, jobCounter>>
    BY <1>1, <1>3 DEF Hold, MarkBuilt, At, BooksInv
  <2>2. /\ \A m \in Nodes : m # n => state'[m] = state[m]
    BY <1>1, <1>3 DEF Hold, MarkBuilt, TypeOK
  <2>3. Running' = Running /\ Counted' = Counted /\ n \notin Running
    BY <2>1, <2>2 DEF Running, Counted, serverVars, Undecided
  <2>4. ~KeepGoing => \A m \in Nodes : state'[m] # "FAILED"
    <3> SUFFICES ASSUME ~KeepGoing PROVE state'[n] # "FAILED"
      BY <2>1, <2>2 DEF EndInv
    <3>1. \A d \in deps[n] : d \in Nodes /\ state[d] # "FAILED"
      BY <1>1, <2>1 DEF EndInv, TypeOK
    <3>2. EdgeState(n) # "FAILED"
      BY <3>1 DEF EdgeState
    <3> QED BY <1>1, <1>3, <3>2 DEF Hold, MarkBuilt, TypeOK
  <2> QED BY <2>1, <2>2, <2>3, <2>4 DEF EndInv, Running
<1>4. ASSUME NEW n \in Nodes, Schedule(n)
      PROVE  EndInv'
  <2>1. /\ pc = "scan" /\ pc' = "slots" /\ Undecided(n) /\ job[n] = "none"
        /\ job' = [job EXCEPT ![n] = "running"] /\ state' = [state EXCEPT ![n] = "SCHEDULED"]
        /\ jobCounter' = jobCounter
    BY <1>1, <1>4 DEF Schedule, At, BooksInv
  <2>2. Running' = Running \cup {n} /\ Counted' = Counted
    BY <1>1, <2>1 DEF Running, Counted, TypeOK
  <2> QED BY <1>1, <2>1, <2>2 DEF EndInv, TypeOK
<1>5. ASSUME NEW n \in Nodes, NEW outcome \in {"ok", "failed"},
             Report(n, outcome) \/ ReportToNobody(n, outcome)
      PROVE  EndInv'
  <2>1. /\ job[n] = "running" /\ job' = [job EXCEPT ![n] = outcome]
        /\ UNCHANGED <<state, results, jobCounter>>
    BY <1>5 DEF Report, ReportToNobody, mainVars
  <2>2. state[n] = "SCHEDULED" /\ Running' = Running \ {n} /\ Counted' = Counted
    BY <1>1, <2>1 DEF EndInv, Running, Counted, TypeOK
  <2>3. CASE Report(n, outcome)
    <3>1. pc' = Awake /\ pc \notin Ended
      BY <2>3 DEF Report
    <3>2. pc' \notin Ended /\ (pc \in {"drain", "drainAsleep"} => pc' \in {"drain", "drainAsleep"})
      BY <3>1 DEF Awake, Ended
    <3> QED BY <2>1, <2>2, <3>1, <3>2 DEF EndInv, Ended
  <2>4. CASE ReportToNobody(n, outcome)
    BY <2>1, <2>2, <2>4 DEF EndInv, ReportToNobody, mainVars, Pending
  <2> QED BY <1>5, <2>3, <2>4
<1>6. CASE LoopTest
  <2>1. UNCHANGED <<deps, state, job, jobCounter, results, resultVec>> /\ pc = "loop"
    BY <1>6 DEF LoopTest, inputs, serverVars
  <2>2. Running' = Running /\ Counted' = Counted /\ Pending' = Pending
    BY <2>1 DEF Running, Counted, Pending
  <2>3. pc' = "returned" => state[N] \in {"BUILT", "FAILED"}
    BY <1>6 DEF LoopTest
  <2>4. ASSUME pc' = "returned", ~KeepGoing
        PROVE  Pending' = <<>>
    <3>1. state[N] = "BUILT"
      BY <2>1, <2>3, <2>4, NodesAreNat DEF EndInv
    <3>2. \A n \in Nodes : state[n] = "BUILT"
      BY <1>1, <3>1, EndGoalBuiltMeansAllBuilt
    <3> QED BY <2>1, <2>2, <3>2, NothingPendingWhenAllBuilt DEF Ended
  <2>5. pc' \in {"returned", "wait"}
    BY <1>6 DEF LoopTest
  <2> QED BY <2>1, <2>2, <2>3, <2>4, <2>5 DEF EndInv
<1>7. CASE Drain
  <2>1. UNCHANGED <<state, job, jobCounter, results, resultVec>> /\ pc = "drain"
    BY <1>7 DEF Drain, serverVars
  <2>2. Running' = Running /\ Counted' = Counted
    BY <2>1 DEF Running, Counted
  <2>3. pc' = "failed" => Running = {}
    BY <1>1, <1>7, <2>1, RunningIsFinite, FS_EmptySet DEF Drain, BooksInv, Ended
  <2>4. pc' \in {"failed", "drainAsleep"}
    BY <1>7 DEF Drain
  <2> QED BY <2>1, <2>2, <2>3, <2>4 DEF EndInv
<1>8. CASE \/ Sleep \/ SpuriousWake \/ StartPass \/ EndPass \/ CheckSlots \/ TakeResults
           \/ \E n \in Nodes : PassOver(n) \/ Abort(n)
  <2>1. UNCHANGED <<state, job, jobCounter>>
    BY <1>8 DEF Sleep, SpuriousWake, StartPass, EndPass, CheckSlots, TakeResults, PassOver, Abort,
       serverVars
  <2>2. Running' = Running /\ Counted' = Counted
    BY <2>1 DEF Running, Counted
  <2>3. /\ pc' \notin {"failed", "returned"}
        /\ pc \notin {"failed", "returned"}
        /\ pc \in {"drain", "drainAsleep"} => pc' \in {"drain", "drainAsleep"}
    BY <1>8 DEF Sleep, SpuriousWake, StartPass, EndPass, CheckSlots, TakeResults, PassOver, Abort,
       At, Awake
  <2> QED BY <2>1, <2>2, <2>3 DEF EndInv
<1>9. CASE UNCHANGED vars
  BY <1>9 DEF vars, inputs, mainVars, serverVars, EndInv, Running, Counted, Pending
<1> QED BY <1>2, <1>3, <1>4, <1>5, <1>6, <1>7, <1>8, <1>9 DEF Next, Main, AtNode, Worker, Finished

LEMMA EndInvHolds == Spec => []EndInv
BY InitEstablishesEndInv, NextPreservesEndInv, IInvHolds, PTL DEF Spec

\* A build that returns without -k has built everything, has lost no job or result,
\* and its result is the number of commands that ran.
THEOREM ReturnsAreComplete == Spec => []ReturnIsComplete
<1>1. IInv /\ EndInv => ReturnIsComplete
  <2> SUFFICES ASSUME IInv, EndInv, pc = "returned", ~KeepGoing
               PROVE  /\ \A n \in Nodes : state[n] = "BUILT"
                      /\ Running = {} /\ resultVec = <<>>
                      /\ jobCounter = Cardinality({ n \in Nodes : job[n] = "ok" })
    BY DEF ReturnIsComplete
  <2>1. state[N] = "BUILT"
    BY NodesAreNat DEF EndInv
  <2>2. \A n \in Nodes : state[n] = "BUILT"
    BY <2>1, EndGoalBuiltMeansAllBuilt DEF IInv
  <2>3. Running = {}
    BY <2>2 DEF EndInv, Running
  <2>4. resultVec = <<>>
    BY ConcatEqualIffEmpty DEF EndInv, Pending, IInv, TypeOK
  <2>5. Counted = { n \in Nodes : job[n] = "ok" }
    BY <2>2 DEF Counted
  <2> QED BY <2>2, <2>3, <2>4, <2>5 DEF EndInv
<1> QED BY <1>1, IInvHolds, EndInvHolds, PTL

\* Without -k, no job is running when the loop has been left by a return or by "Task
\* failed" and the JobServer is destroyed.
THEOREM JobServerOutlivesItsJobs ==
  ASSUME ~KeepGoing
  PROVE  Spec => []JobServerOutlivesJobs
<1>1. IInv /\ EndInv /\ ReturnIsComplete => JobServerOutlivesJobs
  BY DEF EndInv, ReturnIsComplete, JobServerOutlivesJobs
<1> QED BY <1>1, IInvHolds, EndInvHolds, ReturnsAreComplete, PTL

\* Without -k no command starts once a failure has been read.
THEOREM NothingStartsAfterFailure == Spec => NoStartAfterFailure
<1>1. IInv /\ EndInv /\ [Next]_vars =>
        [~KeepGoing /\ (\E n \in Nodes : state[n] = "FAILED") => Running' \subseteq Running]_vars
  <2> SUFFICES ASSUME IInv, EndInv, [Next]_vars, ~KeepGoing,
                      NEW n \in Nodes, state[n] = "FAILED"
               PROVE  Running' \subseteq Running
    OBVIOUS
  <2>1. pc \in {"drain", "drainAsleep", "failed"}
    BY DEF EndInv
  <2>2. \A m \in Nodes : ~Schedule(m)
    BY <2>1 DEF Schedule, At
  <2>3. ASSUME NEW m \in Nodes, Worker(m)
        PROVE  Running' \subseteq Running
    BY <2>3 DEF Worker, Report, ReportToNobody, Running, IInv, TypeOK
  <2>4. ASSUME NEW m \in Nodes, PassOver(m) \/ Hold(m) \/ MarkBuilt(m) \/ Abort(m)
        PROVE  Running' = Running
    BY <2>4 DEF PassOver, Hold, MarkBuilt, Abort, Running, serverVars
  <2>5. CASE \/ LoopTest \/ Sleep \/ SpuriousWake \/ Drain \/ StartPass \/ EndPass
             \/ CheckSlots \/ TakeResults \/ RecordResult \/ UNCHANGED vars
    BY <2>5 DEF LoopTest, Sleep, SpuriousWake, Drain, StartPass, EndPass, CheckSlots, TakeResults,
       RecordResult, vars, serverVars, Running
  <2> QED BY <2>2, <2>3, <2>4, <2>5 DEF Next, Main, AtNode, Finished
<1> QED BY <1>1, IInvHolds, EndInvHolds, PTL DEF Spec, NoStartAfterFailure

-------------------------------------------------------------------------------
(* parallel_build implements AbstractBuild: a job's outcome counts the moment *)
(* its thread reports, and recording it, sleeping and passing are stutters.   *)

\* A node's state agrees with its job.
LinkInv ==
  \A n \in Nodes :
    /\ state[n] = "BUILT" => job[n] \in {"none", "ok"}
    /\ state[n] = "FAILED" => job[n] \in {"none", "failed"}
    /\ state[n] = "SCHEDULED" => job[n] # "none"

RInv == IInv /\ EndInv /\ LinkInv

LEMMA InitEstablishesLinkInv == Init => LinkInv
BY DEF Init, LinkInv

LEMMA HeadIsScheduled ==
  ASSUME IInv, RecordResult
  PROVE  Head(results) \in Nodes /\ state[Head(results)] = "SCHEDULED"
<1>1. results \in Seq(Nodes) /\ results # <<>> /\ resultVec \in Seq(Nodes)
  BY DEF IInv, RecordResult, TypeOK
<1>2. Pending \in Seq(Nodes) /\ Pending # <<>> /\ Head(Pending) = Head(results)
  BY <1>1, OneQueue DEF Pending
<1>3. Head(results) \in Unrecorded
  BY <1>2, TailOfDistinct DEF IInv, BooksInv, Unrecorded
<1> QED BY <1>3 DEF IInv, BooksInv, RecordResult, Ended

LEMMA NextPreservesLinkInv == LinkInv /\ IInv /\ EndInv /\ [Next]_vars => LinkInv'
<1> SUFFICES ASSUME LinkInv, IInv, EndInv, [Next]_vars PROVE LinkInv'
  OBVIOUS
<1>1. TypeOK /\ BooksInv
  BY DEF IInv
<1>2. CASE RecordResult
  BY <1>1, <1>2, HeadIsScheduled DEF RecordResult, LinkInv, TypeOK, serverVars
<1>3. ASSUME NEW n \in Nodes, Hold(n) \/ MarkBuilt(n)
      PROVE  LinkInv'
  BY <1>1, <1>3 DEF Hold, MarkBuilt, LinkInv, TypeOK, BooksInv, serverVars, EdgeState
<1>4. ASSUME NEW n \in Nodes, Schedule(n)
      PROVE  LinkInv'
  BY <1>1, <1>4 DEF Schedule, LinkInv, TypeOK
<1>5. ASSUME NEW n \in Nodes, Worker(n)
      PROVE  LinkInv'
  <2>1. state[n] = "SCHEDULED"
    BY <1>5 DEF Worker, Report, ReportToNobody, EndInv, Running
  <2> QED BY <1>1, <1>5, <2>1 DEF Worker, Report, ReportToNobody, LinkInv, TypeOK, mainVars
<1>6. CASE \/ LoopTest \/ Sleep \/ SpuriousWake \/ Drain \/ StartPass \/ EndPass
           \/ CheckSlots \/ TakeResults \/ UNCHANGED vars
           \/ \E n \in Nodes : PassOver(n) \/ Abort(n)
  BY <1>6 DEF LoopTest, Sleep, SpuriousWake, Drain, StartPass, EndPass, CheckSlots, TakeResults,
     PassOver, Abort, vars, mainVars, serverVars, LinkInv
<1> QED BY <1>2, <1>3, <1>4, <1>5, <1>6 DEF Next, Main, AtNode, Finished

LEMMA RInvHolds == Spec => []RInv
BY InitEstablishesLinkInv, NextPreservesLinkInv, IInvHolds, EndInvHolds, PTL DEF Spec, RInv

-------------------------------------------------------------------------------

status == [n \in Nodes |-> AbstractStatus(n)]

\* What the mapping says of settled and undecided nodes.
LEMMA MappedStatus ==
  ASSUME RInv, NEW n \in Nodes
  PROVE  /\ state[n] = "BUILT" => status[n] = "built"
         /\ state[n] = "FAILED" => status[n] = "failed"
         /\ Undecided(n) => status[n] = "waiting"
         /\ status[n] = "running" <=> n \in Running
BY DEF RInv, LinkInv, IInv, BooksInv, Undecided, status, AbstractStatus, Running

LEMMA AbstractCardinality == \A S : Abstract!Cardinality(S) = Cardinality(S)
BY DEF Abstract!Cardinality, Cardinality

LEMMA AbstractRunning == Abstract!Running = Running
BY DEF Abstract!Running, Running, AbstractStatus

\* A step that changes the mapped status of one node only.
LEMMA OneStatusChanges ==
  ASSUME NEW n \in Nodes, NEW s,
         AbstractStatus(n)' = s,
         UNCHANGED deps,
         \A m \in Nodes : m # n => AbstractStatus(m)' = AbstractStatus(m)
  PROVE  Abstract!Become(n, s)
BY DEF Abstract!Become

THEOREM RefinesAbstractBuild == Spec => ImplementsAbstractBuild
<1>1. Init => Abstract!Init
  <2> SUFFICES ASSUME Init PROVE Abstract!Init
    OBVIOUS
  <2>1. deps \in [Nodes -> SUBSET Nodes]
    BY DEF Init, BuildOrders
  <2>2. \A n \in Nodes : AbstractStatus(n) = "waiting"
    BY DEF Init, AbstractStatus
  <2> QED BY <2>1, <2>2 DEF Abstract!Init
<1>2. RInv /\ RInv' /\ [Next]_vars => [Abstract!Next]_(Abstract!vars)
  <2> SUFFICES ASSUME RInv, RInv', [Next]_vars
               PROVE  Abstract!Next \/ UNCHANGED Abstract!vars
    OBVIOUS
  <2>1. TypeOK /\ BooksInv
    BY DEF RInv, IInv
  <2>2. ASSUME UNCHANGED deps, \A m \in Nodes : AbstractStatus(m)' = AbstractStatus(m)
        PROVE  UNCHANGED Abstract!vars
    BY <2>2 DEF Abstract!vars
  <2>3. CASE RecordResult
    <3> DEFINE n == Head(results)
    <3>1. n \in Nodes /\ state[n] = "SCHEDULED"
      BY <2>3, HeadIsScheduled DEF RInv
    <3>2. job' = job /\ UNCHANGED deps /\ job[n] \in {"ok", "failed"}
      BY <2>3 DEF RecordResult, serverVars, inputs
    <3>3. \A m \in Nodes : m # n => state'[m] = state[m]
      BY <2>1, <2>3, <3>1 DEF RecordResult, TypeOK
    <3>4. \A m \in Nodes : AbstractStatus(m)' = AbstractStatus(m)
      BY <3>1, <3>2, <3>3 DEF AbstractStatus
    <3> QED BY <2>2, <3>2, <3>4
  <2>4. ASSUME NEW n \in Nodes, Hold(n)
        PROVE  Abstract!Next \/ UNCHANGED Abstract!vars
    <3>1. /\ job' = job /\ UNCHANGED deps /\ job[n] = "none" /\ Undecided(n)
          /\ \A m \in Nodes : m # n => state'[m] = state[m]
          /\ state'[n] = EdgeState(n)
      BY <2>1, <2>4 DEF Hold, serverVars, inputs, BooksInv, TypeOK
    <3>2. \A m \in Nodes : m # n => AbstractStatus(m)' = AbstractStatus(m)
      BY <3>1 DEF AbstractStatus
    <3>3. CASE EdgeState(n) = "FAILED"
      <4>1. PICK d \in deps[n] : state[d] = "FAILED"
        BY <3>3 DEF EdgeState
      <4>2. status[n] = "waiting" /\ status[d] = "failed" /\ d \in Nodes
        BY <2>1, <3>1, <4>1, MappedStatus DEF TypeOK
      <4>3. Abstract!Become(n, "failed")
        <5>1. AbstractStatus(n)' = "failed"
          BY <3>1, <3>3 DEF AbstractStatus
        <5> QED BY <3>1, <3>2, <5>1, OneStatusChanges
      <4> QED BY <4>1, <4>2, <4>3 DEF Abstract!Next, Abstract!Propagate, status
    <3>4. CASE EdgeState(n) # "FAILED"
      <4>1. state'[n] = "BLOCKED"
        BY <2>4, <3>1, <3>4 DEF EdgeState, Hold
      <4>2. AbstractStatus(n)' = AbstractStatus(n)
        BY <3>1, <4>1 DEF AbstractStatus, Undecided
      <4> QED BY <2>2, <3>1, <3>2, <4>2
    <3> QED BY <3>3, <3>4
  <2>5. ASSUME NEW n \in Nodes, At(n), EdgeState(n) = "TO_BUILD"
        PROVE  Abstract!DepsBuilt(n)
    <3>1. \A d \in deps[n] : d \in Nodes /\ state[d] = "BUILT"
      BY <2>1, <2>5, ToBuildMeansReady DEF RInv, IInv, TypeOK
    <3> QED BY <3>1, MappedStatus DEF Abstract!DepsBuilt, status
  <2>6. ASSUME NEW n \in Nodes, MarkBuilt(n)
        PROVE  Abstract!Next
    <3>1. /\ job' = job /\ UNCHANGED deps /\ job[n] = "none" /\ Undecided(n)
          /\ \A m \in Nodes : m # n => state'[m] = state[m]
          /\ state'[n] = "BUILT"
      BY <2>1, <2>6 DEF MarkBuilt, serverVars, inputs, BooksInv, TypeOK
    <3>2. \A m \in Nodes : m # n => AbstractStatus(m)' = AbstractStatus(m)
      BY <3>1 DEF AbstractStatus
    <3>3. AbstractStatus(n)' = "built"
      BY <3>1 DEF AbstractStatus
    <3>4. Abstract!Become(n, "built")
      BY <3>1, <3>2, <3>3, OneStatusChanges
    <3>5. Abstract!DepsBuilt(n)
      BY <2>5, <2>6 DEF MarkBuilt
    <3> QED BY <3>1, <3>4, <3>5, MappedStatus DEF Abstract!Next, Abstract!Skip, status
  <2>7. ASSUME NEW n \in Nodes, Schedule(n)
        PROVE  Abstract!Next
    <3>1. /\ UNCHANGED deps /\ Undecided(n) /\ pc = "scan"
          /\ \A m \in Nodes : m # n => state'[m] = state[m] /\ job'[m] = job[m]
          /\ job'[n] = "running"
      BY <2>1, <2>7 DEF Schedule, inputs, TypeOK, At
    <3>2. \A m \in Nodes : m # n => AbstractStatus(m)' = AbstractStatus(m)
      BY <3>1 DEF AbstractStatus
    <3>3. AbstractStatus(n)' = "running"
      BY <3>1 DEF AbstractStatus
    <3>4. Abstract!Become(n, "running")
      BY <3>1, <3>2, <3>3, OneStatusChanges
    <3>5. Abstract!DepsBuilt(n)
      BY <2>5, <2>7 DEF Schedule
    <3>6. NumJobs # Unlimited => Abstract!Cardinality(Abstract!Running) < NumJobs
      BY <2>1, <3>1, AbstractRunning, AbstractCardinality DEF RInv, IInv, SlotInv, BooksInv, Ended
    <3> QED BY <3>1, <3>4, <3>5, <3>6, MappedStatus DEF Abstract!Next, Abstract!Start, status
  <2>8. ASSUME NEW n \in Nodes, Worker(n)
        PROVE  Abstract!Next
    <3>1. PICK outcome \in {"ok", "failed"} : Report(n, outcome) \/ ReportToNobody(n, outcome)
      BY <2>8 DEF Worker
    <3>2. /\ job[n] = "running" /\ UNCHANGED <<deps, state>>
          /\ job'[n] = outcome /\ \A m \in Nodes : m # n => job'[m] = job[m]
      BY <2>1, <3>1 DEF Report, ReportToNobody, mainVars, inputs, TypeOK
    <3>3. \A m \in Nodes : m # n => AbstractStatus(m)' = AbstractStatus(m)
      BY <3>2 DEF AbstractStatus
    <3> DEFINE s == IF outcome = "ok" THEN "built" ELSE "failed"
    <3>4. AbstractStatus(n)' = s /\ AbstractStatus(n) = "running" /\ s \in {"built", "failed"}
      BY <3>2 DEF AbstractStatus
    <3>5. Abstract!Become(n, s)
      BY <3>2, <3>3, <3>4, OneStatusChanges
    <3>6. Abstract!Finish(n, s)
      BY <3>4, <3>5 DEF Abstract!Finish
    <3> HIDE DEF s
    <3> QED BY <3>4, <3>6 DEF Abstract!Next
  <2>9. CASE \/ LoopTest \/ Sleep \/ SpuriousWake \/ Drain \/ StartPass \/ EndPass
             \/ CheckSlots \/ TakeResults \/ UNCHANGED vars
             \/ \E n \in Nodes : PassOver(n) \/ Abort(n)
    <3>1. UNCHANGED <<deps, state, job>>
      BY <2>9 DEF LoopTest, Sleep, SpuriousWake, Drain, StartPass, EndPass, CheckSlots, TakeResults,
         PassOver, Abort, vars, mainVars, serverVars, inputs
    <3> QED BY <2>2, <3>1 DEF AbstractStatus
  <2> QED BY <2>3, <2>4, <2>6, <2>7, <2>8, <2>9 DEF Next, Main, AtNode, Finished
<1> QED BY <1>1, <1>2, RInvHolds, PTL DEF Spec, ImplementsAbstractBuild, Abstract!Spec

===============================================================================
