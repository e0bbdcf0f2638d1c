------------------------- MODULE SignatureDb_proofs --------------------------
(* Proofs about SignatureDb for every set of sources, targets and graphs, any *)
(* kind of edit at any time, failing commands and killed runs.                *)
EXTENDS SignatureDb, FiniteSetTheorems, WellFoundedInduction, TLAPS

-------------------------------------------------------------------------------
(* The latest generation of a non-empty set. *)

LEMMA MaxIsLargest ==
  ASSUME NEW n \in Nat, NEW S, S \subseteq 1 .. n, S # {}
  PROVE  Max(S) \in S /\ \A y \in S : Max(S) >= y
<1>1. \E x \in S : \A y \in S : x >= y
  <2> DEFINE U == { n - x : x \in S }
  <2>0. \A x \in S : x \in Nat /\ n - x \in Nat
    OBVIOUS
  <2>1. U \subseteq Nat /\ U # {}
    BY <2>0
  <2>2. PICK u \in U : \A v \in U : <<v, u>> \notin OpToRel(<, Nat)
    BY <2>1, WFMin, NatLessThanWellFounded
  <2>3. PICK x \in S : u = n - x
    OBVIOUS
  <2>4. ASSUME NEW y \in S PROVE x >= y
    <3>1. n - y \in U /\ ~(n - y < n - x)
      BY <2>0, <2>1, <2>2, <2>3 DEF OpToRel
    <3> QED BY <2>0, <3>1
  <2> QED BY <2>4
<1> QED BY <1>1 DEF Max

-------------------------------------------------------------------------------
(* The inductive invariant: generations are given out in order. *)

\* The generation a file would get in the run that is on, or in the next one.
Latest == IF phase = "idle" THEN clock ELSE clock - 1

IsRecord(m) == m = [gen |-> m.gen, prevGen |-> m.prevGen, skip |-> m.skip, row |-> m.row]

\* A record is of a generation up to the latest, and the latest only if it will be written.
RecordOk(m, latest) ==
  /\ IsRecord(m)
  /\ m.gen \in 1 .. latest /\ m.prevGen \in 0 .. m.gen
  /\ m.skip => m.gen < latest

Shapes ==
  /\ disk = [f \in Files |-> disk[f]]
  /\ mem = [f \in Files |-> mem[f]]

\* The tables know no generation of the run that is on.
TablesAreOlder ==
  /\ \A f \in Files : DOMAIN rows[f] \subseteq 1 .. (Latest - 1)
  /\ \A t \in Targets : depTable[t] \subseteq Files \X (1 .. (Latest - 1))

RecordsAreOk ==
  /\ \A f \in Files : IsRecord(mem[f]) /\ (Loaded(f) => RecordOk(mem[f], Latest))
  /\ \A f \in Files : ~Loaded(f) => mem[f] = NotLoaded
  /\ phase = "idle" => \A f \in Files : ~Loaded(f)

TimeInv == phase # "idle" => clock >= 2

\* A target has a record once it was decided.
DecidedAreLoaded ==
  phase # "idle" =>
    \A t \in Targets : job[t] \in {"running", "built", "failed", "dropped"} => Loaded(t)

\* The rest of TypeOK.
OtherTypes ==
  /\ world \in Worlds
  /\ clock \in 1 .. MaxClock
  /\ \A s \in Sources : disk[s] \in FileState
  /\ \A t \in Targets : disk[t].ts \in 0 .. MaxClock
  /\ deps \in Graphs /\ command \in [Targets -> Commands]
  /\ stray \subseteq Files
  /\ phase \in {"idle", "running", "failing"}
  /\ job \in [Targets -> {"none", "todo", "running", "built", "failed", "dropped"}]
  /\ unch \in [Files -> {"unknown", "same", "changed"}]
  /\ {doClean, quiet} \subseteq BOOLEAN
  /\ reported \subseteq Targets /\ ended \in [Targets -> {"well", "failed", "threw"}]

IInv ==
  /\ OtherTypes /\ Shapes /\ TablesAreOlder /\ RecordsAreOk /\ TimeInv
  /\ DecidedAreLoaded
  /\ NoDanglingDependency

-------------------------------------------------------------------------------
(* Records. *)

LEMMA LatestIsPositive == ASSUME IInv PROVE Latest \in Nat \ {0} /\ clock \in Nat
BY InputAssumption DEF IInv, OtherTypes, TimeInv, Latest

LEMMA FilesOfGraphs ==
  ASSUME deps \in Graphs, NEW t \in Targets PROVE deps[t] \subseteq Files
BY InputAssumption

LEMMA RecordIsOk ==
  ASSUME IInv, NEW f \in Files PROVE RecordOk(Record(f), Latest)
<1>1. CASE Loaded(f)
  BY <1>1 DEF IInv, RecordsAreOk, Record
<1>2. CASE ~Loaded(f) /\ DOMAIN rows[f] = {}
  BY <1>2, LatestIsPositive DEF Record, Stored, RecordOk, IsRecord
<1>3. CASE ~Loaded(f) /\ DOMAIN rows[f] # {}
  <2> DEFINE g == Max(DOMAIN rows[f])
  <2>1. g \in DOMAIN rows[f] /\ g \in 1 .. (Latest - 1)
    BY <1>3, LatestIsPositive, MaxIsLargest DEF IInv, TablesAreOlder
  <2>2. Record(f) = [gen |-> g, prevGen |-> 0,
                     skip |-> 1 \in DOMAIN rows[f] \/ f \in stray, row |-> rows[f][g]]
    BY <1>3 DEF Record, Stored
  <2> HIDE DEF g
  <2> QED BY <2>1, <2>2, LatestIsPositive DEF RecordOk, IsRecord
<1> QED BY <1>1, <1>2, <1>3

LEMMA BumpedIsOk ==
  ASSUME NEW latest \in Nat, NEW m, RecordOk(m, latest)
  PROVE  RecordOk(Bumped(m), latest)
<1>1. CASE m.skip
  <2> DEFINE n == Bumped(m)
  <2>1. n = [gen |-> m.gen + 1, prevGen |-> m.gen, skip |-> FALSE, row |-> m.row]
    BY <1>1 DEF Bumped
  <2>2. n.gen = m.gen + 1 /\ n.prevGen = m.gen /\ n.skip = FALSE /\ n.row = m.row
    BY <2>1
  <2>3. IsRecord(n)
    BY <2>1, <2>2 DEF IsRecord
  <2>4. m.gen \in 1 .. latest /\ m.gen < latest
    BY <1>1 DEF RecordOk
  <2> HIDE DEF n
  <2>5. RecordOk(n, latest)
    BY <2>2, <2>3, <2>4 DEF RecordOk
  <2> QED BY <2>5 DEF n
<1>2. CASE ~m.skip
  BY <1>2 DEF RecordOk, Bumped
<1> QED BY <1>1, <1>2

LEMMA SeenRecordIsOk ==
  ASSUME IInv, NEW f \in Files PROVE RecordOk(SeenRecord(f), Latest)
BY RecordIsOk, BumpedIsOk, LatestIsPositive DEF SeenRecord

\* What the status and the command of a record's row are does not matter to it.
LEMMA StatusChanged ==
  ASSUME NEW latest \in Nat, NEW m, RecordOk(m, latest), NEW ok, NEW cmd
  PROVE  /\ RecordOk([m EXCEPT !.row.ok = ok], latest)
         /\ RecordOk([m EXCEPT !.row.ok = ok, !.row.taskSig = cmd], latest)
<1>1. \E r : [m EXCEPT !.row.ok = ok] = [m EXCEPT !.row = r]
  OBVIOUS
<1>2. \E r : [m EXCEPT !.row.ok = ok, !.row.taskSig = cmd] = [m EXCEPT !.row = r]
  BY DEF RecordOk, IsRecord
<1>3. ASSUME NEW r PROVE RecordOk([m EXCEPT !.row = r], latest)
  BY DEF RecordOk, IsRecord
<1> QED BY <1>1, <1>2, <1>3

-------------------------------------------------------------------------------
(* Steps that leave the database and the records alone. *)

MemoryInv == TablesAreOlder /\ RecordsAreOk /\ TimeInv /\ NoDanglingDependency

LEMMA OneLess ==
  ASSUME NEW new \in Nat, NEW old \in Nat, new >= old, old - 1 \in Nat \ {0}
  PROVE  new - 1 \in Nat /\ new - 1 >= old - 1
OBVIOUS

LEMMA LongerRange ==
  ASSUME NEW n \in Nat, NEW m \in Nat, n >= m
  PROVE  1 .. (m - 1) \subseteq 1 .. (n - 1)
OBVIOUS

LEMMA MemoryKept ==
  ASSUME IInv, clock' \in Nat, clock' >= clock, UNCHANGED <<phase, rows, depTable, mem>>
  PROVE  MemoryInv'
<1>1. PICK n \in Nat, m \in Nat \ {0} : n = Latest' /\ m = Latest /\ n >= m
  <2>1. PICK new \in Nat, old \in Nat : new = clock' /\ old = clock /\ new >= old
    BY LatestIsPositive
  <2>2. CASE phase = "idle"
    <3>1. Latest' = new /\ Latest = old
      BY <2>1, <2>2 DEF Latest
    <3> QED BY <2>1, <3>1, LatestIsPositive
  <2>3. CASE phase # "idle"
    <3>1. Latest' = new - 1 /\ Latest = old - 1
      BY <2>1, <2>3 DEF Latest
    <3>2. old - 1 \in Nat \ {0}
      BY <3>1, LatestIsPositive
    <3>3. new - 1 \in Nat /\ new - 1 >= old - 1
      BY <2>1, <3>2, OneLess
    <3> QED BY <3>1, <3>2, <3>3
  <2> QED BY <2>2, <2>3
<1>2. TablesAreOlder'
  <2> DEFINE older == 1 .. (m - 1)
             newer == 1 .. (n - 1)
  <2>2. older \subseteq newer
    BY <1>1, LongerRange
  <2>3. /\ \A f \in Files : DOMAIN rows[f] \subseteq older
        /\ \A t \in Targets : depTable[t] \subseteq Files \X older
    BY <1>1 DEF IInv, TablesAreOlder
  <2>4. TablesAreOlder' <=>
          /\ \A f \in Files : DOMAIN rows[f] \subseteq newer
          /\ \A t \in Targets : depTable[t] \subseteq Files \X newer
    BY <1>1 DEF TablesAreOlder
  <2> HIDE DEF older, newer
  <2> QED BY <2>2, <2>3, <2>4
<1>3. RecordsAreOk'
  <2>1. ASSUME NEW r, RecordOk(r, m) PROVE RecordOk(r, n)
    BY <1>1, <2>1 DEF RecordOk
  <2> QED BY <1>1, <2>1 DEF IInv, RecordsAreOk, Loaded
<1>4. TimeInv' /\ NoDanglingDependency'
  BY LatestIsPositive DEF IInv, TimeInv, NoDanglingDependency
<1> QED BY <1>2, <1>3, <1>4 DEF MemoryInv

LEMMA InitIsInvariant == Init => IInv
<1> SUFFICES ASSUME Init PROVE IInv
  OBVIOUS
<1>1. \A f \in Files : rows[f] = <<>> /\ DOMAIN rows[f] = {}
  BY DEF Init
<1>2. OtherTypes
  <2>1. \A s \in Sources : disk[s] = [content |-> 1, ts |-> 1]
    BY DEF Init, Files
  <2>2. \A t \in Targets : disk[t].ts = 0
    BY InputAssumption DEF Init, Files, NoFile
  <2>3. [content |-> 1, ts |-> 1] \in FileState /\ 1 \in 1 .. MaxClock /\ 0 \in 0 .. MaxClock
    BY InputAssumption DEF FileState
  <2>4. /\ job \in [Targets -> {"none", "todo", "running", "built", "failed", "dropped"}]
        /\ unch \in [Files -> {"unknown", "same", "changed"}]
    BY DEF Init
  <2> QED BY <2>1, <2>2, <2>3, <2>4 DEF Init, OtherTypes
<1>3. Shapes /\ TimeInv /\ DecidedAreLoaded
  BY DEF Init, Shapes, TimeInv, DecidedAreLoaded
<1>4. TablesAreOlder /\ NoDanglingDependency
  BY <1>1 DEF Init, TablesAreOlder, NoDanglingDependency
<1>5. RecordsAreOk
  BY DEF Init, RecordsAreOk, IsRecord, NotLoaded, NullRow, Loaded
<1> QED BY <1>2, <1>3, <1>4, <1>5 DEF IInv

LEMMA EditSourcePreserves ==
  ASSUME IInv, NEW s \in Sources, EditSource(s), world' = world
  PROVE  IInv'
<1> USE DEF IInv
<1>1. PICK new \in EditedSources(s) : disk' = [disk EXCEPT ![s] = new]
  BY DEF EditSource
<1>2. clock \in 1 .. MaxClock /\ clock' = clock + 1 /\ clock' \in 1 .. MaxClock
  BY InputAssumption DEF EditSource, Tick, OtherTypes
<1>3. new \in FileState
  BY <1>2, InputAssumption DEF EditedSources, FileState, OtherTypes
<1>4. Shapes' /\ DecidedAreLoaded'
  BY <1>1 DEF EditSource, Shapes, runVars, DecidedAreLoaded, Loaded
<1>5. OtherTypes'
  <2>1. \A x \in Sources : disk'[x] \in FileState
    BY <1>1, <1>3 DEF Shapes, OtherTypes, Files
  <2>2. \A t \in Targets : disk'[t].ts \in 0 .. MaxClock
    BY <1>1, InputAssumption DEF Shapes, OtherTypes, Files
  <2> QED BY <1>2, <2>1, <2>2 DEF EditSource, OtherTypes, dbVars, runVars
<1>6. MemoryInv'
  BY <1>2, MemoryKept DEF EditSource, dbVars, runVars
<1> QED BY <1>4, <1>5, <1>6 DEF MemoryInv

\* What a step may do to the file of a target.
LEMMA TargetWritten ==
  ASSUME IInv, NEW t \in Targets, NEW new, new.ts \in 0 .. MaxClock,
         disk' = [disk EXCEPT ![t] = new]
  PROVE  /\ disk' = [f \in Files |-> disk'[f]]
         /\ \A s \in Sources : disk'[s] \in FileState
         /\ \A x \in Targets : disk'[x].ts \in 0 .. MaxClock
<1>1. disk' = [f \in Files |-> IF f = t THEN new ELSE disk[f]]
  BY DEF IInv, Shapes
<1>2. t \notin Sources /\ t \in Files
  BY InputAssumption DEF Files
<1>3. disk' = [f \in Files |-> disk'[f]]
  BY <1>1
<1>4. \A s \in Sources : disk'[s] = disk[s]
  BY <1>1, <1>2 DEF Files
<1>5. \A x \in Targets : disk'[x] = IF x = t THEN new ELSE disk[x]
  BY <1>1 DEF Files
<1> QED BY <1>3, <1>4, <1>5 DEF IInv, OtherTypes

LEMMA DeleteTargetPreserves ==
  ASSUME IInv, NEW t \in Targets, DeleteTarget(t), world' = world
  PROVE  IInv'
<1> USE DEF IInv
<1>1. clock \in 1 .. MaxClock /\ clock' = clock + 1 /\ clock' \in 1 .. MaxClock
  BY InputAssumption DEF DeleteTarget, Tick, OtherTypes
<1>2. NoFile.ts \in 0 .. MaxClock
  BY InputAssumption DEF NoFile
<1>3. Shapes' /\ OtherTypes' /\ DecidedAreLoaded'
  BY <1>1, <1>2, TargetWritten
    DEF DeleteTarget, Shapes, OtherTypes, dbVars, runVars, DecidedAreLoaded
<1>4. MemoryInv'
  BY <1>1, MemoryKept DEF DeleteTarget, dbVars, runVars
<1> QED BY <1>3, <1>4 DEF MemoryInv

LEMMA EditScriptPreserves ==
  ASSUME IInv, EditScript, world' = world
  PROVE  IInv'
<1> USE DEF IInv
<1>1. clock \in 1 .. MaxClock /\ clock' = clock + 1 /\ clock' \in 1 .. MaxClock
  BY InputAssumption DEF EditScript, Tick, OtherTypes
<1>2. Shapes' /\ OtherTypes' /\ DecidedAreLoaded'
  BY <1>1 DEF EditScript, Shapes, OtherTypes, dbVars, runVars, DecidedAreLoaded
<1>3. MemoryInv'
  BY <1>1, MemoryKept DEF EditScript, dbVars, runVars
<1> QED BY <1>2, <1>3 DEF MemoryInv

-------------------------------------------------------------------------------
(* Steps of a run. *)

LEMMA DecidePreserves ==
  ASSUME IInv, NEW t \in Targets, Decide(t), world' = world
  PROVE  IInv'
<1> USE DEF IInv
<1>1. /\ UNCHANGED <<clock, disk, command, deps, rows, stray, depTable, phase>>
      /\ UNCHANGED <<quiet, reported, ended, world>>
      /\ phase = "running" /\ t \in Files
  BY DEF Decide, fileVars, dbVars, ghostVars, Files
<1>2. mem' = [f \in Files |->
       IF f = t THEN
         IF Outdated(t)
         THEN [Record(t) EXCEPT !.row.ok = FALSE, !.row.taskSig = command[t]]
         ELSE Record(t)
       ELSE IF f \in deps[t] THEN
         IF IsCurrent(t, f) THEN SeenRecord(f) ELSE Record(f)
       ELSE mem[f]]
  BY DEF Decide
<1>3. Latest \in Nat \ {0} /\ Latest' = Latest
  BY <1>1, LatestIsPositive DEF Latest
<1>4. ASSUME NEW f \in Files, f = t \/ f \in deps[t]
      PROVE  RecordOk(mem'[f], Latest)
  BY <1>1, <1>2, <1>3, <1>4, RecordIsOk, SeenRecordIsOk, StatusChanged
<1>5. ASSUME NEW f \in Files, f # t, f \notin deps[t]
      PROVE  mem'[f] = mem[f]
  BY <1>2, <1>5
<1>6. \A m : RecordOk(m, Latest) => IsRecord(m) /\ m.gen # 0
  BY <1>3 DEF RecordOk
<1>7. RecordsAreOk'
  BY <1>1, <1>3, <1>4, <1>5, <1>6 DEF RecordsAreOk, Loaded
<1>8. Shapes'
  BY <1>1, <1>2 DEF Shapes
<1>9. DecidedAreLoaded'
  <2> SUFFICES ASSUME NEW x \in Targets,
                      job'[x] \in {"running", "built", "failed", "dropped"}
               PROVE  mem'[x].gen # 0
    BY DEF DecidedAreLoaded, Loaded
  <2>1. x \in Files
    BY DEF Files
  <2>2. CASE x = t \/ x \in deps[t]
    BY <1>4, <1>6, <2>1, <2>2
  <2>3. CASE x # t /\ x \notin deps[t]
    <3>1. job'[x] = job[x]
      BY <2>3 DEF Decide, OtherTypes
    <3> QED BY <1>1, <1>5, <2>1, <2>3, <3>1 DEF DecidedAreLoaded, Loaded
  <2> QED BY <2>2, <2>3
<1>10. OtherTypes'
  <2>1. job' \in [Targets -> {"none", "todo", "running", "built", "failed", "dropped"}]
    BY DEF Decide, OtherTypes
  <2>2. unch' \in [Files -> {"unknown", "same", "changed"}]
    <3>1. \A f \in Files : Seen(f) \in {"unknown", "same", "changed"}
      BY DEF Seen, OtherTypes
    <3>2. \A f \in Files : Verdict(t, f) # "new" => Verdict(t, f) \in {"unknown", "same", "changed"}
      BY <3>1 DEF Verdict
    <3> QED BY <3>2 DEF Decide, OtherTypes
  <2>3. doClean' \in BOOLEAN
    BY DEF Decide, OtherTypes
  <2> QED BY <1>1, <2>1, <2>2, <2>3 DEF OtherTypes
<1>11. TablesAreOlder' /\ TimeInv' /\ NoDanglingDependency'
  BY <1>1, <1>3 DEF TablesAreOlder, TimeInv, NoDanglingDependency
<1> QED BY <1>7, <1>8, <1>9, <1>10, <1>11

\* The comparison at the end of a command.
\* What Recompared does, whatever it compares.
Reasked(t, ok) ==
  \E m \in {mem[t], Bumped(mem[t])} : \E answer \in {"same", "changed"} :
    /\ mem' = [mem EXCEPT ![t] = [m EXCEPT !.row.ok = ok]]
    /\ unch' = [unch EXCEPT ![t] = answer]

LEMMA RecomparedIsOk ==
  ASSUME IInv, NEW t \in Targets, NEW ok, Loaded(t), Reasked(t, ok),
         phase # "idle", phase' # "idle", clock' = clock
  PROVE  /\ RecordsAreOk'
         /\ mem' = [f \in Files |-> mem'[f]]
         /\ \A f \in Files : Loaded(f) => Loaded(f)'
         /\ unch' \in [Files -> {"unknown", "same", "changed"}]
<1> USE DEF IInv
<1>1. t \in Files
  BY DEF Files
<1>2. Latest \in Nat \ {0} /\ Latest' = Latest
  BY LatestIsPositive DEF Latest
<1>3. PICK m : mem' = [mem EXCEPT ![t] = [m EXCEPT !.row.ok = ok]] /\ m \in {mem[t], Bumped(mem[t])}
  BY DEF Reasked
<1>4. RecordOk(m, Latest)
  BY <1>1, <1>2, <1>3, BumpedIsOk DEF RecordsAreOk
<1>5. RecordOk(mem'[t], Latest)
  BY <1>1, <1>2, <1>3, <1>4, StatusChanged DEF Shapes
<1>6. mem'[t].gen # 0 /\ IsRecord(mem'[t])
  BY <1>2, <1>5 DEF RecordOk
<1>7. \A f \in Files \ {t} : mem'[f] = mem[f]
  BY <1>3 DEF Shapes
<1>8. RecordsAreOk' /\ \A f \in Files : Loaded(f) => Loaded(f)'
  BY <1>2, <1>5, <1>6, <1>7 DEF RecordsAreOk, Loaded
<1>9. mem' = [f \in Files |-> mem'[f]]
  BY <1>3 DEF Shapes
<1>10. unch' \in [Files -> {"unknown", "same", "changed"}]
  BY DEF Reasked, OtherTypes
<1> QED BY <1>8, <1>9, <1>10

\* A command has ended and its file is compared: Succeed and Fail.
LEMMA CommandRead ==
  ASSUME IInv, NEW t \in Targets, NEW new, NEW ok, job[t] = "running",
         new.ts \in 0 .. MaxClock, disk' = [disk EXCEPT ![t] = new],
         Reasked(t, ok),
         phase # "idle", phase' \in {"running", "failing"},
         \E outcome \in {"built", "failed"} : job' = [job EXCEPT ![t] = outcome],
         ended' \in [Targets -> {"well", "failed", "threw"}],
         UNCHANGED <<clock, command, deps, dbVars, doClean, quiet, reported, world>>
  PROVE  IInv'
<1> USE DEF IInv
<1>1. Loaded(t)
  BY DEF DecidedAreLoaded
<1>2. /\ UNCHANGED <<clock, command, deps, rows, stray, depTable>>
      /\ UNCHANGED <<doClean, quiet, reported, world>>
      /\ phase' # "idle"
  BY DEF dbVars
<1>3. /\ RecordsAreOk'
      /\ mem' = [f \in Files |-> mem'[f]]
      /\ \A f \in Files : Loaded(f) => Loaded(f)'
      /\ unch' \in [Files -> {"unknown", "same", "changed"}]
  BY <1>1, <1>2, RecomparedIsOk
<1>4. Latest' = Latest
  BY <1>2 DEF Latest
<1>5. job' \in [Targets -> {"none", "todo", "running", "built", "failed", "dropped"}]
  BY DEF OtherTypes
<1>6. Shapes' /\ OtherTypes'
  BY <1>2, <1>3, <1>5, TargetWritten DEF Shapes, OtherTypes
<1>7. DecidedAreLoaded'
  <2>1. \A x \in Targets : job'[x] \in {"running", "built", "failed", "dropped"} =>
          job[x] \in {"running", "built", "failed", "dropped"}
    BY DEF OtherTypes
  <2> QED BY <1>3, <2>1 DEF DecidedAreLoaded, Files
<1>8. TablesAreOlder' /\ TimeInv' /\ NoDanglingDependency'
  BY <1>2, <1>4 DEF TablesAreOlder, TimeInv, NoDanglingDependency
<1> QED BY <1>3, <1>6, <1>7, <1>8

LEMMA FileTimes ==
  ASSUME IInv
  PROVE  /\ \A t \in Targets : Written(t).ts \in 0 .. MaxClock /\ disk[t].ts \in 0 .. MaxClock
         /\ Garbage.ts \in 0 .. MaxClock /\ NoFile.ts \in 0 .. MaxClock
<1>1. clock \in 0 .. MaxClock /\ 0 \in 0 .. MaxClock
  BY InputAssumption DEF IInv, OtherTypes
<1> QED BY <1>1 DEF IInv, OtherTypes, Written, Garbage, NoFile

LEMMA RemainsHaveTimes ==
  ASSUME IInv, NEW t \in Targets, NEW new \in Remains(t)
  PROVE  new.ts \in 0 .. MaxClock
BY FileTimes DEF Remains

LEMMA CommandPreserves ==
  ASSUME IInv, NEW t \in Targets, Command(t), world' = world
  PROVE  IInv'
<1>1. CASE Succeed(t)
  <2>1. /\ phase # "idle" /\ phase' \in {"running", "failing"} /\ job[t] = "running"
        /\ \E outcome \in {"built", "failed"} : job' = [job EXCEPT ![t] = outcome]
        /\ ended' \in [Targets -> {"well", "failed", "threw"}]
    BY <1>1 DEF Succeed, IInv, OtherTypes
  <2>2. /\ disk' = [disk EXCEPT ![t] = Written(t)] /\ Reasked(t, TRUE)
        /\ Written(t).ts \in 0 .. MaxClock
    BY <1>1, FileTimes DEF Succeed, Recompared, Reasked
  <2>3. UNCHANGED <<clock, command, deps, dbVars, doClean, quiet, reported, world>>
    BY <1>1 DEF Succeed
  <2> QED BY <2>1, <2>2, <2>3, CommandRead
<1>2. CASE Fail(t)
  <2>1. PICK new \in Remains(t) : disk' = [disk EXCEPT ![t] = new] /\ Reasked(t, FALSE)
    BY <1>2 DEF Fail, Recompared, Reasked
  <2>2. /\ phase # "idle" /\ phase' \in {"running", "failing"} /\ job[t] = "running"
        /\ \E outcome \in {"built", "failed"} : job' = [job EXCEPT ![t] = outcome]
        /\ ended' \in [Targets -> {"well", "failed", "threw"}]
    BY <1>2 DEF Fail, IInv, OtherTypes
  <2>3. UNCHANGED <<clock, command, deps, dbVars, doClean, quiet, reported, world>>
    BY <1>2 DEF Fail
  <2>4. new.ts \in 0 .. MaxClock
    BY RemainsHaveTimes
  <2> QED BY <2>1, <2>2, <2>3, <2>4, CommandRead
<1>3. CASE Throw(t)
  <2>1. PICK new \in LeftByException(t) :
          disk' = [disk EXCEPT ![t] = new] /\ Reasked(t, FALSE)
    <3>1. unch[t] \in {"unknown", "same", "changed"}
      BY DEF IInv, OtherTypes, Files
    <3> QED BY <1>3, <3>1 DEF Throw, Recompared, Reasked
  <2>2. /\ phase # "idle" /\ phase' \in {"running", "failing"} /\ job[t] = "running"
        /\ \E outcome \in {"built", "failed"} : job' = [job EXCEPT ![t] = outcome]
        /\ ended' \in [Targets -> {"well", "failed", "threw"}]
    BY <1>3 DEF Throw, IInv, OtherTypes
  <2>3. new.ts \in 0 .. MaxClock
    BY FileTimes DEF LeftByException
  <2>4. UNCHANGED <<clock, command, deps, dbVars, doClean, quiet, reported, world>>
    BY <1>3 DEF Throw
  <2> QED BY <2>1, <2>2, <2>3, <2>4, CommandRead
<1>4. CASE Drop(t)
  <2> USE DEF IInv
  <2>1. PICK new : disk' = [disk EXCEPT ![t] = new] /\ new.ts \in 0 .. MaxClock
    BY <1>4, FileTimes, RemainsHaveTimes DEF Drop, LeftByException
  <2>2. /\ UNCHANGED <<clock, command, deps, rows, stray, depTable>>
        /\ UNCHANGED <<phase, mem, doClean, quiet, reported, world>>
        /\ job[t] = "running"
    BY <1>4 DEF Drop, dbVars
  <2>3. /\ job' \in [Targets -> {"none", "todo", "running", "built", "failed", "dropped"}]
        /\ unch' \in [Files -> {"unknown", "same", "changed"}]
        /\ ended' \in [Targets -> {"well", "failed", "threw"}]
    BY <1>4 DEF Drop, OtherTypes
  <2>4. Shapes' /\ OtherTypes'
    BY <2>1, <2>2, <2>3, TargetWritten DEF Shapes, OtherTypes
  <2>5. DecidedAreLoaded'
    <3>1. \A x \in Targets : job'[x] \in {"running", "built", "failed", "dropped"} =>
            job[x] \in {"running", "built", "failed", "dropped"}
      BY <1>4 DEF Drop, OtherTypes
    <3> QED BY <2>2, <3>1 DEF DecidedAreLoaded, Loaded
  <2>6. MemoryInv'
    BY <2>2, LatestIsPositive, MemoryKept
  <2> QED BY <2>4, <2>5, <2>6 DEF MemoryInv
<1> QED BY <1>1, <1>2, <1>3, <1>4 DEF Command

LEMMA StartRunPreserves ==
  ASSUME IInv, StartRun, world' = world
  PROVE  IInv'
<1> USE DEF IInv
<1>1. /\ UNCHANGED <<disk, command, deps, rows, stray, depTable>>
      /\ UNCHANGED <<doClean, reported, ended, world>>
      /\ phase = "idle" /\ phase' = "running" /\ clock' = clock + 1
  BY DEF StartRun, dbVars, Tick
<1>2. clock' \in 1 .. MaxClock /\ clock' >= 2 /\ clock' - 1 = clock
  <2>1. PICK c \in 1 .. MaxClock : clock = c /\ c < MaxClock
    BY <1>1 DEF StartRun, Tick, OtherTypes
  <2>2. c + 1 \in 1 .. MaxClock /\ c + 1 >= 2 /\ c + 1 - 1 = c
    BY <2>1, InputAssumption
  <2> QED BY <1>1, <2>1, <2>2
<1>3. Latest' = Latest /\ Latest \in Nat \ {0}
  BY <1>1, <1>2, LatestIsPositive DEF Latest
<1>4. PICK scanned, needed :
        /\ job' = [t \in Targets |-> IF t \in needed THEN "todo" ELSE "none"]
        /\ mem' = [f \in Files |-> IF f \in scanned THEN SeenRecord(f) ELSE NotLoaded]
        /\ unch' = [f \in Files |-> IF f \in scanned THEN Seen(f) ELSE "unknown"]
  <2>1. PICK goals \in GoalSets :
          LET needed == Needed(goals)
              scanned == world.scanned \cap UNION { deps[t] : t \in needed } IN
          /\ job' = [t \in Targets |-> IF t \in needed THEN "todo" ELSE "none"]
          /\ mem' = [f \in Files |-> IF f \in scanned THEN SeenRecord(f) ELSE NotLoaded]
          /\ unch' = [f \in Files |-> IF f \in scanned THEN Seen(f) ELSE "unknown"]
    BY DEF StartRun
  <2> WITNESS world.scanned \cap UNION { deps[t] : t \in Needed(goals) }, Needed(goals)
  <2> QED BY ONLY <2>1, Zenon
<1>5. ASSUME NEW f \in Files
      PROVE  RecordOk(mem'[f], Latest) \/ mem'[f] = NotLoaded
  BY <1>4, SeenRecordIsOk
<1>6. RecordsAreOk'
  <2>1. \A m : RecordOk(m, Latest) => IsRecord(m) /\ m.gen # 0
    BY <1>3 DEF RecordOk
  <2>2. IsRecord(NotLoaded) /\ NotLoaded.gen = 0
    BY DEF IsRecord, NotLoaded
  <2> QED BY <1>1, <1>3, <1>5, <2>1, <2>2 DEF RecordsAreOk, Loaded
<1>7. Shapes' /\ DecidedAreLoaded'
  BY <1>1, <1>4 DEF Shapes, DecidedAreLoaded
<1>8. OtherTypes'
  <2>1. \A f \in Files : Seen(f) \in {"unknown", "same", "changed"}
    BY DEF Seen, OtherTypes
  <2>2. job' \in [Targets -> {"none", "todo", "running", "built", "failed", "dropped"}]
    BY <1>4
  <2>3. unch' \in [Files -> {"unknown", "same", "changed"}]
    BY <1>4, <2>1
  <2> QED BY <1>1, <1>2, <2>2, <2>3 DEF StartRun, OtherTypes
<1>9. TablesAreOlder' /\ TimeInv' /\ NoDanglingDependency'
  BY <1>1, <1>2, <1>3 DEF TablesAreOlder, TimeInv, NoDanglingDependency
<1> QED BY <1>6, <1>7, <1>8, <1>9

-------------------------------------------------------------------------------
(* The end of a run, orderly or not. *)

LEMMA RunForgotten ==
  ASSUME IInv, phase # "idle", ForgetRun, clock' = clock
  PROVE  /\ RecordsAreOk' /\ TimeInv' /\ DecidedAreLoaded'
         /\ mem' = [f \in Files |-> mem'[f]]
         /\ phase' = "idle" /\ doClean' \in BOOLEAN
         /\ unch' \in [Files -> {"unknown", "same", "changed"}]
         /\ Latest' = clock /\ Latest = clock - 1
<1>1. \A f \in Files : mem'[f] = NotLoaded
  BY DEF ForgetRun
<1>2. IsRecord(NotLoaded) /\ NotLoaded.gen = 0
  BY DEF IsRecord, NotLoaded
<1>3. RecordsAreOk'
  BY <1>1, <1>2 DEF RecordsAreOk, Loaded
<1>4. phase' = "idle" /\ TimeInv' /\ DecidedAreLoaded'
  BY DEF ForgetRun, TimeInv, DecidedAreLoaded
<1>5. Latest' = clock /\ Latest = clock - 1
  BY <1>4 DEF Latest
<1> QED BY <1>3, <1>4, <1>5 DEF ForgetRun

LEMMA CrashPreserves ==
  ASSUME IInv, Crash, world' = world
  PROVE  IInv'
<1> USE DEF IInv
<1>1. /\ UNCHANGED <<clock, command, deps, rows, stray, depTable, quiet, world>>
      /\ phase # "idle" /\ ForgetRun
      /\ job' = [t \in Targets |-> "none"] /\ reported' = {}
  BY DEF Crash, dbVars
<1>2. PICK Cut \in SUBSET Targets, Done \in SUBSET Targets :
        /\ disk' = [f \in Files |->
             IF f \in Cut THEN Garbage ELSE IF f \in Done THEN Written(f) ELSE disk[f]]
        /\ ended' = [f \in Targets |->
             IF f \in Cut THEN "failed" ELSE IF f \in Done THEN "well" ELSE ended[f]]
  <2> DEFINE running == { t \in Targets : job[t] = "running" }
  <2>1. PICK Cut \in SUBSET running, Done \in SUBSET running :
          /\ disk' = [f \in Files |->
               IF f \in Cut THEN Garbage ELSE IF f \in Done THEN Written(f) ELSE disk[f]]
          /\ ended' = [f \in Targets |->
               IF f \in Cut THEN "failed" ELSE IF f \in Done THEN "well" ELSE ended[f]]
    BY Zenon DEF Crash
  <2>2. Cut \in SUBSET Targets /\ Done \in SUBSET Targets
    OBVIOUS
  <2> QED BY <2>1, <2>2
<1>3. /\ RecordsAreOk' /\ TimeInv' /\ DecidedAreLoaded'
      /\ mem' = [f \in Files |-> mem'[f]]
      /\ phase' = "idle" /\ doClean' \in BOOLEAN
      /\ unch' \in [Files -> {"unknown", "same", "changed"}]
      /\ Latest' = clock /\ Latest = clock - 1
  BY <1>1, RunForgotten
<1>4. Shapes'
  BY <1>2, <1>3 DEF Shapes
<1>5. OtherTypes'
  <2>1. \A s \in Sources : disk'[s] \in FileState
    BY <1>2, InputAssumption DEF OtherTypes, Files
  <2>2. \A t \in Targets : disk'[t].ts \in 0 .. MaxClock
    BY <1>2, FileTimes DEF Files
  <2> QED BY <1>1, <1>2, <1>3, <2>1, <2>2 DEF OtherTypes
<1>6. TablesAreOlder'
  <2>1. PICK n \in Nat \ {0} : n = Latest /\ clock = n + 1
    BY <1>3, LatestIsPositive
  <2>2. 1 .. (n - 1) \subseteq 1 .. n /\ n + 1 - 1 = n
    OBVIOUS
  <2> QED BY <1>1, <1>3, <2>1, <2>2 DEF TablesAreOlder
<1>7. NoDanglingDependency'
  BY <1>1 DEF NoDanglingDependency
<1> QED BY <1>3, <1>4, <1>5, <1>6, <1>7

\* What is recorded against is written, and the clean keeps it: db.cpp:432-439
\* after db.cpp:410-431.
LEMMA EndRunPreserves ==
  ASSUME IInv, EndRun, world' = world
  PROVE  IInv'
<1> USE DEF IInv
<1>1. /\ UNCHANGED <<clock, disk, command, deps, job, quiet, ended, world>>
      /\ phase # "idle" /\ ForgetRun /\ reported' \subseteq Targets
  BY DEF EndRun, fileVars
<1>2. /\ RecordsAreOk' /\ TimeInv' /\ DecidedAreLoaded'
      /\ mem' = [f \in Files |-> mem'[f]]
      /\ phase' = "idle" /\ doClean' \in BOOLEAN
      /\ unch' \in [Files -> {"unknown", "same", "changed"}]
      /\ Latest' = clock /\ Latest = clock - 1
  BY <1>1, RunForgotten
<1>3. PICK V \in Visited :
        LET touched == V \cup UNION { deps[t] : t \in V \cap Targets } IN
        /\ depTable' = DependenciesAtExit(V)
        /\ rows' = [f \in Files |->
             IF f \notin touched
             THEN [g \in Kept(f, DOMAIN rows[f], V) |-> rows[f][g]]
             ELSE LET m == Record(f) IN
               [g \in Kept(f, DOMAIN rows[f] \cup {m.gen}, V) |->
                  IF g = m.gen /\ ~m.skip THEN RowAtExit(f, m) ELSE rows[f][g]]]
        /\ stray' = stray \cup { f \in touched : DOMAIN rows[f] # {} /\ 1 \notin DOMAIN rows[f] }
  BY DEF EndRun, Flush
<1> DEFINE touched == V \cup UNION { deps[t] : t \in V \cap Targets }
<1>4. /\ touched \subseteq Files
      /\ \A t \in V \cap Targets : deps[t] \subseteq touched /\ deps[t] \subseteq Files
  <2>1. V \subseteq Files
    BY DEF Visited
  <2>2. \A t \in Targets : deps[t] \subseteq Files
    BY FilesOfGraphs DEF OtherTypes
  <2> QED BY <2>1, <2>2
<1>5. \A f \in Files :
        DOMAIN rows'[f] = IF f \notin touched THEN Kept(f, DOMAIN rows[f], V)
                          ELSE Kept(f, DOMAIN rows[f] \cup {Record(f).gen}, V)
  BY <1>3
<1>6. \A t \in Targets :
        depTable'[t] = IF t \in V THEN { <<d, Record(d).gen>> : d \in deps[t] } ELSE depTable[t]
  BY <1>3 DEF DependenciesAtExit
<1>7. stray' \subseteq Files
  BY <1>3, <1>4 DEF OtherTypes
<1> HIDE DEF touched
<1>8. PICK n \in Nat \ {0} : n = Latest /\ Latest' - 1 = n
  <2>1. clock \in Nat /\ Latest \in Nat \ {0}
    BY LatestIsPositive
  <2> QED BY <1>2, <2>1
<1>9. /\ \A f \in Files : DOMAIN rows[f] \subseteq 1 .. n /\ Record(f).gen \in 1 .. n
      /\ \A t \in Targets : depTable[t] \subseteq Files \X (1 .. n)
  <2>1. 1 .. (n - 1) \subseteq 1 .. n
    OBVIOUS
  <2>2. \A f \in Files : Record(f).gen \in 1 .. n
    BY <1>8, RecordIsOk DEF RecordOk
  <2> QED BY <1>8, <2>1, <2>2 DEF TablesAreOlder
<1>10. TablesAreOlder'
  <2>1. \A f \in Files : DOMAIN rows'[f] \subseteq 1 .. n
    <3>1. \A f \in Files : \A gens : Kept(f, gens, V) \subseteq gens
      BY DEF Kept
    <3> QED BY <1>5, <1>9, <3>1
  <2>2. \A t \in Targets : depTable'[t] \subseteq Files \X (1 .. n)
    <3> SUFFICES ASSUME NEW t \in Targets, NEW id \in depTable'[t]
                 PROVE  id \in Files \X (1 .. n)
      OBVIOUS
    <3>1. CASE t \in V
      <4>1. PICK d \in deps[t] : id = <<d, Record(d).gen>>
        BY <1>6, <3>1
      <4>2. d \in Files
        BY <1>4, <3>1
      <4>3. Record(d).gen \in 1 .. n
        BY <1>9, <4>2
      <4> QED BY <4>1, <4>2, <4>3
    <3>2. CASE t \notin V
      BY <1>6, <1>9, <3>2
    <3> QED BY <3>1, <3>2
  <2> QED BY <1>8, <2>1, <2>2 DEF TablesAreOlder
<1>11. NoDanglingDependency'
  <2> SUFFICES ASSUME NEW t \in Targets, NEW id \in depTable'[t]
               PROVE  id[2] \in DOMAIN rows'[id[1]]
    BY DEF NoDanglingDependency
  <2>1. CASE t \in V
    <3>1. PICK d \in deps[t] : id = <<d, Record(d).gen>>
      BY <1>6, <2>1
    <3>2. d \in Files /\ d \in touched
      BY <1>4, <2>1, <3>1
    <3>3. Record(d).gen \in Kept(d, DOMAIN rows[d] \cup {Record(d).gen}, V)
      BY <2>1, <3>1 DEF Kept
    <3> QED BY <1>5, <3>1, <3>2, <3>3
  <2>2. CASE t \notin V
    <3>1. id \in depTable[t]
      BY <1>6, <2>2
    <3>2. PICK f \in Files, g \in 1 .. n : id = <<f, g>>
      BY <1>9, <3>1
    <3>3. g \in DOMAIN rows[f]
      BY <3>1, <3>2 DEF NoDanglingDependency
    <3>4. \A gens : g \in gens => g \in Kept(f, gens, V)
      BY <2>2, <3>1, <3>2 DEF Kept
    <3> QED BY <1>5, <3>2, <3>3, <3>4
  <2> QED BY <2>1, <2>2
<1>12. OtherTypes' /\ Shapes'
  BY <1>1, <1>2, <1>7 DEF OtherTypes, Shapes
<1> QED BY <1>2, <1>10, <1>11, <1>12

LEMMA NextPreserves ==
  ASSUME IInv, [Next]_vars PROVE IInv'
<1>1. CASE EndRun /\ world' = world
  BY <1>1, EndRunPreserves
<1>2. ASSUME NEW t \in Targets, Decide(t) \/ Command(t), world' = world PROVE IInv'
  BY <1>2, DecidePreserves, CommandPreserves
<1>3. CASE Crash /\ world' = world
  BY <1>3, CrashPreserves
<1>4. CASE StartRun /\ world' = world
  BY <1>4, StartRunPreserves
<1>5. CASE EditScript /\ world' = world
  BY <1>5, EditScriptPreserves
<1>6. ASSUME NEW s \in Sources, EditSource(s), world' = world PROVE IInv'
  BY <1>6, EditSourcePreserves
<1>7. ASSUME NEW t \in Targets, DeleteTarget(t), world' = world PROVE IInv'
  BY <1>7, DeleteTargetPreserves
<1>8. CASE UNCHANGED vars
  <2>1. MemoryInv'
    BY <1>8, LatestIsPositive, MemoryKept DEF vars, fileVars, dbVars, runVars
  <2>2. OtherTypes' /\ Shapes' /\ DecidedAreLoaded'
    BY <1>8 DEF vars, fileVars, dbVars, runVars, ghostVars, IInv, OtherTypes, Shapes,
                DecidedAreLoaded, Loaded
  <2> QED BY <2>1, <2>2 DEF MemoryInv, IInv
<1> QED BY <1>1, <1>2, <1>3, <1>4, <1>5, <1>6, <1>7, <1>8 DEF Next, Run, User, Over

-------------------------------------------------------------------------------
(* Theorems. *)

\* The inductive invariant, for any edits at any time, failures and crashes.
THEOREM InvariantHolds == Spec => []IInv
<1>1. Init => IInv
  BY InitIsInvariant
<1>2. IInv /\ [Next]_vars => IInv'
  BY NextPreserves
<1> QED BY <1>1, <1>2, PTL DEF Spec

LEMMA InvariantImpliesTypes == IInv => TypeOK
<1> SUFFICES ASSUME IInv PROVE TypeOK
  OBVIOUS
<1>1. PICK n \in Nat \ {0}, c \in Nat :
        n = Latest /\ c = clock /\ 1 .. (n - 1) \subseteq 1 .. (c - 1) /\ n <= c
  BY LatestIsPositive DEF Latest
<1>2. \A f \in Files : DOMAIN rows[f] \subseteq 1 .. (c - 1)
  BY <1>1 DEF IInv, TablesAreOlder
<1>3. \A t \in Targets : depTable[t] \subseteq Files \X (1 .. (c - 1))
  BY <1>1 DEF IInv, TablesAreOlder
<1>4. \A f \in Files : mem[f].gen \in 0 .. (c - 1) /\ mem[f].prevGen \in 0 .. mem[f].gen
  <2> SUFFICES ASSUME NEW f \in Files
               PROVE  mem[f].gen \in 0 .. (c - 1) /\ mem[f].prevGen \in 0 .. mem[f].gen
    OBVIOUS
  <2>1. CASE ~Loaded(f)
    <3>1. mem[f] = NotLoaded /\ c >= 1
      BY <1>1, <2>1 DEF IInv, RecordsAreOk
    <3> QED BY <3>1 DEF NotLoaded
  <2>2. CASE Loaded(f)
    <3>1. n = c - 1
      BY <1>1, <2>2 DEF IInv, RecordsAreOk, Latest
    <3>2. mem[f].gen \in 1 .. n /\ mem[f].prevGen \in 0 .. mem[f].gen
      BY <1>1, <2>2 DEF IInv, RecordsAreOk, RecordOk
    <3> QED BY <3>1, <3>2
  <2> QED BY <2>1, <2>2
<1> QED BY <1>1, <1>2, <1>3, <1>4 DEF IInv, OtherTypes, TypeOK

\* Every variable stays in its type; above all a run gives a file one new
\* generation at most, whatever is edited under it (bump_generation, db.cpp:324).
THEOREM TypesAreRight == Spec => []TypeOK
BY InvariantHolds, InvariantImpliesTypes, PTL

\* No clean ever deletes a row that a recorded dependency refers to, although
\* nothing but the WHERE clause of db.cpp:432-439 protects it.
THEOREM ReferencesAreKept == Spec => []NoDanglingDependency
<1>1. IInv => NoDanglingDependency
  BY DEF IInv
<1> QED BY <1>1, InvariantHolds, PTL

-------------------------------------------------------------------------------
(* One generation of a dependency. *)

LEMMA OneGenerationKept ==
  ASSUME \A t \in Targets : \A f \in Files : \E g : RecordedGens(t, f) \subseteq {g}, [Next]_vars
  PROVE  (\A t \in Targets : \A f \in Files : \E g : RecordedGens(t, f) \subseteq {g})'
<1>1. CASE UNCHANGED depTable
  BY <1>1 DEF RecordedGens
<1>2. CASE EndRun
  <2>1. PICK V : depTable' = DependenciesAtExit(V)
    BY <1>2 DEF EndRun, Flush
  <2> SUFFICES ASSUME NEW t \in Targets, NEW f \in Files
               PROVE  (\E g : RecordedGens(t, f) \subseteq {g})'
    OBVIOUS
  <2>2. CASE t \in V
    <3>1. depTable'[t] = { <<d, Record(d).gen>> : d \in deps[t] }
      BY <2>1, <2>2 DEF DependenciesAtExit
    <3>2. \A id \in depTable'[t] : id[1] = f => id[2] = Record(f).gen
      BY <3>1
    <3>3. RecordedGens(t, f)' \subseteq {Record(f).gen}
      BY <3>2 DEF RecordedGens
    <3>4. \E g : RecordedGens(t, f)' \subseteq {g}
      BY <3>3
    <3> QED BY <3>4
  <2>3. CASE t \notin V
    <3>1. depTable'[t] = depTable[t]
      BY <2>1, <2>3 DEF DependenciesAtExit
    <3> QED BY <3>1 DEF RecordedGens
  <2> QED BY <2>2, <2>3
<1> QED BY <1>1, <1>2
    DEF Next, Run, User, Over, Decide, Command, Succeed, Fail, Throw, Drop, Crash, StartRun, EditScript,
        EditSource, DeleteTarget, vars, dbVars

\* A target is never recorded against two generations of a file, so that the
\* query of db.cpp:308-322 has one answer.
THEOREM OneGenerationEach == Spec => []OneGenerationPerDependency
<1> DEFINE Single == \A t \in Targets : \A f \in Files : \E g : RecordedGens(t, f) \subseteq {g}
<1>1. Init => Single
  BY DEF Init, RecordedGens
<1>2. Single /\ [Next]_vars => Single'
  BY OneGenerationKept
<1>3. Single => OneGenerationPerDependency
  <2> SUFFICES ASSUME NEW t \in Targets, NEW f \in Files, NEW g, RecordedGens(t, f) \subseteq {g}
               PROVE  Cardinality(RecordedGens(t, f)) <= 1
    BY DEF OneGenerationPerDependency
  <2>1. CASE RecordedGens(t, f) = {}
    BY <2>1, FS_EmptySet
  <2>2. CASE RecordedGens(t, f) # {}
    <3>1. RecordedGens(t, f) = {g}
      BY <2>2
    <3>2. Cardinality({g}) = 1
      BY FS_Singleton
    <3> QED BY <3>1, <3>2
  <2> QED BY <2>1, <2>2
<1> HIDE DEF Single
<1> QED BY <1>1, <1>2, <1>3, PTL DEF Spec

-------------------------------------------------------------------------------
(* Failed targets. *)

\* The targets whose last command returned an error or was killed half-way.
Broken == { t \in Targets : ended[t] = "failed" }

\* While failed targets are removed, a broken target does not exist.
BrokenInv ==
  /\ \A t \in Broken : ~Exists(t)
  /\ phase # "idle" => \A t \in Targets : job[t] = "built" => t \notin Broken
  /\ FailureRemembered

LEMMA BrokenKept ==
  ASSUME Precious = {}, \A w \in Worlds : ~w.mayCrash, IInv, BrokenInv, Next
  PROVE  BrokenInv'
<1> USE DEF BrokenInv, IInv
<1>1. /\ disk = [f \in Files |-> disk[f]] /\ Broken \subseteq Targets
      /\ Targets \subseteq Files /\ Sources \subseteq Files
      /\ job = [t \in Targets |-> job[t]]
      /\ reported' \subseteq Targets /\ reported \subseteq Targets
  BY NextPreserves DEF Shapes, OtherTypes, Files, Broken
<1>0. /\ FailureRemembered <=> (phase = "idle" => reported \cap Broken = {})
      /\ FailureRemembered' <=> (phase' = "idle" => reported' \cap Broken' = {})
  BY <1>1 DEF FailureRemembered, Broken
<1>2. ASSUME NEW t \in Targets, Decide(t) PROVE BrokenInv'
  <2>1. /\ UNCHANGED <<disk, phase, reported>> /\ Broken' = Broken
        /\ phase = "running"
        /\ job' = [job EXCEPT ![t] = IF Outdated(t) THEN "running" ELSE "built"]
    BY <1>2 DEF Decide, fileVars, ghostVars, Broken
  <2>2. ~Outdated(t) => t \notin Broken
    BY DEF Outdated
  <2>3. \A x \in Targets : job'[x] = "built" => x \notin Broken
    BY <1>1, <2>1, <2>2
  <2> QED BY <1>0, <2>1, <2>3 DEF Exists
<1>3. ASSUME NEW t \in Targets, Succeed(t) PROVE BrokenInv'
  <2>1. /\ disk' = [disk EXCEPT ![t] = Written(t)] /\ Broken' = Broken \ {t}
        /\ phase = "running" /\ phase' = "running" /\ job' = [job EXCEPT ![t] = "built"]
    BY <1>3 DEF Succeed, Broken, OtherTypes
  <2>2. \A x \in Broken' : x # t /\ disk'[x] = disk[x] /\ x \in Broken
    BY <1>1, <2>1
  <2>3. \A x \in Targets : job'[x] = "built" => x \notin Broken'
    BY <1>1, <2>1
  <2> QED BY <1>0, <2>1, <2>2, <2>3 DEF Exists
<1>4. ASSUME NEW t \in Targets, Fail(t) PROVE BrokenInv'
  <2>1. /\ disk' = [disk EXCEPT ![t] = NoFile] /\ Broken' = Broken \cup {t}
        /\ phase = "running" /\ phase' = "failing" /\ job' = [job EXCEPT ![t] = "failed"]
    BY <1>4 DEF Fail, Remains, Broken, OtherTypes
  <2>2. \A x \in Broken' : disk'[x] = NoFile \/ (disk'[x] = disk[x] /\ x \in Broken)
    BY <1>1, <2>1
  <2>3. \A x \in Targets : job'[x] = "built" => x \notin Broken'
    BY <1>1, <2>1
  <2> QED BY <1>0, <2>1, <2>2, <2>3 DEF Exists, NoFile
<1>5. ASSUME NEW t \in Targets, Drop(t) PROVE BrokenInv'
  <2>1. /\ phase = "failing" /\ phase' = phase /\ job' = [job EXCEPT ![t] = "dropped"]
        /\ \/ disk' = [disk EXCEPT ![t] = Written(t)] /\ Broken' = Broken \ {t}
           \/ disk' = [disk EXCEPT ![t] = NoFile] /\ Broken' = Broken \cup {t}
           \/ (\E new : disk' = [disk EXCEPT ![t] = new]) /\ Broken' = Broken \ {t}
    <3>1. CASE ended' = [ended EXCEPT ![t] = "well"] /\ disk' = [disk EXCEPT ![t] = Written(t)]
      BY <1>5, <3>1 DEF Drop, Broken, OtherTypes
    <3>2. CASE ended' = [ended EXCEPT ![t] = "failed"] /\ disk' = [disk EXCEPT ![t] = NoFile]
      BY <1>5, <3>2 DEF Drop, Broken, OtherTypes
    <3>3. CASE ended' = [ended EXCEPT ![t] = "threw"] /\ \E new : disk' = [disk EXCEPT ![t] = new]
      BY <1>5, <3>3 DEF Drop, Broken, OtherTypes
    <3> QED BY <1>5, <3>1, <3>2, <3>3 DEF Drop, Remains
  <2>2. \A x \in Broken' : disk'[x] = NoFile \/ (disk'[x] = disk[x] /\ x \in Broken)
    BY <1>1, <2>1
  <2>3. \A x \in Targets : job'[x] = "built" => x \notin Broken'
    BY <1>1, <2>1
  <2> QED BY <1>0, <2>1, <2>2, <2>3 DEF Exists, NoFile
<1>6. CASE EndRun
  <2>1. /\ disk' = disk /\ Broken' = Broken /\ phase' = "idle"
        /\ phase # "idle"
        /\ reported' \subseteq { t \in Targets : job[t] = "built" }
    BY <1>6 DEF EndRun, fileVars, ForgetRun, Broken
  <2>2. reported' \cap Broken = {}
    BY <2>1
  <2> QED BY <1>0, <2>1, <2>2 DEF Exists
<1>7. CASE StartRun
  <2>1. disk' = disk /\ Broken' = Broken /\ phase' = "running" /\ \A t \in Targets : job'[t] # "built"
    BY <1>7 DEF StartRun, Broken
  <2> QED BY <1>0, <2>1 DEF Exists
<1>8. CASE EditScript
  <2>1. UNCHANGED <<disk, phase, job>> /\ Broken' = Broken /\ reported' = {}
    BY <1>8 DEF EditScript, runVars, Broken
  <2> QED BY <1>0, <2>1 DEF Exists
<1>9. ASSUME NEW s \in Sources, EditSource(s) PROVE BrokenInv'
  <2>1. /\ UNCHANGED <<phase, job>> /\ Broken' = Broken /\ reported' = {}
        /\ \E new : disk' = [disk EXCEPT ![s] = new]
    BY <1>9 DEF EditSource, runVars, Broken
  <2>2. \A x \in Broken : disk'[x] = disk[x]
    BY <1>1, <2>1, InputAssumption
  <2> QED BY <1>0, <2>1, <2>2 DEF Exists
<1>10. ASSUME NEW t \in Targets, DeleteTarget(t) PROVE BrokenInv'
  <2>1. /\ UNCHANGED <<phase, job>> /\ Broken' = Broken /\ reported' = {}
        /\ disk' = [disk EXCEPT ![t] = NoFile]
    BY <1>10 DEF DeleteTarget, runVars, Broken
  <2>2. \A x \in Broken : disk'[x] = NoFile \/ disk'[x] = disk[x]
    BY <1>1, <2>1
  <2> QED BY <1>0, <2>1, <2>2 DEF Exists, NoFile
<1>11. CASE Over
  BY <1>11 DEF Over, vars, fileVars, runVars, ghostVars, Exists, FailureRemembered, Broken
<1>12. ~Crash
  BY DEF Crash, OtherTypes
<1>13. ASSUME NEW t \in Targets, Throw(t) PROVE BrokenInv'
  <2>1. /\ \E new : disk' = [disk EXCEPT ![t] = new]
        /\ Broken' = Broken \ {t}
        /\ phase = "running" /\ phase' = "failing" /\ job' = [job EXCEPT ![t] = "failed"]
    BY <1>13 DEF Throw, Broken, OtherTypes
  <2>2. \A x \in Broken' : disk'[x] = disk[x] /\ x \in Broken
    BY <1>1, <2>1
  <2>3. \A x \in Targets : job'[x] = "built" => x \notin Broken'
    BY <1>1, <2>1
  <2> QED BY <1>0, <2>1, <2>2, <2>3 DEF Exists
<1> QED
  BY <1>2, <1>3, <1>4, <1>5, <1>6, <1>7, <1>8, <1>9, <1>10, <1>11, <1>12, <1>13
  DEF Next, Run, User, Command

\* As long as no target is precious and no process is killed, no run passes over
\* a target whose last command returned an error, also when actions throw: task.cpp:63
\* by way of the file that was_rebuilt removes.  Of a command that an exception ended
\* the sdb_thrown run shows that it is passed over.
THEOREM FailuresAreRemembered ==
  ASSUME Precious = {}, \A w \in Worlds : ~w.mayCrash
  PROVE  Spec => []FailureRemembered
<1>1. Init => BrokenInv
  BY DEF Init, BrokenInv, FailureRemembered, Broken
<1>2. IInv /\ BrokenInv /\ [Next]_vars => BrokenInv'
  <2>1. BrokenInv /\ UNCHANGED vars => BrokenInv'
    BY DEF vars, fileVars, runVars, ghostVars, BrokenInv, Exists, FailureRemembered, Broken
  <2> QED BY <2>1, BrokenKept
<1>3. BrokenInv => FailureRemembered
  BY DEF BrokenInv
<1> QED BY <1>1, <1>2, <1>3, InvariantHolds, PTL DEF Spec

-------------------------------------------------------------------------------
(* Whole builds: what the tables know of the files.  A source is compared     *)
(* with its row in every run that depends on it if it is scanned, or if some  *)
(* target that has it as a recorded dependency still has it.                  *)

Compared(w, s) ==
  \/ s \in w.scanned
  \/ "script" \notin w.edits
  \/ \E t \in Targets : \A G \in Graphs : s \in G[t]

\* Everything is asked for, nothing fails or throws, no process is killed and nothing
\* is edited under a run.
WholeBuilds ==
  /\ GoalSets \subseteq {Targets}
  /\ ~MayFail /\ ~MayEditDuringRun
  /\ \A w \in Worlds : ~w.mayThrow /\ ~w.mayCrash /\ \A s \in Sources : Compared(w, s)

Row(f) == Stored(f).row

Known(f) == DOMAIN rows[f] # {}

DepsOf(t) == { id[1] : id \in depTable[t] }

\* What a target was made of, by its signature.
From(t) == Row(t).sig.from

IsRow(r) ==
  r = [existed |-> r.existed, ts |-> r.ts, sig |-> r.sig, taskSig |-> r.taskSig, ok |-> r.ok]

\* Rows that say the same of a file; status and command aside.
SameData(r, q) ==
  IsRow(r) /\ IsRow(q) /\ r.existed = q.existed /\ r.ts = q.ts /\ r.sig = q.sig

\* Targets that have s whatever the next script says.
Holders(s) ==
  { t \in Targets : IF "script" \in world.edits THEN \A G \in Graphs : s \in G[t] ELSE s \in deps[t] }

RunsAreWhole ==
  /\ phase \in {"idle", "running"}
  /\ phase = "running" => \A t \in Targets : job[t] \in {"todo", "running", "built"}

\* Nothing is newer than the clock, and no row is as new as the run that is on.
Times ==
  /\ \A f \in Files : disk[f].ts \in 0 .. clock /\ Row(f).ts \in 0 .. Latest
  /\ \A s \in Sources : disk[s].ts # 0 /\ disk[s].content \in 1 .. clock

SourceRow(s) ==
  Known(s) =>
    /\ Row(s).existed = "yes"
    /\ disk[s].ts = Row(s).ts => Row(s).sig \in {Null, disk[s].content}
    /\ \A t \in Holders(s) : s \in DepsOf(t)

\* A dependency as it was when t was made: a source that matches its row still has
\* the contents t was made of.
SameSince(t, d) ==
  /\ d \in Targets => Row(d).sig = From(t)[d]
  /\ d \in Sources =>
       /\ Row(d).sig \in {Null, From(t)[d]}
       /\ disk[d].ts = Row(d).ts => disk[d].content = From(t)[d]

TargetRow(t) ==
  /\ \A d \in DepsOf(t) : RecordedGens(t, d) = {Stored(d).gen}
  /\ Known(t) =>
       /\ Row(t).existed = "yes" /\ Row(t).ok
       /\ Row(t).sig = [cmd |-> Row(t).taskSig, from |-> [d \in DepsOf(t) |-> From(t)[d]]]
       /\ \A d \in DepsOf(t) : SameSince(t, d)

\* A target that was not made in this run is as its row says, or gone.
TargetFile(t) ==
  Known(t) /\ Exists(t) =>
    /\ disk[t].ts = Row(t).ts => disk[t].content = Row(t).sig
    /\ phase = "idle" \/ job[t] # "built" => disk[t].ts = Row(t).ts

-------------------------------------------------------------------------------
(* Whole builds: what the records and answers of a run know of the tables. *)

Follows(m, st) ==
  /\ \/ m.gen = st.gen /\ m.prevGen = st.prevGen /\ m.skip = st.skip
     \/ st.skip /\ m.gen = st.gen + 1 /\ m.prevGen = st.gen /\ m.skip = FALSE
  /\ SameData(m.row, st.row)

\* A file that differs from its row, in time only or in contents, gets a new row.
Answer(f) ==
  unch[f] # "unknown" =>
    /\ Loaded(f)
    /\ unch[f] = IF Matches(disk[f], Row(f)) THEN "same" ELSE "changed"
    /\ unch[f] = "changed" \/ (Exists(f) /\ disk[f].ts # Row(f).ts) => mem[f].skip = FALSE

\* Only targets and what they depend on have records.
InBuild(f) == Loaded(f) => f \in Targets \/ \E t \in Targets : f \in deps[t]

Asked(t) ==
  \A s \in Sources \cap deps[t] :
    s \in world.scanned \/ (job[t] # "todo" /\ s \in DepsOf(t)) => unch[s] # "unknown"

BuiltOk(t) ==
  /\ Exists(t) /\ disk[t].content = Output(t)
  /\ mem[t].row.ok
  /\ mem[t].skip => mem[t].row = Row(t)
  /\ unch[t] # "unknown" \/ (Known(t) /\ disk[t].ts = Row(t).ts)

JobOk(t) ==
  /\ job[t] = "todo" => Record(t).row = Row(t)
  /\ job[t] # "todo" =>
       /\ \A d \in deps[t] : Loaded(d) /\ (d \in Targets => job[d] = "built")
       /\ mem[t].row.taskSig = command[t]
  /\ job[t] = "built" => BuiltOk(t)

\* What the last run reported holds, and the next run will find it so.
SettledTarget(t) ==
  /\ job[t] # "running"
  /\ Known(t) /\ Exists(t) /\ disk[t].content = Output(t)
  /\ Row(t).taskSig = command[t] /\ DepsOf(t) = deps[t]
  /\ \A d \in deps[t] : Matches(disk[d], Row(d))

FreshInv ==
  /\ RunsAreWhole /\ Times
  /\ \A s \in Sources : SourceRow(s)
  /\ \A t \in Targets : TargetRow(t) /\ TargetFile(t)
  /\ \A f \in Files : Follows(Record(f), Stored(f)) /\ Answer(f) /\ InBuild(f)
  /\ phase = "running" => \A t \in Targets : Asked(t) /\ JobOk(t)
  /\ reported # {} => \A t \in Targets : SettledTarget(t)

-------------------------------------------------------------------------------
(* Facts about rows and records. *)

LEMMA MaxIs ==
  ASSUME NEW S \in SUBSET Nat, NEW x \in S, \A y \in S : x >= y PROVE Max(S) = x
<1>1. \E m \in S : \A y \in S : m >= y
  OBVIOUS
<1>2. Max(S) \in S /\ \A y \in S : Max(S) >= y
  BY <1>1 DEF Max
<1>3. Max(S) \in Nat /\ x \in Nat /\ Max(S) >= x /\ x >= Max(S)
  BY <1>2
<1> QED BY <1>3

LEMMA StoredFacts ==
  ASSUME IInv, NEW f \in Files
  PROVE  /\ Stored(f).gen \in Nat \ {0} /\ Stored(f).prevGen = 0 /\ Stored(f).skip \in BOOLEAN
         /\ \A g \in DOMAIN rows[f] : g \in Nat /\ Stored(f).gen >= g
         /\ Known(f) => Stored(f).gen \in DOMAIN rows[f] /\ Row(f) = rows[f][Stored(f).gen]
         /\ ~Known(f) => Row(f) = NullRow /\ Stored(f).skip = FALSE
<1>1. PICK n \in Nat : DOMAIN rows[f] \subseteq 1 .. n
  BY LatestIsPositive DEF IInv, TablesAreOlder
<1>2. CASE Known(f)
  <2> DEFINE g == Max(DOMAIN rows[f])
  <2>1. g \in DOMAIN rows[f] /\ \A y \in DOMAIN rows[f] : g >= y
    BY <1>1, <1>2, MaxIsLargest DEF Known
  <2>2. Stored(f) = [gen |-> g, prevGen |-> 0,
                     skip |-> 1 \in DOMAIN rows[f] \/ f \in stray, row |-> rows[f][g]]
    BY <1>2 DEF Stored, Known
  <2> HIDE DEF g
  <2> QED BY <1>1, <1>2, <2>1, <2>2 DEF Row
<1>3. CASE ~Known(f)
  <2>1. Stored(f) = [gen |-> 1, prevGen |-> 0, skip |-> FALSE, row |-> NullRow]
    BY <1>3 DEF Stored, Known
  <2>2. DOMAIN rows[f] = {}
    BY <1>3 DEF Known
  <2> QED BY <1>3, <2>1, <2>2 DEF Row
<1> QED BY <1>2, <1>3

LEMMA SameMatches ==
  ASSUME NEW r, NEW q, SameData(r, q), NEW file PROVE Matches(file, r) = Matches(file, q)
BY DEF SameData, Matches

LEMMA BumpedFacts ==
  ASSUME NEW m
  PROVE  Bumped(m).row = m.row /\ (Bumped(m).skip = FALSE \/ (~m.skip /\ Bumped(m) = m))
BY DEF Bumped

LEMMA BumpedFollows ==
  ASSUME NEW m, NEW st, Follows(m, st) PROVE Follows(Bumped(m), st)
<1>1. CASE m.skip
  BY <1>1 DEF Bumped, Follows
<1>2. CASE ~m.skip
  BY <1>2 DEF Bumped, Follows
<1> QED BY <1>1, <1>2

\* Asking about a file compares it with its row, however often it is asked.
LEMMA SeenFacts ==
  ASSUME IInv, FreshInv, NEW f \in Files
  PROVE  /\ Seen(f) = IF Matches(disk[f], Row(f)) THEN "same" ELSE "changed"
         /\ Follows(SeenRecord(f), Stored(f)) /\ SeenRecord(f).row = Record(f).row
         /\ Seen(f) = "changed" \/ (Exists(f) /\ disk[f].ts # Row(f).ts) => SeenRecord(f).skip = FALSE
         /\ SeenRecord(f).skip => SeenRecord(f) = Record(f)
<1>1. Follows(Record(f), Stored(f)) /\ Answer(f)
  BY DEF FreshInv
<1>2. SameData(Record(f).row, Row(f))
  BY <1>1 DEF Follows, Row
<1>3. Record(f).skip \in BOOLEAN
  BY <1>1, StoredFacts DEF Follows
<1>4. Seen(f) = IF Matches(disk[f], Row(f)) THEN "same" ELSE "changed"
  BY <1>1, <1>2, SameMatches DEF Seen, Answer
<1>5. Follows(Bumped(Record(f)), Stored(f)) /\ Bumped(Record(f)).row = Record(f).row
  BY <1>1, BumpedFollows, BumpedFacts
<1>6. Bumped(Record(f)).skip = FALSE
  BY <1>3, BumpedFacts
<1>7. Record(f).row.ts = Row(f).ts
  BY <1>2 DEF SameData
<1>8. SeenRecord(f) \in {Record(f), Bumped(Record(f))}
  BY DEF SeenRecord
<1>9. ASSUME Seen(f) = "changed" \/ (Exists(f) /\ disk[f].ts # Row(f).ts)
      PROVE  SeenRecord(f).skip = FALSE
  <2>1. CASE unch[f] = "unknown"
    BY <1>6, <1>7, <1>9, <2>1 DEF SeenRecord
  <2>2. CASE unch[f] # "unknown"
    <3>1. Seen(f) = unch[f] /\ Record(f) = mem[f]
      BY <1>1, <2>2 DEF Seen, Answer, Record
    <3>2. Record(f).skip = FALSE
      BY <1>1, <1>9, <2>2, <3>1 DEF Answer
    <3> QED BY <1>6, <1>8, <3>2
  <2> QED BY <2>1, <2>2
<1> QED BY <1>1, <1>4, <1>5, <1>6, <1>8, <1>9

\* One dependency, as the decider finds it.
LEMMA VerdictFacts ==
  ASSUME IInv, FreshInv, NEW t \in Targets, NEW d \in Files
  PROVE  /\ IsCurrent(t, d) <=> d \in DepsOf(t)
         /\ Verdict(t, d) = IF d \notin DepsOf(t) THEN "new"
                            ELSE IF Matches(disk[d], Row(d)) THEN "same" ELSE "changed"
<1>1. RecordedGens(t, d) = IF d \in DepsOf(t) THEN {Stored(d).gen} ELSE {}
  <2>1. CASE d \in DepsOf(t)
    BY <2>1 DEF FreshInv, TargetRow
  <2>2. CASE d \notin DepsOf(t)
    BY <2>2 DEF RecordedGens, DepsOf
  <2> QED BY <2>1, <2>2
<1>2. Follows(Record(d), Stored(d))
  BY DEF FreshInv
<1>3. Stored(d).gen \in {Record(d).gen, Record(d).prevGen}
  BY <1>2 DEF Follows
<1>4. IsCurrent(t, d) <=> d \in DepsOf(t)
  BY <1>1, <1>3 DEF IsCurrent
<1> QED BY <1>1, <1>4, SeenFacts DEF Verdict

-------------------------------------------------------------------------------
(* Whole builds: edits between runs. *)

LEMMA InitIsFresh == Init => FreshInv
<1> SUFFICES ASSUME Init PROVE FreshInv
  OBVIOUS
<1>1. \A f \in Files : ~Known(f)
  BY DEF Init, Known
<1>2. \A f \in Files : Stored(f) = [gen |-> 1, prevGen |-> 0, skip |-> FALSE, row |-> NullRow]
  BY <1>1 DEF Stored, Known
<1>3. \A f \in Files : Row(f) = NullRow /\ Row(f).ts = 0
  <2>1. NullRow.ts = 0
    BY DEF NullRow
  <2>2. ASSUME NEW f \in Files PROVE Stored(f).row = NullRow
    <3>1. Stored(f) = [gen |-> 1, prevGen |-> 0, skip |-> FALSE, row |-> NullRow]
      BY <1>2
    <3> QED BY <3>1
  <2> QED BY <2>1, <2>2 DEF Row
<1>4. /\ \A t \in Targets : DepsOf(t) = {}
      /\ \A f \in Files : ~Loaded(f) /\ unch[f] = "unknown"
  BY DEF Init, DepsOf, Loaded, NotLoaded
<1>5. \A f \in Files : Follows(Record(f), Stored(f))
  <2>1. IsRow(NullRow)
    BY DEF IsRow, NullRow
  <2> QED BY <1>3, <1>4, <2>1 DEF Record, Follows, SameData, Row
<1>6. Times
  <2>1. clock = 1 /\ Latest = 1
    BY DEF Init, Latest
  <2>2. \A f \in Files : disk[f].ts \in 0 .. 1
    BY DEF Init, NoFile
  <2>3. \A s \in Sources : disk[s] = [content |-> 1, ts |-> 1]
    BY DEF Init, Files
  <2>4. \A s \in Sources : disk[s].ts # 0 /\ disk[s].content \in 1 .. 1
    BY <2>3
  <2> QED BY <1>3, <2>1, <2>2, <2>4 DEF Times
<1>7. \A s \in Sources : SourceRow(s)
  BY <1>1 DEF SourceRow, Files
<1>8. \A t \in Targets : TargetRow(t) /\ TargetFile(t)
  BY <1>1, <1>4 DEF TargetRow, TargetFile, Files
<1>9. phase = "idle" /\ reported = {}
  BY DEF Init
<1> QED BY <1>4, <1>5, <1>6, <1>7, <1>8, <1>9 DEF FreshInv, RunsAreWhole, Answer, InBuild

\* Between runs there are no records and no answers.
LEMMA NothingInMemory ==
  ASSUME IInv, FreshInv, phase = "idle", NEW f \in Files
  PROVE  ~Loaded(f) /\ Record(f) = Stored(f) /\ unch[f] = "unknown"
<1>1. ~Loaded(f)
  BY DEF IInv, RecordsAreOk
<1> QED BY <1>1 DEF FreshInv, Answer, Record

\* What an edit leaves alone, whatever it does to the files and the script.
LEMMA TablesKept ==
  ASSUME IInv, FreshInv, phase = "idle", clock' = clock + 1, reported' = {},
         UNCHANGED <<phase, job, rows, stray, depTable, mem, unch>>,
         Times', \A s \in Sources : SourceRow(s)', \A t \in Targets : TargetFile(t)',
         \A t \in Targets : \A d \in DepsOf(t) : Known(t) => SameSince(t, d)'
  PROVE  FreshInv'
<1>1. RunsAreWhole' /\ phase' = "idle"
  BY DEF FreshInv, RunsAreWhole
<1>2. /\ \A f \in Files : Stored(f)' = Stored(f) /\ Row(f)' = Row(f) /\ Known(f)' = Known(f)
      /\ \A t \in Targets : DepsOf(t)' = DepsOf(t) /\ From(t)' = From(t)
      /\ \A f \in Files : Record(f)' = Record(f)
  BY DEF Stored, Row, Known, DepsOf, From, Record, Loaded
<1>3. \A f \in Files : Follows(Record(f), Stored(f))'
  BY <1>2 DEF FreshInv, Follows, SameData
<1>4. \A f \in Files : Answer(f)' /\ InBuild(f)'
  BY NothingInMemory DEF Answer, InBuild, Loaded
<1>5. ASSUME NEW t \in Targets PROVE TargetRow(t)'
  <2>1. \A d : RecordedGens(t, d)' = RecordedGens(t, d)
    BY DEF RecordedGens
  <2>2. TargetRow(t) /\ t \in Files
    BY DEF FreshInv, Files
  <2>3. DepsOf(t) \subseteq Files
    BY DEF DepsOf, IInv, TablesAreOlder
  <2> QED BY <1>2, <2>1, <2>2, <2>3 DEF TargetRow
<1> QED BY <1>1, <1>3, <1>4, <1>5 DEF FreshInv

\* Comparison of the times of a file and a row that is older.
LEMMA ClockTicks ==
  ASSUME IInv, FreshInv, phase = "idle", clock' = clock + 1
  PROVE  /\ clock \in Nat /\ clock' \in Nat /\ Latest = clock
         /\ \A f \in Files : disk[f].ts \in 0 .. clock' /\ Row(f).ts \in 0 .. clock'
         /\ \A f \in Files : Row(f).ts # clock'
         /\ \A s \in Sources : disk[s].content \in 1 .. clock'
<1>1. PICK c \in Nat : c = clock /\ Latest = c /\ clock' = c + 1
  BY LatestIsPositive DEF Latest
<1>2. /\ 0 .. c \subseteq 0 .. (c + 1) /\ 1 .. c \subseteq 1 .. (c + 1) /\ c + 1 \in Nat
      /\ c + 1 \notin 0 .. c
  OBVIOUS
<1>3. /\ \A f \in Files : disk[f].ts \in 0 .. c /\ Row(f).ts \in 0 .. c
      /\ \A s \in Sources : disk[s].content \in 1 .. c
  BY <1>1 DEF FreshInv, Times
<1> QED BY <1>1, <1>2, <1>3

LEMMA EditSourceKeepsFresh ==
  ASSUME WholeBuilds, IInv, FreshInv, NEW s \in Sources, EditSource(s), world' = world
  PROVE  FreshInv'
<1>1. /\ phase = "idle" /\ clock' = clock + 1 /\ reported' = {}
      /\ UNCHANGED <<phase, job, rows, stray, depTable, mem, unch, command, deps>>
  BY DEF EditSource, Tick, WholeBuilds, dbVars, runVars
<1>2. PICK new \in EditedSources(s) : disk' = [disk EXCEPT ![s] = new]
  BY DEF EditSource
<1>3. /\ disk'[s] = new /\ \A f \in Files \ {s} : disk'[f] = disk[f]
      /\ s \in Files /\ Sources \subseteq Files /\ Targets \subseteq Files /\ s \notin Targets
  BY <1>2, InputAssumption DEF IInv, Shapes, Files
<1>4. /\ clock \in Nat /\ clock' \in Nat /\ Latest = clock
      /\ \A f \in Files : disk[f].ts \in 0 .. clock' /\ Row(f).ts \in 0 .. clock'
      /\ \A f \in Files : Row(f).ts # clock'
      /\ \A x \in Sources : disk[x].content \in 1 .. clock'
  BY <1>1, ClockTicks
<1>5. new.ts = clock' /\ new.content \in 1 .. clock'
  <2>1. PICK c : new = [content |-> c, ts |-> clock + 1] /\
                 (c = disk[s].content \/ c = clock + 1 \/ c \in 1 .. clock)
    BY <1>2 DEF EditedSources
  <2>2. c \in 1 .. clock'
    BY <1>1, <1>4, <2>1
  <2> QED BY <1>1, <2>1, <2>2
<1>6. \A f \in Files : Row(f)' = Row(f) /\ Known(f)' = Known(f)
  BY <1>1 DEF Row, Known, Stored
<1>7. Times'
  <2>1. Latest' = clock'
    BY <1>1 DEF Latest
  <2>2. clock' # 0 /\ clock' \in 0 .. clock'
    BY <1>1, <1>4
  <2>3. ASSUME NEW f \in Files PROVE disk'[f].ts \in 0 .. clock' /\ Row(f)'.ts \in 0 .. clock'
    BY <1>3, <1>4, <1>5, <1>6, <2>2
  <2>4. ASSUME NEW x \in Sources PROVE disk'[x].ts # 0 /\ disk'[x].content \in 1 .. clock'
    BY <1>3, <1>4, <1>5, <2>2 DEF FreshInv, Times
  <2> QED BY <2>1, <2>3, <2>4 DEF Times
<1>8. disk'[s].ts # Row(s)'.ts
  BY <1>3, <1>4, <1>5, <1>6
<1>9. \A x \in Sources : SourceRow(x)'
  <2> SUFFICES ASSUME NEW x \in Sources PROVE SourceRow(x)'
    OBVIOUS
  <2>1. Holders(x)' = Holders(x) /\ \A t \in Targets : DepsOf(t)' = DepsOf(t)
    BY <1>1 DEF Holders, DepsOf
  <2>2. SourceRow(x) /\ Holders(x) \subseteq Targets
    BY DEF FreshInv, Holders
  <2>3. x = s \/ disk'[x] = disk[x]
    BY <1>3
  <2> QED BY <1>3, <1>6, <1>8, <2>1, <2>2, <2>3 DEF SourceRow
<1>10. \A t \in Targets : TargetFile(t)'
  BY <1>1, <1>3, <1>6 DEF FreshInv, TargetFile, Exists
<1>11. \A t \in Targets : \A d \in DepsOf(t) : Known(t) => SameSince(t, d)'
  <2> SUFFICES ASSUME NEW t \in Targets, NEW d \in DepsOf(t), Known(t) PROVE SameSince(t, d)'
    OBVIOUS
  <2>1. SameSince(t, d) /\ From(t)' = From(t)
    BY <1>1 DEF FreshInv, TargetRow, From, Row, Stored
  <2>2. d \in Files
    BY DEF DepsOf, IInv, TablesAreOlder
  <2>3. d = s \/ disk'[d] = disk[d]
    BY <1>3, <2>2
  <2> QED BY <1>6, <1>8, <2>1, <2>2, <2>3 DEF SameSince
<1> QED BY <1>1, <1>7, <1>9, <1>10, <1>11, TablesKept

\* Edits that leave the sources alone.
LEMMA SourcesKept ==
  ASSUME IInv, FreshInv, phase = "idle", clock' = clock + 1, reported' = {},
         UNCHANGED <<phase, job, rows, stray, depTable, mem, unch>>,
         \A s \in Sources : disk'[s] = disk[s] /\ Holders(s)' = Holders(s),
         \A t \in Targets : disk'[t] \in {disk[t], NoFile}
  PROVE  FreshInv'
<1>1. /\ clock \in Nat /\ clock' \in Nat /\ Latest = clock
      /\ \A f \in Files : disk[f].ts \in 0 .. clock' /\ Row(f).ts \in 0 .. clock'
      /\ \A s \in Sources : disk[s].content \in 1 .. clock'
  BY ClockTicks
<1>2. /\ \A f \in Files : Row(f)' = Row(f) /\ Known(f)' = Known(f)
      /\ \A t \in Targets : DepsOf(t)' = DepsOf(t) /\ From(t)' = From(t)
  BY DEF Row, Known, Stored, DepsOf, From
<1>3. Files = Sources \cup Targets /\ NoFile.ts = 0
  BY DEF Files, NoFile
<1>4. Times'
  <2>1. Latest' = clock' /\ 0 \in 0 .. clock'
    BY <1>1 DEF Latest
  <2>2. \A f \in Files : disk'[f].ts \in 0 .. clock' /\ Row(f)'.ts \in 0 .. clock'
    BY <1>1, <1>2, <1>3, <2>1
  <2>3. \A s \in Sources : disk'[s].ts # 0 /\ disk'[s].content \in 1 .. clock'
    BY <1>1 DEF FreshInv, Times
  <2> QED BY <2>1, <2>2, <2>3 DEF Times
<1>5. \A s \in Sources : SourceRow(s)'
  <2>1. \A s \in Sources : SourceRow(s) /\ Holders(s) \subseteq Targets
    BY DEF FreshInv, Holders
  <2> QED BY <1>2, <1>3, <2>1 DEF SourceRow
<1>6. \A t \in Targets : TargetFile(t)'
  <2>1. \A t \in Targets : TargetFile(t)
    BY DEF FreshInv
  <2> QED BY <1>2, <1>3, <2>1 DEF TargetFile, Exists
<1>7. \A t \in Targets : \A d \in DepsOf(t) : Known(t) => SameSince(t, d)'
  <2> SUFFICES ASSUME NEW t \in Targets, NEW d \in DepsOf(t), Known(t) PROVE SameSince(t, d)'
    OBVIOUS
  <2>0. d \in Files
    BY DEF DepsOf, IInv, TablesAreOlder
  <2>1. SameSince(t, d)
    BY DEF FreshInv, TargetRow
  <2>2. /\ Row(d)' = Row(d) /\ From(t)' = From(t) /\ (d \in Sources => disk'[d] = disk[d])
    BY <1>2, <1>3, <2>0
  <2> QED BY <2>1, <2>2 DEF SameSince
<1> QED BY <1>4, <1>5, <1>6, <1>7, TablesKept

LEMMA DeleteTargetKeepsFresh ==
  ASSUME IInv, FreshInv, NEW t \in Targets, DeleteTarget(t), world' = world
  PROVE  FreshInv'
<1>1. /\ phase = "idle" /\ clock' = clock + 1 /\ reported' = {}
      /\ UNCHANGED <<phase, job, rows, stray, depTable, mem, unch, deps>>
  BY DEF DeleteTarget, Tick, dbVars, runVars
<1>2. /\ \A s \in Sources : disk'[s] = disk[s]
      /\ \A x \in Targets : disk'[x] \in {disk[x], NoFile}
  BY InputAssumption DEF DeleteTarget, IInv, Shapes, Files
<1>3. \A s \in Sources : Holders(s)' = Holders(s)
  BY <1>1 DEF Holders
<1> QED BY <1>1, <1>2, <1>3, SourcesKept

LEMMA EditScriptKeepsFresh ==
  ASSUME IInv, FreshInv, EditScript, world' = world
  PROVE  FreshInv'
<1>1. /\ phase = "idle" /\ clock' = clock + 1 /\ reported' = {}
      /\ UNCHANGED <<phase, job, rows, stray, depTable, mem, unch, disk>>
      /\ "script" \in world.edits
  BY DEF EditScript, Tick, dbVars, runVars
<1>2. \A s \in Sources : Holders(s)' = Holders(s)
  BY <1>1 DEF Holders
<1> QED BY <1>1, <1>2, SourcesKept

-------------------------------------------------------------------------------
(* Whole builds: steps of a run. *)

LEMMA EverythingIsNeeded == Needed(Targets) = Targets
<1> DEFINE Closed(S) == Targets \subseteq S /\ \A t \in S : deps[t] \cap Targets \subseteq S
           Least(S) == Closed(S) /\ \A T \in SUBSET Targets : Closed(T) => S \subseteq T
<1>1. Needed(Targets) = CHOOSE S \in SUBSET Targets : Least(S)
  BY DEF Needed
<1>2. Targets \in SUBSET Targets /\ Least(Targets)
  OBVIOUS
<1>3. ASSUME NEW S \in SUBSET Targets, Least(S) PROVE S = Targets
  BY <1>3
<1> HIDE DEF Least
<1>4. (CHOOSE S \in SUBSET Targets : Least(S)) = Targets
  BY <1>2, <1>3
<1> QED BY <1>1, <1>4

\* What a step of a run leaves alone: the tables, and what they say of the sources.
LEMMA RunKeeps ==
  ASSUME IInv, FreshInv, phase' = "running",
         clock' = (IF phase = "idle" THEN clock + 1 ELSE clock),
         UNCHANGED <<rows, stray, depTable, deps, command, world>>,
         \A s \in Sources : disk'[s] = disk[s]
  PROVE  /\ \A f \in Files : Stored(f)' = Stored(f) /\ Row(f)' = Row(f) /\ Known(f)' = Known(f)
         /\ \A t \in Targets : DepsOf(t)' = DepsOf(t)
         /\ \A f \in Files : Row(f)'.ts \in 0 .. Latest' /\ Row(f).ts # clock'
         /\ \A s \in Sources : disk'[s].ts # 0 /\ disk'[s].content \in 1 .. clock'
         /\ \A s \in Sources : SourceRow(s)'
         /\ \A t \in Targets : TargetRow(t)'
         /\ clock' \in Nat \ {0} /\ \A f \in Files : disk[f].ts \in 0 .. clock'
<1>1. /\ \A f \in Files : Stored(f)' = Stored(f) /\ Row(f)' = Row(f) /\ Known(f)' = Known(f)
      /\ \A t \in Targets : DepsOf(t)' = DepsOf(t) /\ From(t)' = From(t)
      /\ \A t \in Targets : \A d \in Files : RecordedGens(t, d)' = RecordedGens(t, d)
      /\ \A s \in Sources : Holders(s)' = Holders(s)
  BY DEF Stored, Row, Known, DepsOf, From, RecordedGens, Holders
<1>2. Sources \subseteq Files /\ Targets \subseteq Files
  BY DEF Files
<1>3. PICK n \in Nat \ {0} : n = Latest /\ Latest' = n
  <2>1. clock \in Nat /\ Latest \in Nat \ {0}
    BY LatestIsPositive
  <2> QED BY <2>1 DEF Latest
<1>4. clock' = n + 1 /\ clock \in Nat /\ clock <= clock'
  <2>1. clock \in Nat
    BY LatestIsPositive
  <2>2. Latest' = clock' - 1
    BY DEF Latest
  <2>3. clock' \in Nat /\ clock <= clock'
    BY <2>1
  <2> QED BY <1>3, <2>1, <2>2, <2>3
<1>5. /\ \A f \in Files : Row(f)'.ts \in 0 .. Latest' /\ Row(f).ts # clock'
      /\ \A f \in Files : disk[f].ts \in 0 .. clock'
  <2>1. ASSUME NEW f \in Files PROVE Row(f).ts \in 0 .. n /\ disk[f].ts \in 0 .. clock
    BY <1>3 DEF FreshInv, Times
  <2>2. 0 .. clock \subseteq 0 .. clock' /\ clock' \notin 0 .. n
    BY <1>4
  <2> QED BY <1>1, <1>3, <2>1, <2>2
<1>6. \A s \in Sources : disk'[s].ts # 0 /\ disk'[s].content \in 1 .. clock'
  <2>1. 1 .. clock \subseteq 1 .. clock'
    BY <1>4
  <2>2. \A s \in Sources : disk[s].ts # 0 /\ disk[s].content \in 1 .. clock
    BY DEF FreshInv, Times
  <2> QED BY <2>1, <2>2
<1>7. ASSUME NEW s \in Sources PROVE SourceRow(s)'
  <2>1. SourceRow(s) /\ Holders(s) \subseteq Targets
    BY DEF FreshInv, Holders
  <2> QED BY <1>1, <1>2, <2>1 DEF SourceRow
<1>8. ASSUME NEW t \in Targets PROVE TargetRow(t)'
  <2>1. TargetRow(t) /\ DepsOf(t) \subseteq Files
    BY DEF FreshInv, DepsOf, IInv, TablesAreOlder
  <2>2. \A d \in DepsOf(t) : SameSince(t, d) => SameSince(t, d)'
    BY <1>1, <2>1 DEF SameSince
  <2> QED BY <1>1, <1>2, <2>1, <2>2 DEF TargetRow
<1> QED BY <1>1, <1>4, <1>5, <1>6, <1>7, <1>8

LEMMA StartRunKeepsFresh ==
  ASSUME WholeBuilds, IInv, IInv', FreshInv, StartRun, world' = world
  PROVE  FreshInv'
<1>1. /\ phase = "idle" /\ phase' = "running" /\ clock' = clock + 1
      /\ UNCHANGED <<disk, command, deps, rows, stray, depTable, reported>>
  BY DEF StartRun, Tick, dbVars
<1> DEFINE scanned == world.scanned \cap UNION { deps[t] : t \in Targets }
<1>2. /\ job' = [t \in Targets |-> IF t \in Targets THEN "todo" ELSE "none"]
      /\ mem' = [f \in Files |-> IF f \in scanned THEN SeenRecord(f) ELSE NotLoaded]
      /\ unch' = [f \in Files |-> IF f \in scanned THEN Seen(f) ELSE "unknown"]
  <2>1. PICK goals \in GoalSets :
          LET needed == Needed(goals)
              asked == world.scanned \cap UNION { deps[t] : t \in needed } IN
          /\ job' = [t \in Targets |-> IF t \in needed THEN "todo" ELSE "none"]
          /\ mem' = [f \in Files |-> IF f \in asked THEN SeenRecord(f) ELSE NotLoaded]
          /\ unch' = [f \in Files |-> IF f \in asked THEN Seen(f) ELSE "unknown"]
    BY DEF StartRun
  <2>2. goals = Targets
    BY <2>1 DEF WholeBuilds
  <2>3. Needed(goals) = Targets
    BY <2>2, EverythingIsNeeded
  <2> QED BY <2>1, <2>3
<1> HIDE DEF scanned
<1>3. /\ \A f \in Files : Stored(f)' = Stored(f) /\ Row(f)' = Row(f) /\ Known(f)' = Known(f)
      /\ \A t \in Targets : DepsOf(t)' = DepsOf(t)
      /\ \A f \in Files : Row(f)'.ts \in 0 .. Latest'
      /\ \A s \in Sources : disk'[s].ts # 0 /\ disk'[s].content \in 1 .. clock'
      /\ \A s \in Sources : SourceRow(s)'
      /\ \A t \in Targets : TargetRow(t)'
      /\ \A f \in Files : disk[f].ts \in 0 .. clock'
  BY <1>1, RunKeeps
<1>4. Targets \subseteq Files /\ \A t \in Targets : job'[t] = "todo"
  BY <1>2 DEF Files
<1>5. Times' /\ RunsAreWhole'
  BY <1>1, <1>3, <1>4 DEF Times, RunsAreWhole
<1>6. \A t \in Targets : TargetFile(t)'
  BY <1>1, <1>3, <1>4 DEF FreshInv, TargetFile, Exists
<1>7. ASSUME NEW f \in Files
      PROVE  /\ Follows(Record(f), Stored(f))' /\ Record(f)'.row = Row(f)
             /\ Answer(f)'
  <2>1. Record(f) = Stored(f) /\ Record(f).row = Row(f)
    BY <1>1, NothingInMemory DEF Row
  <2>2. CASE f \in scanned
    <3>1. mem'[f] = SeenRecord(f) /\ unch'[f] = Seen(f)
      BY <1>2, <2>2
    <3>2. /\ Seen(f) = IF Matches(disk[f], Row(f)) THEN "same" ELSE "changed"
          /\ Follows(SeenRecord(f), Stored(f)) /\ SeenRecord(f).row = Row(f)
          /\ Seen(f) = "changed" \/ (Exists(f) /\ disk[f].ts # Row(f).ts) => SeenRecord(f).skip = FALSE
      BY <2>1, SeenFacts
    <3>3. SeenRecord(f).gen # 0
      BY SeenRecordIsOk, LatestIsPositive DEF RecordOk
    <3>4. Record(f)' = SeenRecord(f) /\ Loaded(f)'
      BY <3>1, <3>3 DEF Record, Loaded
    <3>5. Follows(Record(f), Stored(f))'
      BY <1>3, <3>2, <3>4 DEF Follows, SameData
    <3>6. Answer(f)'
      BY <1>1, <1>3, <3>1, <3>2, <3>4 DEF Answer, Exists, Matches
    <3> QED BY <3>2, <3>4, <3>5, <3>6
  <2>3. CASE f \notin scanned
    <3>1. mem'[f] = NotLoaded /\ unch'[f] = "unknown"
      BY <1>2, <2>3
    <3>2. Record(f)' = Stored(f)
      BY <1>3, <3>1 DEF Record, Loaded, NotLoaded
    <3> QED BY <1>3, <2>1, <3>1, <3>2 DEF FreshInv, Follows, SameData, Answer
  <2> QED BY <2>2, <2>3
<1>8. ASSUME NEW t \in Targets PROVE Asked(t)' /\ JobOk(t)'
  <2>1. Asked(t)'
    <3>1. \A s \in Sources \cap deps[t] : s \in world.scanned => s \in scanned
      BY DEF scanned
    <3>2. \A f \in Files : Seen(f) # "unknown"
      BY SeenFacts
    <3> QED BY <1>1, <1>2, <1>4, <3>1, <3>2 DEF Asked, Files
  <2>2. JobOk(t)'
    BY <1>3, <1>4, <1>7 DEF JobOk
  <2> QED BY <2>1, <2>2
<1>9. ASSUME NEW f \in Files PROVE InBuild(f)'
  BY <1>1, <1>2 DEF InBuild, Loaded, NotLoaded, scanned
<1>10. reported' # {} => \A t \in Targets : SettledTarget(t)'
  <2> SUFFICES ASSUME reported' # {}, NEW t \in Targets PROVE SettledTarget(t)'
    OBVIOUS
  <2>1. SettledTarget(t) /\ deps[t] \subseteq Files
    BY <1>1, FilesOfGraphs DEF FreshInv, IInv, OtherTypes
  <2> QED BY <1>1, <1>3, <1>4, <2>1 DEF SettledTarget, Exists, Output
<1> QED BY <1>3, <1>5, <1>6, <1>7, <1>8, <1>9, <1>10 DEF FreshInv

\* Setting the status, or the status and the command, changes nothing else in a record.
WithStatus(m, ok) == [m EXCEPT !.row.ok = ok]

LEMMA StatusRecorded ==
  ASSUME NEW m, IsRecord(m), IsRow(m.row), NEW ok, NEW n, n = WithStatus(m, ok)
  PROVE  /\ n.gen = m.gen /\ n.prevGen = m.prevGen /\ n.skip = m.skip
         /\ n.row.ok = ok /\ n.row.taskSig = m.row.taskSig /\ SameData(n.row, m.row)
         /\ IsRecord(n)
<1>1. PICK r : r = m.row /\ IsRow(r)
  OBVIOUS
<1>2. PICK q : q = [r EXCEPT !.ok = ok]
  OBVIOUS
<1>3. q = [existed |-> r.existed, ts |-> r.ts, sig |-> r.sig, taskSig |-> r.taskSig, ok |-> ok]
  BY <1>1, <1>2 DEF IsRow
<1>4. n = [gen |-> m.gen, prevGen |-> m.prevGen, skip |-> m.skip, row |-> q]
  BY <1>1, <1>2 DEF IsRecord, WithStatus
<1>5. SameData(q, r) /\ q.ok = ok /\ q.taskSig = r.taskSig
  BY <1>1, <1>3 DEF SameData, IsRow
<1> QED BY <1>1, <1>4, <1>5 DEF IsRecord

\* The record of a target that will be made by cmd.
Undecided(m, cmd) == [m EXCEPT !.row.ok = FALSE, !.row.taskSig = cmd]

LEMMA CommandRecorded ==
  ASSUME NEW m, IsRecord(m), IsRow(m.row), NEW cmd, NEW n, n = Undecided(m, cmd)
  PROVE  /\ n.gen = m.gen /\ n.prevGen = m.prevGen /\ n.skip = m.skip
         /\ n.row.taskSig = cmd /\ SameData(n.row, m.row)
<1>1. PICK g, pg, sk, r, e, ts, sig, c, o :
        /\ m = [gen |-> g, prevGen |-> pg, skip |-> sk, row |-> r]
        /\ r = [existed |-> e, ts |-> ts, sig |-> sig, taskSig |-> c, ok |-> o]
  BY DEF IsRecord, IsRow
<1>2. n.row = [existed |-> e, ts |-> ts, sig |-> sig, taskSig |-> cmd, ok |-> FALSE]
  BY <1>1 DEF Undecided
<1>3. n.gen = m.gen /\ n.prevGen = m.prevGen /\ n.skip = m.skip
  BY <1>1 DEF Undecided
<1>4. SameData(n.row, m.row) /\ n.row.taskSig = cmd
  BY <1>1, <1>2 DEF SameData, IsRow
<1> QED BY <1>3, <1>4

\* What a target that is passed over is like.
LEMMA PassedOver ==
  ASSUME IInv, FreshInv, NEW t \in Targets, phase = "running", job[t] = "todo",
         \A d \in deps[t] \cap Targets : job[d] = "built", ~Outdated(t)
  PROVE  /\ Known(t) /\ Exists(t) /\ Record(t).row = Row(t) /\ DepsOf(t) = deps[t]
         /\ Row(t).ok /\ Row(t).taskSig = command[t]
         /\ disk[t].ts = Row(t).ts /\ disk[t].content = Output(t)
<1>1. /\ Exists(t) /\ Record(t).row.ok /\ Record(t).row.taskSig = command[t]
      /\ \A d \in deps[t] : Verdict(t, d) = "same"
      /\ \A id \in depTable[t] : id[1] \in deps[t]
  BY DEF Outdated
<1>2. t \in Files /\ deps[t] \subseteq Files /\ Record(t).row = Row(t)
  BY FilesOfGraphs DEF Files, IInv, OtherTypes, FreshInv, JobOk
<1>3. Known(t)
  <2>1. NullRow.ok = FALSE
    BY DEF NullRow
  <2> QED BY <1>1, <1>2, <2>1, StoredFacts
<1>4. \A d \in deps[t] : d \in DepsOf(t) /\ Matches(disk[d], Row(d))
  BY <1>1, <1>2, VerdictFacts
<1>5. DepsOf(t) = deps[t]
  BY <1>1, <1>4 DEF DepsOf
<1>6. /\ Row(t).sig = [cmd |-> command[t], from |-> [d \in deps[t] |-> From(t)[d]]]
      /\ \A d \in deps[t] : SameSince(t, d)
  BY <1>1, <1>2, <1>3, <1>5 DEF FreshInv, TargetRow
<1>7. disk[t].ts = Row(t).ts /\ disk[t].content = Row(t).sig
  BY <1>1, <1>3 DEF FreshInv, TargetFile
<1>8. ASSUME NEW d \in deps[t] PROVE disk[d].content = From(t)[d]
  <2>1. d \in Files /\ Matches(disk[d], Row(d)) /\ SameSince(t, d)
    BY <1>2, <1>4, <1>6
  <2>2. CASE d \in Targets
    <3>1. BuiltOk(d) /\ TargetFile(d) /\ TargetRow(d)
      BY <1>8, <2>2 DEF FreshInv, JobOk
    <3>2. disk[d].ts # 0 /\ Row(d).existed = "yes"
      BY <2>1, <3>1 DEF BuiltOk, Exists, Matches
    <3>3. Known(d)
      <4>1. NullRow.existed # "yes"
        BY DEF NullRow
      <4> QED BY <2>1, <3>2, <4>1, StoredFacts
    <3>4. disk[d].content = Row(d).sig
      BY <2>1, <3>1, <3>2, <3>3 DEF Matches, TargetFile, Exists
    <3> QED BY <2>1, <2>2, <3>4 DEF SameSince
  <2>3. CASE d \in Sources
    <3>1. disk[d].ts # 0 /\ disk[d].content # Null
      <4>1. clock \in 1 .. MaxClock /\ disk[d].ts # 0 /\ disk[d].content \in 1 .. clock
        BY <2>3 DEF FreshInv, Times, IInv, OtherTypes
      <4>2. 1 .. clock \subseteq 1 .. MaxClock
        BY <4>1, InputAssumption
      <4> QED BY <4>1, <4>2, InputAssumption
    <3>2. disk[d].ts = Row(d).ts \/ disk[d].content = Row(d).sig
      BY <2>1, <3>1 DEF Matches
    <3> QED BY <2>1, <2>3, <3>1, <3>2 DEF SameSince
  <2> QED BY <2>1, <2>2, <2>3 DEF Files
<1>9. Output(t) = Row(t).sig
  BY <1>6, <1>8 DEF Output
<1> QED BY <1>1, <1>2, <1>3, <1>5, <1>7, <1>9

\* A target that the last run reported is not made again.
LEMMA SettledIsPassedOver ==
  ASSUME IInv, FreshInv, NEW t \in Targets, phase = "running", job[t] = "todo", reported # {}
  PROVE  ~Outdated(t)
<1>1. SettledTarget(t) /\ TargetRow(t) /\ Record(t).row = Row(t) /\ deps[t] \subseteq Files
  BY FilesOfGraphs DEF FreshInv, JobOk, IInv, OtherTypes
<1>2. \A d \in deps[t] : Verdict(t, d) = "same"
  BY <1>1, VerdictFacts DEF SettledTarget
<1>3. \A id \in depTable[t] : id[1] \in deps[t]
  BY <1>1 DEF SettledTarget, DepsOf
<1> QED BY <1>1, <1>2, <1>3 DEF SettledTarget, TargetRow, Outdated

\* The records after a decision.
LEMMA DecidedRecords ==
  ASSUME IInv, IInv', FreshInv, NEW t \in Targets, Decide(t), world' = world
  PROVE  /\ \A f \in Files : Loaded(f) \/ f = t \/ f \in deps[t] => Loaded(f)'
         /\ \A f \in Files : Follows(Record(f), Stored(f))' /\ Answer(f)' /\ InBuild(f)'
         /\ \A f \in Files \ {t} : Record(f)'.row = Record(f).row
                                   /\ (Record(f)'.skip => Record(f)' = Record(f))
         /\ \A f \in Files : unch[f] # "unknown" => unch'[f] # "unknown"
         /\ \A d \in deps[t] : d \in DepsOf(t) => unch'[d] # "unknown"
<1>1. /\ UNCHANGED <<clock, disk, command, deps, rows, stray, depTable, phase, reported>>
      /\ phase = "running" /\ t \in Files /\ job[t] = "todo"
      /\ \A d \in deps[t] \cap Targets : job[d] = "built"
      /\ t \notin deps[t] /\ deps[t] \subseteq Files
  BY FilesOfGraphs DEF Decide, fileVars, dbVars, ghostVars, Files, IInv, OtherTypes
<1>2. /\ mem' = [f \in Files |->
           IF f = t THEN
             IF Outdated(t)
             THEN [Record(t) EXCEPT !.row.ok = FALSE, !.row.taskSig = command[t]]
             ELSE Record(t)
           ELSE IF f \in deps[t] THEN
             IF IsCurrent(t, f) THEN SeenRecord(f) ELSE Record(f)
           ELSE mem[f]]
      /\ unch' = [f \in Files |->
           IF f \in deps[t] /\ Verdict(t, f) # "new" THEN Verdict(t, f) ELSE unch[f]]
  BY DEF Decide
<1>3. \A f \in Files : Stored(f)' = Stored(f) /\ Row(f)' = Row(f)
  BY <1>1 DEF Stored, Row
<1>4. ASSUME NEW f \in Files, f = t \/ f \in deps[t]
      PROVE  Loaded(f)' /\ Record(f)' = mem'[f]
  <2>1. RecordOk(Record(f), Latest) /\ RecordOk(SeenRecord(f), Latest)
    BY RecordIsOk, SeenRecordIsOk
  <2>2. RecordOk(mem'[f], Latest)
    BY <1>2, <1>4, <2>1, LatestIsPositive, StatusChanged
  <2>3. mem'[f].gen # 0
    BY <2>2, LatestIsPositive DEF RecordOk
  <2> QED BY <2>3 DEF Loaded, Record
<1>5. ASSUME NEW f \in Files, f # t, f \notin deps[t]
      PROVE  mem'[f] = mem[f] /\ unch'[f] = unch[f] /\ Record(f)' = Record(f)
             /\ Loaded(f)' = Loaded(f)
  <2>1. mem'[f] = mem[f] /\ unch'[f] = unch[f]
    BY <1>2, <1>5
  <2> QED BY <1>3, <2>1 DEF Record, Loaded
<1>6. ASSUME NEW f \in deps[t]
      PROVE  /\ Record(f)' = (IF f \in DepsOf(t) THEN SeenRecord(f) ELSE Record(f))
             /\ unch'[f] = IF f \in DepsOf(t) THEN Seen(f) ELSE unch[f]
  <2>1. f \in Files /\ f # t
    BY <1>1
  <2>2. /\ IsCurrent(t, f) <=> f \in DepsOf(t)
        /\ Verdict(t, f) = IF f \notin DepsOf(t) THEN "new" ELSE Seen(f)
        /\ Seen(f) # "new"
    BY <2>1, VerdictFacts, SeenFacts
  <2> QED BY <1>2, <1>4, <2>1, <2>2
<1>7. /\ Follows(Record(t), Stored(t))' /\ unch'[t] = unch[t] /\ Record(t)'.skip = Record(t).skip
  <2>1. Follows(Record(t), Stored(t)) /\ IsRecord(Record(t))
    BY <1>1, RecordIsOk DEF FreshInv, RecordOk
  <2>2. Record(t)' = (IF Outdated(t)
             THEN [Record(t) EXCEPT !.row.ok = FALSE, !.row.taskSig = command[t]]
             ELSE Record(t))
    BY <1>1, <1>2, <1>4
  <2>3. /\ Record(t)'.gen = Record(t).gen /\ Record(t)'.prevGen = Record(t).prevGen
        /\ Record(t)'.skip = Record(t).skip
        /\ SameData(Record(t)'.row, Record(t).row)
    <3>1. IsRow(Record(t).row) /\ SameData(Record(t).row, Record(t).row)
      BY <2>1 DEF Follows, SameData
    <3>2. CASE Outdated(t)
      <4>1. Record(t)' = Undecided(Record(t), command[t])
        BY <2>2, <3>2 DEF Undecided
      <4> QED BY <2>1, <3>1, <4>1, CommandRecorded
    <3>3. CASE ~Outdated(t)
      BY <2>2, <3>1, <3>3
    <3> QED BY <3>2, <3>3
  <2> QED BY <1>1, <1>2, <1>3, <2>1, <2>3 DEF Follows, SameData
<1>8. ASSUME NEW f \in Files PROVE Follows(Record(f), Stored(f))'
  <2>1. Follows(Record(f), Stored(f)) /\ Follows(SeenRecord(f), Stored(f))
    BY SeenFacts DEF FreshInv
  <2>2. Record(f)' \in {Record(f), SeenRecord(f)} \/ f = t
    BY <1>5, <1>6
  <2> QED BY <1>3, <1>7, <2>1, <2>2 DEF Follows, SameData
<1>9. ASSUME NEW f \in Files PROVE Answer(f)'
  <2>1. Answer(f)
    BY DEF FreshInv
  <2>2. CASE f = t
    BY <1>1, <1>3, <1>4, <1>7, <2>1, <2>2 DEF Answer, Exists, Matches, Record
  <2>3. CASE f \in deps[t]
    <3>1. Loaded(f)' /\ Record(f)' = mem'[f]
      BY <1>1, <1>4, <2>3
    <3>2. CASE f \in DepsOf(t)
      <4>1. Record(f)' = SeenRecord(f) /\ unch'[f] = Seen(f)
        BY <1>6, <2>3, <3>2
      <4> QED BY <1>1, <1>3, <3>1, <4>1, SeenFacts DEF Answer, Exists, Matches
    <3>3. CASE f \notin DepsOf(t)
      <4>1. Record(f)' = Record(f) /\ unch'[f] = unch[f]
        BY <1>6, <2>3, <3>3
      <4> QED BY <1>1, <1>3, <2>1, <3>1, <4>1 DEF Answer, Exists, Matches, Record
    <3> QED BY <3>2, <3>3
  <2>4. CASE f # t /\ f \notin deps[t]
    BY <1>1, <1>3, <1>5, <2>1, <2>4 DEF Answer, Exists, Matches
  <2> QED BY <2>2, <2>3, <2>4
<1>10. ASSUME NEW f \in Files \ {t}
       PROVE  Record(f)'.row = Record(f).row /\ (Record(f)'.skip => Record(f)' = Record(f))
  BY <1>5, <1>6, SeenFacts
<1>11. \A f \in Files : Seen(f) # "unknown"
  BY SeenFacts
<1>12. ASSUME NEW f \in Files, unch[f] # "unknown" PROVE unch'[f] # "unknown"
  BY <1>5, <1>6, <1>7, <1>11, <1>12
<1>13. \A d \in deps[t] : d \in DepsOf(t) => unch'[d] # "unknown"
  BY <1>1, <1>6, <1>11
<1>14. \A f \in Files : Loaded(f) \/ f = t \/ f \in deps[t] => Loaded(f)'
  BY <1>4, <1>5
<1>15. ASSUME NEW f \in Files PROVE InBuild(f)'
  <2>1. InBuild(f)
    BY DEF FreshInv
  <2> QED BY <1>1, <1>5, <2>1 DEF InBuild
<1> QED BY <1>8, <1>9, <1>10, <1>12, <1>13, <1>14, <1>15

LEMMA DecideKeepsFresh ==
  ASSUME IInv, IInv', FreshInv, NEW t \in Targets, Decide(t), world' = world
  PROVE  FreshInv'
<1>1. /\ UNCHANGED <<clock, disk, command, deps, rows, stray, depTable, phase, reported>>
      /\ phase = "running" /\ phase' = "running" /\ t \in Files /\ job[t] = "todo"
      /\ \A d \in deps[t] \cap Targets : job[d] = "built"
      /\ t \notin deps[t] /\ deps[t] \subseteq Files
  BY FilesOfGraphs DEF Decide, fileVars, dbVars, ghostVars, Files, IInv, OtherTypes
<1>2. /\ job'[t] = IF Outdated(t) THEN "running" ELSE "built"
      /\ \A x \in Targets \ {t} : job'[x] = job[x]
  BY DEF Decide, IInv, OtherTypes
<1>3. /\ \A f \in Files : Stored(f)' = Stored(f) /\ Row(f)' = Row(f) /\ Known(f)' = Known(f)
      /\ \A x \in Targets : DepsOf(x)' = DepsOf(x)
      /\ \A s \in Sources : SourceRow(s)'
      /\ \A x \in Targets : TargetRow(x)'
  BY <1>1, RunKeeps
<1>4. RunsAreWhole' /\ Times'
  BY <1>1, <1>2, <1>3 DEF FreshInv, RunsAreWhole, Times, Latest
<1>5. /\ \A f \in Files : Loaded(f) \/ f = t \/ f \in deps[t] => Loaded(f)'
      /\ \A f \in Files : Follows(Record(f), Stored(f))' /\ Answer(f)' /\ InBuild(f)'
      /\ \A f \in Files \ {t} : Record(f)'.row = Record(f).row
                                /\ (Record(f)'.skip => Record(f)' = Record(f))
      /\ \A f \in Files : unch[f] # "unknown" => unch'[f] # "unknown"
      /\ \A d \in deps[t] : d \in DepsOf(t) => unch'[d] # "unknown"
  BY DecidedRecords
<1>6. \A x \in Targets : x \in Files /\ deps[x] \subseteq Files /\ Output(x)' = Output(x)
  BY <1>1, FilesOfGraphs DEF Files, IInv, OtherTypes, Output
<1>7. ~Outdated(t) =>
        /\ Known(t) /\ Exists(t) /\ Record(t).row = Row(t) /\ DepsOf(t) = deps[t]
        /\ Row(t).ok /\ Row(t).taskSig = command[t]
        /\ disk[t].ts = Row(t).ts /\ disk[t].content = Output(t)
  BY <1>1, PassedOver
<1>8. \A x \in Targets : TargetFile(x)'
  BY <1>1, <1>2, <1>3, <1>6, <1>7 DEF FreshInv, TargetFile, Exists
<1>9. ASSUME NEW x \in Targets PROVE Asked(x)'
  <2>1. Asked(x) /\ deps[x] \subseteq Files
    BY <1>1, <1>6 DEF FreshInv
  <2> QED BY <1>1, <1>2, <1>3, <1>5, <2>1 DEF Asked
<1>10. JobOk(t)'
  <2>1. /\ job'[t] # "todo"
        /\ \A d \in deps'[t] : Loaded(d)' /\ (d \in Targets => job'[d] = "built")
    BY <1>1, <1>2, <1>5
  <2>2. Loaded(t)' /\ Record(t)' = mem'[t]
    BY <1>1, <1>5 DEF Record
  <2>3. mem'[t] = IF Outdated(t)
             THEN [Record(t) EXCEPT !.row.ok = FALSE, !.row.taskSig = command[t]]
             ELSE Record(t)
    BY <1>1 DEF Decide
  <2>4. CASE Outdated(t)
    <3>1. mem'[t].row.taskSig = command[t]
      <4>1. IsRecord(Record(t)) /\ IsRow(Record(t).row)
        BY <1>1, RecordIsOk DEF FreshInv, RecordOk, Follows, SameData
      <4>2. mem'[t] = Undecided(Record(t), command[t])
        BY <2>3, <2>4 DEF Undecided
      <4> QED BY <4>1, <4>2, CommandRecorded
    <3> QED BY <1>1, <1>2, <2>1, <2>4, <3>1 DEF JobOk
  <2>5. CASE ~Outdated(t)
    <3>1. mem'[t] = Record(t) /\ mem'[t].row = Row(t)
      BY <1>7, <2>3, <2>5
    <3>2. BuiltOk(t)'
      BY <1>1, <1>3, <1>6, <1>7, <2>5, <3>1 DEF BuiltOk, Exists
    <3> QED BY <1>1, <1>2, <1>7, <2>1, <2>5, <3>1, <3>2 DEF JobOk
  <2> QED BY <2>4, <2>5
<1>11. ASSUME NEW x \in Targets \ {t} PROVE JobOk(x)'
  <2>1. JobOk(x) /\ job'[x] = job[x] /\ x \in Files /\ deps[x] \subseteq Files
    BY <1>1, <1>2, <1>6 DEF FreshInv
  <2>2. job[x] # "todo" => Record(x) = mem[x] /\ Record(x)' = mem'[x]
    <3>1. job[x] # "todo" => Loaded(x)
      BY <1>1 DEF IInv, DecidedAreLoaded, OtherTypes, FreshInv, RunsAreWhole
    <3> QED BY <1>5, <2>1, <3>1 DEF Record
  <2>3. Record(x)'.row = Record(x).row /\ (Record(x)'.skip => Record(x)' = Record(x))
    BY <1>5, <2>1
  <2>4. job[x] = "built" => BuiltOk(x)'
    BY <1>1, <1>3, <1>5, <1>6, <2>1, <2>2, <2>3 DEF JobOk, BuiltOk, Exists
  <2>5. job[x] # "todo" => \A d \in deps[x] : Loaded(d)' /\ (d \in Targets => job'[d] = "built")
    BY <1>1, <1>2, <1>5, <2>1 DEF JobOk
  <2> QED BY <1>1, <1>3, <2>1, <2>2, <2>3, <2>4, <2>5 DEF JobOk
<1>12. reported' # {} => \A x \in Targets : SettledTarget(x)'
  <2> SUFFICES ASSUME reported # {}, NEW x \in Targets PROVE SettledTarget(x)'
    BY <1>1
  <2>1. SettledTarget(x)
    BY DEF FreshInv
  <2>2. job'[x] # "running"
    BY <1>1, <1>2, <2>1, SettledIsPassedOver DEF SettledTarget
  <2> QED BY <1>1, <1>3, <1>6, <2>1, <2>2 DEF SettledTarget, Exists
<1> QED BY <1>1, <1>3, <1>4, <1>5, <1>8, <1>9, <1>10, <1>11, <1>12 DEF FreshInv

LEMMA SucceedKeepsFresh ==
  ASSUME IInv, IInv', FreshInv, NEW t \in Targets, Succeed(t), world' = world
  PROVE  FreshInv'
<1>1. /\ UNCHANGED <<clock, command, deps, rows, stray, depTable, phase, reported>>
      /\ phase = "running" /\ t \in Files /\ job[t] = "running"
      /\ disk' = [disk EXCEPT ![t] = Written(t)]
      /\ Recompared(t, "unknown", Written(t), TRUE)
      /\ job' = [job EXCEPT ![t] = "built"]
  BY DEF Succeed, dbVars, Files
<1>2. /\ job'[t] = "built" /\ \A x \in Targets \ {t} : job'[x] = job[x]
      /\ disk'[t] = Written(t) /\ \A f \in Files \ {t} : disk'[f] = disk[f]
      /\ \A s \in Sources : s \in Files /\ s # t /\ disk'[s] = disk[s]
      /\ \A x \in Targets : x \in Files /\ deps[x] \subseteq Files
  BY <1>1, InputAssumption, FilesOfGraphs DEF IInv, OtherTypes, Shapes, Files
<1>3. /\ \A f \in Files : Stored(f)' = Stored(f) /\ Row(f)' = Row(f) /\ Known(f)' = Known(f)
      /\ \A x \in Targets : DepsOf(x)' = DepsOf(x)
      /\ \A f \in Files : Row(f)'.ts \in 0 .. Latest' /\ Row(f).ts # clock
      /\ \A s \in Sources : disk'[s].ts # 0 /\ disk'[s].content \in 1 .. clock'
      /\ \A s \in Sources : SourceRow(s)'
      /\ \A x \in Targets : TargetRow(x)'
      /\ clock \in Nat \ {0} /\ \A f \in Files : disk[f].ts \in 0 .. clock
  BY <1>1, <1>2, RunKeeps
<1>4. Written(t).ts = clock /\ Written(t).content = Output(t) /\ clock \in 0 .. clock
  BY <1>3 DEF Written
<1>5. RunsAreWhole' /\ Times'
  <2>1. RunsAreWhole'
    BY <1>1, <1>2 DEF FreshInv, RunsAreWhole
  <2>2. \A f \in Files : disk'[f].ts \in 0 .. clock'
    BY <1>1, <1>2, <1>3, <1>4
  <2> QED BY <1>3, <2>1, <2>2 DEF Times
<1>6. /\ Loaded(t) /\ Record(t) = mem[t] /\ Follows(mem[t], Stored(t)) /\ JobOk(t)
      /\ \A d \in deps[t] : Loaded(d) /\ (d \in Targets => job[d] = "built")
      /\ mem[t].row.taskSig = command[t] /\ t \notin deps[t]
  <2>1. Loaded(t)
    BY <1>1 DEF IInv, DecidedAreLoaded
  <2>2. Follows(Record(t), Stored(t)) /\ JobOk(t)
    BY <1>1, <1>2 DEF FreshInv
  <2> QED BY <1>1, <2>1, <2>2 DEF Record, JobOk
<1>7. /\ Follows(mem[t], Stored(t))' /\ mem'[t].skip = FALSE /\ mem'[t].row.ok = TRUE
      /\ mem'[t].row.taskSig = command[t] /\ Loaded(t)'
      /\ unch'[t] = IF Matches(Written(t), Row(t)) THEN "same" ELSE "changed"
      /\ \A f \in Files \ {t} : mem'[f] = mem[f] /\ unch'[f] = unch[f]
  <2>1. SameData(mem[t].row, Row(t)) /\ Matches(Written(t), mem[t].row) = Matches(Written(t), Row(t))
    BY <1>6, SameMatches DEF Follows, Row
  <2>2. Written(t).ts # mem[t].row.ts /\ Written(t).ts # 0
    BY <1>1, <1>3, <1>4, <2>1 DEF SameData
  <2>3. PICK m :
          /\ m = Bumped(mem[t])
          /\ unch' = [unch EXCEPT ![t] = IF Matches(Written(t), Row(t)) THEN "same" ELSE "changed"]
          /\ mem' = [mem EXCEPT ![t] = WithStatus(m, TRUE)]
    BY <1>1, <2>1, <2>2 DEF Recompared, WithStatus
  <2>4. RecordOk(mem[t], Latest) /\ RecordOk(m, Latest)
    BY <1>1, <1>6, <2>3, RecordIsOk, BumpedIsOk, LatestIsPositive
  <2>5. Follows(m, Stored(t)) /\ m.row = mem[t].row
    BY <1>6, <2>3, BumpedFollows, BumpedFacts
  <2>6. IsRecord(m) /\ IsRow(m.row)
    BY <2>4, <2>5 DEF RecordOk, Follows, SameData
  <2>7. m.skip = FALSE
    <3>1. mem[t].skip \in BOOLEAN
      BY <1>1, <1>6, StoredFacts DEF Follows
    <3> QED BY <2>3, <3>1, BumpedFacts
  <2>8. PICK ok, n : n = mem'[t] /\ n = WithStatus(m, ok) /\ ok = TRUE
    BY <1>1, <2>3 DEF IInv, Shapes
  <2>9. n = WithStatus(m, ok)
    BY <2>8
  <2>10. /\ n.gen = m.gen /\ n.prevGen = m.prevGen /\ n.skip = m.skip
        /\ n.row.ok = ok /\ n.row.taskSig = m.row.taskSig /\ SameData(n.row, m.row)
    BY <2>6, <2>9, StatusRecorded
  <2>11. Follows(mem[t], Stored(t))'
    BY <1>1, <1>3, <2>5, <2>8, <2>10 DEF Follows, SameData
  <2>12. m.gen # 0
    BY <2>4, LatestIsPositive DEF RecordOk
  <2>13. /\ mem'[t].skip = FALSE /\ mem'[t].row.ok = TRUE
         /\ mem'[t].row.taskSig = command[t] /\ Loaded(t)'
    BY <1>6, <2>5, <2>7, <2>8, <2>10, <2>12 DEF Loaded
  <2>14. /\ unch'[t] = IF Matches(Written(t), Row(t)) THEN "same" ELSE "changed"
         /\ \A f \in Files \ {t} : mem'[f] = mem[f] /\ unch'[f] = unch[f]
    BY <1>1, <2>3 DEF IInv, Shapes, OtherTypes
  <2> QED BY <2>11, <2>13, <2>14
<1>8. ASSUME NEW f \in Files \ {t} PROVE Record(f)' = Record(f) /\ Loaded(f)' = Loaded(f)
  BY <1>3, <1>7 DEF Record, Loaded
<1>9. ASSUME NEW f \in Files PROVE Follows(Record(f), Stored(f))' /\ Answer(f)' /\ InBuild(f)'
  <2>1. Follows(Record(f), Stored(f)) /\ Answer(f) /\ InBuild(f)
    BY DEF FreshInv
  <2>2. CASE f = t
    BY <1>2, <1>3, <1>7, <2>2 DEF Answer, Record, InBuild
  <2>3. CASE f # t
    BY <1>1, <1>2, <1>3, <1>7, <1>8, <2>1, <2>3 DEF Answer, InBuild, Follows, SameData, Exists, Matches
  <2> QED BY <2>2, <2>3
<1>10. ASSUME NEW x \in Targets PROVE TargetFile(x)'
  <2>1. TargetFile(x) /\ x \in Files
    BY <1>2 DEF FreshInv
  <2>2. CASE x = t
    BY <1>1, <1>2, <1>3, <1>4, <2>2 DEF TargetFile
  <2>3. CASE x # t
    BY <1>1, <1>2, <1>3, <2>1, <2>3 DEF TargetFile, Exists
  <2> QED BY <2>2, <2>3
<1>11. ASSUME NEW x \in Targets, t \notin deps[x] PROVE Output(x)' = Output(x)
  BY <1>1, <1>2, <1>11 DEF Output
<1>12. ASSUME NEW x \in Targets PROVE Asked(x)' /\ JobOk(x)'
  <2>1. Asked(x) /\ JobOk(x) /\ x \in Files
    BY <1>1, <1>2 DEF FreshInv
  <2>2. Asked(x)'
    <3>1. \A s \in Sources : unch'[s] = unch[s]
      BY <1>2, <1>7
    <3>2. job[x] = "todo" <=> job'[x] = "todo"
      BY <1>1, <1>2
    <3> QED BY <1>1, <1>3, <2>1, <3>1, <3>2 DEF Asked
  <2>3. job[x] # "todo" =>
          \A d \in deps'[x] : Loaded(d)' /\ (d \in Targets => job'[d] = "built")
    <3>1. \A d \in deps[x] : Loaded(d) => Loaded(d)'
      BY <1>2, <1>7, <1>8
    <3> QED BY <1>1, <1>2, <2>1, <3>1 DEF JobOk
  <2>4. CASE x = t
    <3>1. BuiltOk(t)'
      BY <1>1, <1>2, <1>3, <1>4, <1>6, <1>7, <1>11 DEF BuiltOk, Exists
    <3> QED BY <1>1, <1>2, <1>7, <2>2, <2>3, <2>4, <3>1 DEF JobOk
  <2>5. CASE x # t
    <3>1. job[x] = "built" => t \notin deps[x]
      BY <1>1, <2>1 DEF JobOk
    <3>2. job[x] = "built" => BuiltOk(x)'
      BY <1>2, <1>3, <1>7, <1>11, <2>1, <2>5, <3>1 DEF JobOk, BuiltOk, Exists
    <3> QED BY <1>1, <1>2, <1>3, <1>7, <1>8, <2>1, <2>2, <2>3, <2>5, <3>2 DEF JobOk
  <2> QED BY <2>4, <2>5
<1>13. reported' = {}
  BY <1>1 DEF FreshInv, SettledTarget
<1> QED BY <1>3, <1>5, <1>9, <1>10, <1>12, <1>13 DEF FreshInv

-------------------------------------------------------------------------------
(* Whole builds: what the end of a run writes. *)

LEMMA RowAtExitIs ==
  ASSUME NEW f, NEW m, IsRow(m.row), NEW r, r = RowAtExit(f, m)
  PROVE  /\ IsRow(r) /\ r.existed = (IF Exists(f) THEN "yes" ELSE "no") /\ r.ts = disk[f].ts
         /\ r.sig = (IF unch[f] = "changed" THEN disk[f].content ELSE m.row.sig)
         /\ r.taskSig = m.row.taskSig /\ r.ok = m.row.ok
<1>1. PICK q : q = m.row /\ IsRow(q)
  OBVIOUS
<1>2. r = [q EXCEPT !.existed = IF Exists(f) THEN "yes" ELSE "no",
                    !.ts = disk[f].ts,
                    !.sig = IF unch[f] = "changed" THEN disk[f].content ELSE q.sig]
  BY <1>1 DEF RowAtExit
<1>3. r = [existed |-> IF Exists(f) THEN "yes" ELSE "no", ts |-> disk[f].ts,
           sig |-> IF unch[f] = "changed" THEN disk[f].content ELSE q.sig,
           taskSig |-> q.taskSig, ok |-> q.ok]
  BY <1>1, <1>2 DEF IsRow
<1> QED BY <1>1, <1>3 DEF IsRow

\* The last row of a file after a clean that keeps the last generation.
LEMMA LastRowKept ==
  ASSUME NEW f, NEW gens \in SUBSET Nat, NEW g \in gens, \A y \in gens : g >= y, NEW V
  PROVE  g \in Kept(f, gens, V) /\ Max(Kept(f, gens, V)) = g
<1>1. Max(gens) = g
  BY MaxIs
<1>2. Kept(f, gens, V) \subseteq gens /\ g \in Kept(f, gens, V)
  BY <1>1 DEF Kept
<1>3. Max(Kept(f, gens, V)) = g
  BY <1>2, MaxIs
<1> QED BY <1>2, <1>3

\* All targets have been built and loaded, and so has all they depend on.
LEMMA AllBuilt ==
  ASSUME IInv, FreshInv, EndRun
  PROVE  /\ phase = "running" /\ \A t \in Targets : job[t] = "built"
         /\ \A t \in Targets : t \in Files /\ Loaded(t) /\ BuiltOk(t) /\ JobOk(t) /\ Asked(t)
         /\ \A t \in Targets : \A d \in deps[t] : d \in Files /\ Loaded(d)
<1>1. phase = "running"
  BY DEF EndRun, FreshInv, RunsAreWhole
<1>2. \A t \in Targets : job[t] = "built"
  BY <1>1 DEF EndRun, FreshInv, RunsAreWhole
<1>3. \A t \in Targets : t \in Files /\ deps[t] \subseteq Files
  BY FilesOfGraphs DEF Files, IInv, OtherTypes
<1>4. \A t \in Targets : Loaded(t) /\ BuiltOk(t) /\ JobOk(t) /\ Asked(t)
  BY <1>1, <1>2 DEF IInv, DecidedAreLoaded, FreshInv, JobOk
<1>5. \A t \in Targets : \A d \in deps[t] : Loaded(d)
  BY <1>2, <1>4 DEF JobOk
<1> QED BY <1>1, <1>2, <1>3, <1>4, <1>5

\* A source that had a row was compared with it in this run.
LEMMA SourcesAreCompared ==
  ASSUME WholeBuilds, IInv, FreshInv, EndRun, NEW s \in Sources, Loaded(s), Known(s)
  PROVE  unch[s] # "unknown"
<1>1. /\ Compared(world, s) /\ deps \in Graphs /\ s \in Files
      /\ \A t \in Targets : job[t] = "built" /\ Asked(t)
      /\ SourceRow(s)
  BY AllBuilt DEF WholeBuilds, IInv, OtherTypes, FreshInv, Files
<1>2. PICK t \in Targets : s \in deps[t]
  BY <1>1, InputAssumption DEF FreshInv, InBuild
<1>3. CASE s \in world.scanned
  BY <1>1, <1>2, <1>3 DEF Asked
<1>4. CASE \E x \in Holders(s) : s \in deps[x]
  <2>1. PICK x \in Targets : x \in Holders(s) /\ s \in deps[x]
    BY <1>4 DEF Holders
  <2>2. s \in DepsOf(x)
    BY <1>1, <2>1 DEF SourceRow
  <2> QED BY <1>1, <2>1, <2>2 DEF Asked
<1>5. CASE "script" \notin world.edits
  BY <1>2, <1>4, <1>5 DEF Holders
<1>6. CASE \E x \in Targets : \A G \in Graphs : s \in G[x]
  BY <1>1, <1>4, <1>6 DEF Holders
<1> QED BY <1>1, <1>3, <1>5, <1>6 DEF Compared

\* The tables after a whole build.
LEMMA EndedTables ==
  ASSUME IInv, FreshInv, EndRun
  PROVE  /\ \A f \in Files : Loaded(f) =>
              /\ Known(f)' /\ Stored(f)'.gen = mem[f].gen
              /\ Row(f)' = IF mem[f].skip THEN Row(f) ELSE RowAtExit(f, mem[f])
         /\ \A f \in Files : ~Loaded(f) => Known(f)' = Known(f) /\ Row(f)' = Row(f)
         /\ \A t \in Targets :
              DepsOf(t)' = deps[t] /\ \A d \in deps[t] : RecordedGens(t, d)' = {mem[d].gen}
<1>1. /\ \A t \in Targets : t \in Files /\ Loaded(t)
      /\ \A t \in Targets : \A d \in deps[t] : d \in Files /\ Loaded(d)
  BY AllBuilt
<1>2. PICK V \in Visited :
        LET touched == V \cup UNION { deps[t] : t \in V \cap Targets } IN
        /\ depTable' = DependenciesAtExit(V)
        /\ rows' = [f \in Files |->
             IF f \notin touched
             THEN [g \in Kept(f, DOMAIN rows[f], V) |-> rows[f][g]]
             ELSE LET m == Record(f) IN
               [g \in Kept(f, DOMAIN rows[f] \cup {m.gen}, V) |->
                  IF g = m.gen /\ ~m.skip THEN RowAtExit(f, m) ELSE rows[f][g]]]
  BY DEF EndRun, Flush
<1>3. V = { f \in Files : Loaded(f) }
  <2>1. { f \in Files : Loaded(f) } \subseteq V /\ V \subseteq Files
    BY DEF Visited
  <2>2. \A f \in V : Loaded(f)
    BY <1>1 DEF Visited
  <2> QED BY <2>1, <2>2
<1>4. V \cup UNION { deps[t] : t \in V \cap Targets } = V
  BY <1>1, <1>3
<1>5. \A f \in Files :
        rows'[f] = IF f \notin V
                   THEN [g \in Kept(f, DOMAIN rows[f], V) |-> rows[f][g]]
                   ELSE [g \in Kept(f, DOMAIN rows[f] \cup {mem[f].gen}, V) |->
                           IF g = mem[f].gen /\ ~mem[f].skip THEN RowAtExit(f, mem[f]) ELSE rows[f][g]]
  BY <1>2, <1>3, <1>4 DEF Record
<1>6. ASSUME NEW f \in Files, Loaded(f)
      PROVE  /\ Known(f)' /\ Stored(f)'.gen = mem[f].gen
             /\ Row(f)' = IF mem[f].skip THEN Row(f) ELSE RowAtExit(f, mem[f])
  <2>1. PICK gens, g :
          /\ gens = DOMAIN rows[f] \cup {mem[f].gen} /\ g = mem[f].gen /\ g \in gens
    OBVIOUS
  <2>2. Follows(mem[f], Stored(f))
    BY <1>6 DEF FreshInv, Record
  <2>3. /\ Stored(f).gen \in Nat \ {0}
        /\ \A y \in DOMAIN rows[f] : y \in Nat /\ Stored(f).gen >= y
        /\ Known(f) => Stored(f).gen \in DOMAIN rows[f] /\ Row(f) = rows[f][Stored(f).gen]
        /\ ~Known(f) => Stored(f).skip = FALSE
    BY StoredFacts
  <2>4. g \in Nat /\ (g = Stored(f).gen \/ g = Stored(f).gen + 1)
    BY <2>1, <2>2, <2>3 DEF Follows
  <2>5. gens \subseteq Nat /\ \A y \in gens : g >= y
    BY <2>1, <2>3, <2>4
  <2>6. g \in Kept(f, gens, V) /\ Max(Kept(f, gens, V)) = g
    BY <2>1, <2>5, LastRowKept
  <2>7. rows'[f] = [y \in Kept(f, gens, V) |->
                      IF y = g /\ ~mem[f].skip THEN RowAtExit(f, mem[f]) ELSE rows[f][y]]
    BY <1>3, <1>5, <1>6, <2>1
  <2>8. DOMAIN rows'[f] = Kept(f, gens, V) /\ DOMAIN rows'[f] # {}
    BY <2>6, <2>7
  <2>9. rows'[f][g] = IF ~mem[f].skip THEN RowAtExit(f, mem[f]) ELSE rows[f][g]
    BY <2>6, <2>7
  <2>10. Stored(f)'.gen = g /\ Stored(f)'.row = rows'[f][g]
    BY <2>6, <2>8 DEF Stored
  <2>11. mem[f].skip => Row(f) = rows[f][g]
    BY <2>1, <2>2, <2>3 DEF Follows
  <2> QED BY <2>1, <2>8, <2>9, <2>10, <2>11 DEF Known, Row
<1>7. ASSUME NEW f \in Files, ~Loaded(f) PROVE Known(f)' = Known(f) /\ Row(f)' = Row(f)
  <2>1. rows'[f] = [g \in Kept(f, DOMAIN rows[f], V) |-> rows[f][g]]
    BY <1>3, <1>5, <1>7
  <2>2. DOMAIN rows'[f] = Kept(f, DOMAIN rows[f], V)
    BY <2>1
  <2>3. CASE Known(f)
    <3>1. PICK g \in DOMAIN rows[f] : g = Stored(f).gen
      BY <2>3, StoredFacts
    <3>2. DOMAIN rows[f] \in SUBSET Nat /\ (\A y \in DOMAIN rows[f] : g >= y) /\ Row(f) = rows[f][g]
      BY <2>3, <3>1, StoredFacts
    <3>3. g \in DOMAIN rows'[f] /\ Max(DOMAIN rows'[f]) = g
      BY <2>2, <3>2, LastRowKept
    <3>4. rows'[f][g] = rows[f][g]
      BY <2>1, <2>2, <3>3
    <3>5. DOMAIN rows'[f] # {}
      BY <3>3
    <3>6. Stored(f)'.row = rows'[f][g]
      BY <3>3, <3>5 DEF Stored
    <3> QED BY <2>3, <3>2, <3>4, <3>5, <3>6 DEF Row, Known
  <2>4. CASE ~Known(f)
    <3>1. DOMAIN rows'[f] = {}
      BY <2>2, <2>4 DEF Known, Kept
    <3>2. Stored(f)' = Stored(f)
      BY <2>4, <3>1 DEF Stored, Known
    <3> QED BY <2>4, <3>1, <3>2 DEF Known, Row
  <2> QED BY <2>3, <2>4
<1>8. ASSUME NEW t \in Targets
      PROVE  DepsOf(t)' = deps[t] /\ \A d \in deps[t] : RecordedGens(t, d)' = {mem[d].gen}
  <2>1. \A d \in deps[t] : Record(d) = mem[d]
    BY <1>1 DEF Record
  <2>2. depTable'[t] = { <<d, mem[d].gen>> : d \in deps[t] }
    BY <1>1, <1>2, <1>3, <2>1 DEF DependenciesAtExit
  <2>3. PICK G : G = [d \in deps[t] |-> mem[d].gen]
    OBVIOUS
  <2>4. /\ \A d \in deps[t] : <<d, G[d]>> \in depTable'[t]
        /\ \A id \in depTable'[t] : \E d \in deps[t] : id = <<d, G[d]>>
    BY <2>2, <2>3
  <2>5. /\ \A id \in depTable'[t] : id[1] \in deps[t] /\ id[2] = G[id[1]]
        /\ \A d \in deps[t] : \E id \in depTable'[t] : id[1] = d /\ id[2] = G[d]
    <3>1. \A id \in depTable'[t] : id[1] \in deps[t] /\ id[2] = G[id[1]]
      BY <2>4
    <3>2. ASSUME NEW d \in deps[t] PROVE \E id \in depTable'[t] : id[1] = d /\ id[2] = G[d]
      <4>1. PICK id : id = <<d, G[d]>>
        OBVIOUS
      <4>2. id \in depTable'[t]
        BY <2>4, <4>1
      <4> QED BY <4>1, <4>2
    <3> QED BY <3>1, <3>2
  <2>6. DepsOf(t)' = deps[t]
    BY <2>5 DEF DepsOf
  <2>7. ASSUME NEW d \in deps[t] PROVE RecordedGens(t, d)' = {G[d]}
    BY <2>5 DEF RecordedGens
  <2> QED BY <2>3, <2>6, <2>7
<1> QED BY <1>6, <1>7, <1>8

\* A target after a whole build: its row says what is there, and how it was made.
LEMMA EndedTarget ==
  ASSUME IInv, FreshInv, EndRun, NEW t \in Targets
  PROVE  /\ Row(t)'.existed = "yes" /\ Row(t)'.ok /\ Row(t)'.taskSig = command[t]
         /\ Row(t)'.ts = disk[t].ts /\ Row(t)'.sig = Output(t) /\ IsRow(Row(t)')
<1>1. t \in Files /\ Loaded(t) /\ BuiltOk(t) /\ JobOk(t) /\ job[t] = "built"
  BY AllBuilt
<1>2. /\ Follows(mem[t], Stored(t)) /\ Answer(t) /\ TargetFile(t) /\ TargetRow(t)
  BY <1>1 DEF FreshInv, Record
<1>3. Row(t)' = IF mem[t].skip THEN Row(t) ELSE RowAtExit(t, mem[t])
  BY <1>1, EndedTables
<1>4. /\ SameData(mem[t].row, Row(t)) /\ mem[t].row.ok /\ mem[t].row.taskSig = command[t]
      /\ Exists(t) /\ disk[t].content = Output(t) /\ mem[t].skip \in BOOLEAN
  BY <1>1, <1>2, StoredFacts DEF Follows, Row, BuiltOk, JobOk
<1>5. unch[t] = "unknown" => Known(t) /\ disk[t].ts = Row(t).ts
  BY <1>1 DEF BuiltOk
<1>6. CASE mem[t].skip
  <2>1. Known(t)
    BY <1>1, <1>2, <1>6, StoredFacts DEF Follows
  <2>2. disk[t].ts = Row(t).ts
    BY <1>2, <1>4, <1>5, <1>6 DEF Answer
  <2>3. mem[t].row = Row(t)
    BY <1>1, <1>6 DEF BuiltOk
  <2> QED BY <1>2, <1>3, <1>4, <1>6, <2>1, <2>2, <2>3 DEF TargetFile, TargetRow, SameData
<1>7. CASE ~mem[t].skip
  <2>0. PICK m : m = mem[t]
    OBVIOUS
  <2>1. PICK r : r = RowAtExit(t, m) /\ r = Row(t)'
    BY <1>3, <1>7, <2>0
  <2>2. /\ IsRow(r) /\ r.existed = "yes" /\ r.ts = disk[t].ts
        /\ r.sig = (IF unch[t] = "changed" THEN disk[t].content ELSE mem[t].row.sig)
        /\ r.taskSig = mem[t].row.taskSig /\ r.ok = mem[t].row.ok
    <3>1. IsRow(m.row)
      BY <1>4, <2>0 DEF SameData
    <3>2. r = RowAtExit(t, m)
      BY <2>1
    <3>3. /\ IsRow(r) /\ r.existed = (IF Exists(t) THEN "yes" ELSE "no") /\ r.ts = disk[t].ts
          /\ r.sig = (IF unch[t] = "changed" THEN disk[t].content ELSE m.row.sig)
          /\ r.taskSig = m.row.taskSig /\ r.ok = m.row.ok
      BY <3>1, <3>2, RowAtExitIs
    <3> QED BY <1>4, <2>0, <3>3
  <2>3. unch[t] # "changed" => Row(t).sig = disk[t].content
    <3>1. CASE unch[t] = "unknown"
      BY <1>2, <1>4, <1>5, <3>1 DEF TargetFile
    <3>2. CASE unch[t] # "unknown" /\ unch[t] # "changed"
      <4>1. Matches(disk[t], Row(t)) /\ disk[t].ts # 0
        BY <1>2, <1>4, <3>2 DEF Answer, Exists
      <4>2. Row(t).existed = "yes" /\ (disk[t].ts = Row(t).ts \/ disk[t].content = Row(t).sig)
        BY <4>1 DEF Matches
      <4>3. Known(t)
        <5>1. NullRow.existed # "yes"
          BY DEF NullRow
        <5> QED BY <1>1, <4>2, <5>1, StoredFacts
      <4> QED BY <1>2, <1>4, <4>2, <4>3 DEF TargetFile
    <3> QED BY <3>1, <3>2
  <2> QED BY <1>4, <2>1, <2>2, <2>3 DEF SameData
<1> QED BY <1>4, <1>6, <1>7

\* A source after a whole build that depends on it.
LEMMA EndedSource ==
  ASSUME WholeBuilds, IInv, FreshInv, EndRun, NEW s \in Sources, Loaded(s)
  PROVE  /\ Row(s)'.existed = "yes" /\ Row(s)'.ts = disk[s].ts
         /\ Row(s)'.sig \in {Null, disk[s].content} /\ IsRow(Row(s)')
<1>1. /\ s \in Files /\ Follows(mem[s], Stored(s)) /\ Answer(s) /\ SourceRow(s)
      /\ disk[s].ts # 0 /\ Exists(s)
  BY DEF FreshInv, Files, Record, Times, Exists
<1>2. Row(s)' = IF mem[s].skip THEN Row(s) ELSE RowAtExit(s, mem[s])
  BY <1>1, EndedTables
<1>3. SameData(mem[s].row, Row(s)) /\ mem[s].skip \in BOOLEAN
  BY <1>1, StoredFacts DEF Follows, Row
<1>4. Known(s) => unch[s] # "unknown"
  BY SourcesAreCompared
<1>5. CASE mem[s].skip
  <2>1. Known(s)
    BY <1>1, <1>5, StoredFacts DEF Follows
  <2>2. disk[s].ts = Row(s).ts
    BY <1>1, <1>4, <1>5, <2>1 DEF Answer
  <2> QED BY <1>1, <1>2, <1>3, <1>5, <2>1, <2>2 DEF SourceRow, SameData
<1>6. CASE ~mem[s].skip
  <2>0. PICK m : m = mem[s]
    OBVIOUS
  <2>1. PICK r : r = RowAtExit(s, m) /\ r = Row(s)'
    BY <1>2, <1>6, <2>0
  <2>2. /\ IsRow(r) /\ r.existed = "yes" /\ r.ts = disk[s].ts
        /\ r.sig = (IF unch[s] = "changed" THEN disk[s].content ELSE mem[s].row.sig)
    <3>1. IsRow(m.row)
      BY <1>3, <2>0 DEF SameData
    <3>2. r = RowAtExit(s, m)
      BY <2>1
    <3>3. /\ IsRow(r) /\ r.existed = (IF Exists(s) THEN "yes" ELSE "no") /\ r.ts = disk[s].ts
          /\ r.sig = (IF unch[s] = "changed" THEN disk[s].content ELSE m.row.sig)
      BY <3>1, <3>2, RowAtExitIs
    <3> QED BY <1>1, <2>0, <3>3
  <2>3. unch[s] # "changed" => Row(s).sig \in {Null, disk[s].content}
    <3>1. CASE unch[s] = "unknown"
      <4>1. NullRow.sig = Null
        BY DEF NullRow
      <4> QED BY <1>1, <1>4, <3>1, <4>1, StoredFacts
    <3>2. CASE unch[s] # "unknown" /\ unch[s] # "changed"
      <4>1. Matches(disk[s], Row(s))
        BY <1>1, <3>2 DEF Answer
      <4>2. Row(s).existed = "yes" /\ (disk[s].ts = Row(s).ts \/ disk[s].content = Row(s).sig)
        BY <1>1, <4>1 DEF Matches
      <4>3. Known(s)
        <5>1. NullRow.existed # "yes"
          BY DEF NullRow
        <5> QED BY <1>1, <4>2, <5>1, StoredFacts
      <4> QED BY <1>1, <4>2, <4>3 DEF SourceRow
    <3> QED BY <3>1, <3>2
  <2> QED BY <1>3, <2>1, <2>2, <2>3 DEF SameData
<1> QED BY <1>3, <1>5, <1>6

LEMMA EndRunKeepsFresh ==
  ASSUME WholeBuilds, IInv, IInv', FreshInv, EndRun, world' = world
  PROVE  FreshInv'
<1>1. /\ UNCHANGED <<clock, disk, command, deps, job>> /\ phase' = "idle"
      /\ mem' = [f \in Files |-> NotLoaded] /\ unch' = [f \in Files |-> "unknown"]
  BY DEF EndRun, ForgetRun, fileVars
<1>2. /\ phase = "running" /\ \A t \in Targets : job[t] = "built"
      /\ \A t \in Targets : t \in Files /\ Loaded(t) /\ BuiltOk(t)
      /\ \A t \in Targets : \A d \in deps[t] : d \in Files /\ Loaded(d)
      /\ Files = Sources \cup Targets /\ Sources \cap Targets = {} /\ deps \in Graphs
  BY AllBuilt, InputAssumption DEF Files, IInv, OtherTypes
<1>3. /\ \A f \in Files : Loaded(f) => Known(f)' /\ Stored(f)'.gen = mem[f].gen
      /\ \A f \in Files : ~Loaded(f) => Known(f)' = Known(f) /\ Row(f)' = Row(f)
      /\ \A t \in Targets :
           DepsOf(t)' = deps[t] /\ \A d \in deps[t] : RecordedGens(t, d)' = {mem[d].gen}
  BY EndedTables
<1>4. /\ \A t \in Targets :
           /\ Row(t)'.existed = "yes" /\ Row(t)'.ok /\ Row(t)'.taskSig = command[t]
           /\ Row(t)'.ts = disk[t].ts /\ Row(t)'.sig = Output(t) /\ IsRow(Row(t)')
           /\ Exists(t) /\ disk[t].content = Output(t)
      /\ \A s \in Sources : Loaded(s) =>
           /\ Row(s)'.existed = "yes" /\ Row(s)'.ts = disk[s].ts
           /\ Row(s)'.sig \in {Null, disk[s].content} /\ IsRow(Row(s)')
  BY <1>2, EndedTarget, EndedSource DEF BuiltOk
<1>5. ASSUME NEW f \in Files PROVE IsRow(Row(f)') /\ Row(f)'.ts \in 0 .. clock
  <2>1. Follows(Record(f), Stored(f)) /\ disk[f].ts \in 0 .. clock /\ Row(f).ts \in 0 .. Latest
    BY DEF FreshInv, Times
  <2>2. 0 .. Latest \subseteq 0 .. clock
    <3>1. Latest = clock - 1 /\ clock \in Nat /\ Latest \in Nat
      BY <1>2, LatestIsPositive DEF Latest
    <3> QED BY <3>1
  <2>3. IsRow(Row(f))
    BY <2>1 DEF Follows, SameData, Row
  <2>4. f \in Targets \/ Loaded(f) => Row(f)'.ts = disk[f].ts
    BY <1>2, <1>4
  <2> QED BY <1>2, <1>3, <1>4, <2>1, <2>2, <2>3, <2>4
<1>6. RunsAreWhole' /\ Times'
  <2>1. Latest' = clock
    BY <1>1 DEF Latest
  <2> QED BY <1>1, <1>5, <2>1 DEF RunsAreWhole, FreshInv, Times
<1>7. ASSUME NEW s \in Sources PROVE SourceRow(s)'
  <2>1. SourceRow(s) /\ s \in Files
    BY <1>2 DEF FreshInv
  <2>2. \A t \in Holders(s)' : t \in Targets /\ s \in DepsOf(t)'
    BY <1>1, <1>2, <1>3 DEF Holders
  <2>3. CASE Loaded(s)
    BY <1>1, <1>3, <1>4, <2>1, <2>2, <2>3 DEF SourceRow
  <2>4. CASE ~Loaded(s)
    BY <1>1, <1>3, <2>1, <2>2, <2>4 DEF SourceRow
  <2> QED BY <2>3, <2>4
<1>8. ASSUME NEW t \in Targets PROVE TargetRow(t)'
  <2>1. \A d \in DepsOf(t)' : RecordedGens(t, d)' = {Stored(d)'.gen}
    BY <1>2, <1>3
  <2>2. /\ Row(t)'.sig = [cmd |-> command[t], from |-> [d \in deps[t] |-> disk[d].content]]
        /\ DepsOf(t)' = deps[t]
    BY <1>3, <1>4 DEF Output
  <2>3. From(t)' = [d \in deps[t] |-> disk[d].content]
    BY <2>2 DEF From
  <2>4. Row(t)'.sig = [cmd |-> Row(t)'.taskSig, from |-> [d \in DepsOf(t)' |-> From(t)'[d]]]
    <3>1. PICK F : F = [d \in deps[t] |-> disk[d].content]
      OBVIOUS
    <3>2. F = [d \in deps[t] |-> F[d]]
      BY <3>1
    <3>3. Row(t)'.taskSig = command[t]
      BY <1>4
    <3> QED BY <2>2, <2>3, <3>1, <3>2, <3>3
  <2>5. ASSUME NEW d \in deps[t] PROVE SameSince(t, d)'
    <3>1. From(t)'[d] = disk[d].content /\ d \in Files /\ Loaded(d)
      BY <1>2, <2>3
    <3>2. CASE d \in Targets
      BY <1>2, <1>4, <3>1, <3>2 DEF SameSince
    <3>3. CASE d \in Sources
      BY <1>1, <1>2, <1>4, <3>1, <3>3 DEF SameSince
    <3> QED BY <1>2, <3>1, <3>2, <3>3
  <2> QED BY <1>4, <2>1, <2>2, <2>4, <2>5 DEF TargetRow
<1>9. \A t \in Targets : TargetFile(t)'
  BY <1>1, <1>4 DEF TargetFile
<1>10. ASSUME NEW f \in Files PROVE Follows(Record(f), Stored(f))' /\ Answer(f)' /\ InBuild(f)'
  <2>1. mem'[f] = NotLoaded /\ unch'[f] = "unknown"
    BY <1>1
  <2>2. ~Loaded(f)' /\ Record(f)' = Stored(f)'
    BY <2>1 DEF Loaded, NotLoaded, Record
  <2> QED BY <1>5, <2>1, <2>2 DEF Follows, SameData, Row, Answer, InBuild
<1>11. ASSUME NEW t \in Targets PROVE SettledTarget(t)'
  <2>1. Output(t)' = Output(t) /\ Exists(t)' = Exists(t)
    BY <1>1 DEF Output, Exists
  <2>2. ASSUME NEW d \in deps[t] PROVE Matches(disk[d], Row(d)')
    <3>1. d \in Files /\ Loaded(d) /\ disk[d].ts # 0
      BY <1>2, <1>4 DEF FreshInv, Times, Exists
    <3> QED BY <1>2, <1>4, <3>1 DEF Matches
  <2> QED BY <1>1, <1>2, <1>3, <1>4, <2>1, <2>2 DEF SettledTarget
<1> QED BY <1>1, <1>6, <1>7, <1>8, <1>9, <1>10, <1>11 DEF FreshInv

LEMMA StutterKeepsFresh ==
  ASSUME FreshInv, UNCHANGED vars PROVE FreshInv'
<1>1. /\ UNCHANGED <<world, clock, disk, command, deps, rows, stray, depTable>>
      /\ UNCHANGED <<phase, job, mem, unch, reported>>
  BY DEF vars, fileVars, dbVars, runVars, ghostVars
<1>2. \A f \in Files : Stored(f)' = Stored(f) /\ Record(f)' = Record(f) /\ Loaded(f)' = Loaded(f)
  BY <1>1 DEF Stored, Record, Loaded
<1>3. \A f : Row(f)' = Row(f) /\ Known(f)' = Known(f) /\ Exists(f)' = Exists(f) /\ Stored(f)' = Stored(f)
  BY <1>1 DEF Row, Known, Exists, Stored
<1>4. \A t : /\ DepsOf(t)' = DepsOf(t) /\ From(t)' = From(t) /\ Output(t)' = Output(t)
             /\ Holders(t)' = Holders(t) /\ \A d : RecordedGens(t, d)' = RecordedGens(t, d)
  BY <1>1, <1>3 DEF DepsOf, From, Output, Holders, RecordedGens
<1>5. RunsAreWhole' /\ Times'
  BY <1>1, <1>3 DEF FreshInv, RunsAreWhole, Times, Latest
<1>6. \A s \in Sources : SourceRow(s)'
  BY <1>1, <1>3, <1>4 DEF FreshInv, SourceRow
<1>7. \A t \in Targets : TargetRow(t)'
  BY <1>1, <1>3, <1>4 DEF FreshInv, TargetRow, SameSince
<1>8. \A t \in Targets : TargetFile(t)'
  BY <1>1, <1>3 DEF FreshInv, TargetFile
<1>9. \A f \in Files : Follows(Record(f), Stored(f))'
  BY <1>1, <1>2 DEF FreshInv, Follows, SameData, IsRow
<1>10. \A f \in Files : Answer(f)' /\ InBuild(f)'
  <2>1. \A f \in Files : Matches(disk[f], Row(f))' = Matches(disk[f], Row(f))
    BY <1>1, <1>3 DEF Matches
  <2> QED BY <1>1, <1>2, <1>3, <2>1 DEF FreshInv, Answer, InBuild
<1>11. phase' = "running" => \A t \in Targets : Asked(t)'
  BY <1>1, <1>4 DEF FreshInv, Asked
<1>12. phase' = "running" => \A t \in Targets : JobOk(t)'
  <2>1. \A t \in Targets : BuiltOk(t)' = BuiltOk(t) /\ Record(t)' = Record(t)
    BY <1>1, <1>2, <1>3, <1>4 DEF BuiltOk, Record, Loaded
  <2>2. \A d : Loaded(d)' = Loaded(d)
    BY <1>1 DEF Loaded
  <2> QED BY <1>1, <1>3, <2>1, <2>2 DEF FreshInv, JobOk
<1>13. reported' # {} => \A t \in Targets : SettledTarget(t)'
  <2>1. \A f : Matches(disk[f], Row(f))' = Matches(disk[f], Row(f))
    BY <1>1, <1>3 DEF Matches
  <2> QED BY <1>1, <1>3, <1>4, <2>1 DEF FreshInv, SettledTarget
<1> QED BY <1>5, <1>6, <1>7, <1>8, <1>9, <1>10, <1>11, <1>12, <1>13 DEF FreshInv

LEMMA NextKeepsFresh ==
  ASSUME WholeBuilds, IInv, IInv', FreshInv, [Next]_vars
  PROVE  FreshInv'
<1>1. CASE EndRun /\ world' = world
  BY <1>1, EndRunKeepsFresh
<1>2. ASSUME NEW t \in Targets, Decide(t), world' = world PROVE FreshInv'
  BY <1>2, DecideKeepsFresh
<1>3. ASSUME NEW t \in Targets, Command(t), world' = world PROVE FreshInv'
  <2>1. ~Fail(t) /\ ~Drop(t) /\ ~Throw(t)
    BY DEF Fail, Drop, Throw, WholeBuilds, FreshInv, RunsAreWhole, IInv, OtherTypes
  <2> QED BY <1>3, <2>1, SucceedKeepsFresh DEF Command
<1>4. ~Crash
  BY DEF Crash, WholeBuilds, IInv, OtherTypes
<1>5. CASE StartRun /\ world' = world
  BY <1>5, StartRunKeepsFresh
<1>6. CASE EditScript /\ world' = world
  BY <1>6, EditScriptKeepsFresh
<1>7. ASSUME NEW s \in Sources, EditSource(s), world' = world PROVE FreshInv'
  BY <1>7, EditSourceKeepsFresh
<1>8. ASSUME NEW t \in Targets, DeleteTarget(t), world' = world PROVE FreshInv'
  BY <1>8, DeleteTargetKeepsFresh
<1>9. CASE UNCHANGED vars
  BY <1>9, StutterKeepsFresh
<1> QED BY <1>1, <1>2, <1>3, <1>4, <1>5, <1>6, <1>7, <1>8, <1>9 DEF Next, Run, User, Over

\* A whole build passes over no target that is not what its command would make of
\* the files as they are (Task::database_decider, task.cpp:52-110, with the rows
\* that ~PersistentNodeData wrote, db.cpp:247-270), as long as every source is
\* compared with its row in the runs that depend on it.
THEOREM WholeBuildsAreFresh ==
  ASSUME WholeBuilds
  PROVE  Spec => []Fresh
<1>1. Init => FreshInv
  BY InitIsFresh
<1>2. IInv /\ IInv' /\ FreshInv /\ [Next]_vars => FreshInv'
  BY NextKeepsFresh
<1>3. IInv /\ FreshInv => Fresh
  BY DEF FreshInv, SettledTarget, Fresh, IInv, OtherTypes
<1> QED BY <1>1, <1>2, <1>3, InvariantHolds, PTL DEF Spec

\* A second whole build with nothing edited in between executes nothing: what one
\* run records satisfies the decider of the next.
THEOREM WholeBuildsSettle ==
  ASSUME WholeBuilds
  PROVE  Spec => NothingToDoTwice
<1>1. Init => FreshInv
  BY InitIsFresh
<1>2. IInv /\ IInv' /\ FreshInv /\ [Next]_vars => FreshInv'
  BY NextKeepsFresh
<1>3. IInv /\ FreshInv /\ [Next]_vars =>
        [\A t \in reported : job'[t] = "running" => job[t] = "running"]_vars
  <2> SUFFICES ASSUME IInv, FreshInv, Next, NEW t \in reported, job'[t] = "running"
               PROVE  job[t] = "running"
    OBVIOUS
  <2>1. t \in Targets
    BY DEF IInv, OtherTypes
  <2>2. ASSUME NEW x \in Targets, Decide(x) PROVE job[t] = "running"
    <3>1. ~Outdated(x)
      BY <2>2, SettledIsPassedOver DEF Decide
    <3>2. job' = [job EXCEPT ![x] = "built"]
      BY <2>2, <3>1 DEF Decide
    <3> QED BY <2>1, <3>2 DEF IInv, OtherTypes
  <2>3. ASSUME NEW x \in Targets, Command(x) PROVE job[t] = "running"
    BY <2>1, <2>3 DEF Command, Succeed, Fail, Throw, Drop, IInv, OtherTypes
  <2>4. CASE StartRun
    BY <2>1, <2>4 DEF StartRun
  <2>5. CASE Crash
    BY <2>1, <2>5 DEF Crash
  <2>6. CASE EndRun \/ Over \/ EditScript \/ (\E s \in Sources : EditSource(s))
             \/ (\E x \in Targets : DeleteTarget(x))
    BY <2>6 DEF EndRun, Over, EditScript, EditSource, DeleteTarget, vars, runVars
  <2> QED BY <2>2, <2>3, <2>4, <2>5, <2>6 DEF Next, Run, User
<1> QED BY <1>1, <1>2, <1>3, InvariantHolds, PTL DEF Spec, NothingToDoTwice
=============================================================================
