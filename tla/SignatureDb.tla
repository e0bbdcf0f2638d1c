----------------------------- MODULE SignatureDb -----------------------------
(* The signature database over many runs of scons++.  Files and the build     *)
(* script are edited between runs; a run decides target by target whether to  *)
(* execute its command (Task::database_decider over PersistentNodeData and    *)
(* FSEntry::unchanged), and ~PersistentData writes what the next run reads.   *)
(* All SQL of a run is one transaction, so what a run inserts is kept in      *)
(* memory here until EndRun.  A row's id is its file and generation.  One     *)
(* action is what the main thread does for one target, or the end of one      *)
(* command; a failure ends the run, as without -k.  An operator named Bug...  *)
(* is a faulty variant of the definition below it.                            *)
EXTENDS Naturals, FiniteSets, FiniteSetsExt

CONSTANTS
  Sources, Targets,
  Graphs,      \* out-edges of the targets: what the build script may say
  GoalSets,    \* sets of targets that may be asked for
  Commands,    \* what a command line may be
  Precious,    \* targets kept when their command fails
  Worlds,      \* what may happen, a record each of
               \*   edits: what users do: "touch", "new", "restore", "delete", "script",
               \*   scanned: files scan_cpp reads while the build order is made,
               \*   mayThrow: whether an action may throw: no such program, fork fails,
               \*   mayCrash: whether the process may be killed
  MayFail, MayEditDuringRun,
  MaxClock,    \* bounds the edits and runs
  Null

Files == Sources \cup Targets

Acyclic(G) ==
  \E rank \in [Targets -> 1 .. Cardinality(Targets)] :
    \A t \in Targets : \A d \in G[t] \cap Targets : rank[d] < rank[t]

ASSUME InputAssumption ==
  /\ Sources \cap Targets = {}
  /\ Graphs \subseteq [Targets -> SUBSET Files] /\ \A G \in Graphs : Acyclic(G)
  /\ GoalSets \subseteq SUBSET Targets
  /\ Precious \subseteq Targets
  /\ Worlds \subseteq [edits : SUBSET {"touch", "new", "restore", "delete", "script"},
                       scanned : SUBSET Files, mayThrow : BOOLEAN, mayCrash : BOOLEAN]
  /\ {MayFail, MayEditDuringRun} \subseteq BOOLEAN
  /\ MaxClock \in Nat \ {0} /\ Null \notin 1 .. MaxClock

VARIABLES
  world,      \* one of Worlds, the same for ever
  clock,      \* ticks at every edit and run: no two in the same second
  disk,       \* each file's contents and timestamp
  command, deps,   \* the build script
  rows,       \* table nodes: a file's rows, by generation
  stray,      \* files with a second, unrelated row of generation 1
  depTable,   \* table dependencies, by target
  phase,      \* "idle", "running", "failing"
  job,        \* this run's progress on each target
  mem,        \* PersistentData::nodes_
  unch,       \* FSEntry::unchanged_
  doClean,    \* do_clean_db_
  quiet,      \* no edit since the run began
  reported,   \* targets the last run called up to date or built, and no edit since
  ended       \* how a target's last command ended: "well"; "failed", which is also
              \* half-way when the process is killed; or it "threw"

fileVars == <<clock, disk, command, deps>>
dbVars == <<rows, stray, depTable>>
runVars == <<phase, job, mem, unch, doClean>>
ghostVars == <<quiet, reported, ended>>
vars == <<world, fileVars, dbVars, runVars, ghostVars>>

-------------------------------------------------------------------------------
(* Files.  A source's contents are the time they were written; a target's are *)
(* what its command made of its dependencies.                                 *)

NoFile == [content |-> Null, ts |-> 0]

Exists(f) == disk[f].ts # 0

Output(t) == [cmd |-> command[t], from |-> [d \in deps[t] |-> disk[d].content]]

\* What a command leaves behind when it is killed or fails half-way.
Garbage == [content |-> [cmd |-> Null, from |-> <<>>], ts |-> clock]

Written(t) == [content |-> Output(t), ts |-> clock]

-------------------------------------------------------------------------------
(* Rows and records. *)

NullRow == [existed |-> "null", ts |-> 0, sig |-> Null, taskSig |-> Null, ok |-> FALSE]

NotLoaded == [gen |-> 0, prevGen |-> 0, skip |-> TRUE, row |-> NullRow]

\* The constructor for a node.  Its insert of a generation 1 row succeeds for a new
\* file, but also when generation 1 was cleaned away: then a stray row appears and
\* skip_write_ stays false although the record read is the latest generation.
Stored(f) ==
  IF DOMAIN rows[f] = {} THEN [gen |-> 1, prevGen |-> 0, skip |-> FALSE, row |-> NullRow]
  ELSE LET g == Max(DOMAIN rows[f]) IN
    [gen |-> g, prevGen |-> 0, skip |-> 1 \in DOMAIN rows[f] \/ f \in stray, row |-> rows[f][g]]

Loaded(f) == mem[f].gen # 0

\* record_current_data
Record(f) == IF Loaded(f) THEN mem[f] ELSE Stored(f)

BugBumpTwice(m) == [m EXCEPT !.gen = m.gen + 1, !.prevGen = m.gen, !.skip = FALSE]

\* bump_generation: once a run.
Bumped(m) ==
  IF m.skip THEN [gen |-> m.gen + 1, prevGen |-> m.gen, skip |-> FALSE, row |-> m.row] ELSE m

\* The comparison in FSEntry::unchanged of a file with a row (timestamp_md5).
Matches(file, row) ==
  IF file.ts = 0 THEN row.existed = "no"
  ELSE row.existed = "yes" /\ (file.ts = row.ts \/ file.content = row.sig)

\* FSEntry::unchanged against the current record: its result and the record after it.
Seen(f) ==
  IF unch[f] # "unknown" THEN unch[f]
  ELSE IF Matches(disk[f], Record(f).row) THEN "same" ELSE "changed"

SeenRecord(f) ==
  IF \/ Seen(f) = "changed"
     \/ unch[f] = "unknown" /\ Exists(f) /\ disk[f].ts # Record(f).row.ts
  THEN Bumped(Record(f)) ELSE Record(f)

-------------------------------------------------------------------------------
(* The decider. *)

\* Generations of d that t was last recorded against.
RecordedGens(t, d) == { id[2] : id \in { i \in depTable[t] : i[1] = d } }

IsCurrent(t, d) == RecordedGens(t, d) \cap {Record(d).gen, Record(d).prevGen} # {}

Verdict(t, d) ==
  IF RecordedGens(t, d) = {} THEN "new"
  ELSE IF IsCurrent(t, d) THEN Seen(d)
  ELSE IF \E g \in RecordedGens(t, d) : Matches(disk[d], rows[d][g]) THEN "same" ELSE "changed"

BugDroppedDependencyIgnored(t) ==
  \/ ~Exists(t)
  \/ ~Record(t).row.ok
  \/ \E d \in deps[t] : Verdict(t, d) # "same"
  \/ Record(t).row.taskSig # command[t]

Outdated(t) ==
  \/ ~Exists(t)
  \/ ~Record(t).row.ok
  \/ \E d \in deps[t] : Verdict(t, d) # "same"
  \/ \E id \in depTable[t] : id[1] \notin deps[t]
  \/ Record(t).row.taskSig # command[t]

\* All of t's dependencies have been decided: database_decider runs for t.
Decide(t) ==
  /\ phase = "running" /\ job[t] = "todo"
  /\ \A d \in deps[t] \cap Targets : job[d] = "built"
  /\ mem' = [f \in Files |->
       IF f = t THEN
         IF Outdated(t)
         THEN [Record(t) EXCEPT !.row.ok = FALSE, !.row.taskSig = command[t]]
         ELSE Record(t)
       ELSE IF f \in deps[t] THEN
         IF IsCurrent(t, f) THEN SeenRecord(f) ELSE Record(f)
       ELSE mem[f]]
  /\ unch' = [f \in Files |->
       IF f \in deps[t] /\ Verdict(t, f) # "new" THEN Verdict(t, f) ELSE unch[f]]
  /\ doClean' = (doClean \/ \E d \in deps[t] : Verdict(t, d) # "same")
  /\ job' = [job EXCEPT ![t] = IF Outdated(t) THEN "running" ELSE "built"]
  /\ UNCHANGED <<fileVars, dbVars, phase, ghostVars>>

-------------------------------------------------------------------------------
(* The end of a command.  When its actions return a status, was_rebuilt       *)
(* forgets unchanged_ and removes a failed target; an action that throws      *)
(* leaves Task::execute before that.  The main thread then asks unchanged()   *)
(* of the new file and records the status.                                    *)

\* FSEntry::unchanged(t) when the file has become new and unchanged_ is known.
Recompared(t, known, new, ok) ==
  LET row == mem[t].row
      seen == IF known # "unknown" THEN known ELSE IF Matches(new, row) THEN "same" ELSE "changed"
      bump == seen = "changed" \/ (known = "unknown" /\ new.ts # 0 /\ new.ts # row.ts)
      m == IF bump THEN Bumped(mem[t]) ELSE mem[t] IN
  /\ unch' = [unch EXCEPT ![t] = seen]
  /\ mem' = [mem EXCEPT ![t] = [m EXCEPT !.row.ok = ok]]

BugSuccessNotRecorded(t) ==
  /\ phase = "running" /\ job[t] = "running"
  /\ \A d \in deps[t] : Exists(d)
  /\ disk' = [disk EXCEPT ![t] = Written(t)]
  /\ Recompared(t, "unknown", Written(t), FALSE)
  /\ job' = [job EXCEPT ![t] = "built"]
  /\ ended' = [ended EXCEPT ![t] = "well"]
  /\ UNCHANGED <<clock, command, deps, dbVars, phase, doClean, quiet, reported>>

Succeed(t) ==
  /\ phase = "running" /\ job[t] = "running"
  /\ \A d \in deps[t] : Exists(d)
  /\ disk' = [disk EXCEPT ![t] = Written(t)]
  /\ Recompared(t, "unknown", Written(t), TRUE)
  /\ job' = [job EXCEPT ![t] = "built"]
  /\ ended' = [ended EXCEPT ![t] = "well"]
  /\ UNCHANGED <<clock, command, deps, dbVars, phase, doClean, quiet, reported>>

BugFailedFileKept(t) == {Garbage, disk[t]}

\* What a command that returns an error leaves of t.
Remains(t) == IF t \in Precious THEN {Garbage, disk[t]} ELSE {NoFile}

Fail(t) ==
  /\ phase = "running" /\ job[t] = "running"
  /\ MayFail
  /\ \E new \in Remains(t) :
       /\ disk' = [disk EXCEPT ![t] = new]
       /\ Recompared(t, "unknown", new, FALSE)
  /\ job' = [job EXCEPT ![t] = "failed"]
  /\ phase' = "failing"
  /\ ended' = [ended EXCEPT ![t] = "failed"]
  /\ UNCHANGED <<clock, command, deps, dbVars, doClean, quiet, reported>>

\* What a command leaves of t when an action throws, the first one or a later one.
LeftByException(t) == {disk[t], Garbage}

\* was_rebuilt is not called; the record is only bumped if the file differs from it.
Throw(t) ==
  /\ phase = "running" /\ job[t] = "running"
  /\ world.mayThrow
  /\ \E new \in LeftByException(t) :
       /\ disk' = [disk EXCEPT ![t] = new]
       /\ Recompared(t, unch[t], new, FALSE)
  /\ job' = [job EXCEPT ![t] = "failed"]
  /\ phase' = "failing"
  /\ ended' = [ended EXCEPT ![t] = "threw"]
  /\ UNCHANGED <<clock, command, deps, dbVars, doClean, quiet, reported>>

\* After a failure wait_for_all lets the other commands end, and nobody reads their results.
Drop(t) ==
  /\ phase = "failing" /\ job[t] = "running"
  /\ \/ /\ \A d \in deps[t] : Exists(d)
        /\ disk' = [disk EXCEPT ![t] = Written(t)]
        /\ unch' = [unch EXCEPT ![t] = "unknown"]
        /\ ended' = [ended EXCEPT ![t] = "well"]
     \/ /\ MayFail
        /\ \E new \in Remains(t) : disk' = [disk EXCEPT ![t] = new]
        /\ unch' = [unch EXCEPT ![t] = "unknown"]
        /\ ended' = [ended EXCEPT ![t] = "failed"]
     \/ /\ world.mayThrow
        /\ \E new \in LeftByException(t) : disk' = [disk EXCEPT ![t] = new]
        /\ ended' = [ended EXCEPT ![t] = "threw"]
        /\ UNCHANGED unch
  /\ job' = [job EXCEPT ![t] = "dropped"]
  /\ UNCHANGED <<clock, command, deps, dbVars, phase, mem, doClean, quiet, reported>>

-------------------------------------------------------------------------------
(* ~PersistentData and ~PersistentNodeData. *)

\* record_persistent_data and the write of a row.  Existence and timestamp are set
\* before unchanged() is asked: a file nobody compared counts as unchanged, and
\* its signature is not computed.
RowAtExit(f, m) ==
  [m.row EXCEPT
     !.existed = IF Exists(f) THEN "yes" ELSE "no",
     !.ts = disk[f].ts,
     !.sig = IF unch[f] = "changed" THEN disk[f].content ELSE m.row.sig]

\* The records whose dependencies are written.  Writing them loads records of
\* dependencies, and the loop over nodes_ may or may not come to those: it runs
\* in the order of the nodes' addresses.
Visited ==
  { V \in SUBSET Files :
      /\ { f \in Files : Loaded(f) } \subseteq V
      /\ \A f \in V : Loaded(f) \/ \E t \in V \cap Targets : f \in deps[t] }

BugCleanReferenced(f, gens, V) == { g \in gens : g = Max(gens) }

\* The generations clean_archive_nodes leaves: the latest, and those some target,
\* by now recorded against the current ones if it was visited, still refers to.
Kept(f, gens, V) ==
  IF ~doClean THEN gens
  ELSE { g \in gens :
           \/ g = Max(gens)
           \/ \E t \in V \cap Targets : f \in deps[t] /\ g = Record(f).gen
           \/ \E t \in Targets \ V : <<f, g>> \in depTable[t] }

BugDependenciesNotCleared(V) ==
  [t \in Targets |->
     depTable[t] \cup IF t \in V THEN { <<d, Record(d).gen>> : d \in deps[t] } ELSE {}]

DependenciesAtExit(V) ==
  [t \in Targets |->
     IF t \in V THEN { <<d, Record(d).gen>> : d \in deps[t] } ELSE depTable[t]]

Flush ==
  \E V \in Visited :
    LET touched == V \cup UNION { deps[t] : t \in V \cap Targets } IN
    /\ depTable' = DependenciesAtExit(V)
    /\ rows' = [f \in Files |->
         IF f \notin touched
         THEN [g \in Kept(f, DOMAIN rows[f], V) |-> rows[f][g]]
         ELSE LET m == Record(f) IN
           [g \in Kept(f, DOMAIN rows[f] \cup {m.gen}, V) |->
              IF g = m.gen /\ ~m.skip THEN RowAtExit(f, m) ELSE rows[f][g]]]
    /\ stray' = stray \cup { f \in touched : DOMAIN rows[f] # {} /\ 1 \notin DOMAIN rows[f] }

ForgetRun ==
  /\ phase' = "idle"
  /\ mem' = [f \in Files |-> NotLoaded]
  /\ unch' = [f \in Files |-> "unknown"]
  /\ doClean' = FALSE

\* The process ends: all is built, or a command failed and the others have ended.
EndRun ==
  /\ \/ phase = "running" /\ \A t \in Targets : job[t] \in {"none", "built"}
     \/ phase = "failing" /\ \A t \in Targets : job[t] # "running"
  /\ Flush
  /\ ForgetRun
  /\ reported' = IF phase = "running" /\ quiet THEN { t \in Targets : job[t] = "built" } ELSE {}
  /\ UNCHANGED <<fileVars, job, quiet, ended>>

\* The process is killed, and its commands with it: nothing was committed.
Crash ==
  /\ world.mayCrash
  /\ phase # "idle"
  /\ LET running == { t \in Targets : job[t] = "running" } IN
     /\ \E Cut \in SUBSET running, Done \in SUBSET { t \in running : \A d \in deps[t] : Exists(d) } :
          /\ Cut \cap Done = {}
          /\ disk' = [f \in Files |->
               IF f \in Cut THEN Garbage ELSE IF f \in Done THEN Written(f) ELSE disk[f]]
          /\ ended' = [f \in Targets |->
               IF f \in Cut THEN "failed" ELSE IF f \in Done THEN "well" ELSE ended[f]]
  /\ ForgetRun
  /\ job' = [t \in Targets |-> "none"]
  /\ reported' = {}
  /\ UNCHANGED <<clock, command, deps, dbVars, quiet>>

-------------------------------------------------------------------------------
(* Users, and the start of a run. *)

Tick == clock < MaxClock /\ clock' = clock + 1

\* A source is touched, gets new contents, or gets earlier contents back.
EditedSources(s) ==
  { [content |-> c, ts |-> clock + 1] : c \in
      (IF "touch" \in world.edits /\ Exists(s) THEN {disk[s].content} ELSE {})
      \cup (IF "new" \in world.edits THEN {clock + 1} ELSE {})
      \cup (IF "restore" \in world.edits THEN 1 .. clock ELSE {}) }

EditSource(s) ==
  /\ phase = "idle" \/ MayEditDuringRun
  /\ Tick
  /\ \E new \in EditedSources(s) : disk' = [disk EXCEPT ![s] = new]
  /\ reported' = {} /\ quiet' = FALSE
  /\ UNCHANGED <<command, deps, dbVars, runVars, ended>>

DeleteTarget(t) ==
  /\ phase = "idle" /\ "delete" \in world.edits
  /\ Exists(t)
  /\ Tick
  /\ disk' = [disk EXCEPT ![t] = NoFile]
  /\ reported' = {} /\ quiet' = FALSE
  /\ UNCHANGED <<command, deps, dbVars, runVars, ended>>

EditScript ==
  /\ phase = "idle" /\ "script" \in world.edits
  /\ Tick
  /\ command' \in [Targets -> Commands]
  /\ deps' \in Graphs
  /\ reported' = {} /\ quiet' = FALSE
  /\ UNCHANGED <<disk, dbVars, runVars, ended>>

\* The targets in the build order of these goals.
Needed(goals) ==
  LET Closed(S) == goals \subseteq S /\ \A t \in S : deps[t] \cap Targets \subseteq S IN
  CHOOSE S \in SUBSET Targets : Closed(S) /\ \A T \in SUBSET Targets : Closed(T) => S \subseteq T

\* build_order is made, and scan_cpp asks of each file it scans whether it changed.
StartRun ==
  /\ phase = "idle"
  /\ Tick
  /\ phase' = "running"
  /\ \E goals \in GoalSets :
       LET needed == Needed(goals)
           scanned == world.scanned \cap UNION { deps[t] : t \in needed } IN
       /\ job' = [t \in Targets |-> IF t \in needed THEN "todo" ELSE "none"]
       /\ mem' = [f \in Files |-> IF f \in scanned THEN SeenRecord(f) ELSE NotLoaded]
       /\ unch' = [f \in Files |-> IF f \in scanned THEN Seen(f) ELSE "unknown"]
  /\ quiet' = TRUE
  /\ UNCHANGED <<disk, command, deps, dbVars, doClean, reported, ended>>

Init ==
  /\ world \in Worlds
  /\ clock = 1
  /\ disk = [f \in Files |-> IF f \in Sources THEN [content |-> 1, ts |-> 1] ELSE NoFile]
  /\ command \in [Targets -> Commands]
  /\ deps \in Graphs
  /\ rows = [f \in Files |-> <<>>]
  /\ stray = {}
  /\ depTable = [t \in Targets |-> {}]
  /\ phase = "idle"
  /\ job = [t \in Targets |-> "none"]
  /\ mem = [f \in Files |-> NotLoaded]
  /\ unch = [f \in Files |-> "unknown"]
  /\ doClean = FALSE
  /\ quiet = TRUE /\ reported = {} /\ ended = [t \in Targets |-> "well"]

Command(t) == Succeed(t) \/ Fail(t) \/ Throw(t) \/ Drop(t)

Run == EndRun \/ \E t \in Targets : Decide(t) \/ Command(t)

User == StartRun \/ EditScript \/ (\E s \in Sources : EditSource(s)) \/ (\E t \in Targets : DeleteTarget(t))

\* No time is left for another edit or run.
Over == phase = "idle" /\ clock = MaxClock /\ UNCHANGED vars

Next == (Run \/ Crash \/ User \/ Over) /\ UNCHANGED world

Spec == Init /\ [][Next]_vars

-------------------------------------------------------------------------------
(* Properties. *)

FileState == [content : {Null} \cup (1 .. MaxClock), ts : 0 .. MaxClock]

\* Every variable stays in its type; a file gets at most one generation a run.
TypeOK ==
  /\ world \in Worlds
  /\ clock \in 1 .. MaxClock
  /\ \A s \in Sources : disk[s] \in FileState
  /\ \A t \in Targets : disk[t].ts \in 0 .. MaxClock
  /\ deps \in Graphs /\ command \in [Targets -> Commands]
  /\ \A f \in Files : DOMAIN rows[f] \subseteq 1 .. (clock - 1)
  /\ stray \subseteq Files
  /\ \A t \in Targets : depTable[t] \subseteq Files \X (1 .. (clock - 1))
  /\ phase \in {"idle", "running", "failing"}
  /\ job \in [Targets -> {"none", "todo", "running", "built", "failed", "dropped"}]
  /\ \A f \in Files : mem[f].gen \in 0 .. (clock - 1) /\ mem[f].prevGen \in 0 .. mem[f].gen
  /\ unch \in [Files -> {"unknown", "same", "changed"}]
  /\ {doClean, quiet} \subseteq BOOLEAN
  /\ reported \subseteq Targets /\ ended \in [Targets -> {"well", "failed", "threw"}]

\* What a run calls up to date or built is what its command would make of the
\* files as they are: task.cpp:69, "check if dependencies have changed", over any
\* history of edits, runs, failures and crashes.
Fresh == \A t \in reported : Exists(t) /\ disk[t].content = Output(t)

\* task.cpp:63, "check if building node failed last run, or if it never was built
\* yet": a target whose last command returned an error, or was killed half-way, is
\* not passed over, whatever else failed or threw since.
FailureRemembered == phase = "idle" => \A t \in reported : ended[t] # "failed"

\* The same line, of a target whose last command was left by an exception.
ExceptionRemembered == phase = "idle" => \A t \in reported : ended[t] # "threw"

\* db.cpp:213-217 reads the row of a recorded dependency and asserts that it is
\* there: the clean at db.cpp:432-439 never deletes a row some target refers to
\* (foreign keys are not enforced, the PRAGMA comes after "begin").
NoDanglingDependency ==
  \A t \in Targets : \A id \in depTable[t] : id[2] \in DOMAIN rows[id[1]]

\* db.cpp:308-322 takes any recorded generation of the file: there is never more than one.
OneGenerationPerDependency ==
  \A t \in Targets : \A f \in Files : Cardinality(RecordedGens(t, f)) <= 1

\* A second run with nothing edited in between executes nothing: what ~PersistentData
\* writes at db.cpp:410-440 satisfies the decider that reads it.
NothingToDoTwice ==
  [][\A t \in reported : job'[t] = "running" => job[t] = "running"]_vars
===============================================================================
