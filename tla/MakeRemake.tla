------------------------------ MODULE MakeRemake ------------------------------
(* How scons++ -F make remakes its own Makefile (run_makefile): it reads the  *)
(* rules, builds the Makefile with timestamps deciding, and when that built   *)
(* anything it writes the database and executes itself again; else it builds  *)
(* what was asked for.  Files are edited between runs, commands may fail or   *)
(* not be found, a run may be killed between two commands.  Commands run one  *)
(* at a time here (Taskmaster has the parallel ones).  SignatureDb has the    *)
(* rows of the database; here a part of the Makefile has what its task saw as *)
(* long as that is sure, and where it is not, and for all other files, the    *)
(* database_decider may answer either way.  The contents of a file are the    *)
(* sources, with their versions, that it was made of.  An operator named      *)
(* Bug... is a faulty variant of the definition below it.                     *)
EXTENDS Naturals, FiniteSets

CONSTANTS
  Sources, Made,      \* files without and with a task
  Makefile, Target,   \* Target is what is asked for; its command is a macro
  Edges,              \* out-edges of the made files
  TaskSources,        \* what the rule with the commands names of them
  Phony,              \* those that are targets of .PHONY, with commands
  Careful,            \* their commands leave a file alone that would not change
  Failing, Throwing,  \* their commands may fail, or not be found
  Deletable,          \* files a user may delete
  MaxClock, MaxKills  \* bounds

Files == Sources \cup Made

\* Sets of files that hold all their dependencies.
Closed == { S \in SUBSET Files : \A m \in S \cap Made : Edges[m] \subseteq S }

\* What a file depends on, and the file.
Below == [f \in Files |-> { g \in Files : \A S \in Closed : f \in S => g \in S }]

\* What the Makefile is made of and has itself a task.
Parts == (Below[Makefile] \cap Made) \ {Makefile}

ASSUME InputAssumption ==
  /\ Sources \cap Made = {} /\ {Makefile, Target} \subseteq Made
  /\ Edges \in [Made -> SUBSET Files] /\ TaskSources \in [Made -> SUBSET Files]
  /\ \A m \in Made : TaskSources[m] \subseteq Edges[m]
  /\ \A m \in Made : \A d \in Edges[m] : m \notin Below[d]
  /\ Edges[Makefile] # {}
  /\ Deletable \subseteq Files /\ MaxClock \in Nat \ {0}
  \* The rules for the Makefile and what it is made of do not use the macro.
  /\ Target \notin Below[Makefile]
  \* A command fails without its sources.  A file that is left alone is recorded
  \* only if its task had the status 0 before.
  /\ \A m \in Made : Edges[m] \cap Sources \cap Deletable # {} => m \in Failing
  /\ Careful \cap Throwing = {}

VARIABLES
  clock, mtime,   \* whole seconds; 0 is a file that is not there
  version,        \* of the sources
  content,        \* of all files
  record,         \* the database: what the last successful command of a part saw
  mem,            \* the same in the running process
  phase,          \* "idle", "remake", "build"
  options,        \* of this run
  always,         \* always_build
  rules,          \* contents of the Makefile that was parsed
  node,           \* TaskState of this build
  counter,        \* whether job_counter > 0
  failed,         \* whether a command failed in this process
  ran,            \* made files executed in this process
  asked,          \* made files decided in this process: they have their rows in memory
  threw,          \* those whose command was not found
  kills

fileVars == <<clock, mtime, version, content>>
runVars == <<options, always, rules, node, counter, failed, ran, asked, threw>>
vars == <<fileVars, record, mem, phase, runVars, kills>>

\* No status 0, and rows that may or may not look as if nothing had changed.
Null == [is |-> "none", from |-> {}]
Unsure == [is |-> "unsure", from |-> {}]
NoRecords == [t \in Parts |-> Null]

-------------------------------------------------------------------------------
(* What the files should be: the present versions of all they are made of.    *)

Ideal(f) ==
  LET all == Below[f] \cup IF f = Target THEN Below[Makefile] ELSE {} IN
  { <<s, version[s]>> : s \in all \cap Sources }

Output(t) ==
  (UNION { content[d] : d \in Edges[t] }) \cup IF t = Target THEN rules ELSE {}

\* What the database would record of t now: the contents of the dependencies.
Saw(t) == [is |-> "saw", from |-> { <<d, content[d]>> : d \in Edges[t] }]

-------------------------------------------------------------------------------
(* The deciders. *)

Missing(f) == mtime[f] = 0

\* timestamp_pure_decider: a source is newer.
Newer(t) == \E d \in TaskSources[t] : ~Missing(d) /\ mtime[d] > mtime[t]

\* last_write_time throws for a file that is not there.
Throws(t) ==
  t = Makefile /\ TaskSources[t] # {} /\ \E d \in TaskSources[t] \cup {t} : Missing(d)

\* database_decider
MayHaveChanged(t) == t \in Phony \/ Missing(t) \/ (t \in Parts => mem[t] # Saw(t))
MayBeUnchanged(t) ==
  t \notin Phony /\ ~Missing(t) /\ (t \in Parts => mem[t] \in {Saw(t), Unsure})

Outdated(t) == IF t = Makefile THEN ~Missing(t) /\ Newer(t) ELSE MayHaveChanged(t)
UpToDate(t) ==
  ~Throws(t) /\ IF t = Makefile THEN Missing(t) \/ ~Newer(t) ELSE MayBeUnchanged(t)

-------------------------------------------------------------------------------
(* The process. *)

Options == [keep_going : BOOLEAN, always : BOOLEAN]
NoOptions == [keep_going |-> FALSE, always |-> FALSE]

\* What has no task counts as built when the loop comes to it.
NothingDecided == [f \in Files |-> IF f \in Made THEN "todo" ELSE "built"]

BugAlwaysKept(o) ==
  /\ ~Missing(Makefile)
  /\ rules' = content[Makefile]
  /\ options' = o /\ always' = o.always
  /\ phase' = "remake" /\ node' = NothingDecided
  /\ counter' = FALSE /\ failed' = FALSE /\ ran' = {} /\ asked' = {} /\ threw' = {}

\* The Makefile is parsed and its remaking begins, without -B.
Parse(o) ==
  /\ ~Missing(Makefile)
  /\ rules' = content[Makefile]
  /\ options' = o /\ always' = FALSE
  /\ phase' = "remake" /\ node' = NothingDecided
  /\ counter' = FALSE /\ failed' = FALSE /\ ran' = {} /\ asked' = {} /\ threw' = {}

Start(o) ==
  /\ phase = "idle"
  /\ Parse(o)
  /\ mem' = record
  /\ UNCHANGED <<fileVars, record, kills>>

\* The row of a file that t depends on is in memory for one of these.
Shares(t, seen) == \E u \in seen : Below[u] \cap Edges[t] # {}

\* What is written.  The mark of a command that was not found is lost when the file is
\* as its row says; and the row that another part refers to may be bumped, or
\* overwritten in place.
Written(memory, seen, thrown) ==
  [t \in Parts |->
    IF /\ record[t] # Null
       /\ \/ t \in thrown
          \/ memory[t] # Null /\ (record[t] = Unsure \/ (t \notin seen /\ Shares(t, seen)))
    THEN Unsure ELSE memory[t]]

\* The process ends.
Exit(memory) ==
  /\ record' = memory
  /\ phase' = "idle" /\ mem' = NoRecords
  /\ options' = NoOptions /\ always' = FALSE /\ rules' = {}
  /\ node' = NothingDecided
  /\ counter' = FALSE /\ failed' = FALSE /\ ran' = {} /\ asked' = {} /\ threw' = {}

Goal == IF phase = "remake" THEN Makefile ELSE Target

BugNotBlocked(t) ==
  /\ phase # "idle"
  /\ t \in Below[Goal] /\ node[t] = "todo"
  /\ \A d \in Edges[t] : node[d] # "failed"

\* The main loop comes to t: its dependencies have been decided.
Ready(t) ==
  /\ phase # "idle"
  /\ t \in Below[Goal] /\ node[t] = "todo"
  /\ \A d \in Edges[t] : node[d] = "built"

Spread(t) ==
  /\ phase # "idle"
  /\ t \in Below[Goal] /\ node[t] = "todo"
  /\ \E d \in Edges[t] : node[d] = "failed"
  /\ node' = [node EXCEPT ![t] = "failed"]
  /\ UNCHANGED <<fileVars, record, mem, phase, options, always, rules, counter, failed, ran, asked,
                 threw, kills>>

\* Under -B, too, the decider is asked first.
Run(t) == Ready(t) /\ (Outdated(t) \/ (always /\ ~Throws(t)))

Settle(t) ==
  /\ Ready(t) /\ UpToDate(t) /\ ~always
  /\ node' = [node EXCEPT ![t] = "built"]
  /\ asked' = asked \cup {t}
  /\ UNCHANGED <<fileVars, record, mem, phase, options, always, rules, counter, failed, ran, threw,
                 kills>>

\* The record of t becomes r, if it is a part.
Remembered(t, r) == [p \in Parts |-> IF p = t THEN r ELSE mem[p]]

Succeed(t) ==
  /\ Run(t)
  /\ \A d \in Edges[t] \ Phony : ~Missing(d)
  /\ IF t \in Phony \/ (t \in Careful /\ ~Missing(t) /\ content[t] = Output(t))
     THEN UNCHANGED <<mtime, content>>
     ELSE /\ mtime' = [mtime EXCEPT ![t] = clock]
          /\ content' = [content EXCEPT ![t] = Output(t)]
  /\ mem' = Remembered(t, Saw(t))
  /\ node' = [node EXCEPT ![t] = "built"]
  /\ counter' = TRUE
  /\ ran' = ran \cup {t} /\ asked' = asked \cup {t} /\ threw' = threw \ {t}
  /\ UNCHANGED <<clock, version, record, phase, options, always, rules, failed, kills>>

\* Without -k the run ends, by an exception as well.
NotDone(t, thrown) ==
  /\ UNCHANGED <<clock, version, kills>>
  /\ \/ /\ options.keep_going
        /\ mem' = Remembered(t, Null)
        /\ node' = [node EXCEPT ![t] = "failed"]
        /\ failed' = TRUE
        /\ ran' = ran \cup {t} /\ asked' = asked \cup {t} /\ threw' = thrown
        /\ UNCHANGED <<record, phase, options, always, rules, counter>>
     \/ /\ ~options.keep_going
        /\ Exit(Written(Remembered(t, Null), asked \cup {t}, thrown))

\* The command's status is not 0: was_rebuilt removes the file.
Fail(t) ==
  /\ Run(t) /\ t \in Failing
  /\ mtime' = [mtime EXCEPT ![t] = 0]
  /\ content' = [content EXCEPT ![t] = {}]
  /\ NotDone(t, threw \ {t})

\* The command is not found: the exception leaves execute before was_rebuilt.
NotFound(t) ==
  /\ Run(t) /\ t \in Throwing
  /\ UNCHANGED <<mtime, content>>
  /\ NotDone(t, threw \cup {t})

Throw ==
  /\ Ready(Makefile) /\ Throws(Makefile)
  /\ Exit(Written(mem, asked, threw))
  /\ UNCHANGED <<fileVars, kills>>

BugAlwaysNotRestored ==
  /\ phase = "remake" /\ node[Makefile] # "todo" /\ ~counter
  /\ phase' = "build" /\ node' = NothingDecided
  /\ UNCHANGED <<fileVars, record, mem, options, always, rules, counter, failed, ran, asked,
                 threw, kills>>

\* build returned 0.
Continue ==
  /\ phase = "remake" /\ node[Makefile] # "todo" /\ ~counter
  /\ phase' = "build" /\ node' = NothingDecided
  /\ always' = options.always
  /\ UNCHANGED <<fileVars, record, mem, options, rules, counter, failed, ran, asked, threw,
                 kills>>

BugNoRestart ==
  /\ phase = "remake" /\ node[Makefile] # "todo" /\ counter
  /\ phase' = "build" /\ node' = NothingDecided
  /\ always' = options.always
  /\ UNCHANGED <<fileVars, record, mem, options, rules, counter, failed, ran, asked, threw,
                 kills>>

\* restart_exception: main writes the database and calls execv.  It fails when
\* argv[0] is a name without a path, and the process terminates; and a Makefile
\* that is gone is not found.
Restart ==
  /\ phase = "remake" /\ node[Makefile] # "todo" /\ counter
  /\ LET written == Written(mem, asked, threw) IN
     \/ Parse(options) /\ record' = written /\ mem' = written
     \/ Exit(written)
  /\ UNCHANGED <<fileVars, kills>>

EndBuild ==
  /\ phase = "build" /\ node[Target] # "todo"
  /\ Exit(Written(mem, asked, threw))
  /\ UNCHANGED <<fileVars, kills>>

Kill ==
  /\ phase # "idle" /\ kills < MaxKills /\ kills' = kills + 1
  /\ Exit(record)
  /\ UNCHANGED fileVars

-------------------------------------------------------------------------------
(* Time and users.  What a user writes is newer than everything before it. *)

Tick ==
  /\ phase # "idle"
  /\ clock < MaxClock /\ clock' = clock + 1
  /\ UNCHANGED <<mtime, version, content, record, mem, phase, runVars, kills>>

Write(f, new) ==
  /\ phase = "idle" /\ clock < MaxClock /\ clock' = clock + 1
  /\ mtime' = [mtime EXCEPT ![f] = clock']
  /\ content' = [content EXCEPT ![f] = new]
  /\ UNCHANGED <<record, mem, phase, runVars, kills>>

Edit(s) ==
  /\ version' = [version EXCEPT ![s] = @ + 1]
  /\ Write(s, {<<s, version'[s]>>})

Touch(s) == UNCHANGED version /\ Write(s, {<<s, version[s]>>})

\* A Makefile that is gone is made by hand.
Configure == Missing(Makefile) /\ UNCHANGED version /\ Write(Makefile, Ideal(Makefile))

Delete(f) ==
  /\ phase = "idle" /\ ~Missing(f)
  /\ mtime' = [mtime EXCEPT ![f] = 0]
  /\ content' = [content EXCEPT ![f] = {}]
  /\ UNCHANGED <<clock, version, record, mem, phase, runVars, kills>>

-------------------------------------------------------------------------------
Init ==
  /\ clock = 1 /\ kills = 0
  /\ version = [s \in Sources |-> 1]
  /\ mtime = [f \in Files |-> IF f \in Sources \cup {Makefile} THEN 1 ELSE 0]
  /\ content = [f \in Files |-> IF f \in Sources \cup {Makefile} THEN Ideal(f) ELSE {}]
  /\ record = NoRecords /\ mem = NoRecords
  /\ phase = "idle"
  /\ options = NoOptions /\ always = FALSE /\ rules = {}
  /\ node = NothingDecided
  /\ counter = FALSE /\ failed = FALSE /\ ran = {} /\ asked = {} /\ threw = {}

Process ==
  \/ \E t \in Made : Spread(t) \/ Settle(t) \/ Succeed(t) \/ Fail(t) \/ NotFound(t)
  \/ Throw \/ Continue \/ Restart \/ EndBuild

Next ==
  \/ \E o \in Options : Start(o)
  \/ Process \/ Kill \/ Tick \/ Configure
  \/ \E s \in Sources : Edit(s) \/ Touch(s)
  \/ \E f \in Deletable : Delete(f)

Spec == Init /\ [][Next]_vars /\ WF_vars(Process)

-------------------------------------------------------------------------------
(* Properties. *)

\* What was asked for is built by rules that are what the Makefile's sources say,
\* unless the Makefile could not be remade.
RulesAreCurrent == phase = "build" /\ ~failed => rules = Ideal(Makefile)

\* A run with -B and without failures leaves the target made of everything as it is
\* now, the rules included.
ForcedTargetIsCurrent ==
  [][(EndBuild /\ ~failed /\ options.always) => content[Target] = Ideal(Target)]_vars

\* -B, off while the Makefile is remade, is on for the build: a run without failures
\* executes every task the target needs.
ForcedRunsBuildAll ==
  [][(EndBuild /\ ~failed /\ options.always) => Below[Target] \cap Made \subseteq ran]_vars

\* The program stops restarting itself: each time, what was built is up to date when
\* it is looked at again.
RunsEnd == phase # "idle" ~> phase = "idle"
==============================================================================
