# SCons++ in TLA+

SCons++ is a build tool written in C++ with two frontends: Python build scripts
in the manner of SCons, and Makefiles. This directory holds TLA+ models of the
parts of it in which order, concurrency and memory from one run to the next
matter, TLC configurations that check them on small instances, and TLAPS proofs
for every instance about the build loop, the order it works through, the rules of a
Makefile and its remaking, the database, the scanner and the threads that run
commands. Paths are relative to `src/src/` unless they start with `src/`.

## The system

A run of the program goes through these parts in this order.

| Part | State it keeps | Operations |
|---|---|---|
| Command line, `main.cpp`, `options.cpp`, `frontend.cpp` | options, `command_line_targets`, `default_targets` | choose a frontend, make the end goal depend on the targets asked for, start the build |
| SConscript frontend, `python_interface/` | the Python interpreter, the stack of scripts, exports, environments | read scripts, make nodes, tasks and edges through builders |
| Makefile frontend, `make_interface/parse_make.cpp` | macros, `patterns` | parse, execute rules, remake the Makefile and restart, match pattern rules |
| Graph and tasks, `dependency_graph.*`, `task.*`, `node_properties.hpp` | nodes, out-edges, a task per target | add nodes, edges, tasks; deciders; `execute` |
| File nodes and aliases, `fs_node.*`, `alias_node.*` | the trie of paths, the cached result of `unchanged()`, the cache of `find_file` | look up, glob, compare with the database, remove or keep failed targets |
| C/C++ scanner, `scan_cpp.*` | cached search paths, cached include lists | add edges for what a source includes |
| Build order, `taskmaster.cpp:78-142` | colours and stack of the depth-first search, the order | `build_order` |
| Task loop, `taskmaster.cpp:144-293` | state of every node, job server, threads | `parallel_build` |
| Signature database, `db.*` | SQLite tables `nodes`, `dependencies`, `scanner_cache`; in memory, the records of a run | load, bump generations, write at exit, clean |
| Process execution, `util.cpp`, `action.*` | a child process and its pipes | `exec` |

How they interact: the frontends fill the graph and end. `main` adds the end goal
and calls `build`. `build_order` walks the graph from the end goal; on discovering
a node with a task it calls the scanner of the task for each source, which may add
edges (`scan_cpp`, which also asks the database whether sources have changed) or
edges, nodes and tasks (`make_scanner`) to the graph being walked. `parallel_build`
takes the finished order, asks the decider of each task whether to run it (the
decider compares with the database through `FSEntry::unchanged`), and runs commands
in detached threads that report to the `JobServer`. What has been learned is
written to the database by destructors when the process exits.

What is hard in it, and what makes each part correct:

- **Task loop.** Threads report under a lock while the main thread reads one
  counter without it; results may be dropped when the build fails; states change
  while a pass over the order relies on them. Correct means: dependencies first,
  never more commands than `-j`, nothing twice, a failure spreads to dependants
  and nothing else, the build ends, no thread outlives the server it refers to.
- **Build order.** The walk iterates over edge lists that scanners insert into.
  Correct means: the order is closed and topological, cycles are found, and all
  included files are dependencies.
- **Signature database.** Rows come in generations because targets built at
  different times refer to different versions of a source; a run writes only at
  its end. Correct means: what is called up to date is, nothing is built twice
  for one change, a failure is not forgotten.
- **Makefile frontend.** Tasks appear while the order is made. Correct means: every
  node a pattern rule can make has a task, and a finished node never changes.
- **Remaking the Makefile.** The program builds its own input with other rules of
  what is old, and starts over in a new process. Correct means: the rules in use
  are current, `-B` is not lost on the way, the restarts end.
- **C/C++ scanner.** Include lists come from a table filled by earlier runs,
  searches from a cache filled earlier in the walk. Correct means: an object
  depends on what its compiler reads, and circular includes end.
- **Process execution.** Every child inherits the pipes of all others; jobs hold the
  Python lock while they wait. Correct means: output is complete, an end of file is
  real, nobody waits for ever, no two threads run Python at once.
- **SConscript stack**, **environments**, **substitution**, **glob**: sequential
  computation; not modelled.

`PROJECT.json` lists every component with its status, and the hazards at their
lines with the properties that would catch them.

## Modules

| Module | Models | Runs |
|---|---|---|
| `BuildGraph` | the graphs and orders that the task loop may be given | (used by others) |
| `Taskmaster` | `parallel_build`, `JobServer`, the job threads | `tm_*` |
| `AbstractBuild` | what a parallel build promises, no queues or locks | property of `tm_*` |
| `Taskmaster_proofs` | theorems about `Taskmaster` | |
| `DepthFirstVisit` | the walk of `build_order` over a graph that grows, and what its order should be | (used by the next two) |
| `DepthFirstVisit_proofs` | its invariant, for both | |
| `BuildOrder` | `build_order`, `BuildVisitor`, the edges `scan_cpp` adds; EXTENDS `DepthFirstVisit` | `build_order` |
| `BuildOrder_proofs` | theorems about `BuildOrder` | |
| `MakeRules` | rules, pattern rules and `make_scanner`; EXTENDS `DepthFirstVisit` | `make_rules` |
| `MakeRules_proofs` | theorems about `MakeRules` | |
| `MakeRemake` | the Makefile remade by timestamps, the restart, `-B` and `-k`, over many runs | `remake` |
| `MakeRemake_proofs` | theorems about `MakeRemake` | |
| `SignatureDb` | the decider, `FSEntry::unchanged`, `PersistentData` over many runs | `sdb_*` |
| `SignatureDb_proofs` | theorems about `SignatureDb` | |
| `IncludeScanner` | `scan_cpp`, its table and `find_file` with its cache, over many runs | `includes` |
| `IncludeScanner_proofs` | theorems about `IncludeScanner` | |
| `JobThreads` | `exec` in several threads, its children and pipes, the Python lock | `job_threads` |
| `JobThreads_proofs` | theorems about `JobThreads` | |
| `MC...` | small instances, one module per model | |

They fit together as the code does: `MakeRules` and `BuildOrder` produce an order;
`OrderIsRight` says of both that it satisfies `DepthFirstVisit!IsBuildOrder`: renumbered,
it is a member of `BuildGraph!BuildOrders`, which is exactly what `Taskmaster!Init`
ranges over.
`Taskmaster` leaves open what a decider answers (any set of outdated targets, which
for `database_decider` contains those not recorded as built), and `SignatureDb` models
the answers, with a scheduler that starts any target whose dependencies are built.
`SignatureDb` needs no more of the loop than that, and `DependenciesFirst` says the loop
gives it. `MakeRemake` runs two builds after one another, with one command at a time,
since how commands overlap is the matter of `Taskmaster`. How the rows of the database
go wrong is the matter of `SignatureDb`: where they may have, `MakeRemake` lets
`database_decider` answer either way. `IncludeScanner` is what `BuildOrder` leaves open about a scan
(which includes, found where, known from when), and `JobThreads` what `Taskmaster`
leaves open about a command (what a thread does between being started and its
`Report`), with the hooks of `build` around the loop.

In every module an operator named `Bug...` is a faulty variant of the definition
that follows it. Nothing uses it; put in that definition's place it must violate a
property, and for every property of a passing run one such variant is listed in
`PROJECT.json` under `mutants`.

### Taskmaster

State: `deps`, `task` (inputs), `state` (`BuildOrderEntry::state`), `cursor` (the
iterator of the pass), `results` (what `wait_for_results` moved out), `resultVec`,
`numScheduled` (the `JobServer`), `job` (threads and how their commands ended),
`statusOk` (the in-memory `task_status`), `jobCounter`, and `pc`, where the main
thread is. One action is what a thread does between two points where another
thread can be seen. `LoopTest`, `Sleep`, `TakeResults`, `RecordResult`,
`StartPass`, the per-node actions `PassOver`, `Hold`, `MarkBuilt`, `Schedule`,
`Abort`, then `CheckSlots` and `EndPass` are the main thread in the order of the
code; `Report` is the critical section at the end of a job thread. `SpuriousWake`
is allowed by the condition variable. `Abort` is a decider, the database or
`std::thread` throwing. Tasks in `ByTimestamp` are decided by `timestamp_pure_decider`, as the
Makefile's is (`parse_make.cpp:528-529`): it asks no recorded status and resets none, so
what is said of recorded statuses (`BuiltIsRecorded`, `InterruptedNotBuilt`) is said of the
others. When the loop has been left, threads still running end
with `ReportToNobody`: what they do to a destroyed `JobServer` is undefined and not
modelled; that it does not happen, unless by `Abort` or with `-k`, is `JobServerOutlivesJobs`.

Left out are logging, and the hooks in `build` that give up and take back the Python
lock around the loop: those are in `JobThreads`.

### DepthFirstVisit and BuildOrder

`DepthFirstVisit` is the walk of `boost::depth_first_visit` with an explicit stack:
`TreeEdge`, `BackEdge`, `ForwardEdge` and `FinishVertex` are the library's events, and
`scanned` is the iterator of `discover_vertex`. Out-edges are a sorted set (`setS`),
sorted by node address; nodes are numbered by address, and because graphs are
enumerated in full every order of addresses is covered. What scanning does is left
to the modules that extend it. In `BuildOrder`, `ScanSource`, `LookUp` and `EndScan`
are the loop in `discover_vertex` and the recursion of `scan_cpp`. An edge inserted
before the iterator's position is passed over by the loop that inserts it, and found
by the walk that follows; this is what `IncludesAreDependencies` is about. Boost's
search is modelled from how the code uses it and is marked external.

### MakeRules

`ReadRule` executes a rule as the parser does, one after the other, so a special
target or a rule sees what was read before it. `EndReading`, `Resolve` and
`StartWalk` are the rest of `run_makefile` and the end goal of `main`;
`ScanSource` is `discover_vertex` calling `make_scanner`; `Step` is the walk of
`DepthFirstVisit`. `entries` are the names that are nodes of the graph, `task` and `out`
their tasks and edges, to which `Apply` adds those of the rules it executes, be they
read from the file or made by a pattern. `MatchFilename` is `match_filename`: the full match with the longest
stem, else a chain of patterns, each used once on a path. A pattern is what it
makes of each name: a partial function from names to a stem's length and sources.
Whether the string arithmetic that computes it (`parse_make.cpp:156-173`) is right
is not modelled. Macros, substitution and the text of commands are left out; a rule
either has commands or has none.

### MakeRemake

`Parse` is the part of `run_makefile` up to the inner `build`, `Continue` and
`Restart` are its two ends, the second with the handler in `main` that flushes the
database and executes the program again. Between them, and in the build that
follows, `Settle`, `Succeed`, `Fail`, `NotFound` and `Spread` are what the task loop does
with a node. `Fail` is a command that returns an error, after which `was_rebuilt` removes
the file; `NotFound` one whose program is not found: the exception leaves
`Task::execute` before `was_rebuilt` and the file stays (a rule for a file has one
command here, so nothing was written before). `Throw` is the end of a run whose
Makefile has no timestamp to read, or a source of it has none.

The Makefile is decided by `timestamp_pure_decider` (`Newer`, `Throws`), everything else
by `database_decider`. Of that decider, `Parts` (what the Makefile is made of and has
itself a task) have what their last command saw, in `record` and, not written yet, in
`mem`. A record is the contents of the dependencies, as long as the rows of the database
are sure to say that. `Written`, what a process leaves to the next, makes a record
`Unsure` where they are not: the command was not found, so that the mark of
`task.cpp:117` is lost with the row that is not bumped (`threw`); or a dependency's row
is shared with a file that was decided in this process while the part was not
(`asked`, `Shares`), and may have been bumped, or overwritten in place (the finding of
`sdb_generation`). For an unsure part, and for all files that are not parts, the
decider may answer either way (`MayHaveChanged`, `MayBeUnchanged`). The one who asks
for a file with a command that leaves it alone when it would not change (`Careful`)
gets the status 0 only if it was 0 before, which is why such a command must be found.
So `ForcedTargetIsCurrent` speaks of the target under `-B`; without, a target may be passed
over stale, which is again the finding of `sdb_generation`, since the inner build is
a partial build whose rows are written before the restart (`main.cpp:61`).

Files carry a timestamp in whole seconds and contents, which are the sources, with
their versions, that went into them; the rules a process uses are the contents of
the Makefile it parsed, and the command of the target depends on them. So "current"
can be said without asking a timestamp or a record. Several actions may happen in one
second. `Edit`, `Touch`, `Delete` and `Configure` are users between runs, who write files
newer than what exists; `Kill` ends a process between two commands.

### SignatureDb

A clock ticks at every edit and every run. `disk` holds contents and timestamps: a
source's contents are the time they were written, a target's are what its command
made of its dependencies, so that up-to-dateness can be stated without trusting
the database. `rows` and `depTable` are the tables `nodes` and `dependencies`,
`stray` the rows of generation 1 that an insert after a clean leaves behind, `mem`
the `PersistentNodeData` of the run with its `skip_write_`, `unch`
`FSEntry::unchanged_`, `doClean` `do_clean_db_`. `Decide` is `database_decider` with
all the records it loads and bumps; `Succeed` and `Fail` are the end of a command that returns a status, `Throw`
that of one that an exception ends (`was_rebuilt` is skipped: the file is not removed, the
cached comparison stays, and the record is bumped only if the file differs from it),
`Drop` any of these when the result is not read; `EndRun` is `~PersistentData`, with
`Visited` ranging over what the loop over an unordered map, to which the loop itself
adds, may come to; `Crash` is a killed process, which loses the transaction.
`EditSource`, `DeleteTarget` and `EditScript` are users. `world`, fixed at the start,
says which of their edits, and whether exceptions and kills, are part of a history, so
that one run can check several kinds of histories. `ended` says how the last command of a
target ended, whatever the database knows of it.

### IncludeScanner

Many runs over a few files. `StartRun` makes the nodes a script mentions;
`ScanSource`, `Follow`, `Ignore` and `Return` are the recursion of `scan_cpp` with an
explicit stack: the next include of the file on top is looked up (`LookUp`, with
`FindFileCached` as `find_file_cached`) and either gets an edge, and its file is
scanned in turn (`Enter`), or not. What a file includes comes from the file or from
`table`, as `FSEntry::unchanged` says (`IncludesOf`). `Build` is the rest of the
build, which may write generated headers; `EndRun` writes rows and lists, `Crash`
does not. `Edit` and `Delete` are users. The includes of a file are taken in any
order. `Reads` says what a compiler reads, independently of all this: the directory
of the includer first, then `CPPPATH`, on the disk at the time the commands run.

### JobThreads

`pc` is where each caller of `exec` is: jobs that run a command (not captured), jobs
that run a Python action which captures a command's output, and the main thread,
whose script does too. `holds` is the set of open descriptors, of the program
(known as `Nobody`) and of each child; `Fork` copies those of the program, whatever
thread opened them. `Poll` is one round of the loop: `poll` and a read of each pipe
that is ready. `gil` is the lock of the interpreter: `TakeLock` is
`PythonAction::execute`, `StartBuild` and `TakeLockBack` the two hooks, and
`Substitute` and `StartJob` need it for a moment. `EndLoop` is the test of the main loop:
all jobs are done, or with `KeepGoing` some job is, which may have made the end goal
`FAILED`, and others still run. `RunningPython` is who runs Python code, read off from
where the threads are and not from `gil`. `CallFails` is `pipe` or `fork`
failing, `Throw` an exception in the task loop. `Write` and `Exit` are the children;
`Lingering` names callers whose command leaves a process in the background.

## Runs

| Run | Question | Bounds |
|---|---|---|
| `tm_failstop` | without `-k`: slots, order, failures, what a return means | every build order of 4 nodes, 2 tasks, one of them decided by timestamps, `-j 2`, any recorded statuses, exceptions in the loop |
| `tm_keepgoing` | with `-k`, detected slots, exceptions: outcomes, the end, the refinement, the inductive invariant | every build order of 3 nodes, 2 tasks, one of them decided by timestamps, 2 slots, fairness |
| `tm_keepgoing_completes` | *violated*: `-k` builds everything that depends on no failed target | 4 nodes, no limit on jobs |
| `build_order` | the walk under scanning | every graph of 4 nodes with up to 4 edges and 2 includes |
| `make_rules` | pattern rules before and during the walk | 4 names and the goal, up to 2 patterns matching up to 2 names, up to 2 other rules, all with commands |
| `sdb_full` | whole builds that do not fail, every kind of edit; and a killed process at any point, while sources only move forward | 1 source, 2 targets in a chain or side by side, 2 commands, 6 edits and runs |
| `sdb_failures` | partial builds with failing commands, actions that throw and scanned sources | the same, 1 command, 5 edits and runs |
| `sdb_generation` | *violated*: what is called up to date is, after generation 1 was cleaned away | 2 targets of one source, partial builds, 7 edits and runs |
| `sdb_thrown` | *violated*: a failure is remembered, when it was an exception | a chain of 2 targets, whole builds, new contents only |
| `includes` | dependencies, stored lists and cached searches over edits, moves, deletions, generated headers and kills; the walk ends | 2 objects with 2 include directories in different orders, 6 files, one of them generated, 4 edits and runs |
| `job_threads` | pipes, children and the lock with several callers at once, a loop that `-k` ends early; everybody gets to the end | a command, a Python job and the main thread, pipes of 2 units, up to 3 units of output to each pipe, failing calls, fairness |
| `remake` | the restart, over several runs with edits, `-B`, `-k`, commands that fail or are not found and a kill | a Makefile made of a script, itself made, and a template; a target made of the Makefile's rules and another source, of which the commands of the Makefile and the target may be not found; 3 seconds, 1 kill |

Why the bounds are enough to be of use. In `Taskmaster` two slots and four nodes
give a diamond, a node blocked by a running and a failed one at once, a job
finishing during a pass, and both queues non-empty. Two nodes sharing a task give
a decider that resets the status of another target. The loop looks at one node and
its edges at a time, so longer chains repeat what four nodes do; and the safety
properties are proved for every number of nodes. In `BuildOrder` four nodes make a
diamond with circular includes. In `MakeRules` four names make a chain of two
patterns below a rule, and two patterns that compete for a name or make each
other's sources. No pattern there applies to what it makes things from, the last
name is the only one asked for besides one other, stems are longer for the pattern
with more names. In `SignatureDb` the third generation of a row, a clean, and a
target recorded against an older generation need at least three runs and two
edits; `MaxClock` bounds edits and runs together. No two edits fall within the same
second (timestamps are whole seconds, `fs_node.cpp:256`). In `IncludeScanner` a
header that moves from one directory to the other, is read by both objects, and
includes another needs two runs and two edits between them; every file may be
missing at the start. In `JobThreads` an output of three units does not fit into a
pipe, and three callers are a reader, another thread whose child inherits the
reader's pipes, and the one that waits for the lock; the safety properties are
proved for every number of them. In `MakeRemake` three levels let a remade Makefile
be decided against a file made in the same second, and a chain of two restarts
needs one edit before each; time passes only as the actions that need it say, and one
second more was tried with the same result.

What the violated runs show, with the lines they contradict, is in `PROJECT.json`
under `findings`:

- `-k` ends the build as soon as the end goal has a failed dependency, although
  `options.cpp:65` promises to "build all targets that don't depend on failed
  targets". Jobs may still be running then.
- "check if building node failed last run" (`task.cpp:63`) does not see a command that
  was left by an exception, such as a program that is not found (`util.cpp:116-118`):
  `was_rebuilt` is skipped, the old file and its row agree, a row that was not bumped is
  not written (`db.cpp:273`), and the dependencies are refreshed (`db.cpp:416-431`). The next
  run calls the stale target up to date.
- After generation 1 of a source was cleaned away, the constructor's insert of a
  first generation succeeds again, the current generation is then overwritten in
  place, and targets recorded against it look up to date.

### Other configurations

Configurations that were tried by hand and are not among the runs; each says which
constants to change, and in which the property named fails. (In `SignatureDb` edits,
scanned files, exceptions and kills are fields of the records in `Worlds`.)

- `sdb_thrown` with edits `{"delete"}`, no exceptions, kills, and `FailureRemembered`: fails.
  "mark node as unbuilt, in case build is interrupted" (`task.cpp:117`) is written at
  exit, so it does nothing when the process is killed. It is in `sdb_full` that kills are
  checked.
- `tm_failstop` with `N = 2`, `Tasks = {t1}`, `ByTimestamp = {}`, `JobsOption = 0`, `AlwaysBuild = TRUE`:
  `InterruptedNotBuilt` fails. The reset of `task.cpp:117`, "mark node as unbuilt, in
  case build is interrupted", depends on `up_to_date` alone, so a target rebuilt
  because of `-B` (`taskmaster.cpp:257`) keeps the status 0 of its last command while
  its new one runs, and when the fail-stop path drops the result.
- `make_rules` with `M = 4`, one pattern, one rule, `CommandsOrNot = {TRUE, FALSE}`:
  `PatternsAreApplied` fails. `make_scanner` is attached only to tasks of rules with
  commands (`parse_make.cpp:240`), so the prerequisites of `all: prog` without
  commands are walked and no pattern rule is ever considered for `prog`.
- `sdb_generation` with edits `{"new", "restore"}`, scanned `{s}`, `MaxClock = 6`: `Fresh` fails. A comparison with an archived generation replaces the
  cached comparison with the current one (`fs_node.cpp:254`), and whoever asks next
  gets the wrong one.
- `sdb_failures` with `Graphs <- LineOnly`, `GoalSets <- Everything`,
  `Precious = {u}`, edits `{"new"}`: `FailureRemembered` fails. A
  precious target that its failed command left as it was compares equal, so its
  generation is not bumped, `skip_write_` stays true and neither the mark of
  `task.cpp:117` nor the failure is written: the next run calls it up to date.
- `sdb_full` with `MayEditDuringRun = TRUE`, edits `{"new"}`: `Fresh` fails. A
  source edited after it was compared is recorded with its timestamp at exit.
- Partial builds with scanned sources: `NothingToDoTwice` fails for the reason of
  the first item.
- `Stored` with `skip |-> TRUE` in place of the stray-row condition: `Fresh` holds in
  every configuration with partial builds that was tried, so the finding of
  `sdb_generation` has this one cause.
- A source first seen as a new dependency is recorded without a signature: a touch
  alone then rebuilds what is made of it, once.
- `tm_keepgoing` with `JobServerOutlivesJobs`: fails, by `-k`.
- `make_rules` with `CommandsOrNot = {TRUE, FALSE}`: `FinishedIsFinal` and
  `OrderIsRight` fail. A node walked below a rule without commands gets a task and
  edges when a rule with commands scans it later; nobody walks those edges, and the
  task loop looks their ends up in the order without testing the result
  (`taskmaster.cpp:217`). The same happens with a target of the command line that
  some rule mentions and none makes: the walk of the end goal does not scan.
- `make_rules` with two patterns that apply to their own sources, such as `%: %.x` and
  `%.o: %.x` (each makes what the names at hand call for), the rules `all: f b` and
  `b: f.o f` with commands, the files `f` and `f.x.x`, and addresses in the order `f.o`,
  `f`, `b`, `f.x`, `f.x.x`, `all`: `OrderIsRight` and `FinishedIsFinal` fail. On one
  path `match_filename` applies no pattern twice, so when the walk comes to `f` nothing
  makes `f.x`, and `f` is finished without a task. Then a chain for `f.o` makes `f.x`
  an entry; scanning `b` finds a rule for `f` now, and gives the finished node a task
  and an edge to `f.x`, which comes later in the order. This is why the theorems ask for
  patterns with a rank.
- `make_rules` with a pattern that has neither commands nor sources: `NothingMissing`
  fails, since the rule it gives leaves no trace in the graph.
- `sdb_full` with one target `t`, the graphs in which it is made of `s` and of nothing,
  edits `{"new", "restore", "script"}`, nothing scanned, no kills, `MaxClock = 11`:
  `Fresh` fails. Once `s` is dropped from the script, edited and put back, it is a new
  dependency and is never compared with its row (`task.cpp:82-96`), so the row keeps
  the signature from before the edit; when then the old contents are restored with
  their timestamp, the target made of the newer contents is passed over. In the run
  every source is used by a target in every graph.
- `includes` with `Extra = {HLib}`: `StoredListsAreRight` fails. A file that is
  recorded as a dependency but not scanned in that run gets a new row and keeps an
  old list, or none, which the next scan trusts.
- `includes` with a generated header that has includes: `ReadsAreDependencies` and
  `StoredListsAreRight` fail. The header is scanned before it is made, its empty
  list is stored at exit beside a row of the finished file, and trusted ever after.
- `includes` with a header both next to a source and in `CPPPATH`, included with
  quotes: `ReadsAreDependencies` fails. The code searches the source's directory
  last (`scan_cpp.cpp:99-101`), compilers first.
- `job_threads` with `Lingering = {c}`: `BuildReturns` fails. A process left in the
  background by a command keeps the write ends it inherited, and whoever captures
  output at that time waits for it.
- `remake` with `Careful = {Makefile}`, `Throwing = {Target}`: `RunsEnd` fails. When the command leaves an
  unchanged Makefile alone and a source was touched, every restart finds the Makefile
  older than the source; the comment "Prevent infinite loop" (`parse_make.cpp:531`)
  is about `-B` only.
- `remake` with `TaskSources <- OnlyTemplate`: `RulesAreCurrent` fails. A
  prerequisite given in a rule without commands is an edge but not one of the
  task's sources, and `timestamp_pure_decider` looks at those only (`task.cpp:128`).
- `remake` with `Careful = {}`, `Throwing = {script}`: `RulesAreCurrent` fails. When the program
  that makes the script is not found, the old script stays and the next run finds it up
  to date, for the reason of `sdb_thrown`; the Makefile made of it is not newer than its
  sources, and the build goes on with stale rules.
- `remake` with two scripts, both made of `macros` and both parts of the Makefile, of which
  one may fail, `MaxClock = 4`: `RulesAreCurrent` fails. Without `-k`, a run in which one fails
  ends before the other is decided, and may overwrite the row of `macros` that the other
  is recorded against (the finding of `sdb_generation`). When only the
  Makefile and the target fail it holds. This is the last premise of
  `RulesAreAlwaysCurrent`.
- `remake` with a phony prerequisite of the script: `RunsEnd` fails, since its empty
  task counts as something built each time. With a phony prerequisite of the
  Makefile itself no run without a failure gets to the build: reading the timestamp
  of the file that does not exist throws.

## Fairness

`Taskmaster!FairSpec` assumes weak fairness of the main thread and of every job
thread: the operating system runs the main thread, and every command ends. Nothing
is assumed of spurious wake-ups, and none is needed of the order in which
threads report. Weak fairness is enough although `wait_for_results` is a condition
variable: a thread that reports changes `asleep` to `wait` in the same critical
section, and from there the main thread's step stays enabled. `BuildOrder!FairSpec`
assumes that the single thread that walks does not stop, and so does
`IncludeScanner!FairSpec` for `WalkEnds`. `MakeRemake!Spec` assumes that a process that
was started goes on until it ends: `RunsEnd` is about how often it starts itself
again, not about users. `JobThreads!FairSpec` assumes that the operating system runs
the main thread, every job thread and every child, and that commands end. The lock
needs no strong fairness: a job takes it once, so who waits for it gets it when the
others are through. `Throw` is not fair; the build may always come to its end
without.

## Proofs

About `Taskmaster`, `ConstantsAssumption` and `BuildGraph!NAssumption` are all that is
assumed: at least one node, `-j` a natural number or unlimited, options Boolean. The
other proofs assume the `InputAssumption` of their module; of the walk
`DepthFirstVisit!VerticesAssumption` (the goal is one of finitely many nodes), of
`BuildOrder` also `SetsAssumption`, of `MakeRules` `MakefilesAssumption` (the inputs are
sequences of rules). TLC evaluates each of these in every run of the module. A premise
that only some theorems need is stated with the theorem, in its `ASSUME`. Some theorems state what no run checks,
since another property of the run implies it or is deeper: the type invariant of
`Taskmaster`, `JobAccounting` and `NoStartAfterFailure`.

**The invariant** (`Taskmaster_proofs`, `IInvHolds`). `DependenciesFirst` is not
inductive: the code schedules a node when none of its dependencies is failed,
scheduled or blocked, and never looks for a dependency that is still to be
decided. `PassInv` closes the gap: a pass leaves no node `TO_BUILD` behind it, and
by `GraphInv` dependencies lie behind (lemma `ToBuildMeansReady`). `SlotLimit`
counts threads, the code counts `numScheduled`: `BooksInv` equates the two, by
tying `SCHEDULED` to running threads and waiting results, each once; and `SlotInv`
says that the main thread scans only with a slot to spare, which holds although
the counter is read without the lock because threads only decrement it. `IInv` is
the conjunction with `TypeOK`, and is also an invariant of the run `tm_keepgoing`.
There is one lemma per action or group of alike actions, and the theorems
`TypeCorrect`, `DependenciesAreFirst`, `SlotsAreLimited` and `BooksAgree` follow.

**Outcomes** (the same module). That an outcome is never revised and
nothing runs twice, that failures have causes, that what is built is recorded and
what was interrupted is not (the last under `~AlwaysBuild`, without which it is false:
"Other configurations"; both of nodes that `database_decider` decides), follow from `IInv` step by step. `EndInv` relates the commands
counted to the jobs that succeeded and says what a failure without `-k` leads to.
With it `ReturnsAreComplete` needs that the end goal being built means everything
is, which is induction down the order: `LargestNode` picks a greatest counterexample,
and `Reachable` gives it a dependant. `JobServerOutlivesItsJobs` has the premise
`~KeepGoing`, without which it is false; it says nothing of a loop that an exception of its
own ends. `BuiltIsAlwaysRecorded` has no premise: when a record is lost, it was to a later
call of the decider for another requested target of the task.

**Refinement** (the same module). `RefinesAbstractBuild`: `Spec` implies
`AbstractBuild!Spec` under the mapping that takes a node's outcome to be its job's, or
else the one the loop propagated to it. A result is an outcome when the command ends
and not when the main thread reads it, so `RecordResult` is a stutter;
`LinkInv` says that it records what the job says.

**Threads and pipes** (`JobThreads_proofs`, `InvariantHolds`). `EndOfFileIsReal` says of
a pipe taken to have ended that nobody can write to it any more, which a later
`Fork` of any thread could undo by copying a write end. It cannot, because the
program itself no longer holds one: an ended pipe has no write end at all, so none
is there to copy, and `EndsAreSeenByTheLoop` says that its caller is past the point
where ends are opened. `OutputIsComplete` needs that what has ended was also written
in full: `WritersHoldTheirEnds` says that a running child holds both its write ends,
so its pipe cannot have ended, and `EndedChildrenHaveWritten` settles the others.
`CommandsNotCaptured` and `ChildFollowsCaller` tie a caller to its child, and
`PythonHasTheLock` is the invariant behind `PythonIsAlone`: whoever runs Python has taken
the lock from nobody and still holds it, wherever `-k` has ended the loop.

**The walk** (`DepthFirstVisit_proofs`). The order followed by the stack, top first, is
the order in which nodes would finish if nothing else were discovered.
Of this sequence `WalkInv` says that it lists nothing twice and ends with the goal,
that edges of a finished node lead to the left, that a frame has passed only edges to
finished nodes or to the frame above (`PassedEdges`, which survives the edges that
scans insert because the position of a frame is an edge, not an index), and that
there is a search tree on it. Scanning keeps it as long as edges are added only to nodes
the walk has not come to and to the one it discovers (`EdgesAdded`); there is a
lemma for each event of the library. `IsBuildOrderWhenDone` says that a walk that returned
leaves an order whose `Renumbered` is one of `BuildGraph!BuildOrders`, the inputs of every
theorem about `Taskmaster`; closedness takes that a set closed under edges contains
all that is reachable (`ReachableIsLeast`).

**Build order** (`BuildOrder_proofs`, `InvariantHolds`). `scan_cpp` adds edges to the node
being discovered only, so `EdgesAdded` gives `BuildOrderIsRight`. `ScanInv` says what
edges there are: as declared before a node is discovered, all that includes call
for after, and in between those of the sources before the iterator. For
`CyclesAreFound`, an order with all edges to the left has no cycle, and the stack above
the target of a back edge is one.

**Make rules** (`MakeRules_proofs`). `make_scanner` does what `scan_cpp` never does: a
chain of patterns gives tasks and edges to nodes other than the one being discovered. That none of them is a node the walk has come to (`PatternsKeepTheOrder`,
`FinishedStay`) needs a Makefile that is `Orderly`. Pattern rules have commands. A rule
without commands is for sources that have rules or match no pattern. Patterns have a
rank: what one makes things from, only those of a lower rank make. And a
target asked for has a rule, or matches no pattern, or is not mentioned in the Makefile
and, unless it is the first, is no source of a pattern. The second and third are
necessary, and so is that requests are restricted ("Other configurations" has a
Makefile for each). `TypeInv`, and `Explained`, which says where entries come from and
gives `ChainsAreComplete`, hold for every Makefile, the latter if no pattern has
neither commands nor sources.

The invariant `IInv` says of the walk that a node it has come to and that has no task is
not `Makeable` (`SettledWhenReached`), since its turn as a source came before
(`SettledWhenScanned`); what is to be shown is that executing rules makes nothing else
makeable. `match_filename` is recursive over a set of patterns that grows, and what a
recursive definition computes cannot be proved by the library's induction theorems. Here
is what takes their place. That there is a function such as `MatchFilename` chooses is
shown by levels, the number of patterns not yet applied (`Solved`, `MatchIsFound`), with
least counterexamples. When patterns have a rank, the patterns already applied on a path
do not matter (`AppliedDoNotMatter`), so `Makeable` satisfies an equation without
recursion, "some pattern has only sources that are available or makeable"
(`MakeableIsFixed`), which has one solution (`FixUnique`). The names that were makeable, with
those a chain has just turned into entries, are a solution of it afterwards
(`MakeableStays`), and so are no more than before. `IInv` was checked by TLC on the
orderly ones among the Makefiles of `make_rules`, with up to five names; it is not an
invariant of the run, whose pairs of patterns need not have a rank.

**Database** (`SignatureDb_proofs`, `InvariantHolds`). A generation is never above the
number of runs so far, the tables hold none of the run that is on, and the record of
a file in memory is of the current run only if it will be written
(`RecordOk`, `TablesAreOlder`). So what `bump_generation` makes is new, and what the
clean at the end removes is below whatever is recorded in that run: with it
`NoDanglingDependency` is inductive, though rows are removed by a subquery over the
dependencies of other targets (`db.cpp:432-439`). `OneGenerationEach` uses that a
target's dependencies are replaced together. `FailuresAreRemembered` needs that no
target is precious and no world has kills; both premises are necessary ("Other
configurations" has a history for each). Actions may throw: of a target whose command
returned an error the file is gone, and an exception of a later command does not
bring it back as it was. Of commands that an exception ended nothing can be proved
(`sdb_thrown`).

`WholeBuildsAreFresh` and `WholeBuildsSettle` are about whole builds: everything is asked
for, no command fails, no process is killed and nothing is edited under a run. `FreshInv`
relates each row to what it was written for. The row of a target has, as its signature,
what its command made of the dependencies recorded with it, and each of these is still
as it was then or gives itself away by its row (`TargetRow`, `SameSince`). A source whose
timestamp is that of its row has the contents the row was written for (`SourceRow`); a
timestamp a user brings back is one that some row may have had. So a
source must be compared in every run in which a target is made of it, or a row keeps an
old signature beside newer targets: this is the premise `Compared`, that the source is
scanned, or dependencies never change, or some target always has it. "Other
configurations" shows `Fresh` false without it. `FreshInv` was checked by TLC on the
instance of `sdb_full` without kills. `NothingToDoTwice` uses the same invariant: after a
run every target is `SettledTarget`, which a decider passes over.

**Scanner** (`IncludeScanner_proofs`, `InvariantHolds`). What a search looks through, the
nodes and the files on the disk, is the same set during a whole walk: a node is only
added for a file that is there, and what the commands make had its node from the
start (`CacheInv`). So a cached answer stays right, "not found" too. This rests on
`StartRun` making the nodes of all generated files before the walk, as a script does
that calls the builders; `BugGeneratedNotMentioned` is the program without it.
`ListsAreRight` has the premises that every recorded file is scanned and that
generated files include nothing; "Other configurations" shows it false without each.
Its invariant ties the cached comparison, the list in memory and the row of every
scanned file to each other, and says that an object that was taken up has edges to
scanned files only.

`DependenciesAreRight` compares two closures: `scan_cpp` follows includes through its
caches while the walk goes on, and the compiler through the disk afterwards. No
path is followed in the proof. `EdgesAreNeeded` says that the edges of an object lie in every
set that is closed under inclusion and has its source, `EdgesAreComplete` that
they are closed themselves but for the includes that some call on the stack has still to
look up; what a compiler reads is the least closed set, too. That both search alike is
`SameAnswer`, from the premise `OneAnswer` that no quoted name is both next to its
includer and in `CPPPATH`, where the code and compilers differ ("Other configurations").
`RowsAreTrue` is what makes lists from the database those of the files on disk.

**Remaking the Makefile** (`MakeRemake_proofs`). `RulesAreAlwaysCurrent` is about two
deciders that trust each other: the database decides what the Makefile is made of, and
timestamps decide the Makefile. `CurrentInv` says of each part of the Makefile that
its contents are those of some versions `V` of the sources, and that a record that is sure
is not of newer versions (`RecordsInv`): a kill loses records of what was made since,
never the other way round, so a record that agrees with all dependencies means the file
itself is current (`BuiltIsCurrent`). A record that is not sure may not be trusted, and
`AskedInv` says why there is none: a process that writes the database leaves no part
undecided, so no record is made unsure by the rows of others. This is what two of the
premises are for, that the commands of the parts are found, and that a part whose
command fails is the only one; both are necessary ("Other configurations"). Of the
Makefile, `StampInv` says that a source edited since gives itself away: each dependency
made from it is gone, is newer than the Makefile, or is itself older than the source and
will be made again, later than the Makefile. That is why the premise is needed that its
own rule names all it is made of ("Other configurations" has what happens otherwise). The
other premise, that nothing of it is phony, sets aside Makefiles with which no run gets
to the build without a failure, or which restart for ever. `ForcedRunsAreComplete` needs no
premise: the loop decides a node after its dependencies (`WalkInv`), so a target that is
built has a closed set of built nodes below it, each of which `-B` has executed in this
process (`ForcedInv`).

`ForcedTargetIsAlwaysCurrent` is about what was asked for, under `-B`: its decider may answer
anything, so that all rests on the order of work and on the failures that keep a file from
being executed. `ForcedTargetInv` says that a target built by the real build, with
no failure so far, holds all there is now: its dependencies are current by
`BuiltIsCurrent`, which under `-B` is about all files, and the rules by `RulesInv`. Its further premise, that nothing the target is made of is
phony, is there because a phony node leaves no file.

Only model-checked: liveness (`Terminates`, `WalkEnds`, `BuildReturns`, `RunsEnd`), which is
beyond the prover; and what the theorems' premises set aside in runs that have more,
namely `Fresh` and `NothingToDoTwice` with kills while sources only move forward, and
`OrderIsRight`, `FinishedIsFinal` and `PatternsAreApplied` for two patterns without a rank.

## Plan

What could come next, in order.

1. A composition of `MakeRules` and `Taskmaster` in which scanning feeds the loop.
2. `Fresh` with kills while sources only move forward: `FreshInv` without the parts that say
   a run's records are written, since what a killed run made is newer than its row.
3. `glob` over the trie (`fs_node.cpp:82-125`) against its definition, and the stem of a
   pattern rule as arithmetic on lengths (`parse_make.cpp:156-173`).

## Not modelled

- Grammars: Makefile syntax, `scan_cpp`'s includes, `subst.cpp`, `ParseFlags`. The stem
  of a pattern is cut with `substr(prefix, size - suffix)`, which takes a length
  (`parse_make.cpp:166`); stems are inputs here.
- Canonical paths and `glob`: string computation by one thread. A path with `..` is
  looked up as it is (`fs_node.cpp:217`), while nodes are kept by canonical paths.
- Environments, the stack of script files, `Export`, `Import` and `Return`: sequential
  updates made before a build. What a build sees of them are commands, search paths
  and macros, which the models take as inputs.
- MD5, logging, Graphviz output, the SQL binding layer, schema upgrades.
- The Python wrappers of nodes, builders and environments: they call the operations
  whose results are the inputs of the models.
- What SQLite leaves when it is killed in the middle of a commit: `journal_mode` is
  off (`db.cpp:379`) and nothing is promised. `Crash` commits nothing or everything.
- In `MakeRemake`, a command killed half-way, which leaves a newer, truncated Makefile
  that timestamps trust, and older timestamps restored by a user.
- The limit of open descriptors, which the read ends that `exec` never closes
  (`util.cpp:146`) run into in the end.
- `src/python_modules`, the larger part of the repository by lines: the Python code of
  SCons, taken over unchanged or nearly so for build scripts to import. It runs
  while a script is read, or not at all where it needs parts of SCons that are not
  provided (`CacheDir`, for one, is never instantiated). The program's own logic is
  the C++ under `src/src`, and that is what the modules translate. Tools, tests and
  build files are not modelled either.
