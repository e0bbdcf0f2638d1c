----------------------------- MODULE JobThreads ------------------------------
(* The program as the operating system sees it during a build: exec forks     *)
(* children and reads their output through pipes (util.cpp:109-179), in       *)
(* several threads at once, some of which run Python and hold its lock        *)
(* meanwhile (action_wrapper.cpp, the hooks of taskmaster.cpp:282-291).       *)
(* Which job may start when is the matter of Taskmaster: here each may start  *)
(* once.  A unit of output is what one read takes.  One action is what one    *)
(* thread or child does between two system calls others can see.  An operator *)
(* named Bug... is a faulty variant of the definition below it.               *)
EXTENDS Naturals, FiniteSets

CONSTANTS
  Commands,     \* jobs that run a command
  PythonJobs,   \* jobs that run a Python action, which captures a command's output
  Main,         \* the main thread; its build script captures one too
  Capacity,     \* of a pipe
  MaxOutput,    \* of a command to one of its two outputs
  Lingering,    \* callers whose child leaves a background process behind
  MayFail,      \* pipe and fork may fail
  KeepGoing,    \* -k
  Nobody

Jobs == Commands \cup PythonJobs
Callers == Jobs \cup {Main}
Capturing == PythonJobs \cup {Main}

ASSUME InputAssumption ==
  /\ Commands \cap PythonJobs = {} /\ Main \notin Jobs /\ Nobody \notin Callers
  /\ Capacity \in Nat \ {0} /\ MaxOutput \in Nat
  /\ Lingering \subseteq Callers /\ {MayFail, KeepGoing} \subseteq BOOLEAN

Streams == {"stdout", "stderr"}
Pipes == Capturing \X Streams

\* The program itself is known by the name Nobody, a child by its caller's.
Processes == Callers \cup {Nobody}

VARIABLES
  main,     \* "script", "build", "returning", "after", "threw"
  pc,       \* where a caller is in exec, or around it
  gil,      \* who holds the Python lock
  holds,    \* open descriptors: by which process, of which pipe, which end
  child,    \* each caller's child: "none", "running", "exited", "reaped"
  left,     \* output a child has still to write
  buffer,   \* what is in a pipe
  output,   \* what exec has read
  ended     \* pipes in eof_reached

ioVars == <<left, buffer, output, ended>>
vars == <<main, pc, gil, holds, child, ioVars>>

-------------------------------------------------------------------------------
(* exec, in the thread that calls it. *)

BothEnds(pipe) == [by : {Nobody}, of : {pipe}, end : {"read", "write"}]

\* pipe for one of the two outputs.
OpenPipe(c, from, stream, to) ==
  /\ pc[c] = from
  /\ holds' = holds \cup BothEnds(<<c, stream>>)
  /\ pc' = [pc EXCEPT ![c] = to]
  /\ UNCHANGED <<main, gil, child, ioVars>>

HeldBy(process) == { h \in holds : h.by = process }

\* fork: the child gets every descriptor the program has open, gives up the
\* read ends of its own pipes and makes the write ends its outputs.
Fork(c) ==
  /\ pc[c] = "fork"
  /\ child' = [child EXCEPT ![c] = "running"]
  /\ holds' = holds \cup
       { [h EXCEPT !.by = c] : h \in
           { h \in HeldBy(Nobody) : h.of[1] = c => h.end = "write" } }
  /\ pc' = [pc EXCEPT ![c] = IF c \in Capturing THEN "close" ELSE "wait"]
  /\ UNCHANGED <<main, gil, ioVars>>

\* pipe or fork throws: what is open stays open.
CallFails(c) ==
  /\ MayFail
  /\ pc[c] \in {"pipe", "pipe2", "fork"}
  /\ pc' = [pc EXCEPT ![c] = "failed"]
  /\ UNCHANGED <<main, gil, holds, child, ioVars>>

CloseWriteEnds(c) ==
  /\ pc[c] = "close"
  /\ holds' = holds \ { h \in HeldBy(Nobody) : h.of[1] = c /\ h.end = "write" }
  /\ pc' = [pc EXCEPT ![c] = "poll"]
  /\ UNCHANGED <<main, gil, child, ioVars>>

Writable(pipe) == \E h \in holds : h.of = pipe /\ h.end = "write"

BugEmptyMeansEnd(pipe) == TRUE

\* POLLIN or POLLHUP.
Ready(pipe) == buffer[pipe] > 0 \/ ~Writable(pipe)

BugOneAfterTheOther(c) ==
  /\ pc[c] = "poll"
  /\ \E stream \in Streams :
       LET pipe == <<c, stream>> IN
       /\ stream = "stderr" => <<c, "stdout">> \in ended
       /\ pipe \notin ended /\ Ready(pipe)
       /\ IF buffer[pipe] = 0 THEN ended' = ended \cup {pipe} /\ UNCHANGED <<buffer, output>>
          ELSE /\ buffer' = [buffer EXCEPT ![pipe] = @ - 1]
               /\ output' = [output EXCEPT ![pipe] = @ + 1]
               /\ UNCHANGED ended
  /\ UNCHANGED <<main, pc, gil, holds, child, left>>

\* One round of the loop: poll says which pipes are ready, and each is read once.
\* A pipe that has ended is ready for ever and reads nothing.
Poll(c) ==
  /\ pc[c] = "poll"
  /\ LET ready == { pipe \in {c} \X Streams : Ready(pipe) }
         data == { pipe \in ready : buffer[pipe] > 0 } IN
     /\ ready # {}
     /\ buffer' = [p \in Pipes |-> IF p \in data THEN buffer[p] - 1 ELSE buffer[p]]
     /\ output' = [p \in Pipes |-> IF p \in data THEN output[p] + 1 ELSE output[p]]
     /\ ended' = ended \cup (ready \ data)
  /\ UNCHANGED <<main, pc, gil, holds, child, left>>

BugEitherEnds(c) ==
  /\ pc[c] = "poll" /\ ended \cap ({c} \X Streams) # {}
  /\ pc' = [pc EXCEPT ![c] = "wait"]
  /\ UNCHANGED <<main, gil, holds, child, ioVars>>

\* Both have ended: the loop is left.
LeaveLoop(c) ==
  /\ pc[c] = "poll" /\ {c} \X Streams \subseteq ended
  /\ pc' = [pc EXCEPT ![c] = "wait"]
  /\ UNCHANGED <<main, gil, holds, child, ioVars>>

BugNotWaitedFor(c) ==
  /\ pc[c] = "wait"
  /\ pc' = [pc EXCEPT ![c] = "returned"]
  /\ UNCHANGED <<main, gil, holds, child, ioVars>>

\* waitpid.  The read ends are never closed.
WaitForChild(c) ==
  /\ pc[c] = "wait" /\ child[c] = "exited"
  /\ child' = [child EXCEPT ![c] = "reaped"]
  /\ pc' = [pc EXCEPT ![c] = "returned"]
  /\ UNCHANGED <<main, gil, holds, ioVars>>

Exec(c) ==
  \/ OpenPipe(c, "pipe", "stdout", "pipe2") \/ OpenPipe(c, "pipe2", "stderr", "fork")
  \/ Fork(c) \/ CloseWriteEnds(c) \/ Poll(c) \/ LeaveLoop(c) \/ WaitForChild(c)

-------------------------------------------------------------------------------
(* The children. *)

Write(c) ==
  /\ child[c] = "running"
  /\ \E pipe \in {c} \X Streams :
       /\ pipe \in Pipes
       /\ left[pipe] > 0 /\ buffer[pipe] < Capacity
       /\ left' = [left EXCEPT ![pipe] = @ - 1]
       /\ buffer' = [buffer EXCEPT ![pipe] = @ + 1]
  /\ UNCHANGED <<main, pc, gil, holds, child, output, ended>>

\* A process it has left in the background keeps its descriptors.
Exit(c) ==
  /\ child[c] = "running"
  /\ \A pipe \in Pipes : pipe[1] = c => left[pipe] = 0
  /\ child' = [child EXCEPT ![c] = "exited"]
  /\ holds' = IF c \in Lingering THEN holds ELSE holds \ HeldBy(c)
  /\ UNCHANGED <<main, pc, gil, ioVars>>

-------------------------------------------------------------------------------
(* Jobs around exec. *)

\* ExecCommand::execute: the substitution takes the lock and gives it back.
Substitute(j) ==
  /\ j \in Commands /\ pc[j] = "started" /\ gil = Nobody
  /\ pc' = [pc EXCEPT ![j] = "fork"]
  /\ UNCHANGED <<main, gil, holds, child, ioVars>>

\* PythonAction::execute: gil_scoped_acquire, and into the action.
TakeLock(j) ==
  /\ j \in PythonJobs /\ pc[j] = "started" /\ gil = Nobody
  /\ gil' = j
  /\ pc' = [pc EXCEPT ![j] = "pipe"]
  /\ UNCHANGED <<main, holds, child, ioVars>>

\* The job is over; what was thrown in it has become its status.
EndJob(j) ==
  /\ pc[j] \in {"returned", "failed"}
  /\ gil' = IF gil = j THEN Nobody ELSE gil
  /\ pc' = [pc EXCEPT ![j] = "done"]
  /\ UNCHANGED <<main, holds, child, ioVars>>

Job(j) == Exec(j) \/ CallFails(j) \/ Substitute(j) \/ TakeLock(j) \/ EndJob(j)

-------------------------------------------------------------------------------
(* The main thread around exec. *)

\* The build script ends, and pre_build_hook gives up the lock.
StartBuild ==
  /\ main = "script" /\ pc[Main] = "returned"
  /\ main' = "build"
  /\ gil' = Nobody
  /\ UNCHANGED <<pc, holds, child, ioVars>>

\* The script ends with an exception, and so does the program.
ScriptFails ==
  /\ main = "script" /\ pc[Main] = "failed"
  /\ main' = "after"
  /\ UNCHANGED <<pc, gil, holds, child, ioVars>>

\* A job is scheduled; its signature is computed under the lock.
StartJob(j) ==
  /\ main = "build" /\ pc[j] = "idle" /\ gil = Nobody
  /\ pc' = [pc EXCEPT ![j] = "started"]
  /\ UNCHANGED <<main, gil, holds, child, ioVars>>

\* No job is left; or, with -k, a job that has ended has made the end goal FAILED,
\* whatever the others are doing.
EndLoop ==
  /\ main = "build"
  /\ \/ \A j \in Jobs : pc[j] \in {"idle", "done"}
     \/ KeepGoing /\ \E j \in Jobs : pc[j] = "done"
  /\ main' = "returning"
  /\ UNCHANGED <<pc, gil, holds, child, ioVars>>

BugLockNotTakenBack ==
  /\ main = "returning"
  /\ main' = "after"
  /\ UNCHANGED <<pc, gil, holds, child, ioVars>>

\* post_build_hook
TakeLockBack ==
  /\ main = "returning" /\ gil = Nobody
  /\ main' = "after"
  /\ gil' = Main
  /\ UNCHANGED <<pc, holds, child, ioVars>>

\* A decider or the database throws in the loop: nobody calls post_build_hook.
Throw ==
  /\ main = "build"
  /\ main' = "threw"
  /\ UNCHANGED <<pc, gil, holds, child, ioVars>>

MainThread ==
  \/ Exec(Main) \/ CallFails(Main) \/ StartBuild \/ ScriptFails
  \/ (\E j \in Jobs : StartJob(j)) \/ EndLoop \/ TakeLockBack

Init ==
  /\ main = "script"
  /\ pc = [c \in Callers |-> IF c = Main THEN "pipe" ELSE "idle"]
  /\ gil = Main
  /\ holds = {}
  /\ child = [c \in Callers |-> "none"]
  /\ left \in [Pipes -> 0 .. MaxOutput]
  /\ buffer = [p \in Pipes |-> 0]
  /\ output = [p \in Pipes |-> 0]
  /\ ended = {}

Child(c) == Write(c) \/ Exit(c)

Next == MainThread \/ Throw \/ (\E j \in Jobs : Job(j)) \/ (\E c \in Callers : Child(c))

Spec == Init /\ [][Next]_vars

\* The operating system runs the threads and the children, and every child ends.
\* The lock is taken once by each job, so who waits for it comes in.
FairSpec ==
  /\ Spec
  /\ WF_vars(MainThread)
  /\ \A j \in Jobs : WF_vars(Job(j))
  /\ \A c \in Callers : WF_vars(Child(c))

-------------------------------------------------------------------------------
(* Properties. *)

\* Every variable stays in its type; only who is in exec has a child that runs.
TypeOK ==
  /\ main \in {"script", "build", "returning", "after", "threw"}
  /\ pc \in [Callers -> {"idle", "started", "pipe", "pipe2", "fork", "close", "poll", "wait",
                         "returned", "failed", "done"}]
  /\ gil \in Callers \cup {Nobody}
  /\ holds \subseteq [by : Processes, of : Pipes, end : {"read", "write"}]
  /\ child \in [Callers -> {"none", "running", "exited", "reaped"}]
  /\ \A c \in Callers : child[c] = "running" => pc[c] \in {"close", "poll", "wait"}
  /\ buffer \in [Pipes -> 0 .. Capacity] /\ left \in [Pipes -> 0 .. MaxOutput]
  /\ output \in [Pipes -> Nat] /\ ended \subseteq Pipes

\* util.cpp:152, "if(n_bytes == 0) eof_reached": a pipe that is taken to have ended is
\* empty and no process, of any thread, can write to it any more.
EndOfFileIsReal == \A p \in ended : buffer[p] = 0 /\ ~Writable(p)

\* exec returns what the command has written to both outputs, in whatever pieces
\* and whoever forks meanwhile (util.cpp:140-158).
OutputIsComplete ==
  \A p \in Pipes : pc[p[1]] \in {"wait", "returned"} => left[p] = 0 /\ buffer[p] = 0

\* Who runs Python: a job in a Python action, the main thread while it reads the
\* script and after a build that returned, when it destroys Python objects.
RunningPython ==
  { j \in PythonJobs : pc[j] \notin {"idle", "started", "done"} }
  \cup IF main \in {"script", "after"} THEN {Main} ELSE {}

\* Never two threads at once (action_wrapper.cpp:37, python_interface.cpp:257-258),
\* although with -k the loop is left while jobs run (taskmaster.cpp:222) and a job may
\* then wait for the lock, or hold it, when post_build_hook asks for it back.  A build
\* left by an exception is not covered: post_build_hook is skipped (taskmaster.cpp:289).
PythonRunsAlone == \A a, b \in RunningPython : a = b

\* The build comes to its end: no command waits for a reader, no thread for the lock,
\* no reader for an end of file that others keep away (util.cpp:123-158).
BuildReturns == <>(main \in {"after", "threw"})
===============================================================================
