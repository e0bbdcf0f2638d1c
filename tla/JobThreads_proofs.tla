-------------------------- MODULE JobThreads_proofs --------------------------
(* Proofs about JobThreads for every number of commands and Python jobs, any  *)
(* capacity and amount of output, failing calls and background processes      *)
(* included.                                                                  *)
EXTENDS JobThreads, TLAPS

-------------------------------------------------------------------------------
(* The inductive invariant. *)

\* A command is not captured: it goes through fork and waitpid only.
CommandsNotCaptured ==
  \A c \in Commands : pc[c] \notin {"pipe", "pipe2", "close", "poll"}

\* How far a caller is says what has become of its child.
ChildFollowsCaller ==
  \A c \in Callers :
    /\ pc[c] \in {"idle", "started", "pipe", "pipe2", "fork", "failed"} => child[c] = "none"
    /\ pc[c] \in {"close", "poll", "wait"} => child[c] \in {"running", "exited"}
    /\ pc[c] = "returned" => child[c] = "reaped"
    /\ pc[c] = "done" => child[c] \in {"none", "reaped"}

WriteEnd(process, c, stream) == [by |-> process, of |-> <<c, stream>>, end |-> "write"]

\* The program holds the write ends it has opened until it has forked, and a child
\* its own as long as it runs.
WritersHoldTheirEnds ==
  \A c \in Capturing :
    /\ pc[c] \in {"pipe2", "fork"} => WriteEnd(Nobody, c, "stdout") \in holds
    /\ pc[c] = "fork" => WriteEnd(Nobody, c, "stderr") \in holds
    /\ child[c] = "running" => \A stream \in Streams : WriteEnd(c, c, stream) \in holds

\* Only the poll loop finds that a pipe has ended, and it ends when both have.
EndsAreSeenByTheLoop ==
  /\ \A p \in ended : pc[p[1]] \in {"poll", "wait", "returned", "done"}
  /\ \A p \in Pipes : pc[p[1]] \in {"wait", "returned"} => p \in ended

\* A child that has ended has written everything.
EndedChildrenHaveWritten ==
  \A p \in Pipes : child[p[1]] \in {"exited", "reaped"} => left[p] = 0

\* Who runs Python has the lock, and has had it since it began.
PythonHasTheLock == \A c \in RunningPython : gil = c

IInv ==
  /\ TypeOK
  /\ CommandsNotCaptured
  /\ ChildFollowsCaller
  /\ WritersHoldTheirEnds
  /\ EndsAreSeenByTheLoop
  /\ EndOfFileIsReal
  /\ EndedChildrenHaveWritten
  /\ PythonHasTheLock

-------------------------------------------------------------------------------
LEMMA PipesArePairs ==
  \A p \in Pipes : /\ p[1] \in Capturing /\ p[1] \in Callers /\ p[2] \in Streams
                   /\ p = <<p[1], p[2]>>
BY DEF Pipes, Capturing, Callers, Jobs

LEMMA InitIsInvariant == Init => IInv
<1> SUFFICES ASSUME Init PROVE IInv
  OBVIOUS
<1>1. TypeOK
  BY InputAssumption DEF Init, TypeOK, Callers, Processes
<1>2. CommandsNotCaptured /\ ChildFollowsCaller /\ PythonHasTheLock
  BY InputAssumption DEF Init, CommandsNotCaptured, ChildFollowsCaller, PythonHasTheLock,
      RunningPython,
    Callers, Jobs
<1>3. WritersHoldTheirEnds /\ EndOfFileIsReal
  BY DEF Init, WritersHoldTheirEnds, EndOfFileIsReal, Capturing, Callers, Jobs
<1>4. EndsAreSeenByTheLoop /\ EndedChildrenHaveWritten
  BY PipesArePairs DEF Init, EndsAreSeenByTheLoop, EndedChildrenHaveWritten
<1> QED
  BY <1>1, <1>2, <1>3, <1>4 DEF IInv

-------------------------------------------------------------------------------
(* exec. *)

LEMMA OpenPipePreserves ==
  ASSUME IInv, NEW c \in Capturing,
         \/ OpenPipe(c, "pipe", "stdout", "pipe2")
         \/ OpenPipe(c, "pipe2", "stderr", "fork")
  PROVE  IInv'
<1> USE DEF IInv
<1>0. PICK stream \in Streams : holds' = holds \cup BothEnds(<<c, stream>>)
  BY DEF OpenPipe, Streams
<1>1. /\ pc[c] \in {"pipe", "pipe2"}
      /\ pc' = [pc EXCEPT ![c] = IF pc[c] = "pipe" THEN "pipe2" ELSE "fork"]
      /\ UNCHANGED <<main, gil, child, left, buffer, output, ended>>
      /\ c \in Callers
  BY DEF OpenPipe, ioVars, Capturing, Callers, Jobs
<1>2. /\ pc[c] = "pipe" => WriteEnd(Nobody, c, "stdout") \in holds'
      /\ pc[c] = "pipe2" => WriteEnd(Nobody, c, "stderr") \in holds'
  BY DEF OpenPipe, BothEnds, WriteEnd
<1>3. BothEnds(<<c, stream>>) \subseteq [by : Processes, of : Pipes, end : {"read", "write"}]
  BY DEF BothEnds, Processes, Pipes
<1>4. TypeOK'
  BY <1>0, <1>1, <1>3 DEF TypeOK
<1>5. CommandsNotCaptured' /\ ChildFollowsCaller' /\ PythonHasTheLock' /\ EndedChildrenHaveWritten'
  BY <1>1 DEF TypeOK, CommandsNotCaptured, ChildFollowsCaller, PythonHasTheLock, RunningPython,
      EndedChildrenHaveWritten
<1>6. WritersHoldTheirEnds'
  BY <1>0, <1>1, <1>2 DEF TypeOK, WritersHoldTheirEnds, Capturing
<1>7. EndsAreSeenByTheLoop'
  BY <1>1, PipesArePairs DEF TypeOK, EndsAreSeenByTheLoop
<1>8. EndOfFileIsReal'
  <2> SUFFICES ASSUME NEW p \in ended' PROVE buffer'[p] = 0 /\ ~Writable(p)'
    BY DEF EndOfFileIsReal
  <2>1. p \in ended /\ pc[p[1]] # pc[c] /\ p # <<c, stream>>
    BY <1>1 DEF EndsAreSeenByTheLoop
  <2> QED BY <1>0, <1>1, <2>1 DEF EndOfFileIsReal, Writable, BothEnds
<1> QED BY <1>4, <1>5, <1>6, <1>7, <1>8

LEMMA ForkPreserves ==
  ASSUME IInv, NEW c \in Callers, Fork(c)
  PROVE  IInv'
<1> USE DEF IInv
<1> DEFINE given == { h \in HeldBy(Nobody) : h.of[1] = c => h.end = "write" }
           taken == { [h EXCEPT !.by = c] : h \in given }
<1>1. /\ pc[c] = "fork" /\ pc' = [pc EXCEPT ![c] = IF c \in Capturing THEN "close" ELSE "wait"]
      /\ child' = [child EXCEPT ![c] = "running"] /\ holds' = holds \cup taken
      /\ UNCHANGED <<main, gil, left, buffer, output, ended>>
  BY DEF Fork, ioVars
<1>2. \A h \in taken : \E g \in holds : g.of = h.of /\ g.end = h.end
  BY DEF HeldBy, TypeOK
<1>3. taken \subseteq [by : Processes, of : Pipes, end : {"read", "write"}]
  BY DEF HeldBy, TypeOK, Processes
<1>4. TypeOK'
  BY <1>1, <1>3 DEF TypeOK
<1>5. CommandsNotCaptured'
  BY <1>1, InputAssumption DEF TypeOK, CommandsNotCaptured, Capturing, Jobs, Callers
<1>6. ChildFollowsCaller' /\ PythonHasTheLock' /\ EndedChildrenHaveWritten'
  BY <1>1, PipesArePairs DEF TypeOK, ChildFollowsCaller, PythonHasTheLock, RunningPython,
      EndedChildrenHaveWritten
<1>7. WritersHoldTheirEnds'
  <2>1. c \in Capturing => \A stream \in Streams : WriteEnd(c, c, stream) \in taken
    <3> SUFFICES ASSUME c \in Capturing, NEW stream \in Streams
                 PROVE  WriteEnd(c, c, stream) \in taken
      OBVIOUS
    <3>1. WriteEnd(Nobody, c, stream) \in holds
      BY <1>1 DEF WritersHoldTheirEnds, Streams
    <3>2. WriteEnd(Nobody, c, stream) \in given
      BY <3>1 DEF HeldBy, WriteEnd
    <3>3. [WriteEnd(Nobody, c, stream) EXCEPT !.by = c] = WriteEnd(c, c, stream)
      BY DEF WriteEnd
    <3> QED BY <3>2, <3>3
  <2> QED BY <1>1, <2>1 DEF TypeOK, WritersHoldTheirEnds, Capturing, Callers, Jobs
<1>8. EndsAreSeenByTheLoop'
  <2>1. \A p \in Pipes : p[1] = c => c \in Capturing
    BY PipesArePairs
  <2> QED BY <1>1, <2>1, PipesArePairs DEF TypeOK, EndsAreSeenByTheLoop
<1>9. EndOfFileIsReal'
  BY <1>1, <1>2 DEF EndOfFileIsReal, Writable
<1> QED BY <1>4, <1>5, <1>6, <1>7, <1>8, <1>9

LEMMA CloseWriteEndsPreserves ==
  ASSUME IInv, NEW c \in Callers, CloseWriteEnds(c)
  PROVE  IInv'
<1> USE DEF IInv
<1>1. /\ pc[c] = "close" /\ pc' = [pc EXCEPT ![c] = "poll"]
      /\ holds' = holds \ { h \in HeldBy(Nobody) : h.of[1] = c /\ h.end = "write" }
      /\ UNCHANGED <<main, gil, child, left, buffer, output, ended>>
  BY DEF CloseWriteEnds, ioVars
<1>2. TypeOK'
  BY <1>1 DEF TypeOK
<1>3. /\ CommandsNotCaptured' /\ ChildFollowsCaller' /\ PythonHasTheLock'
      /\ EndedChildrenHaveWritten' /\ EndsAreSeenByTheLoop'
  BY <1>1, PipesArePairs DEF TypeOK, CommandsNotCaptured, ChildFollowsCaller, PythonHasTheLock,
      RunningPython,
    EndedChildrenHaveWritten, EndsAreSeenByTheLoop
<1>4. WritersHoldTheirEnds'
  <2>1. \A d \in Capturing, by \in Processes, stream \in Streams :
          /\ WriteEnd(by, d, stream) \in holds
          /\ by # Nobody \/ d # c
          => WriteEnd(by, d, stream) \in holds'
    BY <1>1 DEF WriteEnd, HeldBy
  <2>2. \A d \in Capturing : d \in Processes /\ d # Nobody /\ d \in Callers
    BY InputAssumption DEF Capturing, Callers, Jobs, Processes
  <2>3. Nobody \in Processes /\ "stdout" \in Streams /\ "stderr" \in Streams
    BY DEF Processes, Streams
  <2>4. ASSUME NEW d \in Capturing
        PROVE  /\ pc'[d] \in {"pipe2", "fork"} => WriteEnd(Nobody, d, "stdout") \in holds'
               /\ pc'[d] = "fork" => WriteEnd(Nobody, d, "stderr") \in holds'
    BY <1>1, <2>1, <2>2, <2>3 DEF TypeOK, WritersHoldTheirEnds
  <2>5. ASSUME NEW d \in Capturing, child'[d] = "running", NEW stream \in Streams
        PROVE  WriteEnd(d, d, stream) \in holds'
    BY <1>1, <2>1, <2>2, <2>5 DEF WritersHoldTheirEnds
  <2> QED BY <2>4, <2>5 DEF WritersHoldTheirEnds
<1>5. EndOfFileIsReal'
  BY <1>1 DEF EndOfFileIsReal, Writable
<1> QED BY <1>2, <1>3, <1>4, <1>5

LEMMA PollPreserves ==
  ASSUME IInv, NEW c \in Callers, Poll(c)
  PROVE  IInv'
<1> USE DEF IInv
<1> DEFINE ready == { pipe \in {c} \X Streams : Ready(pipe) }
           data == { pipe \in ready : buffer[pipe] > 0 }
<1>1. /\ pc[c] = "poll" /\ UNCHANGED <<main, pc, gil, holds, child, left>>
      /\ buffer' = [p \in Pipes |-> IF p \in data THEN buffer[p] - 1 ELSE buffer[p]]
      /\ output' = [p \in Pipes |-> IF p \in data THEN output[p] + 1 ELSE output[p]]
      /\ ended' = ended \cup (ready \ data)
  BY DEF Poll
<1>2. c \in Capturing /\ ready \subseteq Pipes
  BY <1>1, InputAssumption DEF CommandsNotCaptured, Capturing, Callers, Jobs, Pipes
<1>3. \A p \in ready \ data : buffer[p] = 0 /\ ~Writable(p)
  BY <1>2 DEF TypeOK, Ready
<1>4. TypeOK'
  <2>1. buffer' \in [Pipes -> 0 .. Capacity] /\ output' \in [Pipes -> Nat]
    BY <1>1, InputAssumption DEF TypeOK
  <2> QED BY <1>1, <1>2, <2>1 DEF TypeOK
<1>5. /\ CommandsNotCaptured' /\ ChildFollowsCaller' /\ PythonHasTheLock'
      /\ EndedChildrenHaveWritten' /\ WritersHoldTheirEnds'
  BY <1>1 DEF CommandsNotCaptured, ChildFollowsCaller, PythonHasTheLock, RunningPython,
      EndedChildrenHaveWritten,
    WritersHoldTheirEnds
<1>6. EndsAreSeenByTheLoop'
  <2>1. \A p \in ready : p[1] = c
    OBVIOUS
  <2> QED BY <1>1, <2>1 DEF EndsAreSeenByTheLoop
<1>7. EndOfFileIsReal'
  <2> SUFFICES ASSUME NEW p \in ended' PROVE buffer'[p] = 0 /\ ~Writable(p)'
    BY DEF EndOfFileIsReal
  <2>1. p \in Pipes /\ buffer[p] = 0 /\ ~Writable(p)
    BY <1>1, <1>2, <1>3 DEF EndOfFileIsReal, TypeOK
  <2> QED BY <1>1, <2>1 DEF Writable
<1> QED BY <1>4, <1>5, <1>6, <1>7

LEMMA LeaveLoopPreserves ==
  ASSUME IInv, NEW c \in Callers, LeaveLoop(c)
  PROVE  IInv'
<1> USE DEF IInv
<1>1. /\ pc[c] = "poll" /\ {c} \X Streams \subseteq ended /\ pc' = [pc EXCEPT ![c] = "wait"]
      /\ UNCHANGED <<main, gil, holds, child, left, buffer, output, ended>>
  BY DEF LeaveLoop, ioVars
<1>2. TypeOK' /\ CommandsNotCaptured' /\ ChildFollowsCaller' /\ PythonHasTheLock'
  BY <1>1 DEF TypeOK, CommandsNotCaptured, ChildFollowsCaller, PythonHasTheLock, RunningPython
<1>3. EndedChildrenHaveWritten' /\ WritersHoldTheirEnds'
  BY <1>1 DEF TypeOK, EndedChildrenHaveWritten, WritersHoldTheirEnds, Capturing, Callers
<1>4. EndsAreSeenByTheLoop'
  <2>1. \A p \in Pipes : p[1] = c => p \in ended
    BY <1>1, PipesArePairs
  <2> QED BY <1>1, <2>1, PipesArePairs DEF TypeOK, EndsAreSeenByTheLoop
<1>5. EndOfFileIsReal'
  BY <1>1 DEF EndOfFileIsReal, Writable
<1> QED BY <1>2, <1>3, <1>4, <1>5

LEMMA WaitForChildPreserves ==
  ASSUME IInv, NEW c \in Callers, WaitForChild(c)
  PROVE  IInv'
<1> USE DEF IInv
<1>1. /\ pc[c] = "wait" /\ child[c] = "exited"
      /\ child' = [child EXCEPT ![c] = "reaped"] /\ pc' = [pc EXCEPT ![c] = "returned"]
      /\ UNCHANGED <<main, gil, holds, left, buffer, output, ended>>
  BY DEF WaitForChild, ioVars
<1>2. TypeOK' /\ CommandsNotCaptured' /\ ChildFollowsCaller' /\ PythonHasTheLock'
  BY <1>1 DEF TypeOK, CommandsNotCaptured, ChildFollowsCaller, PythonHasTheLock, RunningPython
<1>3. EndedChildrenHaveWritten' /\ WritersHoldTheirEnds' /\ EndsAreSeenByTheLoop'
  BY <1>1, PipesArePairs DEF TypeOK, EndedChildrenHaveWritten, WritersHoldTheirEnds,
    EndsAreSeenByTheLoop, Capturing, Callers
<1>4. EndOfFileIsReal'
  BY <1>1 DEF EndOfFileIsReal, Writable
<1> QED BY <1>2, <1>3, <1>4

\* The steps of exec, in any thread.
LEMMA ExecPreserves ==
  ASSUME IInv, NEW c \in Callers, Exec(c)
  PROVE  IInv'
<1>1. CASE OpenPipe(c, "pipe", "stdout", "pipe2") \/ OpenPipe(c, "pipe2", "stderr", "fork")
  <2>1. c \in Capturing
    BY <1>1, InputAssumption DEF OpenPipe, IInv, CommandsNotCaptured, Capturing, Callers, Jobs
  <2> QED BY <1>1, <2>1, OpenPipePreserves
<1>2. CASE Fork(c)
  BY <1>2, ForkPreserves
<1>3. CASE CloseWriteEnds(c)
  BY <1>3, CloseWriteEndsPreserves
<1>4. CASE Poll(c)
  BY <1>4, PollPreserves
<1>5. CASE LeaveLoop(c)
  BY <1>5, LeaveLoopPreserves
<1>6. CASE WaitForChild(c)
  BY <1>6, WaitForChildPreserves
<1> QED BY <1>1, <1>2, <1>3, <1>4, <1>5, <1>6 DEF Exec

-------------------------------------------------------------------------------
(* The children. *)

LEMMA WritePreserves ==
  ASSUME IInv, NEW c \in Callers, Write(c)
  PROVE  IInv'
<1> USE DEF IInv
<1>1. PICK pipe \in {c} \X Streams :
        /\ pipe \in Pipes /\ left[pipe] > 0 /\ buffer[pipe] < Capacity
        /\ left' = [left EXCEPT ![pipe] = @ - 1]
        /\ buffer' = [buffer EXCEPT ![pipe] = @ + 1]
  BY DEF Write
<1>2. child[c] = "running" /\ UNCHANGED <<main, pc, gil, holds, child, output, ended>>
  BY DEF Write
<1>3. Writable(pipe)
  <2>1. pipe = <<c, pipe[2]>> /\ pipe[2] \in Streams /\ c \in Capturing
    BY <1>1, PipesArePairs
  <2>2. WriteEnd(c, c, pipe[2]) \in holds
    BY <1>2, <2>1 DEF WritersHoldTheirEnds
  <2> QED BY <2>1, <2>2 DEF Writable, WriteEnd
<1>4. pipe \notin ended
  BY <1>3 DEF EndOfFileIsReal
<1>5. TypeOK'
  <2>1. buffer' \in [Pipes -> 0 .. Capacity] /\ left' \in [Pipes -> 0 .. MaxOutput]
    BY <1>1, InputAssumption DEF TypeOK
  <2> QED BY <1>2, <2>1 DEF TypeOK
<1>6. /\ CommandsNotCaptured' /\ ChildFollowsCaller' /\ PythonHasTheLock'
      /\ WritersHoldTheirEnds' /\ EndsAreSeenByTheLoop'
  BY <1>2 DEF CommandsNotCaptured, ChildFollowsCaller, PythonHasTheLock, RunningPython,
      WritersHoldTheirEnds,
    EndsAreSeenByTheLoop
<1>7. EndedChildrenHaveWritten'
  <2>1. pipe[1] = c
    OBVIOUS
  <2> QED BY <1>1, <1>2, <2>1 DEF EndedChildrenHaveWritten, TypeOK
<1>8. EndOfFileIsReal'
  BY <1>1, <1>2, <1>4 DEF EndOfFileIsReal, Writable, TypeOK
<1> QED BY <1>5, <1>6, <1>7, <1>8

LEMMA ExitPreserves ==
  ASSUME IInv, NEW c \in Callers, Exit(c)
  PROVE  IInv'
<1> USE DEF IInv
<1>1. /\ child[c] = "running" /\ child' = [child EXCEPT ![c] = "exited"]
      /\ \A pipe \in Pipes : pipe[1] = c => left[pipe] = 0
      /\ holds' \subseteq holds /\ \A h \in holds : h.by # c => h \in holds'
      /\ UNCHANGED <<main, pc, gil, left, buffer, output, ended>>
  BY DEF Exit, ioVars, HeldBy
<1>2. TypeOK' /\ CommandsNotCaptured' /\ ChildFollowsCaller' /\ PythonHasTheLock'
  BY <1>1 DEF TypeOK, CommandsNotCaptured, ChildFollowsCaller, PythonHasTheLock, RunningPython
<1>3. EndedChildrenHaveWritten' /\ EndsAreSeenByTheLoop'
  BY <1>1, PipesArePairs DEF TypeOK, EndedChildrenHaveWritten, EndsAreSeenByTheLoop
<1>4. WritersHoldTheirEnds'
  <2>1. c # Nobody
    BY InputAssumption
  <2>2. \A d \in Capturing : d # c => child'[d] = child[d]
    BY <1>1 DEF TypeOK
  <2>3. child'[c] # "running"
    BY <1>1 DEF TypeOK
  <2> QED BY <1>1, <2>1, <2>2, <2>3 DEF WritersHoldTheirEnds, WriteEnd
<1>5. EndOfFileIsReal'
  BY <1>1 DEF EndOfFileIsReal, Writable
<1> QED BY <1>2, <1>3, <1>4, <1>5

-------------------------------------------------------------------------------
(* The callers around exec: no descriptor, pipe or child changes. *)

Before == {"idle", "started", "pipe", "pipe2", "fork", "failed", "returned"}
After == {"started", "pipe", "fork", "failed", "done"}

\* A caller moves on, and the lock changes hands, as the invariant allows.
LEMMA MovePreserves ==
  ASSUME IInv, TypeOK', CommandsNotCaptured', ChildFollowsCaller', PythonHasTheLock',
         UNCHANGED <<holds, child, ioVars>>,
         NEW c \in Callers, NEW to, pc' = [pc EXCEPT ![c] = to],
         pc[c] \in Before, to \in After,
         to = "fork" => c \notin Capturing,
         pc[c] = "returned" => to = "done"
  PROVE  IInv'
<1> USE DEF IInv
<1>1. EndedChildrenHaveWritten' /\ EndOfFileIsReal'
  BY DEF EndedChildrenHaveWritten, EndOfFileIsReal, Writable, ioVars
<1>2. WritersHoldTheirEnds'
  BY DEF WritersHoldTheirEnds, TypeOK, Before, After, Capturing, Callers
<1>3. EndsAreSeenByTheLoop'
  <2>1. ended' = ended /\ pc' \in [Callers -> {to} \cup { pc[d] : d \in Callers }]
    BY DEF ioVars, TypeOK
  <2>2. \A p \in Pipes : p[1] # c => pc'[p[1]] = pc[p[1]]
    BY PipesArePairs DEF TypeOK
  <2>3. pc'[c] = to
    BY DEF TypeOK
  <2>4. ended \subseteq Pipes
    BY DEF TypeOK
  <2> QED BY <2>1, <2>2, <2>3, <2>4 DEF EndsAreSeenByTheLoop, Before, After
<1> QED BY <1>1, <1>2, <1>3

LEMMA CallFailsPreserves ==
  ASSUME IInv, NEW c \in Callers, CallFails(c)
  PROVE  IInv'
<1>1. /\ pc[c] \in {"pipe", "pipe2", "fork"} /\ pc' = [pc EXCEPT ![c] = "failed"]
      /\ UNCHANGED <<main, gil, holds, child, ioVars>>
  BY DEF CallFails
<1>2. TypeOK' /\ CommandsNotCaptured' /\ ChildFollowsCaller' /\ PythonHasTheLock'
  BY <1>1 DEF IInv, TypeOK, CommandsNotCaptured, ChildFollowsCaller, PythonHasTheLock,
      RunningPython, ioVars
<1> QED BY <1>1, <1>2, MovePreserves DEF Before, After

\* While nobody has the lock nobody runs Python.
LEMMA NobodyRunsPython ==
  ASSUME PythonHasTheLock, gil = Nobody
  PROVE  RunningPython = {}
BY InputAssumption DEF PythonHasTheLock, RunningPython, Callers, Jobs

LEMMA JobPreserves ==
  ASSUME IInv, NEW j \in Jobs, Substitute(j) \/ TakeLock(j) \/ EndJob(j)
  PROVE  IInv'
<1>1. j \in Callers /\ j # Main
  BY InputAssumption DEF Callers
<1>2. CASE Substitute(j)
  <2>1. /\ j \in Commands /\ pc[j] = "started" /\ pc' = [pc EXCEPT ![j] = "fork"]
        /\ UNCHANGED <<main, gil, holds, child, ioVars>>
    BY <1>2 DEF Substitute
  <2>2. TypeOK' /\ CommandsNotCaptured' /\ ChildFollowsCaller' /\ PythonHasTheLock'
    BY <1>1, <2>1, InputAssumption
    DEF IInv, TypeOK, CommandsNotCaptured, ChildFollowsCaller, PythonHasTheLock, RunningPython,
        ioVars
  <2>3. j \notin Capturing
    BY <1>1, <2>1, InputAssumption DEF Capturing
  <2> QED BY <1>1, <2>1, <2>2, <2>3, MovePreserves DEF Before, After
<1>3. CASE TakeLock(j)
  <2>1. /\ j \in PythonJobs /\ pc[j] = "started" /\ pc' = [pc EXCEPT ![j] = "pipe"]
        /\ gil = Nobody /\ gil' = j
        /\ UNCHANGED <<main, holds, child, ioVars>>
    BY <1>3 DEF TakeLock
  <2>2. TypeOK' /\ ChildFollowsCaller'
    BY <1>1, <2>1 DEF IInv, TypeOK, ChildFollowsCaller, ioVars
  <2>3. CommandsNotCaptured'
    BY <1>1, <2>1, InputAssumption DEF IInv, TypeOK, CommandsNotCaptured
  <2>4. PythonHasTheLock'
    <3>1. RunningPython = {}
      BY <2>1, NobodyRunsPython DEF IInv
    <3>2. \A k \in Callers \ {j} : pc'[k] = pc[k]
      BY <2>1 DEF IInv, TypeOK
    <3>3. RunningPython' \subseteq {j}
      BY <2>1, <3>1, <3>2 DEF RunningPython, Callers, Jobs
    <3> QED BY <2>1, <3>3 DEF PythonHasTheLock
  <2> QED BY <1>1, <2>1, <2>2, <2>3, <2>4, MovePreserves DEF Before, After
<1>4. CASE EndJob(j)
  <2>1. /\ pc[j] \in {"returned", "failed"} /\ pc' = [pc EXCEPT ![j] = "done"]
        /\ gil' = IF gil = j THEN Nobody ELSE gil
        /\ UNCHANGED <<main, holds, child, ioVars>>
    BY <1>4 DEF EndJob
  <2>2. TypeOK' /\ CommandsNotCaptured' /\ ChildFollowsCaller'
    BY <1>1, <2>1 DEF IInv, TypeOK, CommandsNotCaptured, ChildFollowsCaller, ioVars
  <2>3. PythonHasTheLock'
    <3>1. \A k \in Callers \ {j} : pc'[k] = pc[k]
      BY <2>1 DEF IInv, TypeOK
    <3>2. pc'[j] = "done"
      BY <1>1, <2>1 DEF IInv, TypeOK
    <3>3. RunningPython' \subseteq RunningPython \ {j}
      BY <1>1, <2>1, <3>1, <3>2 DEF RunningPython, Callers, Jobs
    <3> QED BY <2>1, <3>3 DEF IInv, PythonHasTheLock
  <2> QED BY <1>1, <2>1, <2>2, <2>3, MovePreserves DEF Before, After
<1> QED BY <1>2, <1>3, <1>4

\* The steps of the main thread that leave every caller where it is.
LEMMA MainPreserves ==
  ASSUME IInv, StartBuild \/ ScriptFails \/ EndLoop \/ TakeLockBack \/ Throw
  PROVE  IInv'
<1> USE DEF IInv
<1>1. UNCHANGED <<pc, holds, child, ioVars>>
  BY DEF StartBuild, ScriptFails, EndLoop, TakeLockBack, Throw, ioVars
<1>2. main' \in {"script", "build", "returning", "after", "threw"} /\ gil' \in {gil, Nobody, Main}
  BY DEF StartBuild, ScriptFails, EndLoop, TakeLockBack, Throw
<1>5. PythonHasTheLock'
  <2>1. CASE StartBuild
    <3>1. gil = Main
      BY <2>1 DEF StartBuild, PythonHasTheLock, RunningPython
    <3>2. RunningPython \subseteq {Main}
      BY <3>1 DEF PythonHasTheLock
    <3>3. RunningPython' = {}
      BY <1>1, <2>1, <3>2, InputAssumption DEF StartBuild, RunningPython, Jobs
    <3> QED BY <3>3 DEF PythonHasTheLock
  <2>2. CASE TakeLockBack
    <3>1. RunningPython = {}
      BY <2>2, NobodyRunsPython DEF TakeLockBack
    <3>2. RunningPython' \subseteq {Main}
      BY <1>1, <2>2, <3>1 DEF TakeLockBack, RunningPython
    <3> QED BY <2>2, <3>2 DEF TakeLockBack, PythonHasTheLock
  <2>3. CASE ScriptFails \/ EndLoop \/ Throw
    BY <1>1, <2>3 DEF ScriptFails, EndLoop, Throw, PythonHasTheLock, RunningPython
  <2> QED BY <2>1, <2>2, <2>3
<1>3. TypeOK'
  BY <1>1, <1>2 DEF TypeOK, ioVars, Callers
<1>4. /\ CommandsNotCaptured' /\ ChildFollowsCaller' /\ WritersHoldTheirEnds'
      /\ EndsAreSeenByTheLoop' /\ EndedChildrenHaveWritten' /\ EndOfFileIsReal'
  BY <1>1 DEF CommandsNotCaptured, ChildFollowsCaller, WritersHoldTheirEnds, EndsAreSeenByTheLoop,
    EndedChildrenHaveWritten, EndOfFileIsReal, Writable, ioVars
<1> QED BY <1>3, <1>4, <1>5

LEMMA StartJobPreserves ==
  ASSUME IInv, NEW j \in Jobs, StartJob(j)
  PROVE  IInv'
<1>1. /\ j \in Callers /\ pc[j] = "idle" /\ pc' = [pc EXCEPT ![j] = "started"]
      /\ UNCHANGED <<main, gil, holds, child, ioVars>>
  BY DEF StartJob, Callers
<1>2. TypeOK' /\ CommandsNotCaptured' /\ ChildFollowsCaller' /\ PythonHasTheLock'
  BY <1>1 DEF IInv, TypeOK, CommandsNotCaptured, ChildFollowsCaller, PythonHasTheLock,
      RunningPython, ioVars
<1> QED BY <1>1, <1>2, MovePreserves DEF Before, After

-------------------------------------------------------------------------------
LEMMA NextPreserves == IInv /\ [Next]_vars => IInv'
<1> SUFFICES ASSUME IInv, [Next]_vars PROVE IInv'
  OBVIOUS
<1>1. CASE MainThread
  <2>1. Main \in Callers
    BY DEF Callers
  <2> QED BY <1>1, <2>1, ExecPreserves, CallFailsPreserves, MainPreserves, StartJobPreserves
          DEF MainThread
<1>2. CASE Throw
  BY <1>2, MainPreserves
<1>3. CASE \E j \in Jobs : Job(j)
  <2>1. Jobs \subseteq Callers
    BY DEF Callers
  <2> QED BY <1>3, <2>1, ExecPreserves, CallFailsPreserves, JobPreserves DEF Job
<1>4. CASE \E c \in Callers : Child(c)
  BY <1>4, WritePreserves, ExitPreserves DEF Child
<1>5. CASE UNCHANGED vars
  BY <1>5 DEF vars, ioVars, IInv, TypeOK, CommandsNotCaptured, ChildFollowsCaller,
    WritersHoldTheirEnds, EndsAreSeenByTheLoop, EndedChildrenHaveWritten, EndOfFileIsReal,
    Writable, PythonHasTheLock, RunningPython
<1> QED BY <1>1, <1>2, <1>3, <1>4, <1>5 DEF Next

THEOREM InvariantHolds == Spec => []IInv
BY InitIsInvariant, NextPreserves, PTL DEF Spec

\* Every variable stays in its type, whoever runs and whatever fails.
THEOREM TypesAreRight == Spec => []TypeOK
BY InvariantHolds, PTL DEF IInv

\* A pipe that exec takes to have ended is empty and nobody can write to it any more,
\* however many threads fork at the same time.
THEOREM EndsAreReal == Spec => []EndOfFileIsReal
BY InvariantHolds, PTL DEF IInv

\* exec returns all that the command has written.
THEOREM OutputsAreComplete == Spec => []OutputIsComplete
<1>1. IInv => OutputIsComplete
  <2> SUFFICES ASSUME IInv, NEW p \in Pipes, pc[p[1]] \in {"wait", "returned"}
               PROVE  left[p] = 0 /\ buffer[p] = 0
    BY DEF OutputIsComplete
  <2> USE DEF IInv
  <2>1. p \in ended
    BY DEF EndsAreSeenByTheLoop
  <2>2. buffer[p] = 0 /\ ~Writable(p)
    BY <2>1 DEF EndOfFileIsReal
  <2>3. child[p[1]] # "running"
    BY <2>2, PipesArePairs DEF WritersHoldTheirEnds, WriteEnd, Writable
  <2>4. child[p[1]] \in {"exited", "reaped"}
    BY <2>3, PipesArePairs DEF ChildFollowsCaller
  <2>5. left[p] = 0
    BY <2>4 DEF EndedChildrenHaveWritten
  <2> QED BY <2>2, <2>5
<1> QED BY <1>1, InvariantHolds, PTL

\* Python code of two threads never runs at the same time, also when -k ends the loop
\* while jobs run: whoever runs it has taken the lock from nobody and still holds it.
THEOREM PythonIsAlone == Spec => []PythonRunsAlone
<1>1. IInv => PythonRunsAlone
  BY DEF IInv, PythonHasTheLock, RunningPython, PythonRunsAlone
<1> QED BY <1>1, InvariantHolds, PTL
==============================================================================
