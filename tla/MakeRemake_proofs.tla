-------------------------- MODULE MakeRemake_proofs --------------------------
(* Proofs about MakeRemake for every graph, any edits, failing commands and   *)
(* kills: what was asked for is built by current rules, and -B builds all, of *)
(* what there is then.                                                        *)
EXTENDS MakeRemake, TLAPS

-------------------------------------------------------------------------------
(* What a file depends on. *)

LEMMA BelowIsClosed ==
  ASSUME NEW f \in Files
  PROVE  /\ f \in Below[f] /\ Below[f] \subseteq Files
         /\ \A m \in Below[f] \cap Made : Edges[m] \subseteq Below[f]
<1>1. ASSUME NEW m \in Below[f] \cap Made, NEW d \in Edges[m] PROVE d \in Below[f]
  <2>1. d \in Files
    BY InputAssumption
  <2>2. ASSUME NEW S \in Closed, f \in S PROVE d \in S
    BY <1>1, <2>2 DEF Below, Closed
  <2> QED BY <2>1, <2>2 DEF Below
<1> QED BY <1>1 DEF Below

LEMMA BelowIsLeast ==
  ASSUME NEW f \in Files, NEW S \in Closed, f \in S PROVE Below[f] \subseteq S
BY DEF Below

LEMMA BelowOfSource ==
  ASSUME NEW s \in Sources PROVE Below[s] = {s}
<1>1. s \in Files /\ {s} \in Closed
  BY InputAssumption DEF Files, Closed
<1> QED BY <1>1, BelowIsClosed, BelowIsLeast

LEMMA BelowOfMade ==
  ASSUME NEW m \in Made PROVE Below[m] = {m} \cup UNION { Below[d] : d \in Edges[m] }
<1> DEFINE S == {m} \cup UNION { Below[d] : d \in Edges[m] }
<1>1. m \in Files /\ Edges[m] \subseteq Files
  BY InputAssumption DEF Files
<1>2. S \subseteq Files
  BY <1>1, BelowIsClosed
<1>3. ASSUME NEW n \in S \cap Made, NEW e \in Edges[n] PROVE e \in S
  <2>1. CASE n = m
    BY <1>1, <1>3, <2>1, BelowIsClosed
  <2>2. CASE n # m
    <3>1. PICK d \in Edges[m] : n \in Below[d]
      BY <1>3, <2>2
    <3>2. e \in Below[d]
      BY <1>1, <1>3, <3>1, BelowIsClosed
    <3> QED BY <3>1, <3>2
  <2> QED BY <2>1, <2>2
<1>4. S \in Closed
  BY <1>2, <1>3 DEF Closed
<1>5. Below[m] \subseteq S
  BY <1>1, <1>4, BelowIsLeast
<1>6. Below[m] \in Closed /\ \A d \in Edges[m] : d \in Below[m]
  BY <1>1, BelowIsClosed DEF Closed
<1>7. \A d \in Edges[m] : Below[d] \subseteq Below[m]
  BY <1>1, <1>6, BelowIsLeast
<1> QED BY <1>1, <1>5, <1>7, BelowIsClosed

\* Files that no phony target and not what is asked for has a part in.
Plain == { f \in Files : Target \notin Below[f] /\ Phony \cap Below[f] = {} }

\* What the theorems assume of the Makefile: the rule with its commands names all it
\* is made of, and nothing of it is phony.
\* The commands of its parts are found, and one that can fail leaves no other
\* part undecided.
WellMade ==
  /\ TaskSources[Makefile] = Edges[Makefile] /\ Phony \cap Below[Makefile] = {}
  /\ Throwing \cap Parts = {} /\ \A f \in Failing \cap Parts : Parts = {f}

LEMMA PlainFiles ==
  /\ Plain \subseteq Files /\ Target \notin Plain
  /\ \A t \in Plain \cap Made : Edges[t] \subseteq Plain
  /\ \A t \in Plain : t \notin Phony
<1>1. Target \in Files
  BY InputAssumption DEF Files
<1>2. Plain \subseteq Files /\ Target \notin Plain /\ \A t \in Plain : t \notin Phony
  BY <1>1, BelowIsClosed DEF Plain
<1>3. ASSUME NEW t \in Plain \cap Made, NEW d \in Edges[t] PROVE d \in Plain
  <2>1. d \in Files /\ t \in Files
    BY <1>2, InputAssumption
  <2>2. Below[d] \subseteq Below[t]
    BY BelowOfMade
  <2> QED BY <2>1, <2>2 DEF Plain
<1> QED BY <1>2, <1>3

LEMMA MakefileParts ==
  ASSUME WellMade
  PROVE  /\ Makefile \in Plain \cap Made /\ Makefile \in Files
         /\ Edges[Makefile] \subseteq Plain
         /\ Below[Makefile] \subseteq Files /\ Below[Makefile] \cap Made \subseteq Plain
         /\ Edges[Makefile] \cap Made \subseteq Parts
         /\ \A t \in Parts : Edges[t] \subseteq Below[Makefile] /\ Edges[t] \cap Made \subseteq Parts
<1>1. Makefile \in Files /\ Makefile \in Made
  BY InputAssumption DEF Files
<1>2. Makefile \in Plain
  BY <1>1, InputAssumption DEF WellMade, Plain
<1>3. Below[Makefile] \subseteq Files /\ \A m \in Below[Makefile] \cap Made :
        Edges[m] \subseteq Below[Makefile]
  BY <1>1, BelowIsClosed
<1>4. Makefile \in Below[Makefile]
  BY <1>1, BelowIsClosed
<1>5. \A f \in Below[Makefile] : Below[f] \subseteq Below[Makefile]
  <2>1. Below[Makefile] \in Closed
    BY <1>3 DEF Closed
  <2> QED BY <1>3, <2>1, BelowIsLeast
<1>6. Below[Makefile] \subseteq Plain
  BY <1>3, <1>5, InputAssumption DEF Plain, WellMade
<1>7. ASSUME NEW d \in Edges[Makefile] PROVE d # Makefile
  BY <1>1, <1>4, <1>7, InputAssumption
<1>8. ASSUME NEW t \in Parts, NEW d \in Edges[t] PROVE d # Makefile
  \* The Makefile is not made of itself.
  <2>1. PICK e \in Edges[Makefile] : t \in Below[e]
    BY <1>1, BelowOfMade DEF Parts
  <2>2. e \in Files /\ t \in Made
    BY <1>3, <1>1, InputAssumption DEF Parts
  <2>3. d \in Below[e]
    BY <2>1, <2>2, BelowIsClosed
  <2> QED BY <1>1, <2>1, <2>3, InputAssumption
<1> QED BY <1>1, <1>2, <1>3, <1>4, <1>6, <1>7, <1>8 DEF Parts

-------------------------------------------------------------------------------
(* A process by itself. *)

Types ==
  /\ clock \in 1 .. MaxClock
  /\ mtime \in [Files -> 0 .. clock] /\ DOMAIN content = Files
  /\ version \in [Sources -> 1 .. clock]
  /\ DOMAIN record = Parts /\ DOMAIN mem = Parts
  /\ phase \in {"idle", "remake", "build"}
  /\ node \in [Files -> {"todo", "built", "failed"}]

\* What is built has what it depends on built, and what failed left a mark.
WalkInv ==
  /\ \A s \in Sources : node[s] = "built"
  /\ \A t \in Made : /\ node[t] = "built" => \A d \in Edges[t] : node[d] = "built"
                     /\ node[t] = "failed" => failed

ForcedInv ==
  phase = "build" /\ options.always =>
    always /\ \A t \in Made : node[t] = "built" => t \in ran

ProcessInv == Types /\ WalkInv /\ ForcedInv

LEMMA NothingIsDecided ==
  ASSUME node' = NothingDecided
  PROVE  /\ node' \in [Files -> {"todo", "built", "failed"}] /\ WalkInv'
         /\ \A t \in Made : node'[t] = "todo"
BY InputAssumption DEF NothingDecided, WalkInv, Files

LEMMA ParseKeeps ==
  ASSUME Types, NEW o, Parse(o),
         UNCHANGED fileVars, DOMAIN record' = Parts, DOMAIN mem' = Parts
  PROVE  ProcessInv'
<1>1. phase' = "remake" /\ node' = NothingDecided
  BY DEF Parse
<1> QED
  BY <1>1, NothingIsDecided DEF Types, ForcedInv, ProcessInv, fileVars

LEMMA ExitKeeps ==
  ASSUME NEW m, DOMAIN m = Parts, Exit(m),
         clock' \in 1 .. MaxClock, mtime' \in [Files -> 0 .. clock'], DOMAIN content' = Files,
         version' \in [Sources -> 1 .. clock']
  PROVE  ProcessInv'
<1>1. phase' = "idle" /\ node' = NothingDecided /\ record' = m /\ mem' = NoRecords
  BY DEF Exit
<1> QED
  BY <1>1, NothingIsDecided DEF Types, ForcedInv, ProcessInv, NoRecords

LEMMA WrittenAndRemembered ==
  /\ \A m, seen, thrown : DOMAIN Written(m, seen, thrown) = Parts
  /\ \A t, r : DOMAIN Remembered(t, r) = Parts
BY DEF Written, Remembered

LEMMA ProcessInvKept ==
  ASSUME ProcessInv, [Next]_vars PROVE ProcessInv'
<1> USE DEF ProcessInv
<1>1. CASE UNCHANGED vars
  BY <1>1 DEF vars, fileVars, runVars, Types, WalkInv, ForcedInv
<1>2. ASSUME NEW o \in Options, Start(o) PROVE ProcessInv'
  BY <1>2, ParseKeeps DEF Start, Types
\* A node was decided; what else changed is up to the caller.
<1>3. ASSUME NEW t \in Made, NEW result \in {"built", "failed"},
             node' = [node EXCEPT ![t] = result], phase # "idle",
             UNCHANGED <<clock, version, phase, options, always>>,
             mtime' \in [Files -> 0 .. clock], DOMAIN content' = Files,
             DOMAIN record' = Parts, DOMAIN mem' = Parts,
             ran \subseteq ran', node[t] = "todo",
             failed => failed', result = "failed" => failed',
             result = "built" => \A d \in Edges[t] : node[d] = "built",
             result = "built" => t \in ran' \/ ~always
      PROVE  ProcessInv'
  <2>1. t \in Files /\ t \notin Sources
    BY InputAssumption DEF Files
  <2>2. Types'
    BY <1>3, <2>1 DEF Types
  <2>3. node'[t] = result /\ \A f \in Files \ {t} : node'[f] = node[f]
    BY <1>3, <2>1 DEF Types
  <2>4. \A n \in Made : Edges[n] \subseteq Files
    BY InputAssumption
  <2>5. \A s \in Sources : node'[s] = "built"
    BY <2>1, <2>3 DEF WalkInv, Files
  <2>6. ASSUME NEW n \in Made, node'[n] = "built", NEW d \in Edges[n] PROVE node'[d] = "built"
    <3>1. node[d] = "built"
      BY <1>3, <2>3, <2>6 DEF WalkInv, Files
    <3> QED BY <1>3, <2>3, <2>4, <3>1
  <2>7. ASSUME NEW n \in Made, node'[n] = "failed" PROVE failed'
    BY <1>3, <2>3, <2>7 DEF WalkInv, Files
  <2>8. ForcedInv'
    BY <1>3, <2>3 DEF ForcedInv, Files
  <2> QED BY <2>2, <2>5, <2>6, <2>7, <2>8 DEF WalkInv
<1>4. ASSUME NEW t \in Made, Spread(t) PROVE ProcessInv'
  <2>1. \E d \in Edges[t] : node[d] = "failed" /\ d \in Files
    BY <1>4, InputAssumption DEF Spread
  <2>2. failed
    BY <2>1, InputAssumption DEF WalkInv, Files
  <2> QED BY <1>3, <1>4, <2>2 DEF Spread, fileVars, Types
<1>5. ASSUME NEW t \in Made, Settle(t) PROVE ProcessInv'
  BY <1>3, <1>5 DEF Settle, Ready, fileVars, Types
<1>6. ASSUME NEW t \in Made, Succeed(t) PROVE ProcessInv'
  <2>1. clock \in 0 .. clock
    BY InputAssumption DEF Types
  <2>2. mtime' \in [Files -> 0 .. clock] /\ DOMAIN content' = Files
    BY <1>6, <2>1 DEF Succeed, Types
  <2>3. DOMAIN record' = Parts /\ DOMAIN mem' = Parts
    BY <1>6, WrittenAndRemembered DEF Succeed, Types
  <2> QED BY <1>3, <1>6, <2>2, <2>3 DEF Succeed, Run, Ready
<1>7. ASSUME NEW t \in Made, Fail(t) \/ NotFound(t) PROVE ProcessInv'
  <2>1. /\ \/ mtime' = [mtime EXCEPT ![t] = 0] /\ content' = [content EXCEPT ![t] = {}]
           \/ UNCHANGED <<mtime, content>>
        /\ UNCHANGED <<clock, version>>
        /\ node[t] = "todo" /\ phase # "idle"
        /\ NotDone(t, threw \ {t}) \/ NotDone(t, threw \cup {t})
    BY <1>7 DEF Fail, NotFound, NotDone, Run, Ready
  <2>2. /\ clock \in 1 .. MaxClock /\ mtime' \in [Files -> 0 .. clock]
        /\ DOMAIN content' = Files
    <3>1. 0 \in 0 .. clock /\ clock \in 1 .. MaxClock
      BY InputAssumption DEF Types
    <3> QED BY <2>1, <3>1 DEF Types
  <2>3. CASE options.keep_going
    <3>1. /\ mem' = Remembered(t, Null) /\ node' = [node EXCEPT ![t] = "failed"]
          /\ failed' = TRUE /\ ran' = ran \cup {t}
          /\ UNCHANGED <<record, phase, options, always>>
      BY <2>1, <2>3 DEF NotDone
    <3>2. DOMAIN record' = Parts /\ DOMAIN mem' = Parts
      BY <3>1, WrittenAndRemembered DEF Types
    <3> QED BY <1>3, <2>1, <2>2, <3>1, <3>2
  <2>4. CASE ~options.keep_going
    <3>1. PICK thrown : Exit(Written(Remembered(t, Null), asked \cup {t}, thrown))
      BY <2>1, <2>4 DEF NotDone
    <3>2. version' \in [Sources -> 1 .. clock'] /\ clock' \in 1 .. MaxClock
          /\ mtime' \in [Files -> 0 .. clock'] /\ DOMAIN content' = Files
      BY <2>1, <2>2 DEF Types
    <3> QED BY <3>1, <3>2, WrittenAndRemembered, ExitKeeps
  <2> QED BY <2>3, <2>4
<1>8. CASE Throw \/ EndBuild
  BY <1>8, WrittenAndRemembered, ExitKeeps DEF Throw, EndBuild, fileVars, Types
<1>9. CASE Kill
  BY <1>9, ExitKeeps DEF Kill, fileVars, Types
<1>10. CASE Continue
  <2>1. node' = NothingDecided /\ phase' = "build" /\ always' = options.always
        /\ UNCHANGED <<fileVars, record, mem, options>>
    BY <1>10 DEF Continue
  <2> QED BY <2>1, NothingIsDecided DEF Types, ForcedInv, fileVars
<1>11. CASE Restart
  <2> DEFINE written == Written(mem, asked, threw)
  <2>1. CASE Parse(options) /\ record' = written /\ mem' = written
    BY <1>11, <2>1, WrittenAndRemembered, ParseKeeps DEF Restart, Types
  <2>2. CASE Exit(written)
    BY <1>11, <2>2, WrittenAndRemembered, ExitKeeps DEF Restart, fileVars, Types
  <2> QED BY <1>11, <2>1, <2>2 DEF Restart
<1>12. ASSUME clock' \in 1 .. MaxClock, mtime' \in [Files -> 0 .. clock'],
              DOMAIN content' = Files, version' \in [Sources -> 1 .. clock'],
              UNCHANGED <<record, mem, phase, runVars>>
       PROVE  ProcessInv'
  BY <1>12 DEF Types, WalkInv, ForcedInv, runVars
<1>13. clock \in Nat /\ (clock < MaxClock => clock + 1 \in 1 .. MaxClock)
  BY InputAssumption DEF Types
<1>14. CASE Tick
  <2>1. mtime' \in [Files -> 0 .. clock'] /\ version' \in [Sources -> 1 .. clock']
    BY <1>13, <1>14 DEF Tick, Types
  <2> QED BY <1>12, <1>13, <1>14, <2>1 DEF Tick, Types
<1>15. ASSUME NEW f, NEW new, Write(f, new), version' \in [Sources -> 1 .. clock']
       PROVE  ProcessInv'
  <2>1. clock' \in 0 .. clock' /\ 0 .. clock \subseteq 0 .. clock'
    BY <1>13, <1>15 DEF Write
  <2>2. mtime' \in [Files -> 0 .. clock'] /\ DOMAIN content' = Files
    BY <1>15, <2>1 DEF Write, Types
  <2> QED BY <1>12, <1>13, <1>15, <2>2 DEF Write
<1>16. ASSUME NEW s \in Sources, Edit(s) \/ Touch(s) PROVE ProcessInv'
  <2>1. version' \in [Sources -> 1 .. clock']
    BY <1>13, <1>16 DEF Edit, Touch, Write, Types
  <2> QED BY <1>15, <1>16, <2>1 DEF Edit, Touch
<1>17. CASE Configure
  <2>1. version' \in [Sources -> 1 .. clock']
    BY <1>13, <1>17 DEF Configure, Write, Types
  <2> QED BY <1>15, <1>17, <2>1 DEF Configure
<1>18. ASSUME NEW f, Delete(f) PROVE ProcessInv'
  <2>1. mtime' \in [Files -> 0 .. clock] /\ DOMAIN content' = Files
    <3>1. 0 \in 0 .. clock
      BY <1>13
    <3> QED BY <1>18, <3>1 DEF Delete, Types
  <2> QED BY <1>12, <1>18, <2>1 DEF Delete, Types
<1> QED
  BY <1>1, <1>2, <1>4, <1>5, <1>6, <1>7, <1>8, <1>9, <1>10, <1>11, <1>14, <1>16, <1>17,
     <1>18
  DEF Next, Process

LEMMA ProcessInvHolds == Spec => []ProcessInv
<1>1. Init => ProcessInv
  <2> SUFFICES ASSUME Init PROVE ProcessInv
    OBVIOUS
  <2>1. 1 \in 1 .. MaxClock
    BY InputAssumption
  <2>2. node = NothingDecided /\ phase = "idle"
    BY DEF Init
  <2>3. WalkInv /\ node \in [Files -> {"todo", "built", "failed"}]
    BY <2>2, InputAssumption DEF NothingDecided, WalkInv, Files
  <2> QED BY <2>1, <2>2, <2>3 DEF Init, ProcessInv, Types, ForcedInv, NoRecords
<1>2. ProcessInv /\ [Next]_vars => ProcessInv'
  BY ProcessInvKept
<1> QED BY <1>1, <1>2, PTL DEF Spec

\* options.cpp:96 with parse_make.cpp:520-539: -B is off while the Makefile is
\* remade, and yet a run with it that ends without a failure has executed every
\* task the target needs, whatever was restarted on the way.
THEOREM ForcedRunsAreComplete == Spec => ForcedRunsBuildAll
<1>1. ProcessInv /\ [Next]_vars =>
        [(EndBuild /\ ~failed /\ options.always) => Below[Target] \cap Made \subseteq ran]_vars
  <2> SUFFICES ASSUME ProcessInv, EndBuild, ~failed, options.always
               PROVE  Below[Target] \cap Made \subseteq ran
    OBVIOUS
  <2> USE DEF ProcessInv
  <2>1. phase = "build" /\ node[Target] # "todo"
    BY DEF EndBuild
  <2>2. Target \in Files /\ Target \in Made
    BY InputAssumption DEF Files
  <2>3. node[Target] = "built"
    BY <2>1, <2>2 DEF Types, WalkInv
  <2>4. { f \in Files : node[f] = "built" } \in Closed
    BY InputAssumption DEF WalkInv, Closed
  <2>5. Below[Target] \subseteq { f \in Files : node[f] = "built" }
    BY <2>2, <2>3, <2>4, BelowIsLeast
  <2> QED BY <2>1, <2>5 DEF ForcedInv
<1> QED BY <1>1, ProcessInvHolds, PTL DEF Spec, ForcedRunsBuildAll

-------------------------------------------------------------------------------
(* The rules that are used.  A file below the Makefile was made when its      *)
(* sources had certain versions; what the database remembers of it is not     *)
(* newer than that, also after a kill.                                        *)

Versions == { V \in [Sources -> 1 .. MaxClock] : \A s \in Sources : V[s] <= version[s] }

\* A file's contents when they were made of these versions.
At(V, f) == { <<s, V[s]>> : s \in Below[f] \cap Sources }

SawAt(V, t) == { <<d, At(V, d)>> : d \in Edges[t] }

\* The record r is of versions up to V.
UpTo(r, V, t) ==
  \/ r = Null
  \/ /\ r.is = "saw"
     /\ \E W \in Versions : (\A s \in Sources : W[s] <= V[s]) /\ r.from = SawAt(W, t)

RecordOk(t) ==
  \E V \in Versions :
    /\ ~Missing(t) => content[t] = At(V, t)
    /\ UpTo(record[t], V, t) /\ UpTo(mem[t], V, t)

RecordsInv == \A t \in Parts : RecordOk(t)

SourcesInv ==
  \A s \in Sources : content[s] = IF Missing(s) THEN {} ELSE {<<s, version[s]>>}

\* A dependency that has s in it gives away that the Makefile is older: it is not
\* there, or newer, or will be made again.
Reveals(d, s) ==
  \/ Missing(d) \/ mtime[d] > mtime[Makefile]
  \/ \E U \in Versions : content[d] = At(U, d) /\ U[s] < version[s]

StampInv ==
  ~Missing(Makefile) =>
    \E V \in Versions :
      /\ content[Makefile] = At(V, Makefile)
      /\ \A s \in Below[Makefile] \cap Sources : V[s] < version[s] =>
           /\ mtime[Makefile] < clock
           /\ \A d \in Edges[Makefile] : s \in Below[d] => Reveals(d, s)

BuiltIsCurrent ==
  phase # "idle" =>
    \A t \in Plain \cap Made :
      node[t] = "built" /\ (t \in Below[Makefile] \/ always) =>
        ~Missing(t) /\ content[t] = At(version, t)

\* No part is left undecided by a process that writes the database.
AskedInv ==
  /\ threw \cap Parts = {}
  /\ phase # "idle" =>
       /\ \A t \in Parts : node[t] = "built" => t \in asked
       /\ (\E t \in Parts : node[t] = "failed") => Parts \subseteq asked
       /\ phase = "build" \/ node[Makefile] # "todo" => Parts \subseteq asked

RulesInv ==
  /\ phase = "remake" /\ ~counter /\ ~failed => rules = content[Makefile]
  /\ phase = "build" /\ ~failed => rules = At(version, Makefile)

CurrentInv == RecordsInv /\ SourcesInv /\ StampInv /\ BuiltIsCurrent /\ RulesInv /\ AskedInv

LEMMA Ideals ==
  ASSUME NEW f \in Plain PROVE Ideal(f) = At(version, f)
BY PlainFiles DEF Ideal, At

LEMMA PresentVersions == ASSUME Types PROVE version \in Versions
<1>1. 1 .. clock \subseteq 1 .. MaxClock
  BY InputAssumption DEF Types
<1> QED BY <1>1, InputAssumption DEF Types, Versions

LEMMA SourceAt ==
  ASSUME NEW s \in Sources, NEW V PROVE At(V, s) = {<<s, V[s]>>}
BY BelowOfSource DEF At

\* The same contents are of the same versions.
LEMMA SameVersions ==
  ASSUME NEW U, NEW V, NEW f, At(U, f) = At(V, f), NEW s \in Below[f] \cap Sources
  PROVE  U[s] = V[s]
<1>1. <<s, U[s]>> \in At(V, f)
  BY DEF At
<1> QED BY <1>1 DEF At

LEMMA AtOfMade ==
  ASSUME NEW t \in Made, NEW V PROVE At(V, t) = UNION { At(V, d) : d \in Edges[t] }
<1>1. t \notin Sources
  BY InputAssumption
<1> QED BY <1>1, BelowOfMade DEF At

LEMMA SameAt ==
  ASSUME NEW U, NEW V, NEW f, \A s \in Below[f] \cap Sources : U[s] = V[s]
  PROVE  At(U, f) = At(V, f)
BY DEF At

\* What the loop finds built is as it should be.
LEMMA DependenciesAreCurrent ==
  ASSUME ProcessInv, CurrentInv, NEW t \in Made, Ready(t),
         t \in Below[Makefile] \/ always, NEW d \in Edges[t] \cap Plain, ~Missing(d)
  PROVE  content[d] = At(version, d)
<1>0. d \in Below[Makefile] \/ always
  BY InputAssumption, BelowIsClosed DEF Files
<1>1. d \in Files /\ node[d] = "built" /\ phase # "idle"
  BY PlainFiles DEF Ready
<1>2. CASE d \in Made
  BY <1>0, <1>1, <1>2 DEF CurrentInv, BuiltIsCurrent
<1>3. CASE d \in Sources
  BY <1>3, SourceAt DEF CurrentInv, SourcesInv
<1> QED BY <1>1, <1>2, <1>3 DEF Files

\* A command makes of its dependencies what it should.
LEMMA OutputIsCurrent ==
  ASSUME ProcessInv, CurrentInv, NEW t \in Plain \cap Made, Ready(t),
         t \in Below[Makefile] \/ always, \A d \in Edges[t] \ Phony : ~Missing(d)
  PROVE  Output(t) = At(version, t) /\ Saw(t).from = SawAt(version, t)
<1>1. \A d \in Edges[t] : content[d] = At(version, d)
  <2> SUFFICES ASSUME NEW d \in Edges[t] PROVE content[d] = At(version, d)
    OBVIOUS
  <2>1. d \in Plain /\ d \notin Phony
    BY PlainFiles
  <2> QED BY <2>1, DependenciesAreCurrent
<1>2. t # Target
  BY PlainFiles
<1>3. Output(t) = UNION { content[d] : d \in Edges[t] }
  BY <1>2 DEF Output
<1>4. Output(t) = UNION { At(version, d) : d \in Edges[t] }
  BY <1>1, <1>3
<1>5. Saw(t).from = SawAt(version, t)
  BY <1>1 DEF Saw, SawAt
<1> QED BY <1>4, <1>5, AtOfMade

\* A record of what the dependencies are now is of the present versions.
LEMMA RecordShows ==
  ASSUME ProcessInv, CurrentInv, WellMade, NEW t \in Parts, Ready(t),
         NEW W, { <<d, content[d]>> : d \in Edges[t] } = SawAt(W, t)
  PROVE  \A s \in Below[t] \cap Sources : W[s] = version[s]
<1>1. ASSUME NEW d \in Edges[t] PROVE content[d] = At(W, d)
  <2>1. <<d, content[d]>> \in SawAt(W, t)
    OBVIOUS
  <2> QED BY <2>1 DEF SawAt
<1>2. ASSUME NEW d \in Edges[t] PROVE At(W, d) = At(version, d)
  <2>0. t \in Below[Makefile] /\ t \in Made /\ d \in Plain /\ d \in Below[Makefile]
    BY MakefileParts, PlainFiles DEF Parts
  <2>1. ~Missing(d)
    <3>1. CASE d \in Sources
      <4>1. At(W, d) # {}
        BY <3>1, SourceAt
      <4> QED BY <1>1, <3>1, <4>1 DEF CurrentInv, SourcesInv
    <3>2. CASE d \in Made
      <4>1. node[d] = "built" /\ phase # "idle"
        BY DEF Ready
      <4> QED BY <2>0, <3>2, <4>1 DEF CurrentInv, BuiltIsCurrent
    <3> QED BY <2>0, <3>1, <3>2, PlainFiles DEF Files
  <2> QED BY <1>1, <2>0, <2>1, DependenciesAreCurrent
<1>3. t \in Made /\ t \notin Sources
  BY InputAssumption DEF Parts
<1> QED BY <1>2, <1>3, BelowOfMade, SameVersions

\* database_decider finds nothing to do only where there is nothing to do.
LEMMA SettledByRecord ==
  ASSUME ProcessInv, CurrentInv, WellMade, NEW t \in Parts, Settle(t)
  PROVE  ~Missing(t) /\ content[t] = At(version, t)
<1>0. Ready(t) /\ ~Missing(t) /\ mem[t] \in {Saw(t), Unsure} /\ t \in Made
  BY DEF Settle, UpToDate, MayBeUnchanged, Parts
<1>1. Ready(t) /\ ~Missing(t) /\ mem[t] = Saw(t)
  BY <1>0 DEF CurrentInv, RecordsInv, RecordOk, UpTo, Null, Unsure
<1>2. PICK V \in Versions : content[t] = At(V, t) /\ UpTo(mem[t], V, t)
  BY <1>1 DEF CurrentInv, RecordsInv, RecordOk
<1>3. mem[t].from = { <<d, content[d]>> : d \in Edges[t] }
  BY <1>1 DEF Saw
<1>4. CASE mem[t] = Null
  <2>1. mem[t].from = {}
    BY <1>4 DEF Null
  <2>2. \A d \in Edges[t] : <<d, content[d]>> \in mem[t].from
    BY <1>3
  <2>3. Edges[t] = {}
    BY <2>1, <2>2
  <2>4. At(V, t) = {} /\ At(version, t) = {}
    BY <1>0, <2>3, AtOfMade
  <2> QED BY <1>1, <1>2, <2>4
<1>5. CASE mem[t] # Null
  <2>1. PICK W \in Versions : (\A s \in Sources : W[s] <= V[s]) /\ mem[t].from = SawAt(W, t)
    BY <1>2, <1>5 DEF UpTo
  <2>2. \A s \in Below[t] \cap Sources : W[s] = version[s]
    BY <1>1, <1>3, <2>1, RecordShows
  <2>3. ASSUME NEW s \in Below[t] \cap Sources PROVE V[s] = version[s]
    <3>1. W[s] = version[s] /\ W[s] <= V[s] /\ V[s] <= version[s]
      BY <2>1, <2>2 DEF Versions
    <3>2. V[s] \in Nat /\ version[s] \in Nat
      BY DEF Versions, ProcessInv, Types
    <3> QED BY <3>1, <3>2
  <2>4. At(V, t) = At(version, t)
    BY <2>3, SameAt
  <2> QED BY <1>1, <1>2, <2>4
<1> QED BY <1>4, <1>5

\* Nor does timestamp_pure_decider.
LEMMA SettledByTimestamps ==
  ASSUME ProcessInv, CurrentInv, WellMade, Settle(Makefile)
  PROVE  ~Missing(Makefile) /\ content[Makefile] = At(version, Makefile)
<1>1. Ready(Makefile) /\ ~Throws(Makefile) /\ (Missing(Makefile) \/ ~Newer(Makefile))
  BY DEF Settle, UpToDate
<1>2. ~Missing(Makefile) /\ \A d \in Edges[Makefile] : ~Missing(d)
  BY <1>1, InputAssumption DEF Throws, WellMade
<1>3. \A d \in Edges[Makefile] : ~(mtime[d] > mtime[Makefile])
  BY <1>1, <1>2 DEF Newer, WellMade
<1>4. PICK V \in Versions :
        /\ content[Makefile] = At(V, Makefile)
        /\ \A s \in Below[Makefile] \cap Sources : V[s] < version[s] =>
             \A d \in Edges[Makefile] : s \in Below[d] => Reveals(d, s)
  BY <1>2 DEF CurrentInv, StampInv
<1>5. ASSUME NEW s \in Below[Makefile] \cap Sources PROVE V[s] = version[s]
  <2>1. Makefile \in Made /\ Makefile \notin Sources
    BY InputAssumption
  <2>2. PICK d \in Edges[Makefile] : s \in Below[d]
    BY <2>1, BelowOfMade
  <2>3. content[d] = At(version, d)
    BY <1>1, <1>2, <2>1, MakefileParts, BelowIsClosed, DependenciesAreCurrent
  <2>4. ASSUME NEW U, content[d] = At(U, d) PROVE U[s] = version[s]
    <3>1. At(U, d) = At(version, d) /\ s \in Below[d] \cap Sources
      BY <2>2, <2>3, <2>4
    <3> QED BY <3>1, SameVersions
  <2>5. version[s] \in Nat /\ V[s] \in Nat /\ V[s] <= version[s]
    BY DEF Versions, ProcessInv, Types
  <2>6. ~Reveals(d, s)
    BY <1>2, <1>3, <2>4, <2>5 DEF Reveals
  <2>7. ~(V[s] < version[s])
    BY <1>4, <2>2, <2>6
  <2> QED BY <2>5, <2>7
<1>6. At(V, Makefile) = At(version, Makefile)
  BY <1>5, SameAt
<1> QED BY <1>2, <1>4, <1>6

-------------------------------------------------------------------------------
(* What steps do to files and records. *)

LEMMA RecordKept ==
  ASSUME NEW t, RecordOk(t), UNCHANGED version,
         mtime'[t] = mtime[t], content'[t] = content[t],
         {record'[t], mem'[t]} \subseteq {record[t], mem[t], Null}
  PROVE  RecordOk(t)'
<1>1. PICK V \in Versions : /\ ~Missing(t) => content[t] = At(V, t)
                            /\ UpTo(record[t], V, t) /\ UpTo(mem[t], V, t)
  BY DEF RecordOk
<1>2. Versions' = Versions
  BY DEF Versions
<1>3. \A r \in {record[t], mem[t], Null} : UpTo(r, V, t)
  BY <1>1 DEF UpTo
<1>4. \A r : UpTo(r, V, t) => (r = Null \/ (r.is = "saw" /\ \E W \in Versions' :
                (\A s \in Sources : W[s] <= V[s]) /\ r.from = SawAt(W, t)))
  BY <1>2 DEF UpTo
<1> QED BY <1>1, <1>2, <1>3, <1>4 DEF RecordOk, UpTo, Missing, At, SawAt

\* A file that is removed, or made of the present versions.
LEMMA RecordReset ==
  ASSUME ProcessInv, NEW t, RecordOk(t), UNCHANGED version,
         mtime'[t] = 0 \/ content'[t] = At(version, t),
         \A r \in {record'[t], mem'[t]} :
           r \in {record[t], mem[t], Null} \/ (r.is = "saw" /\ r.from = SawAt(version, t))
  PROVE  RecordOk(t)'
<1>1. PICK V \in Versions : UpTo(record[t], V, t) /\ UpTo(mem[t], V, t)
  BY DEF RecordOk
<1>2. Versions' = Versions /\ version \in Versions
  BY PresentVersions DEF Versions, ProcessInv
<1>3. \A W \in Versions : \A s \in Sources : W[s] <= version[s]
  BY DEF Versions
<1>4. \A r \in {record[t], mem[t], Null} : UpTo(r, version, t)
  BY <1>1, <1>3 DEF UpTo
<1>5. \A r : r.is = "saw" /\ r.from = SawAt(version, t) => UpTo(r, version, t)
  BY <1>2, <1>3 DEF UpTo
<1>6. UpTo(record'[t], version, t) /\ UpTo(mem'[t], version, t)
  BY <1>4, <1>5
<1> QED BY <1>2, <1>6 DEF RecordOk, UpTo, Missing, At, SawAt

LEMMA CurrentStamp ==
  ASSUME Types', mtime'[Makefile] = 0 \/ content'[Makefile] = At(version', Makefile)
  PROVE  StampInv'
<1>1. (version \in Versions)'
  BY PresentVersions, PTL
<1>2. \A s \in Sources : ~(version'[s] < version'[s])
  BY DEF Types
<1> QED BY <1>1, <1>2 DEF StampInv, Missing, At, Plain

\* One file other than the Makefile is removed or written.
LEMMA StampKept ==
  ASSUME ProcessInv, StampInv, NEW t \in Files \ {Makefile},
         UNCHANGED <<clock, version>>,
         \A f \in Files \ {t} : mtime'[f] = mtime[f] /\ content'[f] = content[f],
         \/ mtime'[t] \in {0, clock}
         \/ mtime'[t] = mtime[t] /\ content'[t] = content[t]
  PROVE  StampInv'
<1>1. Makefile \in Files /\ Edges[Makefile] \subseteq Files /\ Makefile # t
  BY InputAssumption DEF Files
<1>2. mtime'[Makefile] = mtime[Makefile] /\ content'[Makefile] = content[Makefile]
  BY <1>1
<1>3. Versions' = Versions
  BY DEF Versions
<1> SUFFICES ASSUME ~Missing(Makefile) PROVE StampInv'
  BY <1>2 DEF StampInv, Missing
<1>4. PICK V \in Versions :
      /\ content[Makefile] = At(V, Makefile)
      /\ \A s \in Below[Makefile] \cap Sources : V[s] < version[s] =>
           /\ mtime[Makefile] < clock
           /\ \A d \in Edges[Makefile] : s \in Below[d] => Reveals(d, s)
  BY DEF StampInv
<1>5. ASSUME NEW s \in Below[Makefile] \cap Sources, V[s] < version[s],
             NEW d \in Edges[Makefile], s \in Below[d]
      PROVE  Reveals(d, s)'
  <2>1. mtime[Makefile] < clock /\ Reveals(d, s)
    BY <1>4, <1>5
  <2>2. CASE mtime'[d] = mtime[d] /\ content'[d] = content[d]
    BY <1>2, <1>3, <2>1, <2>2 DEF Reveals, Missing, At
  <2>3. CASE mtime'[d] \in {0, clock}
    BY <1>2, <2>1, <2>3 DEF Reveals, Missing
  <2> QED BY <1>1, <2>2, <2>3
<1>6. (\A s \in Below[Makefile] \cap Sources : V[s] < version[s] =>
           /\ mtime[Makefile] < clock
           /\ \A d \in Edges[Makefile] : s \in Below[d] => Reveals(d, s)')
  BY <1>4, <1>5
<1> QED BY <1>2, <1>3, <1>4, <1>6 DEF StampInv, At, Plain

LEMMA FilesKept ==
  ASSUME ProcessInv, CurrentInv, UNCHANGED <<mtime, version, content>>,
         clock' \in Nat, clock <= clock',
         \A t \in Parts : {record'[t], mem'[t]} \subseteq {record[t], mem[t], Null}
  PROVE  RecordsInv' /\ SourcesInv' /\ StampInv'
<1>1. RecordsInv'
  <2> SUFFICES ASSUME NEW t \in Parts PROVE RecordOk(t)'
    BY DEF RecordsInv
  <2> QED BY RecordKept DEF CurrentInv, RecordsInv
<1>2. SourcesInv'
  BY DEF CurrentInv, SourcesInv, Missing
<1>3. Versions' = Versions /\ \A d, s : Reveals(d, s) => Reveals(d, s)'
  BY DEF Versions, Reveals, Missing, At
<1>4. Makefile \in Files /\ mtime[Makefile] \in Nat /\ clock \in Nat
  BY InputAssumption DEF Files, ProcessInv, Types
<1>5. mtime[Makefile] < clock => mtime[Makefile] < clock'
  BY <1>4
<1>6. StampInv'
  BY <1>3, <1>5 DEF CurrentInv, StampInv, Missing, At, Plain
<1> QED BY <1>1, <1>2, <1>6

\* One made file is removed, or made of the present versions by its command.
LEMMA OneFileMade ==
  ASSUME ProcessInv, ProcessInv', CurrentInv, WellMade, NEW t \in Made,
         UNCHANGED <<clock, version>>,
         \A f \in Files \ {t} : mtime'[f] = mtime[f] /\ content'[f] = content[f],
         \A u \in Parts \ {t} : {record'[u], mem'[u]} \subseteq {record[u], mem[u], Null},
         \/ mtime'[t] \in {0, clock}
         \/ mtime'[t] = mtime[t] /\ content'[t] = content[t],
         t \in Below[Makefile] => mtime'[t] = 0 \/ content'[t] = At(version, t),
         t \in Parts => \A r \in {record'[t], mem'[t]} :
           r \in {record[t], mem[t], Null} \/ (r.is = "saw" /\ r.from = SawAt(version, t))
  PROVE  RecordsInv' /\ SourcesInv' /\ StampInv'
<1>1. t \in Files /\ t \notin Sources
  BY InputAssumption DEF Files
<1>2. RecordsInv'
  <2> SUFFICES ASSUME NEW u \in Parts PROVE RecordOk(u)'
    BY DEF RecordsInv
  <2>1. RecordOk(u) /\ u \in Files
    BY MakefileParts DEF CurrentInv, RecordsInv, Parts
  <2>2. CASE u = t
    BY <2>1, <2>2, RecordReset DEF Parts
  <2>3. CASE u # t
    BY <2>1, <2>3, RecordKept
  <2> QED BY <2>2, <2>3
<1>3. SourcesInv'
  BY <1>1 DEF CurrentInv, SourcesInv, Missing, Files
<1>4. StampInv'
  <2>1. CASE t = Makefile
    BY <2>1, MakefileParts, BelowIsClosed, CurrentStamp DEF ProcessInv
  <2>2. CASE t # Makefile
    BY <1>1, <2>2, StampKept DEF CurrentInv
  <2> QED BY <2>1, <2>2
<1> QED BY <1>2, <1>3, <1>4

\* A user writes a source, or touches it.
LEMMA SourceWritten ==
  ASSUME ProcessInv, ProcessInv', CurrentInv, WellMade, NEW s \in Sources,
         Write(s, {<<s, version'[s]>>}),
         version' = version \/ version' = [version EXCEPT ![s] = @ + 1]
  PROVE  RecordsInv' /\ SourcesInv' /\ StampInv'
<1>1. s \in Files /\ s \notin Made /\ Made \subseteq Files /\ Sources \subseteq Files
  BY InputAssumption DEF Files
<1>2. /\ mtime' = [mtime EXCEPT ![s] = clock'] /\ clock' = clock + 1
      /\ content' = [content EXCEPT ![s] = {<<s, version'[s]>>}]
      /\ UNCHANGED <<record, mem>>
  BY DEF Write
<1>3. /\ mtime'[s] = clock' /\ content'[s] = {<<s, version'[s]>>}
      /\ \A f \in Files \ {s} : mtime'[f] = mtime[f] /\ content'[f] = content[f]
  BY <1>1, <1>2 DEF ProcessInv, Types
<1>4. clock \in Nat /\ clock' # 0 /\ \A f \in Files : mtime[f] \in 0 .. clock
  BY <1>2, InputAssumption DEF ProcessInv, Types
<1>5. /\ \A r \in Sources : version[r] \in Nat /\ version[r] <= version'[r]
      /\ \A r \in Sources \ {s} : version'[r] = version[r]
      /\ version' = version \/ version'[s] = version[s] + 1
  BY <1>4 DEF ProcessInv, Types
<1>6. Versions \subseteq Versions'
  <2> SUFFICES ASSUME NEW V \in Versions, NEW r \in Sources PROVE V[r] <= version'[r]
    BY DEF Versions
  <2>1. V[r] <= version[r] /\ V[r] \in Nat
    BY DEF Versions
  <2> QED BY <1>5, <2>1 DEF ProcessInv, Types
<1>7. RecordsInv'
  <2> SUFFICES ASSUME NEW t \in Parts PROVE RecordOk(t)'
    BY DEF RecordsInv
  <2>1. PICK V \in Versions : /\ ~Missing(t) => content[t] = At(V, t)
                              /\ UpTo(record[t], V, t) /\ UpTo(mem[t], V, t)
    BY DEF CurrentInv, RecordsInv, RecordOk
  <2>2. \A r : UpTo(r, V, t) => (r = Null \/ (r.is = "saw" /\ \E W \in Versions' :
                (\A q \in Sources : W[q] <= V[q]) /\ r.from = SawAt(W, t)))
    BY <1>6 DEF UpTo
  <2>3. mtime'[t] = mtime[t] /\ content'[t] = content[t]
    BY <1>1, <1>3 DEF Parts
  <2> QED BY <1>2, <1>6, <2>1, <2>2, <2>3 DEF RecordOk, UpTo, Missing, At, SawAt
<1>8. SourcesInv'
  BY <1>1, <1>3, <1>4, <1>5 DEF CurrentInv, SourcesInv, Missing
<1>9. StampInv'
  <2>1. Makefile \in Files /\ Makefile # s /\ Edges[Makefile] \subseteq Files
    BY <1>1, InputAssumption
  <2>2. mtime'[Makefile] = mtime[Makefile] /\ content'[Makefile] = content[Makefile]
    BY <1>3, <2>1
  <2> SUFFICES ASSUME ~Missing(Makefile) PROVE StampInv'
    BY <2>2 DEF StampInv, Missing
  <2>3. PICK V \in Versions :
      /\ content[Makefile] = At(V, Makefile)
      /\ \A r \in Below[Makefile] \cap Sources : V[r] < version[r] =>
           /\ mtime[Makefile] < clock
           /\ \A d \in Edges[Makefile] : r \in Below[d] => Reveals(d, r)
    BY DEF CurrentInv, StampInv
  <2>4. mtime[Makefile] < clock'
    BY <1>2, <1>4, <2>1
  <2>5. ASSUME NEW r \in Below[Makefile] \cap Sources, V[r] < version'[r],
               NEW d \in Edges[Makefile], r \in Below[d]
        PROVE  Reveals(d, r)'
    <3>1. CASE d = s
      BY <1>3, <2>2, <2>4, <3>1 DEF Reveals
    <3>2. CASE d # s
      <4>1. d \in Files /\ mtime'[d] = mtime[d] /\ content'[d] = content[d]
        BY <1>3, <2>1, <3>2
      <4>2. CASE version'[r] = version[r]
        <5>1. Reveals(d, r)
          BY <2>3, <2>5, <4>2
        <5> QED BY <1>6, <2>2, <4>1, <4>2, <5>1 DEF Reveals, Missing, At
      <4>3. CASE version'[r] # version[r]
        <5>1. r = s /\ version'[s] = version[s] + 1
          BY <1>5, <4>3
        <5>2. d \in Made
          BY <2>5, <3>2, <4>1, <5>1, BelowOfSource DEF Files
        <5>3. ~Missing(d) => \E U \in Versions : content[d] = At(U, d)
          <6>1. CASE d = Makefile
            BY <2>3, <6>1
          <6>2. CASE d # Makefile
            <7>1. d \in Parts
              BY <5>2, MakefileParts
            <7> QED BY <7>1 DEF CurrentInv, RecordsInv, RecordOk
          <6> QED BY <6>1, <6>2
        <5>4. \A U \in Versions : U[r] < version'[r]
          <6> SUFFICES ASSUME NEW U \in Versions PROVE U[r] < version'[r]
            OBVIOUS
          <6>1. U[s] <= version[s] /\ U[s] \in Nat /\ version[s] \in Nat
            BY <1>5 DEF Versions
          <6> QED BY <5>1, <6>1
        <5> QED BY <1>6, <4>1, <5>3, <5>4 DEF Reveals, Missing, At
      <4> QED BY <4>2, <4>3
    <3> QED BY <3>1, <3>2
  <2>6. \A r \in Below[Makefile] \cap Sources : V[r] < version'[r] =>
           /\ mtime[Makefile] < clock'
           /\ \A d \in Edges[Makefile] : r \in Below[d] => Reveals(d, r)'
    BY <2>4, <2>5
  <2> QED BY <1>6, <2>2, <2>3, <2>6 DEF StampInv, At, Plain
<1> QED BY <1>7, <1>8, <1>9

-------------------------------------------------------------------------------
(* Steps. *)

\* When the loop comes to the Makefile, it has asked for all its parts.
LEMMA PartsAreAsked ==
  ASSUME ProcessInv, CurrentInv, WellMade, phase # "idle",
         \A d \in Edges[Makefile] : node[d] = "built"
  PROVE  Parts \subseteq asked
<1> DEFINE S == {Makefile} \cup { f \in Files : node[f] = "built" }
<1>1. Makefile \in Files /\ S \subseteq Files
  BY MakefileParts
<1>2. \A m \in S \cap Made : Edges[m] \subseteq S
  BY InputAssumption DEF ProcessInv, WalkInv
<1>3. Below[Makefile] \subseteq S
  BY <1>1, <1>2, BelowIsLeast DEF Closed
<1>4. \A p \in Parts : node[p] = "built"
  BY <1>3 DEF Parts
<1> QED BY <1>4 DEF CurrentInv, AskedInv

\* What is written is what is in memory.
LEMMA MemoryIsWritten ==
  ASSUME CurrentInv, NEW m, NEW seen, NEW thrown, Parts \subseteq seen, thrown \cap Parts = {},
         NEW t \in Parts
  PROVE  Written(m, seen, thrown)[t] = m[t]
<1>1. record[t] # Unsure
  BY DEF CurrentInv, RecordsInv, RecordOk, UpTo, Null, Unsure
<1> QED BY <1>1 DEF Written

\* A command that is not done leaves no part undecided.
LEMMA NoPartUndecided ==
  ASSUME ProcessInv, CurrentInv, WellMade, NEW t \in Made, Ready(t),
         t \in Failing \/ t \in Throwing
  PROVE  Parts \subseteq asked \cup {t}
<1>1. t \in Below[Goal] /\ phase # "idle"
  BY DEF Ready
<1>2. CASE t \in Parts
  BY <1>2 DEF WellMade
<1>3. CASE t = Makefile
  BY <1>1, <1>3, PartsAreAsked DEF Ready
<1>4. CASE t \notin Parts /\ t # Makefile
  <2>1. phase = "build"
    BY <1>1, <1>4 DEF Goal, Parts, ProcessInv, Types
  <2> QED BY <1>1, <2>1 DEF CurrentInv, AskedInv
<1> QED BY <1>2, <1>3, <1>4

\* The loop decides a node.
LEMMA NodeDecided ==
  ASSUME ProcessInv, CurrentInv, WellMade, NEW t \in Made, NEW result \in {"built", "failed"},
         node' = [node EXCEPT ![t] = result], node[t] = "todo",
         UNCHANGED <<version, phase, rules, always>>, phase # "idle",
         \A f \in Files \ {t} : mtime'[f] = mtime[f] /\ content'[f] = content[f],
         result = "built" /\ t \in Plain /\ (t \in Below[Makefile] \/ always) =>
           ~Missing(t)' /\ content'[t] = At(version, t),
         asked' = asked \cup {t}, threw' \cap Parts = {},
         result = "built" => \A d \in Edges[t] : node[d] = "built",
         result = "failed" => Parts \subseteq asked',
         failed => failed', counter => counter',
         ~counter' /\ ~failed' => content'[Makefile] = content[Makefile]
  PROVE  BuiltIsCurrent' /\ RulesInv' /\ AskedInv'
<1>1. t \in Files /\ Made \subseteq Files
  BY InputAssumption DEF Files
<1>2. node'[t] = result /\ \A f \in Files \ {t} : node'[f] = node[f]
  BY <1>1 DEF ProcessInv, Types
<1>3. ASSUME NEW u \in Plain \cap Made, node'[u] = "built", u \in Below[Makefile] \/ always
      PROVE  ~Missing(u)' /\ content'[u] = At(version, u)
  <2>1. CASE u = t
    BY <1>2, <1>3, <2>1
  <2>2. CASE u # t
    <3>1. node[u] = "built" /\ mtime'[u] = mtime[u] /\ content'[u] = content[u]
      BY <1>1, <1>2, <1>3, <2>2
    <3> QED BY <1>3, <3>1 DEF CurrentInv, BuiltIsCurrent, Missing
  <2> QED BY <2>1, <2>2
<1>4. BuiltIsCurrent'
  BY <1>3 DEF BuiltIsCurrent, Plain, At
<1>5. RulesInv'
  BY DEF CurrentInv, RulesInv, At
<1>6. \A u \in Parts : u \in Made /\ u # Makefile
  BY DEF Parts
<1>7. ASSUME NEW u \in Parts, node'[u] = "built" PROVE u \in asked'
  BY <1>1, <1>2, <1>6, <1>7 DEF CurrentInv, AskedInv
<1>8. ASSUME NEW u \in Parts, node'[u] = "failed" PROVE Parts \subseteq asked'
  BY <1>1, <1>2, <1>6, <1>8 DEF CurrentInv, AskedInv
<1>9. ASSUME phase = "build" \/ node'[Makefile] # "todo" PROVE Parts \subseteq asked'
  <2>1. CASE t = Makefile /\ result = "built"
    <3>1. Parts \subseteq asked
      BY <2>1, PartsAreAsked
    <3> QED BY <3>1
  <2>2. CASE t = Makefile /\ result = "failed"
    BY <2>2
  <2>3. CASE t # Makefile
    BY <1>1, <1>2, <1>9, <2>3, MakefileParts DEF CurrentInv, AskedInv
  <2> QED BY <2>1, <2>2, <2>3
<1>10. AskedInv'
  BY <1>7, <1>8, <1>9 DEF AskedInv
<1> QED BY <1>4, <1>5, <1>10

LEMMA ExitIsCurrent ==
  ASSUME NEW m, Exit(m) PROVE BuiltIsCurrent' /\ RulesInv' /\ AskedInv'
BY DEF Exit, BuiltIsCurrent, RulesInv, AskedInv

LEMMA ParseIsCurrent ==
  ASSUME NEW o, Parse(o), UNCHANGED fileVars PROVE BuiltIsCurrent' /\ RulesInv' /\ AskedInv'
<1>1. \A t \in Made : node'[t] = "todo"
  BY NothingIsDecided DEF Parse
<1>2. Makefile \in Made /\ Parts \subseteq Made
  BY InputAssumption DEF Parts
<1> QED BY <1>1, <1>2 DEF Parse, BuiltIsCurrent, RulesInv, AskedInv, fileVars

LEMMA CommandKeeps ==
  ASSUME ProcessInv, ProcessInv', CurrentInv, WellMade, NEW t \in Made, Succeed(t)
  PROVE  CurrentInv'
<1>1. /\ Ready(t) /\ node[t] = "todo" /\ phase # "idle"
      /\ \A d \in Edges[t] \ Phony : ~Missing(d)
      /\ \A d \in Edges[t] : node[d] = "built"
      /\ node' = [node EXCEPT ![t] = "built"] /\ counter' = TRUE
      /\ mem' = Remembered(t, Saw(t))
      /\ asked' = asked \cup {t} /\ threw' = threw \ {t}
      /\ UNCHANGED <<clock, version, record, phase, always, rules, failed>>
  BY DEF Succeed, Run, Ready
<1>2. t \in Files /\ clock # 0 /\ clock \in Nat
  BY InputAssumption DEF Files, ProcessInv, Types
<1>3. \/ UNCHANGED <<mtime, content>> /\ (t \in Phony \/ (~Missing(t) /\ content[t] = Output(t)))
      \/ mtime' = [mtime EXCEPT ![t] = clock] /\ content' = [content EXCEPT ![t] = Output(t)]
  BY DEF Succeed
<1>4. \A f \in Files \ {t} : mtime'[f] = mtime[f] /\ content'[f] = content[f]
  BY <1>2, <1>3 DEF ProcessInv, Types
<1>5. \/ mtime'[t] = mtime[t] /\ content'[t] = content[t]
      \/ mtime'[t] = clock
  BY <1>2, <1>3 DEF ProcessInv, Types
<1>6. /\ t \in Parts => mem'[t] = Saw(t) /\ record'[t] = record[t]
      /\ \A u \in Parts \ {t} : mem'[u] = mem[u] /\ record'[u] = record[u]
  BY <1>1 DEF Remembered
<1>7. ASSUME t \in Plain, t \in Below[Makefile] \/ always
      PROVE  /\ ~Missing(t)' /\ content'[t] = At(version, t)
             /\ Saw(t).from = SawAt(version, t)
  <2>1. Output(t) = At(version, t) /\ Saw(t).from = SawAt(version, t)
    BY <1>1, <1>7, OutputIsCurrent
  <2>2. t \notin Phony
    BY <1>7, PlainFiles
  <2>3. ~Missing(t)' /\ content'[t] = Output(t)
    BY <1>2, <1>3, <2>2 DEF Missing, ProcessInv, Types
  <2> QED BY <2>1, <2>3
<1>8. t \in Below[Makefile] => t \in Plain
  BY MakefileParts
<1>9. Saw(t).is = "saw" /\ (t \in Parts => t \in Below[Makefile])
  BY DEF Saw, Parts
<1>10. RecordsInv' /\ SourcesInv' /\ StampInv'
  BY <1>1, <1>4, <1>5, <1>6, <1>7, <1>8, <1>9, OneFileMade
<1>11. threw' \cap Parts = {}
  BY <1>1 DEF CurrentInv, AskedInv
<1>12. BuiltIsCurrent' /\ RulesInv' /\ AskedInv'
  BY <1>1, <1>4, <1>7, <1>11, NodeDecided
<1> QED BY <1>10, <1>12 DEF CurrentInv

\* The task is not done, and its file is removed or left as it is.
LEMMA FailureKeeps ==
  ASSUME ProcessInv, ProcessInv', CurrentInv, WellMade, NEW t \in Made,
         Fail(t) \/ NotFound(t)
  PROVE  CurrentInv'
<1>1. PICK thrown :
        /\ Ready(t) /\ node[t] = "todo" /\ phase # "idle"
        /\ \/ mtime' = [mtime EXCEPT ![t] = 0] /\ content' = [content EXCEPT ![t] = {}]
           \/ UNCHANGED <<mtime, content>> /\ t \notin Parts
        /\ UNCHANGED <<clock, version>>
        /\ NotDone(t, thrown) /\ thrown \cap Parts = {}
        /\ t \in Failing \/ t \in Throwing
  <2>1. threw \cap Parts = {} /\ Throwing \cap Parts = {}
    BY DEF CurrentInv, AskedInv, WellMade
  <2>2. CASE Fail(t)
    BY <2>1, <2>2 DEF Fail, NotDone, Run, Ready
  <2>3. CASE NotFound(t)
    BY <2>1, <2>3 DEF NotFound, NotDone, Run, Ready
  <2> QED BY <2>2, <2>3
<1>2. t \in Files
  BY InputAssumption DEF Files
<1>3. /\ \A f \in Files \ {t} : mtime'[f] = mtime[f] /\ content'[f] = content[f]
      /\ mtime'[t] = 0 \/ (UNCHANGED <<mtime, content>> /\ t \notin Parts)
  BY <1>1, <1>2 DEF ProcessInv, Types
<1> DEFINE marked == Remembered(t, Null)
           all == asked \cup {t}
<1>4. \A u \in Parts : marked[u] \in {mem[u], Null}
  BY DEF Remembered
<1>5. Parts \subseteq all
  BY <1>1, NoPartUndecided
\* Files and records, whatever became of the process.
<1>6. ASSUME \A u \in Parts : {record'[u], mem'[u]} \subseteq {record[u], mem[u], Null}
      PROVE  RecordsInv' /\ SourcesInv' /\ StampInv'
  <2>1. CASE mtime'[t] = 0
    BY <1>1, <1>3, <1>6, <2>1, OneFileMade
  <2>2. CASE UNCHANGED <<mtime, content>>
    <3>1. clock' \in Nat /\ clock <= clock'
      BY <1>1, InputAssumption DEF ProcessInv, Types
    <3> QED BY <1>1, <1>6, <2>2, <3>1, FilesKept
  <2> QED BY <1>3, <2>1, <2>2
<1>7. CASE options.keep_going
  <2>1. /\ mem' = marked /\ node' = [node EXCEPT ![t] = "failed"] /\ failed' = TRUE
        /\ asked' = all /\ threw' = thrown
        /\ UNCHANGED <<record, phase, always, rules, counter>>
    BY <1>1, <1>7 DEF NotDone
  <2>2. RecordsInv' /\ SourcesInv' /\ StampInv'
    BY <1>4, <1>6, <2>1
  <2>3. BuiltIsCurrent' /\ RulesInv' /\ AskedInv'
    BY <1>1, <1>3, <1>5, <2>1, NodeDecided
  <2> QED BY <2>2, <2>3 DEF CurrentInv
<1>8. CASE ~options.keep_going
  <2>1. Exit(Written(marked, all, thrown))
    BY <1>1, <1>8 DEF NotDone
  <2>2. record' = Written(marked, all, thrown) /\ mem' = NoRecords
    BY <2>1 DEF Exit
  <2>3. \A u \in Parts : record'[u] \in {mem[u], Null} /\ mem'[u] = Null
    BY <1>1, <1>4, <1>5, <2>2, MemoryIsWritten DEF NoRecords
  <2>4. RecordsInv' /\ SourcesInv' /\ StampInv'
    BY <1>6, <2>3
  <2>5. BuiltIsCurrent' /\ RulesInv' /\ AskedInv'
    BY <2>1, ExitIsCurrent
  <2> QED BY <2>4, <2>5 DEF CurrentInv
<1> QED BY <1>7, <1>8

LEMMA RemadeIsCurrent ==
  ASSUME ProcessInv, CurrentInv, WellMade, Continue
  PROVE  BuiltIsCurrent' /\ RulesInv' /\ AskedInv'
<1>1. /\ phase = "remake" /\ node[Makefile] # "todo" /\ ~counter
      /\ phase' = "build" /\ node' = NothingDecided
      /\ UNCHANGED <<version, rules, failed, asked, threw>>
  BY DEF Continue, fileVars
<1>2. \A t \in Made : node'[t] = "todo"
  BY <1>1, NothingIsDecided
<1>3. ASSUME ~failed PROVE rules = At(version, Makefile)
  <2>1. node[Makefile] = "built"
    BY <1>1, <1>3, MakefileParts DEF ProcessInv, Types, WalkInv
  <2>2. content[Makefile] = At(version, Makefile)
    BY <1>1, <2>1, MakefileParts, BelowIsClosed DEF CurrentInv, BuiltIsCurrent
  <2> QED BY <1>1, <1>3, <2>2 DEF CurrentInv, RulesInv
<1>4. AskedInv'
  <2>1. \A t \in Parts : node'[t] = "todo"
    BY <1>2 DEF Parts
  <2> QED BY <1>1, <2>1 DEF CurrentInv, AskedInv
<1> QED BY <1>1, <1>2, <1>3, <1>4 DEF BuiltIsCurrent, RulesInv, At

\* The process ends in good order, or the program starts itself again.
LEMMA AllAsked ==
  ASSUME ProcessInv, CurrentInv, WellMade, Throw \/ Restart \/ EndBuild
  PROVE  Parts \subseteq asked
<1>1. CASE Throw
  BY <1>1, PartsAreAsked DEF Throw, Ready
<1>2. CASE Restart \/ EndBuild
  BY <1>2 DEF Restart, EndBuild, CurrentInv, AskedInv
<1> QED BY <1>1, <1>2

\* Files are removed, or the Makefile is written, between runs.
LEMMA FileGone ==
  ASSUME ProcessInv, ProcessInv', CurrentInv, WellMade, NEW f \in Files, Delete(f)
  PROVE  RecordsInv' /\ SourcesInv' /\ StampInv'
<1>1. /\ mtime' = [mtime EXCEPT ![f] = 0] /\ content' = [content EXCEPT ![f] = {}]
      /\ UNCHANGED <<clock, version, record, mem>>
  BY DEF Delete
<1>2. /\ \A g \in Files \ {f} : mtime'[g] = mtime[g] /\ content'[g] = content[g]
      /\ mtime'[f] = 0 /\ content'[f] = {}
  BY <1>1 DEF ProcessInv, Types
<1>3. CASE f \in Made
  BY <1>1, <1>2, <1>3, OneFileMade
<1>4. CASE f \in Sources
  <2>1. f \notin Made /\ f # Makefile /\ Made \subseteq Files
    BY <1>4, InputAssumption DEF Files
  <2>2. RecordsInv'
    <3> SUFFICES ASSUME NEW t \in Parts PROVE RecordOk(t)'
      BY DEF RecordsInv
    <3> QED BY <1>1, <1>2, <2>1, RecordKept DEF CurrentInv, RecordsInv, Parts
  <2>3. SourcesInv'
    BY <1>1, <1>2, <1>4 DEF CurrentInv, SourcesInv, Missing, Files
  <2>4. StampInv'
    BY <1>1, <1>2, <2>1, StampKept DEF CurrentInv
  <2> QED BY <2>2, <2>3, <2>4
<1> QED BY <1>3, <1>4 DEF Files

LEMMA MakefileWritten ==
  ASSUME ProcessInv, ProcessInv', CurrentInv, WellMade, Configure
  PROVE  RecordsInv' /\ SourcesInv' /\ StampInv'
<1>1. /\ mtime' = [mtime EXCEPT ![Makefile] = clock']
      /\ content' = [content EXCEPT ![Makefile] = Ideal(Makefile)]
      /\ UNCHANGED <<version, record, mem>>
  BY DEF Configure, Write
<1>2. /\ content'[Makefile] = At(version, Makefile)
      /\ \A g \in Files \ {Makefile} : mtime'[g] = mtime[g] /\ content'[g] = content[g]
  BY <1>1, MakefileParts, Ideals DEF ProcessInv, Types
<1>3. RecordsInv'
  <2> SUFFICES ASSUME NEW t \in Parts PROVE RecordOk(t)'
    BY DEF RecordsInv
  <2> QED BY <1>1, <1>2, MakefileParts, RecordKept DEF CurrentInv, RecordsInv, Parts
<1>4. SourcesInv'
  BY <1>1, <1>2, InputAssumption DEF CurrentInv, SourcesInv, Missing, Files
<1>5. StampInv'
  BY <1>1, <1>2, CurrentStamp DEF ProcessInv
<1> QED BY <1>3, <1>4, <1>5

\* A failure spreads.
LEMMA SpreadKeeps ==
  ASSUME ProcessInv, CurrentInv, WellMade, NEW t \in Made, Spread(t)
  PROVE  BuiltIsCurrent' /\ RulesInv' /\ AskedInv'
<1>1. /\ node' = [node EXCEPT ![t] = "failed"] /\ phase # "idle" /\ t \in Below[Goal]
      /\ UNCHANGED <<mtime, version, content, phase, always, rules, counter, failed, asked, threw>>
      /\ \E d \in Edges[t] : node[d] = "failed"
  BY DEF Spread, fileVars
<1>2. /\ t \in Files /\ Made \subseteq Files /\ Parts \subseteq Made /\ Makefile \in Made
      /\ node'[t] = "failed" /\ \A f \in Files \ {t} : node'[f] = node[f]
  BY <1>1, InputAssumption DEF Files, Parts, ProcessInv, Types
<1>3. BuiltIsCurrent' /\ RulesInv'
  BY <1>1, <1>2 DEF CurrentInv, BuiltIsCurrent, RulesInv, Missing, At, Plain
<1>4. Parts \subseteq asked
  <2>1. CASE t \in Below[Makefile]
    <3>1. PICK d \in Edges[t] : node[d] = "failed"
      BY <1>1
    <3>2. d \in Made
      BY <3>1, InputAssumption DEF ProcessInv, WalkInv, Files
    <3>3. d \in Parts
      BY <2>1, <3>2, MakefileParts DEF Parts
    <3> QED BY <1>1, <3>1, <3>3 DEF CurrentInv, AskedInv
  <2>2. CASE t \notin Below[Makefile]
    <3>1. phase = "build"
      BY <1>1, <2>2 DEF Goal, ProcessInv, Types
    <3> QED BY <3>1 DEF CurrentInv, AskedInv
  <2> QED BY <2>1, <2>2
<1>5. AskedInv'
  BY <1>1, <1>2, <1>4 DEF CurrentInv, AskedInv
<1> QED BY <1>3, <1>5

LEMMA CurrentInvKept ==
  ASSUME ProcessInv, ProcessInv', CurrentInv, [Next]_vars, WellMade PROVE CurrentInv'
<1>1. clock \in Nat /\ clock <= clock
  BY InputAssumption DEF ProcessInv, Types
<1>2. ASSUME UNCHANGED fileVars,
             \A t \in Parts : {record'[t], mem'[t]} \subseteq {record[t], mem[t], Null}
      PROVE  RecordsInv' /\ SourcesInv' /\ StampInv'
  BY <1>1, <1>2, FilesKept DEF fileVars
<1>3. ASSUME UNCHANGED <<version, content, mtime, phase, runVars>>
      PROVE  BuiltIsCurrent' /\ RulesInv' /\ AskedInv'
  BY <1>3 DEF CurrentInv, BuiltIsCurrent, RulesInv, AskedInv, runVars, Missing, At, Plain
<1>4. ASSUME phase' = "idle", UNCHANGED threw PROVE BuiltIsCurrent' /\ RulesInv' /\ AskedInv'
  BY <1>4 DEF CurrentInv, BuiltIsCurrent, RulesInv, AskedInv
<1>5. CASE UNCHANGED vars
  BY <1>2, <1>3, <1>5 DEF vars, fileVars, CurrentInv
<1>6. ASSUME NEW o \in Options, Start(o) PROVE CurrentInv'
  BY <1>2, <1>6, ParseIsCurrent DEF Start, CurrentInv
<1>7. ASSUME NEW t \in Made, NEW result \in {"built", "failed"},
             node' = [node EXCEPT ![t] = result], node[t] = "todo", phase # "idle",
             UNCHANGED <<fileVars, record, mem, phase, always, rules, counter, failed, threw>>,
             asked' = asked \cup {t},
             result = "built" => \A d \in Edges[t] : node[d] = "built",
             result = "failed" => Parts \subseteq asked',
             result = "built" /\ t \in Plain /\ (t \in Below[Makefile] \/ always) =>
               ~Missing(t) /\ content[t] = At(version, t)
      PROVE  CurrentInv'
  <2>1. RecordsInv' /\ SourcesInv' /\ StampInv'
    BY <1>2, <1>7
  <2>2. BuiltIsCurrent' /\ RulesInv' /\ AskedInv'
    BY <1>7, NodeDecided DEF fileVars, Missing, CurrentInv, AskedInv
  <2> QED BY <2>1, <2>2 DEF CurrentInv
<1>8. ASSUME NEW t \in Made, Spread(t) PROVE CurrentInv'
  BY <1>2, <1>8, SpreadKeeps DEF Spread, CurrentInv
<1>9. ASSUME NEW t \in Made, Settle(t) PROVE CurrentInv'
  <2>1. t \in Below[Makefile] => ~Missing(t) /\ content[t] = At(version, t)
    BY <1>9, SettledByRecord, SettledByTimestamps DEF Parts
  <2>2. ~always /\ \A d \in Edges[t] : node[d] = "built"
    BY <1>9 DEF Settle, Ready
  <2> QED BY <1>7, <1>9, <2>1, <2>2 DEF Settle, Ready
<1>10. ASSUME NEW t \in Made, Succeed(t) PROVE CurrentInv'
  BY <1>10, CommandKeeps
<1>11. ASSUME NEW t \in Made, Fail(t) \/ NotFound(t) PROVE CurrentInv'
  BY <1>11, FailureKeeps
<1>12. ASSUME NEW m, \A t \in Parts : m[t] \in {record[t], mem[t]}, Exit(m),
              UNCHANGED fileVars
       PROVE  CurrentInv'
  <2>1. record' = m /\ mem' = NoRecords
    BY <1>12 DEF Exit
  <2>2. \A t \in Parts : {record'[t], mem'[t]} \subseteq {record[t], mem[t], Null}
    BY <1>12, <2>1 DEF NoRecords
  <2> QED BY <1>2, <1>12, <2>2, ExitIsCurrent DEF CurrentInv
<1> DEFINE written == Written(mem, asked, threw)
<1>13. CASE Throw \/ EndBuild \/ Kill
  <2>1. CASE Throw \/ EndBuild
    <3>1. \A t \in Parts : written[t] = mem[t]
      BY <2>1, AllAsked, MemoryIsWritten DEF CurrentInv, AskedInv
    <3> QED BY <1>12, <2>1, <3>1 DEF Throw, EndBuild
  <2> QED BY <1>12, <1>13, <2>1 DEF Kill
<1>14. CASE Continue
  <2>1. UNCHANGED <<fileVars, record, mem>>
    BY <1>14 DEF Continue
  <2> QED BY <1>2, <1>14, <2>1, RemadeIsCurrent DEF CurrentInv
<1>15. CASE Restart
  <2>1. \A t \in Parts : written[t] = mem[t]
    BY <1>15, AllAsked, MemoryIsWritten DEF CurrentInv, AskedInv
  <2>2. CASE Parse(options) /\ record' = written /\ mem' = written
    BY <1>2, <1>15, <2>1, <2>2, ParseIsCurrent DEF Restart, CurrentInv
  <2>3. CASE Exit(written)
    BY <1>12, <1>15, <2>1, <2>3 DEF Restart
  <2> QED BY <1>15, <2>2, <2>3 DEF Restart
<1>16. CASE Tick
  <2>1. clock' \in Nat /\ clock <= clock'
    BY <1>1, <1>16 DEF Tick
  <2> QED BY <1>3, <1>16, <2>1, FilesKept DEF Tick, CurrentInv
<1>17. ASSUME NEW s \in Sources, Edit(s) \/ Touch(s) PROVE CurrentInv'
  <2>1. /\ version' = version \/ version' = [version EXCEPT ![s] = @ + 1]
        /\ Write(s, {<<s, version'[s]>>})
    BY <1>17 DEF Edit, Touch
  <2>2. phase' = "idle" /\ UNCHANGED threw
    BY <2>1 DEF Write, runVars
  <2> QED BY <1>4, <2>1, <2>2, SourceWritten DEF CurrentInv
<1>18. CASE Configure
  BY <1>4, <1>18, MakefileWritten DEF Configure, Write, CurrentInv, runVars
<1>19. ASSUME NEW f \in Deletable, Delete(f) PROVE CurrentInv'
  <2>1. f \in Files /\ phase' = "idle" /\ UNCHANGED threw
    BY <1>19, InputAssumption DEF Delete, runVars
  <2> QED BY <1>4, <1>19, <2>1, FileGone DEF CurrentInv
<1> QED
  BY <1>5, <1>6, <1>8, <1>9, <1>10, <1>11, <1>13, <1>14, <1>15, <1>16, <1>17, <1>18, <1>19
  DEF Next, Process

LEMMA InitIsCurrent ==
  ASSUME WellMade, Init PROVE CurrentInv
<1>1. /\ clock = 1 /\ version = [s \in Sources |-> 1]
      /\ record = NoRecords /\ mem = NoRecords /\ phase = "idle"
      /\ mtime = [f \in Files |-> IF f \in Sources \cup {Makefile} THEN 1 ELSE 0]
      /\ content = [f \in Files |-> IF f \in Sources \cup {Makefile} THEN Ideal(f) ELSE {}]
  BY DEF Init
<1>2. version \in Versions
  BY <1>1, InputAssumption DEF Versions
<1>3. RecordsInv
  <2> SUFFICES ASSUME NEW t \in Parts PROVE RecordOk(t)
    BY DEF RecordsInv
  <2>1. t \in Files /\ t \notin Sources /\ t # Makefile
    BY InputAssumption DEF Files, Parts
  <2> QED BY <1>1, <1>2, <2>1 DEF RecordOk, Missing, UpTo, NoRecords
<1>4. SourcesInv
  <2> SUFFICES ASSUME NEW s \in Sources
               PROVE  content[s] = {<<s, version[s]>>} /\ ~Missing(s)
    BY DEF SourcesInv
  <2>1. s \in Files /\ s # Target
    BY InputAssumption DEF Files
  <2>2. Ideal(s) = {<<s, version[s]>>}
    BY <2>1, BelowOfSource DEF Ideal
  <2>3. mtime[s] = 1 /\ 1 # 0
    BY <1>1, <2>1
  <2> QED BY <1>1, <2>1, <2>2, <2>3 DEF Missing
<1>5. StampInv
  <2>1. content[Makefile] = At(version, Makefile)
    BY <1>1, MakefileParts, Ideals
  <2>2. \A s \in Sources : ~(version[s] < version[s])
    BY <1>1
  <2> QED BY <1>2, <2>1, <2>2 DEF StampInv
<1>6. threw = {}
  BY DEF Init
<1> QED BY <1>1, <1>3, <1>4, <1>5, <1>6 DEF CurrentInv, BuiltIsCurrent, RulesInv, AskedInv

\* parse_make.cpp:520-539: what was asked for is built by rules that are those the
\* Makefile's sources call for, for every graph, whatever was edited, touched, deleted
\* or killed before, if the rule with the Makefile's commands names all it is made of
\* (task.cpp:128 looks at nothing else), nothing of it is phony, the commands of its
\* parts are found, and a part that can fail is the only one.
THEOREM RulesAreAlwaysCurrent ==
  ASSUME TaskSources[Makefile] = Edges[Makefile], Phony \cap Below[Makefile] = {},
         Throwing \cap Parts = {}, \A f \in Failing \cap Parts : Parts = {f}
  PROVE  Spec => []RulesAreCurrent
<1>1. WellMade
  BY DEF WellMade
<1>2. ProcessInv /\ ProcessInv' /\ CurrentInv /\ [Next]_vars => CurrentInv'
  BY <1>1, CurrentInvKept
<1>3. CurrentInv => RulesAreCurrent
  BY <1>1, MakefileParts, Ideals DEF CurrentInv, RulesInv, RulesAreCurrent
<1>4. Init => CurrentInv
  BY <1>1, InitIsCurrent
<1> QED BY <1>2, <1>3, <1>4, ProcessInvHolds, PTL DEF Spec

-------------------------------------------------------------------------------
(* What was asked for, under -B. *)

WellAsked == Phony \cap Below[Target] = {}

Whole == At(version, Target) \cup At(version, Makefile)

ForcedTargetInv ==
  phase = "build" /\ options.always /\ ~failed /\ node[Target] = "built" =>
    content[Target] = Whole

LEMMA WholeIsIdeal == Ideal(Target) = Whole
BY DEF Ideal, Whole, At

LEMMA DependenciesOfTarget ==
  ASSUME WellAsked
  PROVE  Target \in Made /\ Target \in Files /\ Edges[Target] \subseteq Plain
<1>1. Target \in Made /\ Target \in Files /\ Edges[Target] \subseteq Files
  BY InputAssumption DEF Files
<1>2. ASSUME NEW d \in Edges[Target] PROVE d \in Plain
  <2>1. Below[d] \subseteq Below[Target]
    BY <1>1, BelowOfMade
  <2>2. Target \notin Below[d]
    BY <1>1, InputAssumption
  <2> QED BY <1>1, <2>1, <2>2 DEF WellAsked, Plain
<1> QED BY <1>1, <1>2

LEMMA ForcedTargetBuilt ==
  ASSUME ProcessInv, CurrentInv, WellAsked, Succeed(Target),
         phase = "build", options.always, ~failed
  PROVE  content'[Target] = Whole
<1>1. /\ Ready(Target) /\ \A d \in Edges[Target] \ Phony : ~Missing(d)
      /\ \/ Target \in Phony \/ (UNCHANGED content /\ content[Target] = Output(Target))
         \/ content' = [content EXCEPT ![Target] = Output(Target)]
  BY DEF Succeed, Run
<1>2. Target \in Made /\ Target \in Files /\ Target \notin Phony
  BY DependenciesOfTarget, BelowIsClosed DEF WellAsked
<1>3. always
  BY DEF ProcessInv, ForcedInv
<1>4. \A d \in Edges[Target] : content[d] = At(version, d)
  <2> SUFFICES ASSUME NEW d \in Edges[Target] PROVE content[d] = At(version, d)
    OBVIOUS
  <2>1. d \in Plain /\ d \notin Phony
    BY DependenciesOfTarget, PlainFiles
  <2> QED BY <1>1, <1>2, <1>3, <2>1, DependenciesAreCurrent
<1>5. UNION { content[d] : d \in Edges[Target] } = At(version, Target)
  <2>1. UNION { content[d] : d \in Edges[Target] } = UNION { At(version, d) : d \in Edges[Target] }
    BY <1>4
  <2> QED BY <1>2, <2>1, AtOfMade
<1>6. Output(Target) = Whole
  BY <1>5 DEF Output, Whole, CurrentInv, RulesInv
<1> QED BY <1>1, <1>2, <1>6 DEF ProcessInv, Types

LEMMA ForcedTargetKept ==
  ASSUME ProcessInv, CurrentInv, ForcedTargetInv, WellAsked, [Next]_vars
  PROVE  ForcedTargetInv'
<1>1. Target \in Made /\ Target \in Files
  BY DependenciesOfTarget
<1>2. ASSUME UNCHANGED <<version, content, phase, options, node, failed>> PROVE ForcedTargetInv'
  BY <1>2 DEF ForcedTargetInv, Whole, At
<1>3. ASSUME phase' # "build" \/ failed' \/ node' = NothingDecided PROVE ForcedTargetInv'
  BY <1>1, <1>3, NothingIsDecided DEF ForcedTargetInv
<1>4. ASSUME NEW t \in Made, NEW result \in {"built", "failed"},
             node' = [node EXCEPT ![t] = result],
             UNCHANGED <<version, phase, options, failed>>,
             \A f \in Files \ {t} : content'[f] = content[f],
             t = Target /\ result = "built" /\ phase = "build" /\ options.always /\ ~failed =>
               content'[Target] = Whole
      PROVE  ForcedTargetInv'
  <2>1. t # Target => node'[Target] = node[Target] /\ content'[Target] = content[Target]
    BY <1>1, <1>4 DEF ProcessInv, Types
  <2>2. node'[t] = result
    BY <1>4, InputAssumption DEF ProcessInv, Types, Files
  <2>3. Whole' = Whole
    BY <1>4 DEF Whole, At
  <2> QED BY <1>4, <2>1, <2>2, <2>3 DEF ForcedTargetInv
<1>5. CASE UNCHANGED vars
  BY <1>2, <1>5 DEF vars, fileVars, runVars
<1>6. ASSUME NEW t \in Made, Spread(t) PROVE ForcedTargetInv'
  BY <1>4, <1>6 DEF Spread, fileVars
<1>7. ASSUME NEW t \in Made, Settle(t) PROVE ForcedTargetInv'
  <2>1. ~(phase = "build" /\ options.always)
    BY <1>7 DEF Settle, ProcessInv, ForcedInv
  <2> QED BY <1>4, <1>7, <2>1 DEF Settle, fileVars
<1>8. ASSUME NEW t \in Made, Succeed(t) PROVE ForcedTargetInv'
  <2>1. \A f \in Files \ {t} : content'[f] = content[f]
    BY <1>8 DEF Succeed, ProcessInv, Types
  <2>2. t = Target /\ phase = "build" /\ options.always /\ ~failed => content'[Target] = Whole
    BY <1>8, ForcedTargetBuilt
  <2> QED BY <1>4, <1>8, <2>1, <2>2 DEF Succeed
<1>9. ASSUME NEW t \in Made, Fail(t) \/ NotFound(t) PROVE ForcedTargetInv'
  <2>1. failed' \/ phase' = "idle"
    BY <1>9 DEF Fail, NotFound, NotDone, Exit
  <2> QED BY <1>3, <2>1
<1>10. ASSUME NEW m, Exit(m) PROVE ForcedTargetInv'
  BY <1>3, <1>10 DEF Exit
<1>11. ASSUME NEW o, Parse(o) PROVE ForcedTargetInv'
  BY <1>3, <1>11 DEF Parse
<1>12. CASE (\E o \in Options : Start(o)) \/ Throw \/ Restart \/ EndBuild \/ Kill
  BY <1>10, <1>11, <1>12 DEF Start, Throw, Restart, EndBuild, Kill
<1>13. CASE Continue
  BY <1>3, <1>13 DEF Continue
<1>14. CASE Tick
  BY <1>2, <1>14 DEF Tick, runVars
<1>15. ASSUME NEW f, (\E new : Write(f, new)) \/ Delete(f) PROVE ForcedTargetInv'
  BY <1>3, <1>15 DEF Write, Delete
<1>16. CASE Configure
  BY <1>15, <1>16 DEF Configure
<1>17. ASSUME NEW s \in Sources, Edit(s) \/ Touch(s) PROVE ForcedTargetInv'
  BY <1>15, <1>17 DEF Edit, Touch
<1> QED
  BY <1>5, <1>6, <1>7, <1>8, <1>9, <1>12, <1>13, <1>14, <1>15, <1>16, <1>17
  DEF Next, Process

\* options.cpp:96 and taskmaster.cpp:257 over parse_make.cpp:520-539: a run of -F make
\* with -B that ends without a failure leaves what was asked for made of everything as
\* it is now, by rules that are current, for every graph and whatever was edited,
\* deleted or killed before, under the premises of RulesAreAlwaysCurrent and if nothing
\* it is made of is phony.
THEOREM ForcedTargetIsAlwaysCurrent ==
  ASSUME TaskSources[Makefile] = Edges[Makefile], Phony \cap Below[Makefile] = {},
         Throwing \cap Parts = {}, \A f \in Failing \cap Parts : Parts = {f},
         Phony \cap Below[Target] = {}
  PROVE  Spec => ForcedTargetIsCurrent
<1>1. WellMade /\ WellAsked
  BY DEF WellMade, WellAsked
<1>2. ProcessInv /\ ProcessInv' /\ CurrentInv /\ ForcedTargetInv /\ [Next]_vars =>
        CurrentInv' /\ ForcedTargetInv'
  BY <1>1, CurrentInvKept, ForcedTargetKept
<1>3. ProcessInv /\ ForcedTargetInv =>
        [(EndBuild /\ ~failed /\ options.always) => content[Target] = Ideal(Target)]_vars
  <2> SUFFICES ASSUME ProcessInv, ForcedTargetInv, EndBuild, ~failed, options.always
               PROVE  content[Target] = Ideal(Target)
    OBVIOUS
  <2>1. phase = "build" /\ node[Target] # "todo" /\ Target \in Made /\ Target \in Files
    BY <1>1, DependenciesOfTarget DEF EndBuild
  <2>2. node[Target] = "built"
    BY <2>1 DEF ProcessInv, Types, WalkInv
  <2> QED BY <2>1, <2>2, WholeIsIdeal DEF ForcedTargetInv
<1>4. Init => CurrentInv /\ ForcedTargetInv
  BY <1>1, InitIsCurrent DEF Init, ForcedTargetInv
<1> QED BY <1>2, <1>3, <1>4, ProcessInvHolds, PTL DEF Spec, ForcedTargetIsCurrent
=============================================================================
