------------------------------- MODULE MakeRules -------------------------------
(* The Makefile frontend: the rules of a Makefile become tasks and edges one  *)
(* by one, the targets asked for are resolved, and while the build order is   *)
(* made the scanner of every rule with commands applies pattern rules to the  *)
(* sources it meets.  A name is a node of the walk from the start and becomes *)
(* an entry when something mentions it; what a pattern says of a name, the    *)
(* length of the stem and the sources it gives, is a partial function.  An    *)
(* operator named Bug... is a faulty variant of the definition below it.      *)
EXTENDS DepthFirstVisit

CONSTANTS
  Makefiles,   \* what a Makefile may hold: sequences of rules
  Disks,       \* sets of names that may exist as files
  Requests(_)  \* sequences of targets that may be asked for with a Makefile

Names == Vertices \ {Goal}

IsRule(r) ==
  \/ r \in [kind : {"rule"}, targets : SUBSET Names, sources : SUBSET Names, commands : BOOLEAN]
  \/ r \in [kind : {"special"}, targets : {{}}, sources : SUBSET Names, phony : BOOLEAN]
  \/ \E D \in SUBSET Names :
       r \in [kind : {"pattern"}, targets : {{}}, sources : {{}}, commands : BOOLEAN,
              makes : [D -> [stem : Nat, sources : SUBSET Names]]]

ASSUME MakefilesAssumption ==
  /\ \A c \in Makefiles :
       /\ Len(c) \in Nat /\ DOMAIN c = 1 .. Len(c)
       /\ \A i \in DOMAIN c : IsRule(c[i])
       /\ Requests(c) \subseteq Seq(Names)
  /\ Disks \subseteq SUBSET Names

VARIABLES
  makefile,    \* input
  read,        \* the number of rules read
  patterns,
  disk,        \* input: the files that exist
  requested,   \* command line targets not yet resolved
  goals,       \* command_line_targets, or default_targets when there are none
  phase,       \* "reading", "resolving", "walking", "noRule"
  entries,     \* the names that are nodes of the dependency graph
  task         \* the kind of task of each node

inputs == <<makefile, disk>>
nodes == <<entries, task, out>>
vars == <<inputs, read, patterns, requested, goals, phase, nodes, walkVars>>

\* The tasks are "none", "empty" (a phony target) and "make" (with make_scanner).
HasTask == { n \in Vertices : task[n] # "none" }

-------------------------------------------------------------------------------
(* Rules. *)

BugTargetsOnly(rules) ==
  /\ entries' = entries \cup UNION { r.targets : r \in rules }
  /\ task' = [n \in Vertices |->
       IF \E r \in rules : n \in r.targets /\ r.commands THEN "make" ELSE task[n]]
  /\ out' = [n \in Vertices |->
       out[n] \cup UNION { r.sources : r \in { r \in rules : n \in r.targets } }]

\* Executing rules; one without commands only establishes dependencies.
Apply(rules) ==
  /\ entries' = entries \cup UNION { r.targets \cup r.sources : r \in rules }
  /\ task' = [n \in Vertices |->
       IF \E r \in rules : n \in r.targets /\ r.commands THEN "make" ELSE task[n]]
  /\ out' = [n \in Vertices |->
       out[n] \cup UNION { r.sources : r \in { r \in rules : n \in r.targets } }]

\* The special targets .PRECIOUS and .PHONY.
Special(rule) ==
  /\ entries' = entries \cup rule.sources
  /\ task' = [n \in Vertices |->
       IF rule.phony /\ n \in rule.sources /\ task[n] = "none" THEN "empty" ELSE task[n]]
  /\ UNCHANGED out

BugEntryCreated(name) == TRUE

BugFilesNotLookedFor(name) == name \in entries

\* A file, or anything that was mentioned.
Available(name) == name \in entries \cup disk

Stem(i, name) == patterns[i].makes[name].stem

SourcesOf(i, name) == patterns[i].makes[name].sources

Missing(i, name) == { source \in SourcesOf(i, name) : ~Available(source) }

\* The pattern with the longest stem, the first of several.
Longest(candidates, name) ==
  Min({ i \in candidates : \A j \in candidates : Stem(j, name) <= Stem(i, name) })

Expanded(i, name) ==
  [targets |-> {name}, sources |-> SourcesOf(i, name), commands |-> patterns[i].commands]

\* The rules match_filename returns for a name, none of the patterns in applied
\* among them: one whose sources are available, or else one whose missing sources
\* other patterns make, and their rules.
MatchFilename ==
  LET match[call \in Names \X SUBSET DOMAIN patterns] ==
        LET name == call[1]
            applied == call[2]
            matched == { i \in DOMAIN patterns \ applied : name \in DOMAIN patterns[i].makes }
            full == { i \in matched : Missing(i, name) = {} }
            Deeper(i) == { match[<<source, applied \cup {i}>>] : source \in Missing(i, name) }
            deep == { i \in matched : {} \notin Deeper(i) }
        IN IF full # {} THEN {Expanded(Longest(full, name), name)}
           ELSE IF deep # {}
           THEN LET i == Longest(deep, name) IN {Expanded(i, name)} \cup UNION Deeper(i)
           ELSE {}
  IN match

RulesFor(name) == MatchFilename[<<name, {}>>]

-------------------------------------------------------------------------------
(* Actions. *)

Init ==
  /\ makefile \in Makefiles /\ read = 0
  /\ disk \in Disks
  /\ requested \in Requests(makefile)
  /\ patterns = <<>> /\ goals = {} /\ phase = "reading"
  /\ entries = {} /\ task = [n \in Vertices |-> "none"] /\ out = [n \in Vertices |-> {}]
  /\ color = [n \in Vertices |-> "white"]
  /\ stack = <<>> /\ scanned = End /\ order = <<>> /\ thrown = FALSE

\* The first rule with commands gives the default targets.
Defaults(rule) == IF goals = {} /\ rule.commands THEN rule.targets ELSE goals

ReadRule ==
  LET rule == makefile[read + 1] IN
  /\ phase = "reading" /\ read < Len(makefile)
  /\ read' = read + 1
  /\ \/ /\ rule.kind = "pattern"
        /\ patterns' = Append(patterns, rule)
        /\ UNCHANGED <<nodes, goals>>
     \/ /\ rule.kind = "special"
        /\ Special(rule)
        /\ UNCHANGED <<patterns, goals>>
     \/ /\ rule.kind = "rule"
        /\ Apply({rule})
        /\ goals' = Defaults(rule)
        /\ UNCHANGED patterns
  /\ UNCHANGED <<inputs, requested, phase, walkVars>>

EndReading ==
  /\ phase = "reading" /\ read = Len(makefile)
  /\ phase' = "resolving"
  /\ goals' = IF requested = <<>> THEN goals ELSE {}
  /\ UNCHANGED <<inputs, read, patterns, requested, nodes, walkVars>>

\* A target that nothing mentions needs a pattern.
RulesForRequest(target) ==
  IF target \in entries THEN {} ELSE RulesFor(target)

Resolve ==
  LET target == Head(requested) IN
  /\ phase = "resolving" /\ requested # <<>>
  /\ requested' = Tail(requested)
  /\ Apply(RulesForRequest(target))
  /\ IF target \in entries'
     THEN goals' = goals \cup {target} /\ UNCHANGED phase
     ELSE phase' = "noRule" /\ UNCHANGED goals
  /\ UNCHANGED <<inputs, read, patterns, walkVars>>

\* main makes the end goal depend on the goals.
StartWalk ==
  /\ phase = "resolving" /\ requested = <<>>
  /\ phase' = "walking"
  /\ out' = [out EXCEPT ![Goal] = goals]
  /\ color' = [color EXCEPT ![Goal] = "gray"]
  /\ stack' = <<StartAtGoal>>
  /\ UNCHANGED <<inputs, read, patterns, requested, goals, entries, task, scanned, order, thrown>>

BugTasksReplaced(source) == RulesFor(source)

\* make_scanner.
RulesForSource(source) ==
  IF task[source] # "none" THEN {} ELSE RulesFor(source)

\* discover_vertex comes to the next source of a node with a task.
ScanSource ==
  /\ phase = "walking" /\ Discovering
  /\ scanned' = NextEdge(Node, scanned)
  /\ Apply(IF scanned' # End /\ task[Node] = "make" THEN RulesForSource(scanned') ELSE {})
  /\ UNCHANGED <<inputs, read, patterns, requested, goals, phase, color, stack, order, thrown>>

Step ==
  /\ phase = "walking" /\ Visit(HasTask)
  /\ UNCHANGED <<inputs, read, patterns, requested, goals, phase, entries, task>>

Over ==
  /\ phase = "noRule" \/ (phase = "walking" /\ (thrown \/ stack = <<>>))
  /\ UNCHANGED vars

Next == ReadRule \/ EndReading \/ Resolve \/ StartWalk \/ ScanSource \/ Step \/ Over

Spec == Init /\ [][Next]_vars

-------------------------------------------------------------------------------
(* Properties. *)

Returned == phase = "walking" /\ stack = <<>>

InOrder == { order[i] : i \in DOMAIN order }

\* Whatever has a task or edges is an entry, and edges lead to entries.
TypeOK ==
  /\ read \in 0 .. Len(makefile) /\ Len(patterns) <= read
  /\ phase \in {"reading", "resolving", "walking", "noRule"}
  /\ goals \subseteq entries /\ entries \subseteq Names
  /\ task \in [Vertices -> {"none", "empty", "make"}]
  /\ HasTask \subseteq entries
  /\ out \in [Vertices -> SUBSET entries] /\ \A n \in Names \ entries : out[n] = {}
  /\ color \in [Vertices -> {"white", "gray", "black"}]
  /\ stack \in Seq([node : Vertices, next : 0 .. End])
  /\ scanned \in 0 .. End /\ order \in Seq(Vertices) /\ thrown \in BOOLEAN

\* What parallel_build relies on, also when pattern rules add tasks and edges to
\* other nodes than the one being discovered (parse_make.cpp:502-507).
OrderIsRight == Returned => IsBuildOrder

\* Once a node is in the build order, with the task it had then, no pattern gives
\* it another task or edges nobody would walk (taskmaster.cpp:95-102).
FinishedIsFinal ==
  [][\A n \in InOrder : task'[n] = task[n] /\ out'[n] = out[n]]_vars

\* Rules come from patterns for every node that has none (parse_make.cpp:503 "skip
\* nodes that already have rules assigned"; 214 adds "an empty task to suppress
\* application of pattern rules"): a node left without a task has no pattern whose
\* sources are there.
PatternsAreApplied ==
  Returned => \A n \in InOrder \cap Names : task[n] = "none" =>
    ~\E i \in DOMAIN patterns :
        n \in DOMAIN patterns[i].makes /\ SourcesOf(i, n) \subseteq disk

Mentioned == UNION { makefile[i].targets \cup makefile[i].sources : i \in DOMAIN makefile }

\* A chain of patterns is applied as a whole (parse_make.cpp:321-352): every name in
\* the build order is a file, or the Makefile names it, or there is a rule for it.
NothingMissing ==
  Returned => \A n \in InOrder \cap Names :
    n \in disk \cup Mentioned \cup HasTask \/ out[n] # {}
===============================================================================
