--------------------------- MODULE IncludeScanner ----------------------------
(* The C/C++ scanner (scan_cpp.cpp) over many runs: include lists parsed or   *)
(* taken from the table scanner_cache, the search of CPPPATH by find_file     *)
(* with its cache (fs_node.cpp:189-226), and the edges it gives each object.  *)
(* Runs build everything, so a file has one record; generations are the       *)
(* matter of SignatureDb.  A file's contents are what it includes.  In one    *)
(* target a file is scanned when an edge to it is added; later calls for the  *)
(* same edge find nothing new and are left out.  An operator named Bug... is  *)
(* a faulty variant of the definition below it.                               *)
EXTENDS Naturals, FiniteSets, FiniteSetsExt, Sequences

CONSTANTS
  Objects,
  Source,      \* the file an object is made of
  Path,        \* CPPPATH of an object's environment: a sequence of directories
  Files,       \* [dir, name]
  Generated,   \* files made by commands of the same build
  Contents,    \* sets of includes [system, name] a file may have
  Extra,       \* files recorded, not scanned, by some goal of their own
  MayCrash,
  MaxClock,    \* bounds edits and runs
  None

ASSUME InputAssumption ==
  /\ Source \in [Objects -> Files]
  /\ Generated \subseteq Files /\ Extra \subseteq Files
  /\ DOMAIN Contents = Files /\ DOMAIN Path = Objects
  /\ \A o \in Objects : Path[o] \in Seq({ Path[o][i] : i \in DOMAIN Path[o] })
  /\ MayCrash \in BOOLEAN /\ MaxClock \in Nat \ {0}
  /\ None \notin Files

VARIABLES
  clock,      \* ticks at every edit and run: no two in the same second
  disk,       \* what a file includes and its timestamp, 0 for no file
  row,        \* table nodes: what the last record of a file says
  table,      \* table scanner_cache
  phase,      \* "idle", "walking", "walked"
  todo,       \* objects whose source is still to be scanned
  target,     \* the object being scanned
  stack,      \* calls of scan_cpp: the file and the includes still to look up
  edges,      \* out-edges of the objects
  trie,       \* files with a node
  findCache,  \* find_cache: <<name, directories>> -> a file or None
  unch,       \* FSEntry::unchanged_
  scanned     \* PersistentNodeData::scanner_cache_ of the files scanned in this run

diskVars == <<clock, disk>>
dbVars == <<row, table>>
walkVars == <<todo, target, stack, edges, trie, findCache, unch, scanned>>
vars == <<diskVars, dbVars, phase, walkVars>>

NoFile == [ts |-> 0, includes |-> {}]
NoRow == [existed |-> "null", ts |-> 0, sig |-> None]

Existing == { f \in Files : disk[f].ts # 0 }

-------------------------------------------------------------------------------
(* Where files are found. *)

\* The file of that name in the first of the directories where S has one.
FirstIn(dirs, name, S) ==
  LET hits == { i \in DOMAIN dirs : [dir |-> dirs[i], name |-> name] \in S } IN
  IF hits = {} THEN None ELSE [dir |-> dirs[Min(hits)], name |-> name]

\* find_file: in each directory first the nodes, then the disk.
FindFile(name, dirs) == FirstIn(dirs, name, trie \cup Existing)

BugKeyWithoutDirectories(name, dirs) == <<name, <<>>>>

FindKey(name, dirs) == <<name, dirs>>

FindFileCached(name, dirs) ==
  IF FindKey(name, dirs) \in DOMAIN findCache
  THEN findCache[FindKey(name, dirs)] ELSE FindFile(name, dirs)

\* The directory of the includer comes last, and not for <...>.
SearchPaths(o, from, inc) == IF inc.system THEN Path[o] ELSE Append(Path[o], from.dir)

-------------------------------------------------------------------------------
(* What a file includes. *)

\* FSEntry::unchanged against the file's record.
Unchanged(f) ==
  IF unch[f] # "unknown" THEN unch[f] = "same"
  ELSE IF f \notin Existing THEN row[f].existed = "no"
  ELSE row[f].existed = "yes" /\ (disk[f].ts = row[f].ts \/ disk[f].includes = row[f].sig)

Cached(f) == IF f \in DOMAIN scanned THEN scanned[f] ELSE table[f]

\* The deps of scan_cpp; the contents of a file that does not exist are empty.
IncludesOf(f) == IF Unchanged(f) THEN Cached(f) ELSE disk[f].includes

\* scan_cpp is called for the object and a file: its include list is ready.
Enter(o, f, calls) ==
  /\ scanned' = [g \in DOMAIN scanned \cup {f} |-> IF g = f THEN IncludesOf(f) ELSE scanned[g]]
  /\ unch' = [unch EXCEPT ![f] = IF Unchanged(f) THEN "same" ELSE "changed"]
  /\ stack' = <<[file |-> f, rest |-> IncludesOf(f)]>> \o calls

-------------------------------------------------------------------------------
(* The walk. *)

BugGeneratedNotMentioned ==
  /\ phase = "idle"
  /\ clock < MaxClock /\ clock' = clock + 1
  /\ phase' = "walking"
  /\ todo' = Objects
  /\ edges' = [o \in Objects |-> {Source[o]}]
  /\ trie' = { Source[o] : o \in Objects }
  /\ UNCHANGED <<disk, dbVars, target, stack, findCache, unch, scanned>>

\* A process starts: the script mentions sources and generated files.
StartRun ==
  /\ phase = "idle"
  /\ clock < MaxClock /\ clock' = clock + 1
  /\ phase' = "walking"
  /\ todo' = Objects
  /\ edges' = [o \in Objects |-> {Source[o]}]
  /\ trie' = Generated \cup { Source[o] : o \in Objects }
  /\ UNCHANGED <<disk, dbVars, target, stack, findCache, unch, scanned>>

\* discover_vertex of an object scans its source.
ScanSource ==
  /\ phase = "walking" /\ stack = <<>>
  /\ \E o \in todo :
       /\ target' = o
       /\ todo' = todo \ {o}
       /\ Enter(o, Source[o], <<>>)
  /\ UNCHANGED <<diskVars, dbVars, phase, edges, trie, findCache>>

\* The next include is looked up.
LookUp(found, inc) ==
  LET call == Head(stack)
      key == FindKey(inc.name, SearchPaths(target, call.file, inc)) IN
  /\ found = FindFileCached(inc.name, SearchPaths(target, call.file, inc))
  /\ findCache' = [k \in DOMAIN findCache \cup {key} |->
                     IF k = key THEN found ELSE findCache[k]]
  /\ trie' = IF found = None THEN trie ELSE trie \cup {found}
  /\ UNCHANGED <<diskVars, dbVars, phase, todo, target>>

Rest(inc) ==
  <<[Head(stack) EXCEPT !.rest = @ \ {inc}]>> \o Tail(stack)

BugFollowedWithoutEdge ==
  /\ stack # <<>>
  /\ \E inc \in Head(stack).rest : \E found \in Files :
       /\ LookUp(found, inc) /\ found \notin edges[target]
       /\ Enter(target, found, Rest(inc))
  /\ UNCHANGED edges

\* A new edge: its file is scanned in turn.
Follow ==
  /\ stack # <<>>
  /\ \E inc \in Head(stack).rest : \E found \in Files :
       /\ LookUp(found, inc) /\ found \notin edges[target]
       /\ edges' = [edges EXCEPT ![target] = @ \cup {found}]
       /\ Enter(target, found, Rest(inc))

BugFollowedAgain ==
  /\ stack # <<>>
  /\ \E inc \in Head(stack).rest :
       \/ /\ LookUp(None, inc)
          /\ stack' = Rest(inc) /\ UNCHANGED <<unch, scanned>>
       \/ \E found \in edges[target] :
            /\ LookUp(found, inc) /\ Len(stack) < 6
            /\ Enter(target, found, Rest(inc))
  /\ UNCHANGED edges

\* Nothing was found, or the edge is there already.
Ignore ==
  /\ stack # <<>>
  /\ \E inc \in Head(stack).rest :
       \E found \in edges[target] \cup {None} : LookUp(found, inc) /\ stack' = Rest(inc)
  /\ UNCHANGED <<edges, unch, scanned>>

Return ==
  /\ stack # <<>> /\ Head(stack).rest = {}
  /\ stack' = Tail(stack)
  /\ UNCHANGED <<diskVars, dbVars, phase, todo, target, edges, trie, findCache, unch, scanned>>

-------------------------------------------------------------------------------
(* The commands, the end of the process, and users. *)

ForgetRun ==
  /\ phase' = "idle"
  /\ todo' = {} /\ target' = None /\ stack' = <<>>
  /\ edges' = [o \in Objects |-> {}]
  /\ trie' = {} /\ findCache' = <<>>
  /\ unch' = [f \in Files |-> "unknown"]
  /\ scanned' = <<>>

\* The walk is over and the commands have run: each generated file may be new.
Build ==
  /\ phase = "walking" /\ todo = {} /\ stack = <<>>
  /\ phase' = "walked"
  /\ \E Remade \in SUBSET Generated :
       /\ { g \in Generated : g \notin Existing } \subseteq Remade
       /\ \E new \in [Remade -> UNION { Contents[g] : g \in Generated }] :
            /\ \A g \in Remade : new[g] \in Contents[g]
            /\ disk' = [f \in Files |->
                 IF f \in Remade THEN [ts |-> clock, includes |-> new[f]] ELSE disk[f]]
       /\ unch' = [f \in Files |-> IF f \in Remade THEN "unknown" ELSE unch[f]]
  /\ UNCHANGED <<clock, dbVars, todo, target, stack, edges, trie, findCache, scanned>>

RowOf(f) ==
  [existed |-> IF f \in Existing THEN "yes" ELSE "no",
   ts |-> disk[f].ts,
   sig |-> IF Unchanged(f) THEN row[f].sig ELSE disk[f].includes]

BugOldIncludesWritten(f) == table[f]

\* write_scanner_cache
Written(f) == IF f \in DOMAIN scanned THEN scanned[f] ELSE table[f]

\* ~PersistentNodeData: every file of the build, and those of other goals it was
\* asked for, gets a row; the include list is written if there is one.
EndRun ==
  /\ phase = "walked"
  /\ \E Recorded \in SUBSET Files :
       /\ Recorded \subseteq (UNION { edges[o] : o \in Objects }) \cup (Extra \cap Existing)
       /\ UNION { edges[o] : o \in Objects } \subseteq Recorded
       /\ row' = [f \in Files |-> IF f \in Recorded THEN RowOf(f) ELSE row[f]]
       /\ table' = [f \in Files |-> IF f \in Recorded THEN Written(f) ELSE table[f]]
  /\ ForgetRun
  /\ UNCHANGED diskVars

\* The process is killed: nothing was committed.
Crash ==
  /\ MayCrash /\ phase # "idle"
  /\ ForgetRun
  /\ UNCHANGED <<diskVars, dbVars>>

\* A file is written, rewritten or touched.
Edit ==
  /\ phase = "idle"
  /\ clock < MaxClock /\ clock' = clock + 1
  /\ \E f \in Files \ Generated : \E new \in Contents[f] :
       disk' = [disk EXCEPT ![f] = [ts |-> clock + 1, includes |-> new]]
  /\ UNCHANGED <<dbVars, phase, walkVars>>

Delete ==
  /\ phase = "idle"
  /\ clock < MaxClock /\ clock' = clock + 1
  /\ \E f \in Existing \ { Source[o] : o \in Objects } : disk' = [disk EXCEPT ![f] = NoFile]
  /\ UNCHANGED <<dbVars, phase, walkVars>>

Init ==
  /\ clock = 1
  /\ disk \in [Files -> { [ts |-> 1, includes |-> c] : c \in UNION { Contents[f] : f \in Files } }
                        \cup {NoFile}]
  /\ \A f \in Existing : f \notin Generated /\ disk[f].includes \in Contents[f]
  /\ \A o \in Objects : Source[o] \in Existing
  /\ row = [f \in Files |-> NoRow]
  /\ table = [f \in Files |-> {}]
  /\ phase = "idle"
  /\ todo = {} /\ target = None /\ stack = <<>>
  /\ edges = [o \in Objects |-> {}]
  /\ trie = {} /\ findCache = <<>>
  /\ unch = [f \in Files |-> "unknown"]
  /\ scanned = <<>>

Walk == ScanSource \/ Follow \/ Ignore \/ Return \/ Build

\* No time is left for another edit or run.
Over == phase = "idle" /\ clock = MaxClock /\ UNCHANGED vars

Next == StartRun \/ Walk \/ EndRun \/ Crash \/ Edit \/ Delete \/ Over

Spec == Init /\ [][Next]_vars

\* The single thread that walks does not stop.
FairSpec == Spec /\ WF_vars(Walk)
-------------------------------------------------------------------------------
(* What the compiler does, when the commands run: a quoted include is looked  *)
(* for next to the file that includes it first, then in CPPPATH.              *)

Resolved(o, from, inc) ==
  FirstIn(IF inc.system THEN Path[o] ELSE <<from.dir>> \o Path[o], inc.name, Existing)

\* The least set that holds the source and what its members include.
Reads(o) ==
  LET Closed(R) ==
        /\ Source[o] \in R
        /\ \A f \in R : \A inc \in disk[f].includes : Resolved(o, f, inc) \in R \cup {None}
  IN { f \in Files : \A R \in SUBSET Files : Closed(R) => f \in R }

-------------------------------------------------------------------------------
(* Properties. *)

\* Every variable stays in its type; a call is made for a file with an edge.
TypeOK ==
  /\ clock \in 1 .. MaxClock
  /\ \A f \in Files : /\ disk[f].ts \in 0 .. clock /\ disk[f].includes \in Contents[f] \cup {{}}
                     /\ row[f].ts \in 0 .. clock /\ row[f].existed \in {"null", "no", "yes"}
  /\ phase \in {"idle", "walking", "walked"}
  /\ todo \subseteq Objects /\ target \in Objects \cup {None}
  /\ edges \in [Objects -> SUBSET Files] /\ trie \subseteq Files
  /\ \A i \in DOMAIN stack : stack[i].file \in edges[target]
  /\ unch \in [Files -> {"unknown", "same", "changed"}]
  /\ DOMAIN scanned \subseteq Files

\* What an object is recorded to depend on is what its compiler reads, through
\* whatever was edited, moved to another directory or generated since the include
\* lists were stored: scan_cpp.cpp:84-108 with find_file and the two caches.
ReadsAreDependencies == phase = "walked" => \A o \in Objects : edges[o] = Reads(o)

\* scan_cpp.cpp:86 trusts the stored list of a file that compares as unchanged: if the
\* contents are those the row was made of, the list is theirs, also after a killed
\* run, a deletion or a touch.
StoredListsAreRight ==
  phase = "idle" => \A f \in Files : row[f].sig # None => table[f] = row[f].sig

\* fs_node.cpp:206: a cached answer, a failure too, is what a new search would give
\* at any time of the walk.
CachedSearchIsCurrent ==
  \A key \in DOMAIN findCache :
    findCache[key] = FindFile(key[1], key[2])

\* scan_cpp.cpp:105, "Only recurse into newly added edges to prevent infinite
\* recursion in case of circular includes": the walk ends.
WalkEnds == phase = "walking" ~> phase # "walking"
===============================================================================
