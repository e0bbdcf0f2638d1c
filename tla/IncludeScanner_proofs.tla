------------------------ MODULE IncludeScanner_proofs ------------------------
(* Proofs about IncludeScanner for every set of files, search paths and       *)
(* contents, over any number of runs, edits and kills.                        *)
EXTENDS IncludeScanner, WellFoundedInduction, TLAPS

-------------------------------------------------------------------------------
(* Searches. *)

LEMMA LeastExists ==
  ASSUME NEW S, S \subseteq Nat, S # {}
  PROVE  \E m \in S : \A n \in S : m <= n
<1>1. PICK m \in S : \A n \in S : <<n, m>> \notin OpToRel(<, Nat)
  BY WFMin, NatLessThanWellFounded
<1>2. ASSUME NEW n \in S PROVE m <= n
  <2>1. m \in Nat /\ n \in Nat /\ ~(n < m)
    BY <1>1 DEF OpToRel
  <2> QED BY <2>1
<1> QED BY <1>2

LEMMA LeastIsMember ==
  ASSUME NEW S, S \subseteq Nat, S # {}
  PROVE  Min(S) \in S
BY LeastExists DEF Min

\* A search finds a file that is there, or nothing.
LEMMA FoundIsThere ==
  ASSUME NEW dirs, DOMAIN dirs \subseteq Nat, NEW name, NEW S
  PROVE  FirstIn(dirs, name, S) \in S \cup {None}
<1> DEFINE hits == { i \in DOMAIN dirs : [dir |-> dirs[i], name |-> name] \in S }
<1>1. CASE hits = {}
  BY <1>1 DEF FirstIn
<1>2. CASE hits # {}
  <2>1. hits \subseteq Nat
    OBVIOUS
  <2>2. Min(hits) \in hits
    BY <1>2, <2>1, LeastIsMember
  <2>3. [dir |-> dirs[Min(hits)], name |-> name] \in S
    BY <2>2
  <2> QED BY <1>2, <2>3 DEF FirstIn
<1> QED BY <1>1, <1>2

LEMMA SearchPathsAreSequences ==
  ASSUME NEW o \in Objects, NEW from, NEW inc
  PROVE  DOMAIN SearchPaths(o, from, inc) \subseteq Nat
<1> DEFINE D == { Path[o][i] : i \in DOMAIN Path[o] } \cup {from.dir}
<1>1. Path[o] \in Seq({ Path[o][i] : i \in DOMAIN Path[o] })
  BY InputAssumption
<1>2. Path[o] \in Seq(D)
  BY <1>1
<1> HIDE DEF D
<1>3. from.dir \in D
  BY DEF D
<1>4. Append(Path[o], from.dir) \in Seq(D)
  BY <1>2, <1>3
<1>5. SearchPaths(o, from, inc) \in Seq(D)
  BY <1>2, <1>4 DEF SearchPaths
<1> QED BY <1>5

-------------------------------------------------------------------------------
(* The inductive invariant. *)

Lists == (UNION { Contents[f] : f \in Files }) \cup {{}}

Calls == [file : Files, rest : SUBSET UNION Lists]

Types ==
  /\ clock \in 1 .. MaxClock
  /\ disk \in [Files -> [ts : 0 .. clock, includes : Lists]]
  /\ \A f \in Files : disk[f].includes \in Contents[f] \cup {{}}
  /\ \A f \in Files : row[f].ts \in 0 .. clock /\ row[f].existed \in {"null", "no", "yes"}
  /\ table \in [Files -> Lists]
  /\ phase \in {"idle", "walking", "walked"}
  /\ todo \subseteq Objects /\ target \in Objects \cup {None}
  /\ stack \in Seq(Calls)
  /\ edges \in [Objects -> SUBSET Files] /\ trie \subseteq Files
  /\ unch \in [Files -> {"unknown", "same", "changed"}]
  /\ DOMAIN scanned \subseteq Files /\ \A f \in DOMAIN scanned : scanned[f] \in Lists

\* Calls are those of an object that is being scanned.
CallsInv ==
  /\ stack # <<>> => phase = "walking" /\ target \in Objects
  /\ \A i \in 1 .. Len(stack) : stack[i].file \in edges[target]
  /\ phase # "idle" => \A o \in Objects : Source[o] \in edges[o]

\* What a search looks through stays the same from the start of a walk until the
\* process ends: what the commands make had nodes before.
CacheInv ==
  /\ phase # "idle" => Generated \subseteq trie
  /\ phase = "idle" => DOMAIN findCache = {}
  /\ CachedSearchIsCurrent

IInv == Types /\ CallsInv /\ CacheInv

-------------------------------------------------------------------------------
(* The cache of searches. *)

LEMMA SameSearch ==
  ASSUME CachedSearchIsCurrent, (trie \cup Existing)' = trie \cup Existing,
         UNCHANGED findCache
  PROVE  CachedSearchIsCurrent'
BY DEF CachedSearchIsCurrent, FindFile

\* A file found is there already: giving it a node changes no search.
LEMMA FoundByLookUp ==
  ASSUME IInv, stack # <<>>, NEW found, NEW inc, LookUp(found, inc)
  PROVE  found \in trie \cup Existing \cup {None}
<1> DEFINE dirs == SearchPaths(target, Head(stack).file, inc)
<1>1. DOMAIN dirs \subseteq Nat
  BY SearchPathsAreSequences DEF IInv, CallsInv
<1>2. FindFile(inc.name, dirs) \in trie \cup Existing \cup {None}
  BY <1>1, FoundIsThere DEF FindFile
<1>3. found = FindFileCached(inc.name, dirs)
  BY DEF LookUp
<1>4. FindFileCached(inc.name, dirs) = FindFile(inc.name, dirs)
  <2> HIDE DEF dirs
  <2>1. FindKey(inc.name, dirs)[1] = inc.name /\ FindKey(inc.name, dirs)[2] = dirs
    BY DEF FindKey
  <2> QED BY <2>1 DEF FindFileCached, IInv, CacheInv, CachedSearchIsCurrent
<1> QED BY <1>2, <1>3, <1>4

LEMMA LookUpKeepsCache ==
  ASSUME IInv, stack # <<>>, NEW found, NEW inc, LookUp(found, inc)
  PROVE  CacheInv'
<1> DEFINE dirs == SearchPaths(target, Head(stack).file, inc)
           key == FindKey(inc.name, dirs)
<1>1. /\ UNCHANGED <<disk, phase>>
      /\ findCache' = [k \in DOMAIN findCache \cup {key} |->
                         IF k = key THEN found ELSE findCache[k]]
      /\ trie' = IF found = None THEN trie ELSE trie \cup {found}
      /\ found = FindFileCached(inc.name, dirs)
  BY DEF LookUp, diskVars
<1>2. key[1] = inc.name /\ key[2] = dirs /\ key = FindKey(inc.name, dirs)
  BY DEF FindKey
<1> HIDE DEF key, dirs
<1>3. found = FindFile(key[1], key[2])
  BY <1>1, <1>2 DEF FindFileCached, IInv, CacheInv, CachedSearchIsCurrent
<1>4. Existing' = Existing
  BY <1>1 DEF Existing
<1>5. (trie \cup Existing)' = trie \cup Existing /\ trie \subseteq trie'
  BY <1>1, <1>4, FoundByLookUp
<1>6. \A k \in DOMAIN findCache' : findCache'[k] = FindFile(k[1], k[2])
  BY <1>1, <1>3 DEF IInv, CacheInv, CachedSearchIsCurrent
<1>7. CachedSearchIsCurrent'
  BY <1>5, <1>6 DEF CachedSearchIsCurrent, FindFile
<1>8. phase # "idle"
  BY DEF IInv, CallsInv
<1> QED BY <1>1, <1>5, <1>7, <1>8 DEF CacheInv, IInv

LEMMA CacheKept ==
  ASSUME IInv, [Next]_vars PROVE CacheInv'
<1> USE DEF IInv
<1>1. ASSUME UNCHANGED <<disk, phase, trie, findCache>> PROVE CacheInv'
  BY <1>1, SameSearch DEF CacheInv, Existing
<1>2. ASSUME phase' = "idle", DOMAIN findCache' = {} PROVE CacheInv'
  BY <1>2 DEF CacheInv, CachedSearchIsCurrent
<1>3. CASE UNCHANGED vars
  BY <1>1, <1>3 DEF vars, diskVars, walkVars
<1>4. CASE StartRun
  <2>1. phase' = "walking" /\ Generated \subseteq trie' /\ UNCHANGED findCache
    BY <1>4 DEF StartRun
  <2>2. DOMAIN findCache = {}
    BY <1>4 DEF CacheInv, StartRun
  <2> QED BY <2>1, <2>2 DEF CacheInv, CachedSearchIsCurrent
<1>5. CASE ScanSource
  BY <1>1, <1>5 DEF ScanSource, diskVars
<1>6. CASE Follow
  BY <1>6, LookUpKeepsCache DEF Follow
<1>7. CASE Ignore
  BY <1>7, LookUpKeepsCache DEF Ignore
<1>8. CASE Return
  BY <1>1, <1>8 DEF Return, diskVars
<1>9. CASE Build
  <2>1. PICK Remade \in SUBSET Generated :
          \E new : disk' = [f \in Files |->
                     IF f \in Remade THEN [ts |-> clock, includes |-> new[f]] ELSE disk[f]]
    BY <1>9 DEF Build
  <2>2. clock # 0
    BY InputAssumption DEF Types
  <2>3. Existing' = Existing \cup Remade
    <3>1. \A f \in Files : disk'[f].ts # 0 <=> f \in Remade \/ disk[f].ts # 0
      BY <2>1, <2>2
    <3> QED BY <3>1, InputAssumption DEF Existing
  <2>4. phase = "walking" /\ phase' = "walked" /\ UNCHANGED <<trie, findCache>>
    BY <1>9 DEF Build
  <2>5. Generated \subseteq trie
    BY <2>4 DEF CacheInv
  <2>6. (trie \cup Existing)' = trie \cup Existing
    BY <2>3, <2>4, <2>5
  <2> QED BY <2>4, <2>5, <2>6, SameSearch DEF CacheInv
<1>10. CASE EndRun
  BY <1>2, <1>10 DEF EndRun, ForgetRun
<1>11. CASE Crash
  BY <1>2, <1>11 DEF Crash, ForgetRun
<1>12. CASE Edit
  BY <1>2, <1>12 DEF Edit, walkVars, CacheInv
<1>13. CASE Delete
  BY <1>2, <1>13 DEF Delete, walkVars, CacheInv
<1>14. CASE Over
  BY <1>3, <1>14 DEF Over
<1> QED
  BY <1>3, <1>4, <1>5, <1>6, <1>7, <1>8, <1>9, <1>10, <1>11, <1>12, <1>13, <1>14
  DEF Next, Walk

-------------------------------------------------------------------------------
(* Include lists and calls. *)

LEMMA IncludesAreLists ==
  ASSUME Types, NEW f \in Files
  PROVE  IncludesOf(f) \in Lists /\ IncludesOf(f) \subseteq UNION Lists
<1>1. IncludesOf(f) \in Lists
  BY DEF Types, IncludesOf, Cached
<1> QED BY <1>1

LEMMA EnteredCalls ==
  ASSUME Types, NEW o, NEW f \in Files, NEW calls \in Seq(Calls), Enter(o, f, calls)
  PROVE  /\ unch' \in [Files -> {"unknown", "same", "changed"}]
         /\ DOMAIN scanned' \subseteq Files /\ \A g \in DOMAIN scanned' : scanned'[g] \in Lists
         /\ stack' \in Seq(Calls) /\ Len(stack') = Len(calls) + 1
         /\ stack'[1].file = f /\ stack'[1].rest = IncludesOf(f)
         /\ \A i \in 1 .. Len(calls) : stack'[i + 1] = calls[i]
<1>1. IncludesOf(f) \in Lists /\ IncludesOf(f) \subseteq UNION Lists
  BY IncludesAreLists
<1>2. unch' \in [Files -> {"unknown", "same", "changed"}]
  BY DEF Enter, Types
<1>3. DOMAIN scanned' \subseteq Files /\ \A g \in DOMAIN scanned' : scanned'[g] \in Lists
  BY <1>1 DEF Enter, Types
<1> DEFINE call == [file |-> f, rest |-> IncludesOf(f)]
<1>4. call \in Calls /\ call.file = f /\ call.rest = IncludesOf(f)
  BY <1>1 DEF Calls
<1>5. stack' = <<call>> \o calls
  BY DEF Enter
<1> HIDE DEF call
<1>6. stack' \in Seq(Calls) /\ Len(stack') = Len(calls) + 1 /\ stack'[1] = call
  BY <1>4, <1>5
<1>7. \A i \in 1 .. Len(calls) : stack'[i + 1] = calls[i]
  BY <1>4, <1>5
<1> QED BY <1>2, <1>3, <1>4, <1>6, <1>7

LEMMA RestOfCalls ==
  ASSUME Types, stack # <<>>, NEW inc
  PROVE  /\ Rest(inc) \in Seq(Calls) /\ Len(Rest(inc)) = Len(stack)
         /\ \A i \in 1 .. Len(stack) :
              /\ Rest(inc)[i].file = stack[i].file
              /\ Rest(inc)[i].rest = IF i = 1 THEN stack[1].rest \ {inc} ELSE stack[i].rest
<1> DEFINE call == [Head(stack) EXCEPT !.rest = @ \ {inc}]
<1>1. stack \in Seq(Calls) /\ Head(stack) \in Calls /\ Tail(stack) \in Seq(Calls)
  BY DEF Types
<1>2. call \in Calls /\ call.file = Head(stack).file /\ call.rest = Head(stack).rest \ {inc}
  BY <1>1 DEF Calls
<1>3. Rest(inc) = <<call>> \o Tail(stack)
  BY DEF Rest
<1> HIDE DEF call
<1>4. /\ Rest(inc) \in Seq(Calls) /\ Len(Rest(inc)) = Len(stack)
      /\ Rest(inc)[1] = call
      /\ \A i \in 2 .. Len(stack) : Rest(inc)[i] = stack[i]
  BY <1>1, <1>2, <1>3
<1>5. Head(stack) = stack[1]
  BY <1>1
<1>6. ASSUME NEW i \in 1 .. Len(stack)
      PROVE  /\ Rest(inc)[i].file = stack[i].file
             /\ Rest(inc)[i].rest = IF i = 1 THEN stack[1].rest \ {inc} ELSE stack[i].rest
  <2>1. CASE i = 1
    BY <1>2, <1>4, <1>5, <2>1
  <2>2. CASE i # 1
    <3>1. i \in 2 .. Len(stack)
      BY <2>2
    <3> QED BY <1>4, <2>2, <3>1
  <2> QED BY <2>1, <2>2
<1> QED BY <1>4, <1>6

LEMMA UnchangedKept ==
  ASSUME Types, CallsInv,
         UNCHANGED <<clock, disk, row, table, phase, todo, target, stack, edges, trie,
                     unch, scanned>>
  PROVE  Types' /\ CallsInv'
BY DEF Types, CallsInv

LEMMA Forgotten ==
  ASSUME Types, ForgetRun, UNCHANGED <<clock, disk>>,
         table' \in [Files -> Lists],
         \A f \in Files : row'[f].ts \in 0 .. clock /\ row'[f].existed \in {"null", "no", "yes"}
  PROVE  Types' /\ CallsInv'
<1>1. /\ phase' = "idle" /\ todo' = {} /\ target' = None /\ stack' = <<>>
      /\ edges' = [o \in Objects |-> {}] /\ trie' = {}
      /\ unch' = [f \in Files |-> "unknown"] /\ DOMAIN scanned' = {}
  BY DEF ForgetRun
<1>2. stack' \in Seq(Calls) /\ Len(stack') = 0
  BY <1>1
<1>3. Types'
  BY <1>1, <1>2 DEF Types
<1> QED BY <1>1, <1>2, <1>3 DEF CallsInv

\* Users and runs move the clock and at most one file.
LEMMA DiskEdited ==
  ASSUME Types, clock' = clock + 1, clock < MaxClock,
         UNCHANGED dbVars,
         disk' = disk \/ \E f \in Files : \E ts \in 0 .. clock', new \in Contents[f] \cup {{}} :
                           disk' = [disk EXCEPT ![f] = [ts |-> ts, includes |-> new]]
  PROVE  /\ clock' \in 1 .. MaxClock
         /\ disk' \in [Files -> [ts : 0 .. clock', includes : Lists]]
         /\ \A f \in Files : disk'[f].includes \in Contents[f] \cup {{}}
         /\ \A f \in Files : /\ row'[f].ts \in 0 .. clock'
                            /\ row'[f].existed \in {"null", "no", "yes"}
         /\ table' \in [Files -> Lists]
<1>1. clock' \in 1 .. MaxClock /\ 0 .. clock \subseteq 0 .. clock'
  BY InputAssumption DEF Types
<1>2. row' = row /\ table' = table
  BY DEF dbVars
<1>3. CASE disk' = disk
  <2>1. \A f \in Files : disk'[f] \in [ts : 0 .. clock', includes : Lists]
    BY <1>1, <1>3 DEF Types
  <2>2. disk' \in [Files -> [ts : 0 .. clock', includes : Lists]]
    BY <1>3, <2>1 DEF Types
  <2> QED BY <1>1, <1>2, <1>3, <2>2 DEF Types
<1>4. ASSUME NEW f \in Files, NEW ts \in 0 .. clock', NEW new \in Contents[f] \cup {{}},
             disk' = [disk EXCEPT ![f] = [ts |-> ts, includes |-> new]]
      PROVE  /\ disk' \in [Files -> [ts : 0 .. clock', includes : Lists]]
             /\ \A g \in Files : disk'[g].includes \in Contents[g] \cup {{}}
  <2>1. new \in Lists
    BY DEF Lists
  <2>2. \A g \in Files : disk'[g] \in [ts : 0 .. clock', includes : Lists]
    BY <1>1, <1>4, <2>1 DEF Types
  <2> QED BY <1>4, <2>2 DEF Types
<1> QED BY <1>1, <1>2, <1>3, <1>4 DEF Types

LEMMA TypesKept ==
  ASSUME IInv, [Next]_vars PROVE Types' /\ CallsInv'
<1> USE DEF IInv
<1>1. CASE UNCHANGED vars
  BY <1>1, UnchangedKept DEF vars, diskVars, dbVars, walkVars
<1>2. CASE StartRun
  <2>1. /\ phase = "idle" /\ clock < MaxClock /\ clock' = clock + 1 /\ phase' = "walking"
        /\ todo' = Objects /\ edges' = [o \in Objects |-> {Source[o]}]
        /\ trie' = Generated \cup { Source[o] : o \in Objects }
        /\ UNCHANGED <<disk, dbVars, target, stack, unch, scanned>>
    BY <1>2 DEF StartRun
  <2>2. stack = <<>>
    BY <2>1 DEF CallsInv
  <2>3. edges' \in [Objects -> SUBSET Files] /\ trie' \subseteq Files
    BY <2>1, InputAssumption
  <2>4. /\ stack' \in Seq(Calls) /\ Len(stack') = 0
        /\ \A o \in Objects : Source[o] \in edges'[o]
    BY <2>1, <2>2
  <2>5. Types'
    BY <2>1, <2>3, <2>4, DiskEdited DEF Types
  <2> QED BY <2>1, <2>2, <2>4, <2>5 DEF CallsInv
<1>3. CASE ScanSource
  <2>1. PICK o \in todo : target' = o /\ todo' = todo \ {o} /\ Enter(o, Source[o], <<>>)
    BY <1>3 DEF ScanSource
  <2>2. /\ phase = "walking" /\ UNCHANGED <<clock, disk, row, table, phase, edges, trie>>
    BY <1>3 DEF ScanSource, diskVars, dbVars
  <2>3. o \in Objects /\ Source[o] \in Files /\ <<>> \in Seq(Calls) /\ Len(<<>>) = 0
    BY InputAssumption DEF Types
  <2>4. /\ unch' \in [Files -> {"unknown", "same", "changed"}]
        /\ DOMAIN scanned' \subseteq Files /\ \A g \in DOMAIN scanned' : scanned'[g] \in Lists
        /\ stack' \in Seq(Calls) /\ Len(stack') = 1 /\ stack'[1].file = Source[o]
    <3>1. Enter(o, Source[o], <<>>)
      BY <2>1
    <3>2. /\ unch' \in [Files -> {"unknown", "same", "changed"}]
          /\ DOMAIN scanned' \subseteq Files /\ \A g \in DOMAIN scanned' : scanned'[g] \in Lists
          /\ stack' \in Seq(Calls) /\ Len(stack') = Len(<<>>) + 1
          /\ stack'[1].file = Source[o]
      BY <2>3, <3>1, EnteredCalls, Zenon
    <3> QED BY <2>3, <3>2
  <2>5. Types'
    BY <2>1, <2>2, <2>3, <2>4 DEF Types
  <2>6. Source[o] \in edges[o]
    BY <2>2, <2>3 DEF CallsInv
  <2> QED BY <2>1, <2>2, <2>3, <2>4, <2>5, <2>6 DEF CallsInv
<1>4. CASE Follow
  <2>1. PICK inc \in Head(stack).rest, found \in Files :
          /\ LookUp(found, inc) /\ found \notin edges[target]
          /\ edges' = [edges EXCEPT ![target] = @ \cup {found}]
          /\ Enter(target, found, Rest(inc))
    BY <1>4 DEF Follow
  <2>2. stack # <<>> /\ phase = "walking" /\ target \in Objects
    BY <1>4 DEF Follow, CallsInv
  <2>3. /\ UNCHANGED <<clock, disk, row, table, phase, todo, target>>
        /\ trie' \subseteq trie \cup {found}
    BY <2>1 DEF LookUp, diskVars, dbVars
  <2>4. /\ Rest(inc) \in Seq(Calls) /\ Len(Rest(inc)) = Len(stack)
        /\ \A i \in 1 .. Len(stack) : Rest(inc)[i].file = stack[i].file
    BY <2>2, RestOfCalls
  <2>5. /\ unch' \in [Files -> {"unknown", "same", "changed"}]
        /\ DOMAIN scanned' \subseteq Files /\ \A g \in DOMAIN scanned' : scanned'[g] \in Lists
        /\ stack' \in Seq(Calls) /\ Len(stack') = Len(stack) + 1
        /\ stack'[1].file = found
        /\ \A i \in 1 .. Len(stack) : stack'[i + 1] = Rest(inc)[i]
    <3>1. Enter(target, found, Rest(inc))
      BY <2>1
    <3>2. /\ unch' \in [Files -> {"unknown", "same", "changed"}]
          /\ DOMAIN scanned' \subseteq Files /\ \A g \in DOMAIN scanned' : scanned'[g] \in Lists
          /\ stack' \in Seq(Calls) /\ Len(stack') = Len(Rest(inc)) + 1
          /\ stack'[1].file = found
          /\ \A i \in 1 .. Len(Rest(inc)) : stack'[i + 1] = Rest(inc)[i]
      BY <2>4, <3>1, EnteredCalls, Zenon
    <3> QED BY <2>4, <3>2
  <2>6. /\ edges' \in [Objects -> SUBSET Files] /\ trie' \subseteq Files
        /\ edges'[target] = edges[target] \cup {found}
        /\ \A o \in Objects : edges[o] \subseteq edges'[o]
    BY <2>1, <2>2, <2>3 DEF Types
  <2>7. Types'
    BY <2>3, <2>5, <2>6 DEF Types
  <2>8. ASSUME NEW i \in 1 .. Len(stack') PROVE stack'[i].file \in edges'[target']
    <3>1. Len(stack) \in Nat
      BY DEF Types
    <3>2. CASE i = 1
      BY <3>2, <2>3, <2>5, <2>6
    <3>3. CASE i # 1
      <4>1. i - 1 \in 1 .. Len(stack) /\ i = (i - 1) + 1
        BY <2>5, <3>1, <3>3
      <4>2. stack'[i].file = stack[i - 1].file
        BY <2>4, <2>5, <4>1
      <4> QED BY <2>3, <2>6, <4>1, <4>2 DEF CallsInv
    <3> QED BY <3>2, <3>3
  <2> QED BY <2>2, <2>3, <2>6, <2>7, <2>8 DEF CallsInv
<1>5. CASE Ignore
  <2>1. PICK inc \in Head(stack).rest, found \in edges[target] \cup {None} :
          LookUp(found, inc) /\ stack' = Rest(inc)
    BY <1>5 DEF Ignore
  <2>2. stack # <<>> /\ phase = "walking" /\ target \in Objects
        /\ UNCHANGED <<edges, unch, scanned>>
    BY <1>5 DEF Ignore, CallsInv
  <2>3. /\ UNCHANGED <<clock, disk, row, table, phase, todo, target>>
        /\ trie' = IF found = None THEN trie ELSE trie \cup {found}
    BY <2>1 DEF LookUp, diskVars, dbVars
  <2>4. /\ stack' \in Seq(Calls) /\ Len(stack') = Len(stack)
        /\ \A i \in 1 .. Len(stack) : stack'[i].file = stack[i].file
    BY <2>1, <2>2, RestOfCalls
  <2>5. trie' \subseteq Files
    BY <2>1, <2>2, <2>3 DEF Types
  <2>6. Types'
    BY <2>2, <2>3, <2>4, <2>5 DEF Types
  <2> QED BY <2>2, <2>3, <2>4, <2>6 DEF CallsInv
<1>6. CASE Return
  <2>1. /\ stack # <<>> /\ stack' = Tail(stack)
        /\ UNCHANGED <<clock, disk, row, table, phase, todo, target, edges, trie, unch, scanned>>
    BY <1>6 DEF Return, diskVars, dbVars
  <2>2. /\ stack' \in Seq(Calls) /\ Len(stack') = Len(stack) - 1
        /\ \A i \in 1 .. Len(stack') : stack'[i] = stack[i + 1] /\ i + 1 \in 1 .. Len(stack)
    BY <2>1 DEF Types
  <2>3. Types'
    BY <2>1, <2>2 DEF Types
  <2> QED BY <2>1, <2>2, <2>3 DEF CallsInv
<1>7. CASE Build
  <2>1. PICK Remade \in SUBSET Generated :
          /\ \E new : /\ \A g \in Remade : new[g] \in Contents[g]
                      /\ disk' = [f \in Files |->
                           IF f \in Remade THEN [ts |-> clock, includes |-> new[f]] ELSE disk[f]]
          /\ unch' = [f \in Files |-> IF f \in Remade THEN "unknown" ELSE unch[f]]
    BY <1>7 DEF Build
  <2>2. /\ stack = <<>> /\ phase' = "walked" /\ phase = "walking"
        /\ UNCHANGED <<clock, row, table, todo, target, stack, edges, trie, scanned>>
    BY <1>7 DEF Build, dbVars
  <2>3. PICK new : /\ \A g \in Remade : new[g] \in Contents[g]
                   /\ disk' = [f \in Files |->
                        IF f \in Remade THEN [ts |-> clock, includes |-> new[f]] ELSE disk[f]]
    BY <2>1
  <2>4. \A g \in Remade : new[g] \in Lists
    BY <2>3, InputAssumption DEF Lists
  <2>5. clock \in 0 .. clock
    BY InputAssumption DEF Types
  <2>6. /\ disk' \in [Files -> [ts : 0 .. clock, includes : Lists]]
        /\ \A f \in Files : disk'[f].includes \in Contents[f] \cup {{}}
    BY <2>3, <2>4, <2>5 DEF Types
  <2>7. unch' \in [Files -> {"unknown", "same", "changed"}]
    BY <2>1 DEF Types
  <2>8. Types'
    BY <2>2, <2>6, <2>7 DEF Types
  <2> QED BY <2>2, <2>8 DEF CallsInv
<1>8. CASE EndRun
  <2>1. PICK Recorded \in SUBSET Files :
          /\ row' = [f \in Files |-> IF f \in Recorded THEN RowOf(f) ELSE row[f]]
          /\ table' = [f \in Files |-> IF f \in Recorded THEN Written(f) ELSE table[f]]
    BY <1>8 DEF EndRun
  <2>2. ForgetRun /\ UNCHANGED <<clock, disk>>
    BY <1>8 DEF EndRun, diskVars
  <2>3. \A f \in Files : Written(f) \in Lists /\ table[f] \in Lists
    BY DEF Written, Types
  <2>4. table' \in [Files -> Lists]
    BY <2>1, <2>3
  <2>5. \A f \in Files : /\ RowOf(f).ts \in 0 .. clock
                         /\ RowOf(f).existed \in {"null", "no", "yes"}
    BY DEF RowOf, Types
  <2>6. \A f \in Files : /\ row'[f].ts \in 0 .. clock
                         /\ row'[f].existed \in {"null", "no", "yes"}
    BY <2>1, <2>5 DEF Types
  <2> QED BY <2>2, <2>4, <2>6, Forgotten
<1>9. CASE Crash
  <2>1. ForgetRun /\ UNCHANGED <<clock, disk, row, table>>
    BY <1>9 DEF Crash, diskVars, dbVars
  <2> QED BY <2>1, Forgotten DEF Types
<1>10. ASSUME clock' = clock + 1, clock < MaxClock, phase = "idle",
              UNCHANGED <<dbVars, phase, walkVars>>,
              \E f \in Files : \E ts \in 0 .. clock', new \in Contents[f] \cup {{}} :
                disk' = [disk EXCEPT ![f] = [ts |-> ts, includes |-> new]]
       PROVE  Types' /\ CallsInv'
  <2>1. /\ clock' \in 1 .. MaxClock
        /\ disk' \in [Files -> [ts : 0 .. clock', includes : Lists]]
        /\ \A f \in Files : disk'[f].includes \in Contents[f] \cup {{}}
        /\ \A f \in Files : /\ row'[f].ts \in 0 .. clock'
                            /\ row'[f].existed \in {"null", "no", "yes"}
        /\ table' \in [Files -> Lists]
    BY <1>10, DiskEdited
  <2>2. Types'
    BY <1>10, <2>1 DEF Types, walkVars
  <2> QED BY <1>10, <2>2 DEF CallsInv, walkVars
<1>11. CASE Edit
  <2>1. PICK f \in Files : \E new \in Contents[f] :
          disk' = [disk EXCEPT ![f] = [ts |-> clock + 1, includes |-> new]]
    BY <1>11 DEF Edit
  <2>2. clock' = clock + 1 /\ clock + 1 \in 0 .. clock'
    BY <1>11, InputAssumption DEF Edit, Types
  <2> QED BY <1>10, <1>11, <2>1, <2>2 DEF Edit
<1>12. CASE Delete
  <2>1. PICK f \in Files : disk' = [disk EXCEPT ![f] = NoFile]
    BY <1>12 DEF Delete, Existing
  <2>2. clock' = clock + 1 /\ 0 \in 0 .. clock' /\ {} \in Contents[f] \cup {{}}
    BY <1>12, InputAssumption DEF Delete, Types
  <2> QED BY <1>10, <1>12, <2>1, <2>2 DEF Delete, NoFile
<1>13. CASE Over
  BY <1>1, <1>13 DEF Over
<1> QED
  BY <1>1, <1>2, <1>3, <1>4, <1>5, <1>6, <1>7, <1>8, <1>9, <1>11, <1>12, <1>13
  DEF Next, Walk

LEMMA InitOk == Init => IInv
<1> SUFFICES ASSUME Init PROVE IInv
  OBVIOUS
<1>1. /\ clock = 1 /\ phase = "idle" /\ todo = {} /\ target = None /\ stack = <<>>
      /\ edges = [o \in Objects |-> {}] /\ trie = {} /\ findCache = <<>>
      /\ unch = [f \in Files |-> "unknown"] /\ scanned = <<>>
      /\ row = [f \in Files |-> NoRow] /\ table = [f \in Files |-> {}]
  BY DEF Init
<1>2. disk \in [Files -> { [ts |-> 1, includes |-> c] : c \in UNION { Contents[f] : f \in Files } }
                        \cup {NoFile}]
  BY DEF Init
<1>3. disk \in [Files -> [ts : 0 .. clock, includes : Lists]]
  BY <1>1, <1>2 DEF NoFile, Lists
<1>4. \A f \in Files : disk[f].includes \in Contents[f] \cup {{}}
  <2> SUFFICES ASSUME NEW f \in Files PROVE disk[f].includes \in Contents[f] \cup {{}}
    OBVIOUS
  <2>1. CASE disk[f].ts # 0
    BY <2>1 DEF Init, Existing
  <2>2. CASE disk[f].ts = 0
    BY <1>2, <2>2 DEF NoFile
  <2> QED BY <2>1, <2>2
<1>5. stack \in Seq(Calls) /\ Len(stack) = 0 /\ DOMAIN findCache = {} /\ DOMAIN scanned = {}
  BY <1>1
<1>6. Types
  BY <1>1, <1>3, <1>4, <1>5, InputAssumption DEF Types, NoRow, Lists
<1> QED BY <1>1, <1>5, <1>6 DEF IInv, CallsInv, CacheInv, CachedSearchIsCurrent

\* The invariant of runs of the scanner: scan_cpp.cpp:84-112 and fs_node.cpp:189-226.
THEOREM InvariantHolds == Spec => []IInv
<1>1. IInv /\ [Next]_vars => IInv'
  BY CacheKept, TypesKept DEF IInv
<1> QED BY <1>1, InitOk, PTL DEF Spec

\* Every variable keeps its type, and a call of scan_cpp is for a file that the
\* object has an edge to.
THEOREM TypesAreRight == Spec => []TypeOK
<1>1. IInv => TypeOK
  <2> SUFFICES ASSUME IInv PROVE TypeOK
    OBVIOUS
  <2>1. \A f \in Files : disk[f].ts \in 0 .. clock
    BY DEF IInv, Types
  <2>2. stack \in Seq(Calls)
    BY DEF IInv, Types
  <2>3. DOMAIN stack = 1 .. Len(stack)
    BY <2>2
  <2>4. \A i \in DOMAIN stack : stack[i].file \in edges[target]
    BY <2>3 DEF IInv, CallsInv
  <2> QED BY <2>1, <2>4 DEF IInv, Types, TypeOK
<1> QED BY <1>1, InvariantHolds, PTL

\* fs_node.cpp:206: an answer kept in find_cache, "not found" too, is what a new search
\* would give at any time, whatever the walk found and the commands made since.
THEOREM CacheIsCurrent == Spec => []CachedSearchIsCurrent
<1>1. IInv => CachedSearchIsCurrent
  BY DEF IInv, CacheInv
<1> QED BY <1>1, InvariantHolds, PTL
-------------------------------------------------------------------------------
(* Stored lists.  The row and the list of a file are written together: the    *)
(* list is that of a scan in the same run, and that scan saw what the row is  *)
(* made of.  This needs that every recorded file was scanned, and that files  *)
(* made after their scan include nothing.                                     *)

RowsAgree == \A f \in Files : row[f].sig # None => table[f] = row[f].sig

GeneratedAreEmpty ==
  \A g \in Generated :
    /\ table[g] = {} /\ row[g].sig \in {None, {}}
    /\ g \in DOMAIN scanned => scanned[g] = {}

ScannedAsCompared ==
  /\ phase = "idle" => DOMAIN scanned = {}
  /\ \A f \in DOMAIN scanned \ Generated :
       /\ unch[f] # "unknown"
       /\ unch[f] = "same" => scanned[f] = table[f]
       /\ unch[f] = "changed" => scanned[f] = disk[f].includes

\* An object that was taken up has edges to scanned files only.
EdgesAreScanned ==
  /\ \A o \in todo : edges[o] \subseteq {Source[o]}
  /\ \A o \in Objects \ todo : edges[o] \subseteq DOMAIN scanned
  /\ phase # "walking" => todo = {}
  /\ stack # <<>> => target \notin todo

ListInv == RowsAgree /\ GeneratedAreEmpty /\ ScannedAsCompared /\ EdgesAreScanned

LEMMA EmptyOnDisk ==
  ASSUME Types, \A g \in Generated : Contents[g] = {{}}, NEW g \in Generated
  PROVE  g \in Files /\ disk[g].includes = {}
BY InputAssumption DEF Types

LEMMA EnterKeepsLists ==
  ASSUME Types, ListInv, \A g \in Generated : Contents[g] = {{}},
         NEW o, NEW f \in Files, NEW calls, Enter(o, f, calls),
         UNCHANGED <<disk, row, table, phase>>, phase # "idle"
  PROVE  /\ RowsAgree' /\ GeneratedAreEmpty' /\ ScannedAsCompared'
         /\ DOMAIN scanned' = DOMAIN scanned \cup {f}
<1>1. /\ scanned' = [g \in DOMAIN scanned \cup {f} |-> IF g = f THEN IncludesOf(f) ELSE scanned[g]]
      /\ unch' = [unch EXCEPT ![f] = IF Unchanged(f) THEN "same" ELSE "changed"]
  BY DEF Enter
<1>2. /\ DOMAIN scanned' = DOMAIN scanned \cup {f} /\ scanned'[f] = IncludesOf(f)
      /\ \A g \in DOMAIN scanned \ {f} : scanned'[g] = scanned[g]
  BY <1>1
<1>3. /\ unch'[f] = IF Unchanged(f) THEN "same" ELSE "changed"
      /\ \A g \in DOMAIN scanned \ {f} : unch'[g] = unch[g]
  BY <1>1 DEF Types
<1>4. RowsAgree'
  BY DEF ListInv, RowsAgree
<1>5. f \in Generated => IncludesOf(f) = {}
  BY EmptyOnDisk DEF ListInv, GeneratedAreEmpty, IncludesOf, Cached
<1>6. GeneratedAreEmpty'
  BY <1>2, <1>5 DEF ListInv, GeneratedAreEmpty
<1>7. CASE f \in Generated
  BY <1>2, <1>3, <1>4, <1>6, <1>7 DEF ListInv, ScannedAsCompared
<1>8. CASE f \notin Generated
  <2>1. CASE Unchanged(f)
    <3>1. IncludesOf(f) = table[f]
      BY <1>8, <2>1 DEF IncludesOf, Cached, Unchanged, ListInv, ScannedAsCompared
    <3> QED BY <1>2, <1>3, <1>4, <1>6, <2>1, <3>1 DEF ListInv, ScannedAsCompared
  <2>2. CASE ~Unchanged(f)
    <3>1. IncludesOf(f) = disk[f].includes
      BY <2>2 DEF IncludesOf
    <3> QED BY <1>2, <1>3, <1>4, <1>6, <2>2, <3>1 DEF ListInv, ScannedAsCompared
  <2> QED BY <2>1, <2>2
<1> QED BY <1>7, <1>8

\* What a process writes at its end.
LEMMA EndRunKeepsLists ==
  ASSUME IInv, ListInv, EndRun, Extra = {}, \A g \in Generated : Contents[g] = {{}}
  PROVE  RowsAgree' /\ \A g \in Generated : table'[g] = {} /\ row'[g].sig \in {None, {}}
<1>1. PICK Recorded \in SUBSET Files :
        /\ Recorded \subseteq UNION { edges[o] : o \in Objects }
        /\ row' = [f \in Files |-> IF f \in Recorded THEN RowOf(f) ELSE row[f]]
        /\ table' = [f \in Files |-> IF f \in Recorded THEN Written(f) ELSE table[f]]
  BY DEF EndRun
<1>2. \A f \in Recorded : f \in DOMAIN scanned
  BY <1>1 DEF ListInv, EdgesAreScanned, EndRun
<1>3. ASSUME NEW f \in Files, f \notin Recorded
      PROVE  row'[f] = row[f] /\ table'[f] = table[f]
  BY <1>1, <1>3
<1>4. ASSUME NEW f \in Recorded
      PROVE  /\ row'[f].sig = IF Unchanged(f) THEN row[f].sig ELSE disk[f].includes
             /\ table'[f] = scanned[f] /\ f \in Files
  BY <1>1, <1>2 DEF RowOf, Written
<1>5. ASSUME NEW g \in Generated PROVE table'[g] = {} /\ row'[g].sig \in {None, {}}
  <2>1. g \in Files /\ disk[g].includes = {}
    BY EmptyOnDisk DEF IInv
  <2>2. CASE g \in Recorded
    <3>1. scanned[g] = {} /\ row[g].sig \in {None, {}}
      BY <1>2, <2>2 DEF ListInv, GeneratedAreEmpty
    <3>2. row'[g].sig = row[g].sig \/ row'[g].sig = disk[g].includes
      BY <1>4, <2>2
    <3> QED BY <1>4, <2>1, <2>2, <3>1, <3>2
  <2>3. CASE g \notin Recorded
    BY <1>3, <2>1, <2>3 DEF ListInv, GeneratedAreEmpty
  <2> QED BY <2>2, <2>3
<1>6. ASSUME NEW f \in Files PROVE row'[f].sig # None => table'[f] = row'[f].sig
  <2>1. CASE f \in Generated
    BY <1>5, <2>1
  <2>2. CASE f \notin Recorded
    BY <1>3, <2>2 DEF ListInv, RowsAgree
  <2>3. CASE f \in Recorded /\ f \notin Generated
    <3>1. /\ unch[f] # "unknown"
          /\ unch[f] = "same" => scanned[f] = table[f]
          /\ unch[f] = "changed" => scanned[f] = disk[f].includes
      BY <1>2, <2>3 DEF ListInv, ScannedAsCompared
    <3>2. unch[f] \in {"same", "changed"} /\ (Unchanged(f) <=> unch[f] = "same")
      BY <3>1 DEF IInv, Types, Unchanged
    <3>3. row[f].sig # None => table[f] = row[f].sig
      BY DEF ListInv, RowsAgree
    <3> QED BY <1>4, <2>3, <3>1, <3>2, <3>3
  <2> QED BY <2>1, <2>2, <2>3
<1> QED BY <1>5, <1>6 DEF RowsAgree

LEMMA ListInvKept ==
  ASSUME IInv, ListInv, [Next]_vars, Extra = {}, \A g \in Generated : Contents[g] = {{}}
  PROVE  ListInv'
<1> USE DEF ListInv
<1>1. ASSUME UNCHANGED <<disk, row, table, phase, todo, target, edges, unch, scanned>>,
             stack' = stack \/ stack # <<>>
      PROVE  ListInv'
  BY <1>1 DEF RowsAgree, GeneratedAreEmpty, ScannedAsCompared, EdgesAreScanned
\* Between runs nothing is scanned and there are no edges.
<1>2. ASSUME UNCHANGED <<row, table>>, DOMAIN scanned' = {}, todo' = {},
             \A o \in Objects : edges'[o] = {}
      PROVE  ListInv'
  BY <1>2 DEF RowsAgree, GeneratedAreEmpty, ScannedAsCompared, EdgesAreScanned
<1>3. ForgetRun => /\ DOMAIN scanned' = {} /\ todo' = {} /\ phase' = "idle"
                   /\ \A o \in Objects : edges'[o] = {}
  BY DEF ForgetRun
<1>4. CASE UNCHANGED vars
  BY <1>1, <1>4 DEF vars, diskVars, dbVars, walkVars
<1>5. CASE StartRun
  <2>1. /\ phase = "idle" /\ phase' = "walking" /\ todo' = Objects
        /\ edges' = [o \in Objects |-> {Source[o]}]
        /\ UNCHANGED <<disk, row, table, stack, unch, scanned>>
    BY <1>5 DEF StartRun, dbVars
  <2>2. DOMAIN scanned = {} /\ stack = <<>>
    BY <2>1 DEF ScannedAsCompared, IInv, CallsInv
  <2> QED
    BY <2>1, <2>2 DEF RowsAgree, GeneratedAreEmpty, ScannedAsCompared, EdgesAreScanned
<1>6. CASE ScanSource
  <2>1. PICK o \in todo : target' = o /\ todo' = todo \ {o} /\ Enter(o, Source[o], <<>>)
    BY <1>6 DEF ScanSource
  <2>2. phase = "walking" /\ UNCHANGED <<disk, row, table, phase, edges>>
    BY <1>6 DEF ScanSource, diskVars, dbVars
  <2>3. o \in Objects /\ Source[o] \in Files
    BY InputAssumption DEF IInv, Types
  <2>4. /\ RowsAgree' /\ GeneratedAreEmpty' /\ ScannedAsCompared'
        /\ DOMAIN scanned' = DOMAIN scanned \cup {Source[o]}
    BY <2>1, <2>2, <2>3, EnterKeepsLists DEF IInv
  <2>5. EdgesAreScanned'
    BY <2>1, <2>2, <2>4 DEF EdgesAreScanned
  <2> QED BY <2>4, <2>5
<1>7. CASE Follow
  <2>1. PICK inc \in Head(stack).rest, found \in Files :
          /\ LookUp(found, inc)
          /\ edges' = [edges EXCEPT ![target] = @ \cup {found}]
          /\ Enter(target, found, Rest(inc))
    BY <1>7 DEF Follow
  <2>2. stack # <<>> /\ phase = "walking" /\ target \in Objects /\ target \notin todo
    BY <1>7 DEF Follow, IInv, CallsInv, EdgesAreScanned
  <2>3. UNCHANGED <<disk, row, table, phase, todo, target>>
    BY <2>1 DEF LookUp, diskVars, dbVars
  <2>4. /\ RowsAgree' /\ GeneratedAreEmpty' /\ ScannedAsCompared'
        /\ DOMAIN scanned' = DOMAIN scanned \cup {found}
    BY <2>1, <2>2, <2>3, EnterKeepsLists DEF IInv
  <2>5. /\ edges'[target] = edges[target] \cup {found}
        /\ \A o \in Objects \ {target} : edges'[o] = edges[o]
    BY <2>1, <2>2 DEF IInv, Types
  <2>6. todo \subseteq Objects
    BY DEF IInv, Types
  <2>7. EdgesAreScanned'
    BY <2>2, <2>3, <2>4, <2>5, <2>6 DEF EdgesAreScanned
  <2> QED BY <2>4, <2>7
<1>8. CASE Ignore
  BY <1>1, <1>8 DEF Ignore, LookUp, diskVars, dbVars
<1>9. CASE Return
  BY <1>1, <1>9 DEF Return, diskVars, dbVars
<1>10. CASE Build
  <2>1. PICK Remade \in SUBSET Generated :
          /\ \E new : disk' = [f \in Files |->
                        IF f \in Remade THEN [ts |-> clock, includes |-> new[f]] ELSE disk[f]]
          /\ unch' = [f \in Files |-> IF f \in Remade THEN "unknown" ELSE unch[f]]
    BY <1>10 DEF Build
  <2>2. /\ todo = {} /\ phase' = "walked" /\ phase = "walking" /\ stack = <<>>
        /\ UNCHANGED <<row, table, todo, target, stack, edges, scanned>>
    BY <1>10 DEF Build, dbVars
  <2>3. \A f \in Files \ Generated : disk'[f] = disk[f] /\ unch'[f] = unch[f]
    BY <2>1
  <2>4. DOMAIN scanned \subseteq Files
    BY DEF IInv, Types
  <2>5. ScannedAsCompared'
    BY <2>2, <2>3, <2>4 DEF ScannedAsCompared
  <2> QED BY <2>2, <2>5 DEF RowsAgree, GeneratedAreEmpty, EdgesAreScanned
<1>11. CASE EndRun
  <2>1. ForgetRun
    BY <1>11 DEF EndRun
  <2>2. RowsAgree' /\ \A g \in Generated : table'[g] = {} /\ row'[g].sig \in {None, {}}
    BY <1>11, EndRunKeepsLists
  <2> QED
    BY <1>3, <2>1, <2>2 DEF GeneratedAreEmpty, ScannedAsCompared, EdgesAreScanned
<1>12. CASE Crash
  BY <1>2, <1>3, <1>12 DEF Crash, dbVars
<1>13. ASSUME phase = "idle", UNCHANGED <<dbVars, phase, walkVars>> PROVE ListInv'
  <2>1. DOMAIN scanned = {} /\ todo = {}
    BY <1>13 DEF ScannedAsCompared, EdgesAreScanned
  <2>2. \A o \in Objects : edges[o] = {}
    BY <2>1 DEF EdgesAreScanned
  <2> QED BY <1>2, <1>13, <2>1, <2>2 DEF dbVars, walkVars
<1>14. CASE Edit \/ Delete
  BY <1>13, <1>14 DEF Edit, Delete
<1>15. CASE Over
  BY <1>4, <1>15 DEF Over
<1> QED
  BY <1>4, <1>5, <1>6, <1>7, <1>8, <1>9, <1>10, <1>11, <1>12, <1>14, <1>15 DEF Next, Walk

LEMMA InitListInv == Init => ListInv
<1> SUFFICES ASSUME Init PROVE ListInv
  OBVIOUS
<1>1. /\ row = [f \in Files |-> NoRow] /\ table = [f \in Files |-> {}] /\ phase = "idle"
      /\ todo = {} /\ edges = [o \in Objects |-> {}] /\ scanned = <<>> /\ stack = <<>>
  BY DEF Init
<1>2. DOMAIN scanned = {} /\ \A f \in Files : row[f].sig = None
  BY <1>1 DEF NoRow
<1> QED
  BY <1>1, <1>2, InputAssumption
  DEF ListInv, RowsAgree, GeneratedAreEmpty, ScannedAsCompared, EdgesAreScanned

\* scan_cpp.cpp:86 with write_scanner_cache: as long as every recorded file was
\* scanned and generated files include nothing, the stored list of a file is that of
\* the contents its row was made of, also after kills, deletions and touches.  With
\* either premise dropped it fails.
THEOREM ListsAreRight ==
  ASSUME Extra = {}, \A g \in Generated : Contents[g] = {{}}
  PROVE  Spec => []StoredListsAreRight
<1>1. Init => ListInv
  BY InitListInv
<1>2. IInv /\ ListInv /\ [Next]_vars => ListInv'
  BY ListInvKept
<1>3. ListInv => StoredListsAreRight
  BY DEF ListInv, RowsAgree, StoredListsAreRight
<1> QED BY <1>1, <1>2, <1>3, InvariantHolds, PTL DEF Spec
-------------------------------------------------------------------------------
(* Edges.  From the start of a walk to the end of the process every search    *)
(* looks at the same files: those on disk and those that will be made.  An    *)
(* object that was walked has edges to what its files include, and to nothing *)
(* that some set closed under inclusion leaves out.                           *)

\* No quoted name is both next to an includer and, differently, in CPPPATH.
OneAnswer ==
  \A o \in Objects : \A f \in Files : \A inc \in UNION Contents[f] :
    ~inc.system =>
      \A i \in DOMAIN Path[o] :
        {[dir |-> Path[o][i], name |-> inc.name], [dir |-> f.dir, name |-> inc.name]} \subseteq Files
          => Path[o][i] = f.dir

There == Existing \cup Generated

Found(o, from, inc) == FirstIn(SearchPaths(o, from, inc), inc.name, There)

\* What o's scan may not leave.
ClosedFor(o, R) ==
  /\ Source[o] \in R
  /\ \A f \in R : \A inc \in disk[f].includes : Found(o, f, inc) \in R \cup {None}

\* An include that a call of the scan under way has still to look up.
Pending(o, f, inc) ==
  o = target /\ \E i \in 1 .. Len(stack) : stack[i].file = f /\ inc \in stack[i].rest

\* A row is of the contents its timestamp stands for, and so is the stored list.
RowsAreTrue ==
  \A f \in Files \ Generated :
    row[f].existed = "yes" =>
      /\ table[f] = row[f].sig
      /\ f \in Existing /\ disk[f].ts = row[f].ts => disk[f].includes = row[f].sig

SourcesExist == \A o \in Objects : Source[o] \in Existing \ Generated

\* The lists of this run are those of the files on disk.
ScansAreTrue ==
  /\ \A f \in Files : unch[f] # "unknown" => f \in DOMAIN scanned
  /\ \A f \in DOMAIN scanned : scanned[f] = disk[f].includes /\ f \in There
  /\ \A f \in DOMAIN scanned \ Generated :
       unch[f] = "same" => row[f].existed = "yes"
  /\ \A i \in 1 .. Len(stack) : stack[i].rest \subseteq disk[stack[i].file].includes
  /\ phase = "walked" => Generated \subseteq Existing

EdgesAreNeeded ==
  \A o \in Objects : \A R \in SUBSET Files : ClosedFor(o, R) => edges[o] \subseteq R

EdgesAreComplete ==
  \A o \in Objects \ todo : \A f \in edges[o] : \A inc \in disk[f].includes :
    Found(o, f, inc) \in edges[o] \cup {None} \/ Pending(o, f, inc)

EdgeInv ==
  /\ RowsAreTrue /\ SourcesExist
  /\ phase = "idle" => \A f \in Files : unch[f] = "unknown"
  /\ phase # "idle" =>
       /\ trie \subseteq There /\ \A o \in Objects : edges[o] \subseteq There
       /\ ScansAreTrue /\ EdgesAreNeeded /\ EdgesAreComplete

-------------------------------------------------------------------------------
(* Searches that look the same way. *)

LEMMA LeastIs ==
  ASSUME NEW S, S \subseteq Nat, NEW x \in S, \A y \in S : x <= y PROVE Min(S) = x
<1>1. Min(S) \in S /\ \A y \in S : Min(S) <= y
  BY DEF Min
<1>2. Min(S) \in Nat /\ x \in Nat /\ Min(S) <= x /\ x <= Min(S)
  BY <1>1
<1> QED BY <1>2

\* Where no name has two answers, it does not matter whether the includer's
\* directory is searched last or first.
LEMMA LastOrFirst ==
  ASSUME NEW P, NEW D, P \in Seq(D), NEW d \in D, NEW name, NEW S,
         \A i \in DOMAIN P : {[dir |-> P[i], name |-> name], [dir |-> d, name |-> name]} \subseteq S
                               => P[i] = d
  PROVE  FirstIn(Append(P, d), name, S) = FirstIn(<<d>> \o P, name, S)
<1> DEFINE last == Append(P, d)
           first == <<d>> \o P
           file(x) == [dir |-> x, name |-> name]
           hitsL == { i \in DOMAIN last : file(last[i]) \in S }
           hitsF == { i \in DOMAIN first : file(first[i]) \in S }
           hitsP == { i \in DOMAIN P : file(P[i]) \in S }
<1>1. /\ Len(P) \in Nat /\ DOMAIN P = 1 .. Len(P)
      /\ DOMAIN last = 1 .. Len(P) + 1 /\ last[Len(P) + 1] = d
      /\ \A i \in 1 .. Len(P) : last[i] = P[i]
      /\ DOMAIN first = 1 .. Len(P) + 1 /\ first[1] = d
      /\ \A i \in 2 .. Len(P) + 1 : first[i] = P[i - 1]
  OBVIOUS
<1>2. /\ FirstIn(last, name, S) = IF hitsL = {} THEN None ELSE file(last[Min(hitsL)])
      /\ FirstIn(first, name, S) = IF hitsF = {} THEN None ELSE file(first[Min(hitsF)])
  BY DEF FirstIn
<1> SUFFICES FirstIn(last, name, S) = FirstIn(first, name, S)
  OBVIOUS
<1> HIDE DEF last, first
<1>3. hitsL \subseteq Nat /\ hitsF \subseteq Nat /\ hitsP \subseteq Nat
  BY <1>1
<1>4. CASE file(d) \in S
  <2>1. Len(P) + 1 \in hitsL /\ 1 \in hitsF
    BY <1>1, <1>4
  <2>2. \A i \in hitsL : last[i] = d
    BY <1>1, <1>4
  <2>3. Min(hitsL) \in hitsL
    BY <1>3, <2>1, LeastIsMember
  <2>4. Min(hitsF) = 1
    <3>1. \A i \in hitsF : 1 <= i
      BY <1>1
    <3> HIDE DEF hitsF
    <3> QED BY <1>3, <2>1, <3>1, LeastIs
  <2>5. last[Min(hitsL)] = d /\ first[Min(hitsF)] = d /\ hitsL # {} /\ hitsF # {}
    BY <1>1, <2>1, <2>2, <2>3, <2>4
  <2> HIDE DEF hitsL, hitsF, file
  <2> QED BY <1>2, <2>5
<1>5. CASE file(d) \notin S
  <2>1. hitsL = hitsP
    BY <1>1, <1>5
  <2>2. \A i \in Nat : i \in hitsP <=> i + 1 \in hitsF
    BY <1>1, <1>5
  <2>3. \A j \in hitsF : j - 1 \in hitsP /\ j \in Nat
    BY <1>1, <1>5
  <2>4. CASE hitsP = {}
    <3>1. hitsF = {}
      BY <2>3, <2>4
    <3>2. hitsL = {}
      BY <2>1, <2>4
    <3> HIDE DEF hitsL, hitsF, file
    <3> QED BY <1>2, <3>1, <3>2
  <2>5. CASE hitsP # {}
    <3>1. PICK m : m \in hitsP /\ m = Min(hitsP)
      BY <1>3, <2>5, LeastIsMember
    <3>2. \A j \in hitsP : m <= j
      <4>1. \E x \in hitsP : \A j \in hitsP : x <= j
        BY <1>3, <2>5, LeastExists
      <4> QED BY <3>1, <4>1 DEF Min
    <3>3. m \in Nat /\ m + 1 \in hitsF /\ \A j \in hitsF : m + 1 <= j
      <4>1. m \in Nat /\ m + 1 \in hitsF
        BY <1>3, <2>2, <3>1
      <4>2. ASSUME NEW j \in hitsF PROVE m + 1 <= j
        <5>1. j - 1 \in hitsP /\ j \in Nat
          BY <2>3
        <5>2. m <= j - 1
          BY <3>2, <5>1
        <5> QED BY <4>1, <5>1, <5>2
      <4> QED BY <4>1, <4>2
    <3> HIDE DEF hitsF
    <3>4. Min(hitsF) = m + 1
      BY <1>3, <3>3, LeastIs
    <3>5. first[m + 1] = P[m] /\ last[m] = P[m]
      <4>1. m \in 1 .. Len(P)
        BY <1>1, <3>1
      <4> QED BY <1>1, <4>1
    <3>6. Min(hitsL) = m /\ hitsL # {} /\ hitsF # {}
      <4> HIDE DEF hitsL, hitsP
      <4> QED BY <2>1, <3>1, <3>3
    <3> HIDE DEF hitsL, hitsP, file
    <3> QED BY <1>2, <3>4, <3>5, <3>6
  <2> QED BY <2>4, <2>5
<1> QED BY <1>4, <1>5

LEMMA SameAnswer ==
  ASSUME OneAnswer, NEW o \in Objects, NEW f \in Files, NEW inc \in UNION Contents[f],
         Generated \subseteq Existing
  PROVE  Found(o, f, inc) = Resolved(o, f, inc)
<1>1. There = Existing /\ Existing \subseteq Files
  BY DEF There, Existing
<1>2. CASE inc.system
  BY <1>1, <1>2 DEF Found, Resolved, SearchPaths
<1>3. CASE ~inc.system
  <2> DEFINE D == { Path[o][i] : i \in DOMAIN Path[o] } \cup {f.dir}
  <2>1. Path[o] \in Seq({ Path[o][i] : i \in DOMAIN Path[o] })
    BY InputAssumption
  <2>2. Path[o] \in Seq(D) /\ f.dir \in D
    BY <2>1
  <2> HIDE DEF D
  <2>3. \A i \in DOMAIN Path[o] :
          {[dir |-> Path[o][i], name |-> inc.name], [dir |-> f.dir, name |-> inc.name]} \subseteq Existing
            => Path[o][i] = f.dir
    BY <1>1, <1>3 DEF OneAnswer
  <2>4. PICK P, d, name, S : P = Path[o] /\ d = f.dir /\ name = inc.name /\ S = Existing
    OBVIOUS
  <2>5. P \in Seq(D) /\ d \in D
    BY <2>2, <2>4
  <2>6. \A i \in DOMAIN P :
          {[dir |-> P[i], name |-> name], [dir |-> d, name |-> name]} \subseteq S => P[i] = d
    BY <2>3, <2>4
  <2>7. FirstIn(Append(P, d), name, S) = FirstIn(<<d>> \o P, name, S)
    BY <2>5, <2>6, LastOrFirst
  <2> QED BY <1>1, <1>3, <2>4, <2>7 DEF Found, Resolved, SearchPaths
<1> QED BY <1>2, <1>3

LEMMA FoundIsIn ==
  ASSUME NEW o \in Objects, NEW f, NEW inc
  PROVE  Found(o, f, inc) \in There \cup {None}
BY SearchPathsAreSequences, FoundIsThere DEF Found

-------------------------------------------------------------------------------
(* Lists that are true of the disk. *)

LEMMA ListIsTrue ==
  ASSUME IInv, ListInv, EdgeInv, phase = "walking", \A g \in Generated : Contents[g] = {{}},
         NEW f \in There
  PROVE  IncludesOf(f) = disk[f].includes
<1>1. f \in Files
  BY InputAssumption DEF There, Existing
<1>2. CASE f \in Generated
  BY <1>2, EmptyOnDisk DEF IInv, ListInv, GeneratedAreEmpty, IncludesOf, Cached
<1>3. CASE f \notin Generated
  <2>1. f \in Existing
    BY <1>3 DEF There
  <2>2. CASE ~Unchanged(f)
    BY <2>2 DEF IncludesOf
  <2>3. CASE Unchanged(f) /\ f \in DOMAIN scanned
    BY <2>3 DEF IncludesOf, Cached, EdgeInv, ScansAreTrue
  <2>4. CASE Unchanged(f) /\ f \notin DOMAIN scanned
    <3>1. unch[f] = "unknown"
      BY <1>1, <2>4 DEF EdgeInv, ScansAreTrue
    <3>2. row[f].existed = "yes" /\ (disk[f].ts = row[f].ts \/ disk[f].includes = row[f].sig)
      BY <2>1, <2>4, <3>1 DEF Unchanged
    <3>3. disk[f].includes = row[f].sig /\ table[f] = row[f].sig
      BY <1>1, <1>3, <2>1, <3>2 DEF EdgeInv, RowsAreTrue
    <3> QED BY <2>4, <3>3 DEF IncludesOf, Cached
  <2> QED BY <2>2, <2>3, <2>4
<1> QED BY <1>2, <1>3

LEMMA EnterIsTrue ==
  ASSUME IInv, ListInv, EdgeInv, phase = "walking", \A g \in Generated : Contents[g] = {{}},
         NEW o, NEW f \in There, NEW calls \in Seq(Calls), Enter(o, f, calls),
         \A i \in 1 .. Len(calls) : calls[i].rest \subseteq disk[calls[i].file].includes,
         UNCHANGED <<disk, row, phase>>
  PROVE  /\ ScansAreTrue'
         /\ Len(stack') = Len(calls) + 1
         /\ stack'[1].file = f /\ stack'[1].rest = disk[f].includes
         /\ \A i \in 1 .. Len(calls) : stack'[i + 1] = calls[i]
<1>1. f \in Files
  BY InputAssumption DEF There, Existing
<1>2. IncludesOf(f) = disk[f].includes
  BY ListIsTrue
<1>3. /\ scanned' = [g \in DOMAIN scanned \cup {f} |-> IF g = f THEN disk[f].includes ELSE scanned[g]]
      /\ unch' = [unch EXCEPT ![f] = IF Unchanged(f) THEN "same" ELSE "changed"]
  BY <1>2 DEF Enter
<1>4. /\ DOMAIN scanned' = DOMAIN scanned \cup {f} /\ scanned'[f] = disk[f].includes
      /\ \A g \in DOMAIN scanned \ {f} : scanned'[g] = scanned[g]
  BY <1>3
<1>5. /\ unch'[f] = IF Unchanged(f) THEN "same" ELSE "changed"
      /\ \A g \in Files \ {f} : unch'[g] = unch[g]
  BY <1>1, <1>3 DEF IInv, Types
<1>6. /\ Len(stack') = Len(calls) + 1 /\ stack' \in Seq(Calls)
      /\ stack'[1].file = f /\ stack'[1].rest = disk[f].includes
      /\ \A i \in 1 .. Len(calls) : stack'[i + 1] = calls[i]
  <2>1. Types
    BY DEF IInv
  <2> QED BY <1>1, <1>2, <2>1, EnteredCalls
<1>7. ScansAreTrue
  BY DEF EdgeInv
<1>8. There' = There /\ DOMAIN scanned \subseteq Files
  BY DEF There, Existing, IInv, Types
<1>9. f \notin Generated /\ unch'[f] = "same" => row[f].existed = "yes"
  <2>1. SUFFICES ASSUME f \in Existing, f \notin Generated, Unchanged(f) PROVE row[f].existed = "yes"
    BY <1>5 DEF There
  <2>2. CASE unch[f] = "unknown"
    BY <2>1, <2>2 DEF Unchanged
  <2>3. CASE unch[f] # "unknown"
    BY <1>1, <1>7, <2>1, <2>3 DEF Unchanged, ScansAreTrue
  <2> QED BY <2>2, <2>3
<1>10. \A i \in 1 .. Len(stack') : stack'[i].rest \subseteq disk[stack'[i].file].includes
  <2> SUFFICES ASSUME NEW i \in 1 .. Len(stack')
               PROVE  stack'[i].rest \subseteq disk[stack'[i].file].includes
    OBVIOUS
  <2>1. CASE i = 1
    BY <1>6, <2>1
  <2>2. CASE i # 1
    <3>1. i - 1 \in 1 .. Len(calls) /\ stack'[i] = calls[i - 1]
      <4>1. i - 1 \in 1 .. Len(calls) /\ (i - 1) + 1 = i
        BY <1>6, <2>2
      <4> QED BY <1>6, <4>1
    <3> QED BY <3>1
  <2> QED BY <2>1, <2>2
<1>11. ScansAreTrue'
  <2>1. \A g \in Files : unch'[g] # "unknown" => g \in DOMAIN scanned'
    BY <1>4, <1>5, <1>7 DEF ScansAreTrue
  <2>2. \A g \in DOMAIN scanned' : scanned'[g] = disk'[g].includes /\ g \in There'
    BY <1>4, <1>7, <1>8 DEF ScansAreTrue
  <2>3. \A g \in DOMAIN scanned' \ Generated : unch'[g] = "same" => row'[g].existed = "yes"
    BY <1>4, <1>5, <1>7, <1>8, <1>9 DEF ScansAreTrue
  <2>4. phase' # "walked"
    OBVIOUS
  <2> QED BY <1>10, <2>1, <2>2, <2>3, <2>4 DEF ScansAreTrue
<1> QED BY <1>6, <1>11

-------------------------------------------------------------------------------
(* Edges that are needed, and no include left out. *)

LEMMA SameDisk ==
  ASSUME disk' = disk
  PROVE  /\ There' = There /\ Existing' = Existing
         /\ \A o, f, inc : Found(o, f, inc)' = Found(o, f, inc)
         /\ \A o, R : ClosedFor(o, R)' = ClosedFor(o, R)
<1>1. There' = There /\ Existing' = Existing
  BY DEF There, Existing
<1>2. \A o, f, inc : Found(o, f, inc)' = Found(o, f, inc)
  BY <1>1 DEF Found
<1> QED BY <1>1, <1>2 DEF ClosedFor

LEMMA SameRows ==
  ASSUME RowsAreTrue, SourcesExist, UNCHANGED <<disk, row, table>>
  PROVE  RowsAreTrue' /\ SourcesExist'
BY SameDisk DEF RowsAreTrue, SourcesExist

\* What a search of the walk gives.
LEMMA LookedUp ==
  ASSUME IInv, ListInv, EdgeInv, stack # <<>>, NEW inc \in Head(stack).rest,
         NEW found, LookUp(found, inc)
  PROVE  /\ found = Found(target, stack[1].file, inc) /\ found \in There \cup {None}
         /\ stack[1].file \in edges[target] /\ inc \in disk[stack[1].file].includes
         /\ phase = "walking" /\ target \in Objects \ todo
         /\ trie' \subseteq There
         /\ UNCHANGED <<disk, row, table, phase, todo, target>>
<1>1. /\ phase = "walking" /\ target \in Objects /\ target \notin todo
      /\ UNCHANGED <<disk, row, table, phase, todo, target>>
      /\ trie' = IF found = None THEN trie ELSE trie \cup {found}
  BY DEF IInv, CallsInv, ListInv, EdgesAreScanned, LookUp, diskVars, dbVars
<1>2. Len(stack) \in Nat /\ Len(stack) >= 1 /\ Head(stack) = stack[1]
  BY DEF IInv, Types
<1>3. stack[1].file \in edges[target] /\ inc \in disk[stack[1].file].includes
  BY <1>1, <1>2 DEF IInv, CallsInv, EdgeInv, ScansAreTrue
<1>4. trie \cup Existing = There
  BY <1>1 DEF IInv, CacheInv, EdgeInv, There
<1>5. found = Found(target, stack[1].file, inc)
  <2> DEFINE dirs == SearchPaths(target, Head(stack).file, inc)
  <2>1. found = FindFileCached(inc.name, dirs)
    BY DEF LookUp
  <2>2. FindFile(inc.name, dirs) = Found(target, stack[1].file, inc)
    BY <1>2, <1>4 DEF FindFile, Found
  <2>3. FindFileCached(inc.name, dirs) = FindFile(inc.name, dirs)
    <3> HIDE DEF dirs
    <3>1. FindKey(inc.name, dirs)[1] = inc.name /\ FindKey(inc.name, dirs)[2] = dirs
      BY DEF FindKey
    <3> QED BY <3>1 DEF FindFileCached, IInv, CacheInv, CachedSearchIsCurrent
  <2> QED BY <2>1, <2>2, <2>3
<1>6. found \in There \cup {None}
  BY <1>1, <1>5, FoundIsIn
<1>7. trie' \subseteq There
  BY <1>1, <1>4, <1>6
<1> QED BY <1>1, <1>3, <1>5, <1>6, <1>7

LEMMA ScanSourceKeepsEdges ==
  ASSUME IInv, ListInv, EdgeInv, ScanSource, \A g \in Generated : Contents[g] = {{}}
  PROVE  EdgeInv'
<1>1. PICK o \in todo : target' = o /\ todo' = todo \ {o} /\ Enter(o, Source[o], <<>>)
  BY DEF ScanSource
<1>2. /\ phase = "walking" /\ stack = <<>>
      /\ UNCHANGED <<disk, row, table, phase, edges, trie>>
  BY DEF ScanSource, diskVars, dbVars
<1>3. /\ o \in Objects /\ Source[o] \in There /\ todo \subseteq Objects
      /\ edges[o] = {Source[o]}
  BY <1>2 DEF IInv, Types, CallsInv, EdgeInv, SourcesExist, There, ListInv, EdgesAreScanned
<1>4. /\ ScansAreTrue' /\ Len(stack') = 1
      /\ stack'[1].file = Source[o] /\ stack'[1].rest = disk[Source[o]].includes
  <2> DEFINE calls == <<>>
  <2>1. /\ calls \in Seq(Calls) /\ Len(calls) = 0
        /\ \A i \in 1 .. Len(calls) : calls[i].rest \subseteq disk[calls[i].file].includes
    OBVIOUS
  <2>2. Enter(o, Source[o], calls)
    BY <1>1
  <2> HIDE DEF calls
  <2>3. /\ ScansAreTrue' /\ Len(stack') = Len(calls) + 1
        /\ stack'[1].file = Source[o] /\ stack'[1].rest = disk[Source[o]].includes
    BY <1>2, <1>3, <2>1, <2>2, EnterIsTrue
  <2> QED BY <2>1, <2>3
<1>5. EdgesAreNeeded'
  BY <1>2, SameDisk DEF EdgeInv, EdgesAreNeeded
<1>6. EdgesAreComplete'
  <2> SUFFICES ASSUME NEW x \in Objects \ todo', NEW f \in edges[x], NEW inc \in disk[f].includes
               PROVE  Found(x, f, inc) \in edges[x] \cup {None} \/ Pending(x, f, inc)'
    BY <1>2, SameDisk DEF EdgesAreComplete
  <2>1. CASE x = o
    <3>1. f = Source[o]
      BY <1>3, <2>1
    <3> QED BY <1>1, <1>4, <2>1, <3>1 DEF Pending
  <2>2. CASE x # o
    <3>1. x \in Objects \ todo /\ ~Pending(x, f, inc)
      BY <1>1, <1>2, <2>2 DEF Pending
    <3> QED BY <1>2, <3>1 DEF EdgeInv, EdgesAreComplete
  <2> QED BY <2>1, <2>2
<1> QED BY <1>2, <1>4, <1>5, <1>6, SameDisk, SameRows DEF EdgeInv

LEMMA FollowKeepsEdges ==
  ASSUME IInv, ListInv, EdgeInv, Follow, \A g \in Generated : Contents[g] = {{}}
  PROVE  EdgeInv'
<1>1. PICK inc \in Head(stack).rest, found \in Files :
        /\ LookUp(found, inc)
        /\ edges' = [edges EXCEPT ![target] = @ \cup {found}]
        /\ Enter(target, found, Rest(inc))
  BY DEF Follow
<1>2. stack # <<>>
  BY DEF Follow
<1>3. /\ found = Found(target, stack[1].file, inc) /\ found \in There \cup {None}
      /\ stack[1].file \in edges[target] /\ inc \in disk[stack[1].file].includes
      /\ phase = "walking" /\ target \in Objects \ todo
      /\ trie' \subseteq There
      /\ UNCHANGED <<disk, row, table, phase, todo, target>>
  BY <1>1, <1>2, LookedUp
<1>4. found \in There
  BY <1>3, InputAssumption
<1>5. /\ Rest(inc) \in Seq(Calls) /\ Len(Rest(inc)) = Len(stack) /\ Len(stack) \in Nat
      /\ \A i \in 1 .. Len(stack) :
           /\ Rest(inc)[i].file = stack[i].file
           /\ Rest(inc)[i].rest = IF i = 1 THEN stack[1].rest \ {inc} ELSE stack[i].rest
  <2>1. stack \in Seq(Calls)
    BY DEF IInv, Types
  <2>2. Len(stack) \in Nat
    BY <2>1
  <2> QED BY <1>2, <2>2, RestOfCalls DEF IInv
<1>6. \A i \in 1 .. Len(Rest(inc)) : Rest(inc)[i].rest \subseteq disk[Rest(inc)[i].file].includes
  BY <1>3, <1>5 DEF EdgeInv, ScansAreTrue
<1>7. /\ ScansAreTrue' /\ Len(stack') = Len(stack) + 1
      /\ stack'[1].file = found /\ stack'[1].rest = disk[found].includes
      /\ \A i \in 1 .. Len(stack) : stack'[i + 1] = Rest(inc)[i]
  <2> DEFINE calls == Rest(inc)
  <2>1. /\ calls \in Seq(Calls) /\ Len(calls) = Len(stack) /\ Enter(target, found, calls)
        /\ \A i \in 1 .. Len(calls) : calls[i].rest \subseteq disk[calls[i].file].includes
    BY <1>1, <1>5, <1>6
  <2> HIDE DEF calls
  <2>2. /\ ScansAreTrue' /\ Len(stack') = Len(calls) + 1
        /\ stack'[1].file = found /\ stack'[1].rest = disk[found].includes
        /\ \A i \in 1 .. Len(calls) : stack'[i + 1] = calls[i]
    BY <1>3, <1>4, <2>1, EnterIsTrue
  <2> QED BY <2>1, <2>2 DEF calls
<1>8. /\ edges'[target] = edges[target] \cup {found}
      /\ \A o \in Objects \ {target} : edges'[o] = edges[o]
  BY <1>1, <1>3 DEF IInv, Types
<1>9. EdgesAreNeeded'
  <2> SUFFICES ASSUME NEW o \in Objects, NEW R \in SUBSET Files, ClosedFor(o, R)
               PROVE  edges'[o] \subseteq R
    BY <1>3, SameDisk DEF EdgesAreNeeded
  <2>1. edges[o] \subseteq R
    BY <1>3 DEF EdgeInv, EdgesAreNeeded
  <2>2. o = target => found \in R
    BY <1>1, <1>3, <2>1, InputAssumption DEF ClosedFor
  <2> QED BY <1>8, <2>1, <2>2
<1>10. EdgesAreComplete'
  <2> SUFFICES ASSUME NEW o \in Objects \ todo, NEW f \in edges'[o], NEW i2 \in disk[f].includes
               PROVE  Found(o, f, i2) \in edges'[o] \cup {None} \/ Pending(o, f, i2)'
    BY <1>3, SameDisk DEF EdgesAreComplete
  <2>1. CASE f \notin edges[o]
    <3>1. o = target /\ f = found
      BY <1>8, <2>1
    <3> QED BY <1>3, <1>5, <1>7, <3>1 DEF Pending
  <2>2. CASE f \in edges[o]
    <3>1. CASE Found(o, f, i2) \in edges[o] \cup {None}
      BY <1>8, <3>1
    <3>2. CASE Found(o, f, i2) \notin edges[o] \cup {None}
      <4>1. Pending(o, f, i2)
        BY <1>3, <2>2, <3>2 DEF EdgeInv, EdgesAreComplete
      <4>2. PICK i \in 1 .. Len(stack) : stack[i].file = f /\ i2 \in stack[i].rest /\ o = target
        BY <4>1 DEF Pending
      <4>3. CASE i = 1 /\ i2 = inc
        BY <1>3, <1>8, <4>2, <4>3
      <4>4. CASE ~(i = 1 /\ i2 = inc)
        <5>1. Rest(inc)[i].file = f /\ i2 \in Rest(inc)[i].rest
          BY <1>5, <4>2, <4>4
        <5>2. stack'[i + 1].file = f /\ i2 \in stack'[i + 1].rest /\ i + 1 \in 1 .. Len(stack')
          BY <1>5, <1>7, <5>1
        <5> QED BY <1>3, <4>2, <5>2 DEF Pending
      <4> QED BY <4>3, <4>4
    <3> QED BY <3>1, <3>2
  <2> QED BY <2>1, <2>2
<1>11. \A o \in Objects : edges'[o] \subseteq There
  BY <1>3, <1>4, <1>8 DEF EdgeInv
<1> QED BY <1>3, <1>7, <1>9, <1>10, <1>11, SameDisk, SameRows DEF EdgeInv

LEMMA IgnoreKeepsEdges ==
  ASSUME IInv, ListInv, EdgeInv, Ignore
  PROVE  EdgeInv'
<1>1. PICK inc \in Head(stack).rest, found \in edges[target] \cup {None} :
        LookUp(found, inc) /\ stack' = Rest(inc)
  BY DEF Ignore
<1>2. stack # <<>> /\ UNCHANGED <<edges, unch, scanned>>
  BY DEF Ignore
<1>3. /\ found = Found(target, stack[1].file, inc)
      /\ phase = "walking" /\ target \in Objects \ todo
      /\ trie' \subseteq There
      /\ UNCHANGED <<disk, row, table, phase, todo, target>>
  BY <1>1, <1>2, LookedUp
<1>4. /\ Len(stack') = Len(stack)
      /\ \A i \in 1 .. Len(stack) :
           /\ stack'[i].file = stack[i].file
           /\ stack'[i].rest = IF i = 1 THEN stack[1].rest \ {inc} ELSE stack[i].rest
  BY <1>1, <1>2, RestOfCalls DEF IInv
<1>5. ScansAreTrue'
  <2>1. \A i \in 1 .. Len(stack') : stack'[i].rest \subseteq disk[stack'[i].file].includes
    BY <1>3, <1>4 DEF EdgeInv, ScansAreTrue
  <2> QED BY <1>2, <1>3, <2>1, SameDisk DEF EdgeInv, ScansAreTrue
<1>6. EdgesAreNeeded'
  BY <1>2, <1>3, SameDisk DEF EdgeInv, EdgesAreNeeded
<1>7. EdgesAreComplete'
  <2> SUFFICES ASSUME NEW o \in Objects \ todo, NEW f \in edges[o], NEW i2 \in disk[f].includes,
                      Found(o, f, i2) \notin edges[o] \cup {None}
               PROVE  Pending(o, f, i2)'
    BY <1>2, <1>3, SameDisk DEF EdgesAreComplete
  <2>1. Pending(o, f, i2)
    BY <1>3 DEF EdgeInv, EdgesAreComplete
  <2>2. PICK i \in 1 .. Len(stack) : stack[i].file = f /\ i2 \in stack[i].rest /\ o = target
    BY <2>1 DEF Pending
  <2>3. ~(i = 1 /\ i2 = inc)
    BY <1>1, <1>3, <2>2
  <2>4. stack'[i].file = f /\ i2 \in stack'[i].rest
    BY <1>4, <2>2, <2>3
  <2> QED BY <1>3, <1>4, <2>2, <2>4 DEF Pending
<1> QED BY <1>2, <1>3, <1>5, <1>6, <1>7, SameDisk, SameRows DEF EdgeInv

LEMMA ReturnKeepsEdges ==
  ASSUME IInv, EdgeInv, Return
  PROVE  EdgeInv'
<1>1. /\ stack # <<>> /\ Head(stack).rest = {} /\ stack' = Tail(stack) /\ phase = "walking"
      /\ UNCHANGED <<disk, row, table, phase, todo, target, edges, trie, unch, scanned>>
  BY DEF Return, diskVars, dbVars, IInv, CallsInv
<1>2. /\ stack[1].rest = {} /\ Len(stack) \in Nat /\ Len(stack') = Len(stack) - 1
      /\ \A i \in 1 .. Len(stack) - 1 : stack'[i] = stack[i + 1]
  <2>1. stack \in Seq(Calls)
    BY DEF IInv, Types
  <2> QED BY <1>1, <2>1
<1>3. ScansAreTrue'
  <2>1. \A i \in 1 .. Len(stack') : stack'[i].rest \subseteq disk[stack'[i].file].includes
    <3> SUFFICES ASSUME NEW i \in 1 .. Len(stack')
                 PROVE  stack'[i].rest \subseteq disk[stack'[i].file].includes
      OBVIOUS
    <3>1. i + 1 \in 1 .. Len(stack) /\ stack'[i] = stack[i + 1]
      BY <1>2
    <3> QED BY <1>1, <3>1 DEF EdgeInv, ScansAreTrue
  <2> QED BY <1>1, <2>1, SameDisk DEF EdgeInv, ScansAreTrue
<1>4. EdgesAreNeeded'
  BY <1>1, SameDisk DEF EdgeInv, EdgesAreNeeded
<1>5. EdgesAreComplete'
  <2> SUFFICES ASSUME NEW o \in Objects \ todo, NEW f \in edges[o], NEW inc \in disk[f].includes,
                      Found(o, f, inc) \notin edges[o] \cup {None}
               PROVE  Pending(o, f, inc)'
    BY <1>1, SameDisk DEF EdgesAreComplete
  <2>1. Pending(o, f, inc)
    BY <1>1 DEF EdgeInv, EdgesAreComplete
  <2>2. PICK i \in 1 .. Len(stack) : stack[i].file = f /\ inc \in stack[i].rest /\ o = target
    BY <2>1 DEF Pending
  <2>3. i # 1
    BY <1>2, <2>2
  <2>4. i - 1 \in 1 .. Len(stack') /\ stack'[i - 1] = stack[i]
    <3>1. i - 1 \in 1 .. Len(stack) - 1 /\ (i - 1) + 1 = i
      BY <1>2, <2>3
    <3> QED BY <1>2, <3>1
  <2> QED BY <1>1, <2>2, <2>4 DEF Pending
<1> QED BY <1>1, <1>3, <1>4, <1>5, SameDisk, SameRows DEF EdgeInv

\* The commands change no file that a walk read, and make what it knew of.
LEMMA BuildKeepsEdges ==
  ASSUME IInv, ListInv, EdgeInv, Build, \A g \in Generated : Contents[g] = {{}}
  PROVE  EdgeInv'
<1>1. PICK Remade \in SUBSET Generated :
        /\ { g \in Generated : g \notin Existing } \subseteq Remade
        /\ \E new \in [Remade -> UNION { Contents[g] : g \in Generated }] :
             /\ \A g \in Remade : new[g] \in Contents[g]
             /\ disk' = [f \in Files |->
                  IF f \in Remade THEN [ts |-> clock, includes |-> new[f]] ELSE disk[f]]
        /\ unch' = [f \in Files |-> IF f \in Remade THEN "unknown" ELSE unch[f]]
  BY DEF Build
<1>2. /\ phase = "walking" /\ phase' = "walked" /\ stack = <<>> /\ todo = {}
      /\ UNCHANGED <<row, table, todo, target, stack, edges, trie, scanned>>
  BY DEF Build, dbVars
<1>3. PICK new : /\ \A g \in Remade : new[g] \in Contents[g]
                 /\ disk' = [f \in Files |->
                      IF f \in Remade THEN [ts |-> clock, includes |-> new[f]] ELSE disk[f]]
  BY <1>1
<1>4. /\ Generated \subseteq Files /\ Remade \subseteq Files
      /\ \A g \in Generated : disk[g].includes = {} /\ Contents[g] = {{}}
      /\ clock # 0
  BY <1>1, InputAssumption, EmptyOnDisk DEF IInv, Types
<1>5. /\ \A f \in Files \ Remade : disk'[f] = disk[f]
      /\ \A g \in Remade : disk'[g].ts = clock /\ disk'[g].includes = {}
  BY <1>1, <1>3, <1>4
<1>6. \A f \in Files : disk'[f].includes = disk[f].includes
  BY <1>1, <1>4, <1>5
<1>7. Existing' = Existing \cup Remade /\ Generated \subseteq Existing'
  BY <1>1, <1>4, <1>5 DEF Existing
<1>8. There' = There
  BY <1>1, <1>7 DEF There
<1>9. \A o, f, inc : Found(o, f, inc)' = Found(o, f, inc)
  BY <1>8 DEF Found
<1>10. \A o : \A R \in SUBSET Files : ClosedFor(o, R)' = ClosedFor(o, R)
  BY <1>6, <1>9 DEF ClosedFor
<1>11. DOMAIN scanned \subseteq Files /\ edges \in [Objects -> SUBSET Files]
  BY DEF IInv, Types
<1>12. ScansAreTrue'
  <2>1. Len(stack) = 0
    BY <1>2
  <2>2. \A f \in Files : unch'[f] # "unknown" => f \in DOMAIN scanned
    BY <1>1, <1>2 DEF EdgeInv, ScansAreTrue
  <2>3. \A f \in DOMAIN scanned : scanned[f] = disk'[f].includes /\ f \in There
    BY <1>2, <1>6, <1>11 DEF EdgeInv, ScansAreTrue
  <2>4. \A f \in DOMAIN scanned \ Generated : unch'[f] = "same" => row[f].existed = "yes"
    BY <1>1, <1>2, <1>11 DEF EdgeInv, ScansAreTrue
  <2> QED BY <1>2, <1>7, <1>8, <2>1, <2>2, <2>3, <2>4 DEF ScansAreTrue
<1>13. EdgesAreNeeded'
  BY <1>2, <1>10 DEF EdgeInv, EdgesAreNeeded
<1>14. EdgesAreComplete'
  <2> SUFFICES ASSUME NEW o \in Objects, NEW f \in edges[o], NEW inc \in disk'[f].includes
               PROVE  Found(o, f, inc) \in edges[o] \cup {None}
    BY <1>2, <1>9 DEF EdgesAreComplete
  <2>1. f \in Files /\ inc \in disk[f].includes
    BY <1>6, <1>11
  <2>2. ~Pending(o, f, inc)
    BY <1>2 DEF Pending
  <2> QED BY <1>2, <2>1, <2>2 DEF EdgeInv, EdgesAreComplete
<1>15. RowsAreTrue' /\ SourcesExist'
  <2>1. \A f \in Files \ Generated : disk'[f] = disk[f]
    BY <1>1, <1>5
  <2>2. RowsAreTrue'
    BY <1>2, <2>1 DEF EdgeInv, RowsAreTrue, Existing
  <2> QED BY <1>7, <2>2 DEF EdgeInv, SourcesExist
<1> QED BY <1>2, <1>8, <1>12, <1>13, <1>14, <1>15 DEF EdgeInv

LEMMA StartRunKeepsEdges ==
  ASSUME IInv, ListInv, EdgeInv, StartRun
  PROVE  EdgeInv'
<1>1. /\ phase = "idle" /\ phase' = "walking" /\ todo' = Objects
      /\ edges' = [o \in Objects |-> {Source[o]}]
      /\ trie' = Generated \cup { Source[o] : o \in Objects }
      /\ UNCHANGED <<disk, row, table, stack, unch, scanned>>
  BY DEF StartRun, dbVars
<1>2. stack = <<>> /\ DOMAIN scanned = {} /\ \A f \in Files : unch[f] = "unknown"
  BY <1>1 DEF IInv, CallsInv, ListInv, ScannedAsCompared, EdgeInv
<1>3. \A o \in Objects : Source[o] \in There
  BY DEF EdgeInv, SourcesExist, There
<1>4. ScansAreTrue'
  <2>1. Len(stack) = 0
    BY <1>2
  <2> QED BY <1>1, <1>2, <2>1 DEF ScansAreTrue
<1>5. EdgesAreNeeded'
  BY <1>1, SameDisk DEF EdgesAreNeeded, ClosedFor
<1>6. EdgesAreComplete'
  BY <1>1 DEF EdgesAreComplete
<1>7. trie' \subseteq There' /\ \A o \in Objects : edges'[o] \subseteq There'
  BY <1>1, <1>3, SameDisk DEF There
<1> QED BY <1>1, <1>4, <1>5, <1>6, <1>7, SameRows DEF EdgeInv

LEMMA EndRunKeepsEdges ==
  ASSUME IInv, ListInv, EdgeInv, EndRun, Extra = {}
  PROVE  EdgeInv'
<1>1. PICK Recorded \in SUBSET Files :
        /\ Recorded \subseteq UNION { edges[o] : o \in Objects }
        /\ row' = [f \in Files |-> IF f \in Recorded THEN RowOf(f) ELSE row[f]]
        /\ table' = [f \in Files |-> IF f \in Recorded THEN Written(f) ELSE table[f]]
  BY DEF EndRun
<1>2. /\ phase = "walked" /\ phase' = "idle" /\ disk' = disk
      /\ \A f \in Files : unch'[f] = "unknown"
  BY DEF EndRun, ForgetRun, diskVars
<1>3. \A f \in Recorded : f \in DOMAIN scanned
  BY <1>1 DEF ListInv, EdgesAreScanned, EndRun
<1>4. ASSUME NEW f \in Files \ Generated, row'[f].existed = "yes"
      PROVE  /\ table'[f] = row'[f].sig
             /\ f \in Existing /\ disk[f].ts = row'[f].ts => disk[f].includes = row'[f].sig
  <2>1. CASE f \notin Recorded
    BY <1>1, <1>4, <2>1 DEF EdgeInv, RowsAreTrue
  <2>2. CASE f \in Recorded
    <3>1. /\ row'[f].sig = IF Unchanged(f) THEN row[f].sig ELSE disk[f].includes
          /\ table'[f] = scanned[f] /\ scanned[f] = disk[f].includes
      BY <1>1, <1>2, <1>3, <2>2 DEF RowOf, Written, EdgeInv, ScansAreTrue
    <3>2. /\ unch[f] # "unknown" /\ (Unchanged(f) <=> unch[f] = "same")
          /\ unch[f] = "same" => scanned[f] = table[f] /\ row[f].existed = "yes"
      BY <1>2, <1>3, <2>2 DEF ListInv, ScannedAsCompared, Unchanged, EdgeInv, ScansAreTrue
    <3>3. row[f].existed = "yes" => table[f] = row[f].sig
      BY DEF EdgeInv, RowsAreTrue
    <3> QED BY <3>1, <3>2, <3>3
  <2> QED BY <2>1, <2>2
<1>5. RowsAreTrue'
  BY <1>2, <1>4, SameDisk DEF RowsAreTrue
<1> QED BY <1>2, <1>5, SameDisk DEF EdgeInv, SourcesExist

LEMMA UserKeepsEdges ==
  ASSUME IInv, EdgeInv, Edit \/ Delete
  PROVE  EdgeInv'
<1>1. /\ phase = "idle" /\ clock \in Nat /\ clock' = clock + 1 /\ disk \in [Files -> [ts : 0 .. clock, includes : Lists]]
      /\ UNCHANGED <<row, table, phase, unch>>
  BY DEF Edit, Delete, dbVars, walkVars, IInv, Types
<1>2. PICK f \in Files : \E new :
        /\ disk' = [disk EXCEPT ![f] = new]
        /\ new.ts = clock + 1 \/ (new.ts = 0 /\ f \notin { Source[o] : o \in Objects })
  <2>1. CASE Edit
    <3>1. PICK f \in Files \ Generated : \E includes \in Contents[f] :
            disk' = [disk EXCEPT ![f] = [ts |-> clock + 1, includes |-> includes]]
      BY <2>1 DEF Edit
    <3>2. PICK new : new.ts = clock + 1 /\ disk' = [disk EXCEPT ![f] = new]
      BY <3>1
    <3> QED BY <3>2
  <2>2. CASE Delete
    <3>1. PICK f \in Files :
            f \notin { Source[o] : o \in Objects } /\ disk' = [disk EXCEPT ![f] = NoFile]
      BY <2>2 DEF Delete, Existing
    <3>2. NoFile.ts = 0
      BY DEF NoFile
    <3> QED BY <3>1, <3>2
  <2> QED BY <2>1, <2>2
<1>3. PICK new : /\ disk' = [disk EXCEPT ![f] = new]
                 /\ new.ts = clock + 1 \/ (new.ts = 0 /\ f \notin { Source[o] : o \in Objects })
  BY <1>2
<1>4. disk'[f] = new /\ \A g \in Files \ {f} : disk'[g] = disk[g]
  BY <1>1, <1>3
<1>5. \A g \in Files : row[g].ts \in 0 .. clock
  BY DEF IInv, Types
<1>6. RowsAreTrue'
  <2> SUFFICES ASSUME NEW g \in Files \ Generated, row[g].existed = "yes"
               PROVE  /\ table[g] = row[g].sig
                      /\ g \in Existing' /\ disk'[g].ts = row[g].ts => disk'[g].includes = row[g].sig
    BY <1>1 DEF RowsAreTrue
  <2>1. CASE g # f
    BY <1>4, <2>1 DEF EdgeInv, RowsAreTrue, Existing
  <2>2. CASE g = f
    <3>1. g \in Existing' => new.ts = clock + 1
      BY <1>3, <1>4, <2>2 DEF Existing
    <3>2. row[g].ts # clock + 1
      BY <1>1, <1>5
    <3> QED BY <1>4, <2>2, <3>1, <3>2 DEF EdgeInv, RowsAreTrue
  <2> QED BY <2>1, <2>2
<1>7. SourcesExist'
  <2> SUFFICES ASSUME NEW o \in Objects PROVE Source[o] \in Existing' \ Generated
    BY DEF SourcesExist
  <2>1. Source[o] \in Existing \ Generated /\ Source[o] \in Files
    BY DEF EdgeInv, SourcesExist, Existing
  <2>2. disk'[Source[o]].ts # 0
    BY <1>1, <1>3, <1>4, <2>1 DEF Existing
  <2> QED BY <2>1, <2>2 DEF Existing
<1> QED BY <1>1, <1>6, <1>7 DEF EdgeInv

LEMMA EdgeInvKept ==
  ASSUME IInv, ListInv, EdgeInv, [Next]_vars, Extra = {}, \A g \in Generated : Contents[g] = {{}}
  PROVE  EdgeInv'
<1>1. CASE UNCHANGED vars
  <2>1. /\ UNCHANGED <<disk, row, table, phase, todo, target>>
        /\ UNCHANGED <<stack, edges, trie, unch, scanned>>
    BY <1>1 DEF vars, diskVars, dbVars, walkVars
  <2>2. ScansAreTrue => ScansAreTrue'
    BY <2>1, SameDisk DEF ScansAreTrue
  <2>3. EdgesAreNeeded => EdgesAreNeeded'
    BY <2>1, SameDisk DEF EdgesAreNeeded
  <2>4. EdgesAreComplete => EdgesAreComplete'
    BY <2>1, SameDisk DEF EdgesAreComplete, Pending
  <2> QED BY <2>1, <2>2, <2>3, <2>4, SameDisk, SameRows DEF EdgeInv
<1>2. CASE StartRun
  BY <1>2, StartRunKeepsEdges
<1>3. CASE ScanSource
  BY <1>3, ScanSourceKeepsEdges
<1>4. CASE Follow
  BY <1>4, FollowKeepsEdges
<1>5. CASE Ignore
  BY <1>5, IgnoreKeepsEdges
<1>6. CASE Return
  BY <1>6, ReturnKeepsEdges
<1>7. CASE Build
  BY <1>7, BuildKeepsEdges
<1>8. CASE EndRun
  BY <1>8, EndRunKeepsEdges
<1>9. CASE Crash
  <2>1. /\ phase' = "idle" /\ UNCHANGED <<disk, row, table>>
        /\ \A f \in Files : unch'[f] = "unknown"
    BY <1>9 DEF Crash, ForgetRun, diskVars, dbVars
  <2> QED BY <2>1, SameRows DEF EdgeInv
<1>10. CASE Edit \/ Delete
  BY <1>10, UserKeepsEdges
<1>11. CASE Over
  BY <1>1, <1>11 DEF Over
<1> QED
  BY <1>2, <1>3, <1>4, <1>5, <1>6, <1>7, <1>8, <1>9, <1>10, <1>11, <1>1 DEF Next, Walk

\* After a walk and its commands, what an object depends on is what its compiler
\* read: scan_cpp.cpp:84-108 with find_file and both caches, over any edits,
\* deletions and kills before.  The premises are those of ListsAreRight, and that no
\* quoted name is both next to an includer and in CPPPATH, where the orders differ.
THEOREM DependenciesAreRight ==
  ASSUME Extra = {}, \A g \in Generated : Contents[g] = {{}}, OneAnswer
  PROVE  Spec => []ReadsAreDependencies
<1>1. Init => ListInv /\ EdgeInv
  <2> SUFFICES ASSUME Init PROVE EdgeInv
    BY InitListInv
  <2>1. /\ row = [f \in Files |-> NoRow] /\ phase = "idle"
        /\ unch = [f \in Files |-> "unknown"]
        /\ \A f \in Existing : f \notin Generated
        /\ \A o \in Objects : Source[o] \in Existing
    BY DEF Init
  <2>2. \A f \in Files : row[f].existed # "yes"
    BY <2>1 DEF NoRow
  <2> QED BY <2>1, <2>2 DEF EdgeInv, RowsAreTrue, SourcesExist
<1>2. IInv /\ ListInv /\ EdgeInv /\ [Next]_vars => ListInv' /\ EdgeInv'
  BY ListInvKept, EdgeInvKept
<1>3. IInv /\ ListInv /\ EdgeInv => ReadsAreDependencies
  <2> SUFFICES ASSUME IInv, ListInv, EdgeInv, phase = "walked", NEW o \in Objects
               PROVE  edges[o] = Reads(o)
    BY DEF ReadsAreDependencies
  <2>1. /\ todo = {} /\ stack = <<>> /\ edges[o] \in SUBSET Files /\ Source[o] \in edges[o]
        /\ Generated \subseteq Existing /\ disk \in [Files -> [ts : 0 .. clock, includes : Lists]]
    BY DEF IInv, Types, CallsInv, ListInv, EdgesAreScanned, EdgeInv, ScansAreTrue
  <2>2. ASSUME NEW f \in Files, NEW inc \in disk[f].includes
        PROVE  Found(o, f, inc) = Resolved(o, f, inc)
    <3>1. inc \in UNION Contents[f]
      BY <2>2 DEF IInv, Types
    <3> QED BY <2>1, <3>1, SameAnswer
  <2>3. ASSUME NEW R \in SUBSET Files, Source[o] \in R,
               \A f \in R : \A inc \in disk[f].includes : Resolved(o, f, inc) \in R \cup {None}
        PROVE  edges[o] \subseteq R
    <3>1. ClosedFor(o, R)
      BY <2>2, <2>3 DEF ClosedFor
    <3> QED BY <2>1, <3>1 DEF EdgeInv, EdgesAreNeeded
  <2>4. \A f \in edges[o] : \A inc \in disk[f].includes :
          Resolved(o, f, inc) \in edges[o] \cup {None}
    <3> SUFFICES ASSUME NEW f \in edges[o], NEW inc \in disk[f].includes
                 PROVE  Resolved(o, f, inc) \in edges[o] \cup {None}
      OBVIOUS
    <3>1. ~Pending(o, f, inc)
      BY <2>1 DEF Pending
    <3> QED BY <2>1, <2>2, <3>1 DEF EdgeInv, EdgesAreComplete
  <2> QED BY <2>1, <2>3, <2>4 DEF Reads
<1> QED BY <1>1, <1>2, <1>3, InvariantHolds, PTL DEF Spec
===============================================================================
