--------------------------- MODULE MakeRules_proofs ----------------------------
(* Proofs about MakeRules for every Makefile: that pattern rules applied      *)
(* while the build order is made leave it what it should be.                  *)
EXTENDS MakeRules, DepthFirstVisit_proofs, FiniteSetTheorems

-------------------------------------------------------------------------------
(* What a Makefile says. *)

RulesOf(c, kind) == { c[i] : i \in { i \in DOMAIN c : c[i].kind = kind } }

NamedIn(c) == UNION { c[i].targets \cup c[i].sources : i \in DOMAIN c }

Ruled(c) == UNION { r.targets : r \in { r \in RulesOf(c, "rule") : r.commands } }

Matched(c) == UNION { DOMAIN p.makes : p \in RulesOf(c, "pattern") }

PatternSources(c) ==
  UNION { UNION { p.makes[n].sources : n \in DOMAIN p.makes } : p \in RulesOf(c, "pattern") }

\* What no pattern will ever make: it has a rule, or no pattern matches it.
Settled(c) == Ruled(c) \cup (Names \ Matched(c))

\* Patterns have a rank: what one makes things from, those of a lower rank make.
Ranked(P, rank) ==
  \A p, q \in P : \A n \in DOMAIN p.makes :
    p.makes[n].sources \cap DOMAIN q.makes # {} => rank[q] < rank[p]

\* A pattern rule has commands.  A rule without commands is for sources that
\* patterns have nothing to do with.  No chain of patterns needs one of them
\* twice.  A target that is asked for has a rule, or no pattern, or nothing
\* mentions it, and then no pattern can have been applied to make it a source.
Orderly(c) ==
  /\ \A p \in RulesOf(c, "pattern") : p.commands
  /\ \A r \in RulesOf(c, "rule") : r.commands \/ r.sources \subseteq Settled(c)
  /\ \E rank \in [RulesOf(c, "pattern") -> Nat] : Ranked(RulesOf(c, "pattern"), rank)
  /\ \A q \in Requests(c) : \A k \in DOMAIN q :
       \/ q[k] \in Settled(c)
       \/ q[k] \notin NamedIn(c) /\ (k = 1 \/ q[k] \notin PatternSources(c))

-------------------------------------------------------------------------------
(* The types. *)

InputsOk ==
  /\ makefile \in Makefiles /\ disk \in Disks
  /\ read \in 0 .. Len(makefile) /\ Len(patterns) <= read
  /\ patterns \in Seq(RulesOf(makefile, "pattern"))
  /\ requested \in Seq(Names)
  /\ phase \in {"reading", "resolving", "walking", "noRule"}
  /\ phase # "reading" => read = Len(makefile)

GraphOk ==
  /\ entries \subseteq Names
  /\ task \in [Vertices -> {"none", "empty", "make"}] /\ HasTask \subseteq entries
  /\ out \in [Vertices -> SUBSET entries] /\ \A n \in Names \ entries : out[n] = {}

\* Nothing but entries is walked.
WalkOk ==
  /\ color \in [Vertices -> {"white", "gray", "black"}]
  /\ stack \in Seq([node : entries \cup {Goal}, next : entries \cup {0, End}])
  /\ order \in Seq(entries \cup {Goal})
  /\ scanned \in entries \cup {0, End} /\ thrown \in BOOLEAN
  /\ DiscoveredOnTop

NotWalkingYet ==
  /\ color = [n \in Vertices |-> "white"] /\ stack = <<>> /\ scanned = End
  /\ order = <<>> /\ thrown = FALSE

TypeInv ==
  /\ InputsOk /\ GraphOk /\ goals \subseteq entries /\ WalkOk
  /\ phase # "walking" => NotWalkingYet

\* Where entries come from.
Explained ==
  entries \subseteq disk \cup Mentioned \cup HasTask \cup { n \in Names : out[n] # {} }

-------------------------------------------------------------------------------
(* Orderly Makefiles. *)

Makeable == { n \in Names : RulesFor(n) # {} }

RuledHaveTasks ==
  \A i \in 1 .. read :
    makefile[i].kind = "rule" /\ makefile[i].commands =>
      \A t \in makefile[i].targets : task[t] = "make"

\* Only make_scanner applies patterns to sources; those of other nodes need none.
SettledWithoutTask ==
  \A n \in Names : task[n] # "make" => out[n] \subseteq Settled(makefile)

EntriesKnown ==
  /\ entries \subseteq NamedIn(makefile) \cup HasTask \cup PatternSources(makefile)
  /\ phase = "reading" => entries \subseteq NamedIn(makefile)

RequestsOrderly ==
  /\ phase = "walking" => requested = <<>>
  /\ \A k \in 1 .. Len(requested) :
       \/ requested[k] \in Settled(makefile)
       \/ /\ requested[k] \notin NamedIn(makefile)
          /\ \/ requested[k] \notin PatternSources(makefile)
             \/ k = 1 /\ entries \subseteq NamedIn(makefile)

GoalsSettled ==
  /\ phase = "reading" => \A t \in goals : task[t] = "make"
  /\ goals \subseteq HasTask \cup Settled(makefile)

\* The walk has come to no node that a pattern could still give a task.
SettledWhenReached ==
  \A n \in Names : color[n] # "white" /\ task[n] = "none" => n \notin Makeable

SettledWhenScanned ==
  \A p \in Vertices : color[p] # "white" =>
    \A s \in out[p] :
      s \in HasTask \/ s \notin Makeable \/ (Discovering /\ p = Node /\ s > scanned)

ScannedHaveTasks == Discovering => Node \in HasTask

IInv ==
  /\ RuledHaveTasks /\ SettledWithoutTask /\ EntriesKnown /\ RequestsOrderly /\ GoalsSettled
  /\ phase = "walking" =>
       WalkInv /\ SettledWhenReached /\ SettledWhenScanned /\ ScannedHaveTasks

-------------------------------------------------------------------------------
(* match_filename. *)

Calls == Names \X SUBSET DOMAIN patterns

Matching(call) == { i \in DOMAIN patterns \ call[2] : call[1] \in DOMAIN patterns[i].makes }

DeeperIn(f, call, i) == { f[<<source, call[2] \cup {i}>>] : source \in Missing(i, call[1]) }

FullIn(call) == { i \in Matching(call) : Missing(i, call[1]) = {} }

DeepIn(f, call) == { i \in Matching(call) : {} \notin DeeperIn(f, call, i) }

\* What the function returns for a call, given what it returns for the calls it makes.
Found(f, call) ==
  IF FullIn(call) # {} THEN {Expanded(Longest(FullIn(call), call[1]), call[1])}
  ELSE IF DeepIn(f, call) # {}
  THEN {Expanded(Longest(DeepIn(f, call), call[1]), call[1])}
         \cup UNION DeeperIn(f, call, Longest(DeepIn(f, call), call[1]))
  ELSE {}

LEMMA MatchIsChosen == MatchFilename = CHOOSE f : f = [call \in Calls |-> Found(f, call)]
BY DEF MatchFilename, Calls, Found, Matching, DeeperIn, FullIn, DeepIn

PatternsOk ==
  /\ Len(patterns) \in Nat /\ DOMAIN patterns = 1 .. Len(patterns)
  /\ \A i \in DOMAIN patterns : \A n \in DOMAIN patterns[i].makes :
       n \in Names /\ Stem(i, n) \in Nat /\ SourcesOf(i, n) \in SUBSET Names

\* The rule applied is that of one of the patterns it is chosen from.
LEMMA LongestIsOne ==
  ASSUME PatternsOk, NEW S, S \subseteq DOMAIN patterns, S # {}, NEW name,
         \A i \in S : name \in DOMAIN patterns[i].makes
  PROVE  Longest(S, name) \in S
<1> DEFINE P(k) == \E i \in S : i <= k /\ \A j \in S : j <= k => Stem(j, name) <= Stem(i, name)
           bad == { k \in Nat : (\E i \in S : i <= k) /\ ~P(k) }
<1>1. S \subseteq Nat /\ \A i \in S : i > 0 /\ Stem(i, name) \in Nat
  BY DEF PatternsOk
<1>2. bad = {}
  <2> SUFFICES ASSUME bad # {} PROVE FALSE
    OBVIOUS
  <2>1. PICK k \in bad : \A l \in bad : k <= l
    <3>1. bad \subseteq Nat
      OBVIOUS
    <3> HIDE DEF bad
    <3> QED BY <3>1, MinIsLeast
  <2>2. PICK i \in S : i <= k
    BY <2>1
  <2>3. k # 0 /\ k \in Nat /\ k - 1 \in Nat /\ k - 1 < k
    BY <1>1, <2>1, <2>2
  <2>4. CASE \E j \in S : j <= k - 1
    <3>1. P(k - 1)
      <4>1. k - 1 \notin bad
        BY <2>1, <2>3
      <4> QED BY <2>3, <2>4, <4>1
    <3>2. PICK j \in S : j <= k - 1 /\ \A l \in S : l <= k - 1 => Stem(l, name) <= Stem(j, name)
      BY <3>1
    <3>3. ASSUME NEW l \in S, l <= k PROVE l = k \/ l <= k - 1
      <4>1. l \in Nat /\ k \in Nat
        BY <1>1, <2>3
      <4> QED BY <3>3, <4>1
    <3>4. CASE k \in S /\ ~(Stem(k, name) <= Stem(j, name))
      <4>1. Stem(j, name) <= Stem(k, name)
        BY <1>1, <3>4
      <4>2. ASSUME NEW l \in S, l <= k PROVE Stem(l, name) <= Stem(k, name)
        <5>1. l = k \/ Stem(l, name) <= Stem(j, name)
          BY <3>2, <3>3, <4>2
        <5>2. PICK sl \in Nat, sj \in Nat, sk \in Nat :
                sl = Stem(l, name) /\ sj = Stem(j, name) /\ sk = Stem(k, name)
          BY <1>1, <3>4
        <5>3. sj <= sk /\ (l = k => sl = sk) /\ (l = k \/ sl <= sj)
          BY <4>1, <5>1, <5>2
        <5>4. sl <= sk
          BY <5>3
        <5> QED BY <5>2, <5>4
      <4>4. k \in S /\ k <= k
        BY <2>3, <3>4
      <4>3. P(k)
        BY <4>2, <4>4
      <4> QED BY <2>1, <4>3
    <3>5. CASE k \in S => Stem(k, name) <= Stem(j, name)
      <4>1. j <= k
        BY <1>1, <2>3, <3>2
      <4>2. \A l \in S : l <= k => Stem(l, name) <= Stem(j, name)
        BY <3>2, <3>3, <3>5
      <4>3. P(k)
        BY <4>1, <4>2
      <4> QED BY <2>1, <4>3
    <3> QED BY <3>4, <3>5
  <2>5. CASE ~\E j \in S : j <= k - 1
    <3>1. i = k /\ \A l \in S : l <= k => l = k
      BY <1>1, <2>2, <2>3, <2>5
    <3>2. \A l \in S : l <= k => Stem(l, name) <= Stem(i, name)
      BY <1>1, <3>1
    <3>3. P(k)
      BY <2>2, <3>2
    <3> QED BY <2>1, <3>3
  <2> QED BY <2>4, <2>5
<1> DEFINE T == { i \in S : \A j \in S : Stem(j, name) <= Stem(i, name) }
<1>3. PICK n \in Nat : DOMAIN patterns = 1 .. n
  BY DEF PatternsOk
<1>4. P(n)
  <2>1. \E i \in S : i <= n
    BY <1>3
  <2> QED BY <1>2, <2>1
<1>5. T # {} /\ T \subseteq Nat
  BY <1>1, <1>3, <1>4
<1>6. Longest(S, name) = Min(T)
  BY DEF Longest
<1> HIDE DEF T
<1>7. Min(T) \in T
  BY <1>5, MinIsLeast
<1> QED BY <1>6, <1>7 DEF T

\* A call makes only calls with one pattern more applied.
LEMMA FoundAgrees ==
  ASSUME PatternsOk, NEW call \in Calls, NEW f, NEW g,
         \A i \in Matching(call) : \A source \in Missing(i, call[1]) :
           f[<<source, call[2] \cup {i}>>] = g[<<source, call[2] \cup {i}>>]
  PROVE  Found(f, call) = Found(g, call)
<1>1. \A i \in Matching(call) : DeeperIn(f, call, i) = DeeperIn(g, call, i)
  BY DEF DeeperIn
<1>2. DeepIn(f, call) = DeepIn(g, call)
  BY <1>1 DEF DeepIn
<1>3. DeepIn(f, call) # {} => Longest(DeepIn(f, call), call[1]) \in Matching(call)
  <2>1. /\ DeepIn(f, call) \subseteq Matching(call) /\ DeepIn(f, call) \subseteq DOMAIN patterns
        /\ \A i \in DeepIn(f, call) : call[1] \in DOMAIN patterns[i].makes
    BY DEF DeepIn, Matching
  <2> QED BY <2>1, LongestIsOne
<1> QED BY <1>1, <1>2, <1>3 DEF Found

Level(j) == { call \in Calls : Cardinality(DOMAIN patterns \ call[2]) <= j }

LEMMA Applying ==
  ASSUME PatternsOk, NEW call \in Calls, NEW i \in Matching(call),
         NEW source \in Missing(i, call[1])
  PROVE  /\ <<source, call[2] \cup {i}>> \in Calls
         /\ Cardinality(DOMAIN patterns \ call[2]) \in Nat \ {0}
         /\ Cardinality(DOMAIN patterns \ (call[2] \cup {i})) =
              Cardinality(DOMAIN patterns \ call[2]) - 1
<1>1. /\ call[2] \subseteq DOMAIN patterns /\ call[1] \in Names
      /\ i \in DOMAIN patterns \ call[2] /\ call[1] \in DOMAIN patterns[i].makes
  BY DEF Calls, Matching
<1>2. source \in Names
  BY <1>1 DEF PatternsOk, Missing
<1>3. IsFiniteSet(DOMAIN patterns \ call[2])
  <2>1. IsFiniteSet(DOMAIN patterns)
    BY FS_Interval DEF PatternsOk
  <2> QED BY <2>1, FS_Subset
<1>4. (DOMAIN patterns \ call[2]) \ {i} = DOMAIN patterns \ (call[2] \cup {i})
  OBVIOUS
<1>5. Cardinality((DOMAIN patterns \ call[2]) \ {i}) = Cardinality(DOMAIN patterns \ call[2]) - 1
  BY <1>1, <1>3, FS_RemoveElement
<1>6. Cardinality(DOMAIN patterns \ call[2]) \in Nat \ {0}
  BY <1>1, <1>3, FS_CardinalityType, FS_EmptySet
<1> QED BY <1>1, <1>2, <1>4, <1>5, <1>6 DEF Calls

LEMMA Solved ==
  ASSUME PatternsOk, NEW j \in Nat
  PROVE  \E f : f = [call \in Level(j) |-> Found(f, call)]
<1> DEFINE S(k) == \E f : f = [call \in Level(k) |-> Found(f, call)]
           bad == { k \in Nat : ~S(k) }
<1> SUFFICES ASSUME bad # {} PROVE FALSE
  OBVIOUS
<1>1. PICK k \in bad : \A l \in bad : k <= l
  <2>1. bad \subseteq Nat
    OBVIOUS
  <2> HIDE DEF bad
  <2> QED BY <2>1, MinIsLeast
<1>2. \A call \in Calls : Cardinality(DOMAIN patterns \ call[2]) \in Nat
  <2>1. IsFiniteSet(DOMAIN patterns)
    BY FS_Interval DEF PatternsOk
  <2> QED BY <2>1, FS_Subset, FS_CardinalityType
<1>3. CASE k = 0
  <2> DEFINE f == [call \in Level(0) |-> {}]
  <2>1. ASSUME NEW call \in Level(0) PROVE Found(f, call) = {}
    <3>1. call \in Calls
      BY DEF Level
    <3>2. Matching(call) = {}
      <4>1. Cardinality(DOMAIN patterns \ call[2]) = 0
        BY <1>2, <3>1 DEF Level
      <4>2. IsFiniteSet(DOMAIN patterns \ call[2])
        <5>1. IsFiniteSet(DOMAIN patterns)
          BY FS_Interval DEF PatternsOk
        <5> QED BY <5>1, FS_Subset
      <4>3. DOMAIN patterns \ call[2] = {}
        BY <4>1, <4>2, FS_EmptySet
      <4> QED BY <4>3 DEF Matching
    <3> QED BY <3>2 DEF Found, FullIn, DeepIn
  <2>2. f = [call \in Level(0) |-> Found(f, call)]
    BY <2>1
  <2> HIDE DEF f
  <2>3. S(0)
    BY <2>2
  <2> QED BY <1>1, <1>3, <2>3
<1>4. CASE k # 0
  <2>1. k \in Nat /\ k - 1 \in Nat /\ ~(k <= k - 1)
    BY <1>1, <1>4
  <2>2. S(k - 1)
    BY <1>1, <2>1
  <2>3. PICK g : g = [call \in Level(k - 1) |-> Found(g, call)]
    BY <2>2
  <2> DEFINE f == [call \in Level(k) |-> Found(g, call)]
  <2>4. Level(k - 1) \subseteq Level(k)
    BY <1>2, <2>1 DEF Level
  <2>5. ASSUME NEW call \in Level(k - 1) PROVE f[call] = g[call]
    <3>1. f[call] = Found(g, call)
      BY <2>4
    <3>2. g[call] = Found(g, call)
      BY <2>3
    <3> QED BY <3>1, <3>2
  <2> HIDE DEF f
  <2>6. ASSUME NEW call \in Level(k) PROVE Found(f, call) = Found(g, call)
    <3>1. call \in Calls /\ Cardinality(DOMAIN patterns \ call[2]) <= k
      BY DEF Level
    <3>2. ASSUME NEW i \in Matching(call), NEW source \in Missing(i, call[1])
          PROVE  f[<<source, call[2] \cup {i}>>] = g[<<source, call[2] \cup {i}>>]
      <4>1. /\ <<source, call[2] \cup {i}>> \in Calls
            /\ Cardinality(DOMAIN patterns \ call[2]) \in Nat \ {0}
            /\ Cardinality(DOMAIN patterns \ (call[2] \cup {i})) =
                 Cardinality(DOMAIN patterns \ call[2]) - 1
        BY <3>1, Applying
      <4>2. Cardinality(DOMAIN patterns \ (call[2] \cup {i})) <= k - 1
        BY <2>1, <3>1, <4>1
      <4>3. <<source, call[2] \cup {i}>>[2] = call[2] \cup {i}
        OBVIOUS
      <4>4. <<source, call[2] \cup {i}>> \in Level(k - 1)
        BY <4>1, <4>2, <4>3 DEF Level
      <4> QED BY <2>5, <4>4
    <3> QED BY <3>1, <3>2, FoundAgrees
  <2>7. f = [call \in Level(k) |-> Found(f, call)]
    BY <2>6 DEF f
  <2>8. S(k)
    BY <2>7
  <2> QED BY <1>1, <2>8
<1> QED BY <1>3, <1>4

LEMMA MatchIsFound ==
  ASSUME PatternsOk, NEW call \in Calls
  PROVE  MatchFilename[call] = Found(MatchFilename, call)
<1> DEFINE n == Cardinality(DOMAIN patterns)
<1>1. IsFiniteSet(DOMAIN patterns) /\ n \in Nat
  BY FS_Interval, FS_CardinalityType DEF PatternsOk
<1>2. Level(n) = Calls
  <2>1. ASSUME NEW c \in Calls PROVE Cardinality(DOMAIN patterns \ c[2]) <= n
    BY <1>1, FS_Subset
  <2> QED BY <2>1 DEF Level
<1>3. \E f : f = [c \in Calls |-> Found(f, c)]
  BY <1>1, <1>2, Solved
<1>4. MatchFilename = [c \in Calls |-> Found(MatchFilename, c)]
  BY <1>3, MatchIsChosen
<1> HIDE DEF n
<1> QED BY <1>4

\* What match_filename returns, by the pattern it decides for.
LEMMA MatchCases ==
  ASSUME PatternsOk, NEW call \in Calls, MatchFilename[call] # {}
  PROVE  \E i \in Matching(call) :
           \/ /\ Missing(i, call[1]) = {}
              /\ MatchFilename[call] = {Expanded(i, call[1])}
           \/ /\ {} \notin DeeperIn(MatchFilename, call, i)
              /\ MatchFilename[call] =
                   {Expanded(i, call[1])} \cup UNION DeeperIn(MatchFilename, call, i)
<1>1. MatchFilename[call] = Found(MatchFilename, call)
  BY MatchIsFound
<1>2. \A i \in Matching(call) : i \in DOMAIN patterns /\ call[1] \in DOMAIN patterns[i].makes
  BY DEF Matching
<1>3. CASE FullIn(call) # {}
  <2>1. Longest(FullIn(call), call[1]) \in FullIn(call)
    <3>1. FullIn(call) \subseteq Matching(call)
      BY DEF FullIn
    <3>2. FullIn(call) \subseteq DOMAIN patterns
      BY <1>2, <3>1
    <3>3. \A i \in FullIn(call) : call[1] \in DOMAIN patterns[i].makes
      BY <1>2, <3>1
    <3> QED BY <1>3, <3>2, <3>3, LongestIsOne
  <2> QED BY <1>1, <1>3, <2>1 DEF Found, FullIn
<1>4. CASE FullIn(call) = {} /\ DeepIn(MatchFilename, call) # {}
  <2>1. Longest(DeepIn(MatchFilename, call), call[1]) \in DeepIn(MatchFilename, call)
    <3>1. DeepIn(MatchFilename, call) \subseteq Matching(call)
      BY DEF DeepIn
    <3>2. DeepIn(MatchFilename, call) \subseteq DOMAIN patterns
      BY <1>2, <3>1
    <3>3. \A i \in DeepIn(MatchFilename, call) : call[1] \in DOMAIN patterns[i].makes
      BY <1>2, <3>1
    <3> QED BY <1>4, <3>2, <3>3, LongestIsOne
  <2> QED BY <1>1, <1>4, <2>1 DEF Found, DeepIn
<1> QED BY <1>1, <1>3, <1>4 DEF Found

\* There are rules for a name when a pattern has all it needs.
LEMMA MatchNonempty ==
  ASSUME PatternsOk, NEW call \in Calls
  PROVE  MatchFilename[call] # {} <=>
           \E i \in Matching(call) : \A s \in Missing(i, call[1]) :
             MatchFilename[<<s, call[2] \cup {i}>>] # {}
<1>1. ASSUME MatchFilename[call] # {}
      PROVE  \E i \in Matching(call) : \A s \in Missing(i, call[1]) :
               MatchFilename[<<s, call[2] \cup {i}>>] # {}
  <2>1. PICK i \in Matching(call) :
          Missing(i, call[1]) = {} \/ {} \notin DeeperIn(MatchFilename, call, i)
    BY <1>1, MatchCases
  <2>2. \A s \in Missing(i, call[1]) : MatchFilename[<<s, call[2] \cup {i}>>] # {}
    BY <2>1 DEF DeeperIn
  <2> QED BY <2>2
<1>2. ASSUME NEW i \in Matching(call),
             \A s \in Missing(i, call[1]) : MatchFilename[<<s, call[2] \cup {i}>>] # {}
      PROVE  MatchFilename[call] # {}
  <2>1. {} \notin DeeperIn(MatchFilename, call, i)
    BY <1>2 DEF DeeperIn
  <2>2. DeepIn(MatchFilename, call) # {}
    BY <2>1 DEF DeepIn
  <2> QED BY <2>2, MatchIsFound DEF Found
<1> QED BY <1>1, <1>2

LEMMA MatchTarget ==
  ASSUME PatternsOk, NEW call \in Calls, MatchFilename[call] # {}
  PROVE  \E r \in MatchFilename[call] : call[1] \in r.targets
<1>1. PICK i \in Matching(call) : Expanded(i, call[1]) \in MatchFilename[call]
  BY MatchCases
<1>2. call[1] \in Expanded(i, call[1]).targets
  BY DEF Expanded
<1> QED BY <1>1, <1>2

IsExpanded(r, call) ==
  \E i \in DOMAIN patterns : \E n \in DOMAIN patterns[i].makes :
    /\ r = Expanded(i, n)
    /\ n = call[1] \/ ~Available(n)
    /\ \A s \in SourcesOf(i, n) :
         Available(s) \/ \E other \in MatchFilename[call] : s \in other.targets

\* The rules for a name are those of patterns, for the name itself and for names
\* that are missing; what they need is there or made by another of them.
LEMMA MatchShape ==
  ASSUME PatternsOk, NEW call \in Calls, NEW r \in MatchFilename[call]
  PROVE  IsExpanded(r, call)
<1> DEFINE Left(c) == Cardinality(DOMAIN patterns \ c[2])
           Wrong(c) == \E q \in MatchFilename[c] : ~IsExpanded(q, c)
           bad == { k \in Nat : \E c \in Calls : Left(c) = k /\ Wrong(c) }
<1>1. \A c \in Calls : Left(c) \in Nat
  <2>1. IsFiniteSet(DOMAIN patterns)
    BY FS_Interval DEF PatternsOk
  <2> QED BY <2>1, FS_Subset, FS_CardinalityType DEF Calls
<1>2. bad = {}
  <2> SUFFICES ASSUME bad # {} PROVE FALSE
    OBVIOUS
  <2>1. PICK k \in bad : \A l \in bad : k <= l
    <3>1. bad \subseteq Nat
      OBVIOUS
    <3> HIDE DEF bad
    <3> QED BY <3>1, MinIsLeast
  <2>2. PICK c \in Calls : Left(c) = k /\ Wrong(c)
    BY <2>1
  <2>3. PICK q \in MatchFilename[c] : ~IsExpanded(q, c)
    BY <2>2
  <2>4. PICK i \in Matching(c) :
           \/ /\ Missing(i, c[1]) = {}
              /\ MatchFilename[c] = {Expanded(i, c[1])}
           \/ /\ {} \notin DeeperIn(MatchFilename, c, i)
              /\ MatchFilename[c] =
                   {Expanded(i, c[1])} \cup UNION DeeperIn(MatchFilename, c, i)
    BY <2>3, MatchCases
  <2>5. i \in DOMAIN patterns /\ c[1] \in DOMAIN patterns[i].makes
    BY DEF Matching
  <2>6. ASSUME NEW s \in Missing(i, c[1]), {} \notin DeeperIn(MatchFilename, c, i)
        PROVE  /\ <<s, c[2] \cup {i}>> \in Calls
               /\ MatchFilename[<<s, c[2] \cup {i}>>] # {}
               /\ ~Wrong(<<s, c[2] \cup {i}>>)
    <3>1. /\ <<s, c[2] \cup {i}>> \in Calls /\ <<s, c[2] \cup {i}>>[2] = c[2] \cup {i}
          /\ Left(c) \in Nat \ {0} /\ Cardinality(DOMAIN patterns \ (c[2] \cup {i})) = Left(c) - 1
      BY Applying
    <3>2. Left(<<s, c[2] \cup {i}>>) = k - 1 /\ k - 1 \in Nat /\ ~(k <= k - 1)
      BY <2>2, <3>1
    <3>3. k - 1 \notin bad
      BY <2>1, <3>2
    <3>4. ~Wrong(<<s, c[2] \cup {i}>>)
      BY <3>1, <3>2, <3>3
    <3>5. MatchFilename[<<s, c[2] \cup {i}>>] # {}
      BY <2>6 DEF DeeperIn
    <3> QED BY <3>1, <3>4, <3>5
  <2>7. CASE q = Expanded(i, c[1])
    <3>1. ASSUME NEW s \in SourcesOf(i, c[1]), ~Available(s)
          PROVE  \E other \in MatchFilename[c] : s \in other.targets
      <4>1. s \in Missing(i, c[1])
        BY <3>1 DEF Missing
      <4>2. /\ {} \notin DeeperIn(MatchFilename, c, i)
            /\ MatchFilename[c] = {Expanded(i, c[1])} \cup UNION DeeperIn(MatchFilename, c, i)
        BY <2>4, <4>1
      <4>3. /\ <<s, c[2] \cup {i}>> \in Calls /\ <<s, c[2] \cup {i}>>[1] = s
            /\ MatchFilename[<<s, c[2] \cup {i}>>] # {}
        BY <2>6, <4>1, <4>2
      <4>4. PICK other \in MatchFilename[<<s, c[2] \cup {i}>>] : s \in other.targets
        BY <4>3, MatchTarget
      <4>5. MatchFilename[<<s, c[2] \cup {i}>>] \in DeeperIn(MatchFilename, c, i)
        BY <4>1 DEF DeeperIn
      <4> QED BY <4>2, <4>4, <4>5
    <3> QED BY <2>3, <2>5, <2>7, <3>1 DEF IsExpanded
  <2>8. CASE q # Expanded(i, c[1])
    <3>1. /\ {} \notin DeeperIn(MatchFilename, c, i)
          /\ MatchFilename[c] = {Expanded(i, c[1])} \cup UNION DeeperIn(MatchFilename, c, i)
      BY <2>3, <2>4, <2>8
    <3>2. PICK s \in Missing(i, c[1]) : q \in MatchFilename[<<s, c[2] \cup {i}>>]
      BY <2>3, <2>8, <3>1 DEF DeeperIn
    <3>3. IsExpanded(q, <<s, c[2] \cup {i}>>)
      BY <2>6, <3>1, <3>2
    <3>4. MatchFilename[<<s, c[2] \cup {i}>>] \subseteq MatchFilename[c]
      BY <3>1 DEF DeeperIn
    <3>5. ~Available(s) /\ <<s, c[2] \cup {i}>>[1] = s
      BY DEF Missing
    <3>6. IsExpanded(q, c)
      BY <3>3, <3>4, <3>5 DEF IsExpanded
    <3> QED BY <2>3, <3>6
  <2> QED BY <2>7, <2>8
<1> QED BY <1>1, <1>2

-------------------------------------------------------------------------------
(* Types. *)

LEMMA RulesAreRules ==
  ASSUME NEW c \in Makefiles
  PROVE  /\ Len(c) \in Nat /\ DOMAIN c = 1 .. Len(c)
         /\ \A i \in DOMAIN c :
              /\ c[i].kind \in {"rule", "special", "pattern"}
              /\ c[i].targets \subseteq Names /\ c[i].sources \subseteq Names
              /\ c[i].kind = "pattern" =>
                   \A n \in DOMAIN c[i].makes :
                     /\ n \in Names /\ c[i].makes[n].stem \in Nat
                     /\ c[i].makes[n].sources \in SUBSET Names
<1>1. /\ Len(c) \in Nat /\ DOMAIN c = 1 .. Len(c) /\ \A i \in DOMAIN c : IsRule(c[i])
  BY MakefilesAssumption
<1>2. ASSUME NEW i \in DOMAIN c
      PROVE  /\ c[i].kind \in {"rule", "special", "pattern"}
             /\ c[i].targets \subseteq Names /\ c[i].sources \subseteq Names
             /\ c[i].kind = "pattern" =>
                  \A n \in DOMAIN c[i].makes :
                    /\ n \in Names /\ c[i].makes[n].stem \in Nat
                    /\ c[i].makes[n].sources \in SUBSET Names
  <2>1. PICK r : r = c[i] /\ IsRule(r)
    BY <1>1
  <2>2. CASE r.kind = "pattern"
    <3>1. PICK D \in SUBSET Names :
            r \in [kind : {"pattern"}, targets : {{}}, sources : {{}}, commands : BOOLEAN,
                   makes : [D -> [stem : Nat, sources : SUBSET Names]]]
      BY <2>1, <2>2 DEF IsRule
    <3>2. /\ r.targets = {} /\ r.sources = {}
          /\ r.makes \in [D -> [stem : Nat, sources : SUBSET Names]]
      BY <3>1
    <3> QED BY <2>1, <2>2, <3>2
  <2>3. CASE r.kind # "pattern"
    BY <2>1, <2>3 DEF IsRule
  <2> QED BY <2>2, <2>3
<1> QED BY <1>1, <1>2

LEMMA PatternsAreOk == ASSUME InputsOk PROVE PatternsOk
<1>1. /\ Len(patterns) \in Nat /\ DOMAIN patterns = 1 .. Len(patterns)
      /\ \A i \in DOMAIN patterns : patterns[i] \in RulesOf(makefile, "pattern")
  BY LenProperties, ElementOfSeq DEF InputsOk
<1>2. \A p \in RulesOf(makefile, "pattern") : \A n \in DOMAIN p.makes :
        n \in Names /\ p.makes[n].stem \in Nat /\ p.makes[n].sources \in SUBSET Names
  BY RulesAreRules DEF InputsOk, RulesOf
<1> QED BY <1>1, <1>2 DEF PatternsOk, Stem, SourcesOf

LEMMA RulesForShape ==
  ASSUME InputsOk, NEW n \in Names
  PROVE  /\ PatternsOk /\ <<n, {}>> \in Calls /\ <<n, {}>>[1] = n
         /\ \A r \in RulesFor(n) :
              IsExpanded(r, <<n, {}>>) /\ r.targets \subseteq Names /\ r.sources \subseteq Names
         /\ RulesFor(n) # {} => \E r \in RulesFor(n) : n \in r.targets
<1>1. PatternsOk /\ <<n, {}>> \in Calls /\ <<n, {}>>[1] = n
  BY PatternsAreOk DEF Calls
<1>2. \A r \in RulesFor(n) : IsExpanded(r, <<n, {}>>)
  BY <1>1, MatchShape DEF RulesFor
<1>3. ASSUME NEW r \in RulesFor(n) PROVE r.targets \subseteq Names /\ r.sources \subseteq Names
  <2>1. PICK i \in DOMAIN patterns : \E m \in DOMAIN patterns[i].makes : r = Expanded(i, m)
    BY <1>2 DEF IsExpanded
  <2>2. PICK m \in DOMAIN patterns[i].makes : r = Expanded(i, m)
    BY <2>1
  <2>3. r.targets = {m} /\ r.sources = SourcesOf(i, m)
    BY <2>2 DEF Expanded
  <2> QED BY <1>1, <2>3 DEF PatternsOk
<1>4. RulesFor(n) # {} => \E r \in RulesFor(n) : n \in r.targets
  BY <1>1, MatchTarget DEF RulesFor
<1> QED BY <1>1, <1>2, <1>3, <1>4

\* Executing rules.
LEMMA ApplyTypes ==
  ASSUME GraphOk, NEW rules, Apply(rules),
         \A r \in rules : r.targets \subseteq Names /\ r.sources \subseteq Names
  PROVE  /\ GraphOk' /\ entries \subseteq entries' /\ HasTask \subseteq HasTask'
         /\ \A n \in Vertices : out[n] \subseteq out'[n]
<1>1. /\ entries' = entries \cup UNION { r.targets \cup r.sources : r \in rules }
      /\ task' = [n \in Vertices |->
           IF \E r \in rules : n \in r.targets /\ r.commands THEN "make" ELSE task[n]]
      /\ out' = [n \in Vertices |->
           out[n] \cup UNION { r.sources : r \in { r \in rules : n \in r.targets } }]
  BY DEF Apply
<1>2. entries' \subseteq Names /\ entries \subseteq entries'
  BY <1>1 DEF GraphOk
<1>3. task' \in [Vertices -> {"none", "empty", "make"}]
  BY <1>1 DEF GraphOk
<1>4. \A n \in Vertices : /\ task'[n] # "none" => n \in HasTask \/ n \in entries'
                          /\ task[n] # "none" => task'[n] # "none"
  BY <1>1 DEF HasTask
<1>5. HasTask' \subseteq entries' /\ HasTask \subseteq HasTask'
  BY <1>2, <1>4 DEF HasTask, GraphOk
<1>6. ASSUME NEW n \in Vertices
      PROVE  /\ out[n] \subseteq out'[n] /\ out'[n] \subseteq entries'
             /\ n \in Names \ entries' => out'[n] = {}
  <2>1. out'[n] = out[n] \cup UNION { r.sources : r \in { r \in rules : n \in r.targets } }
    BY <1>1
  <2>2. UNION { r.sources : r \in { r \in rules : n \in r.targets } } \subseteq entries'
    BY <1>1
  <2>3. n \notin entries' => ~\E r \in rules : n \in r.targets
    BY <1>1
  <2>4. n \in Names \ entries' => out[n] = {}
    BY <1>2 DEF GraphOk
  <2> QED BY <1>2, <2>1, <2>2, <2>3, <2>4 DEF GraphOk
<1>7. out' \in [Vertices -> SUBSET entries']
  BY <1>1, <1>6
<1> QED BY <1>2, <1>3, <1>5, <1>6, <1>7 DEF GraphOk, Names

\* More entries do not hurt.
LEMMA MoreEntries ==
  ASSUME WalkOk, NEW more, entries \subseteq more
  PROVE  /\ stack \in Seq([node : more \cup {Goal}, next : more \cup {0, End}])
         /\ order \in Seq(more \cup {Goal}) /\ scanned \in more \cup {0, End}
<1>1. [node : entries \cup {Goal}, next : entries \cup {0, End}]
        \subseteq [node : more \cup {Goal}, next : more \cup {0, End}]
  OBVIOUS
<1>2. entries \cup {Goal} \subseteq more \cup {Goal}
  OBVIOUS
<1> QED BY <1>1, <1>2, SeqMonotonic DEF WalkOk

LEMMA EntriesAreVertices ==
  ASSUME GraphOk
  PROVE  /\ M \in Nat /\ End = M + 1 /\ Goal \in Vertices /\ Names \subseteq Vertices
         /\ entries \subseteq Vertices /\ \A v \in Vertices : v \in Nat /\ v # 0 /\ v # End
         /\ out \in [Vertices -> SUBSET Vertices]
<1>1. M \in Nat /\ End = M + 1 /\ Goal \in Vertices /\ Names \subseteq Vertices
  BY VerticesAssumption DEF End, Names
<1>2. entries \subseteq Vertices
  BY <1>1 DEF GraphOk
<1>3. \A v \in Vertices : v \in Nat /\ v # 0 /\ v # End
  BY <1>1 DEF Vertices
<1> QED BY <1>1, <1>2, <1>3 DEF GraphOk

LEMMA NextEdgeIsEntry ==
  ASSUME GraphOk, NEW n \in Vertices, NEW v \in Nat
  PROVE  NextEdge(n, v) \in entries \cup {End}
<1>1. NextEdge(n, v) \in out[n] \cup {End}
  BY EntriesAreVertices, NextEdgeIsNext
<1> QED BY <1>1 DEF GraphOk

LEMMA LookingIsEntry ==
  ASSUME GraphOk, WalkOk, stack # <<>>
  PROVE  /\ 1 \in 1 .. Len(stack) /\ Node \in entries \cup {Goal} /\ Node \in Vertices
         /\ Looking \in entries \cup {End}
         /\ Looking # End => Looking \in Vertices /\ Looking \in Nat
         /\ stack[1] \in [node : entries \cup {Goal}, next : entries \cup {0, End}]
<1>1. 1 \in 1 .. Len(stack)
  BY LenProperties, EmptySeq DEF WalkOk
<1>2. stack[1] \in [node : entries \cup {Goal}, next : entries \cup {0, End}]
  BY <1>1, ElementOfSeq DEF WalkOk
<1>3. Node \in entries \cup {Goal} /\ Node \in Vertices
  BY <1>2, EntriesAreVertices DEF Node
<1>4. Looking \in entries \cup {End}
  <2>1. CASE stack[1].next = 0
    BY <1>3, <2>1, NextEdgeIsEntry DEF Looking
  <2>2. CASE stack[1].next # 0
    BY <1>2, <2>2 DEF Looking
  <2> QED BY <2>1, <2>2
<1> QED BY <1>1, <1>2, <1>3, <1>4, EntriesAreVertices

LEMMA InitTypes == Init => TypeInv
<1> SUFFICES ASSUME Init PROVE TypeInv
  OBVIOUS
<1>1. /\ makefile \in Makefiles /\ read = 0 /\ disk \in Disks /\ requested \in Requests(makefile)
      /\ patterns = <<>> /\ goals = {} /\ phase = "reading"
      /\ entries = {} /\ task = [n \in Vertices |-> "none"] /\ out = [n \in Vertices |-> {}]
      /\ NotWalkingYet
  BY DEF Init, NotWalkingYet
<1>2. Len(makefile) \in Nat /\ requested \in Seq(Names)
  BY <1>1, MakefilesAssumption
<1>3. InputsOk
  BY <1>1, <1>2, EmptySeq DEF InputsOk
<1>4. GraphOk
  <2>1. \A n \in Vertices : task[n] = "none" /\ out[n] = {}
    BY <1>1
  <2>2. HasTask = {}
    BY <2>1 DEF HasTask
  <2>3. /\ task \in [Vertices -> {"none", "empty", "make"}]
        /\ out \in [Vertices -> SUBSET entries]
    BY <1>1
  <2>4. \A n \in Names : out[n] = {}
    BY <2>1 DEF Names
  <2> QED BY <1>1, <2>2, <2>3, <2>4 DEF GraphOk
<1>5. WalkOk
  BY <1>1, EmptySeq DEF WalkOk, NotWalkingYet, DiscoveredOnTop, Discovering
<1> QED BY <1>1, <1>3, <1>4, <1>5 DEF TypeInv

\* Before the walk it stands still.
LEMMA StillNotWalking ==
  ASSUME WalkOk, NotWalkingYet, UNCHANGED walkVars, entries \subseteq entries'
  PROVE  WalkOk' /\ NotWalkingYet'
<1>1. UNCHANGED <<color, stack, scanned, order, thrown>>
  BY DEF walkVars
<1>2. NotWalkingYet'
  BY <1>1 DEF NotWalkingYet
<1>3. WalkOk'
  BY <1>1, MoreEntries DEF WalkOk, DiscoveredOnTop, Discovering
<1> QED BY <1>2, <1>3

LEMMA ReadRuleTypes == ASSUME TypeInv, ReadRule PROVE TypeInv'
<1> DEFINE rule == makefile[read + 1]
<1>1. /\ UNCHANGED <<makefile, disk, requested, phase>> /\ UNCHANGED walkVars
      /\ phase = "reading" /\ read < Len(makefile) /\ read' = read + 1
  BY DEF ReadRule, inputs
<1>2. /\ makefile \in Makefiles /\ read \in Nat /\ Len(makefile) \in Nat
      /\ read + 1 \in DOMAIN makefile
  <2>1. Len(makefile) \in Nat /\ DOMAIN makefile = 1 .. Len(makefile) /\ read \in 0 .. Len(makefile)
    BY RulesAreRules DEF TypeInv, InputsOk
  <2> QED BY <1>1, <2>1 DEF TypeInv, InputsOk
<1>3. rule.targets \subseteq Names /\ rule.sources \subseteq Names
  BY <1>2, RulesAreRules
<1>4. Len(patterns) \in Nat /\ Len(patterns) <= read /\ patterns \in Seq(RulesOf(makefile, "pattern"))
  BY LenProperties DEF TypeInv, InputsOk
<1>5. ASSUME patterns' = patterns PROVE InputsOk'
  BY <1>1, <1>2, <1>4, <1>5 DEF TypeInv, InputsOk
<1>6. CASE rule.kind = "pattern"
  <2>1. patterns' = Append(patterns, rule) /\ UNCHANGED <<entries, task, out, goals>>
    BY <1>6 DEF ReadRule, nodes
  <2>2. rule \in RulesOf(makefile, "pattern")
    BY <1>2, <1>6 DEF RulesOf
  <2>3. patterns' \in Seq(RulesOf(makefile, "pattern")) /\ Len(patterns') = Len(patterns) + 1
    BY <1>4, <2>1, <2>2, AppendProperties
  <2>4. read' \in 0 .. Len(makefile) /\ Len(patterns') <= read'
    BY <1>1, <1>2, <1>4, <2>3
  <2>5. InputsOk'
    BY <1>1, <2>3, <2>4 DEF TypeInv, InputsOk
  <2>6. GraphOk' /\ goals' \subseteq entries' /\ entries \subseteq entries'
    BY <2>1 DEF TypeInv, GraphOk, HasTask
  <2> QED BY <1>1, <2>5, <2>6, StillNotWalking DEF TypeInv
<1>7. CASE rule.kind = "special"
  <2>1. Special(rule) /\ UNCHANGED <<patterns, goals>>
    BY <1>7 DEF ReadRule
  <2>2. /\ entries' = entries \cup rule.sources /\ out' = out
        /\ task' = [n \in Vertices |-> IF rule.phony /\ n \in rule.sources /\ task[n] = "none"
                                       THEN "empty" ELSE task[n]]
    BY <2>1 DEF Special
  <2>3. task' \in [Vertices -> {"none", "empty", "make"}] /\ HasTask' \subseteq entries'
    BY <2>2 DEF TypeInv, GraphOk, HasTask
  <2>4. out' \in [Vertices -> SUBSET entries'] /\ \A n \in Names \ entries' : out'[n] = {}
    BY <2>2 DEF TypeInv, GraphOk
  <2>5. GraphOk' /\ goals' \subseteq entries' /\ entries \subseteq entries'
    BY <1>3, <2>1, <2>2, <2>3, <2>4 DEF TypeInv, GraphOk
  <2> QED BY <1>1, <1>5, <2>1, <2>5, StillNotWalking DEF TypeInv
<1>8. CASE rule.kind = "rule"
  <2>1. Apply({rule}) /\ goals' = Defaults(rule) /\ patterns' = patterns
    BY <1>8 DEF ReadRule
  <2>2. GraphOk' /\ entries \subseteq entries'
    BY <1>3, <2>1, ApplyTypes DEF TypeInv
  <2>3. goals' \subseteq entries'
    <3>1. rule.targets \subseteq entries'
      BY <2>1 DEF Apply
    <3> QED BY <2>1, <2>2, <3>1 DEF TypeInv, Defaults
  <2> QED BY <1>1, <1>5, <2>1, <2>2, <2>3, StillNotWalking DEF TypeInv
<1> QED BY <1>6, <1>7, <1>8 DEF ReadRule

LEMMA EndReadingTypes == ASSUME TypeInv, EndReading PROVE TypeInv'
<1>1. /\ UNCHANGED <<makefile, disk, read, patterns, requested, entries, task, out>>
      /\ UNCHANGED walkVars /\ phase = "reading" /\ read = Len(makefile) /\ phase' = "resolving"
      /\ goals' = IF requested = <<>> THEN goals ELSE {}
  BY DEF EndReading, inputs, nodes
<1>2. InputsOk' /\ GraphOk' /\ goals' \subseteq entries'
  BY <1>1 DEF TypeInv, InputsOk, GraphOk, HasTask
<1> QED BY <1>1, <1>2, StillNotWalking DEF TypeInv

LEMMA ResolveTypes == ASSUME TypeInv, Resolve PROVE TypeInv'
<1>1. /\ UNCHANGED <<makefile, disk, read, patterns>> /\ UNCHANGED walkVars
      /\ phase = "resolving" /\ phase' \in {"resolving", "noRule"} /\ requested # <<>>
      /\ requested' = Tail(requested)
      /\ Apply(RulesForRequest(Head(requested)))
      /\ goals' = goals \/ (Head(requested) \in entries' /\ goals' = goals \cup {Head(requested)})
  BY DEF Resolve, inputs
<1>2. Head(requested) \in Names /\ requested' \in Seq(Names)
  BY <1>1, HeadTailProperties DEF TypeInv, InputsOk
<1>3. \A r \in RulesForRequest(Head(requested)) : r.targets \subseteq Names /\ r.sources \subseteq Names
  BY <1>2, RulesForShape DEF TypeInv, RulesForRequest
<1>4. GraphOk' /\ entries \subseteq entries'
  BY <1>1, <1>3, ApplyTypes DEF TypeInv
<1>5. InputsOk' /\ goals' \subseteq entries'
  BY <1>1, <1>2, <1>4 DEF TypeInv, InputsOk
<1> QED BY <1>1, <1>4, <1>5, StillNotWalking DEF TypeInv

LEMMA StartWalkTypes == ASSUME TypeInv, StartWalk PROVE TypeInv' /\ AtStart'
<1>1. /\ UNCHANGED <<makefile, disk, read, patterns, requested, goals, entries, task,
                    scanned, order, thrown>>
      /\ phase = "resolving" /\ phase' = "walking" /\ out' = [out EXCEPT ![Goal] = goals]
      /\ color' = [color EXCEPT ![Goal] = "gray"] /\ stack' = <<StartAtGoal>>
  BY DEF StartWalk, inputs
<1>2. NotWalkingYet /\ GraphOk /\ WalkOk /\ goals \subseteq entries
  BY <1>1 DEF TypeInv
<1>3. Goal \in Vertices /\ entries \subseteq Vertices /\ End \notin Vertices
  BY <1>2, EntriesAreVertices
<1>4. /\ out' \in [Vertices -> SUBSET entries'] /\ \A n \in Names \ entries' : out'[n] = {}
  BY <1>1, <1>2, <1>3 DEF GraphOk, Names
<1>5. GraphOk'
  BY <1>1, <1>2, <1>4 DEF GraphOk, HasTask
<1>6. color' = [n \in Vertices |-> IF n = Goal THEN "gray" ELSE "white"]
  BY <1>1, <1>2, <1>3 DEF NotWalkingYet
<1>7. StartAtGoal \in [node : entries' \cup {Goal}, next : entries' \cup {0, End}]
  BY DEF StartAtGoal
<1>8. stack' \in Seq([node : entries' \cup {Goal}, next : entries' \cup {0, End}])
  BY <1>1, <1>7
<1>9. scanned' = End /\ order' = <<>> /\ thrown' = FALSE
  BY <1>1, <1>2 DEF NotWalkingYet
<1>10. order' \in Seq(entries' \cup {Goal})
  BY <1>9, EmptySeq
<1>11. WalkOk'
  BY <1>1, <1>6, <1>8, <1>9, <1>10 DEF WalkOk, DiscoveredOnTop, Discovering
<1>12. AtStart'
  <2>1. out' \in [Vertices -> SUBSET Vertices]
    BY <1>1, <1>3, <1>4
  <2> QED BY <1>1, <1>6, <1>9, <2>1 DEF AtStart
<1>13. InputsOk'
  BY <1>1 DEF TypeInv, InputsOk
<1>14. goals' \subseteq entries'
  BY <1>1, <1>2
<1>15. phase' = "walking"
  BY <1>1
<1> QED BY <1>5, <1>11, <1>12, <1>13, <1>14, <1>15 DEF TypeInv

\* The rules that scanning a source executes.
Scanned(next) ==
  IF next # End /\ task[Node] = "make" THEN RulesForSource(next) ELSE {}

LEMMA ScannedRules ==
  ASSUME TypeInv, NEW next, next \in entries \cup {End}
  PROVE  \A r \in Scanned(next) : r.targets \subseteq Names /\ r.sources \subseteq Names
BY RulesForShape DEF Scanned, RulesForSource, TypeInv, GraphOk

LEMMA ScanSourceStep ==
  ASSUME TypeInv, ScanSource
  PROVE  /\ UNCHANGED <<makefile, disk, read, patterns, requested, goals, phase,
                       color, stack, order, thrown>>
         /\ phase = "walking" /\ Discovering /\ stack # <<>> /\ stack[1].next = 0
         /\ Node \in Vertices /\ scanned \in Nat
         /\ scanned' = NextEdge(Node, scanned) /\ scanned' \in entries \cup {End}
         /\ Apply(Scanned(scanned'))
<1>1. /\ UNCHANGED <<makefile, disk, read, patterns, requested, goals, phase,
                    color, stack, order, thrown>>
      /\ phase = "walking" /\ Discovering /\ scanned' = NextEdge(Node, scanned)
      /\ Apply(Scanned(scanned'))
  BY DEF ScanSource, inputs, Scanned
<1>2. GraphOk /\ WalkOk
  BY DEF TypeInv
<1>3. stack # <<>> /\ stack[1].next = 0
  BY <1>1, <1>2 DEF WalkOk, DiscoveredOnTop
<1>4. Node \in Vertices
  BY <1>2, <1>3, LookingIsEntry
<1>5. scanned \in Nat
  BY <1>2, EntriesAreVertices DEF WalkOk
<1>6. scanned' \in entries \cup {End}
  BY <1>1, <1>2, <1>4, <1>5, NextEdgeIsEntry
<1> QED BY <1>1, <1>3, <1>4, <1>5, <1>6

LEMMA ScanSourceTypes == ASSUME TypeInv, ScanSource PROVE TypeInv'
<1>1. /\ UNCHANGED <<makefile, disk, read, patterns, requested, goals, phase,
                    color, stack, order, thrown>>
      /\ phase = "walking" /\ stack # <<>> /\ stack[1].next = 0
      /\ scanned' \in entries \cup {End} /\ Apply(Scanned(scanned'))
  BY ScanSourceStep
<1>2. \A r \in Scanned(scanned') : r.targets \subseteq Names /\ r.sources \subseteq Names
  BY <1>1, ScannedRules
<1>3. GraphOk' /\ entries \subseteq entries'
  BY <1>1, <1>2, ApplyTypes DEF TypeInv
<1>4. WalkOk'
  <2>1. /\ stack \in Seq([node : entries' \cup {Goal}, next : entries' \cup {0, End}])
        /\ order \in Seq(entries' \cup {Goal})
    BY <1>3, MoreEntries DEF TypeInv
  <2>2. scanned' \in entries' \cup {0, End}
    BY <1>1, <1>3
  <2> QED BY <1>1, <2>1, <2>2 DEF TypeInv, WalkOk, DiscoveredOnTop
<1>5. InputsOk' /\ goals' \subseteq entries'
  BY <1>1, <1>3 DEF TypeInv, InputsOk
<1>6. phase' = "walking"
  BY <1>1
<1> QED BY <1>3, <1>4, <1>5, <1>6 DEF TypeInv

LEMMA StepTypes == ASSUME TypeInv, Step PROVE TypeInv'
<1> DEFINE Frame == [node : entries \cup {Goal}, next : entries \cup {0, End}]
<1>1. /\ UNCHANGED <<makefile, disk, read, patterns, requested, goals, phase, entries, task>>
      /\ phase = "walking" /\ Visit(HasTask)
  BY DEF Step, inputs
<1>2. /\ out' = out /\ stack # <<>> /\ ~Discovering
  BY <1>1 DEF Visit, TreeEdge, BackEdge, ForwardEdge, FinishVertex, Walking
<1>3. InputsOk' /\ GraphOk' /\ goals' \subseteq entries'
  BY <1>1, <1>2 DEF TypeInv, InputsOk, GraphOk, HasTask
<1>4. /\ GraphOk /\ WalkOk /\ stack \in Seq(Frame) /\ order \in Seq(entries \cup {Goal})
      /\ scanned = End /\ color \in [Vertices -> {"white", "gray", "black"}]
  BY <1>2 DEF TypeInv, WalkOk, Discovering
<1>5. /\ 1 \in 1 .. Len(stack) /\ Node \in entries \cup {Goal} /\ Node \in Vertices
      /\ Looking \in entries \cup {End} /\ stack[1] \in Frame
      /\ Looking # End => Looking \in Vertices /\ Looking \in Nat
  BY <1>2, <1>4, LookingIsEntry
<1>6. Looking # End => NextEdge(Node, Looking) \in entries \cup {End}
  BY <1>4, <1>5, NextEdgeIsEntry
<1>7. CASE TreeEdge(HasTask)
  <2> DEFINE a == [node |-> Looking, next |-> 0]
             b == [node |-> Node, next |-> NextEdge(Node, Looking)]
  <2>1. /\ stack' = <<a, b>> \o Tail(stack) /\ color' = [color EXCEPT ![Looking] = "gray"]
        /\ scanned' = IF Looking \in HasTask THEN 0 ELSE End
        /\ Looking # End /\ UNCHANGED <<order, thrown>>
    BY <1>7 DEF TreeEdge
  <2>2. a \in Frame /\ b \in Frame /\ a.next = 0
    BY <1>5, <1>6, <2>1
  <2> HIDE DEF a, b
  <2>3. stack' \in Seq(Frame) /\ Len(stack') = Len(stack) + 1 /\ stack'[1] = a
    BY <1>2, <1>4, <2>1, <2>2, Pushed
  <2>4. stack' # <<>>
    <3>1. Len(stack) \in Nat
      BY <1>4, LenProperties
    <3> QED BY <2>3, <3>1, EmptySeq
  <2>5. DiscoveredOnTop'
    BY <2>2, <2>3, <2>4 DEF DiscoveredOnTop
  <2>6. color' \in [Vertices -> {"white", "gray", "black"}]
    BY <1>4, <2>1
  <2>7. WalkOk'
    BY <1>1, <1>4, <2>1, <2>3, <2>5, <2>6 DEF WalkOk
  <2> QED BY <1>1, <1>3, <2>7 DEF TypeInv
<1>8. CASE BackEdge
  <2>1. UNCHANGED <<color, stack, scanned, order>> /\ thrown' = TRUE
    BY <1>8 DEF BackEdge
  <2>2. WalkOk'
    BY <1>1, <1>4, <2>1 DEF WalkOk, DiscoveredOnTop, Discovering
  <2> QED BY <1>1, <1>3, <2>2 DEF TypeInv
<1>9. CASE ForwardEdge
  <2> DEFINE next == NextEdge(Node, Looking)
             top == [stack[1] EXCEPT !.next = next]
  <2>1. /\ stack' = [stack EXCEPT ![1].next = next] /\ Looking # End
        /\ UNCHANGED <<color, scanned, order, thrown>>
    BY <1>9 DEF ForwardEdge
  <2>2. next \in entries \cup {End}
    BY <1>6, <2>1
  <2> HIDE DEF next
  <2>3. top \in Frame /\ stack' = [stack EXCEPT ![1] = top]
    BY <1>5, <2>1, <2>2
  <2> HIDE DEF top
  <2>4. stack' \in Seq(Frame)
    BY <1>4, <1>5, <2>3, ExceptSeq
  <2>5. DiscoveredOnTop'
    BY <1>4, <2>1 DEF DiscoveredOnTop, Discovering
  <2>6. WalkOk'
    BY <1>1, <1>4, <2>1, <2>4, <2>5 DEF WalkOk
  <2> QED BY <1>1, <1>3, <2>6 DEF TypeInv
<1>10. CASE FinishVertex
  <2>1. /\ stack' = Tail(stack) /\ order' = Append(order, Node)
        /\ color' = [color EXCEPT ![Node] = "black"] /\ UNCHANGED <<scanned, thrown>>
    BY <1>10 DEF FinishVertex
  <2>2. stack' \in Seq(Frame)
    BY <1>2, <1>4, <2>1, Popped
  <2>3. order' \in Seq(entries \cup {Goal})
    BY <1>4, <1>5, <2>1, AppendProperties
  <2>4. DiscoveredOnTop' /\ color' \in [Vertices -> {"white", "gray", "black"}]
    BY <1>4, <2>1 DEF DiscoveredOnTop, Discovering
  <2>5. WalkOk'
    BY <1>1, <1>4, <2>1, <2>2, <2>3, <2>4 DEF WalkOk
  <2> QED BY <1>1, <1>3, <2>5 DEF TypeInv
<1> QED BY <1>1, <1>7, <1>8, <1>9, <1>10 DEF Visit

LEMMA StutterTypes == ASSUME TypeInv, UNCHANGED vars PROVE TypeInv'
<1>1. /\ UNCHANGED <<inputs, read, patterns, requested, goals, phase>>
      /\ UNCHANGED nodes /\ UNCHANGED walkVars
  BY DEF vars
<1>2. UNCHANGED <<makefile, disk, entries, task, out, color, stack, scanned, order, thrown>>
  BY <1>1 DEF inputs, nodes, walkVars
<1>3. InputsOk' /\ GraphOk'
  BY <1>1, <1>2 DEF TypeInv, InputsOk, GraphOk, HasTask
<1>4. WalkOk' /\ (phase' # "walking" => NotWalkingYet')
  BY <1>1, <1>2 DEF TypeInv, WalkOk, DiscoveredOnTop, Discovering, NotWalkingYet
<1> QED BY <1>1, <1>2, <1>3, <1>4 DEF TypeInv

LEMMA NextTypes == TypeInv /\ [Next]_vars => TypeInv'
BY ReadRuleTypes, EndReadingTypes, ResolveTypes, StartWalkTypes, ScanSourceTypes, StepTypes,
   StutterTypes
DEF Next, Over

\* Every variable keeps its type, and what the walk has come to are entries, though
\* make_scanner creates entries during the walk (parse_make.cpp:502-507).
THEOREM TypesHold == Spec => []TypeInv
BY InitTypes, NextTypes, PTL DEF Spec

\* Whatever has a task or edges is an entry and edges lead to entries, whatever the
\* Makefile says and the patterns add while the walk goes on.
THEOREM TypeCorrect == Spec => []TypeOK
<1>1. TypeInv => TypeOK
  <2> SUFFICES ASSUME TypeInv PROVE TypeOK
    OBVIOUS
  <2>1. InputsOk /\ GraphOk /\ WalkOk /\ goals \subseteq entries
    BY DEF TypeInv
  <2>2. entries \subseteq Vertices /\ Goal \in Vertices /\ 0 \in 0 .. End /\ Vertices \subseteq 0 .. End
        /\ End \in 0 .. End
    BY <2>1, EntriesAreVertices DEF Vertices
  <2>3. /\ stack \in Seq([node : Vertices \cup {Goal}, next : Vertices \cup {0, End}])
        /\ order \in Seq(Vertices \cup {Goal}) /\ scanned \in Vertices \cup {0, End}
    BY <2>1, <2>2, MoreEntries
  <2>4. [node : Vertices \cup {Goal}, next : Vertices \cup {0, End}] \subseteq [node : Vertices, next : 0 .. End]
    BY <2>2
  <2>5. stack \in Seq([node : Vertices, next : 0 .. End])
    <3>1. PICK A, B : /\ A = [node : Vertices \cup {Goal}, next : Vertices \cup {0, End}]
                      /\ B = [node : Vertices, next : 0 .. End]
      OBVIOUS
    <3>2. stack \in Seq(A) /\ A \subseteq B
      BY <2>3, <2>4, <3>1
    <3>3. stack \in Seq(B)
      BY <3>2, SeqMonotonic
    <3> QED BY <3>1, <3>3
  <2>6. Vertices \cup {Goal} = Vertices
    BY <2>2
  <2>7. order \in Seq(Vertices) /\ scanned \in 0 .. End
    BY <2>2, <2>3, <2>6
  <2> QED BY <2>1, <2>5, <2>7 DEF InputsOk, GraphOk, WalkOk, TypeOK
<1> QED BY <1>1, TypesHold, PTL

-------------------------------------------------------------------------------
(* Nothing is missing. *)

\* A pattern rule gives commands or dependencies to what it matches.
PatternsGiveRules ==
  \A c \in Makefiles : \A p \in RulesOf(c, "pattern") :
    p.commands \/ \A n \in DOMAIN p.makes : p.makes[n].sources # {}

\* What the rules of match_filename add is explained when what there was is.
LEMMA RulesExplain ==
  ASSUME TypeInv, Explained, PatternsGiveRules, NEW n \in Names, NEW rules,
         rules = {} \/ rules = RulesFor(n), Apply(rules),
         UNCHANGED <<makefile, disk>>, HasTask \subseteq HasTask'
  PROVE  Explained'
<1> DEFINE Fine == disk' \cup Mentioned' \cup HasTask' \cup { m \in Names : out'[m] # {} }
<1>1. /\ entries' = entries \cup UNION { r.targets \cup r.sources : r \in rules }
      /\ task' = [m \in Vertices |->
           IF \E r \in rules : m \in r.targets /\ r.commands THEN "make" ELSE task[m]]
      /\ out' = [m \in Vertices |->
           out[m] \cup UNION { r.sources : r \in { r \in rules : m \in r.targets } }]
  BY DEF Apply
<1>2. Names \subseteq Vertices
  BY DEF Names
<1>3. Mentioned' = Mentioned
  BY DEF Mentioned
<1>4. entries \subseteq Fine
  <2>1. ASSUME NEW m \in entries PROVE m \in Fine
    <3>1. CASE m \in Names /\ out[m] # {}
      <4>1. out'[m] # {}
        BY <1>1, <1>2, <3>1
      <4> QED BY <3>1, <4>1
    <3>2. CASE m \in disk \cup Mentioned \cup HasTask
      BY <1>3, <3>2
    <3> QED BY <3>1, <3>2 DEF Explained
  <2> QED BY <2>1
<1>5. ASSUME NEW r \in rules, NEW m \in r.targets PROVE m \in Fine
  <2>0. IsExpanded(r, <<n, {}>>)
    BY <1>5, RulesForShape DEF TypeInv
  <2>1. PICK i \in DOMAIN patterns : \E k \in DOMAIN patterns[i].makes : r = Expanded(i, k)
    BY <2>0 DEF IsExpanded
  <2>2. PICK k \in DOMAIN patterns[i].makes : r = Expanded(i, k)
    BY <2>1
  <2>3. m = k /\ r.sources = SourcesOf(i, m) /\ r.commands = patterns[i].commands
    BY <2>2 DEF Expanded
  <2>4. patterns[i] \in RulesOf(makefile, "pattern") /\ makefile \in Makefiles /\ PatternsOk
    BY ElementOfSeq, LenProperties, PatternsAreOk DEF TypeInv, InputsOk
  <2>5. m \in Names /\ m \in Vertices
    BY <1>2, <2>2, <2>3, <2>4 DEF PatternsOk
  <2>6. patterns[i].commands \/ SourcesOf(i, m) # {}
    BY <2>2, <2>3, <2>4 DEF PatternsGiveRules, SourcesOf
  <2>7. CASE patterns[i].commands
    <3>1. task'[m] = "make"
      BY <1>1, <1>5, <2>3, <2>5, <2>7
    <3> QED BY <2>5, <3>1 DEF HasTask
  <2>8. CASE SourcesOf(i, m) # {}
    <3>1. out'[m] # {}
      BY <1>1, <1>5, <2>3, <2>5, <2>8
    <3> QED BY <2>5, <3>1
  <2> QED BY <2>6, <2>7, <2>8
<1>6. ASSUME NEW r \in rules, NEW s \in r.sources PROVE s \in Fine
  <2>1. IsExpanded(r, <<n, {}>>) /\ rules = RulesFor(n)
    BY <1>6, RulesForShape DEF TypeInv
  <2>2. PICK i \in DOMAIN patterns :
          \E k \in DOMAIN patterns[i].makes :
            /\ r = Expanded(i, k)
            /\ \A q \in SourcesOf(i, k) :
                 Available(q) \/ \E other \in MatchFilename[<<n, {}>>] : q \in other.targets
    BY <2>1 DEF IsExpanded
  <2>3. Available(s) \/ \E other \in MatchFilename[<<n, {}>>] : s \in other.targets
    <3>1. PICK k \in DOMAIN patterns[i].makes :
            /\ r = Expanded(i, k)
            /\ \A q \in SourcesOf(i, k) :
                 Available(q) \/ \E other \in MatchFilename[<<n, {}>>] : q \in other.targets
      BY <2>2
    <3>2. r.sources = SourcesOf(i, k)
      BY <3>1 DEF Expanded
    <3> QED BY <1>6, <3>1, <3>2
  <2>4. s \in entries \cup disk \/ \E other \in rules : s \in other.targets
    BY <2>1, <2>3 DEF Available, RulesFor
  <2>5. disk \subseteq Fine
    OBVIOUS
  <2> QED BY <1>4, <1>5, <2>4, <2>5
<1> HIDE DEF Fine
<1>7. entries' \subseteq Fine
  BY <1>1, <1>4, <1>5, <1>6
<1> QED BY <1>7 DEF Explained, Fine

LEMMA ExplainedStays ==
  ASSUME TypeInv, Explained, PatternsGiveRules, Next PROVE Explained'
<1>1. ASSUME UNCHANGED <<makefile, disk>>, HasTask \subseteq HasTask',
             \A n \in Names : out[n] # {} => out'[n] # {},
             entries' \subseteq entries \cup Mentioned
      PROVE  Explained'
  <2>1. Mentioned' = Mentioned
    BY <1>1 DEF Mentioned
  <2> QED BY <1>1, <2>1 DEF Explained
<1>2. CASE ReadRule
  <2> DEFINE rule == makefile[read + 1]
  <2>1. UNCHANGED <<makefile, disk>> /\ read < Len(makefile)
    BY <1>2 DEF ReadRule, inputs
  <2>2. read + 1 \in DOMAIN makefile
    <3>1. Len(makefile) \in Nat /\ DOMAIN makefile = 1 .. Len(makefile) /\ read \in 0 .. Len(makefile)
      BY RulesAreRules DEF TypeInv, InputsOk
    <3> QED BY <2>1, <3>1
  <2>3. rule.targets \cup rule.sources \subseteq Mentioned
    BY <2>2 DEF Mentioned
  <2>4. CASE rule.kind = "pattern"
    <3>1. UNCHANGED <<entries, task, out>>
      BY <1>2, <2>4 DEF ReadRule, nodes
    <3> QED BY <1>1, <2>1, <3>1 DEF HasTask
  <2>5. CASE rule.kind = "special"
    <3>1. /\ entries' = entries \cup rule.sources /\ out' = out
          /\ task' = [n \in Vertices |-> IF rule.phony /\ n \in rule.sources /\ task[n] = "none"
                                         THEN "empty" ELSE task[n]]
      BY <1>2, <2>5 DEF ReadRule, Special
    <3>2. HasTask \subseteq HasTask'
      BY <3>1 DEF HasTask
    <3>3. entries' \subseteq entries \cup Mentioned
      BY <2>3, <3>1
    <3> QED BY <1>1, <2>1, <3>1, <3>2, <3>3
  <2>6. CASE rule.kind = "rule"
    <3>1. Apply({rule})
      BY <1>2, <2>6 DEF ReadRule
    <3>2. HasTask \subseteq HasTask' /\ \A n \in Vertices : out[n] \subseteq out'[n]
      <4>1. makefile \in Makefiles
        BY DEF TypeInv, InputsOk
      <4>2. rule.targets \subseteq Names /\ rule.sources \subseteq Names
        BY <2>2, <4>1, RulesAreRules
      <4> QED BY <3>1, <4>2, ApplyTypes DEF TypeInv
    <3>3. entries' \subseteq entries \cup Mentioned
      BY <2>3, <3>1 DEF Apply
    <3>4. \A n \in Names : out[n] # {} => out'[n] # {}
      BY <3>2 DEF Names
    <3> QED BY <1>1, <2>1, <3>2, <3>3, <3>4
  <2> QED BY <1>2, <2>4, <2>5, <2>6 DEF ReadRule
<1>3. CASE Resolve
  <2>1. /\ UNCHANGED <<makefile, disk>> /\ requested # <<>>
        /\ Apply(RulesForRequest(Head(requested)))
    BY <1>3 DEF Resolve, inputs
  <2>2. Head(requested) \in Names
    BY <2>1, HeadTailProperties DEF TypeInv, InputsOk
  <2>3. \A r \in RulesForRequest(Head(requested)) : r.targets \subseteq Names /\ r.sources \subseteq Names
    BY <2>2, RulesForShape DEF TypeInv, RulesForRequest
  <2>4. HasTask \subseteq HasTask'
    BY <2>1, <2>3, ApplyTypes DEF TypeInv
  <2>5. RulesForRequest(Head(requested)) \in {{}, RulesFor(Head(requested))}
    BY DEF RulesForRequest
  <2> QED BY <2>1, <2>2, <2>4, <2>5, RulesExplain
<1>4. CASE StartWalk
  <2>1. /\ UNCHANGED <<makefile, disk, entries, task>> /\ out' = [out EXCEPT ![Goal] = goals]
    BY <1>4 DEF StartWalk, inputs
  <2>2. \A n \in Names : out'[n] = out[n]
    BY <2>1 DEF TypeInv, GraphOk, Names
  <2> QED BY <1>1, <2>1, <2>2 DEF HasTask
<1>5. CASE ScanSource
  <2>1. /\ UNCHANGED <<makefile, disk>> /\ scanned' \in entries \cup {End}
        /\ Apply(Scanned(scanned'))
    BY <1>5, ScanSourceStep
  <2>2. HasTask \subseteq HasTask'
    BY <2>1, ScannedRules, ApplyTypes DEF TypeInv
  <2>3. CASE Scanned(scanned') = {}
    <3>1. \A n \in Vertices : task'[n] = task[n] /\ out'[n] = out[n]
      BY <2>1, <2>3 DEF Apply
    <3>2. entries' = entries
      BY <2>1, <2>3 DEF Apply
    <3> QED BY <1>1, <2>1, <2>2, <3>1, <3>2 DEF Names
  <2>4. CASE Scanned(scanned') # {}
    <3>1. scanned' \in Names /\ Scanned(scanned') = RulesFor(scanned')
      BY <2>1, <2>4 DEF Scanned, RulesForSource, TypeInv, GraphOk
    <3> QED BY <2>1, <2>2, <3>1, RulesExplain
  <2> QED BY <2>3, <2>4
<1>6. CASE EndReading \/ Over
  <2>1. UNCHANGED <<makefile, disk, entries, task, out>>
    BY <1>6 DEF EndReading, Over, inputs, nodes, vars
  <2> QED BY <1>1, <2>1 DEF HasTask
<1>7. CASE Step
  <2>1. UNCHANGED <<makefile, disk, entries, task, out>>
    BY <1>7 DEF Step, inputs, Visit, TreeEdge, BackEdge, ForwardEdge, FinishVertex
  <2> QED BY <1>1, <2>1 DEF HasTask
<1> QED BY <1>2, <1>3, <1>4, <1>5, <1>6, <1>7 DEF Next

\* A chain of patterns is applied as a whole: whatever the patterns, the files and
\* the order the walk meets the names in, every name in the build order is a file,
\* or the Makefile names it, or match_filename returned a rule for it.
THEOREM ChainsAreComplete ==
  ASSUME PatternsGiveRules
  PROVE  Spec => []NothingMissing
<1>1. Init => Explained
  BY DEF Init, Explained
<1>2. TypeInv /\ Explained /\ [Next]_vars => Explained'
  <2>1. ASSUME Explained, UNCHANGED vars PROVE Explained'
    <3>1. UNCHANGED <<makefile, disk, entries, task, out>>
      BY <2>1 DEF vars, inputs, nodes
    <3> QED BY <2>1, <3>1 DEF Explained, Mentioned, HasTask
  <2> QED BY <2>1, ExplainedStays
<1>3. TypeInv /\ Explained => NothingMissing
  <2> SUFFICES ASSUME TypeInv, Explained, NEW n \in InOrder \cap Names
               PROVE  n \in disk \cup Mentioned \cup HasTask \/ out[n] # {}
    BY DEF NothingMissing
  <2>1. InOrder \subseteq entries \cup {Goal}
    BY ElementOfSeq, LenProperties DEF InOrder, TypeInv, WalkOk
  <2>2. n \in entries
    BY <2>1 DEF Names
  <2> QED BY <2>2 DEF Explained
<1> QED BY <1>1, <1>2, <1>3, TypesHold, PTL DEF Spec

-------------------------------------------------------------------------------
(* What patterns can make. *)

Above(rank, A, n) ==
  \A a \in A : \A j \in DOMAIN patterns :
    n \in DOMAIN patterns[j].makes => rank[patterns[j]] < rank[patterns[a]]

Enough(i, n, A) == \A s \in Missing(i, n) : MatchFilename[<<s, A \cup {i}>>] # {}

LEMMA PatternRanks ==
  ASSUME InputsOk, NEW rank \in [RulesOf(makefile, "pattern") -> Nat],
         Ranked(RulesOf(makefile, "pattern"), rank)
  PROVE  /\ \A i \in DOMAIN patterns : rank[patterns[i]] \in Nat
         /\ \A i, j \in DOMAIN patterns : \A n \in DOMAIN patterns[i].makes :
              SourcesOf(i, n) \cap DOMAIN patterns[j].makes # {} =>
                rank[patterns[j]] < rank[patterns[i]]
<1>1. \A i \in DOMAIN patterns : patterns[i] \in RulesOf(makefile, "pattern")
  BY LenProperties, ElementOfSeq DEF InputsOk
<1> QED BY <1>1 DEF Ranked, SourcesOf

\* Patterns that were applied do not matter when they only make things of a higher rank.
LEMMA AppliedAbove ==
  ASSUME InputsOk, NEW rank \in [RulesOf(makefile, "pattern") -> Nat],
         Ranked(RulesOf(makefile, "pattern"), rank),
         NEW n \in Names, NEW A \in SUBSET DOMAIN patterns, Above(rank, A, n),
         \A i \in DOMAIN patterns :
           n \in DOMAIN patterns[i].makes => (Enough(i, n, A) <=> Enough(i, n, {}))
  PROVE  MatchFilename[<<n, A>>] # {} <=> MatchFilename[<<n, {}>>] # {}
<1>1. PatternsOk /\ <<n, A>> \in Calls /\ <<n, {}>> \in Calls
  BY PatternsAreOk DEF Calls
<1>2. \A i \in DOMAIN patterns : rank[patterns[i]] \in Nat
  BY PatternRanks
<1>3. ASSUME NEW i \in A PROVE n \notin DOMAIN patterns[i].makes
  <2>1. ~(rank[patterns[i]] < rank[patterns[i]])
    BY <1>2, <1>3
  <2> QED BY <1>3, <2>1 DEF Above
<1>4. <<n, A>>[1] = n /\ <<n, A>>[2] = A /\ <<n, {}>>[1] = n /\ <<n, {}>>[2] = {}
  OBVIOUS
<1>5. /\ Matching(<<n, A>>) = { i \in DOMAIN patterns : n \in DOMAIN patterns[i].makes }
      /\ Matching(<<n, {}>>) = { i \in DOMAIN patterns : n \in DOMAIN patterns[i].makes }
  BY <1>3, <1>4 DEF Matching
<1>6. MatchFilename[<<n, A>>] # {} <=> \E i \in Matching(<<n, A>>) : Enough(i, n, A)
  <2>1. PICK call \in Calls : call = <<n, A>> /\ call[1] = n /\ call[2] = A
    BY <1>1, <1>4
  <2>2. MatchFilename[call] # {} <=>
          \E i \in Matching(call) : \A s \in Missing(i, call[1]) :
            MatchFilename[<<s, call[2] \cup {i}>>] # {}
    BY <1>1, MatchNonempty
  <2>3. MatchFilename[call] # {} <=> \E i \in Matching(call) : Enough(i, n, A)
    BY <2>1, <2>2 DEF Enough
  <2> QED BY <2>1, <2>3
<1>7. MatchFilename[<<n, {}>>] # {} <=> \E i \in Matching(<<n, {}>>) : Enough(i, n, {})
  <2>1. PICK call \in Calls : call = <<n, {}>> /\ call[1] = n /\ call[2] = {}
    BY <1>1, <1>4
  <2>2. MatchFilename[call] # {} <=>
          \E i \in Matching(call) : \A s \in Missing(i, call[1]) :
            MatchFilename[<<s, call[2] \cup {i}>>] # {}
    BY <1>1, MatchNonempty
  <2>3. MatchFilename[call] # {} <=> \E i \in Matching(call) : Enough(i, n, {})
    BY <2>1, <2>2 DEF Enough
  <2> QED BY <2>1, <2>3
<1> QED BY <1>5, <1>6, <1>7

LEMMA AppliedDoNotMatter ==
  ASSUME InputsOk, NEW rank \in [RulesOf(makefile, "pattern") -> Nat],
         Ranked(RulesOf(makefile, "pattern"), rank),
         NEW n \in Names, NEW A \in SUBSET DOMAIN patterns, Above(rank, A, n)
  PROVE  MatchFilename[<<n, A>>] # {} <=> MatchFilename[<<n, {}>>] # {}
<1> DEFINE Differ(m, B, i) ==
             /\ Above(rank, B, m) /\ m \in DOMAIN patterns[i].makes
             /\ ~(Enough(i, m, B) <=> Enough(i, m, {}))
           bad == { k \in Nat : \E m \in Names, B \in SUBSET DOMAIN patterns, i \in DOMAIN patterns :
                      rank[patterns[i]] = k /\ Differ(m, B, i) }
<1>1. \A i \in DOMAIN patterns : rank[patterns[i]] \in Nat
  BY PatternRanks
<1>2. bad = {}
  <2> SUFFICES ASSUME bad # {} PROVE FALSE
    OBVIOUS
  <2>1. PICK k \in bad : \A l \in bad : k <= l
    <3>1. bad \subseteq Nat
      OBVIOUS
    <3> HIDE DEF bad
    <3> QED BY <3>1, MinIsLeast
  <2>2. PICK m \in Names, B \in SUBSET DOMAIN patterns, i \in DOMAIN patterns :
          rank[patterns[i]] = k /\ Differ(m, B, i)
    BY <2>1
  <2>3. PICK s \in Missing(i, m) :
          ~(MatchFilename[<<s, B \cup {i}>>] # {} <=> MatchFilename[<<s, {} \cup {i}>>] # {})
    BY <2>2 DEF Enough
  <2>4. s \in Names /\ s \in SourcesOf(i, m)
    BY <2>2, PatternsAreOk DEF Missing, PatternsOk
  <2>5. ASSUME NEW j \in DOMAIN patterns, s \in DOMAIN patterns[j].makes
        PROVE  rank[patterns[j]] < rank[patterns[i]]
    BY <2>2, <2>4, <2>5, PatternRanks
  <2>6. Above(rank, B \cup {i}, s) /\ Above(rank, {} \cup {i}, s)
    <3>1. ASSUME NEW b \in B, NEW j \in DOMAIN patterns, s \in DOMAIN patterns[j].makes
          PROVE  rank[patterns[j]] < rank[patterns[b]]
      <4>1. rank[patterns[i]] < rank[patterns[b]]
        BY <2>2 DEF Above
      <4>2. rank[patterns[j]] < rank[patterns[i]]
        BY <2>5, <3>1
      <4>3. rank[patterns[i]] \in Nat /\ rank[patterns[j]] \in Nat /\ rank[patterns[b]] \in Nat
        BY <1>1
      <4> QED BY <4>1, <4>2, <4>3
    <3> QED BY <2>5, <3>1 DEF Above
  <2>7. ASSUME NEW C \in SUBSET DOMAIN patterns, Above(rank, C, s)
        PROVE  MatchFilename[<<s, C>>] # {} <=> MatchFilename[<<s, {}>>] # {}
    <3>1. ASSUME NEW j \in DOMAIN patterns, s \in DOMAIN patterns[j].makes
          PROVE  Enough(j, s, C) <=> Enough(j, s, {})
      <4>1. rank[patterns[j]] \in Nat /\ rank[patterns[j]] < k /\ k \in Nat
        BY <1>1, <2>2, <2>5, <3>1
      <4>2. rank[patterns[j]] \notin bad
        <5>1. ~(k <= rank[patterns[j]])
          BY <4>1
        <5> QED BY <2>1, <5>1
      <4>3. ~Differ(s, C, j)
        BY <2>4, <4>1, <4>2
      <4> QED BY <2>7, <3>1, <4>3
    <3> QED BY <2>4, <2>7, <3>1, AppliedAbove
  <2>8. B \cup {i} \in SUBSET DOMAIN patterns /\ {} \cup {i} \in SUBSET DOMAIN patterns
    OBVIOUS
  <2>9. MatchFilename[<<s, B \cup {i}>>] # {} <=> MatchFilename[<<s, {}>>] # {}
    BY <2>6, <2>7, <2>8
  <2>10. MatchFilename[<<s, {} \cup {i}>>] # {} <=> MatchFilename[<<s, {}>>] # {}
    BY <2>6, <2>7, <2>8
  <2> QED BY <2>3, <2>9, <2>10
<1>3. \A i \in DOMAIN patterns :
        n \in DOMAIN patterns[i].makes => (Enough(i, n, A) <=> Enough(i, n, {}))
  BY <1>1, <1>2
<1> QED BY <1>3, AppliedAbove

\* What patterns P can make out of the names in av.
Fix(P, av, W) ==
  W = { n \in Names : \E i \in DOMAIN P :
          n \in DOMAIN P[i].makes /\ P[i].makes[n].sources \subseteq av \cup W }

LEMMA MakeableIsFixed ==
  ASSUME InputsOk, NEW rank \in [RulesOf(makefile, "pattern") -> Nat],
         Ranked(RulesOf(makefile, "pattern"), rank)
  PROVE  Fix(patterns, entries \cup disk, Makeable)
<1>1. PatternsOk
  BY PatternsAreOk
<1>2. ASSUME NEW n \in Names
      PROVE  n \in Makeable <=>
               \E i \in DOMAIN patterns :
                 n \in DOMAIN patterns[i].makes /\ SourcesOf(i, n) \subseteq (entries \cup disk) \cup Makeable
  <2>1. <<n, {}>> \in Calls /\ <<n, {}>>[1] = n /\ <<n, {}>>[2] = {}
    BY DEF Calls
  <2>2. Matching(<<n, {}>>) = { i \in DOMAIN patterns : n \in DOMAIN patterns[i].makes }
    BY <2>1 DEF Matching
  <2>3. n \in Makeable <=>
          \E i \in DOMAIN patterns : n \in DOMAIN patterns[i].makes
            /\ \A s \in Missing(i, n) : MatchFilename[<<s, {} \cup {i}>>] # {}
    <3>1. n \in Makeable <=> MatchFilename[<<n, {}>>] # {}
      BY DEF Makeable, RulesFor
    <3>2. MatchFilename[<<n, {}>>] # {} <=>
            \E i \in Matching(<<n, {}>>) :
              \A s \in Missing(i, <<n, {}>>[1]) : MatchFilename[<<s, <<n, {}>>[2] \cup {i}>>] # {}
      BY <1>1, <2>1, MatchNonempty
    <3> QED BY <2>1, <2>2, <3>1, <3>2
  <2>4. ASSUME NEW i \in DOMAIN patterns, n \in DOMAIN patterns[i].makes, NEW s \in Missing(i, n)
        PROVE  s \in Names /\ (MatchFilename[<<s, {} \cup {i}>>] # {} <=> s \in Makeable)
    <3>1. s \in SourcesOf(i, n) /\ s \in Names
      BY <1>1, <2>4 DEF Missing, PatternsOk
    <3>2. Above(rank, {} \cup {i}, s)
      BY <2>4, <3>1, PatternRanks DEF Above
    <3>3. {} \cup {i} \in SUBSET DOMAIN patterns
      OBVIOUS
    <3>4. MatchFilename[<<s, {} \cup {i}>>] # {} <=> MatchFilename[<<s, {}>>] # {}
      BY <3>1, <3>2, <3>3, AppliedDoNotMatter
    <3> QED BY <3>1, <3>4 DEF Makeable, RulesFor
  <2>5. ASSUME NEW i \in DOMAIN patterns, n \in DOMAIN patterns[i].makes
        PROVE  (\A s \in Missing(i, n) : MatchFilename[<<s, {} \cup {i}>>] # {})
                 <=> SourcesOf(i, n) \subseteq (entries \cup disk) \cup Makeable
    BY <2>4, <2>5 DEF Missing, Available
  <2> QED BY <2>3, <2>5
<1>3. Makeable \subseteq Names
  BY DEF Makeable
<1> HIDE DEF Makeable
<1> QED BY <1>2, <1>3 DEF Fix, SourcesOf

\* It stays the same when some of it becomes available.
LEMMA FixUnique ==
  ASSUME NEW R, NEW rank \in [R -> Nat], Ranked(R, rank),
         NEW P, \A i \in DOMAIN P : P[i] \in R,
         NEW av, NEW V, NEW avs, NEW W, Fix(P, av, V), Fix(P, avs, W),
         av \subseteq avs, avs \subseteq av \cup V
  PROVE  V = W
<1> DEFINE From(i, n, S) == n \in DOMAIN P[i].makes /\ P[i].makes[n].sources \subseteq S
           Apart(i, n) == \/ n \in V \ W /\ From(i, n, av \cup V)
                          \/ n \in W \ V /\ From(i, n, avs \cup W)
           bad == { k \in Nat : \E i \in DOMAIN P : \E n \in DOMAIN P[i].makes :
                      rank[P[i]] = k /\ Apart(i, n) }
<1>1. V \subseteq Names /\ W \subseteq Names
  BY DEF Fix
<1>2. \A n \in Names : n \in V <=> \E i \in DOMAIN P : From(i, n, av \cup V)
  BY DEF Fix
<1>3. \A n \in Names : n \in W <=> \E i \in DOMAIN P : From(i, n, avs \cup W)
  BY DEF Fix
<1>4. \A i \in DOMAIN P : rank[P[i]] \in Nat
  OBVIOUS
<1>5. ASSUME NEW s, s \in (V \ W) \cup (W \ V)
      PROVE  \E j \in DOMAIN P : s \in DOMAIN P[j].makes /\ Apart(j, s)
  <2>1. CASE s \in V \ W
    <3>1. PICK j \in DOMAIN P : From(j, s, av \cup V)
      BY <1>1, <1>2, <2>1
    <3> QED BY <2>1, <3>1
  <2>2. CASE s \in W \ V
    <3>1. PICK j \in DOMAIN P : From(j, s, avs \cup W)
      BY <1>1, <1>3, <2>2
    <3> QED BY <2>2, <3>1
  <2> QED BY <1>5, <2>1, <2>2
<1>6. bad = {}
  <2> SUFFICES ASSUME bad # {} PROVE FALSE
    OBVIOUS
  <2>1. PICK k \in bad : \A l \in bad : k <= l
    <3>1. bad \subseteq Nat
      OBVIOUS
    <3> HIDE DEF bad
    <3> QED BY <3>1, MinIsLeast
  <2>2. PICK i \in DOMAIN P : \E n \in DOMAIN P[i].makes : rank[P[i]] = k /\ Apart(i, n)
    BY <2>1
  <2>3. PICK n \in DOMAIN P[i].makes : rank[P[i]] = k /\ Apart(i, n)
    BY <2>2
  <2>4. \E s \in P[i].makes[n].sources : s \in (V \ W) \cup (W \ V)
    <3>1. CASE n \in V \ W /\ From(i, n, av \cup V)
      <4>1. ~From(i, n, avs \cup W)
        BY <1>1, <1>3, <3>1
      <4>2. PICK s \in P[i].makes[n].sources : s \notin avs \cup W
        BY <4>1
      <4> QED BY <3>1, <4>2
    <3>2. CASE n \in W \ V /\ From(i, n, avs \cup W)
      <4>1. ~From(i, n, av \cup V)
        BY <1>1, <1>2, <3>2
      <4>2. PICK s \in P[i].makes[n].sources : s \notin av \cup V
        BY <4>1
      <4> QED BY <3>2, <4>2
    <3> QED BY <2>3, <3>1, <3>2
  <2>5. PICK s \in P[i].makes[n].sources : s \in (V \ W) \cup (W \ V)
    BY <2>4
  <2>6. PICK j \in DOMAIN P : s \in DOMAIN P[j].makes /\ Apart(j, s)
    BY <1>5, <2>5
  <2>7. rank[P[j]] < rank[P[i]]
    <3>1. P[i] \in R /\ P[j] \in R
      OBVIOUS
    <3>2. P[i].makes[n].sources \cap DOMAIN P[j].makes # {}
      BY <2>5, <2>6
    <3> QED BY <2>3, <3>1, <3>2 DEF Ranked
  <2>8. rank[P[j]] \in bad
    BY <1>4, <2>6
  <2>9. k <= rank[P[j]]
    BY <2>1, <2>8
  <2>10. k \in Nat /\ rank[P[j]] \in Nat /\ rank[P[j]] < k
    BY <1>4, <2>3, <2>7
  <2> QED BY <2>9, <2>10
<1>7. (V \ W) \cup (W \ V) = {}
  <2> SUFFICES ASSUME NEW s \in (V \ W) \cup (W \ V) PROVE FALSE
    OBVIOUS
  <2>1. PICK j \in DOMAIN P : s \in DOMAIN P[j].makes /\ Apart(j, s)
    BY <1>5
  <2> QED BY <1>4, <1>6, <2>1
<1> QED BY <1>7

LEMMA FixGreatest ==
  ASSUME NEW R, NEW rank \in [R -> Nat], Ranked(R, rank),
         NEW P, \A i \in DOMAIN P : P[i] \in R,
         NEW av, NEW W, Fix(P, av, W),
         NEW T, T \subseteq Names,
         \A n \in T : \E i \in DOMAIN P :
           n \in DOMAIN P[i].makes /\ P[i].makes[n].sources \subseteq av \cup T
  PROVE  T \subseteq W
<1> DEFINE From(i, n) == n \in DOMAIN P[i].makes /\ P[i].makes[n].sources \subseteq av \cup T
           bad == { k \in Nat : \E i \in DOMAIN P : \E n \in T \ W : rank[P[i]] = k /\ From(i, n) }
<1>1. \A n \in Names : n \in W <=> \E i \in DOMAIN P :
        n \in DOMAIN P[i].makes /\ P[i].makes[n].sources \subseteq av \cup W
  BY DEF Fix
<1>2. \A i \in DOMAIN P : rank[P[i]] \in Nat
  OBVIOUS
<1>3. bad = {}
  <2> SUFFICES ASSUME bad # {} PROVE FALSE
    OBVIOUS
  <2>1. PICK k \in bad : \A l \in bad : k <= l
    <3>1. bad \subseteq Nat
      OBVIOUS
    <3> HIDE DEF bad
    <3> QED BY <3>1, MinIsLeast
  <2>2. PICK i \in DOMAIN P : \E n \in T \ W : rank[P[i]] = k /\ From(i, n)
    BY <2>1
  <2>3. PICK n \in T \ W : rank[P[i]] = k /\ From(i, n)
    BY <2>2
  <2>4. PICK s \in P[i].makes[n].sources : s \notin av \cup W
    BY <1>1, <2>3
  <2>5. s \in T \ W
    BY <2>3, <2>4
  <2>6. PICK j \in DOMAIN P : From(j, s)
    BY <2>5
  <2>7. rank[P[j]] < rank[P[i]]
    <3>1. P[i] \in R /\ P[j] \in R
      OBVIOUS
    <3>2. P[i].makes[n].sources \cap DOMAIN P[j].makes # {}
      BY <2>4, <2>6
    <3> QED BY <2>3, <3>1, <3>2 DEF Ranked
  <2>8. rank[P[j]] \in bad
    BY <1>2, <2>5, <2>6
  <2>9. k <= rank[P[j]]
    BY <2>1, <2>8
  <2>10. k \in Nat /\ rank[P[j]] \in Nat /\ rank[P[j]] < k
    BY <1>2, <2>3, <2>7
  <2> QED BY <2>9, <2>10
<1>4. ASSUME NEW n \in T \ W PROVE FALSE
  <2>1. PICK i \in DOMAIN P : From(i, n)
    BY <1>4
  <2> QED BY <1>2, <1>3, <2>1
<1> QED BY <1>4

PatternsRanked ==
  \E rank \in [RulesOf(makefile, "pattern") -> Nat] : Ranked(RulesOf(makefile, "pattern"), rank)

Fixed == Fix(patterns, entries \cup disk, Makeable)

LEMMA AlwaysFixed == TypeInv /\ PatternsRanked => Fixed
BY MakeableIsFixed DEF TypeInv, PatternsRanked, Fixed

\* What patterns can make stays the same until the walk ends: the names that rules
\* add are files, or made by patterns.
LEMMA MakeableStays ==
  ASSUME TypeInv, TypeInv', PatternsRanked, UNCHANGED <<makefile, disk, patterns>>,
         entries \subseteq entries', entries' \subseteq entries \cup disk \cup Makeable
  PROVE  Makeable' = Makeable
<1>1. TypeInv' /\ PatternsRanked' => Fixed'
  BY AlwaysFixed, PTL
<1>2. PatternsRanked'
  BY DEF PatternsRanked
<1>3. Fix(patterns, entries' \cup disk, Makeable')
  BY <1>1, <1>2 DEF Fixed, Fix
<1>4. Fix(patterns, entries \cup disk, Makeable)
  BY AlwaysFixed DEF Fixed
<1>5. PICK rank \in [RulesOf(makefile, "pattern") -> Nat] :
        Ranked(RulesOf(makefile, "pattern"), rank)
  BY DEF PatternsRanked
<1>6. \A i \in DOMAIN patterns : patterns[i] \in RulesOf(makefile, "pattern")
  BY LenProperties, ElementOfSeq DEF TypeInv, InputsOk
<1>7. /\ entries \cup disk \subseteq entries' \cup disk
      /\ entries' \cup disk \subseteq (entries \cup disk) \cup Makeable
  OBVIOUS
<1> QED BY <1>3, <1>4, <1>5, <1>6, <1>7, FixUnique

TargetsOf(rules) == UNION { r.targets : r \in rules }

\* The names the rules for n make can be made, and so can n; they are n and names
\* that were not there, and get a task.
LEMMA RulesApplied ==
  ASSUME TypeInv, PatternsRanked, \A p \in RulesOf(makefile, "pattern") : p.commands,
         NEW n \in Names, Apply(RulesFor(n))
  PROVE  LET T == TargetsOf(RulesFor(n)) IN
         /\ T \subseteq Makeable /\ \A m \in T : m = n \/ m \notin entries
         /\ RulesFor(n) # {} => n \in T
         /\ entries' \subseteq entries \cup disk \cup T
         /\ entries' \subseteq entries \cup T \cup PatternSources(makefile)
         /\ \A m \in Vertices : task'[m] = IF m \in T THEN "make" ELSE task[m]
         /\ \A m \in Vertices \ T : out'[m] = out[m]
<1> DEFINE T == TargetsOf(RulesFor(n))
<1>1. /\ entries' = entries \cup UNION { r.targets \cup r.sources : r \in RulesFor(n) }
      /\ task' = [m \in Vertices |->
           IF \E r \in RulesFor(n) : m \in r.targets /\ r.commands THEN "make" ELSE task[m]]
      /\ out' = [m \in Vertices |->
           out[m] \cup UNION { r.sources : r \in { r \in RulesFor(n) : m \in r.targets } }]
  BY DEF Apply
<1>2. /\ PatternsOk /\ \A r \in RulesFor(n) : IsExpanded(r, <<n, {}>>)
      /\ RulesFor(n) # {} => \E r \in RulesFor(n) : n \in r.targets
  BY RulesForShape DEF TypeInv
<1>3. \A i \in DOMAIN patterns : patterns[i] \in RulesOf(makefile, "pattern")
  BY LenProperties, ElementOfSeq DEF TypeInv, InputsOk
<1>4. ASSUME NEW r \in RulesFor(n)
      PROVE  \E i \in DOMAIN patterns : \E m \in DOMAIN patterns[i].makes :
               /\ m \in Names /\ r.targets = {m} /\ r.sources = SourcesOf(i, m)
               /\ r.commands
               /\ m = n \/ m \notin entries
               /\ r.sources \subseteq (entries \cup disk) \cup T
               /\ r.sources \subseteq PatternSources(makefile)
  <2>1. IsExpanded(r, <<n, {}>>)
    BY <1>2
  <2>2. PICK i \in DOMAIN patterns : \E m \in DOMAIN patterns[i].makes :
          /\ r = Expanded(i, m)
          /\ m = <<n, {}>>[1] \/ ~Available(m)
          /\ \A s \in SourcesOf(i, m) :
               Available(s) \/ \E other \in MatchFilename[<<n, {}>>] : s \in other.targets
    BY <2>1 DEF IsExpanded
  <2>3. PICK m \in DOMAIN patterns[i].makes :
          /\ r = Expanded(i, m)
          /\ m = <<n, {}>>[1] \/ ~Available(m)
          /\ \A s \in SourcesOf(i, m) :
               Available(s) \/ \E other \in MatchFilename[<<n, {}>>] : s \in other.targets
    BY <2>2
  <2>4. /\ r.targets = {m} /\ r.sources = SourcesOf(i, m) /\ r.commands = patterns[i].commands
        /\ m \in Names
    BY <1>2, <2>3 DEF Expanded, PatternsOk
  <2>5. patterns[i].commands
    BY <1>3
  <2>6. m = n \/ m \notin entries
    BY <2>3 DEF Available
  <2>7. ASSUME NEW s \in SourcesOf(i, m) PROVE s \in (entries \cup disk) \cup T
    <3>1. Available(s) \/ \E other \in RulesFor(n) : s \in other.targets
      BY <2>3 DEF RulesFor
    <3> QED BY <3>1 DEF Available, TargetsOf
  <2>8. SourcesOf(i, m) \subseteq PatternSources(makefile)
    BY <1>3 DEF PatternSources, SourcesOf
  <2> QED BY <2>4, <2>5, <2>6, <2>7, <2>8
<1>5. \A r \in RulesFor(n) :
        /\ r.commands /\ \A m \in r.targets : m = n \/ m \notin entries
        /\ r.targets \subseteq T /\ r.sources \subseteq (entries \cup disk) \cup T
        /\ r.sources \subseteq PatternSources(makefile)
  <2>1. ASSUME NEW r \in RulesFor(n)
        PROVE  /\ r.commands /\ \A m \in r.targets : m = n \/ m \notin entries
               /\ r.sources \subseteq (entries \cup disk) \cup T
               /\ r.sources \subseteq PatternSources(makefile)
    <3>1. PICK i \in DOMAIN patterns : \E m \in DOMAIN patterns[i].makes :
               /\ r.targets = {m} /\ r.commands
               /\ m = n \/ m \notin entries
               /\ r.sources \subseteq (entries \cup disk) \cup T
               /\ r.sources \subseteq PatternSources(makefile)
      BY <1>4
    <3> HIDE DEF T
    <3> QED BY <3>1
  <2>2. \A r \in RulesFor(n) : r.targets \subseteq T
    BY DEF TargetsOf
  <2> QED BY <2>1, <2>2
<1>6. ASSUME NEW m \in T
      PROVE  /\ m \in Names
             /\ \E i \in DOMAIN patterns : m \in DOMAIN patterns[i].makes
                  /\ patterns[i].makes[m].sources \subseteq (entries \cup disk) \cup T
  <2>1. PICK r \in RulesFor(n) : m \in r.targets
    BY DEF TargetsOf
  <2>2. PICK i \in DOMAIN patterns : \E k \in DOMAIN patterns[i].makes :
               /\ k \in Names /\ r.targets = {k} /\ r.sources = SourcesOf(i, k)
               /\ r.sources \subseteq (entries \cup disk) \cup T
    BY <1>4
  <2>3. PICK k \in DOMAIN patterns[i].makes :
               /\ k \in Names /\ r.targets = {k} /\ r.sources = SourcesOf(i, k)
               /\ r.sources \subseteq (entries \cup disk) \cup T
    BY <2>2
  <2>4. m = k
    BY <2>1, <2>3
  <2> QED BY <2>3, <2>4 DEF SourcesOf
<1>7. T \subseteq Makeable
  <2>1. PICK rank \in [RulesOf(makefile, "pattern") -> Nat] :
          Ranked(RulesOf(makefile, "pattern"), rank)
    BY DEF PatternsRanked
  <2>2. Fix(patterns, entries \cup disk, Makeable)
    BY AlwaysFixed DEF Fixed
  <2>3. T \subseteq Names
    BY <1>6
  <2> HIDE DEF T
  <2> QED BY <1>3, <1>6, <2>1, <2>2, <2>3, FixGreatest
<1>8. \A m \in T : m = n \/ m \notin entries
  BY <1>5 DEF TargetsOf
<1>9. RulesFor(n) # {} => n \in T
  BY <1>2 DEF TargetsOf
<1>10. /\ entries' \subseteq entries \cup disk \cup T
       /\ entries' \subseteq entries \cup T \cup PatternSources(makefile)
  BY <1>1, <1>5
<1>11. ASSUME NEW m \in Vertices PROVE task'[m] = IF m \in T THEN "make" ELSE task[m]
  <2>1. m \in T <=> \E r \in RulesFor(n) : m \in r.targets /\ r.commands
    BY <1>5 DEF TargetsOf
  <2> QED BY <1>1, <2>1
<1>12. ASSUME NEW m \in Vertices \ T PROVE out'[m] = out[m]
  <2>1. ~\E r \in RulesFor(n) : m \in r.targets
    BY DEF TargetsOf
  <2> QED BY <1>1, <2>1
<1> QED BY <1>7, <1>8, <1>9, <1>10, <1>11, <1>12

-------------------------------------------------------------------------------
(* The invariant of orderly Makefiles. *)

LEMMA RulesKnown ==
  ASSUME TypeInv
  PROVE  /\ makefile \in Makefiles /\ Len(makefile) \in Nat /\ read \in Nat /\ read <= Len(makefile)
         /\ DOMAIN makefile = 1 .. Len(makefile)
         /\ \A i \in DOMAIN makefile :
              makefile[i].targets \cup makefile[i].sources \subseteq NamedIn(makefile) \cap Names
BY RulesAreRules DEF TypeInv, InputsOk, NamedIn

LEMMA InitOrderly == ASSUME Init, Orderly(makefile) PROVE IInv
<1>1. /\ makefile \in Makefiles /\ read = 0 /\ requested \in Requests(makefile)
      /\ goals = {} /\ phase = "reading" /\ entries = {} /\ out = [n \in Vertices |-> {}]
  BY DEF Init
<1>2. requested \in Seq(Names) /\ DOMAIN requested = 1 .. Len(requested)
  BY <1>1, MakefilesAssumption, LenProperties
<1>3. RuledHaveTasks
  BY <1>1 DEF RuledHaveTasks
<1>4. SettledWithoutTask
  BY <1>1 DEF SettledWithoutTask, Names
<1>5. EntriesKnown /\ GoalsSettled
  BY <1>1 DEF EntriesKnown, GoalsSettled
<1>6. RequestsOrderly
  BY <1>1, <1>2 DEF RequestsOrderly, Orderly
<1> QED BY <1>1, <1>3, <1>4, <1>5, <1>6 DEF IInv

LEMMA ReadRuleOrderly == ASSUME TypeInv, IInv, Orderly(makefile), ReadRule PROVE IInv'
<1> DEFINE rule == makefile[read + 1]
<1>1. /\ UNCHANGED <<makefile, disk, requested, phase>>
      /\ phase = "reading" /\ read < Len(makefile) /\ read' = read + 1
  BY DEF ReadRule, inputs
<1>2. read + 1 \in DOMAIN makefile /\ read \in Nat /\ makefile \in Makefiles
  BY <1>1, RulesKnown
<1>3. rule.targets \cup rule.sources \subseteq NamedIn(makefile) \cap Names /\ Names \subseteq Vertices
  BY <1>2, RulesKnown DEF Names
<1>4. /\ task \in [Vertices -> {"none", "empty", "make"}]
      /\ \A n \in Vertices : task'[n] \in {"none", "empty", "make"}
      /\ \A n \in Vertices : task[n] = "make" => task'[n] = "make"
      /\ \A n \in Vertices : task[n] # "none" => task'[n] # "none"
      /\ rule.kind = "rule" /\ rule.commands => \A t \in rule.targets : task'[t] = "make"
      /\ \A n \in Names : task'[n] # "make" /\ task[n] # "make" /\ out[n] \subseteq Settled(makefile)
           => out'[n] \subseteq Settled(makefile)
      /\ entries' \subseteq entries \cup NamedIn(makefile)
      /\ \A t \in goals' : t \in goals \/ (rule.kind = "rule" /\ rule.commands /\ t \in rule.targets)
  <2>0. task \in [Vertices -> {"none", "empty", "make"}]
    BY DEF TypeInv, GraphOk
  <2>1. CASE rule.kind = "pattern"
    <3>1. UNCHANGED <<entries, task, out, goals>>
      BY <2>1 DEF ReadRule, nodes
    <3> QED BY <2>0, <2>1, <3>1
  <2>2. CASE rule.kind = "special"
    <3>1. /\ entries' = entries \cup rule.sources /\ out' = out /\ goals' = goals
          /\ task' = [n \in Vertices |-> IF rule.phony /\ n \in rule.sources /\ task[n] = "none"
                                         THEN "empty" ELSE task[n]]
      BY <2>2 DEF ReadRule, Special
    <3> QED BY <1>3, <2>0, <2>2, <3>1
  <2>3. CASE rule.kind = "rule"
    <3>1. Apply({rule}) /\ goals' = Defaults(rule)
      BY <2>3 DEF ReadRule
    <3>2. /\ entries' = entries \cup rule.targets \cup rule.sources
          /\ \A n \in Vertices :
               task'[n] = IF n \in rule.targets /\ rule.commands THEN "make" ELSE task[n]
          /\ \A n \in Vertices : out'[n] = IF n \in rule.targets THEN out[n] \cup rule.sources ELSE out[n]
      <4>1. /\ entries' = entries \cup UNION { r.targets \cup r.sources : r \in {rule} }
            /\ task' = [n \in Vertices |->
                 IF \E r \in {rule} : n \in r.targets /\ r.commands THEN "make" ELSE task[n]]
            /\ out' = [n \in Vertices |->
                 out[n] \cup UNION { r.sources : r \in { r \in {rule} : n \in r.targets } }]
        BY <3>1 DEF Apply
      <4> HIDE DEF rule
      <4>2. entries' = entries \cup rule.targets \cup rule.sources
        BY <4>1
      <4>3. ASSUME NEW n \in Vertices
            PROVE  /\ task'[n] = IF n \in rule.targets /\ rule.commands THEN "make" ELSE task[n]
                   /\ out'[n] = IF n \in rule.targets THEN out[n] \cup rule.sources ELSE out[n]
        BY <4>1
      <4> QED BY <4>2, <4>3
    <3>3. rule \in RulesOf(makefile, "rule")
      BY <1>2, <2>3 DEF RulesOf
    <3>4. rule.commands \/ rule.sources \subseteq Settled(makefile)
      BY <3>3 DEF Orderly
    <3>5. \A t \in goals' : t \in goals \/ (rule.commands /\ t \in rule.targets)
      BY <3>1 DEF Defaults
    <3> HIDE DEF rule
    <3> QED BY <1>3, <2>0, <2>3, <3>2, <3>4, <3>5
  <2> QED BY <2>1, <2>2, <2>3 DEF ReadRule
<1> HIDE DEF rule
<1>5. RuledHaveTasks'
  <2>1. ASSUME NEW i \in 1 .. read', makefile[i].kind = "rule", makefile[i].commands,
               NEW t \in makefile[i].targets
        PROVE  task'[t] = "make"
    <3>1. i \in DOMAIN makefile
      BY <1>1, <1>2, <2>1, RulesKnown
    <3>2. t \in Vertices
      BY <1>3, <3>1, RulesKnown
    <3>3. CASE i \in 1 .. read
      BY <1>4, <2>1, <3>2, <3>3 DEF IInv, RuledHaveTasks
    <3>4. CASE i = read + 1
      BY <1>4, <2>1, <3>4 DEF rule
    <3> QED BY <1>1, <1>2, <3>3, <3>4
  <2> QED BY <1>1, <2>1 DEF RuledHaveTasks
<1>6. SettledWithoutTask'
  <2>1. ASSUME NEW n \in Names, task'[n] # "make" PROVE out'[n] \subseteq Settled(makefile)
    <3>1. task[n] # "make"
      BY <1>3, <1>4, <2>1
    <3>2. out[n] \subseteq Settled(makefile)
      BY <3>1 DEF IInv, SettledWithoutTask
    <3> QED BY <1>4, <2>1, <3>1, <3>2
  <2> QED BY <1>1, <2>1 DEF SettledWithoutTask
<1>7. entries' \subseteq NamedIn(makefile)
  BY <1>1, <1>4 DEF IInv, EntriesKnown
<1>8. EntriesKnown'
  BY <1>1, <1>7 DEF EntriesKnown
<1>9. RequestsOrderly'
  BY <1>1, <1>7 DEF IInv, RequestsOrderly
<1>10. GoalsSettled'
  <2>1. \A t \in goals' : t \in Vertices /\ task'[t] = "make"
    <3>1. goals \subseteq Vertices
      BY EntriesAreVertices DEF TypeInv
    <3>2. \A t \in goals : task[t] = "make"
      BY <1>1 DEF IInv, GoalsSettled
    <3> QED BY <1>3, <1>4, <3>1, <3>2
  <2>2. goals' \subseteq HasTask'
    BY <2>1 DEF HasTask
  <2> QED BY <2>1, <2>2 DEF GoalsSettled
<1>11. phase' # "walking"
  BY <1>1
<1> QED BY <1>5, <1>6, <1>8, <1>9, <1>10, <1>11 DEF IInv

LEMMA EndReadingOrderly == ASSUME TypeInv, IInv, EndReading PROVE IInv'
<1>1. /\ UNCHANGED <<makefile, disk, read, patterns, requested, entries, task, out>>
      /\ phase = "reading" /\ phase' = "resolving"
      /\ goals' = IF requested = <<>> THEN goals ELSE {}
  BY DEF EndReading, inputs, nodes
<1>2. RuledHaveTasks' /\ SettledWithoutTask' /\ EntriesKnown' /\ RequestsOrderly' /\ GoalsSettled'
  BY <1>1 DEF IInv, RuledHaveTasks, SettledWithoutTask, EntriesKnown, RequestsOrderly, GoalsSettled,
              HasTask
<1> QED BY <1>1, <1>2 DEF IInv

\* The conjuncts that have nothing to do with the walk, whatever rules are applied.
LEMMA RulesKeep ==
  ASSUME TypeInv, IInv, Orderly(makefile), UNCHANGED <<makefile, read>>, phase # "reading",
         NEW n \in Names, NEW rules, rules = {} \/ rules = RulesFor(n), Apply(rules)
  PROVE  /\ RuledHaveTasks' /\ SettledWithoutTask' /\ HasTask \subseteq HasTask'
         /\ entries \subseteq entries'
         /\ entries' \subseteq NamedIn(makefile) \cup HasTask' \cup PatternSources(makefile)
<1>1. PatternsRanked /\ \A p \in RulesOf(makefile, "pattern") : p.commands
  BY DEF Orderly, PatternsRanked
<1>2. Names \subseteq Vertices /\ task \in [Vertices -> {"none", "empty", "make"}]
  BY DEF Names, TypeInv, GraphOk
<1>3. \E T \in SUBSET Names :
        /\ entries' \subseteq entries \cup T \cup PatternSources(makefile)
        /\ \A m \in Vertices : task'[m] = IF m \in T THEN "make" ELSE task[m]
        /\ \A m \in Vertices \ T : out'[m] = out[m]
  <2>1. CASE rules = {}
    <3>1. \A m \in Vertices : task'[m] = task[m] /\ out'[m] = out[m]
      BY <2>1 DEF Apply, TypeInv, GraphOk
    <3>2. entries' = entries
      BY <2>1 DEF Apply
    <3>3. {} \in SUBSET Names
      OBVIOUS
    <3> QED BY <3>1, <3>2, <3>3
  <2>2. CASE rules = RulesFor(n)
    <3>1. PICK T : T = TargetsOf(RulesFor(n))
      OBVIOUS
    <3>2. /\ T \subseteq Makeable
          /\ entries' \subseteq entries \cup T \cup PatternSources(makefile)
          /\ \A m \in Vertices : task'[m] = IF m \in T THEN "make" ELSE task[m]
          /\ \A m \in Vertices \ T : out'[m] = out[m]
      BY <1>1, <2>2, <3>1, RulesApplied
    <3>3. T \in SUBSET Names
      BY <3>2 DEF Makeable
    <3> QED BY <3>2, <3>3
  <2> QED BY <2>1, <2>2
<1>4. PICK T \in SUBSET Names :
        /\ entries' \subseteq entries \cup T \cup PatternSources(makefile)
        /\ \A m \in Vertices : task'[m] = IF m \in T THEN "make" ELSE task[m]
        /\ \A m \in Vertices \ T : out'[m] = out[m]
  BY <1>3
<1>5. T \subseteq HasTask' /\ HasTask \subseteq HasTask'
  BY <1>2, <1>4 DEF HasTask
<1>6. RuledHaveTasks'
  <2>1. ASSUME NEW i \in 1 .. read, makefile[i].kind = "rule", makefile[i].commands,
               NEW t \in makefile[i].targets
        PROVE  task'[t] = "make"
    <3>1. i \in DOMAIN makefile
      <4>1. /\ Len(makefile) \in Nat /\ read \in Nat /\ read <= Len(makefile)
            /\ DOMAIN makefile = 1 .. Len(makefile)
        BY RulesKnown
      <4> QED BY <4>1
    <3>2. t \in Vertices
      BY <1>2, <3>1, RulesKnown
    <3> QED BY <1>4, <2>1, <3>2 DEF IInv, RuledHaveTasks
  <2> QED BY <2>1 DEF RuledHaveTasks
<1>7. SettledWithoutTask'
  <2>1. ASSUME NEW m \in Names, task'[m] # "make" PROVE out'[m] \subseteq Settled(makefile)
    <3>1. task[m] # "make" /\ out'[m] = out[m]
      BY <1>2, <1>4, <2>1
    <3> QED BY <3>1 DEF IInv, SettledWithoutTask
  <2> QED BY <2>1 DEF SettledWithoutTask
<1>8. entries \subseteq NamedIn(makefile) \cup HasTask \cup PatternSources(makefile)
  BY DEF IInv, EntriesKnown
<1>9. entries' \subseteq NamedIn(makefile) \cup HasTask' \cup PatternSources(makefile)
  BY <1>4, <1>5, <1>8
<1>10. entries \subseteq entries'
  BY DEF Apply
<1> QED BY <1>5, <1>6, <1>7, <1>9, <1>10

LEMMA ResolveOrderly == ASSUME TypeInv, IInv, Orderly(makefile), Resolve PROVE IInv'
<1> DEFINE target == Head(requested)
<1>1. /\ UNCHANGED <<makefile, disk, read, patterns>>
      /\ phase = "resolving" /\ phase' \in {"resolving", "noRule"} /\ requested # <<>>
      /\ requested' = Tail(requested)
      /\ Apply(RulesForRequest(target))
      /\ goals' = goals \/ (target \in entries' /\ goals' = goals \cup {target})
  BY DEF Resolve, inputs
<1>2. /\ target \in Names /\ Len(requested) \in Nat /\ Len(requested) # 0
      /\ target = requested[1] /\ Len(requested') = Len(requested) - 1
      /\ \A k \in 1 .. Len(requested') : requested'[k] = requested[k + 1]
  BY <1>1, HeadTailProperties, LenProperties, EmptySeq DEF TypeInv, InputsOk
<1>3. RulesForRequest(target) \in {{}, RulesFor(target)}
  BY DEF RulesForRequest
<1> HIDE DEF target
<1>4. /\ RuledHaveTasks' /\ SettledWithoutTask' /\ HasTask \subseteq HasTask'
      /\ entries \subseteq entries'
      /\ entries' \subseteq NamedIn(makefile) \cup HasTask' \cup PatternSources(makefile)
  <2>1. PICK rules : rules = RulesForRequest(target)
    OBVIOUS
  <2>2. phase # "reading"
    BY <1>1
  <2> QED BY <1>1, <1>2, <1>3, <2>1, <2>2, RulesKeep
<1>5. EntriesKnown'
  BY <1>1, <1>4 DEF EntriesKnown
<1>6. RequestsOrderly'
  <2>1. ASSUME NEW k \in 1 .. Len(requested')
        PROVE  \/ requested'[k] \in Settled(makefile)
               \/ /\ requested'[k] \notin NamedIn(makefile)
                  /\ requested'[k] \notin PatternSources(makefile)
    <3>1. k + 1 \in 1 .. Len(requested) /\ k + 1 # 1 /\ requested'[k] = requested[k + 1]
      BY <1>2
    <3> QED BY <3>1 DEF IInv, RequestsOrderly
  <2> QED BY <1>1, <2>1 DEF RequestsOrderly
<1>7. target \in entries' => target \in HasTask' \cup Settled(makefile)
  <2>1. SUFFICES ASSUME target \in entries', target \notin Settled(makefile) PROVE target \in HasTask'
    OBVIOUS
  <2>2. /\ target \notin NamedIn(makefile)
        /\ target \notin PatternSources(makefile) \/ entries \subseteq NamedIn(makefile)
    <3>1. 1 \in 1 .. Len(requested)
      BY <1>2
    <3> QED BY <1>2, <2>1, <3>1 DEF IInv, RequestsOrderly
  <2>3. CASE target \in entries
    <3>1. target \in HasTask
      BY <2>2, <2>3 DEF IInv, EntriesKnown
    <3> QED BY <1>4, <3>1
  <2>4. CASE target \notin entries
    <3>1. RulesForRequest(target) = RulesFor(target)
      BY <2>4 DEF RulesForRequest
    <3>2. RulesFor(target) # {}
      <4>1. Apply({}) => entries' = entries
        BY DEF Apply
      <4> QED BY <1>1, <2>1, <2>4, <3>1, <4>1
    <3>3. /\ target \in TargetsOf(RulesFor(target))
          /\ \A m \in Vertices :
               task'[m] = IF m \in TargetsOf(RulesFor(target)) THEN "make" ELSE task[m]
      <4>1. PatternsRanked /\ \A p \in RulesOf(makefile, "pattern") : p.commands
        BY DEF Orderly, PatternsRanked
      <4> QED BY <1>1, <1>2, <3>1, <3>2, <4>1, RulesApplied
    <3>4. target \in Vertices
      BY <1>2 DEF Names
    <3> QED BY <3>3, <3>4 DEF HasTask
  <2> QED BY <2>3, <2>4
<1>8. GoalsSettled'
  <2>1. goals \subseteq HasTask' \cup Settled(makefile)
    BY <1>4 DEF IInv, GoalsSettled
  <2>2. goals' \subseteq HasTask' \cup Settled(makefile)
    BY <1>1, <1>7, <2>1
  <2> QED BY <1>1, <2>2 DEF GoalsSettled
<1>9. phase' # "walking"
  BY <1>1
<1> QED BY <1>4, <1>5, <1>6, <1>8, <1>9 DEF IInv

\* Nothing will give a settled name a task.
LEMMA SettledIsFine ==
  ASSUME TypeInv, RuledHaveTasks, phase # "reading", NEW n \in Settled(makefile)
  PROVE  n \in HasTask \/ n \notin Makeable
<1>1. /\ read = Len(makefile) /\ DOMAIN makefile = 1 .. Len(makefile)
      /\ \A i \in DOMAIN makefile : makefile[i].targets \subseteq Names
  BY RulesKnown DEF TypeInv, InputsOk
<1>2. CASE n \in Ruled(makefile)
  <2>1. PICK i \in DOMAIN makefile :
          makefile[i].kind = "rule" /\ makefile[i].commands /\ n \in makefile[i].targets
    BY <1>2 DEF Ruled, RulesOf
  <2>2. task[n] = "make" /\ n \in Vertices
    BY <1>1, <2>1 DEF RuledHaveTasks, Names
  <2> QED BY <2>2 DEF HasTask
<1>3. CASE n \in Names \ Matched(makefile)
  <2>1. \A i \in DOMAIN patterns : patterns[i] \in RulesOf(makefile, "pattern")
    BY LenProperties, ElementOfSeq DEF TypeInv, InputsOk
  <2>2. \A i \in DOMAIN patterns : n \notin DOMAIN patterns[i].makes
    BY <1>3, <2>1 DEF Matched
  <2>3. PatternsOk /\ <<n, {}>> \in Calls /\ <<n, {}>>[1] = n
    BY <1>3, RulesForShape DEF TypeInv
  <2>4. Matching(<<n, {}>>) = {}
    BY <2>2, <2>3 DEF Matching
  <2>5. MatchFilename[<<n, {}>>] = {}
    BY <2>3, <2>4, MatchCases
  <2> QED BY <2>5 DEF Makeable, RulesFor
<1> QED BY <1>2, <1>3 DEF Settled

LEMMA StartWalkOrderly == ASSUME TypeInv, IInv, Orderly(makefile), StartWalk PROVE IInv'
<1>1. /\ UNCHANGED <<makefile, disk, read, patterns, requested, goals, entries, task, scanned>>
      /\ requested = <<>>
      /\ phase = "resolving" /\ phase' = "walking" /\ out' = [out EXCEPT ![Goal] = goals]
      /\ color' = [color EXCEPT ![Goal] = "gray"]
  BY DEF StartWalk, inputs
<1>2. NotWalkingYet /\ TypeInv' /\ AtStart'
  BY <1>1, StartWalkTypes DEF TypeInv
<1>3. out \in [Vertices -> SUBSET entries] /\ Goal \in Vertices
  BY VerticesAssumption DEF TypeInv, GraphOk
<1>4. RuledHaveTasks' /\ GoalsSettled' /\ RequestsOrderly' /\ EntriesKnown' /\ HasTask' = HasTask
  BY <1>1 DEF IInv, RuledHaveTasks, EntriesKnown, RequestsOrderly, GoalsSettled, HasTask
<1>5. \A n \in Names : out'[n] = out[n]
  BY <1>1, <1>3 DEF Names
<1>6. SettledWithoutTask'
  BY <1>1, <1>5 DEF IInv, SettledWithoutTask
<1>7. WalkInv'
  <2>1. AtStart' => WalkInv'
    BY StartWalks, PTL
  <2> QED BY <1>2, <2>1
<1>8. \A n \in Vertices : color'[n] = "white" \/ n = Goal
  BY <1>1, <1>2, <1>3 DEF NotWalkingYet
<1>9. SettledWhenReached'
  BY <1>8 DEF SettledWhenReached, Names
<1>10. Makeable' = Makeable
  <2>1. PatternsRanked
    BY DEF Orderly, PatternsRanked
  <2> QED BY <1>1, <1>2, <2>1, MakeableStays
<1>11. SettledWhenScanned'
  <2>1. out'[Goal] = goals
    BY <1>1, <1>3
  <2>2. \A s \in goals : s \in HasTask \/ s \notin Makeable
    BY <1>1, SettledIsFine DEF IInv, GoalsSettled
  <2> QED BY <1>4, <1>8, <1>10, <2>1, <2>2 DEF SettledWhenScanned
<1>12. ScannedHaveTasks'
  BY <1>1, <1>2 DEF ScannedHaveTasks, NotWalkingYet, Discovering
<1> QED BY <1>4, <1>6, <1>7, <1>9, <1>11, <1>12 DEF IInv

LEMMA StepOrderly == ASSUME TypeInv, IInv, Orderly(makefile), Step PROVE IInv'
<1>1. /\ UNCHANGED <<makefile, disk, read, patterns, requested, goals, phase, entries, task>>
      /\ phase = "walking" /\ Visit(HasTask)
  BY DEF Step, inputs
<1>2. out' = out /\ Walking /\ ~Discovering
  BY <1>1 DEF Visit, TreeEdge, BackEdge, ForwardEdge, FinishVertex, Walking
<1>3. TypeInv'
  BY StepTypes
<1>4. WalkInv /\ SettledWhenReached /\ SettledWhenScanned
  BY <1>1 DEF IInv
<1>5. WalkInv'
  BY <1>1, <1>4, VertexDiscovered, BackEdgeThrows, EdgePassed, VertexFinished DEF Visit
<1>6. /\ RuledHaveTasks' /\ SettledWithoutTask' /\ EntriesKnown' /\ RequestsOrderly' /\ GoalsSettled'
      /\ HasTask' = HasTask
  BY <1>1, <1>2 DEF IInv, RuledHaveTasks, SettledWithoutTask, EntriesKnown, RequestsOrderly,
                    GoalsSettled, HasTask
<1>7. Makeable' = Makeable
  <2>1. PatternsRanked
    BY DEF Orderly, PatternsRanked
  <2> QED BY <1>1, <1>3, <2>1, MakeableStays
<1>8. /\ Node \in Vertices /\ color[Node] = "gray" /\ Looking \in out[Node] \cup {End}
      /\ color \in [Vertices -> {"white", "gray", "black"}] /\ out \in [Vertices -> SUBSET Vertices]
  BY <1>2, <1>4, LookingIsRight DEF WalkInv, WalkTypes
<1>9. \A p \in Vertices : color[p] # "white" => \A s \in out[p] : s \in HasTask \/ s \notin Makeable
  BY <1>2, <1>4 DEF SettledWhenScanned
<1>10. CASE TreeEdge(HasTask)
  <2> DEFINE v == Looking
  <2>1. /\ v # End /\ color[v] = "white" /\ color' = [color EXCEPT ![v] = "gray"]
        /\ scanned' = IF v \in HasTask THEN 0 ELSE End
    BY <1>10 DEF TreeEdge
  <2>2. v \in out[Node] /\ v \in Vertices
    BY <1>8, <2>1
  <2>3. Node' = v
    BY <1>4, <1>10, TopDiscovered
  <2>4. v \in HasTask \/ v \notin Makeable
    BY <1>8, <1>9, <2>2
  <2>5. v \in Names
    <3>1. color[Goal] # "white"
      BY <1>4, GoalReached
    <3> QED BY <2>1, <2>2, <3>1 DEF Names
  <2> HIDE DEF v
  <2>6. \A n \in Vertices : color'[n] # "white" => color[n] # "white" \/ n = v
    BY <1>8, <2>1
  <2>7. SettledWhenReached'
    <3>1. ASSUME NEW n \in Names, color'[n] # "white", task[n] = "none" PROVE n \notin Makeable
      <4>1. n \in Vertices
        BY DEF Names
      <4> QED BY <1>4, <2>4, <2>6, <3>1, <4>1 DEF SettledWhenReached, HasTask
    <3> QED BY <1>1, <1>7, <3>1 DEF SettledWhenReached
  <2>8. SettledWhenScanned'
    <3>1. ASSUME NEW p \in Vertices, color'[p] # "white", NEW s \in out[p]
          PROVE  s \in HasTask \/ s \notin Makeable \/ (Discovering' /\ p = v /\ s > scanned')
      <4>1. CASE color[p] # "white"
        BY <1>9, <4>1
      <4>2. CASE p = v /\ v \in HasTask
        <5>1. scanned' = 0 /\ End # 0
          BY <2>1, <4>2, EntriesAreVertices DEF TypeInv
        <5>2. s \in Vertices
          BY <1>8
        <5>3. s > 0
          BY <5>2, VerticesAssumption DEF Vertices
        <5> QED BY <4>2, <5>1, <5>3 DEF Discovering, End
      <4>3. CASE p = v /\ v \notin HasTask
        <5>1. task[v] # "make"
          BY <2>2, <4>3 DEF HasTask
        <5>2. s \in Settled(makefile)
          BY <2>5, <4>3, <5>1 DEF IInv, SettledWithoutTask
        <5> QED BY <1>1, <5>2, SettledIsFine DEF IInv
      <4> QED BY <2>6, <3>1, <4>1, <4>2, <4>3
    <3> QED BY <1>2, <1>6, <1>7, <2>3, <3>1 DEF SettledWhenScanned
  <2>9. ScannedHaveTasks'
    BY <1>6, <2>1, <2>3 DEF ScannedHaveTasks, Discovering, End
  <2> QED BY <1>5, <1>6, <2>7, <2>8, <2>9 DEF IInv
<1>11. CASE BackEdge \/ ForwardEdge \/ FinishVertex
  <2>1. scanned' = scanned /\ (color' = color \/ color' = [color EXCEPT ![Node] = "black"])
    BY <1>11 DEF BackEdge, ForwardEdge, FinishVertex
  <2>2. \A n \in Vertices : color'[n] # "white" => color[n] # "white"
    BY <1>8, <2>1
  <2>3. SettledWhenReached'
    BY <1>1, <1>4, <1>7, <2>2 DEF SettledWhenReached, Names
  <2>4. SettledWhenScanned'
    BY <1>2, <1>6, <1>7, <1>9, <2>2 DEF SettledWhenScanned
  <2>5. ScannedHaveTasks'
    BY <1>2, <2>1 DEF ScannedHaveTasks, Discovering, End
  <2> QED BY <1>5, <1>6, <2>3, <2>4, <2>5 DEF IInv
<1> QED BY <1>1, <1>10, <1>11 DEF Visit

\* What has been reached is an entry, or the goal.
LEMMA ReachedAreEntries ==
  ASSUME TypeInv, WalkInv, NEW n \in Vertices, color[n] # "white"
  PROVE  n \in entries \cup {Goal}
<1>1. color[n] \in {"gray", "black"}
  BY DEF TypeInv, WalkOk
<1>2. CASE color[n] = "black"
  <2>1. PICK i \in 1 .. Len(order) : order[i] = n
    BY <1>2 DEF WalkInv, ColorsAreRight
  <2> QED BY <2>1, ElementOfSeq DEF TypeInv, WalkOk
<1>3. CASE color[n] = "gray"
  <2>1. PICK k \in 1 .. Len(stack) : stack[k].node = n
    BY <1>3 DEF WalkInv, ColorsAreRight
  <2>2. stack[k] \in [node : entries \cup {Goal}, next : entries \cup {0, End}]
    BY ElementOfSeq DEF TypeInv, WalkOk
  <2> QED BY <2>1, <2>2
<1> QED BY <1>1, <1>2, <1>3

\* Scanning changes only nodes the walk has not come to.
LEMMA ScanningChanges ==
  ASSUME TypeInv, IInv, Orderly(makefile), ScanSource
  PROVE  /\ \A n \in Vertices : color[n] # "white" => task'[n] = task[n] /\ out'[n] = out[n]
         /\ Makeable' = Makeable
         /\ scanned' # End => scanned' \in HasTask' \/ scanned' \notin Makeable
<1>1. /\ UNCHANGED <<makefile, disk, patterns>> /\ phase = "walking" /\ Discovering
      /\ scanned' = NextEdge(Node, scanned) /\ scanned' \in entries \cup {End}
      /\ Apply(Scanned(scanned')) /\ Node \in Vertices /\ scanned \in Nat
  BY ScanSourceStep
<1>2. WalkInv /\ SettledWhenReached /\ ScannedHaveTasks
  BY <1>1 DEF IInv
<1>3. PatternsRanked /\ \A p \in RulesOf(makefile, "pattern") : p.commands
  BY DEF Orderly, PatternsRanked
<1>4. TypeInv'
  BY ScanSourceTypes
<1>5. CASE scanned' = End \/ task[Node] # "make" \/ task[scanned'] # "none"
  <2>1. Scanned(scanned') = {}
    BY <1>5 DEF Scanned, RulesForSource
  <2>2. /\ entries' = entries /\ \A n \in Vertices : task'[n] = task[n] /\ out'[n] = out[n]
    BY <1>1, <2>1 DEF Apply
  <2>3. Makeable' = Makeable
    BY <1>1, <1>3, <1>4, <2>2, MakeableStays
  <2>4. scanned' # End => scanned' \in HasTask' \/ scanned' \notin Makeable
    <3>1. SUFFICES ASSUME scanned' # End PROVE scanned' \in HasTask' \/ scanned' \notin Makeable
      OBVIOUS
    <3>2. scanned' \in Vertices
      BY <1>1, <3>1, EntriesAreVertices DEF TypeInv
    <3>3. CASE task[scanned'] # "none"
      BY <2>2, <3>2, <3>3 DEF HasTask
    <3>4. CASE task[Node] # "make"
      <4>1. scanned' \in out[Node]
        <5>1. out \in [Vertices -> SUBSET Vertices]
          BY <1>2 DEF WalkInv, WalkTypes
        <5> QED BY <1>1, <3>1, <5>1, NextEdgeIsNext
      <4>2. Node \in Names
        BY <1>1, <1>2 DEF ScannedHaveTasks, TypeInv, GraphOk
      <4>3. scanned' \in Settled(makefile)
        BY <3>4, <4>1, <4>2 DEF IInv, SettledWithoutTask
      <4>4. scanned' \in HasTask \/ scanned' \notin Makeable
        <5>1. PICK s : s = scanned'
          OBVIOUS
        <5> QED BY <1>1, <4>3, <5>1, SettledIsFine DEF IInv
      <4> QED BY <2>2, <4>4 DEF HasTask
    <3> QED BY <1>5, <3>1, <3>3, <3>4
  <2> QED BY <2>2, <2>3, <2>4
<1>6. CASE scanned' # End /\ task[Node] = "make" /\ task[scanned'] = "none"
  <2>1. PICK s \in Names : s = scanned'
    BY <1>1, <1>6 DEF TypeInv, GraphOk
  <2>2. Scanned(s) = RulesFor(s)
    BY <1>6, <2>1 DEF Scanned, RulesForSource
  <2>3. PICK T : T = TargetsOf(RulesFor(s))
    OBVIOUS
  <2>4. /\ T \subseteq Makeable /\ \A m \in T : m = s \/ m \notin entries
        /\ RulesFor(s) # {} => s \in T
        /\ entries' \subseteq entries \cup disk \cup T
        /\ \A m \in Vertices : task'[m] = IF m \in T THEN "make" ELSE task[m]
        /\ \A m \in Vertices \ T : out'[m] = out[m]
    BY <1>1, <1>3, <2>1, <2>2, <2>3, RulesApplied
  <2>5. Makeable' = Makeable
    <3>1. entries \subseteq entries'
      BY <1>1 DEF Apply
    <3>2. entries' \subseteq entries \cup disk \cup Makeable
      BY <2>4
    <3> QED BY <1>1, <1>3, <1>4, <3>1, <3>2, MakeableStays
  <2>6. ASSUME NEW n \in Vertices, color[n] # "white" PROVE n \notin T
    <3>1. n \in entries \cup {Goal}
      BY <1>2, <2>6, ReachedAreEntries
    <3>2. T \subseteq Names
      BY <2>4 DEF Makeable
    <3>3. ASSUME n = s PROVE n \notin T
      <4>1. n \notin Makeable
        BY <1>2, <1>6, <2>1, <2>6, <3>3 DEF SettledWhenReached
      <4> QED BY <2>4, <4>1
    <3> QED BY <2>4, <3>1, <3>2, <3>3 DEF Names
  <2>7. s \in Vertices /\ (s \in HasTask' \/ s \notin Makeable)
    <3>1. s \in Vertices
      BY DEF Names
    <3>2. s \in Makeable => s \in T
      BY <2>4 DEF Makeable
    <3> QED BY <2>4, <3>1, <3>2 DEF HasTask
  <2> QED BY <2>1, <2>4, <2>5, <2>6, <2>7
<1> QED BY <1>5, <1>6

LEMMA ScanSourceOrderly == ASSUME TypeInv, IInv, Orderly(makefile), ScanSource PROVE IInv'
<1>1. /\ UNCHANGED <<makefile, disk, read, patterns, requested, goals, phase,
                    color, stack, order, thrown>>
      /\ phase = "walking" /\ Discovering /\ stack # <<>> /\ stack[1].next = 0
      /\ Node \in Vertices /\ scanned \in Nat
      /\ scanned' = NextEdge(Node, scanned) /\ scanned' \in entries \cup {End}
      /\ Apply(Scanned(scanned'))
  BY ScanSourceStep
<1>2. WalkInv /\ SettledWhenReached /\ SettledWhenScanned /\ ScannedHaveTasks
  BY <1>1 DEF IInv
<1>3. TypeInv'
  BY ScanSourceTypes
<1>4. /\ \A n \in Vertices : color[n] # "white" => task'[n] = task[n] /\ out'[n] = out[n]
      /\ Makeable' = Makeable
      /\ scanned' # End => scanned' \in HasTask' \/ scanned' \notin Makeable
  BY ScanningChanges
<1>5. /\ RuledHaveTasks' /\ SettledWithoutTask' /\ HasTask \subseteq HasTask'
      /\ entries' \subseteq NamedIn(makefile) \cup HasTask' \cup PatternSources(makefile)
  <2>3. PICK rules : rules = Scanned(scanned')
    OBVIOUS
  <2>1. PICK n \in Names : rules = {} \/ rules = RulesFor(n)
    <3>1. CASE Scanned(scanned') = {}
      <4>1. Node \in Names
        BY <1>1, <1>2 DEF ScannedHaveTasks, TypeInv, GraphOk
      <4> QED BY <2>3, <3>1, <4>1
    <3>2. CASE Scanned(scanned') # {}
      <4>1. scanned' \in Names /\ Scanned(scanned') = RulesFor(scanned')
        BY <1>1, <3>2 DEF Scanned, RulesForSource, TypeInv, GraphOk
      <4> QED BY <2>3, <4>1
    <3> QED BY <3>1, <3>2
  <2>2. phase # "reading"
    BY <1>1
  <2> QED BY <1>1, <2>1, <2>2, <2>3, RulesKeep
<1>6. EntriesKnown'
  BY <1>1, <1>5 DEF EntriesKnown
<1>7. RequestsOrderly'
  <2>1. requested' = <<>>
    BY <1>1 DEF IInv, RequestsOrderly
  <2>2. Len(requested') = 0
    BY <2>1
  <2> QED BY <2>1, <2>2 DEF RequestsOrderly
<1>8. GoalsSettled'
  BY <1>1, <1>5 DEF IInv, GoalsSettled
<1>9. WalkInv'
  <2>1. /\ out' \in [Vertices -> SUBSET Vertices] /\ \A n \in Vertices : out[n] \subseteq out'[n]
    <3>1. entries' \subseteq Vertices /\ out' \in [Vertices -> SUBSET entries']
      BY <1>3 DEF TypeInv, GraphOk, Names
    <3>2. \A n \in Vertices : out[n] \subseteq out'[n]
      <4>1. \A r \in Scanned(scanned') : r.targets \subseteq Names /\ r.sources \subseteq Names
        BY <1>1, ScannedRules
      <4> QED BY <1>1, <4>1, ApplyTypes DEF TypeInv
    <3> QED BY <3>1, <3>2
  <2>2. scanned' \in 0 .. End
    BY <1>1, EntriesAreVertices DEF TypeInv, Vertices
  <2>3. WalkTypes'
    BY <1>1, <1>2, <2>1, <2>2 DEF WalkInv, WalkTypes
  <2>4. DiscoveredOnTop'
    BY <1>3 DEF TypeInv, WalkOk
  <2>5. \A n \in Vertices : out'[n] # out[n] => color[n] = "white"
    BY <1>4
  <2> QED BY <1>1, <1>2, <2>1, <2>3, <2>4, <2>5, EdgesAdded
<1>10. \A n \in Vertices : color[n] # "white" => (n \in HasTask' <=> n \in HasTask)
  BY <1>4 DEF HasTask
<1>11. SettledWhenReached'
  BY <1>1, <1>2, <1>4 DEF SettledWhenReached, Names
<1>12. Node' = Node
  BY <1>1 DEF Node
<1>13. SettledWhenScanned'
  <2>1. ASSUME NEW p \in Vertices, color[p] # "white", NEW s \in out[p]
        PROVE  \/ s \in HasTask' \/ s \notin Makeable
               \/ (Discovering' /\ p = Node /\ s > scanned')
    <3>1. s \in HasTask \/ s \notin Makeable \/ (p = Node /\ s > scanned)
      BY <1>2, <2>1 DEF SettledWhenScanned
    <3>2. SUFFICES ASSUME p = Node, s > scanned, s # scanned'
                   PROVE  Discovering' /\ s > scanned'
      BY <1>4, <1>5, <3>1, <2>1, EntriesAreVertices DEF TypeInv
    <3>3. out \in [Vertices -> SUBSET Vertices] /\ s \in Vertices /\ M \in Nat /\ End = M + 1
      BY <1>2, VerticesAssumption DEF WalkInv, WalkTypes, End
    <3>4. scanned' \in 1 .. End /\ (s < scanned' => s <= scanned)
      BY <1>1, <2>1, <3>2, <3>3, NextEdgeIsNext
    <3>5. s \in 1 .. M
      BY <3>3 DEF Vertices
    <3>6. s > scanned'
      BY <1>1, <3>2, <3>4, <3>5
    <3>7. scanned' # End
      BY <3>3, <3>4, <3>5, <3>6
    <3> QED BY <3>6, <3>7 DEF Discovering, End
  <2> QED BY <1>1, <1>4, <1>12, <2>1 DEF SettledWhenScanned
<1>14. ScannedHaveTasks'
  BY <1>2, <1>5, <1>12, <1>1 DEF ScannedHaveTasks
<1> QED BY <1>5, <1>6, <1>7, <1>8, <1>9, <1>11, <1>13, <1>14 DEF IInv

LEMMA StutterOrderly ==
  ASSUME TypeInv, TypeInv', IInv, Orderly(makefile), UNCHANGED vars PROVE IInv'
<1>1. /\ UNCHANGED <<inputs, read, patterns, requested, goals, phase>>
      /\ UNCHANGED nodes /\ UNCHANGED walkVars
  BY DEF vars
<1>2. UNCHANGED <<makefile, disk, entries, task, out, color, stack, scanned, order, thrown>>
  BY <1>1 DEF inputs, nodes, walkVars
<1>3. Makeable' = Makeable
  <2>1. PatternsRanked
    BY DEF Orderly, PatternsRanked
  <2> QED BY <1>1, <1>2, <2>1, MakeableStays
<1>4. RuledHaveTasks' /\ SettledWithoutTask' /\ EntriesKnown' /\ RequestsOrderly' /\ GoalsSettled'
  BY <1>1, <1>2 DEF IInv, RuledHaveTasks, SettledWithoutTask, EntriesKnown, RequestsOrderly,
                    GoalsSettled, HasTask
<1>5. ASSUME phase = "walking"
      PROVE  WalkInv' /\ SettledWhenReached' /\ SettledWhenScanned' /\ ScannedHaveTasks'
  <2>1. WalkInv /\ SettledWhenReached /\ SettledWhenScanned /\ ScannedHaveTasks
    BY <1>5 DEF IInv
  <2>2. WalkInv'
    <3>1. WalkTypes' /\ DiscoveredOnTop'
      BY <1>2, <2>1 DEF WalkInv, WalkTypes, DiscoveredOnTop, Discovering
    <3> QED BY <1>2, <2>1, <3>1, EdgesAdded
  <2>3. SettledWhenReached' /\ SettledWhenScanned' /\ ScannedHaveTasks'
    BY <1>2, <1>3, <2>1 DEF SettledWhenReached, SettledWhenScanned, ScannedHaveTasks, HasTask,
                            Discovering, Node
  <2> QED BY <2>2, <2>3
<1> QED BY <1>1, <1>4, <1>5 DEF IInv

AllOrderly == \A c \in Makefiles : Orderly(c)

LEMMA NextOrderly ==
  ASSUME AllOrderly PROVE TypeInv /\ IInv /\ [Next]_vars => IInv'
<1> SUFFICES ASSUME TypeInv, IInv, [Next]_vars PROVE IInv'
  OBVIOUS
<1>1. Orderly(makefile)
  BY DEF AllOrderly, TypeInv, InputsOk
<1>2. TypeInv'
  BY NextTypes
<1>3. CASE Next
  BY <1>1, <1>2, <1>3, ReadRuleOrderly, EndReadingOrderly, ResolveOrderly, StartWalkOrderly,
     ScanSourceOrderly, StepOrderly, StutterOrderly
  DEF Next, Over
<1>4. CASE UNCHANGED vars
  BY <1>1, <1>2, <1>4, StutterOrderly
<1> QED BY <1>3, <1>4

LEMMA OrderlyAlways ==
  ASSUME AllOrderly PROVE Spec => [](TypeInv /\ IInv)
<1>1. Init => IInv
  BY InitOrderly DEF Init, AllOrderly
<1> QED BY <1>1, TypesHold, NextOrderly, PTL DEF Spec

-------------------------------------------------------------------------------
(* Theorems. *)

\* Executing pattern rules in the middle of depth_first_visit, on other nodes than
\* the one being discovered, is harmless: what build_order returns is a build order
\* of the graph as the patterns left it.
THEOREM PatternsKeepTheOrder ==
  ASSUME AllOrderly
  PROVE  Spec => []OrderIsRight
<1>1. TypeInv /\ IInv => OrderIsRight
  BY IsBuildOrderWhenDone DEF IInv, OrderIsRight, Returned
<1> QED BY <1>1, OrderlyAlways, PTL

LEMMA OrderedAreReached ==
  ASSUME TypeInv, WalkInv, NEW n \in InOrder
  PROVE  n \in Vertices /\ color[n] # "white"
<1>1. PICK i \in 1 .. Len(order) : order[i] = n
  BY LenProperties DEF InOrder, TypeInv, WalkOk
<1>2. n \in Vertices
  BY <1>1, ElementOfSeq DEF WalkInv, WalkTypes
<1>3. color[n] = "black"
  BY <1>1, <1>2 DEF WalkInv, ColorsAreRight
<1> QED BY <1>2, <1>3

\* No pattern gives a node that is in the build order a task or a dependency.
THEOREM FinishedStay ==
  ASSUME AllOrderly
  PROVE  Spec => FinishedIsFinal
<1>1. TypeInv /\ IInv /\ [Next]_vars =>
        [\A n \in InOrder : task'[n] = task[n] /\ out'[n] = out[n]]_vars
  <2> SUFFICES ASSUME TypeInv, IInv, Next, NEW n \in InOrder
               PROVE  task'[n] = task[n] /\ out'[n] = out[n]
    OBVIOUS
  <2>1. phase = "walking"
    <3>1. order # <<>>
      BY DEF InOrder
    <3> QED BY <3>1 DEF TypeInv, NotWalkingYet
  <2>2. WalkInv /\ Orderly(makefile)
    BY <2>1 DEF IInv, AllOrderly, TypeInv, InputsOk
  <2>3. n \in Vertices /\ color[n] # "white"
    BY <2>2, OrderedAreReached
  <2>4. CASE ScanSource
    BY <2>2, <2>3, <2>4, ScanningChanges
  <2>5. CASE Step
    BY <2>5 DEF Step, Visit, TreeEdge, BackEdge, ForwardEdge, FinishVertex
  <2>6. CASE Over
    BY <2>6 DEF Over, vars, nodes
  <2>7. ~ReadRule /\ ~EndReading /\ ~Resolve /\ ~StartWalk
    BY <2>1 DEF ReadRule, EndReading, Resolve, StartWalk
  <2> QED BY <2>4, <2>5, <2>6, <2>7 DEF Next
<1> QED BY <1>1, OrderlyAlways, PTL DEF Spec, FinishedIsFinal

\* A name that build_order lists without a task has no pattern whose sources are there.
THEOREM PatternsAreAlwaysApplied ==
  ASSUME AllOrderly
  PROVE  Spec => []PatternsAreApplied
<1>1. TypeInv /\ IInv => PatternsAreApplied
  <2> SUFFICES ASSUME TypeInv, IInv, Returned, NEW n \in InOrder \cap Names, task[n] = "none",
                      NEW i \in DOMAIN patterns, n \in DOMAIN patterns[i].makes,
                      SourcesOf(i, n) \subseteq disk
               PROVE  FALSE
    BY DEF PatternsAreApplied
  <2>1. WalkInv /\ SettledWhenReached /\ PatternsRanked
    BY DEF Returned, IInv, AllOrderly, TypeInv, InputsOk, Orderly, PatternsRanked
  <2>2. n \notin Makeable
    BY <2>1, OrderedAreReached DEF SettledWhenReached
  <2>3. Fix(patterns, entries \cup disk, Makeable)
    BY <2>1, AlwaysFixed DEF Fixed
  <2>4. patterns[i].makes[n].sources \subseteq (entries \cup disk) \cup Makeable
    BY DEF SourcesOf
  <2> QED BY <2>2, <2>3, <2>4 DEF Fix
<1> QED BY <1>1, OrderlyAlways, PTL

===============================================================================
