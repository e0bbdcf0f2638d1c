-------------------------- MODULE BuildOrder_proofs ---------------------------
(* Proofs about BuildOrder for every graph, whatever includes whatever.       *)
EXTENDS BuildOrder, DepthFirstVisit_proofs

-------------------------------------------------------------------------------
(* The inductive invariant: that of the walk, and what scanning has found.    *)

Types ==
  /\ declared \in EdgeSets /\ includes \in IncludeSets
  /\ hasTask \subseteq Vertices \ {Goal}
  /\ scanning \in Seq(SUBSET Vertices)
  /\ Discovering => Node \in hasTask
  /\ scanning # <<>> => Discovering

LEMMA InitWalks == Init => WalkInv /\ Types
<1> SUFFICES ASSUME Init PROVE AtStart /\ Types
  BY StartWalks
<1>1. \A n : Pairs(declared, n) \subseteq Vertices
  BY SetsAssumption, PairsAreVertices DEF Init
<1>2. scanning = <<>> /\ out = [n \in Vertices |-> Pairs(declared, n)]
  BY DEF Init
<1>3. AtStart
  BY <1>1, <1>2 DEF Init, AtStart
<1>4. ~Discovering /\ declared \in EdgeSets /\ includes \in IncludeSets
      /\ hasTask \in SUBSET (Vertices \ {Goal})
  BY DEF Init, Discovering
<1>5. scanning \in Seq(SUBSET Vertices)
  BY <1>2, EmptySeq
<1> QED BY <1>2, <1>3, <1>4, <1>5 DEF Types

LEMMA ScanningAddsEdges ==
  ASSUME WalkInv, Types, Discover PROVE WalkInv' /\ Types'
<1> USE DEF WalkInv
<1>1. /\ UNCHANGED <<declared, includes, hasTask, color, stack, order, thrown>>
      /\ Discovering /\ stack # <<>> /\ stack[1].next = 0 /\ stack[1].node \in hasTask
      /\ stack[1].node \in Vertices /\ M \in Nat /\ End = M + 1
  BY Lengths DEF Discover, ScanSource, EndScan, LookUp, inputs, walkVars, DiscoveredOnTop, Types, Node
<1>2. CASE ScanSource
  <2>1. scanned' \in 1 .. End
    <3>1. scanned \in Nat /\ Node \in Vertices /\ scanned' = NextEdge(Node, scanned)
      BY <1>1, <1>2 DEF ScanSource, WalkTypes, Node
    <3> QED BY <3>1, NextEdgeIsNext DEF WalkTypes
  <2>2. scanning' \in Seq(SUBSET Vertices) /\ (scanning' # <<>> => scanned' # End)
    <3>1. Pairs(includes, scanned') \subseteq Vertices
      BY PairsAreVertices, SetsAssumption DEF Types
    <3>2. <<>> \in Seq(SUBSET Vertices)
      BY EmptySeq
    <3>3. <<Pairs(includes, scanned')>> \in Seq(SUBSET Vertices)
      BY <3>1
    <3>4. scanning' = IF scanned' = End THEN <<>> ELSE <<Pairs(includes, scanned')>>
      BY <1>2 DEF ScanSource
    <3> QED BY <3>2, <3>3, <3>4
  <2>3. WalkTypes' /\ DiscoveredOnTop' /\ Types' /\ out' = out
    BY <1>1, <1>2, <2>1, <2>2 DEF WalkTypes, Types, DiscoveredOnTop, Discovering, Node, ScanSource
  <2> QED BY <1>1, <2>3, EdgesAdded
<1>3. CASE EndScan
  <2>1. scanning' \in Seq(SUBSET Vertices)
    BY <1>3, Popped DEF EndScan, Types
  <2>2. WalkTypes' /\ DiscoveredOnTop' /\ Types' /\ out' = out
    BY <1>1, <1>3, <2>1 DEF EndScan, walkVars, WalkTypes, Types, DiscoveredOnTop, Discovering, Node
  <2> QED BY <1>1, <2>2, EdgesAdded
<1>4. ASSUME NEW file \in Vertices, LookUp(file) PROVE WalkInv' /\ Types'
  <2>1. /\ out' = [out EXCEPT ![Node] = @ \cup {file}] /\ scanned' = scanned
        /\ scanning' = Recurse(file) /\ scanning # <<>>
    BY <1>4 DEF LookUp, walkVars
  <2>2. /\ out' \in [Vertices -> SUBSET Vertices]
        /\ \A n \in Vertices : out[n] \subseteq out'[n]
        /\ \A n \in Vertices : out'[n] # out[n] => n = stack[1].node
    BY <1>1, <2>1 DEF WalkTypes, Node
  <2>3. scanning' \in Seq(SUBSET Vertices)
    <3> DEFINE rest == [scanning EXCEPT ![1] = @ \ {file}]
    <3>1. 1 \in 1 .. Len(scanning) /\ scanning[1] \subseteq Vertices
      BY <2>1, EmptySeq, ElementOfSeq DEF Types
    <3>2. rest \in Seq(SUBSET Vertices)
      BY <3>1, ExceptSeq DEF Types
    <3>3. Pairs(includes, file) \subseteq Vertices
      BY PairsAreVertices, SetsAssumption DEF Types
    <3>4. <<Pairs(includes, file)>> \in Seq(SUBSET Vertices)
      BY <3>3
    <3>5. <<Pairs(includes, file)>> \o rest \in Seq(SUBSET Vertices)
      BY <3>2, <3>4, ConcatProperties
    <3> QED BY <2>1, <3>2, <3>5 DEF Recurse
  <2>4. WalkTypes' /\ DiscoveredOnTop' /\ Types'
    BY <1>1, <2>1, <2>2, <2>3 DEF WalkTypes, Types, DiscoveredOnTop, Discovering, Node
  <2> QED BY <1>1, <2>2, <2>4, EdgesAdded
<1> QED BY <1>2, <1>3, <1>4 DEF Discover

-------------------------------------------------------------------------------
(* Scanning for includes. *)

Closed(Q) == \A v \in Q : Pairs(includes, v) \subseteq Q

Pending(w) == \E i \in 1 .. Len(scanning) : w \in scanning[i]

\* An edge is added to no node but one with a task that has been discovered.
UnscannedAsDeclared ==
  \A n \in Vertices :
    /\ Pairs(declared, n) \subseteq out[n]
    /\ color[n] = "white" \/ n \notin hasTask => out[n] = Pairs(declared, n)

\* What is found is below the declared dependencies.
NothingElseFound ==
  \A n \in hasTask : \A Q \in SUBSET Vertices :
    Pairs(declared, n) \subseteq Q /\ Closed(Q) =>
      /\ out[n] \subseteq Q
      /\ Discovering /\ n = Node => \A w : Pending(w) => w \in Q

ScannedIsComplete ==
  \A n \in hasTask : color[n] # "white" /\ ~(Discovering /\ n = Node) => Closed(out[n])

\* While a node is discovered, the includes of a source it has come to and of a
\* file added on the way are edges, or some call of scan_cpp still looks them up.
ScannedSoFar ==
  Discovering =>
    \A v \in out[Node] : v <= scanned \/ v \notin Pairs(declared, Node) =>
      \A w \in Pairs(includes, v) : w \in out[Node] \/ Pending(w)

ScanInv == UnscannedAsDeclared /\ NothingElseFound /\ ScannedIsComplete /\ ScannedSoFar

LEMMA InitScans == Init => ScanInv
<1> SUFFICES ASSUME Init PROVE ScanInv
  OBVIOUS
<1>1. \A n \in Vertices : out[n] = Pairs(declared, n)
  BY DEF Init
<1>2. \A n \in hasTask : n \in Vertices /\ color[n] = "white" /\ ~Discovering
  BY DEF Init, Discovering
<1> QED
  BY <1>1, <1>2
  DEF ScanInv, UnscannedAsDeclared, NothingElseFound, ScannedIsComplete, ScannedSoFar, Init, Discovering

LEMMA WalkKeepsScans ==
  ASSUME WalkInv, Types, ScanInv, Walk PROVE ScanInv'
<1> USE DEF WalkInv, WalkTypes, ScanInv
<1>1. /\ UNCHANGED <<declared, includes, hasTask, out, scanning>>
      /\ Walking /\ ~Discovering /\ scanning = <<>>
  BY DEF Walk, Visit, TreeEdge, BackEdge, ForwardEdge, FinishVertex, inputs, Walking, Types
<1>2. \A Q : Closed(Q)' <=> Closed(Q)
  BY <1>1 DEF Closed, Pairs
<1>3. \A n : Pairs(declared, n)' = Pairs(declared, n)
  BY <1>1 DEF Pairs
<1>4. \A w : ~Pending(w)'
  BY <1>1 DEF Pending
<1>5. CASE TreeEdge(hasTask)
  <2>1. /\ color' = [color EXCEPT ![Looking] = "gray"] /\ color[Looking] = "white"
        /\ Looking # End /\ scanned' = IF Looking \in hasTask THEN 0 ELSE End
    BY <1>5 DEF TreeEdge
  <2>2. Node \in Vertices /\ Looking \in out[Node] /\ Looking \in Vertices
    BY <1>1, <2>1, LookingIsRight DEF Vertices
  <2>3. Node' = Looking
    BY <1>5, TopDiscovered
  <2>4. \A n \in Vertices : color'[n] = IF n = Looking THEN "gray" ELSE color[n]
    BY <2>1 DEF Types
  <2>5. UnscannedAsDeclared'
    BY <1>1, <1>3, <2>4 DEF UnscannedAsDeclared
  <2>6. NothingElseFound'
    BY <1>1, <1>2, <1>3, <1>4 DEF NothingElseFound
  <2>7. ScannedIsComplete'
    <3> SUFFICES ASSUME NEW n \in hasTask, color'[n] # "white", ~(Discovering' /\ n = Looking)
                 PROVE  Closed(out[n])
      BY <1>1, <1>2, <2>3 DEF ScannedIsComplete
    <3>1. n # Looking
      <4>1. 0 # End
        BY Lengths
      <4>2. n = Looking => scanned' = 0
        BY <2>1
      <4> QED BY <4>1, <4>2 DEF Discovering
    <3>2. n \in Vertices
      BY DEF Types
    <3> QED BY <1>1, <2>4, <3>1, <3>2 DEF ScannedIsComplete
  <2>8. ScannedSoFar'
    <3> SUFFICES ASSUME Discovering', NEW v \in out[Looking],
                        v <= scanned' \/ v \notin Pairs(declared, Looking)
                 PROVE  FALSE
      BY <1>1, <1>3, <2>3 DEF ScannedSoFar
    <3>1. scanned' = 0
      BY <2>1 DEF Discovering
    <3>2. v \in Pairs(declared, Looking)
      BY <2>1, <2>2 DEF UnscannedAsDeclared
    <3>3. v \in 1 .. M
      <4>1. out[Looking] \subseteq Vertices
        BY <2>2 DEF Types
      <4> QED BY <4>1 DEF Vertices
    <3>4. M \in Nat
      BY Lengths
    <3>5. ~(v <= 0)
      BY ONLY <3>3, <3>4
    <3> QED BY <3>1, <3>2, <3>5
  <2> QED BY <2>5, <2>6, <2>7, <2>8
<1>6. CASE BackEdge \/ ForwardEdge \/ FinishVertex
  <2>1. ~Discovering' /\ \A n \in Vertices : color'[n] = "white" <=> color[n] = "white"
    <3>1. scanned' = scanned
      BY <1>6 DEF BackEdge, ForwardEdge, FinishVertex
    <3>2. CASE color' = color
      BY <1>1, <3>1, <3>2 DEF Discovering
    <3>3. CASE FinishVertex
      <4>1. color' = [color EXCEPT ![Node] = "black"] /\ color[Node] = "gray"
        BY <1>1, <3>3, LookingIsRight DEF FinishVertex
      <4> QED BY <1>1, <3>1, <4>1 DEF Discovering, Types
    <3> QED BY <1>6, <3>2, <3>3 DEF BackEdge, ForwardEdge
  <2>2. hasTask \subseteq Vertices
    BY DEF Types
  <2> QED
    BY <1>1, <1>2, <1>3, <1>4, <2>1, <2>2
    DEF UnscannedAsDeclared, NothingElseFound, ScannedIsComplete, ScannedSoFar
<1> QED BY <1>5, <1>6 DEF Walk, Visit

LEMMA DiscoverKeepsScans ==
  ASSUME WalkInv, Types, ScanInv, Discover PROVE ScanInv'
<1> USE DEF WalkInv, WalkTypes, ScanInv
<1>1. /\ UNCHANGED <<declared, includes, hasTask, color, stack>>
      /\ Discovering /\ Node' = Node /\ Node \in Vertices /\ Node \in hasTask
      /\ color[Node] # "white" /\ out[Node] \subseteq Vertices
  <2>1. /\ UNCHANGED <<declared, includes, hasTask, color, stack>>
        /\ Discovering /\ stack # <<>> /\ stack[1].node \in hasTask
    BY DEF Discover, ScanSource, EndScan, LookUp, inputs, walkVars, DiscoveredOnTop, Types, Node
  <2>2. 1 \in 1 .. Len(stack) /\ stack[1].node \in Vertices
    BY <2>1, Lengths
  <2> QED BY <2>1, <2>2 DEF Node, ColorsAreRight, Types
<1>2. \A Q : Closed(Q)' <=> Closed(Q)
  BY <1>1 DEF Closed, Pairs
<1>3. \A n : Pairs(declared, n)' = Pairs(declared, n)
  BY <1>1 DEF Pairs
<1>4. /\ \A n \in hasTask : n \in Vertices
      /\ \A v \in Vertices : Pairs(includes, v) \subseteq Vertices
  BY PairsAreVertices, SetsAssumption DEF Types
<1>5. CASE ScanSource
  <2>1. /\ out' = out /\ scanning = <<>> /\ scanned' = NextEdge(Node, scanned)
        /\ scanning' = IF scanned' = End THEN <<>> ELSE <<Pairs(includes, scanned')>>
    BY <1>5 DEF ScanSource
  <2>2. /\ scanned' \in out[Node] \cup {End} /\ scanned \in Nat
        /\ \A v \in out[Node] : v < scanned' => v <= scanned
        /\ \A v \in out[Node] : v \in 1 .. M
        /\ M \in Nat /\ End = M + 1
    <3>1. scanned \in Nat
      BY DEF Types
    <3>2. \A v \in out[Node] : v \in 1 .. M
      BY <1>1 DEF Vertices
    <3>3. out \in [Vertices -> SUBSET Vertices] /\ M \in Nat /\ End = M + 1
      BY Lengths DEF Types
    <3> QED BY <1>1, <2>1, <3>1, <3>2, <3>3, NextEdgeIsNext
  <2>3. \A w : ~Pending(w)
    BY <2>1 DEF Pending
  <2>4. \A w : Pending(w)' <=> (scanned' # End /\ w \in Pairs(includes, scanned'))
    <3>1. CASE scanned' = End
      BY <2>1, <3>1 DEF Pending
    <3>2. CASE scanned' # End
      <4>1. scanning' = <<Pairs(includes, scanned')>>
        BY <2>1, <3>2
      <4>2. Len(scanning') = 1 /\ scanning'[1] = Pairs(includes, scanned')
        BY <4>1
      <4>3. \A w : Pending(w)' <=> \E i \in 1 .. Len(scanning') : w \in scanning'[i]
        BY <1>1 DEF Pending
      <4> QED BY <3>2, <4>2, <4>3
    <3> QED BY <3>1, <3>2
  <2>5. UnscannedAsDeclared'
    BY <1>1, <1>3, <2>1 DEF UnscannedAsDeclared
  <2>6. NothingElseFound'
    <3> SUFFICES ASSUME NEW n \in hasTask, NEW Q \in SUBSET Vertices,
                        Pairs(declared, n) \subseteq Q, Closed(Q)
                 PROVE  out[n] \subseteq Q /\ (n = Node => \A w : Pending(w)' => w \in Q)
      BY <1>1, <1>2, <1>3, <2>1 DEF NothingElseFound
    <3>1. out[n] \subseteq Q
      BY DEF NothingElseFound
    <3>2. n = Node /\ scanned' # End => Pairs(includes, scanned') \subseteq Q
      BY <2>2, <3>1 DEF Closed
    <3> QED BY <2>4, <3>1, <3>2
  <2>7. scanned' = End => Closed(out[Node])
    <3> SUFFICES ASSUME scanned' = End, NEW v \in out[Node], NEW w \in Pairs(includes, v)
                 PROVE  w \in out[Node]
      BY DEF Closed
    <3>1. v <= scanned
      BY <2>2
    <3> QED BY <1>1, <2>3, <3>1 DEF ScannedSoFar
  <2>8. ScannedIsComplete'
    <3> SUFFICES ASSUME NEW n \in hasTask, color[n] # "white", ~(Discovering' /\ n = Node)
                 PROVE  Closed(out[n])
      BY <1>1, <1>2, <2>1 DEF ScannedIsComplete
    <3>1. CASE n = Node
      BY <2>7, <3>1 DEF Discovering
    <3>2. CASE n # Node
      BY <3>2 DEF ScannedIsComplete
    <3> QED BY <3>1, <3>2
  <2>9. ScannedSoFar'
    <3> SUFFICES ASSUME scanned' # End, NEW v \in out[Node],
                        v <= scanned' \/ v \notin Pairs(declared, Node),
                        NEW w \in Pairs(includes, v)
                 PROVE  w \in out[Node] \/ Pending(w)'
      BY <1>1, <1>3, <2>1 DEF ScannedSoFar, Discovering, Pairs
    <3>1. v <= scanned' => v = scanned' \/ v <= scanned
      BY <2>2
    <3>2. v = scanned' => Pending(w)'
      BY <2>4
    <3>3. v <= scanned \/ v \notin Pairs(declared, Node) => w \in out[Node] \/ Pending(w)
      BY <1>1 DEF ScannedSoFar
    <3> QED BY <2>3, <3>1, <3>2, <3>3
  <2> QED BY <2>5, <2>6, <2>8, <2>9
<1>6. CASE EndScan
  <2>1. /\ out' = out /\ scanned' = scanned /\ scanning' = Tail(scanning)
        /\ scanning # <<>> /\ scanning[1] = {}
    BY <1>6 DEF EndScan, walkVars
  <2>2. PICK K \in Nat \ {0} : /\ Len(scanning) = K /\ Len(scanning') = K - 1
                              /\ \A i \in 1 .. (K - 1) : scanning'[i] = scanning[i + 1]
    BY <2>1, Popped DEF Types
  <2>3. \A w : Pending(w)' <=> Pending(w)
    <3> SUFFICES ASSUME NEW w
                 PROVE  (\E i \in 1 .. (K - 1) : w \in scanning'[i])
                          <=> \E i \in 1 .. K : w \in scanning[i]
      BY <2>2 DEF Pending
    <3>1. ASSUME NEW i \in 1 .. K, w \in scanning[i]
          PROVE  \E j \in 1 .. (K - 1) : w \in scanning'[j]
      <4>1. i # 1
        BY <2>1, <3>1
      <4>2. i - 1 \in 1 .. (K - 1) /\ i - 1 + 1 = i
        BY <4>1
      <4> QED BY <2>2, <3>1, <4>2
    <3>2. \A i \in 1 .. (K - 1) : i + 1 \in 1 .. K
      OBVIOUS
    <3> QED BY <2>2, <3>1, <3>2
  <2>4. Discovering' <=> Discovering
    BY <2>1 DEF Discovering
  <2> HIDE DEF WalkInv, WalkTypes
  <2>5. UnscannedAsDeclared' /\ NothingElseFound' /\ ScannedIsComplete'
    BY <1>1, <1>2, <1>3, <2>1, <2>3, <2>4
    DEF UnscannedAsDeclared, NothingElseFound, ScannedIsComplete
  <2>6. ScannedSoFar'
    BY <1>1, <1>3, <2>1, <2>3, <2>4 DEF ScannedSoFar, Pairs
  <2> QED BY <2>5, <2>6
<1>7. ASSUME NEW file \in Vertices, LookUp(file) PROVE ScanInv'
  <2> DEFINE rest == [scanning EXCEPT ![1] = @ \ {file}]
  <2>1. /\ out' = [out EXCEPT ![Node] = @ \cup {file}] /\ scanned' = scanned
        /\ scanning' = Recurse(file) /\ scanning # <<>> /\ file \in scanning[1]
    BY <1>7 DEF LookUp, walkVars
  <2>2. /\ out'[Node] = out[Node] \cup {file}
        /\ \A n \in Vertices : n # Node => out'[n] = out[n]
    BY <1>1, <2>1 DEF Types
  <2>3. PICK K \in Nat \ {0} :
          /\ Len(scanning) = K /\ Len(rest) = K /\ rest \in Seq(SUBSET Vertices)
          /\ rest[1] = scanning[1] \ {file} /\ \A i \in 2 .. K : rest[i] = scanning[i]
    <3>1. Len(scanning) \in Nat \ {0} /\ scanning[1] \subseteq Vertices
      BY <2>1, EmptySeq, ElementOfSeq DEF Types
    <3>2. 1 \in 1 .. Len(scanning) /\ scanning[1] \ {file} \in SUBSET Vertices
      BY <3>1
    <3>3. /\ rest \in Seq(SUBSET Vertices) /\ Len(rest) = Len(scanning)
          /\ \A j \in 1 .. Len(scanning) :
               rest[j] = IF j = 1 THEN scanning[1] \ {file} ELSE scanning[j]
      BY <3>2, ExceptSeq DEF Types
    <3> HIDE DEF rest
    <3> QED BY <3>1, <3>2, <3>3
  <2> HIDE DEF rest
  <2>4. \A w : (\E i \in 1 .. K : w \in rest[i]) => Pending(w)
    <3>1. \A i \in 1 .. K : rest[i] \subseteq scanning[i]
      BY <2>3
    <3> QED BY <2>3, <3>1 DEF Pending
  <2>5. \A w : Pending(w) => w = file \/ \E i \in 1 .. K : w \in rest[i]
    <3>1. \A i \in 1 .. K : i = 1 \/ i \in 2 .. K
      OBVIOUS
    <3> QED BY <2>3, <3>1 DEF Pending
  <2>6. /\ \A w : Pending(w)' =>
             Pending(w) \/ (file \notin out[Node] /\ w \in Pairs(includes, file))
        /\ \A w : Pending(w) => w = file \/ Pending(w)'
        /\ file \notin out[Node] => \A w \in Pairs(includes, file) : Pending(w)'
    <3>1. CASE file \in out[Node]
      <4>1. scanning' = rest
        BY <2>1, <3>1 DEF Recurse, rest
      <4>2. \A w : Pending(w)' <=> \E i \in 1 .. K : w \in rest[i]
        BY <2>3, <4>1 DEF Pending
      <4> QED BY <2>4, <2>5, <3>1, <4>2
    <3>2. CASE file \notin out[Node]
      <4>1. scanning' = <<Pairs(includes, file)>> \o rest
        BY <2>1, <3>2 DEF Recurse, rest
      <4>2. <<Pairs(includes, file)>> \in Seq(SUBSET Vertices)
        BY <1>4
      <4>3. /\ Len(scanning') = K + 1 /\ scanning'[1] = Pairs(includes, file)
            /\ \A i \in 2 .. (K + 1) : scanning'[i] = rest[i - 1]
        BY <2>3, <4>1, <4>2, ConcatProperties
      <4>4. \A w : Pending(w)' <=> \E i \in 1 .. (K + 1) : w \in scanning'[i]
        BY <4>3 DEF Pending
      <4>5. ASSUME NEW w
            PROVE  (\E i \in 1 .. (K + 1) : w \in scanning'[i])
                     <=> w \in Pairs(includes, file) \/ \E i \in 1 .. K : w \in rest[i]
        <5>1. ASSUME NEW i \in 1 .. (K + 1), w \in scanning'[i]
              PROVE  w \in Pairs(includes, file) \/ \E j \in 1 .. K : w \in rest[j]
          <6>1. i = 1 \/ (i \in 2 .. (K + 1) /\ i - 1 \in 1 .. K)
            OBVIOUS
          <6> QED BY <4>3, <5>1, <6>1
        <5>2. ASSUME NEW i \in 1 .. K, w \in rest[i]
              PROVE  \E j \in 1 .. (K + 1) : w \in scanning'[j]
          <6>1. i + 1 \in 2 .. (K + 1) /\ i + 1 \in 1 .. (K + 1) /\ i + 1 - 1 = i
            OBVIOUS
          <6>2. scanning'[i + 1] = rest[i]
            BY <4>3, <6>1
          <6> QED BY <5>2, <6>1, <6>2
        <5>3. 1 \in 1 .. (K + 1)
          OBVIOUS
        <5> QED BY <4>3, <5>1, <5>2, <5>3
      <4> QED BY <2>4, <2>5, <3>2, <4>4, <4>5
    <3> QED BY <3>1, <3>2
  <2>7. Pending(file) /\ (Discovering' <=> Discovering)
    <3>1. 1 \in 1 .. Len(scanning) /\ file \in scanning[1]
      BY <2>1, <2>3
    <3> QED BY <2>1, <3>1 DEF Pending, Discovering
  <2>8. UnscannedAsDeclared'
    BY <1>1, <1>3, <2>2 DEF UnscannedAsDeclared
  <2>9. NothingElseFound'
    <3> SUFFICES ASSUME NEW n \in hasTask, NEW Q \in SUBSET Vertices,
                        Pairs(declared, n) \subseteq Q, Closed(Q)
                 PROVE  out'[n] \subseteq Q /\ (n = Node => \A w : Pending(w)' => w \in Q)
      BY <1>1, <1>2, <1>3 DEF NothingElseFound
    <3>1. out[n] \subseteq Q /\ (n = Node => \A w : Pending(w) => w \in Q)
      BY <1>1 DEF NothingElseFound
    <3>2. CASE n # Node
      BY <1>4, <2>2, <3>1, <3>2
    <3>3. CASE n = Node
      <4>1. file \in Q /\ Pairs(includes, file) \subseteq Q
        BY <2>7, <3>1, <3>3 DEF Closed
      <4> QED BY <2>2, <2>6, <3>1, <3>3, <4>1
    <3> QED BY <3>2, <3>3
  <2>10. ScannedIsComplete'
    <3> SUFFICES ASSUME NEW n \in hasTask, color[n] # "white", n # Node
                 PROVE  Closed(out'[n])
      BY <1>1, <1>2, <2>7 DEF ScannedIsComplete
    <3> QED BY <1>4, <2>2 DEF ScannedIsComplete
  <2>11. ScannedSoFar'
    <3> SUFFICES ASSUME NEW v \in out'[Node],
                        v <= scanned \/ v \notin Pairs(declared, Node),
                        NEW w \in Pairs(includes, v)
                 PROVE  w \in out'[Node] \/ Pending(w)'
      BY <1>1, <1>3, <2>1 DEF ScannedSoFar, Pairs
    <3>1. CASE v \in out[Node]
      <4>1. w \in out[Node] \/ Pending(w)
        BY <1>1, <3>1 DEF ScannedSoFar
      <4> QED BY <2>2, <2>6, <4>1
    <3>2. CASE v \notin out[Node]
      <4>1. v = file
        BY <2>2, <3>2
      <4> QED BY <2>6, <3>2, <4>1
    <3> QED BY <3>1, <3>2
  <2> QED BY <2>8, <2>9, <2>10, <2>11
<1> QED BY <1>5, <1>6, <1>7 DEF Discover

-------------------------------------------------------------------------------
(* The invariant of the whole. *)

IInv == WalkInv /\ Types /\ ScanInv

LEMMA WalkKeepsTypes ==
  ASSUME WalkInv, Types, Walk PROVE Types'
<1>1. UNCHANGED <<declared, includes, hasTask, scanning>> /\ ~Discovering /\ scanning = <<>>
  BY DEF Walk, Visit, TreeEdge, BackEdge, ForwardEdge, FinishVertex, inputs, Walking, Types
<1>2. Discovering' => Node' \in hasTask
  <2>1. CASE TreeEdge(hasTask)
    <3>1. Discovering' => Looking \in hasTask
      BY <2>1 DEF TreeEdge, Discovering
    <3> QED BY <2>1, <3>1, TopDiscovered
  <2>2. CASE BackEdge \/ ForwardEdge \/ FinishVertex
    BY <1>1, <2>2 DEF BackEdge, ForwardEdge, FinishVertex, Discovering
  <2> QED BY <2>1, <2>2 DEF Walk, Visit
<1> QED BY <1>1, <1>2 DEF Types

LEMMA NextPreserves ==
  ASSUME IInv, [Next]_vars PROVE IInv'
<1> USE DEF IInv
<1>1. CASE Discover
  BY <1>1, ScanningAddsEdges, DiscoverKeepsScans
<1>2. CASE Walk
  <2>1. WalkInv'
    BY <1>2, VertexDiscovered, BackEdgeThrows, EdgePassed, VertexFinished DEF Walk, Visit
  <2>2. Types'
    BY <1>2, WalkKeepsTypes
  <2> QED BY <1>2, <2>1, <2>2, WalkKeepsScans
<1>3. CASE UNCHANGED vars
  <2>1. UNCHANGED <<declared, includes, hasTask, out, color, stack, scanned, scanning, order, thrown>>
    BY <1>3 DEF vars, inputs, walkVars
  <2>2. WalkTypes' /\ DiscoveredOnTop' /\ Types'
    BY <2>1 DEF WalkInv, WalkTypes, Types, DiscoveredOnTop, Discovering, Node
  <2>3. WalkInv'
    BY <2>1, <2>2, EdgesAdded
  <2>4. ScanInv'
    <3>1. \A Q : Closed(Q)' <=> Closed(Q)
      BY <2>1 DEF Closed, Pairs
    <3>2. \A w : Pending(w)' <=> Pending(w)
      BY <2>1 DEF Pending
    <3> QED
      BY <2>1, <3>1, <3>2
      DEF ScanInv, UnscannedAsDeclared, NothingElseFound, ScannedIsComplete, ScannedSoFar,
          Pairs, Node, Discovering
  <2> QED BY <2>2, <2>3, <2>4
<1> QED BY <1>1, <1>2, <1>3 DEF Next, Done

\* The inductive invariant, for every graph.
THEOREM InvariantHolds == Spec => []IInv
<1>1. Init => IInv
  BY InitWalks, InitScans DEF IInv
<1>2. IInv /\ [Next]_vars => IInv'
  BY NextPreserves
<1> QED BY <1>1, <1>2, PTL DEF Spec

-------------------------------------------------------------------------------
\* Whatever the graph and the includes, what build_order returns is what
\* parallel_build relies on: closed, without repetitions, the goal last, and an
\* order the theorems about Taskmaster are about (taskmaster.cpp:80-128, 217).
THEOREM BuildOrderIsRight == Spec => []OrderIsRight
<1>1. IInv => OrderIsRight
  BY IsBuildOrderWhenDone DEF IInv, OrderIsRight, Returned
<1> QED BY <1>1, InvariantHolds, PTL

LEMMA ThrownOnCycle ==
  ASSUME WalkInv, thrown PROVE \E n \in ReachableFrom({Goal}, Edges) : OnCycle(n)
<1> USE DEF WalkInv
<1>1. PICK L \in Nat, K \in Nat : L = Len(order) /\ K = Len(stack) /\ Size = L + K
  BY Lengths DEF Size
<1>2. PICK k \in 1 .. K : stack[k].node \in out[stack[1].node]
  BY <1>1 DEF ThrownAtBackEdge
<1> DEFINE n == stack[k].node
           R == ReachableFrom({Goal}, Edges)
           Q == ReachableFrom(out[n], Edges)
<1>3. n \in Vertices /\ Goal \in Vertices /\ out[n] \subseteq Vertices
  BY <1>1, Lengths, VerticesAssumption DEF WalkTypes
<1>4. \A x \in Vertices : Pairs(Edges, x) = out[x]
  BY EdgesOfGraph
<1>5. Edges \subseteq Vertices \X Vertices
  BY EdgesOfGraph
<1>6. R \in SUBSET Vertices /\ Goal \in R /\ \A x \in R : out[x] \subseteq R
  <2>1. /\ R \in SUBSET Vertices /\ {Goal} \subseteq R
        /\ \A x \in R : Pairs(Edges, x) \subseteq R
    BY <1>3, <1>5, ReachableIsLeast
  <2> QED BY <1>4, <2>1
<1>7. Q \in SUBSET Vertices /\ out[n] \subseteq Q /\ \A x \in Q : out[x] \subseteq Q
  <2>1. /\ Q \in SUBSET Vertices /\ out[n] \subseteq Q
        /\ \A x \in Q : Pairs(Edges, x) \subseteq Q
    BY <1>3, <1>5, ReachableIsLeast
  <2> QED BY <1>4, <2>1
<1> HIDE DEF R, Q
<1>8. n \in R
  <2>1. \A i \in 1 .. Size : At(i) \in R
    BY <1>6, AllFromGoal
  <2>2. L + k \in 1 .. (L + K) /\ ~(L + k <= L) /\ L + k - L = k
    OBVIOUS
  <2>3. At(L + k) = n
    BY <1>1, <2>2 DEF At
  <2> QED BY <1>1, <2>1, <2>2, <2>3
<1> DEFINE bad == { j \in 1 .. (k - 1) : stack[j].node \notin Q }
<1>9. bad = {}
  <2> SUFFICES ASSUME bad # {} PROVE FALSE
    OBVIOUS
  <2>1. PICK j \in bad : \A i \in bad : i <= j
    <3>1. k - 1 \in Nat /\ bad \subseteq 1 .. (k - 1)
      OBVIOUS
    <3> HIDE DEF bad
    <3> QED BY <3>1, LargestIndex
  <2>2. j + 1 \in 1 .. Len(stack) /\ j + 1 > 1 /\ j + 1 - 1 = j /\ j + 1 <= k
    BY <1>1
  <2>3. stack[j].node \in out[stack[j + 1].node]
    BY <2>2 DEF PassedEdges
  <2>4. CASE j + 1 = k
    BY <1>7, <2>1, <2>3, <2>4
  <2>5. CASE j + 1 # k
    <3>1. j + 1 \in 1 .. (k - 1) /\ ~(j + 1 <= j)
      BY <2>2, <2>5
    <3>2. stack[j + 1].node \in Q
      BY <2>1, <3>1
    <3> QED BY <1>7, <2>1, <2>3, <3>2
  <2> QED BY <2>4, <2>5
<1>10. n \in Q
  <2>1. CASE k = 1
    BY <1>2, <1>7, <2>1
  <2>2. CASE k # 1
    <3>1. 1 \in 1 .. (k - 1)
      BY <2>2
    <3>2. stack[1].node \in Q
      BY <1>9, <3>1
    <3> QED BY <1>2, <1>7, <3>2
  <2> QED BY <2>1, <2>2
<1>11. OnCycle(n)
  BY <1>10 DEF Q, OnCycle
<1> QED BY <1>8, <1>11 DEF R

LEMMA ReturnedWithoutCycle ==
  ASSUME WalkInv, stack = <<>> PROVE \A n \in ReachableFrom({Goal}, Edges) : ~OnCycle(n)
<1> USE DEF WalkInv
<1>1. /\ DOMAIN order = 1 .. Len(order) /\ Len(order) \in Nat
      /\ Ordered = ReachableFrom({Goal}, Edges)
  BY WalkReturned, OrderIsClosed
<1> SUFFICES ASSUME NEW i \in 1 .. Len(order) PROVE ~OnCycle(order[i])
  BY <1>1 DEF Ordered
<1> DEFINE n == order[i]
           Q == { order[j] : j \in 1 .. (i - 1) }
<1>2. \A j \in 1 .. (i - 1) : j \in 1 .. Len(order) /\ j # i /\ order[j] \in Vertices
  BY <1>1, Lengths
<1>3. Q \in SUBSET Vertices /\ n \notin Q /\ n \in Vertices
  BY <1>2, OrderedOnce, Lengths
<1>4. out[n] \subseteq Q
  BY DEF DependenciesAreBefore
<1>5. ASSUME NEW j \in 1 .. (i - 1), NEW v \in out[order[j]] PROVE v \in Q
  <2>1. PICK l \in 1 .. (j - 1) : order[l] = v
    BY <1>2 DEF DependenciesAreBefore
  <2>2. l \in 1 .. (i - 1)
    BY <1>1
  <2> QED BY <2>1, <2>2
<1>6. \A x \in Q : Pairs(Edges, x) \subseteq Q
  <2>1. \A x \in Q : Pairs(Edges, x) = out[x]
    BY <1>3, EdgesOfGraph
  <2> QED BY <1>5, <2>1
<1> HIDE DEF Q
<1>7. ReachableFrom(out[n], Edges) \subseteq Q
  <2>1. out[n] \in SUBSET Vertices /\ Edges \subseteq Vertices \X Vertices
    BY <1>3, EdgesOfGraph
  <2> QED BY <1>3, <1>4, <1>6, <2>1, ReachableIsLeast
<1> QED BY <1>3, <1>7 DEF OnCycle

\* not_a_dag is thrown only if there is a cycle below the goal, and if there is
\* one the walk does not return: taskmaster.cpp:85, for cycles of any length.
THEOREM CyclesAreFound == Spec => []ThrownForCycles
<1>1. IInv => ThrownForCycles
  BY ThrownOnCycle, ReturnedWithoutCycle DEF IInv, ThrownForCycles, Returned
<1> QED BY <1>1, InvariantHolds, PTL

\* Whatever includes whatever, a finished node has exactly the edges it should:
\* scan_cpp.cpp:107 loses no include by recursing only into new edges, and
\* taskmaster.cpp:91 none by iterating over the list it inserts into.
THEOREM IncludesAreFound == Spec => []IncludesAreDependencies
<1>1. IInv => IncludesAreDependencies
  <2> USE DEF IInv, WalkInv, ScanInv
  <2> SUFFICES ASSUME IInv, NEW i \in DOMAIN order
               PROVE  out[order[i]] = IF order[i] \in hasTask
                                      THEN ReachableFrom(Pairs(declared, order[i]), includes)
                                      ELSE Pairs(declared, order[i])
    BY DEF IncludesAreDependencies
  <2> DEFINE n == order[i]
  <2>1. i \in 1 .. Len(order)
    BY LenProperties DEF WalkTypes
  <2>2. n \in Vertices /\ color[n] = "black"
    BY <2>1, Lengths DEF ColorsAreRight
  <2>3. CASE n \notin hasTask
    BY <2>2, <2>3 DEF UnscannedAsDeclared
  <2>4. CASE n \in hasTask
    <3>1. ~(Discovering /\ n = Node)
      <4>1. Discovering => 1 \in 1 .. Len(stack)
        BY Lengths DEF DiscoveredOnTop
      <4>2. Discovering => color[Node] = "gray"
        BY <4>1, Lengths DEF ColorsAreRight, Node
      <4> QED BY <2>2, <4>2
    <3>2. \A v \in out[n] : Pairs(includes, v) \subseteq out[n]
      BY <2>2, <2>4, <3>1 DEF ScannedIsComplete, Closed
    <3>3. Pairs(declared, n) \subseteq out[n] /\ out[n] \in SUBSET Vertices
      BY <2>2 DEF UnscannedAsDeclared, WalkTypes
    <3>4. \A Q \in SUBSET Vertices :
            Pairs(declared, n) \subseteq Q /\ (\A v \in Q : Pairs(includes, v) \subseteq Q)
            => out[n] \subseteq Q
      BY <2>4 DEF NothingElseFound, Closed
    <3>5. ReachableFrom(Pairs(declared, n), includes) = out[n]
      <4>1. PICK S, rel, R : S = Pairs(declared, n) /\ rel = includes /\ R = out[n]
        OBVIOUS
      <4>2. R \in SUBSET Vertices /\ S \subseteq R /\ \A v \in R : Pairs(rel, v) \subseteq R
        BY <3>2, <3>3, <4>1
      <4>3. \A Q \in SUBSET Vertices :
              S \subseteq Q /\ (\A v \in Q : Pairs(rel, v) \subseteq Q) => R \subseteq Q
        BY <3>4, <4>1
      <4>4. ReachableFrom(S, rel) = R
        BY <4>2, <4>3, LeastIsReachable
      <4> QED BY <4>1, <4>4
    <3> QED BY <2>4, <3>5
  <2> QED BY <2>3, <2>4
<1> QED BY <1>1, InvariantHolds, PTL

===============================================================================
