------------------------ MODULE DepthFirstVisit_proofs -------------------------
(* Proofs about the walk for every graph, whatever edges scanning adds to     *)
(* nodes the walk has not come to yet and to the one it discovers.            *)
EXTENDS DepthFirstVisit, SequenceTheorems, WellFoundedInduction, TLAPS

-------------------------------------------------------------------------------
(* The invariant.  The order so far and then the stack, top first, list nodes *)
(* in the order they would finish in if nothing else were discovered.         *)

At(i) == IF i <= Len(order) THEN order[i] ELSE stack[i - Len(order)].node

Size == Len(order) + Len(stack)

WalkTypes ==
  /\ out \in [Vertices -> SUBSET Vertices]
  /\ color \in [Vertices -> {"white", "gray", "black"}]
  /\ stack \in Seq([node : Vertices, next : 0 .. End])
  /\ scanned \in 0 .. End
  /\ order \in Seq(Vertices) /\ thrown \in BOOLEAN

\* Discovering is the first thing done with the frame on top.
DiscoveredOnTop == Discovering => stack # <<>> /\ stack[1].next = 0

ColorsAreRight ==
  \A n \in Vertices :
    /\ color[n] = "black" <=> \E i \in 1 .. Len(order) : order[i] = n
    /\ color[n] = "gray" <=> \E k \in 1 .. Len(stack) : stack[k].node = n

NothingTwice == \A i, j \in 1 .. Size : At(i) = At(j) => i = j

GoalIsLast == Size > 0 /\ At(Size) = Goal

DependenciesAreBefore ==
  \A i \in 1 .. Len(order) : \A v \in out[order[i]] : \E j \in 1 .. (i - 1) : order[j] = v

\* A frame has passed the edges before its next one: they lead to finished nodes,
\* except the one to the frame above.
PassedEdges ==
  \A k \in 1 .. Len(stack) :
    /\ stack[k].next \in out[stack[k].node] \cup {0, End}
    /\ k > 1 => stack[k - 1].node \in out[stack[k].node]
    /\ \A v \in out[stack[k].node] :
         v < stack[k].next => color[v] = "black" \/ (k > 1 /\ v = stack[k - 1].node)

\* parent is the search tree so far.
IsTree(parent) ==
  \A i \in 1 .. (Size - 1) :
    /\ parent[i] > i
    /\ At(i) \in out[At(parent[i])]
    /\ \A j \in (i + 1) .. (parent[i] - 1) : parent[j] <= parent[i]
    /\ i > Len(order) => parent[i] = i + 1

HasTree == \E parent \in [1 .. (Size - 1) -> 1 .. Size] : IsTree(parent)

\* A back edge closes a cycle of the nodes on the stack.
ThrownAtBackEdge ==
  thrown => \E k \in 1 .. Len(stack) : stack[k].node \in out[stack[1].node]

WalkInv ==
  /\ WalkTypes /\ DiscoveredOnTop /\ ColorsAreRight /\ NothingTwice /\ GoalIsLast
  /\ DependenciesAreBefore /\ PassedEdges /\ HasTree /\ ThrownAtBackEdge

-------------------------------------------------------------------------------
(* Edge lists and sequences. *)

LEMMA MinIsLeast ==
  ASSUME NEW S, S \subseteq Nat, S # {}
  PROVE  Min(S) \in S /\ \A x \in S : Min(S) <= x
<1>1. PICK u \in S : \A v \in S : <<v, u>> \notin OpToRel(<, Nat)
  BY WFMin, NatLessThanWellFounded
<1>2. ASSUME NEW v \in S PROVE u <= v
  <2>1. u \in Nat /\ v \in Nat /\ ~(v < u)
    BY <1>1 DEF OpToRel
  <2> QED BY <2>1
<1> QED BY <1>2 DEF Min

LEMMA PairsAreVertices ==
  ASSUME NEW rel, rel \subseteq Vertices \X Vertices, NEW n PROVE Pairs(rel, n) \subseteq Vertices
BY DEF Pairs

LEMMA NextEdgeIsNext ==
  ASSUME out \in [Vertices -> SUBSET Vertices], NEW n \in Vertices, NEW v \in Nat
  PROVE  /\ NextEdge(n, v) \in out[n] \cup {End} /\ NextEdge(n, v) \in 1 .. End
         /\ v <= M => NextEdge(n, v) > v
         /\ \A w \in out[n] : w < NextEdge(n, v) => w <= v
<1> DEFINE later == { w \in out[n] : w > v }
<1>1. out[n] \subseteq 1 .. M /\ M \in Nat /\ End = M + 1
  BY VerticesAssumption DEF Vertices, End
<1>2. CASE later = {}
  <2>1. NextEdge(n, v) = End
    BY <1>2 DEF NextEdge
  <2>2. \A w \in out[n] : w <= v
    BY <1>1, <1>2
  <2> QED BY <1>1, <2>1, <2>2
<1>3. CASE later # {}
  <2>1. NextEdge(n, v) = Min(later)
    BY <1>3 DEF NextEdge
  <2>2. Min(later) \in later /\ \A x \in later : Min(later) <= x
    BY <1>1, <1>3, MinIsLeast
  <2>3. \A w \in out[n] : w < Min(later) => w <= v
    BY <1>1, <2>2
  <2> QED BY <1>1, <2>1, <2>2, <2>3
<1> QED BY <1>2, <1>3

LEMMA Popped ==
  ASSUME NEW S, NEW s \in Seq(S), s # <<>>
  PROVE  /\ Tail(s) \in Seq(S) /\ Len(s) \in Nat \ {0} /\ Len(Tail(s)) = Len(s) - 1
         /\ \A i \in 1 .. (Len(s) - 1) : Tail(s)[i] = s[i + 1]
BY HeadTailProperties, EmptySeq

LEMMA Pushed ==
  ASSUME NEW S, NEW s \in Seq(S), s # <<>>, NEW a \in S, NEW b \in S
  PROVE  LET p == <<a, b>> \o Tail(s) IN
         /\ p \in Seq(S) /\ Len(p) = Len(s) + 1
         /\ p[1] = a /\ p[2] = b /\ \A i \in 3 .. (Len(s) + 1) : p[i] = s[i - 1]
<1>1. <<a, b>> \in Seq(S) /\ Len(<<a, b>>) = 2 /\ <<a, b>>[1] = a /\ <<a, b>>[2] = b
  OBVIOUS
<1>2. /\ Tail(s) \in Seq(S) /\ Len(s) \in Nat \ {0} /\ Len(Tail(s)) = Len(s) - 1
      /\ \A i \in 1 .. (Len(s) - 1) : Tail(s)[i] = s[i + 1]
  BY Popped
<1> DEFINE p == <<a, b>> \o Tail(s)
<1>3. /\ p \in Seq(S) /\ Len(p) = 2 + (Len(s) - 1)
      /\ \A i \in 1 .. 2 + (Len(s) - 1) :
           p[i] = IF i <= 2 THEN <<a, b>>[i] ELSE Tail(s)[i - 2]
  BY <1>1, <1>2, ConcatProperties
<1> HIDE DEF p
<1>4. Len(p) = Len(s) + 1 /\ p[1] = a /\ p[2] = b
  BY <1>1, <1>2, <1>3
<1>5. ASSUME NEW i \in 3 .. (Len(s) + 1) PROVE p[i] = s[i - 1]
  <2>1. i - 2 \in 1 .. (Len(s) - 1) /\ (i - 2) + 1 = i - 1 /\ i \in 1 .. 2 + (Len(s) - 1) /\ ~(i <= 2)
    BY <1>2
  <2> QED BY <1>2, <1>3, <2>1
<1> QED BY <1>3, <1>4, <1>5 DEF p

-------------------------------------------------------------------------------
(* The walk. *)

AtStart ==
  /\ out \in [Vertices -> SUBSET Vertices]
  /\ color = [n \in Vertices |-> IF n = Goal THEN "gray" ELSE "white"]
  /\ stack = <<StartAtGoal>>
  /\ scanned = End /\ order = <<>> /\ thrown = FALSE

LEMMA StartWalks == AtStart => WalkInv
<1> SUFFICES ASSUME AtStart PROVE WalkInv
  OBVIOUS
<1>1. /\ order = <<>> /\ Len(order) = 0 /\ Len(stack) = 1
      /\ stack[1] = [node |-> Goal, next |-> 0] /\ Size = 1 /\ At(1) = Goal
      /\ M \in Nat /\ End = M + 1 /\ Goal \in Vertices
  BY VerticesAssumption DEF AtStart, StartAtGoal, Size, At, End
<1>2. WalkTypes
  <2>1. stack \in Seq([node : Vertices, next : 0 .. End])
    <3>1. [node |-> Goal, next |-> 0] \in [node : Vertices, next : 0 .. End]
      BY <1>1
    <3> QED BY <3>1 DEF AtStart, StartAtGoal
  <2>2. /\ out \in [Vertices -> SUBSET Vertices]
        /\ color \in [Vertices -> {"white", "gray", "black"}]
    BY DEF AtStart
  <2>3. scanned = End /\ order = <<>> /\ thrown = FALSE
    BY DEF AtStart
  <2>4. scanned \in 0 .. End
    BY <1>1, <2>3
  <2> QED BY <2>1, <2>2, <2>3, <2>4, EmptySeq DEF WalkTypes
<1>3. DiscoveredOnTop /\ NothingTwice /\ GoalIsLast /\ DependenciesAreBefore /\ ThrownAtBackEdge
  BY <1>1 DEF AtStart, DiscoveredOnTop, Discovering, NothingTwice, GoalIsLast,
              DependenciesAreBefore, ThrownAtBackEdge
<1>4. ColorsAreRight
  BY <1>1 DEF AtStart, ColorsAreRight
<1>5. PassedEdges
  <2>1. \A v \in out[Goal] : ~(v < 0)
    BY <1>1, <1>2 DEF WalkTypes, Vertices
  <2> QED BY <1>1, <2>1 DEF PassedEdges
<1>6. HasTree
  <2>1. [i \in 1 .. 0 |-> 1] \in [1 .. (Size - 1) -> 1 .. Size]
    BY <1>1
  <2>2. IsTree([i \in 1 .. 0 |-> 1])
    BY <1>1 DEF IsTree
  <2> QED BY <2>1, <2>2 DEF HasTree
<1> QED BY <1>2, <1>3, <1>4, <1>5, <1>6 DEF WalkInv

LEMMA Lengths ==
  ASSUME WalkTypes
  PROVE  /\ Len(order) \in Nat /\ Len(stack) \in Nat /\ M \in Nat /\ End = M + 1
         /\ \A i \in 1 .. Len(order) : order[i] \in Vertices
         /\ \A k \in 1 .. Len(stack) :
              stack[k].node \in Vertices /\ stack[k].next \in 0 .. End
         /\ stack # <<>> => 1 \in 1 .. Len(stack)
<1> DEFINE Frame == [node : Vertices, next : 0 .. End]
<1>1. Len(order) \in Nat /\ Len(stack) \in Nat /\ M \in Nat /\ End = M + 1
  BY VerticesAssumption, LenProperties DEF WalkTypes, End
<1>2. \A i \in 1 .. Len(order) : order[i] \in Vertices
  BY ElementOfSeq DEF WalkTypes
<1>3. \A k \in 1 .. Len(stack) : stack[k] \in Frame
  BY ElementOfSeq DEF WalkTypes
<1>4. stack # <<>> => Len(stack) \in Nat \ {0}
  BY EmptySeq DEF WalkTypes
<1> QED BY <1>1, <1>2, <1>3, <1>4

LEMMA FramesDiffer ==
  ASSUME WalkInv, NEW j \in 1 .. Len(stack), NEW k \in 1 .. Len(stack),
         stack[j].node = stack[k].node
  PROVE  j = k
<1>1. PICK L \in Nat, K \in Nat : L = Len(order) /\ K = Len(stack)
  BY Lengths DEF WalkInv
<1>2. /\ L + j \in 1 .. (L + K) /\ L + k \in 1 .. (L + K)
      /\ ~(L + j <= L) /\ ~(L + k <= L) /\ L + j - L = j /\ L + k - L = k
  BY <1>1
<1>3. At(L + j) = At(L + k)
  BY <1>1, <1>2 DEF At
<1>4. L + j = L + k
  BY <1>1, <1>2, <1>3 DEF WalkInv, NothingTwice, Size
<1> QED BY <1>1, <1>4

LEMMA OrderedOnce ==
  ASSUME WalkInv, NEW i \in 1 .. Len(order), NEW j \in 1 .. Len(order), order[i] = order[j]
  PROVE  i = j
<1>1. Len(order) \in Nat /\ Len(stack) \in Nat /\ Size = Len(order) + Len(stack)
  BY Lengths DEF WalkInv, Size
<1>2. i \in 1 .. Size /\ j \in 1 .. Size
  BY <1>1
<1>3. At(i) = order[i] /\ At(j) = order[j]
  BY <1>1 DEF At
<1> QED BY <1>2, <1>3 DEF WalkInv, NothingTwice

LEMMA GoalReached == ASSUME WalkInv PROVE color[Goal] # "white"
<1>1. /\ Len(order) \in Nat /\ Len(stack) \in Nat /\ Size = Len(order) + Len(stack)
      /\ Size > 0 /\ At(Size) = Goal /\ Goal \in Vertices
  BY Lengths, VerticesAssumption DEF WalkInv, Size, GoalIsLast
<1>2. CASE Size <= Len(order)
  <2>1. Size \in 1 .. Len(order) /\ order[Size] = Goal
    BY <1>1, <1>2 DEF At
  <2>2. color[Goal] = "black"
    BY <1>1, <2>1 DEF WalkInv, ColorsAreRight
  <2> QED BY <2>2
<1>3. CASE ~(Size <= Len(order))
  <2>1. Size - Len(order) \in 1 .. Len(stack) /\ stack[Size - Len(order)].node = Goal
    BY <1>1, <1>3 DEF At
  <2>2. color[Goal] = "gray"
    BY <1>1, <2>1 DEF WalkInv, ColorsAreRight
  <2> QED BY <2>2
<1> QED BY <1>2, <1>3

\* What scanning does: edges are added to nodes the walk has not come to, and to
\* the frame on top before it looks at any.
LEMMA EdgesAdded ==
  ASSUME WalkInv, WalkTypes', DiscoveredOnTop', UNCHANGED <<color, stack, order, thrown>>,
         \A n \in Vertices : out[n] \subseteq out'[n],
         \A n \in Vertices : out'[n] # out[n] =>
           color[n] = "white" \/ (stack # <<>> /\ n = stack[1].node /\ stack[1].next = 0)
  PROVE  WalkInv'
<1> USE DEF WalkInv
<1>1. \A i : At(i)' = At(i)
  BY DEF At
<1>2. Size' = Size
  BY DEF Size
<1>3. ColorsAreRight' /\ NothingTwice' /\ GoalIsLast'
  BY <1>1, <1>2 DEF ColorsAreRight, NothingTwice, GoalIsLast
<1>4. DependenciesAreBefore'
  <2>1. ASSUME NEW i \in 1 .. Len(order) PROVE out'[order[i]] = out[order[i]]
    <3>1. order[i] \in Vertices /\ color[order[i]] = "black"
      BY Lengths DEF ColorsAreRight
    <3>2. stack # <<>> => stack[1].node # order[i]
      BY <3>1, Lengths DEF ColorsAreRight
    <3> QED BY <3>1, <3>2
  <2> QED BY <2>1 DEF DependenciesAreBefore
<1>5. PassedEdges'
  <2> SUFFICES ASSUME NEW k \in 1 .. Len(stack)
               PROVE  /\ stack[k].next \in out'[stack[k].node] \cup {0, End}
                      /\ k > 1 => stack[k - 1].node \in out'[stack[k].node]
                      /\ \A v \in out'[stack[k].node] : v < stack[k].next =>
                           color[v] = "black" \/ (k > 1 /\ v = stack[k - 1].node)
    BY DEF PassedEdges
  <2>1. stack[k].node \in Vertices /\ out[stack[k].node] \subseteq out'[stack[k].node]
    BY Lengths
  <2>2. CASE out'[stack[k].node] = out[stack[k].node]
    BY <2>2 DEF PassedEdges
  <2>3. CASE out'[stack[k].node] # out[stack[k].node]
    <3>3. color[stack[k].node] = "gray"
      BY <2>1 DEF ColorsAreRight
    <3>1. k = 1 /\ stack[k].next = 0
      <4>1. stack # <<>> /\ stack[k].node = stack[1].node /\ stack[1].next = 0
        BY <2>1, <2>3, <3>3
      <4>2. 1 \in 1 .. Len(stack)
        BY <4>1, Lengths
      <4> QED BY <4>1, <4>2, FramesDiffer
    <3>2. \A v \in out'[stack[k].node] : ~(v < 0)
      <4>1. out'[stack[k].node] \subseteq Vertices
        BY <2>1 DEF WalkTypes
      <4>2. \A v \in Vertices : ~(v < 0)
        BY VerticesAssumption DEF Vertices
      <4> QED BY <4>1, <4>2
    <3> QED BY <3>1, <3>2
  <2> QED BY <2>2, <2>3
<1>6. HasTree'
  <2>1. PICK parent \in [1 .. (Size - 1) -> 1 .. Size] : IsTree(parent)
    BY DEF HasTree
  <2>2. \A i \in 1 .. Size : At(i) \in Vertices
    <3> SUFFICES ASSUME NEW i \in 1 .. Size PROVE At(i) \in Vertices
      OBVIOUS
    <3>1. PICK L \in Nat, K \in Nat : L = Len(order) /\ K = Len(stack) /\ Size = L + K
      BY Lengths DEF Size
    <3>2. i <= L \/ i - L \in 1 .. K
      BY <3>1
    <3> QED BY <3>1, <3>2, Lengths DEF At
  <2>3. IsTree(parent)'
    <3> SUFFICES ASSUME NEW i \in 1 .. (Size - 1)
                 PROVE  /\ parent[i] > i
                        /\ At(i) \in out'[At(parent[i])]
                        /\ \A j \in (i + 1) .. (parent[i] - 1) : parent[j] <= parent[i]
                        /\ i > Len(order) => parent[i] = i + 1
      BY <1>1, <1>2 DEF IsTree
    <3>1. At(parent[i]) \in Vertices
      BY <2>1, <2>2
    <3> QED BY <2>1, <3>1 DEF IsTree
  <2> QED BY <1>2, <2>1, <2>3 DEF HasTree
<1>7. ThrownAtBackEdge'
  BY Lengths DEF ThrownAtBackEdge, WalkTypes
<1> QED BY <1>3, <1>4, <1>5, <1>6, <1>7

\* What the top frame looks at: it has passed all edges before.
LEMMA LookingIsRight ==
  ASSUME WalkInv, Walking
  PROVE  /\ Node \in Vertices /\ Looking \in 1 .. End /\ Looking \in out[Node] \cup {End}
         /\ \A v \in out[Node] : v < Looking => color[v] = "black"
         /\ 1 \in 1 .. Len(stack) /\ color[Node] = "gray"
<1> USE DEF WalkInv
<1>1. /\ 1 \in 1 .. Len(stack) /\ Node \in Vertices /\ stack[1].next \in 0 .. End
      /\ M \in Nat /\ End = M + 1 /\ out[Node] \subseteq Vertices
  BY Lengths DEF Walking, Node, WalkTypes
<1>2. /\ stack[1].next \in out[Node] \cup {0, End}
      /\ \A v \in out[Node] : v < stack[1].next => color[v] = "black"
  BY <1>1 DEF PassedEdges, Node
<1>3. color[Node] = "gray"
  BY <1>1 DEF ColorsAreRight, Node
<1>4. CASE stack[1].next = 0
  <2>1. Looking = NextEdge(Node, 0)
    BY <1>4 DEF Looking
  <2>2. /\ NextEdge(Node, 0) \in out[Node] \cup {End} /\ NextEdge(Node, 0) \in 1 .. End
        /\ \A w \in out[Node] : w < NextEdge(Node, 0) => w <= 0
    BY <1>1, NextEdgeIsNext DEF WalkTypes
  <2>3. \A v \in out[Node] : ~(v <= 0)
    BY <1>1 DEF Vertices
  <2> QED BY <1>1, <1>3, <2>1, <2>2, <2>3
<1>5. CASE stack[1].next # 0
  BY <1>1, <1>2, <1>3, <1>5 DEF Looking
<1> QED BY <1>4, <1>5

LEMMA TopDiscovered ==
  ASSUME WalkInv, NEW hasTask, TreeEdge(hasTask) PROVE Node' = Looking
<1> USE DEF WalkInv
<1> DEFINE a == [node |-> Looking, next |-> 0]
           b == [node |-> Node, next |-> NextEdge(Node, Looking)]
<1>1. stack' = <<a, b>> \o Tail(stack) /\ Looking # End /\ Walking /\ stack # <<>>
  BY DEF TreeEdge, Walking
<1>2. Node \in Vertices /\ Looking \in Vertices /\ Looking \in Nat
  BY <1>1, LookingIsRight DEF WalkTypes, Vertices
<1>3. NextEdge(Node, Looking) \in 1 .. End
  BY <1>2, NextEdgeIsNext DEF WalkTypes
<1>7. 1 .. End \subseteq 0 .. End /\ 0 \in 0 .. End
  BY Lengths
<1>4. a \in [node : Vertices, next : 0 .. End] /\ b \in [node : Vertices, next : 0 .. End]
  BY <1>2, <1>3, <1>7
<1>5. a.node = Looking
  OBVIOUS
<1> HIDE DEF a, b
<1>6. stack'[1] = a
  BY <1>1, <1>4, Pushed DEF WalkTypes
<1> QED BY <1>5, <1>6 DEF Node

LEMMA BackEdgeThrows ==
  ASSUME WalkInv, BackEdge PROVE WalkInv'
<1> USE DEF WalkInv
<1>1. /\ UNCHANGED <<out, color, stack, scanned, order>>
      /\ thrown' = TRUE /\ color[Looking] = "gray" /\ Looking # End /\ Walking
  BY DEF BackEdge, IsBackEdge
<1>2. \E k \in 1 .. Len(stack) : stack[k].node \in out[stack[1].node]
  <2>1. Looking \in out[Node] /\ Looking \in Vertices
    BY <1>1, LookingIsRight DEF WalkTypes
  <2> QED BY <1>1, <2>1 DEF ColorsAreRight, Node
<1>3. ThrownAtBackEdge'
  BY <1>1, <1>2 DEF ThrownAtBackEdge
<1>4. \A i : At(i)' = At(i)
  BY <1>1 DEF At
<1>5. Size' = Size
  BY <1>1 DEF Size
<1>6. HasTree'
  <2>1. \A parent : IsTree(parent)' <=> IsTree(parent)
    BY <1>1, <1>4, <1>5 DEF IsTree
  <2> QED BY <1>5, <2>1 DEF HasTree
<1>7. WalkTypes' /\ DiscoveredOnTop' /\ ColorsAreRight' /\ DependenciesAreBefore' /\ PassedEdges'
  BY <1>1 DEF WalkTypes, DiscoveredOnTop, Discovering, ColorsAreRight, DependenciesAreBefore, PassedEdges
<1>8. NothingTwice' /\ GoalIsLast'
  BY <1>4, <1>5 DEF NothingTwice, GoalIsLast
<1> QED BY <1>3, <1>6, <1>7, <1>8

LEMMA EdgePassed ==
  ASSUME WalkInv, ForwardEdge PROVE WalkInv'
<1> USE DEF WalkInv
<1> DEFINE next == NextEdge(Node, Looking)
<1>1. /\ UNCHANGED <<out, color, scanned, order, thrown>>
      /\ stack' = [stack EXCEPT ![1].next = next]
      /\ Walking /\ Looking # End /\ color[Looking] \notin {"white", "gray"}
  BY DEF ForwardEdge, IsBackEdge
<1>2. /\ Node \in Vertices /\ Looking \in out[Node] /\ Looking \in Vertices /\ Looking \in Nat
      /\ \A v \in out[Node] : v < Looking => color[v] = "black"
      /\ 1 \in 1 .. Len(stack) /\ out[Node] \subseteq Vertices
  BY <1>1, LookingIsRight DEF WalkTypes
<1>3. /\ next \in out[Node] \cup {End} /\ next \in 0 .. End
      /\ \A w \in out[Node] : w < next => w <= Looking
  <2>1. /\ next \in out[Node] \cup {End} /\ next \in 1 .. End
        /\ \A w \in out[Node] : w < next => w <= Looking
    BY <1>2, NextEdgeIsNext DEF WalkTypes
  <2>2. 1 .. End \subseteq 0 .. End
    BY Lengths
  <2> QED BY <2>1, <2>2
<1> HIDE DEF next
<1>4. /\ stack' \in Seq([node : Vertices, next : 0 .. End]) /\ Len(stack') = Len(stack)
      /\ stack'[1].node = Node /\ stack'[1].next = next
      /\ \A k \in 1 .. Len(stack) : k # 1 => stack'[k] = stack[k]
  <2> DEFINE Frame == [node : Vertices, next : 0 .. End]
             new == [stack[1] EXCEPT !.next = next]
  <2>1. stack[1] \in Frame
    BY <1>2, ElementOfSeq DEF WalkTypes
  <2>2. new \in Frame /\ new.node = Node /\ new.next = next
    BY <1>3, <2>1 DEF Node
  <2>3. stack' = [stack EXCEPT ![1] = new]
    BY <1>1
  <2> HIDE DEF new
  <2> QED BY <1>2, <2>2, <2>3, ExceptSeq DEF WalkTypes
<1>5. \A k \in 1 .. Len(stack) : stack'[k].node = stack[k].node
  BY <1>4 DEF Node
<1>6. Size' = Size
  BY <1>1, <1>4 DEF Size
<1>7. \A i \in 1 .. Size : At(i)' = At(i)
  <2> SUFFICES ASSUME NEW i \in 1 .. Size PROVE At(i)' = At(i)
    OBVIOUS
  <2>1. i <= Len(order) \/ i - Len(order) \in 1 .. Len(stack)
    BY Lengths DEF Size
  <2> QED BY <1>1, <1>5, <2>1 DEF At
<1>8. WalkTypes'
  BY <1>1, <1>4 DEF WalkTypes
<1>9. DiscoveredOnTop' /\ ThrownAtBackEdge'
  BY <1>1 DEF Walking, DiscoveredOnTop, Discovering, ThrownAtBackEdge
<1>10. ColorsAreRight'
  <2> SUFFICES ASSUME NEW n \in Vertices
               PROVE  /\ color[n] = "black" <=> \E i \in 1 .. Len(order) : order[i] = n
                      /\ color[n] = "gray" <=> \E k \in 1 .. Len(stack) : stack'[k].node = n
    BY <1>1, <1>4 DEF ColorsAreRight
  <2>1. (\E k \in 1 .. Len(stack) : stack'[k].node = n)
          <=> \E k \in 1 .. Len(stack) : stack[k].node = n
    BY <1>5
  <2>2. color[n] = "gray" <=> \E k \in 1 .. Len(stack) : stack[k].node = n
    BY DEF ColorsAreRight
  <2>3. color[n] = "black" <=> \E i \in 1 .. Len(order) : order[i] = n
    BY DEF ColorsAreRight
  <2> QED BY <2>1, <2>2, <2>3
<1>11. NothingTwice' /\ GoalIsLast'
  <2>1. Size > 0 => Size \in 1 .. Size
    BY Lengths DEF Size
  <2> QED BY <1>6, <1>7, <2>1 DEF NothingTwice, GoalIsLast
<1>12. DependenciesAreBefore'
  BY <1>1 DEF DependenciesAreBefore
<1>13. PassedEdges'
  <2> SUFFICES ASSUME NEW k \in 1 .. Len(stack)
               PROVE  /\ stack'[k].next \in out[stack[k].node] \cup {0, End}
                      /\ k > 1 => stack'[k - 1].node \in out[stack[k].node]
                      /\ \A v \in out[stack[k].node] : v < stack'[k].next =>
                           color[v] = "black" \/ (k > 1 /\ v = stack'[k - 1].node)
    BY <1>1, <1>4, <1>5 DEF PassedEdges
  <2>1. CASE k = 1
    <3>1. \A v \in out[Node] : v < next => v < Looking \/ v = Looking
      BY <1>2, <1>3 DEF Vertices
    <3>2. color[Looking] = "black"
      BY <1>1, <1>2 DEF WalkTypes
    <3> QED BY <1>2, <1>3, <1>4, <2>1, <3>1, <3>2 DEF Node
  <2>2. CASE k # 1
    <3>1. k > 1 /\ k - 1 \in 1 .. Len(stack) /\ stack'[k - 1].node = stack[k - 1].node
      BY <1>5, <2>2, Lengths
    <3> QED BY <1>4, <2>2, <3>1 DEF PassedEdges
  <2> QED BY <2>1, <2>2
<1>14. HasTree'
  <2>1. PICK parent \in [1 .. (Size - 1) -> 1 .. Size] : IsTree(parent)
    BY DEF HasTree
  <2>2. \A i \in 1 .. (Size - 1) : i \in 1 .. Size /\ parent[i] \in 1 .. Size
    <3>1. PICK n \in Nat : n = Size
      BY Lengths DEF Size
    <3> QED BY <2>1, <3>1
  <2>3. IsTree(parent)'
    BY <1>1, <1>6, <1>7, <2>1, <2>2 DEF IsTree
  <2> QED BY <1>6, <2>1, <2>3 DEF HasTree
<1> QED BY <1>8, <1>9, <1>10, <1>11, <1>12, <1>13, <1>14

LEMMA VertexFinished ==
  ASSUME WalkInv, FinishVertex PROVE WalkInv'
<1> USE DEF WalkInv
<1>1. /\ UNCHANGED <<out, scanned, thrown>>
      /\ color' = [color EXCEPT ![Node] = "black"]
      /\ order' = Append(order, Node) /\ stack' = Tail(stack)
      /\ Walking /\ Looking = End /\ stack # <<>>
  BY DEF FinishVertex, Walking
<1>2. /\ Node \in Vertices /\ \A v \in out[Node] : color[v] = "black"
      /\ out[Node] \subseteq Vertices
  <2>1. Node \in Vertices /\ \A v \in out[Node] : v < End => color[v] = "black"
    BY <1>1, LookingIsRight
  <2>2. out[Node] \subseteq 1 .. M /\ M \in Nat /\ End = M + 1
    BY <2>1, Lengths DEF WalkTypes, Vertices
  <2>3. \A v \in out[Node] : v < End
    BY <2>2
  <2> QED BY <2>1, <2>2, <2>3 DEF Vertices
<1>3. PICK L \in Nat, K \in Nat \ {0} : L = Len(order) /\ K = Len(stack) /\ Size = L + K
  BY <1>1, Lengths, EmptySeq DEF WalkTypes, Size
<1>4. /\ order' \in Seq(Vertices) /\ Len(order') = L + 1 /\ order'[L + 1] = Node
      /\ \A i \in 1 .. L : order'[i] = order[i]
  BY <1>1, <1>2, <1>3 DEF WalkTypes
<1>5. /\ stack' \in Seq([node : Vertices, next : 0 .. End]) /\ Len(stack') = K - 1
      /\ \A k \in 1 .. (K - 1) : stack'[k] = stack[k + 1]
  BY <1>1, <1>3, Popped DEF WalkTypes
<1>6. Size' = Size
  BY <1>3, <1>4, <1>5 DEF Size
<1>7. \A i \in 1 .. Size : At(i)' = At(i)
  <2> SUFFICES ASSUME NEW i \in 1 .. (L + K) PROVE At(i)' = At(i)
    BY <1>3
  <2>1. CASE i <= L
    BY <1>3, <1>4, <2>1 DEF At
  <2>2. CASE i = L + 1
    <3>1. ~(i <= L) /\ i - L = 1 /\ i <= L + 1
      BY <2>2
    <3> QED BY <1>3, <1>4, <2>2, <3>1 DEF At, Node
  <2>3. CASE i > L + 1
    <3>1. ~(i <= L) /\ ~(i <= L + 1) /\ i - (L + 1) \in 1 .. (K - 1) /\ i - (L + 1) + 1 = i - L
      BY <2>3
    <3> QED BY <1>3, <1>4, <1>5, <3>1 DEF At
  <2> QED BY <2>1, <2>2, <2>3
<1>8. WalkTypes'
  BY <1>1, <1>4, <1>5 DEF WalkTypes
<1>9. DiscoveredOnTop' /\ ThrownAtBackEdge'
  BY <1>1 DEF Walking, DiscoveredOnTop, Discovering, ThrownAtBackEdge
<1>10. \A n \in Vertices : color'[n] = IF n = Node THEN "black" ELSE color[n]
  BY <1>1 DEF WalkTypes
<1>11. ColorsAreRight'
  <2> SUFFICES ASSUME NEW n \in Vertices
               PROVE  /\ color'[n] = "black" <=> \E i \in 1 .. (L + 1) : order'[i] = n
                      /\ color'[n] = "gray" <=> \E k \in 1 .. (K - 1) : stack'[k].node = n
    BY <1>4, <1>5 DEF ColorsAreRight
  <2>1. CASE n = Node
    <3>1. color'[n] = "black" /\ L + 1 \in 1 .. (L + 1)
      BY <1>10, <2>1
    <3>2. ASSUME NEW k \in 1 .. (K - 1) PROVE stack'[k].node # n
      <4>1. k + 1 \in 1 .. Len(stack) /\ 1 \in 1 .. Len(stack) /\ k + 1 # 1
        BY <1>3
      <4> QED BY <1>5, <2>1, <4>1, FramesDiffer DEF Node
    <3> QED BY <1>4, <2>1, <3>1, <3>2
  <2>2. CASE n # Node
    <3>1. (\E i \in 1 .. (L + 1) : order'[i] = n) <=> \E i \in 1 .. L : order[i] = n
      <4>1. \A i \in 1 .. (L + 1) : i \in 1 .. L \/ i = L + 1
        OBVIOUS
      <4>2. \A i \in 1 .. L : i \in 1 .. (L + 1)
        OBVIOUS
      <4> QED BY <1>4, <2>2, <4>1, <4>2
    <3>2. (\E k \in 1 .. (K - 1) : stack'[k].node = n) <=> \E k \in 1 .. K : stack[k].node = n
      <4>1. ASSUME NEW k \in 1 .. K, stack[k].node = n
            PROVE  \E j \in 1 .. (K - 1) : stack'[j].node = n
        <5>1. k # 1
          BY <2>2, <4>1 DEF Node
        <5>2. k - 1 \in 1 .. (K - 1) /\ k - 1 + 1 = k
          BY <5>1
        <5> QED BY <1>5, <4>1, <5>2
      <4>2. \A k \in 1 .. (K - 1) : k + 1 \in 1 .. K
        OBVIOUS
      <4>3. ASSUME NEW k \in 1 .. (K - 1), stack'[k].node = n
            PROVE  \E j \in 1 .. K : stack[j].node = n
        <5>1. k + 1 \in 1 .. K
          BY <4>2
        <5>2. stack'[k] = stack[k + 1]
          BY <1>5
        <5>3. stack[k + 1].node = n
          BY <4>3, <5>2
        <5> QED BY <5>1, <5>3
      <4> QED BY <4>1, <4>3
    <3>3. color'[n] = color[n]
      BY <1>10, <2>2
    <3>4. /\ color[n] = "black" <=> \E i \in 1 .. L : order[i] = n
          /\ color[n] = "gray" <=> \E k \in 1 .. K : stack[k].node = n
      BY <1>3 DEF ColorsAreRight
    <3> QED BY <3>1, <3>2, <3>3, <3>4
  <2> QED BY <2>1, <2>2
<1>12. NothingTwice' /\ GoalIsLast'
  BY <1>3, <1>6, <1>7 DEF NothingTwice, GoalIsLast
<1>13. DependenciesAreBefore'
  <2> SUFFICES ASSUME NEW i \in 1 .. (L + 1), NEW v \in out[order'[i]]
               PROVE  \E j \in 1 .. (i - 1) : order'[j] = v
    BY <1>1, <1>4 DEF DependenciesAreBefore
  <2>1. CASE i \in 1 .. L
    <3>1. PICK j \in 1 .. (i - 1) : order[j] = v
      BY <1>3, <1>4, <2>1 DEF DependenciesAreBefore
    <3>2. j \in 1 .. L
      BY <2>1
    <3> QED BY <1>4, <3>1, <3>2
  <2>2. CASE i = L + 1
    <3>1. v \in Vertices /\ color[v] = "black"
      BY <1>2, <1>4, <2>2
    <3>2. PICK j \in 1 .. L : order[j] = v
      BY <1>3, <3>1 DEF ColorsAreRight
    <3>3. j \in 1 .. (i - 1)
      BY <2>2
    <3> QED BY <1>4, <3>2, <3>3
  <2> QED BY <2>1, <2>2
<1>14. PassedEdges'
  <2> SUFFICES ASSUME NEW k \in 1 .. (K - 1)
               PROVE  /\ stack'[k].next \in out[stack'[k].node] \cup {0, End}
                      /\ k > 1 => stack'[k - 1].node \in out[stack'[k].node]
                      /\ \A v \in out[stack'[k].node] : v < stack'[k].next =>
                           color'[v] = "black" \/ (k > 1 /\ v = stack'[k - 1].node)
    BY <1>1, <1>5 DEF PassedEdges
  <2>1. k + 1 \in 1 .. Len(stack) /\ k + 1 > 1 /\ k + 1 - 1 = k /\ stack'[k] = stack[k + 1]
    BY <1>3, <1>5
  <2>2. /\ stack[k + 1].next \in out[stack[k + 1].node] \cup {0, End}
        /\ stack[k].node \in out[stack[k + 1].node]
        /\ \A v \in out[stack[k + 1].node] : v < stack[k + 1].next =>
             color[v] = "black" \/ v = stack[k].node
    BY <2>1 DEF PassedEdges
  <2>3. \A v \in out[stack[k + 1].node] : v \in Vertices
    BY <2>1, Lengths DEF WalkTypes
  <2>4. CASE k = 1
    BY <1>10, <2>1, <2>2, <2>3, <2>4 DEF Node
  <2>5. CASE k > 1
    <3>1. k - 1 \in 1 .. (K - 1) /\ k - 1 + 1 = k
      BY <2>5
    <3>2. stack'[k - 1].node = stack[k].node
      BY <1>5, <3>1
    <3> QED BY <1>10, <2>1, <2>2, <2>3, <2>5, <3>2
  <2> QED BY <2>4, <2>5
<1>15. HasTree'
  <2>1. PICK parent \in [1 .. (Size - 1) -> 1 .. Size] : IsTree(parent)
    BY DEF HasTree
  <2>2. \A i \in 1 .. (Size - 1) : i \in 1 .. Size /\ parent[i] \in 1 .. Size
    BY <1>3, <2>1
  <2>3. \A i \in 1 .. (Size - 1) : i > Len(order') => i > Len(order)
    BY <1>3, <1>4
  <2>4. IsTree(parent)'
    BY <1>1, <1>6, <1>7, <2>1, <2>2, <2>3 DEF IsTree
  <2> QED BY <1>6, <2>1, <2>4 DEF HasTree
<1> QED BY <1>8, <1>9, <1>11, <1>12, <1>13, <1>14, <1>15

Nested(parent, n) ==
  \A i \in 1 .. n : parent[i] > i /\ \A j \in (i + 1) .. (parent[i] - 1) : parent[j] <= parent[i]

InRow(parent, first, n) == \A i \in 1 .. n : i > first => parent[i] = i + 1

\* Room for a node between the finished ones and those on the stack.
LEMMA Shifted ==
  ASSUME NEW L \in Nat, NEW K \in Nat \ {0},
         NEW parent \in [1 .. (L + K - 1) -> 1 .. (L + K)],
         Nested(parent, L + K - 1), InRow(parent, L, L + K - 1)
  PROVE  \E new \in [1 .. (L + K) -> 1 .. (L + K + 1)] :
           /\ \A i \in 1 .. L : new[i] = IF parent[i] <= L THEN parent[i] ELSE parent[i] + 1
           /\ InRow(new, L, L + K) /\ Nested(new, L + K)
<1> USE DEF Nested, InRow
<1> DEFINE new == [i \in 1 .. (L + K) |->
                     IF i > L THEN i + 1
                     ELSE IF parent[i] <= L THEN parent[i] ELSE parent[i] + 1]
<1>1. \A i \in 1 .. L : i \in 1 .. (L + K - 1) /\ i \in 1 .. (L + K) /\ ~(i > L)
  OBVIOUS
<1>2. \A i \in 1 .. L : new[i] = IF parent[i] <= L THEN parent[i] ELSE parent[i] + 1
  BY <1>1
<1>3. \A i \in 1 .. (L + K) : i > L => new[i] = i + 1
  OBVIOUS
<1>4. \A i \in 1 .. L : parent[i] \in 1 .. (L + K) /\ parent[i] > i
  BY <1>1
<1>5. ASSUME NEW i \in 1 .. (L + K) PROVE new[i] \in 1 .. (L + K + 1) /\ new[i] > i
  <2>1. CASE i > L
    BY <1>3, <2>1
  <2>2. CASE i \in 1 .. L
    BY <1>2, <1>4, <2>2
  <2> QED BY <2>1, <2>2
<1>6. new \in [1 .. (L + K) -> 1 .. (L + K + 1)]
  BY <1>5
<1> HIDE DEF new
<1>7. ASSUME NEW i \in 1 .. (L + K), NEW j \in (i + 1) .. (new[i] - 1)
      PROVE  new[j] <= new[i]
  <2>1. new[i] \in 1 .. (L + K + 1) /\ j \in 1 .. (L + K)
    BY <1>5
  <2>2. CASE i > L
    BY <1>3, <2>1, <2>2
  <2>3. CASE i \in 1 .. L /\ parent[i] <= L
    <3>1. new[i] = parent[i] /\ j \in 1 .. L /\ j \in (i + 1) .. (parent[i] - 1)
      BY <1>2, <1>4, <2>1, <2>3
    <3>2. parent[j] <= parent[i]
      BY <1>1, <2>3, <3>1
    <3> QED BY <1>2, <1>4, <2>3, <3>1, <3>2
  <2>4. CASE i \in 1 .. L /\ ~(parent[i] <= L)
    <3>1. new[i] = parent[i] + 1 /\ parent[i] \in 1 .. (L + K)
      BY <1>2, <1>4, <2>4
    <3>2. CASE j > L
      BY <1>3, <2>1, <3>1, <3>2
    <3>3. CASE j <= L
      <4>1. j \in 1 .. L /\ j \in (i + 1) .. (parent[i] - 1)
        BY <2>1, <2>4, <3>1, <3>3
      <4>2. parent[j] <= parent[i]
        BY <1>1, <2>4, <4>1
      <4>3. new[j] <= parent[j] + 1
        BY <1>2, <1>4, <4>1
      <4>4. /\ parent[j] \in Nat /\ parent[i] \in Nat
            /\ new[j] \in Nat /\ new[i] = parent[i] + 1
        <5>1. parent[j] \in 1 .. (L + K) /\ parent[i] \in 1 .. (L + K)
          BY <1>4, <2>4, <4>1
        <5>2. new[j] \in 1 .. (L + K + 1)
          BY <1>5, <2>1
        <5> QED BY <3>1, <5>1, <5>2
      <4> QED BY <4>2, <4>3, <4>4
    <3> QED BY <2>1, <3>2, <3>3
  <2> QED BY <2>2, <2>3, <2>4
<1> QED BY <1>2, <1>3, <1>5, <1>6, <1>7

LEMMA VertexDiscovered ==
  ASSUME WalkInv, NEW hasTask, TreeEdge(hasTask) PROVE WalkInv'
<1> USE DEF WalkInv
<1> DEFINE Frame == [node : Vertices, next : 0 .. End]
           top == [node |-> Looking, next |-> 0]
           below == [node |-> Node, next |-> NextEdge(Node, Looking)]
<1>1. /\ UNCHANGED <<out, order, thrown>>
      /\ color' = [color EXCEPT ![Looking] = "gray"]
      /\ stack' = <<top, below>> \o Tail(stack)
      /\ scanned' = IF Looking \in hasTask THEN 0 ELSE End
      /\ Walking /\ Looking # End /\ color[Looking] = "white" /\ stack # <<>>
  BY DEF TreeEdge, Walking
<1>2. /\ Node \in Vertices /\ Looking \in out[Node] /\ Looking \in Vertices /\ Looking \in Nat
      /\ \A v \in out[Node] : v < Looking => color[v] = "black"
      /\ 1 \in 1 .. Len(stack) /\ out[Node] \subseteq Vertices
  BY <1>1, LookingIsRight DEF WalkTypes
<1>3. PICK L \in Nat, K \in Nat \ {0} : L = Len(order) /\ K = Len(stack) /\ Size = L + K
  BY <1>1, Lengths, EmptySeq DEF WalkTypes, Size
<1>4. /\ below.next \in out[Node] \cup {End}
      /\ \A w \in out[Node] : w < below.next => w <= Looking
      /\ top \in Frame /\ below \in Frame
  <2>1. /\ below.next \in out[Node] \cup {End} /\ below.next \in 1 .. End
        /\ \A w \in out[Node] : w < below.next => w <= Looking
    BY <1>2, NextEdgeIsNext DEF WalkTypes
  <2>2. 1 .. End \subseteq 0 .. End /\ 0 \in 0 .. End
    BY Lengths
  <2> QED BY <1>2, <2>1, <2>2
<1>5. /\ top.node = Looking /\ top.next = 0 /\ below.node = Node
  OBVIOUS
<1> HIDE DEF top, below
<1>6. /\ stack' \in Seq(Frame) /\ Len(stack') = K + 1 /\ stack'[1] = top /\ stack'[2] = below
      /\ \A k \in 3 .. (K + 1) : stack'[k] = stack[k - 1]
  BY <1>1, <1>3, <1>4, Pushed DEF WalkTypes
<1>7. stack'[1].node = Looking /\ \A k \in 2 .. (K + 1) : stack'[k].node = stack[k - 1].node
  <2>1. \A k \in 2 .. (K + 1) : k = 2 \/ k \in 3 .. (K + 1)
    OBVIOUS
  <2>2. stack'[2].node = stack[2 - 1].node
    BY <1>5, <1>6 DEF Node
  <2> QED BY <1>5, <1>6, <2>1, <2>2
<1>8. Size' = L + K + 1
  BY <1>1, <1>3, <1>6 DEF Size
<1>9. /\ \A i \in 1 .. L : At(i)' = At(i)
      /\ At(L + 1)' = Looking
      /\ \A i \in (L + 2) .. (L + K + 1) : At(i)' = At(i - 1)
  <2>1. \A i \in 1 .. L : At(i)' = At(i)
    BY <1>1, <1>3 DEF At
  <2>2. At(L + 1)' = Looking
    <3>1. ~(L + 1 <= L) /\ L + 1 - L = 1
      OBVIOUS
    <3> QED BY <1>1, <1>3, <1>7, <3>1 DEF At
  <2>3. ASSUME NEW i \in (L + 2) .. (L + K + 1) PROVE At(i)' = At(i - 1)
    <3>1. ~(i <= L) /\ i - L \in 2 .. (K + 1) /\ ~(i - 1 <= L) /\ (i - L) - 1 = (i - 1) - L
      OBVIOUS
    <3> QED BY <1>1, <1>3, <1>7, <3>1 DEF At
  <2> QED BY <2>1, <2>2, <2>3
<1>10. \A i \in 1 .. (L + K) : At(i) \in Vertices /\ At(i) # Looking
  <2> SUFFICES ASSUME NEW i \in 1 .. (L + K) PROVE At(i) \in Vertices /\ color[At(i)] # "white"
    BY <1>1
  <2>1. CASE i <= L
    BY <1>3, <2>1, Lengths DEF At, ColorsAreRight
  <2>2. CASE i > L
    <3>1. i - L \in 1 .. K /\ ~(i <= L)
      BY <2>2
    <3>2. At(i) = stack[i - L].node
      BY <1>3, <3>1 DEF At
    <3>3. At(i) \in Vertices
      BY <1>3, <3>1, <3>2, Lengths
    <3> QED BY <1>3, <3>1, <3>2, <3>3 DEF ColorsAreRight
  <2> QED BY <2>1, <2>2
<1>11. \A n \in Vertices : color'[n] = IF n = Looking THEN "gray" ELSE color[n]
  BY <1>1 DEF WalkTypes
<1>12. WalkTypes'
  <2>1. scanned' \in 0 .. End
    BY <1>1, Lengths
  <2> QED BY <1>1, <1>6, <2>1 DEF WalkTypes
<1>13. DiscoveredOnTop' /\ ThrownAtBackEdge'
  <2>1. stack' # <<>>
    BY <1>3, <1>6
  <2>2. thrown' = FALSE
    BY <1>1 DEF Walking, WalkTypes
  <2> QED BY <1>1, <1>5, <1>6, <2>1, <2>2 DEF DiscoveredOnTop, Discovering, ThrownAtBackEdge
<1>14. ColorsAreRight'
  <2> SUFFICES ASSUME NEW n \in Vertices
               PROVE  /\ color'[n] = "black" <=> \E i \in 1 .. L : order[i] = n
                      /\ color'[n] = "gray" <=> \E k \in 1 .. (K + 1) : stack'[k].node = n
    BY <1>1, <1>3, <1>6 DEF ColorsAreRight
  <2>1. /\ color[n] = "black" <=> \E i \in 1 .. L : order[i] = n
        /\ color[n] = "gray" <=> \E k \in 1 .. K : stack[k].node = n
    BY <1>3 DEF ColorsAreRight
  <2>2. CASE n = Looking
    <3>1. color'[n] = "gray" /\ 1 \in 1 .. (K + 1) /\ color[n] # "black"
      BY <1>1, <1>11, <2>2
    <3> QED BY <1>7, <2>1, <2>2, <3>1
  <2>3. CASE n # Looking
    <3>1. ASSUME NEW k \in 1 .. (K + 1), stack'[k].node = n
          PROVE  \E j \in 1 .. K : stack[j].node = n
      <4>1. k \in 2 .. (K + 1) /\ k - 1 \in 1 .. K
        BY <1>7, <2>3, <3>1
      <4> QED BY <1>7, <3>1, <4>1
    <3>2. ASSUME NEW k \in 1 .. K, stack[k].node = n
          PROVE  \E j \in 1 .. (K + 1) : stack'[j].node = n
      <4>1. k + 1 \in 2 .. (K + 1) /\ k + 1 \in 1 .. (K + 1) /\ k + 1 - 1 = k
        OBVIOUS
      <4> QED BY <1>7, <3>2, <4>1
    <3>3. color'[n] = color[n]
      BY <1>11, <2>3
    <3> QED BY <2>1, <3>1, <3>2, <3>3
  <2> QED BY <2>2, <2>3
<1>15. NothingTwice'
  <2> SUFFICES ASSUME NEW i \in 1 .. (L + K + 1), NEW j \in 1 .. (L + K + 1), At(i)' = At(j)'
               PROVE  i = j
    BY <1>8 DEF NothingTwice
  <2> DEFINE was(x) == IF x <= L THEN x ELSE x - 1
  <2>1. \A x \in 1 .. (L + K + 1) : x # L + 1 => was(x) \in 1 .. (L + K) /\ At(x)' = At(was(x))
    <3> SUFFICES ASSUME NEW x \in 1 .. (L + K + 1), x # L + 1
                 PROVE  was(x) \in 1 .. (L + K) /\ At(x)' = At(was(x))
      OBVIOUS
    <3>1. x \in 1 .. L \/ x \in (L + 2) .. (L + K + 1)
      OBVIOUS
    <3>2. CASE x \in 1 .. L
      BY <1>9, <3>2
    <3>3. CASE x \in (L + 2) .. (L + K + 1)
      BY <1>9, <3>3
    <3> QED BY <3>1, <3>2, <3>3
  <2>2. CASE i = L + 1 /\ j # L + 1
    <3>1. was(j) \in 1 .. (L + K) /\ At(j)' = At(was(j))
      BY <2>1, <2>2
    <3> QED BY <1>9, <1>10, <2>2, <3>1
  <2>3. CASE i # L + 1 /\ j = L + 1
    <3>1. was(i) \in 1 .. (L + K) /\ At(i)' = At(was(i))
      BY <2>1, <2>3
    <3> QED BY <1>9, <1>10, <2>3, <3>1
  <2>4. CASE i # L + 1 /\ j # L + 1
    <3>1. At(was(i)) = At(was(j)) /\ was(i) \in 1 .. Size /\ was(j) \in 1 .. Size
      BY <1>3, <2>1, <2>4
    <3>2. was(i) = was(j)
      BY <3>1 DEF NothingTwice
    <3> QED BY <2>4, <3>2
  <2> QED BY <2>2, <2>3, <2>4
<1>16. GoalIsLast'
  <2>1. L + K + 1 \in (L + 2) .. (L + K + 1) /\ L + K + 1 - 1 = L + K /\ L + K + 1 > 0
    OBVIOUS
  <2>2. At(L + K + 1)' = At(L + K)
    BY <1>9, <2>1
  <2>3. At(L + K) = Goal
    BY <1>3 DEF GoalIsLast
  <2> QED BY <1>8, <2>1, <2>2, <2>3 DEF GoalIsLast
<1>17. DependenciesAreBefore'
  BY <1>1 DEF DependenciesAreBefore
<1>18. PassedEdges'
  <2> SUFFICES ASSUME NEW k \in 1 .. (K + 1)
               PROVE  /\ stack'[k].next \in out[stack'[k].node] \cup {0, End}
                      /\ k > 1 => stack'[k - 1].node \in out[stack'[k].node]
                      /\ \A v \in out[stack'[k].node] : v < stack'[k].next =>
                           color'[v] = "black" \/ (k > 1 /\ v = stack'[k - 1].node)
    BY <1>1, <1>6 DEF PassedEdges
  <2>1. CASE k = 1
    <3>1. \A v \in out[Looking] : ~(v < 0)
      BY <1>2 DEF WalkTypes, Vertices
    <3> QED BY <1>5, <1>6, <2>1, <3>1
  <2>2. CASE k = 2
    <3>1. \A v \in out[Node] : v \in Vertices /\ (v <= Looking => v < Looking \/ v = Looking)
      BY <1>2 DEF Vertices
    <3>2. \A v \in out[Node] : v < Looking => color'[v] = "black"
      BY <1>1, <1>2, <1>11, <3>1
    <3>3. stack'[k].node = Node /\ stack'[k].next = below.next /\ stack'[k - 1].node = Looking
      BY <1>5, <1>6, <1>7, <2>2
    <3> QED BY <1>2, <1>4, <2>2, <3>1, <3>2, <3>3
  <2>3. CASE k \in 3 .. (K + 1)
    <3>1. /\ k - 1 \in 1 .. Len(stack) /\ k - 1 > 1 /\ k > 1 /\ k - 1 \in 2 .. (K + 1)
      BY <1>3, <2>3
    <3>2. stack'[k] = stack[k - 1] /\ stack'[k - 1].node = stack[(k - 1) - 1].node
      BY <1>6, <1>7, <2>3, <3>1
    <3>3. /\ stack[k - 1].next \in out[stack[k - 1].node] \cup {0, End}
          /\ stack[(k - 1) - 1].node \in out[stack[k - 1].node]
          /\ \A v \in out[stack[k - 1].node] : v < stack[k - 1].next =>
               color[v] = "black" \/ v = stack[(k - 1) - 1].node
      BY <3>1 DEF PassedEdges
    <3>4. \A v \in out[stack[k - 1].node] : v \in Vertices
      BY <3>1, Lengths DEF WalkTypes
    <3>5. \A v \in Vertices : color[v] = "black" => color'[v] = "black"
      BY <1>1, <1>11
    <3> QED BY <3>1, <3>2, <3>3, <3>4, <3>5
  <2>4. k = 1 \/ k = 2 \/ k \in 3 .. (K + 1)
    OBVIOUS
  <2> QED BY <2>1, <2>2, <2>3, <2>4
<1>19. HasTree'
  <2>1. PICK parent \in [1 .. (L + K - 1) -> 1 .. (L + K)] : IsTree(parent)
    BY <1>3 DEF HasTree
  <2>2. Nested(parent, L + K - 1) /\ InRow(parent, L, L + K - 1)
    BY <1>3, <2>1 DEF IsTree, Nested, InRow
  <2>3. PICK new \in [1 .. (L + K) -> 1 .. (L + K + 1)] :
          /\ \A i \in 1 .. L : new[i] = IF parent[i] <= L THEN parent[i] ELSE parent[i] + 1
          /\ InRow(new, L, L + K) /\ Nested(new, L + K)
    BY <2>2, Shifted
  <2>4. ASSUME NEW i \in 1 .. (L + K) PROVE At(i)' \in out[At(new[i])']
    <3>1. CASE i \in 1 .. L
      <4>1. At(i) \in out[At(parent[i])] /\ parent[i] \in 1 .. (L + K)
        <5>1. i \in 1 .. (L + K - 1)
          BY <3>1
        <5>2. parent[i] \in 1 .. (L + K)
          BY <2>1, <5>1
        <5>3. i \in 1 .. (Size - 1)
          BY <1>3, <5>1
        <5>4. At(i) \in out[At(parent[i])]
          BY <2>1, <5>3 DEF IsTree
        <5> QED BY <5>2, <5>4
      <4>2. CASE parent[i] <= L
        <5>1. new[i] = parent[i] /\ parent[i] \in 1 .. L
          BY <2>3, <3>1, <4>1, <4>2
        <5>2. At(parent[i])' = At(parent[i]) /\ At(i)' = At(i)
          BY <1>9, <3>1, <5>1
        <5> QED BY <4>1, <5>1, <5>2
      <4>3. CASE ~(parent[i] <= L)
        <5>1. /\ new[i] = parent[i] + 1 /\ parent[i] + 1 \in (L + 2) .. (L + K + 1)
              /\ parent[i] + 1 - 1 = parent[i]
          <6>1. new[i] = parent[i] + 1
            BY <2>3, <3>1, <4>3
          <6>2. parent[i] \in 1 .. (L + K)
            BY <4>1
          <6>3. /\ parent[i] + 1 \in (L + 2) .. (L + K + 1)
                /\ parent[i] + 1 - 1 = parent[i]
            <7>1. \A p \in 1 .. (L + K) :
                    ~(p <= L) => p + 1 \in (L + 2) .. (L + K + 1) /\ p + 1 - 1 = p
              OBVIOUS
            <7> QED BY <4>3, <6>2, <7>1
          <6> QED BY <6>1, <6>3
        <5>2. At(parent[i] + 1)' = At(parent[i]) /\ At(i)' = At(i)
          BY <1>9, <3>1, <5>1
        <5> QED BY <4>1, <5>1, <5>2
      <4> QED BY <4>2, <4>3
    <3>2. CASE i = L + 1
      <4>1. new[i] = L + 2 /\ L + 2 \in (L + 2) .. (L + K + 1) /\ L + 2 - 1 = L + 1
        BY <2>3, <3>2 DEF InRow
      <4>2. ~(L + 1 <= L) /\ L + 1 - L = 1
        OBVIOUS
      <4>3. At(new[i])' = At(L + 1) /\ At(L + 1) = Node
        BY <1>3, <1>9, <4>1, <4>2 DEF At, Node
      <4> QED BY <1>2, <1>9, <3>2, <4>3
    <3>3. CASE i \in (L + 2) .. (L + K)
      <4>1. /\ new[i] = i + 1 /\ i + 1 \in (L + 2) .. (L + K + 1) /\ i + 1 - 1 = i
            /\ i - 1 \in 1 .. (L + K - 1) /\ i - 1 > L /\ i \in (L + 2) .. (L + K + 1)
            /\ i - 1 + 1 = i
        BY <2>3, <3>3 DEF InRow
      <4>2. At(new[i])' = At(i) /\ At(i)' = At(i - 1)
        BY <1>9, <4>1
      <4>3. parent[i - 1] = i /\ At(i - 1) \in out[At(parent[i - 1])]
        BY <1>3, <2>1, <4>1 DEF IsTree
      <4> QED BY <4>2, <4>3
    <3>4. i \in 1 .. L \/ i = L + 1 \/ i \in (L + 2) .. (L + K)
      OBVIOUS
    <3> QED BY <3>1, <3>2, <3>3, <3>4
  <2>5. L + K + 1 - 1 = L + K
    OBVIOUS
  <2>6. IsTree(new)'
    BY <1>1, <1>3, <1>8, <2>3, <2>4, <2>5 DEF IsTree, Nested, InRow
  <2> QED BY <1>8, <2>3, <2>5, <2>6 DEF HasTree
<1> QED BY <1>12, <1>13, <1>14, <1>15, <1>16, <1>17, <1>18, <1>19

-------------------------------------------------------------------------------
(* What is reached. *)

LEMMA LeastIsReachable ==
  ASSUME NEW S, NEW rel, NEW R \in SUBSET Vertices, S \subseteq R,
         \A n \in R : Pairs(rel, n) \subseteq R,
         \A Q \in SUBSET Vertices :
           S \subseteq Q /\ (\A n \in Q : Pairs(rel, n) \subseteq Q) => R \subseteq Q
  PROVE  ReachableFrom(S, rel) = R
<1> DEFINE Least(T) ==
      /\ S \subseteq T /\ \A n \in T : Pairs(rel, n) \subseteq T
      /\ \A Q \in SUBSET Vertices :
           S \subseteq Q /\ (\A n \in Q : Pairs(rel, n) \subseteq Q) => T \subseteq Q
<1>1. Least(R)
  OBVIOUS
<1>2. ASSUME NEW T \in SUBSET Vertices, Least(T) PROVE T = R
  <2>1. T \subseteq R
    BY <1>2
  <2>2. R \subseteq T
    BY <1>2
  <2> QED BY <2>1, <2>2
<1>3. ReachableFrom(S, rel) = CHOOSE T \in SUBSET Vertices : Least(T)
  BY DEF ReachableFrom
<1> HIDE DEF Least
<1> QED BY <1>1, <1>2, <1>3

LEMMA ReachableIsLeast ==
  ASSUME NEW S \in SUBSET Vertices, NEW rel, rel \subseteq Vertices \X Vertices
  PROVE  LET R == ReachableFrom(S, rel) IN
         /\ R \in SUBSET Vertices /\ S \subseteq R
         /\ \A n \in R : Pairs(rel, n) \subseteq R
         /\ \A Q \in SUBSET Vertices :
              S \subseteq Q /\ (\A n \in Q : Pairs(rel, n) \subseteq Q) => R \subseteq Q
<1> DEFINE Above(Q) == S \subseteq Q /\ \A n \in Q : Pairs(rel, n) \subseteq Q
           All == { v \in Vertices : \A Q \in SUBSET Vertices : Above(Q) => v \in Q }
<1>1. All \in SUBSET Vertices /\ S \subseteq All
  OBVIOUS
<1>2. ASSUME NEW n \in All PROVE Pairs(rel, n) \subseteq All
  BY PairsAreVertices
<1>3. \A Q \in SUBSET Vertices :
        S \subseteq Q /\ (\A n \in Q : Pairs(rel, n) \subseteq Q) => All \subseteq Q
  OBVIOUS
<1> HIDE DEF All
<1>4. ReachableFrom(S, rel) = All
  BY <1>1, <1>2, <1>3, LeastIsReachable
<1> QED BY <1>1, <1>2, <1>3, <1>4

LEMMA LargestIndex ==
  ASSUME NEW n \in Nat, NEW S, S \subseteq 1 .. n, S # {}
  PROVE  \E m \in S : \A y \in S : y <= m
<1> DEFINE U == { n - x : x \in S }
<1>1. S \subseteq Nat /\ \A x \in S : n - x \in Nat
  OBVIOUS
<1>2. U \subseteq Nat /\ U # {}
  BY <1>1
<1>3. Min(U) \in U /\ \A x \in U : Min(U) <= x
  BY <1>2, MinIsLeast
<1>4. PICK m \in S : Min(U) = n - m
  BY <1>3
<1>5. ASSUME NEW y \in S PROVE y <= m
  <2>1. n - m <= n - y
    BY <1>3, <1>4
  <2> QED BY <1>1, <2>1
<1> QED BY <1>5

LEMMA EdgesOfGraph ==
  ASSUME WalkTypes
  PROVE  /\ Edges \subseteq Vertices \X Vertices
         /\ \A n \in Vertices : Pairs(Edges, n) = out[n] /\ out[n] \subseteq Vertices
<1>1. \A n \in Vertices : out[n] \subseteq Vertices
  BY DEF WalkTypes
<1>2. ASSUME NEW n \in Vertices PROVE Pairs(Edges, n) = out[n]
  <2>1. \A v \in out[n] : <<n, v>> \in Edges
    BY <1>1 DEF Edges
  <2>2. \A e \in Edges : e[1] = n => e[2] \in out[n]
    BY DEF Edges
  <2>3. out[n] \subseteq Pairs(Edges, n)
    <3> SUFFICES ASSUME NEW v \in out[n] PROVE v \in Pairs(Edges, n)
      OBVIOUS
    <3>1. <<n, v>> \in Edges /\ <<n, v>>[1] = n /\ <<n, v>>[2] = v
      BY <2>1
    <3> QED BY <3>1 DEF Pairs
  <2>4. Pairs(Edges, n) \subseteq out[n]
    BY <2>2 DEF Pairs
  <2> QED BY <2>3, <2>4
<1> QED BY <1>1, <1>2 DEF Edges

\* Along the search tree everything is reached from the goal.
LEMMA AllFromGoal ==
  ASSUME WalkInv, NEW Q, Goal \in Q, \A n \in Q : out[n] \subseteq Q
  PROVE  \A i \in 1 .. Size : At(i) \in Q
<1> USE DEF WalkInv
<1>1. PICK n \in Nat : n = Size /\ n > 0
  BY Lengths DEF Size, GoalIsLast
<1>2. PICK parent \in [1 .. (n - 1) -> 1 .. n] : IsTree(parent)
  BY <1>1 DEF HasTree
<1> DEFINE bad == { i \in 1 .. n : At(i) \notin Q }
<1>3. CASE bad # {}
  <2>1. PICK i \in bad : \A j \in bad : j <= i
    BY <1>3, LargestIndex
  <2>2. i # n
    BY <1>1 DEF GoalIsLast
  <2>3. i \in 1 .. (n - 1)
    BY <2>2
  <2>4. parent[i] > i /\ parent[i] \in 1 .. n /\ At(i) \in out[At(parent[i])]
    BY <1>1, <1>2, <2>3 DEF IsTree
  <2>5. parent[i] \notin bad
    BY <2>1, <2>4
  <2>6. At(parent[i]) \in Q
    BY <2>4, <2>5
  <2> QED BY <2>4, <2>6
<1> QED BY <1>1, <1>3

-------------------------------------------------------------------------------
(* What is returned. *)

Ordered == { order[i] : i \in DOMAIN order }

\* What the invariant says when the walk has returned.
LEMMA WalkReturned ==
  ASSUME WalkInv, stack = <<>>
  PROVE  /\ Len(order) \in Nat \ {0} /\ DOMAIN order = 1 .. Len(order)
         /\ Size = Len(order) /\ \A i \in 1 .. Len(order) : At(i) = order[i]
         /\ order[Len(order)] = Goal
         /\ Ordered \in SUBSET Vertices /\ Goal \in Ordered
         /\ \A n \in Ordered : out[n] \subseteq Ordered
<1> USE DEF WalkInv
<1>1. stack = <<>> /\ Len(stack) = 0
  OBVIOUS
<1>2. Len(order) \in Nat /\ Size = Len(order)
  BY <1>1, Lengths DEF Size
<1>3. \A i \in 1 .. Len(order) : At(i) = order[i]
  BY <1>2 DEF At
<1>4. DOMAIN order = 1 .. Len(order)
  BY LenProperties DEF WalkTypes
<1>5. Len(order) > 0 /\ Len(order) \in 1 .. Len(order) /\ order[Len(order)] = Goal
  BY <1>2, <1>3 DEF GoalIsLast
<1>6. Ordered \in SUBSET Vertices /\ Goal \in Ordered
  BY <1>4, <1>5, Lengths DEF Ordered
<1>7. ASSUME NEW i \in 1 .. Len(order), NEW v \in out[order[i]] PROVE v \in Ordered
  <2>1. PICK j \in 1 .. (i - 1) : order[j] = v
    BY DEF DependenciesAreBefore
  <2>2. j \in 1 .. Len(order)
    BY <1>2
  <2> QED BY <1>4, <2>1, <2>2 DEF Ordered
<1>8. \A n \in Ordered : out[n] \subseteq Ordered
  BY <1>4, <1>7 DEF Ordered
<1> QED BY <1>2, <1>3, <1>4, <1>5, <1>6, <1>8

LEMMA OrderIsClosed ==
  ASSUME WalkInv, stack = <<>> PROVE ReachableFrom({Goal}, Edges) = Ordered
<1> USE DEF WalkInv
<1>1. /\ DOMAIN order = 1 .. Size /\ \A i \in 1 .. Size : At(i) = order[i]
      /\ Ordered \in SUBSET Vertices /\ Goal \in Ordered
      /\ \A n \in Ordered : out[n] \subseteq Ordered
  BY WalkReturned
<1>2. \A n \in Vertices : Pairs(Edges, n) = out[n]
  BY EdgesOfGraph
<1>3. \A n \in Ordered : Pairs(Edges, n) \subseteq Ordered
  BY <1>1, <1>2
<1>4. ASSUME NEW Q \in SUBSET Vertices, {Goal} \subseteq Q, \A n \in Q : Pairs(Edges, n) \subseteq Q
      PROVE  Ordered \subseteq Q
  <2>1. \A n \in Q : out[n] \subseteq Q
    BY <1>2, <1>4
  <2>2. \A i \in 1 .. Size : At(i) \in Q
    BY <1>4, <2>1, AllFromGoal
  <2> QED BY <1>1, <2>2 DEF Ordered
<1>5. {Goal} \subseteq Ordered
  BY <1>1
<1> HIDE DEF WalkInv
<1> QED BY <1>1, <1>3, <1>4, <1>5, LeastIsReachable

LEMMA OrderIsBuildOrder ==
  ASSUME WalkInv, stack = <<>> PROVE Renumbered \in G!BuildOrders
<1> USE DEF WalkInv
<1>1. PICK N \in Nat \ {0} : /\ N = Len(order) /\ Size = N
                            /\ \A i \in 1 .. N : At(i) = order[i]
  BY WalkReturned
<1>2. \A i, j \in 1 .. N : j \in Renumbered[i] <=> order[j] \in out[order[i]]
  BY <1>1 DEF Renumbered
<1>3. Renumbered \in [1 .. N -> SUBSET (1 .. N)]
  BY <1>1 DEF Renumbered
<1>4. \A n \in 1 .. N : Renumbered[n] \subseteq 1 .. (n - 1)
  <2> SUFFICES ASSUME NEW n \in 1 .. N, NEW j \in Renumbered[n] PROVE j \in 1 .. (n - 1)
    OBVIOUS
  <2>1. j \in 1 .. N /\ order[j] \in out[order[n]]
    BY <1>2, <1>3
  <2>2. PICK i \in 1 .. (n - 1) : order[i] = order[j]
    BY <1>1, <2>1 DEF DependenciesAreBefore
  <2>3. i \in 1 .. N
    OBVIOUS
  <2>4. i = j
    BY <1>1, <2>1, <2>2, <2>3, OrderedOnce
  <2> QED BY <2>2, <2>4
<1>5. PICK parent \in [1 .. (N - 1) -> 1 .. N] : IsTree(parent)
  BY <1>1 DEF HasTree
<1>6. ASSUME NEW n \in 1 .. (N - 1)
      PROVE  /\ parent[n] \in 1 .. N /\ parent[n] > n /\ n \in Renumbered[parent[n]]
             /\ \A m \in (n + 1) .. (parent[n] - 1) : parent[m] <= parent[n]
  <2>1. /\ parent[n] \in 1 .. N /\ parent[n] > n /\ At(n) \in out[At(parent[n])]
        /\ \A m \in (n + 1) .. (parent[n] - 1) : parent[m] <= parent[n]
    BY <1>1, <1>5 DEF IsTree
  <2>2. n \in 1 .. N
    OBVIOUS
  <2>3. order[n] \in out[order[parent[n]]]
    BY <1>1, <2>1, <2>2
  <2> QED BY <1>2, <2>1, <2>2, <2>3
<1>7. G!Nodes = 1 .. N
  BY <1>1 DEF G!Nodes
<1>8. G!Topological(Renumbered)
  BY <1>3, <1>4, <1>7 DEF G!Topological
<1>9. G!Reachable(Renumbered)
  BY <1>1, <1>6, <1>7 DEF G!Reachable
<1>10. G!IsSearchTree(parent, Renumbered)
  BY <1>1, <1>6 DEF G!IsSearchTree
<1> QED BY <1>1, <1>3, <1>5, <1>7, <1>8, <1>9, <1>10 DEF G!BuildOrders

LEMMA IsBuildOrderWhenDone == WalkInv /\ stack = <<>> => IsBuildOrder
<1> SUFFICES ASSUME WalkInv, stack = <<>>
             PROVE  /\ Ordered = ReachableFrom({Goal}, Edges)
                    /\ \A i, j \in DOMAIN order : order[i] = order[j] => i = j
                    /\ order[Len(order)] = Goal
                    /\ Renumbered \in G!BuildOrders
  BY DEF IsBuildOrder, Ordered
<1>1. DOMAIN order = 1 .. Len(order) /\ order[Len(order)] = Goal
  BY WalkReturned
<1>2. \A i, j \in DOMAIN order : order[i] = order[j] => i = j
  BY <1>1, OrderedOnce
<1> QED BY <1>1, <1>2, OrderIsClosed, OrderIsBuildOrder

===============================================================================
