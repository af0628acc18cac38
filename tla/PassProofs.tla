----------------------------- MODULE PassProofs -----------------------------
(***************************************************************************)
(* Proofs about the two visitors that go over a mapping before its         *)
(* performance is analysed, for every forest of mappings and all workloads.*)
(* The legality check of module LoopCount: what the visitor hands down is  *)
(* the path of each node, and an accepted mapping runs exactly the points  *)
(* of the workload.  InitAnalysis: op_num_ counts the operations exactly,  *)
(* a tile takes in what is live into it, the final result and nothing else *)
(* leaves the root, and a Trans node gives out what passes over it.        *)
(***************************************************************************)
EXTENDS LoopCount, InitAnalysis, Induction

-----------------------------------------------------------------------------
(* The shape of a mapping: what is above and below a node.                  *)

\* A node is a natural number that is not nullptr.
LEMMA NodesAreNumbers ==
  IsFiniteSet(Node) /\ Node \in SUBSET Nat /\ \A n \in Node : n > 0
BY TreeAssumption DEF nullptr

\* The children of a node are nodes after it, each one listed once.
LEMMA KidsAfter ==
  ASSUME NEW n \in Node
  PROVE  /\ Kids(n) \in Seq(Node)
         /\ \A i \in DOMAIN Kids(n) :
               Kids(n)[i] \in Node /\ Kids(n)[i] > n /\ Parent(Kids(n)[i]) = n
         /\ \A i, j \in DOMAIN Kids(n) : Kids(n)[i] = Kids(n)[j] => i = j
<1>1. Kids(n) \in Seq(Node)
  BY TreeAssumption
<1>2. \A i \in DOMAIN Kids(n) : Kids(n)[i] \in Node
  BY <1>1
<1>. QED
  BY <1>1, <1>2, TreeAssumption, Zenon

\* A parent comes before its children and is a node.
LEMMA ParentBefore ==
  ASSUME NEW n \in Node, Parent(n) # nullptr
  PROVE  Parent(n) \in Node /\ Parent(n) < n
<1>1. Parent(n) \in Node /\ n \in ToSet(Kids(Parent(n)))
  BY TreeAssumption
<1>2. PICK i \in DOMAIN Kids(Parent(n)) : n = Kids(Parent(n))[i]
  BY <1>1 DEF ToSet
<1>3. n > Parent(n)
  BY <1>1, <1>2, KidsAfter
<1>. QED
  BY <1>1, <1>3, NodesAreNumbers

\* Ancestors solves its recursion: the parent, then the parent's ancestors.
LEMMA AncestorsStep ==
  ASSUME NEW n \in Node
  PROVE  Ancestors[n] = IF Parent(n) = nullptr THEN <<>>
                        ELSE <<Parent(n)>> \o Ancestors[Parent(n)]
<1> DEFINE Up(f, m) == IF Parent(m) = nullptr THEN <<>> ELSE <<Parent(m)>> \o f[Parent(m)]
           Eq(f) == f = [m \in Node |-> Up(f, m)]
           F == CHOOSE f : Eq(f)
           Low(k) == {m \in Node : m <= k}
           Solves(f, k) == f = [m \in Low(k) |-> Up(f, m)]
           Bad == {k \in Nat : ~ \E f : Solves(f, k)}
<1>1. Ancestors = [m \in Node |-> F[m]]
  BY Zenon DEF Ancestors
<1>2. Node \in SUBSET Nat /\ IsFiniteSet(Node)
  BY NodesAreNumbers
<1>3. Bad = {}
  <2>1. SUFFICES ASSUME Bad # {} PROVE FALSE
    OBVIOUS
  <2>2. PICK k \in Bad : \A j \in Bad : k <= j
    <3>1. Bad \in SUBSET Nat
      OBVIOUS
    <3> HIDE DEF Bad
    <3>. QED
      BY <2>1, <3>1, LeastNatural
  <2>k. k \in Nat /\ ~ \E f : Solves(f, k)
    <3> HIDE DEF Solves
    <3>. QED
      OBVIOUS
  <2> HIDE DEF Bad, Eq, F
  <2>3. CASE k = 0
    <3>1. Low(k) = {}
      <4>1. \A m \in Node : m \in Nat /\ m > 0
        BY NodesAreNumbers
      <4>. QED
        BY <2>3, <4>1
    <3>2. Solves(<<>>, k)
      BY <3>1
    <3> HIDE DEF Solves
    <3>. QED
      BY <2>k, <3>2
  <2>4. CASE k # 0
    <3>1. k - 1 \in Nat /\ k - 1 \notin Bad
      <4>1. k - 1 \in Nat /\ ~(k <= k - 1)
        BY <2>k, <2>4
      <4>. QED
        BY <2>2, <4>1
    <3>2. PICK f : Solves(f, k - 1)
      <4> HIDE DEF Solves
      <4>. QED
        BY <3>1 DEF Bad
    <3> DEFINE h == [m \in Low(k) |-> Up(f, m)]
    <3>3. ASSUME NEW m \in Low(k - 1) PROVE h[m] = f[m]
      <4>1. m \in Low(k)
        BY <1>2, <2>k
      <4> HIDE DEF Low, Up
      <4>. QED
        BY <3>2, <4>1
    <3>4. ASSUME NEW m \in Low(k) PROVE Up(h, m) = Up(f, m)
      <4>1. Parent(m) # nullptr => Parent(m) \in Low(k - 1)
        <5>1. m \in Node /\ m <= k /\ m \in Nat /\ k \in Nat
          BY <1>2, <2>k
        <5>2. Parent(m) # nullptr => Parent(m) \in Node /\ Parent(m) < m /\ Parent(m) \in Nat
          BY <1>2, <5>1, ParentBefore
        <5> HIDE DEF h
        <5>. QED
          BY <5>1, <5>2
      <4> HIDE DEF Low, h
      <4>. QED
        BY <3>3, <4>1
    <3>5. Solves(h, k)
      <4> HIDE DEF Up, Low
      <4>. QED
        BY <3>4
    <3> HIDE DEF Solves
    <3>. QED
      BY <2>k, <3>5
  <2>. QED
    BY <2>3, <2>4
<1>4. PICK b \in Nat : \A m \in Node : m <= b
  <2>1. \A m \in Node : m \in Nat
    BY <1>2
  <2>. QED
    BY <1>2, <2>1, FiniteIsBounded
<1>5. Low(b) = Node
  BY <1>4
<1>6. \E f : Eq(f)
  <2>1. \E f : Solves(f, b)
    <3> HIDE DEF Solves
    <3>. QED
      BY <1>3
  <2> HIDE DEF Low, Up
  <2>. QED
    BY <1>5, <2>1
<1>7. Eq(F)
  <2> HIDE DEF Eq
  <2>. QED
    BY <1>6
<1>8. \A m \in Node : F[m] = Up(F, m)
  <2> HIDE DEF F, Up
  <2>. QED
    BY <1>7
<1>9. ASSUME NEW m \in Node PROVE Ancestors[m] = F[m]
  <2> HIDE DEF F
  <2>. QED
    BY <1>1
<1> HIDE DEF F
<1>. QED
  BY <1>8, <1>9, ParentBefore

\* Induction from the root down: the first node of a set of counterexamples
\* has a parent that is none.
LEMMA FirstNode ==
  ASSUME NEW S \in SUBSET Node, S # {}
  PROVE  \E m \in S : Parent(m) # nullptr => Parent(m) \in Node /\ Parent(m) \notin S
<1>1. S \in SUBSET Nat
  BY NodesAreNumbers
<1>2. PICK m \in S : \A k \in S : m <= k
  BY <1>1, LeastNatural
<1>3. m \in Node /\ m \in Nat
  BY <1>1
<1>4. ASSUME Parent(m) # nullptr PROVE Parent(m) \in Node /\ Parent(m) \notin S
  <2>1. Parent(m) \in Node /\ Parent(m) < m /\ Parent(m) \in Nat
    BY <1>3, <1>4, ParentBefore, NodesAreNumbers
  <2>. QED
    BY <1>2, <1>3, <2>1
<1>. QED
  BY <1>4

\* Ancestors are nodes.
LEMMA AncestorsType ==
  ASSUME NEW n \in Node
  PROVE  Ancestors[n] \in Seq(Node)
<1> DEFINE Bad == {m \in Node : Ancestors[m] \notin Seq(Node)}
<1>1. SUFFICES ASSUME Bad # {} PROVE FALSE
  BY <1>1
<1>2. PICK m \in Bad : Parent(m) # nullptr => Parent(m) \in Node /\ Parent(m) \notin Bad
  <2>1. Bad \in SUBSET Node
    OBVIOUS
  <2> HIDE DEF Bad
  <2>. QED
    BY <1>1, <2>1, FirstNode
<1>3. m \in Node /\ Ancestors[m] \notin Seq(Node)
  OBVIOUS
<1>4. Parent(m) # nullptr => Parent(m) \in Node /\ Ancestors[Parent(m)] \in Seq(Node)
  BY <1>2
<1> HIDE DEF Bad
<1>5. CASE Parent(m) = nullptr
  <2>1. Ancestors[m] = <<>>
    BY <1>3, <1>5, AncestorsStep
  <2>. QED
    BY <1>3, <2>1
<1>6. CASE Parent(m) # nullptr
  <2>1. Ancestors[m] = <<Parent(m)>> \o Ancestors[Parent(m)]
    BY <1>3, <1>6, AncestorsStep
  <2>2. <<Parent(m)>> \in Seq(Node)
    BY <1>4, <1>6
  <2>. QED
    BY <1>3, <1>4, <1>6, <2>1, <2>2
<1>. QED
  BY <1>5, <1>6

Above(n) == ToSet(Ancestors[n])

\* The ancestors of a node as a set.
LEMMA AboveStep ==
  ASSUME NEW n \in Node
  PROVE  Above(n) = IF Parent(n) = nullptr THEN {} ELSE {Parent(n)} \cup Above(Parent(n))
<1>1. CASE Parent(n) = nullptr
  <2>1. Ancestors[n] = <<>>
    BY <1>1, AncestorsStep
  <2>. QED
    BY <1>1, <2>1 DEF Above, ToSet
<1>2. CASE Parent(n) # nullptr
  <2> DEFINE p == Parent(n)
             s == Ancestors[p]
  <2>1. p \in Node /\ s \in Seq(Node) /\ Ancestors[n] = <<p>> \o s
    BY <1>2, ParentBefore, AncestorsType, AncestorsStep
  <2> HIDE DEF p, s
  <2> DEFINE t == <<p>> \o s
  <2>2. /\ Len(t) = Len(s) + 1
        /\ t[1] = p
        /\ \A i \in 1 .. Len(s) : t[i + 1] = s[i]
        /\ t \in Seq(Node) /\ Len(s) \in Nat
        /\ DOMAIN t = 1 .. Len(s) + 1 /\ DOMAIN s = 1 .. Len(s)
    BY <2>1
  <2> HIDE DEF t
  <2>3. ToSet(t) \subseteq {p} \cup ToSet(s)
    <3>1. ASSUME NEW i \in DOMAIN t PROVE t[i] \in {p} \cup ToSet(s)
      <4>1. CASE i = 1
        BY <2>2, <4>1
      <4>2. CASE i # 1
        <5>1. i - 1 \in 1 .. Len(s) /\ (i - 1) + 1 = i
          BY <2>2, <4>2
        <5>2. t[i] = s[i - 1]
          BY <2>2, <5>1
        <5>. QED
          BY <2>2, <5>1, <5>2 DEF ToSet
      <4>. QED
        BY <4>1, <4>2
    <3>. QED
      BY <3>1 DEF ToSet
  <2>4. p \in ToSet(t)
    <3>1. 1 \in DOMAIN t
      BY <2>2
    <3>. QED
      BY <2>2, <3>1 DEF ToSet
  <2>5. ToSet(s) \subseteq ToSet(t)
    <3>1. ASSUME NEW i \in DOMAIN s PROVE s[i] \in ToSet(t)
      <4>1. i + 1 \in DOMAIN t /\ t[i + 1] = s[i]
        BY <2>2
      <4>. QED
        BY <4>1 DEF ToSet
    <3>. QED
      BY <3>1 DEF ToSet
  <2>6. ToSet(t) = {p} \cup ToSet(s)
    BY <2>3, <2>4, <2>5
  <2>. QED
    BY <1>2, <2>1, <2>6 DEF Above, p, s, t
<1>. QED
  BY <1>1, <1>2

\* An ancestor is a node that comes before.
LEMMA AboveBefore ==
  ASSUME NEW n \in Node, NEW m \in Above(n)
  PROVE  m \in Node /\ m < n
<1> DEFINE Bad == {k \in Node : \E j \in Above(k) : ~(j \in Node /\ j < k)}
<1>1. SUFFICES ASSUME Bad # {} PROVE FALSE
  BY <1>1
<1>2. PICK k \in Bad : Parent(k) # nullptr => Parent(k) \in Node /\ Parent(k) \notin Bad
  <2>1. Bad \in SUBSET Node
    OBVIOUS
  <2> HIDE DEF Bad
  <2>. QED
    BY <1>1, <2>1, FirstNode
<1>3. PICK j \in Above(k) : ~(j \in Node /\ j < k)
  OBVIOUS
<1>4. k \in Node /\ k \in Nat
  BY NodesAreNumbers
<1>5. Parent(k) # nullptr /\ (j = Parent(k) \/ j \in Above(Parent(k)))
  BY <1>3, <1>4, AboveStep
<1>6. Parent(k) \in Node /\ Parent(k) < k /\ Parent(k) \in Nat
  BY <1>4, <1>5, ParentBefore, NodesAreNumbers
<1>7. j \in Above(Parent(k)) => j \in Node /\ j < Parent(k)
  BY <1>2, <1>5
<1> HIDE DEF Bad
<1>8. j \in Node => j \in Nat
  BY NodesAreNumbers
<1>. QED
  BY <1>3, <1>4, <1>5, <1>6, <1>7, <1>8

\* The ancestors of an ancestor are ancestors.
LEMMA AboveTransitive ==
  ASSUME NEW n \in Node, NEW m \in Above(n)
  PROVE  Above(m) \subseteq Above(n)
<1> DEFINE Bad == {k \in Node : \E j \in Above(k) : ~(Above(j) \subseteq Above(k))}
<1>1. SUFFICES ASSUME Bad # {} PROVE FALSE
  BY <1>1
<1>2. PICK k \in Bad : Parent(k) # nullptr => Parent(k) \in Node /\ Parent(k) \notin Bad
  <2>1. Bad \in SUBSET Node
    OBVIOUS
  <2> HIDE DEF Bad
  <2>. QED
    BY <1>1, <2>1, FirstNode
<1>3. PICK j \in Above(k) : ~(Above(j) \subseteq Above(k))
  OBVIOUS
<1>4. k \in Node
  OBVIOUS
<1>5. Parent(k) # nullptr /\ Above(k) = {Parent(k)} \cup Above(Parent(k))
  BY <1>3, <1>4, AboveStep
<1>6. j \in Above(Parent(k)) => Above(j) \subseteq Above(Parent(k))
  BY <1>2, <1>5
<1> HIDE DEF Bad
<1>. QED
  BY <1>3, <1>5, <1>6

\* On the way down from n to a node below it there is a child of n.
LEMMA ChildOnTheWay ==
  ASSUME NEW m \in Node, NEW n \in Above(m)
  PROVE  \E i \in DOMAIN Kids(n) : Kids(n)[i] = m \/ Kids(n)[i] \in Above(m)
<1> DEFINE Good(k) == \E i \in DOMAIN Kids(n) : Kids(n)[i] = k \/ Kids(n)[i] \in Above(k)
           Bad == {k \in Node : n \in Above(k) /\ ~Good(k)}
<1>1. SUFFICES ASSUME Bad # {} PROVE FALSE
  BY <1>1
<1>2. PICK k \in Bad : Parent(k) # nullptr => Parent(k) \in Node /\ Parent(k) \notin Bad
  <2>1. Bad \in SUBSET Node
    OBVIOUS
  <2> HIDE DEF Bad
  <2>. QED
    BY <1>1, <2>1, FirstNode
<1>3. k \in Node /\ n \in Above(k) /\ ~Good(k)
  <2> HIDE DEF Good
  <2>. QED
    OBVIOUS
<1>4. Parent(k) # nullptr /\ Above(k) = {Parent(k)} \cup Above(Parent(k))
  BY <1>3, AboveStep
<1>5. CASE n = Parent(k)
  <2>1. k \in ToSet(Kids(n))
    BY <1>3, <1>4, <1>5, TreeAssumption
  <2>. QED
    BY <1>3, <2>1 DEF ToSet
<1>6. CASE n \in Above(Parent(k))
  <2>1. Good(Parent(k))
    <3> HIDE DEF Good
    <3>. QED
      BY <1>2, <1>4, <1>6
  <2> HIDE DEF Bad
  <2>. QED
    BY <1>3, <1>4, <2>1
<1>. QED
  BY <1>3, <1>4, <1>5, <1>6

\* n is in the subtree of m.
Under(n, m) == m = n \/ m \in Above(n)

\* What is above a child.
LEMMA AboveKid ==
  ASSUME NEW n \in Node, NEW i \in DOMAIN Kids(n)
  PROVE  Kids(n)[i] \in Node /\ Above(Kids(n)[i]) = {n} \cup Above(n) /\ n < Kids(n)[i]
<1>1. n # nullptr /\ n \in Nat
  BY NodesAreNumbers DEF nullptr
<1>2. Kids(n)[i] \in Node /\ Kids(n)[i] > n /\ Parent(Kids(n)[i]) = n
  BY KidsAfter
<1>3. Kids(n)[i] \in Nat
  BY <1>2, NodesAreNumbers
<1>. QED
  BY <1>1, <1>2, <1>3, AboveStep

\* The nodes of a mapping are closed under children and, but for the root,
\* under parents.
LEMMA NodesClosed ==
  ASSUME NEW r \in Roots, NEW n \in NodesOf[r]
  PROVE  /\ n \in Node /\ r \in NodesOf[r]
         /\ Parent(n) = nullptr => n = r
         /\ Parent(n) # nullptr => Parent(n) \in NodesOf[r]
         /\ \A i \in DOMAIN Kids(n) : Kids(n)[i] \in NodesOf[r]
<1>1. NodesOf[r] = {m \in Node : r = m \/ r \in Above(m)}
  BY DEF NodesOf, Above
<1>2. n \in Node /\ (r = n \/ r \in Above(n)) /\ r \in Node /\ Parent(r) = nullptr
  BY <1>1 DEF Roots
<1>3. ASSUME NEW i \in DOMAIN Kids(n) PROVE Kids(n)[i] \in NodesOf[r]
  <2>1. Kids(n)[i] \in Node /\ Above(Kids(n)[i]) = {n} \cup Above(n)
    BY <1>2, AboveKid
  <2>. QED
    BY <1>1, <1>2, <2>1
<1>4. CASE Parent(n) = nullptr
  <2>1. Above(n) = {}
    BY <1>2, <1>4, AboveStep
  <2>. QED
    BY <1>1, <1>2, <1>3, <1>4, <2>1
<1>5. CASE Parent(n) # nullptr
  <2>1. Above(n) = {Parent(n)} \cup Above(Parent(n)) /\ Parent(n) \in Node
    BY <1>2, <1>5, AboveStep, ParentBefore
  <2>2. r # n
    BY <1>2, <1>5
  <2>. QED
    BY <1>1, <1>2, <1>3, <1>5, <2>1, <2>2
<1>. QED
  BY <1>4, <1>5

\* Of two nodes above a third one is above the other.
LEMMA AboveChain ==
  ASSUME NEW n \in Node, NEW a \in Above(n), NEW b \in Above(n)
  PROVE  Under(a, b) \/ Under(b, a)
<1> DEFINE Good(k) == \A x, y \in Above(k) : Under(x, y) \/ Under(y, x)
           Bad == {k \in Node : ~Good(k)}
<1>1. SUFFICES ASSUME Bad # {} PROVE FALSE
  <2>1. Good(n)
    <3> HIDE DEF Good
    <3>. QED
      BY <1>1
  <2>. QED
    BY <2>1
<1>2. PICK k \in Bad : Parent(k) # nullptr => Parent(k) \in Node /\ Parent(k) \notin Bad
  <2>1. Bad \in SUBSET Node
    OBVIOUS
  <2> HIDE DEF Bad
  <2>. QED
    BY <1>1, <2>1, FirstNode
<1>3. k \in Node /\ ~Good(k)
  <2> HIDE DEF Good
  <2>. QED
    OBVIOUS
<1>4. CASE Parent(k) = nullptr
  <2>1. Above(k) = {}
    BY <1>3, <1>4, AboveStep
  <2>. QED
    BY <1>3, <2>1
<1>5. CASE Parent(k) # nullptr
  <2>1. Parent(k) \in Node /\ Good(Parent(k))
    <3> HIDE DEF Good
    <3>. QED
      BY <1>2, <1>5
  <2>2. Above(k) = {Parent(k)} \cup Above(Parent(k))
    BY <1>3, <1>5, AboveStep
  <2>. QED
    BY <1>3, <2>1, <2>2 DEF Under
<1>. QED
  BY <1>4, <1>5

\* The subtrees of two children of a node have no node in common.
LEMMA SiblingsApart ==
  ASSUME NEW n \in Node, NEW i \in DOMAIN Kids(n), NEW j \in DOMAIN Kids(n), i # j,
         NEW m \in Node
  PROVE  ~(Under(m, Kids(n)[i]) /\ Under(m, Kids(n)[j]))
<1> SUFFICES ASSUME Under(m, Kids(n)[i]), Under(m, Kids(n)[j]) PROVE FALSE
  OBVIOUS
<1> DEFINE a == Kids(n)[i]
           b == Kids(n)[j]
<1>1. /\ a \in Node /\ Above(a) = {n} \cup Above(n) /\ n < a
      /\ b \in Node /\ Above(b) = {n} \cup Above(n) /\ n < b
  BY AboveKid
<1>2. a # b
  BY KidsAfter
<1>3. \A x \in {n} \cup Above(n) : x \in Nat /\ x <= n /\ n \in Nat
  BY AboveBefore, NodesAreNumbers
<1>4. a \in Nat /\ b \in Nat
  BY <1>1, NodesAreNumbers
<1>5. a \notin {n} \cup Above(n) /\ b \notin {n} \cup Above(n)
  BY <1>1, <1>3, <1>4
<1> HIDE DEF a, b
<1>6. ~Under(a, b) /\ ~Under(b, a)
  BY <1>1, <1>2, <1>5 DEF Under
<1>7. Under(m, a) /\ Under(m, b)
  BY DEF a, b
<1>. QED
  BY <1>6, <1>7, AboveChain DEF Under

\* What is strictly below a node is below one of its children.
LEMMA BelowKids ==
  ASSUME NEW n \in Node, NEW m \in Node
  PROVE  n \in Above(m) <=> \E i \in DOMAIN Kids(n) : Under(m, Kids(n)[i])
<1>1. ASSUME n \in Above(m) PROVE \E i \in DOMAIN Kids(n) : Under(m, Kids(n)[i])
  BY <1>1, ChildOnTheWay DEF Under
<1>2. ASSUME NEW i \in DOMAIN Kids(n), Under(m, Kids(n)[i]) PROVE n \in Above(m)
  <2>1. n \in Above(Kids(n)[i]) /\ Kids(n)[i] \in Node
    BY AboveKid
  <2>. QED
    BY <1>2, <2>1, AboveTransitive DEF Under
<1>. QED
  BY <1>1, <1>2

-----------------------------------------------------------------------------
(* Traversals.                                                             *)

\* What a traversal f makes of the children of n.
Inner(f, n) == FlattenSeq([i \in DOMAIN Kids(n) |-> f[Kids(n)[i]]])

\* It depends on the children only.
LEMMA InnerType ==
  ASSUME NEW n \in Node, NEW f, \A i \in DOMAIN Kids(n) : f[Kids(n)[i]] \in Seq(Node)
  PROVE  /\ [i \in DOMAIN Kids(n) |-> f[Kids(n)[i]]] \in Seq(Seq(Node))
         /\ Inner(f, n) \in Seq(Node)
<1>1. Kids(n) \in Seq(Node)
  BY KidsAfter
<1>2. [i \in DOMAIN Kids(n) |-> f[Kids(n)[i]]] \in Seq(Seq(Node))
  <2>1. DOMAIN Kids(n) = 1 .. Len(Kids(n)) /\ Len(Kids(n)) \in Nat
    BY <1>1
  <2> DEFINE k == Len(Kids(n))
             g == [i \in 1 .. k |-> f[Kids(n)[i]]]
  <2>2. g \in [1 .. k -> Seq(Node)] /\ k \in Nat
    BY <2>1
  <2>3. g \in Seq(Seq(Node))
    <3> HIDE DEF g, k
    <3>. QED
      BY <2>2, SeqDef
  <2>. QED
    BY <2>1, <2>3
<1>. QED
  BY <1>2, FlattenType DEF Inner

\* A recursion from the children to their parents has a solution.
LEMMA TraversalSolution ==
  ASSUME NEW join \in [Node \X Seq(Node) -> Seq(Node)]
  PROVE  \E f \in [Node -> Seq(Node)] : \A n \in Node : f[n] = join[<<n, Inner(f, n)>>]
<1>1. Node \in SUBSET Nat /\ IsFiniteSet(Node) /\ \A m \in Node : m \in Nat
  BY NodesAreNumbers
<1>2. PICK b \in Nat : \A m \in Node : m <= b
  BY <1>1, FiniteIsBounded
<1> DEFINE High(k) == {m \in Node : m >= k}
           Eq(f, m) == f[m] = join[<<m, Inner(f, m)>>]
           Solves(f, k) == f \in [High(k) -> Seq(Node)] /\ \A m \in High(k) : Eq(f, m)
           G == {k \in 0 .. b + 1 : \E f : Solves(f, k)}
<1>3. b + 1 \in G
  <2>1. High(b + 1) = {}
    <3>1. \A m \in Node : ~(m >= b + 1)
      BY <1>1, <1>2
    <3>. QED
      BY <3>1, Zenon
  <2>2. <<>> \in [High(b + 1) -> Seq(Node)]
    BY <2>1
  <2>3. Solves(<<>>, b + 1)
    <3> HIDE DEF High, Eq
    <3>. QED
      BY <2>1, <2>2
  <2> HIDE DEF Solves
  <2>. QED
    BY <1>2, <2>3
<1>4. ASSUME NEW k \in 1 .. b + 1, k \in G PROVE k - 1 \in G
  <2>1. PICK f : Solves(f, k)
    <3> HIDE DEF Solves
    <3>. QED
      BY <1>4
  <2> DEFINE h == [m \in High(k - 1) |-> IF m \in High(k) THEN f[m] ELSE join[<<m, Inner(f, m)>>]]
  <2>2. ASSUME NEW m \in High(k - 1), NEW i \in DOMAIN Kids(m)
        PROVE  /\ m \in Node /\ Kids(m)[i] \in High(k) /\ Kids(m)[i] \in High(k - 1)
               /\ f[Kids(m)[i]] \in Seq(Node) /\ h[Kids(m)[i]] = f[Kids(m)[i]]
    <3>1. m \in Node /\ m >= k - 1 /\ m \in Nat /\ k \in Nat
      BY <1>1, <1>2
    <3>2. Kids(m)[i] \in Node /\ Kids(m)[i] > m /\ Kids(m)[i] \in Nat
      BY <1>1, <3>1, KidsAfter
    <3>3. Kids(m)[i] \in High(k) /\ Kids(m)[i] \in High(k - 1)
      BY <3>1, <3>2
    <3> HIDE DEF High, Eq
    <3>. QED
      BY <2>1, <3>1, <3>3
  <2>3. ASSUME NEW m \in High(k - 1) PROVE Inner(h, m) = Inner(f, m) /\ Inner(f, m) \in Seq(Node)
    <3>1. m \in Node
      OBVIOUS
    <3>2. [i \in DOMAIN Kids(m) |-> h[Kids(m)[i]]] = [i \in DOMAIN Kids(m) |-> f[Kids(m)[i]]]
      <4> HIDE DEF h, High
      <4>. QED
        BY <2>2
    <3>3. \A i \in DOMAIN Kids(m) : f[Kids(m)[i]] \in Seq(Node)
      <4> HIDE DEF h, High
      <4>. QED
        BY <2>2
    <3> HIDE DEF h, High
    <3>. QED
      BY <3>1, <3>2, <3>3, InnerType DEF Inner
  <2>4. ASSUME NEW m \in High(k - 1) PROVE h[m] \in Seq(Node) /\ Eq(h, m)
    <3>1. m \in Node
      OBVIOUS
    <3>2. CASE m \in High(k)
      <4>1. h[m] = f[m] /\ f[m] \in Seq(Node) /\ f[m] = join[<<m, Inner(f, m)>>]
        <5> HIDE DEF High
        <5>. QED
          BY <2>1, <3>2
      <4> HIDE DEF High, h
      <4>. QED
        BY <2>3, <4>1
    <3>3. CASE m \notin High(k)
      <4>1. h[m] = join[<<m, Inner(f, m)>>]
        <5> HIDE DEF High
        <5>. QED
          BY <3>3
      <4>2. <<m, Inner(f, m)>> \in Node \X Seq(Node)
        <5> HIDE DEF High, h
        <5>. QED
          BY <2>3, <3>1
      <4> HIDE DEF High, h
      <4>. QED
        BY <2>3, <4>1, <4>2
    <3>. QED
      BY <3>2, <3>3
  <2>5. DOMAIN h = High(k - 1) /\ h = [m \in High(k - 1) |-> h[m]]
    <3> HIDE DEF High
    <3>. QED
      OBVIOUS
  <2>6. Solves(h, k - 1)
    <3> HIDE DEF High, h, Eq
    <3>. QED
      BY <2>4, <2>5
  <2>7. k - 1 \in 0 .. b + 1
    BY <1>2
  <2> HIDE DEF Solves
  <2>. QED
    BY <2>6, <2>7
<1>5. 0 \in G
  <2>1. b + 1 \in Nat /\ 0 \in 0 .. b + 1
    BY <1>2
  <2> HIDE DEF G
  <2>. QED
    BY <1>3, <1>4, <2>1, DownInduction
<1>6. PICK f : Solves(f, 0)
  <2> HIDE DEF Solves
  <2>. QED
    BY <1>5
<1>7. High(0) = Node
  <2>1. \A m \in Node : m >= 0
    BY <1>1
  <2>. QED
    BY <2>1, Zenon
<1> HIDE DEF High
<1>. QED
  BY <1>6, <1>7

\* A traversal that takes a node before or after its children lists its
\* subtree, each node once.
LEMMA TraversalLists ==
  ASSUME NEW f,
         \A n \in Node : f[n] = <<n>> \o Inner(f, n) \/ f[n] = Inner(f, n) \o <<n>>
  PROVE  \A n \in Node : /\ f[n] \in Seq(Node)
                         /\ ToSet(f[n]) = {m \in Node : Under(m, n)}
                         /\ IsInjective(f[n])
<1> DEFINE Good(n) == /\ f[n] \in Seq(Node)
                      /\ ToSet(f[n]) = {m \in Node : Under(m, n)}
                      /\ IsInjective(f[n])
           Bad == {n \in Node : ~Good(n)}
<1>1. SUFFICES ASSUME Bad # {} PROVE FALSE
  <2>1. \A n \in Node : Good(n)
    <3> HIDE DEF Good
    <3>. QED
      BY <1>1
  <2>. QED
    BY <2>1
<1>2. PICK n \in Bad : \A m \in Bad : m <= n
  <2>1. Bad \in SUBSET Nat /\ Bad \subseteq Node
    BY NodesAreNumbers
  <2>2. PICK b \in Nat : \A m \in Node : m <= b
    <3>1. \A m \in Node : m \in Nat
      BY NodesAreNumbers
    <3>. QED
      BY <3>1, NodesAreNumbers, FiniteIsBounded
  <2> HIDE DEF Bad
  <2>. QED
    BY <1>1, <2>1, <2>2, GreatestNatural
<1>3. n \in Node /\ ~Good(n)
  <2> HIDE DEF Good
  <2>. QED
    OBVIOUS
<1> DEFINE K == Kids(n)
           q == [i \in DOMAIN K |-> f[K[i]]]
<1>4. ASSUME NEW i \in DOMAIN K PROVE K[i] \in Node /\ Good(K[i])
  <2>1. K[i] \in Node /\ K[i] > n
    BY <1>3, KidsAfter
  <2>2. K[i] \in Nat /\ n \in Nat
    BY <1>3, <2>1, NodesAreNumbers
  <2>3. K[i] \notin Bad
    <3> HIDE DEF Bad, K
    <3>. QED
      BY <1>2, <2>1, <2>2
  <2> HIDE DEF Good, K
  <2>. QED
    BY <2>1, <2>3
<1>5. /\ \A i \in DOMAIN K : f[K[i]] \in Seq(Node)
      /\ q \in Seq(Seq(Node)) /\ Inner(f, n) \in Seq(Node) /\ Inner(f, n) = FlattenSeq(q)
  <2>1. \A i \in DOMAIN K : f[K[i]] \in Seq(Node)
    <3> HIDE DEF K
    <3>. QED
      BY <1>4
  <2>. QED
    BY <1>3, <2>1, InnerType DEF Inner
<1>6. \A i \in DOMAIN K : ToSet(q[i]) = {m \in Node : Under(m, K[i])} /\ IsInjective(q[i])
  <2> HIDE DEF K
  <2>. QED
    BY <1>4
<1>7. ASSUME NEW i \in DOMAIN K, NEW j \in DOMAIN K, i # j
      PROVE  ToSet(q[i]) \cap ToSet(q[j]) = {}
  <2>1. \A m \in Node : ~(Under(m, K[i]) /\ Under(m, K[j]))
    BY <1>3, <1>7, SiblingsApart
  <2> HIDE DEF q
  <2>. QED
    BY <1>6, <2>1
<1>8. DOMAIN q = DOMAIN K
  OBVIOUS
<1> DEFINE s == Inner(f, n)
<1>9. ToSet(s) = UNION {ToSet(q[i]) : i \in DOMAIN K} /\ IsInjective(s)
  <2> HIDE DEF q, K, s
  <2>1. s = FlattenSeq(q) /\ q \in Seq(Seq(Node))
    BY <1>5 DEF s
  <2>2. /\ \A i \in DOMAIN q : IsInjective(q[i])
        /\ \A i, j \in DOMAIN q : i # j => ToSet(q[i]) \cap ToSet(q[j]) = {}
    BY <1>6, <1>7, <1>8
  <2>3. ToSet(s) = UNION {ToSet(q[i]) : i \in DOMAIN q} /\ IsInjective(s)
    BY <2>1, <2>2, FlattenElements
  <2>. QED
    BY <1>8, <2>3
<1>10. ToSet(s) = {m \in Node : n \in Above(m)}
  <2>1. \A m \in Node : n \in Above(m) <=> \E i \in DOMAIN K : Under(m, K[i])
    BY <1>3, BelowKids
  <2> HIDE DEF q, K, s
  <2>. QED
    BY <1>6, <1>9, <2>1
<1>11. n \notin ToSet(s)
  <2>1. n \notin Above(n)
    BY <1>3, AboveBefore, NodesAreNumbers
  <2> HIDE DEF s
  <2>. QED
    BY <1>10, <2>1
<1>12. <<n>> \in Seq(Node) /\ ToSet(<<n>>) = {n} /\ IsInjective(<<n>>)
  BY <1>3 DEF ToSet, IsInjective
<1>13. s \in Seq(Node) /\ (f[n] = <<n>> \o s \/ f[n] = s \o <<n>>)
  BY <1>3, <1>5
<1> HIDE DEF s, K, q
<1> DEFINE one == <<n>>
<1>14. ToSet(f[n]) = {n} \cup ToSet(s) /\ IsInjective(f[n])
  <2>1. /\ one \in Seq(Node) /\ ToSet(one) = {n} /\ IsInjective(one)
        /\ s \in Seq(Node) /\ (f[n] = one \o s \/ f[n] = s \o one)
    BY <1>12, <1>13
  <2> HIDE DEF one
  <2>2. /\ ToSet(one) \cap ToSet(s) = {} /\ ToSet(s) \cap ToSet(one) = {}
        /\ IsInjective(s)
    BY <1>9, <1>11, <2>1
  <2>3. ToSet(one \o s) = ToSet(one) \cup ToSet(s) /\ IsInjective(one \o s)
    BY <2>1, <2>2, ConcatElements
  <2>4. ToSet(s \o one) = ToSet(s) \cup ToSet(one) /\ IsInjective(s \o one)
    BY <2>1, <2>2, ConcatElements
  <2>. QED
    BY <2>1, <2>3, <2>4
<1>15. ToSet(f[n]) = {m \in Node : Under(m, n)}
  BY <1>3, <1>10, <1>14 DEF Under
<1>16. f[n] \in Seq(Node)
  <2>1. one \in Seq(Node) /\ s \in Seq(Node) /\ (f[n] = one \o s \/ f[n] = s \o one)
    BY <1>12, <1>13
  <2> HIDE DEF one
  <2>2. one \o s \in Seq(Node) /\ s \o one \in Seq(Node)
    BY <2>1, ConcatProperties
  <2>. QED
    BY <2>1, <2>2
<1>. QED
  BY <1>3, <1>14, <1>15, <1>16

\* The pre-order of a subtree lists its nodes, each one once.
LEMMA PreOrderLists ==
  ASSUME NEW n \in Node
  PROVE  /\ PreOrder[n] \in Seq(Node)
         /\ ToSet(PreOrder[n]) = {m \in Node : Under(m, n)}
         /\ IsInjective(PreOrder[n])
<1> DEFINE Eq(f) == f = [m \in Node |-> <<m>> \o Inner(f, m)]
           F == CHOOSE f : Eq(f)
           join == [p \in Node \X Seq(Node) |-> <<p[1]>> \o p[2]]
<1>1. PreOrder = [m \in Node |-> F[m]]
  BY Zenon DEF PreOrder, Inner
<1>2. join \in [Node \X Seq(Node) -> Seq(Node)]
  <2>1. ASSUME NEW p \in Node \X Seq(Node) PROVE <<p[1]>> \o p[2] \in Seq(Node)
    <3>1. <<p[1]>> \in Seq(Node) /\ p[2] \in Seq(Node)
      OBVIOUS
    <3>. QED
      BY <3>1, ConcatProperties
  <2>. QED
    BY <2>1
<1>3. ASSUME NEW m \in Node, NEW t \in Seq(Node) PROVE join[<<m, t>>] = <<m>> \o t
  OBVIOUS
<1> HIDE DEF join
<1>4. PICK f \in [Node -> Seq(Node)] : \A m \in Node : f[m] = join[<<m, Inner(f, m)>>]
  BY <1>2, TraversalSolution
<1>5. ASSUME NEW m \in Node PROVE f[m] = <<m>> \o Inner(f, m)
  <2>1. \A i \in DOMAIN Kids(m) : f[Kids(m)[i]] \in Seq(Node)
    BY KidsAfter
  <2>2. Inner(f, m) \in Seq(Node)
    BY <2>1, InnerType
  <2>. QED
    BY <1>3, <1>4, <2>2
<1>6. Eq(F)
  <2>1. Eq(f)
    BY <1>5
  <2> HIDE DEF Eq
  <2>. QED
    BY <2>1
<1>7. \A m \in Node : F[m] = <<m>> \o Inner(F, m)
  <2> HIDE DEF F
  <2>. QED
    BY <1>6
<1>8. /\ F[n] \in Seq(Node) /\ ToSet(F[n]) = {m \in Node : Under(m, n)}
      /\ IsInjective(F[n])
  <2> HIDE DEF F
  <2>. QED
    BY <1>7, TraversalLists
<1>9. PreOrder[n] = F[n]
  <2> HIDE DEF F
  <2>. QED
    BY <1>1
<1> HIDE DEF F
<1>. QED
  BY <1>8, <1>9

\* The post-order of a subtree lists its nodes, each one once.
LEMMA PostOrderLists ==
  ASSUME NEW n \in Node
  PROVE  /\ PostOrder[n] \in Seq(Node)
         /\ ToSet(PostOrder[n]) = {m \in Node : Under(m, n)}
         /\ IsInjective(PostOrder[n])
<1> DEFINE Eq(f) == f = [m \in Node |-> Inner(f, m) \o <<m>>]
           F == CHOOSE f : Eq(f)
           join == [p \in Node \X Seq(Node) |-> p[2] \o <<p[1]>>]
<1>1. PostOrder = [m \in Node |-> F[m]]
  BY Zenon DEF PostOrder, Inner
<1>2. join \in [Node \X Seq(Node) -> Seq(Node)]
  <2>1. ASSUME NEW p \in Node \X Seq(Node) PROVE p[2] \o <<p[1]>> \in Seq(Node)
    <3>1. <<p[1]>> \in Seq(Node) /\ p[2] \in Seq(Node)
      OBVIOUS
    <3>. QED
      BY <3>1, ConcatProperties
  <2>. QED
    BY <2>1
<1>3. ASSUME NEW m \in Node, NEW t \in Seq(Node) PROVE join[<<m, t>>] = t \o <<m>>
  OBVIOUS
<1> HIDE DEF join
<1>4. PICK f \in [Node -> Seq(Node)] : \A m \in Node : f[m] = join[<<m, Inner(f, m)>>]
  BY <1>2, TraversalSolution
<1>5. ASSUME NEW m \in Node PROVE f[m] = Inner(f, m) \o <<m>>
  <2>1. \A i \in DOMAIN Kids(m) : f[Kids(m)[i]] \in Seq(Node)
    BY KidsAfter
  <2>2. Inner(f, m) \in Seq(Node)
    BY <2>1, InnerType
  <2>. QED
    BY <1>3, <1>4, <2>2
<1>6. Eq(F)
  <2>1. Eq(f)
    BY <1>5
  <2> HIDE DEF Eq
  <2>. QED
    BY <2>1
<1>7. \A m \in Node : F[m] = Inner(F, m) \o <<m>>
  <2> HIDE DEF F
  <2>. QED
    BY <1>6
<1>8. /\ F[n] \in Seq(Node) /\ ToSet(F[n]) = {m \in Node : Under(m, n)}
      /\ IsInjective(F[n])
  <2> HIDE DEF F
  <2>. QED
    BY <1>7, TraversalLists
<1>9. PostOrder[n] = F[n]
  <2> HIDE DEF F
  <2>. QED
    BY <1>1
<1> HIDE DEF F
<1>. QED
  BY <1>8, <1>9

-----------------------------------------------------------------------------
(* The loop nests on a path.                                               *)

\* A node adds at most one loop nest, its own.
LEMMA OwnNestsType ==
  ASSUME NEW n \in Node
  PROVE  OwnNests(n) \in Seq(Seq(Loop))
<1>1. Tree[n].loops \in Seq(Loop)
  BY TreeAssumption
<1>. QED
  BY <1>1 DEF OwnNests

\* Reversing a sequence with one more element in front puts it at the end.
LEMMA ReverseCons ==
  ASSUME NEW T, NEW s \in Seq(T), NEW p \in T
  PROVE  Reverse(<<p>> \o s) = Reverse(s) \o <<p>> /\ Reverse(s) \in Seq(T)
<1> DEFINE t == <<p>> \o s
           r == Reverse(s)
<1>1. /\ Len(t) = Len(s) + 1
      /\ t[1] = p
      /\ \A i \in 1 .. Len(s) : t[i + 1] = s[i]
      /\ Len(s) \in Nat
  OBVIOUS
<1>2. r \in Seq(T) /\ Len(r) = Len(s) /\ \A i \in 1 .. Len(s) : r[i] = s[(Len(s) - i) + 1]
  BY DEF Reverse
<1>3. /\ r \o <<p>> \in Seq(T) /\ Len(r \o <<p>>) = Len(s) + 1
      /\ \A i \in 1 .. Len(s) : (r \o <<p>>)[i] = r[i]
      /\ (r \o <<p>>)[Len(s) + 1] = p
  <2> HIDE DEF r
  <2>1. Append(r, p) = r \o <<p>>
    BY <1>2, AppendIsConcat
  <2>2. /\ Append(r, p) \in Seq(T) /\ Len(Append(r, p)) = Len(s) + 1
        /\ \A i \in 1 .. Len(s) : Append(r, p)[i] = r[i]
        /\ Append(r, p)[Len(s) + 1] = p
    BY <1>2, AppendProperties
  <2>. QED
    BY <2>1, <2>2
<1>4. Reverse(t) = [i \in 1 .. Len(s) + 1 |-> t[((Len(s) + 1) - i) + 1]]
  <2> HIDE DEF t
  <2>. QED
    BY <1>1 DEF Reverse
<1>5. r \o <<p>> = [i \in 1 .. Len(s) + 1 |-> (r \o <<p>>)[i]]
  <2> DEFINE u == r \o <<p>>
  <2>1. u \in Seq(T) /\ Len(u) = Len(s) + 1
    BY <1>3
  <2> HIDE DEF u
  <2>2. u = [i \in 1 .. Len(s) + 1 |-> u[i]]
    BY <2>1
  <2>. QED
    BY <2>2 DEF u
<1>6. ASSUME NEW i \in 1 .. Len(s) + 1
      PROVE  t[((Len(s) + 1) - i) + 1] = (r \o <<p>>)[i]
  <2> HIDE DEF t, r
  <2>1. CASE i = Len(s) + 1
    BY <1>1, <1>3, <2>1
  <2>2. CASE i # Len(s) + 1
    <3>1. i \in 1 .. Len(s) /\ (Len(s) - i) + 1 \in 1 .. Len(s)
          /\ ((Len(s) + 1) - i) + 1 = ((Len(s) - i) + 1) + 1
      BY <1>1, <2>2
    <3>. QED
      BY <1>1, <1>2, <1>3, <3>1
  <2>. QED
    BY <2>1, <2>2
<1> HIDE DEF t, r
<1>7. Reverse(t) = r \o <<p>>
  BY <1>4, <1>5, <1>6
<1>. QED
  BY <1>2, <1>7 DEF t, r

\* The nodes on the way from the root to n.
PathOf(n) == Reverse(Ancestors[n]) \o <<n>>

\* The path of a node is that of its parent with the node behind it.
LEMMA PathStep ==
  ASSUME NEW n \in Node
  PROVE  /\ PathOf(n) \in Seq(Node)
         /\ Parent(n) = nullptr => PathOf(n) = <<n>>
         /\ Parent(n) # nullptr => PathOf(n) = Append(PathOf(Parent(n)), n)
<1>1. Reverse(Ancestors[n]) \in Seq(Node)
  BY AncestorsType, ReverseCons
<1>2. CASE Parent(n) = nullptr
  <2>1. Ancestors[n] = <<>>
    BY <1>2, AncestorsStep
  <2>2. Reverse(<<>>) = <<>>
    BY DEF Reverse
  <2>3. PathOf(n) = <<n>>
    <3>1. <<n>> \in Seq(Node)
      OBVIOUS
    <3>. QED
      BY <2>1, <2>2, <3>1, ConcatEmptySeq DEF PathOf
  <2>. QED
    BY <1>2, <2>3
<1>3. CASE Parent(n) # nullptr
  <2> DEFINE p == Parent(n)
  <2>1. p \in Node /\ Ancestors[p] \in Seq(Node) /\ Ancestors[n] = <<p>> \o Ancestors[p]
    BY <1>3, ParentBefore, AncestorsType, AncestorsStep
  <2>2. /\ Reverse(Ancestors[n]) = Reverse(Ancestors[p]) \o <<p>>
        /\ Reverse(Ancestors[p]) \in Seq(Node)
    BY <2>1, ReverseCons
  <2>3. PathOf(n) = PathOf(p) \o <<n>>
    BY <2>2 DEF PathOf
  <2>4. PathOf(p) \in Seq(Node)
    BY <2>1, <2>2 DEF PathOf
  <2> HIDE DEF p
  <2>5. PathOf(n) = Append(PathOf(p), n)
    BY <2>3, <2>4
  <2>. QED
    BY <1>1, <1>3, <2>5 DEF PathOf, p
<1>. QED
  BY <1>1, <1>2, <1>3 DEF PathOf

\* A path has the loop nests of the parent's path, then the node's own.
LEMMA PathNestsStep ==
  ASSUME NEW n \in Node
  PROVE  /\ PathNests(n) \in Seq(Seq(Loop))
         /\ Parent(n) = nullptr => PathNests(n) = OwnNests(n)
         /\ Parent(n) # nullptr => PathNests(n) = PathNests(Parent(n)) \o OwnNests(n)
<1> DEFINE Q(s) == [i \in DOMAIN s |-> OwnNests(s[i])]
<1>1. ASSUME NEW m \in Node PROVE PathNests(m) = FlattenSeq(Q(PathOf(m)))
  BY Zenon DEF PathNests, PathOf
<1>2. ASSUME NEW s \in Seq(Node) PROVE Q(s) \in Seq(Seq(Seq(Loop))) /\ Len(Q(s)) = Len(s)
  <2>1. \A i \in 1 .. Len(s) : OwnNests(s[i]) \in Seq(Seq(Loop))
    BY OwnNestsType
  <2>. QED
    BY <2>1
<1>3. ASSUME NEW s \in Seq(Node), NEW m \in Node
      PROVE  Q(Append(s, m)) = Append(Q(s), OwnNests(m))
  <2>1. /\ DOMAIN Append(s, m) = 1 .. Len(s) + 1
        /\ \A i \in 1 .. Len(s) : Append(s, m)[i] = s[i]
        /\ Append(s, m)[Len(s) + 1] = m
        /\ Len(s) \in Nat /\ DOMAIN s = 1 .. Len(s)
    OBVIOUS
  <2> DEFINE u == Append(Q(s), OwnNests(m))
             v == Q(Append(s, m))
  <2>2. /\ Q(s) \in Seq(Seq(Seq(Loop))) /\ Len(Q(s)) = Len(s)
        /\ OwnNests(m) \in Seq(Seq(Loop))
    BY <1>2, OwnNestsType
  <2>3. /\ u \in Seq(Seq(Seq(Loop))) /\ Len(u) = Len(s) + 1
        /\ \A i \in 1 .. Len(s) : u[i] = Q(s)[i]
        /\ u[Len(s) + 1] = OwnNests(m)
    <3> HIDE DEF Q
    <3>. QED
      BY <2>2, AppendProperties
  <2>4. \A i \in 1 .. Len(s) : u[i] = OwnNests(s[i])
    <3>1. \A i \in 1 .. Len(s) : Q(s)[i] = OwnNests(s[i])
      OBVIOUS
    <3> HIDE DEF u, Q
    <3>. QED
      BY <2>3, <3>1
  <2>5. v = [i \in 1 .. Len(s) + 1 |-> OwnNests(Append(s, m)[i])]
    BY <2>1
  <2>6. u = [i \in 1 .. Len(s) + 1 |-> u[i]]
    <3> HIDE DEF u
    <3>. QED
      BY <2>3
  <2>7. ASSUME NEW i \in 1 .. Len(s) + 1 PROVE u[i] = OwnNests(Append(s, m)[i])
    <3> HIDE DEF u
    <3>1. CASE i = Len(s) + 1
      BY <2>1, <2>3, <3>1
    <3>2. CASE i # Len(s) + 1
      <4>1. i \in 1 .. Len(s)
        BY <2>1, <3>2
      <4>. QED
        BY <2>1, <2>4, <4>1
    <3>. QED
      BY <3>1, <3>2
  <2> HIDE DEF u, v
  <2>8. u = v
    BY <2>5, <2>6, <2>7
  <2>. QED
    BY <2>8 DEF u, v
<1> HIDE DEF Q
<1>4. PathNests(n) \in Seq(Seq(Loop))
  <2>1. Q(PathOf(n)) \in Seq(Seq(Seq(Loop)))
    BY <1>2, PathStep
  <2>. QED
    BY <1>1, <2>1, FlattenType
<1>5. ASSUME Parent(n) # nullptr
      PROVE  PathNests(n) = PathNests(Parent(n)) \o OwnNests(n)
  <2> DEFINE s == PathOf(Parent(n))
  <2>1. Parent(n) \in Node /\ s \in Seq(Node) /\ PathOf(n) = Append(s, n)
    BY <1>5, ParentBefore, PathStep
  <2> HIDE DEF s
  <2>2. Q(PathOf(n)) = Append(Q(s), OwnNests(n))
    BY <1>3, <2>1
  <2>3. Q(s) \in Seq(Seq(Seq(Loop))) /\ OwnNests(n) \in Seq(Seq(Loop))
    BY <1>2, <2>1, OwnNestsType
  <2>4. FlattenSeq(Append(Q(s), OwnNests(n))) = FlattenSeq(Q(s)) \o OwnNests(n)
    BY <2>3, FlattenAppend
  <2>. QED
    BY <1>1, <2>1, <2>2, <2>4 DEF s
<1>6. ASSUME Parent(n) = nullptr PROVE PathNests(n) = OwnNests(n)
  <2> DEFINE e == <<>>
  <2>1. PathOf(n) = Append(e, n) /\ e \in Seq(Node)
    BY <1>6, PathStep
  <2>2. Q(e) = e /\ FlattenSeq(e) = e /\ e \in Seq(Seq(Seq(Loop)))
    <3>1. Len(e) = 0
      OBVIOUS
    <3>2. FlattenSeq(e) = e
      BY <3>1, Zenon DEF FlattenSeq
    <3>. QED
      BY <3>2 DEF Q
  <2>3. OwnNests(n) \in Seq(Seq(Loop)) /\ e \o OwnNests(n) = OwnNests(n)
    BY OwnNestsType
  <2> HIDE DEF e
  <2>4. Q(PathOf(n)) = Append(e, OwnNests(n))
    BY <1>3, <2>1, <2>2
  <2>5. FlattenSeq(Append(e, OwnNests(n))) = FlattenSeq(e) \o OwnNests(n)
    BY <2>2, <2>3, FlattenAppend
  <2>. QED
    BY <1>1, <2>2, <2>3, <2>4, <2>5
<1>. QED
  BY <1>4, <1>5, <1>6

\* The nests on a path consist of loops of the tree.
LEMMA PathNestsType ==
  ASSUME NEW T, \A m \in Node : Tree[m].loops \in Seq(T), NEW n \in Node
  PROVE  PathNests(n) \in Seq(Seq(T))
<1> DEFINE Bad == {m \in Node : PathNests(m) \notin Seq(Seq(T))}
<1>1. SUFFICES ASSUME Bad # {} PROVE FALSE
  BY <1>1
<1>2. PICK m \in Bad : Parent(m) # nullptr => Parent(m) \in Node /\ Parent(m) \notin Bad
  <2>1. Bad \in SUBSET Node
    OBVIOUS
  <2> HIDE DEF Bad
  <2>. QED
    BY <1>1, <2>1, FirstNode
<1>3. m \in Node /\ PathNests(m) \notin Seq(Seq(T))
  OBVIOUS
<1>4. Parent(m) # nullptr => PathNests(Parent(m)) \in Seq(Seq(T))
  BY <1>2
<1> HIDE DEF Bad
<1>5. OwnNests(m) \in Seq(Seq(T))
  <2>1. Tree[m].loops \in Seq(T)
    BY <1>3
  <2>. QED
    BY <2>1 DEF OwnNests
<1>. QED
  BY <1>3, <1>4, <1>5, PathNestsStep, ConcatProperties

-----------------------------------------------------------------------------
(* The arithmetic of get_loop_count.                                       *)

\* The product of the trip counts of the loops ls, as InnerTrips folds it.
Trips(ls) == FoldLeft(LAMBDA acc, l : acc * l.end, 1, ls)

\* A loop's counts are integers.
LEMMA LoopCounts ==
  ASSUME NEW q \in Seq(Loop), NEW i \in 1 .. Len(q)
  PROVE  q[i] \in Loop /\ q[i].end \in Int /\ q[i].res \in Int
<1>1. q[i] \in Loop
  OBVIOUS
<1>. QED
  BY <1>1 DEF Loop

\* The product of a sequence is the last of the products of its prefixes.
LEMMA TripsPrefixes ==
  ASSUME NEW q \in Seq(Loop)
  PROVE  \E g \in [0 .. Len(q) -> Int] :
           /\ g[0] = 1 /\ Trips(q) = g[Len(q)]
           /\ \A k \in 1 .. Len(q) : g[k] = g[k - 1] * q[k].end
<1> DEFINE n == Len(q)
           Rec(f, s) == IF s = {} THEN 1 ELSE f[s \ {Max(s)}] * q[Max(s)].end
           Eq(f) == f = [s \in SUBSET DOMAIN q |-> Rec(f, s)]
           F == CHOOSE f : Eq(f)
           step == [p \in Int \X (1 .. n) |-> p[1] * q[p[2]].end]
<1>1. n \in Nat /\ DOMAIN q = 1 .. n /\ 1 \in Int
  OBVIOUS
<1>2. Trips(q) = F[DOMAIN q]
  BY Zenon DEF Trips, FoldLeft, MapThenFoldSet
<1>3. /\ \A v \in Int : \A k \in 1 .. n : step[<<v, k>>] = v * q[k].end /\ v * q[k].end \in Int
      /\ step \in [Int \X (1 .. n) -> Int]
  BY LoopCounts
<1> HIDE DEF n, step
<1>4. PICK h : SolvesSets(h, n, Int, 1, step)
  BY <1>1, <1>3, SetSolution
<1>5. ASSUME NEW s \in SUBSET (1 .. n) PROVE h[s] = Rec(h, s)
  <2>1. h[s] = IF s = {} THEN 1 ELSE step[<<h[s \ {Max(s)}], Max(s)>>]
    BY <1>4 DEF SolvesSets
  <2>2. h[s \ {Max(s)}] \in Int
    BY <1>4 DEF SolvesSets
  <2>. QED
    BY <1>1, <1>3, <2>1, <2>2, MaxOfIndices
<1>6. Eq(h)
  <2>1. h = [s \in SUBSET (1 .. n) |-> h[s]]
    BY <1>4 DEF SolvesSets
  <2> HIDE DEF Rec
  <2>. QED
    BY <1>1, <1>5, <2>1
<1>7. Eq(F)
  <2> HIDE DEF Eq
  <2>. QED
    BY <1>6
<1> HIDE DEF F
<1>8. \A s \in SUBSET (1 .. n) : F[s] = Rec(F, s)
  <2> HIDE DEF Rec
  <2>. QED
    BY <1>1, <1>7
<1>9. F[{}] = 1
  BY <1>8
<1>10. ASSUME NEW k \in 1 .. n, F[1 .. k - 1] \in Int
       PROVE  F[1 .. k] = step[<<F[1 .. k - 1], k>>] /\ F[1 .. k] \in Int
  <2>1. Max(1 .. k) = k /\ (1 .. k) \ {k} = 1 .. k - 1
    BY MaxOfPrefix
  <2>2. (1 .. k) \subseteq (1 .. n) /\ k \in 1 .. k
    BY <1>1
  <2>3. F[1 .. k] = Rec(F, 1 .. k)
    <3> HIDE DEF Rec
    <3>. QED
      BY <1>8, <2>2
  <2>4. F[1 .. k] = F[1 .. k - 1] * q[k].end
    BY <2>1, <2>2, <2>3
  <2>. QED
    BY <1>3, <1>10, <2>4
<1> DEFINE g == [k \in 0 .. n |-> F[1 .. k]]
<1>11. SolvesPrefixes(g, n, Int, 1, step)
  BY <1>1, <1>9, <1>10, SetsToPrefixes
<1>12. Trips(q) = g[n]
  BY <1>1, <1>2
<1> HIDE DEF g
<1>13. g \in [0 .. n -> Int] /\ g[0] = 1
  BY <1>11 DEF SolvesPrefixes
<1>14. ASSUME NEW k \in 1 .. n PROVE g[k] = g[k - 1] * q[k].end
  <2>1. g[k - 1] \in Int /\ g[k] = step[<<g[k - 1], k>>]
    BY <1>1, <1>11, <1>13 DEF SolvesPrefixes
  <2>. QED
    BY <1>3, <2>1
<1>. QED
  BY <1>12, <1>13, <1>14 DEF n

\* The product of a sequence is its first factor times the product of the rest.
LEMMA TripsHead ==
  ASSUME NEW q \in Seq(Loop), q # <<>>
  PROVE  Trips(q) = Head(q).end * Trips(Tail(q)) /\ Trips(Tail(q)) \in Int
<1> DEFINE n == Len(q)
           t == Tail(q)
           e == q[1].end
<1>1. /\ n \in Nat \ {0} /\ t \in Seq(Loop) /\ Len(t) = n - 1
      /\ \A k \in 1 .. n - 1 : t[k] = q[k + 1]
      /\ Head(q) = q[1]
  BY EmptySeq, HeadTailProperties
<1>2. e \in Int
  BY <1>1, LoopCounts
<1> HIDE DEF n, t, e
<1>3. PICK g \in [0 .. n -> Int] :
        /\ g[0] = 1 /\ Trips(q) = g[n]
        /\ \A k \in 1 .. n : g[k] = g[k - 1] * q[k].end
  BY TripsPrefixes DEF n
<1>4. PICK h \in [0 .. n - 1 -> Int] :
        /\ h[0] = 1 /\ Trips(t) = h[n - 1]
        /\ \A k \in 1 .. n - 1 : h[k] = h[k - 1] * t[k].end
  <2>1. \E h \in [0 .. Len(t) -> Int] :
          /\ h[0] = 1 /\ Trips(t) = h[Len(t)]
          /\ \A k \in 1 .. Len(t) : h[k] = h[k - 1] * t[k].end
    BY <1>1, TripsPrefixes
  <2>2. Len(t) = n - 1
    BY <1>1
  <2>. QED
    BY <2>1, <2>2, Zenon
<1> DEFINE G == {k \in 0 .. n - 1 : g[k + 1] = e * h[k]}
<1>5. 0 \in G
  <2>1. g[1] = g[0] * q[1].end
    BY <1>1, <1>3
  <2>. QED
    BY <1>1, <1>2, <1>3, <1>4, <2>1 DEF e
<1>6. ASSUME NEW k \in 1 .. n - 1, k - 1 \in G PROVE k \in G
  <2>1. g[k] = e * h[k - 1]
    BY <1>6
  <2>2. k + 1 \in 1 .. n /\ k \in 0 .. n - 1 /\ (k + 1) - 1 = k /\ k - 1 \in 0 .. n - 1
    BY <1>1
  <2>3. g[k + 1] = g[k] * q[k + 1].end
    BY <1>3, <2>2
  <2>4. h[k] = h[k - 1] * q[k + 1].end
    BY <1>1, <1>4
  <2>5. h[k - 1] \in Int /\ q[k + 1].end \in Int
    BY <1>4, <2>2, LoopCounts DEF n
  <2>6. g[k + 1] = e * h[k]
    BY <1>2, <2>1, <2>3, <2>4, <2>5
  <2>. QED
    BY <2>2, <2>6
<1>7. \A k \in 0 .. n - 1 : k \in G
  <2>1. n - 1 \in Nat
    BY <1>1
  <2> HIDE DEF G
  <2>. QED
    BY <1>5, <1>6, <2>1, UpInduction
<1>8. g[n] = e * h[n - 1]
  <2>1. n - 1 \in 0 .. n - 1 /\ (n - 1) + 1 = n
    BY <1>1
  <2>. QED
    BY <1>7, <2>1
<1>9. h[n - 1] \in Int
  BY <1>1, <1>4
<1>. QED
  BY <1>1, <1>3, <1>4, <1>8, <1>9 DEF t, e

\* The trips inside loop i are those of the next loop times what is inside it.
LEMMA InnerTripsStep ==
  ASSUME NEW ls \in Seq(Loop)
  PROVE  /\ \A i \in 0 .. Len(ls) : InnerTrips(ls, i) \in Int
         /\ InnerTrips(ls, Len(ls)) = 1
         /\ \A i \in 1 .. Len(ls) :
              InnerTrips(ls, i - 1) = ls[i].end * InnerTrips(ls, i)
<1> DEFINE n == Len(ls)
           q(i) == SubSeq(ls, i + 1, n)
<1>1. n \in Nat
  OBVIOUS
<1>2. ASSUME NEW i \in 0 .. n PROVE q(i) \in Seq(Loop) /\ InnerTrips(ls, i) = Trips(q(i))
  <2>1. \A j \in i + 1 .. n : ls[j] \in Loop
    BY <1>1
  <2>2. q(i) \in Seq(Loop)
    BY <1>1, <2>1, SubSeqProperties
  <2>. QED
    BY <2>2, Zenon DEF InnerTrips, Trips
<1>3. ASSUME NEW i \in 0 .. n PROVE InnerTrips(ls, i) \in Int
  <2> HIDE DEF q
  <2>1. PICK g \in [0 .. Len(q(i)) -> Int] : Trips(q(i)) = g[Len(q(i))]
    BY <1>2, TripsPrefixes
  <2>2. Len(q(i)) \in 0 .. Len(q(i))
    BY <1>2
  <2>. QED
    BY <1>2, <2>1, <2>2
<1>4. InnerTrips(ls, n) = 1
  <2>1. q(n) = <<>> /\ Len(<<>>) = 0
    BY <1>1, SubSeqEmpty
  <2>2. n \in 0 .. n
    BY <1>1
  <2>3. InnerTrips(ls, n) = Trips(<<>>)
    BY <1>2, <2>1, <2>2
  <2>4. <<>> \in Seq(Loop)
    OBVIOUS
  <2>5. PICK g \in [0 .. 0 -> Int] : Trips(<<>>) = g[0] /\ g[0] = 1
    BY <2>1, <2>4, TripsPrefixes
  <2>. QED
    BY <2>3, <2>5
<1>5. ASSUME NEW i \in 1 .. n
      PROVE  InnerTrips(ls, i - 1) = ls[i].end * InnerTrips(ls, i)
  <2>1. i - 1 \in 0 .. n /\ i \in 0 .. n /\ (i - 1) + 1 = i /\ n \in i .. n
    BY <1>1
  <2>2. Head(q(i - 1)) = ls[i] /\ Tail(q(i - 1)) = q(i)
    BY <1>1, <2>1, HeadTailOfSubSeq
  <2>3. q(i - 1) # <<>>
    <3>1. \A j \in i .. n : ls[j] \in Loop
      BY <1>1
    <3>2. Len(q(i - 1)) = n - i + 1
      BY <1>1, <2>1, <3>1, SubSeqProperties
    <3>3. Len(q(i - 1)) # 0
      BY <1>1, <2>1, <3>2
    <3> HIDE DEF q
    <3>. QED
      BY <3>3, EmptySeq
  <2> HIDE DEF q
  <2>4. Trips(q(i - 1)) = ls[i].end * Trips(q(i))
    BY <1>2, <2>1, <2>2, <2>3, TripsHead
  <2>. QED
    BY <1>2, <2>1, <2>4
<1>. QED
  BY <1>3, <1>4, <1>5

\* dim_results adds up one summand per loop.
LEMMA DimResultPrefixes ==
  ASSUME NEW ls \in Seq(Loop)
  PROVE  \E g \in [0 .. Len(ls) -> Int] :
           /\ g[0] = 0 /\ DimResult(ls) = 1 + g[Len(ls)]
           /\ \A k \in 1 .. Len(ls) :
                g[k] = g[k - 1] + InnerTrips(ls, k) * (ls[k].res - 1)
<1> DEFINE n == Len(ls)
           q == [j \in DOMAIN ls |-> j]
           Rec(f, s) == IF s = {} THEN 0
                        ELSE f[s \ {Max(s)}]
                             + InnerTrips(ls, q[Max(s)]) * (ls[q[Max(s)]].res - 1)
           Eq(f) == f = [s \in SUBSET DOMAIN q |-> Rec(f, s)]
           F == CHOOSE f : Eq(f)
           more(k) == InnerTrips(ls, k) * (ls[k].res - 1)
           step == [p \in Int \X (1 .. n) |-> p[1] + more(p[2])]
<1>1. n \in Nat /\ DOMAIN q = 1 .. n /\ 0 \in Int /\ \A k \in 1 .. n : q[k] = k
  OBVIOUS
<1>2. DimResult(ls) = 1 + F[DOMAIN q]
  BY Zenon DEF DimResult, FoldLeftDomain, FoldLeft, MapThenFoldSet
<1>3. \A k \in 1 .. n : more(k) \in Int
  <2>1. ASSUME NEW k \in 1 .. n PROVE InnerTrips(ls, k) \in Int /\ ls[k].res \in Int
    BY InnerTripsStep, LoopCounts
  <2>. QED
    BY <2>1
<1> HIDE DEF more, q
<1>4. /\ \A v \in Int : \A k \in 1 .. n : step[<<v, k>>] = v + more(k) /\ v + more(k) \in Int
      /\ step \in [Int \X (1 .. n) -> Int]
  <2> HIDE DEF n
  <2>. QED
    BY <1>3
<1> HIDE DEF n, step
<1>5. PICK h : SolvesSets(h, n, Int, 0, step)
  BY <1>1, <1>4, SetSolution
<1>6. ASSUME NEW s \in SUBSET (1 .. n), NEW f
      PROVE  Rec(f, s) = IF s = {} THEN 0 ELSE f[s \ {Max(s)}] + more(Max(s))
  BY <1>1, MaxOfIndices DEF more
<1>7. ASSUME NEW s \in SUBSET (1 .. n) PROVE h[s] = Rec(h, s)
  <2>1. h[s] = IF s = {} THEN 0 ELSE step[<<h[s \ {Max(s)}], Max(s)>>]
    BY <1>5 DEF SolvesSets
  <2>2. h[s \ {Max(s)}] \in Int
    BY <1>5 DEF SolvesSets
  <2>3. n \in Nat
    BY <1>1
  <2>4. s # {} => Max(s) \in 1 .. n
    BY <2>3, MaxOfIndices
  <2> HIDE DEF Rec, Eq, F
  <2>. QED
    BY <1>4, <1>6, <2>1, <2>2, <2>4
<1> HIDE DEF Rec
<1>8. Eq(h)
  <2>1. h = [s \in SUBSET (1 .. n) |-> h[s]]
    BY <1>5 DEF SolvesSets
  <2>. QED
    BY <1>1, <1>7, <2>1
<1>9. Eq(F)
  <2> HIDE DEF Eq
  <2>. QED
    BY <1>8
<1> HIDE DEF F
<1>10. \A s \in SUBSET (1 .. n) : F[s] = IF s = {} THEN 0 ELSE F[s \ {Max(s)}] + more(Max(s))
  BY <1>1, <1>6, <1>9
<1>11. F[{}] = 0
  BY <1>10
<1>12. ASSUME NEW k \in 1 .. n, F[1 .. k - 1] \in Int
       PROVE  F[1 .. k] = step[<<F[1 .. k - 1], k>>] /\ F[1 .. k] \in Int
  <2>1. Max(1 .. k) = k /\ (1 .. k) \ {k} = 1 .. k - 1
    BY MaxOfPrefix
  <2>2. (1 .. k) \subseteq (1 .. n) /\ k \in 1 .. k
    BY <1>1
  <2>3. F[1 .. k] = F[1 .. k - 1] + more(k)
    BY <1>10, <2>1, <2>2
  <2>. QED
    BY <1>4, <1>12, <2>3
<1> DEFINE g == [k \in 0 .. n |-> F[1 .. k]]
<1>13. SolvesPrefixes(g, n, Int, 0, step)
  <2>1. n \in Nat /\ 0 \in Int
    BY <1>1
  <2> HIDE DEF Eq
  <2>. QED
    BY <2>1, <1>11, <1>12, SetsToPrefixes, Zenon
<1>14. DimResult(ls) = 1 + g[n]
  BY <1>1, <1>2
<1> HIDE DEF g
<1>15. g \in [0 .. n -> Int] /\ g[0] = 0
  BY <1>13 DEF SolvesPrefixes
<1>16. ASSUME NEW k \in 1 .. n PROVE g[k] = g[k - 1] + more(k)
  <2>1. g[k - 1] \in Int /\ g[k] = step[<<g[k - 1], k>>]
    BY <1>1, <1>13, <1>15 DEF SolvesPrefixes
  <2>. QED
    BY <1>4, <2>1
<1>. QED
  BY <1>14, <1>15, <1>16 DEF n, more

\* g[k] are the loops over d among the first k loops of q.
Gathers(g, q, d) ==
  /\ g[0] = <<>>
  /\ \A k \in 1 .. Len(q) :
       g[k] = IF q[k].dim = d THEN Append(g[k - 1], q[k]) ELSE g[k - 1]

\* The loops over a dimension are collected loop by loop.
LEMMA LoopsOverPrefixes ==
  ASSUME NEW T, NEW nests \in Seq(Seq(T)), NEW d
  PROVE  \E g \in [0 .. Len(FlattenSeq(nests)) -> Seq(T)] :
           /\ Gathers(g, FlattenSeq(nests), d)
           /\ LoopsOver(nests, d) = g[Len(FlattenSeq(nests))]
<1> DEFINE q == FlattenSeq(nests)
           n == Len(q)
           V == Seq(T)
           Rec(f, s) == IF s = {} THEN <<>>
                        ELSE IF q[Max(s)].dim = d
                             THEN Append(f[s \ {Max(s)}], q[Max(s)])
                             ELSE f[s \ {Max(s)}]
           Eq(f) == f = [s \in SUBSET DOMAIN q |-> Rec(f, s)]
           F == CHOOSE f : Eq(f)
           next(v, k) == IF q[k].dim = d THEN Append(v, q[k]) ELSE v
           step == [p \in V \X (1 .. n) |-> next(p[1], p[2])]
<1>1. LoopsOver(nests, d) = F[DOMAIN q]
  BY Zenon DEF LoopsOver, FoldLeft, MapThenFoldSet
<1>2. q \in Seq(T)
  BY FlattenType
<1> HIDE DEF q
<1>3. n \in Nat /\ DOMAIN q = 1 .. n /\ <<>> \in V
  BY <1>2
<1>4. \A v \in V : \A k \in 1 .. n : next(v, k) \in V
  <2>1. \A k \in 1 .. n : q[k] \in T
    BY <1>2
  <2>. QED
    BY <2>1
<1> HIDE DEF next, V
<1>5. /\ \A v \in V : \A k \in 1 .. n : step[<<v, k>>] = next(v, k)
      /\ step \in [V \X (1 .. n) -> V]
  <2> HIDE DEF n
  <2>. QED
    BY <1>4
<1> HIDE DEF n, step
<1>6. PICK h : SolvesSets(h, n, V, <<>>, step)
  BY <1>3, <1>5, SetSolution
<1>7. ASSUME NEW s \in SUBSET (1 .. n), NEW f
      PROVE  Rec(f, s) = IF s = {} THEN <<>> ELSE next(f[s \ {Max(s)}], Max(s))
  BY DEF next
<1>8. ASSUME NEW s \in SUBSET (1 .. n) PROVE h[s] = Rec(h, s)
  <2>1. h[s] = IF s = {} THEN <<>> ELSE step[<<h[s \ {Max(s)}], Max(s)>>]
    BY <1>6 DEF SolvesSets
  <2>2. h[s \ {Max(s)}] \in V
    BY <1>6 DEF SolvesSets
  <2> HIDE DEF Rec
  <2>. QED
    BY <1>3, <1>5, <1>7, <2>1, <2>2, MaxOfIndices
<1> HIDE DEF Rec
<1>9. Eq(h)
  <2>1. h = [s \in SUBSET (1 .. n) |-> h[s]]
    BY <1>6 DEF SolvesSets
  <2>. QED
    BY <1>3, <1>8, <2>1
<1>10. Eq(F)
  <2> HIDE DEF Eq
  <2>. QED
    BY <1>9
<1> HIDE DEF F
<1>11. \A s \in SUBSET (1 .. n) : F[s] = IF s = {} THEN <<>> ELSE next(F[s \ {Max(s)}], Max(s))
  BY <1>3, <1>7, <1>10
<1>12. F[{}] = <<>>
  BY <1>11
<1>13. ASSUME NEW k \in 1 .. n, F[1 .. k - 1] \in V
       PROVE  F[1 .. k] = step[<<F[1 .. k - 1], k>>] /\ F[1 .. k] \in V
  <2>1. Max(1 .. k) = k /\ (1 .. k) \ {k} = 1 .. k - 1
    BY MaxOfPrefix
  <2>2. (1 .. k) \subseteq (1 .. n) /\ k \in 1 .. k
    BY <1>3
  <2>3. F[1 .. k] = next(F[1 .. k - 1], k)
    BY <1>11, <2>1, <2>2
  <2>. QED
    BY <1>4, <1>5, <1>13, <2>3
<1> DEFINE g == [k \in 0 .. n |-> F[1 .. k]]
<1>14. SolvesPrefixes(g, n, V, <<>>, step)
  BY <1>3, <1>12, <1>13, SetsToPrefixes
<1>15. LoopsOver(nests, d) = g[n]
  BY <1>1, <1>3
<1> HIDE DEF g
<1>16. g \in [0 .. n -> V] /\ g[0] = <<>>
  BY <1>14 DEF SolvesPrefixes
<1>17. ASSUME NEW k \in 1 .. n
       PROVE  g[k] = IF q[k].dim = d THEN Append(g[k - 1], q[k]) ELSE g[k - 1]
  <2>1. k - 1 \in 0 .. n
    BY <1>3
  <2>2. g[k - 1] \in V /\ g[k] = step[<<g[k - 1], k>>]
    BY <1>14, <2>1 DEF SolvesPrefixes
  <2>3. g[k] = next(g[k - 1], k)
    BY <1>5, <2>2
  <2>. QED
    BY <2>3 DEF next
<1>18. Gathers(g, q, d)
  BY <1>16, <1>17 DEF Gathers, n
<1>. QED
  BY <1>15, <1>16, <1>18 DEF V, n, q

\* The loops over a dimension are loops of the nests.
LEMMA LoopsOverType ==
  ASSUME NEW T, NEW nests \in Seq(Seq(T)), NEW d
  PROVE  LoopsOver(nests, d) \in Seq(T)
<1> DEFINE n == Len(FlattenSeq(nests))
<1>1. PICK g \in [0 .. n -> Seq(T)] : LoopsOver(nests, d) = g[n]
  BY LoopsOverPrefixes
<1>2. n \in Nat
  BY FlattenType
<1>. QED
  BY <1>1, <1>2

\* The points that are walked, when the points inside each loop are given: I
\* for the loops of a full tile, W on the path of last iterations.
LEMMA WalkedIs ==
  ASSUME NEW ls \in Seq(Loop),
         NEW I \in [1 .. Len(ls) + 1 -> Int], NEW W \in [1 .. Len(ls) + 1 -> Int],
         I[Len(ls) + 1] = 1, W[Len(ls) + 1] = 1,
         \A k \in 1 .. Len(ls) : /\ I[k] = ls[k].end * I[k + 1]
                                 /\ W[k] = (ls[k].res - 1) * I[k + 1] + W[k + 1]
  PROVE  WalkedPoints(ls) = W[1]
<1> DEFINE n == Len(ls)
           Rec(w, k) == IF k > n THEN [full |-> 1, tail |-> 1]
                        ELSE [full |-> (ls[k].end - 1) * w[k + 1].full + w[k + 1].full,
                              tail |-> (ls[k].res - 1) * w[k + 1].full + w[k + 1].tail]
           Eq(w) == w = [k \in 1 .. n + 1 |-> Rec(w, k)]
           F == CHOOSE w : Eq(w)
<1>1. WalkedPoints(ls) = F[1].tail
  BY Zenon DEF WalkedPoints
<1>2. n \in Nat /\ \A k \in 1 .. n : ls[k].end \in Int /\ ls[k].res \in Int
  BY LoopCounts
<1>3. ASSUME NEW w, NEW k \in 1 .. n + 1,
             k # n + 1 => w[k + 1].full = I[k + 1] /\ w[k + 1].tail = W[k + 1]
      PROVE  Rec(w, k).full = I[k] /\ Rec(w, k).tail = W[k]
  <2>1. CASE k = n + 1
    BY <1>2, <2>1
  <2>2. CASE k # n + 1
    <3>1. k \in 1 .. n /\ k + 1 \in 1 .. n + 1 /\ ~(k > n)
      BY <1>2, <2>2
    <3>2. I[k + 1] \in Int /\ W[k + 1] \in Int /\ ls[k].end \in Int
      BY <1>2, <3>1
    <3>3. (ls[k].end - 1) * I[k + 1] + I[k + 1] = I[k]
      BY <3>1, <3>2
    <3>4. (ls[k].res - 1) * I[k + 1] + W[k + 1] = W[k]
      BY <3>1
    <3>5. Rec(w, k) = [full |-> (ls[k].end - 1) * I[k + 1] + I[k + 1],
                       tail |-> (ls[k].res - 1) * I[k + 1] + W[k + 1]]
      BY <1>3, <2>2, <3>1
    <3>. QED
      BY <3>3, <3>4, <3>5
  <2>. QED
    BY <2>1, <2>2
<1> DEFINE v == [k \in 1 .. n + 1 |-> [full |-> I[k], tail |-> W[k]]]
<1>4. ASSUME NEW k \in 1 .. n + 1 PROVE Rec(v, k) = [full |-> I[k], tail |-> W[k]]
  <2>1. k # n + 1 => k + 1 \in 1 .. n + 1
    BY <1>2
  <2>2. k # n + 1 => v[k + 1].full = I[k + 1] /\ v[k + 1].tail = W[k + 1]
    BY <2>1
  <2>3. Rec(v, k).full = I[k] /\ Rec(v, k).tail = W[k]
    <3> HIDE DEF v, Rec
    <3>. QED
      BY <1>3, <2>2
  <2>4. \E a, b : Rec(v, k) = [full |-> a, tail |-> b]
    <3> HIDE DEF v
    <3>. QED
      OBVIOUS
  <2> HIDE DEF v, Rec
  <2>. QED
    BY <2>3, <2>4
<1>5. Eq(v)
  <2> HIDE DEF Rec
  <2>. QED
    BY <1>4
<1>6. Eq(F)
  <2> HIDE DEF Eq
  <2>. QED
    BY <1>5
<1>7. \A k \in 1 .. n + 1 : F[k] = Rec(F, k)
  <2> HIDE DEF F, Rec
  <2>. QED
    BY <1>6
<1> HIDE DEF Eq, F, Rec
<1> DEFINE G == {k \in 0 .. n : F[k + 1].full = I[k + 1] /\ F[k + 1].tail = W[k + 1]}
<1>8. n \in G
  <2>1. n + 1 \in 1 .. n + 1 /\ n \in 0 .. n
    BY <1>2
  <2>. QED
    BY <1>3, <1>7, <2>1
<1>9. ASSUME NEW k \in 1 .. n, k \in G PROVE k - 1 \in G
  <2>1. k \in 1 .. n + 1 /\ k - 1 \in 0 .. n /\ (k - 1) + 1 = k
    BY <1>2
  <2>2. F[k + 1].full = I[k + 1] /\ F[k + 1].tail = W[k + 1]
    BY <1>9
  <2>3. F[k].full = I[k] /\ F[k].tail = W[k]
    BY <1>3, <1>7, <2>1, <2>2
  <2>. QED
    BY <2>1, <2>3
<1>10. \A k \in 0 .. n : k \in G
  <2> HIDE DEF G
  <2>. QED
    BY <1>2, <1>8, <1>9, DownInduction
<1>11. F[0 + 1].tail = W[0 + 1]
  <2>1. 0 \in 0 .. n
    BY <1>2
  <2>. QED
    BY <1>10, <2>1
<1>. QED
  BY <1>1, <1>11

\* What is walked from loop k on, as a difference of the sums of DimResult.
LEMMA WalkedFrom ==
  ASSUME NEW ls \in Seq(Loop)
  PROVE  \E W \in [1 .. Len(ls) + 1 -> Int] :
           /\ W[1] = DimResult(ls) /\ W[Len(ls) + 1] = 1
           /\ \A k \in 1 .. Len(ls) :
                W[k] = (ls[k].res - 1) * InnerTrips(ls, k) + W[k + 1]
<1> DEFINE n == Len(ls)
<1>1. n \in Nat
  OBVIOUS
<1>2. PICK g \in [0 .. n -> Int] :
        /\ g[0] = 0 /\ DimResult(ls) = 1 + g[n]
        /\ \A k \in 1 .. n : g[k] = g[k - 1] + InnerTrips(ls, k) * (ls[k].res - 1)
  BY DimResultPrefixes
<1> DEFINE W == [k \in 1 .. n + 1 |-> 1 + (g[n] - g[k - 1])]
<1>3. W \in [1 .. n + 1 -> Int]
  <2> HIDE DEF n
  <2>. QED
    BY <1>1, <1>2
<1>4. W[1] = DimResult(ls) /\ W[n + 1] = 1
  <2> HIDE DEF n
  <2>1. g[n] \in Int /\ 1 \in 1 .. n + 1 /\ n + 1 \in 1 .. n + 1
    BY <1>1, <1>2
  <2>. QED
    BY <1>1, <1>2, <2>1
<1>5. ASSUME NEW k \in 1 .. n
      PROVE  W[k] = (ls[k].res - 1) * InnerTrips(ls, k) + W[k + 1]
  <2>1. InnerTrips(ls, k) \in Int /\ ls[k].res \in Int
    BY InnerTripsStep, LoopCounts
  <2> HIDE DEF n
  <2>2. k \in 1 .. n + 1 /\ k + 1 \in 1 .. n + 1 /\ (k + 1) - 1 = k
    BY <1>1
  <2>3. g[k] \in Int /\ g[k - 1] \in Int /\ g[n] \in Int
    BY <1>1, <1>2
  <2>4. g[k] = g[k - 1] + InnerTrips(ls, k) * (ls[k].res - 1)
    BY <1>2
  <2>5. W[k] = 1 + (g[n] - g[k - 1]) /\ W[k + 1] = 1 + (g[n] - g[k])
    BY <2>2
  <2> DEFINE x == InnerTrips(ls, k)
             y == ls[k].res - 1
  <2>6. x \in Int /\ y \in Int /\ x * y = y * x /\ x * y \in Int
    BY <2>1
  <2>7. g[k] = g[k - 1] + x * y
    BY <2>4
  <2> HIDE DEF W, x, y
  <2>8. 1 + (g[n] - g[k - 1]) = x * y + (1 + (g[n] - g[k]))
    BY <2>3, <2>6, <2>7, SMTT(30)
  <2>. QED
    BY <2>5, <2>6, <2>8 DEF x, y
<1> HIDE DEF W
<1>. QED
  BY <1>3, <1>4, <1>5

\* What is walked from loop k on is what the loops from k on walk by themselves.
LEMMA WalkedSubSeq ==
  ASSUME NEW ls \in Seq(Loop), NEW k \in 1 .. Len(ls),
         NEW W \in [1 .. Len(ls) + 1 -> Int], W[Len(ls) + 1] = 1,
         \A i \in 1 .. Len(ls) :
           W[i] = (ls[i].res - 1) * InnerTrips(ls, i) + W[i + 1]
  PROVE  WalkedPoints(SubSeq(ls, k, Len(ls))) = W[k]
<1> DEFINE n == Len(ls)
           q == SubSeq(ls, k, n)
           m == n - k + 1
           I == [j \in 1 .. m + 1 |-> InnerTrips(ls, (k + j) - 2)]
           V == [j \in 1 .. m + 1 |-> W[(k + j) - 1]]
<1>1. n \in Nat /\ m \in Nat /\ k \in 1 .. n
  OBVIOUS
<1>2. q \in Seq(Loop) /\ Len(q) = m /\ \A j \in 1 .. m : q[j] = ls[(k + j) - 1]
  <2>1. \A i \in k .. n : ls[i] \in Loop
    OBVIOUS
  <2>. QED
    BY <1>1, <2>1, SubSeqProperties
<1> HIDE DEF n, q
<1>3. ASSUME NEW j \in 1 .. m + 1
      PROVE  (k + j) - 2 \in 0 .. n /\ (k + j) - 1 \in 1 .. n + 1
  BY <1>1
<1>4. I \in [1 .. m + 1 -> Int] /\ V \in [1 .. m + 1 -> Int]
  <2>1. \A i \in 0 .. n : InnerTrips(ls, i) \in Int
    BY InnerTripsStep DEF n
  <2>2. W \in [1 .. n + 1 -> Int]
    BY DEF n
  <2> HIDE DEF m
  <2>. QED
    BY <1>3, <2>1, <2>2
<1>5. I[m + 1] = 1 /\ V[m + 1] = 1
  <2>1. m + 1 \in 1 .. m + 1 /\ (k + (m + 1)) - 2 = n /\ (k + (m + 1)) - 1 = n + 1
    BY <1>1
  <2>2. InnerTrips(ls, n) = 1 /\ W[n + 1] = 1
    BY InnerTripsStep DEF n
  <2>. QED
    BY <2>1, <2>2
<1>6. ASSUME NEW j \in 1 .. m
      PROVE  I[j] = q[j].end * I[j + 1] /\ V[j] = (q[j].res - 1) * I[j + 1] + V[j + 1]
  <2> DEFINE i == (k + j) - 1
  <2>1. /\ i \in 1 .. n /\ j \in 1 .. m + 1 /\ j + 1 \in 1 .. m + 1
        /\ (k + j) - 2 = i - 1 /\ (k + (j + 1)) - 2 = i /\ (k + (j + 1)) - 1 = i + 1
    BY <1>1
  <2>2. I[j] = InnerTrips(ls, i - 1) /\ I[j + 1] = InnerTrips(ls, i)
    BY <2>1
  <2>3. V[j] = W[i] /\ V[j + 1] = W[i + 1]
    BY <2>1
  <2>4. InnerTrips(ls, i - 1) = ls[i].end * InnerTrips(ls, i)
    BY <2>1, InnerTripsStep DEF n
  <2>5. W[i] = (ls[i].res - 1) * InnerTrips(ls, i) + W[i + 1]
    BY <2>1 DEF n
  <2>6. q[j] = ls[i]
    BY <1>2
  <2> HIDE DEF i, I, V, m
  <2>. QED
    BY <2>2, <2>3, <2>4, <2>5, <2>6
<1>7. V[1] = W[k]
  BY <1>1
<1>8. Len(q) = m
  BY <1>2
<1> HIDE DEF I, V, m
<1>9. WalkedPoints(q) = V[1]
  <2>1. /\ I \in [1 .. Len(q) + 1 -> Int] /\ V \in [1 .. Len(q) + 1 -> Int]
        /\ I[Len(q) + 1] = 1 /\ V[Len(q) + 1] = 1
        /\ \A j \in 1 .. Len(q) : /\ I[j] = q[j].end * I[j + 1]
                                  /\ V[j] = (q[j].res - 1) * I[j + 1] + V[j + 1]
    BY <1>4, <1>5, <1>6, <1>8, Zenon
  <2>. QED
    BY <1>2, <2>1, WalkedIs
<1>. QED
  BY <1>7, <1>9 DEF q, n

\* The closed formula of get_loop_count is the number of points that the walk
\* visits, for every sequence of loops over a dimension: full counts
\* everywhere but on the path of last iterations (constraint.cpp 29-40).
THEOREM CountIsWalk ==
  ASSUME NEW ls \in Seq(Loop)
  PROVE  DimResult(ls) = WalkedPoints(ls)
<1>1. PICK W \in [1 .. Len(ls) + 1 -> Int] :
        /\ W[1] = DimResult(ls) /\ W[Len(ls) + 1] = 1
        /\ \A k \in 1 .. Len(ls) :
             W[k] = (ls[k].res - 1) * InnerTrips(ls, k) + W[k + 1]
  BY WalkedFrom
<1> DEFINE I == [k \in 1 .. Len(ls) + 1 |-> InnerTrips(ls, k - 1)]
<1>2. Len(ls) \in Nat
  OBVIOUS
<1>3. I \in [1 .. Len(ls) + 1 -> Int] /\ I[Len(ls) + 1] = 1
  <2>1. \A k \in 1 .. Len(ls) + 1 : k - 1 \in 0 .. Len(ls)
    BY <1>2
  <2>2. \A k \in 1 .. Len(ls) + 1 : InnerTrips(ls, k - 1) \in Int
    BY <2>1, InnerTripsStep
  <2>3. (Len(ls) + 1) - 1 = Len(ls) /\ Len(ls) + 1 \in 1 .. Len(ls) + 1
    BY <1>2
  <2>4. InnerTrips(ls, Len(ls)) = 1
    BY InnerTripsStep
  <2>. QED
    BY <2>2, <2>3, <2>4
<1>4. ASSUME NEW k \in 1 .. Len(ls)
      PROVE  /\ I[k] = ls[k].end * I[k + 1]
             /\ W[k] = (ls[k].res - 1) * I[k + 1] + W[k + 1]
  <2>1. (k + 1) - 1 = k /\ k \in 1 .. Len(ls) + 1 /\ k + 1 \in 1 .. Len(ls) + 1
    BY <1>2
  <2>2. I[k] = InnerTrips(ls, k - 1) /\ I[k + 1] = InnerTrips(ls, k)
    BY <2>1
  <2>3. InnerTrips(ls, k - 1) = ls[k].end * InnerTrips(ls, k)
    BY InnerTripsStep
  <2> HIDE DEF I
  <2>. QED
    BY <1>1, <2>2, <2>3
<1> HIDE DEF I
<1>5. WalkedPoints(ls) = W[1]
  BY <1>1, <1>3, <1>4, WalkedIs
<1>. QED
  BY <1>1, <1>5

\* Multiplication by a natural number keeps the order.
LEMMA TimesMonotone ==
  ASSUME NEW a \in Int, NEW b \in Int, NEW c \in Nat, a <= b
  PROVE  a * c <= b * c
<1>1. (b - a) * c >= 0
  <2>1. b - a \in Nat
    OBVIOUS
  <2> DEFINE x == b - a
  <2>2. x \in Nat
    BY <2>1
  <2> HIDE DEF x
  <2>3. x * c >= 0
    BY <2>2
  <2>. QED
    BY <2>3 DEF x
<1>2. (b - a) * c = b * c - a * c
  OBVIOUS
<1>3. a * c \in Int /\ b * c \in Int
  OBVIOUS
<1>. QED
  BY <1>1, <1>2, <1>3

\* With the assertion on the tails of get_loop_count, and trip counts that are
\* no free variables, the tail of a dimension fits in a full tile: the loops
\* from the second one on walk at most as many points as their trip counts
\* multiply to.
THEOREM TailsFit ==
  ASSUME NEW ls \in Seq(Loop), TailsLegal(ls),
         \A i \in 1 .. Len(ls) : ls[i].end >= 0,
         NEW k \in 2 .. Len(ls)
  PROVE  WalkedPoints(SubSeq(ls, k, Len(ls))) <= InnerTrips(ls, k - 1)
<1> DEFINE n == Len(ls)
<1>1. n \in Nat /\ \A i \in 1 .. n : ls[i].end \in Nat /\ ls[i].res \in Int
  BY LoopCounts
<1>2. PICK W \in [1 .. n + 1 -> Int] :
        /\ W[n + 1] = 1
        /\ \A i \in 1 .. n : W[i] = (ls[i].res - 1) * InnerTrips(ls, i) + W[i + 1]
  BY WalkedFrom
<1>3. /\ InnerTrips(ls, n) = 1
      /\ \A i \in 1 .. n : InnerTrips(ls, i - 1) = ls[i].end * InnerTrips(ls, i)
  BY InnerTripsStep
<1>4. WalkedPoints(SubSeq(ls, k, n)) = W[k]
  BY <1>2, WalkedSubSeq
<1>5. \A i \in 2 .. n : ls[i].end >= ls[i].res
  BY DEF TailsLegal
<1> HIDE DEF n
<1>6. \A i \in 0 .. n : InnerTrips(ls, i) \in Nat
  <2> DEFINE G == {i \in 0 .. n : InnerTrips(ls, i) \in Nat}
  <2>1. n \in G
    BY <1>1, <1>3
  <2>2. ASSUME NEW i \in 1 .. n, i \in G PROVE i - 1 \in G
    <3>1. InnerTrips(ls, i) \in Nat /\ ls[i].end \in Nat /\ i - 1 \in 0 .. n
      BY <1>1, <2>2, SMTT(30)
    <3>2. ls[i].end * InnerTrips(ls, i) \in Nat
      BY <3>1
    <3>. QED
      BY <1>3, <3>1, <3>2
  <2>3. \A i \in 0 .. n : i \in G
    <3> HIDE DEF G
    <3>. QED
      BY <1>1, <2>1, <2>2, DownInduction
  <2>. QED
    BY <2>3
<1> DEFINE H == {i \in 0 .. n : i >= 1 => W[i + 1] <= InnerTrips(ls, i)}
<1>7. n \in H
  BY <1>1, <1>2, <1>3
<1>8. ASSUME NEW i \in 1 .. n, i \in H PROVE i - 1 \in H
  <2>1. W[i + 1] <= InnerTrips(ls, i) /\ i - 1 \in 0 .. n
    BY <1>1, <1>8
  <2>2. ASSUME i - 1 >= 1 PROVE W[(i - 1) + 1] <= InnerTrips(ls, i - 1)
    <3> DEFINE c == InnerTrips(ls, i)
               e == ls[i].end
               r == ls[i].res
    <3>1. c \in Nat /\ e \in Nat /\ r \in Int /\ r <= e
      <4>1. i \in 2 .. n /\ i \in 0 .. n
        BY <1>1, <2>2
      <4>. QED
        BY <1>1, <1>5, <1>6, <4>1
    <3>2. W[i] = (r - 1) * c + W[i + 1] /\ (i - 1) + 1 = i /\ W[i + 1] \in Int
      BY <1>1, <1>2
    <3>3. InnerTrips(ls, i - 1) = e * c
      BY <1>3
    <3> HIDE DEF c, e, r
    <3>4. (r - 1) * c <= (e - 1) * c
      BY <3>1, TimesMonotone
    <3>5. (e - 1) * c + c = e * c
      BY <3>1
    <3>6. W[i + 1] <= c
      BY <2>1 DEF c
    <3>7. (r - 1) * c \in Int /\ (e - 1) * c \in Int
      BY <3>1
    <3>8. (r - 1) * c + W[i + 1] <= (e - 1) * c + c
      <4> DEFINE x == (r - 1) * c
                 y == (e - 1) * c
                 z == W[i + 1]
      <4>1. x \in Int /\ y \in Int /\ z \in Int /\ c \in Nat /\ x <= y /\ z <= c
        BY <3>1, <3>2, <3>4, <3>6, <3>7
      <4> HIDE DEF x, y, z
      <4>2. x + z <= y + c
        BY <4>1
      <4>. QED
        BY <4>2 DEF x, y, z
    <3>. QED
      BY <3>2, <3>3, <3>5, <3>8
  <2>. QED
    BY <2>1, <2>2
<1>9. \A i \in 0 .. n : i \in H
  <2> HIDE DEF H
  <2>. QED
    BY <1>1, <1>7, <1>8, DownInduction
<1>10. W[k] <= InnerTrips(ls, k - 1)
  <2>1. k - 1 \in 0 .. n /\ k - 1 >= 1 /\ (k - 1) + 1 = k
    BY <1>1 DEF n
  <2>2. k - 1 \in H
    BY <1>9, <2>1
  <2>. QED
    BY <2>1, <2>2
<1>. QED
  BY <1>4, <1>10 DEF n

-----------------------------------------------------------------------------
(* The traversal.                                                          *)

\* The list U of subtrees holds node n; no two of its subtrees overlap.
Listed(n, U) == \E i \in DOMAIN U : Under(n, U[i])

Apart(U) == \A i, j \in DOMAIN U : i # j => ~Under(U[i], U[j])

\* A visit of the first node of a list puts its children in its place.
LEMMA ListAfterVisit ==
  ASSUME NEW r \in Roots, NEW U \in Seq(NodesOf[r]), U # <<>>, Apart(U)
  PROVE  LET n == Head(U)
             V == Kids(n) \o Tail(U)
         IN  /\ n \in NodesOf[r] /\ V \in Seq(NodesOf[r]) /\ Apart(V)
             /\ \A m \in Node : Listed(m, V) <=> Listed(m, U) /\ m # n
             /\ Listed(n, U)
             /\ Parent(n) # nullptr => ~Listed(Parent(n), U)
<1> DEFINE N == NodesOf[r]
           n == Head(U)
           K == Kids(n)
           T == Tail(U)
           V == K \o T
           L == Len(K)
<1>1. /\ n \in N /\ n = U[1] /\ Len(U) \in Nat \ {0} /\ DOMAIN U = 1 .. Len(U)
      /\ T \in Seq(N) /\ Len(T) = Len(U) - 1
      /\ \A j \in 1 .. Len(T) : T[j] = U[j + 1]
  BY HeadTailProperties, EmptySeq
<1>2. /\ n \in Node /\ \A m \in N : m \in Node
      /\ \A i \in DOMAIN K : K[i] \in N
      /\ (Parent(n) = nullptr => n = r) /\ (Parent(n) # nullptr => Parent(n) \in N)
  BY <1>1, NodesClosed
<1>3. K \in Seq(N) /\ L \in Nat /\ DOMAIN K = 1 .. L
  <2>1. K \in Seq(Node)
    BY <1>2, KidsAfter
  <2>2. DOMAIN K = 1 .. L /\ L \in Nat
    BY <2>1
  <2>3. K \in Seq(N)
    <3> HIDE DEF K, N, L
    <3>1. K = [i \in 1 .. L |-> K[i]]
      BY <2>1, <2>2
    <3>2. \A i \in 1 .. L : K[i] \in N
      BY <1>2, <2>2
    <3>3. K \in [1 .. L -> N]
      BY <3>1, <3>2
    <3>. QED
      BY <2>2, <3>3, SeqDef
  <2>. QED
    BY <2>2, <2>3
<1>4. /\ \A i \in 1 .. L : K[i] \in Node /\ Above(K[i]) = {n} \cup Above(n) /\ n < K[i]
      /\ \A i, j \in 1 .. L : K[i] = K[j] => i = j
  BY <1>2, <1>3, AboveKid, KidsAfter
<1> HIDE DEF N, n, K, T
<1>5. /\ V \in Seq(N) /\ Len(V) = L + Len(T) /\ DOMAIN V = 1 .. L + Len(T)
      /\ \A i \in 1 .. L : V[i] = K[i]
      /\ \A j \in 2 .. Len(U) : V[L + j - 1] = U[j]
  <2>1. /\ V \in Seq(N) /\ Len(V) = L + Len(T)
        /\ \A i \in 1 .. L + Len(T) : V[i] = IF i <= L THEN K[i] ELSE T[i - L]
    BY <1>1, <1>3, ConcatProperties
  <2> HIDE DEF V, L
  <2>2. \A i \in 1 .. L : V[i] = K[i]
    BY <1>1, <1>3, <2>1, SMTT(30)
  <2>3. ASSUME NEW j \in 2 .. Len(U) PROVE V[L + j - 1] = U[j]
    <3>1. /\ L + j - 1 \in 1 .. L + Len(T) /\ ~(L + j - 1 <= L)
          /\ (L + j - 1) - L = j - 1 /\ j - 1 \in 1 .. Len(T) /\ (j - 1) + 1 = j
      BY <1>1, <1>3
    <3>2. V[L + j - 1] = T[j - 1]
      BY <2>1, <3>1
    <3>. QED
      BY <1>1, <3>1, <3>2
  <2>4. DOMAIN V = 1 .. Len(V)
    BY <2>1
  <2>. QED
    BY <2>1, <2>2, <2>3, <2>4
<1> HIDE DEF V
<1>6. ASSUME NEW i \in DOMAIN V
      PROVE  \/ i \in 1 .. L /\ V[i] = K[i]
             \/ \E j \in 2 .. Len(U) : i = L + j - 1 /\ V[i] = U[j]
  <2>1. CASE i <= L
    BY <1>3, <1>5, <2>1
  <2>2. CASE ~(i <= L)
    <3>1. (i - L) + 1 \in 2 .. Len(U) /\ i = L + ((i - L) + 1) - 1
      BY <1>1, <1>3, <1>5, <2>2
    <3>. QED
      BY <1>5, <3>1
  <2>. QED
    BY <2>1, <2>2
<1>7. \A j \in 2 .. Len(U) : ~Under(n, U[j]) /\ ~Under(U[j], n) /\ U[j] \in Node
  <2>1. ASSUME NEW j \in 2 .. Len(U) PROVE ~Under(n, U[j]) /\ ~Under(U[j], n) /\ U[j] \in Node
    <3>1. j \in DOMAIN U /\ 1 \in DOMAIN U /\ j # 1
      BY <1>1
    <3>2. U[j] \in N
      BY <3>1 DEF N
    <3>. QED
      BY <1>1, <1>2, <3>1, <3>2 DEF Apart
  <2>. QED
    BY <2>1
<1>8. Apart(V)
  <2>1. SUFFICES ASSUME NEW i \in DOMAIN V, NEW j \in DOMAIN V, i # j, Under(V[i], V[j])
                 PROVE  FALSE
    BY DEF Apart
  <2>2. CASE i \in 1 .. L /\ j \in 1 .. L
    <3>1. V[i] = K[i] /\ V[j] = K[j] /\ K[i] # K[j]
      BY <1>4, <1>5, <2>1, <2>2
    <3>2. K[j] = n \/ K[j] \in Above(n)
      BY <1>4, <2>1, <2>2, <3>1 DEF Under
    <3>3. K[j] = n \/ K[j] < n
      BY <1>2, <3>2, AboveBefore
    <3>4. n < K[j] /\ n \in Nat /\ K[j] \in Nat
      BY <1>2, <1>4, <2>2, NodesAreNumbers
    <3>. QED
      BY <3>3, <3>4
  <2>3. CASE i \in 1 .. L /\ j \notin 1 .. L
    <3>1. PICK k \in 2 .. Len(U) : V[j] = U[k]
      BY <1>6, <2>3
    <3>2. U[k] = K[i] \/ U[k] = n \/ U[k] \in Above(n)
      BY <1>4, <1>5, <2>1, <2>3, <3>1 DEF Under
    <3>3. U[k] # K[i]
      BY <1>4, <1>7, <2>3 DEF Under
    <3>. QED
      BY <1>7, <3>2, <3>3 DEF Under
  <2>4. CASE i \notin 1 .. L /\ j \in 1 .. L
    <3>1. PICK k \in 2 .. Len(U) : V[i] = U[k]
      BY <1>6, <2>4
    <3>2. K[j] = U[k] \/ K[j] \in Above(U[k])
      BY <1>5, <2>1, <2>4, <3>1 DEF Under
    <3>3. n \in Above(K[j])
      BY <1>4, <2>4
    <3>4. n \in Above(U[k])
      BY <1>7, <3>2, <3>3, AboveTransitive
    <3>. QED
      BY <1>7, <3>4 DEF Under
  <2>5. CASE i \notin 1 .. L /\ j \notin 1 .. L
    <3>1. PICK k \in 2 .. Len(U) : i = L + k - 1 /\ V[i] = U[k]
      BY <1>6, <2>5
    <3>2. PICK l \in 2 .. Len(U) : j = L + l - 1 /\ V[j] = U[l]
      BY <1>6, <2>5
    <3>3. k # l
      BY <2>1, <3>1, <3>2
    <3>4. k \in DOMAIN U /\ l \in DOMAIN U
      BY <1>1
    <3>. QED
      BY <2>1, <3>1, <3>2, <3>3, <3>4 DEF Apart
  <2>. QED
    BY <2>2, <2>3, <2>4, <2>5
<1>9. ASSUME NEW m \in Node, Listed(m, V) PROVE Listed(m, U) /\ m # n
  <2>1. PICK i \in DOMAIN V : Under(m, V[i])
    BY <1>9 DEF Listed
  <2>2. CASE i \in 1 .. L
    <3>1. K[i] = m \/ K[i] \in Above(m)
      BY <1>5, <2>1, <2>2 DEF Under
    <3>2. n \in Above(m)
      BY <1>4, <2>2, <3>1, AboveTransitive
    <3>3. n < m /\ m \in Nat
      BY <3>2, AboveBefore, NodesAreNumbers
    <3>4. 1 \in DOMAIN U /\ Under(m, U[1])
      BY <1>1, <3>2 DEF Under
    <3>. QED
      BY <3>3, <3>4, NodesAreNumbers DEF Listed
  <2>3. CASE i \notin 1 .. L
    <3>1. PICK k \in 2 .. Len(U) : V[i] = U[k]
      BY <1>6, <2>3
    <3>2. k \in DOMAIN U /\ Under(m, U[k])
      BY <1>1, <2>1, <3>1
    <3>. QED
      BY <1>7, <3>2 DEF Listed
  <2>. QED
    BY <2>2, <2>3
<1>10. ASSUME NEW m \in Node, Listed(m, U), m # n PROVE Listed(m, V)
  <2>1. PICK j \in DOMAIN U : Under(m, U[j])
    BY <1>10 DEF Listed
  <2>2. CASE j = 1
    <3>1. n \in Above(m)
      BY <1>1, <1>10, <2>1, <2>2 DEF Under
    <3>2. PICK i \in DOMAIN K : K[i] = m \/ K[i] \in Above(m)
      BY <3>1, ChildOnTheWay DEF K
    <3>3. i \in DOMAIN V /\ V[i] = K[i]
      BY <1>1, <1>3, <1>5
    <3>. QED
      BY <3>2, <3>3 DEF Listed, Under
  <2>3. CASE j # 1
    <3>1. j \in 2 .. Len(U) /\ L + j - 1 \in DOMAIN V
      BY <1>1, <1>3, <1>5, <2>3
    <3>2. V[L + j - 1] = U[j]
      BY <1>5, <3>1
    <3>. QED
      BY <2>1, <3>1, <3>2 DEF Listed
  <2>. QED
    BY <2>2, <2>3
<1>11. Listed(n, U)
  BY <1>1 DEF Listed, Under
<1>12. ASSUME Parent(n) # nullptr, Listed(Parent(n), U) PROVE FALSE
  <2>1. /\ Parent(n) \in Node /\ Parent(n) < n /\ Parent(n) \in Nat /\ n \in Nat
        /\ Parent(n) \in Above(n)
    BY <1>2, <1>12, ParentBefore, AboveStep, NodesAreNumbers
  <2>2. PICK j \in DOMAIN U : Under(Parent(n), U[j])
    BY <1>12 DEF Listed
  <2>3. U[j] \in Above(n)
    BY <1>2, <2>1, <2>2, AboveTransitive DEF Under
  <2>4. CASE j = 1
    <3>1. n \in Above(n)
      BY <1>1, <2>3, <2>4
    <3>2. n < n
      BY <1>2, <3>1, AboveBefore
    <3>. QED
      BY <2>1, <3>2
  <2>5. CASE j # 1
    <3>1. j \in 2 .. Len(U)
      BY <1>1, <2>5
    <3>. QED
      BY <1>7, <2>3, <3>1 DEF Under
  <2>. QED
    BY <2>4, <2>5
<1>13. /\ n \in N /\ V \in Seq(N) /\ Apart(V)
       /\ \A m \in Node : Listed(m, V) <=> Listed(m, U) /\ m # n
       /\ Listed(n, U)
       /\ Parent(n) # nullptr => ~Listed(Parent(n), U)
  BY <1>1, <1>5, <1>8, <1>9, <1>10, <1>11, <1>12
<1>. QED
  BY <1>13 DEF n, V, K, T, N

-----------------------------------------------------------------------------
(* The inductive invariant.                                                *)

\* The assertions of visitOp hold for the loops on the path of n.
OpFits(n) ==
  \A d \in Dim :
    LET ls == LoopsOver(PathNests(n), d) IN
      ls # <<>> => TailsLegal(ls) /\ DimResult(ls) = FactorizedBounds[d]

\* The visitor's list and what the nodes hold.
CountTypes ==
  /\ root \in Roots
  /\ unvisited \in Seq(Nodes)
  /\ inherit_loopnests_ \in [Nodes -> Seq({Tree[m].loops : m \in Nodes})]
  /\ verdict \in {"idle", "running", "accepted", "aborted"}
  /\ evaluations \in 0 .. MaxEvaluations

\* The list is a list of subtrees that do not overlap, empty between two
\* evaluations; the first evaluation starts with no nests at all.
CountControl ==
  /\ Apart(unvisited)
  /\ verdict # "running" => unvisited = <<>>
  /\ verdict = "idle" <=> evaluations = 0
  /\ verdict = "idle" => \A n \in Nodes : inherit_loopnests_[n] = <<>>

\* In the first evaluation a node holds nothing before its visit, and the
\* nests of its path after it.
FirstNests ==
  (verdict \in {"running", "accepted"} /\ evaluations = 1) =>
    \A n \in Nodes : inherit_loopnests_[n] = IF Listed(n, unvisited) THEN <<>> ELSE PathNests(n)

\* An operation that was visited fits, and after the first evaluation each
\* one was visited.
VisitedFits ==
  /\ (verdict = "running" /\ evaluations = 1) =>
       \A n \in Ops : ~Listed(n, unvisited) => OpFits(n)
  /\ (verdict = "accepted" \/ evaluations >= 2) => \A n \in Ops : OpFits(n)

CountInv == CountTypes /\ CountControl /\ FirstNests /\ VisitedFits

\* CountInv holds before the first evaluation.
LEMMA CountInitially == CountInit => CountInv
<1> SUFFICES ASSUME CountInit PROVE CountInv
  OBVIOUS
<1> USE DEF CountInit
<1>1. CountTypes
  <2>1. 0 \in 0 .. MaxEvaluations
    BY EvaluationsAssumption
  <2> DEFINE S == {Tree[m].loops : m \in Nodes}
  <2>2. <<>> \in Seq(S) /\ <<>> \in Seq(Nodes)
    BY EmptySeq
  <2> HIDE DEF S
  <2>3. inherit_loopnests_ \in [Nodes -> Seq(S)]
    BY <2>2
  <2>. QED
    BY <2>1, <2>2, <2>3 DEF CountTypes, S
<1>2. CountControl
  BY DEF CountControl, Apart
<1>3. FirstNests /\ VisitedFits
  BY DEF FirstNests, VisitedFits
<1>. QED
  BY <1>1, <1>2, <1>3 DEF CountInv

\* Nothing that the invariant reads changes.
LEMMA CountStutters ==
  CountInv /\ UNCHANGED countVars => CountInv'
BY DEF CountInv, CountTypes, CountControl, FirstNests, VisitedFits, countVars,
       Nodes, Ops

\* evaluate() starts the visitor at the root.
LEMMA EvaluateKeeps == CountInv /\ Evaluate => CountInv'
<1> SUFFICES ASSUME CountInv, Evaluate PROVE CountInv'
  OBVIOUS
<1> DEFINE N == Nodes
           S == {Tree[m].loops : m \in N}
<1>1. /\ root' = root /\ unvisited' = <<root>> /\ verdict' = "running"
      /\ evaluations' = evaluations + 1 /\ evaluations < MaxEvaluations
      /\ verdict \in {"idle", "accepted"} /\ evaluations \in Nat
      /\ MaxEvaluations \in Nat
  BY EvaluationsAssumption DEF Evaluate, CountInv, CountTypes
<1>2. Nodes' = N /\ Ops' = Ops
  BY <1>1 DEF Nodes, Ops
<1>3. root \in N /\ root \in Node /\ N = {m \in Node : Under(m, root)}
  <2>1. root \in Roots
    BY DEF CountInv, CountTypes
  <2>2. N = {m \in Node : root = m \/ root \in Above(m)}
    BY <2>1 DEF Nodes, NodesOf, Above
  <2>. QED
    BY <2>1, <2>2 DEF Roots, Under
<1>4. /\ inherit_loopnests_ \in [N -> Seq(S)]
      /\ inherit_loopnests_' =
           [n \in N |-> IF n \in ResetNodes(root) THEN <<>> ELSE inherit_loopnests_[n]]
  <2> HIDE DEF N
  <2>1. inherit_loopnests_ \in [N -> Seq(S)]
    BY DEF CountInv, CountTypes, N
  <2>2. DOMAIN inherit_loopnests_ = N
    <3> HIDE DEF S
    <3>. QED
      BY <2>1
  <2>. QED
    BY <2>1, <2>2 DEF Evaluate
<1> HIDE DEF N, S
<1>5. inherit_loopnests_' \in [N -> Seq(S)]
  <2>1. <<>> \in Seq(S)
    BY EmptySeq
  <2>. QED
    BY <1>4, <2>1
<1>6. \A n \in N : Listed(n, unvisited')
  BY <1>1, <1>3 DEF Listed
<1>7. CountTypes'
  <2>1. <<root>> \in Seq(N)
    BY <1>3
  <2>2. evaluations' \in 0 .. MaxEvaluations
    BY <1>1
  <2>3. root' \in Roots /\ verdict' \in {"idle", "running", "accepted", "aborted"}
    BY <1>1 DEF CountInv, CountTypes
  <2>. QED
    BY <1>1, <1>2, <1>5, <2>1, <2>2, <2>3 DEF CountTypes, S
<1>8. CountControl'
  BY <1>1 DEF CountControl, Apart
<1>9. FirstNests'
  <2> SUFFICES ASSUME evaluations' = 1, NEW n \in N
               PROVE  inherit_loopnests_'[n] = <<>>
    BY <1>2, <1>6 DEF FirstNests
  <2>1. inherit_loopnests_[n] = <<>>
    <3>1. evaluations = 0
      BY <1>1
    <3>. QED
      BY <3>1 DEF CountInv, CountControl, N
  <2>. QED
    BY <1>4, <2>1
<1>10. VisitedFits'
  <2>1. ASSUME NEW n \in Ops PROVE Listed(n, unvisited')
    BY <1>6 DEF Ops, N
  <2>2. ASSUME evaluations' >= 2, NEW n \in Ops PROVE OpFits(n)
    <3>1. evaluations # 0
      BY <1>1, <2>2
    <3>2. verdict = "accepted"
      BY <1>1, <3>1 DEF CountInv, CountControl
    <3>. QED
      BY <3>2 DEF CountInv, VisitedFits
  <2>. QED
    BY <1>1, <1>2, <2>1, <2>2 DEF VisitedFits
<1>. QED
  BY <1>7, <1>8, <1>9, <1>10 DEF CountInv

\* One visit: the node's nests become those of its path, its children take its
\* place in the list, and an operation that does not fit ends the program.
LEMMA VisitKeeps == CountInv /\ Visit => CountInv'
<1> SUFFICES ASSUME CountInv, Visit PROVE CountInv'
  OBVIOUS
<1> DEFINE N == Nodes
           S == {Tree[m].loops : m \in N}
           n == Head(unvisited)
           V == Kids(n) \o Tail(unvisited)
<1>1. /\ root' = root /\ evaluations' = evaluations
      /\ verdict = "running" /\ unvisited # <<>>
      /\ inherit_loopnests_' = [inherit_loopnests_ EXCEPT ![n] = Nests(n)]
      /\ verdict' = IF NodeLegal(n) THEN "running" ELSE "aborted"
      /\ unvisited' = IF NodeLegal(n) THEN V ELSE <<>>
  BY DEF Visit
<1>2. /\ root \in Roots /\ unvisited \in Seq(N) /\ N = NodesOf[root]
      /\ inherit_loopnests_ \in [N -> Seq(S)]
      /\ evaluations \in 0 .. MaxEvaluations /\ evaluations # 0
      /\ Apart(unvisited)
  BY <1>1 DEF CountInv, CountTypes, CountControl, Nodes
<1>3. Nodes' = N /\ Ops' = Ops
  BY <1>1 DEF Nodes, Ops
<1> HIDE DEF N
<1>4. /\ n \in N /\ V \in Seq(N) /\ Apart(V)
      /\ \A m \in Node : Listed(m, V) <=> Listed(m, unvisited) /\ m # n
      /\ Listed(n, unvisited)
      /\ Parent(n) # nullptr => ~Listed(Parent(n), unvisited)
  BY <1>1, <1>2, ListAfterVisit
<1> HIDE DEF n, V
<1>5. n \in Node /\ (Parent(n) # nullptr => Parent(n) \in N) /\ \A m \in N : m \in Node
  BY <1>2, <1>4, NodesClosed
<1>6. Nests(n) \in Seq(S)
  <2>1. inherit_loopnests_[n] \in Seq(S)
    <3> HIDE DEF S
    <3>. QED
      BY <1>2, <1>4
  <2>2. Inherited(n) \in Seq(S)
    <3>1. <<>> \in Seq(S)
      BY EmptySeq
    <3> HIDE DEF S
    <3>. QED
      BY <1>2, <1>5, <3>1 DEF Inherited
  <2>3. OwnNests(n) \in Seq(S)
    <3>1. Tree[n].loops \in S
      BY <1>4
    <3> HIDE DEF S
    <3>. QED
      BY <3>1 DEF OwnNests
  <2> HIDE DEF S
  <2>. QED
    BY <2>1, <2>2, <2>3, ConcatProperties DEF Nests
<1>7. CountTypes'
  <2>1. inherit_loopnests_' \in [N -> Seq(S)]
    <3> HIDE DEF S
    <3>. QED
      BY <1>1, <1>2, <1>6
  <2>2. unvisited' \in Seq(N)
    BY <1>1, <1>4, EmptySeq
  <2>. QED
    BY <1>1, <1>2, <1>3, <2>1, <2>2 DEF CountTypes
<1>8. CountControl'
  <2>1. Apart(unvisited')
    BY <1>1, <1>4 DEF Apart
  <2>. QED
    BY <1>1, <1>2, <2>1 DEF CountControl
<1>9. ASSUME evaluations = 1 PROVE Nests(n) = PathNests(n)
  <2>1. \A m \in N : inherit_loopnests_[m] =
                       IF Listed(m, unvisited) THEN <<>> ELSE PathNests(m)
    BY <1>1, <1>9 DEF CountInv, FirstNests, N
  <2>2. inherit_loopnests_[n] = <<>>
    BY <1>4, <2>1
  <2>3. /\ PathNests(n) \in Seq(Seq(Loop)) /\ OwnNests(n) \in Seq(Seq(Loop))
        /\ Parent(n) = nullptr => PathNests(n) = OwnNests(n)
        /\ Parent(n) # nullptr => PathNests(n) = PathNests(Parent(n)) \o OwnNests(n)
    BY <1>5, PathNestsStep, OwnNestsType
  <2>4. Nests(n) = (<<>> \o Inherited(n)) \o OwnNests(n)
    BY <2>2 DEF Nests
  <2>5. CASE Parent(n) = nullptr
    <3>1. Inherited(n) = <<>>
      BY <2>5 DEF Inherited
    <3>2. <<>> \o <<>> = <<>> /\ <<>> \o OwnNests(n) = OwnNests(n)
      BY <2>3, EmptySeq, ConcatEmptySeq
    <3>. QED
      BY <2>3, <2>4, <2>5, <3>1, <3>2
  <2>6. CASE Parent(n) # nullptr
    <3>1. Inherited(n) = PathNests(Parent(n))
      BY <1>4, <1>5, <2>1, <2>6 DEF Inherited
    <3>2. PathNests(Parent(n)) \in Seq(Seq(Loop))
      BY <1>5, <2>6, PathNestsStep
    <3>3. <<>> \o PathNests(Parent(n)) = PathNests(Parent(n))
      BY <3>2, ConcatEmptySeq
    <3>. QED
      BY <2>3, <2>4, <2>6, <3>1, <3>3
  <2>. QED
    BY <2>5, <2>6
<1>10. FirstNests'
  <2> SUFFICES ASSUME verdict' = "running", evaluations = 1, NEW m \in N
               PROVE  inherit_loopnests_'[m] =
                        IF Listed(m, unvisited') THEN <<>> ELSE PathNests(m)
    BY <1>1, <1>3 DEF FirstNests
  <2>1. unvisited' = V
    BY <1>1
  <2>2. inherit_loopnests_[m] = IF Listed(m, unvisited) THEN <<>> ELSE PathNests(m)
    BY <1>1 DEF CountInv, FirstNests, N
  <2>3. inherit_loopnests_'[m] = IF m = n THEN Nests(n) ELSE inherit_loopnests_[m]
    <3> HIDE DEF S
    <3>. QED
      BY <1>1, <1>2
  <2>4. m \in Node
    BY <1>5
  <2>. QED
    BY <1>4, <1>9, <2>1, <2>2, <2>3, <2>4
<1>11. VisitedFits'
  <2>1. ASSUME verdict' = "running", evaluations = 1,
               NEW m \in Ops, ~Listed(m, unvisited')
        PROVE  OpFits(m)
    <3>1. m \in Node /\ Tree[m].kind = "Op"
      BY <1>5 DEF Ops, N
    <3>2. unvisited' = V /\ NodeLegal(n)
      BY <1>1, <2>1
    <3>3. CASE m = n
      <4>1. BoundsMatch(n)
        BY <3>1, <3>2, <3>3 DEF NodeLegal
      <4>. QED
        BY <1>9, <2>1, <3>3, <4>1 DEF BoundsMatch, OpFits
    <3>4. CASE m # n
      <4>1. ~Listed(m, unvisited)
        BY <1>4, <2>1, <3>1, <3>2, <3>4
      <4>. QED
        BY <1>1, <2>1, <4>1 DEF CountInv, VisitedFits
    <3>. QED
      BY <3>3, <3>4
  <2>2. ASSUME evaluations >= 2, NEW m \in Ops PROVE OpFits(m)
    BY <2>2 DEF CountInv, VisitedFits
  <2>3. verdict' # "accepted"
    BY <1>1
  <2>. QED
    BY <1>1, <1>3, <2>1, <2>2, <2>3 DEF VisitedFits
<1>. QED
  BY <1>7, <1>8, <1>10, <1>11 DEF CountInv

\* With an empty list every operation was visited.
LEMMA FinishCountKeeps == CountInv /\ FinishCount => CountInv'
<1> SUFFICES ASSUME CountInv, FinishCount PROVE CountInv'
  OBVIOUS
<1>1. /\ verdict = "running" /\ unvisited = <<>> /\ verdict' = "accepted"
      /\ root' = root /\ unvisited' = unvisited /\ evaluations' = evaluations
      /\ inherit_loopnests_' = inherit_loopnests_
  BY DEF FinishCount
<1>2. Nodes' = Nodes /\ Ops' = Ops
  BY <1>1 DEF Nodes, Ops
<1>3. CountTypes'
  BY <1>1, <1>2 DEF CountInv, CountTypes
<1>4. CountControl'
  BY <1>1 DEF CountInv, CountControl
<1>5. FirstNests'
  BY <1>1, <1>2 DEF CountInv, FirstNests
<1>6. \A n \in Ops : ~Listed(n, unvisited)
  BY <1>1 DEF Listed
<1>7. \A n \in Ops : OpFits(n)
  <2>1. evaluations \in Nat /\ evaluations # 0
    BY <1>1 DEF CountInv, CountTypes, CountControl
  <2>2. evaluations = 1 \/ evaluations >= 2
    BY <2>1
  <2>. QED
    BY <1>1, <1>6, <2>2 DEF CountInv, VisitedFits
<1>8. VisitedFits'
  BY <1>1, <1>2, <1>7 DEF VisitedFits
<1>. QED
  BY <1>3, <1>4, <1>5, <1>8 DEF CountInv

\* The legality check keeps its invariant.
LEMMA CountInductive == CountSpec => []CountInv
<1>1. CountInv /\ [CountNext]_countVars => CountInv'
  BY EvaluateKeeps, VisitKeeps, FinishCountKeeps, CountStutters
     DEF CountNext, CountStopped
<1>. QED
  BY <1>1, CountInitially, PTL DEF CountSpec

\* The invariant of the check gives the types of its variables.
LEMMA CountInvTypes ==
  ASSUME CountInv
  PROVE  CountTypeOK
<1> DEFINE S == {Tree[m].loops : m \in Nodes}
<1>1. inherit_loopnests_ \in [Nodes -> Seq(S)] /\ unvisited \in Seq(Nodes)
  BY DEF CountInv, CountTypes
<1>2. ASSUME NEW n \in Nodes, NEW i \in DOMAIN inherit_loopnests_[n]
      PROVE  inherit_loopnests_[n][i] \in S
  <2> HIDE DEF S
  <2>1. inherit_loopnests_[n] \in Seq(S)
    BY <1>1
  <2>. QED
    BY <2>1
<1>3. ToSet(unvisited) \subseteq Nodes
  BY <1>1 DEF ToSet
<1>4. DOMAIN inherit_loopnests_ = Nodes
  <2> HIDE DEF S
  <2>. QED
    BY <1>1
<1>. QED
  BY <1>2, <1>3, <1>4 DEF CountTypeOK, CountInv, CountTypes

-----------------------------------------------------------------------------
\* The type invariant: what a node holds are whole loop nests of its mapping,
\* and the visitor only meets nodes of the mapping.
THEOREM CountTypeCorrect == CountSpec => []CountTypeOK
<1>1. CountInv => CountTypeOK
  BY CountInvTypes
<1>. QED
  BY <1>1, CountInductive, PTL

\* The invariant of the check says that each node below a visited tile has
\* inherited the loop nest of the tiles above it.
LEMMA CountInvPaths ==
  ASSUME CountInv
  PROVE  InheritedIsPath
<1> SUFFICES ASSUME NEW n \in Nodes, verdict \in {"running", "accepted"},
                    evaluations = 1, ~Pending(n)
             PROVE  inherit_loopnests_[n] = PathNests(n)
  BY DEF InheritedIsPath
<1>1. ~Listed(n, unvisited)
  BY DEF Pending, Listed, Under, Above, ToSet
<1>. QED
  BY <1>1 DEF CountInv, FirstNests

\* In the first evaluation, a node that was visited holds the loop nests on its
\* path, once each and outermost first, however the visitor got there.
THEOREM PathsInherited == CountSpec => []InheritedIsPath
<1>1. CountInv => InheritedIsPath
  BY CountInvPaths
<1>. QED
  BY <1>1, CountInductive, PTL

\* The invariant of the check says that an accepted leaf is run for every point
\* of its dimensions.
LEMMA CountInvCovers ==
  ASSUME CountInv
  PROVE  AcceptedCoversBounds
<1> SUFFICES ASSUME verdict = "accepted", NEW n \in Ops, NEW d \in Dim,
                    LoopsOver(PathNests(n), d) # <<>>
             PROVE  WalkedPoints(LoopsOver(PathNests(n), d)) = FactorizedBounds[d]
  BY DEF AcceptedCoversBounds
<1>1. n \in Node
  BY NodesClosed DEF Ops, Nodes, CountInv, CountTypes
<1>2. LoopsOver(PathNests(n), d) \in Seq(Loop)
  BY <1>1, PathNestsStep, LoopsOverType
<1>3. DimResult(LoopsOver(PathNests(n), d)) = FactorizedBounds[d]
  BY DEF CountInv, VisitedFits, OpFits
<1>. QED
  BY <1>2, <1>3, CountIsWalk

\* An accepted mapping runs, for every operation and dimension that has loops,
\* exactly as many points as the workload has: for every tree and every loop
\* count, those of free variables included.
THEOREM AcceptedCovers == CountSpec => []AcceptedCoversBounds
<1>1. CountInv => AcceptedCoversBounds
  BY CountInvCovers
<1>. QED
  BY <1>1, CountInductive, PTL

\* No trip count of the forest is a free variable (those are negative).
CountsSet == \A n \in Node : \A i \in DOMAIN Tree[n].loops : Tree[n].loops[i].end >= 0

\* With set trip counts, the invariant of the check says that the tail of each
\* loop of an accepted mapping is no longer than the loop.
LEMMA CountInvTails ==
  ASSUME CountsSet, CountInv
  PROVE  AcceptedTailsFit
<1> DEFINE T == {l \in Loop : l.end >= 0}
           ls(n, d) == LoopsOver(PathNests(n), d)
<1> SUFFICES ASSUME verdict = "accepted", NEW n \in Ops, NEW d \in Dim,
                    NEW k \in 2 .. Len(ls(n, d))
             PROVE  WalkedPoints(SubSeq(ls(n, d), k, Len(ls(n, d))))
                      <= InnerTrips(ls(n, d), k - 1)
  BY DEF AcceptedTailsFit
<1>1. n \in Node
  BY NodesClosed DEF Ops, Nodes, CountInv, CountTypes
<1>2. ASSUME NEW m \in Node PROVE Tree[m].loops \in Seq(T)
  <2> DEFINE q == Tree[m].loops
  <2>1. q \in Seq(Loop)
    BY TreeAssumption
  <2>2. \A i \in DOMAIN q : q[i].end >= 0
    BY DEF CountsSet
  <2> HIDE DEF q
  <2>3. Len(q) \in Nat /\ DOMAIN q = 1 .. Len(q) /\ q = [i \in 1 .. Len(q) |-> q[i]]
    BY <2>1
  <2>4. \A i \in 1 .. Len(q) : q[i] \in T
    BY <2>1, <2>2, <2>3
  <2> HIDE DEF T
  <2>5. q \in [1 .. Len(q) -> T]
    BY <2>3, <2>4
  <2>. QED
    BY <2>3, <2>5, SeqDef DEF q
<1> HIDE DEF T
<1>3. ls(n, d) \in Seq(T)
  BY <1>1, <1>2, PathNestsType, LoopsOverType
<1>4. ls(n, d) \in Seq(Loop)
  BY <1>1, PathNestsStep, LoopsOverType
<1>5. TailsLegal(ls(n, d))
  <2>1. ls(n, d) # <<>>
    <3>1. Len(ls(n, d)) # 0
      BY <1>4
    <3>. QED
      BY <3>1, EmptySeq
  <2>. QED
    BY <2>1 DEF CountInv, VisitedFits, OpFits
<1> HIDE DEF ls
<1>6. \A i \in 1 .. Len(ls(n, d)) : ls(n, d)[i].end >= 0
  <2>1. \A i \in 1 .. Len(ls(n, d)) : ls(n, d)[i] \in T
    BY <1>3
  <2>. QED
    BY <2>1 DEF T
<1>. QED
  BY <1>4, <1>5, <1>6, TailsFit

\* An accepted mapping has no tail longer than the full tile around it, below
\* the outermost loop of a dimension, when all trip counts are set.
THEOREM AcceptedTails ==
  ASSUME CountsSet
  PROVE  CountSpec => []AcceptedTailsFit
<1>1. CountInv => AcceptedTailsFit
  BY CountInvTails
<1>. QED
  BY <1>1, CountInductive, PTL

-----------------------------------------------------------------------------
(* The list of nodes that a pass has still to visit.                       *)

\* U is what is left of the sequence W.
Suffix(U, W) ==
  /\ Len(U) <= Len(W)
  /\ \A i \in 1 .. Len(U) : U[i] = W[(Len(W) - Len(U)) + i]

\* m comes before n in W.
Before(m, n, W) == \E a, b \in DOMAIN W : a < b /\ W[a] = m /\ W[b] = n

\* A sequence is a suffix of itself, and so is the empty one.
LEMMA SuffixWhole ==
  ASSUME NEW T, NEW W \in Seq(T)
  PROVE  Suffix(W, W) /\ Suffix(<<>>, W)
BY DEF Suffix

\* Without its first element it still is one, has the first element no longer,
\* and all elements that are not left come before that one.
LEMMA SuffixStep ==
  ASSUME NEW T, NEW W \in Seq(T), IsInjective(W), NEW U \in Seq(T), Suffix(U, W), U # <<>>
  PROVE  /\ Tail(U) \in Seq(T) /\ Suffix(Tail(U), W)
         /\ Head(U) \in T /\ Head(U) \in ToSet(U)
         /\ ToSet(Tail(U)) = ToSet(U) \ {Head(U)}
         /\ \A m \in ToSet(W) \ ToSet(U) : Before(m, Head(U), W)
<1> DEFINE n == Head(U)
           V == Tail(U)
           d == Len(W) - Len(U)
<1>1. /\ Len(U) \in Nat \ {0} /\ Len(W) \in Nat /\ V \in Seq(T) /\ Len(V) = Len(U) - 1
      /\ \A i \in 1 .. Len(V) : V[i] = U[i + 1]
      /\ n = U[1] /\ n \in T
      /\ DOMAIN U = 1 .. Len(U) /\ DOMAIN V = 1 .. Len(V) /\ DOMAIN W = 1 .. Len(W)
  BY EmptySeq, HeadTailProperties
<1>2. /\ d \in Nat /\ Len(U) <= Len(W)
      /\ \A i \in 1 .. Len(U) : U[i] = W[d + i] /\ d + i \in 1 .. Len(W)
  BY <1>1 DEF Suffix
<1> HIDE DEF n, V, d
<1>3. Suffix(V, W)
  <2>1. Len(V) <= Len(W)
    BY <1>1, <1>2
  <2>2. ASSUME NEW i \in 1 .. Len(V) PROVE V[i] = W[(Len(W) - Len(V)) + i]
    <3>1. i + 1 \in 1 .. Len(U) /\ V[i] = U[i + 1]
      BY <1>1
    <3>2. (Len(W) - Len(V)) + i = d + (i + 1)
      BY <1>1 DEF d
    <3>. QED
      BY <1>2, <3>1, <3>2
  <2>. QED
    BY <2>1, <2>2 DEF Suffix
<1>4. n \in ToSet(U)
  BY <1>1 DEF ToSet
<1>5. ASSUME NEW i \in 1 .. Len(U), NEW j \in 1 .. Len(U), U[i] = U[j] PROVE i = j
  <2>0. d + i \in DOMAIN W /\ d + j \in DOMAIN W /\ W[d + i] = W[d + j]
    BY <1>1, <1>2, <1>5
  <2>1. d + i = d + j
    BY <2>0, Zenon DEF IsInjective
  <2>. QED
    BY <1>2, <2>1
<1>6. ToSet(V) = ToSet(U) \ {n}
  <2>1. ASSUME NEW i \in DOMAIN V PROVE V[i] \in ToSet(U) /\ V[i] # n
    <3>1. i + 1 \in 1 .. Len(U) /\ V[i] = U[i + 1] /\ 1 \in 1 .. Len(U) /\ i + 1 # 1
      BY <1>1
    <3>2. U[i + 1] # U[1]
      BY <1>5, <3>1
    <3>. QED
      BY <1>1, <3>1, <3>2 DEF ToSet
  <2>2. ASSUME NEW i \in DOMAIN U, U[i] # n PROVE U[i] \in ToSet(V)
    <3>1. i - 1 \in DOMAIN V /\ V[i - 1] = U[i]
      <4>1. i - 1 \in 1 .. Len(V) /\ (i - 1) + 1 = i
        BY <1>1, <2>2
      <4>. QED
        BY <1>1, <4>1
    <3>. QED
      BY <3>1 DEF ToSet
  <2>. QED
    BY <2>1, <2>2 DEF ToSet
<1>7. ASSUME NEW m \in ToSet(W) \ ToSet(U) PROVE Before(m, n, W)
  <2>1. PICK a \in DOMAIN W : W[a] = m
    BY DEF ToSet
  <2>2. a \in 1 .. Len(W)
    BY <1>1
  <2>3. ~(a > d)
    <3>1. ASSUME a > d PROVE FALSE
      <4>1. a - d \in 1 .. Len(U) /\ d + (a - d) = a
        BY <1>1, <1>2, <2>2, <3>1 DEF d
      <4>2. U[a - d] = m /\ a - d \in DOMAIN U
        BY <1>1, <1>2, <2>1, <4>1
      <4>. QED
        BY <4>2 DEF ToSet
    <3>. QED
      BY <3>1
  <2>4. /\ d + 1 \in DOMAIN W /\ W[d + 1] = n /\ a < d + 1
    BY <1>1, <1>2, <2>2, <2>3
  <2>. QED
    BY <2>1, <2>4 DEF Before
<1>. QED
  BY <1>1, <1>3, <1>4, <1>6, <1>7 DEF n, V

-----------------------------------------------------------------------------
(* Paths.                                                                  *)

\* The nodes of a mapping are those below its root, which is a Tile.
LEMMA NodesUnder ==
  ASSUME NEW r \in Roots
  PROVE  /\ r \in Node /\ Parent(r) = nullptr /\ Tree[r].kind = "Tile" /\ Above(r) = {}
         /\ NodesOf[r] = {n \in Node : Under(n, r)}
         /\ \A n \in NodesOf[r] : n # r => r \in Above(n)
         /\ \A n \in NodesOf[r] : Above(n) \subseteq NodesOf[r]
<1>1. r \in Node /\ Parent(r) = nullptr /\ Tree[r].kind = "Tile"
  BY TreeAssumption DEF Roots
<1>2. Above(r) = {}
  BY <1>1, AboveStep
<1>3. NodesOf[r] = {n \in Node : Under(n, r)}
  BY DEF NodesOf, Under, Above
<1>4. ASSUME NEW n \in NodesOf[r], NEW m \in Above(n) PROVE m \in NodesOf[r]
  <2>1. n \in Node /\ r \in Above(n) /\ m \in Node
    BY <1>2, <1>3, <1>4, AboveBefore DEF Under
  <2>2. Under(r, m) \/ Under(m, r)
    BY <2>1, AboveChain
  <2>. QED
    BY <1>2, <1>3, <2>1, <2>2 DEF Under
<1>. QED
  BY <1>1, <1>2, <1>3, <1>4 DEF Under

\* Of the ancestors of a node the later ones are above the earlier ones.
LEMMA AncestorsChain ==
  ASSUME NEW n \in Node, NEW i \in DOMAIN Ancestors[n], NEW j \in DOMAIN Ancestors[n], i < j
  PROVE  Ancestors[n][j] \in Above(Ancestors[n][i])
<1> DEFINE Good(k) == \A a, b \in DOMAIN Ancestors[k] :
                        a < b => Ancestors[k][b] \in Above(Ancestors[k][a])
           Bad == {k \in Node : ~Good(k)}
<1>1. SUFFICES ASSUME Bad # {} PROVE FALSE
  <2>1. Good(n)
    <3> HIDE DEF Good
    <3>. QED
      BY <1>1
  <2>. QED
    BY <2>1
<1>2. PICK k \in Bad : Parent(k) # nullptr => Parent(k) \in Node /\ Parent(k) \notin Bad
  <2>1. Bad \in SUBSET Node
    OBVIOUS
  <2> HIDE DEF Bad
  <2>. QED
    BY <1>1, <2>1, FirstNode
<1>3. k \in Node /\ ~Good(k)
  <2> HIDE DEF Good
  <2>. QED
    OBVIOUS
<1>4. CASE Parent(k) = nullptr
  <2>0. Ancestors[k] = <<>>
    BY <1>3, <1>4, AncestorsStep
  <2>1. DOMAIN Ancestors[k] = {}
    BY <2>0
  <2>. QED
    BY <1>3, <2>1
<1>5. CASE Parent(k) # nullptr
  <2> DEFINE p == Parent(k)
             A == Ancestors[k]
             B == Ancestors[p]
  <2>1. p \in Node /\ Good(p)
    <3> HIDE DEF Good
    <3>. QED
      BY <1>2, <1>5
  <2>2. A = <<p>> \o B /\ B \in Seq(Node)
    BY <1>3, <1>5, <2>1, AncestorsStep, AncestorsType
  <2>3. /\ Len(B) \in Nat /\ DOMAIN B = 1 .. Len(B) /\ DOMAIN A = 1 .. Len(B) + 1
        /\ A[1] = p /\ \A a \in 2 .. Len(B) + 1 : A[a] = B[a - 1]
    <3> HIDE DEF p, A, B
    <3>. QED
      BY <2>1, <2>2
  <2>4. ASSUME NEW a \in DOMAIN A, NEW b \in DOMAIN A, a < b PROVE A[b] \in Above(A[a])
    <3>1. b \in 2 .. Len(B) + 1 /\ b - 1 \in DOMAIN B /\ A[b] = B[b - 1]
      <4> HIDE DEF A, B
      <4>. QED
        BY <2>3, <2>4
    <3>2. CASE a = 1
      <4>1. A[a] = p
        BY <2>3, <3>2
      <4>. QED
        BY <3>1, <4>1 DEF Above, ToSet
    <3>3. CASE a # 1
      <4>1. a - 1 \in DOMAIN B /\ A[a] = B[a - 1] /\ a - 1 < b - 1
        <5> HIDE DEF A, B
        <5>. QED
          BY <2>3, <2>4, <3>3
      <4>. QED
        BY <2>1, <3>1, <4>1
    <3>. QED
      BY <3>2, <3>3
  <2>. QED
    BY <1>3, <2>4
<1>. QED
  BY <1>4, <1>5

\* Two nodes below the root have a nearest common ancestor that is no Scope.
LEMMA CommonAncestor ==
  ASSUME NEW r \in Roots, NEW n \in NodesOf[r], NEW m \in NodesOf[r], n # r, m # r
  PROVE  /\ CommonIndex(n, m) \in DOMAIN Ancestors[n]
         /\ Ancestors[n][CommonIndex(n, m)] \in Above(m)
         /\ \A j \in 1 .. CommonIndex(n, m) - 1 :
              Tree[Ancestors[n][j]].kind = "Tile" => Ancestors[n][j] \notin Above(m)
<1> DEFINE A == Ancestors[n]
           shared(i) == Tree[A[i]].kind # "Scope" /\ A[i] \in Above(m)
           S == {i \in DOMAIN A : shared(i)}
<1>1. r \in Above(n) /\ r \in Above(m) /\ Tree[r].kind = "Tile" /\ n \in Node
  BY NodesUnder
<1>2. A \in Seq(Node) /\ DOMAIN A = 1 .. Len(A) /\ Len(A) \in Nat
  BY <1>1, AncestorsType
<1>3. PICK k \in DOMAIN A : A[k] = r
  BY <1>1 DEF Above, ToSet
<1>4. S # {} /\ S \in SUBSET Nat
  BY <1>1, <1>2, <1>3
<1>5. \E i \in DOMAIN A : shared(i) /\ \A j \in 1 .. i - 1 : ~shared(j)
  <2>1. PICK i \in S : \A j \in S : i <= j
    <3> HIDE DEF S
    <3>. QED
      BY <1>4, LeastNatural
  <2>2. i \in DOMAIN A /\ shared(i)
    <3> HIDE DEF shared
    <3>. QED
      BY <2>1
  <2>3. ASSUME NEW j \in 1 .. i - 1 PROVE ~shared(j)
    <3>1. j \in DOMAIN A /\ ~(i <= j)
      BY <1>2, <2>2
    <3> HIDE DEF shared
    <3>. QED
      BY <2>1, <3>1
  <2> HIDE DEF shared
  <2>. QED
    BY <2>2, <2>3
<1>6. CommonIndex(n, m) = CHOOSE i \in DOMAIN A : shared(i) /\ \A j \in 1 .. i - 1 : ~shared(j)
  BY Zenon DEF CommonIndex, Above
<1> DEFINE c == CommonIndex(n, m)
<1>7. c \in DOMAIN A /\ shared(c) /\ \A j \in 1 .. c - 1 : ~shared(j)
  <2> HIDE DEF shared
  <2>. QED
    BY <1>5, <1>6, Zenon
<1>. QED
  BY <1>7

\* A tile is on the consumer's path if and only if it is above the consumer
\* and not above the producer.
LEMMA ConsumerPath ==
  ASSUME NEW r \in Roots, NEW p \in NodesOf[r], NEW o \in NodesOf[r], p # r, o # r,
         NEW n \in Node, Tree[n].kind = "Tile"
  PROVE  n \in ToSet(consumer_path_(p, o)) <=> n \in Above(o) /\ n \notin Above(p)
<1> DEFINE A == Ancestors[o]
           c == CommonIndex(o, p)
           s == SubSeq(A, 1, c - 1)
<1>1. o \in Node /\ p \in Node /\ A \in Seq(Node)
  BY NodesUnder, AncestorsType
<1>2. /\ c \in DOMAIN A /\ A[c] \in Above(p)
      /\ \A j \in 1 .. c - 1 : Tree[A[j]].kind = "Tile" => A[j] \notin Above(p)
  BY CommonAncestor
<1>3. c \in 1 .. Len(A) /\ Len(A) \in Nat /\ DOMAIN A = 1 .. Len(A)
  BY <1>1, <1>2
<1> HIDE DEF A, c
<1>4. DOMAIN s = 1 .. c - 1 /\ \A j \in 1 .. c - 1 : s[j] = A[j]
  BY <1>1, <1>3
<1>5. consumer_path_(p, o) = s
  BY DEF consumer_path_, s, A, c
<1> HIDE DEF s
<1>6. ASSUME n \in ToSet(s) PROVE n \in Above(o) /\ n \notin Above(p)
  <2>1. PICK j \in 1 .. c - 1 : n = A[j]
    BY <1>4, <1>6 DEF ToSet
  <2>2. j \in DOMAIN A
    BY <1>3
  <2>. QED
    BY <1>2, <2>1, <2>2 DEF Above, ToSet, A
<1>7. ASSUME n \in Above(o), n \notin Above(p) PROVE n \in ToSet(s)
  <2>1. PICK j \in DOMAIN A : n = A[j]
    BY <1>7 DEF Above, ToSet, A
  <2>2. j # c
    BY <1>2, <1>7, <2>1
  <2>3. ~(c < j)
    <3>1. ASSUME c < j PROVE FALSE
      <4>1. A[j] \in Above(A[c])
        BY <1>1, <1>2, <2>1, <3>1, AncestorsChain DEF A
      <4>2. Above(A[c]) \subseteq Above(p)
        BY <1>1, <1>2, AboveTransitive
      <4>. QED
        BY <1>7, <2>1, <4>1, <4>2
    <3>. QED
      BY <3>1
  <2>4. j \in 1 .. c - 1
    BY <1>3, <2>1, <2>2, <2>3
  <2>. QED
    BY <1>4, <2>1, <2>4 DEF ToSet
<1>. QED
  BY <1>5, <1>6, <1>7

-----------------------------------------------------------------------------
(* The inductive invariant.                                                *)

\* The order in which the passes visit the nodes.
Walked == PostOrder[root]

Leaves == {n \in Nodes : Tree[n].kind \in {"Op", "Trans"}}

Running == pass \in {"offset", "initOp", "initTensor", "done"}

\* The nodes that initOpTensor, and those that initTensor, has still to visit.
ToCollect == IF pass = "offset" THEN Nodes ELSE IF pass = "initOp" THEN ToSet(todo) ELSE {}

ToSpread == IF pass \in {"initTensor", "done"} THEN ToSet(todo) ELSE Nodes

TypesInv ==
  /\ root \in Roots
  /\ pass \in {"offset", "initOp", "initTensor", "done", "aborted", "undefined"}
  /\ todo \in Seq(Nodes)
  /\ Suffix(todo, Walked)
  /\ pass \notin {"initOp", "initTensor"} => todo = <<>>
  /\ leaf_vec_ \in Seq(Leaves)
  /\ producer_map_ \in [DOMAIN producer_map_ -> Ops]
  /\ DOMAIN producer_map_ \subseteq Tensor
  /\ input_tensors_ \in [Nodes -> SUBSET Tensor]
  /\ output_tensors_ \in [Nodes -> SUBSET Tensor]

\* What initOpTensor has found are the leaves it has visited, in their order,
\* and their operations as the producers of what they write.
CollectedInv ==
  /\ ToSet(leaf_vec_) = Leaves \ ToCollect
  /\ \A i, j \in DOMAIN leaf_vec_ : i < j => Before(leaf_vec_[i], leaf_vec_[j], Walked)
  /\ DOMAIN producer_map_ = {Out(o) : o \in Ops \ ToCollect}
  /\ \A o \in Ops \ ToCollect : producer_map_[Out(o)] = o

\* op_num_ counts up in one pass and down in the other.
CountedInv ==
  op_num_ = IF pass \in {"offset", "initOp"} THEN Cardinality(Ops \ ToCollect)
            ELSE Cardinality(Ops \cap ToSpread)

\* A tile has the tensors that are live into it, as far as they are spread.
LiveInto(n, readers) ==
  {t \in Tensor : /\ \E o \in readers : n \in Above(o) /\ t \in Ins(o)
                  /\ ~\E o \in Ops : n \in Above(o) /\ t = Out(o)}

InputsInv == \A n \in Tiles : input_tensors_[n] = LiveInto(n, Ops \ ToSpread)

\* The root gives out nothing before the last operation is handled.
OutputsInv ==
  IF Ops # {} /\ Ops \cap ToSpread = {}
  THEN /\ output_tensors_[root] = {FinalTensor}
       /\ \A n \in Above(Last(leaf_vec_)) : FinalTensor \in output_tensors_[n]
  ELSE output_tensors_[root] = {}

PassInv ==
  TypesInv /\ (Running => CollectedInv /\ CountedInv /\ InputsInv /\ OutputsInv)

-----------------------------------------------------------------------------
(* The steps.                                                              *)

\* What the mapping under evaluation consists of.
LEMMA MappingFacts ==
  ASSUME root \in Roots
  PROVE  /\ Nodes = NodesOf[root] /\ Nodes \subseteq Node
         /\ IsFiniteSet(Nodes) /\ IsFiniteSet(Ops)
         /\ Walked \in Seq(Nodes) /\ ToSet(Walked) = Nodes /\ IsInjective(Walked)
         /\ Ops \subseteq Leaves /\ Leaves \subseteq Nodes /\ Tiles \cap Leaves = {}
         /\ root \in Tiles /\ root \in Nodes /\ root \in Node /\ Above(root) = {}
         /\ \A n \in Leaves : n # root /\ root \in Above(n) /\ Above(n) \subseteq Nodes
<1>1. Nodes = NodesOf[root] /\ Nodes = {n \in Node : Under(n, root)}
  BY NodesUnder DEF Nodes
<1>2. root \in Node /\ Tree[root].kind = "Tile" /\ Above(root) = {}
  BY NodesUnder
<1>3. root \in Nodes
  BY <1>1, <1>2 DEF Under
<1>4. IsFiniteSet(Nodes) /\ IsFiniteSet(Ops)
  <2>1. IsFiniteSet(Node) /\ Nodes \subseteq Node /\ Ops \subseteq Node
    BY <1>1, NodesAreNumbers DEF Ops
  <2>. QED
    BY <2>1, FS_Subset
<1>5. /\ Walked \in Seq(Node) /\ ToSet(Walked) = Nodes /\ IsInjective(Walked)
  BY <1>1, <1>2, PostOrderLists DEF Walked
<1>6. Walked \in Seq(Nodes)
  <2>1. \A i \in 1 .. Len(Walked) : Walked[i] \in Nodes
    BY <1>5 DEF ToSet
  <2>2. Len(Walked) \in Nat /\ Walked = [i \in 1 .. Len(Walked) |-> Walked[i]]
    BY <1>5
  <2>. QED
    BY <2>1, <2>2, SeqDef
<1>7. /\ Ops \subseteq Leaves /\ Leaves \subseteq Nodes /\ Tiles \cap Leaves = {} /\ root \in Tiles
  BY <1>2, <1>3 DEF Ops, Leaves, Tiles
<1>8. ASSUME NEW n \in Leaves PROVE n # root /\ root \in Above(n) /\ Above(n) \subseteq Nodes
  BY <1>1, <1>2, <1>8, NodesUnder DEF Leaves
<1>. QED
  BY <1>1, <1>2, <1>3, <1>4, <1>5, <1>6, <1>7, <1>8

\* No step goes to another mapping.
LEMMA SameMapping ==
  ASSUME root' = root
  PROVE  /\ Nodes' = Nodes /\ Ops' = Ops /\ Tiles' = Tiles /\ Leaves' = Leaves
         /\ Walked' = Walked
BY DEF Nodes, Ops, Tiles, Leaves, Walked

\* At first nothing is collected and nothing spread.
LEMMA PassInitially == TensorInit => PassInv
<1> SUFFICES ASSUME TensorInit PROVE PassInv
  OBVIOUS
<1>1. /\ root \in Roots /\ pass = "offset" /\ todo = <<>> /\ op_num_ = 0 /\ leaf_vec_ = <<>>
      /\ producer_map_ = <<>> /\ input_tensors_ = [n \in Nodes |-> {}]
      /\ output_tensors_ = [n \in Nodes |-> {}]
  BY DEF TensorInit, TensorsEmpty
<1>2. ToCollect = Nodes /\ ToSpread = Nodes
  BY <1>1 DEF ToCollect, ToSpread
<1>3. /\ Ops \subseteq Nodes /\ Leaves \subseteq Nodes /\ root \in Nodes /\ Tiles \subseteq Nodes
      /\ Walked \in Seq(Nodes)
  BY <1>1, MappingFacts DEF Ops, Tiles
<1>4. TypesInv
  <2>1. Suffix(todo, Walked)
    BY <1>1, <1>3, SuffixWhole
  <2>2. DOMAIN producer_map_ = {} /\ producer_map_ \in [DOMAIN producer_map_ -> Ops]
    BY <1>1
  <2>. QED
    BY <1>1, <2>1, <2>2 DEF TypesInv
<1>5. Ops \ ToCollect = {} /\ Ops \ ToSpread = {} /\ Leaves \ ToCollect = {}
  BY <1>2, <1>3
<1>6. CollectedInv
  <2>1. DOMAIN leaf_vec_ = {} /\ ToSet(leaf_vec_) = {} /\ DOMAIN producer_map_ = {}
    BY <1>1 DEF ToSet
  <2>. QED
    BY <1>5, <2>1 DEF CollectedInv
<1>7. CountedInv
  BY <1>1, <1>5, FS_EmptySet DEF CountedInv
<1>8. InputsInv
  BY <1>1, <1>3, <1>5 DEF InputsInv, LiveInto
<1>9. OutputsInv
  BY <1>1, <1>2, <1>3 DEF OutputsInv
<1>. QED
  BY <1>4, <1>6, <1>7, <1>8, <1>9 DEF PassInv

\* The offset passes leave all nodes to initOpTensor.
LEMMA OffsetsKeep == PassInv /\ OffsetPasses => PassInv'
<1> SUFFICES ASSUME PassInv, OffsetPasses PROVE PassInv'
  OBVIOUS
<1>1. /\ pass = "offset" /\ root' = root /\ leaf_vec_' = leaf_vec_ /\ op_num_' = op_num_
      /\ producer_map_' = producer_map_ /\ input_tensors_' = input_tensors_
      /\ output_tensors_' = output_tensors_
      /\ \/ pass' = "initOp" /\ todo' = Walked
         \/ pass' = "aborted" /\ todo' = <<>>
  BY DEF OffsetPasses, Walked
<1>2. TypesInv /\ CollectedInv /\ CountedInv /\ InputsInv /\ OutputsInv /\ root \in Roots
  BY <1>1 DEF PassInv, Running, TypesInv
<1>3. Walked \in Seq(Nodes) /\ ToSet(Walked) = Nodes
  BY <1>2, MappingFacts
<1>4. /\ Nodes' = Nodes /\ Ops' = Ops /\ Tiles' = Tiles /\ Leaves' = Leaves
      /\ Walked' = Walked
  BY <1>1, SameMapping
<1>5. TypesInv'
  <2>0. Suffix(Walked, Walked) /\ Suffix(<<>>, Walked) /\ <<>> \in Seq(Nodes)
    BY <1>3, SuffixWhole
  <2>1. todo' \in Seq(Nodes) /\ Suffix(todo', Walked)
    BY <1>1, <1>3, <2>0
  <2>. QED
    BY <1>1, <1>2, <1>4, <2>1 DEF TypesInv
<1>6. CASE pass' = "initOp" /\ todo' = Walked
  <2>1. ToCollect' = ToCollect /\ ToSpread' = ToSpread
    BY <1>1, <1>3, <1>4, <1>6 DEF ToCollect, ToSpread
  <2>2. CollectedInv'
    BY <1>1, <1>2, <1>4, <2>1 DEF CollectedInv
  <2>3. CountedInv'
    BY <1>1, <1>2, <1>4, <1>6, <2>1 DEF CountedInv
  <2>4. InputsInv'
    BY <1>1, <1>2, <1>4, <2>1 DEF InputsInv, LiveInto
  <2>5. OutputsInv'
    BY <1>1, <1>2, <1>4, <2>1 DEF OutputsInv, FinalTensor
  <2>. QED
    BY <1>5, <2>2, <2>3, <2>4, <2>5 DEF PassInv
<1>7. CASE pass' = "aborted"
  BY <1>5, <1>7 DEF PassInv, Running
<1>. QED
  BY <1>1, <1>6, <1>7

\* initOpTensor has come to its end: initTensor starts over with all nodes.
LEMMA StartKeeps == PassInv /\ StartTensorPass => PassInv'
<1> SUFFICES ASSUME PassInv, StartTensorPass PROVE PassInv'
  OBVIOUS
<1>1. /\ pass = "initOp" /\ todo = <<>> /\ pass' = "initTensor" /\ todo' = Walked
      /\ root' = root /\ leaf_vec_' = leaf_vec_ /\ op_num_' = op_num_
      /\ producer_map_' = producer_map_ /\ input_tensors_' = input_tensors_
      /\ output_tensors_' = output_tensors_
  BY DEF StartTensorPass, Walked
<1>2. TypesInv /\ CollectedInv /\ CountedInv /\ InputsInv /\ OutputsInv /\ root \in Roots
  BY <1>1 DEF PassInv, Running, TypesInv
<1>3. Walked \in Seq(Nodes) /\ ToSet(Walked) = Nodes /\ Ops \subseteq Nodes
  BY <1>2, MappingFacts
<1>4. /\ Nodes' = Nodes /\ Ops' = Ops /\ Tiles' = Tiles /\ Leaves' = Leaves
      /\ Walked' = Walked
  BY <1>1, SameMapping
<1>5. TypesInv'
  <2>1. todo' \in Seq(Nodes) /\ Suffix(todo', Walked)
    BY <1>1, <1>3, SuffixWhole
  <2>. QED
    BY <1>1, <1>2, <1>4, <2>1 DEF TypesInv
<1>6. ToCollect = {} /\ ToCollect' = {} /\ ToSpread = Nodes /\ ToSpread' = Nodes
  BY <1>1, <1>3, <1>4 DEF ToCollect, ToSpread, ToSet
<1>7. CollectedInv'
  BY <1>1, <1>2, <1>4, <1>6 DEF CollectedInv
<1>8. CountedInv'
  <2>1. Ops \ {} = Ops \cap Nodes
    BY <1>3
  <2>. QED
    BY <1>1, <1>2, <1>4, <1>6, <2>1 DEF CountedInv
<1>9. InputsInv'
  BY <1>1, <1>2, <1>4, <1>6 DEF InputsInv, LiveInto
<1>10. OutputsInv'
  BY <1>1, <1>2, <1>4, <1>6 DEF OutputsInv, FinalTensor
<1>. QED
  BY <1>5, <1>7, <1>8, <1>9, <1>10 DEF PassInv

\* The visitor ends.
LEMMA FinishKeeps == PassInv /\ FinishTensors => PassInv'
<1> SUFFICES ASSUME PassInv, FinishTensors PROVE PassInv'
  OBVIOUS
<1>1. /\ pass = "initTensor" /\ todo = <<>> /\ pass' = "done" /\ todo' = todo
      /\ root' = root /\ leaf_vec_' = leaf_vec_ /\ op_num_' = op_num_
      /\ producer_map_' = producer_map_ /\ input_tensors_' = input_tensors_
      /\ output_tensors_' = output_tensors_
  BY DEF FinishTensors
<1>2. TypesInv /\ CollectedInv /\ CountedInv /\ InputsInv /\ OutputsInv /\ root \in Roots
  BY <1>1 DEF PassInv, Running, TypesInv
<1>3. /\ Nodes' = Nodes /\ Ops' = Ops /\ Tiles' = Tiles /\ Leaves' = Leaves
      /\ Walked' = Walked
  BY <1>1, SameMapping
<1>4. ToCollect' = ToCollect /\ ToSpread' = ToSpread
  BY <1>1 DEF ToCollect, ToSpread
<1>5. TypesInv'
  BY <1>1, <1>2, <1>3 DEF TypesInv
<1>6. CollectedInv'
  BY <1>1, <1>2, <1>3, <1>4 DEF CollectedInv
<1>7. CountedInv'
  BY <1>1, <1>2, <1>3, <1>4 DEF CountedInv
<1>8. InputsInv'
  BY <1>1, <1>2, <1>3, <1>4 DEF InputsInv, LiveInto
<1>9. OutputsInv'
  BY <1>1, <1>2, <1>3, <1>4 DEF OutputsInv, FinalTensor
<1>. QED
  BY <1>5, <1>6, <1>7, <1>8, <1>9 DEF PassInv

\* One more element that all others come before keeps a sequence in order.
LEMMA AppendInOrder ==
  ASSUME NEW T, NEW s \in Seq(T), NEW n \in T, NEW W,
         \A i, j \in DOMAIN s : i < j => Before(s[i], s[j], W),
         \A m \in ToSet(s) : Before(m, n, W)
  PROVE  LET v == Append(s, n) IN
           /\ v \in Seq(T) /\ ToSet(v) = ToSet(s) \cup {n}
           /\ \A i, j \in DOMAIN v : i < j => Before(v[i], v[j], W)
<1> DEFINE v == Append(s, n)
<1>1. /\ v \in Seq(T) /\ Len(s) \in Nat /\ DOMAIN s = 1 .. Len(s) /\ DOMAIN v = 1 .. Len(s) + 1
      /\ v[Len(s) + 1] = n /\ \A i \in 1 .. Len(s) : v[i] = s[i]
  OBVIOUS
<1> HIDE DEF v
<1>2. ToSet(v) = ToSet(s) \cup {n}
  <2>1. ASSUME NEW i \in DOMAIN v PROVE v[i] \in ToSet(s) \cup {n}
    BY <1>1 DEF ToSet
  <2>2. n \in ToSet(v) /\ \A i \in DOMAIN s : s[i] \in ToSet(v)
    BY <1>1 DEF ToSet
  <2>. QED
    BY <2>1, <2>2 DEF ToSet
<1>3. ASSUME NEW i \in DOMAIN v, NEW j \in DOMAIN v, i < j PROVE Before(v[i], v[j], W)
  <2>1. i \in DOMAIN s /\ v[i] = s[i] /\ s[i] \in ToSet(s)
    BY <1>1, <1>3 DEF ToSet
  <2>2. CASE j = Len(s) + 1
    BY <1>1, <2>1, <2>2
  <2>3. CASE j # Len(s) + 1
    <3>1. j \in DOMAIN s /\ v[j] = s[j]
      BY <1>1, <2>3
    <3>. QED
      BY <1>3, <2>1, <3>1
  <2>. QED
    BY <2>2, <2>3
<1>. QED
  BY <1>1, <1>2, <1>3 DEF v

\* initOpTensor takes the next node off the list.
LEMMA NextNode ==
  ASSUME PassInv, todo # <<>>
  PROVE  /\ Head(todo) \in Nodes /\ Head(todo) \in ToSet(todo)
         /\ Tail(todo) \in Seq(Nodes) /\ Suffix(Tail(todo), Walked)
         /\ ToSet(Tail(todo)) = ToSet(todo) \ {Head(todo)}
         /\ \A m \in Nodes \ ToSet(todo) : Before(m, Head(todo), Walked)
<1>1. root \in Roots /\ todo \in Seq(Nodes) /\ Suffix(todo, Walked)
  BY DEF PassInv, TypesInv
<1>2. Walked \in Seq(Nodes) /\ ToSet(Walked) = Nodes /\ IsInjective(Walked)
  BY <1>1, MappingFacts
<1>. QED
  BY <1>1, <1>2, SuffixStep

\* A leaf goes to the end of leaf_vec_.
LEMMA LeafCollected ==
  ASSUME PassInv, pass = "initOp", todo # <<>>, Head(todo) \in Leaves
  PROVE  LET v == Append(leaf_vec_, Head(todo)) IN
           /\ v \in Seq(Leaves)
           /\ ToSet(v) = Leaves \ (ToSet(todo) \ {Head(todo)})
           /\ \A i, j \in DOMAIN v : i < j => Before(v[i], v[j], Walked)
<1> DEFINE n == Head(todo)
<1>1. TypesInv /\ CollectedInv /\ root \in Roots /\ ToCollect = ToSet(todo)
  BY DEF PassInv, Running, TypesInv, ToCollect
<1>2. leaf_vec_ \in Seq(Leaves) /\ ToSet(leaf_vec_) = Leaves \ ToSet(todo)
  BY <1>1 DEF TypesInv, CollectedInv
<1>3. \A i, j \in DOMAIN leaf_vec_ : i < j => Before(leaf_vec_[i], leaf_vec_[j], Walked)
  BY <1>1 DEF CollectedInv
<1>4. \A m \in ToSet(leaf_vec_) : Before(m, n, Walked)
  BY <1>1, <1>2, NextNode, MappingFacts
<1> HIDE DEF n
<1>5. LET v == Append(leaf_vec_, n) IN
        /\ v \in Seq(Leaves) /\ ToSet(v) = ToSet(leaf_vec_) \cup {n}
        /\ \A i, j \in DOMAIN v : i < j => Before(v[i], v[j], Walked)
  BY <1>2, <1>3, <1>4, AppendInOrder DEF n
<1>6. ToSet(leaf_vec_) \cup {n} = Leaves \ (ToSet(todo) \ {n})
  BY <1>2 DEF n
<1>. QED
  BY <1>5, <1>6 DEF n

\* initOpTensor at a node that is no operation.
LEMMA LeafKeeps == PassInv /\ initOpTensor /\ initLeaf(Head(todo)) => PassInv'
<1> SUFFICES ASSUME PassInv, initOpTensor, initLeaf(Head(todo)) PROVE PassInv'
  OBVIOUS
<1> DEFINE n == Head(todo)
<1>1. /\ pass = "initOp" /\ todo # <<>> /\ Tree[n].kind # "Op"
      /\ leaf_vec_' = (IF Tree[n].kind = "Trans" THEN Append(leaf_vec_, n) ELSE leaf_vec_)
      /\ todo' = Tail(todo) /\ pass' = pass /\ op_num_' = op_num_ /\ root' = root
      /\ producer_map_' = producer_map_ /\ input_tensors_' = input_tensors_
      /\ output_tensors_' = output_tensors_
  BY DEF initOpTensor, initLeaf
<1>2. TypesInv /\ CollectedInv /\ CountedInv /\ InputsInv /\ OutputsInv /\ root \in Roots
  BY <1>1 DEF PassInv, Running, TypesInv
<1>3. /\ Nodes' = Nodes /\ Ops' = Ops /\ Tiles' = Tiles /\ Leaves' = Leaves
      /\ Walked' = Walked
  BY <1>1, SameMapping
<1>4. /\ n \in Nodes /\ n \in ToSet(todo) /\ todo' \in Seq(Nodes) /\ Suffix(todo', Walked)
      /\ ToSet(todo') = ToSet(todo) \ {n}
  BY <1>1, NextNode
<1>5. /\ ToCollect = ToSet(todo) /\ ToCollect' = ToSet(todo) \ {n}
      /\ ToSpread = Nodes /\ ToSpread' = Nodes
  BY <1>1, <1>3, <1>4 DEF ToCollect, ToSpread
<1>6. n \notin Ops /\ Ops \ ToCollect' = Ops \ ToCollect
  BY <1>1, <1>5 DEF Ops
<1>7. /\ leaf_vec_' \in Seq(Leaves) /\ ToSet(leaf_vec_') = Leaves \ ToCollect'
      /\ \A i, j \in DOMAIN leaf_vec_' : i < j => Before(leaf_vec_'[i], leaf_vec_'[j], Walked)
  <2>1. CASE Tree[n].kind = "Trans"
    <3>1. n \in Leaves /\ leaf_vec_' = Append(leaf_vec_, n)
      BY <1>1, <1>4, <2>1 DEF Leaves
    <3>. QED
      BY <1>1, <1>5, <3>1, LeafCollected
  <2>2. CASE Tree[n].kind # "Trans"
    <3>1. n \notin Leaves /\ leaf_vec_' = leaf_vec_
      BY <1>1, <2>2 DEF Leaves
    <3>2. Leaves \ ToCollect' = Leaves \ ToCollect
      BY <1>5, <3>1
    <3>. QED
      BY <1>2, <3>1, <3>2 DEF TypesInv, CollectedInv
  <2>. QED
    BY <2>1, <2>2
<1> HIDE DEF n
<1>8. TypesInv'
  BY <1>1, <1>2, <1>3, <1>4, <1>7 DEF TypesInv
<1>9. CollectedInv'
  BY <1>1, <1>2, <1>3, <1>6, <1>7 DEF CollectedInv
<1>10. CountedInv'
  BY <1>1, <1>2, <1>3, <1>6 DEF CountedInv
<1>11. InputsInv'
  BY <1>1, <1>2, <1>3, <1>5 DEF InputsInv, LiveInto
<1>12. OutputsInv'
  <2>1. ~(Ops # {} /\ Ops \cap Nodes = {})
    BY DEF Ops
  <2>. QED
    BY <1>1, <1>2, <1>3, <1>5, <2>1 DEF OutputsInv
<1>. QED
  BY <1>8, <1>9, <1>10, <1>11, <1>12 DEF PassInv

\* initOpTensor at an operation.
LEMMA OpKeeps == PassInv /\ initOpTensor /\ initOp(Head(todo)) => PassInv'
<1> SUFFICES ASSUME PassInv, initOpTensor, initOp(Head(todo)) PROVE PassInv'
  OBVIOUS
<1> DEFINE n == Head(todo)
<1>1. /\ pass = "initOp" /\ todo # <<>> /\ Tree[n].kind = "Op"
      /\ leaf_vec_' = Append(leaf_vec_, n)
      /\ op_num_' = op_num_ + 1 /\ root' = root
      /\ input_tensors_' = Added(input_tensors_, {n}, Ins(n))
      /\ output_tensors_' = Added(output_tensors_, {n}, {Out(n)})
      /\ \/ /\ pass' = "aborted" /\ todo' = <<>> /\ producer_map_' = producer_map_
         \/ /\ Out(n) \notin DOMAIN producer_map_
            /\ producer_map_' = Put(producer_map_, Out(n), n)
            /\ todo' = Tail(todo) /\ pass' = pass
  BY DEF initOpTensor, initOp
<1>2. TypesInv /\ CollectedInv /\ CountedInv /\ InputsInv /\ OutputsInv /\ root \in Roots
  BY <1>1 DEF PassInv, Running, TypesInv
<1>3. /\ Nodes' = Nodes /\ Ops' = Ops /\ Tiles' = Tiles /\ Leaves' = Leaves
      /\ Walked' = Walked
  BY <1>1, SameMapping
<1>4. /\ n \in Nodes /\ n \in ToSet(todo) /\ Tail(todo) \in Seq(Nodes)
      /\ Suffix(Tail(todo), Walked) /\ ToSet(Tail(todo)) = ToSet(todo) \ {n}
  BY <1>1, NextNode
<1>5. n \in Ops /\ n \in Leaves /\ n \in Node /\ n \notin Tiles /\ n # root
  BY <1>1, <1>2, <1>4, MappingFacts DEF Ops
<1>6. Ins(n) \subseteq Tensor /\ Out(n) \in Tensor
  BY <1>1, <1>5, TensorsAssumption
<1>7. /\ leaf_vec_' \in Seq(Leaves) /\ ToSet(leaf_vec_') = Leaves \ (ToSet(todo) \ {n})
      /\ \A i, j \in DOMAIN leaf_vec_' : i < j => Before(leaf_vec_'[i], leaf_vec_'[j], Walked)
  BY <1>1, <1>5, LeafCollected
<1> HIDE DEF n
<1>8. /\ input_tensors_' \in [Nodes -> SUBSET Tensor] /\ output_tensors_' \in [Nodes -> SUBSET Tensor]
      /\ \A m \in Nodes : m # n => /\ input_tensors_'[m] = input_tensors_[m]
                                   /\ output_tensors_'[m] = output_tensors_[m]
  BY <1>1, <1>2, <1>6 DEF TypesInv, Added
<1>9. Suffix(<<>>, Walked) /\ <<>> \in Seq(Nodes)
  BY <1>2, MappingFacts, SuffixWhole
<1>10. TypesInv'
  <2>1. producer_map_' \in [DOMAIN producer_map_' -> Ops] /\ DOMAIN producer_map_' \subseteq Tensor
    <3>1. producer_map_ \in [DOMAIN producer_map_ -> Ops] /\ DOMAIN producer_map_ \subseteq Tensor
      BY <1>2 DEF TypesInv
    <3>2. Put(producer_map_, Out(n), n) \in [DOMAIN producer_map_ \cup {Out(n)} -> Ops]
      BY <1>5, <3>1 DEF Put
    <3>. QED
      BY <1>1, <1>6, <3>1, <3>2
  <2>2. todo' \in Seq(Nodes) /\ Suffix(todo', Walked) /\ (pass' = "aborted" => todo' = <<>>)
    BY <1>1, <1>4, <1>9
  <2>. QED
    BY <1>1, <1>2, <1>3, <1>7, <1>8, <2>1, <2>2 DEF TypesInv
<1>11. CASE pass' = "aborted"
  BY <1>10, <1>11 DEF PassInv, Running
<1>12. CASE /\ Out(n) \notin DOMAIN producer_map_
            /\ producer_map_' = Put(producer_map_, Out(n), n)
            /\ todo' = Tail(todo) /\ pass' = pass
  <2>1. /\ ToCollect = ToSet(todo) /\ ToCollect' = ToSet(todo) \ {n}
        /\ ToSpread = Nodes /\ ToSpread' = Nodes
    BY <1>1, <1>3, <1>4, <1>12 DEF ToCollect, ToSpread
  <2>2. Ops \ ToCollect' = (Ops \ ToCollect) \cup {n} /\ n \notin Ops \ ToCollect
    BY <1>4, <1>5, <2>1
  <2>3. /\ DOMAIN producer_map_' = DOMAIN producer_map_ \cup {Out(n)}
        /\ producer_map_'[Out(n)] = n
        /\ \A t \in DOMAIN producer_map_ : producer_map_'[t] = producer_map_[t]
    BY <1>12 DEF Put
  <2>4. CollectedInv'
    <3>1. DOMAIN producer_map_' = {Out(o) : o \in (Ops \ ToCollect) \cup {n}}
      BY <1>2, <2>3 DEF CollectedInv
    <3>2. ASSUME NEW o \in (Ops \ ToCollect) \cup {n} PROVE producer_map_'[Out(o)] = o
      <4>1. CASE o = n
        BY <2>3, <4>1
      <4>2. CASE o \in Ops \ ToCollect
        BY <1>2, <2>3, <4>2 DEF CollectedInv
      <4>. QED
        BY <4>1, <4>2
    <3>. QED
      BY <1>3, <1>7, <2>1, <2>2, <3>1, <3>2 DEF CollectedInv
  <2>5. CountedInv'
    <3>1. IsFiniteSet(Ops \ ToCollect)
      BY <1>2, MappingFacts, FS_Difference
    <3>2. Cardinality(Ops \ ToCollect') = Cardinality(Ops \ ToCollect) + 1
      BY <2>2, <3>1, FS_AddElement
    <3>. QED
      BY <1>1, <1>2, <1>3, <1>12, <3>2 DEF CountedInv
  <2>6. InputsInv'
    <3>1. \A m \in Tiles : m \in Nodes /\ m # n
      BY <1>5 DEF Tiles
    <3>. QED
      BY <1>2, <1>3, <1>8, <2>1, <3>1 DEF InputsInv, LiveInto
  <2>7. OutputsInv'
    <3>1. ~(Ops # {} /\ Ops \cap Nodes = {})
      BY DEF Ops
    <3>2. output_tensors_'[root] = output_tensors_[root]
      BY <1>2, <1>5, <1>8, MappingFacts
    <3>. QED
      BY <1>1, <1>2, <1>3, <2>1, <3>1, <3>2 DEF OutputsInv
  <2>. QED
    BY <1>10, <2>4, <2>5, <2>6, <2>7 DEF PassInv
<1>. QED
  BY <1>1, <1>11, <1>12

-----------------------------------------------------------------------------
(* initTensor.                                                             *)

\* An injective sequence has no element twice.
LEMMA AtOnePlace ==
  ASSUME NEW W, IsInjective(W), NEW a \in DOMAIN W, NEW b \in DOMAIN W, W[a] = W[b]
  PROVE  a = b
BY Zenon DEF IsInjective

\* When initTensor runs, every operation is the producer of what it writes,
\* and of nothing else.
LEMMA AllCollected ==
  ASSUME PassInv, pass = "initTensor"
  PROVE  /\ root \in Roots /\ ToCollect = {} /\ ToSpread = ToSet(todo)
         /\ ToSet(leaf_vec_) = Leaves /\ leaf_vec_ \in Seq(Leaves)
         /\ DOMAIN producer_map_ = {Out(q) : q \in Ops}
         /\ \A q \in Ops : producer_map_[Out(q)] = q
         /\ \A t \in DOMAIN producer_map_ : producer_map_[t] \in Ops /\ Out(producer_map_[t]) = t
<1>1. TypesInv /\ CollectedInv /\ ToCollect = {} /\ ToSpread = ToSet(todo)
  BY DEF PassInv, Running, ToCollect, ToSpread
<1>2. /\ root \in Roots /\ ToSet(leaf_vec_) = Leaves /\ leaf_vec_ \in Seq(Leaves)
      /\ DOMAIN producer_map_ = {Out(q) : q \in Ops}
      /\ \A q \in Ops : producer_map_[Out(q)] = q
  BY <1>1 DEF TypesInv, CollectedInv
<1>. QED
  BY <1>1, <1>2

\* The inputs that initTensor spreads make a tile hold what is live into it,
\* the operation included.
LEMMA InputsSpread ==
  ASSUME PassInv, pass = "initTensor", todo # <<>>, Head(todo) \in Ops, NEW m \in Tiles
  PROVE  InputsAfter(Head(todo))[m] = LiveInto(m, (Ops \ ToSet(todo)) \cup {Head(todo)})
<1> DEFINE o == Head(todo)
           Inside(t) == \E q \in Ops : m \in Above(q) /\ t = Out(q)
<1>1. /\ root \in Roots /\ ToSpread = ToSet(todo)
      /\ DOMAIN producer_map_ = {Out(q) : q \in Ops}
      /\ \A q \in Ops : producer_map_[Out(q)] = q
      /\ \A t \in DOMAIN producer_map_ : producer_map_[t] \in Ops /\ Out(producer_map_[t]) = t
  BY AllCollected
<1>2. input_tensors_[m] = LiveInto(m, Ops \ ToSet(todo))
  BY <1>1 DEF PassInv, Running, InputsInv
<1>3. m \in Nodes /\ m \in Node /\ Tree[m].kind = "Tile" /\ o \in Ops
  BY <1>1, MappingFacts DEF Tiles
<1>4. \A q \in Ops : q \in NodesOf[root] /\ q # root
  BY <1>1, MappingFacts
<1>5. Ins(o) \subseteq Tensor
  BY <1>1, MappingFacts, TensorsAssumption DEF Ops
<1> DEFINE Path == {t \in Produced(o) : m \in ToSet(consumer_path_(producer_map_[t], o))}
           Free == IF m \in ToSet(Ancestors[o]) THEN Ins(o) \ Produced(o) ELSE {}
<1>6. InputsAfter(o)[m] = input_tensors_[m] \cup Path \cup Free
  BY <1>3, Zenon DEF InputsAfter
<1>7. ASSUME NEW t
      PROVE  t \in Path \cup Free <=> m \in Above(o) /\ t \in Ins(o) /\ ~Inside(t)
  <2>1. CASE t \in Produced(o)
    <3> DEFINE p == producer_map_[t]
    <3>1. p \in Ops /\ Out(p) = t /\ t \in Ins(o)
      BY <1>1, <2>1 DEF Produced
    <3>2. m \in ToSet(consumer_path_(p, o)) <=> m \in Above(o) /\ m \notin Above(p)
      BY <1>1, <1>3, <1>4, <3>1, ConsumerPath
    <3>3. \A q \in Ops : t = Out(q) => q = p
      BY <1>1
    <3>4. Inside(t) <=> m \in Above(p)
      BY <3>1, <3>3
    <3>5. t \in Path \cup Free <=> m \in ToSet(consumer_path_(p, o))
      BY <2>1
    <3>. QED
      BY <3>1, <3>2, <3>4, <3>5
  <2>2. CASE t \in Ins(o) /\ t \notin Produced(o)
    <3>1. ~Inside(t)
      BY <1>1, <2>2 DEF Produced
    <3>2. t \in Path \cup Free <=> m \in Above(o)
      BY <2>2 DEF Above
    <3> HIDE DEF Inside, Path, Free, o
    <3>. QED
      BY <2>2, <3>1, <3>2
  <2>3. CASE t \notin Ins(o)
    BY <2>3 DEF Produced
  <2>. QED
    BY <2>1, <2>2, <2>3
<1>8. ASSUME NEW t
      PROVE  t \in LiveInto(m, (Ops \ ToSet(todo)) \cup {o}) <=>
               \/ t \in LiveInto(m, Ops \ ToSet(todo))
               \/ m \in Above(o) /\ t \in Ins(o) /\ ~Inside(t)
  <2> HIDE DEF o
  <2>. QED
    BY <1>5 DEF LiveInto
<1> HIDE DEF o, Path, Free, Inside
<1>9. InputsAfter(o)[m] = LiveInto(m, (Ops \ ToSet(todo)) \cup {o})
  BY <1>2, <1>6, <1>7, <1>8
<1>. QED
  BY <1>9 DEF o

\* std::find finds every leaf.
LEMMA LeafFound ==
  ASSUME NEW n \in ToSet(leaf_vec_)
  PROVE  LeafIndex(n) \in DOMAIN leaf_vec_ /\ leaf_vec_[LeafIndex(n)] = n
<1>1. \E i \in DOMAIN leaf_vec_ : leaf_vec_[i] = n
  BY DEF ToSet
<1>. QED
  BY <1>1, Zenon DEF LeafIndex

\* A tensor never gets on the way from its producer to its consumer to the root.
LEMMA ProducerPathInner ==
  ASSUME PassInv, pass = "initTensor", NEW o \in Ops, NEW p \in Ops
  PROVE  root \notin ToSet(producer_path_(p, o))
<1>1. root \in Roots /\ ToSet(leaf_vec_) = Leaves /\ leaf_vec_ \in Seq(Leaves)
  BY AllCollected
<1>2. /\ root \notin Leaves /\ Above(root) = {} /\ o \in Leaves /\ p \in Leaves
      /\ p \in NodesOf[root] /\ o \in NodesOf[root] /\ p # root /\ o # root /\ p \in Node
  BY <1>1, MappingFacts
<1>3. CASE Distance(p, o) = 1
  <2> DEFINE A == Ancestors[p]
             c == CommonIndex(p, o)
             s == SubSeq(A, 1, c - 2)
  <2>1. A \in Seq(Node) /\ c \in DOMAIN A
    BY <1>1, <1>2, AncestorsType, CommonAncestor
  <2>2. producer_path_(p, o) = s
    BY <1>3 DEF producer_path_
  <2>3. ASSUME NEW j \in DOMAIN A, j < c PROVE A[j] # root
    BY <1>2, <2>1, <2>3, AncestorsChain
  <2> HIDE DEF A, c
  <2>4. c \in 1 .. Len(A) /\ Len(A) \in Nat /\ DOMAIN A = 1 .. Len(A)
    BY <2>1
  <2>5. DOMAIN s = 1 .. c - 2 /\ \A j \in 1 .. c - 2 : s[j] = A[j]
    BY <2>1, <2>4
  <2>6. \A j \in DOMAIN s : s[j] # root
    BY <2>3, <2>4, <2>5
  <2> HIDE DEF s
  <2>. QED
    BY <2>2, <2>6 DEF ToSet
<1>4. CASE Distance(p, o) # 1
  <2> DEFINE i == LeafIndex(p)
             k == LeafIndex(o)
             s == SubSeq(leaf_vec_, i + 1, k - 1)
  <2>1. i \in DOMAIN leaf_vec_ /\ k \in DOMAIN leaf_vec_
    BY <1>1, <1>2, LeafFound
  <2>2. producer_path_(p, o) = s
    BY <1>4 DEF producer_path_
  <2> HIDE DEF i, k
  <2>3. \A j \in DOMAIN s : s[j] \in Leaves
    BY <1>1, <2>1
  <2> HIDE DEF s
  <2>. QED
    BY <1>2, <2>2, <2>3 DEF ToSet
<1>. QED
  BY <1>3, <1>4

\* With op_num_ at 1 the operation is the last one of leaf_vec_.
LEMMA LastIsFinal ==
  ASSUME PassInv, pass = "initTensor", todo # <<>>, Head(todo) \in Ops
  PROVE  /\ isLastOp <=> Ops \cap (ToSet(todo) \ {Head(todo)}) = {}
         /\ isLastOp => Out(Head(todo)) = FinalTensor
         /\ op_num_ - 1 = Cardinality(Ops \cap (ToSet(todo) \ {Head(todo)}))
<1> DEFINE o == Head(todo)
           S == Ops \cap ToSet(todo)
           R == Ops \cap (ToSet(todo) \ {o})
<1>1. /\ root \in Roots /\ ToSet(leaf_vec_) = Leaves /\ leaf_vec_ \in Seq(Leaves)
      /\ ToSpread = ToSet(todo)
  BY AllCollected
<1>2. op_num_ = Cardinality(S)
  BY <1>1 DEF PassInv, Running, CountedInv
<1>3. o \in Ops /\ o \in S /\ R = S \ {o} /\ IsFiniteSet(S)
  BY <1>1, NextNode, MappingFacts, FS_Subset
<1> HIDE DEF o, S, R
<1>4. /\ Cardinality(S) \in Nat /\ Cardinality(R) = Cardinality(S) - 1
      /\ Cardinality(R) = 0 <=> R = {}
  BY <1>3, FS_RemoveElement, FS_EmptySet, FS_CardinalityType
<1>5. isLastOp <=> R = {}
  BY <1>2, <1>4 DEF isLastOp
<1>6. ASSUME isLastOp PROVE Out(o) = FinalTensor
  <2> DEFINE M == {i \in DOMAIN leaf_vec_ : Tree[leaf_vec_[i]].kind = "Op"}
             k == LeafIndex(o)
  <2>1. k \in DOMAIN leaf_vec_ /\ leaf_vec_[k] = o /\ k \in M
    BY <1>1, <1>3, MappingFacts, LeafFound DEF Ops
  <2>2. M \in SUBSET Nat
    BY <1>1
  <2>3. ASSUME NEW i \in M, i > k PROVE FALSE
    <3> DEFINE q == leaf_vec_[i]
               W == Walked
    <3>0. i \in DOMAIN leaf_vec_ /\ q \in Leaves /\ Tree[q].kind = "Op" /\ k < i
      BY <1>1, <2>1, <2>2, <2>3
    <3>1. q \in Ops /\ q \in Nodes
      BY <3>0 DEF Ops, Leaves
    <3>2. Before(o, q, W)
      BY <2>1, <3>0 DEF PassInv, Running, CollectedInv
    <3>3. W \in Seq(Nodes) /\ IsInjective(W)
      BY <1>1, MappingFacts
    <3> HIDE DEF W, q
    <3>4. PICK a \in DOMAIN W, b \in DOMAIN W : a < b /\ W[a] = o /\ W[b] = q
      BY <3>2 DEF Before
    <3>5. q # o
      BY <3>3, <3>4, AtOnePlace
    <3>6. q \notin ToSet(todo)
      BY <1>5, <1>6, <3>1, <3>5 DEF R
    <3>7. Before(q, o, W)
      BY <3>1, <3>6, NextNode DEF W, o
    <3>8. PICK c \in DOMAIN W, d \in DOMAIN W : c < d /\ W[c] = q /\ W[d] = o
      BY <3>7 DEF Before
    <3>9. a = d /\ b = c
      BY <3>3, <3>4, <3>8, AtOnePlace
    <3>10. a \in Nat /\ b \in Nat
      BY <3>3
    <3>. QED
      BY <3>4, <3>8, <3>9, <3>10
  <2> HIDE DEF k
  <2>4. k \in Nat /\ \A i \in M : i \in Nat /\ k >= i
    <3> HIDE DEF M
    <3>. QED
      BY <2>1, <2>2, <2>3
  <2>5. Max(M) = k
    <3> HIDE DEF M
    <3>. QED
      BY <2>1, <2>4 DEF Max
  <2>6. FinalTensor = Out(leaf_vec_[Max(M)])
    BY DEF FinalTensor
  <2>. QED
    BY <2>1, <2>5, <2>6
<1>. QED
  BY <1>2, <1>4, <1>5, <1>6 DEF o, R

\* initTensor at a node that is no operation.
LEMMA PassedOver ==
  PassInv /\ initTensor /\ Tree[Head(todo)].kind # "Op" => PassInv'
<1> SUFFICES ASSUME PassInv, initTensor, Tree[Head(todo)].kind # "Op" PROVE PassInv'
  OBVIOUS
<1>1. /\ pass = "initTensor" /\ todo # <<>> /\ todo' = Tail(todo) /\ pass' = pass
      /\ op_num_' = op_num_ /\ input_tensors_' = input_tensors_
      /\ output_tensors_' = output_tensors_ /\ root' = root
      /\ leaf_vec_' = leaf_vec_ /\ producer_map_' = producer_map_
  BY DEF initTensor
<1>2. TypesInv /\ CollectedInv /\ CountedInv /\ InputsInv /\ OutputsInv
  BY <1>1 DEF PassInv, Running
<1>3. /\ Nodes' = Nodes /\ Ops' = Ops /\ Tiles' = Tiles /\ Leaves' = Leaves
      /\ Walked' = Walked
  BY <1>1, SameMapping
<1>4. /\ todo' \in Seq(Nodes) /\ Suffix(todo', Walked)
      /\ ToSet(todo') = ToSet(todo) \ {Head(todo)}
  BY <1>1, NextNode
<1>5. ToCollect = {} /\ ToCollect' = {} /\ ToSpread = ToSet(todo) /\ ToSpread' = ToSet(todo')
  BY <1>1 DEF ToCollect, ToSpread
<1>6. Head(todo) \notin Ops
  BY DEF Ops
<1>7. Ops \cap ToSpread' = Ops \cap ToSpread /\ Ops \ ToSpread' = Ops \ ToSpread
  BY <1>4, <1>5, <1>6
<1>8. TypesInv'
  BY <1>1, <1>2, <1>3, <1>4 DEF TypesInv
<1>9. CollectedInv'
  BY <1>1, <1>2, <1>3, <1>5 DEF CollectedInv
<1>10. CountedInv'
  BY <1>1, <1>2, <1>3, <1>7 DEF CountedInv
<1>11. InputsInv'
  BY <1>1, <1>2, <1>3, <1>7 DEF InputsInv, LiveInto
<1>12. OutputsInv'
  BY <1>1, <1>2, <1>3, <1>7 DEF OutputsInv, FinalTensor
<1>. QED
  BY <1>8, <1>9, <1>10, <1>11, <1>12 DEF PassInv

\* initTensor at an operation.
LEMMA Spread ==
  PassInv /\ initTensor /\ Tree[Head(todo)].kind = "Op" => PassInv'
<1> SUFFICES ASSUME PassInv, initTensor, Tree[Head(todo)].kind = "Op" PROVE PassInv'
  OBVIOUS
<1> DEFINE o == Head(todo)
<1>1. /\ pass = "initTensor" /\ todo # <<>> /\ op_num_' = op_num_ - 1
      /\ root' = root /\ leaf_vec_' = leaf_vec_ /\ producer_map_' = producer_map_
      /\ \/ /\ pass' = "undefined" /\ todo' = <<>>
            /\ input_tensors_' = input_tensors_ /\ output_tensors_' = output_tensors_
         \/ /\ pass' = pass /\ todo' = Tail(todo)
            /\ input_tensors_' = InputsAfter(o) /\ output_tensors_' = OutputsAfter(o)
  BY DEF initTensor
<1>2. TypesInv /\ CollectedInv /\ CountedInv /\ InputsInv /\ OutputsInv /\ root \in Roots
  BY <1>1 DEF PassInv, Running, TypesInv
<1>3. /\ Nodes' = Nodes /\ Ops' = Ops /\ Tiles' = Tiles /\ Leaves' = Leaves
      /\ Walked' = Walked
  BY <1>1, SameMapping
<1>4. /\ o \in Nodes /\ o \in ToSet(todo) /\ Tail(todo) \in Seq(Nodes)
      /\ Suffix(Tail(todo), Walked) /\ ToSet(Tail(todo)) = ToSet(todo) \ {o}
  BY <1>1, NextNode
<1>5. o \in Ops /\ o \in Leaves /\ o \in Node
  BY <1>2, <1>4, MappingFacts DEF Ops
<1>6. Ins(o) \subseteq Tensor /\ Out(o) \in Tensor
  BY <1>5, TensorsAssumption
<1>7. CASE /\ pass' = "undefined" /\ todo' = <<>>
           /\ input_tensors_' = input_tensors_ /\ output_tensors_' = output_tensors_
  <2>1. Suffix(<<>>, Walked) /\ <<>> \in Seq(Nodes)
    BY <1>2, MappingFacts, SuffixWhole
  <2>2. TypesInv'
    BY <1>1, <1>2, <1>3, <1>7, <2>1 DEF TypesInv
  <2>. QED
    BY <1>7, <2>2 DEF PassInv, Running
<1>8. CASE /\ pass' = pass /\ todo' = Tail(todo)
           /\ input_tensors_' = InputsAfter(o) /\ output_tensors_' = OutputsAfter(o)
  <2>1. /\ ToCollect = {} /\ ToCollect' = {} /\ ToSpread = ToSet(todo)
        /\ ToSpread' = ToSet(todo) \ {o}
    BY <1>1, <1>4, <1>8 DEF ToCollect, ToSpread
  <2>2. Produced(o) \subseteq Tensor
    BY <1>6 DEF Produced
  <2>3. input_tensors_' \in [Nodes -> SUBSET Tensor]
    <3>1. ASSUME NEW n \in Nodes PROVE InputsAfter(o)[n] \subseteq Tensor
      <4>1. input_tensors_[n] \subseteq Tensor
        BY <1>2 DEF TypesInv
      <4> HIDE DEF o
      <4>. QED
        BY <1>6, <2>2, <4>1 DEF InputsAfter
    <3>2. InputsAfter(o) = [n \in Nodes |-> InputsAfter(o)[n]]
      BY DEF InputsAfter
    <3> HIDE DEF o
    <3>. QED
      BY <1>8, <3>1, <3>2
  <2>4. ASSUME NEW n \in Nodes
        PROVE  OutputsAfter(o)[n] = output_tensors_[n]
                 \cup {t \in Produced(o) : n \in ToSet(producer_path_(producer_map_[t], o))}
                 \cup (IF isLastOp /\ n \in ToSet(SubSeq(leaf_vec_, LeafIndex(o), Len(leaf_vec_)))
                                            \cup ToSet(Ancestors[Last(leaf_vec_)])
                       THEN {Out(o)} ELSE {})
    BY Zenon DEF OutputsAfter
  <2>5. output_tensors_' \in [Nodes -> SUBSET Tensor]
    <3>1. ASSUME NEW n \in Nodes PROVE OutputsAfter(o)[n] \subseteq Tensor
      <4>1. output_tensors_[n] \subseteq Tensor
        BY <1>2 DEF TypesInv
      <4> HIDE DEF o
      <4>. QED
        BY <1>6, <2>2, <2>4, <4>1
    <3>2. OutputsAfter(o) = [n \in Nodes |-> OutputsAfter(o)[n]]
      BY DEF OutputsAfter
    <3> HIDE DEF o
    <3>. QED
      BY <1>8, <3>1, <3>2
  <2>6. TypesInv'
    BY <1>1, <1>2, <1>3, <1>4, <1>8, <2>3, <2>5 DEF TypesInv
  <2>7. CollectedInv'
    BY <1>1, <1>2, <1>3, <2>1 DEF CollectedInv
  <2>8. CountedInv'
    BY <1>1, <1>3, <1>5, <1>8, <2>1, LastIsFinal DEF CountedInv
  <2>9. InputsInv'
    <3>1. Ops \ ToSpread' = (Ops \ ToSet(todo)) \cup {o}
      BY <1>5, <2>1
    <3>2. \A m \in Tiles : input_tensors_'[m] = LiveInto(m, Ops \ ToSpread')
      BY <1>1, <1>5, <1>8, <3>1, InputsSpread
    <3>. QED
      BY <1>3, <3>2 DEF InputsInv, LiveInto
  <2>10. OutputsInv'
    <3>1. output_tensors_[root] = {} /\ Ops # {} /\ o \in Ops \cap ToSpread
      BY <1>2, <1>4, <1>5, <2>1 DEF OutputsInv
    <3>2. root \in Nodes /\ \A n \in Leaves : root \in Above(n) /\ Above(n) \subseteq Nodes
      BY <1>2, MappingFacts
    <3>3. {t \in Produced(o) : root \in ToSet(producer_path_(producer_map_[t], o))} = {}
      <4>1. \A t \in Produced(o) : producer_map_[t] \in Ops
        BY <1>1, AllCollected DEF Produced
      <4>. QED
        BY <1>1, <1>5, <4>1, ProducerPathInner
    <3>4. Last(leaf_vec_) \in Leaves
      <4>1. leaf_vec_ \in Seq(Leaves) /\ ToSet(leaf_vec_) = Leaves
        BY <1>1, AllCollected
      <4>2. leaf_vec_ # <<>>
        BY <1>5, <4>1 DEF ToSet
      <4>. QED
        BY <4>1, <4>2 DEF Last
    <3>5. FinalTensor' = FinalTensor
      BY <1>1 DEF FinalTensor
    <3>6. /\ isLastOp <=> Ops \cap ToSpread' = {}
          /\ isLastOp => Out(o) = FinalTensor
      BY <1>1, <1>5, <2>1, LastIsFinal
    <3> HIDE DEF o
    <3>7. CASE isLastOp
      <4>1. output_tensors_'[root] = {FinalTensor}
        BY <1>8, <2>4, <3>1, <3>2, <3>3, <3>4, <3>6, <3>7 DEF Above
      <4>2. \A n \in Above(Last(leaf_vec_)) : FinalTensor \in output_tensors_'[n]
        BY <1>8, <2>4, <3>2, <3>4, <3>6, <3>7 DEF Above
      <4>. QED
        BY <1>1, <1>3, <3>1, <3>5, <3>6, <3>7, <4>1, <4>2 DEF OutputsInv
    <3>8. CASE ~isLastOp
      <4>1. output_tensors_'[root] = {}
        BY <1>8, <2>4, <3>1, <3>2, <3>3, <3>8
      <4>. QED
        BY <1>1, <1>3, <3>6, <3>8, <4>1 DEF OutputsInv
    <3>. QED
      BY <3>7, <3>8
  <2>. QED
    BY <2>6, <2>7, <2>8, <2>9, <2>10 DEF PassInv
<1>. QED
  BY <1>1, <1>7, <1>8

-----------------------------------------------------------------------------
(* The theorems.                                                           *)

\* Every step of the visitor keeps the invariant.
LEMMA PassStep ==
  PassInv /\ [TensorNext \/ TensorStopped]_<<root, tensorVars>> => PassInv'
<1> SUFFICES ASSUME PassInv, [TensorNext \/ TensorStopped]_<<root, tensorVars>>
             PROVE  PassInv'
  OBVIOUS
<1>1. CASE OffsetPasses
  BY <1>1, OffsetsKeep
<1>2. CASE initOpTensor
  BY <1>2, LeafKeeps, OpKeeps DEF initOpTensor
<1>3. CASE StartTensorPass
  BY <1>3, StartKeeps
<1>4. CASE initTensor
  BY <1>4, PassedOver, Spread
<1>5. CASE FinishTensors
  BY <1>5, FinishKeeps
<1>6. CASE UNCHANGED <<root, tensorVars>>
  <2>1. /\ root' = root /\ pass' = pass /\ todo' = todo /\ leaf_vec_' = leaf_vec_
        /\ op_num_' = op_num_ /\ producer_map_' = producer_map_
        /\ input_tensors_' = input_tensors_ /\ output_tensors_' = output_tensors_
    BY <1>6 DEF tensorVars
  <2>2. /\ Nodes' = Nodes /\ Ops' = Ops /\ Tiles' = Tiles /\ Leaves' = Leaves
        /\ Walked' = Walked
    BY <2>1, SameMapping
  <2>3. ToCollect' = ToCollect /\ ToSpread' = ToSpread /\ FinalTensor' = FinalTensor
    BY <2>1, <2>2 DEF ToCollect, ToSpread, FinalTensor
  <2>4. TypesInv' = TypesInv
    BY <2>1, <2>2 DEF TypesInv
  <2>5. CollectedInv' = CollectedInv /\ CountedInv' = CountedInv
    BY <2>1, <2>2, <2>3 DEF CollectedInv, CountedInv
  <2>6. InputsInv' = InputsInv
    BY <2>1, <2>2, <2>3 DEF InputsInv, LiveInto
  <2>7. OutputsInv' = OutputsInv
    BY <2>1, <2>2, <2>3 DEF OutputsInv
  <2>. QED
    BY <2>1, <2>4, <2>5, <2>6, <2>7 DEF PassInv, Running
<1>. QED
  BY <1>1, <1>2, <1>3, <1>4, <1>5, <1>6 DEF TensorNext, TensorStopped

\* What initOpTensor has collected and initTensor has spread is, after every
\* step of the visitor, exactly what the nodes visited so far account for.
THEOREM PassInvariance == TensorSpec => []PassInv
<1>1. TensorInit => PassInv
  BY PassInitially
<1>2. PassInv /\ [TensorNext \/ TensorStopped]_<<root, tensorVars>> => PassInv'
  BY PassStep
<1>. QED
  BY <1>1, <1>2, PTL DEF TensorSpec

\* The invariant of the passes gives the types of what they write, once the
\* leaves they have collected are known to have no children.
LEMMA PassInvTypesAt ==
  ASSUME PassInv, \A n \in ToSet(leaf_vec_) : Kids(n) = <<>>
  PROVE  TensorTypeOK
<1>1. TypesInv /\ root \in Roots
  BY DEF PassInv, TypesInv
<1>2. ToSet(todo) \subseteq Nodes
  BY <1>1 DEF TypesInv, ToSet
<1>3. ToSet(leaf_vec_) \subseteq Leaves
  BY <1>1 DEF TypesInv, ToSet
<1>4. ToSet(leaf_vec_) \subseteq {n \in Nodes : Kids(n) = <<>>}
  BY <1>3 DEF Leaves
<1>5. pass = "initTensor" => op_num_ = Cardinality(Ops \cap ToSet(todo))
  BY DEF PassInv, Running, CountedInv, ToSpread
<1>. QED
  BY <1>1, <1>2, <1>4, <1>5 DEF TypesInv, TensorTypeOK

\* Op and Trans nodes have no children: what GetLoopCount's check of the
\* children has established before InitAnalysis runs.
LeavesBare == \A n \in Node : Tree[n].kind \in {"Op", "Trans"} => Kids(n) = <<>>

\* The invariant of the passes gives the types of what they write, in a forest
\* whose Op and Trans nodes have no children.
LEMMA PassInvTypes ==
  ASSUME LeavesBare, PassInv
  PROVE  TensorTypeOK
<1>1. TypesInv /\ root \in Roots
  BY DEF PassInv, TypesInv
<1>2. ToSet(leaf_vec_) \subseteq Leaves
  BY <1>1 DEF TypesInv, ToSet
<1>3. \A n \in Leaves : Kids(n) = <<>>
  BY <1>1, MappingFacts DEF Leaves, LeavesBare
<1>. QED
  BY <1>2, <1>3, PassInvTypesAt

\* The visitor's state is well typed, its leaves are leaves of the tree, and
\* while initTensor runs op_num_ is the number of operations that it has still
\* to handle: the output of the last operation is spread by that one alone.
THEOREM TensorTypeCorrect == LeavesBare => (TensorSpec => []TensorTypeOK)
<1> SUFFICES ASSUME LeavesBare PROVE TensorSpec => []TensorTypeOK
  OBVIOUS
<1>1. PassInv => TensorTypeOK
  BY PassInvTypes
<1>. QED
  BY <1>1, PassInvariance, PTL

\* The invariant of the passes says which tensors a node takes in.
LEMMA PassInvLiveIn ==
  ASSUME PassInv
  PROVE  InputsAreLiveIn
<1>1. SUFFICES ASSUME pass = "done", NEW n \in Tiles
               PROVE  input_tensors_[n] =
                        {t \in Tensor : /\ \E o \in Ops \cap Subtree(n) : t \in Ins(o)
                                        /\ ~\E o \in Ops \cap Subtree(n) : t = Out(o)}
  BY DEF InputsAreLiveIn
<1>2. root \in Roots /\ todo = <<>> /\ InputsInv
  BY <1>1 DEF PassInv, TypesInv, Running
<1>3. Ops \ ToSpread = Ops
  BY <1>1, <1>2 DEF ToSpread, ToSet
<1>4. input_tensors_[n] = LiveInto(n, Ops)
  BY <1>2, <1>3 DEF InputsInv
<1>5. n \in Node /\ n \notin Ops /\ Ops \subseteq Node
  BY <1>2, MappingFacts DEF Tiles
<1>6. Subtree(n) = {m \in Node : Under(m, n)}
  BY <1>5, PreOrderLists DEF Subtree
<1>7. \A o \in Ops : o \in Subtree(n) <=> n \in Above(o)
  BY <1>5, <1>6 DEF Under
<1>. QED
  BY <1>4, <1>7 DEF LiveInto

\* When the visitor is done, every tile takes in exactly the tensors that are
\* live into it, whatever the mapping: initTensor stops at the nearest common
\* ancestor of producer and consumer that is no Scope, neither below nor above.
THEOREM TilesTakeLiveIn == TensorSpec => []InputsAreLiveIn
<1>1. PassInv => InputsAreLiveIn
  BY PassInvLiveIn
<1>. QED
  BY <1>1, PassInvariance, PTL

\* The invariant of the passes says which tensor leaves the root.
LEMMA PassInvResult ==
  ASSUME PassInv
  PROVE  ResultLeavesRoot
<1>1. SUFFICES ASSUME pass = "done", Ops # {}
               PROVE  /\ output_tensors_[root] = {FinalTensor}
                      /\ \A n \in ToSet(Ancestors[Last(leaf_vec_)]) :
                           FinalTensor \in output_tensors_[n]
  BY DEF ResultLeavesRoot
<1>2. todo = <<>> /\ OutputsInv
  BY <1>1 DEF PassInv, TypesInv, Running
<1>3. Ops \cap ToSpread = {}
  BY <1>1, <1>2 DEF ToSpread, ToSet
<1>. QED
  BY <1>1, <1>2, <1>3 DEF OutputsInv, Above

\* When the visitor is done, the final result is given out by every node above
\* the last leaf, and it alone leaves the root: no intermediate tensor does,
\* however many leaves lie between its producer and its consumer.
THEOREM OnlyResultLeaves == TensorSpec => []ResultLeavesRoot
<1>1. PassInv => ResultLeavesRoot
  BY PassInvResult
<1>. QED
  BY <1>1, PassInvariance, PTL

-----------------------------------------------------------------------------
(* What a Trans node carries.                                              *)

TransNodes == {n \in Nodes : Tree[n].kind = "Trans"}

\* The tensors that pass over x on the way to one of the readers; the final
\* result, once all operations are handled and none lies behind x.
Passing(x, readers) ==
  {t \in Tensor :
     \E p \in Ops : \E o \in readers :
       t = Out(p) /\ t \in Ins(o) /\ Before(p, x, Walked) /\ Before(x, o, Walked)}
  \cup (IF Ops # {} /\ readers = Ops /\ \A o \in Ops : ~Before(x, o, Walked)
        THEN {FinalTensor} ELSE {})

TransInv ==
  Running => \A x \in TransNodes : output_tensors_[x] = Passing(x, Ops \ ToSpread)

\* Once the leaves are collected, the order of the visits is the order of
\* leaf_vec_, and std::find finds a leaf where it is.
LEMMA LeafOrder ==
  ASSUME PassInv, pass \in {"initTensor", "done"},
         NEW i \in DOMAIN leaf_vec_, NEW j \in DOMAIN leaf_vec_
  PROVE  /\ Before(leaf_vec_[i], leaf_vec_[j], Walked) <=> i < j
         /\ LeafIndex(leaf_vec_[i]) = i
         /\ leaf_vec_ \in Seq(Leaves) /\ ToSet(leaf_vec_) = Leaves
<1> DEFINE W == Walked
<1>1. /\ root \in Roots /\ leaf_vec_ \in Seq(Leaves) /\ ToSet(leaf_vec_) = Leaves
      /\ \A a, b \in DOMAIN leaf_vec_ : a < b => Before(leaf_vec_[a], leaf_vec_[b], W)
  BY DEF PassInv, TypesInv, Running, CollectedInv, ToCollect
<1>2. W \in Seq(Nodes) /\ IsInjective(W) /\ DOMAIN leaf_vec_ \subseteq Nat
  BY <1>1, MappingFacts
<1> HIDE DEF W
<1>3. ASSUME NEW x, NEW y, Before(x, y, W), Before(y, x, W) PROVE FALSE
  <2>1. PICK a \in DOMAIN W, b \in DOMAIN W : a < b /\ W[a] = x /\ W[b] = y
    BY <1>3 DEF Before
  <2>2. PICK c \in DOMAIN W, d \in DOMAIN W : c < d /\ W[c] = y /\ W[d] = x
    BY <1>3 DEF Before
  <2>3. a = d /\ b = c
    BY <1>2, <2>1, <2>2, AtOnePlace
  <2>4. a \in Nat /\ b \in Nat
    BY <1>2
  <2>. QED
    BY <2>1, <2>2, <2>3, <2>4
<1>4. \A a, b \in DOMAIN leaf_vec_ : Before(leaf_vec_[a], leaf_vec_[b], W) => a < b
  <2> SUFFICES ASSUME NEW a \in DOMAIN leaf_vec_, NEW b \in DOMAIN leaf_vec_,
                      Before(leaf_vec_[a], leaf_vec_[b], W), ~(a < b)
               PROVE  FALSE
    OBVIOUS
  <2>1. a = b \/ b < a
    BY <1>2
  <2>. QED
    BY <1>1, <1>3, <2>1
<1>5. LeafIndex(leaf_vec_[i]) = i
  <2> DEFINE k == LeafIndex(leaf_vec_[i])
  <2>1. k \in DOMAIN leaf_vec_ /\ leaf_vec_[k] = leaf_vec_[i]
    <3>1. leaf_vec_[i] \in ToSet(leaf_vec_)
      BY DEF ToSet
    <3>. QED
      BY <3>1, LeafFound
  <2> HIDE DEF k
  <2>2. ASSUME k < i PROVE FALSE
    <3>1. Before(leaf_vec_[i], leaf_vec_[i], W)
      BY <1>1, <2>1, <2>2
    <3>. QED
      BY <1>3, <3>1
  <2>3. ASSUME i < k PROVE FALSE
    <3>1. Before(leaf_vec_[i], leaf_vec_[i], W)
      BY <1>1, <2>1, <2>3
    <3>. QED
      BY <1>3, <3>1
  <2>4. k = i
    BY <1>2, <2>1, <2>2, <2>3
  <2>. QED
    BY <2>4 DEF k
<1>. QED
  BY <1>1, <1>4, <1>5 DEF W

\* A Trans node without children lies above no node.
LEMMA TransAboveNone ==
  ASSUME LeavesBare, NEW x \in Node, Tree[x].kind = "Trans", NEW n \in Node
  PROVE  x \notin Above(n)
<1> SUFFICES ASSUME x \in Above(n) PROVE FALSE
  OBVIOUS
<1>1. Kids(x) = <<>>
  BY DEF LeavesBare
<1>. QED
  BY <1>1, ChildOnTheWay

\* The producer's path takes in a Trans node exactly when it lies in between.
LEMMA PathOverTrans ==
  ASSUME LeavesBare, PassInv, pass = "initTensor",
         NEW p \in Ops, NEW o \in Ops, NEW x \in TransNodes
  PROVE  x \in ToSet(producer_path_(p, o)) <=>
           Before(p, x, Walked) /\ Before(x, o, Walked)
<1>1. root \in Roots /\ ToSet(leaf_vec_) = Leaves /\ leaf_vec_ \in Seq(Leaves)
  BY AllCollected
<1>2. /\ x \in Leaves /\ x \in Node /\ Tree[x].kind = "Trans"
      /\ p \in Leaves /\ o \in Leaves /\ p \in Node /\ o \in Node
      /\ p \in NodesOf[root] /\ o \in NodesOf[root] /\ p # root /\ o # root
  BY <1>1, MappingFacts DEF TransNodes, Leaves
<1>3. PICK i \in DOMAIN leaf_vec_ : leaf_vec_[i] = x
  BY <1>1, <1>2 DEF ToSet
<1> DEFINE a == LeafIndex(p)
           b == LeafIndex(o)
<1>4. a \in DOMAIN leaf_vec_ /\ leaf_vec_[a] = p /\ b \in DOMAIN leaf_vec_ /\ leaf_vec_[b] = o
  BY <1>1, <1>2, LeafFound
<1>5. Distance(p, o) = b - a
  BY DEF Distance
<1> HIDE DEF a, b
<1>6. Before(p, x, Walked) /\ Before(x, o, Walked) <=> a < i /\ i < b
  BY <1>3, <1>4, LeafOrder
<1>7. a \in Nat /\ b \in Nat /\ i \in Nat /\ DOMAIN leaf_vec_ = 1 .. Len(leaf_vec_) /\ Len(leaf_vec_) \in Nat
  BY <1>1, <1>3, <1>4
<1>8. CASE Distance(p, o) = 1
  <2> DEFINE A == Ancestors[p]
             c == CommonIndex(p, o)
             s == SubSeq(A, 1, c - 2)
  <2>1. A \in Seq(Node) /\ c \in DOMAIN A
    BY <1>1, <1>2, AncestorsType, CommonAncestor
  <2>2. producer_path_(p, o) = s
    BY <1>8 DEF producer_path_
  <2>3. \A j \in DOMAIN A : A[j] # x
    <3>1. x \notin Above(p)
      BY <1>2, TransAboveNone
    <3>. QED
      BY <3>1 DEF Above, ToSet
  <2> HIDE DEF A, c
  <2>4. c \in 1 .. Len(A) /\ Len(A) \in Nat /\ DOMAIN A = 1 .. Len(A)
    BY <2>1
  <2>5. DOMAIN s = 1 .. c - 2 /\ \A j \in 1 .. c - 2 : s[j] = A[j]
    BY <2>1, <2>4
  <2>6. \A j \in DOMAIN s : s[j] # x
    BY <2>3, <2>4, <2>5
  <2> HIDE DEF s
  <2>7. x \notin ToSet(producer_path_(p, o))
    BY <2>2, <2>6 DEF ToSet
  <2>8. ~(a < i /\ i < b)
    BY <1>5, <1>7, <1>8
  <2>. QED
    BY <1>6, <2>7, <2>8
<1>9. CASE Distance(p, o) # 1
  <2> DEFINE s == SubSeq(leaf_vec_, a + 1, b - 1)
  <2>1. producer_path_(p, o) = s
    BY <1>9 DEF producer_path_, a, b
  <2>2. CASE a + 1 <= b - 1
    <3>1. DOMAIN s = 1 .. (b - 1) - a /\ \A j \in 1 .. (b - 1) - a : s[j] = leaf_vec_[a + j]
      <4>1. \A j \in a + 1 .. b - 1 : leaf_vec_[j] \in Leaves
        BY <1>1, <1>4, <1>7
      <4>2. /\ s \in Seq(Leaves) /\ Len(s) = ((b - 1) - (a + 1)) + 1
            /\ \A j \in 1 .. ((b - 1) - (a + 1)) + 1 : s[j] = leaf_vec_[((a + 1) + j) - 1]
        BY <1>7, <2>2, <4>1, SubSeqProperties
      <4> HIDE DEF s
      <4>3. \A j \in 1 .. (b - 1) - a : s[j] = leaf_vec_[a + j]
        <5>1. \A j \in Int : ((a + 1) + j) - 1 = a + j
          BY <1>7
        <5>2. ((b - 1) - (a + 1)) + 1 = (b - 1) - a
          BY <1>7
        <5> QED  BY <4>2, <5>1, <5>2
      <4> QED  BY <1>7, <4>2, <4>3
    <3> HIDE DEF s
    <3>2. ASSUME a < i, i < b PROVE x \in ToSet(s)
      <4>1. i - a \in DOMAIN s /\ s[i - a] = x
        BY <1>3, <1>7, <3>1, <3>2
      <4>. QED
        BY <4>1 DEF ToSet
    <3>3. ASSUME x \in ToSet(s) PROVE a < i /\ i < b
      <4>1. PICK j \in DOMAIN s : s[j] = x
        BY <3>3 DEF ToSet
      <4>2. a + j \in DOMAIN leaf_vec_ /\ leaf_vec_[a + j] = x /\ j \in 1 .. (b - 1) - a
        BY <1>4, <1>7, <3>1, <4>1
      <4>3. LeafIndex(x) = i /\ LeafIndex(x) = a + j
        BY <1>3, <4>2, LeafOrder
      <4>. QED
        BY <1>7, <4>2, <4>3
    <3>. QED
      BY <1>6, <2>1, <3>2, <3>3
  <2>3. CASE ~(a + 1 <= b - 1)
    <3>1. s = <<>>
      BY <1>1, <1>7, <2>3
    <3> HIDE DEF s
    <3>2. ToSet(s) = {}
      BY <3>1 DEF ToSet
    <3>3. ~(a < i /\ i < b)
      BY <1>7, <2>3
    <3>. QED
      BY <1>6, <2>1, <3>2, <3>3
  <2>. QED
    BY <2>2, <2>3
<1>. QED
  BY <1>8, <1>9

\* The final result gets to the Trans nodes behind the last operation.
LEMMA ResultOverTrans ==
  ASSUME LeavesBare, PassInv, pass = "initTensor", todo # <<>>, Head(todo) \in Ops,
         isLastOp, NEW x \in TransNodes
  PROVE  x \in ToSet(SubSeq(leaf_vec_, LeafIndex(Head(todo)), Len(leaf_vec_)))
                 \cup ToSet(Ancestors[Last(leaf_vec_)])
           <=> \A q \in Ops : ~Before(x, q, Walked)
<1> DEFINE o == Head(todo)
           k == LeafIndex(o)
           s == SubSeq(leaf_vec_, k, Len(leaf_vec_))
<1>1. root \in Roots /\ ToSet(leaf_vec_) = Leaves /\ leaf_vec_ \in Seq(Leaves)
  BY AllCollected
<1>2. x \in Leaves /\ x \in Node /\ Tree[x].kind = "Trans" /\ Ops \subseteq Leaves /\ Leaves \subseteq Node
  BY <1>1, MappingFacts DEF TransNodes, Leaves
<1>3. PICK i \in DOMAIN leaf_vec_ : leaf_vec_[i] = x
  BY <1>1, <1>2 DEF ToSet
<1>4. k \in DOMAIN leaf_vec_ /\ leaf_vec_[k] = o /\ o \in Ops
  BY <1>1, <1>2, LeafFound
<1>5. x # o
  BY <1>2, <1>4 DEF Ops
<1>6. \A q \in Ops : q = o \/ Before(q, o, Walked)
  <2>1. Ops \cap (ToSet(todo) \ {o}) = {} /\ Ops \subseteq Nodes
    BY LastIsFinal DEF Ops
  <2>. QED
    BY <2>1, NextNode
<1> HIDE DEF o, k
<1>7. i \in Nat /\ k \in Nat /\ i # k /\ DOMAIN leaf_vec_ = 1 .. Len(leaf_vec_) /\ Len(leaf_vec_) \in Nat
  BY <1>1, <1>3, <1>4, <1>5
<1>8. (\A q \in Ops : ~Before(x, q, Walked)) <=> k < i
  <2>1. Before(x, o, Walked) <=> i < k
    BY <1>3, <1>4, LeafOrder
  <2>2. ASSUME NEW q \in Ops, Before(x, q, Walked) PROVE i < k
    <3>1. PICK j \in DOMAIN leaf_vec_ : leaf_vec_[j] = q
      BY <1>1, <1>2 DEF ToSet
    <3>2. i < j
      BY <1>3, <2>2, <3>1, LeafOrder
    <3>3. j = k \/ j < k
      <4>1. CASE q = o
        BY <1>4, <3>1, <4>1, LeafOrder
      <4>2. CASE Before(q, o, Walked)
        BY <1>4, <3>1, <4>2, LeafOrder
      <4>. QED
        BY <1>6, <4>1, <4>2
    <3>4. j \in Nat
      BY <1>7, <3>1
    <3>. QED
      BY <1>7, <3>2, <3>3, <3>4
  <2>. QED
    BY <1>4, <1>7, <2>1, <2>2
<1>9. x \in ToSet(s) <=> k < i
  <2>1. DOMAIN s = 1 .. Len(leaf_vec_) - k + 1 /\ \A j \in DOMAIN s : s[j] = leaf_vec_[k + j - 1]
    BY <1>1, <1>4, <1>7
  <2> HIDE DEF s
  <2>2. ASSUME k < i PROVE x \in ToSet(s)
    <3> DEFINE j == (i - k) + 1
    <3>0. i <= Len(leaf_vec_)
      BY <1>7
    <3>1. j \in DOMAIN s /\ k + j - 1 = i
      BY <1>7, <2>1, <2>2, <3>0
    <3>2. s[j] = x
      BY <1>3, <2>1, <3>1
    <3>. QED
      BY <3>1, <3>2 DEF ToSet
  <2>3. ASSUME x \in ToSet(s) PROVE k < i
    <3>1. PICK j \in DOMAIN s : s[j] = x
      BY <2>3 DEF ToSet
    <3>2. j \in 1 .. Len(leaf_vec_) - k + 1 /\ k + j - 1 \in DOMAIN leaf_vec_ /\ leaf_vec_[k + j - 1] = x
      BY <1>4, <1>7, <2>1, <3>1
    <3>3. LeafIndex(x) = i /\ LeafIndex(x) = k + j - 1
      BY <1>3, <3>2, LeafOrder
    <3>. QED
      BY <1>7, <3>2, <3>3
  <2>. QED
    BY <2>2, <2>3
<1>10. x \notin ToSet(Ancestors[Last(leaf_vec_)])
  <2>1. Last(leaf_vec_) \in Node
    BY <1>1, <1>2, <1>4 DEF Last
  <2>. QED
    BY <1>2, <2>1, TransAboveNone DEF Above
<1>. QED
  BY <1>8, <1>9, <1>10 DEF s, k, o

\* A step that adds no reader and changes no Trans node.
LEMMA TransUndisturbed ==
  ASSUME TransInv, Running, root' = root,
         \A x \in TransNodes : output_tensors_'[x] = output_tensors_[x],
         Ops \ ToSpread' = Ops \ ToSpread,
         leaf_vec_' = leaf_vec_ \/ Ops \ ToSpread = {}
  PROVE  TransInv'
<1>1. Nodes' = Nodes /\ Ops' = Ops /\ Walked' = Walked /\ TransNodes' = TransNodes
  BY SameMapping DEF TransNodes
<1>2. leaf_vec_' = leaf_vec_ => FinalTensor' = FinalTensor
  BY DEF FinalTensor
<1>3. ~(Ops # {} /\ Ops \ ToSpread = Ops) \/ FinalTensor' = FinalTensor
  BY <1>2
<1>4. ASSUME NEW x \in TransNodes
      PROVE  Passing(x, Ops \ ToSpread)' = Passing(x, Ops \ ToSpread)
  BY <1>1, <1>3 DEF Passing
<1>. QED
  BY <1>1, <1>4 DEF TransInv

\* initTensor at an operation: its tensors get to the Trans nodes they pass.
LEMMA TransSpread ==
  ASSUME LeavesBare, PassInv, TransInv, initTensor, Tree[Head(todo)].kind = "Op"
  PROVE  TransInv'
<1> DEFINE o == Head(todo)
           R == Ops \ ToSet(todo)
<1>1. /\ pass = "initTensor" /\ todo # <<>>
      /\ root' = root /\ leaf_vec_' = leaf_vec_ /\ producer_map_' = producer_map_
      /\ \/ pass' = "undefined"
         \/ /\ pass' = pass /\ todo' = Tail(todo)
            /\ output_tensors_' = OutputsAfter(o)
  BY DEF initTensor
<1>2. CASE pass' = "undefined"
  BY <1>2 DEF TransInv, Running
<1>3. CASE pass' = pass /\ todo' = Tail(todo) /\ output_tensors_' = OutputsAfter(o)
  <2>1. /\ Nodes' = Nodes /\ Ops' = Ops /\ Walked' = Walked /\ TransNodes' = TransNodes
        /\ FinalTensor' = FinalTensor
    BY <1>1, SameMapping DEF TransNodes, FinalTensor
  <2>2. /\ o \in Nodes /\ o \in ToSet(todo) /\ o \in Ops
        /\ ToSpread' = ToSet(todo) \ {o} /\ ToSpread = ToSet(todo)
    BY <1>1, <1>3, NextNode DEF ToSpread, Ops
  <2>3. Ops \ ToSpread' = R \cup {o}
    BY <2>2
  <2>4. /\ \A t \in DOMAIN producer_map_ : producer_map_[t] \in Ops /\ Out(producer_map_[t]) = t
        /\ \A q \in Ops : producer_map_[Out(q)] = q
        /\ DOMAIN producer_map_ = {Out(q) : q \in Ops}
    BY <1>1, AllCollected
  <2>5. o \in Node /\ Ins(o) \subseteq Tensor
    BY <1>1, <2>2, AllCollected, MappingFacts, TensorsAssumption DEF Ops
  <2>6. /\ isLastOp <=> R \cup {o} = Ops
        /\ isLastOp => Out(o) = FinalTensor
    <3>1. isLastOp <=> Ops \cap (ToSet(todo) \ {o}) = {}
      BY <1>1, <2>2, LastIsFinal
    <3>2. R \cup {o} = Ops \ (ToSet(todo) \ {o})
      BY <2>2
    <3>. QED
      BY <1>1, <2>2, <3>1, <3>2, LastIsFinal
  <2>7. ASSUME NEW x \in TransNodes
        PROVE  output_tensors_'[x] = Passing(x, R \cup {o})
    <3> DEFINE Path == {t \in Produced(o) : x \in ToSet(producer_path_(producer_map_[t], o))}
               Cond == x \in ToSet(SubSeq(leaf_vec_, LeafIndex(o), Len(leaf_vec_)))
                               \cup ToSet(Ancestors[Last(leaf_vec_)])
               Fin == IF isLastOp /\ Cond THEN {Out(o)} ELSE {}
               ReadBy(readers) ==
                 {t \in Tensor :
                    \E p \in Ops : \E q \in readers :
                      t = Out(p) /\ t \in Ins(q) /\ Before(p, x, Walked) /\ Before(x, q, Walked)}
               End == IF isLastOp /\ \A q \in Ops : ~Before(x, q, Walked)
                      THEN {FinalTensor} ELSE {}
    <3>1. x \in Nodes
      BY DEF TransNodes
    <3>2. output_tensors_'[x] = output_tensors_[x] \cup Path \cup Fin
      BY <1>3, <3>1, Zenon DEF OutputsAfter
    <3>3. Fin = End
      BY <1>1, <2>2, <2>6, ResultOverTrans
    <3>4. output_tensors_[x] = ReadBy(R)
      <4>1. output_tensors_[x] = Passing(x, R)
        BY <1>1, <2>2 DEF TransInv, Running
      <4>2. R # Ops
        BY <2>2
      <4>. QED
        BY <4>1, <4>2 DEF Passing
    <3>5. Passing(x, R \cup {o}) = ReadBy(R \cup {o}) \cup End
      <4>1. (Ops # {} /\ R \cup {o} = Ops) <=> isLastOp
        BY <2>2, <2>6
      <4> HIDE DEF R, o
      <4>. QED
        BY <4>1 DEF Passing
    <3>6. ASSUME NEW t
          PROVE  t \in Path <=> /\ t \in Ins(o) /\ Before(x, o, Walked)
                                /\ \E p \in Ops : t = Out(p) /\ Before(p, x, Walked)
      <4>1. CASE t \in Produced(o)
        <5> DEFINE p == producer_map_[t]
        <5>1. p \in Ops /\ Out(p) = t /\ t \in Ins(o) /\ \A q \in Ops : t = Out(q) => q = p
          BY <2>4, <4>1 DEF Produced
        <5>2. x \in ToSet(producer_path_(p, o)) <=> Before(p, x, Walked) /\ Before(x, o, Walked)
          BY <1>1, <2>2, <5>1, PathOverTrans
        <5> HIDE DEF p, o
        <5>3. t \in Path <=> x \in ToSet(producer_path_(p, o))
          BY <4>1 DEF p
        <5> HIDE DEF Path
        <5>. QED
          BY <5>1, <5>2, <5>3
      <4>2. CASE t \notin Produced(o)
        <5>1. t \notin Path
          BY <4>2
        <5>2. ~(t \in Ins(o) /\ \E p \in Ops : t = Out(p))
          BY <2>4, <4>2 DEF Produced
        <5> HIDE DEF Path, o
        <5>. QED
          BY <5>1, <5>2
      <4>. QED
        BY <4>1, <4>2
    <3> HIDE DEF o, R, Path, Fin, End
    <3>7. ReadBy(R \cup {o}) = ReadBy(R) \cup Path
      BY <2>5, <3>6
    <3> HIDE DEF ReadBy
    <3>. QED
      BY <3>2, <3>3, <3>4, <3>5, <3>7
  <2>8. ASSUME NEW x \in TransNodes
        PROVE  Passing(x, Ops \ ToSpread)' = Passing(x, R \cup {o})
    <3> HIDE DEF R, o
    <3>. QED
      BY <2>1, <2>3 DEF Passing
  <2>. QED
    BY <2>1, <2>7, <2>8 DEF TransInv
<1>. QED
  BY <1>1, <1>2, <1>3

\* Every step of the visitor keeps what the Trans nodes carry.
LEMMA TransStep ==
  ASSUME LeavesBare, PassInv, TransInv, [TensorNext \/ TensorStopped]_<<root, tensorVars>>
  PROVE  TransInv'
<1>0. root \in Roots /\ Ops \subseteq Nodes /\ ToSet(Walked) = Nodes
  BY MappingFacts DEF PassInv, TypesInv, Ops
<1>1. CASE OffsetPasses
  <2>1. /\ Running /\ root' = root /\ leaf_vec_' = leaf_vec_
        /\ output_tensors_' = output_tensors_ /\ pass = "offset" /\ pass' \in {"initOp", "aborted"}
    BY <1>1 DEF OffsetPasses, Running
  <2>2. ToSpread = Nodes /\ ToSpread' = Nodes
    BY <2>1, SameMapping DEF ToSpread
  <2>. QED
    BY <2>1, <2>2, TransUndisturbed
<1>2. CASE initOpTensor
  <2>1. /\ Running /\ root' = root /\ pass = "initOp" /\ pass' \in {"initOp", "aborted"}
        /\ output_tensors_' = output_tensors_ \/
             /\ Tree[Head(todo)].kind = "Op"
             /\ output_tensors_' = Added(output_tensors_, {Head(todo)}, {Out(Head(todo))})
    BY <1>2 DEF initOpTensor, initOp, initLeaf, Running
  <2>2. ToSpread = Nodes /\ ToSpread' = Nodes
    BY <2>1, SameMapping DEF ToSpread
  <2>3. \A x \in TransNodes : output_tensors_'[x] = output_tensors_[x]
    <3>1. output_tensors_ \in [Nodes -> SUBSET Tensor]
      BY DEF PassInv, TypesInv
    <3>. QED
      BY <2>1, <3>1 DEF Added, TransNodes
  <2>. QED
    BY <1>0, <2>1, <2>2, <2>3, TransUndisturbed
<1>3. CASE StartTensorPass
  <2>1. /\ Running /\ root' = root /\ leaf_vec_' = leaf_vec_
        /\ output_tensors_' = output_tensors_ /\ pass = "initOp" /\ pass' = "initTensor"
        /\ todo' = Walked
    BY <1>3 DEF StartTensorPass, Running, Walked
  <2>2. ToSpread = Nodes /\ ToSpread' = Nodes
    BY <1>0, <2>1 DEF ToSpread
  <2>. QED
    BY <2>1, <2>2, TransUndisturbed
<1>4. CASE initTensor /\ Tree[Head(todo)].kind # "Op"
  <2>1. /\ Running /\ root' = root /\ leaf_vec_' = leaf_vec_ /\ todo # <<>>
        /\ output_tensors_' = output_tensors_ /\ pass = "initTensor" /\ pass' = pass
        /\ todo' = Tail(todo)
    BY <1>4 DEF initTensor, Running
  <2>2. Head(todo) \notin Ops /\ ToSet(todo') = ToSet(todo) \ {Head(todo)}
    BY <1>4, <2>1, NextNode DEF Ops
  <2>3. ToSpread = ToSet(todo) /\ ToSpread' = ToSet(todo')
    BY <2>1 DEF ToSpread
  <2>4. Ops \ ToSpread' = Ops \ ToSpread
    BY <2>2, <2>3
  <2>. QED
    BY <2>1, <2>4, TransUndisturbed
<1>5. CASE initTensor /\ Tree[Head(todo)].kind = "Op"
  BY <1>5, TransSpread
<1>6. CASE FinishTensors
  <2>1. /\ Running /\ root' = root /\ leaf_vec_' = leaf_vec_
        /\ output_tensors_' = output_tensors_ /\ pass = "initTensor" /\ pass' = "done"
        /\ todo' = todo
    BY <1>6 DEF FinishTensors, Running
  <2>2. ToSpread' = ToSpread
    BY <2>1 DEF ToSpread
  <2>. QED
    BY <2>1, <2>2, TransUndisturbed
<1>7. CASE UNCHANGED <<root, tensorVars>>
  <2>1. /\ root' = root /\ leaf_vec_' = leaf_vec_ /\ pass' = pass /\ todo' = todo
        /\ output_tensors_' = output_tensors_
    BY <1>7 DEF tensorVars
  <2>2. ToSpread' = ToSpread /\ (Running' <=> Running)
    BY <2>1, SameMapping DEF ToSpread, Running
  <2>3. CASE Running
    BY <2>1, <2>2, <2>3, TransUndisturbed
  <2>4. CASE ~Running
    BY <2>2, <2>4 DEF TransInv
  <2>. QED
    BY <2>3, <2>4
<1>. QED
  BY <1>1, <1>2, <1>3, <1>4, <1>5, <1>6, <1>7 DEF TensorNext, TensorStopped

\* At first no Trans node carries anything.
LEMMA TransInitially == ASSUME TensorInit PROVE TransInv
<1>1. /\ pass = "offset" /\ output_tensors_ = [n \in Nodes |-> {}]
  BY DEF TensorInit, TensorsEmpty
<1>2. Ops \ ToSpread = {}
  BY <1>1 DEF ToSpread, Ops
<1>3. \A x \in TransNodes : output_tensors_[x] = {} /\ Passing(x, {}) = {}
  BY <1>1 DEF TransNodes, Passing
<1>. QED
  BY <1>2, <1>3 DEF TransInv

\* The invariants of the passes say what a Trans node carries.
LEMMA PassInvCarried ==
  ASSUME PassInv, TransInv
  PROVE  TransCarriesLive
<1> SUFFICES ASSUME pass = "done", Ops # {}, NEW i \in DOMAIN leaf_vec_,
                    Tree[leaf_vec_[i]].kind = "Trans"
             PROVE  LET x == leaf_vec_[i]
                        before == {leaf_vec_[j] : j \in 1 .. i - 1} \cap Ops
                        after == {leaf_vec_[j] : j \in i + 1 .. Len(leaf_vec_)} \cap Ops
                    IN  output_tensors_[x] =
                          {t \in Tensor : /\ \E p \in before : t = Out(p)
                                          /\ \E o \in after : t \in Ins(o)}
                          \cup (IF after = {} THEN {FinalTensor} ELSE {})
  BY DEF TransCarriesLive
<1> DEFINE x == leaf_vec_[i]
           before == {leaf_vec_[j] : j \in 1 .. i - 1} \cap Ops
           after == {leaf_vec_[j] : j \in i + 1 .. Len(leaf_vec_)} \cap Ops
<1>1. root \in Roots /\ todo = <<>> /\ Running
  BY DEF PassInv, TypesInv, Running
<1>2. Ops \ ToSpread = Ops
  BY <1>1 DEF ToSpread, ToSet
<1>3. leaf_vec_ \in Seq(Leaves) /\ ToSet(leaf_vec_) = Leaves /\ Ops \subseteq Leaves
  BY <1>1, LeafOrder, MappingFacts
<1>4. x \in TransNodes
  BY <1>3 DEF TransNodes, Leaves
<1>5. output_tensors_[x] = Passing(x, Ops)
  BY <1>1, <1>2, <1>4 DEF TransInv
<1>6. DOMAIN leaf_vec_ = 1 .. Len(leaf_vec_) /\ Len(leaf_vec_) \in Nat /\ i \in Nat
  BY <1>3
<1>7. ASSUME NEW q \in Ops
      PROVE  /\ Before(q, x, Walked) <=> q \in before
             /\ Before(x, q, Walked) <=> q \in after
  <2>1. PICK k \in DOMAIN leaf_vec_ : leaf_vec_[k] = q
    BY <1>3 DEF ToSet
  <2>2. \A j \in DOMAIN leaf_vec_ : leaf_vec_[j] = q => j = k
    BY <2>1, LeafOrder
  <2>3. (Before(q, x, Walked) <=> k < i) /\ (Before(x, q, Walked) <=> i < k)
    BY <2>1, LeafOrder
  <2>4. q \in before <=> k < i
    BY <1>6, <2>1, <2>2
  <2>5. q \in after <=> i < k
    BY <1>6, <2>1, <2>2
  <2>. QED
    BY <2>3, <2>4, <2>5
<1>8. before \subseteq Ops /\ after \subseteq Ops
  OBVIOUS
<1> HIDE DEF x, before, after
<1>9. (\A q \in Ops : ~Before(x, q, Walked)) <=> after = {}
  BY <1>7, <1>8
<1>10. \A t : (\E p \in Ops : \E o \in Ops :
                 t = Out(p) /\ t \in Ins(o) /\ Before(p, x, Walked) /\ Before(x, o, Walked))
              <=> (\E p \in before : t = Out(p)) /\ (\E o \in after : t \in Ins(o))
  BY <1>7, <1>8
<1>11. output_tensors_[x] =
         {t \in Tensor : (\E p \in before : t = Out(p)) /\ (\E o \in after : t \in Ins(o))}
         \cup (IF after = {} THEN {FinalTensor} ELSE {})
  BY <1>5, <1>9, <1>10 DEF Passing
<1>. QED
  BY <1>11 DEF x, before, after

\* When the visitor is done, a Trans node gives out exactly the tensors that
\* pass over it and, behind the last operation, the final result, whatever the
\* mapping: how many of them there are depends on the mapping alone.
THEOREM TransCarriesWhatPasses == LeavesBare => (TensorSpec => []TransCarriesLive)
<1> SUFFICES ASSUME LeavesBare PROVE TensorSpec => []TransCarriesLive
  OBVIOUS
<1>1. TensorInit => TransInv
  BY TransInitially
<1>2. PassInv /\ TransInv /\ [TensorNext \/ TensorStopped]_<<root, tensorVars>> => TransInv'
  BY TransStep
<1>3. PassInv /\ TransInv => TransCarriesLive
  BY PassInvCarried
<1>. QED
  BY <1>1, <1>2, <1>3, PassInvariance, PTL DEF TensorSpec
=============================================================================
