-------------------------- MODULE EvaluatorProofs --------------------------
(***************************************************************************)
(* The evaluation as a whole: proofs about Evaluator for every mapping,    *)
(* workload and hardware.                                                  *)
(***************************************************************************)
EXTENDS Evaluator, PassProofs

-----------------------------------------------------------------------------
(* The offsets.                                                             *)

\* Every node is in a mapping.
LEMMA InSomeMapping ==
  ASSUME NEW n \in Node
  PROVE  \E r \in Roots : n \in NodesOf[r]
<1> DEFINE S == {m \in Node : ~ \E r \in Roots : m \in NodesOf[r]}
<1>1. SUFFICES ASSUME S # {} PROVE FALSE
  OBVIOUS
<1>2. PICK m \in S : Parent(m) # nullptr => Parent(m) \in Node /\ Parent(m) \notin S
  <2>1. S \in SUBSET Node
    OBVIOUS
  <2> HIDE DEF S
  <2> QED  BY <1>1, <2>1, FirstNode
<1>3. m \in Node
  OBVIOUS
<1>4. Parent(m) # nullptr
  <2> SUFFICES ASSUME Parent(m) = nullptr PROVE FALSE
    OBVIOUS
  <2>1. m \in Roots /\ m \in NodesOf[m]
    BY <1>3 DEF Roots, NodesOf
  <2> QED  BY <1>2, <2>1
<1>5. PICK r \in Roots : Parent(m) \in NodesOf[r]
  BY <1>2, <1>4
<1>6. r = Parent(m) \/ r \in Above(Parent(m))
  BY <1>5 DEF NodesOf, Above
<1>7. r \in Above(m)
  BY <1>3, <1>4, <1>6, AboveStep
<1>8. m \in NodesOf[r]
  BY <1>3, <1>7 DEF NodesOf, Above
<1> QED  BY <1>2, <1>8

\* A breadth-first queue of nodes none of which is above another one stays
\* such a queue, and what it lists gets smaller by the node that is taken.
LEMMA QueueAfterVisit ==
  ASSUME NEW r \in Roots, NEW U \in Seq(NodesOf[r]), U # <<>>, Apart(U)
  PROVE  LET W == Tail(U) \o Kids(Head(U))
         IN  /\ W \in Seq(NodesOf[r]) /\ Apart(W)
             /\ \A m \in Node : Listed(m, W) => Listed(m, U) /\ m # Head(U)
             /\ Listed(Head(U), U) /\ Head(U) \in Node
<1> DEFINE N == NodesOf[r]
           T == Tail(U)
           K == Kids(Head(U))
           V == K \o T
           W == T \o K
           a == Len(T)
           b == Len(K)
<1>1. /\ V \in Seq(N) /\ Apart(V) /\ Head(U) \in N
      /\ \A m \in Node : Listed(m, V) <=> Listed(m, U) /\ m # Head(U)
      /\ Listed(Head(U), U)
  BY ListAfterVisit
<1>2. T \in Seq(N) /\ a \in Nat /\ Head(U) \in Node
  BY <1>1, NodesClosed
<1>3. K \in Seq(Node) /\ b \in Nat
  BY <1>2, KidsAfter
<1> HIDE DEF N, T, K
<1>4. K \in Seq(N)
  <2>1. \A i \in 1 .. b : K[i] \in N
    <3>1. ASSUME NEW i \in 1 .. b PROVE K[i] \in N
      <4>1. V[i] = K[i] /\ i \in 1 .. Len(V)
        BY <1>2, <1>3
      <4> HIDE DEF V
      <4> QED  BY <1>1, <4>1
    <3> QED  BY <3>1
  <2>2. K \in [1 .. b -> N]
    BY <1>3, <2>1
  <2> QED  BY <1>3, <2>2, SeqDef
<1>5. W \in Seq(N)
  BY <1>2, <1>4
<1> DEFINE s(i) == IF i <= a THEN b + i ELSE i - a
<1>6. ASSUME NEW i \in DOMAIN W PROVE s(i) \in DOMAIN V /\ V[s(i)] = W[i] /\ i \in 1 .. a + b
  <2>1. i \in 1 .. a + b /\ DOMAIN V = 1 .. b + a
    BY <1>2, <1>4
  <2>2. CASE i <= a
    <3>1. W[i] = T[i]
      BY <1>2, <1>4, <2>1, <2>2
    <3>2. V[b + i] = T[i]
      BY <1>2, <1>4, <2>1, <2>2
    <3> QED  BY <1>2, <1>3, <2>1, <2>2, <3>1, <3>2
  <2>3. CASE ~(i <= a)
    <3>1. W[i] = K[i - a]
      BY <1>2, <1>4, <2>1, <2>3
    <3>2. V[i - a] = K[i - a]
      BY <1>2, <1>4, <2>1, <2>3
    <3> QED  BY <1>2, <1>3, <2>1, <2>3, <3>1, <3>2
  <2> QED  BY <2>2, <2>3
<1>7. ASSUME NEW i \in DOMAIN W, NEW j \in DOMAIN W, s(i) = s(j) PROVE i = j
  <2>1. i \in 1 .. a + b /\ j \in 1 .. a + b
    BY <1>6
  <2> QED  BY <1>2, <1>3, <1>7, <2>1
<1> HIDE DEF s, V, W
<1>8. Apart(W)
  <2>1. SUFFICES ASSUME NEW i \in DOMAIN W, NEW j \in DOMAIN W, i # j
                 PROVE  ~Under(W[i], W[j])
    BY DEF Apart
  <2>2. s(i) # s(j)
    BY <1>7, <2>1
  <2> QED  BY <1>1, <1>6, <2>2 DEF Apart
<1>9. ASSUME NEW m \in Node, Listed(m, W) PROVE Listed(m, V)
  BY <1>6, <1>9 DEF Listed
<1> QED  BY <1>1, <1>2, <1>5, <1>8, <1>9 DEF N, T, K, W

\* BFSOffsetLoop takes the queue apart from the front.
LEMMA BFSSolution ==
  ASSUME NEW d \in Dim
  PROVE  \E f : /\ \A n \in Node : BFSOffsetLoop[d][n] = f[<<n>>]
               /\ \A q \in Seq(Node) :
                    f[q] = IF q = <<>> THEN nullptr
                           ELSE IF d \in LoopDims(Head(q)) THEN Head(q)
                           ELSE f[Tail(q) \o Kids(Head(q))]
<1> DEFINE S == Seq(Node)
           Rec(f, q) == IF q = <<>> THEN nullptr
                        ELSE IF d \in LoopDims(Head(q)) THEN Head(q)
                        ELSE f[Tail(q) \o Kids(Head(q))]
           Eq(f) == f = [q \in S |-> Rec(f, q)]
           F == CHOOSE f : Eq(f)
           stop == {q \in S : q = <<>> \/ d \in LoopDims(Head(q))}
           next == [q \in S |-> IF q \in stop THEN q ELSE Tail(q) \o Kids(Head(q))]
           val == [q \in S |-> IF q = <<>> THEN nullptr ELSE Head(q)]
<1>1. BFSOffsetLoop[d] = [n \in Node |-> F[<<n>>]]
  BY Zenon DEF BFSOffsetLoop
<1>2. ASSUME NEW q \in S, q \notin stop PROVE Tail(q) \o Kids(Head(q)) \in S
  <2>1. Head(q) \in Node /\ Tail(q) \in Seq(Node)
    BY <1>2
  <2> QED  BY <2>1, KidsAfter
<1>3. next \in [S -> S] /\ stop \in SUBSET S
  <2>1. stop \in SUBSET S
    OBVIOUS
  <2> HIDE DEF S, stop
  <2> QED  BY <1>2, <2>1
<1>4. PICK h : SolvesTail(h, S, stop, next, val)
  <2> HIDE DEF S, stop, next, val
  <2> QED  BY <1>3, TailSolution
<1>5. ASSUME NEW q \in S PROVE h[q] = Rec(h, q)
  <2>2. h[q] = IF q \in stop THEN val[q] ELSE h[next[q]]
    <3> HIDE DEF S, stop, next, val
    <3> QED  BY <1>4 DEF SolvesTail
  <2>3. q \in stop <=> (q = <<>> \/ d \in LoopDims(Head(q)))
    OBVIOUS
  <2>4. val[q] = IF q = <<>> THEN nullptr ELSE Head(q)
    <3> HIDE DEF S
    <3> QED  OBVIOUS
  <2>5. q \notin stop => next[q] = Tail(q) \o Kids(Head(q))
    <3> HIDE DEF S, stop
    <3> QED  OBVIOUS
  <2> HIDE DEF S, stop, next, val
  <2> QED  BY <2>2, <2>3, <2>4, <2>5
<1>6. Eq(h)
  <2>1. h = [q \in S |-> h[q]]
    <3> HIDE DEF S, stop, next, val
    <3> QED  BY <1>4 DEF SolvesTail
  <2> HIDE DEF Rec, S
  <2> QED  BY <1>5, <2>1
<1>7. Eq(F)
  <2> HIDE DEF Eq
  <2> QED  BY <1>6
<1> HIDE DEF F
<1>8. \A q \in S : F[q] = Rec(F, q)
  <2> HIDE DEF Rec, S
  <2> QED  BY <1>7
<1>9. \A n \in Node : BFSOffsetLoop[d][n] = F[<<n>>]
  BY <1>1
<1> QED  BY <1>8, <1>9

\* The search ends, and finds nothing or a node with a loop over d that is n
\* or stands below n, and no other loop over d between the two.
LEMMA BFSFinds ==
  ASSUME NEW n \in Node, NEW d \in Dim
  PROVE  \/ BFSOffsetLoop[d][n] = nullptr
         \/ /\ BFSOffsetLoop[d][n] \in Node
            /\ Under(BFSOffsetLoop[d][n], n)
            /\ d \in LoopDims(BFSOffsetLoop[d][n])
            /\ \A p \in Above(BFSOffsetLoop[d][n]) : Under(p, n) => d \notin LoopDims(p)
<1>1. PICK f : /\ \A m \in Node : BFSOffsetLoop[d][m] = f[<<m>>]
               /\ \A q \in Seq(Node) :
                    f[q] = IF q = <<>> THEN nullptr
                           ELSE IF d \in LoopDims(Head(q)) THEN Head(q)
                           ELSE f[Tail(q) \o Kids(Head(q))]
  BY BFSSolution
<1>2. PICK r \in Roots : n \in NodesOf[r]
  BY InSomeMapping
<1>3. \A m \in NodesOf[r] : m \in Node
  BY <1>2, NodesClosed
<1> DEFINE Lists(q) == {m \in Node : Listed(m, q)}
           Bare(x) == \A p \in Above(x) : Under(p, n) => d \notin LoopDims(p)
           Fine(x) == x = nullptr \/ (x \in Node /\ Under(x, n) /\ d \in LoopDims(x) /\ Bare(x))
           Q == {q \in Seq(NodesOf[r]) : /\ Apart(q)
                                         /\ \A m \in Node : Listed(m, q) => Under(m, n)
                                         /\ \A i \in DOMAIN q : Bare(q[i])}
           B == {Lists(q) : q \in {q \in Q : ~Fine(f[q])}}
<1>4. B = {}
  <2>1. SUFFICES ASSUME B # {} PROVE FALSE
    OBVIOUS
  <2>2. B \in SUBSET SUBSET Node
    OBVIOUS
  <2>3. PICK s \in B : \A t \in B : ~(t \subseteq s /\ t # s)
    <3>1. IsFiniteSet(Node)
      BY NodesAreNumbers
    <3> HIDE DEF B
    <3> QED  BY <2>1, <2>2, <3>1, LeastSubset
  <2>4. PICK q \in Q : ~Fine(f[q]) /\ s = Lists(q)
    <3> HIDE DEF Q, Fine, Lists, Bare
    <3> QED  OBVIOUS
  <2>5. /\ q \in Seq(NodesOf[r]) /\ Apart(q)
        /\ \A m \in Node : Listed(m, q) => Under(m, n)
        /\ \A i \in DOMAIN q : Bare(q[i])
    <3> HIDE DEF Fine, Lists, Bare
    <3> QED  OBVIOUS
  <2>6. q \in Seq(Node)
    BY <1>3, <2>5
  <2>7. q # <<>>
    <3> HIDE DEF Q, Lists
    <3> QED  BY <1>1, <2>4, <2>6
  <2> DEFINE w == Tail(q) \o Kids(Head(q))
  <2>8. /\ w \in Seq(NodesOf[r]) /\ Apart(w)
        /\ \A m \in Node : Listed(m, w) => Listed(m, q) /\ m # Head(q)
        /\ Listed(Head(q), q) /\ Head(q) \in Node
    BY <2>5, <2>7, QueueAfterVisit
  <2>9. CASE d \in LoopDims(Head(q))
    <3>1. Bare(Head(q)) /\ Under(Head(q), n)
      <4> HIDE DEF Bare
      <4> QED  BY <2>5, <2>7, <2>8
    <3>2. f[q] = Head(q)
      BY <1>1, <2>6, <2>7, <2>9
    <3> HIDE DEF Bare, Q, Lists
    <3> QED  BY <2>4, <2>8, <2>9, <3>1, <3>2
  <2>10. CASE d \notin LoopDims(Head(q))
    <3> DEFINE h == Head(q)
    <3>1. \A i \in DOMAIN w : \/ \E j \in DOMAIN q : w[i] = q[j]
                              \/ \E j \in DOMAIN Kids(h) : w[i] = Kids(h)[j]
      <4>1. Kids(h) \in Seq(Node) /\ Tail(q) \in Seq(Node) /\ Len(q) >= 1
        BY <2>6, <2>7, <2>8, KidsAfter
      <4>2. Len(Tail(q)) = Len(q) - 1 /\ \A j \in 1 .. Len(q) - 1 : Tail(q)[j] = q[j + 1]
        BY <2>6, <2>7
      <4> DEFINE K == Kids(h)
                 T == Tail(q)
      <4> HIDE DEF K, T
      <4>3. /\ Len(T \o K) = Len(T) + Len(K) /\ DOMAIN (T \o K) = 1 .. Len(T) + Len(K)
            /\ \A i \in 1 .. Len(T) : (T \o K)[i] = T[i]
            /\ \A i \in Len(T) + 1 .. Len(T) + Len(K) : (T \o K)[i] = K[i - Len(T)]
            /\ Len(T) \in Nat /\ Len(K) \in Nat /\ DOMAIN K = 1 .. Len(K) /\ DOMAIN q = 1 .. Len(q)
        BY <2>6, <4>1 DEF K, T
      <4>4. ASSUME NEW i \in DOMAIN (T \o K)
            PROVE  \/ \E j \in DOMAIN q : (T \o K)[i] = q[j]
                   \/ \E j \in DOMAIN K : (T \o K)[i] = K[j]
        <5>1. CASE i <= Len(T)
          <6>1. i \in 1 .. Len(T) /\ i \in 1 .. Len(q) - 1 /\ i + 1 \in DOMAIN q
            BY <4>1, <4>2, <4>3, <5>1 DEF T
          <6> QED  BY <4>2, <4>3, <6>1 DEF T
        <5>2. CASE i > Len(T)
          <6>1. i \in Len(T) + 1 .. Len(T) + Len(K) /\ i - Len(T) \in DOMAIN K
            BY <4>3, <5>2
          <6> QED  BY <4>3, <6>1
        <5> QED  BY <4>3, <5>1, <5>2
      <4> QED  BY <4>4 DEF K, T
    <3>2. ASSUME NEW i \in DOMAIN w PROVE Bare(w[i])
      <4>1. CASE \E j \in DOMAIN q : w[i] = q[j]
        <5> HIDE DEF Bare, w
        <5> QED  BY <2>5, <4>1
      <4>2. CASE \E j \in DOMAIN Kids(h) : w[i] = Kids(h)[j]
        <5>1. PICK j \in DOMAIN Kids(h) : w[i] = Kids(h)[j]
          BY <4>2
        <5>2. Above(w[i]) = {h} \cup Above(h)
          BY <2>8, <5>1, AboveKid
        <5>3. Bare(h)
          <6> HIDE DEF Bare
          <6> QED  BY <2>5, <2>6, <2>7
        <5> HIDE DEF w, h
        <5> QED  BY <2>10, <5>2, <5>3 DEF h
      <4> QED  BY <3>1, <4>1, <4>2
    <3>3. w \in Q
      <4> HIDE DEF w, Bare
      <4> QED  BY <2>5, <2>8, <3>2
    <3>4. Lists(w) \subseteq s /\ Lists(w) # s
      <4>1. Lists(w) \subseteq Lists(q)
        <5> HIDE DEF w
        <5> QED  BY <2>8
      <4>2. Head(q) \in Lists(q) /\ Head(q) \notin Lists(w)
        <5> HIDE DEF w
        <5> QED  BY <2>8
      <4> HIDE DEF Lists, w
      <4> QED  BY <2>4, <4>1, <4>2
    <3>5. Fine(f[w])
      <4> SUFFICES ASSUME ~Fine(f[w]) PROVE FALSE
        OBVIOUS
      <4>1. Lists(w) \in B
        <5> HIDE DEF Lists, Fine, Q, w
        <5> QED  BY <3>3
      <4> HIDE DEF B, Lists
      <4> QED  BY <2>3, <3>4, <4>1
    <3>6. f[q] = f[w]
      BY <1>1, <2>6, <2>7, <2>10
    <3> HIDE DEF Fine, w, Q, Lists
    <3> QED  BY <2>4, <3>5, <3>6
  <2> QED  BY <2>9, <2>10
<1>5. <<n>> \in Q
  <2>1. <<n>> \in Seq(NodesOf[r])
    <3> DEFINE M == NodesOf[r]
    <3>1. n \in M
      BY <1>2
    <3> HIDE DEF M
    <3>2. <<n>> \in Seq(M)
      BY <3>1
    <3> QED  BY <3>2 DEF M
  <2>2. Apart(<<n>>)
    BY DEF Apart
  <2>3. \A m \in Node : Listed(m, <<n>>) => Under(m, n)
    BY DEF Listed
  <2>4. \A i \in DOMAIN <<n>> : Bare(<<n>>[i])
    <3>1. ASSUME NEW p \in Above(n), Under(p, n) PROVE FALSE
      <4>1. p \in Node /\ p < n /\ p \in Nat /\ n \in Nat
        BY AboveBefore, NodesAreNumbers
      <4>2. n = p \/ n < p
        BY <3>1, <4>1, AboveBefore DEF Under
      <4> QED  BY <4>1, <4>2
    <3>2. Bare(n)
      BY <3>1
    <3>3. \A i \in DOMAIN <<n>> : <<n>>[i] = n
      OBVIOUS
    <3> HIDE DEF Bare
    <3> QED  BY <3>2, <3>3
  <2> HIDE DEF Bare
  <2> QED  BY <2>1, <2>2, <2>3, <2>4
<1>6. Fine(f[<<n>>])
  <2> HIDE DEF Q, Fine, Lists
  <2> QED  BY <1>4, <1>5
<1>7. BFSOffsetLoop[d][n] = f[<<n>>]
  BY <1>1
<1> QED  BY <1>6, <1>7

\* What holds of every node when it holds of those that it follows from, one
\* node further down each.
LEMMA DownwardType ==
  ASSUME NEW V, NEW next \in [Node -> Node \cup {nullptr}],
         \A n \in Node : next[n] # nullptr => next[n] > n, NEW f,
         \A n \in Node : (next[n] # nullptr => f[next[n]] \in V) => f[n] \in V
  PROVE  \A n \in Node : f[n] \in V
<1> DEFINE Bad == {n \in Node : f[n] \notin V}
<1>1. SUFFICES ASSUME Bad # {} PROVE FALSE
  OBVIOUS
<1>2. Node \in SUBSET Nat /\ IsFiniteSet(Node) /\ \A m \in Node : m \in Nat
  BY NodesAreNumbers
<1>3. PICK b \in Nat : \A m \in Node : m <= b
  BY <1>2, FiniteIsBounded
<1>4. PICK n \in Bad : \A m \in Bad : m <= n
  <2>1. Bad \in SUBSET Nat /\ \A m \in Bad : m <= b
    BY <1>2, <1>3
  <2> HIDE DEF Bad
  <2> QED  BY <1>1, <1>3, <2>1, GreatestNatural
<1>5. n \in Node /\ f[n] \notin V
  OBVIOUS
<1>6. CASE next[n] = nullptr
  BY <1>5, <1>6
<1>7. CASE next[n] # nullptr
  <2>1. next[n] \in Node /\ next[n] > n /\ next[n] \in Nat /\ n \in Nat
    BY <1>2, <1>5, <1>7
  <2>2. next[n] \notin Bad
    <3> HIDE DEF Bad
    <3> QED  BY <1>4, <2>1
  <2>3. f[next[n]] \in V
    BY <2>1, <2>2
  <2> QED  BY <1>5, <2>3
<1> QED  BY <1>6, <1>7

\* f is such a table.
SolvesDown(f, base, next, step) ==
  f = [n \in Node |-> IF next[n] = nullptr THEN base ELSE step[<<n, f[next[n]]>>]]

\* There is such a table.
LEMMA DownwardSolution ==
  ASSUME NEW base, NEW next \in [Node -> Node \cup {nullptr}],
         \A n \in Node : next[n] # nullptr => next[n] > n, NEW step
  PROVE  \E f : SolvesDown(f, base, next, step)
<1>1. Node \in SUBSET Nat /\ IsFiniteSet(Node) /\ \A m \in Node : m \in Nat
  BY NodesAreNumbers
<1>2. PICK b \in Nat : \A m \in Node : m <= b
  BY <1>1, FiniteIsBounded
<1> DEFINE High(k) == {m \in Node : m >= k}
           Rec(f, m) == IF next[m] = nullptr THEN base ELSE step[<<m, f[next[m]]>>]
           Solves(f, k) == f = [m \in High(k) |-> Rec(f, m)]
           G == {k \in 0 .. b + 1 : \E f : Solves(f, k)}
<1>3. b + 1 \in G
  <2>1. High(b + 1) = {}
    <3>1. \A m \in Node : ~(m >= b + 1)
      BY <1>1, <1>2
    <3> QED  BY <3>1, Zenon
  <2>2. Solves(<<>>, b + 1)
    <3> HIDE DEF High, Rec
    <3> QED  BY <2>1
  <2> HIDE DEF Solves
  <2> QED  BY <1>2, <2>2
<1>4. ASSUME NEW k \in 1 .. b + 1, k \in G PROVE k - 1 \in G
  <2>1. PICK f : Solves(f, k)
    <3> HIDE DEF Solves
    <3> QED  BY <1>4
  <2> DEFINE h == [m \in High(k - 1) |-> Rec(f, m)]
  <2>2. ASSUME NEW m \in High(k) PROVE h[m] = f[m]
    <3>1. m \in High(k - 1)
      BY <1>1, <1>2
    <3> HIDE DEF High, Rec
    <3> QED  BY <2>1, <3>1
  <2>3. ASSUME NEW m \in High(k - 1) PROVE Rec(h, m) = Rec(f, m)
    <3>1. next[m] # nullptr => next[m] \in High(k)
      <4>1. m \in Node /\ m >= k - 1 /\ m \in Nat /\ k \in Nat
        BY <1>1, <1>2
      <4>2. next[m] # nullptr => next[m] \in Node /\ next[m] > m /\ next[m] \in Nat
        BY <1>1, <4>1
      <4> HIDE DEF h
      <4> QED  BY <4>1, <4>2
    <3> HIDE DEF High, h
    <3> QED  BY <2>2, <3>1
  <2>4. Solves(h, k - 1)
    <3> HIDE DEF Rec, High
    <3> QED  BY <2>3
  <2>5. k - 1 \in 0 .. b + 1
    BY <1>2
  <2> HIDE DEF Solves
  <2> QED  BY <2>4, <2>5
<1>5. 0 \in G
  <2>1. b + 1 \in Nat /\ 0 \in 0 .. b + 1
    BY <1>2
  <2> HIDE DEF G
  <2> QED  BY <1>3, <1>4, <2>1, DownInduction
<1>6. PICK f : Solves(f, 0)
  <2> HIDE DEF Solves
  <2> QED  BY <1>5
<1>7. High(0) = Node
  <2>1. \A m \in Node : m >= 0
    BY <1>1
  <2> QED  BY <2>1, Zenon
<1> HIDE DEF High
<1>8. f = [m \in Node |-> Rec(f, m)]
  <2> HIDE DEF Rec
  <2> QED  BY <1>6, <1>7
<1> QED  BY <1>8 DEF SolvesDown

\* getOffset finds nothing below n, or a node further down with a loop over d.
LEMMA LoopBelowFinds ==
  ASSUME NEW n \in Node, NEW d \in Dim, LoopBelow(n, d) # nullptr
  PROVE  LoopBelow(n, d) \in Node /\ LoopBelow(n, d) > n /\ d \in LoopDims(LoopBelow(n, d))
<1> DEFINE found == {i \in DOMAIN Kids(n) : BFSOffsetLoop[d][Kids(n)[i]] # nullptr}
           k == Kids(n)[Min(found)]
           m == BFSOffsetLoop[d][k]
<1>1. found # {} /\ LoopBelow(n, d) = m
  BY DEF LoopBelow
<1>2. Min(found) \in found
  <2>1. Kids(n) \in Seq(Node)
    BY KidsAfter
  <2>2. found \in SUBSET Nat
    BY <2>1
  <2> HIDE DEF found
  <2> QED  BY <1>1, <2>2, MinIsLeast
<1>3. Min(found) \in DOMAIN Kids(n) /\ m # nullptr
  BY <1>2
<1>4. k \in Node /\ k > n
  <2> HIDE DEF found
  <2> QED  BY <1>3, KidsAfter
<1> HIDE DEF found, k
<1>5. m \in Node /\ Under(m, k) /\ d \in LoopDims(m)
  BY <1>3, <1>4, BFSFinds
<1>6. k \in Nat /\ m \in Nat /\ n \in Nat /\ k <= m
  <2>1. k \in Nat /\ m \in Nat /\ n \in Nat
    BY <1>4, <1>5, NodesAreNumbers
  <2>2. m = k \/ k < m
    BY <1>5, AboveBefore DEF Under
  <2> QED  BY <2>1, <2>2
<1> QED  BY <1>1, <1>4, <1>5, <1>6

\* The loop over d of a node that has one.
LEMMA LoopOfIs ==
  ASSUME NEW n \in Node, NEW d \in LoopDims(n)
  PROVE  /\ LoopOf(n, d) \in Loop /\ LoopOf(n, d).dim = d
         /\ \A i \in DOMAIN Tree[n].loops : Tree[n].loops[i].dim = d => LoopOf(n, d) = Tree[n].loops[i]
         /\ \E i \in DOMAIN Tree[n].loops : LoopOf(n, d) = Tree[n].loops[i]
<1> DEFINE ls == Tree[n].loops
           c == CHOOSE i \in DOMAIN ls : ls[i].dim = d
<1>1. ls \in Seq(Loop) /\ \A i, j \in DOMAIN ls : ls[i].dim = ls[j].dim => i = j
  BY TreeAssumption
<1>2. \E i \in DOMAIN ls : ls[i].dim = d
  BY DEF LoopDims
<1>3. c \in DOMAIN ls /\ ls[c].dim = d
  BY <1>2
<1> HIDE DEF ls, c
<1>4. ls[c] \in Loop
  BY <1>1, <1>3
<1>5. LoopOf(n, d) = ls[c]
  BY DEF LoopOf, ls, c
<1>6. \A i \in DOMAIN ls : ls[i].dim = d => i = c
  BY <1>1, <1>3
<1> QED  BY <1>3, <1>4, <1>5, <1>6 DEF ls

\* The node that the offset of n over d is worked out from, or nullptr.
OffsetFrom(n, d) == IF d \in LoopDims(n) THEN LoopBelow(n, d) ELSE nullptr

\* The offsets, one loop worked out from the next one below it.
LEMMA OffsetsStep ==
  ASSUME NEW d \in Dim, NEW n \in Node
  PROVE  /\ OffsetFrom(n, d) # nullptr =>
              OffsetFrom(n, d) \in Node /\ OffsetFrom(n, d) > n
              /\ d \in LoopDims(OffsetFrom(n, d))
         /\ Offsets[d][n] = IF OffsetFrom(n, d) = nullptr THEN [step |-> 1, last |-> 1]
                            ELSE FromBelow(LoopOf(OffsetFrom(n, d), d), Offsets[d][OffsetFrom(n, d)])
<1> DEFINE Rec(f, m) == LET l == IF d \in LoopDims(m) THEN LoopBelow(m, d) ELSE nullptr
                        IN  IF l = nullptr THEN [step |-> 1, last |-> 1]
                            ELSE FromBelow(LoopOf(l, d), f[l])
           Eq(f) == f = [m \in Node |-> Rec(f, m)]
           F == CHOOSE f : Eq(f)
           next == [m \in Node |-> OffsetFrom(m, d)]
<1>1. Offsets[d] = [m \in Node |-> F[m]]
  BY Zenon DEF Offsets
<1>2. ASSUME NEW m \in Node, OffsetFrom(m, d) # nullptr
      PROVE  OffsetFrom(m, d) \in Node /\ OffsetFrom(m, d) > m /\ d \in LoopDims(OffsetFrom(m, d))
  BY <1>2, LoopBelowFinds DEF OffsetFrom
<1>3. ASSUME NEW f, NEW m
      PROVE  Rec(f, m) = IF OffsetFrom(m, d) = nullptr THEN [step |-> 1, last |-> 1]
                         ELSE FromBelow(LoopOf(OffsetFrom(m, d), d), f[OffsetFrom(m, d)])
  BY Zenon DEF OffsetFrom
<1> DEFINE one == [step |-> 1, last |-> 1]
           V == [step : Int, last : Int]
           up == [p \in Node \X V |-> FromBelow(LoopOf(next[p[1]], d), p[2])]
<1>4. next \in [Node -> Node \cup {nullptr}] /\ \A m \in Node : next[m] # nullptr => next[m] > m
  BY <1>2
<1>5. ASSUME NEW m \in Node, next[m] # nullptr, NEW v \in V
      PROVE  up[<<m, v>>] = FromBelow(LoopOf(next[m], d), v) /\ up[<<m, v>>] \in V
  <2>1. LoopOf(next[m], d) \in Loop
    BY <1>2, <1>5, LoopOfIs
  <2>2. FromBelow(LoopOf(next[m], d), v) \in V
    BY <2>1 DEF FromBelow, Loop
  <2> HIDE DEF V, next
  <2> QED  BY <2>2
<1> HIDE DEF next, up
<1>6. PICK h : SolvesDown(h, one, next, up)
  <2> HIDE DEF one
  <2> QED  BY <1>4, DownwardSolution
<1>7. \A m \in Node : h[m] = IF next[m] = nullptr THEN one ELSE up[<<m, h[next[m]]>>]
  <2> HIDE DEF one
  <2> QED  BY <1>6 DEF SolvesDown
<1>8. \A m \in Node : h[m] \in V
  <2>1. one \in V
    OBVIOUS
  <2>2. ASSUME NEW m \in Node, next[m] # nullptr => h[next[m]] \in V PROVE h[m] \in V
    <3> HIDE DEF one, V
    <3> QED  BY <1>5, <1>7, <2>1, <2>2
  <2> HIDE DEF one, V
  <2> QED  BY <1>4, <2>2, DownwardType
<1>9. \A m \in Node : next[m] = OffsetFrom(m, d)
  BY DEF next
<1>10. ASSUME NEW m \in Node PROVE h[m] = Rec(h, m)
  <2>1. next[m] # nullptr => h[next[m]] \in V
    <3> HIDE DEF V
    <3> QED  BY <1>4, <1>8
  <2>2. h[m] = IF next[m] = nullptr THEN one ELSE FromBelow(LoopOf(next[m], d), h[next[m]])
    <3> HIDE DEF V, one
    <3> QED  BY <1>5, <1>7, <2>1
  <2> HIDE DEF Rec
  <2> QED  BY <1>3, <1>9, <2>2
<1>11. Eq(h)
  <2>1. h = [m \in Node |-> h[m]]
    <3> HIDE DEF one
    <3> QED  BY <1>6 DEF SolvesDown
  <2> HIDE DEF Rec
  <2> QED  BY <1>10, <2>1
<1>12. Eq(F)
  <2> HIDE DEF Eq
  <2> QED  BY <1>11
<1> HIDE DEF F
<1>13. \A m \in Node : F[m] = Rec(F, m)
  <2> HIDE DEF Rec
  <2> QED  BY <1>12
<1> HIDE DEF Rec
<1>14. \A m \in Node : Offsets[d][m] = F[m]
  BY <1>1
<1> QED  BY <1>2, <1>3, <1>13, <1>14

\* The offsets are whole numbers.
LEMMA OffsetsType ==
  ASSUME NEW d \in Dim, NEW n \in Node
  PROVE  Offsets[d][n].step \in Int /\ Offsets[d][n].last \in Int
<1> DEFINE V == [step : Int, last : Int]
           next == [m \in Node |-> OffsetFrom(m, d)]
<1>1. next \in [Node -> Node \cup {nullptr}] /\ \A m \in Node : next[m] # nullptr => next[m] > m
  BY OffsetsStep
<1>2. ASSUME NEW m \in Node, next[m] # nullptr => Offsets[d][next[m]] \in V
      PROVE  Offsets[d][m] \in V
  <2>1. CASE next[m] = nullptr
    <3>1. Offsets[d][m] = [step |-> 1, last |-> 1]
      BY <2>1, OffsetsStep
    <3> QED  BY <3>1
  <2>2. CASE next[m] # nullptr
    <3> DEFINE l == LoopOf(next[m], d)
               o == Offsets[d][next[m]]
    <3>1. /\ next[m] \in Node /\ d \in LoopDims(next[m])
          /\ Offsets[d][m] = FromBelow(l, o)
      BY <2>2, OffsetsStep
    <3>2. l \in Loop
      BY <3>1, LoopOfIs
    <3>3. l.end \in Int /\ l.res \in Int
      <4> HIDE DEF l
      <4> QED  BY <3>2 DEF Loop
    <3>4. o.step \in Int /\ o.last \in Int
      <4> HIDE DEF o
      <4>1. o \in V
        BY <1>2, <2>2 DEF o
      <4> QED  BY <4>1
    <3> HIDE DEF l, o
    <3>5. FromBelow(l, o) \in V
      BY <3>3, <3>4 DEF FromBelow
    <3> QED  BY <3>1, <3>5
  <2> QED  BY <2>1, <2>2
<1>3. Offsets[d][n] \in V
  <2> HIDE DEF V, next
  <2> QED  BY <1>1, <1>2, DownwardType
<1> HIDE DEF next
<1> QED  BY <1>3

\* Products of counts that are at least 1.
LEMMA ProductPositive ==
  ASSUME NEW a \in Nat \ {0}, NEW b \in Nat \ {0}
  PROVE  a * b \in Nat \ {0} /\ (a - 1) * b \in Nat
<1>1. a * b \in Nat /\ (a - 1) * b \in Nat
  OBVIOUS
<1>2. a * b = (a - 1) * b + b
  OBVIOUS
<1> QED  BY <1>1, <1>2

-----------------------------------------------------------------------------
(* The stack of the walk.                                                   *)

\* An activation of visitTileLoop or visitScope.  Every loop counts from 0: its
\* variable is shared by all of its calls, and each of them puts it back.
FrameType == [node : Node, idx : Nat, ori : {0}, start : Nat, end : Int, moved : Int,
              from : Int, kid : Nat]

ActivationType == [loop : Node, start : Nat, end : Int, moved : Int, from : Int]

\* The frame of a loop over d.
OverDim(f, d) == IsLoop(f) /\ DimOf(f) = d

\* g[k] are the activations over d of the first k frames.
Collects(g, fs, d) ==
  /\ g \in [0 .. Len(fs) -> Seq(ActivationType)]
  /\ g[0] = <<>> /\ LoopsIn(fs, d) = g[Len(fs)]
  /\ \A k \in 1 .. Len(fs) :
       g[k] = IF OverDim(fs[k], d) THEN Append(g[k - 1], Activation(fs[k])) ELSE g[k - 1]

\* The activations over d are collected frame by frame.
LEMMA LoopsInPrefixes ==
  ASSUME NEW fs \in Seq(FrameType), NEW d
  PROVE  \E g : Collects(g, fs, d)
<1> DEFINE n == Len(fs)
           V == Seq(ActivationType)
           Rec(f, s) == IF s = {} THEN <<>>
                        ELSE IF IsLoop(fs[Max(s)]) /\ DimOf(fs[Max(s)]) = d
                             THEN Append(f[s \ {Max(s)}], Activation(fs[Max(s)]))
                             ELSE f[s \ {Max(s)}]
           Eq(f) == f = [s \in SUBSET DOMAIN fs |-> Rec(f, s)]
           F == CHOOSE f : Eq(f)
           next(v, k) == IF OverDim(fs[k], d) THEN Append(v, Activation(fs[k])) ELSE v
           step == [p \in V \X (1 .. n) |-> next(p[1], p[2])]
<1>1. LoopsIn(fs, d) = F[DOMAIN fs]
  BY Zenon DEF LoopsIn, FoldLeft, MapThenFoldSet
<1>3. n \in Nat /\ DOMAIN fs = 1 .. n /\ <<>> \in V
  OBVIOUS
<1>4. \A v \in V : \A k \in 1 .. n : next(v, k) \in V
  <2>1. \A k \in 1 .. n : Activation(fs[k]) \in ActivationType
    <3>1. ASSUME NEW f \in FrameType PROVE Activation(f) \in ActivationType
      BY DEF FrameType, ActivationType, Activation
    <3>2. \A k \in 1 .. n : fs[k] \in FrameType
      OBVIOUS
    <3> QED  BY <3>1, <3>2
  <2> QED  BY <2>1
<1> HIDE DEF next, V
<1>5. /\ \A v \in V : \A k \in 1 .. n : step[<<v, k>>] = next(v, k)
      /\ step \in [V \X (1 .. n) -> V]
  <2> HIDE DEF n
  <2> QED  BY <1>4
<1> HIDE DEF n, step
<1>6. PICK h : SolvesSets(h, n, V, <<>>, step)
  BY <1>3, <1>5, SetSolution
<1>7. ASSUME NEW s \in SUBSET (1 .. n), NEW f
      PROVE  Rec(f, s) = IF s = {} THEN <<>> ELSE next(f[s \ {Max(s)}], Max(s))
  BY Zenon DEF next, OverDim
<1>8. ASSUME NEW s \in SUBSET (1 .. n) PROVE h[s] = Rec(h, s)
  <2>1. h[s] = IF s = {} THEN <<>> ELSE step[<<h[s \ {Max(s)}], Max(s)>>]
    BY <1>6 DEF SolvesSets
  <2>2. h[s \ {Max(s)}] \in V
    BY <1>6 DEF SolvesSets
  <2> HIDE DEF Rec
  <2> QED  BY <1>3, <1>5, <1>7, <2>1, <2>2, MaxOfIndices
<1> HIDE DEF Rec
<1>9. Eq(h)
  <2>1. h = [s \in SUBSET (1 .. n) |-> h[s]]
    BY <1>6 DEF SolvesSets
  <2> QED  BY <1>3, <1>8, <2>1
<1>10. Eq(F)
  <2> HIDE DEF Eq
  <2> QED  BY <1>9
<1> HIDE DEF F
<1>11. \A s \in SUBSET (1 .. n) : F[s] = IF s = {} THEN <<>> ELSE next(F[s \ {Max(s)}], Max(s))
  BY <1>3, <1>7, <1>10
<1>12. F[{}] = <<>>
  BY <1>11
<1>13. ASSUME NEW k \in 1 .. n, F[1 .. k - 1] \in V
       PROVE  F[1 .. k] = step[<<F[1 .. k - 1], k>>] /\ F[1 .. k] \in V
  <2>1. Max(1 .. k) = k /\ (1 .. k) \ {k} = 1 .. k - 1
    BY MaxOfPrefix
  <2>2. (1 .. k) \subseteq (1 .. n) /\ k \in 1 .. k
    BY <1>3
  <2>3. F[1 .. k] = next(F[1 .. k - 1], k)
    BY <1>11, <2>1, <2>2
  <2> QED  BY <1>4, <1>5, <1>13, <2>3
<1> DEFINE g == [k \in 0 .. n |-> F[1 .. k]]
<1>14. SolvesPrefixes(g, n, V, <<>>, step)
  BY <1>3, <1>12, <1>13, SetsToPrefixes
<1>16. LoopsIn(fs, d) = g[n]
  BY <1>1, <1>3
<1> HIDE DEF g
<1>17. g \in [0 .. n -> V] /\ g[0] = <<>> /\ \A k \in 1 .. n : g[k] = step[<<g[k - 1], k>>]
  BY <1>14 DEF SolvesPrefixes
<1>18. \A k \in 1 .. n : g[k] = next(g[k - 1], k)
  <2>1. ASSUME NEW k \in 1 .. n PROVE g[k] = next(g[k - 1], k)
    <3>1. k - 1 \in 0 .. n
      BY <1>3
    <3> QED  BY <1>5, <1>17, <3>1
  <2> QED  BY <2>1
<1> QED  BY <1>16, <1>17, <1>18 DEF n, V, next, Collects

\* Two stacks that show the same loops have the same activations over d.
Alike(f, g) == f.node = g.node /\ f.idx = g.idx /\ Activation(f) = Activation(g)

\* Alike stacks have the same activations over d; one more frame adds its own
\* activation if it is a loop over d.
LEMMA LoopsInAlike ==
  ASSUME NEW fs \in Seq(FrameType), NEW gs \in Seq(FrameType), NEW d, Len(fs) <= Len(gs),
         \A i \in 1 .. Len(fs) : Alike(fs[i], gs[i])
  PROVE  /\ Len(fs) = Len(gs) => LoopsIn(fs, d) = LoopsIn(gs, d)
         /\ Len(gs) = Len(fs) + 1 =>
              LoopsIn(gs, d) = IF OverDim(gs[Len(gs)], d)
                               THEN Append(LoopsIn(fs, d), Activation(gs[Len(gs)]))
                               ELSE LoopsIn(fs, d)
<1>1. PICK g : Collects(g, fs, d)
  BY LoopsInPrefixes
<1>2. PICK h : Collects(h, gs, d)
  BY LoopsInPrefixes
<1>3. Len(fs) \in Nat /\ Len(gs) \in Nat
  OBVIOUS
<1> DEFINE G == {k \in 0 .. Len(fs) : g[k] = h[k]}
<1>4. ASSUME NEW k \in 1 .. Len(fs), k - 1 \in G PROVE k \in G
  <2>1. k \in 1 .. Len(gs) /\ g[k - 1] = h[k - 1]
    BY <1>3, <1>4
  <2>2. OverDim(fs[k], d) <=> OverDim(gs[k], d)
    BY DEF OverDim, Alike, IsLoop, DimOf
  <2>3. Activation(fs[k]) = Activation(gs[k])
    BY DEF Alike
  <2> QED  BY <1>1, <1>2, <2>1, <2>2, <2>3 DEF Collects
<1>5. \A k \in 0 .. Len(fs) : k \in G
  <2>1. 0 \in G
    BY <1>1, <1>2, <1>3 DEF Collects
  <2> HIDE DEF G
  <2> QED  BY <1>3, <1>4, <2>1, UpInduction
<1>6. g[Len(fs)] = h[Len(fs)]
  BY <1>3, <1>5
<1>7. ASSUME Len(gs) = Len(fs) + 1
      PROVE  h[Len(gs)] = IF OverDim(gs[Len(gs)], d)
                          THEN Append(h[Len(fs)], Activation(gs[Len(gs)])) ELSE h[Len(fs)]
  <2>1. Len(gs) \in 1 .. Len(gs) /\ Len(gs) - 1 = Len(fs)
    BY <1>3, <1>7
  <2> QED  BY <1>2, <2>1 DEF Collects
<1> QED  BY <1>1, <1>2, <1>6, <1>7 DEF Collects

\* The activations over d are a sequence, empty for the empty stack.
LEMMA LoopsInType ==
  ASSUME NEW fs \in Seq(FrameType), NEW d
  PROVE  LoopsIn(fs, d) \in Seq(ActivationType) /\ LoopsIn(<<>>, d) = <<>>
<1>1. LoopsIn(fs, d) \in Seq(ActivationType)
  <2>1. Len(fs) \in 0 .. Len(fs)
    OBVIOUS
  <2>2. PICK g : Collects(g, fs, d)
    BY LoopsInPrefixes
  <2> QED  BY <2>1, <2>2 DEF Collects
<1>2. LoopsIn(<<>>, d) = <<>>
  <2>1. <<>> \in Seq(FrameType) /\ Len(<<>>) = 0
    OBVIOUS
  <2>2. PICK g : Collects(g, <<>>, d)
    BY <2>1, LoopsInPrefixes
  <2> QED  BY <2>1, <2>2 DEF Collects
<1> QED  BY <1>1, <1>2

\* The nearest loop over d above a node, from that above its parent.
LEMMA LoopAboveStep ==
  ASSUME NEW n \in Node, NEW d
  PROVE  /\ Parent(n) = nullptr => LoopAbove(n, d) = nullptr
         /\ Parent(n) # nullptr =>
              LoopAbove(n, d) = IF Parent(n) \in TileLoops(d) THEN Parent(n)
                                ELSE LoopAbove(Parent(n), d)
<1> DEFINE up(m) == {i \in DOMAIN Ancestors[m] : Ancestors[m][i] \in TileLoops(d)}
           p == Parent(n)
<1>1. ASSUME NEW m \in Node
      PROVE  /\ LoopAbove(m, d) = IF up(m) = {} THEN nullptr ELSE Ancestors[m][Min(up(m))]
             /\ Ancestors[m] \in Seq(Node) /\ up(m) \in SUBSET Nat
             /\ up(m) # {} => Min(up(m)) \in up(m) /\ \A k \in up(m) : Min(up(m)) <= k
  <2>1. Ancestors[m] \in Seq(Node)
    BY AncestorsType
  <2>2. up(m) \in SUBSET Nat
    BY <2>1
  <2>3. up(m) # {} => Min(up(m)) \in up(m) /\ \A k \in up(m) : Min(up(m)) <= k
    <3> HIDE DEF up
    <3> QED  BY <2>2, MinIsLeast
  <2> QED  BY <2>1, <2>2, <2>3 DEF LoopAbove
<1>2. ASSUME Parent(n) = nullptr PROVE LoopAbove(n, d) = nullptr
  <2>1. Ancestors[n] = <<>>
    BY <1>2, AncestorsStep
  <2>2. up(n) = {}
    BY <2>1
  <2> HIDE DEF up
  <2> QED  BY <1>1, <2>2
<1>3. ASSUME Parent(n) # nullptr
      PROVE  LoopAbove(n, d) = IF p \in TileLoops(d) THEN p ELSE LoopAbove(p, d)
  <2>1. p \in Node /\ Ancestors[n] = <<p>> \o Ancestors[p] /\ Ancestors[p] \in Seq(Node)
    BY <1>1, <1>3, AncestorsStep, ParentBefore
  <2> DEFINE A == Ancestors[p]
             B == Ancestors[n]
  <2> HIDE DEF p
  <2>2. /\ DOMAIN B = 1 .. Len(A) + 1 /\ DOMAIN A = 1 .. Len(A) /\ Len(A) \in Nat
        /\ B[1] = p /\ \A i \in 1 .. Len(A) : B[i + 1] = A[i]
    BY <2>1
  <2>3. CASE p \in TileLoops(d)
    <3>1. 1 \in up(n)
      BY <2>2, <2>3
    <3>2. Min(up(n)) = 1
      <4>1. Min(up(n)) \in up(n) /\ Min(up(n)) <= 1
        <5> HIDE DEF up
        <5> QED  BY <1>1, <3>1
      <4>2. Min(up(n)) \in 1 .. Len(A) + 1
        BY <2>2, <4>1
      <4> QED  BY <2>2, <4>1, <4>2
    <3> HIDE DEF up
    <3> QED  BY <1>1, <2>2, <2>3, <3>1, <3>2
  <2>4. CASE p \notin TileLoops(d)
    <3>1. ASSUME NEW i \in up(n) PROVE i - 1 \in up(p) /\ B[i] = A[i - 1] /\ i \in Nat
      <4>1. i \in 1 .. Len(A) + 1 /\ B[i] \in TileLoops(d)
        BY <2>2
      <4>2. i # 1
        BY <2>2, <2>4, <4>1
      <4>3. i - 1 \in 1 .. Len(A) /\ (i - 1) + 1 = i
        BY <2>2, <4>1, <4>2
      <4>4. B[i] = A[i - 1]
        BY <2>2, <4>3
      <4> QED  BY <2>2, <4>1, <4>3, <4>4
    <3>2. ASSUME NEW i \in up(p) PROVE i + 1 \in up(n) /\ i \in Nat
      <4>1. i \in 1 .. Len(A) /\ A[i] \in TileLoops(d)
        BY <2>2
      <4>2. i + 1 \in DOMAIN B /\ B[i + 1] = A[i]
        BY <2>2, <4>1
      <4> QED  BY <4>1, <4>2
    <3> HIDE DEF up
    <3>3. CASE up(n) = {}
      <4>1. up(p) = {}
        BY <3>2, <3>3
      <4> QED  BY <1>1, <2>1, <2>4, <3>3, <4>1
    <3>4. CASE up(n) # {}
      <4> DEFINE i == Min(up(n))
                 j == Min(up(p))
      <4>1. i \in up(n) /\ \A k \in up(n) : i <= k
        BY <1>1, <3>4
      <4>2. i - 1 \in up(p) /\ B[i] = A[i - 1] /\ i \in Nat
        BY <3>1, <4>1
      <4>3. j \in up(p) /\ \A k \in up(p) : j <= k
        BY <1>1, <2>1, <4>2
      <4>4. j + 1 \in up(n) /\ j \in Nat
        BY <3>2, <4>3
      <4> HIDE DEF i, j
      <4>5. j <= i - 1 /\ i <= j + 1
        BY <4>1, <4>2, <4>3, <4>4
      <4>6. j = i - 1
        BY <4>2, <4>4, <4>5
      <4>7. LoopAbove(n, d) = B[i] /\ LoopAbove(p, d) = A[j]
        BY <1>1, <2>1, <3>4, <4>2 DEF i, j
      <4> QED  BY <2>4, <4>2, <4>6, <4>7
    <3> QED  BY <3>3, <3>4
  <2> QED  BY <2>3, <2>4
<1> QED  BY <1>2, <1>3

\* A loop of a tile, or the body of a Scope.
FrameFits(f) ==
  \/ Tree[f.node].kind = "Tile" /\ f.idx \in 1 .. Len(Tree[f.node].loops)
  \/ Tree[f.node].kind = "Scope" /\ f.idx = 0

\* The body of the frame visits the children of the node.
VisitsChildren(f) == f.idx = 0 \/ isInnermost(f)

\* Frame g was entered from the body of frame f: the next loop of the nest, or
\* the first loop of a child, or a child that is a Scope.
EnteredFrom(f, g) ==
  \/ g.idx > 1 /\ g.node = f.node /\ f.idx = g.idx - 1
  \/ g.idx <= 1 /\ Parent(g.node) = f.node /\ VisitsChildren(f)

\* The stack goes from the first loop of the root r inwards.
StackShape(fs, r) ==
  /\ fs \in Seq(FrameType)
  /\ \A i \in 1 .. Len(fs) : FrameFits(fs[i])
  /\ fs # <<>> => fs[1].node = r /\ fs[1].idx = 1
  /\ \A i \in 2 .. Len(fs) : EnteredFrom(fs[i - 1], fs[i])

\* The innermost loop over d that runs when f is the innermost frame.
Nearest(f, d) ==
  IF \E j \in 1 .. f.idx : Tree[f.node].loops[j].dim = d THEN f.node
  ELSE LoopAbove(f.node, d)

\* The innermost of the activations over d is that of the nearest loop over d,
\* and there is none if there is no such loop.
OnTop(ls, m) == IF m = nullptr THEN ls = <<>> ELSE ls # <<>> /\ ls[Len(ls)].loop = m

\* A frame that is entered has the nearest loop of the frame under it, unless
\* it is a loop over d itself.
LEMMA NearestStep ==
  ASSUME NEW f \in FrameType, NEW g \in FrameType, FrameFits(f), FrameFits(g),
         EnteredFrom(f, g), NEW d
  PROVE  Nearest(g, d) = IF OverDim(g, d) THEN g.node ELSE Nearest(f, d)
<1> USE DEF FrameType
<1>1. CASE g.idx > 1
  <2>1. g.node = f.node /\ f.idx = g.idx - 1 /\ f.idx \in Nat /\ g.idx \in Nat
    BY <1>1 DEF EnteredFrom
  <2>2. OverDim(g, d) <=> Tree[g.node].loops[g.idx].dim = d
    BY <1>1 DEF OverDim, IsLoop, DimOf
  <2>3. (\E j \in 1 .. g.idx : Tree[g.node].loops[j].dim = d)
          <=> (\E j \in 1 .. f.idx : Tree[g.node].loops[j].dim = d) \/ OverDim(g, d)
    <3>1. 1 .. g.idx = (1 .. f.idx) \cup {g.idx}
      BY <1>1, <2>1
    <3> QED  BY <2>2, <3>1
  <2> QED  BY <2>1, <2>3 DEF Nearest
<1>2. CASE ~(g.idx > 1)
  <2> DEFINE p == f.node
  <2>1. Parent(g.node) = p /\ VisitsChildren(f) /\ g.node \in Node /\ p \in Node /\ f.idx \in Nat
    BY <1>2 DEF EnteredFrom
  <2>2. Parent(g.node) # nullptr
    BY <2>1, NodesAreNumbers DEF nullptr
  <2>3. LoopAbove(g.node, d) = IF p \in TileLoops(d) THEN p ELSE LoopAbove(p, d)
    BY <2>1, <2>2, LoopAboveStep
  <2>4. Nearest(f, d) = LoopAbove(g.node, d)
    <3>1. CASE f.idx = 0
      <4>1. Tree[p].kind = "Scope"
        BY <3>1 DEF FrameFits
      <4>2. p \notin TileLoops(d)
        BY <4>1 DEF TileLoops
      <4> QED  BY <2>3, <3>1, <4>2 DEF Nearest
    <3>2. CASE f.idx # 0
      <4>1. Tree[p].kind = "Tile" /\ f.idx = Len(Tree[p].loops)
        BY <2>1, <3>2 DEF FrameFits, VisitsChildren, isInnermost
      <4>2. Tree[p].loops \in Seq(Loop)
        BY <2>1, TreeAssumption
      <4>3. p \in TileLoops(d) <=> \E j \in 1 .. f.idx : Tree[p].loops[j].dim = d
        <5> DEFINE ls == Tree[p].loops
        <5>1. DOMAIN ls = 1 .. f.idx
          BY <4>1, <4>2
        <5> HIDE DEF ls
        <5>2. d \in LoopDims(p) <=> \E j \in 1 .. f.idx : ls[j].dim = d
          BY <5>1 DEF LoopDims, ls
        <5> QED  BY <2>1, <4>1, <5>2 DEF TileLoops, ls
      <4> QED  BY <2>3, <4>3 DEF Nearest
    <3> QED  BY <3>1, <3>2
  <2>5. CASE g.idx = 0
    <3>1. Nearest(g, d) = LoopAbove(g.node, d) /\ ~OverDim(g, d)
      BY <2>5 DEF Nearest, OverDim, IsLoop
    <3> QED  BY <2>4, <3>1
  <2>6. CASE g.idx = 1
    <3>1. OverDim(g, d) <=> Tree[g.node].loops[1].dim = d
      BY <2>6 DEF OverDim, IsLoop, DimOf
    <3>2. (\E j \in 1 .. g.idx : Tree[g.node].loops[j].dim = d) <=> OverDim(g, d)
      BY <2>6, <3>1
    <3> QED  BY <2>4, <3>2 DEF Nearest
  <2>7. g.idx \in Nat
    OBVIOUS
  <2> QED  BY <1>2, <2>5, <2>6, <2>7
<1> QED  BY <1>1, <1>2

\* In every stack of that shape the innermost activation over d is that of
\* the nearest loop over d of the innermost frame.
LEMMA TopLoop ==
  ASSUME NEW r \in Roots, NEW fs, StackShape(fs, r), fs # <<>>, NEW d
  PROVE  OnTop(LoopsIn(fs, d), Nearest(fs[Len(fs)], d))
<1>1. fs \in Seq(FrameType) /\ Len(fs) \in Nat \ {0} /\ \A i \in 1 .. Len(fs) : fs[i] \in FrameType
  BY DEF StackShape
<1>2. PICK g : Collects(g, fs, d)
  BY <1>1, LoopsInPrefixes
<1> DEFINE n == Len(fs)
           G == {k \in 0 .. n : k # 0 => OnTop(g[k], Nearest(fs[k], d))}
<1>3. ASSUME NEW k \in 1 .. n, k - 1 \in G PROVE k \in G
  <2>1. /\ fs[k] \in FrameType /\ FrameFits(fs[k]) /\ fs[k].node \in Node /\ fs[k].node # nullptr
        /\ k - 1 \in 0 .. n /\ k \in 0 .. n /\ g[k - 1] \in Seq(ActivationType)
    <3>1. fs[k] \in FrameType /\ FrameFits(fs[k])
      BY <1>1 DEF StackShape
    <3>2. fs[k].node \in Node /\ fs[k].node # nullptr
      BY <3>1, NodesAreNumbers DEF FrameType, nullptr
    <3>3. k - 1 \in 0 .. n /\ k \in 0 .. n
      BY <1>1
    <3>4. g[k - 1] \in Seq(ActivationType)
      BY <1>2, <3>3 DEF Collects
    <3> QED  BY <3>1, <3>2, <3>3, <3>4
  <2>2. g[k] = IF OverDim(fs[k], d) THEN Append(g[k - 1], Activation(fs[k])) ELSE g[k - 1]
    BY <1>2 DEF Collects
  <2>3. OverDim(fs[k], d) => OnTop(g[k], fs[k].node)
    <3> SUFFICES ASSUME OverDim(fs[k], d) PROVE OnTop(g[k], fs[k].node)
      OBVIOUS
    <3>1. Activation(fs[k]) \in ActivationType /\ Activation(fs[k]).loop = fs[k].node
      BY <2>1 DEF Activation, ActivationType, FrameType
    <3> HIDE DEF G
    <3>2. g[k] # <<>> /\ g[k][Len(g[k])] = Activation(fs[k])
      BY <2>1, <2>2, <3>1
    <3> QED  BY <2>1, <3>1, <3>2 DEF OnTop
  <2>4. CASE k = 1
    <3>1. fs[1].node = r /\ fs[1].idx = 1 /\ g[0] = <<>>
      BY <1>2 DEF StackShape, Collects
    <3>2. LoopAbove(r, d) = nullptr
      BY LoopAboveStep DEF Roots
    <3>3. ~OverDim(fs[1], d) => Nearest(fs[1], d) = nullptr
      BY <3>1, <3>2 DEF Nearest, OverDim, IsLoop, DimOf
    <3>4. OverDim(fs[1], d) => Nearest(fs[1], d) = fs[1].node
      BY <3>1 DEF Nearest, OverDim, IsLoop, DimOf
    <3>5. OnTop(g[1], Nearest(fs[1], d))
      <4>1. CASE OverDim(fs[1], d)
        BY <2>3, <2>4, <3>4, <4>1
      <4>2. CASE ~OverDim(fs[1], d)
        <5>1. g[1] = g[1 - 1] /\ 1 - 1 = 0
          BY <2>2, <2>4, <4>2
        <5> QED  BY <3>1, <3>3, <4>2, <5>1 DEF OnTop
      <4> QED  BY <4>1, <4>2
    <3> QED  BY <2>1, <2>4, <3>5
  <2>5. CASE k # 1
    <3>1. /\ k - 1 \in 1 .. n /\ k \in 2 .. n /\ k - 1 # 0
          /\ fs[k - 1] \in FrameType /\ FrameFits(fs[k - 1])
      BY <1>1, <2>5 DEF StackShape
    <3>2. EnteredFrom(fs[k - 1], fs[k])
      BY <3>1 DEF StackShape
    <3>3. Nearest(fs[k], d) = IF OverDim(fs[k], d) THEN fs[k].node ELSE Nearest(fs[k - 1], d)
      BY <2>1, <3>1, <3>2, NearestStep
    <3>4. OnTop(g[k - 1], Nearest(fs[k - 1], d))
      BY <1>3, <3>1
    <3> QED  BY <2>1, <2>2, <2>3, <3>3, <3>4
  <2> QED  BY <2>4, <2>5
<1>4. \A k \in 0 .. n : k \in G
  <2>1. 0 \in G /\ n \in Nat
    BY <1>1
  <2> HIDE DEF G
  <2> QED  BY <1>3, <2>1, UpInduction
<1>5. OnTop(g[n], Nearest(fs[n], d))
  BY <1>1, <1>4
<1> QED  BY <1>2, <1>5 DEF Collects

\* A loop over d is entered from inside the nearest loop over d above it: a
\* nest names a dimension once.
LEMMA NearestAbove ==
  ASSUME NEW f \in FrameType, NEW g \in FrameType, FrameFits(f), FrameFits(g),
         EnteredFrom(f, g), NEW d, OverDim(g, d)
  PROVE  Nearest(f, d) = LoopAbove(g.node, d)
<1> USE DEF FrameType
<1>0. g.idx \in Nat /\ g.idx > 0 /\ f.idx \in Nat /\ g.node \in Node
  BY DEF OverDim, IsLoop
<1>1. CASE g.idx > 1
  <2> DEFINE ls == Tree[g.node].loops
  <2>1. g.node = f.node /\ f.idx = g.idx - 1
    BY <1>1 DEF EnteredFrom
  <2>2. ls[g.idx].dim = d /\ g.idx \in 1 .. Len(ls)
    BY <1>0 DEF OverDim, DimOf, FrameFits
  <2>3. ls \in Seq(Loop) /\ \A i, j \in DOMAIN ls : ls[i].dim = ls[j].dim => i = j
    BY <1>0, TreeAssumption
  <2> HIDE DEF ls
  <2>4. ASSUME NEW j \in 1 .. f.idx, ls[j].dim = d PROVE FALSE
    <3> DEFINE x == g.idx
    <3>0. j \in 1 .. x - 1 /\ x \in Nat /\ x \in 1 .. Len(ls)
      BY <1>0, <2>1, <2>2, <2>4
    <3>1. j \in DOMAIN ls /\ g.idx \in DOMAIN ls /\ j # g.idx
      <4> HIDE DEF x
      <4> DEFINE k == Len(ls)
      <4>1. k \in Nat /\ DOMAIN ls = 1 .. k
        BY <2>3
      <4>2. j \in 1 .. x - 1 /\ x \in Nat /\ x \in 1 .. k
        BY <3>0
      <4> HIDE DEF k
      <4>3. j \in 1 .. k /\ x \in 1 .. k /\ j # x
        BY <4>1, <4>2
      <4> QED  BY <4>1, <4>3 DEF x
    <3> QED  BY <2>2, <2>3, <2>4, <3>1
  <2> QED  BY <2>1, <2>4 DEF Nearest, ls
<1>2. CASE g.idx = 1
  <2> DEFINE p == f.node
  <2>1. Parent(g.node) = p /\ VisitsChildren(f) /\ p \in Node
    BY <1>2 DEF EnteredFrom
  <2>2. Parent(g.node) # nullptr
    BY <2>1, NodesAreNumbers DEF nullptr
  <2>3. LoopAbove(g.node, d) = IF p \in TileLoops(d) THEN p ELSE LoopAbove(p, d)
    BY <1>0, <2>1, <2>2, LoopAboveStep
  <2>4. CASE f.idx = 0
    <3>1. p \notin TileLoops(d)
      BY <2>4 DEF FrameFits, TileLoops
    <3> QED  BY <2>3, <2>4, <3>1 DEF Nearest
  <2>5. CASE f.idx # 0
    <3> DEFINE ls == Tree[p].loops
    <3>1. Tree[p].kind = "Tile" /\ f.idx = Len(ls) /\ ls \in Seq(Loop)
      BY <2>1, <2>5, TreeAssumption DEF FrameFits, VisitsChildren, isInnermost
    <3> HIDE DEF ls
    <3>2. DOMAIN ls = 1 .. f.idx
      BY <3>1
    <3>3. p \in TileLoops(d) <=> \E j \in 1 .. f.idx : ls[j].dim = d
      BY <2>1, <3>1, <3>2 DEF TileLoops, LoopDims, ls
    <3> QED  BY <2>3, <3>3 DEF Nearest, ls
  <2> QED  BY <2>4, <2>5
<1> QED  BY <1>0, <1>1, <1>2

\* A frame more on a stack.
LEMMA ShapePush ==
  ASSUME NEW r, NEW fs, StackShape(fs, r), NEW f \in FrameType, FrameFits(f),
         IF fs = <<>> THEN f.node = r /\ f.idx = 1 ELSE EnteredFrom(fs[Len(fs)], f)
  PROVE  StackShape(Append(fs, f), r)
<1> DEFINE gs == Append(fs, f)
<1>1. fs \in Seq(FrameType) /\ Len(fs) \in Nat
  BY DEF StackShape
<1>2. /\ gs \in Seq(FrameType) /\ Len(gs) = Len(fs) + 1 /\ gs[Len(fs) + 1] = f
      /\ \A i \in 1 .. Len(fs) : gs[i] = fs[i]
  BY <1>1, AppendProperties
<1> HIDE DEF gs
<1>3. \A i \in 1 .. Len(gs) : FrameFits(gs[i])
  <2>1. \A i \in 1 .. Len(gs) : i = Len(fs) + 1 \/ i \in 1 .. Len(fs)
    BY <1>1, <1>2
  <2> QED  BY <1>2, <2>1 DEF StackShape
<1>4. gs[1].node = r /\ gs[1].idx = 1
  <2>1. CASE fs = <<>>
    <3>1. gs[1] = f
      BY <1>1, <1>2, <2>1
    <3> QED  BY <2>1, <3>1
  <2>2. CASE fs # <<>>
    <3>1. gs[1] = fs[1]
      BY <1>1, <1>2, <2>2
    <3> QED  BY <2>2, <3>1 DEF StackShape
  <2> QED  BY <2>1, <2>2
<1>5. ASSUME NEW i \in 2 .. Len(gs) PROVE EnteredFrom(gs[i - 1], gs[i])
  <2>1. CASE i = Len(fs) + 1
    <3>1. fs # <<>> /\ gs[i - 1] = fs[Len(fs)] /\ gs[i] = f
      BY <1>1, <1>2, <2>1
    <3> QED  BY <3>1
  <2>2. CASE i # Len(fs) + 1
    <3>1. i \in 2 .. Len(fs) /\ gs[i - 1] = fs[i - 1] /\ gs[i] = fs[i]
      BY <1>1, <1>2, <2>2
    <3> QED  BY <3>1 DEF StackShape
  <2> QED  BY <2>1, <2>2
<1>6. StackShape(gs, r)
  BY <1>2, <1>3, <1>4, <1>5 DEF StackShape
<1> QED  BY <1>6 DEF gs

\* The lower part of a stack, with the same loops.
LEMMA ShapeKept ==
  ASSUME NEW r, NEW fs, StackShape(fs, r), NEW gs \in Seq(FrameType), Len(gs) <= Len(fs),
         \A i \in 1 .. Len(gs) : gs[i].node = fs[i].node /\ gs[i].idx = fs[i].idx
  PROVE  StackShape(gs, r)
<1>1. fs \in Seq(FrameType) /\ Len(fs) \in Nat /\ Len(gs) \in Nat
  BY DEF StackShape
<1>2. \A i \in 1 .. Len(gs) : FrameFits(gs[i])
  <2>1. \A i \in 1 .. Len(gs) : i \in 1 .. Len(fs)
    BY <1>1
  <2> QED  BY <2>1 DEF StackShape, FrameFits
<1>3. gs # <<>> => gs[1].node = r /\ gs[1].idx = 1
  <2> SUFFICES ASSUME gs # <<>> PROVE gs[1].node = r /\ gs[1].idx = 1
    OBVIOUS
  <2>1. 1 \in 1 .. Len(gs) /\ fs # <<>>
    BY <1>1
  <2> QED  BY <2>1 DEF StackShape
<1>4. ASSUME NEW i \in 2 .. Len(gs) PROVE EnteredFrom(gs[i - 1], gs[i])
  <2>1. i \in 2 .. Len(fs) /\ i \in 1 .. Len(gs) /\ i - 1 \in 1 .. Len(gs)
    BY <1>1
  <2>2. EnteredFrom(fs[i - 1], fs[i])
    BY <2>1 DEF StackShape
  <2>3. /\ gs[i].node = fs[i].node /\ gs[i].idx = fs[i].idx
        /\ gs[i - 1].node = fs[i - 1].node /\ gs[i - 1].idx = fs[i - 1].idx
    BY <2>1
  <2> QED  BY <2>2, <2>3 DEF EnteredFrom, VisitsChildren, isInnermost
<1> QED  BY <1>2, <1>3, <1>4 DEF StackShape

\* The frame at the top of a stack replaced, and taken away.
LEMMA ReplaceTop ==
  ASSUME NEW fs \in Seq(FrameType), fs # <<>>, NEW f \in FrameType
  PROVE  LET gs == [fs EXCEPT ![Len(fs)] = f] IN
           /\ gs \in Seq(FrameType) /\ Len(gs) = Len(fs) /\ gs # <<>>
           /\ gs[Len(fs)] = f
           /\ \A i \in 1 .. Len(fs) : i # Len(fs) => gs[i] = fs[i]
<1> DEFINE gs == [fs EXCEPT ![Len(fs)] = f]
<1>1. Len(fs) \in Nat \ {0} /\ fs \in [1 .. Len(fs) -> FrameType]
  OBVIOUS
<1>2. gs \in [1 .. Len(fs) -> FrameType] /\ gs[Len(fs)] = f
  BY <1>1
<1>3. gs \in Seq(FrameType) /\ Len(gs) = Len(fs)
  BY <1>1, <1>2
<1>4. \A i \in 1 .. Len(fs) : i # Len(fs) => gs[i] = fs[i]
  BY <1>1
<1>5. gs # <<>>
  <2> HIDE DEF gs
  <2> QED  BY <1>1, <1>3
<1> QED  BY <1>2, <1>3, <1>4, <1>5

\* The stack without its innermost frame.
LEMMA DropTop ==
  ASSUME NEW fs \in Seq(FrameType), fs # <<>>
  PROVE  LET gs == SubSeq(fs, 1, Len(fs) - 1) IN
           /\ gs \in Seq(FrameType) /\ Len(gs) = Len(fs) - 1
           /\ \A i \in 1 .. Len(fs) - 1 : gs[i] = fs[i]
<1> DEFINE n == Len(fs) - 1
           gs == SubSeq(fs, 1, n)
<1>1. n \in Nat /\ \A i \in 1 .. n : fs[i] \in FrameType /\ i \in 1 .. Len(fs)
  OBVIOUS
<1>2. gs \in Seq(FrameType) /\ Len(gs) = n
  <2> HIDE DEF n
  <2> QED  BY <1>1
<1>3. \A i \in 1 .. n : gs[i] = fs[i]
  <2> HIDE DEF n
  <2> QED  BY <1>1
<1> QED  BY <1>2, <1>3

-----------------------------------------------------------------------------
(* The walk implements the protocol of module DimWalk in every dimension.   *)

\* The innermost frame is a loop over d and is between two iterations.
Testing(d) == frames # <<>> /\ OverDim(Current, d) /\ Current.kid = 0

\* The flags over d are those of the activations in whose body the walk is.
FlagsFit(d) ==
  Len(vec_last_dim_[d]) = Len(LoopFrames(d)) - (IF Testing(d) THEN 1 ELSE 0)

\* Every loop variable is where a call has to find it.
StartsZero == loop_start = [n \in NodesOf[root] |-> [i \in DOMAIN Tree[n].loops |-> 0]]

\* The inductive invariant of the walk, seen as a stack.
WalkInv ==
  /\ root \in Roots
  /\ StackShape(frames, root)
  /\ StartsZero
  /\ vec_last_dim_ \in [Dim -> Seq(BOOLEAN)]
  /\ dim_skew \in [Dim -> Int]
  /\ \A d \in Dim : FlagsFit(d)

\* A step of the protocol of dimension d.
WalkStep(d) == [Walk(d)!Next]_(Walk(d)!vars)

\* The types of the stack.
LEMMA StackTypes ==
  ASSUME WalkInv
  PROVE  /\ frames \in Seq(FrameType) /\ Len(frames) \in Nat
         /\ frames # <<>> => /\ Len(frames) >= 1 /\ Current \in FrameType /\ FrameFits(Current)
                             /\ Current.node \in Node /\ Current.idx \in Nat /\ Current.kid \in Nat
         /\ \A d \in Dim : /\ LoopFrames(d) \in Seq(ActivationType)
                           /\ vec_last_dim_[d] \in Seq(BOOLEAN) /\ dim_skew[d] \in Int
<1>1. frames \in Seq(FrameType) /\ Len(frames) \in Nat
  BY DEF WalkInv, StackShape
<1>2. ASSUME frames # <<>>
      PROVE  /\ Len(frames) >= 1 /\ Current \in FrameType /\ FrameFits(Current)
             /\ Current.node \in Node /\ Current.idx \in Nat /\ Current.kid \in Nat
  <2>1. Len(frames) \in 1 .. Len(frames) /\ Len(frames) >= 1
    BY <1>1, <1>2
  <2>2. Current \in FrameType /\ FrameFits(Current)
    BY <1>1, <2>1 DEF WalkInv, StackShape, Current
  <2>3. Current.node \in Node /\ Current.idx \in Nat /\ Current.kid \in Nat
    BY <2>2 DEF FrameType
  <2> QED  BY <2>1, <2>2, <2>3
<1>3. ASSUME NEW d \in Dim
      PROVE  /\ LoopFrames(d) \in Seq(ActivationType)
             /\ vec_last_dim_[d] \in Seq(BOOLEAN) /\ dim_skew[d] \in Int
  BY <1>1, LoopsInType DEF LoopFrames, WalkInv
<1> QED  BY <1>1, <1>2, <1>3

\* The dimension of a loop of the walk.
LEMMA LoopOfFrame ==
  ASSUME NEW f \in FrameType, FrameFits(f), IsLoop(f)
  PROVE  /\ DimOf(f) \in Dim /\ f.node \in TileLoops(DimOf(f))
         /\ LoopOf(f.node, DimOf(f)) = Tree[f.node].loops[f.idx]
         /\ Tree[f.node].loops[f.idx] \in Loop
<1> DEFINE ls == Tree[f.node].loops
<1>1. f.node \in Node /\ f.idx \in Nat /\ f.idx > 0
  BY DEF FrameType, IsLoop
<1>2. Tree[f.node].kind = "Tile" /\ f.idx \in 1 .. Len(ls)
  BY <1>1 DEF FrameFits
<1>3. ls \in Seq(Loop)
  BY <1>1, TreeAssumption
<1>4. f.idx \in DOMAIN ls /\ ls[f.idx] \in Loop
  <2> HIDE DEF ls
  <2> QED  BY <1>2, <1>3
<1>5. DimOf(f) = ls[f.idx].dim
  BY DEF DimOf
<1>6. DimOf(f) \in LoopDims(f.node)
  BY <1>4, <1>5 DEF LoopDims
<1>7. DimOf(f) \in Dim
  <2> HIDE DEF ls
  <2> QED  BY <1>4, <1>5 DEF Loop
<1>8. LoopOf(f.node, DimOf(f)) = ls[f.idx]
  BY <1>1, <1>4, <1>5, <1>6, LoopOfIs
<1> QED  BY <1>1, <1>2, <1>4, <1>6, <1>7, <1>8 DEF TileLoops

\* The nearest loop over d above a node is a loop over d.
LEMMA LoopAboveIs ==
  ASSUME NEW n \in Node, NEW d, LoopAbove(n, d) # nullptr
  PROVE  LoopAbove(n, d) \in TileLoops(d)
<1> DEFINE up == {i \in DOMAIN Ancestors[n] : Ancestors[n][i] \in TileLoops(d)}
<1>1. up # {} /\ LoopAbove(n, d) = Ancestors[n][Min(up)]
  BY DEF LoopAbove
<1>2. up \in SUBSET Nat
  BY AncestorsType
<1>3. Min(up) \in up
  <2> HIDE DEF up
  <2> QED  BY <1>1, <1>2, MinIsLeast
<1> QED  BY <1>1, <1>3

\* A loop is entered: a step of the protocol of its dimension, and of no other.
LEMMA PushStep ==
  ASSUME WalkInv, UNCHANGED <<root, loop_start, vec_last_dim_, dim_skew>>,
         NEW f \in FrameType, FrameFits(f), frames' = Append(frames, f),
         IF frames = <<>> THEN f.node = root /\ f.idx = 1
                          ELSE Current.kid > 0 /\ EnteredFrom(Current, f),
         f.idx = 0 \/ f = LoopFrame(f.node, f.idx)
  PROVE  WalkInv' /\ \A d \in Dim : WalkStep(d)
<1>1. /\ frames \in Seq(FrameType) /\ Len(frames) \in Nat
      /\ frames # <<>> => /\ Len(frames) >= 1 /\ Current \in FrameType /\ FrameFits(Current)
                          /\ Current.kid \in Nat
      /\ \A d \in Dim : /\ LoopFrames(d) \in Seq(ActivationType)
                        /\ vec_last_dim_[d] \in Seq(BOOLEAN) /\ dim_skew[d] \in Int
  BY StackTypes
<1>2. /\ Append(frames, f) \in Seq(FrameType) /\ Len(Append(frames, f)) = Len(frames) + 1
      /\ Append(frames, f)[Len(frames) + 1] = f
      /\ \A i \in 1 .. Len(frames) : Append(frames, f)[i] = frames[i]
      /\ Append(frames, f) # <<>>
  BY <1>1, AppendProperties
<1>3. /\ frames' # <<>> /\ Current' = f
  BY <1>2 DEF Current
<1>4. StackShape(frames', root')
  BY ShapePush DEF WalkInv, Current
<1>5. ASSUME NEW d \in Dim
      PROVE  LoopFrames(d)' = IF OverDim(f, d) THEN Append(LoopFrames(d), Activation(f))
                              ELSE LoopFrames(d)
  <2>1. \A i \in 1 .. Len(frames) : Alike(frames[i], Append(frames, f)[i])
    BY <1>2 DEF Alike
  <2>2. LoopsIn(Append(frames, f), d) =
          IF OverDim(f, d) THEN Append(LoopsIn(frames, d), Activation(f)) ELSE LoopsIn(frames, d)
    <3> DEFINE gs == Append(frames, f)
    <3>1. gs \in Seq(FrameType) /\ Len(gs) = Len(frames) + 1 /\ gs[Len(gs)] = f
          /\ Len(frames) <= Len(gs) /\ \A i \in 1 .. Len(frames) : Alike(frames[i], gs[i])
      BY <1>1, <1>2, <2>1
    <3> HIDE DEF gs
    <3>2. LoopsIn(gs, d) =
            IF OverDim(gs[Len(gs)], d) THEN Append(LoopsIn(frames, d), Activation(gs[Len(gs)]))
            ELSE LoopsIn(frames, d)
      BY <1>1, <3>1, LoopsInAlike
    <3> QED  BY <3>1, <3>2 DEF gs
  <2> QED  BY <2>2 DEF LoopFrames
<1>6. ASSUME NEW d \in Dim PROVE ~Testing(d) /\ Len(vec_last_dim_[d]) = Len(LoopFrames(d))
  <2>1. ~Testing(d)
    BY <1>1 DEF Testing
  <2> QED  BY <1>1, <2>1 DEF WalkInv, FlagsFit
<1>7. f.idx > 0 => f.kid = 0 /\ f.start = f.ori
  BY DEF LoopFrame, FrameType
<1>8. ASSUME NEW d \in Dim PROVE FlagsFit(d)'
  <2>1. CASE OverDim(f, d)
    <3>1. Testing(d)'
      BY <1>3, <1>7, <2>1 DEF Testing, OverDim, IsLoop, DimOf
    <3>2. Len(LoopFrames(d)') = Len(LoopFrames(d)) + 1
      <4>1. Activation(f) \in ActivationType
        BY DEF Activation, ActivationType, FrameType
      <4> QED  BY <1>1, <1>5, <2>1, <4>1
    <3>3. vec_last_dim_' = vec_last_dim_ /\ Len(LoopFrames(d)) \in Nat
      BY <1>1
    <3> QED  BY <1>6, <3>1, <3>2, <3>3 DEF FlagsFit
  <2>2. CASE ~OverDim(f, d)
    <3>1. ~Testing(d)'
      BY <1>3, <2>2 DEF Testing, OverDim, IsLoop, DimOf
    <3>2. LoopFrames(d)' = LoopFrames(d) /\ vec_last_dim_' = vec_last_dim_
      BY <1>5, <2>2
    <3>3. Len(LoopFrames(d)) \in Nat
      BY <1>1
    <3> QED  BY <1>6, <3>1, <3>2, <3>3 DEF FlagsFit
  <2> QED  BY <2>1, <2>2
<1>9. WalkInv'
  BY <1>4, <1>8 DEF WalkInv, StartsZero
<1>10. ASSUME NEW d \in Dim, OverDim(f, d) PROVE Walk(d)!Enter(f.node)
  <2> DEFINE n == f.node
             ls == LoopFrames(d)
             fl == vec_last_dim_[d]
  <2>1. IsLoop(f) /\ DimOf(f) = d /\ f.node \in Node /\ f.idx > 0
    BY <1>10 DEF OverDim, IsLoop, FrameType
  <2>2. n \in TileLoops(d) /\ LoopOf(n, d) = Tree[n].loops[f.idx]
    BY <2>1, LoopOfFrame
  <2>3. OnTop(ls, LoopAbove(n, d))
    <3>1. CASE frames = <<>>
      <4>1. ls = <<>>
        BY <1>1, <3>1, LoopsInType DEF LoopFrames
      <4>2. LoopAbove(n, d) = nullptr
        BY <2>1, <3>1, LoopAboveStep DEF WalkInv, Roots
      <4> QED  BY <4>1, <4>2 DEF OnTop
    <3>2. CASE frames # <<>>
      <4>1. Nearest(Current, d) = LoopAbove(n, d)
        BY <1>1, <1>10, <3>2, NearestAbove
      <4>2. OnTop(ls, Nearest(Current, d))
        BY <3>2, TopLoop DEF WalkInv, LoopFrames, Current
      <4> QED  BY <4>1, <4>2
    <3> QED  BY <3>1, <3>2
  <2>4. Parent(n) = nullptr => ls = <<>> /\ fl = <<>>
    <3> SUFFICES ASSUME Parent(n) = nullptr PROVE ls = <<>> /\ fl = <<>>
      OBVIOUS
    <3>1. ls = <<>>
      BY <2>1, <2>3, LoopAboveStep DEF OnTop
    <3>2. Len(fl) = 0
      BY <1>6, <3>1
    <3> QED  BY <1>1, <3>1, <3>2
  <2>5. f.end = IF \A j \in 1 .. Len(fl) : fl[j] THEN LoopOf(n, d).res ELSE LoopOf(n, d).end
    <3>1. f.end = IF Parent(n) = nullptr \/ isLastLoop(d) THEN LoopOf(n, d).res
                                                          ELSE LoopOf(n, d).end
      <4>1. f = LoopFrame(n, f.idx)
        BY <2>1 DEF FrameType
      <4>2. f.end = LoopFrame(n, f.idx).end
        BY <4>1
      <4>3. Tree[n].loops[f.idx].dim = d
        BY <2>1 DEF DimOf
      <4> QED  BY <2>2, <4>2, <4>3 DEF LoopFrame
    <3>2. DOMAIN fl = 1 .. Len(fl)
      BY <1>1
    <3>3. isLastLoop(d) <=> \A j \in 1 .. Len(fl) : fl[j]
      BY <3>2 DEF isLastLoop
    <3>4. Parent(n) = nullptr => \A j \in 1 .. Len(fl) : fl[j]
      BY <2>4
    <3> QED  BY <3>1, <3>3, <3>4
  <2>6. Activation(f) = [loop |-> n, start |-> 0, end |-> f.end, moved |-> 0,
                         from |-> dim_skew[d]]
    <3>1. f = LoopFrame(n, f.idx) /\ Tree[n].loops[f.idx].dim = d
      BY <2>1 DEF FrameType, DimOf
    <3>2. f.start = f.ori /\ f.moved = 0 /\ f.from = dim_skew[d] /\ f.ori = 0
      BY <3>1 DEF LoopFrame, FrameType
    <3> QED  BY <3>2 DEF Activation
  <2>7. LoopFrames(d)' = Append(ls, Activation(f))
    BY <1>5, <1>10
  <2>8. Walk(d)!InBody
    BY <1>6 DEF Walk!InBody
  <2>9. Walk(d)!LoopEnd(n) = f.end
    BY <2>2, <2>5 DEF Walk!LoopEnd, Walk!isLastLoop, Walk!AllLast
  <2>10. IF ls = <<>> THEN n \in LoopsInside[d][nullptr]
         ELSE n \in [k \in TileLoops(d) |-> LoopsInside[d][k]][ls[Len(ls)].loop]
    <3>0. \A k \in TileLoops(d) \cup {nullptr} :
            LoopsInside[d][k] = {m \in TileLoops(d) : LoopAbove(m, d) = k}
      BY DEF LoopsInside
    <3>1. CASE LoopAbove(n, d) = nullptr
      BY <2>2, <2>3, <3>0, <3>1 DEF OnTop
    <3>2. CASE LoopAbove(n, d) # nullptr
      <4>1. ls # <<>> /\ ls[Len(ls)].loop = LoopAbove(n, d)
        BY <2>3, <3>2 DEF OnTop
      <4>2. LoopAbove(n, d) \in TileLoops(d)
        BY <2>1, <3>2, LoopAboveIs
      <4> QED  BY <2>2, <3>0, <4>1, <4>2
    <3> QED  BY <3>1, <3>2
  <2>11. vec_last_dim_'[d] = vec_last_dim_[d] /\ dim_skew'[d] = dim_skew[d]
    OBVIOUS
  <2> QED  BY <2>6, <2>7, <2>8, <2>9, <2>10, <2>11 DEF Walk!Enter, Walk!Top1
<1>11. ASSUME NEW d \in Dim, ~OverDim(f, d) PROVE UNCHANGED Walk(d)!vars
  <2>1. LoopFrames(d)' = LoopFrames(d)
    BY <1>5, <1>11
  <2> QED  BY <2>1 DEF Walk!vars
<1>12. ASSUME NEW d \in Dim PROVE WalkStep(d)
  <2>1. CASE OverDim(f, d)
    <3>1. f.node \in TileLoops(d)
      BY <2>1, LoopOfFrame DEF OverDim
    <3> QED  BY <1>10, <2>1, <3>1 DEF WalkStep, Walk!Next
  <2>2. CASE ~OverDim(f, d)
    BY <1>11, <2>2 DEF WalkStep
  <2> QED  BY <2>1, <2>2
<1> QED  BY <1>9, <1>12

\* The body of a frame goes on, possibly after a Scope that it called: in no
\* dimension is that a step of the protocol.
LEMMA MoveStep ==
  ASSUME WalkInv, UNCHANGED <<root, loop_start, vec_last_dim_, dim_skew>>, frames # <<>>,
         NEW gs \in Seq(FrameType), frames' = gs, gs # <<>>, gs[Len(gs)].kid > 0,
         Len(gs) <= Len(frames), \A i \in 1 .. Len(gs) : Alike(gs[i], frames[i]),
         \/ Len(gs) = Len(frames) /\ Current.kid > 0
         \/ Len(frames) = Len(gs) + 1 /\ ~IsLoop(Current)
  PROVE  WalkInv' /\ \A d \in Dim : WalkStep(d)
<1>1. /\ frames \in Seq(FrameType) /\ Len(frames) \in Nat
      /\ Current \in FrameType /\ Current.kid \in Nat
      /\ \A d \in Dim : LoopFrames(d) \in Seq(ActivationType) /\ vec_last_dim_[d] \in Seq(BOOLEAN)
  BY StackTypes
<1>2. Len(gs) \in Nat /\ Len(gs) >= 1 /\ gs[Len(gs)] \in FrameType
  OBVIOUS
<1>3. gs[Len(gs)].kid \in Nat
  BY <1>2 DEF FrameType
<1>4. StackShape(frames', root')
  <2>1. \A i \in 1 .. Len(gs) : gs[i].node = frames[i].node /\ gs[i].idx = frames[i].idx
    BY DEF Alike
  <2>2. StackShape(frames, root)
    BY DEF WalkInv
  <2>3. StackShape(gs, root)
    BY <2>1, <2>2, ShapeKept
  <2> QED  BY <2>3
<1>5. ASSUME NEW d \in Dim PROVE LoopFrames(d)' = LoopFrames(d)
  <2>1. /\ Len(gs) = Len(frames) => LoopsIn(gs, d) = LoopsIn(frames, d)
        /\ Len(frames) = Len(gs) + 1 =>
              LoopsIn(frames, d) = IF OverDim(frames[Len(frames)], d)
                                   THEN Append(LoopsIn(gs, d), Activation(frames[Len(frames)]))
                                   ELSE LoopsIn(gs, d)
    BY <1>1, LoopsInAlike
  <2>2. Len(frames) = Len(gs) + 1 => ~OverDim(frames[Len(frames)], d)
    BY <1>1, <1>2 DEF OverDim, Current
  <2>3. LoopsIn(gs, d) = LoopsIn(frames, d)
    BY <2>1, <2>2
  <2> QED  BY <2>3 DEF LoopFrames
<1>6. ASSUME NEW d \in Dim PROVE ~Testing(d) /\ ~Testing(d)'
  <2>1. ~Testing(d)
    <3>1. Current.kid > 0 \/ ~IsLoop(Current)
      OBVIOUS
    <3> QED  BY <1>1, <3>1 DEF Testing, OverDim
  <2>2. Current' = gs[Len(gs)]
    BY DEF Current
  <2> QED  BY <1>3, <2>1, <2>2 DEF Testing
<1>7. ASSUME NEW d \in Dim PROVE FlagsFit(d)'
  BY <1>5, <1>6 DEF WalkInv, FlagsFit
<1>8. WalkInv'
  BY <1>4, <1>7 DEF WalkInv, StartsZero
<1>9. ASSUME NEW d \in Dim PROVE WalkStep(d)
  <2>1. UNCHANGED Walk(d)!vars
    BY <1>5 DEF Walk!vars
  <2> QED  BY <2>1 DEF WalkStep
<1> QED  BY <1>8, <1>9

\* A step that leaves the walk alone.
LEMMA StutterStep ==
  ASSUME WalkInv, UNCHANGED <<root, frames, loop_start, vec_last_dim_, dim_skew>>
  PROVE  WalkInv' /\ \A d \in Dim : WalkStep(d)
<1>1. \A d \in Dim : LoopFrames(d)' = LoopFrames(d) /\ (Testing(d)' <=> Testing(d))
  BY DEF LoopFrames, Testing, Current
<1>2. WalkInv'
  BY <1>1 DEF WalkInv, FlagsFit, StartsZero
<1>3. ASSUME NEW d \in Dim PROVE UNCHANGED Walk(d)!vars
  BY <1>1 DEF Walk!vars
<1> QED  BY <1>2, <1>3 DEF WalkStep

\* How often the body of a frame goes on.
LEMMA StepsType ==
  ASSUME NEW f \in FrameType
  PROVE  /\ Steps(f) \in Nat
         /\ AtChild(f) => /\ f.kid > 0 /\ f.kid \in DOMAIN Kids(f.node)
                          /\ Child(f) \in Node /\ Parent(Child(f)) = f.node
<1>1. f.node \in Node /\ f.kid \in Nat
  BY DEF FrameType
<1>2. Kids(f.node) \in Seq(Node) /\ Len(Kids(f.node)) \in Nat
  BY <1>1, TreeAssumption
<1>3. Steps(f) \in Nat
  BY <1>2 DEF Steps
<1>4. ASSUME AtChild(f)
      PROVE  /\ f.kid > 0 /\ f.kid \in DOMAIN Kids(f.node)
             /\ Child(f) \in Node /\ Parent(Child(f)) = f.node
  <2>1. f.kid \in 1 .. Len(Kids(f.node))
    BY <1>4 DEF AtChild, Steps
  <2>2. f.kid \in DOMAIN Kids(f.node) /\ f.kid > 0
    BY <1>2, <2>1
  <2>3. \A i \in DOMAIN Kids(f.node) : Parent(Kids(f.node)[i]) = f.node
    BY <1>1, TreeAssumption
  <2>4. Kids(f.node)[f.kid] \in Node
    BY <1>2, <2>2
  <2> QED  BY <2>2, <2>3, <2>4 DEF Child
<1> QED  BY <1>3, <1>4

\* The frame at the top goes on to its next child.
LEMMA GoesOn ==
  ASSUME NEW f \in FrameType
  PROVE  Step(f) \in FrameType /\ Step(f).kid = f.kid + 1 /\ Step(f).kid > 0 /\ Alike(Step(f), f)
  BY DEF FrameType, Step, Alike, Activation

\* A frame whose next child is another one.
LEMMA KidSet ==
  ASSUME NEW f \in FrameType, NEW k \in Nat
  PROVE  LET g == [f EXCEPT !.kid = k + 1] IN g \in FrameType /\ Alike(g, f) /\ g.kid > 0
  BY DEF FrameType, Alike, Activation

\* An operation or a Trans node is visited.
LEMMA VisitLeafStep ==
  ASSUME WalkInv, UNCHANGED <<root, loop_start, vec_last_dim_, dim_skew>>, frames # <<>>,
         AtChild(Current), frames' = Replace(Step(Current))
  PROVE  WalkInv' /\ \A d \in Dim : WalkStep(d)
<1>1. frames \in Seq(FrameType) /\ Len(frames) \in Nat /\ Len(frames) >= 1 /\ Current \in FrameType
  BY StackTypes
<1>2. Current.kid > 0
  BY <1>1, StepsType
<1>3. /\ Step(Current) \in FrameType /\ Step(Current).kid > 0 /\ Alike(Step(Current), Current)
  BY <1>1, GoesOn
<1> DEFINE gs == [frames EXCEPT ![Len(frames)] = Step(Current)]
<1>4. /\ gs \in Seq(FrameType) /\ Len(gs) = Len(frames) /\ gs # <<>>
      /\ gs[Len(frames)] = Step(Current)
      /\ \A i \in 1 .. Len(frames) : i # Len(frames) => gs[i] = frames[i]
  BY <1>1, <1>3, ReplaceTop
<1>5. frames' = gs
  BY DEF Replace
<1> HIDE DEF gs
<1>6. \A i \in 1 .. Len(gs) : Alike(gs[i], frames[i])
  BY <1>3, <1>4 DEF Alike, Current
<1>7. Len(gs) <= Len(frames) /\ gs[Len(gs)].kid > 0
  BY <1>1, <1>3, <1>4
<1> QED  BY <1>2, <1>4, <1>5, <1>6, <1>7, MoveStep

\* A Scope returns to the frame that called it.
LEMMA ExitScopeStep ==
  ASSUME WalkInv, root' = root, ExitScope
  PROVE  WalkInv' /\ \A d \in Dim : WalkStep(d)
<1>1. /\ frames \in Seq(FrameType) /\ Len(frames) \in Nat /\ Len(frames) >= 1
      /\ frames # <<>> /\ ~IsLoop(Current)
  BY StackTypes DEF ExitScope
<1>2. Len(frames) >= 2
  <2>1. frames[1].idx = 1
    BY <1>1 DEF WalkInv, StackShape
  <2>2. Len(frames) # 1
    BY <1>1, <2>1 DEF Current, IsLoop
  <2>3. \A n \in Nat : n >= 1 /\ n # 1 => n >= 2
    OBVIOUS
  <2> QED  BY <1>1, <2>2, <2>3
<1> DEFINE us == SubSeq(frames, 1, Len(frames) - 1)
           c == frames[Len(frames) - 1]
<1>3. /\ us \in Seq(FrameType) /\ Len(us) = Len(frames) - 1
      /\ \A i \in 1 .. Len(frames) - 1 : us[i] = frames[i]
  BY <1>1, DropTop
<1>4. c \in FrameType /\ us # <<>> /\ us[Len(us)] = c
  <2>1. Len(frames) - 1 \in 1 .. Len(frames) /\ Len(frames) - 1 \in 1 .. Len(frames) - 1
    BY <1>1, <1>2
  <2> HIDE DEF us
  <2> QED  BY <1>1, <1>3, <2>1
<1>5. ASSUME NEW f \in FrameType, Alike(f, c), f.kid > 0, frames' = [us EXCEPT ![Len(us)] = f]
      PROVE  WalkInv' /\ \A d \in Dim : WalkStep(d)
  <2> DEFINE gs == [us EXCEPT ![Len(us)] = f]
  <2>1. /\ gs \in Seq(FrameType) /\ Len(gs) = Len(us) /\ gs # <<>> /\ gs[Len(us)] = f
        /\ \A i \in 1 .. Len(us) : i # Len(us) => gs[i] = us[i]
    <3> HIDE DEF us
    <3> QED  BY <1>3, <1>4, <1>5, ReplaceTop
  <2>2. frames' = gs
    BY <1>5
  <2> HIDE DEF gs, us
  <2>3. \A i \in 1 .. Len(gs) : Alike(gs[i], frames[i])
    <3> SUFFICES ASSUME NEW i \in 1 .. Len(gs) PROVE Alike(gs[i], frames[i])
      OBVIOUS
    <3>1. CASE i = Len(us)
      BY <1>3, <1>4, <1>5, <2>1, <3>1
    <3>2. CASE i # Len(us)
      <4>1. gs[i] = frames[i]
        BY <1>3, <2>1, <3>2
      <4> QED  BY <4>1 DEF Alike
    <3> QED  BY <3>1, <3>2
  <2>4. Len(frames) = Len(gs) + 1 /\ Len(gs) <= Len(frames) /\ gs[Len(gs)].kid > 0
    BY <1>1, <1>3, <1>5, <2>1
  <2>5. UNCHANGED <<root, loop_start, vec_last_dim_, dim_skew>>
    BY DEF ExitScope
  <2> QED  BY <1>1, <2>1, <2>2, <2>3, <2>4, <2>5, MoveStep
<1>6. CASE latency_sub_vec_[Current.node] = <<>>
  <2>1. UNCHANGED <<root, frames, loop_start, vec_last_dim_, dim_skew>>
    BY <1>6 DEF ExitScope
  <2> QED  BY <2>1, StutterStep
<1>7. CASE latency_sub_vec_[Current.node] # <<>>
  <2>1. CASE IsLoop(c)
    <3> DEFINE f == [c EXCEPT !.kid = Steps(c) + 1]
    <3>1. Steps(c) \in Nat
      BY <1>4, StepsType
    <3>2. f \in FrameType /\ Alike(f, c) /\ f.kid > 0
      BY <1>4, <3>1, KidSet
    <3>3. frames' = [us EXCEPT ![Len(us)].kid = Steps(c) + 1]
      BY <1>7, <2>1 DEF ExitScope
    <3>4. frames' = [us EXCEPT ![Len(us)] = f]
      <4> HIDE DEF us, c
      <4> QED  BY <1>4, <3>3
    <3> HIDE DEF f
    <3> QED  BY <1>5, <3>2, <3>4
  <2>2. CASE ~IsLoop(c)
    <3>1. Step(c) \in FrameType /\ Alike(Step(c), c) /\ Step(c).kid > 0
      BY <1>4, GoesOn
    <3>2. frames' = [us EXCEPT ![Len(us)] = Step(c)]
      BY <1>7, <2>2 DEF ExitScope
    <3> QED  BY <1>5, <3>1, <3>2
  <2> QED  BY <2>1, <2>2
<1> QED  BY <1>6, <1>7

\* The stack stays in the mapping under evaluation, and so does the child that
\* is next.
LEMMA StackInTree ==
  ASSUME WalkInv
  PROVE  /\ root \in NodesOf[root]
         /\ frames # <<>> => /\ Current.node \in NodesOf[root]
                             /\ AtChild(Current) => Child(Current) \in NodesOf[root]
<1>1. root \in Roots /\ StackShape(frames, root) /\ Len(frames) \in Nat /\ frames \in Seq(FrameType)
  BY StackTypes DEF WalkInv
<1>2. root \in NodesOf[root]
  BY <1>1 DEF NodesOf, Roots
<1> DEFINE G == {k \in 0 .. Len(frames) : k > 0 => frames[k].node \in NodesOf[root]}
<1>3. ASSUME NEW k \in 1 .. Len(frames), k - 1 \in G PROVE k \in G
  <2>0. frames[k].node \in Node
    <3>1. frames[k] \in FrameType
      BY <1>1, <1>3
    <3> QED  BY <3>1 DEF FrameType
  <2>1. CASE k = 1
    <3>1. frames # <<>>
      BY <1>1, <1>3, <2>1
    <3> QED  BY <1>1, <1>2, <2>1, <3>1 DEF StackShape
  <2>2. CASE k # 1
    <3>1. k \in 2 .. Len(frames) /\ frames[k - 1].node \in NodesOf[root]
      BY <1>1, <1>3, <2>2
    <3>2. EnteredFrom(frames[k - 1], frames[k])
      BY <1>1, <3>1 DEF StackShape
    <3>3. frames[k].node = frames[k - 1].node \/ Parent(frames[k].node) = frames[k - 1].node
      BY <3>2 DEF EnteredFrom
    <3>4. ASSUME Parent(frames[k].node) = frames[k - 1].node
          PROVE  frames[k].node \in NodesOf[root]
      <4>1. frames[k - 1].node \in Node /\ frames[k - 1].node # nullptr
        BY <1>1, <3>1, NodesClosed, NodesAreNumbers DEF nullptr
      <4>2. frames[k].node \in ToSet(Kids(frames[k - 1].node))
        BY <2>0, <3>4, <4>1, TreeAssumption
      <4> QED  BY <1>1, <3>1, <4>2, NodesClosed DEF ToSet
    <3> QED  BY <3>1, <3>3, <3>4
  <2> QED  BY <2>1, <2>2
<1>4. ASSUME frames # <<>> PROVE Current.node \in NodesOf[root]
  <2>1. Len(frames) \in 0 .. Len(frames) /\ Len(frames) > 0
    BY <1>1, <1>4
  <2>2. 0 \in G
    BY <1>1
  <2> HIDE DEF G
  <2>3. Len(frames) \in G
    BY <1>1, <1>3, <2>1, <2>2, UpInduction
  <2> QED  BY <2>1, <2>3 DEF G, Current
<1>5. ASSUME frames # <<>>, AtChild(Current) PROVE Child(Current) \in NodesOf[root]
  <2>1. Current.kid \in DOMAIN Kids(Current.node)
    BY <1>5, StackTypes, StepsType
  <2> QED  BY <1>1, <1>4, <1>5, <2>1, NodesClosed DEF Child
<1> QED  BY <1>2, <1>4, <1>5

\* The frame of a loop that is entered, and that of a Scope.
LEMMA NewFrames ==
  ASSUME WalkInv, NEW n \in NodesOf[root]
  PROVE  /\ Tree[n].kind = "Tile" => \A i \in 1 .. Len(Tree[n].loops) :
              /\ LoopFrame(n, i) \in FrameType /\ FrameFits(LoopFrame(n, i))
              /\ LoopFrame(n, i).node = n /\ LoopFrame(n, i).idx = i
         /\ Tree[n].kind = "Scope" =>
              /\ ScopeFrame(n) \in FrameType /\ FrameFits(ScopeFrame(n))
              /\ ScopeFrame(n).node = n /\ ScopeFrame(n).idx = 0
<1> DEFINE ls == Tree[n].loops
<1>0. n \in Node
  BY NodesClosed DEF WalkInv
<1>1. ls \in Seq(Loop)
  BY <1>0, TreeAssumption
<1>2. ASSUME Tree[n].kind = "Tile", NEW i \in 1 .. Len(Tree[n].loops)
      PROVE  /\ LoopFrame(n, i) \in FrameType /\ FrameFits(LoopFrame(n, i))
             /\ LoopFrame(n, i).node = n /\ LoopFrame(n, i).idx = i
  <2> DEFINE l == ls[i]
             e == IF Parent(n) = nullptr \/ isLastLoop(l.dim) THEN l.res ELSE l.end
  <2>1. l \in Loop /\ i \in Nat
    BY <1>1
  <2> HIDE DEF ls, l
  <2>2. l.dim \in Dim /\ l.res \in Int /\ l.end \in Int
    BY <2>1 DEF Loop
  <2>3. dim_skew[l.dim] \in Int /\ e \in Int
    BY <2>2 DEF WalkInv
  <2> HIDE DEF e
  <2>0. loop_start[n][i] = 0
    <3>1. i \in DOMAIN Tree[n].loops
      BY <1>1, <1>2 DEF ls
    <3> QED  BY <3>1 DEF WalkInv, StartsZero
  <2>4. LoopFrame(n, i) = [node |-> n, idx |-> i, ori |-> 0, start |-> 0, end |-> e, moved |-> 0,
                           from |-> dim_skew[l.dim], kid |-> 0]
    BY <2>0 DEF LoopFrame, e, l, ls
  <2>5. LoopFrame(n, i) \in FrameType
    BY <1>0, <2>1, <2>3, <2>4 DEF FrameType
  <2>6. LoopFrame(n, i).node = n /\ LoopFrame(n, i).idx = i
    BY <2>4
  <2> QED  BY <1>2, <2>5, <2>6 DEF FrameFits
<1>3. ASSUME Tree[n].kind = "Scope"
      PROVE  /\ ScopeFrame(n) \in FrameType /\ FrameFits(ScopeFrame(n))
             /\ ScopeFrame(n).node = n /\ ScopeFrame(n).idx = 0
  BY <1>0, <1>3 DEF ScopeFrame, FrameType, FrameFits
<1> QED  BY <1>2, <1>3

\* A tile is visited, from the root or from the frame above it.
LEMMA VisitTileStep ==
  ASSUME WalkInv, root' = root, NEW n \in Node, visitTile(n),
         IF frames = <<>> THEN n = root ELSE AtChild(Current) /\ n = Child(Current)
  PROVE  WalkInv' /\ \A d \in Dim : WalkStep(d)
<1>1. UNCHANGED <<root, loop_start, vec_last_dim_, dim_skew>> /\ Tree[n].kind = "Tile"
  BY DEF visitTile
<1>2. CASE Tree[n].loops = <<>>
  <2>1. UNCHANGED frames
    BY <1>2 DEF visitTile
  <2> QED  BY <1>1, <2>1, StutterStep
<1>3. CASE Tree[n].loops # <<>>
  <2> DEFINE f == LoopFrame(n, 1)
  <2>1. 1 \in 1 .. Len(Tree[n].loops)
    BY <1>3, TreeAssumption
  <2>0. n \in NodesOf[root]
    BY StackInTree
  <2>2. f \in FrameType /\ FrameFits(f) /\ f.node = n /\ f.idx = 1
    BY <1>1, <2>0, <2>1, NewFrames
  <2>3. frames' = Append(frames, f)
    BY <1>3 DEF visitTile
  <2> HIDE DEF f
  <2>4. IF frames = <<>> THEN f.node = root /\ f.idx = 1
                         ELSE Current.kid > 0 /\ EnteredFrom(Current, f)
    <3>1. CASE frames = <<>>
      BY <2>2, <3>1
    <3>2. CASE frames # <<>>
      <4>1. AtChild(Current) /\ n = Child(Current) /\ Current \in FrameType
        BY <3>2, StackTypes
      <4>2. Current.kid > 0 /\ Parent(n) = Current.node
        BY <4>1, StepsType
      <4>3. VisitsChildren(Current)
        <5>1. Current.idx \in Nat
          BY <4>1 DEF FrameType
        <5> QED  BY <4>1, <5>1 DEF AtChild, VisitsChildren, IsLoop
      <4> QED  BY <2>2, <3>2, <4>2, <4>3 DEF EnteredFrom
    <3> QED  BY <3>1, <3>2
  <2>5. f = LoopFrame(f.node, f.idx)
    BY <2>2 DEF f
  <2> QED  BY <1>1, <2>2, <2>3, <2>4, <2>5, PushStep
<1> QED  BY <1>2, <1>3

\* The next loop of a nest is entered.
LEMMA EnterInnerLoopStep ==
  ASSUME WalkInv, root' = root, EnterInnerLoop
  PROVE  WalkInv' /\ \A d \in Dim : WalkStep(d)
<1> DEFINE n == Current.node
           i == Current.idx + 1
           f == LoopFrame(n, i)
<1>1. /\ frames # <<>> /\ IsLoop(Current) /\ ~isInnermost(Current) /\ Current.kid = 1
      /\ frames' = Append(frames, f) /\ UNCHANGED <<root, loop_start, vec_last_dim_, dim_skew>>
  BY DEF EnterInnerLoop
<1>2. /\ Current \in FrameType /\ FrameFits(Current) /\ n \in Node /\ Current.idx \in Nat
  BY <1>1, StackTypes
<1>3. Tree[n].kind = "Tile" /\ Current.idx \in 1 .. Len(Tree[n].loops)
      /\ Current.idx # Len(Tree[n].loops)
  BY <1>1, <1>2 DEF FrameFits, IsLoop, isInnermost
<1>4. i \in 1 .. Len(Tree[n].loops) /\ i > 1
  <2>1. Len(Tree[n].loops) \in Nat
    BY <1>2, TreeAssumption
  <2> QED  BY <1>2, <1>3, <2>1
<1>5. f \in FrameType /\ FrameFits(f) /\ f.node = n /\ f.idx = i
  BY <1>1, <1>2, <1>3, <1>4, NewFrames, StackInTree
<1>6. EnteredFrom(Current, f)
  BY <1>2, <1>4, <1>5 DEF EnteredFrom
<1>7. f = LoopFrame(f.node, f.idx)
  BY <1>5
<1> HIDE DEF f
<1> QED  BY <1>1, <1>5, <1>6, <1>7, PushStep

\* A Scope is entered.
LEMMA EnterScopeStep ==
  ASSUME WalkInv, root' = root, EnterScope
  PROVE  WalkInv' /\ \A d \in Dim : WalkStep(d)
<1> DEFINE n == Child(Current)
           f == ScopeFrame(n)
<1>1. /\ frames # <<>> /\ AtChild(Current) /\ Tree[n].kind = "Scope"
      /\ frames' = Append(frames, f) /\ UNCHANGED <<root, loop_start, vec_last_dim_, dim_skew>>
  BY DEF EnterScope
<1>2. Current \in FrameType /\ Current.idx \in Nat
  BY <1>1, StackTypes
<1>3. Current.kid > 0 /\ n \in Node /\ Parent(n) = Current.node
  BY <1>1, <1>2, StepsType
<1>4. f \in FrameType /\ FrameFits(f) /\ f.node = n /\ f.idx = 0
  BY <1>1, <1>3, NewFrames, StackInTree
<1>5. EnteredFrom(Current, f)
  <2>1. VisitsChildren(Current)
    BY <1>1, <1>2 DEF AtChild, VisitsChildren, IsLoop
  <2> QED  BY <1>3, <1>4, <2>1 DEF EnteredFrom
<1> HIDE DEF f
<1> QED  BY <1>1, <1>3, <1>4, <1>5, PushStep

\* The activation that a frame is.
LEMMA ActivationOf ==
  ASSUME NEW f \in FrameType
  PROVE  Activation(f) \in ActivationType
  BY DEF FrameType, ActivationType, Activation

\* The frames under the innermost one.
Under1 == SubSeq(frames, 1, Len(frames) - 1)

\* The innermost activation over the dimension of the innermost loop is that
\* loop's; a stack that differs in the innermost frame only, from another
\* iteration of the same loop, has the same activations under it.
LEMMA TopActivation ==
  ASSUME WalkInv, frames # <<>>, NEW d \in Dim
  PROVE  /\ LoopsIn(Under1, d) \in Seq(ActivationType)
         /\ LoopFrames(d) = IF OverDim(Current, d)
                            THEN Append(LoopsIn(Under1, d), Activation(Current))
                            ELSE LoopsIn(Under1, d)
         /\ \A f \in FrameType :
              f.node = Current.node /\ f.idx = Current.idx =>
                LoopsIn(Replace(f), d) = IF OverDim(Current, d)
                                         THEN Append(LoopsIn(Under1, d), Activation(f))
                                         ELSE LoopsIn(Under1, d)
<1>1. /\ frames \in Seq(FrameType) /\ Len(frames) \in Nat /\ Len(frames) >= 1
      /\ Current \in FrameType
  BY StackTypes
<1>2. /\ Under1 \in Seq(FrameType) /\ Len(Under1) = Len(frames) - 1
      /\ \A i \in 1 .. Len(frames) - 1 : Under1[i] = frames[i]
  BY <1>1, DropTop DEF Under1
<1>3. LoopsIn(Under1, d) \in Seq(ActivationType)
  BY <1>2, LoopsInType
<1>4. ASSUME NEW gs \in Seq(FrameType), Len(gs) = Len(frames),
             \A i \in 1 .. Len(frames) : i # Len(frames) => gs[i] = frames[i]
      PROVE  LoopsIn(gs, d) = IF OverDim(gs[Len(gs)], d)
                              THEN Append(LoopsIn(Under1, d), Activation(gs[Len(gs)]))
                              ELSE LoopsIn(Under1, d)
  <2>1. \A i \in 1 .. Len(Under1) : Alike(Under1[i], gs[i])
    <3>1. \A i \in 1 .. Len(Under1) : Under1[i] = gs[i]
      BY <1>1, <1>2, <1>4
    <3> QED  BY <3>1 DEF Alike
  <2>2. Len(Under1) <= Len(gs) /\ Len(gs) = Len(Under1) + 1
    BY <1>1, <1>2, <1>4
  <2> QED  BY <1>2, <1>4, <2>1, <2>2, LoopsInAlike
<1>5. LoopFrames(d) = IF OverDim(Current, d)
                      THEN Append(LoopsIn(Under1, d), Activation(Current))
                      ELSE LoopsIn(Under1, d)
  BY <1>1, <1>4 DEF LoopFrames, Current
<1>6. ASSUME NEW f \in FrameType, f.node = Current.node, f.idx = Current.idx
      PROVE  LoopsIn(Replace(f), d) = IF OverDim(Current, d)
                                      THEN Append(LoopsIn(Under1, d), Activation(f))
                                      ELSE LoopsIn(Under1, d)
  <2> DEFINE gs == [frames EXCEPT ![Len(frames)] = f]
  <2>1. /\ gs \in Seq(FrameType) /\ Len(gs) = Len(frames) /\ gs[Len(frames)] = f
        /\ \A i \in 1 .. Len(frames) : i # Len(frames) => gs[i] = frames[i]
    BY <1>1, ReplaceTop
  <2>2. gs = Replace(f)
    BY DEF Replace
  <2> HIDE DEF gs
  <2>3. LoopsIn(gs, d) = IF OverDim(f, d) THEN Append(LoopsIn(Under1, d), Activation(f))
                         ELSE LoopsIn(Under1, d)
    BY <1>4, <2>1
  <2>4. OverDim(f, d) <=> OverDim(Current, d)
    BY <1>6 DEF OverDim, IsLoop, DimOf
  <2> QED  BY <2>2, <2>3, <2>4
<1> QED  BY <1>3, <1>5, <1>6

\* The stack with the innermost frame replaced.
LEMMA ShapeReplaced ==
  ASSUME WalkInv, frames # <<>>, NEW f \in FrameType,
         f.node = Current.node, f.idx = Current.idx
  PROVE  /\ StackShape(Replace(f), root) /\ Replace(f) # <<>>
         /\ Replace(f)[Len(Replace(f))] = f
<1>1. frames \in Seq(FrameType) /\ Len(frames) \in Nat /\ Len(frames) >= 1
  BY StackTypes
<1> DEFINE gs == [frames EXCEPT ![Len(frames)] = f]
<1>2. /\ gs \in Seq(FrameType) /\ Len(gs) = Len(frames) /\ gs # <<>> /\ gs[Len(frames)] = f
      /\ \A i \in 1 .. Len(frames) : i # Len(frames) => gs[i] = frames[i]
  BY <1>1, ReplaceTop
<1>3. gs = Replace(f)
  BY DEF Replace
<1> HIDE DEF gs
<1>4. \A i \in 1 .. Len(gs) : gs[i].node = frames[i].node /\ gs[i].idx = frames[i].idx
  BY <1>2 DEF Current
<1>5. StackShape(gs, root)
  <2>1. StackShape(frames, root) /\ Len(gs) <= Len(frames)
    BY <1>1, <1>2 DEF WalkInv
  <2> QED  BY <1>2, <1>4, <2>1, ShapeKept
<1> QED  BY <1>2, <1>3, <1>5

\* The test of a loop succeeds.
LEMMA BeginIterationStep ==
  ASSUME WalkInv, root' = root, BeginIteration
  PROVE  WalkInv' /\ \A d \in Dim : WalkStep(d)
<1> DEFINE c == Current
           d == DimOf(Current)
           last == Current.start + 1 >= Current.end
<1>1. /\ frames # <<>> /\ IsLoop(c) /\ ~InBody(c) /\ c.start < c.end
      /\ vec_last_dim_' = [vec_last_dim_ EXCEPT ![d] = Append(@, last)]
      /\ frames' = Replace(Step(c)) /\ UNCHANGED <<root, loop_start, dim_skew>>
  BY DEF BeginIteration
<1>2. /\ c \in FrameType /\ FrameFits(c) /\ c.kid \in Nat
      /\ \A e \in Dim : LoopFrames(e) \in Seq(ActivationType) /\ vec_last_dim_[e] \in Seq(BOOLEAN)
  BY <1>1, StackTypes
<1>3. c.kid = 0 /\ d \in Dim
  BY <1>1, <1>2, LoopOfFrame DEF InBody
<1>4. /\ Step(c) \in FrameType /\ Step(c).kid > 0
      /\ Step(c).node = c.node /\ Step(c).idx = c.idx /\ Activation(Step(c)) = Activation(c)
  BY <1>2, GoesOn DEF Alike
<1>5. StackShape(frames', root') /\ frames' # <<>> /\ Current' = Step(c)
  <2>1. StackShape(Replace(Step(c)), root) /\ Replace(Step(c)) # <<>>
        /\ Replace(Step(c))[Len(Replace(Step(c)))] = Step(c)
    BY <1>1, <1>4, ShapeReplaced
  <2>2. Current' = frames'[Len(frames')]
    BY DEF Current
  <2> HIDE DEF c
  <2> QED  BY <1>1, <2>1, <2>2
<1>6. ASSUME NEW e \in Dim
      PROVE  /\ LoopFrames(e)' = LoopFrames(e) /\ ~Testing(e)'
             /\ (Testing(e) <=> e = d) /\ (OverDim(c, e) <=> e = d)
  <2>1. LoopsIn(Replace(Step(c)), e) = LoopFrames(e)
    BY <1>1, <1>4, TopActivation
  <2>2. LoopFrames(e)' = LoopFrames(e)
    <3>1. LoopFrames(e)' = LoopsIn(frames', e)
      BY DEF LoopFrames
    <3> QED  BY <1>1, <2>1, <3>1
  <2>3. ~Testing(e)'
    <3>1. Step(c).kid # 0
      BY <1>2, <1>4, GoesOn
    <3> QED  BY <1>5, <3>1 DEF Testing
  <2>4. OverDim(c, e) <=> e = d
    BY <1>1 DEF OverDim
  <2> QED  BY <1>1, <1>3, <2>2, <2>3, <2>4 DEF Testing
<1>7. ASSUME NEW e \in Dim PROVE FlagsFit(e)'
  <2>1. FlagsFit(e) /\ Len(LoopFrames(e)) \in Nat /\ Len(vec_last_dim_[e]) \in Nat
    BY <1>2 DEF WalkInv
  <2>2. Len(vec_last_dim_'[e]) = Len(LoopFrames(e))
    <3>1. CASE e = d
      <4>1. vec_last_dim_'[d] = Append(vec_last_dim_[d], last)
        BY <1>1, <1>3 DEF WalkInv
      <4>2. Len(vec_last_dim_'[d]) = Len(vec_last_dim_[d]) + 1
        BY <1>2, <1>3, <4>1
      <4>3. Len(vec_last_dim_[d]) = Len(LoopFrames(d)) - 1
        BY <1>6, <2>1, <3>1 DEF FlagsFit
      <4> HIDE DEF d
      <4> QED  BY <2>1, <3>1, <4>2, <4>3
    <3>2. CASE e # d
      <4>1. vec_last_dim_'[e] = vec_last_dim_[e]
        BY <1>1, <1>3, <3>2 DEF WalkInv
      <4> QED  BY <1>6, <2>1, <3>2, <4>1 DEF FlagsFit
    <3> QED  BY <3>1, <3>2
  <2> QED  BY <1>6, <2>1, <2>2 DEF FlagsFit
<1>8. WalkInv'
  <2>1. last \in BOOLEAN
    OBVIOUS
  <2>2. Append(vec_last_dim_[d], last) \in Seq(BOOLEAN)
    BY <1>2, <1>3, <2>1
  <2>3. vec_last_dim_' \in [Dim -> Seq(BOOLEAN)]
    BY <1>1, <1>3, <2>2 DEF WalkInv
  <2> QED  BY <1>1, <1>5, <1>7, <2>3 DEF WalkInv, StartsZero
<1>9. ASSUME NEW e \in Dim, e = d PROVE Walk(e)!BeginIteration
  <2>1. LoopFrames(e) = Append(LoopsIn(Under1, e), Activation(c))
    BY <1>1, <1>6, <1>9, TopActivation
  <2>2. LoopsIn(Under1, e) \in Seq(ActivationType) /\ Activation(c) \in ActivationType
    BY <1>1, <1>2, TopActivation, ActivationOf
  <2>3. LoopFrames(e)[Len(LoopFrames(e))] = Activation(c) /\ Len(LoopFrames(e)) \in Nat
    BY <2>1, <2>2
  <2>4. Len(vec_last_dim_[e]) # Len(LoopFrames(e))
    BY <1>6, <1>9, <2>3 DEF WalkInv, FlagsFit
  <2>5. Activation(c).start = c.start /\ Activation(c).end = c.end
    BY DEF Activation
  <2>6. vec_last_dim_'[e] = Append(vec_last_dim_[e], last)
    BY <1>1, <1>9 DEF WalkInv
  <2>7. LoopFrames(e)' = LoopFrames(e) /\ dim_skew' = dim_skew
    BY <1>1, <1>6
  <2> QED  BY <1>1, <2>3, <2>4, <2>5, <2>6, <2>7
           DEF Walk!BeginIteration, Walk!InBody, Walk!Top1, Walk!PushLast
<1>10. ASSUME NEW e \in Dim PROVE WalkStep(e)
  <2>1. CASE e = d
    BY <1>9, <2>1 DEF WalkStep, Walk!Next
  <2>2. CASE e # d
    <3>1. vec_last_dim_'[e] = vec_last_dim_[e]
      BY <1>1, <1>3, <2>2 DEF WalkInv
    <3>2. UNCHANGED Walk(e)!vars
      BY <1>1, <1>6, <3>1 DEF Walk!vars
    <3> QED  BY <3>2 DEF WalkStep
  <2> QED  BY <2>1, <2>2
<1> QED  BY <1>8, <1>10

\* The frame of a loop and its activation after one more iteration.
LEMMA FrameAdvanced ==
  ASSUME NEW f \in FrameType, NEW step \in Int
  PROVE  LET g == [f EXCEPT !.kid = 0, !.start = @ + 1, !.moved = @ + step] IN
           /\ g \in FrameType /\ g.kid = 0 /\ g.node = f.node /\ g.idx = f.idx
           /\ Activation(g) = [Activation(f) EXCEPT !.start = @ + 1, !.moved = @ + step]
<1> DEFINE g == [f EXCEPT !.kid = 0, !.start = @ + 1, !.moved = @ + step]
<1>1. f.start \in Nat /\ f.moved \in Int /\ f.kid \in Nat
  BY DEF FrameType
<1>2. g \in FrameType
  <2> DEFINE a == f.start + 1
             m == f.moved + step
             g1 == [f EXCEPT !.kid = 0]
             g2 == [g1 EXCEPT !.start = a]
  <2>1. a \in Nat /\ m \in Int
    BY <1>1
  <2> HIDE DEF a, m
  <2>2. g1 \in FrameType
    BY DEF FrameType
  <2> HIDE DEF g1
  <2>3. g2 \in FrameType
    BY <2>1, <2>2 DEF FrameType
  <2> HIDE DEF g2
  <2>4. [g2 EXCEPT !.moved = m] \in FrameType
    BY <2>1, <2>3 DEF FrameType
  <2> QED  BY <2>4 DEF g2, g1, a, m
<1>3. /\ g.node = f.node /\ g.idx = f.idx /\ g.start = f.start + 1 /\ g.end = f.end
      /\ g.moved = f.moved + step /\ g.from = f.from /\ g.kid = 0
  BY DEF FrameType
<1>4. [Activation(f) EXCEPT !.start = @ + 1, !.moved = @ + step]
        = [loop |-> f.node, start |-> f.start + 1, end |-> f.end, moved |-> f.moved + step,
           from |-> f.from]
  <2> DEFINE h == Activation(f)
             k == [h EXCEPT !.start = @ + 1, !.moved = @ + step]
  <2>1. /\ h \in ActivationType /\ h.loop = f.node /\ h.start = f.start /\ h.end = f.end
        /\ h.moved = f.moved /\ h.from = f.from
    BY ActivationOf DEF Activation
  <2> HIDE DEF h
  <2>2. /\ k.loop = h.loop /\ k.start = h.start + 1 /\ k.end = h.end
        /\ k.moved = h.moved + step /\ k.from = h.from
    BY <2>1 DEF ActivationType
  <2>3. k \in ActivationType
    <3> DEFINE j == [h EXCEPT !.start = h.start + 1]
    <3>1. j \in ActivationType
      BY <2>1 DEF ActivationType
    <3>2. h.moved + step \in Int
      BY <1>1, <2>1
    <3> HIDE DEF j
    <3>3. [j EXCEPT !.moved = h.moved + step] \in ActivationType
      BY <3>1, <3>2 DEF ActivationType
    <3> QED  BY <3>3 DEF j
  <2> HIDE DEF k
  <2>4. k = [loop |-> k.loop, start |-> k.start, end |-> k.end, moved |-> k.moved,
             from |-> k.from]
    BY <2>3 DEF ActivationType
  <2>5. k = [loop |-> f.node, start |-> f.start + 1, end |-> f.end, moved |-> f.moved + step,
             from |-> f.from]
    BY <2>1, <2>2, <2>4
  <2> QED  BY <2>5 DEF k, h
<1> HIDE DEF g
<1>5. Activation(g) = [Activation(f) EXCEPT !.start = @ + 1, !.moved = @ + step]
  BY <1>3, <1>4 DEF Activation
<1> QED  BY <1>2, <1>3, <1>5 DEF g

\* The last element of a sequence replaced.
LEMMA AppendReplaced ==
  ASSUME NEW S, NEW s \in Seq(S), NEW a \in S, NEW b \in S
  PROVE  LET t == Append(s, a) IN Append(s, b) = [t EXCEPT ![Len(t)] = b]
<1> DEFINE t == Append(s, a)
           u == Append(s, b)
<1>1. /\ t \in Seq(S) /\ u \in Seq(S) /\ Len(t) = Len(s) + 1 /\ Len(u) = Len(s) + 1
      /\ \A i \in 1 .. Len(s) : t[i] = s[i] /\ u[i] = s[i]
      /\ u[Len(s) + 1] = b /\ Len(s) \in Nat
  BY AppendProperties
<1> HIDE DEF t, u
<1>2. t \in [1 .. Len(s) + 1 -> S] /\ u \in [1 .. Len(s) + 1 -> S]
  BY <1>1
<1>3. \A i \in 1 .. Len(s) + 1 : u[i] = [t EXCEPT ![Len(t)] = b][i]
  BY <1>1, <1>2
<1>4. u = [t EXCEPT ![Len(t)] = b]
  BY <1>1, <1>2, <1>3
<1> QED  BY <1>4 DEF t, u

\* The body of an iteration ends.
LEMMA EndIterationStep ==
  ASSUME WalkInv, root' = root, EndIteration
  PROVE  WalkInv' /\ \A d \in Dim : WalkStep(d)
<1> DEFINE c == Current
           d == DimOf(Current)
           step == Offsets[DimOf(Current)][Current.node].step
           f == [Current EXCEPT !.kid = 0, !.start = @ + 1, !.moved = @ + step]
<1>1. /\ frames # <<>> /\ IsLoop(c) /\ c.kid > Steps(c)
      /\ vec_last_dim_' = [vec_last_dim_ EXCEPT ![d] = Front(@)]
      /\ dim_skew' = [dim_skew EXCEPT ![d] = @ + step]
      /\ frames' = Replace(f) /\ root' = root /\ loop_start' = loop_start
  BY DEF EndIteration
<1>2. /\ c \in FrameType /\ FrameFits(c) /\ c.kid \in Nat /\ c.node \in Node
      /\ \A e \in Dim : /\ LoopFrames(e) \in Seq(ActivationType)
                        /\ vec_last_dim_[e] \in Seq(BOOLEAN) /\ dim_skew[e] \in Int
  BY <1>1, StackTypes
<1>3. c.kid > 0 /\ d \in Dim /\ c.node \in TileLoops(d)
  BY <1>1, <1>2, LoopOfFrame, StepsType
<1>4. step \in Int
  BY <1>2, <1>3, OffsetsType
<1>5. /\ f \in FrameType /\ f.kid = 0 /\ f.node = c.node /\ f.idx = c.idx
      /\ Activation(f) = [Activation(c) EXCEPT !.start = @ + 1, !.moved = @ + step]
  <2> HIDE DEF step
  <2> QED  BY <1>2, <1>4, FrameAdvanced
<1> HIDE DEF f
<1>6. StackShape(frames', root') /\ frames' # <<>> /\ Current' = f
  <2>1. StackShape(Replace(f), root) /\ Replace(f) # <<>> /\ Replace(f)[Len(Replace(f))] = f
    BY <1>1, <1>5, ShapeReplaced
  <2>2. Current' = frames'[Len(frames')]
    BY DEF Current
  <2> HIDE DEF c
  <2> QED  BY <1>1, <2>1, <2>2
<1>7. ASSUME NEW e \in Dim
      PROVE  /\ LoopsIn(Under1, e) \in Seq(ActivationType)
             /\ LoopFrames(e) = IF e = d THEN Append(LoopsIn(Under1, e), Activation(c))
                                ELSE LoopsIn(Under1, e)
             /\ LoopFrames(e)' = IF e = d THEN Append(LoopsIn(Under1, e), Activation(f))
                                 ELSE LoopsIn(Under1, e)
             /\ ~Testing(e) /\ (Testing(e)' <=> e = d)
  <2>1. OverDim(c, e) <=> e = d
    BY <1>1 DEF OverDim
  <2>2. OverDim(f, e) <=> OverDim(c, e)
    BY <1>5 DEF OverDim, IsLoop, DimOf
  <2>3. LoopFrames(e)' = LoopsIn(Replace(f), e)
    <3>1. LoopFrames(e)' = LoopsIn(frames', e)
      BY DEF LoopFrames
    <3> QED  BY <1>1, <3>1
  <2>4. ~Testing(e)
    BY <1>2, <1>3 DEF Testing
  <2>5. Testing(e)' <=> OverDim(f, e)
    <3>1. Testing(e)' <=> frames' # <<>> /\ OverDim(Current', e) /\ Current'.kid = 0
      BY DEF Testing, OverDim, IsLoop, DimOf
    <3> QED  BY <1>5, <1>6, <3>1
  <2> HIDE DEF d, c
  <2> QED  BY <1>1, <1>5, <2>1, <2>2, <2>3, <2>4, <2>5, TopActivation DEF c
<1>8. ASSUME NEW e \in Dim, e = d
      PROVE  /\ vec_last_dim_[e] # <<>> /\ Front(vec_last_dim_[e]) \in Seq(BOOLEAN)
             /\ Len(Front(vec_last_dim_[e])) = Len(vec_last_dim_[e]) - 1
             /\ Len(vec_last_dim_[e]) = Len(LoopFrames(e))
             /\ Len(LoopFrames(e)') = Len(LoopFrames(e))
             /\ LoopFrames(e) # <<>> /\ Len(LoopFrames(e)) \in Nat
  <2>1. Len(vec_last_dim_[e]) = Len(LoopFrames(e))
    BY <1>2, <1>7 DEF WalkInv, FlagsFit
  <2>2. Activation(c) \in ActivationType /\ Activation(f) \in ActivationType
    BY <1>2, <1>5, ActivationOf
  <2>3. /\ Len(LoopFrames(e)') = Len(LoopFrames(e)) /\ LoopFrames(e) # <<>>
        /\ Len(LoopFrames(e)) \in Nat \ {0}
    BY <1>7, <1>8, <2>2
  <2>4. vec_last_dim_[e] # <<>> /\ vec_last_dim_[e] \in Seq(BOOLEAN)
    BY <1>2, <2>1, <2>3
  <2>5. /\ Front(vec_last_dim_[e]) \in Seq(BOOLEAN)
        /\ Len(Front(vec_last_dim_[e])) = Len(vec_last_dim_[e]) - 1
    <3> DEFINE v == vec_last_dim_[e]
               k == Len(vec_last_dim_[e]) - 1
    <3>1. v \in Seq(BOOLEAN) /\ k \in Nat /\ \A i \in 1 .. k : v[i] \in BOOLEAN
      BY <2>1, <2>3, <2>4
    <3> HIDE DEF v, k
    <3>2. SubSeq(v, 1, k) \in Seq(BOOLEAN) /\ Len(SubSeq(v, 1, k)) = k
      BY <3>1
    <3> QED  BY <3>2 DEF Front, v, k
  <2> QED  BY <2>1, <2>3, <2>4, <2>5
<1>9. ASSUME NEW e \in Dim
      PROVE  /\ e = d => /\ vec_last_dim_'[e] = Front(vec_last_dim_[e])
                         /\ dim_skew'[e] = dim_skew[e] + step
             /\ e # d => vec_last_dim_'[e] = vec_last_dim_[e] /\ dim_skew'[e] = dim_skew[e]
  <2> HIDE DEF d, step
  <2> QED  BY <1>1 DEF WalkInv
<1>10. ASSUME NEW e \in Dim PROVE FlagsFit(e)'
  <2>1. CASE e = d
    BY <1>7, <1>8, <1>9, <2>1 DEF FlagsFit
  <2>2. CASE e # d
    BY <1>7, <1>9, <2>2 DEF WalkInv, FlagsFit
  <2> QED  BY <2>1, <2>2
<1>11. WalkInv'
  <2>1. Front(vec_last_dim_[d]) \in Seq(BOOLEAN) /\ dim_skew[d] + step \in Int
    BY <1>2, <1>3, <1>4, <1>8
  <2>2. vec_last_dim_' \in [Dim -> Seq(BOOLEAN)] /\ dim_skew' \in [Dim -> Int]
    <3> HIDE DEF d, step
    <3> QED  BY <1>1, <1>3, <2>1 DEF WalkInv
  <2> QED  BY <1>1, <1>6, <1>10, <2>2 DEF WalkInv, StartsZero
<1>12. ASSUME NEW e \in Dim, e = d PROVE Walk(e)!EndIteration
  <2> DEFINE ls == LoopFrames(e)
             o == [n \in TileLoops(e) |-> Offsets[e][n].step]
  <2>1. /\ ls = Append(LoopsIn(Under1, e), Activation(c)) /\ LoopsIn(Under1, e) \in Seq(ActivationType)
        /\ LoopFrames(e)' = Append(LoopsIn(Under1, e), Activation(f))
        /\ Activation(c) \in ActivationType
    BY <1>2, <1>7, <1>12, ActivationOf
  <2>2. o[c.node] = step
    BY <1>3, <1>12
  <2>3. ls[Len(ls)] = Activation(c) /\ Activation(c).loop = c.node
    BY <2>1 DEF Activation
  <2>4. Activation(f) = [Activation(c) EXCEPT !.start = Activation(c).start + 1,
                                            !.moved = Activation(c).moved + step]
    BY <1>5
  <2>5. LoopFrames(e)' = [ls EXCEPT ![Len(ls)] = Activation(f)]
    <3>1. Activation(f) \in ActivationType
      BY <1>5, ActivationOf
    <3> HIDE DEF ls
    <3> QED  BY <2>1, <3>1, AppendReplaced
  <2>6. LoopFrames(e)' =
          [ls EXCEPT ![Len(ls)] = [ls[Len(ls)] EXCEPT !.start = ls[Len(ls)].start + 1,
                                     !.moved = ls[Len(ls)].moved + o[ls[Len(ls)].loop]]]
    BY <2>2, <2>3, <2>4, <2>5
  <2>7. vec_last_dim_'[e] = SubSeq(vec_last_dim_[e], 1, Len(vec_last_dim_[e]) - 1)
    BY <1>9, <1>12 DEF Front
  <2>8. dim_skew'[e] = dim_skew[e] + o[ls[Len(ls)].loop]
    BY <1>9, <1>12, <2>2, <2>3
  <2>9. Len(vec_last_dim_[e]) = Len(ls) /\ ls # <<>>
    BY <1>8, <1>12
  <2> HIDE DEF step
  <2> QED  BY <2>6, <2>7, <2>8, <2>9
           DEF Walk!EndIteration, Walk!InBody, Walk!Top1, Walk!Pop, Walk!Advanced
<1>13. ASSUME NEW e \in Dim PROVE WalkStep(e)
  <2>1. CASE e = d
    BY <1>12, <2>1 DEF WalkStep, Walk!Next
  <2>2. CASE e # d
    <3>1. UNCHANGED Walk(e)!vars
      BY <1>7, <1>9, <2>2 DEF Walk!vars
    <3> QED  BY <3>1 DEF WalkStep
  <2> QED  BY <2>1, <2>2
<1> QED  BY <1>11, <1>13

\* What is left of a sequence without its last element.
LEMMA FrontOfAppend ==
  ASSUME NEW S, NEW s \in Seq(S), NEW a \in S
  PROVE  SubSeq(Append(s, a), 1, Len(s)) = s
<1> DEFINE t == Append(s, a)
<1>1. /\ t \in Seq(S) /\ Len(t) = Len(s) + 1 /\ Len(s) \in Nat
      /\ \A i \in 1 .. Len(s) : t[i] = s[i]
  BY AppendProperties
<1> HIDE DEF t
<1>2. \A i \in 1 .. Len(s) : t[i] \in S
  BY <1>1
<1> DEFINE u == SubSeq(t, 1, Len(s))
<1>3. u \in Seq(S) /\ Len(u) = Len(s) /\ \A i \in 1 .. Len(s) : u[i] = t[i]
  BY <1>1, <1>2
<1> HIDE DEF u
<1>4. u = s
  BY <1>1, <1>3, SeqEqual
<1> QED  BY <1>4 DEF u, t

\* The test of a loop fails: the loop is over.
LEMMA ExitLoopStep ==
  ASSUME WalkInv, root' = root, ExitLoop
  PROVE  WalkInv' /\ \A d \in Dim : WalkStep(d)
<1> DEFINE c == Current
           d == DimOf(Current)
<1>1. /\ frames # <<>> /\ IsLoop(c) /\ ~InBody(c) /\ c.start >= c.end
      /\ vec_last_dim_' = vec_last_dim_ /\ dim_skew' = Restored(c)
      /\ frames' = Returned /\ root' = root
  BY DEF ExitLoop
<1>2. /\ c \in FrameType /\ FrameFits(c) /\ c.kid \in Nat
      /\ frames \in Seq(FrameType) /\ Len(frames) \in Nat /\ Len(frames) >= 1
      /\ \A e \in Dim : /\ LoopFrames(e) \in Seq(ActivationType)
                        /\ vec_last_dim_[e] \in Seq(BOOLEAN) /\ dim_skew[e] \in Int
  BY <1>1, StackTypes
<1>3. c.kid = 0 /\ d \in Dim /\ c.moved \in Int
  BY <1>1, <1>2, LoopOfFrame DEF InBody, FrameType
<1>4. /\ Under1 \in Seq(FrameType) /\ Len(Under1) = Len(frames) - 1
      /\ \A i \in 1 .. Len(frames) - 1 : Under1[i] = frames[i]
  BY <1>1, <1>2, DropTop DEF Under1
<1>5. /\ frames' \in Seq(FrameType) /\ Len(frames') = Len(Under1)
      /\ \A i \in 1 .. Len(Under1) : Alike(frames'[i], Under1[i])
      /\ frames' # <<>> => Current'.kid > 0 /\ Current'.kid \in Nat
  <2>1. CASE Under1 = <<>>
    <3>1. frames' = <<>>
      BY <1>1, <2>1 DEF Returned, Under1
    <3>2. \A i \in 1 .. Len(Under1) : FALSE
      BY <2>1
    <3>3. frames' \in Seq(FrameType)
      BY <3>1
    <3> QED  BY <2>1, <3>1, <3>2, <3>3
  <2>2. CASE Under1 # <<>>
    <3> DEFINE g == Under1[Len(Under1)]
               gs == [Under1 EXCEPT ![Len(Under1)] = Step(g)]
    <3>1. frames' = gs
      BY <1>1, <2>2 DEF Returned, Under1
    <3>2. g \in FrameType
      BY <1>4, <2>2
    <3>3. Step(g) \in FrameType /\ Step(g).kid > 0 /\ Alike(Step(g), g)
      BY <3>2, GoesOn
    <3>4. Step(g).kid \in Nat
      <4> HIDE DEF g
      <4> QED  BY <3>3 DEF FrameType
    <3>5. /\ gs \in Seq(FrameType) /\ Len(gs) = Len(Under1) /\ gs # <<>>
          /\ gs[Len(Under1)] = Step(g)
          /\ \A i \in 1 .. Len(Under1) : i # Len(Under1) => gs[i] = Under1[i]
      <4> HIDE DEF g
      <4> QED  BY <1>4, <2>2, <3>3, ReplaceTop
    <3> HIDE DEF gs
    <3>6. \A i \in 1 .. Len(Under1) : Alike(gs[i], Under1[i])
      BY <3>3, <3>5 DEF Alike
    <3>7. Current' = Step(g)
      <4>1. Current' = frames'[Len(frames')]
        BY DEF Current
      <4> HIDE DEF g
      <4> QED  BY <3>1, <3>5, <4>1
    <3> HIDE DEF g
    <3> QED  BY <3>1, <3>3, <3>4, <3>5, <3>6, <3>7
  <2> QED  BY <2>1, <2>2
<1>6. StackShape(frames', root')
  <2>1. \A i \in 1 .. Len(frames') : frames'[i].node = frames[i].node /\ frames'[i].idx = frames[i].idx
    BY <1>4, <1>5 DEF Alike
  <2>2. StackShape(frames, root) /\ Len(frames') <= Len(frames)
    BY <1>2, <1>4, <1>5 DEF WalkInv
  <2>3. StackShape(frames', root)
    BY <1>5, <2>1, <2>2, ShapeKept
  <2> QED  BY <1>1, <2>3
<1>7. ASSUME NEW e \in Dim
      PROVE  /\ LoopFrames(e)' \in Seq(ActivationType)
             /\ LoopFrames(e) = IF e = d THEN Append(LoopFrames(e)', Activation(c))
                                ELSE LoopFrames(e)'
             /\ (Testing(e) <=> e = d) /\ ~Testing(e)'
  <2>1. OverDim(c, e) <=> e = d
    BY <1>1 DEF OverDim
  <2>2. LoopFrames(e)' = LoopsIn(Under1, e)
    <3>1. LoopFrames(e)' = LoopsIn(frames', e)
      BY DEF LoopFrames
    <3>2. Len(frames') <= Len(Under1)
      BY <1>2, <1>4, <1>5
    <3>3. LoopsIn(frames', e) = LoopsIn(Under1, e)
      BY <1>4, <1>5, <3>2, LoopsInAlike
    <3> QED  BY <3>1, <3>3
  <2>3. Testing(e) <=> e = d
    BY <1>1, <1>3, <2>1 DEF Testing
  <2>4. ~Testing(e)'
    <3>1. frames' # <<>> => Current'.kid # 0
      BY <1>5
    <3> QED  BY <3>1 DEF Testing
  <2> QED  BY <1>1, <2>1, <2>2, <2>3, <2>4, TopActivation
<1>8. ASSUME NEW e \in Dim
      PROVE  dim_skew'[e] = IF e = d THEN dim_skew[e] - c.moved ELSE dim_skew[e]
  <2>1. dim_skew' = [dim_skew EXCEPT ![d] = @ - c.moved]
    BY <1>1 DEF Restored
  <2> HIDE DEF d
  <2> QED  BY <2>1 DEF WalkInv
<1>9. Activation(c) \in ActivationType /\ Activation(c).start = c.start
      /\ Activation(c).end = c.end /\ Activation(c).moved = c.moved
  BY <1>2, ActivationOf DEF Activation
<1>10. ASSUME NEW e \in Dim PROVE FlagsFit(e)'
  <2>1. CASE e = d
    <3>1. Len(LoopFrames(e)) = Len(LoopFrames(e)') + 1 /\ Len(LoopFrames(e)') \in Nat
      BY <1>7, <1>9, <2>1
    <3>2. Len(vec_last_dim_[e]) = Len(LoopFrames(e)) - 1
      BY <1>7, <2>1 DEF WalkInv, FlagsFit
    <3>3. Len(vec_last_dim_'[e]) = Len(LoopFrames(e)')
      BY <1>1, <3>1, <3>2
    <3> QED  BY <1>7, <3>1, <3>3 DEF FlagsFit
  <2>2. CASE e # d
    BY <1>1, <1>7, <2>2 DEF WalkInv, FlagsFit
  <2> QED  BY <2>1, <2>2
<1>11. WalkInv'
  <2>1. dim_skew' = [dim_skew EXCEPT ![d] = @ - c.moved]
    BY <1>1 DEF Restored
  <2>2. dim_skew[d] - c.moved \in Int
    BY <1>2, <1>3
  <2>3. dim_skew' \in [Dim -> Int]
    <3> HIDE DEF d, c
    <3> QED  BY <1>3, <2>1, <2>2 DEF WalkInv
  <2>4. StartsZero'
    <3>1. loop_start' = [loop_start EXCEPT ![c.node][c.idx] = c.ori] /\ c.ori = 0
      BY <1>2 DEF ExitLoop, StartRestored, FrameType
    <3>2. loop_start' = loop_start
      <4> HIDE DEF c
      <4> QED  BY <3>1 DEF WalkInv, StartsZero
    <3> QED  BY <1>1, <3>2 DEF WalkInv, StartsZero
  <2> QED  BY <1>1, <1>6, <1>10, <2>3, <2>4 DEF WalkInv
<1>12. ASSUME NEW e \in Dim, e = d PROVE Walk(e)!Exit
  <2> DEFINE ls == LoopFrames(e)
             us == LoopFrames(e)'
  <2>1. ls = Append(us, Activation(c)) /\ us \in Seq(ActivationType)
    BY <1>7, <1>12
  <2>2. ls[Len(ls)] = Activation(c) /\ us = SubSeq(ls, 1, Len(ls) - 1) /\ Len(ls) \in Nat
    <3> HIDE DEF us, ls
    <3>1. ls[Len(ls)] = Activation(c) /\ Len(ls) = Len(us) + 1 /\ Len(us) \in Nat
      BY <1>9, <2>1
    <3>2. SubSeq(Append(us, Activation(c)), 1, Len(us)) = us
      BY <1>9, <2>1, FrontOfAppend
    <3>3. Len(ls) - 1 = Len(us)
      BY <3>1
    <3> QED  BY <2>1, <3>1, <3>2, <3>3
  <2>3. Len(vec_last_dim_[e]) # Len(ls)
    BY <1>7, <1>12, <2>2 DEF WalkInv, FlagsFit
  <2>4. ls[Len(ls)].start >= ls[Len(ls)].end /\ dim_skew'[e] = dim_skew[e] - ls[Len(ls)].moved
    BY <1>1, <1>8, <1>9, <1>12, <2>2
  <2> QED  BY <1>1, <2>2, <2>3, <2>4 DEF Walk!Exit, Walk!InBody, Walk!Top1, Walk!Pop
<1>13. ASSUME NEW e \in Dim PROVE WalkStep(e)
  <2>1. CASE e = d
    BY <1>12, <2>1 DEF WalkStep, Walk!Next
  <2>2. CASE e # d
    <3>1. UNCHANGED Walk(e)!vars
      BY <1>1, <1>7, <1>8, <2>2 DEF Walk!vars
    <3> QED  BY <3>1 DEF WalkStep
  <2> QED  BY <2>1, <2>2
<1> QED  BY <1>11, <1>13

\* Before the walk starts.
LEMMA WalkInitially ==
  ASSUME Init
  PROVE  WalkInv /\ \A d \in Dim : Walk(d)!Init
<1>1. frames = <<>> /\ vec_last_dim_ = [d \in Dim |-> <<>>] /\ dim_skew = [d \in Dim |-> 0]
  BY DEF Init, WalkEmpty
<1>2. root \in Roots
  BY DEF Init, CountInit
<1>3. \A d \in Dim : LoopFrames(d) = <<>> /\ vec_last_dim_[d] = <<>> /\ dim_skew[d] = 0
  <2>1. <<>> \in Seq(FrameType)
    OBVIOUS
  <2> QED  BY <1>1, <2>1, LoopsInType DEF LoopFrames
<1>4. StackShape(frames, root)
  <2>1. frames \in Seq(FrameType) /\ Len(frames) = 0
    BY <1>1
  <2> QED  BY <1>1, <2>1 DEF StackShape
<1>5. \A d \in Dim : FlagsFit(d)
  BY <1>1, <1>3 DEF FlagsFit, Testing
<1>6. WalkInv
  <2>1. StartsZero
    BY DEF Init, WalkEmpty, StartsZero, Nodes
  <2> QED  BY <1>1, <1>2, <1>4, <1>5, <2>1 DEF WalkInv
<1>7. ASSUME NEW d \in Dim PROVE Walk(d)!Init
  BY <1>3 DEF Walk!Init
<1> QED  BY <1>6, <1>7

\* Every action of the performance analysis.
LEMMA WalkNextStep ==
  ASSUME WalkInv, root' = root, WalkNext
  PROVE  WalkInv' /\ \A d \in Dim : WalkStep(d)
<1>1. CASE StartWalk
  <2>1. frames = <<>> /\ visitTile(root) /\ root \in Node
    BY <1>1 DEF StartWalk, WalkInv, Roots
  <2> QED  BY <2>1, VisitTileStep
<1>2. CASE EnterTile
  <2>1. frames # <<>> /\ AtChild(Current) /\ visitTile(Child(Current)) /\ Current \in FrameType
    BY <1>2, StackTypes DEF EnterTile
  <2>2. Child(Current) \in Node
    BY <2>1, StepsType
  <2> QED  BY <2>1, <2>2, VisitTileStep
<1>3. CASE EnterInnerLoop
  BY <1>3, EnterInnerLoopStep
<1>4. CASE BeginIteration
  BY <1>4, BeginIterationStep
<1>5. CASE visitOp
  <2>1. /\ frames # <<>> /\ AtChild(Current) /\ frames' = Replace(Step(Current))
        /\ UNCHANGED <<root, loop_start, vec_last_dim_, dim_skew>>
    BY <1>5 DEF visitOp
  <2> QED  BY <2>1, VisitLeafStep
<1>6. CASE visitTrans
  <2>1. /\ frames # <<>> /\ AtChild(Current) /\ frames' = Replace(Step(Current))
        /\ UNCHANGED <<root, loop_start, vec_last_dim_, dim_skew>>
    BY <1>6 DEF visitTrans
  <2> QED  BY <2>1, VisitLeafStep
<1>7. CASE EnterScope
  BY <1>7, EnterScopeStep
<1>8. CASE ExitScope
  BY <1>8, ExitScopeStep
<1>9. CASE EndIteration
  BY <1>9, EndIterationStep
<1>10. CASE ExitLoop
  BY <1>10, ExitLoopStep
<1> QED  BY <1>1, <1>2, <1>3, <1>4, <1>5, <1>6, <1>7, <1>8, <1>9, <1>10 DEF WalkNext

\* Every step of the evaluation.
LEMMA EvaluationStep ==
  ASSUME WalkInv, [Next]_vars
  PROVE  WalkInv' /\ \A d \in Dim : WalkStep(d)
<1>1. CASE GetLoopCount
  <2>1. UNCHANGED <<root, walkVars>>
    BY <1>1 DEF GetLoopCount, Evaluate, Visit, FinishCount
  <2> QED  BY <2>1, StutterStep DEF walkVars
<1>2. CASE Initialise
  <2>1. UNCHANGED <<root, walkVars>>
    BY <1>2 DEF Initialise, TensorNext, OffsetPasses, initOpTensor, StartTensorPass,
       initTensor, FinishTensors
  <2> QED  BY <2>1, StutterStep DEF walkVars
<1>3. CASE Analyse
  BY <1>3, WalkNextStep DEF Analyse
<1>4. CASE Stop \/ UNCHANGED vars
  <2>1. UNCHANGED <<root, walkVars>>
    BY <1>4 DEF Stop, vars
  <2> QED  BY <2>1, StutterStep DEF walkVars
<1> QED  BY <1>1, <1>2, <1>3, <1>4 DEF Next

\* The performance analysis implements the protocol of module DimWalk in every
\* dimension of the workload at once, for every mapping: whatever the other
\* dimensions, the Scopes and the sibling tiles do in between, the flags and
\* the offset of a dimension are pushed, popped, moved and restored as if its
\* loops ran alone (performance.cpp, visitTileLoop).
THEOREM WalkImplementsProtocol == Spec => WalksEachDim
<1>1. Init => WalkInv /\ \A d \in Dim : Walk(d)!Init
  BY WalkInitially
<1>2. WalkInv /\ [Next]_vars => WalkInv'
  BY EvaluationStep
<1>3. WalkInv /\ [Next]_vars => [\A d \in Dim : [Walk(d)!Next]_(Walk(d)!vars)]_vars
  BY EvaluationStep DEF WalkStep
<1> QED  BY <1>1, <1>2, <1>3, PTL DEF Spec, WalksEachDim

-----------------------------------------------------------------------------
(* Where the walk is in every dimension.                                    *)

\* The activations ls over a dimension start one where the iteration of the
\* one around it is, and the running offset is where the innermost one is.
Positioned(ls, skew) ==
  /\ ls = <<>> => skew = 0
  /\ ls # <<>> => skew = ls[Len(ls)].from + ls[Len(ls)].moved
  /\ ls # <<>> => ls[1].from = 0
  /\ \A k \in 1 .. Len(ls) - 1 : ls[k + 1].from = ls[k].from + ls[k].moved

\* All dimensions are in such a state.
PositionInv == \A d \in Dim : Positioned(LoopFrames(d), dim_skew[d])

\* The innermost activation.
LEMMA LastActivation ==
  ASSUME NEW ls \in Seq(ActivationType), ls # <<>>
  PROVE  /\ ls[Len(ls)] \in ActivationType /\ ls[Len(ls)].loop \in Node
         /\ ls[Len(ls)].from \in Int /\ ls[Len(ls)].moved \in Int
<1>1. ls[Len(ls)] \in ActivationType
  OBVIOUS
<1>2. ASSUME NEW a \in ActivationType PROVE a.loop \in Node /\ a.from \in Int /\ a.moved \in Int
  BY DEF ActivationType
<1> QED  BY <1>1, <1>2

\* One more activation, where the walk is.
LEMMA PositionPush ==
  ASSUME NEW ls \in Seq(ActivationType), NEW skew \in Int, Positioned(ls, skew),
         NEW a \in ActivationType, a.from = skew, a.moved = 0
  PROVE  Positioned(Append(ls, a), skew)
<1> DEFINE us == Append(ls, a)
<1>1. /\ us \in Seq(ActivationType) /\ Len(us) = Len(ls) + 1 /\ Len(ls) \in Nat
      /\ \A i \in 1 .. Len(ls) : us[i] = ls[i] /\ us[Len(ls) + 1] = a
  BY AppendProperties
<1>2. us[Len(us)] = a /\ us # <<>>
  OBVIOUS
<1> HIDE DEF us
<1>3. skew = us[Len(us)].from + us[Len(us)].moved
  BY <1>2
<1>4. us[1].from = 0
  <2>1. CASE ls = <<>>
    <3>1. us[1] = a /\ skew = 0
      BY <1>1, <1>2, <2>1 DEF Positioned
    <3> QED  BY <3>1
  <2>2. CASE ls # <<>>
    <3>1. us[1] = ls[1]
      BY <1>1, <2>2
    <3> QED  BY <2>2, <3>1 DEF Positioned
  <2> QED  BY <2>1, <2>2
<1>5. ASSUME NEW k \in 1 .. Len(us) - 1 PROVE us[k + 1].from = us[k].from + us[k].moved
  <2>1. CASE k = Len(ls)
    <3>1. ls # <<>> /\ us[k] = ls[Len(ls)] /\ us[k + 1] = a
      BY <1>1, <1>2, <2>1
    <3> QED  BY <3>1 DEF Positioned
  <2>2. CASE k # Len(ls)
    <3>1. k \in 1 .. Len(ls) - 1 /\ us[k] = ls[k] /\ us[k + 1] = ls[k + 1]
      BY <1>1, <2>2
    <3> QED  BY <3>1 DEF Positioned
  <2> QED  BY <2>1, <2>2
<1>6. Positioned(us, skew)
  BY <1>2, <1>3, <1>4, <1>5 DEF Positioned
<1> QED  BY <1>6 DEF us

\* The innermost activation moves on together with the running offset.
LEMMA PositionAdvance ==
  ASSUME NEW ls \in Seq(ActivationType), NEW skew \in Int, Positioned(ls, skew), ls # <<>>,
         NEW step \in Int, NEW us, us \in Seq(ActivationType), Len(us) = Len(ls),
         \A i \in 1 .. Len(ls) : i # Len(ls) => us[i] = ls[i],
         us[Len(ls)].from = ls[Len(ls)].from, us[Len(ls)].moved = ls[Len(ls)].moved + step
  PROVE  Positioned(us, skew + step)
<1>1. Len(ls) \in Nat \ {0} /\ us # <<>>
  OBVIOUS
<1>2. ls[Len(ls)].from \in Int /\ ls[Len(ls)].moved \in Int
  BY LastActivation
<1>3. skew + step = us[Len(us)].from + us[Len(us)].moved
  <2> DEFINE a == ls[Len(ls)].from
             b == ls[Len(ls)].moved
  <2>1. skew = a + b /\ us[Len(us)].from = a /\ us[Len(us)].moved = b + step
    BY DEF Positioned
  <2> HIDE DEF a, b
  <2>2. a \in Int /\ b \in Int
    BY <1>2 DEF a, b
  <2> QED  BY <2>1, <2>2
<1>4. us[1].from = ls[1].from
  BY <1>1
<1>5. ASSUME NEW k \in 1 .. Len(us) - 1 PROVE us[k + 1].from = us[k].from + us[k].moved
  <2>1. k \in 1 .. Len(ls) /\ k # Len(ls) /\ k + 1 \in 1 .. Len(ls)
    BY <1>1
  <2>2. us[k] = ls[k] /\ us[k + 1].from = ls[k + 1].from
    BY <2>1
  <2>3. ls[k + 1].from = ls[k].from + ls[k].moved
    BY DEF Positioned
  <2> QED  BY <2>2, <2>3
<1> QED  BY <1>1, <1>3, <1>4, <1>5 DEF Positioned

\* The innermost activation ends, and the offset goes back by what it moved:
\* the walk is where it was when the activation began.
LEMMA PositionPop ==
  ASSUME NEW ls \in Seq(ActivationType), NEW skew \in Int, Positioned(ls, skew), ls # <<>>
  PROVE  LET us == SubSeq(ls, 1, Len(ls) - 1) IN
           /\ Positioned(us, skew - ls[Len(ls)].moved)
           /\ skew - ls[Len(ls)].moved = ls[Len(ls)].from
<1> DEFINE n == Len(ls) - 1
           us == SubSeq(ls, 1, n)
           back == skew - ls[Len(ls)].moved
<1>1. n \in Nat /\ Len(ls) = n + 1 /\ \A i \in 1 .. n : ls[i] \in ActivationType
  OBVIOUS
<1>2. us \in Seq(ActivationType) /\ Len(us) = n /\ \A i \in 1 .. n : us[i] = ls[i]
  <2> HIDE DEF n
  <2> QED  BY <1>1
<1>3. ls[Len(ls)].from \in Int /\ ls[Len(ls)].moved \in Int
  BY LastActivation
<1>4. back = ls[Len(ls)].from
  BY <1>3 DEF Positioned
<1> HIDE DEF n, us, back
<1>5. CASE n = 0
  <2>1. us = <<>> /\ back = 0
    BY <1>1, <1>2, <1>4, <1>5 DEF Positioned
  <2> QED  BY <1>2, <1>4, <1>5, <2>1 DEF Positioned, n, us, back
<1>6. CASE n # 0
  <2>1. us # <<>> /\ us[1] = ls[1] /\ us[Len(us)] = ls[n] /\ n \in 1 .. Len(ls) - 1
    BY <1>1, <1>2, <1>6
  <2>2. back = us[Len(us)].from + us[Len(us)].moved
    BY <1>1, <1>4, <2>1 DEF Positioned
  <2>3. ASSUME NEW k \in 1 .. Len(us) - 1 PROVE us[k + 1].from = us[k].from + us[k].moved
    <3>1. k \in 1 .. n /\ k + 1 \in 1 .. n /\ k \in 1 .. Len(ls) - 1
      BY <1>1, <1>2
    <3> QED  BY <1>2, <3>1 DEF Positioned
  <2>4. Positioned(us, back)
    BY <2>1, <2>2, <2>3 DEF Positioned
  <2> QED  BY <1>4, <2>4 DEF n, us, back
<1> QED  BY <1>5, <1>6

\* A call of visitTileLoop leaves the flags and the offset as it found them.
ReturnsHome(d) ==
  Len(LoopFrames(d)') < Len(LoopFrames(d)) =>
    /\ dim_skew'[d] = LoopFrames(d)[Len(LoopFrames(d))].from
    /\ Len(vec_last_dim_'[d]) = Len(LoopFrames(d)')

\* The innermost activation over d is of a loop over d.
LEMMA LastIsLoop ==
  ASSUME WalkInv, NEW d \in Dim, LoopFrames(d) # <<>>
  PROVE  LoopFrames(d)[Len(LoopFrames(d))].loop \in TileLoops(d)
<1>1. frames # <<>>
  <2>1. <<>> \in Seq(FrameType)
    OBVIOUS
  <2> QED  BY <2>1, LoopsInType DEF LoopFrames
<1>2. /\ Current \in FrameType /\ FrameFits(Current) /\ Current.node \in Node
      /\ Current.idx \in Nat
  BY <1>1, StackTypes
<1>3. OnTop(LoopFrames(d), Nearest(Current, d))
  BY <1>1, TopLoop DEF WalkInv, LoopFrames, Current
<1>4. LoopFrames(d)[Len(LoopFrames(d))].loop = Nearest(Current, d) /\ Nearest(Current, d) # nullptr
  BY <1>3 DEF OnTop
<1>5. CASE \E j \in 1 .. Current.idx : Tree[Current.node].loops[j].dim = d
  <2> DEFINE n == Current.node
             ls == Tree[Current.node].loops
  <2>1. Tree[n].kind = "Tile" /\ Current.idx \in 1 .. Len(ls)
    BY <1>2, <1>5 DEF FrameFits
  <2>2. ls \in Seq(Loop)
    BY <1>2, TreeAssumption
  <2>3. \E j \in DOMAIN ls : ls[j].dim = d
    <3> HIDE DEF ls
    <3>1. \A j \in 1 .. Current.idx : j \in DOMAIN ls
      BY <1>2, <2>1, <2>2
    <3> QED  BY <1>5, <3>1 DEF ls
  <2>4. n \in TileLoops(d)
    BY <1>2, <2>1, <2>3 DEF TileLoops, LoopDims
  <2> QED  BY <1>4, <1>5, <2>4 DEF Nearest
<1>6. CASE ~ \E j \in 1 .. Current.idx : Tree[Current.node].loops[j].dim = d
  <2>1. Nearest(Current, d) = LoopAbove(Current.node, d)
    BY <1>6 DEF Nearest
  <2> QED  BY <1>2, <1>4, <2>1, LoopAboveIs
<1> QED  BY <1>5, <1>6

\* What a step of the protocol makes of the activations over d and of the
\* offset, and that a return leads home.
LEMMA PositionStep ==
  ASSUME WalkInv, WalkInv', PositionInv, NEW d \in Dim, WalkStep(d)
  PROVE  Positioned(LoopFrames(d), dim_skew[d])' /\ ReturnsHome(d)
<1> DEFINE ls == LoopFrames(d)
           us == LoopFrames(d)'
           skew == dim_skew[d]
           skew2 == dim_skew'[d]
<1>1. ls \in Seq(ActivationType) /\ skew \in Int /\ vec_last_dim_[d] \in Seq(BOOLEAN)
  BY StackTypes
<1>2. us \in Seq(ActivationType) /\ skew2 \in Int
  <2>1. frames' \in Seq(FrameType)
    BY DEF WalkInv, StackShape
  <2> QED  BY <2>1, LoopsInType DEF LoopFrames, WalkInv
<1>3. Positioned(ls, skew)
  BY DEF PositionInv
<1>4. Len(vec_last_dim_[d]) # Len(ls) => Len(vec_last_dim_[d]) = Len(ls) - 1 /\ ls # <<>>
  <2>1. Len(vec_last_dim_[d]) \in Nat /\ Len(ls) \in Nat
    BY <1>1
  <2>2. Len(vec_last_dim_[d]) = Len(ls) \/ Len(vec_last_dim_[d]) = Len(ls) - 1
    BY <2>1 DEF WalkInv, FlagsFit
  <2> QED  BY <1>1, <2>1, <2>2
<1>5. SUFFICES Positioned(us, skew2) /\ ReturnsHome(d)
  OBVIOUS
<1> HIDE DEF ls, us
<1>6. ASSUME NEW l \in TileLoops(d), Walk(d)!Enter(l) PROVE Positioned(us, skew2) /\ ReturnsHome(d)
  <2> DEFINE a == [loop |-> l, start |-> 0, end |-> Walk(d)!LoopEnd(l), moved |-> 0, from |-> skew]
  <2>1. us = Append(ls, a) /\ skew2 = skew
    BY <1>6 DEF Walk!Enter, ls, us
  <2>2. a \in ActivationType
    <3>1. l \in Node /\ d \in LoopDims(l)
      BY DEF TileLoops
    <3>2. LoopOf(l, d).res \in Int /\ LoopOf(l, d).end \in Int
      BY <3>1, LoopOfIs DEF Loop
    <3>3. Walk(d)!LoopEnd(l) \in Int
      BY <3>2 DEF Walk!LoopEnd
    <3> QED  BY <1>1, <3>1, <3>3 DEF ActivationType
  <2>3. a.from = skew /\ a.moved = 0
    OBVIOUS
  <2> HIDE DEF a
  <2>4. Len(us) = Len(ls) + 1 /\ Len(ls) \in Nat
    BY <1>1, <2>1, <2>2
  <2>5. ~(Len(us) < Len(ls))
    BY <2>4
  <2>6. ReturnsHome(d)
    BY <2>5 DEF ReturnsHome, ls, us
  <2> QED  BY <1>1, <1>3, <2>1, <2>2, <2>3, <2>6, PositionPush
<1>7. ASSUME Walk(d)!BeginIteration \/ UNCHANGED Walk(d)!vars
      PROVE  Positioned(us, skew2) /\ ReturnsHome(d)
  <2>1. us = ls /\ skew2 = skew
    BY <1>7 DEF Walk!BeginIteration, Walk!vars, ls, us
  <2>2. ~(Len(us) < Len(ls))
    BY <1>1, <2>1
  <2> QED  BY <1>3, <2>1, <2>2 DEF ReturnsHome, ls, us
<1>8. ASSUME Walk(d)!EndIteration PROVE Positioned(us, skew2) /\ ReturnsHome(d)
  <2> DEFINE a == ls[Len(ls)]
             o == [n \in TileLoops(d) |-> Offsets[d][n].step]
             b == [a EXCEPT !.start = a.start + 1, !.moved = a.moved + o[a.loop]]
  <2>1. ls # <<>> /\ us = [ls EXCEPT ![Len(ls)] = b] /\ skew2 = skew + o[a.loop]
    BY <1>8 DEF Walk!EndIteration, Walk!Top1, Walk!Advanced, ls, us
  <2>2. a \in ActivationType /\ a.loop \in Node
    BY <1>1, <2>1, LastActivation
  <2>3. a.loop \in TileLoops(d)
    BY <2>1, LastIsLoop DEF ls
  <2>4. o[a.loop] \in Int
    BY <2>2, <2>3, OffsetsType
  <2>5. b.from = a.from /\ b.moved = a.moved + o[a.loop]
    <3> HIDE DEF a, o
    <3> QED  BY <2>2 DEF ActivationType
  <2> HIDE DEF b, o
  <2>6. Len(us) = Len(ls) /\ us[Len(ls)] = b /\ \A i \in 1 .. Len(ls) : i # Len(ls) => us[i] = ls[i]
    <3>1. ls \in [1 .. Len(ls) -> ActivationType] /\ Len(ls) \in 1 .. Len(ls)
      BY <1>1, <2>1
    <3>2. us = [i \in 1 .. Len(ls) |-> IF i = Len(ls) THEN b ELSE ls[i]]
      BY <2>1, <3>1
    <3>3. DOMAIN us = 1 .. Len(ls) /\ Len(ls) \in Nat
      BY <1>1, <3>2
    <3>4. Len(us) = Len(ls)
      BY <1>2, <3>3
    <3> QED  BY <3>1, <3>2, <3>4
  <2>7. Positioned(us, skew2)
    BY <1>1, <1>2, <1>3, <2>1, <2>4, <2>5, <2>6, PositionAdvance
  <2>8. ~(Len(us) < Len(ls))
    BY <1>1, <2>6
  <2> QED  BY <2>7, <2>8 DEF ReturnsHome, ls, us
<1>9. ASSUME Walk(d)!Exit PROVE Positioned(us, skew2) /\ ReturnsHome(d)
  <2>1. /\ Len(vec_last_dim_[d]) # Len(ls) /\ us = SubSeq(ls, 1, Len(ls) - 1)
        /\ skew2 = skew - ls[Len(ls)].moved /\ vec_last_dim_'[d] = vec_last_dim_[d]
    BY <1>9 DEF Walk!Exit, Walk!InBody, Walk!Pop, Walk!Top1, ls, us
  <2>2. ls # <<>> /\ Len(vec_last_dim_[d]) = Len(ls) - 1
    BY <1>4, <2>1
  <2>3. Positioned(us, skew2) /\ skew2 = ls[Len(ls)].from
    BY <1>1, <1>3, <2>1, <2>2, PositionPop
  <2>4. Len(us) = Len(ls) - 1
    <3> DEFINE k == Len(ls) - 1
    <3>1. k \in Nat /\ \A i \in 1 .. k : ls[i] \in ActivationType
      BY <1>1, <2>2
    <3> HIDE DEF k
    <3>2. Len(SubSeq(ls, 1, k)) = k
      BY <3>1
    <3> QED  BY <2>1, <3>2 DEF k
  <2> QED  BY <2>1, <2>2, <2>3, <2>4 DEF ReturnsHome, ls, us
<1> QED  BY <1>6, <1>7, <1>8, <1>9 DEF WalkStep, Walk!Next

\* Before the walk starts, it is at the origin.
LEMMA PositionInitially ==
  ASSUME Init
  PROVE  WalkInv /\ PositionInv
<1>1. ASSUME NEW d \in Dim PROVE LoopFrames(d) = <<>> /\ dim_skew[d] = 0
  BY WalkInitially DEF Walk!Init
<1>2. ASSUME NEW d \in Dim PROVE Positioned(LoopFrames(d), dim_skew[d])
  <2>1. Len(LoopFrames(d)) = 0
    BY <1>1
  <2> QED  BY <1>1, <2>1 DEF Positioned
<1> QED  BY <1>2, WalkInitially DEF PositionInv

\* Where the walk is, invariantly.
LEMMA PositionStays ==
  ASSUME WalkInv, PositionInv, [Next]_vars
  PROVE  PositionInv' /\ \A d \in Dim : ReturnsHome(d)
<1>1. WalkInv' /\ \A d \in Dim : WalkStep(d)
  BY EvaluationStep
<1>2. ASSUME NEW d \in Dim PROVE Positioned(LoopFrames(d), dim_skew[d])' /\ ReturnsHome(d)
  BY <1>1, PositionStep
<1> QED  BY <1>2 DEF PositionInv

\* At every moment of the performance analysis the running offset of each
\* dimension is the position of the innermost running iteration over it, and 0
\* outside all its loops, for every mapping whatever its loop counts: the
\* additions of the iterations and the subtractions of the returns balance on
\* every path through tiles, Scopes and the loops of the other dimensions.
THEOREM OffsetIsPosition == Spec => [](\A d \in Dim : Walk(d)!SkewIsPosition)
<1>1. Init => WalkInv /\ PositionInv
  BY PositionInitially
<1>2. WalkInv /\ PositionInv /\ [Next]_vars => (WalkInv /\ PositionInv)'
  BY EvaluationStep, PositionStays
<1>3. PositionInv => \A d \in Dim : Walk(d)!SkewIsPosition
  BY DEF PositionInv, Positioned, Walk!SkewIsPosition, Walk!At
<1> QED  BY <1>1, <1>2, <1>3, PTL DEF Spec

\* A call of visitTileLoop, when it returns, leaves the offset and the flags of
\* its dimension as it found them, for every mapping.
THEOREM LoopsReturnHome == Spec => [][\A d \in Dim : Walk(d)!Restored]_vars
<1>1. Init => WalkInv /\ PositionInv
  BY PositionInitially
<1>2. WalkInv /\ PositionInv /\ [Next]_vars => (WalkInv /\ PositionInv)'
  BY EvaluationStep, PositionStays
<1>3. WalkInv /\ PositionInv /\ [Next]_vars => [\A d \in Dim : Walk(d)!Restored]_vars
  BY PositionStays DEF ReturnsHome, Walk!Restored, Walk!Top1
<1> QED  BY <1>1, <1>2, <1>3, PTL DEF Spec

-----------------------------------------------------------------------------
(* The passes one after the other.                                          *)

\* A node that the legality check has visited has children exactly if it is no
\* leaf by its kind.
VisitedLegal ==
  verdict \in {"running", "accepted"} =>
    \A n \in Nodes : ~Listed(n, unvisited) => ChildrenLegal(n)

\* main evaluates once, and InitAnalysis waits for the verdict of GetLoopCount.
InTurn == evaluations <= 1 /\ (pass # "offset" => verdict = "accepted")

\* What the passes before the performance analysis establish.
PassesInv == CountInv /\ PassInv /\ InTurn /\ VisitedLegal

\* Before the first pass.
LEMMA PassesInitially ==
  ASSUME Init
  PROVE  PassesInv
<1>1. CountInv
  BY CountInitially DEF Init
<1>2. PassInv
  BY PassInitially DEF Init, CountInit, TensorInit
<1>3. InTurn /\ VisitedLegal
  BY DEF Init, CountInit, TensorsEmpty, InTurn, VisitedLegal
<1> QED  BY <1>1, <1>2, <1>3 DEF PassesInv

\* The steps of GetLoopCount check the children of the nodes they visit.
LEMMA VisitsCheck ==
  ASSUME CountInv, VisitedLegal, Evaluate \/ Visit \/ FinishCount
  PROVE  VisitedLegal'
<1>1. root \in Roots /\ Nodes = NodesOf[root] /\ root' = root /\ Nodes' = Nodes
  BY DEF CountInv, CountTypes, Evaluate, Visit, FinishCount, Nodes
<1>2. CASE Evaluate
  <2>1. unvisited' = <<root>>
    BY <1>2 DEF Evaluate
  <2>2. ASSUME NEW n \in Nodes PROVE Listed(n, <<root>>)
    <3>1. n \in Node /\ (root = n \/ root \in ToSet(Ancestors[n]))
      BY <1>1 DEF NodesOf
    <3>2. 1 \in DOMAIN <<root>> /\ <<root>>[1] = root
      OBVIOUS
    <3>3. Under(n, root)
      BY <3>1 DEF Under, Above
    <3> QED  BY <3>2, <3>3 DEF Listed
  <2> QED  BY <1>1, <2>1, <2>2 DEF VisitedLegal
<1>3. CASE Visit
  <2> DEFINE n == Head(unvisited)
             V == Kids(n) \o Tail(unvisited)
  <2>1. /\ verdict = "running" /\ unvisited # <<>>
        /\ verdict' = IF NodeLegal(n) THEN "running" ELSE "aborted"
        /\ unvisited' = IF NodeLegal(n) THEN V ELSE <<>>
    BY <1>3 DEF Visit
  <2>2. unvisited \in Seq(NodesOf[root]) /\ Apart(unvisited)
    BY <1>1 DEF CountInv, CountTypes, CountControl
  <2>3. \A m \in Node : Listed(m, V) <=> Listed(m, unvisited) /\ m # n
    BY <1>1, <2>1, <2>2, ListAfterVisit
  <2> HIDE DEF n, V
  <2>4. SUFFICES ASSUME NodeLegal(n), NEW m \in Nodes, ~Listed(m, V) PROVE ChildrenLegal(m)
    BY <1>1, <2>1 DEF VisitedLegal
  <2>5. m \in Node
    BY <1>1 DEF NodesOf
  <2> QED  BY <2>1, <2>3, <2>4, <2>5 DEF VisitedLegal, NodeLegal
<1>4. CASE FinishCount
  BY <1>1, <1>4 DEF FinishCount, VisitedLegal
<1> QED  BY <1>2, <1>3, <1>4

\* A step that leaves the variables of GetLoopCount alone.
LEMMA CheckStays ==
  ASSUME CountInv, VisitedLegal, UNCHANGED countVars
  PROVE  CountInv' /\ VisitedLegal'
<1>1. CountInv'
  BY CountStutters
<1>2. UNCHANGED <<root, unvisited, verdict>> /\ Nodes' = Nodes
  BY DEF countVars, Nodes
<1> QED  BY <1>1, <1>2 DEF VisitedLegal

\* Every step of the evaluation keeps what the passes have established.
LEMMA PassesStep ==
  ASSUME PassesInv, [Next]_vars
  PROVE  PassesInv'
<1> USE DEF PassesInv
<1>1. CASE GetLoopCount
  <2>1. (Evaluate /\ evaluations = 0) \/ Visit \/ FinishCount
    BY <1>1 DEF GetLoopCount
  <2>2. CountInv' /\ VisitedLegal'
    BY <2>1, EvaluateKeeps, VisitKeeps, FinishCountKeeps, VisitsCheck
  <2>3. UNCHANGED <<root, tensorVars>> /\ pass' = pass
    BY <1>1, <2>1 DEF GetLoopCount, Evaluate, Visit, FinishCount, tensorVars
  <2>4. PassInv'
    BY <2>3, PassStep
  <2>5. InTurn'
    <3>1. verdict # "accepted"
      BY <2>1 DEF Evaluate, Visit, FinishCount, CountInv, CountControl
    <3>2. evaluations' = evaluations \/ evaluations' = 1
      <4>1. (evaluations = 0 /\ evaluations' = evaluations + 1) \/ evaluations' = evaluations
        BY <2>1, Zenon DEF Evaluate, Visit, FinishCount
      <4> QED  BY <4>1
    <3>3. evaluations' <= 1
      BY <3>2 DEF InTurn
    <3> QED  BY <2>3, <3>1, <3>3 DEF InTurn
  <2> QED  BY <2>2, <2>4, <2>5
<1>2. CASE Initialise
  <2>1. /\ TensorNext /\ verdict = "accepted"
        /\ UNCHANGED <<unvisited, inherit_loopnests_, verdict, evaluations>>
    BY <1>2 DEF Initialise
  <2>2. PassInv'
    BY <2>1, PassStep
  <2>3. UNCHANGED countVars
    BY <2>1 DEF TensorNext, OffsetPasses, initOpTensor, StartTensorPass, initTensor,
       FinishTensors, countVars
  <2>4. InTurn'
    BY <2>1 DEF InTurn
  <2> QED  BY <2>2, <2>3, <2>4, CheckStays
<1>3. CASE Analyse \/ Stop \/ UNCHANGED vars
  <2>1. UNCHANGED <<countVars, tensorVars>>
    BY <1>3 DEF Analyse, Stop, vars, countVars
  <2>2. UNCHANGED <<root, tensorVars>> /\ UNCHANGED <<verdict, evaluations, pass>>
    BY <2>1 DEF countVars, tensorVars
  <2>3. PassInv'
    BY <2>2, PassStep
  <2>4. InTurn'
    BY <2>2 DEF InTurn
  <2> QED  BY <2>1, <2>3, <2>4, CheckStays
<1> QED  BY <1>1, <1>2, <1>3 DEF Next

\* The evaluation keeps what its passes have established.
LEMMA PassesInvariant == Spec => []PassesInv
<1>1. Init => PassesInv
  BY PassesInitially
<1>2. PassesInv /\ [Next]_vars => PassesInv'
  BY PassesStep
<1> QED  BY <1>1, <1>2, PTL DEF Spec

\* The variables of GetLoopCount and of InitAnalysis keep their types in the
\* whole evaluation.  No assumption on the leaves is needed here: InitAnalysis
\* comes after GetLoopCount, which stops at an operation that has children.
LEMMA PassesTyped ==
  ASSUME PassesInv
  PROVE  CountTypeOK /\ TensorTypeOK
<1>1. CountTypeOK
  BY CountInvTypes DEF PassesInv
<1>2. ASSUME NEW n \in ToSet(leaf_vec_) PROVE Kids(n) = <<>>
  <2>1. PassInv /\ leaf_vec_ \in Seq(Leaves)
    BY DEF PassesInv, PassInv, TypesInv
  <2>2. n \in Leaves /\ n \in Nodes /\ Tree[n].kind \in {"Op", "Trans"}
    BY <2>1 DEF ToSet, Leaves
  <2>3. pass # "offset"
    <3>1. ASSUME pass = "offset" PROVE FALSE
      BY <2>1, <2>2, <3>1 DEF PassInv, Running, CollectedInv, ToCollect
    <3> QED  BY <3>1
  <2>4. verdict = "accepted" /\ unvisited = <<>>
    BY <2>3 DEF PassesInv, InTurn, CountInv, CountControl
  <2>5. ~Listed(n, unvisited)
    BY <2>4 DEF Listed
  <2>6. ChildrenLegal(n)
    BY <2>2, <2>4, <2>5 DEF PassesInv, VisitedLegal
  <2> QED  BY <2>2, <2>6 DEF ChildrenLegal
<1> QED  BY <1>1, <1>2, PassInvTypesAt DEF PassesInv

\* The type invariants of the two visitors, in the evaluation that runs them.
THEOREM PassesTypeCorrect == Spec => [](CountTypeOK /\ TensorTypeOK)
<1>1. PassesInv => CountTypeOK /\ TensorTypeOK
  BY PassesTyped
<1> QED  BY <1>1, PassesInvariant, PTL

\* In the whole evaluation an accepted mapping runs every point of its
\* operations' dimensions (get_loop_count, constraint.cpp).
THEOREM EvaluationCovers == Spec => []AcceptedCoversBounds
<1>1. PassesInv => AcceptedCoversBounds
  BY CountInvCovers DEF PassesInv
<1> QED  BY <1>1, PassesInvariant, PTL

\* In the whole evaluation, when the performance analysis starts every tile
\* takes in exactly the tensors that are live into it, and only the final
\* result leaves the root (initTensor, init.cpp).
THEOREM EvaluationTensors == Spec => [](InputsAreLiveIn /\ ResultLeavesRoot)
<1>1. PassesInv => InputsAreLiveIn /\ ResultLeavesRoot
  BY PassInvLiveIn, PassInvResult DEF PassesInv
<1> QED  BY <1>1, PassesInvariant, PTL
=============================================================================
