---------------------------- MODULE FatTableProofs ----------------------------
(****************************************************************************)
(* Lemmas about FatTable: where a walk along a chain gets, what a change of *)
(* the table leaves of it, and which block k_determineBlock gives out.      *)
(*                                                                          *)
(* Walk is defined by recursion.  The induction theorems of the library     *)
(* take a formula with a parameter, but well-foundedness of < does not:     *)
(* SetInduction is induction for a set instead of a formula.                *)
(****************************************************************************)
EXTENDS FatTable, TLAPS, WellFoundedInduction, FiniteSetTheorems, FunctionTheorems,
        SequenceTheorems

\* A nonempty set of numbers has a least element.
LEMMA LeastNat ==
  ASSUME NEW T \in SUBSET Nat, T # {}
  PROVE  \E m \in T : \A k \in T : m <= k
<1>1. PICK R : R = OpToRel(<, Nat)
  OBVIOUS
<1>2. IsWellFoundedOn(R, Nat)
  BY <1>1, NatLessThanWellFounded, Zenon
<1>3. \A k, m \in Nat : k < m => <<k, m>> \in R
  BY <1>1 DEF OpToRel
<1>4. PICK m \in T : \A k \in T : <<k, m>> \notin R
  BY <1>2, WFMin
<1>5. \A k \in T : ~ (k < m)
  BY <1>3, <1>4
<1>6. QED
  BY <1>5

\* A set with 0, and with the successor of each of its numbers, has them all.
LEMMA SetInduction ==
  ASSUME NEW S, 0 \in S, \A n \in Nat : n \in S => n + 1 \in S
  PROVE  Nat \subseteq S
<1> DEFINE T == Nat \ S
<1>1. SUFFICES ASSUME T # {} PROVE FALSE
  OBVIOUS
<1>2. PICK m \in T : \A k \in T : m <= k
  BY <1>1, LeastNat
<1>3. m # 0 /\ m - 1 \in Nat
  OBVIOUS
<1>4. m - 1 \notin T
  BY <1>2, <1>3
<1>5. QED
  BY <1>3, <1>4

-------------------------------------------------------------------------------
(* The walk along a chain.                                                   *)

IsWalk(g, t, b, k) ==
  g = [i \in 0 .. k |->
         IF i = 0 THEN b ELSE IF g[i - 1] \in Block THEN t[g[i - 1]] ELSE END]

\* The recursive definition inside Walk has a solution.
LEMMA WalkExists ==
  ASSUME NEW t, NEW b
  PROVE  \A k \in Nat : \E g : IsWalk(g, t, b, k)
<1> DEFINE S == {k \in Nat : \E g : IsWalk(g, t, b, k)}
<1>1. 0 \in S
  <2>1. IsWalk([i \in 0 .. 0 |-> b], t, b, 0)
    BY DEF IsWalk
  <2>2. QED
    BY <2>1
<1>2. ASSUME NEW n \in Nat, n \in S PROVE n + 1 \in S
  <2>1. PICK g : IsWalk(g, t, b, n)
    BY <1>2
  <2> DEFINE h == [i \in 0 .. n + 1 |->
                     IF i <= n THEN g[i] ELSE IF g[n] \in Block THEN t[g[n]] ELSE END]
  <2>2. \A i \in 0 .. n : h[i] = g[i]
    OBVIOUS
  <2>3. h[n + 1] = IF g[n] \in Block THEN t[g[n]] ELSE END
    OBVIOUS
  <2>4. \A i \in 0 .. n :
          g[i] = IF i = 0 THEN b ELSE IF g[i - 1] \in Block THEN t[g[i - 1]] ELSE END
    BY <2>1 DEF IsWalk
  <2>5. \A i \in 0 .. n + 1 :
          h[i] = IF i = 0 THEN b ELSE IF h[i - 1] \in Block THEN t[h[i - 1]] ELSE END
    <3>1. ASSUME NEW i \in 0 .. n + 1, i # n + 1
          PROVE  h[i] = IF i = 0 THEN b ELSE IF h[i - 1] \in Block THEN t[h[i - 1]] ELSE END
      <4>1. i \in 0 .. n /\ (i # 0 => i - 1 \in 0 .. n)
        BY <3>1
      <4> HIDE DEF h
      <4>2. QED
        BY <4>1, <2>2, <2>4
    <3>2. h[n + 1] = IF h[n] \in Block THEN t[h[n]] ELSE END
      BY <2>2, <2>3
    <3>3. QED
      BY <3>1, <3>2
  <2>6. h = [i \in 0 .. n + 1 |->
               IF i = 0 THEN b ELSE IF h[i - 1] \in Block THEN t[h[i - 1]] ELSE END]
    <3>1. h = [i \in 0 .. n + 1 |-> h[i]]
      OBVIOUS
    <3> HIDE DEF h
    <3>2. QED
      BY <2>5, <3>1
  <2> HIDE DEF h
  <2>7. QED
    BY <2>6 DEF IsWalk
<1>3. Nat \subseteq S
  <2> HIDE DEF S
  <2>1. QED
    BY <1>1, <1>2, SetInduction
<1>4. QED
  BY <1>3

\* Walk is such a solution's last value.
LEMMA WalkIsWalk ==
  ASSUME NEW t, NEW b, NEW k \in Nat
  PROVE  \E g : IsWalk(g, t, b, k) /\ Walk(t, b, k) = g[k]
<1> DEFINE w == CHOOSE g : IsWalk(g, t, b, k)
<1>1. IsWalk(w, t, b, k)
  BY WalkExists, Zenon
<1>2. Walk(t, b, k) = w[k]
  BY Zenon DEF Walk, IsWalk
<1>3. QED
  BY <1>1, <1>2, Zenon

\* A walk of any length agrees with Walk at each of its steps.
LEMMA WalksAgree ==
  ASSUME NEW t, NEW b, NEW k \in Nat, NEW l \in Nat, NEW g, NEW h,
         IsWalk(g, t, b, k), IsWalk(h, t, b, l)
  PROVE  \A i \in 0 .. k : i <= l => g[i] = h[i]
<1> DEFINE S == {i \in Nat : i <= k /\ i <= l => g[i] = h[i]}
<1>1. \A i \in 0 .. k :
        g[i] = IF i = 0 THEN b ELSE IF g[i - 1] \in Block THEN t[g[i - 1]] ELSE END
  BY DEF IsWalk
<1>2. \A i \in 0 .. l :
        h[i] = IF i = 0 THEN b ELSE IF h[i - 1] \in Block THEN t[h[i - 1]] ELSE END
  BY DEF IsWalk
<1>3. 0 \in S
  BY <1>1, <1>2
<1>4. ASSUME NEW n \in Nat, n \in S PROVE n + 1 \in S
  <2>1. CASE n + 1 <= k /\ n + 1 <= l
    <3>1. g[n] = h[n]
      BY <2>1, <1>4
    <3>2. g[n + 1] = IF g[n] \in Block THEN t[g[n]] ELSE END
      BY <2>1, <1>1
    <3>3. h[n + 1] = IF h[n] \in Block THEN t[h[n]] ELSE END
      BY <2>1, <1>2
    <3>4. QED
      BY <3>1, <3>2, <3>3
  <2>2. QED
    BY <2>1
<1>5. Nat \subseteq S
  <2> HIDE DEF S
  <2>1. QED
    BY <1>3, <1>4, SetInduction
<1>6. QED
  BY <1>5

LEMMA WalkZero ==
  ASSUME NEW t, NEW b
  PROVE  Walk(t, b, 0) = b
<1>1. PICK g : IsWalk(g, t, b, 0) /\ Walk(t, b, 0) = g[0]
  BY WalkIsWalk
<1>2. QED
  BY <1>1 DEF IsWalk

LEMMA WalkNext ==
  ASSUME NEW t, NEW b, NEW k \in Nat
  PROVE  Walk(t, b, k + 1) =
           IF Walk(t, b, k) \in Block THEN t[Walk(t, b, k)] ELSE END
<1>1. PICK g : IsWalk(g, t, b, k) /\ Walk(t, b, k) = g[k]
  BY WalkIsWalk
<1>2. PICK h : IsWalk(h, t, b, k + 1) /\ Walk(t, b, k + 1) = h[k + 1]
  BY WalkIsWalk
<1>3. g[k] = h[k]
  BY <1>1, <1>2, WalksAgree
<1>4. h[k + 1] = IF h[k] \in Block THEN t[h[k]] ELSE END
  BY <1>2 DEF IsWalk
<1>5. QED
  BY <1>1, <1>2, <1>3, <1>4

Table == [Block -> Block \cup {END}]

\* -1 and -4 are no blocks, and block 0 is one.
LEMMA BlockFacts ==
  /\ Block \subseteq Nat /\ END \notin Block /\ MEMFULL \notin Block /\ END # MEMFULL
  /\ 0 \in Block /\ NUM_BLOCKS \in Nat \ {0}
BY GeometryAssumption DEF Block, END, MEMFULL

\* Once a walk has left the table it stays at END.
LEMMA WalkPast ==
  ASSUME NEW t, NEW b, NEW i \in Nat, Walk(t, b, i) \notin Block
  PROVE  \A j \in Nat : j > i => Walk(t, b, j) = END
<1> DEFINE S == {k \in Nat : Walk(t, b, i + 1 + k) = END}
<1>1. 0 \in S
  <2>1. Walk(t, b, i + 1) = END
    BY WalkNext
  <2>2. i + 1 + 0 = i + 1
    OBVIOUS
  <2>3. QED
    BY <2>1, <2>2
<1>2. ASSUME NEW k \in Nat, k \in S PROVE k + 1 \in S
  <2>1. Walk(t, b, (i + 1 + k) + 1) = END
    BY <1>2, WalkNext, BlockFacts
  <2>2. (i + 1 + k) + 1 = i + 1 + (k + 1)
    OBVIOUS
  <2>3. QED
    BY <2>1, <2>2
<1>3. Nat \subseteq S
  <2> HIDE DEF S
  <2>1. QED
    BY <1>1, <1>2, SetInduction
<1>4. ASSUME NEW j \in Nat, j > i PROVE Walk(t, b, j) = END
  <2>1. j - (i + 1) \in Nat /\ i + 1 + (j - (i + 1)) = j
    BY <1>4
  <2>2. QED
    BY <1>3, <2>1
<1>5. QED
  BY <1>4

\* Walking i blocks and then j is walking i + j.
LEMMA WalkAdd ==
  ASSUME NEW t, NEW b, NEW i \in Nat
  PROVE  \A j \in Nat : Walk(t, b, i + j) = Walk(t, Walk(t, b, i), j)
<1> DEFINE c == Walk(t, b, i)
           S == {j \in Nat : Walk(t, b, i + j) = Walk(t, c, j)}
<1>1. 0 \in S
  <2>1. i + 0 = i /\ Walk(t, c, 0) = c
    BY WalkZero
  <2>2. QED
    BY <2>1
<1>2. ASSUME NEW j \in Nat, j \in S PROVE j + 1 \in S
  <2>1. Walk(t, b, (i + j) + 1) =
          IF Walk(t, b, i + j) \in Block THEN t[Walk(t, b, i + j)] ELSE END
    BY WalkNext
  <2>2. Walk(t, c, j + 1) = IF Walk(t, c, j) \in Block THEN t[Walk(t, c, j)] ELSE END
    BY WalkNext
  <2>3. Walk(t, b, i + j) = Walk(t, c, j)
    BY <1>2
  <2>4. (i + j) + 1 = i + (j + 1)
    OBVIOUS
  <2> HIDE DEF c
  <2>5. QED
    BY <2>1, <2>2, <2>3, <2>4
<1>3. Nat \subseteq S
  <2> HIDE DEF S
  <2>1. QED
    BY <1>1, <1>2, SetInduction
<1>4. QED
  BY <1>3

\* After its start a walk is at a block or at END.
LEMMA WalkTyped ==
  ASSUME NEW t \in Table, NEW b, NEW k \in Nat
  PROVE  /\ Walk(t, b, k + 1) \in Block \cup {END}
         /\ Walk(t, b, k) \in Block \cup {END, b}
<1>1. \A j \in Nat : Walk(t, b, j + 1) \in Block \cup {END}
  BY WalkNext DEF Table
<1>2. CASE k = 0
  BY <1>1, <1>2, WalkZero
<1>3. CASE k # 0
  <2>1. k - 1 \in Nat /\ (k - 1) + 1 = k
    BY <1>3
  <2>2. Walk(t, b, (k - 1) + 1) \in Block \cup {END}
    BY <2>1, <1>1
  <2>3. QED
    BY <2>1, <2>2, <1>1
<1>4. QED
  BY <1>2, <1>3

\* A walk that ends is at another block at each of its steps.
LEMMA WalkInjective ==
  ASSUME NEW t, NEW b, NEW K \in Nat, Walk(t, b, K) = END
  PROVE  \A i, j \in Nat : Walk(t, b, i) = Walk(t, b, j) /\ Walk(t, b, i) \in Block => i = j
<1>1. SUFFICES ASSUME NEW i \in Nat, NEW j \in Nat, i < j,
                      Walk(t, b, i) = Walk(t, b, j), Walk(t, b, i) \in Block
               PROVE  FALSE
  <2>1. \A i, j \in Nat : i # j => i < j \/ j < i
    OBVIOUS
  <2>2. QED
    BY <1>1, <2>1
<1> DEFINE T == {k \in Nat : Walk(t, b, k) = END}
<1>2. PICK m \in T : \A k \in T : m <= k
  <2>1. T \in SUBSET Nat /\ T # {}
    OBVIOUS
  <2>2. QED
    BY <2>1, LeastNat
<1>3. ASSUME m <= j PROVE FALSE
  <2>1. Walk(t, b, m) = END /\ END \notin Block /\ m \in Nat
    BY <1>2, BlockFacts
  <2>2. m # j
    BY <1>1, <2>1
  <2>3. Walk(t, b, j) = END
    BY <2>1, <2>2, <1>3, WalkPast
  <2>4. QED
    BY <2>3, <2>1, <1>1
<1>4. ASSUME m > j PROVE FALSE
  <2> DEFINE r == m - j
  <2>1. r \in Nat /\ m \in Nat /\ j + r = m /\ i + r \in Nat /\ i + r < m
    BY <1>4, <1>1, <1>2
  <2> HIDE DEF r
  <2>2. Walk(t, b, i + r) = Walk(t, b, j + r)
    <3>1. Walk(t, b, i + r) = Walk(t, Walk(t, b, i), r)
      BY <2>1, WalkAdd
    <3>2. Walk(t, b, j + r) = Walk(t, Walk(t, b, j), r)
      BY <2>1, WalkAdd
    <3>3. QED
      BY <3>1, <3>2, <1>1
  <2>3. i + r \in T
    BY <2>1, <2>2, <1>2
  <2>4. QED
    BY <2>1, <2>3, <1>2
<1>5. QED
  BY <1>2, <1>3, <1>4


\* A walk that ends has ended after NUM_BLOCKS steps: it meets no block twice.
LEMMA EndsInTime ==
  ASSUME NEW t \in Table, NEW b, NEW K \in Nat, Walk(t, b, K) = END
  PROVE  ~Cyclic(t, b)
<1> DEFINE T == {k \in Nat : Walk(t, b, k) = END}
<1>1. PICK m \in T : \A k \in T : m <= k
  <2>1. T \in SUBSET Nat /\ T # {}
    OBVIOUS
  <2>2. QED
    BY <2>1, LeastNat
<1>2. m <= NUM_BLOCKS
  <2>1. CASE b \notin Block
    <3>1. Walk(t, b, 0) = b
      BY WalkZero
    <3>2. Walk(t, b, 1) = END
      BY <3>1, <2>1, WalkPast
    <3>3. QED
      BY <3>2, <1>1, BlockFacts
  <2>2. CASE b \in Block
    <3> DEFINE walk == [k \in 0 .. m - 1 |-> Walk(t, b, k)]
    <3>1. \A k \in 0 .. m - 1 : Walk(t, b, k) \in Block
      BY <1>1, <2>2, WalkTyped
    <3>2. \A i, j \in Nat : Walk(t, b, i) = Walk(t, b, j) /\ Walk(t, b, i) \in Block => i = j
      BY <1>1, WalkInjective
    <3>3. walk \in [0 .. m - 1 -> Block]
      BY <3>1
    <3>4. \A i, j \in 0 .. m - 1 : walk[i] = walk[j] => i = j
      <4>1. \A i \in 0 .. m - 1 : i \in Nat
        OBVIOUS
      <4>2. QED
        BY <3>1, <3>2, <4>1
    <3>5. walk \in Injection(0 .. m - 1, Block)
      BY <3>3, <3>4 DEF Injection, IsInjective
    <3>6. IsFiniteSet(Block) /\ Cardinality(Block) = NUM_BLOCKS
      BY FS_Interval, GeometryAssumption DEF Block
    <3>7. Cardinality(0 .. m - 1) <= NUM_BLOCKS
      BY <3>5, <3>6, FS_Injection, Zenon
    <3>8. m \in Nat /\ Cardinality(0 .. m - 1) = m
      BY <1>1, FS_Interval
    <3>9. QED
      BY <3>7, <3>8
  <2>3. QED
    BY <2>1, <2>2
<1>3. CASE m = NUM_BLOCKS
  BY <1>1, <1>3 DEF Cyclic
<1>4. CASE m < NUM_BLOCKS
  <2>1. m \in Nat /\ Walk(t, b, m) \notin Block /\ NUM_BLOCKS \in Nat
    BY <1>1, BlockFacts
  <2>2. Walk(t, b, NUM_BLOCKS) = END
    BY <2>1, <1>4, WalkPast
  <2>3. QED
    BY <2>2 DEF Cyclic
<1>5. QED
  <2>1. m \in Nat /\ NUM_BLOCKS \in Nat
    BY <1>1, BlockFacts
  <2>2. QED
    BY <2>1, <1>2, <1>3, <1>4

\* The chain of such a walk is every block it comes to.
LEMMA ChainIsWalk ==
  ASSUME NEW t, NEW b, ~Cyclic(t, b)
  PROVE  /\ \A k \in Nat : Walk(t, b, k) \in Block => Walk(t, b, k) \in Chain(t, b)
         /\ \A c \in Chain(t, b) : c \in Block /\ \E k \in Nat : c = Walk(t, b, k)
<1>1. Walk(t, b, NUM_BLOCKS) \notin Block /\ NUM_BLOCKS \in Nat
  BY BlockFacts DEF Cyclic
<1>2. \A k \in Nat : Walk(t, b, k) \in Block => k \in 0 .. NUM_BLOCKS - 1
  BY <1>1, WalkPast, BlockFacts DEF Cyclic
<1>3. QED
  BY <1>2 DEF Chain

\* A chain that is no cycle, seen by its blocks: the walk is at another at each
\* of its steps.
LEMMA ChainInjective ==
  ASSUME NEW t, NEW b, ~Cyclic(t, b)
  PROVE  \A i, j \in Nat : Walk(t, b, i) = Walk(t, b, j) /\ Walk(t, b, i) \in Block => i = j
BY WalkInjective, BlockFacts DEF Cyclic

-------------------------------------------------------------------------------
(* What a change of the table leaves of a chain.                             *)

\* A table that has the links of a chain has the chain.
LEMMA SameLinksSameChain ==
  ASSUME NEW t, NEW u, NEW b, ~Cyclic(t, b), \A c \in Chain(t, b) : u[c] = t[c]
  PROVE  /\ \A k \in Nat : Walk(u, b, k) = Walk(t, b, k)
         /\ Chain(u, b) = Chain(t, b)
         /\ ~Cyclic(u, b)
<1> DEFINE S == {k \in Nat : Walk(u, b, k) = Walk(t, b, k)}
<1>1. 0 \in S
  BY WalkZero
<1>2. ASSUME NEW k \in Nat, k \in S PROVE k + 1 \in S
  <2>1. Walk(u, b, k) = Walk(t, b, k)
    BY <1>2
  <2>2. Walk(t, b, k) \in Block => u[Walk(t, b, k)] = t[Walk(t, b, k)]
    BY ChainIsWalk
  <2>3. QED
    BY <2>1, <2>2, WalkNext
<1>3. Nat \subseteq S
  <2> HIDE DEF S
  <2>1. QED
    BY <1>1, <1>2, SetInduction
<1>4. \A k \in Nat : Walk(u, b, k) = Walk(t, b, k)
  BY <1>3
<1>5. Chain(u, b) = Chain(t, b)
  <2>1. 0 .. NUM_BLOCKS - 1 \subseteq Nat
    BY GeometryAssumption
  <2>2. QED
    BY <2>1, <1>4 DEF Chain
<1>6. ~Cyclic(u, b)
  BY <1>4, BlockFacts DEF Cyclic
<1>7. QED
  BY <1>4, <1>5, <1>6

\* A block without a link is a chain of its own.
LEMMA AloneChain ==
  ASSUME NEW t, NEW b \in Block, t[b] = END
  PROVE  /\ Walk(t, b, 0) = b /\ \A k \in Nat : k > 0 => Walk(t, b, k) = END
         /\ Chain(t, b) = {b}
         /\ ~Cyclic(t, b)
<1>1. Walk(t, b, 0) = b
  BY WalkZero
<1>2. Walk(t, b, 0 + 1) = END
  BY <1>1, WalkNext
<1>3. \A k \in Nat : k > 0 => Walk(t, b, k) = END
  <2>1. Walk(t, b, 1) = END
    BY <1>2
  <2>2. \A k \in Nat : k > 1 => Walk(t, b, k) = END
    BY <2>1, WalkPast, BlockFacts
  <2>3. QED
    BY <2>1, <2>2
<1>4. \A k \in 0 .. NUM_BLOCKS - 1 : k \in Nat /\ (k = 0 \/ Walk(t, b, k) = END)
  BY <1>3, GeometryAssumption
<1>5. 0 \in 0 .. NUM_BLOCKS - 1
  BY GeometryAssumption
<1>6. Chain(t, b) = {b}
  BY <1>1, <1>4, <1>5, BlockFacts DEF Chain
<1>7. ~Cyclic(t, b)
  BY <1>3, BlockFacts DEF Cyclic
<1>8. QED
  BY <1>1, <1>3, <1>6, <1>7

\* A start outside the table has no chain.
LEMMA NoChain ==
  ASSUME NEW t, NEW b, b \notin Block
  PROVE  /\ Chain(t, b) = {}
         /\ ~Cyclic(t, b)
<1>1. Walk(t, b, 0) = b
  BY WalkZero
<1>2. \A k \in Nat : k > 0 => Walk(t, b, k) = END
  BY <1>1, WalkPast
<1>3. ~Cyclic(t, b)
  BY <1>2, BlockFacts DEF Cyclic
<1>4. \A k \in 0 .. NUM_BLOCKS - 1 : k \in Nat /\ (k = 0 \/ Walk(t, b, k) = END)
  BY <1>2, GeometryAssumption
<1>5. Chain(t, b) = {}
  BY <1>1, <1>4, BlockFacts DEF Chain
<1>6. QED
  BY <1>3, <1>5


\* A chain has the block it starts in.
LEMMA ChainHead ==
  ASSUME NEW t, NEW b \in Block
  PROVE  b \in Chain(t, b)
<1>1. 0 \in 0 .. NUM_BLOCKS - 1
  BY GeometryAssumption
<1>2. QED
  BY <1>1, WalkZero DEF Chain

\* A block linked behind the last one of a chain lengthens it by that block.
LEMMA LinkedChain ==
  ASSUME NEW t \in Table, NEW b, ~Cyclic(t, b),
         NEW m \in Nat, Walk(t, b, m) \in Block, t[Walk(t, b, m)] = END,
         NEW n \in Block, n \notin Chain(t, b), t[n] = END,
         NEW u \in Table, u[Walk(t, b, m)] = n,
         \A c \in Block : c # Walk(t, b, m) => u[c] = t[c]
  PROVE  /\ \A k \in 0 .. m : Walk(u, b, k) = Walk(t, b, k)
         /\ Walk(u, b, m + 1) = n
         /\ \A k \in Nat : k > m + 1 => Walk(u, b, k) = END
         /\ ~Cyclic(u, b)
         /\ Chain(u, b) = Chain(t, b) \cup {n}
<1> DEFINE a == Walk(t, b, m)
           S == {k \in Nat : k <= m => Walk(u, b, k) = Walk(t, b, k)}
<1>1. /\ u[a] = n
      /\ \A c \in Block : c # a => u[c] = t[c]
  OBVIOUS
<1>2. \A i, j \in Nat : Walk(t, b, i) = Walk(t, b, j) /\ Walk(t, b, i) \in Block => i = j
  BY ChainInjective
<1>3. 0 \in S
  BY WalkZero
<1>4. ASSUME NEW k \in Nat, k \in S PROVE k + 1 \in S
  <2>1. CASE k + 1 <= m
    <3>1. Walk(u, b, k) = Walk(t, b, k)
      BY <2>1, <1>4
    <3>2. Walk(t, b, k) \in Block => Walk(t, b, k) # a
      BY <2>1, <1>2
    <3>3. Walk(u, b, k + 1) = IF Walk(u, b, k) \in Block THEN u[Walk(u, b, k)] ELSE END
      BY WalkNext
    <3>4. Walk(t, b, k + 1) = IF Walk(t, b, k) \in Block THEN t[Walk(t, b, k)] ELSE END
      BY WalkNext
    <3> HIDE DEF a
    <3>5. Walk(u, b, k + 1) = Walk(t, b, k + 1)
      BY <3>1, <3>2, <3>3, <3>4, <1>1
    <3>6. QED
      BY <3>5
  <2>2. QED
    BY <2>1
<1>5. Nat \subseteq S
  <2> HIDE DEF S
  <2>1. QED
    BY <1>3, <1>4, SetInduction
<1>6. \A k \in 0 .. m : Walk(u, b, k) = Walk(t, b, k)
  <2>1. \A k \in 0 .. m : k \in Nat /\ k <= m
    OBVIOUS
  <2>2. QED
    BY <2>1, <1>5
<1>7. Walk(u, b, m + 1) = n
  <2>1. Walk(u, b, m) = a
    <3>1. m \in 0 .. m
      OBVIOUS
    <3>2. QED
      BY <3>1, <1>6
  <2>2. QED
    BY <2>1, <1>1, WalkNext
<1>8. n # a
  BY ChainIsWalk
<1>9. Walk(u, b, (m + 1) + 1) = END
  <2>1. u[n] = END
    BY <1>8, <1>1
  <2>2. m + 1 \in Nat
    OBVIOUS
  <2>3. QED
    BY <2>1, <2>2, <1>7, WalkNext
<1>10. \A k \in Nat : k > m + 1 => Walk(u, b, k) = END
  <2>1. (m + 1) + 1 \in Nat /\ \A k \in Nat : k > m + 1 => k = (m + 1) + 1 \/ k > (m + 1) + 1
    OBVIOUS
  <2>2. \A k \in Nat : k > (m + 1) + 1 => Walk(u, b, k) = END
    BY <1>9, <2>1, WalkPast, BlockFacts
  <2>3. QED
    BY <2>1, <2>2, <1>9
<1>11. ~Cyclic(u, b)
  <2>1. (m + 1) + 1 \in Nat
    OBVIOUS
  <2>2. QED
    BY <2>1, <1>9, EndsInTime
<1>12. Chain(t, b) \subseteq {Walk(t, b, k) : k \in 0 .. m}
  <2>1. Walk(t, b, m + 1) = END
    BY WalkNext
  <2>2. m + 1 \in Nat /\ END \notin Block
    BY BlockFacts
  <2>3. \A k \in Nat : k > m + 1 => Walk(t, b, k) = END
    BY <2>1, <2>2, WalkPast
  <2>4. \A k \in Nat : Walk(t, b, k) \in Block => k \in 0 .. m
    <3>1. \A k \in Nat : k \in 0 .. m \/ k = m + 1 \/ k > m + 1
      OBVIOUS
    <3>2. QED
      BY <3>1, <2>1, <2>2, <2>3
  <2>5. QED
    BY <2>4, ChainIsWalk
<1>13. Chain(u, b) \subseteq Chain(t, b) \cup {n}
  <2>1. ASSUME NEW k \in Nat, Walk(u, b, k) \in Block
        PROVE  Walk(u, b, k) \in Chain(t, b) \cup {n}
    <3>1. k \in 0 .. m \/ k = m + 1 \/ k > m + 1
      OBVIOUS
    <3>2. CASE k \in 0 .. m
      BY <3>2, <2>1, <1>6, ChainIsWalk
    <3>3. QED
      BY <3>1, <3>2, <2>1, <1>7, <1>10, BlockFacts
  <2>2. QED
    BY <2>1, <1>11, ChainIsWalk
<1>14. Chain(t, b) \cup {n} \subseteq Chain(u, b)
  <2>1. \A k \in 0 .. m : Walk(t, b, k) \in Block => Walk(t, b, k) \in Chain(u, b)
    <3>1. \A k \in 0 .. m : k \in Nat
      OBVIOUS
    <3>2. QED
      BY <3>1, <1>6, <1>11, ChainIsWalk
  <2>2. n \in Chain(u, b)
    BY <1>7, <1>11, ChainIsWalk
  <2>3. \A c \in Chain(t, b) : c \in Block
    BY DEF Chain
  <2>4. QED
    BY <2>1, <2>2, <2>3, <1>12
<1>15. QED
  BY <1>1, <1>6, <1>7, <1>10, <1>11, <1>13, <1>14

\* k_cleanFat takes the links of one chain and leaves the other blocks' as they are.
LEMMA CleanFatFacts ==
  ASSUME NEW t \in Table, NEW b
  PROVE  /\ CleanFat(t, b) \in Table
         /\ \A c \in Chain(t, b) : CleanFat(t, b)[c] = END
         /\ \A c \in Block \ Chain(t, b) : CleanFat(t, b)[c] = t[c]
         /\ b \in Block => /\ Chain(CleanFat(t, b), b) = {b}
                           /\ ~Cyclic(CleanFat(t, b), b)
                           /\ CleanFat(t, b)[b] = END
<1>1. \A c \in Block : CleanFat(t, b)[c] = IF c \in Chain(t, b) THEN END ELSE t[c]
  BY DEF CleanFat
<1>2. CleanFat(t, b) \in Table
  BY DEF CleanFat, Table
<1>3. \A c \in Chain(t, b) : c \in Block
  BY DEF Chain
<1>4. b \in Block => CleanFat(t, b)[b] = END
  BY <1>1, ChainHead
<1>5. QED
  BY <1>1, <1>2, <1>3, <1>4, AloneChain

-------------------------------------------------------------------------------
(* The list of files and the blocks in use.                                  *)

LEMMA StartsFacts ==
  ASSUME NEW S, NEW dir \in Seq(S)
  PROVE  /\ DOMAIN Starts(dir) = 1 .. Len(dir) + 1 /\ Len(dir) \in Nat
         /\ DOMAIN dir = 1 .. Len(dir)
         /\ Starts(dir)[1] = 0
         /\ \A i \in DOMAIN dir : Starts(dir)[i + 1] = dir[i].start
         /\ ToSet(Starts(dir)) = {0} \cup {dir[i].start : i \in DOMAIN dir}
<1> DEFINE s == [i \in DOMAIN dir |-> dir[i].start]
           z == <<0>>
<1>1. DOMAIN dir = 1 .. Len(dir) /\ Len(dir) \in Nat
  OBVIOUS
<1>2. s \in Seq({dir[i].start : i \in DOMAIN dir}) /\ Len(s) = Len(dir)
  BY <1>1
<1>3. z \in Seq({0}) /\ Len(z) = 1 /\ z[1] = 0
  OBVIOUS
<1>4. \A i \in DOMAIN dir : s[i] = dir[i].start
  OBVIOUS
<1>5. Starts(dir) = z \o s
  BY DEF Starts
<1> DEFINE T == {0} \cup {dir[i].start : i \in DOMAIN dir}
<1>6. z \in Seq(T) /\ s \in Seq(T)
  BY <1>1
<1> HIDE DEF s, z, T
<1>7. /\ z \o s \in Seq(T) /\ Len(z \o s) = Len(dir) + 1
      /\ \A i \in 1 .. Len(dir) + 1 : (z \o s)[i] = IF i = 1 THEN 0 ELSE s[i - 1]
  <2>1. /\ z \o s \in Seq(T) /\ Len(z \o s) = Len(z) + Len(s)
        /\ \A i \in 1 .. Len(z) + Len(s) :
             (z \o s)[i] = IF i <= Len(z) THEN z[i] ELSE s[i - Len(z)]
    BY <1>6, ConcatProperties, Zenon
  <2>2. Len(z) = 1 /\ Len(s) = Len(dir) /\ Len(dir) \in Nat /\ z[1] = 0
    BY <1>1, <1>2, <1>3
  <2>3. \A i \in 1 .. Len(dir) + 1 : i <= 1 <=> i = 1
    BY <2>2
  <2>4. QED
    BY <2>1, <2>2, <2>3
<1>8. DOMAIN (z \o s) = 1 .. Len(dir) + 1
  BY <1>7
<1>9. /\ 1 \in 1 .. Len(dir) + 1
      /\ \A i \in 1 .. Len(dir) : i + 1 \in 1 .. Len(dir) + 1 /\ (i + 1) - 1 = i /\ i + 1 # 1
  BY <1>1
<1>10. \A i \in DOMAIN dir : Starts(dir)[i + 1] = dir[i].start
  BY <1>1, <1>4, <1>5, <1>7, <1>9
<1>11. Starts(dir)[1] = 0
  BY <1>5, <1>7, <1>9
<1>12. \A j \in 1 .. Len(dir) + 1 : j = 1 \/ (j - 1 \in 1 .. Len(dir) /\ (j - 1) + 1 = j)
  BY <1>1
<1>13. ToSet(Starts(dir)) = {0} \cup {dir[i].start : i \in DOMAIN dir}
  <2>1. ToSet(Starts(dir)) = {Starts(dir)[j] : j \in 1 .. Len(dir) + 1}
    BY <1>5, <1>8 DEF ToSet
  <2>2. \A j \in 1 .. Len(dir) + 1 : Starts(dir)[j] \in {0} \cup {dir[i].start : i \in DOMAIN dir}
    BY <1>1, <1>10, <1>11, <1>12
  <2>3. QED
    BY <2>1, <2>2, <1>1, <1>9, <1>10, <1>11
<1>14. QED
  BY <1>1, <1>5, <1>8, <1>10, <1>11, <1>13

\* What is in use: the chain of root and those of the files.
LEMMA InUseFacts ==
  ASSUME NEW S, NEW dir \in Seq(S), NEW t
  PROVE  /\ \A c : c \in InUse(dir, t) <=>
                     \/ c \in Chain(t, 0)
                     \/ \E i \in DOMAIN dir : c \in Chain(t, dir[i].start)
         /\ 0 \in InUse(dir, t)
<1>1. ToSet(Starts(dir)) = {0} \cup {dir[i].start : i \in DOMAIN dir}
  BY StartsFacts
<1>2. 0 \in Chain(t, 0)
  BY ChainHead, BlockFacts
<1>3. QED
  BY <1>1, <1>2 DEF InUse

\* k_determineBlock gives out a block that is in no chain, so never block 0.
LEMMA DetermineBlockFacts ==
  ASSUME NEW S, NEW dir \in Seq(S), NEW t
  PROVE  LET b == DetermineBlock(dir, t)
         IN  /\ b = MEMFULL \/ b \in Block \ InUse(dir, t)
             /\ b # 0 /\ b \in Block \cup {MEMFULL}
<1>1. CASE Block \subseteq InUse(dir, t)
  BY <1>1 DEF DetermineBlock, MEMFULL
<1>2. CASE ~ Block \subseteq InUse(dir, t)
  <2> DEFINE T == Block \ InUse(dir, t)
  <2>1. T \in SUBSET Nat /\ T # {}
    BY <1>2, BlockFacts
  <2>2. \E b \in T : \A c \in T : b <= c
    BY <2>1, LeastNat
  <2>3. DetermineBlock(dir, t) = CHOOSE b \in T : \A c \in T : b <= c
    BY <1>2 DEF DetermineBlock
  <2> HIDE DEF T
  <2>4. DetermineBlock(dir, t) \in T
    BY <2>2, <2>3
  <2>5. QED
    BY <2>4, InUseFacts DEF T
<1>3. QED
  BY <1>1, <1>2
================================================================================
