--------------------------- MODULE CommandLineProofs ---------------------------
(****************************************************************************)
(* Theorems about CommandLine, for lines of any length.                     *)
(****************************************************************************)
EXTENDS CommandLine, TLAPS, WellFoundedInduction, FiniteSetTheorems, SequenceTheorems

\* A nonempty set of numbers has a least element, and Min is it.
LEMMA MinFacts ==
  ASSUME NEW T \in SUBSET Nat, T # {}
  PROVE  Min(T) \in T /\ \A k \in T : Min(T) <= k
<1>1. PICK R : R = OpToRel(<, Nat)
  OBVIOUS
<1>2. IsWellFoundedOn(R, Nat)
  BY <1>1, NatLessThanWellFounded, Zenon
<1>3. \A k, m \in Nat : k < m => <<k, m>> \in R
  BY <1>1 DEF OpToRel
<1>4. PICK m \in T : \A k \in T : <<k, m>> \notin R
  BY <1>2, WFMin
<1>5. \A k \in T : ~ (k < m)
  BY <1>3, <1>4
<1>6. \A k \in T : m <= k
  BY <1>5
<1>7. QED
  BY <1>6 DEF Min

\* A set with 0, and with the successor of each of its numbers, has them all.
LEMMA NumbersInduction ==
  ASSUME NEW S, 0 \in S, \A n \in Nat : n \in S => n + 1 \in S
  PROVE  Nat \subseteq S
<1> DEFINE T == Nat \ S
<1>1. SUFFICES ASSUME T # {} PROVE FALSE
  OBVIOUS
<1>2. PICK m \in T : \A k \in T : m <= k
  BY <1>1, MinFacts
<1>3. m # 0 /\ m - 1 \in Nat
  OBVIOUS
<1>4. m - 1 \notin T
  BY <1>2, <1>3
<1>5. QED
  BY <1>3, <1>4

-------------------------------------------------------------------------------
(* Concatenations.                                                           *)

IsFlat(g, ss, n) == g = [i \in 1 .. n |-> IF i = 1 THEN ss[i] ELSE g[i - 1] \o ss[i]]

\* The recursive definition inside FlattenSeq has a solution.
LEMMA FlatExists ==
  ASSUME NEW ss
  PROVE  \A n \in Nat : \E g : IsFlat(g, ss, n)
<1> DEFINE S == {n \in Nat : \E g : IsFlat(g, ss, n)}
<1>1. 0 \in S
  <2>1. IsFlat([k \in 1 .. 0 |-> 0], ss, 0)
    BY DEF IsFlat
  <2>2. QED
    BY <2>1
<1>2. ASSUME NEW n \in Nat, n \in S PROVE n + 1 \in S
  <2>1. PICK g : IsFlat(g, ss, n)
    BY <1>2
  <2> DEFINE next == IF n + 1 = 1 THEN ss[n + 1] ELSE g[n] \o ss[n + 1]
             h == [k \in 1 .. n + 1 |-> IF k <= n THEN g[k] ELSE next]
  <2> HIDE DEF next
  <2>2. \A k \in 1 .. n : h[k] = g[k]
    OBVIOUS
  <2>3. h[n + 1] = next
    OBVIOUS
  <2>4. h = [k \in 1 .. n + 1 |-> h[k]]
    OBVIOUS
  <2> HIDE DEF h
  <2>5. \A k \in 1 .. n : g[k] = IF k = 1 THEN ss[k] ELSE g[k - 1] \o ss[k]
    BY <2>1 DEF IsFlat
  <2>6. ASSUME NEW k \in 1 .. n + 1
        PROVE  h[k] = IF k = 1 THEN ss[k] ELSE h[k - 1] \o ss[k]
    <3>1. CASE k # n + 1
      <4>1. k \in 1 .. n /\ (k # 1 => k - 1 \in 1 .. n)
        BY <3>1
      <4>2. QED
        BY <4>1, <2>2, <2>5
    <3>2. CASE k = n + 1
      <4>1. n # 0 => n \in 1 .. n
        OBVIOUS
      <4>2. (k = 1 <=> n = 0) /\ k - 1 = n
        BY <3>2
      <4>3. QED
        BY <4>1, <4>2, <3>2, <2>2, <2>3 DEF next
    <3>3. QED
      BY <3>1, <3>2
  <2>7. IsFlat(h, ss, n + 1)
    BY <2>4, <2>6 DEF IsFlat
  <2>8. QED
    BY <2>7
<1>3. Nat \subseteq S
  <2> HIDE DEF S
  <2>1. QED
    BY <1>1, <1>2, NumbersInduction
<1>4. QED
  BY <1>3

\* A sequence, one element after the other.
LEMMA FlatIsFlat ==
  ASSUME NEW ss, Len(ss) \in Nat, Len(ss) # 0
  PROVE  \E g : IsFlat(g, ss, Len(ss)) /\ FlattenSeq(ss) = g[Len(ss)]
<1> DEFINE w == CHOOSE g : IsFlat(g, ss, Len(ss))
<1>1. IsFlat(w, ss, Len(ss))
  BY FlatExists, Zenon
<1>2. FlattenSeq(ss) = w[Len(ss)]
  BY Zenon DEF FlattenSeq, IsFlat
<1>3. QED
  BY <1>1, <1>2, Zenon

\* Solutions for sequences that begin alike agree there.
LEMMA FlatsAgree ==
  ASSUME NEW k \in Nat, NEW ss, NEW tt, NEW g, NEW h, NEW l \in Nat, k <= l,
         IsFlat(g, ss, k), IsFlat(h, tt, l), \A i \in 1 .. k : ss[i] = tt[i]
  PROVE  \A i \in Nat : i \in 1 .. k => g[i] = h[i]
<1> DEFINE S == {i \in Nat : i \in 1 .. k => g[i] = h[i]}
<1>1. /\ \A i \in 1 .. k : g[i] = IF i = 1 THEN ss[i] ELSE g[i - 1] \o ss[i]
      /\ \A i \in 1 .. l : h[i] = IF i = 1 THEN tt[i] ELSE h[i - 1] \o tt[i]
  BY DEF IsFlat
<1>2. 0 \in S
  OBVIOUS
<1>3. ASSUME NEW n \in Nat, n \in S PROVE n + 1 \in S
  <2>1. CASE n + 1 \in 1 .. k
    <3>1. n # 0 => g[n] = h[n]
      BY <2>1, <1>3
    <3>2. n + 1 \in 1 .. l /\ (n + 1 = 1 <=> n = 0) /\ (n + 1) - 1 = n
      BY <2>1
    <3>3. g[n + 1] = h[n + 1]
      BY <3>1, <3>2, <2>1, <1>1
    <3>4. QED
      BY <3>3
  <2>2. QED
    BY <2>1
<1>4. Nat \subseteq S
  <2> HIDE DEF S
  <2>1. QED
    BY <1>2, <1>3, NumbersInduction
<1>5. QED
  BY <1>4

\* What FlattenSeq makes of a sequence of sequences over C.
LEMMA FlatType ==
  ASSUME NEW C, NEW ss \in Seq(Seq(C))
  PROVE  FlattenSeq(ss) \in Seq(C)
<1>1. Len(ss) \in Nat /\ \A i \in 1 .. Len(ss) : ss[i] \in Seq(C)
  OBVIOUS
<1>2. CASE Len(ss) = 0
  <2>1. ss = <<>>
    BY <1>2, EmptySeq
  <2>2. FlattenSeq(ss) = <<>>
    BY <1>2, <2>1 DEF FlattenSeq
  <2>3. QED
    BY <2>2
<1>3. CASE Len(ss) # 0
  <2>1. PICK g : IsFlat(g, ss, Len(ss)) /\ FlattenSeq(ss) = g[Len(ss)]
    BY <1>1, <1>3, FlatIsFlat
  <2>2. \A i \in 1 .. Len(ss) : g[i] = IF i = 1 THEN ss[i] ELSE g[i - 1] \o ss[i]
    BY <2>1 DEF IsFlat
  <2> DEFINE S == {n \in Nat : n \in 1 .. Len(ss) => g[n] \in Seq(C)}
  <2>3. 0 \in S
    OBVIOUS
  <2>4. ASSUME NEW n \in Nat, n \in S PROVE n + 1 \in S
    <3>1. CASE n + 1 \in 1 .. Len(ss)
      <4>1. n # 0 => g[n] \in Seq(C)
        BY <3>1, <2>4
      <4>2. ss[n + 1] \in Seq(C)
        BY <3>1, <1>1
      <4>3. (n + 1 = 1 <=> n = 0) /\ (n + 1) - 1 = n
        OBVIOUS
      <4>4. g[n + 1] = IF n = 0 THEN ss[n + 1] ELSE g[n] \o ss[n + 1]
        BY <3>1, <4>3, <2>2
      <4>5. g[n + 1] \in Seq(C)
        BY <4>1, <4>2, <4>4, ConcatProperties
      <4>6. QED
        BY <4>5
    <3>2. QED
      BY <3>1
  <2>5. Nat \subseteq S
    <3> HIDE DEF S
    <3>1. QED
      BY <2>3, <2>4, NumbersInduction
  <2>6. QED
    BY <1>1, <1>3, <2>1, <2>5
<1>4. QED
  BY <1>2, <1>3

LEMMA FlatNext ==
  ASSUME NEW C, NEW ss \in Seq(Seq(C)), NEW e \in Seq(C)
  PROVE  FlattenSeq(Append(ss, e)) = FlattenSeq(ss) \o e
<1>1. PICK n, tt : n = Len(ss) /\ tt = Append(ss, e)
  OBVIOUS
<1>2. /\ n \in Nat /\ tt \in Seq(Seq(C)) /\ Len(tt) = n + 1
      /\ \A i \in 1 .. n : tt[i] = ss[i]
      /\ tt[n + 1] = e
  BY <1>1, AppendProperties
<1>3. PICK h : IsFlat(h, tt, n + 1) /\ FlattenSeq(tt) = h[n + 1]
  BY <1>2, FlatIsFlat
<1>4. h[n + 1] = IF n = 0 THEN e ELSE h[n] \o e
  <2>1. n + 1 \in 1 .. n + 1 /\ (n + 1 = 1 <=> n = 0) /\ (n + 1) - 1 = n
    BY <1>2
  <2>2. h[n + 1] = IF n + 1 = 1 THEN tt[n + 1] ELSE h[(n + 1) - 1] \o tt[n + 1]
    BY <1>3, <2>1 DEF IsFlat
  <2>3. QED
    BY <2>1, <2>2, <1>2
<1>5. CASE n = 0
  <2>1. ss = <<>>
    BY <1>1, <1>5, EmptySeq
  <2>2. FlattenSeq(ss) = <<>>
    BY <1>1, <1>5, <2>1 DEF FlattenSeq
  <2>3. QED
    BY <1>1, <1>3, <1>4, <1>5, <2>2, ConcatEmptySeq
<1>6. CASE n # 0
  <2>1. PICK g : IsFlat(g, ss, n) /\ FlattenSeq(ss) = g[n]
    BY <1>1, <1>2, <1>6, FlatIsFlat
  <2>2. g[n] = h[n]
    <3>1. n <= n + 1 /\ n + 1 \in Nat /\ n \in 1 .. n
      BY <1>2, <1>6
    <3>2. QED
      BY <1>2, <1>3, <2>1, <3>1, FlatsAgree
  <2>3. QED
    BY <1>1, <1>3, <1>4, <1>6, <2>1, <2>2
<1>7. QED
  BY <1>5, <1>6

\* What FlattenSeq makes of the first n elements.
Before(ss, n) == FlattenSeq(SubSeq(ss, 1, n))

LEMMA BeforeFacts ==
  ASSUME NEW C, NEW ss \in Seq(Seq(C))
  PROVE  /\ Before(ss, 0) = <<>>
         /\ Before(ss, Len(ss)) = FlattenSeq(ss)
         /\ \A n \in 0 .. Len(ss) : Before(ss, n) \in Seq(C)
         /\ \A n \in Nat : n + 1 <= Len(ss) => Before(ss, n + 1) = Before(ss, n) \o ss[n + 1]
<1>1. Before(ss, 0) = <<>>
  <2>1. SubSeq(ss, 1, 0) = <<>>
    BY SubSeqEmpty
  <2>2. QED
    BY <2>1 DEF Before, FlattenSeq
<1>2. Before(ss, Len(ss)) = FlattenSeq(ss)
  BY SubSeqFull DEF Before
<1>3. ASSUME NEW n \in 0 .. Len(ss)
      PROVE  SubSeq(ss, 1, n) \in Seq(Seq(C)) /\ Before(ss, n) \in Seq(C)
  <2>1. \A i \in 1 .. n : ss[i] \in Seq(C)
    OBVIOUS
  <2>2. SubSeq(ss, 1, n) \in Seq(Seq(C))
    BY <2>1, SubSeqProperties
  <2>3. QED
    BY <2>2, FlatType DEF Before
<1>4. ASSUME NEW n \in Nat, n + 1 <= Len(ss)
      PROVE  Before(ss, n + 1) = Before(ss, n) \o ss[n + 1]
  <2>1. n \in 0 .. Len(ss) /\ n + 1 \in 1 .. Len(ss) /\ (n + 1) - 1 = n
    BY <1>4
  <2>2. ss[n + 1] \in Seq(C) /\ SubSeq(ss, 1, n) \in Seq(Seq(C))
    BY <2>1, <1>3
  <2>3. SubSeq(ss, 1, n + 1) = Append(SubSeq(ss, 1, n), ss[n + 1])
    <3>1. SubSeq(ss, 1, n + 1) = SubSeq(ss, 1, n) \o <<ss[n + 1]>>
      <4>1. 1 \in 1 .. Len(ss) /\ n + 1 \in 1 .. Len(ss)
        BY <2>1
      <4>2. SubSeq(ss, 1, n + 1) = SubSeq(ss, 1, (n + 1) - 1) \o <<ss[n + 1]>>
        BY <4>1, SubSeqRecursiveSecond
      <4>3. QED
        BY <4>2, <2>1
    <3>2. QED
      BY <3>1, <2>2, AppendIsConcat
  <2>4. QED
    BY <2>2, <2>3, FlatNext DEF Before
<1>5. QED
  BY <1>1, <1>2, <1>3, <1>4

-------------------------------------------------------------------------------
(* The tokenizer.  Its position p is the number of characters behind it.      *)

Rest(s, p) == SubSeq(s, p + 1, Len(s))
Blanks(s, p, q) == \A i \in p + 1 .. q : s[i] = Blank

LEMMA RestFacts ==
  ASSUME NEW C, NEW s \in Seq(C), NEW p \in 0 .. Len(s)
  PROVE  /\ Rest(s, p) \in Seq(C) /\ Len(Rest(s, p)) = Len(s) - p
         /\ \A i \in 1 .. Len(s) - p : Rest(s, p)[i] = s[p + i]
         /\ Rest(s, p) = <<>> <=> p = Len(s)
         /\ p < Len(s) => Head(Rest(s, p)) = s[p + 1] /\ Tail(Rest(s, p)) = Rest(s, p + 1)
<1>1. Len(s) \in Nat /\ DOMAIN s = 1 .. Len(s) /\ \A i \in 1 .. Len(s) : s[i] \in C
  OBVIOUS
<1>2. PICK n : n = Len(s)
  OBVIOUS
<1>3. \A i \in p + 1 .. n : s[i] \in C
  BY <1>1, <1>2
<1>4. /\ Rest(s, p) \in Seq(C)
      /\ Len(Rest(s, p)) = IF p + 1 <= n THEN n - (p + 1) + 1 ELSE 0
      /\ \A i \in 1 .. n - (p + 1) + 1 : Rest(s, p)[i] = s[(p + 1) + i - 1]
  BY <1>1, <1>2, <1>3, SubSeqProperties DEF Rest
<1>5. Len(Rest(s, p)) = n - p /\ \A i \in 1 .. n - p : Rest(s, p)[i] = s[p + i]
  <2>1. PICK l, r : l = Len(Rest(s, p)) /\ r = Rest(s, p)
    OBVIOUS
  <2>2. n \in Nat /\ p \in 0 .. n /\ n - (p + 1) + 1 = n - p
    BY <1>1, <1>2
  <2>3. l = n - p
    BY <2>1, <2>2, <1>4
  <2>4. ASSUME NEW i \in 1 .. n - p PROVE r[i] = s[p + i]
    <3>1. (p + 1) + i - 1 = p + i
      BY <2>2
    <3>2. QED
      BY <3>1, <2>1, <2>2, <1>4
  <2>5. QED
    BY <2>1, <2>3, <2>4
<1>6. Rest(s, p) = <<>> <=> p = n
  <2>1. PICK r : r = Rest(s, p)
    OBVIOUS
  <2>2. r \in Seq(C) /\ Len(r) = n - p
    BY <1>4, <1>5, <2>1
  <2>3. r = <<>> <=> Len(r) = 0
    BY <2>2, EmptySeq
  <2>4. n \in Nat /\ p \in 0 .. n
    BY <1>1, <1>2
  <2>5. QED
    BY <2>1, <2>2, <2>3, <2>4
<1>7. ASSUME p < n
      PROVE  Head(Rest(s, p)) = s[p + 1] /\ Tail(Rest(s, p)) = Rest(s, p + 1)
  <2>1. p + 1 \in 1 .. n /\ n \in p + 1 .. n /\ (p + 1) + 1 = (p + 1) + 1
    BY <1>1, <1>2, <1>7
  <2>2. QED
    BY <2>1, <1>2, HeadTailOfSubSeq DEF Rest
<1>8. QED
  BY <1>2, <1>4, <1>5, <1>6, <1>7

LEMMA RestOfRest ==
  ASSUME NEW C, NEW s \in Seq(C), NEW p \in 0 .. Len(s), NEW m \in 0 .. Len(s) - p
  PROVE  /\ SubSeq(Rest(s, p), m + 1, Len(Rest(s, p))) = Rest(s, p + m)
         /\ SubSeq(Rest(s, p), 1, m) = SubSeq(s, p + 1, p + m)
<1>1. PICK n : n = Len(s)
  OBVIOUS
<1>2. n \in Nat /\ p \in Nat /\ m \in Nat /\ p + m <= n
  BY <1>1
<1>3. Len(Rest(s, p)) = n - p
  BY <1>1, RestFacts
<1>4. SubSeq(Rest(s, p), m + 1, n - p) = Rest(s, p + m)
  <2>1. CASE p + m = n
    <3>1. SubSeq(Rest(s, p), m + 1, n - p) = <<>>
      BY <1>2, <2>1, SubSeqEmpty
    <3>2. SubSeq(s, (p + m) + 1, n) = <<>>
      BY <1>2, <2>1, SubSeqEmpty
    <3>3. QED
      BY <3>1, <3>2, <1>1 DEF Rest
  <2>2. CASE p + m < n
    <3>1. /\ p + 1 \in 1 .. n /\ n \in 1 .. n
          /\ m + 1 \in 1 .. n - (p + 1) + 1 /\ n - p \in 1 .. n - (p + 1) + 1
          /\ (p + 1) + (m + 1) - 1 = (p + m) + 1 /\ (p + 1) + (n - p) - 1 = n
      BY <1>2, <2>2
    <3>2. SubSeq(SubSeq(s, p + 1, n), m + 1, n - p)
            = SubSeq(s, (p + 1) + (m + 1) - 1, (p + 1) + (n - p) - 1)
      BY <1>1, <3>1, SubSeqOfSubSeq
    <3>3. QED
      BY <3>1, <3>2, <1>1 DEF Rest
  <2>3. QED
    BY <2>1, <2>2, <1>2
<1>5. SubSeq(Rest(s, p), 1, m) = SubSeq(s, p + 1, p + m)
  <2>1. CASE m = 0
    <3>1. SubSeq(Rest(s, p), 1, m) = <<>> /\ SubSeq(s, p + 1, p + m) = <<>>
      BY <2>1, <1>2, SubSeqEmpty
    <3>2. QED
      BY <3>1
  <2>2. CASE m > 0
    <3>1. /\ p + 1 \in 1 .. n /\ n \in 1 .. n
          /\ 1 \in 1 .. n - (p + 1) + 1 /\ m \in 1 .. n - (p + 1) + 1
          /\ (p + 1) + 1 - 1 = p + 1 /\ (p + 1) + m - 1 = p + m
      BY <1>2, <2>2
    <3>2. SubSeq(SubSeq(s, p + 1, n), 1, m)
            = SubSeq(s, (p + 1) + 1 - 1, (p + 1) + m - 1)
      BY <1>1, <3>1, SubSeqOfSubSeq
    <3>3. QED
      BY <3>1, <3>2, <1>1 DEF Rest
  <2>3. QED
    BY <2>1, <2>2, <1>2
<1>6. QED
  BY <1>3, <1>4, <1>5

\* The blanks it skips.
LEMMA SkipBlanksSays ==
  ASSUME NEW C, NEW s \in Seq(C), NEW p \in 0 .. Len(s)
  PROVE  \E q \in p .. Len(s) : /\ SkipBlanks(Rest(s, p)) = Rest(s, q)
                                /\ Blanks(s, p, q)
                                /\ q < Len(s) => s[q + 1] # Blank
<1>1. PICK n, r : n = Len(s) /\ r = Rest(s, p)
  OBVIOUS
<1>2. /\ n \in Nat /\ p \in Nat /\ p <= n /\ Len(r) = n - p
      /\ \A i \in 1 .. n - p : r[i] = s[p + i]
  <2>1. n \in Nat /\ p \in Nat /\ p <= n
    BY <1>1
  <2>2. QED
    BY <1>1, <2>1, RestFacts
<1>3. PICK I : I = {i \in 1 .. Len(r) : r[i] # Blank}
  OBVIOUS
<1>4. SkipBlanks(r) = LET k == IF I # {} THEN Min(I) ELSE 0
                      IN  IF k = 0 THEN <<>> ELSE SubSeq(r, k, Len(r))
  BY <1>3 DEF SkipBlanks, SelectInSeq
<1>5. CASE I = {}
  <2>1. SkipBlanks(r) = <<>>
    BY <1>4, <1>5
  <2>2. \A i \in 1 .. n - p : s[p + i] = Blank
    BY <1>2, <1>3, <1>5
  <2>3. ASSUME NEW i \in p + 1 .. n PROVE s[i] = Blank
    <3>1. i - p \in 1 .. n - p /\ p + (i - p) = i
      BY <1>2
    <3>2. QED
      BY <3>1, <2>2
  <2>4. Rest(s, n) = <<>>
    BY <1>1, <1>2, RestFacts
  <2>5. n \in p .. n
    BY <1>2
  <2>6. QED
    BY <1>1, <2>1, <2>3, <2>4, <2>5 DEF Blanks
<1>6. CASE I # {}
  <2>1. PICK k : k = Min(I)
    OBVIOUS
  <2>2. k \in I /\ \A i \in I : k <= i
    <3>1. I \in SUBSET Nat
      BY <1>3
    <3>2. QED
      BY <3>1, <1>6, <2>1, MinFacts
  <2>3. k \in 1 .. n - p /\ r[k] # Blank /\ k - 1 \in 0 .. n - p /\ (k - 1) + 1 = k
    BY <2>2, <1>2, <1>3
  <2>4. SkipBlanks(r) = SubSeq(r, k, Len(r))
    BY <1>4, <1>6, <2>1, <2>3
  <2>5. SubSeq(r, (k - 1) + 1, Len(r)) = Rest(s, p + (k - 1))
    BY <1>1, <2>3, RestOfRest
  <2>6. ASSUME NEW i \in p + 1 .. p + (k - 1) PROVE s[i] = Blank
    <3>1. i - p \in 1 .. n - p /\ p + (i - p) = i /\ ~ (k <= i - p)
      BY <1>2, <2>3
    <3>2. i - p \notin I
      BY <3>1, <2>2
    <3>3. r[i - p] = Blank
      BY <3>1, <3>2, <1>2, <1>3
    <3>4. QED
      BY <3>1, <3>3, <1>2
  <2>7. s[(p + (k - 1)) + 1] # Blank /\ p + (k - 1) \in p .. n
    <3>1. (p + (k - 1)) + 1 = p + k /\ p + (k - 1) \in p .. n
      BY <1>2, <2>3
    <3>2. QED
      BY <3>1, <2>3, <1>2
  <2>8. QED
    BY <1>1, <2>3, <2>4, <2>5, <2>6, <2>7 DEF Blanks
<1>7. QED
  BY <1>5, <1>6

\* The word it takes.
LEMMA WordLengthSays ==
  ASSUME NEW C, NEW s \in Seq(C), NEW p \in 0 .. Len(s), p < Len(s),
         NEW n, n = WordLength(Rest(s, p))
  PROVE  /\ n \in 1 .. Len(s) - p
         /\ \A i \in p + 2 .. p + n : s[i] \notin Delimiter \cup {Blank}
<1>1. PICK l, r : l = Len(s) /\ r = Tail(Rest(s, p))
  OBVIOUS
<1>2. /\ l \in Nat /\ p \in Nat /\ p + 1 \in 0 .. l /\ l - (p + 1) = l - p - 1
      /\ r = Rest(s, p + 1) /\ Len(Rest(s, p)) = l - p
  BY <1>1, RestFacts
<1>3. Len(r) = l - p - 1 /\ \A i \in 1 .. l - p - 1 : r[i] = s[(p + 1) + i]
  <2>1. PICK m : m = p + 1
    OBVIOUS
  <2>2. m \in 0 .. Len(s) /\ r = Rest(s, m)
    BY <1>1, <1>2, <2>1
  <2>3. Len(r) = Len(s) - m /\ \A i \in 1 .. Len(s) - m : r[i] = s[m + i]
    BY <2>2, RestFacts
  <2>4. QED
    BY <1>1, <1>2, <2>1, <2>3
<1>4. PICK I : I = {i \in 1 .. Len(r) : r[i] \in Delimiter \cup {Blank}}
  OBVIOUS
<1>5. n = LET k == IF I # {} THEN Min(I) ELSE 0
          IN  IF k = 0 THEN Len(Rest(s, p)) ELSE k
  BY <1>1, <1>4 DEF WordLength, SelectInSeq
<1>6. n \in 1 .. l - p /\ \A i \in 1 .. n - 1 : i \notin I
  <2>1. CASE I = {}
    BY <1>2, <1>5, <2>1
  <2>2. CASE I # {}
    <3>1. PICK k : k = Min(I)
      OBVIOUS
    <3>2. k \in I /\ \A i \in I : k <= i
      <4>1. I \in SUBSET Nat
        BY <1>4
      <4>2. QED
        BY <4>1, <2>2, <3>1, MinFacts
    <3>3. k \in 1 .. l - p - 1
      BY <3>2, <1>3, <1>4
    <3>4. n = k
      BY <1>5, <2>2, <3>1, <3>3
    <3>5. QED
      BY <3>2, <3>3, <3>4, <1>2
  <2>3. QED
    BY <2>1, <2>2
<1>7. ASSUME NEW i \in p + 2 .. p + n PROVE s[i] \notin Delimiter \cup {Blank}
  <2>1. /\ i - (p + 1) \in 1 .. n - 1 /\ i - (p + 1) \in 1 .. l - p - 1
        /\ (p + 1) + (i - (p + 1)) = i
    BY <1>2, <1>6
  <2>2. QED
    BY <2>1, <1>3, <1>4, <1>6
<1>8. QED
  BY <1>1, <1>6, <1>7

\* From position p: the blanks up to b, a token t up to e, and the blanks behind
\* it up to q, or none if a delimiter comes at once.
IsToken(s, p, b, e, q, t) ==
  /\ p <= b /\ b < e /\ e <= q /\ q <= Len(s)
  /\ Blanks(s, p, b) /\ Blanks(s, e, q) /\ s[b + 1] # Blank
  /\ t = SubSeq(s, b + 1, e)
  /\ \A i \in b + 2 .. e : s[i] \notin Delimiter \cup {Blank}
  /\ IF s[p + 1] \in Delimiter THEN b = p /\ e = p + 1 /\ q = p + 1
     ELSE q < Len(s) => s[q + 1] # Blank

LEMMA WordSays ==
  ASSUME NEW C, NEW s \in Seq(C), NEW b \in 0 .. Len(s), NEW e \in 0 .. Len(s), b < e
  PROVE  /\ SubSeq(s, b + 1, e) \in Seq(C) /\ SubSeq(s, b + 1, e) # <<>>
         /\ Len(SubSeq(s, b + 1, e)) = e - b
         /\ \A i \in 1 .. e - b : SubSeq(s, b + 1, e)[i] = s[b + i]
         /\ e = b + 1 => SubSeq(s, b + 1, e) = <<s[b + 1]>>
<1>1. PICK n, m, t : n = Len(s) /\ m = b + 1 /\ t = SubSeq(s, b + 1, e)
  OBVIOUS
<1>2. n \in Nat /\ b \in 0 .. n /\ e \in 0 .. n /\ m \in 1 .. n /\ e \in 1 .. n /\ m <= e
  BY <1>1
<1>3. \A i \in m .. e : s[i] \in C
  BY <1>1, <1>2
<1>4. /\ t \in Seq(C) /\ Len(t) = (IF m <= e THEN e - m + 1 ELSE 0)
      /\ \A i \in 1 .. e - m + 1 : t[i] = s[m + i - 1]
  BY <1>1, <1>2, <1>3, SubSeqProperties
<1>5. e - m + 1 = e - b /\ e - b # 0 /\ \A i \in 1 .. e - b : m + i - 1 = b + i
  BY <1>1, <1>2
<1>6. Len(t) = e - b /\ \A i \in 1 .. e - b : t[i] = s[b + i]
  BY <1>2, <1>4, <1>5
<1>7. t # <<>>
  BY <1>4, <1>5, <1>6, EmptySeq
<1>8. ASSUME e = b + 1 PROVE t = <<s[b + 1]>>
  <2>1. Len(t) = 1 /\ t[1] = s[b + 1]
    BY <1>2, <1>6, <1>8
  <2>2. s[b + 1] \in C
    BY <1>1, <1>2, <1>3
  <2>3. QED
    BY <2>1, <2>2, <1>4, SeqEqual
<1>9. QED
  BY <1>1, <1>4, <1>6, <1>7, <1>8

LEMMA GetNextTokenSays ==
  ASSUME NEW C, NEW s \in Seq(C), NEW p \in 0 .. Len(s),
         NEW g, g = GetNextToken(Rest(s, p))
  PROVE  \/ g.token = NULL /\ Blanks(s, p, Len(s))
         \/ /\ g.token # NULL
            /\ \E b, e, q \in Nat : IsToken(s, p, b, e, q, g.token) /\ g.rest = Rest(s, q)
<1>1. PICK b \in p .. Len(s) : /\ SkipBlanks(Rest(s, p)) = Rest(s, b)
                               /\ Blanks(s, p, b)
                               /\ b < Len(s) => s[b + 1] # Blank
  BY SkipBlanksSays
<1>2. PICK n, r, t : n = Len(s) /\ r = Rest(s, p) /\ t = Rest(s, b)
  OBVIOUS
<1>3. n \in Nat /\ p \in Nat /\ b \in Nat /\ p <= b /\ b <= n
  BY <1>2
<1>4. t = <<>> <=> b = n
  BY <1>2, <1>3, RestFacts
<1>5. PICK k, h, tl, one, word, behind :
        /\ k = WordLength(t) /\ h = Head(r) /\ tl = Tail(r) /\ one = <<h>>
        /\ word = SubSeq(t, 1, k) /\ behind = SkipBlanks(SubSeq(t, k + 1, Len(t)))
  OBVIOUS
<1>6. g = IF t = <<>> THEN [token |-> NULL, rest |-> r]
          ELSE IF h \in Delimiter THEN [token |-> one, rest |-> tl]
          ELSE [token |-> word, rest |-> behind]
  BY <1>1, <1>2, <1>5 DEF GetNextToken
<1>7. /\ t = <<>> => g.token = NULL
      /\ t # <<>> /\ h \in Delimiter => g.token = one /\ g.rest = tl
      /\ t # <<>> /\ h \notin Delimiter => g.token = word /\ g.rest = behind
  <2>1. PICK empty : empty = NULL
    OBVIOUS
  <2>2. g = IF t = <<>> THEN [token |-> empty, rest |-> r]
            ELSE IF h \in Delimiter THEN [token |-> one, rest |-> tl]
            ELSE [token |-> word, rest |-> behind]
    BY <1>6, <2>1
  <2>3. CASE t = <<>>
    BY <2>1, <2>2, <2>3
  <2>4. CASE t # <<>> /\ h \in Delimiter
    BY <2>2, <2>4
  <2>5. CASE t # <<>> /\ h \notin Delimiter
    BY <2>2, <2>5
  <2>6. QED
    BY <2>3, <2>4, <2>5
<1>8. CASE b = n
  <2>1. Blanks(s, p, b) /\ b = Len(s) /\ t = <<>>
    BY <1>1, <1>2, <1>4, <1>8
  <2>2. Blanks(s, p, Len(s))
    BY <2>1
  <2>3. QED
    BY <2>1, <2>2, <1>7
<1>9. CASE b < n
  <2>1. t # <<>> /\ s[b + 1] # Blank /\ p < n
    <3>1. b # n /\ p < n
      BY <1>3, <1>9
    <3>2. b < Len(s)
      BY <1>2, <1>9
    <3>3. s[b + 1] # Blank
      BY <3>2, <1>1
    <3>4. QED
      BY <3>1, <3>3, <1>4
  <2>2. Head(r) = s[p + 1] /\ Tail(r) = Rest(s, p + 1)
    BY <1>2, <1>3, <2>1, RestFacts
  <2>3. CASE s[p + 1] \in Delimiter
    <3>1. s[p + 1] # Blank
      BY <2>3 DEF Delimiter, Blank
    <3>2. b = p
      <4>1. SUFFICES ASSUME p < b PROVE FALSE
        BY <1>3
      <4>2. p + 1 \in p + 1 .. b
        BY <4>1, <1>3
      <4>3. \A i \in p + 1 .. b : s[i] = Blank
        BY <1>1 DEF Blanks
      <4>4. s[p + 1] = Blank
        BY <4>2, <4>3
      <4>5. QED
        BY <4>4, <3>1
    <3>3. g.token = <<s[p + 1]>> /\ g.rest = Rest(s, p + 1)
      BY <1>5, <1>7, <2>1, <2>2, <2>3
    <3>4. PICK e : e = p + 1
      OBVIOUS
    <3>5. e \in Nat /\ p < e /\ e <= n
      BY <3>4, <1>3, <2>1
    <3>6. SubSeq(s, p + 1, e) = <<s[p + 1]>> /\ g.token # <<>>
      <4>1. p \in 0 .. Len(s) /\ e \in 0 .. Len(s)
        BY <1>2, <1>3, <3>5
      <4>2. SubSeq(s, p + 1, e) = <<s[p + 1]>> /\ SubSeq(s, p + 1, e) # <<>>
        BY <4>1, <3>4, <3>5, WordSays
      <4>3. QED
        BY <4>2, <3>3
    <3>7. Blanks(s, e, e) /\ \A i \in p + 2 .. e : FALSE
      BY <3>4, <1>3 DEF Blanks
    <3>8. IsToken(s, p, p, e, e, g.token)
      <4>1. Blanks(s, p, p) /\ Blanks(s, e, e) /\ s[p + 1] # Blank /\ e = p + 1
        <5>1. Blanks(s, p, b)
          BY <1>1
        <5>2. QED
          BY <5>1, <3>1, <3>2, <3>4, <3>7
      <4>2. p <= p /\ p < e /\ e <= e /\ e <= n
        BY <1>3, <3>5
      <4>3. e <= Len(s) /\ g.token = SubSeq(s, p + 1, e)
        BY <4>2, <1>2, <3>3, <3>6
      <4>4. \A i \in p + 2 .. e : s[i] \notin Delimiter \cup {Blank}
        BY <3>7
      <4>5. QED
        BY <4>1, <4>2, <4>3, <4>4, <2>3 DEF IsToken
    <3>9. QED
      BY <3>3, <3>4, <3>5, <3>6, <3>8, <1>3 DEF NULL
  <2>4. CASE s[p + 1] \notin Delimiter
    <3>1. g.token = word /\ g.rest = behind
      BY <1>5, <1>7, <2>1, <2>2, <2>4
    <3>2. g.token = SubSeq(t, 1, k) /\ g.rest = SkipBlanks(SubSeq(t, k + 1, Len(t)))
      BY <3>1, <1>5
    <3>3. /\ b \in 0 .. Len(s) /\ b < Len(s) /\ k = WordLength(Rest(s, b))
      BY <1>2, <1>3, <1>5, <1>9
    <3>4. /\ k \in 1 .. n - b
          /\ \A i \in b + 2 .. b + k : s[i] \notin Delimiter \cup {Blank}
      BY <3>3, <1>2, WordLengthSays
    <3>5. PICK e : e = b + k
      OBVIOUS
    <3>6. e \in Nat /\ b < e /\ e <= n /\ e \in 0 .. Len(s) /\ k \in 0 .. Len(s) - b
      BY <1>2, <1>3, <3>4, <3>5
    <3>7. g.token = SubSeq(s, b + 1, e) /\ SubSeq(t, k + 1, Len(t)) = Rest(s, e)
      BY <1>2, <3>2, <3>3, <3>5, <3>6, RestOfRest
    <3>8. PICK q \in e .. Len(s) : /\ SkipBlanks(Rest(s, e)) = Rest(s, q)
                                   /\ Blanks(s, e, q)
                                   /\ q < Len(s) => s[q + 1] # Blank
      BY <3>6, SkipBlanksSays
    <3>9. q \in Nat /\ e <= q /\ q <= Len(s) /\ g.rest = Rest(s, q)
      <4>1. q \in e .. n
        BY <1>2, <3>8
      <4>2. q \in Nat /\ e <= q /\ q <= n
        BY <4>1, <1>3, <3>6
      <4>3. QED
        BY <4>2, <1>2, <3>2, <3>7, <3>8
    <3>10. g.token # <<>>
      <4>1. SubSeq(s, b + 1, e) # <<>>
        BY <3>3, <3>6, WordSays
      <4>2. QED
        BY <4>1, <3>7
    <3>11. IsToken(s, p, b, e, q, g.token)
      <4>1. \A i \in b + 2 .. e : s[i] \notin Delimiter \cup {Blank}
        BY <3>4, <3>5
      <4>2. p <= b /\ b < e /\ e <= q /\ q <= Len(s)
        BY <1>3, <3>6, <3>9
      <4>3. Blanks(s, p, b) /\ Blanks(s, e, q) /\ (q < Len(s) => s[q + 1] # Blank)
        BY <1>1, <3>8
      <4>4. s[b + 1] # Blank /\ g.token = SubSeq(s, b + 1, e)
        BY <2>1, <3>7
      <4>5. QED
        BY <4>1, <4>2, <4>3, <4>4, <2>4 DEF IsToken
    <3>12. QED
      BY <1>3, <3>6, <3>9, <3>10, <3>11 DEF NULL
  <2>5. QED
    BY <2>3, <2>4
<1>10. QED
  BY <1>3, <1>8, <1>9

-------------------------------------------------------------------------------
(* All tokens.                                                               *)

IsReading(g, s, n) ==
  g = [k \in 0 .. n |->
         IF k = 0 THEN [tokens |-> <<>>, rest |-> s] ELSE ReadToken(g[k - 1])]

\* The recursive definition inside Tokens has a solution.
LEMMA ReadingExists ==
  ASSUME NEW s
  PROVE  \A n \in Nat : \E g : IsReading(g, s, n)
<1> DEFINE S == {n \in Nat : \E g : IsReading(g, s, n)}
           first == [tokens |-> <<>>, rest |-> s]
<1> HIDE DEF first
<1>1. 0 \in S
  <2>1. IsReading([k \in 0 .. 0 |-> first], s, 0)
    BY DEF IsReading, first
  <2>2. QED
    BY <2>1
<1>2. ASSUME NEW n \in Nat, n \in S PROVE n + 1 \in S
  <2>1. PICK g : IsReading(g, s, n)
    BY <1>2
  <2> DEFINE h == [k \in 0 .. n + 1 |-> IF k <= n THEN g[k] ELSE ReadToken(g[n])]
  <2>2. \A k \in 0 .. n : h[k] = g[k]
    OBVIOUS
  <2>3. h[n + 1] = ReadToken(g[n])
    OBVIOUS
  <2>4. h = [k \in 0 .. n + 1 |-> h[k]]
    OBVIOUS
  <2> HIDE DEF h
  <2>5. \A k \in 0 .. n : g[k] = IF k = 0 THEN first ELSE ReadToken(g[k - 1])
    BY <2>1 DEF IsReading, first
  <2>6. ASSUME NEW k \in 0 .. n + 1
        PROVE  h[k] = IF k = 0 THEN first ELSE ReadToken(h[k - 1])
    <3>1. CASE k # n + 1
      <4>1. k \in 0 .. n /\ (k # 0 => k - 1 \in 0 .. n)
        BY <3>1
      <4>2. QED
        BY <4>1, <2>2, <2>5
    <3>2. CASE k = n + 1
      <4>1. n \in 0 .. n /\ k # 0 /\ k - 1 = n
        BY <3>2
      <4>2. QED
        BY <4>1, <3>2, <2>2, <2>3
    <3>3. QED
      BY <3>1, <3>2
  <2>7. IsReading(h, s, n + 1)
    BY <2>4, <2>6 DEF IsReading, first
  <2>8. QED
    BY <2>7
<1>3. Nat \subseteq S
  <2> HIDE DEF S
  <2>1. QED
    BY <1>1, <1>2, NumbersInduction
<1>4. QED
  BY <1>3

LEMMA TokensAreRead ==
  ASSUME NEW s, Len(s) \in Nat
  PROVE  \E g : /\ g[0] = [tokens |-> <<>>, rest |-> s]
                /\ \A k \in Nat : k < Len(s) => g[k + 1] = ReadToken(g[k])
                /\ Tokens(s) = g[Len(s)].tokens
<1> DEFINE w == CHOOSE g : IsReading(g, s, Len(s))
<1>1. IsReading(w, s, Len(s))
  BY ReadingExists, Zenon
<1>2. Tokens(s) = w[Len(s)].tokens
  BY Zenon DEF Tokens, IsReading
<1> HIDE DEF w
<1>3. \A k \in 0 .. Len(s) :
        w[k] = IF k = 0 THEN [tokens |-> <<>>, rest |-> s] ELSE ReadToken(w[k - 1])
  BY <1>1 DEF IsReading
<1>4. w[0] = [tokens |-> <<>>, rest |-> s]
  BY <1>3
<1>5. ASSUME NEW k \in Nat, k < Len(s) PROVE w[k + 1] = ReadToken(w[k])
  <2>1. k + 1 \in 0 .. Len(s) /\ k + 1 # 0 /\ (k + 1) - 1 = k
    BY <1>5
  <2>2. QED
    BY <2>1, <1>3
<1>6. QED
  BY <1>2, <1>4, <1>5

-------------------------------------------------------------------------------
(* No character is lost, doubled or moved.                                   *)

Kept(s) == [k \in DOMAIN s |-> IF s[k] = Blank THEN <<>> ELSE <<s[k]>>]

LEMMA KeptFacts ==
  ASSUME NEW C, NEW s \in Seq(C)
  PROVE  /\ Kept(s) \in Seq(Seq(C)) /\ Len(Kept(s)) = Len(s)
         /\ \A i \in 1 .. Len(s) : Kept(s)[i] = IF s[i] = Blank THEN <<>> ELSE <<s[i]>>
<1>1. PICK n : n = Len(s)
  OBVIOUS
<1>2. n \in Nat /\ DOMAIN s = 1 .. n /\ \A i \in 1 .. n : s[i] \in C
  BY <1>1
<1>3. Kept(s) = [i \in 1 .. n |-> IF s[i] = Blank THEN <<>> ELSE <<s[i]>>]
  BY <1>2 DEF Kept
<1>4. \A i \in 1 .. n : Kept(s)[i] = IF s[i] = Blank THEN <<>> ELSE <<s[i]>>
  BY <1>3
<1>5. ASSUME NEW i \in 1 .. n PROVE Kept(s)[i] \in Seq(C)
  <2>1. s[i] \in C
    BY <1>2
  <2>2. <<>> \in Seq(C) /\ <<s[i]>> \in Seq(C)
    BY <2>1
  <2>3. QED
    BY <2>2, <1>4
<1>6. Kept(s) \in [1 .. n -> Seq(C)]
  BY <1>3, <1>5
<1>7. Kept(s) \in Seq(Seq(C)) /\ Len(Kept(s)) = n
  BY <1>2, <1>6
<1>8. QED
  BY <1>1, <1>4, <1>7

LEMMA BlanksAddNothing ==
  ASSUME NEW C, NEW s \in Seq(C), NEW p \in Nat, NEW q \in Nat, p <= q, q <= Len(s),
         Blanks(s, p, q)
  PROVE  Before(Kept(s), q) = Before(Kept(s), p)
<1>1. PICK kept, l : kept = Kept(s) /\ l = Len(s)
  OBVIOUS
<1>2. /\ kept \in Seq(Seq(C)) /\ Len(kept) = l /\ l \in Nat
      /\ \A i \in 1 .. l : kept[i] = IF s[i] = Blank THEN <<>> ELSE <<s[i]>>
  BY <1>1, KeptFacts
<1>3. /\ \A n \in 0 .. l : Before(kept, n) \in Seq(C)
      /\ \A n \in Nat : n + 1 <= l => Before(kept, n + 1) = Before(kept, n) \o kept[n + 1]
  BY <1>2, BeforeFacts
<1> DEFINE S == {n \in Nat : p + n <= q => Before(kept, p + n) = Before(kept, p)}
<1>4. 0 \in S
  OBVIOUS
<1>5. ASSUME NEW n \in Nat, n \in S PROVE n + 1 \in S
  <2>1. CASE p + (n + 1) <= q
    <3>1. PICK m : m = p + n
      OBVIOUS
    <3>2. m \in Nat /\ m + 1 = p + (n + 1) /\ m + 1 <= l /\ m + 1 \in p + 1 .. q /\ m <= q
          /\ m + 1 \in 1 .. l /\ m \in 0 .. l
      BY <3>1, <2>1, <1>1, <1>2
    <3>3. s[m + 1] = Blank
      BY <3>2 DEF Blanks
    <3>4. kept[m + 1] = <<>>
      BY <3>2, <3>3, <1>2
    <3>5. Before(kept, m + 1) = Before(kept, m) \o <<>> /\ Before(kept, m) \in Seq(C)
      BY <3>2, <3>4, <1>3
    <3>6. Before(kept, m + 1) = Before(kept, m)
      BY <3>5, ConcatEmptySeq
    <3>7. Before(kept, m) = Before(kept, p)
      BY <1>5, <3>1, <3>2
    <3>8. QED
      BY <3>2, <3>6, <3>7
  <2>2. QED
    BY <2>1
<1>6. Nat \subseteq S
  <2> HIDE DEF S
  <2>1. QED
    BY <1>4, <1>5, NumbersInduction
<1>7. q - p \in Nat /\ p + (q - p) = q
  OBVIOUS
<1>8. QED
  BY <1>1, <1>6, <1>7

LEMMA WordAddsItself ==
  ASSUME NEW C, NEW s \in Seq(C), NEW b \in Nat, NEW e \in Nat, b <= e, e <= Len(s),
         \A i \in b + 1 .. e : s[i] # Blank
  PROVE  Before(Kept(s), e) = Before(Kept(s), b) \o SubSeq(s, b + 1, e)
<1>1. PICK kept, l : kept = Kept(s) /\ l = Len(s)
  OBVIOUS
<1>2. /\ kept \in Seq(Seq(C)) /\ Len(kept) = l /\ l \in Nat
      /\ \A i \in 1 .. l : kept[i] = IF s[i] = Blank THEN <<>> ELSE <<s[i]>>
  BY <1>1, KeptFacts
<1>3. /\ \A n \in 0 .. l : Before(kept, n) \in Seq(C)
      /\ \A n \in Nat : n + 1 <= l => Before(kept, n + 1) = Before(kept, n) \o kept[n + 1]
  BY <1>2, BeforeFacts
<1> DEFINE Says(m) == Before(kept, m) = Before(kept, b) \o SubSeq(s, b + 1, m)
           S == {n \in Nat : b + n <= e => Says(b + n)}
<1> HIDE DEF Says
<1>4. Before(kept, b) \in Seq(C)
  <2>1. b \in 0 .. l
    BY <1>1, <1>2
  <2>2. QED
    BY <2>1, <1>3
<1>5. 0 \in S
  <2>1. SubSeq(s, b + 1, b) = <<>>
    BY SubSeqEmpty
  <2>2. Says(b) /\ b + 0 = b
    BY <2>1, <1>4, ConcatEmptySeq DEF Says
  <2>3. QED
    BY <2>2
<1>6. ASSUME NEW n \in Nat, n \in S PROVE n + 1 \in S
  <2>1. CASE b + (n + 1) <= e
    <3>1. PICK m : m = b + n
      OBVIOUS
    <3>2. m \in Nat /\ m + 1 = b + (n + 1) /\ m + 1 <= l /\ m + 1 \in b + 1 .. e /\ m <= e
          /\ m + 1 \in 1 .. l /\ m \in 0 .. l
      BY <3>1, <2>1, <1>1, <1>2
    <3>3. s[m + 1] # Blank /\ s[m + 1] \in C
      BY <3>2, <1>1
    <3>4. kept[m + 1] = <<s[m + 1]>>
      BY <3>2, <3>3, <1>2
    <3>5. Before(kept, m + 1) = Before(kept, m) \o <<s[m + 1]>>
      BY <3>2, <3>4, <1>3
    <3>6. Says(m)
      BY <1>6, <3>1, <3>2
    <3>7. SubSeq(s, b + 1, m + 1) = SubSeq(s, b + 1, m) \o <<s[m + 1]>>
      <4>1. b + 1 \in 1 .. Len(s) /\ m + 1 \in b + 1 .. Len(s) /\ (m + 1) - 1 = m
        BY <3>1, <3>2, <1>1
      <4>2. SubSeq(s, b + 1, m + 1) = SubSeq(s, b + 1, (m + 1) - 1) \o <<s[m + 1]>>
        BY <4>1, SubSeqRecursiveSecond
      <4>3. QED
        BY <4>1, <4>2
    <3>8. SubSeq(s, b + 1, m) \in Seq(C) /\ <<s[m + 1]>> \in Seq(C)
      <4>1. \A i \in b + 1 .. m : s[i] \in C
        BY <3>2, <1>1
      <4>2. QED
        BY <4>1, <3>2, <3>3, SubSeqProperties
    <3>9. Says(m + 1)
      <4>1. (Before(kept, b) \o SubSeq(s, b + 1, m)) \o <<s[m + 1]>>
              = Before(kept, b) \o (SubSeq(s, b + 1, m) \o <<s[m + 1]>>)
        <5>1. PICK x, y, z : /\ x = Before(kept, b) /\ y = SubSeq(s, b + 1, m)
                             /\ z = <<s[m + 1]>>
          OBVIOUS
        <5>2. x \in Seq(C) /\ y \in Seq(C) /\ z \in Seq(C)
          BY <1>4, <3>8, <5>1
        <5>3. (x \o y) \o z = x \o (y \o z)
          BY <5>2, ConcatAssociative
        <5>4. QED
          BY <5>1, <5>3
      <4>2. QED
        BY <4>1, <3>5, <3>6, <3>7 DEF Says
    <3>10. QED
      BY <3>2, <3>9
  <2>2. QED
    BY <2>1
<1>7. Nat \subseteq S
  <2> HIDE DEF S
  <2>1. QED
    BY <1>5, <1>6, NumbersInduction
<1>8. e - b \in Nat /\ b + (e - b) = e
  OBVIOUS
<1>9. Says(e)
  BY <1>7, <1>8
<1>10. QED
  BY <1>1, <1>9 DEF Says

-------------------------------------------------------------------------------
(* Each token is a word or a delimiter.                                      *)

IsWord(s, t) ==
  /\ t # <<>>
  /\ \A i \in 2 .. Len(t) : t[i] \notin Delimiter \cup {Blank}
  /\ Len(t) > 1 /\ IsMark(t) =>
       \E i \in 2 .. Len(s) : s[i] = t[1] /\ s[i - 1] = Blank

\* What is kept up to q is what is kept up to p, and the token t.
Adds(s, p, q, t) == Before(Kept(s), q) = Before(Kept(s), p) \o t

LEMMA TokenIsWord ==
  ASSUME NEW C, NEW s \in Seq(C), NEW p \in 0 .. Len(s),
         NEW b \in Nat, NEW e \in Nat, NEW q \in Nat, NEW t, IsToken(s, p, b, e, q, t)
  PROVE  t \in Seq(C) /\ IsWord(s, t) /\ Adds(s, p, q, t)
<1>1. PICK l : l = Len(s)
  OBVIOUS
<1>2. /\ l \in Nat /\ p \in Nat /\ p <= b /\ b < e /\ e <= q /\ q <= l
      /\ b \in 0 .. Len(s) /\ e \in 0 .. Len(s)
  BY <1>1 DEF IsToken
<1>3. /\ t \in Seq(C) /\ t # <<>> /\ Len(t) = e - b
      /\ \A i \in 1 .. e - b : t[i] = s[b + i]
  <2>1. t = SubSeq(s, b + 1, e)
    BY DEF IsToken
  <2>2. QED
    BY <2>1, <1>2, WordSays
<1>4. \A i \in b + 2 .. e : s[i] \notin Delimiter \cup {Blank}
  BY DEF IsToken
<1>5. ASSUME NEW i \in 2 .. Len(t) PROVE t[i] \notin Delimiter \cup {Blank}
  <2>1. i \in 1 .. e - b /\ b + i \in b + 2 .. e
    BY <1>2, <1>3
  <2>2. QED
    BY <2>1, <1>3, <1>4
<1>6. ASSUME Len(t) > 1, IsMark(t)
      PROVE  \E i \in 2 .. Len(s) : s[i] = t[1] /\ s[i - 1] = Blank
  <2>1. t[1] = s[b + 1] /\ s[b + 1] \in Delimiter /\ e # b + 1
    BY <1>2, <1>3, <1>6 DEF IsMark
  <2>2. b # p
    BY <1>2, <2>1 DEF IsToken
  <2>3. b \in p + 1 .. b /\ b + 1 \in 2 .. Len(s) /\ (b + 1) - 1 = b
    BY <1>1, <1>2, <2>2
  <2>4. s[b] = Blank
    BY <2>3 DEF IsToken, Blanks
  <2>5. QED
    BY <2>1, <2>3, <2>4
<1>7. Adds(s, p, q, t)
  <2>1. Before(Kept(s), b) = Before(Kept(s), p)
    BY <1>1, <1>2, BlanksAddNothing DEF IsToken
  <2>2. Before(Kept(s), e) = Before(Kept(s), b) \o t
    <3>1. ASSUME NEW i \in b + 1 .. e PROVE s[i] # Blank
      <4>1. i = b + 1 \/ i \in b + 2 .. e
        BY <1>2
      <4>2. QED
        BY <4>1, <1>4 DEF IsToken
    <3>2. t = SubSeq(s, b + 1, e)
      BY DEF IsToken
    <3>3. b <= e /\ e <= Len(s)
      BY <1>1, <1>2
    <3>4. QED
      BY <3>1, <3>2, <3>3, WordAddsItself
  <2>3. Before(Kept(s), q) = Before(Kept(s), e)
    BY <1>1, <1>2, BlanksAddNothing DEF IsToken
  <2>4. QED
    BY <2>1, <2>2, <2>3 DEF Adds
<1>8. QED
  BY <1>3, <1>5, <1>6, <1>7 DEF IsWord

\* What k calls have read of a line.
Reads(C, s, w, k) ==
  /\ w.tokens \in Seq(Seq(C)) /\ \A i \in 1 .. Len(w.tokens) : IsWord(s, w.tokens[i])
  /\ \E p \in 0 .. Len(s) : /\ w.rest = Rest(s, p)
                            /\ FlattenSeq(w.tokens) = Before(Kept(s), p)
                            /\ k <= p \/ Blanks(s, p, Len(s))

LEMMA ReadTokenKeeps ==
  ASSUME NEW C, NEW s \in Seq(C), NEW w, NEW k \in Nat, Reads(C, s, w, k)
  PROVE  Reads(C, s, ReadToken(w), k + 1)
<1>1. PICK p \in 0 .. Len(s) : /\ w.rest = Rest(s, p)
                               /\ FlattenSeq(w.tokens) = Before(Kept(s), p)
                               /\ k <= p \/ Blanks(s, p, Len(s))
  BY DEF Reads
<1>2. PICK next, l, v : next = GetNextToken(Rest(s, p)) /\ l = Len(s) /\ v = ReadToken(w)
  OBVIOUS
<1>3. PICK toks : toks = w.tokens
  OBVIOUS
<1>4. toks \in Seq(Seq(C)) /\ Len(toks) \in Nat /\ \A i \in 1 .. Len(toks) : IsWord(s, toks[i])
  BY <1>3 DEF Reads
<1>5. v = IF next.token = NULL THEN w
          ELSE [tokens |-> Append(toks, next.token), rest |-> next.rest]
  BY <1>1, <1>2, <1>3 DEF ReadToken
<1>6. CASE next.token = NULL /\ Blanks(s, p, Len(s))
  BY <1>1, <1>2, <1>5, <1>6 DEF Reads
<1>7. CASE next.token # NULL /\ \E b, e, q \in Nat : /\ IsToken(s, p, b, e, q, next.token)
                                                     /\ next.rest = Rest(s, q)
  <2>1. PICK b \in Nat, e \in Nat, q \in Nat :
          IsToken(s, p, b, e, q, next.token) /\ next.rest = Rest(s, q)
    BY <1>7
  <2>2. PICK t, r : t = next.token /\ r = next.rest
    OBVIOUS
  <2>3. v.tokens = Append(toks, t) /\ v.rest = r
    <3>1. PICK new : new = Append(toks, t)
      OBVIOUS
    <3>2. v = [tokens |-> new, rest |-> r]
      BY <1>5, <1>7, <2>2, <3>1
    <3>3. QED
      BY <3>1, <3>2
  <2>4. t \in Seq(C) /\ IsWord(s, t) /\ Adds(s, p, q, t)
    <3>1. IsToken(s, p, b, e, q, t)
      BY <2>1, <2>2
    <3>2. QED
      BY <3>1, <1>1, <2>1, TokenIsWord
  <2>5. /\ v.tokens \in Seq(Seq(C)) /\ Len(v.tokens) = Len(toks) + 1
        /\ \A i \in 1 .. Len(toks) : v.tokens[i] = toks[i]
        /\ v.tokens[Len(toks) + 1] = t
    BY <1>4, <2>3, <2>4, AppendProperties
  <2>6. \A i \in 1 .. Len(v.tokens) : IsWord(s, v.tokens[i])
    <3>1. ASSUME NEW i \in 1 .. Len(toks) + 1 PROVE IsWord(s, v.tokens[i])
      <4>1. i = Len(toks) + 1 \/ i \in 1 .. Len(toks)
        BY <1>4
      <4>2. QED
        BY <4>1, <1>4, <2>4, <2>5
    <3>2. QED
      BY <3>1, <2>5
  <2>7. FlattenSeq(v.tokens) = Before(Kept(s), q)
    <3>1. FlattenSeq(Append(toks, t)) = FlattenSeq(toks) \o t
      BY <1>4, <2>4, FlatNext
    <3>2. QED
      BY <3>1, <1>1, <1>3, <2>3, <2>4 DEF Adds
  <2>8. /\ p <= b /\ b < e /\ e <= q /\ q <= l /\ s[b + 1] # Blank
    BY <1>2, <2>1 DEF IsToken
  <2>9. k <= p
    <3>1. l \in Nat /\ p \in Nat
      BY <1>2
    <3>2. b + 1 \in p + 1 .. l
      BY <2>8, <3>1
    <3>3. ~ Blanks(s, p, l)
      BY <2>8, <3>2 DEF Blanks
    <3>4. QED
      BY <3>3, <1>1, <1>2
  <2>10. q \in 0 .. Len(s) /\ k + 1 <= q
    BY <1>2, <2>8, <2>9
  <2>11. v.rest = Rest(s, q)
    BY <2>1, <2>2, <2>3
  <2>12. QED
    BY <1>2, <2>5, <2>6, <2>7, <2>10, <2>11 DEF Reads
<1>8. QED
  BY <1>2, <1>6, <1>7, GetNextTokenSays

LEMMA NothingRead ==
  ASSUME NEW C, NEW s \in Seq(C)
  PROVE  Reads(C, s, [tokens |-> <<>>, rest |-> s], 0)
<1>1. PICK w, none : none = <<>> /\ w = [tokens |-> none, rest |-> s]
  OBVIOUS
<1>2. w.tokens = none /\ w.rest = s
  BY <1>1
<1>3. none \in Seq(Seq(C)) /\ Len(none) = 0
  BY <1>1, EmptySeq
<1>4. FlattenSeq(none) = Before(Kept(s), 0)
  <2>1. FlattenSeq(none) = <<>>
    BY <1>1, <1>3 DEF FlattenSeq
  <2>2. Before(Kept(s), 0) = <<>>
    BY KeptFacts, BeforeFacts
  <2>3. QED
    BY <2>1, <2>2
<1>5. Rest(s, 0) = s
  BY SubSeqFull DEF Rest
<1>6. 0 \in 0 .. Len(s) /\ 0 <= 0
  OBVIOUS
<1>7. Reads(C, s, w, 0)
  BY <1>2, <1>3, <1>4, <1>5, <1>6 DEF Reads
<1>8. QED
  BY <1>1, <1>7

\* Each call takes a character, so as many calls as there are characters take all.
LEMMA TokensSay ==
  ASSUME NEW C, NEW s \in Seq(C)
  PROVE  /\ Tokens(s) \in Seq(Seq(C))
         /\ FlattenSeq(Tokens(s)) = FlattenSeq(Kept(s))
         /\ \A k \in DOMAIN Tokens(s) : IsWord(s, Tokens(s)[k])
<1>1. PICK l : l = Len(s)
  OBVIOUS
<1>2. l \in Nat
  BY <1>1
<1>3. PICK g : /\ g[0] = [tokens |-> <<>>, rest |-> s]
               /\ \A k \in Nat : k < Len(s) => g[k + 1] = ReadToken(g[k])
               /\ Tokens(s) = g[Len(s)].tokens
  BY <1>1, <1>2, TokensAreRead
<1> DEFINE S == {k \in Nat : k <= l => Reads(C, s, g[k], k)}
<1>4. 0 \in S
  BY <1>3, NothingRead
<1>5. ASSUME NEW k \in Nat, k \in S PROVE k + 1 \in S
  <2>1. CASE k + 1 <= l
    <3>1. Reads(C, s, g[k], k) /\ g[k + 1] = ReadToken(g[k])
      BY <1>1, <1>2, <1>3, <1>5, <2>1
    <3>2. QED
      BY <3>1, ReadTokenKeeps
  <2>2. QED
    BY <2>1
<1>6. Nat \subseteq S
  <2> HIDE DEF S
  <2>1. QED
    BY <1>4, <1>5, NumbersInduction
<1>7. PICK w : w = g[l]
  OBVIOUS
<1>8. Reads(C, s, w, l) /\ Tokens(s) = w.tokens
  BY <1>1, <1>2, <1>3, <1>6, <1>7
<1>9. PICK p \in 0 .. Len(s) : /\ FlattenSeq(w.tokens) = Before(Kept(s), p)
                               /\ l <= p \/ Blanks(s, p, Len(s))
  BY <1>8 DEF Reads
<1>10. Blanks(s, p, Len(s))
  <2>1. ASSUME l <= p PROVE Blanks(s, p, Len(s))
    <3>1. p + 1 .. Len(s) = {}
      BY <1>1, <1>2, <2>1
    <3>2. QED
      BY <3>1 DEF Blanks
  <2>2. QED
    BY <2>1, <1>9
<1>11. Before(Kept(s), Len(s)) = Before(Kept(s), p)
  <2>1. p \in Nat /\ Len(s) \in Nat /\ p <= Len(s) /\ Len(s) <= Len(s)
    OBVIOUS
  <2>2. QED
    BY <2>1, <1>10, BlanksAddNothing
<1>12. Before(Kept(s), Len(s)) = FlattenSeq(Kept(s))
  BY KeptFacts, BeforeFacts
<1>13. Tokens(s) \in Seq(Seq(C)) /\ DOMAIN Tokens(s) = 1 .. Len(w.tokens)
       /\ \A k \in 1 .. Len(w.tokens) : IsWord(s, Tokens(s)[k])
  BY <1>8 DEF Reads
<1>14. QED
  BY <1>8, <1>9, <1>11, <1>12, <1>13

LEMMA FaithfulTokens ==
  ASSUME NEW C, line \in Seq(C)
  PROVE  TokensFaithful
<1>1. PICK s, toks : s = line /\ toks = Tokens(line)
  OBVIOUS
<1>2. /\ FlattenSeq(toks) = FlattenSeq(Kept(s))
      /\ \A k \in DOMAIN toks : IsWord(s, toks[k])
  BY <1>1, TokensSay
<1>3. QED
  BY <1>1, <1>2 DEF TokensFaithful, IsWord, Kept

-------------------------------------------------------------------------------
(* The line that writes a command.                                           *)

\* Parts of one character, no two marks beside each other and none in front.
Plain(C, parts) ==
  /\ parts \in Seq(Seq(C)) /\ Blank \in C
  /\ \A k \in 1 .. Len(parts) :
       /\ Len(parts[k]) = 1 /\ parts[k][1] # Blank
       /\ IsMark(parts[k]) => k > 1 /\ ~ IsMark(parts[k - 1])

Spaced(part, gap) == (IF gap THEN <<Blank>> ELSE <<>>) \o part

LEMMA SpacedFacts ==
  ASSUME NEW C, Blank \in C, NEW part \in Seq(C), Len(part) = 1, NEW gap \in BOOLEAN
  PROVE  /\ Spaced(part, gap) \in Seq(C)
         /\ Len(Spaced(part, gap)) = IF gap THEN 2 ELSE 1
         /\ Spaced(part, gap)[IF gap THEN 2 ELSE 1] = part[1]
         /\ gap => Spaced(part, gap)[1] = Blank
<1>1. PICK one, none : one = <<Blank>> /\ none = <<>>
  OBVIOUS
<1>2. one \in Seq(C) /\ Len(one) = 1 /\ one[1] = Blank
  BY <1>1
<1>3. none \in Seq(C) /\ Len(none) = 0
  BY <1>1
<1>4. CASE gap
  <2>1. /\ one \o part \in Seq(C) /\ Len(one \o part) = Len(one) + Len(part)
        /\ \A i \in 1 .. Len(one) + Len(part) :
             (one \o part)[i] = IF i <= Len(one) THEN one[i] ELSE part[i - Len(one)]
    BY <1>2, ConcatProperties
  <2>2. Len(one \o part) = 2 /\ (one \o part)[1] = Blank /\ (one \o part)[2] = part[1]
    BY <2>1, <1>2
  <2>3. Spaced(part, gap) = one \o part
    BY <1>1, <1>4 DEF Spaced
  <2>4. QED
    BY <1>4, <2>1, <2>2, <2>3
<1>5. CASE ~gap
  <2>1. none \o part = part
    BY <1>1, ConcatEmptySeq
  <2>2. Spaced(part, gap) = part
    BY <1>1, <1>5, <2>1 DEF Spaced
  <2>3. QED
    BY <1>5, <2>2
<1>6. QED
  BY <1>4, <1>5

Groups(parts, gaps) == [k \in DOMAIN parts |-> Spaced(parts[k], gaps[k])]

\* Part k ends at o[k], behind a blank if there is a gap, and a blank ends the line.
LaidOut(s, parts, gaps, o) ==
  /\ o \in [0 .. Len(parts) -> Nat] /\ o[0] = 0
  /\ Len(s) = o[Len(parts)] + 1 /\ s[Len(s)] = Blank
  /\ \A k \in 1 .. Len(parts) :
       /\ o[k] = o[k - 1] + IF gaps[k] THEN 2 ELSE 1
       /\ o[k] <= o[Len(parts)] /\ s[o[k]] = parts[k][1]
       /\ gaps[k] => s[o[k] - 1] = Blank

\* y begins with x.
Starts(x, y) == Len(x) <= Len(y) /\ \A i \in 1 .. Len(x) : y[i] = x[i]

LEMMA StartsStays ==
  ASSUME NEW C, NEW x \in Seq(C), NEW y \in Seq(C), NEW e \in Seq(C), Starts(x, y)
  PROVE  Starts(x, y \o e)
<1>1. PICK z, a, b, c : z = y \o e /\ a = Len(x) /\ b = Len(y) /\ c = Len(e)
  OBVIOUS
<1>2. /\ Len(z) = b + c /\ a \in Nat /\ b \in Nat /\ c \in Nat
      /\ \A i \in 1 .. b + c : z[i] = IF i <= b THEN y[i] ELSE e[i - b]
  BY <1>1, ConcatProperties
<1>3. a <= b /\ \A i \in 1 .. a : y[i] = x[i]
  BY <1>1 DEF Starts
<1>4. ASSUME NEW i \in 1 .. a PROVE z[i] = x[i]
  <2>1. i \in 1 .. b + c /\ i <= b
    BY <1>2, <1>3
  <2>2. QED
    BY <2>1, <1>2, <1>3
<1>5. a <= Len(z)
  BY <1>2, <1>3
<1>6. QED
  BY <1>1, <1>4, <1>5 DEF Starts

\* What comes first stays.
LEMMA BeforeStays ==
  ASSUME NEW C, NEW ss \in Seq(Seq(C)), NEW k \in Nat, NEW n \in Nat, k <= n, n <= Len(ss)
  PROVE  Starts(Before(ss, k), Before(ss, n))
<1>1. PICK l, x : l = Len(ss) /\ x = Before(ss, k)
  OBVIOUS
<1>2. l \in Nat /\ k <= l /\ k \in 0 .. l
  BY <1>1
<1>3. /\ \A i \in 0 .. l : Before(ss, i) \in Seq(C)
      /\ \A i \in Nat : i + 1 <= l => Before(ss, i + 1) = Before(ss, i) \o ss[i + 1]
  BY <1>1, BeforeFacts
<1>4. x \in Seq(C)
  BY <1>1, <1>2, <1>3
<1>5. \A i \in 1 .. l : ss[i] \in Seq(C)
  BY <1>1
<1> DEFINE S == {m \in Nat : k + m <= l => Starts(x, Before(ss, k + m))}
<1>6. 0 \in S
  <2>1. Starts(x, x) /\ k + 0 = k
    BY <1>4 DEF Starts
  <2>2. QED
    BY <2>1, <1>1
<1>7. ASSUME NEW m \in Nat, m \in S PROVE m + 1 \in S
  <2>1. CASE k + (m + 1) <= l
    <3>1. PICK j : j = k + m
      OBVIOUS
    <3>2. j \in Nat /\ j + 1 = k + (m + 1) /\ j + 1 <= l /\ j \in 0 .. l /\ j + 1 \in 1 .. l
          /\ k + m <= l
      BY <3>1, <2>1, <1>2
    <3>3. PICK y, e : y = Before(ss, j) /\ e = ss[j + 1]
      OBVIOUS
    <3>4. y \in Seq(C) /\ e \in Seq(C)
      BY <3>2, <3>3, <1>3, <1>5
    <3>5. Starts(x, y)
      BY <1>7, <3>1, <3>2, <3>3
    <3>6. Starts(x, y \o e)
      BY <3>4, <3>5, <1>4, StartsStays
    <3>7. Before(ss, j + 1) = y \o e
      BY <3>2, <3>3, <1>3
    <3>8. Starts(x, Before(ss, k + (m + 1)))
      BY <3>2, <3>6, <3>7
    <3>9. QED
      BY <3>8
  <2>2. QED
    BY <2>1
<1>8. Nat \subseteq S
  <2> HIDE DEF S
  <2>1. QED
    BY <1>6, <1>7, NumbersInduction
<1>9. n - k \in Nat /\ k + (n - k) = n
  OBVIOUS
<1>10. QED
  BY <1>1, <1>8, <1>9

LEMMA WrittenIsLaidOut ==
  ASSUME NEW C, NEW parts, Plain(C, parts), NEW gaps \in [DOMAIN parts -> BOOLEAN]
  PROVE  /\ Written(parts, gaps) \in Seq(C)
         /\ \E o : LaidOut(Written(parts, gaps), parts, gaps, o)
<1>1. PICK n, groups : n = Len(parts) /\ groups = Groups(parts, gaps)
  OBVIOUS
<1>2. /\ n \in Nat /\ DOMAIN parts = 1 .. n /\ Blank \in C /\ parts \in Seq(Seq(C))
      /\ \A k \in 1 .. n : /\ gaps[k] \in BOOLEAN /\ parts[k] \in Seq(C)
                           /\ Len(parts[k]) = 1
  BY <1>1 DEF Plain
<1>3. \A k \in 1 .. n : /\ groups[k] = Spaced(parts[k], gaps[k])
                        /\ groups[k] \in Seq(C)
                        /\ Len(groups[k]) = IF gaps[k] THEN 2 ELSE 1
                        /\ groups[k][IF gaps[k] THEN 2 ELSE 1] = parts[k][1]
                        /\ gaps[k] => groups[k][1] = Blank
  <2>1. groups = [k \in 1 .. n |-> Spaced(parts[k], gaps[k])]
    BY <1>1, <1>2 DEF Groups
  <2>2. ASSUME NEW k \in 1 .. n
        PROVE  /\ groups[k] = Spaced(parts[k], gaps[k])
               /\ groups[k] \in Seq(C)
               /\ Len(groups[k]) = IF gaps[k] THEN 2 ELSE 1
               /\ groups[k][IF gaps[k] THEN 2 ELSE 1] = parts[k][1]
               /\ gaps[k] => groups[k][1] = Blank
    <3>1. PICK part, gap : part = parts[k] /\ gap = gaps[k]
      OBVIOUS
    <3>2. part \in Seq(C) /\ Len(part) = 1 /\ gap \in BOOLEAN /\ Blank \in C
      BY <3>1, <1>2
    <3>3. groups[k] = Spaced(part, gap)
      BY <3>1, <2>1
    <3>4. PICK sp : sp = Spaced(part, gap)
      OBVIOUS
    <3>5. /\ sp \in Seq(C) /\ Len(sp) = IF gap THEN 2 ELSE 1
          /\ sp[IF gap THEN 2 ELSE 1] = part[1]
          /\ gap => sp[1] = Blank
      BY <3>2, <3>4, SpacedFacts
    <3>6. QED
      BY <3>1, <3>3, <3>4, <3>5
  <2>3. QED
    BY <2>2
<1>4. groups \in Seq(Seq(C)) /\ Len(groups) = n
  <2>1. groups = [k \in 1 .. n |-> groups[k]]
    BY <1>1, <1>2 DEF Groups
  <2>2. groups \in [1 .. n -> Seq(C)]
    BY <2>1, <1>3
  <2>3. QED
    BY <2>2, <1>2
<1>5. /\ Before(groups, 0) = <<>> /\ Before(groups, n) = FlattenSeq(groups)
      /\ \A k \in 0 .. n : Before(groups, k) \in Seq(C)
      /\ \A k \in Nat : k + 1 <= n => Before(groups, k + 1) = Before(groups, k) \o groups[k + 1]
  BY <1>4, BeforeFacts
<1>6. PICK all, blank, s :
        /\ all = FlattenSeq(groups) /\ blank = <<Blank>> /\ s = all \o blank
  OBVIOUS
<1>7. s = Written(parts, gaps)
  BY <1>1, <1>6 DEF Written, Groups, Spaced
<1>8. all \in Seq(C) /\ Len(all) \in Nat /\ blank \in Seq(C) /\ Len(blank) = 1
      /\ blank[1] = Blank
  BY <1>2, <1>5, <1>6
<1>9. /\ s \in Seq(C) /\ Len(s) = Len(all) + 1 /\ s[Len(all) + 1] = Blank
      /\ \A i \in 1 .. Len(all) : s[i] = all[i]
  <2>1. /\ s \in Seq(C) /\ Len(s) = Len(all) + Len(blank)
        /\ \A i \in 1 .. Len(all) + Len(blank) :
             s[i] = IF i <= Len(all) THEN all[i] ELSE blank[i - Len(all)]
    BY <1>6, <1>8, ConcatProperties
  <2>2. QED
    BY <2>1, <1>8
<1>10. PICK o : o = [k \in 0 .. n |-> Len(Before(groups, k))]
  OBVIOUS
<1>11. /\ \A k \in 0 .. n : o[k] = Len(Before(groups, k)) /\ o[k] \in Nat
       /\ o[0] = 0 /\ o[n] = Len(all)
  <2>1. \A k \in 0 .. n : o[k] = Len(Before(groups, k)) /\ o[k] \in Nat
    BY <1>5, <1>10
  <2>2. 0 \in 0 .. n /\ n \in 0 .. n /\ Len(<<>>) = 0
    BY <1>2
  <2>3. QED
    BY <2>1, <2>2, <1>5, <1>6
<1>12. ASSUME NEW k \in 1 .. n
       PROVE  /\ o[k] = o[k - 1] + IF gaps[k] THEN 2 ELSE 1
              /\ o[k] <= o[n] /\ s[o[k]] = parts[k][1]
              /\ gaps[k] => s[o[k] - 1] = Blank
  <2>1. PICK j, x, y : j = k - 1 /\ x = Before(groups, j) /\ y = groups[k]
    OBVIOUS
  <2>2. j \in Nat /\ j + 1 = k /\ j \in 0 .. n /\ k \in 0 .. n /\ j + 1 <= n
    BY <2>1, <1>2
  <2>3. x \in Seq(C) /\ y \in Seq(C) /\ Before(groups, k) = x \o y /\ o[j] = Len(x)
    BY <2>1, <2>2, <1>3, <1>5, <1>11
  <2>4. PICK z : z = x \o y
    OBVIOUS
  <2>5. /\ Len(z) = Len(x) + Len(y)
        /\ \A i \in 1 .. Len(x) + Len(y) : z[i] = IF i <= Len(x) THEN x[i] ELSE y[i - Len(x)]
    BY <2>3, <2>4, ConcatProperties
  <2>6. PICK a : a = IF gaps[k] THEN 2 ELSE 1
    OBVIOUS
  <2>7. /\ a \in {1, 2} /\ Len(y) = a /\ y[a] = parts[k][1]
        /\ gaps[k] => a = 2 /\ y[1] = Blank
    BY <2>1, <2>6, <1>3
  <2>8. Len(x) \in Nat /\ o[k] = Len(z) /\ Len(z) = Len(x) + a
    BY <2>2, <2>3, <2>4, <2>5, <2>7, <1>11
  <2>9. z[Len(z)] = parts[k][1] /\ (gaps[k] => z[Len(z) - 1] = Blank)
    <3>1. /\ Len(z) \in 1 .. Len(x) + Len(y) /\ ~ (Len(z) <= Len(x)) /\ Len(z) - Len(x) = a
      BY <2>5, <2>7, <2>8
    <3>2. z[Len(z)] = y[a]
      BY <3>1, <2>5
    <3>3. ASSUME gaps[k] PROVE z[Len(z) - 1] = Blank
      <4>1. /\ Len(z) - 1 \in 1 .. Len(x) + Len(y) /\ ~ (Len(z) - 1 <= Len(x))
            /\ (Len(z) - 1) - Len(x) = 1
        BY <3>3, <2>5, <2>7, <2>8
      <4>2. z[Len(z) - 1] = y[1]
        BY <4>1, <2>5
      <4>3. QED
        BY <4>2, <3>3, <2>7
    <3>4. QED
      BY <3>2, <3>3, <2>7
  <2>10. /\ Len(z) <= Len(all) /\ \A i \in 1 .. Len(z) : all[i] = z[i]
    <3>1. k \in Nat /\ k <= n /\ n <= n /\ n <= Len(groups)
      BY <1>2, <1>4
    <3>2. Starts(Before(groups, k), Before(groups, n))
      BY <3>1, <1>2, <1>4, BeforeStays
    <3>3. Before(groups, n) = all /\ Before(groups, k) = z
      BY <2>3, <2>4, <1>5, <1>6
    <3>4. QED
      BY <3>2, <3>3 DEF Starts
  <2>11. s[Len(z)] = parts[k][1]
    <3>1. Len(z) \in 1 .. Len(z) /\ Len(z) \in 1 .. Len(all)
      BY <2>7, <2>8, <2>10, <1>8
    <3>2. QED
      BY <3>1, <2>9, <2>10, <1>9
  <2>12. ASSUME gaps[k] PROVE s[Len(z) - 1] = Blank
    <3>1. Len(z) - 1 \in 1 .. Len(z) /\ Len(z) - 1 \in 1 .. Len(all)
      BY <2>12, <2>7, <2>8, <2>10, <1>8
    <3>2. QED
      BY <3>1, <2>9, <2>10, <2>12, <1>9
  <2>13. o[k] = o[k - 1] + a /\ o[k] <= o[n]
    BY <2>1, <2>3, <2>8, <2>10, <1>11
  <2>14. QED
    BY <2>6, <2>8, <2>11, <2>12, <2>13
<1>13. o \in [0 .. n -> Nat]
  BY <1>10, <1>11
<1>14. Len(s) = o[n] + 1 /\ s[Len(s)] = Blank
  BY <1>9, <1>11
<1>15. LaidOut(s, parts, gaps, o)
  BY <1>1, <1>11, <1>12, <1>13, <1>14 DEF LaidOut
<1>16. QED
  BY <1>7, <1>9, <1>15

-------------------------------------------------------------------------------
(* The line that writes a command is read as that command.                   *)

LEMMA PartsAreLetters ==
  ASSUME NEW C, NEW parts, Plain(C, parts), NEW k \in 1 .. Len(parts)
  PROVE  parts[k] \in Seq(C) /\ parts[k] = << parts[k][1] >> /\ parts[k][1] # Blank
<1>1. PICK x : x = parts[k]
  OBVIOUS
<1>2. x \in Seq(C) /\ Len(x) = 1 /\ x[1] # Blank
  BY <1>1 DEF Plain
<1>3. x = << x[1] >>
  BY <1>2
<1>4. QED
  BY <1>1, <1>2, <1>3

LEMMA PartsEndLate ==
  ASSUME NEW s, NEW parts, Len(parts) \in Nat, NEW gaps, NEW o, LaidOut(s, parts, gaps, o)
  PROVE  \A k \in Nat : k <= Len(parts) => k <= o[k]
<1>1. PICK n : n = Len(parts)
  OBVIOUS
<1>2. /\ n \in Nat /\ o \in [0 .. n -> Nat] /\ o[0] = 0
      /\ \A k \in 1 .. n : o[k] = o[k - 1] + IF gaps[k] THEN 2 ELSE 1
  BY <1>1 DEF LaidOut
<1> DEFINE S == {k \in Nat : k <= n => k <= o[k]}
<1>3. 0 \in S
  BY <1>2
<1>4. ASSUME NEW k \in Nat, k \in S PROVE k + 1 \in S
  <2>1. CASE k + 1 <= n
    <3>1. k <= n /\ k + 1 \in 1 .. n /\ (k + 1) - 1 = k /\ k \in 0 .. n
      BY <2>1, <1>2
    <3>2. k <= o[k] /\ o[k] \in Nat
      BY <3>1, <1>2, <1>4
    <3>3. o[k + 1] = o[k] + IF gaps[k + 1] THEN 2 ELSE 1
      BY <3>1, <1>2
    <3>4. k + 1 <= o[k + 1]
      BY <3>2, <3>3
    <3>5. QED
      BY <3>4
  <2>2. QED
    BY <2>1
<1>5. Nat \subseteq S
  <2> HIDE DEF S
  <2>1. QED
    BY <1>3, <1>4, NumbersInduction
<1>6. QED
  BY <1>1, <1>5

\* Between two parts there is at most one character, a blank.
Between(s, parts, gaps, o, k) ==
  /\ o[k] \in Nat /\ o[k + 1] \in Nat /\ Len(s) \in Nat
  /\ o[k] < o[k + 1] /\ o[k + 1] < Len(s)
  /\ \A i \in o[k] + 1 .. o[k + 1] - 1 : s[i] = Blank
  /\ s[o[k + 1]] = parts[k + 1][1]
  /\ o[k + 1] = o[k] + IF gaps[k + 1] THEN 2 ELSE 1

LEMMA BetweenParts ==
  ASSUME NEW s, NEW parts, Len(parts) \in Nat, NEW gaps, NEW o, LaidOut(s, parts, gaps, o),
         NEW k \in Nat, k < Len(parts)
  PROVE  Between(s, parts, gaps, o, k)
<1>1. PICK n, j, a, b, l : n = Len(parts) /\ j = k + 1 /\ a = o[k] /\ b = o[j] /\ l = Len(s)
  OBVIOUS
<1>2. /\ n \in Nat /\ k \in 0 .. n /\ j \in 0 .. n /\ j \in 1 .. n /\ j - 1 = k /\ n \in 0 .. n
  BY <1>1
<1>3. a \in Nat /\ b \in Nat /\ o[n] \in Nat /\ l = o[n] + 1 /\ b <= o[n]
  BY <1>1, <1>2 DEF LaidOut
<1>4. /\ b = a + (IF gaps[j] THEN 2 ELSE 1) /\ s[b] = parts[j][1]
      /\ gaps[j] => s[b - 1] = Blank
  <2>1. /\ o[j] = o[j - 1] + (IF gaps[j] THEN 2 ELSE 1) /\ s[o[j]] = parts[j][1]
        /\ gaps[j] => s[o[j] - 1] = Blank
    BY <1>1, <1>2 DEF LaidOut
  <2>2. QED
    BY <1>1, <1>2, <2>1
<1>5. ASSUME NEW i \in a + 1 .. b - 1 PROVE s[i] = Blank
  <2>1. gaps[j] /\ i = b - 1
    BY <1>3, <1>4
  <2>2. QED
    BY <2>1, <1>4
<1>6. a < b /\ b < l
  BY <1>3, <1>4
<1>7. l \in Nat
  BY <1>3
<1>8. QED
  BY <1>1, <1>3, <1>4, <1>5, <1>6, <1>7 DEF Between

\* Behind a word stands a blank or a mark.
LEMMA BehindWord ==
  ASSUME NEW C, NEW s, NEW parts, Plain(C, parts), NEW gaps \in Gaps(parts),
         NEW o, LaidOut(s, parts, gaps, o),
         NEW k \in Nat, k < Len(parts), ~ IsMark(parts[k + 1])
  PROVE  s[o[k + 1] + 1] \in Delimiter \cup {Blank}
<1>1. PICK n, j : n = Len(parts) /\ j = k + 1
  OBVIOUS
<1>2. n \in Nat /\ j \in 1 .. n /\ parts \in Seq(Seq(C)) /\ DOMAIN parts = 1 .. n
  BY <1>1 DEF Plain
<1>3. CASE j = n
  <2>1. Len(s) = o[n] + 1 /\ s[Len(s)] = Blank
    BY <1>1 DEF LaidOut
  <2>2. QED
    BY <2>1, <1>1, <1>3
<1>4. CASE j # n
  <2>1. j < n /\ j + 1 \in DOMAIN parts \ {1} /\ (j + 1) - 1 = j /\ j \in Nat /\ j + 1 \in 1 .. n
    BY <1>2, <1>4
  <2>2. gaps[j + 1] \/ IsMark(parts[j + 1])
    <3>1. gaps[j + 1] \/ IsMark(parts[j + 1]) \/ IsMark(parts[(j + 1) - 1])
      BY <2>1 DEF Gaps
    <3>2. QED
      BY <3>1, <2>1, <1>1
  <2>3. /\ o[j] \in Nat /\ o[j + 1] = o[j] + (IF gaps[j + 1] THEN 2 ELSE 1)
        /\ s[o[j + 1]] = parts[j + 1][1]
        /\ \A i \in o[j] + 1 .. o[j + 1] - 1 : s[i] = Blank
    <3>1. Len(parts) \in Nat /\ j < Len(parts)
      BY <1>1, <1>2, <2>1
    <3>2. Between(s, parts, gaps, o, j)
      BY <3>1, <2>1, BetweenParts
    <3>3. QED
      BY <3>2 DEF Between
  <2>4. CASE gaps[j + 1]
    <3>1. o[j] + 1 \in o[j] + 1 .. o[j + 1] - 1
      BY <2>3, <2>4
    <3>2. QED
      BY <3>1, <2>3, <1>1
  <2>5. CASE ~ gaps[j + 1]
    <3>1. o[j + 1] = o[j] + 1 /\ parts[j + 1][1] \in Delimiter
      BY <2>2, <2>3, <2>5 DEF IsMark
    <3>2. QED
      BY <3>1, <2>3, <1>1
  <2>6. QED
    BY <2>4, <2>5
<1>5. QED
  BY <1>3, <1>4

\* What is left after k parts: the place is behind the blanks that follow part k,
\* or before them; and it is that of the next part if that is a mark.
Place(s, parts, o, k, p) ==
  /\ o[k] <= p /\ p <= Len(s) /\ Blanks(s, o[k], p)
  /\ k < Len(parts) /\ IsMark(parts[k + 1]) => p = o[k + 1] - 1

LEMMA NextPlace ==
  ASSUME NEW C, NEW s \in Seq(C), NEW parts, Plain(C, parts), NEW gaps \in Gaps(parts),
         NEW o, LaidOut(s, parts, gaps, o), NEW k \in Nat, k < Len(parts),
         NEW p \in Nat, Place(s, parts, o, k, p),
         NEW b \in Nat, NEW e \in Nat, NEW q \in Nat, NEW t, IsToken(s, p, b, e, q, t)
  PROVE  t = parts[k + 1] /\ Place(s, parts, o, k + 1, q)
<1>1. PICK l, c, d : l = Len(s) /\ c = o[k] /\ d = o[k + 1]
  OBVIOUS
<1>2. PICK part : part = parts[k + 1]
  OBVIOUS
<1>3. Len(parts) \in Nat /\ k + 1 \in 1 .. Len(parts)
  BY DEF Plain
<1>4. /\ c \in Nat /\ d \in Nat /\ l \in Nat /\ c < d /\ d < l
      /\ \A i \in c + 1 .. d - 1 : s[i] = Blank
      /\ s[d] = part[1]
  <2>1. Between(s, parts, gaps, o, k)
    BY <1>3, BetweenParts
  <2>2. QED
    BY <2>1, <1>1, <1>2 DEF Between
<1>5. part = << part[1] >> /\ part[1] # Blank
  BY <1>2, <1>3, PartsAreLetters
<1>6. /\ c <= p /\ p <= l /\ \A i \in c + 1 .. p : s[i] = Blank
      /\ IsMark(part) => p = d - 1
  BY <1>1, <1>2 DEF Place, Blanks
<1>7. /\ p <= b /\ b < e /\ e <= q /\ q <= l /\ s[b + 1] # Blank
      /\ \A i \in p + 1 .. b : s[i] = Blank
      /\ \A i \in e + 1 .. q : s[i] = Blank
      /\ t = SubSeq(s, b + 1, e)
      /\ \A i \in b + 2 .. e : s[i] \notin Delimiter \cup {Blank}
      /\ IF s[p + 1] \in Delimiter THEN b = p /\ e = p + 1 /\ q = p + 1
         ELSE q < l => s[q + 1] # Blank
  BY <1>1 DEF IsToken, Blanks
<1>8. p < d
  <2>1. ASSUME d <= p PROVE FALSE
    <3>1. d \in c + 1 .. p
      BY <2>1, <1>4
    <3>2. QED
      BY <3>1, <1>4, <1>5, <1>6
  <2>2. QED
    BY <2>1, <1>4
<1>9. b + 1 = d
  <2>1. ASSUME b + 1 < d PROVE FALSE
    <3>1. b + 1 \in c + 1 .. d - 1
      BY <2>1, <1>4, <1>6, <1>7
    <3>2. QED
      BY <3>1, <1>4, <1>7
  <2>2. ASSUME d <= b PROVE FALSE
    <3>1. d \in p + 1 .. b
      BY <2>2, <1>4, <1>8
    <3>2. QED
      BY <3>1, <1>4, <1>5, <1>7
  <2>3. QED
    BY <2>1, <2>2, <1>4
<1>10. e = d
  <2>1. CASE IsMark(part)
    <3>1. s[p + 1] \in Delimiter
      <4>1. p + 1 = d
        BY <2>1, <1>4, <1>6
      <4>2. QED
        BY <4>1, <2>1, <1>4 DEF IsMark
    <3>2. QED
      BY <3>1, <1>7, <1>9
  <2>2. CASE ~ IsMark(part)
    <3>1. s[d + 1] \in Delimiter \cup {Blank}
      BY <2>2, <1>1, <1>2, BehindWord
    <3>2. ASSUME e # d PROVE FALSE
      <4>1. d + 1 \in b + 2 .. e
        BY <3>2, <1>4, <1>7, <1>9
      <4>2. QED
        BY <4>1, <3>1, <1>7
    <3>3. QED
      BY <3>2
  <2>3. QED
    BY <2>1, <2>2
<1>11. t = part
  <2>1. b \in 0 .. Len(s) /\ e \in 0 .. Len(s) /\ b < e /\ e = b + 1
    <3>1. e = b + 1 /\ e < l
      BY <1>4, <1>9, <1>10
    <3>2. QED
      BY <3>1, <1>1, <1>4
  <2>2. SubSeq(s, b + 1, e) = << s[b + 1] >>
    BY <2>1, WordSays
  <2>3. QED
    BY <2>2, <1>4, <1>5, <1>7, <1>9
<1>12. d <= q /\ q <= Len(s) /\ Blanks(s, d, q)
  BY <1>1, <1>7, <1>10 DEF Blanks
<1>13. ASSUME k + 1 < Len(parts), IsMark(parts[(k + 1) + 1])
       PROVE  q = o[(k + 1) + 1] - 1
  <2>1. PICK f : f = o[(k + 1) + 1]
    OBVIOUS
  <2>2. /\ f \in Nat /\ d < f /\ f < l /\ \A i \in d + 1 .. f - 1 : s[i] = Blank
        /\ s[f] = parts[(k + 1) + 1][1]
    <3>1. PICK j : j = k + 1
      OBVIOUS
    <3>2. j \in Nat /\ j < Len(parts)
      BY <3>1, <1>13
    <3>3. Between(s, parts, gaps, o, j)
      BY <3>2, <1>3, BetweenParts
    <3>4. QED
      BY <3>1, <3>3, <2>1, <1>1 DEF Between
  <2>3. ~ IsMark(part)
    <3>1. (k + 1) + 1 \in 1 .. Len(parts) /\ ((k + 1) + 1) - 1 = k + 1
      BY <1>3, <1>13
    <3>2. IsMark(parts[(k + 1) + 1]) => ~ IsMark(parts[((k + 1) + 1) - 1])
      BY <3>1 DEF Plain
    <3>3. QED
      BY <3>1, <3>2, <1>2, <1>13
  <2>4. s[p + 1] \notin Delimiter
    <3>1. CASE p + 1 = d
      BY <3>1, <2>3, <1>4 DEF IsMark
    <3>2. CASE p + 1 # d
      <4>1. p + 1 \in p + 1 .. b
        BY <3>2, <1>4, <1>7, <1>8, <1>9
      <4>2. s[p + 1] = Blank
        BY <4>1, <1>7
      <4>3. QED
        BY <4>2 DEF Delimiter, Blank
    <3>3. QED
      BY <3>1, <3>2
  <2>5. q < f
    <3>1. ASSUME f <= q PROVE FALSE
      <4>1. f \in e + 1 .. q
        BY <3>1, <2>2, <1>10
      <4>2. s[f] = Blank
        BY <4>1, <1>7
      <4>3. parts[(k + 1) + 1][1] # Blank
        BY <1>3, <1>13, PartsAreLetters
      <4>4. QED
        BY <4>2, <4>3, <2>2
    <3>2. QED
      BY <3>1, <2>2
  <2>6. s[q + 1] # Blank
    BY <2>2, <2>4, <2>5, <1>4, <1>7
  <2>7. ASSUME q # f - 1 PROVE FALSE
    <3>1. q + 1 \in d + 1 .. f - 1
      BY <2>7, <2>2, <2>5, <1>7, <1>10
    <3>2. QED
      BY <3>1, <2>2, <2>6
  <2>8. QED
    BY <2>1, <2>7
<1>14. QED
  BY <1>1, <1>2, <1>11, <1>12, <1>13 DEF Place

\* What k calls have read of such a line: its first k parts.
Reaches(C, s, parts, o, w, k) ==
  /\ w.tokens \in Seq(Seq(C)) /\ Len(w.tokens) = k
  /\ \A i \in 1 .. k : w.tokens[i] = parts[i]
  /\ \E p \in Nat : w.rest = Rest(s, p) /\ Place(s, parts, o, k, p)

LEMMA PartIsRead ==
  ASSUME NEW C, NEW s \in Seq(C), NEW parts, Plain(C, parts), NEW gaps \in Gaps(parts),
         NEW o, LaidOut(s, parts, gaps, o), NEW k \in Nat, k < Len(parts),
         NEW w, Reaches(C, s, parts, o, w, k)
  PROVE  Reaches(C, s, parts, o, ReadToken(w), k + 1)
<1>1. PICK p \in Nat : w.rest = Rest(s, p) /\ Place(s, parts, o, k, p)
  BY DEF Reaches
<1>2. PICK next, toks, v : next = GetNextToken(Rest(s, p)) /\ toks = w.tokens /\ v = ReadToken(w)
  OBVIOUS
<1>3. /\ toks \in Seq(Seq(C)) /\ Len(toks) = k /\ \A i \in 1 .. k : toks[i] = parts[i]
  BY <1>2 DEF Reaches
<1>4. v = IF next.token = NULL THEN w
          ELSE [tokens |-> Append(toks, next.token), rest |-> next.rest]
  BY <1>1, <1>2 DEF ReadToken
<1>5. Len(parts) \in Nat /\ p \in 0 .. Len(s) /\ k + 1 \in 1 .. Len(parts)
  <2>1. Len(parts) \in Nat /\ Len(s) \in Nat
    BY DEF Plain
  <2>2. p <= Len(s)
    BY <1>1 DEF Place
  <2>3. QED
    BY <2>1, <2>2
<1>6. next.token # NULL
  <2>1. ASSUME Blanks(s, p, Len(s)) PROVE FALSE
    <3>1. PICK d, l : d = o[k + 1] /\ l = Len(s)
      OBVIOUS
    <3>2. d \in Nat /\ l \in Nat /\ d < l /\ o[k] \in Nat /\ o[k] < d /\ s[d] = parts[k + 1][1]
      <4>1. Between(s, parts, gaps, o, k)
        BY <1>5, BetweenParts
      <4>2. QED
        BY <3>1, <4>1 DEF Between
    <3>3. s[d] # Blank
      BY <3>2, <1>5, PartsAreLetters
    <3>4. o[k] <= p /\ Blanks(s, o[k], p)
      BY <1>1 DEF Place
    <3>5. d \in o[k] + 1 .. p \/ d \in p + 1 .. l
      BY <3>2
    <3>6. QED
      BY <3>1, <3>3, <3>4, <3>5, <2>1 DEF Blanks
  <2>2. QED
    BY <2>1, <1>2, <1>5, GetNextTokenSays
<1>7. PICK b \in Nat, e \in Nat, q \in Nat :
        IsToken(s, p, b, e, q, next.token) /\ next.rest = Rest(s, q)
  BY <1>2, <1>5, <1>6, GetNextTokenSays
<1>8. PICK t, r : t = next.token /\ r = next.rest
  OBVIOUS
<1>9. t = parts[k + 1] /\ Place(s, parts, o, k + 1, q)
  <2>1. IsToken(s, p, b, e, q, t)
    BY <1>7, <1>8
  <2>2. QED
    BY <2>1, <1>1, NextPlace
<1>10. t \in Seq(C)
  BY <1>5, <1>9, PartsAreLetters
<1>11. v.tokens = Append(toks, t) /\ v.rest = r
  <2>1. PICK new : new = Append(toks, t)
    OBVIOUS
  <2>2. v = [tokens |-> new, rest |-> r]
    BY <2>1, <1>4, <1>6, <1>8
  <2>3. QED
    BY <2>1, <2>2
<1>12. /\ v.tokens \in Seq(Seq(C)) /\ Len(v.tokens) = k + 1
       /\ \A i \in 1 .. k : v.tokens[i] = toks[i]
       /\ v.tokens[k + 1] = t
  BY <1>3, <1>10, <1>11, AppendProperties
<1>13. ASSUME NEW i \in 1 .. k + 1 PROVE v.tokens[i] = parts[i]
  <2>1. i = k + 1 \/ i \in 1 .. k
    OBVIOUS
  <2>2. QED
    BY <2>1, <1>3, <1>9, <1>12
<1>14. v.rest = Rest(s, q)
  BY <1>7, <1>8, <1>11
<1>15. QED
  BY <1>2, <1>9, <1>12, <1>13, <1>14 DEF Reaches

\* Behind the last part there are blanks only.
LEMMA NothingIsLeft ==
  ASSUME NEW C, NEW s \in Seq(C), NEW parts, Plain(C, parts), NEW gaps,
         NEW o, LaidOut(s, parts, gaps, o), NEW w, Reaches(C, s, parts, o, w, Len(parts))
  PROVE  ReadToken(w) = w
<1>1. PICK n, l : n = Len(parts) /\ l = Len(s)
  OBVIOUS
<1>2. PICK p \in Nat : w.rest = Rest(s, p) /\ Place(s, parts, o, n, p)
  BY <1>1 DEF Reaches
<1>3. n \in Nat /\ l \in Nat /\ o[n] \in Nat /\ l = o[n] + 1 /\ s[l] = Blank
  <2>1. n \in Nat /\ l \in Nat
    BY <1>1 DEF Plain
  <2>2. n \in 0 .. n
    BY <2>1
  <2>3. QED
    BY <2>1, <2>2, <1>1 DEF LaidOut
<1>4. o[n] <= p /\ p <= l
  BY <1>1, <1>2 DEF Place
<1>5. \A i \in p + 1 .. l : s[i] = Blank
  <2>1. ASSUME NEW i \in p + 1 .. l PROVE s[i] = Blank
    <3>1. i = l
      BY <1>3, <1>4
    <3>2. QED
      BY <3>1, <1>3
  <2>2. QED
    BY <2>1
<1>6. PICK next : next = GetNextToken(Rest(s, p))
  OBVIOUS
<1>7. p \in 0 .. Len(s)
  BY <1>1, <1>3, <1>4
<1>8. ASSUME NEW b \in Nat, NEW e \in Nat, NEW q \in Nat, NEW t, IsToken(s, p, b, e, q, t)
      PROVE  FALSE
  <2>1. p <= b /\ b < e /\ e <= q /\ q <= l /\ s[b + 1] # Blank
    BY <1>1, <1>8 DEF IsToken
  <2>2. b + 1 \in p + 1 .. l
    BY <2>1, <1>3
  <2>3. QED
    BY <2>1, <2>2, <1>5
<1>9. next.token = NULL
  BY <1>6, <1>7, <1>8, GetNextTokenSays
<1>10. QED
  BY <1>2, <1>6, <1>9 DEF ReadToken

LEMMA CommandIsRead ==
  ASSUME NEW C, NEW parts, Plain(C, parts), NEW gaps \in Gaps(parts)
  PROVE  Tokens(Written(parts, gaps)) = parts
<1>1. PICK s, n, l : s = Written(parts, gaps) /\ n = Len(parts) /\ l = Len(s)
  OBVIOUS
<1>2. gaps \in [DOMAIN parts -> BOOLEAN]
  BY DEF Gaps
<1>3. s \in Seq(C) /\ \E o : LaidOut(s, parts, gaps, o)
  BY <1>1, <1>2, WrittenIsLaidOut
<1>4. PICK o : LaidOut(s, parts, gaps, o)
  BY <1>3
<1>5. n \in Nat /\ parts \in Seq(Seq(C)) /\ l \in Nat
  BY <1>1, <1>3 DEF Plain
<1>6. n <= l
  <2>1. n <= o[n]
    <3>1. Len(parts) \in Nat /\ n <= Len(parts)
      BY <1>1, <1>5
    <3>2. \A k \in Nat : k <= Len(parts) => k <= o[k]
      BY <3>1, <1>4, PartsEndLate
    <3>3. QED
      BY <3>1, <3>2, <1>5
  <2>2. o[n] \in Nat /\ l = o[n] + 1
    <3>1. n \in 0 .. n
      BY <1>5
    <3>2. QED
      BY <3>1, <1>1, <1>4 DEF LaidOut
  <2>3. QED
    BY <2>1, <2>2, <1>5
<1>7. PICK g : /\ g[0] = [tokens |-> <<>>, rest |-> s]
               /\ \A k \in Nat : k < Len(s) => g[k + 1] = ReadToken(g[k])
               /\ Tokens(s) = g[Len(s)].tokens
  BY <1>1, <1>5, TokensAreRead
<1> DEFINE S == {k \in Nat : k <= l => /\ k <= n => Reaches(C, s, parts, o, g[k], k)
                                       /\ n <= k => Reaches(C, s, parts, o, g[k], n)}
<1>8. Reaches(C, s, parts, o, g[0], 0)
  <2>1. PICK w, none : none = <<>> /\ w = [tokens |-> none, rest |-> s]
    OBVIOUS
  <2>2. w.tokens = none /\ w.rest = s
    BY <2>1
  <2>3. none \in Seq(Seq(C)) /\ Len(none) = 0
    BY <2>1, EmptySeq
  <2>4. Rest(s, 0) = s
    BY <1>3, SubSeqFull DEF Rest
  <2>5. Place(s, parts, o, 0, 0)
    <3>1. o[0] = 0
      BY <1>4 DEF LaidOut
    <3>2. Blanks(s, 0, 0)
      BY DEF Blanks
    <3>3. ASSUME 0 < n, IsMark(parts[0 + 1]) PROVE 0 = o[0 + 1] - 1
      <4>1. 1 \in 1 .. Len(parts) /\ 0 + 1 = 1
        BY <3>3, <1>1, <1>5
      <4>2. IsMark(parts[1]) => 1 > 1
        BY <4>1 DEF Plain
      <4>3. QED
        BY <4>1, <4>2, <3>3
    <3>4. 0 <= Len(s) /\ 0 <= 0
      BY <1>1, <1>5
    <3>5. QED
      BY <3>1, <3>2, <3>3, <3>4, <1>1 DEF Place
  <2>6. Reaches(C, s, parts, o, w, 0)
    BY <2>2, <2>3, <2>4, <2>5 DEF Reaches
  <2>7. QED
    BY <2>1, <2>6, <1>7
<1>9. 0 \in S
  <2>1. n <= 0 => n = 0
    BY <1>5
  <2>2. QED
    BY <2>1, <1>8
<1>10. ASSUME NEW k \in Nat, k \in S PROVE k + 1 \in S
  <2>1. CASE k + 1 <= l
    <3>1. k < Len(s) /\ k <= l
      BY <2>1, <1>1, <1>5
    <3>2. g[k + 1] = ReadToken(g[k])
      BY <3>1, <1>7
    <3>3. CASE k < n
      <4>1. Reaches(C, s, parts, o, g[k], k) /\ k < Len(parts)
        BY <3>1, <3>3, <1>1, <1>5, <1>10
      <4>2. Reaches(C, s, parts, o, g[k + 1], k + 1)
        BY <4>1, <3>2, <1>3, <1>4, PartIsRead
      <4>3. n <= k + 1 => n = k + 1
        BY <3>3, <1>5
      <4>4. QED
        BY <4>2, <4>3
    <3>4. CASE n <= k
      <4>1. Reaches(C, s, parts, o, g[k], n)
        BY <3>1, <3>4, <1>10
      <4>2. g[k + 1] = g[k]
        BY <4>1, <3>2, <1>1, <1>3, <1>4, NothingIsLeft
      <4>3. ~ (k + 1 <= n)
        BY <3>4, <1>5
      <4>4. QED
        BY <4>1, <4>2, <4>3
    <3>5. QED
      BY <3>3, <3>4, <1>5
  <2>2. QED
    BY <2>1
<1>11. Nat \subseteq S
  <2> HIDE DEF S
  <2>1. QED
    BY <1>9, <1>10, NumbersInduction
<1>12. Reaches(C, s, parts, o, g[l], n)
  <2>1. l \in S /\ l <= l
    BY <1>5, <1>11
  <2>2. QED
    BY <2>1, <1>6
<1>13. PICK toks : toks = g[l].tokens
  OBVIOUS
<1>14. toks \in Seq(Seq(C)) /\ Len(toks) = n /\ \A i \in 1 .. n : toks[i] = parts[i]
  BY <1>12, <1>13 DEF Reaches
<1>15. toks = parts
  BY <1>1, <1>5, <1>14, SeqEqual
<1>16. QED
  BY <1>1, <1>7, <1>13, <1>15

-------------------------------------------------------------------------------
(* The parts of a command.                                                   *)

Char == Letter \cup Delimiter \cup {Blank, "nice", "1", "x", "y", "z"}

Joins(z, x, y) ==
  /\ Len(z) = Len(x) + Len(y)
  /\ \A i \in 1 .. Len(x) : z[i] = x[i]
  /\ \A i \in 1 .. Len(y) : z[Len(x) + i] = y[i]

LEMMA JoinSays ==
  ASSUME NEW C, NEW x \in Seq(C), NEW y \in Seq(C)
  PROVE  x \o y \in Seq(C) /\ Joins(x \o y, x, y)
<1>1. PICK z, a, b : z = x \o y /\ a = Len(x) /\ b = Len(y)
  OBVIOUS
<1>2. /\ z \in Seq(C) /\ Len(z) = a + b /\ a \in Nat /\ b \in Nat
      /\ \A i \in 1 .. a + b : z[i] = IF i <= a THEN x[i] ELSE y[i - a]
  BY <1>1, ConcatProperties
<1>3. \A i \in 1 .. a : z[i] = x[i]
  BY <1>2
<1>4. ASSUME NEW i \in 1 .. b PROVE z[a + i] = y[i]
  <2>1. a + i \in 1 .. a + b /\ ~ (a + i <= a) /\ (a + i) - a = i
    BY <1>2
  <2>2. QED
    BY <2>1, <1>2
<1>5. QED
  BY <1>1, <1>2, <1>3, <1>4 DEF Joins

\* A mark and its file, if there is one.
Redirection(mark, file) == IF file = NULL THEN <<>> ELSE << <<mark>>, file >>

\* The files of a command, in the order written.
FileParts(c) ==
  IF c.outFirst THEN Redirection(">", c.out) \o Redirection("<", c.in)
  ELSE Redirection("<", c.in) \o Redirection(">", c.out)

LEMMA RedirectionSays ==
  ASSUME NEW mark \in Delimiter, NEW file \in {NULL, <<"y">>, <<"z">>},
         NEW r, r = Redirection(mark, file)
  PROVE  /\ r \in Seq(Seq(Char))
         /\ Len(r) = IF file = NULL THEN 0 ELSE 2
         /\ file # NULL => r[1] = <<mark>> /\ r[2] = file
<1>1. CASE file = NULL
  BY <1>1 DEF Redirection
<1>2. CASE file # NULL
  <2>1. file \in Seq(Char) /\ <<mark>> \in Seq(Char)
    <3>1. mark \in Char /\ "y" \in Char /\ "z" \in Char
      BY DEF Char
    <3>2. <<"y">> \in Seq(Char) /\ <<"z">> \in Seq(Char) /\ <<mark>> \in Seq(Char)
      BY <3>1
    <3>3. file = <<"y">> \/ file = <<"z">>
      BY <1>2
    <3>4. QED
      BY <3>2, <3>3
  <2>2. PICK m : m = <<mark>>
    OBVIOUS
  <2>3. r = <<m, file>>
    BY <2>2, <1>2 DEF Redirection
  <2>4. r \in Seq(Seq(Char)) /\ Len(r) = 2 /\ r[1] = m /\ r[2] = file
    BY <2>1, <2>2, <2>3
  <2>5. QED
    BY <2>2, <2>4, <1>2
<1>3. QED
  BY <1>1, <1>2

\* The files behind the part f of parts, which end with part e.
FilesAt(c, parts, f, e) ==
  /\ c.in = NULL /\ c.out = NULL => e = f
  /\ c.in # NULL /\ c.out = NULL =>
       e = f + 2 /\ parts[f + 1] = <<"<">> /\ parts[f + 2] = c.in
  /\ c.in = NULL /\ c.out # NULL =>
       e = f + 2 /\ parts[f + 1] = <<">">> /\ parts[f + 2] = c.out
  /\ c.in # NULL /\ c.out # NULL /\ ~ c.outFirst =>
       /\ e = f + 4 /\ parts[f + 1] = <<"<">> /\ parts[f + 2] = c.in
       /\ parts[f + 3] = <<">">> /\ parts[f + 4] = c.out
  /\ c.in # NULL /\ c.out # NULL /\ c.outFirst =>
       /\ e = f + 4 /\ parts[f + 1] = <<">">> /\ parts[f + 2] = c.out
       /\ parts[f + 3] = <<"<">> /\ parts[f + 4] = c.in

LEMMA FilePartsSay ==
  ASSUME NEW c \in Command
  PROVE  /\ FileParts(c) \in Seq(Seq(Char))
         /\ FilesAt(c, FileParts(c), 0, Len(FileParts(c)))
<1>1. PICK x, y, z : /\ x = Redirection("<", c.in) /\ y = Redirection(">", c.out)
                     /\ z = FileParts(c)
  OBVIOUS
<1>2. c.in \in {NULL, <<"y">>} /\ c.out \in {NULL, <<"z">>} /\ c.outFirst \in BOOLEAN
  BY DEF Command
<1>3. /\ x \in Seq(Seq(Char)) /\ Len(x) = (IF c.in = NULL THEN 0 ELSE 2)
      /\ c.in # NULL => x[1] = <<"<">> /\ x[2] = c.in
  <2>1. "<" \in Delimiter
    BY DEF Delimiter
  <2>2. QED
    BY <2>1, <1>1, <1>2, RedirectionSays
<1>4. /\ y \in Seq(Seq(Char)) /\ Len(y) = (IF c.out = NULL THEN 0 ELSE 2)
      /\ c.out # NULL => y[1] = <<">">> /\ y[2] = c.out
  <2>1. ">" \in Delimiter
    BY DEF Delimiter
  <2>2. QED
    BY <2>1, <1>1, <1>2, RedirectionSays
<1>5. CASE c.outFirst
  <2>1. z = y \o x
    BY <1>1, <1>5 DEF FileParts
  <2>2. z \in Seq(Seq(Char)) /\ Joins(z, y, x)
    BY <2>1, <1>3, <1>4, JoinSays
  <2>3. FilesAt(c, z, 0, Len(z))
    BY <2>2, <1>3, <1>4, <1>5 DEF Joins, FilesAt
  <2>4. QED
    BY <2>2, <2>3, <1>1
<1>6. CASE ~ c.outFirst
  <2>1. z = x \o y
    BY <1>1, <1>6 DEF FileParts
  <2>2. z \in Seq(Seq(Char)) /\ Joins(z, x, y)
    BY <2>1, <1>3, <1>4, JoinSays
  <2>3. FilesAt(c, z, 0, Len(z))
    BY <2>2, <1>3, <1>4, <1>6 DEF Joins, FilesAt
  <2>4. QED
    BY <2>2, <2>3, <1>1
<1>7. QED
  BY <1>5, <1>6

LEMMA FilesBehind ==
  ASSUME NEW c, NEW files, Len(files) \in Nat, FilesAt(c, files, 0, Len(files)),
         NEW parts, NEW f \in Nat, \A i \in 1 .. Len(files) : parts[f + i] = files[i]
  PROVE  FilesAt(c, parts, f, f + Len(files))
<1>1. PICK n, in, out : n = Len(files) /\ in = c.in /\ out = c.out
  OBVIOUS
<1>2. \A i \in 1 .. n : parts[f + i] = files[i]
  BY <1>1
<1>3. CASE in = NULL /\ out = NULL
  BY <1>1, <1>3 DEF FilesAt
<1>4. CASE in # NULL /\ out = NULL
  <2>1. n = 2 /\ files[1] = <<"<">> /\ files[2] = in
    BY <1>1, <1>4 DEF FilesAt
  <2>2. parts[f + 1] = files[1] /\ parts[f + 2] = files[2]
    BY <2>1, <1>2
  <2>3. QED
    BY <2>1, <2>2, <1>1, <1>4 DEF FilesAt
<1>5. CASE in = NULL /\ out # NULL
  <2>1. n = 2 /\ files[1] = <<">">> /\ files[2] = out
    BY <1>1, <1>5 DEF FilesAt
  <2>2. parts[f + 1] = files[1] /\ parts[f + 2] = files[2]
    BY <2>1, <1>2
  <2>3. QED
    BY <2>1, <2>2, <1>1, <1>5 DEF FilesAt
<1>6. CASE in # NULL /\ out # NULL /\ ~ c.outFirst
  <2>1. /\ n = 4 /\ files[1] = <<"<">> /\ files[2] = in
        /\ files[3] = <<">">> /\ files[4] = out
    BY <1>1, <1>6 DEF FilesAt
  <2>2. /\ parts[f + 1] = files[1] /\ parts[f + 2] = files[2]
        /\ parts[f + 3] = files[3] /\ parts[f + 4] = files[4]
    BY <2>1, <1>2
  <2>3. QED
    BY <2>1, <2>2, <1>1, <1>6 DEF FilesAt
<1>7. CASE in # NULL /\ out # NULL /\ c.outFirst
  <2>1. /\ n = 4 /\ files[1] = <<">">> /\ files[2] = out
        /\ files[3] = <<"<">> /\ files[4] = in
    BY <1>1, <1>7 DEF FilesAt
  <2>2. /\ parts[f + 1] = files[1] /\ parts[f + 2] = files[2]
        /\ parts[f + 3] = files[3] /\ parts[f + 4] = files[4]
    BY <2>1, <1>2
  <2>3. QED
    BY <2>1, <2>2, <1>1, <1>7 DEF FilesAt
<1>8. QED
  BY <1>3, <1>4, <1>5, <1>6, <1>7

\* Where the parts are: the name at a, the files behind f, the last of them at e.
PartsAt(c, parts, a, f, e) ==
  /\ a = IF c.nice THEN 3 ELSE 1
  /\ c.nice => parts[1] = <<"nice">> /\ parts[2] = <<"1">>
  /\ parts[a] = <<c.name>>
  /\ f = IF c.arg = NULL THEN a ELSE a + 1
  /\ c.arg # NULL => parts[f] = c.arg
  /\ e \in Nat /\ FilesAt(c, parts, f, e)
  /\ Len(parts) = IF c.background THEN e + 1 ELSE e
  /\ c.background => parts[e + 1] = <<"&">>

LEMMA PartsSay ==
  ASSUME NEW c \in Command
  PROVE  /\ Parts(c) \in Seq(Seq(Char))
         /\ \E a, f, e : PartsAt(c, Parts(c), a, f, e)
<1> DEFINE Q == Seq(Seq(Char))
<1>1. PICK nice, name, arg, files, back :
        /\ nice = (IF c.nice THEN << <<"nice">>, <<"1">> >> ELSE <<>>)
        /\ name = << <<c.name>> >>
        /\ arg = (IF c.arg = NULL THEN <<>> ELSE << c.arg >>)
        /\ files = FileParts(c)
        /\ back = (IF c.background THEN << <<"&">> >> ELSE <<>>)
  OBVIOUS
<1>2. /\ c.nice \in BOOLEAN /\ c.name \in Char /\ c.arg \in {NULL, <<"x">>}
      /\ c.background \in BOOLEAN
  BY LineAssumption DEF Command, Char
<1>3. /\ nice \in Q /\ Len(nice) = (IF c.nice THEN 2 ELSE 0)
      /\ c.nice => nice[1] = <<"nice">> /\ nice[2] = <<"1">>
  <2>1. <<"nice">> \in Seq(Char) /\ <<"1">> \in Seq(Char)
    BY DEF Char
  <2>2. PICK u, v : u = <<"nice">> /\ v = <<"1">>
    OBVIOUS
  <2>3. <<u, v>> \in Q /\ Len(<<u, v>>) = 2 /\ <<u, v>>[1] = u /\ <<u, v>>[2] = v
    BY <2>1, <2>2
  <2>4. CASE c.nice
    BY <2>2, <2>3, <2>4, <1>1
  <2>5. CASE ~ c.nice
    BY <2>5, <1>1
  <2>6. QED
    BY <2>4, <2>5
<1>4. name \in Q /\ Len(name) = 1 /\ name[1] = <<c.name>>
  <2>1. PICK u : u = <<c.name>>
    OBVIOUS
  <2>2. u \in Seq(Char)
    BY <2>1, <1>2
  <2>3. name = <<u>>
    BY <2>1, <1>1
  <2>4. QED
    BY <2>1, <2>2, <2>3
<1>5. /\ arg \in Q /\ Len(arg) = (IF c.arg = NULL THEN 0 ELSE 1)
      /\ c.arg # NULL => arg[1] = c.arg
  <2>1. CASE c.arg = NULL
    BY <2>1, <1>1
  <2>2. CASE c.arg # NULL
    <3>1. c.arg \in Seq(Char)
      <4>1. "x" \in Char
        BY DEF Char
      <4>2. <<"x">> \in Seq(Char)
        BY <4>1
      <4>3. c.arg = <<"x">>
        BY <2>2, <1>2
      <4>4. QED
        BY <4>2, <4>3
    <3>2. PICK u : u = c.arg
      OBVIOUS
    <3>3. arg = <<u>>
      BY <3>2, <2>2, <1>1
    <3>4. QED
      BY <3>1, <3>2, <3>3, <2>2
  <2>3. QED
    BY <2>1, <2>2
<1>6. files \in Q /\ FilesAt(c, files, 0, Len(files))
  BY <1>1, FilePartsSay
<1>7. /\ back \in Q /\ Len(back) = (IF c.background THEN 1 ELSE 0)
      /\ c.background => back[1] = <<"&">>
  <2>1. PICK u : u = <<"&">>
    OBVIOUS
  <2>2. u \in Seq(Char)
    BY <2>1 DEF Char, Delimiter
  <2>3. CASE c.background
    <3>1. back = <<u>>
      BY <2>1, <2>3, <1>1
    <3>2. QED
      BY <2>1, <2>2, <2>3, <3>1
  <2>4. CASE ~ c.background
    BY <2>4, <1>1
  <2>5. QED
    BY <2>3, <2>4
<1>8. PICK x2, x3, x4, x5 : /\ x2 = nice \o name /\ x3 = x2 \o arg
                            /\ x4 = x3 \o files /\ x5 = x4 \o back
  OBVIOUS
<1>9. Parts(c) = x5
  BY <1>1, <1>8 DEF Parts, FileParts, Redirection
<1>10. x2 \in Q /\ Joins(x2, nice, name)
  BY <1>3, <1>4, <1>8, JoinSays
<1>11. x3 \in Q /\ Joins(x3, x2, arg)
  BY <1>5, <1>8, <1>10, JoinSays
<1>12. x4 \in Q /\ Joins(x4, x3, files)
  BY <1>6, <1>8, <1>11, JoinSays
<1>13. x5 \in Q /\ Joins(x5, x4, back)
  BY <1>7, <1>8, <1>12, JoinSays
<1>14. PICK a, f, e : a = Len(x2) /\ f = Len(x3) /\ e = Len(x4)
  OBVIOUS
<1>15. /\ a = (IF c.nice THEN 3 ELSE 1) /\ a \in Nat
       /\ f = (IF c.arg = NULL THEN a ELSE a + 1) /\ f \in Nat /\ a <= f
  BY <1>3, <1>4, <1>5, <1>10, <1>11, <1>14 DEF Joins
<1>16. e = f + Len(files) /\ Len(files) \in Nat /\ e \in Nat /\ f <= e
  BY <1>6, <1>12, <1>14, <1>15 DEF Joins
<1>17. Len(x5) = (IF c.background THEN e + 1 ELSE e)
  BY <1>7, <1>13, <1>14, <1>16 DEF Joins
<1>18. /\ \A i \in 1 .. e : x5[i] = x4[i]
       /\ \A i \in 1 .. f : x4[i] = x3[i]
       /\ \A i \in 1 .. a : x3[i] = x2[i]
  BY <1>11, <1>12, <1>13, <1>14 DEF Joins
<1>19. \A i \in 1 .. a : x5[i] = x2[i]
  BY <1>15, <1>16, <1>18
<1>20. x5[a] = <<c.name>> /\ (c.nice => x5[1] = <<"nice">> /\ x5[2] = <<"1">>)
  <2>1. x2[a] = <<c.name>>
    BY <1>4, <1>10, <1>14 DEF Joins
  <2>2. c.nice => x2[1] = <<"nice">> /\ x2[2] = <<"1">>
    BY <1>3, <1>10 DEF Joins
  <2>3. QED
    BY <2>1, <2>2, <1>15, <1>19
<1>21. c.arg # NULL => x5[f] = c.arg
  <2>1. ASSUME c.arg # NULL PROVE x5[f] = c.arg
    <3>1. f = a + 1 /\ 1 \in 1 .. Len(arg) /\ arg[1] = c.arg
      BY <2>1, <1>5, <1>15
    <3>2. x3[f] = c.arg
      BY <3>1, <1>11, <1>14 DEF Joins
    <3>3. f \in 1 .. e /\ f \in 1 .. f
      BY <3>1, <1>15, <1>16
    <3>4. QED
      BY <3>2, <3>3, <1>18
  <2>2. QED
    BY <2>1
<1>22. c.background => x5[e + 1] = <<"&">>
  BY <1>7, <1>13, <1>14 DEF Joins
<1>23. \A i \in 1 .. Len(files) : x5[f + i] = files[i]
  <2>1. ASSUME NEW i \in 1 .. Len(files) PROVE x5[f + i] = files[i]
    <3>1. f + i \in 1 .. e
      BY <1>15, <1>16
    <3>2. x4[f + i] = files[i]
      BY <1>12, <1>14 DEF Joins
    <3>3. QED
      BY <3>1, <3>2, <1>18
  <2>2. QED
    BY <2>1
<1>24. FilesAt(c, x5, f, e)
  BY <1>6, <1>15, <1>16, <1>23, FilesBehind
<1>25. PartsAt(c, x5, a, f, e)
  BY <1>15, <1>16, <1>17, <1>20, <1>21, <1>22, <1>24 DEF PartsAt
<1>26. QED
  BY <1>9, <1>13, <1>25

IsLetter(t) == Len(t) = 1 /\ t[1] # Blank /\ t[1] \notin Delimiter
IsSign(t) == Len(t) = 1 /\ t[1] # Blank /\ t[1] \in Delimiter

\* Up to part f there are words, then up to part e marks and files by turns.
Turns(c, parts, f, e) ==
  /\ f \in Nat \ {0} /\ e \in {f, f + 2, f + 4}
  /\ Len(parts) = IF c.background THEN e + 1 ELSE e
  /\ \A k \in 1 .. f : IsLetter(parts[k])
  /\ f + 2 <= e => IsSign(parts[f + 1]) /\ IsLetter(parts[f + 2])
  /\ f + 4 <= e => IsSign(parts[f + 3]) /\ IsLetter(parts[f + 4])
  /\ c.background => IsSign(parts[e + 1])

LEMMA PartsTakeTurns ==
  ASSUME NEW c \in Command, NEW parts, NEW a, NEW f, NEW e, PartsAt(c, parts, a, f, e)
  PROVE  Turns(c, parts, f, e)
<1>1. PICK in, out, arg : in = c.in /\ out = c.out /\ arg = c.arg
  OBVIOUS
<1>2. /\ c.nice \in BOOLEAN /\ c.name \in Letter /\ arg \in {NULL, <<"x">>}
      /\ in \in {NULL, <<"y">>} /\ out \in {NULL, <<"z">>}
      /\ c.background \in BOOLEAN /\ c.outFirst \in BOOLEAN
  BY <1>1, LineAssumption DEF Command
<1>3. /\ IsLetter(<<"nice">>) /\ IsLetter(<<"1">>) /\ IsLetter(<<"x">>) /\ IsLetter(<<"y">>)
      /\ IsLetter(<<"z">>)
  BY DEF IsLetter, Blank, Delimiter
<1>4. IsLetter(<<c.name>>)
  <2>1. PICK x : x = c.name
    OBVIOUS
  <2>2. x \notin Delimiter \cup {Blank}
    BY <2>1, <1>2, LineAssumption
  <2>3. IsLetter(<<x>>)
    BY <2>2 DEF IsLetter
  <2>4. QED
    BY <2>1, <2>3
<1>5. IsSign(<<"<">>) /\ IsSign(<<">">>) /\ IsSign(<<"&">>)
  BY DEF IsSign, Blank, Delimiter
<1>6. /\ a = (IF c.nice THEN 3 ELSE 1)
      /\ c.nice => parts[1] = <<"nice">> /\ parts[2] = <<"1">>
      /\ parts[a] = <<c.name>>
      /\ f = IF arg = NULL THEN a ELSE a + 1
      /\ arg # NULL => parts[f] = arg
  BY <1>1 DEF PartsAt
<1>7. /\ Len(parts) = (IF c.background THEN e + 1 ELSE e)
      /\ c.background => parts[e + 1] = <<"&">>
  BY DEF PartsAt
<1>8. a \in {1, 3} /\ f \in Nat \ {0}
  BY <1>2, <1>6
<1>9. \A k \in 1 .. f : IsLetter(parts[k])
  <2>1. ASSUME NEW k \in 1 .. f PROVE IsLetter(parts[k])
    <3>1. arg # NULL => parts[f] = <<"x">>
      BY <1>2, <1>6
    <3>2. \/ c.nice /\ (k = 1 \/ k = 2)
          \/ k = a
          \/ arg # NULL /\ k = f
      BY <1>6
    <3>3. QED
      BY <3>1, <3>2, <1>3, <1>4, <1>6
  <2>2. QED
    BY <2>1
<1>10. FilesAt(c, parts, f, e)
  BY DEF PartsAt
<1>11. /\ e \in {f, f + 2, f + 4}
       /\ f + 2 <= e => IsSign(parts[f + 1]) /\ IsLetter(parts[f + 2])
       /\ f + 4 <= e => IsSign(parts[f + 3]) /\ IsLetter(parts[f + 4])
  <2>1. (in # NULL => IsLetter(in)) /\ (out # NULL => IsLetter(out))
    BY <1>2, <1>3
  <2>2. CASE in = NULL /\ out = NULL
    BY <2>2, <1>1, <1>8, <1>10 DEF FilesAt
  <2>3. CASE in # NULL /\ out = NULL
    <3>1. e = f + 2 /\ parts[f + 1] = <<"<">> /\ parts[f + 2] = in
      BY <2>3, <1>1, <1>10 DEF FilesAt
    <3>2. QED
      BY <3>1, <2>1, <2>3, <1>5, <1>8
  <2>4. CASE in = NULL /\ out # NULL
    <3>1. e = f + 2 /\ parts[f + 1] = <<">">> /\ parts[f + 2] = out
      BY <2>4, <1>1, <1>10 DEF FilesAt
    <3>2. QED
      BY <3>1, <2>1, <2>4, <1>5, <1>8
  <2>5. CASE in # NULL /\ out # NULL
    <3>1. /\ e = f + 4
          /\ parts[f + 1] \in {<<"<">>, <<">">>} /\ parts[f + 2] \in {in, out}
          /\ parts[f + 3] \in {<<"<">>, <<">">>} /\ parts[f + 4] \in {in, out}
      BY <2>5, <1>1, <1>2, <1>10 DEF FilesAt
    <3>2. QED
      BY <3>1, <2>1, <2>5, <1>5, <1>8
  <2>6. QED
    BY <2>2, <2>3, <2>4, <2>5
<1>12. QED
  BY <1>5, <1>7, <1>8, <1>9, <1>11 DEF Turns

\* Each part is a word or a mark, and behind a mark there is a word.
LEMMA PartsInTurn ==
  ASSUME NEW c, NEW parts, NEW f, NEW e, Turns(c, parts, f, e),
         NEW k \in 1 .. Len(parts)
  PROVE  \/ IsLetter(parts[k])
         \/ IsSign(parts[k]) /\ k > 1 /\ IsLetter(parts[k - 1]) /\ k \in {f + 1, f + 3, e + 1}
<1>1. PICK n : n = Len(parts)
  OBVIOUS
<1>2. /\ f \in Nat \ {0} /\ e \in Nat /\ f <= e
      /\ n = IF c.background THEN e + 1 ELSE e
  BY <1>1 DEF Turns
<1>3. CASE k <= f
  BY <1>2, <1>3 DEF Turns
<1>4. CASE k > f
  <2>1. CASE e = f
    <3>1. k = f + 1 /\ k = e + 1 /\ c.background /\ k - 1 \in 1 .. f /\ k > 1
      BY <1>1, <1>2, <1>4, <2>1
    <3>2. IsSign(parts[k]) /\ IsLetter(parts[k - 1])
      BY <3>1 DEF Turns
    <3>3. QED
      BY <3>1, <3>2
  <2>2. CASE e = f + 2
    <3>1. /\ IsSign(parts[f + 1]) /\ IsLetter(parts[f + 2]) /\ IsLetter(parts[f])
          /\ c.background => IsSign(parts[e + 1])
      BY <2>2, <1>2 DEF Turns
    <3>2. CASE k = f + 1
      BY <3>1, <3>2, <1>2
    <3>3. CASE k = f + 2
      BY <3>1, <3>3
    <3>4. CASE k = e + 1
      <4>1. c.background /\ k - 1 = f + 2 /\ k > 1
        BY <3>4, <2>2, <1>1, <1>2
      <4>2. QED
        BY <3>1, <3>4, <4>1
    <3>5. QED
      BY <3>2, <3>3, <3>4, <2>2, <1>1, <1>2, <1>4
  <2>3. CASE e = f + 4
    <3>1. /\ IsSign(parts[f + 1]) /\ IsLetter(parts[f + 2]) /\ IsLetter(parts[f])
          /\ IsSign(parts[f + 3]) /\ IsLetter(parts[f + 4])
          /\ c.background => IsSign(parts[e + 1])
      BY <2>3, <1>2 DEF Turns
    <3>2. CASE k = f + 1
      BY <3>1, <3>2, <1>2
    <3>3. CASE k = f + 2 \/ k = f + 4
      BY <3>1, <3>3
    <3>4. CASE k = f + 3
      <4>1. k - 1 = f + 2 /\ k > 1
        BY <3>4, <1>2
      <4>2. QED
        BY <3>1, <3>4, <4>1
    <3>5. CASE k = e + 1
      <4>1. c.background /\ k - 1 = f + 4 /\ k > 1
        BY <3>5, <2>3, <1>1, <1>2
      <4>2. QED
        BY <3>1, <3>5, <4>1
    <3>6. QED
      BY <3>2, <3>3, <3>4, <3>5, <2>3, <1>1, <1>2, <1>4
  <2>4. QED
    BY <2>1, <2>2, <2>3 DEF Turns
<1>5. QED
  BY <1>2, <1>3, <1>4

LEMMA PartsArePlain ==
  ASSUME NEW c \in Command
  PROVE  Plain(Char, Parts(c))
<1>1. PICK parts : parts = Parts(c)
  OBVIOUS
<1>2. parts \in Seq(Seq(Char)) /\ \E a, f, e : PartsAt(c, parts, a, f, e)
  BY <1>1, PartsSay
<1>3. PICK a, f, e : PartsAt(c, parts, a, f, e)
  BY <1>2
<1>4. Turns(c, parts, f, e)
  BY <1>3, PartsTakeTurns
<1>5. ASSUME NEW k \in 1 .. Len(parts)
      PROVE  /\ Len(parts[k]) = 1 /\ parts[k][1] # Blank
             /\ IsMark(parts[k]) => k > 1 /\ ~ IsMark(parts[k - 1])
  BY <1>4, PartsInTurn DEF IsLetter, IsSign, IsMark
<1>6. Blank \in Char
  BY DEF Char
<1>7. QED
  BY <1>1, <1>2, <1>5, <1>6 DEF Plain

-------------------------------------------------------------------------------
(* What the shell makes of the parts of a command it has.                    *)

\* There is one < if there is an input file and none if not, and so for >.
LEMMA MarksAreCounted ==
  ASSUME NEW c \in Command, NEW parts \in Seq(Seq(Char)),
         NEW a, NEW f, NEW e, PartsAt(c, parts, a, f, e)
  PROVE  /\ Number(parts, "<") = IF c.in = NULL THEN 0 ELSE 1
         /\ Number(parts, ">") = IF c.out = NULL THEN 0 ELSE 1
<1>1. PICK in, out, n : in = c.in /\ out = c.out /\ n = Len(parts)
  OBVIOUS
<1>2. /\ in \in {NULL, <<"y">>} /\ out \in {NULL, <<"z">>} /\ c.outFirst \in BOOLEAN
      /\ n \in Nat /\ DOMAIN parts = 1 .. n
  BY <1>1 DEF Command
<1>3. Turns(c, parts, f, e)
  BY PartsTakeTurns
<1>4. /\ f \in Nat \ {0} /\ e \in Nat /\ f <= e /\ n = (IF c.background THEN e + 1 ELSE e)
      /\ c.background => parts[e + 1] = <<"&">>
  BY <1>1, <1>3 DEF Turns, PartsAt
<1>5. FilesAt(c, parts, f, e)
  BY DEF PartsAt
<1>6. PICK lt, gt : lt = <<"<">> /\ gt = <<">">>
  OBVIOUS
<1>7. ASSUME NEW k \in 1 .. n, parts[k] = lt \/ parts[k] = gt
      PROVE  k \in {f + 1, f + 3} /\ k <= e
  <2>1. ~ IsLetter(parts[k])
    BY <1>6, <1>7 DEF IsLetter, Delimiter
  <2>2. k \in {f + 1, f + 3, e + 1}
    BY <2>1, <1>1, <1>3, <1>7, PartsInTurn
  <2>3. k # e + 1
    <3>1. ASSUME k = e + 1 PROVE FALSE
      <4>1. c.background
        BY <3>1, <1>4
      <4>2. parts[k] = <<"&">>
        BY <4>1, <3>1, <1>4
      <4>3. QED
        BY <4>2, <1>6, <1>7
    <3>2. QED
      BY <3>1
  <2>4. QED
    BY <2>2, <2>3, <1>4
<1> DEFINE At(mark) == {k \in DOMAIN parts : parts[k] = mark}
<1>8. /\ in = NULL => At(lt) = {}
      /\ out = NULL => At(gt) = {}
      /\ in # NULL => \E i : At(lt) = {i}
      /\ out # NULL => \E i : At(gt) = {i}
  <2>1. lt # gt
    BY <1>6
  <2>2. CASE in = NULL /\ out = NULL
    <3>1. e = f
      BY <2>2, <1>1, <1>5, <1>6 DEF FilesAt
    <3>2. \A k \in 1 .. n : parts[k] # lt /\ parts[k] # gt
      BY <3>1, <1>4, <1>7
    <3>3. QED
      BY <3>2, <2>2, <1>2
  <2>3. CASE in # NULL /\ out = NULL
    <3>1. e = f + 2 /\ parts[f + 1] = lt
      BY <2>3, <1>1, <1>5, <1>6 DEF FilesAt
    <3>2. f + 1 \in 1 .. n
      BY <3>1, <1>4
    <3>3. \A k \in 1 .. n : (parts[k] = lt <=> k = f + 1) /\ parts[k] # gt
      BY <3>1, <3>2, <2>1, <1>4, <1>7
    <3>4. At(lt) = {f + 1} /\ At(gt) = {}
      BY <3>2, <3>3, <1>2
    <3>5. QED
      BY <3>4, <2>3
  <2>4. CASE in = NULL /\ out # NULL
    <3>1. e = f + 2 /\ parts[f + 1] = gt
      BY <2>4, <1>1, <1>5, <1>6 DEF FilesAt
    <3>2. f + 1 \in 1 .. n
      BY <3>1, <1>4
    <3>3. \A k \in 1 .. n : (parts[k] = gt <=> k = f + 1) /\ parts[k] # lt
      BY <3>1, <3>2, <2>1, <1>4, <1>7
    <3>4. At(gt) = {f + 1} /\ At(lt) = {}
      BY <3>2, <3>3, <1>2
    <3>5. QED
      BY <3>4, <2>4
  <2>5. CASE in # NULL /\ out # NULL /\ ~ c.outFirst
    <3>1. e = f + 4 /\ parts[f + 1] = lt /\ parts[f + 3] = gt
      BY <2>5, <1>1, <1>5, <1>6 DEF FilesAt
    <3>2. f + 1 \in 1 .. n /\ f + 3 \in 1 .. n
      BY <3>1, <1>4
    <3>3. \A k \in 1 .. n : (parts[k] = lt <=> k = f + 1) /\ (parts[k] = gt <=> k = f + 3)
      BY <3>1, <3>2, <2>1, <1>4, <1>7
    <3>4. At(lt) = {f + 1} /\ At(gt) = {f + 3}
      BY <3>2, <3>3, <1>2
    <3>5. QED
      BY <3>4, <2>5
  <2>6. CASE in # NULL /\ out # NULL /\ c.outFirst
    <3>1. e = f + 4 /\ parts[f + 1] = gt /\ parts[f + 3] = lt
      BY <2>6, <1>1, <1>5, <1>6 DEF FilesAt
    <3>2. f + 1 \in 1 .. n /\ f + 3 \in 1 .. n
      BY <3>1, <1>4
    <3>3. \A k \in 1 .. n : (parts[k] = lt <=> k = f + 3) /\ (parts[k] = gt <=> k = f + 1)
      BY <3>1, <3>2, <2>1, <1>4, <1>7
    <3>4. At(lt) = {f + 3} /\ At(gt) = {f + 1}
      BY <3>2, <3>3, <1>2
    <3>5. QED
      BY <3>4, <2>6
  <2>7. QED
    BY <2>2, <2>3, <2>4, <2>5, <2>6
<1>9. Number(parts, "<") = Cardinality(At(lt)) /\ Number(parts, ">") = Cardinality(At(gt))
  BY <1>6 DEF Number
<1> HIDE DEF At
<1>10. \A i : Cardinality({i}) = 1
  BY FS_Singleton
<1>11. Cardinality({}) = 0
  BY FS_EmptySet
<1>12. Number(parts, "<") = IF in = NULL THEN 0 ELSE 1
  BY <1>8, <1>9, <1>10, <1>11
<1>13. Number(parts, ">") = IF out = NULL THEN 0 ELSE 1
  BY <1>8, <1>9, <1>10, <1>11
<1>14. QED
  BY <1>1, <1>12, <1>13

LEMMA RedirectionIsRecognised ==
  ASSUME NEW c \in Command, NEW parts \in Seq(Seq(Char)),
         NEW a, NEW f, NEW e, PartsAt(c, parts, a, f, e)
  PROVE  IsRedirectInstruction(parts) =
           IF c.in = NULL THEN IF c.out = NULL THEN "NONE" ELSE "OUT"
           ELSE IF c.out = NULL THEN "IN" ELSE "BOTH"
<1>1. PICK i, j : i = Number(parts, "<") /\ j = Number(parts, ">")
  OBVIOUS
<1>2. i = (IF c.in = NULL THEN 0 ELSE 1) /\ j = (IF c.out = NULL THEN 0 ELSE 1)
  BY <1>1, MarksAreCounted
<1>3. IsRedirectInstruction(parts) =
        CASE i > 1 \/ j > 1 -> "invalid"
          [] i = 1 /\ j = 1 -> "BOTH"
          [] i = 1 /\ j = 0 -> "IN"
          [] i = 0 /\ j = 1 -> "OUT"
          [] OTHER -> "NONE"
  BY <1>1 DEF IsRedirectInstruction
<1>4. CASE c.in = NULL /\ c.out = NULL
  BY <1>2, <1>3, <1>4
<1>5. CASE c.in # NULL /\ c.out = NULL
  BY <1>2, <1>3, <1>5
<1>6. CASE c.in = NULL /\ c.out # NULL
  BY <1>2, <1>3, <1>6
<1>7. CASE c.in # NULL /\ c.out # NULL
  BY <1>2, <1>3, <1>7
<1>8. QED
  BY <1>4, <1>5, <1>6, <1>7

\* What can be told from the parts: which program, where its argument is, where
\* the files and what comes behind them.
LEMMA ChoiceIsMeant ==
  ASSUME NEW c \in Command, Complete(c), NEW parts \in Seq(Seq(Char)),
         NEW a, NEW f, NEW e, PartsAt(c, parts, a, f, e)
  PROVE  Selected(parts) =
           [func |-> c.name, args |-> IF c.arg = NULL THEN <<>> ELSE << c.arg >>,
            next |-> f + 1]
<1>1. PICK name, arg, n : name = c.name /\ arg = c.arg /\ n = Len(parts)
  OBVIOUS
<1>2. /\ arg \in {NULL, <<"x">>} /\ c.nice \in BOOLEAN
      /\ name \in WithArgument \cup WithNone
      /\ arg # NULL <=> name \in WithArgument
      /\ c.nice => name \notin {"zombify", "orphanify"}
  BY <1>1 DEF Command, Complete
<1>3. /\ a = (IF c.nice THEN 3 ELSE 1)
      /\ c.nice => parts[1] = <<"nice">>
      /\ parts[a] = <<name>>
      /\ f = (IF arg = NULL THEN a ELSE a + 1)
      /\ arg # NULL => parts[f] = arg
  BY <1>1 DEF PartsAt
<1>4. f <= n /\ n \in Nat /\ f \in Nat
  <2>1. Turns(c, parts, f, e)
    BY PartsTakeTurns
  <2>2. QED
    BY <2>1, <1>1 DEF Turns
<1>5. PICK none : none = IF c.nice THEN WithNone \ {"zombify", "orphanify"} ELSE WithNone
  OBVIOUS
<1>6. PICK word : word = <<name>>
  OBVIOUS
<1>7. word[1] = name /\ \A p : word = <<p>> <=> name = p
  BY <1>6
<1>8. Token(parts, a) = word
  BY <1>1, <1>2, <1>3, <1>4, <1>6 DEF Token
<1>9. Choice(parts, a, none) =
        [func |-> name, args |-> IF arg = NULL THEN <<>> ELSE << arg >>, next |-> f + 1]
  <2>1. CASE arg # NULL
    <3>1. \E p \in WithArgument : word = <<p>>
      BY <2>1, <1>2, <1>7
    <3>2. f = a + 1 /\ parts[a + 1] = arg /\ Token(parts, a + 1) # NULL /\ a + 2 = f + 1
      <4>1. f = a + 1 /\ a \in {1, 3}
        BY <2>1, <1>3
      <4>2. parts[a + 1] = arg /\ a + 1 <= Len(parts)
        BY <4>1, <2>1, <1>1, <1>3, <1>4
      <4>3. QED
        BY <4>1, <4>2, <2>1 DEF Token
    <3>3. Choice(parts, a, none) =
            [func |-> word[1], args |-> << parts[a + 1] >>, next |-> a + 2]
      <4>1. \E p \in WithArgument : word = <<p>> /\ Token(parts, a + 1) # NULL
        BY <3>1, <3>2
      <4>2. ~ \E p \in none : word = <<p>>
        <5>1. name \notin WithNone
          BY <2>1, <1>2 DEF WithArgument, WithNone
        <5>2. QED
          BY <5>1, <1>5, <1>7
      <4>3. QED
        BY <4>1, <4>2, <1>8, Zenon DEF Choice
    <3>4. QED
      BY <3>2, <3>3, <2>1, <1>7
  <2>2. CASE arg = NULL
    <3>1. ~ \E p \in WithArgument : word = <<p>>
      BY <2>2, <1>2, <1>7
    <3>2. name \in none
      BY <2>2, <1>2, <1>5
    <3>3. \E p \in none : word = <<p>>
      BY <3>2, <1>7
    <3>4. Choice(parts, a, none) = [func |-> word[1], args |-> <<>>, next |-> a + 1]
      <4>1. ~ \E p \in WithArgument : word = <<p>> /\ Token(parts, a + 1) # NULL
        BY <3>1
      <4>2. QED
        BY <4>1, <3>3, <1>8, Zenon DEF Choice
    <3>5. f = a
      BY <2>2, <1>3
    <3>6. QED
      BY <3>4, <3>5, <2>2, <1>7
  <2>3. QED
    BY <2>1, <2>2
<1>10. CASE c.nice
  <2>1. Selected(parts) = Choice(parts, a, none)
    BY <1>3, <1>5, <1>10 DEF Selected, SelectFunction
  <2>2. QED
    BY <2>1, <1>1, <1>9
<1>11. CASE ~ c.nice
  <2>1. name # "nice"
    BY <1>2 DEF WithArgument, WithNone
  <2>2. parts[1] # <<"nice">>
    BY <2>1, <1>3, <1>6, <1>7, <1>11
  <2>3. Selected(parts) = Choice(parts, a, none)
    BY <2>2, <1>3, <1>5, <1>11 DEF Selected
  <2>4. QED
    BY <2>3, <1>1, <1>9
<1>12. QED
  BY <1>10, <1>11

LEMMA FilesAreMeant ==
  ASSUME NEW c \in Command, Complete(c), NEW parts \in Seq(Seq(Char)),
         NEW a, NEW f, NEW e, PartsAt(c, parts, a, f, e)
  PROVE  Files(parts, f + 1) = [in |-> c.in, out |-> c.out, next |-> e + 1]
<1>1. PICK in, out, n : in = c.in /\ out = c.out /\ n = Len(parts)
  OBVIOUS
<1>2. /\ in \in {NULL, <<"y">>} /\ out \in {NULL, <<"z">>}
      /\ c.outFirst => in = NULL \/ out = NULL
  BY <1>1 DEF Command, Complete
<1>3. FilesAt(c, parts, f, e)
  BY DEF PartsAt
<1>4. e <= n /\ n \in Nat /\ f \in Nat /\ e \in Nat
  <2>1. Turns(c, parts, f, e)
    BY PartsTakeTurns
  <2>2. QED
    BY <2>1, <1>1 DEF Turns
<1>5. PICK r : r = IsRedirectInstruction(parts)
  OBVIOUS
<1>6. r = IF in = NULL THEN IF out = NULL THEN "NONE" ELSE "OUT"
          ELSE IF out = NULL THEN "IN" ELSE "BOTH"
  BY <1>1, <1>5, RedirectionIsRecognised
<1>7. /\ (f + 1) + 1 = f + 2 /\ (f + 1) + 2 = f + 3
      /\ (f + 1) + 3 = f + 4 /\ (f + 1) + 4 = f + 5
  BY <1>4
<1>8. Files(parts, f + 1) =
        CASE r = "OUT" -> [in |-> NULL, out |-> Token(parts, f + 2), next |-> f + 3]
          [] r = "IN" -> [in |-> Token(parts, f + 2), out |-> NULL, next |-> f + 3]
          [] r = "BOTH" -> IF Token(parts, f + 4) = NULL
                             THEN [in |-> NULL, out |-> NULL, next |-> f + 5]
                             ELSE [in |-> parts[f + 2], out |-> parts[f + 4], next |-> f + 5]
          [] OTHER -> [in |-> NULL, out |-> NULL, next |-> f + 1]
  BY <1>5, <1>7 DEF Files
<1>9. CASE in = NULL /\ out = NULL
  <2>1. r = "NONE" /\ e = f
    BY <1>1, <1>3, <1>6, <1>9 DEF FilesAt
  <2>2. QED
    BY <2>1, <1>1, <1>8, <1>9
<1>10. CASE in # NULL /\ out = NULL
  <2>1. r = "IN" /\ e = f + 2 /\ parts[f + 2] = in
    BY <1>1, <1>3, <1>6, <1>10 DEF FilesAt
  <2>2. Token(parts, f + 2) = in /\ e + 1 = f + 3
    BY <2>1, <1>1, <1>4 DEF Token
  <2>3. QED
    BY <2>1, <2>2, <1>1, <1>8, <1>10
<1>11. CASE in = NULL /\ out # NULL
  <2>1. r = "OUT" /\ e = f + 2 /\ parts[f + 2] = out
    BY <1>1, <1>3, <1>6, <1>11 DEF FilesAt
  <2>2. Token(parts, f + 2) = out /\ e + 1 = f + 3
    BY <2>1, <1>1, <1>4 DEF Token
  <2>3. QED
    BY <2>1, <2>2, <1>1, <1>8, <1>11
<1>12. CASE in # NULL /\ out # NULL
  <2>1. r = "BOTH" /\ ~ c.outFirst
    BY <1>2, <1>6, <1>12
  <2>2. e = f + 4 /\ parts[f + 2] = in /\ parts[f + 4] = out
    BY <2>1, <1>1, <1>3, <1>12 DEF FilesAt
  <2>3. Token(parts, f + 4) = out /\ e + 1 = f + 5
    BY <2>2, <1>1, <1>4 DEF Token
  <2>4. QED
    BY <2>1, <2>2, <2>3, <1>1, <1>8, <1>12
<1>13. QED
  BY <1>9, <1>10, <1>11, <1>12

Meant(c) ==
  [kind |-> "spawn", func |-> c.name, args |-> IF c.arg = NULL THEN <<>> ELSE << c.arg >>,
   in |-> c.in, out |-> c.out,
   priority |-> IF c.nice THEN <<"1">> ELSE NULL,
   mode |-> IF c.background THEN "BACKGROUND" ELSE "FOREGROUND"]

LEMMA SpawnedIsMeant ==
  ASSUME NEW c \in Command, Complete(c), NEW parts \in Seq(Seq(Char)),
         NEW a, NEW f, NEW e, PartsAt(c, parts, a, f, e)
  PROVE  Spawned(parts) = Meant(c)
<1>1. PICK name, args, n :
        name = c.name /\ args = (IF c.arg = NULL THEN <<>> ELSE << c.arg >>) /\ n = Len(parts)
  OBVIOUS
<1>2. PICK s, fs : s = Selected(parts) /\ fs = Files(parts, f + 1)
  OBVIOUS
<1>3. s.func = name /\ s.args = args /\ s.next = f + 1
  BY <1>1, <1>2, ChoiceIsMeant
<1>4. PICK in, out : in = c.in /\ out = c.out
  OBVIOUS
<1>5. fs.in = in /\ fs.out = out /\ fs.next = e + 1
  <2>1. PICK d : d = e + 1
    OBVIOUS
  <2>2. Files(parts, f + 1) = [in |-> c.in, out |-> c.out, next |-> e + 1]
    BY FilesAreMeant
  <2>3. fs = [in |-> in, out |-> out, next |-> d]
    BY <2>1, <2>2, <1>2, <1>4
  <2>4. QED
    BY <2>1, <2>3
<1>6. c.nice \in BOOLEAN /\ c.background \in BOOLEAN /\ name \in WithArgument \cup WithNone
  BY <1>1 DEF Command, Complete
<1>7. /\ f <= n /\ e <= n /\ n \in Nat /\ f \in Nat /\ e \in Nat
      /\ n = IF c.background THEN e + 1 ELSE e
  <2>1. Turns(c, parts, f, e)
    BY PartsTakeTurns
  <2>2. QED
    BY <2>1, <1>1 DEF Turns
<1>8. parts[1] = <<"nice">> <=> c.nice
  <2>1. CASE c.nice
    BY <2>1 DEF PartsAt
  <2>2. CASE ~ c.nice
    <3>1. parts[1] = <<name>>
      BY <2>2, <1>1 DEF PartsAt
    <3>2. name # "nice"
      BY <1>6 DEF WithArgument, WithNone
    <3>3. QED
      BY <3>1, <3>2, <2>2
  <2>3. QED
    BY <2>1, <2>2
<1>9. PICK p : p = IF c.nice THEN <<"1">> ELSE NULL
  OBVIOUS
<1>10. (IF parts[1] = <<"nice">> THEN Token(parts, 2) ELSE NULL) = p
  <2>1. CASE c.nice
    <3>1. parts[2] = <<"1">> /\ 2 <= Len(parts)
      BY <2>1, <1>1, <1>7 DEF PartsAt
    <3>2. Token(parts, 2) = <<"1">>
      BY <3>1 DEF Token
    <3>3. QED
      BY <3>2, <2>1, <1>8, <1>9
  <2>2. CASE ~ c.nice
    BY <2>2, <1>8, <1>9
  <2>3. QED
    BY <2>1, <2>2
<1>11. PICK m : m = IF c.background THEN "BACKGROUND" ELSE "FOREGROUND"
  OBVIOUS
<1>12. (IF Token(parts, e + 1) = <<"&">> THEN "BACKGROUND" ELSE "FOREGROUND") = m
  <2>1. CASE c.background
    <3>1. parts[e + 1] = <<"&">> /\ e + 1 <= Len(parts)
      BY <2>1, <1>1, <1>7 DEF PartsAt
    <3>2. QED
      BY <3>1, <2>1, <1>11 DEF Token
  <2>2. CASE ~ c.background
    <3>1. ~ (e + 1 <= Len(parts))
      BY <2>2, <1>1, <1>7
    <3>2. Token(parts, e + 1) = <<>>
      BY <3>1 DEF Token, NULL
    <3>3. QED
      BY <3>2, <2>2, <1>11
  <2>3. QED
    BY <2>1, <2>2
<1>13. PICK p1, m1 :
         /\ p1 = (IF parts[1] = <<"nice">> THEN Token(parts, 2) ELSE NULL)
         /\ m1 = (IF Token(parts, fs.next) = <<"&">> THEN "BACKGROUND" ELSE "FOREGROUND")
  OBVIOUS
<1>14. Spawned(parts) = [kind |-> "spawn", func |-> s.func, args |-> s.args,
                         in |-> fs.in, out |-> fs.out, priority |-> p1, mode |-> m1]
  <2>1. Files(parts, s.next) = fs
    BY <1>2, <1>3
  <2>2. QED
    BY <2>1, <1>2, <1>13, Zenon DEF Spawned
<1>15. p1 = p /\ m1 = m
  BY <1>5, <1>10, <1>12, <1>13
<1>16. Meant(c) = [kind |-> "spawn", func |-> name, args |-> args,
                   in |-> in, out |-> out, priority |-> p, mode |-> m]
  BY <1>1, <1>4, <1>9, <1>11, Zenon DEF Meant
<1>17. QED
  BY <1>3, <1>5, <1>14, <1>15, <1>16

\* The shell neither keeps such a command for itself nor refuses it.
LEMMA CommandIsSpawned ==
  ASSUME NEW c \in Command, Complete(c), NEW parts \in Seq(Seq(Char)),
         NEW a, NEW f, NEW e, PartsAt(c, parts, a, f, e)
  PROVE  /\ parts # <<>> /\ IsRedirectInstruction(parts) # "invalid"
         /\ ~ IsBuiltIn(parts) /\ ~ Refused(parts)
<1>1. PICK name, arg, n : name = c.name /\ arg = c.arg /\ n = Len(parts)
  OBVIOUS
<1>2. /\ arg # NULL <=> name \in WithArgument
      /\ name \in WithArgument \cup WithNone
      /\ c.nice \in BOOLEAN
  BY <1>1 DEF Command, Complete
<1>3. /\ a = (IF c.nice THEN 3 ELSE 1)
      /\ c.nice => parts[1] = <<"nice">>
      /\ parts[a] = <<name>>
      /\ f = (IF arg = NULL THEN a ELSE a + 1)
  BY <1>1 DEF PartsAt
<1>4. f <= n /\ n \in Nat /\ f \in Nat \ {0}
  <2>1. Turns(c, parts, f, e)
    BY PartsTakeTurns
  <2>2. QED
    BY <2>1, <1>1 DEF Turns
<1>5. parts # <<>>
  BY <1>1, <1>4
<1>6. IsRedirectInstruction(parts) # "invalid"
  BY RedirectionIsRecognised
<1>7. PICK first : first = IF c.nice THEN "nice" ELSE name
  OBVIOUS
<1>8. parts[1] = <<first>>
  BY <1>2, <1>3, <1>7
<1>9. first \in WithArgument \cup WithNone \cup {"nice"}
  BY <1>2, <1>7
<1>10. \A p : parts[1] = <<p>> <=> first = p
  BY <1>8
<1>11. ~ IsBuiltIn(parts)
  <2>1. DOMAIN BuiltIn = {"man", "jobs", "logout", "defragment", "cp", "bg", "fg",
                          "nice_pid", "mv"}
    BY DEF BuiltIn
  <2>2. first \notin DOMAIN BuiltIn
    BY <2>1, <1>9 DEF WithArgument, WithNone
  <2>3. QED
    BY <2>2, <1>10 DEF IsBuiltIn
<1>12. ~ Refused(parts)
  <2>1. parts[1] \in {<<p>> : p \in WithArgument \cup WithNone \cup {"nice"}}
    BY <1>8, <1>9
  <2>2. ~ (n = 1 /\ first \in WithArgument)
    <3>1. ASSUME n = 1, first \in WithArgument PROVE FALSE
      <4>1. first # "nice"
        BY <3>1 DEF WithArgument
      <4>2. name \in WithArgument /\ a = 1
        BY <4>1, <3>1, <1>2, <1>3, <1>7
      <4>3. f = 2
        BY <4>2, <1>2, <1>3
      <4>4. QED
        BY <4>3, <3>1, <1>4
    <3>2. QED
      BY <3>1
  <2>3. ~ (Len(parts) = 1 /\ parts[1] \in {<<p>> : p \in WithArgument \ {"cat"}})
    BY <2>2, <1>1, <1>10
  <2>4. QED
    BY <2>1, <2>3 DEF Refused
<1>13. QED
  BY <1>5, <1>6, <1>11, <1>12

-------------------------------------------------------------------------------
(* The shell at its lines.                                                   *)

WrittenLine(s, c) == \E g \in Gaps(Parts(c)) : s = Written(Parts(c), g)

\* The inductive invariant: a line of characters, which writes the command meant
\* if there is one, and nothing done until the line is handled.
LineInv ==
  /\ line \in Seq(Char)
  /\ at \in {"prompt", "typed"} => done = Nothing
  /\ at = "prompt" => meant = Nothing
  /\ at = "typed" /\ meant # Nothing => meant \in Command /\ WrittenLine(line, meant)
  /\ LineObeyed

LEMMA WrittenLineSays ==
  ASSUME NEW c \in Command, NEW s, WrittenLine(s, c)
  PROVE  s \in Seq(Char) /\ s # <<>> /\ Tokens(s) = Parts(c)
<1>1. PICK g \in Gaps(Parts(c)) : s = Written(Parts(c), g)
  BY DEF WrittenLine
<1>2. PICK parts : parts = Parts(c)
  OBVIOUS
<1>3. Plain(Char, parts) /\ g \in Gaps(parts) /\ s = Written(parts, g)
  BY <1>1, <1>2, PartsArePlain
<1>4. g \in [DOMAIN parts -> BOOLEAN]
  BY <1>3 DEF Gaps
<1>5. s \in Seq(Char) /\ \E o : LaidOut(s, parts, g, o)
  BY <1>3, <1>4, WrittenIsLaidOut
<1>6. s # <<>>
  <2>1. PICK o : LaidOut(s, parts, g, o)
    BY <1>5
  <2>2. Len(parts) \in 0 .. Len(parts)
    BY <1>3 DEF Plain
  <2>3. Len(s) = o[Len(parts)] + 1 /\ o[Len(parts)] \in Nat
    BY <2>1, <2>2 DEF LaidOut
  <2>4. ASSUME s = <<>> PROVE FALSE
    <3>1. Len(s) = 0
      BY <2>4
    <3>2. QED
      BY <3>1, <2>3
  <2>5. QED
    BY <2>4
<1>7. Tokens(s) = parts
  BY <1>3, CommandIsRead
<1>8. QED
  BY <1>2, <1>5, <1>6, <1>7

\* A program the line does not name, the one spawned last, runs again only for a
\* bare cat or under nice.
LEMMA ProgramIsNamed ==
  ASSUME NEW s \in Seq(Char), NEW toks, toks = Tokens(s), toks # <<>>, ~ Refused(toks)
  PROVE  \/ <<Spawned(toks).func>> \in ToSet(toks)
         \/ toks = << <<"cat">> >>
         \/ toks[1] = <<"nice">>
<1>1. PICK n : n = Len(toks)
  OBVIOUS
<1>2. /\ toks \in Seq(Seq(Char)) /\ n \in Nat /\ DOMAIN toks = 1 .. n
      /\ \A k \in 1 .. n : toks[k] # <<>>
  BY <1>1, TokensSay DEF IsWord
<1>3. n # 0 /\ 1 \in DOMAIN toks /\ 1 <= Len(toks)
  BY <1>1, <1>2
<1>4. CASE toks[1] # <<"nice">>
  <2>1. PICK p : p \in WithArgument \cup WithNone /\ toks[1] = <<p>>
    BY <1>4 DEF Refused
  <2>2. PICK word : word = <<p>>
    OBVIOUS
  <2>3. word[1] = p /\ \A q : word = <<q>> <=> p = q
    BY <2>2
  <2>4. toks[1] = word /\ Token(toks, 1) = word
    BY <2>1, <2>2, <1>3 DEF Token
  <2>5. Spawned(toks).func = Choice(toks, 1, WithNone).func
    <3>1. PICK f : f = Choice(toks, 1, WithNone).func
      OBVIOUS
    <3>2. Selected(toks) = Choice(toks, 1, WithNone)
      BY <1>4 DEF Selected
    <3>3. QED
      BY <3>1, <3>2 DEF Spawned
  <2>6. word \in ToSet(toks)
    BY <2>4, <1>3 DEF ToSet
  <2>7. CASE p \in WithNone
    <3>1. ~ \E q \in WithArgument : word = <<q>>
      BY <2>3, <2>7 DEF WithArgument, WithNone
    <3>2. \E q \in WithNone : word = <<q>>
      BY <2>3, <2>7
    <3>3. Choice(toks, 1, WithNone) = [func |-> word[1], args |-> <<>>, next |-> 1 + 1]
      <4>1. ~ \E q \in WithArgument : word = <<q>> /\ Token(toks, 1 + 1) # NULL
        BY <3>1
      <4>2. QED
        BY <4>1, <3>2, <2>4, Zenon DEF Choice
    <3>4. Choice(toks, 1, WithNone).func = p
      BY <3>3, <2>3
    <3>5. QED
      BY <3>4, <2>2, <2>5, <2>6
  <2>8. CASE p \in WithArgument /\ Token(toks, 1 + 1) # NULL
    <3>1. \E q \in WithArgument : word = <<q>> /\ Token(toks, 1 + 1) # NULL
      BY <2>3, <2>8
    <3>2. ~ \E q \in WithNone : word = <<q>>
      BY <2>3, <2>8 DEF WithArgument, WithNone
    <3>3. Choice(toks, 1, WithNone) =
            [func |-> word[1], args |-> << toks[1 + 1] >>, next |-> 1 + 2]
      BY <3>1, <3>2, <2>4, Zenon DEF Choice
    <3>4. Choice(toks, 1, WithNone).func = p
      BY <3>3, <2>3
    <3>5. QED
      BY <3>4, <2>2, <2>5, <2>6
  <2>9. CASE p \in WithArgument /\ Token(toks, 1 + 1) = NULL
    <3>1. n = 1
      <4>1. ASSUME 2 <= n PROVE FALSE
        <5>1. toks[2] # NULL /\ 2 <= Len(toks)
          BY <4>1, <1>1, <1>2 DEF NULL
        <5>2. QED
          BY <5>1, <2>9 DEF Token
      <4>2. QED
        BY <4>1, <1>2, <1>3
    <3>2. p = "cat"
      <4>1. toks[1] \notin {<<q>> : q \in WithArgument \ {"cat"}}
        BY <3>1, <1>1 DEF Refused
      <4>2. QED
        BY <4>1, <2>1, <2>9
    <3>3. toks = << toks[1] >>
      BY <3>1, <1>1, <1>2
    <3>4. QED
      BY <3>2, <3>3, <2>1
  <2>10. QED
    BY <2>1, <2>7, <2>8, <2>9
<1>5. QED
  BY <1>4

LEMMA LineInvInit ==
  ASSUME InitLine
  PROVE  LineInv
<1>1. line \in Seq(Char) /\ done.kind # "spawn" /\ at = "prompt" /\ done = Nothing
      /\ meant = Nothing
  BY DEF InitLine, Nothing
<1>2. QED
  BY <1>1 DEF LineInv, LineObeyed

LEMMA LineInvNext ==
  ASSUME LineInv, [NextLine]_lineVars
  PROVE  LineInv'
<1> USE DEF LineInv
<1>1. Nothing.kind # "spawn"
  BY DEF Nothing
<1>2. CASE TypeCommand
  <2>1. PICK c \in Command : \E g \in Gaps(Parts(c)) :
          meant' = c /\ line' = Written(Parts(c), g)
    BY <1>2 DEF TypeCommand
  <2>2. meant' = c /\ WrittenLine(line', c)
    BY <2>1 DEF WrittenLine
  <2>3. line' \in Seq(Char)
    BY <2>2, WrittenLineSays
  <2>4. at' = "typed" /\ done' = Nothing
    BY <1>2 DEF TypeCommand
  <2>5. LineObeyed'
    BY <2>4, <1>1 DEF LineObeyed
  <2>6. QED
    BY <2>2, <2>3, <2>4, <2>5
<1>3. CASE TypeAnything
  <2>1. PICK n \in 0 .. MaxLine : line' \in [1 .. n -> Free]
    BY <1>3 DEF TypeAnything
  <2>2. line' \in Seq(Char)
    <3>1. Free \subseteq Char /\ n \in Nat
      BY <2>1, LineAssumption DEF Char
    <3>2. line' \in [1 .. n -> Char]
      BY <2>1, <3>1
    <3>3. QED
      BY <3>1, <3>2
  <2>3. at' = "typed" /\ done' = Nothing /\ meant' = Nothing
    BY <1>3 DEF TypeAnything
  <2>4. LineObeyed'
    BY <2>3, <1>1 DEF LineObeyed
  <2>5. QED
    BY <2>2, <2>3, <2>4
<1>4. CASE Handle
  <2>1. PICK toks : toks = Tokens(line)
    OBVIOUS
  <2>2. /\ at = "typed" /\ line' = line /\ meant' = meant /\ done = Nothing
        /\ at' \in {"handled", "exited"}
    BY <1>4 DEF Handle
  <2>3. Tokens(line)' = toks
    BY <2>1, <2>2
  <2>4. \/ at' = "exited" /\ done' = Nothing
        \/ toks = <<>> /\ done' = Nothing
        \/ IsRedirectInstruction(toks) = "invalid" /\ done' = Nothing
        \/ IsBuiltIn(toks) /\ done' = Shown(toks)
        \/ Refused(toks) /\ done' = Nothing
        \/ toks # <<>> /\ ~ Refused(toks) /\ done' = Spawned(toks)
    BY <1>4, <2>1, <2>2 DEF Handle
  <2>5. ASSUME at' = "handled", meant # Nothing, Complete(meant)
        PROVE  done' = Meant(meant)
    <3>1. PICK c : c = meant
      OBVIOUS
    <3>2. c \in Command /\ WrittenLine(line, c) /\ Complete(c)
      BY <3>1, <2>2, <2>5
    <3>3. toks = Parts(c)
      BY <3>2, <2>1, WrittenLineSays
    <3>4. PICK a, f, e : PartsAt(c, toks, a, f, e)
      BY <3>2, <3>3, PartsSay
    <3>5. toks \in Seq(Seq(Char))
      BY <3>2, <3>3, PartsSay
    <3>6. /\ toks # <<>> /\ IsRedirectInstruction(toks) # "invalid"
          /\ ~ IsBuiltIn(toks) /\ ~ Refused(toks)
      BY <3>2, <3>4, <3>5, CommandIsSpawned
    <3>7. done' = Spawned(toks)
      BY <3>6, <2>4, <2>5
    <3>8. Spawned(toks) = Meant(c)
      BY <3>2, <3>4, <3>5, SpawnedIsMeant
    <3>9. QED
      BY <3>1, <3>7, <3>8
  <2>6. ASSUME done'.kind = "spawn"
        PROVE  \/ <<done'.func>> \in ToSet(toks)
               \/ toks = << <<"cat">> >>
               \/ toks[1] = <<"nice">>
    <3>1. Shown(toks).kind # "spawn"
      <4>1. PICK f, v : f = toks[1][1] /\ v = [k \in 1 .. BuiltIn[toks[1][1]] |-> Token(toks, k + 1)]
        OBVIOUS
      <4>2. Shown(toks) = [kind |-> "built_in", func |-> f, args |-> v]
        BY <4>1, Zenon DEF Shown
      <4>3. QED
        BY <4>2
    <3>2. toks # <<>> /\ ~ Refused(toks) /\ done' = Spawned(toks)
      BY <3>1, <2>4, <2>6, <1>1
    <3>3. QED
      BY <3>2, <2>1, ProgramIsNamed
  <2>7. LineObeyed'
    BY <2>2, <2>3, <2>5, <2>6 DEF LineObeyed, Meant, Complete
  <2>8. QED
    BY <2>2, <2>7
<1>5. CASE PromptAgain
  <2>1. /\ at' = "prompt" /\ line' = <<>> /\ meant' = Nothing /\ done' = Nothing
    BY <1>5 DEF PromptAgain
  <2>2. LineObeyed' /\ line' \in Seq(Char)
    BY <2>1, <1>1 DEF LineObeyed
  <2>3. QED
    BY <2>1, <2>2
<1>6. CASE UNCHANGED lineVars
  <2>1. /\ at' = at /\ line' = line /\ meant' = meant /\ done' = done
    BY <1>6 DEF lineVars
  <2>2. QED
    BY <2>1 DEF LineObeyed, Complete, WrittenLine
<1>7. QED
  BY <1>2, <1>3, <1>4, <1>5, <1>6 DEF NextLine

THEOREM LineInvariant == LineSpec => []LineInv
<1>1. QED
  BY LineInvInit, LineInvNext, PTL DEF LineSpec

\* Whatever is typed, the tokens are the line without its blanks: no character is
\* lost, doubled or moved, no token is empty or holds a blank, and a delimiter
\* stands alone or begins a word behind a blank (get_next_token).
THEOREM LinesAreTokenized == LineSpec => []TokensFaithful
<1>1. LineInv => TokensFaithful
  BY FaithfulTokens DEF LineInv
<1>2. QED
  BY <1>1, LineInvariant, PTL

\* However a command the shell has is spaced, what p_spawn and f_dup are given is
\* what was meant, and a program the line does not name runs only for a bare cat
\* or under nice (shell.c).
THEOREM LinesAreObeyed == LineSpec => []LineObeyed
<1>1. LineInv => LineObeyed
  BY DEF LineInv
<1>2. QED
  BY <1>1, LineInvariant, PTL
================================================================================
