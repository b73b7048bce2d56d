------------------------- MODULE Selections_proofs -------------------------
(***************************************************************************)
(* Lemmas about what is selected of a sequence.  The library's induction   *)
(* theorems are about operators, which no prover here can instantiate;     *)
(* that there is a least number in every set of them gives induction over  *)
(* a set, and that suffices.                                               *)
(***************************************************************************)
EXTENDS Selections, FiniteSets, SequencesExt, SequenceTheorems, FiniteSetTheorems,
        WellFoundedInduction, TLAPS

LEMMA LeastNumber ==
  ASSUME NEW N \in SUBSET Nat, N # {}
  PROVE  \E m \in N : \A k \in N : m <= k
<1>1. PICK m \in N : \A y \in N : ~ (<<y, m>> \in OpToRel(<, Nat))
  BY WFMin, NatLessThanWellFounded
<1>2. \A y \in N : ~ (y < m)
  BY <1>1, Zenon DEF OpToRel
<1>. QED BY <1>2

LEMMA SetInduction ==
  ASSUME NEW N \in SUBSET Nat, 0 \in N, \A n \in N : n + 1 \in N
  PROVE  N = Nat
<1>. SUFFICES ASSUME Nat \ N # {} PROVE FALSE
  OBVIOUS
<1>1. PICK m \in Nat \ N : \A k \in Nat \ N : m <= k
  BY LeastNumber
<1>. QED BY <1>1

\* f says what is selected of s up to each position.
Selects(f, s, T) ==
    /\ f[0] = <<>>
    /\ \A n \in 1 .. Len(s) :
          f[n] = IF s[n] \in T THEN Append(f[n - 1], s[n]) ELSE f[n - 1]

\* The recursion is well-founded: there is a function that satisfies it.
LEMMA SelectionExists ==
  ASSUME NEW S, NEW s \in Seq(S), NEW T
  PROVE  \E f \in [0 .. Len(s) -> Seq(S)] : Selects(f, s, T)
<1>. DEFINE Good(f, k) ==
        /\ f \in [0 .. k -> Seq(S)] /\ f[0] = <<>>
        /\ \A n \in 1 .. k : f[n] = IF s[n] \in T THEN Append(f[n - 1], s[n]) ELSE f[n - 1]
            N == {k \in Nat : k <= Len(s) => \E f : Good(f, k)}
<1>1. 0 \in N
  <2>. DEFINE f == [i \in 0 .. 0 |-> <<>>]
  <2>1. f \in [0 .. 0 -> Seq(S)] /\ f[0] = <<>> /\ 1 .. 0 = {}
    BY EmptySeq
  <2>. HIDE DEF f
  <2>2. Good(f, 0)
    BY <2>1
  <2>. QED BY <2>2
<1>2. ASSUME NEW k \in N PROVE k + 1 \in N
  <2>0. k \in Nat /\ (k <= Len(s) => \E f : Good(f, k))
    BY Zenon
  <2>. SUFFICES ASSUME k + 1 <= Len(s) PROVE \E f : Good(f, k + 1)
    <3>1. k + 1 \in Nat
      BY <2>0
    <3>. HIDE DEF Good
    <3>. QED BY <3>1
  <2>a. k <= Len(s)
    BY <2>0
  <2>1. PICK f : Good(f, k)
    <3>. HIDE DEF Good
    <3>. QED BY <2>0, <2>a
  <2>. DEFINE next == IF s[k + 1] \in T THEN Append(f[k], s[k + 1]) ELSE f[k]
              g == [i \in 0 .. k + 1 |-> IF i = k + 1 THEN next ELSE f[i]]
  <2>2. k + 1 \in 1 .. Len(s) /\ s[k + 1] \in S /\ f[k] \in Seq(S)
    BY <2>1
  <2>3. next \in Seq(S)
    BY <2>2
  <2>4. g \in [0 .. k + 1 -> Seq(S)]
    <3>. HIDE DEF next
    <3>. QED BY <2>1, <2>3
  <2>5. \A n \in 1 .. k + 1 : g[n] = IF s[n] \in T THEN Append(g[n - 1], s[n]) ELSE g[n - 1]
    <3>. TAKE n \in 1 .. k + 1
    <3>1. CASE n = k + 1
      BY <3>1
    <3>2. CASE n # k + 1
      <4>1. n \in 1 .. k /\ g[n] = f[n] /\ g[n - 1] = f[n - 1]
        BY <3>2
      <4>. QED BY <2>1, <4>1
    <3>. QED BY <3>1, <3>2
  <2>6. g[0] = <<>>
    BY <2>1
  <2>. HIDE DEF g, next
  <2>. QED BY <2>4, <2>5, <2>6
<1>3. N = Nat
  <2>1. N \in SUBSET Nat
    OBVIOUS
  <2>. HIDE DEF N
  <2>. QED BY <1>1, <1>2, <2>1, SetInduction
<1>4. Len(s) \in N
  BY <1>3
<1>5. PICK f : Good(f, Len(s))
  BY <1>4
<1>. QED BY <1>5 DEF Selects

\* What is selected up to each position.
LEMMA SelectionUnfolds ==
  ASSUME NEW S, NEW s \in Seq(S), NEW T
  PROVE  \E f \in [0 .. Len(s) -> Seq(S)] : Selects(f, s, T) /\ Selected(s, T) = f[Len(s)]
<1>1. PICK f \in [0 .. Len(s) -> Seq(S)] : Selects(f, s, T)
  BY SelectionExists
<1>. DEFINE Is(h) == h = [n \in 0 .. Len(s) |->
                            IF n = 0 THEN <<>>
                            ELSE IF s[n] \in T THEN Append(h[n - 1], s[n]) ELSE h[n - 1]]
            upTo == CHOOSE h : Is(h)
<1>2. Is(f)
  <2>1. \A n \in 0 .. Len(s) : f[n] = IF n = 0 THEN <<>>
                            ELSE IF s[n] \in T THEN Append(f[n - 1], s[n]) ELSE f[n - 1]
    <3>. TAKE n \in 0 .. Len(s)
    <3>1. CASE n = 0
      BY <1>1, <3>1 DEF Selects
    <3>2. CASE n # 0
      <4>1. n \in 1 .. Len(s)
        BY <3>2
      <4>. QED BY <1>1, <3>2, <4>1, Zenon DEF Selects
    <3>. QED BY <3>1, <3>2
  <2>2. f = [n \in 0 .. Len(s) |-> f[n]]
    OBVIOUS
  <2>. QED BY <2>1, <2>2, Zenon
<1>3. Is(upTo)
  BY <1>2, Zenon
<1>4. Selected(s, T) = upTo[Len(s)]
  BY DEF Selected
<1>5. \A n \in 0 .. Len(s) : upTo[n] = IF n = 0 THEN <<>>
                            ELSE IF s[n] \in T THEN Append(upTo[n - 1], s[n]) ELSE upTo[n - 1]
  <2>. HIDE DEF upTo
  <2>. QED BY <1>3
<1>. HIDE DEF upTo
<1>6. 0 \in 0 .. Len(s) /\ \A n \in 1 .. Len(s) : n \in 0 .. Len(s) /\ n # 0 /\ n - 1 \in 0 .. Len(s)
  OBVIOUS
<1>. DEFINE N == {n \in Nat : n <= Len(s) => upTo[n] \in Seq(S)}
<1>7. N = Nat
  <2>1. N \in SUBSET Nat /\ 0 \in N
    BY <1>5, <1>6, EmptySeq
  <2>2. ASSUME NEW n \in N PROVE n + 1 \in N
    <3>1. n \in Nat
      OBVIOUS
    <3>. SUFFICES ASSUME n + 1 <= Len(s) PROVE upTo[n + 1] \in Seq(S)
      BY <3>1
    <3>2. n + 1 \in 1 .. Len(s) /\ n + 1 \in 0 .. Len(s) /\ n + 1 # 0 /\ (n + 1) - 1 = n /\ n <= Len(s)
      BY <3>1
    <3>3. upTo[n + 1] = IF s[n + 1] \in T THEN Append(upTo[n], s[n + 1]) ELSE upTo[n]
      BY <1>5, <3>2, Zenon
    <3>4. upTo[n] \in Seq(S) /\ s[n + 1] \in S
      BY <3>2
    <3>. QED BY <3>3, <3>4
  <2>. HIDE DEF N
  <2>. QED BY <2>1, <2>2, SetInduction
<1>8. \A n \in 0 .. Len(s) : upTo[n] \in Seq(S)
  BY <1>7
<1>9. upTo = [n \in 0 .. Len(s) |-> upTo[n]]
  BY <1>3, Zenon
<1>10. upTo \in [0 .. Len(s) -> Seq(S)]
  BY <1>8, <1>9
<1>11. upTo[0] = <<>>
  BY <1>5, <1>6
<1>12. \A n \in 1 .. Len(s) :
          upTo[n] = IF s[n] \in T THEN Append(upTo[n - 1], s[n]) ELSE upTo[n - 1]
  BY <1>5, <1>6, Zenon
<1>. QED BY <1>4, <1>10, <1>11, <1>12, Zenon DEF Selects

\* h gives the place in s that each element of q was selected from, up to k.
Places(h, q, s, T, k) ==
    /\ h \in [1 .. Len(q) -> 1 .. k]
    /\ \A i \in 1 .. Len(q) : q[i] = s[h[i]] /\ s[h[i]] \in T
    /\ \A i, j \in 1 .. Len(q) : i < j => h[i] < h[j]
    /\ \A n \in 1 .. k : s[n] \in T => \E i \in 1 .. Len(q) : h[i] = n

\* What is selected is a sequence of elements of s, each from a place of its
\* own and in their order, and all those in T.
LEMMA SelectedFromPlaces ==
  ASSUME NEW S, NEW s \in Seq(S), NEW T
  PROVE  Selected(s, T) \in Seq(S) /\ \E h : Places(h, Selected(s, T), s, T, Len(s))
<1>1. PICK f \in [0 .. Len(s) -> Seq(S)] : Selects(f, s, T) /\ Selected(s, T) = f[Len(s)]
  BY SelectionUnfolds
<1>. DEFINE N == {n \in Nat : n <= Len(s) => \E h : Places(h, f[n], s, T, n)}
<1>2. 0 \in N
  <2>1. f[0] = <<>> /\ Len(<<>>) = 0
    BY <1>1, EmptySeq DEF Selects
  <2>. DEFINE h == [i \in 1 .. 0 |-> 0]
  <2>2. h \in [1 .. 0 -> 1 .. 0] /\ 1 .. 0 = {}
    OBVIOUS
  <2>. HIDE DEF h
  <2>3. Places(h, f[0], s, T, 0)
    BY <2>1, <2>2 DEF Places
  <2>. QED BY <2>3
<1>3. ASSUME NEW n \in N PROVE n + 1 \in N
  <2>1. n \in Nat /\ (n <= Len(s) => \E h : Places(h, f[n], s, T, n))
    BY Zenon
  <2>. SUFFICES ASSUME n + 1 <= Len(s) PROVE \E h : Places(h, f[n + 1], s, T, n + 1)
    <3>1. n + 1 \in Nat
      BY <2>1
    <3>. QED BY <3>1
  <2>2. n \in 0 .. Len(s) /\ n + 1 \in 1 .. Len(s) /\ n <= Len(s) /\ (n + 1) - 1 = n
    BY <2>1
  <2>3. PICK h : Places(h, f[n], s, T, n)
    BY <2>1, <2>2
  <2>4. f[n + 1] = IF s[n + 1] \in T THEN Append(f[n], s[n + 1]) ELSE f[n]
    BY <1>1, <2>2 DEF Selects
  <2>5. f[n] \in Seq(S) /\ s[n + 1] \in S /\ Len(f[n]) \in Nat
    BY <2>2
  <2>. DEFINE q == f[n]
  <2>6. CASE s[n + 1] \notin T
    <3>1. f[n + 1] = q
      BY <2>4, <2>6
    <3>2. Places(h, q, s, T, n + 1)
      BY <2>1, <2>3, <2>5, <2>6 DEF Places
    <3>. QED BY <3>1, <3>2
  <2>7. CASE s[n + 1] \in T
    <3>. DEFINE r == Append(q, s[n + 1])
                g == [i \in 1 .. Len(q) + 1 |-> IF i = Len(q) + 1 THEN n + 1 ELSE h[i]]
    <3>1. f[n + 1] = r
      BY <2>4, <2>7
    <3>2. /\ Len(r) = Len(q) + 1 /\ r[Len(q) + 1] = s[n + 1]
          /\ \A i \in 1 .. Len(q) : r[i] = q[i]
      BY <2>5
    <3>3. /\ g[Len(q) + 1] = n + 1 /\ \A i \in 1 .. Len(q) : g[i] = h[i] /\ h[i] \in 1 .. n
      BY <2>3, <2>5 DEF Places
    <3>4. g \in [1 .. Len(q) + 1 -> 1 .. n + 1]
      BY <2>1, <2>3, <2>5 DEF Places
    <3>5. \A i \in 1 .. Len(q) + 1 : i = Len(q) + 1 \/ i \in 1 .. Len(q)
      BY <2>5
    <3>0. Places(h, q, s, T, n) /\ Len(q) \in Nat /\ n \in Nat
      BY <2>1, <2>3, <2>5
    <3>. HIDE DEF q, r, g
    <3>6. \A i \in 1 .. Len(q) + 1 : r[i] = s[g[i]] /\ s[g[i]] \in T
      BY <3>0, <2>7, <3>2, <3>3, <3>5 DEF Places
    <3>7. \A i, j \in 1 .. Len(q) + 1 : i < j => g[i] < g[j]
      <4>. TAKE i, j \in 1 .. Len(q) + 1
      <4>. HAVE i < j
      <4>1. i \in 1 .. Len(q) /\ g[i] = h[i] /\ h[i] \in 1 .. n
        BY <3>0, <3>3
      <4>2. CASE j = Len(q) + 1
        BY <3>0, <3>3, <4>1, <4>2
      <4>3. CASE j \in 1 .. Len(q)
        BY <3>0, <3>3, <4>1, <4>3 DEF Places
      <4>. QED BY <3>5, <4>2, <4>3
    <3>8. \A m \in 1 .. n + 1 : s[m] \in T => \E i \in 1 .. Len(q) + 1 : g[i] = m
      <4>. TAKE m \in 1 .. n + 1
      <4>1. CASE m = n + 1
        BY <3>0, <3>3, <4>1
      <4>2. CASE m # n + 1
        <5>1. m \in 1 .. n
          BY <2>1, <4>2
        <5>2. s[m] \in T => \E i \in 1 .. Len(q) : g[i] = m
          BY <3>0, <3>3, <5>1 DEF Places
        <5>. QED BY <3>0, <5>2
      <4>. QED BY <4>1, <4>2
    <3>9. Places(g, r, s, T, n + 1)
      BY <3>2, <3>4, <3>6, <3>7, <3>8 DEF Places
    <3>. QED BY <3>1, <3>9
  <2>. QED BY <2>6, <2>7
<1>4. N = Nat
  <2>1. N \in SUBSET Nat
    OBVIOUS
  <2>. HIDE DEF N
  <2>. QED BY <1>2, <1>3, <2>1, SetInduction
<1>5. Len(s) \in N /\ Len(s) \in 0 .. Len(s)
  BY <1>4
<1>. QED BY <1>1, <1>5

\* The elements of s that are in T are those that are selected, each from a place
\* of its own and in the order of their places in s.
THEOREM SelectedElements ==
  ASSUME NEW S, NEW s \in Seq(S), NEW T
  PROVE  /\ Selected(s, T) \in Seq(S) /\ ToSet(Selected(s, T)) = ToSet(s) \cap T
         /\ \E h : Places(h, Selected(s, T), s, T, Len(s))
<1>. DEFINE q == Selected(s, T)
<1>1. q \in Seq(S)
  BY SelectedFromPlaces
<1>2. PICK h : Places(h, q, s, T, Len(s))
  BY SelectedFromPlaces
<1>3. DOMAIN q = 1 .. Len(q) /\ DOMAIN s = 1 .. Len(s)
  BY <1>1
<1>. HIDE DEF q
<1>4. ToSet(q) \subseteq ToSet(s) \cap T
  BY <1>2, <1>3 DEF Places, ToSet
<1>5. ToSet(s) \cap T \subseteq ToSet(q)
  BY <1>2, <1>3 DEF Places, ToSet
<1>. QED BY <1>1, <1>2, <1>4, <1>5 DEF q

\* What differs in s differs in what is selected, by whatever key g.
THEOREM SelectedKeepsKeys ==
  ASSUME NEW S, NEW s \in Seq(S), NEW T, NEW g,
         \A i, j \in DOMAIN s : g[s[i]] = g[s[j]] => i = j
  PROVE  \A i, j \in DOMAIN Selected(s, T) : g[Selected(s, T)[i]] = g[Selected(s, T)[j]] => i = j
<1>. DEFINE q == Selected(s, T)
<1>1. q \in Seq(S)
  BY SelectedFromPlaces
<1>2. PICK h : Places(h, q, s, T, Len(s))
  BY SelectedFromPlaces
<1>3. DOMAIN q = 1 .. Len(q) /\ DOMAIN s = 1 .. Len(s) /\ Len(q) \in Nat
  BY <1>1
<1>. HIDE DEF q
<1>4. ASSUME NEW i \in 1 .. Len(q), NEW j \in 1 .. Len(q), g[q[i]] = g[q[j]] PROVE i = j
  <2>1. h[i] \in 1 .. Len(s) /\ h[j] \in 1 .. Len(s) /\ q[i] = s[h[i]] /\ q[j] = s[h[j]]
    BY <1>2 DEF Places
  <2>2. h[i] = h[j]
    BY <1>3, <1>4, <2>1
  <2>3. ~ (i < j) /\ ~ (j < i)
    BY <1>2, <2>1, <2>2 DEF Places
  <2>. QED BY <1>3, <2>3
<1>. QED BY <1>3, <1>4 DEF q

-----------------------------------------------------------------------------
\* Other facts about sequences, of stacks of calls above all.
LEMMA FrontFacts ==
  ASSUME NEW S, NEW s \in Seq(S), s # <<>>
  PROVE  /\ Front(s) \in Seq(S) /\ Len(Front(s)) = Len(s) - 1
         /\ \A k \in 1 .. Len(s) - 1 : Front(s)[k] = s[k]
         /\ Last(s) = s[Len(s)] /\ Last(s) \in S /\ Len(s) \in Nat \ {0}
<1>1. Len(s) \in Nat \ {0} /\ \A i \in 1 .. Len(s) : s[i] \in S
  BY EmptySeq
<1>2. Len(s) - 1 \in Int /\ 1 \in Int /\ \A i \in 1 .. Len(s) - 1 : s[i] \in S
  BY <1>1
<1>. DEFINE q == SubSeq(s, 1, Len(s) - 1)
<1>3. /\ q \in Seq(S)
      /\ Len(q) = IF 1 <= Len(s) - 1 THEN (Len(s) - 1) - 1 + 1 ELSE 0
      /\ \A i \in 1 .. (Len(s) - 1) - 1 + 1 : q[i] = s[1 + i - 1]
  BY <1>2, SubSeqProperties
<1>4. Last(s) = s[Len(s)] /\ Last(s) \in S
  BY <1>1 DEF Last
<1>. HIDE DEF q
<1>5. Len(q) = Len(s) - 1
  <2>1. \A n \in Nat \ {0} : (IF 1 <= n - 1 THEN (n - 1) - 1 + 1 ELSE 0) = n - 1
    OBVIOUS
  <2>. QED BY <1>1, <1>3, <2>1, Zenon
<1>6. ASSUME NEW k \in 1 .. Len(s) - 1 PROVE q[k] = s[k]
  <2>1. k \in 1 .. (Len(s) - 1) - 1 + 1 /\ 1 + k - 1 = k
    BY <1>1
  <2>. QED BY <1>3, <2>1
<1>. QED BY <1>1, <1>3, <1>4, <1>5, <1>6 DEF Front, q

LEMMA TailElements ==
  ASSUME NEW S, NEW s \in Seq(S), s # <<>>
  PROVE  /\ Head(s) \in S /\ Tail(s) \in Seq(S) /\ Head(s) \in ToSet(s)
         /\ ToSet(s) = ToSet(Tail(s)) \cup {Head(s)}
<1>1. /\ Head(s) \in S /\ Tail(s) \in Seq(S) /\ Len(Tail(s)) = Len(s) - 1
      /\ \A i \in 1 .. Len(Tail(s)) : Tail(s)[i] = s[i + 1]
  BY HeadTailProperties
<1>2. Len(s) \in Nat \ {0} /\ Head(s) = s[1] /\ DOMAIN s = 1 .. Len(s)
  BY EmptySeq
<1>3. DOMAIN Tail(s) = 1 .. Len(s) - 1
  BY <1>1
<1>4. ToSet(Tail(s)) \cup {Head(s)} \subseteq ToSet(s)
  BY <1>1, <1>2, <1>3 DEF ToSet
<1>5. ASSUME NEW i \in DOMAIN s PROVE s[i] \in ToSet(Tail(s)) \cup {Head(s)}
  <2>1. CASE i = 1
    BY <1>2, <2>1
  <2>2. CASE i # 1
    <3>1. i - 1 \in 1 .. Len(s) - 1 /\ Tail(s)[i - 1] = s[i]
      BY <1>1, <1>2, <2>2
    <3>. QED BY <1>3, <3>1 DEF ToSet
  <2>. QED BY <2>1, <2>2
<1>. QED BY <1>1, <1>2, <1>4, <1>5 DEF ToSet

LEMMA AppendElements ==
  ASSUME NEW S, NEW s \in Seq(S), NEW e \in S
  PROVE  Append(s, e) \in Seq(S) /\ ToSet(Append(s, e)) = ToSet(s) \cup {e}
<1>1. /\ Append(s, e) \in Seq(S) /\ Len(Append(s, e)) = Len(s) + 1 /\ Append(s, e)[Len(s) + 1] = e
      /\ \A i \in 1 .. Len(s) : Append(s, e)[i] = s[i]
  BY AppendProperties
<1>2. /\ Len(s) \in Nat /\ DOMAIN s = 1 .. Len(s)
      /\ DOMAIN Append(s, e) = 1 .. Len(s) + 1
  BY <1>1
<1>3. \A i \in 1 .. Len(s) + 1 : i = Len(s) + 1 \/ i \in 1 .. Len(s)
  BY <1>2
<1>. QED BY <1>1, <1>2, <1>3 DEF ToSet

\* An order of a finite set has its elements.
LEMMA OrderedElements ==
  ASSUME NEW S, IsFiniteSet(S), NEW s \in SetToSeqs(S)
  PROVE  s \in Seq(S) /\ ToSet(s) = S
<1>. DEFINE D == 1 .. Cardinality(S)
<1>1. Cardinality(S) \in Nat
  BY FS_CardinalityType
<1>2. s \in [D -> S] /\ \A i, j \in D : i # j => s[i] # s[j]
  BY DEF SetToSeqs
<1>3. s \in Injection(D, S)
  BY <1>2, Zenon DEF Injection, IsInjective
<1>4. Cardinality(D) = Cardinality(S)
  BY <1>1, FS_Interval
<1>5. s \in Surjection(D, S)
  BY <1>3, <1>4, FS_Injection
<1>6. \A e \in S : \E i \in D : s[i] = e
  BY <1>5 DEF Surjection
<1>7. s \in Seq(S)
  BY <1>1, <1>2
<1>. QED BY <1>2, <1>6, <1>7 DEF ToSet

\* Elements that differ in rank can be put in its order.
Sorted(s, L, rank) ==
    /\ s \in [1 .. Cardinality(L) -> L]
    /\ \A i, j \in 1 .. Cardinality(L) : i < j => rank[s[i]] < rank[s[j]]

LEMMA OrderExists ==
  ASSUME NEW S, NEW rank \in [S -> Nat], \A k, l \in S : rank[k] = rank[l] => k = l,
         NEW L \in SUBSET S, IsFiniteSet(L)
  PROVE  \E s \in SetToSeqs(L) : \A i, j \in DOMAIN s : i < j => rank[s[i]] < rank[s[j]]
<1>. DEFINE N == {n \in Nat : \A K \in SUBSET S : IsFiniteSet(K) /\ Cardinality(K) = n =>
                                    \E s : Sorted(s, K, rank)}
<1>1. 0 \in N
  <2>1. SUFFICES ASSUME NEW K \in SUBSET S, IsFiniteSet(K), Cardinality(K) = 0
                 PROVE  \E s : Sorted(s, K, rank)
    OBVIOUS
  <2>2. 1 .. Cardinality(K) = {}
    BY <2>1
  <2>3. [i \in {} |-> i] \in [{} -> K]
    OBVIOUS
  <2>4. Sorted([i \in {} |-> i], K, rank)
    BY <2>2, <2>3 DEF Sorted
  <2>. QED BY <2>4
<1>2. ASSUME NEW n \in N PROVE n + 1 \in N
  <2>1. SUFFICES ASSUME NEW K \in SUBSET S, IsFiniteSet(K), Cardinality(K) = n + 1
                 PROVE  \E s : Sorted(s, K, rank)
    BY <1>2
  <2>2. K # {} /\ n \in Nat
    BY <2>1, FS_EmptySet
  <2>3. PICK l \in K : \A k \in K : rank[l] <= rank[k]
    <3>. DEFINE R == {rank[k] : k \in K}
    <3>1. R \in SUBSET Nat /\ R # {}
      BY <2>2
    <3>. HIDE DEF R
    <3>2. PICK m \in R : \A k \in R : m <= k
      BY <3>1, LeastNumber
    <3>. QED BY <3>2 DEF R
  <2>. DEFINE M == K \ {l}
  <2>4. IsFiniteSet(M) /\ Cardinality(M) = n /\ M \in SUBSET S
    <3>1. IsFiniteSet(M) /\ Cardinality(M) = Cardinality(K) - 1
      BY <2>1, FS_RemoveElement
    <3>. QED BY <2>1, <2>2, <3>1
  <2>5. PICK s : Sorted(s, M, rank)
    BY <1>2, <2>4
  <2>. HIDE DEF M
  <2>6. /\ s \in [1 .. n -> M]
        /\ \A i, j \in 1 .. n : i < j => rank[s[i]] < rank[s[j]]
    BY <2>4, <2>5 DEF Sorted
  <2>7. \A k \in M : k \in K /\ rank[l] < rank[k]
    BY <2>3 DEF M
  <2>. DEFINE q == [i \in 1 .. n + 1 |-> IF i = 1 THEN l ELSE s[i - 1]]
  <2>8. q[1] = l /\ \A i \in 2 .. n + 1 : i - 1 \in 1 .. n /\ q[i] = s[i - 1]
    BY <2>2
  <2>9. q \in [1 .. n + 1 -> K]
    BY <2>2, <2>6, <2>7
  <2>. HIDE DEF q
  <2>10. ASSUME NEW i \in 1 .. n + 1, NEW j \in 1 .. n + 1, i < j
         PROVE  rank[q[i]] < rank[q[j]]
    <3>1. j \in 2 .. n + 1 /\ (i = 1 \/ i \in 2 .. n + 1)
      BY <2>2, <2>10
    <3>2. CASE i = 1
      BY <2>6, <2>7, <2>8, <3>1, <3>2
    <3>3. CASE i \in 2 .. n + 1
      BY <2>2, <2>6, <2>8, <2>10, <3>1, <3>3
    <3>. QED BY <3>1, <3>2, <3>3
  <2>11. Sorted(q, K, rank)
    BY <2>1, <2>9, <2>10 DEF Sorted
  <2>. QED BY <2>11
<1>3. Cardinality(L) \in Nat /\ N \in SUBSET Nat
  BY FS_CardinalityType
<1>4. Cardinality(L) \in N
  <2>. HIDE DEF N
  <2>. QED BY <1>1, <1>2, <1>3, SetInduction
<1>5. PICK s : Sorted(s, L, rank)
  BY <1>4
<1>6. s \in [1 .. Cardinality(L) -> L]
      /\ \A i, j \in 1 .. Cardinality(L) : i < j => rank[s[i]] < rank[s[j]]
  BY <1>5 DEF Sorted
<1>7. ASSUME NEW i \in 1 .. Cardinality(L), NEW j \in 1 .. Cardinality(L), i # j
      PROVE  s[i] # s[j]
  <2>1. i < j \/ j < i
    BY <1>3, <1>7
  <2>2. rank[s[i]] \in Nat /\ rank[s[j]] \in Nat
    BY <1>6
  <2>. QED BY <1>6, <2>1, <2>2
<1>8. s \in SetToSeqs(L)
  BY <1>6, <1>7 DEF SetToSeqs
<1>9. DOMAIN s = 1 .. Cardinality(L)
  BY <1>6
<1>. QED BY <1>6, <1>8, <1>9
=============================================================================
