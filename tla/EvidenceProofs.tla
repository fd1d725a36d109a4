--------------------------- MODULE EvidenceProofs ---------------------------
(***************************************************************************)
(* What is proved of the evidence of an answer: of a turn of the chat, of  *)
(* the entity graph, and of the chunks a document is cut into.  All of     *)
(* them arrange and join sequences, so they share what is proved of those, *)
(* which comes first.                                                      *)
(***************************************************************************)
EXTENDS ChatTurn, EntityGraph, Ingestion, FiniteSetTheorems, TLAPS

-----------------------------------------------------------------------------
(* Sequences that are arranged by an order.                                  *)

\* R is a strict total order of the elements of I.
Orders(R, I) ==
  /\ \A i \in I : <<i, i>> \notin R
  /\ \A i, j \in I : i # j => <<i, j>> \in R \/ <<j, i>> \in R
  /\ \A i, j, k \in I : <<i, j>> \in R /\ <<j, k>> \in R => <<i, k>> \in R

Rank(R, I, i) == Cardinality({j \in I : <<j, i>> \in R})

\* The number of smaller elements tells the elements of an ordered set apart,
\* and each number below the cardinality is that of one of them.
LEMMA Ranks ==
  ASSUME NEW I, IsFiniteSet(I), NEW R,
         Orders(R, I)
  PROVE  /\ \A k \in 1..Cardinality(I) : \E i \in I : Rank(R, I, i) = k - 1
         /\ \A i \in I : Rank(R, I, i) \in 0..(Cardinality(I) - 1)
         /\ \A i, j \in I : <<i, j>> \in R => Rank(R, I, i) < Rank(R, I, j)
PROOF
<1> USE DEF Orders
<1> DEFINE below(i) == {j \in I : <<j, i>> \in R}
<1> DEFINE n == Cardinality(I)
<1> DEFINE f == [i \in I |-> Cardinality(below(i))]
<1>1. n \in Nat
  BY FS_CardinalityType
<1>2. ASSUME NEW i \in I PROVE IsFiniteSet(below(i)) /\ Cardinality(below(i)) \in 0..(n - 1)
  <2>1. below(i) \subseteq I /\ i \notin below(i)
    OBVIOUS
  <2>2. IsFiniteSet(below(i)) /\ Cardinality(below(i)) <= n /\ Cardinality(below(i)) # n
    BY <1>1, <2>1, FS_Subset
  <2>3. Cardinality(below(i)) \in Nat
    BY <2>2, FS_CardinalityType
  <2> HIDE DEF below, n
  <2> QED BY <1>1, <2>2, <2>3
<1>3. ASSUME NEW i \in I, NEW j \in I, <<i, j>> \in R PROVE Cardinality(below(i)) < Cardinality(below(j))
  <2>1. below(i) \subseteq below(j) /\ i \in below(j) /\ i \notin below(i)
    BY <1>3
  <2>2. Cardinality(below(i)) <= Cardinality(below(j)) /\ Cardinality(below(i)) # Cardinality(below(j))
    BY <1>2, <2>1, FS_Subset
  <2>3. Cardinality(below(i)) \in Nat /\ Cardinality(below(j)) \in Nat
    BY <1>2, FS_CardinalityType
  <2> HIDE DEF below
  <2> QED BY <2>2, <2>3
<1>4. f \in [I -> 0..(n - 1)]
  <2> HIDE DEF below, n
  <2> QED BY <1>2
<1>5. \A i, j \in I : f[i] = f[j] => i = j
  <2> SUFFICES ASSUME NEW i \in I, NEW j \in I, i # j PROVE f[i] # f[j]
    OBVIOUS
  <2>1. <<i, j>> \in R \/ <<j, i>> \in R
    OBVIOUS
  <2>2. Cardinality(below(i)) \in Int /\ Cardinality(below(j)) \in Int
    <3>1. \A x \in 0..(n - 1) : x \in Int
      OBVIOUS
    <3> HIDE DEF below, n
    <3> QED BY <1>2, <3>1
  <2>3. f[i] = Cardinality(below(i)) /\ f[j] = Cardinality(below(j))
    OBVIOUS
  <2>4. Cardinality(below(i)) < Cardinality(below(j)) \/ Cardinality(below(j)) < Cardinality(below(i))
    BY <1>3, <2>1
  <2> HIDE DEF below, f
  <2> QED BY <2>2, <2>3, <2>4
<1>6. f \in Injection(I, 0..(n - 1))
  <2> HIDE DEF f, n
  <2> QED BY <1>4, <1>5 DEF Injection, IsInjective
<1>7. IsFiniteSet(0..(n - 1)) /\ Cardinality(0..(n - 1)) = n
  <2> HIDE DEF n
  <2> QED BY <1>1, FS_Interval
<1>8. f \in Surjection(I, 0..(n - 1))
  <2> HIDE DEF f
  <2> QED BY <1>6, <1>7, FS_Injection
<1>9. ASSUME NEW k \in 1..n PROVE \E i \in I : Cardinality(below(i)) = k - 1
  <2>1. k - 1 \in 0..(n - 1)
    <3> HIDE DEF n
    <3> QED BY <1>1
  <2>2. \E i \in I : f[i] = k - 1
    <3> HIDE DEF f, n
    <3> QED BY <1>8, <2>1 DEF Surjection
  <2> QED BY <2>2
<1>10. \A i \in I : Cardinality(below(i)) \in 0..(n - 1)
  <2> HIDE DEF below, n
  <2> QED BY <1>2
<1>11. \A i, j \in I : <<i, j>> \in R => Cardinality(below(i)) < Cardinality(below(j))
  <2> HIDE DEF below
  <2> QED BY <1>3
<1>12. \A i : Rank(R, I, i) = Cardinality(below(i))
  BY DEF Rank
<1> HIDE DEF below
<1> QED BY <1>9, <1>10, <1>11, <1>12

\* The elements at some places of a sequence.
Elements(s, I) == {s[i] : i \in I}

LEMMA ArrangedIs ==
  ASSUME NEW T, NEW s \in Seq(T), NEW I \in SUBSET DOMAIN s, NEW R,
         Orders(R, I)
  PROVE  /\ IsFiniteSet(I) /\ Cardinality(I) \in Nat
         /\ Arranged(s, I, R) \in Seq(Elements(s, I))
         /\ Len(Arranged(s, I, R)) = Cardinality(I)
PROOF
<1> DEFINE at(k) == CHOOSE i \in I : Rank(R, I, i) = k - 1
<1> DEFINE n == Cardinality(I)
<1>1. IsFiniteSet(I)
  <2>1. DOMAIN s = 1..Len(s) /\ Len(s) \in Nat
    OBVIOUS
  <2>2. IsFiniteSet(DOMAIN s)
    BY <2>1, FS_Interval
  <2> QED BY <2>2, FS_Subset
<1>2. n \in Nat
  BY <1>1, FS_CardinalityType
<1>3. ASSUME NEW k \in 1..n PROVE at(k) \in I
  <2>1. \E i \in I : Rank(R, I, i) = k - 1
    BY <1>1, Ranks
  <2> QED BY <2>1
<1>4. Arranged(s, I, R) = [k \in 1..n |-> s[at(k)]]
  BY DEF Arranged, Rank
<1>5. [k \in 1..n |-> s[at(k)]] \in Seq(Elements(s, I)) /\ Len([k \in 1..n |-> s[at(k)]]) = n
  <2> HIDE DEF n, at
  <2>1. \A k \in 1..n : s[at(k)] \in Elements(s, I)
    BY <1>3 DEF Elements
  <2> QED BY <1>2, <2>1
<1> QED BY <1>1, <1>2, <1>4, <1>5

LEMMA AmongIs ==
  ASSUME NEW T, NEW s \in Seq(T), NEW I \in SUBSET DOMAIN s
  PROVE  Among(s, I) \in Seq(Elements(s, I))
PROOF
<1> DEFINE R == InTurn(I)
<1>1. \A i \in I : i \in Int
  OBVIOUS
<1>2. Orders(R, I)
  BY <1>1 DEF InTurn, Orders
<1>3. Among(s, I) = Arranged(s, I, R)
  BY DEF Among
<1> HIDE DEF R
<1>4. I \in SUBSET DOMAIN s
  OBVIOUS
<1> QED BY <1>2, <1>3, <1>4, ArrangedIs

LEMMA SortedIs ==
  ASSUME NEW T, NEW s \in Seq(T), NEW score \in [DOMAIN s -> Int]
  PROVE  Sorted(s, score) \in Seq(T) /\ Len(Sorted(s, score)) = Len(s)
PROOF
<1> DEFINE R == BestFirst(score)
<1>1. \A i \in DOMAIN s : i \in Int /\ score[i] \in Int
  OBVIOUS
<1>2. \A i, j \in DOMAIN s :
        <<i, j>> \in R <=> score[i] > score[j] \/ (score[i] = score[j] /\ i < j)
  BY DEF BestFirst
<1>3. Sorted(s, score) = Arranged(s, DOMAIN s, R)
  BY DEF Sorted
<1> HIDE DEF R
<1>4. \A i \in DOMAIN s : <<i, i>> \notin R
  BY <1>1, <1>2
<1>5. \A i, j \in DOMAIN s : i # j => <<i, j>> \in R \/ <<j, i>> \in R
  BY <1>1, <1>2
<1>6. \A i, j, k \in DOMAIN s : <<i, j>> \in R /\ <<j, k>> \in R => <<i, k>> \in R
  <2> SUFFICES ASSUME NEW i \in DOMAIN s, NEW j \in DOMAIN s, NEW k \in DOMAIN s,
                      <<i, j>> \in R, <<j, k>> \in R
               PROVE  <<i, k>> \in R
    OBVIOUS
  <2>1. /\ score[i] > score[j] \/ (score[i] = score[j] /\ i < j)
        /\ score[j] > score[k] \/ (score[j] = score[k] /\ j < k)
    BY <1>2
  <2> QED BY <1>1, <1>2, <2>1
<1>7. Orders(R, DOMAIN s)
  BY <1>4, <1>5, <1>6 DEF Orders
<1>10. Sorted(s, score) \in Seq(Elements(s, DOMAIN s)) /\ Len(Sorted(s, score)) = Cardinality(DOMAIN s)
  <2>1. DOMAIN s \in SUBSET DOMAIN s
    OBVIOUS
  <2> QED BY <1>3, <1>7, <2>1, ArrangedIs
<1>8. Elements(s, DOMAIN s) \subseteq T
  BY DEF Elements
<1>9. Cardinality(DOMAIN s) = Len(s)
  <2>1. Len(s) \in Nat /\ DOMAIN s = 1..Len(s)
    OBVIOUS
  <2>2. Cardinality(1..Len(s)) = IF 1 > Len(s) THEN 0 ELSE Len(s) - 1 + 1
    BY <2>1, FS_Interval
  <2> QED BY <2>1, <2>2
<1> QED BY <1>8, <1>9, <1>10

LEMMA FirstIs ==
  ASSUME NEW T, NEW s \in Seq(T), NEW n \in Nat
  PROVE  First(s, n) \in Seq(T)
PROOF
<1>1. Least(n, Len(s)) \in 0..Len(s)
  BY DEF Least
<1> QED BY <1>1 DEF First

-----------------------------------------------------------------------------
(* Functions that are defined along the naturals.                            *)

LEMMA NatInduct ==
  ASSUME NEW S, 0 \in S, \A n \in Nat : n \in S => n + 1 \in S
  PROVE  Nat \subseteq S
PROOF
<1> SUFFICES ASSUME Nat \ S # {} PROVE FALSE
  OBVIOUS
<1> DEFINE R == OpToRel(<, Nat)
<1>1. \A x, y \in Nat : <<x, y>> \in R <=> x < y
  BY DEF OpToRel
<1>2. PICK x \in Nat \ S : \A y \in Nat \ S : <<y, x>> \notin R
  <2>1. IsWellFoundedOn(R, Nat)
    BY NatLessThanWellFounded
  <2> HIDE DEF R
  <2> QED BY <2>1, WFMin
<1> HIDE DEF R
<1>3. x \in Nat /\ x # 0
  OBVIOUS
<1>4. x - 1 \in Nat /\ x - 1 < x /\ (x - 1) + 1 = x
  BY <1>3
<1>5. <<x - 1, x>> \in R
  BY <1>1, <1>3, <1>4
<1>6. x - 1 \in S
  BY <1>2, <1>4, <1>5
<1> QED BY <1>2, <1>4, <1>6

\* A step that is defined everywhere can be repeated.
Steps(n, S, base, step) ==
  {f \in [0..n -> S] : f[0] = base /\ \A i \in 1..n : f[i] = step[<<i, f[i - 1]>>]}

LEMMA Repeats ==
  ASSUME NEW n \in Nat, NEW S, NEW base \in S, NEW step \in [(1..n) \X S -> S]
  PROVE  Steps(n, S, base, step) # {}
PROOF
<1> DEFINE Runs(m, f) == f[0] = base /\ \A i \in 1..m : f[i] = step[<<i, f[i - 1]>>]
<1> DEFINE Good == {m \in Nat : m <= n => \E f \in [0..m -> S] : Runs(m, f)}
<1>1. 0 \in Good
  <2> DEFINE f == [i \in 0..0 |-> base]
  <2>1. f \in [0..0 -> S] /\ Runs(0, f)
    OBVIOUS
  <2> HIDE DEF f, Runs
  <2> QED BY <2>1
<1>2. ASSUME NEW m \in Nat, m \in Good PROVE m + 1 \in Good
  <2> SUFFICES ASSUME m + 1 <= n PROVE \E f \in [0..(m + 1) -> S] : Runs(m + 1, f)
    <3> HIDE DEF Runs
    <3> QED OBVIOUS
  <2>1. PICK f \in [0..m -> S] : Runs(m, f)
    <3> HIDE DEF Runs
    <3> QED BY <1>2
  <2> DEFINE g == [i \in 0..(m + 1) |-> IF i = m + 1 THEN step[<<m + 1, f[m]>>] ELSE f[i]]
  <2>2. f[m] \in S /\ step[<<m + 1, f[m]>>] \in S
    OBVIOUS
  <2>3. g \in [0..(m + 1) -> S]
    BY <2>2
  <2>4. g[0] = base
    BY <2>1
  <2>5. ASSUME NEW i \in 1..(m + 1) PROVE g[i] = step[<<i, g[i - 1]>>]
    <3>1. CASE i = m + 1
      <4>1. i - 1 = m /\ m \in 0..(m + 1) /\ m # m + 1
        BY <3>1
      <4>2. g[i - 1] = f[m]
        BY <4>1
      <4>3. g[i] = step[<<i, f[m]>>]
        BY <3>1
      <4> QED BY <4>2, <4>3
    <3>2. CASE i \in 1..m
      BY <2>1, <3>2
    <3> QED BY <3>1, <3>2
  <2> QED BY <2>3, <2>4, <2>5
<1>3. Nat \subseteq Good
  <2> HIDE DEF Good
  <2> QED BY <1>1, <1>2, NatInduct
<1>4. \E f \in [0..n -> S] : Runs(n, f)
  <2> HIDE DEF Runs
  <2> QED BY <1>3
<1> QED BY <1>4 DEF Steps

\* A bounded set of naturals that is not empty has a greatest element.
LEMMA Greatest ==
  ASSUME NEW n \in Nat, NEW S \in SUBSET (0..n), S # {}
  PROVE  \E m \in S : \A k \in S : k <= m
PROOF
<1> DEFINE Free == {k \in Nat : \A x \in S : x <= n - k}
<1>1. 0 \in Free
  OBVIOUS
<1>2. \E k \in Free : k + 1 \notin Free
  <2> SUFFICES ASSUME \A k \in Free : k + 1 \in Free PROVE FALSE
    OBVIOUS
  <2>1. Nat \subseteq Free
    <3>1. \A k \in Nat : k \in Free => k + 1 \in Free
      OBVIOUS
    <3> HIDE DEF Free
    <3> QED BY <1>1, <3>1, NatInduct
  <2>2. n + 1 \in Free
    BY <2>1
  <2>3. PICK x \in S : TRUE
    OBVIOUS
  <2>4. x <= n - (n + 1) /\ x \in 0..n
    BY <2>2, <2>3
  <2> QED BY <2>4
<1>3. PICK k \in Free : k + 1 \notin Free
  BY <1>2
<1>4. PICK x \in S : ~(x <= n - (k + 1))
  BY <1>3
<1> QED BY <1>3, <1>4

LEMMA SumsAre ==
  ASSUME NEW T, NEW f \in [T -> Nat], NEW s \in Seq(T)
  PROVE  /\ Sums(f, s) \in [0..Len(s) -> Nat] /\ Sums(f, s)[0] = 0
         /\ \A i \in 1..Len(s) : Sums(f, s)[i] = Sums(f, s)[i - 1] + f[s[i]]
PROOF
<1> DEFINE n == Len(s)
<1> DEFINE Is(g) == g = [i \in 0..n |-> IF i = 0 THEN 0 ELSE g[i - 1] + f[s[i]]]
<1>1. n \in Nat /\ \A i \in 1..n : f[s[i]] \in Nat
  OBVIOUS
<1>2. \E g \in [0..n -> Nat] : Is(g)
  <2> DEFINE step == [p \in (1..n) \X Nat |-> p[2] + f[s[p[1]]]]
  <2>1. step \in [(1..n) \X Nat -> Nat]
    BY <1>1
  <2>2. \A i \in 1..n, a \in Nat : step[<<i, a>>] = a + f[s[i]]
    OBVIOUS
  <2> HIDE DEF step
  <2>3. PICK g \in [0..n -> Nat] : g[0] = 0 /\ \A i \in 1..n : g[i] = step[<<i, g[i - 1]>>]
    <3>1. 0 \in Nat /\ n \in Nat
      OBVIOUS
    <3> HIDE DEF n
    <3>2. Steps(n, Nat, 0, step) # {}
      BY <2>1, <3>1, Repeats
    <3> QED BY <3>2 DEF Steps
  <2>4. \A i \in 1..n : g[i - 1] \in Nat /\ g[i] = g[i - 1] + f[s[i]]
    <3> SUFFICES ASSUME NEW i \in 1..n PROVE g[i - 1] \in Nat /\ g[i] = g[i - 1] + f[s[i]]
      OBVIOUS
    <3> HIDE DEF n
    <3>1. i - 1 \in 0..n
      BY <1>1
    <3> QED BY <2>2, <2>3, <3>1
  <2>5. Is(g)
    <3> HIDE DEF n
    <3> QED BY <1>1, <2>3, <2>4
  <2> QED BY <2>5
<1>3. Sums(f, s) = CHOOSE g : Is(g)
  BY DEF Sums
<1>4. Is(Sums(f, s))
  <2>1. \E g : Is(g)
    BY <1>2
  <2> HIDE DEF Is
  <2> QED BY <1>3, <2>1
<1> DEFINE g == Sums(f, s)
<1>5. g[0] = 0 /\ (\A i \in 1..n : g[i] = g[i - 1] + f[s[i]]) /\ DOMAIN g = 0..n /\ g = [i \in 0..n |-> g[i]]
  <2>1. g = [i \in 0..n |-> IF i = 0 THEN 0 ELSE g[i - 1] + f[s[i]]]
    BY <1>4
  <2> HIDE DEF g, n
  <2>2. \A i \in 0..n : g[i] = IF i = 0 THEN 0 ELSE g[i - 1] + f[s[i]]
    BY <2>1, Zenon
  <2>3. DOMAIN g = 0..n /\ g = [i \in 0..n |-> g[i]]
    BY <2>1, Zenon
  <2>4. 0 \in 0..n /\ \A i \in 1..n : i \in 0..n /\ i # 0
    BY <1>1
  <2> QED BY <2>2, <2>3, <2>4, Zenon
<1>6. \A i \in Nat : i <= n => g[i] \in Nat
  <2> DEFINE S == {i \in Nat : i <= n => g[i] \in Nat}
  <2>1. 0 \in S /\ \A i \in Nat : i \in S => i + 1 \in S
    <3> HIDE DEF g, n
    <3>1. 0 \in S
      BY <1>5
    <3>2. ASSUME NEW i \in Nat, i \in S, i + 1 <= n PROVE g[i + 1] \in Nat
      <4>1. g[i] \in Nat /\ i + 1 \in 1..n /\ (i + 1) - 1 = i
        BY <1>1, <3>2
      <4>2. g[i + 1] = g[i] + f[s[i + 1]]
        BY <1>5, <4>1
      <4> QED BY <1>1, <4>1, <4>2
    <3> QED BY <3>1, <3>2
  <2>2. Nat \subseteq S
    <3> HIDE DEF S
    <3> QED BY <2>1, NatInduct
  <2> QED BY <2>2
<1>7. g \in [0..n -> Nat]
  <2>1. \A i \in 0..n : g[i] \in Nat
    <3> HIDE DEF g, n
    <3> QED BY <1>1, <1>6
  <2> HIDE DEF g, n
  <2> QED BY <1>5, <2>1
<1> QED BY <1>5, <1>7

\* An arrangement visits every place once, and an earlier place before a later one.
LEMMA ArrangedPlaces ==
  ASSUME NEW T, NEW s \in Seq(T), NEW I \in SUBSET DOMAIN s, NEW R,
         Orders(R, I)
  PROVE  \E f \in [1..Cardinality(I) -> I] :
           /\ Arranged(s, I, R) = [k \in 1..Cardinality(I) |-> s[f[k]]]
           /\ \A i \in I : \E k \in 1..Cardinality(I) : f[k] = i
           /\ \A k, l \in 1..Cardinality(I) : k < l => <<f[k], f[l]>> \in R
PROOF
<1> DEFINE rank(i) == Rank(R, I, i)
<1> DEFINE n == Cardinality(I)
<1> DEFINE f == [k \in 1..n |-> CHOOSE i \in I : rank(i) = k - 1]
<1>1. IsFiniteSet(I) /\ n \in Nat
  BY ArrangedIs
<1>2. /\ \A k \in 1..n : \E i \in I : rank(i) = k - 1
      /\ \A i \in I : rank(i) \in 0..(n - 1)
      /\ \A i, j \in I : <<i, j>> \in R => rank(i) < rank(j)
  BY <1>1, Ranks
<1>3. Arranged(s, I, R) = [k \in 1..n |-> s[f[k]]]
  BY DEF Arranged, Rank
<1> HIDE DEF rank, n
<1>4. \A k \in 1..n : f[k] \in I /\ rank(f[k]) = k - 1
  BY <1>2
<1>5. f \in [1..n -> I]
  BY <1>4
<1> HIDE DEF f
<1>6. ASSUME NEW i \in I PROVE \E k \in 1..n : f[k] = i
  <2> DEFINE k == rank(i) + 1
  <2>1. rank(i) \in 0..(n - 1)
    BY <1>2
  <2>2. k \in 1..n /\ k - 1 = rank(i)
    BY <1>1, <2>1
  <2> HIDE DEF k
  <2>3. f[k] \in I /\ rank(f[k]) = rank(i)
    BY <1>4, <2>2
  <2>4. rank(f[k]) \in Int /\ ~(rank(i) < rank(f[k])) /\ ~(rank(f[k]) < rank(i))
    BY <1>1, <2>1, <2>3
  <2>5. f[k] = i
    BY <1>2, <2>3, <2>4 DEF Orders
  <2> QED BY <2>2, <2>5
<1>7. ASSUME NEW k \in 1..n, NEW l \in 1..n, k < l PROVE <<f[k], f[l]>> \in R
  <2>1. f[k] \in I /\ f[l] \in I /\ rank(f[k]) = k - 1 /\ rank(f[l]) = l - 1
    BY <1>4
  <2>2. f[k] # f[l] /\ ~(rank(f[l]) < rank(f[k]))
    BY <1>1, <1>7, <2>1
  <2> QED BY <1>2, <2>1, <2>2 DEF Orders
<1> QED BY <1>3, <1>5, <1>6, <1>7 DEF n

\* What stands at some places is found at places in the same order.
LEMMA AmongPlaces ==
  ASSUME NEW T, NEW s \in Seq(T), NEW I \in SUBSET DOMAIN s
  PROVE  \E f \in [1..Cardinality(I) -> I] :
           /\ Cardinality(I) \in Nat
           /\ Among(s, I) = [k \in 1..Cardinality(I) |-> s[f[k]]]
           /\ \A i \in I : \E k \in 1..Cardinality(I) : f[k] = i
           /\ \A k, l \in 1..Cardinality(I) : k < l => f[k] < f[l]
PROOF
<1> DEFINE R == InTurn(I)
<1>1. \A i \in I : i \in Int
  OBVIOUS
<1>2. Orders(R, I) /\ \A i, j \in I : <<i, j>> \in R => i < j
  BY <1>1 DEF InTurn, Orders
<1>3. Among(s, I) = Arranged(s, I, R)
  BY DEF Among
<1> HIDE DEF R
<1>4. I \in SUBSET DOMAIN s
  OBVIOUS
<1>5. Cardinality(I) \in Nat
  BY <1>2, <1>4, ArrangedIs
<1>6. PICK f \in [1..Cardinality(I) -> I] :
           /\ Arranged(s, I, R) = [k \in 1..Cardinality(I) |-> s[f[k]]]
           /\ \A i \in I : \E k \in 1..Cardinality(I) : f[k] = i
           /\ \A k, l \in 1..Cardinality(I) : k < l => <<f[k], f[l]>> \in R
  BY <1>2, <1>4, ArrangedPlaces
<1>7. \A k, l \in 1..Cardinality(I) : k < l => f[k] < f[l]
  BY <1>2, <1>6
<1> QED BY <1>3, <1>5, <1>6, <1>7

\* What stands at places that each hold some property: the same elements, no more.
LEMMA AmongHas ==
  ASSUME NEW T, NEW s \in Seq(T), NEW I \in SUBSET DOMAIN s
  PROVE  Among(s, I) \in Seq(T) /\ ToSet(Among(s, I)) = {s[i] : i \in I}
PROOF
<1>1. PICK f \in [1..Cardinality(I) -> I] :
           /\ Cardinality(I) \in Nat
           /\ Among(s, I) = [k \in 1..Cardinality(I) |-> s[f[k]]]
           /\ \A i \in I : \E k \in 1..Cardinality(I) : f[k] = i
  BY AmongPlaces
<1>2. DOMAIN Among(s, I) = 1..Cardinality(I) /\ \A k \in 1..Cardinality(I) : Among(s, I)[k] = s[f[k]] /\ f[k] \in I
  BY <1>1
<1>3. ToSet(Among(s, I)) = {s[i] : i \in I}
  BY <1>1, <1>2 DEF ToSet
<1>4. Among(s, I) \in Seq(T)
  BY <1>1
<1> QED BY <1>3, <1>4

\* A finite set of numbers in order: each once, the smaller first.
LEMMA InOrderIs ==
  ASSUME NEW S \in SUBSET Nat, IsFiniteSet(S)
  PROVE  /\ InOrder(S) \in Seq(S) /\ Len(InOrder(S)) = Cardinality(S) /\ ToSet(InOrder(S)) = S
         /\ \A k, l \in DOMAIN InOrder(S) : k < l => InOrder(S)[k] < InOrder(S)[l]
PROOF
<1> DEFINE R == {p \in S \X S : p[1] < p[2]}
<1> DEFINE rank(i) == Rank(R, S, i)
<1> DEFINE n == Cardinality(S)
<1> DEFINE f == [k \in 1..n |-> CHOOSE i \in S : Cardinality({j \in S : j < i}) = k - 1]
<1>1. n \in Nat
  BY FS_CardinalityType
<1>2. Orders(R, S) /\ \A i, j \in S : <<i, j>> \in R <=> i < j
  BY DEF Orders
<1>3. \A i \in S : {j \in S : j < i} = {j \in S : <<j, i>> \in R}
  BY <1>2
<1>4. f = InOrder(S)
  BY DEF InOrder
<1> HIDE DEF R
<1>5. /\ \A k \in 1..n : \E i \in S : rank(i) = k - 1
      /\ \A i \in S : rank(i) \in 0..(n - 1)
      /\ \A i, j \in S : <<i, j>> \in R => rank(i) < rank(j)
  BY <1>2, Ranks
<1>6. \A i \in S : Cardinality({j \in S : j < i}) = rank(i)
  BY <1>3 DEF Rank
<1> HIDE DEF rank, n
<1>7. ASSUME NEW k \in 1..n PROVE f[k] \in S /\ rank(f[k]) = k - 1
  <2>1. \E i \in S : Cardinality({j \in S : j < i}) = k - 1
    BY <1>5, <1>6
  <2>2. f[k] \in S /\ Cardinality({j \in S : j < f[k]}) = k - 1
    BY <2>1
  <2> QED BY <1>6, <2>2
<1>8. f \in [1..n -> S]
  BY <1>7
<1> HIDE DEF f
<1>9. ASSUME NEW i \in S PROVE \E k \in 1..n : f[k] = i
  <2> DEFINE k == rank(i) + 1
  <2>1. rank(i) \in 0..(n - 1)
    BY <1>5
  <2>2. k \in 1..n /\ k - 1 = rank(i)
    BY <1>1, <2>1
  <2> HIDE DEF k
  <2>3. f[k] \in S /\ rank(f[k]) = rank(i)
    BY <1>7, <2>2
  <2>4. ~(rank(i) < rank(f[k])) /\ ~(rank(f[k]) < rank(i))
    BY <1>1, <2>1, <2>3
  <2>5. f[k] = i
    BY <1>2, <1>5, <2>3, <2>4 DEF Orders
  <2> QED BY <2>2, <2>5
<1>10. ASSUME NEW k \in 1..n, NEW l \in 1..n, k < l PROVE f[k] < f[l]
  <2>1. f[k] \in S /\ f[l] \in S /\ rank(f[k]) = k - 1 /\ rank(f[l]) = l - 1
    BY <1>7
  <2>2. f[k] # f[l] /\ ~(rank(f[l]) < rank(f[k]))
    BY <1>1, <1>10, <2>1
  <2> QED BY <1>2, <1>5, <2>1, <2>2 DEF Orders
<1>11. f \in Seq(S) /\ Len(f) = n /\ DOMAIN f = 1..n
  BY <1>1, <1>8
<1>12. ToSet(f) = S
  BY <1>8, <1>9, <1>11 DEF ToSet
<1> QED BY <1>4, <1>10, <1>11, <1>12 DEF n

LEMMA SetToSeqIs ==
  ASSUME NEW S, IsFiniteSet(S)
  PROVE  SetToSeq(S) \in Seq(S)
PROOF
<1> DEFINE n == Cardinality(S)
<1>1. n \in Nat
  BY FS_CardinalityType
<1>2. \E f \in [1..n -> S] : IsInjective(f)
  <2>1. ExistsBijection(1..n, S)
    BY FS_CardinalityType
  <2>2. PICK f \in Bijection(1..n, S) : TRUE
    BY <2>1 DEF ExistsBijection
  <2>3. f \in Injection(1..n, S)
    BY <2>2 DEF Bijection
  <2>4. f \in [1..n -> S] /\ \A a, b \in 1..n : f[a] = f[b] => a = b
    BY <2>3 DEF Injection, IsInjective
  <2>5. DOMAIN f = 1..n
    BY <2>4
  <2>6. IsInjective(f)
    BY <2>4, <2>5 DEF IsInjective
  <2> QED BY <2>4, <2>6
<1>3. SetToSeq(S) = CHOOSE f \in [1..n -> S] : IsInjective(f)
  BY DEF SetToSeq
<1>4. SetToSeq(S) \in [1..n -> S]
  <2> HIDE DEF n
  <2> QED BY <1>2, <1>3
<1> HIDE DEF n
<1> QED BY <1>1, <1>4

\* The sequences ss joined one after the other.
Joins(T, ss) ==
  {f \in [0..Len(ss) -> Seq(T)] : f[0] = <<>> /\ \A i \in 1..Len(ss) : f[i] = f[i - 1] \o ss[i]}

\* Joining sequences is joining the last to what the others give.
LEMMA FlattenIs ==
  ASSUME NEW T, NEW ss \in Seq(Seq(T))
  PROVE  \E f \in Joins(T, ss) : FlattenSeq(ss) = f[Len(ss)]
PROOF
<1> DEFINE n == Len(ss)
<1> DEFINE Is(g) == g = [i \in 1..n |-> IF i = 1 THEN ss[i] ELSE g[i - 1] \o ss[i]]
<1>1. n \in Nat /\ \A i \in 1..n : ss[i] \in Seq(T)
  OBVIOUS
<1>2. PICK f \in [0..n -> Seq(T)] : f[0] = <<>> /\ \A i \in 1..n : f[i] = f[i - 1] \o ss[i]
  <2> DEFINE step == [p \in (1..n) \X Seq(T) |-> p[2] \o ss[p[1]]]
  <2>1. step \in [(1..n) \X Seq(T) -> Seq(T)]
    <3>1. ASSUME NEW p \in (1..n) \X Seq(T) PROVE p[2] \o ss[p[1]] \in Seq(T)
      <4>1. p[1] \in 1..n /\ p[2] \in Seq(T)
        OBVIOUS
      <4> QED BY <1>1, <4>1
    <3> QED BY <3>1
  <2>2. \A i \in 1..n, a \in Seq(T) : step[<<i, a>>] = a \o ss[i]
    OBVIOUS
  <2>3. <<>> \in Seq(T)
    OBVIOUS
  <2> HIDE DEF step, n
  <2>4. Steps(n, Seq(T), <<>>, step) # {}
    BY <1>1, <2>1, <2>3, Repeats
  <2>5. PICK f \in [0..n -> Seq(T)] : f[0] = <<>> /\ \A i \in 1..n : f[i] = step[<<i, f[i - 1]>>]
    BY <2>4 DEF Steps
  <2>6. \A i \in 1..n : f[i - 1] \in Seq(T)
    <3>1. \A i \in 1..n : i - 1 \in 0..n
      BY <1>1
    <3> QED BY <3>1
  <2>7. \A i \in 1..n : f[i] = f[i - 1] \o ss[i]
    BY <2>2, <2>5, <2>6
  <2> QED BY <2>5, <2>7
<1>3. f \in Joins(T, ss)
  BY <1>2 DEF Joins
<1>4. CASE n = 0
  <2>1. FlattenSeq(ss) = ss /\ ss = <<>>
    BY <1>4 DEF FlattenSeq
  <2> QED BY <1>2, <1>3, <1>4, <2>1
<1>5. CASE n # 0
  <2> DEFINE g == CHOOSE g : Is(g)
  <2>1. FlattenSeq(ss) = g[n]
    BY <1>5 DEF FlattenSeq
  <2>2. Is([i \in 1..n |-> f[i]])
    <3>1. ASSUME NEW i \in 1..n
          PROVE  f[i] = IF i = 1 THEN ss[i] ELSE [j \in 1..n |-> f[j]][i - 1] \o ss[i]
      <4>1. CASE i = 1
        <5>1. i - 1 = 0
          BY <4>1
        <5>2. f[i] = <<>> \o ss[i] /\ ss[i] \in Seq(T)
          BY <1>1, <1>2, <5>1
        <5> QED BY <4>1, <5>2
      <4>2. CASE i # 1
        <5>1. i - 1 \in 1..n
          BY <1>1, <4>2
        <5> QED BY <1>2, <4>2, <5>1
      <4> QED BY <4>1, <4>2
    <3> HIDE DEF n
    <3> QED BY <3>1, Zenon
  <2>3. Is(g)
    <3>1. \E h : Is(h)
      BY <2>2
    <3> HIDE DEF Is
    <3> QED BY <3>1
  <2>4. \A i \in 1..n : g[i] = IF i = 1 THEN ss[i] ELSE g[i - 1] \o ss[i]
    <3> HIDE DEF g, n
    <3> QED BY <2>3, Zenon
  <2> DEFINE S == {i \in Nat : i \in 1..n => g[i] = f[i]}
  <2> HIDE DEF g, n
  <2>5. 0 \in S
    OBVIOUS
  <2>6. ASSUME NEW i \in Nat, i \in S PROVE i + 1 \in S
    <3> SUFFICES ASSUME i + 1 \in 1..n PROVE g[i + 1] = f[i + 1]
      OBVIOUS
    <3>a. (i + 1) - 1 = i
      OBVIOUS
    <3>0. f[i + 1] = f[i] \o ss[i + 1]
      BY <1>2, <3>a
    <3>1. CASE i = 0
      <4>1. g[1] = ss[1] /\ f[1] = f[0] \o ss[1] /\ ss[1] \in Seq(T)
        BY <1>1, <2>4, <3>0, <3>1
      <4> QED BY <1>2, <3>1, <4>1
    <3>2. CASE i # 0
      <4>1. i \in 1..n /\ i + 1 # 1
        BY <1>1, <3>2
      <4> QED BY <2>4, <2>6, <3>a, <3>0, <4>1
    <3> QED BY <3>1, <3>2
  <2>7. Nat \subseteq S
    <3> HIDE DEF S
    <3> QED BY <2>5, <2>6, NatInduct
  <2>8. n \in 1..n
    BY <1>1, <1>5
  <2>9. g[n] = f[n]
    BY <1>1, <2>7, <2>8
  <2> QED BY <1>3, <2>1, <2>9 DEF n
<1> QED BY <1>4, <1>5

LEMMA JoinHas ==
  ASSUME NEW T, NEW s \in Seq(T), NEW t \in Seq(T)
  PROVE  s \o t \in Seq(T) /\ ToSet(s \o t) = ToSet(s) \cup ToSet(t)
PROOF
<1>1. /\ Len(s \o t) = Len(s) + Len(t) /\ Len(s) \in Nat /\ Len(t) \in Nat /\ s \o t \in Seq(T)
      /\ DOMAIN s = 1..Len(s) /\ DOMAIN t = 1..Len(t) /\ DOMAIN (s \o t) = 1..(Len(s) + Len(t))
  OBVIOUS
<1>2. /\ \A i \in 1..Len(s) : (s \o t)[i] = s[i] /\ i \in 1..(Len(s) + Len(t))
      /\ \A i \in 1..Len(t) : (s \o t)[Len(s) + i] = t[i] /\ Len(s) + i \in 1..(Len(s) + Len(t))
  BY <1>1
<1>3. \A k \in 1..(Len(s) + Len(t)) : k \in 1..Len(s) \/ \E i \in 1..Len(t) : k = Len(s) + i
  <2> SUFFICES ASSUME NEW k \in 1..(Len(s) + Len(t)), k \notin 1..Len(s)
               PROVE  \E i \in 1..Len(t) : k = Len(s) + i
    OBVIOUS
  <2>1. k - Len(s) \in 1..Len(t) /\ k = Len(s) + (k - Len(s))
    BY <1>1
  <2> QED BY <2>1
<1> DEFINE m == Len(s)
<1> DEFINE n == Len(t)
<1> DEFINE u == s \o t
<1>4. ToSet(u) \subseteq ToSet(s) \cup ToSet(t)
  <2> SUFFICES ASSUME NEW k \in 1..(m + n) PROVE u[k] \in ToSet(s) \cup ToSet(t)
    BY <1>1 DEF ToSet
  <2>1. CASE k \in 1..m
    BY <1>1, <1>2, <2>1 DEF ToSet
  <2>2. CASE k \notin 1..m
    <3>1. PICK i \in 1..n : k = m + i
      BY <1>3, <2>2
    <3> HIDE DEF m, n, u
    <3>2. u[k] = t[i]
      BY <1>2, <3>1 DEF m, n, u
    <3> QED BY <1>1, <3>2 DEF ToSet, n
  <2> QED BY <2>1, <2>2
<1>5. ToSet(s) \subseteq ToSet(u)
  BY <1>1, <1>2 DEF ToSet
<1>6. ToSet(t) \subseteq ToSet(u)
  <2> SUFFICES ASSUME NEW i \in 1..n PROVE t[i] \in ToSet(u)
    BY <1>1 DEF ToSet
  <2>1. u[m + i] = t[i] /\ m + i \in DOMAIN u
    BY <1>1, <1>2
  <2> HIDE DEF u, m, n
  <2> QED BY <2>1 DEF ToSet
<1> QED BY <1>1, <1>4, <1>5, <1>6

\* What is joined of sequences over T is one over T.
LEMMA FlattenHas ==
  ASSUME NEW T, NEW ss \in Seq(Seq(T))
  PROVE  FlattenSeq(ss) \in Seq(T) /\ ToSet(FlattenSeq(ss)) = UNION {ToSet(ss[i]) : i \in DOMAIN ss}
PROOF
<1> DEFINE n == Len(ss)
<1>1. PICK f \in Joins(T, ss) : FlattenSeq(ss) = f[n]
  BY FlattenIs
<1>2. /\ n \in Nat /\ DOMAIN ss = 1..n /\ \A i \in 1..n : ss[i] \in Seq(T)
      /\ f \in [0..n -> Seq(T)] /\ f[0] = <<>> /\ \A i \in 1..n : f[i] = f[i - 1] \o ss[i]
  <2>1. f \in [0..n -> Seq(T)] /\ f[0] = <<>> /\ \A i \in 1..n : f[i] = f[i - 1] \o ss[i]
    BY <1>1, Zenon DEF Joins
  <2> HIDE DEF n
  <2>2. n \in Nat /\ DOMAIN ss = 1..n /\ \A i \in 1..n : ss[i] \in Seq(T)
    BY DEF n
  <2> QED BY <2>1, <2>2
<1> DEFINE S == {i \in Nat : i <= n => ToSet(f[i]) = UNION {ToSet(ss[j]) : j \in 1..i}}
<1>3. 0 \in S
  BY <1>2 DEF ToSet
<1>4. ASSUME NEW i \in Nat, i \in S PROVE i + 1 \in S
  <2> SUFFICES ASSUME i + 1 <= n PROVE ToSet(f[i + 1]) = UNION {ToSet(ss[j]) : j \in 1..(i + 1)}
    OBVIOUS
  <2> HIDE DEF n
  <2>1. i + 1 \in 1..n /\ (i + 1) - 1 = i /\ i \in 0..n /\ i <= n
    BY <1>2
  <2>2. f[i + 1] = f[i] \o ss[i + 1] /\ f[i] \in Seq(T) /\ ss[i + 1] \in Seq(T)
    BY <1>2, <2>1
  <2>3. ToSet(f[i + 1]) = ToSet(f[i]) \cup ToSet(ss[i + 1])
    BY <2>2, JoinHas
  <2>4. \A j : j \in 1..(i + 1) <=> j \in 1..i \/ j = i + 1
    OBVIOUS
  <2> QED BY <1>4, <2>1, <2>3, <2>4
<1>5. Nat \subseteq S
  <2> HIDE DEF S
  <2> QED BY <1>3, <1>4, NatInduct
<1>6. n \in S /\ n <= n /\ n \in 0..n
  <2> HIDE DEF S, n
  <2> QED BY <1>2, <1>5
<1> QED BY <1>1, <1>2, <1>6

-----------------------------------------------------------------------------
(* What a search finds.                                                      *)

In(scope) == {c \in Chunk : InScope(c, scope)}
Cands(C) == [c : C, rrf : Nat]
Passages(C) == [c : C, rrf : Nat, score : Nat]

\* What is searched is a part of what may be read, and a scope that names anything
\* never becomes the empty list for which the stores search everything.
LEMMA SearchedIs ==
  ASSUME NEW scope, scope # {}
  PROVE  Resolved(scope) \subseteq scope /\ Resolved(scope) # {} /\ Searched(scope) \subseteq In(scope)
PROOF
<1>1. Resolved(scope) \subseteq scope /\ Resolved(scope) # {}
  BY DEF Resolved
<1>2. Searched(scope) = {c \in Chunk : InScope(c, Resolved(scope))}
  BY <1>1 DEF Searched
<1> QED BY <1>1, <1>2 DEF In, InScope

LEMMA AmongKeeps ==
  ASSUME NEW T, NEW s \in Seq(T), NEW I \in SUBSET DOMAIN s
  PROVE  Among(s, I) \in Seq(T)
PROOF
<1>1. Among(s, I) \in Seq(Elements(s, I))
  BY AmongIs
<1>2. Elements(s, I) \subseteq T
  BY DEF Elements
<1> QED BY <1>1, <1>2

LEMMA PartIs ==
  ASSUME NEW C, NEW list \in Seq(C), NEW c
  PROVE  Part(list, c) \in Nat
PROOF
<1>1. RankIn(list, c) \in Nat
  <2>1. CASE c \in Range(list)
    <3>1. \E i \in DOMAIN list : list[i] = c
      BY <2>1 DEF Range
    <3>2. (CHOOSE i \in DOMAIN list : list[i] = c) \in DOMAIN list
      BY <3>1
    <3> QED BY <2>1, <3>2 DEF RankIn
  <2>2. CASE c \notin Range(list)
    BY <2>2 DEF RankIn
  <2> QED BY <2>1, <2>2
<1>2. \A r \in Nat : Share(r) \in Nat
  BY DEF Share
<1> QED BY <1>1, <1>2 DEF Part

\* A fusion holds nothing that neither ranking found.
LEMMA FusedIs ==
  ASSUME NEW C, NEW dense \in Seq(C), NEW sparse \in Seq(C)
  PROVE  Fused(dense, sparse) \in Seq(Cands(C))
PROOF
<1> DEFINE I == {i \in DOMAIN sparse : RankIn(dense, sparse[i]) = 0}
<1> DEFINE all == dense \o Among(sparse, I)
<1> DEFINE score == [i \in DOMAIN all |-> Least(10000, Part(dense, all[i]) + Part(sparse, all[i]))]
<1> DEFINE s == [i \in DOMAIN all |-> [c |-> all[i], rrf |-> score[i]]]
<1>1. Fused(dense, sparse) = First(Sorted(s, score), TopK)
  BY DEF Fused
<1>2. all \in Seq(C)
  <2>1. Among(sparse, I) \in Seq(C)
    BY AmongKeeps
  <2> QED BY <2>1
<1>3. score \in [DOMAIN all -> Nat]
  <2> HIDE DEF all
  <2>1. ASSUME NEW i \in DOMAIN all PROVE Least(10000, Part(dense, all[i]) + Part(sparse, all[i])) \in Nat
    <3>1. Part(dense, all[i]) \in Nat /\ Part(sparse, all[i]) \in Nat
      BY PartIs
    <3> QED BY <3>1 DEF Least
  <2> QED BY <2>1
<1>4. s \in Seq(Cands(C)) /\ DOMAIN s = DOMAIN all
  <2> HIDE DEF all, score
  <2>1. \A i \in DOMAIN all : [c |-> all[i], rrf |-> score[i]] \in Cands(C)
    BY <1>2, <1>3 DEF Cands
  <2>2. DOMAIN all = 1..Len(all) /\ Len(all) \in Nat
    BY <1>2
  <2> QED BY <2>1, <2>2
<1>5. Sorted(s, score) \in Seq(Cands(C))
  <2>1. score \in [DOMAIN s -> Int]
    <3> HIDE DEF all, score, s
    <3> QED BY <1>3, <1>4
  <2> HIDE DEF score, s
  <2> QED BY <1>4, <2>1, SortedIs
<1>6. TopK \in Nat
  BY RetrievalAssumption
<1> HIDE DEF score, s
<1> QED BY <1>1, <1>5, <1>6, FirstIs

\* Nor do the candidates of a search hold more, the chunks they are anchored with included.
LEMMA CandidatesIs ==
  ASSUME NEW scope, scope # {}, NEW dense \in Seq(Searched(scope)), NEW sparse \in Seq(Searched(scope)), NEW b
  PROVE  Candidates(dense, sparse, scope, b) \in Seq(Cands(In(scope)))
PROOF
<1> DEFINE fused == Fused(dense, sparse)
<1> DEFINE first == Overview(scope)
<1> DEFINE J == {k \in DOMAIN first : \A i \in DOMAIN fused : fused[i].c # first[k]}
<1> DEFINE extra == Among(first, J)
<1> DEFINE add == [k \in DOMAIN extra |-> [c |-> extra[k], rrf |-> 8500]]
<1>1. Candidates(dense, sparse, scope, b)
        = IF Resolved(scope) # {} /\ (fused = <<>> \/ b) THEN fused \o add ELSE fused
  BY DEF Candidates
<1>2. fused \in Seq(Cands(In(scope)))
  <2>1. dense \in Seq(In(scope)) /\ sparse \in Seq(In(scope))
    BY SearchedIs
  <2> QED BY <2>1, FusedIs
<1>3. first \in Seq(In(scope))
  <2> DEFINE I == {i \in DOMAIN Corpus : InScope(Corpus[i], Resolved(scope))}
  <2>1. Corpus \in Seq(Chunk)
    BY RetrievalAssumption
  <2>2. Among(Corpus, I) \in Seq(Elements(Corpus, I))
    BY <2>1, AmongIs
  <2>3. Elements(Corpus, I) \subseteq In(scope)
    BY <2>1, SearchedIs DEF Elements, In, InScope
  <2>4. Among(Corpus, I) \in Seq(In(scope))
    BY <2>2, <2>3
  <2>5. Overview(scope) = First(Among(Corpus, I), 3) /\ 3 \in Nat
    BY DEF Overview
  <2> HIDE DEF I
  <2> QED BY <2>4, <2>5, FirstIs
<1>4. extra \in Seq(In(scope))
  <2> HIDE DEF first, fused
  <2> QED BY <1>3, AmongKeeps
<1>5. add \in Seq(Cands(In(scope)))
  <2> HIDE DEF extra
  <2>1. \A k \in DOMAIN extra : [c |-> extra[k], rrf |-> 8500] \in Cands(In(scope))
    BY <1>4 DEF Cands
  <2>2. DOMAIN extra = 1..Len(extra) /\ Len(extra) \in Nat
    BY <1>4
  <2> QED BY <2>1, <2>2
<1>6. fused \o add \in Seq(Cands(In(scope)))
  <2> HIDE DEF fused, add
  <2> QED BY <1>2, <1>5
<1> HIDE DEF fused, add
<1> QED BY <1>1, <1>2, <1>6

-----------------------------------------------------------------------------
(* Reranking and the hops of a plan.                                         *)

\* Reranking takes passages away and puts them in order.
LEMMA RerankedIs ==
  ASSUME NEW C, NEW D, \A x \in D : x.c \in C /\ x.rrf \in Nat, NEW s \in Seq(D),
         NEW raw, raw = Down \/ \A i \in DOMAIN s : raw[s[i].c] \in Nat, NEW b
  PROVE  Reranked(s, raw, b) \in Seq(Passages(C))
PROOF
<1> DEFINE scored == Scored(s, raw, b)
<1> DEFINE ordered == IF raw = Down THEN scored ELSE ByScore(scored)
<1>1. scored \in Seq(Passages(C))
  <2> DEFINE score(i) == IF raw = Down THEN s[i].rrf ELSE Calibrated(raw[s[i].c], s[i].rrf, b)
  <2>1. \A r, f \in Nat : Calibrated(r, f, b) \in Nat
    BY DEF Calibrated, Most
  <2>2. ASSUME NEW i \in DOMAIN s PROVE s[i].c \in C /\ s[i].rrf \in Nat /\ score(i) \in Nat
    <3>1. s[i] \in D
      OBVIOUS
    <3>2. s[i].c \in C /\ s[i].rrf \in Nat
      BY <3>1
    <3> QED BY <2>1, <3>2
  <2>3. scored = [i \in DOMAIN s |-> [c |-> s[i].c, rrf |-> s[i].rrf, score |-> score(i)]]
    BY DEF Scored
  <2> HIDE DEF score, scored
  <2>4. \A i \in DOMAIN s : [c |-> s[i].c, rrf |-> s[i].rrf, score |-> score(i)] \in Passages(C)
    BY <2>2 DEF Passages
  <2>5. DOMAIN s = 1..Len(s) /\ Len(s) \in Nat
    OBVIOUS
  <2> QED BY <2>3, <2>4, <2>5
<1> HIDE DEF scored
<1>2. ByScore(scored) \in Seq(Passages(C))
  <2> DEFINE score == [i \in DOMAIN scored |-> scored[i].score]
  <2>1. score \in [DOMAIN scored -> Int]
    <3>1. \A x \in Passages(C) : x.score \in Nat
      BY DEF Passages
    <3>2. \A i \in DOMAIN scored : scored[i] \in Passages(C)
      BY <1>1
    <3>3. \A i \in DOMAIN scored : scored[i].score \in Int
      BY <3>1, <3>2
    <3> QED BY <3>3
  <2>2. ByScore(scored) = Sorted(scored, score)
    BY DEF ByScore
  <2> HIDE DEF score
  <2> QED BY <1>1, <2>1, <2>2, SortedIs
<1>3. ordered \in Seq(Passages(C))
  BY <1>1, <1>2
<1> HIDE DEF ordered
<1>4. Deduped(ordered) \in Seq(Passages(C))
  <2> DEFINE I == {i \in DOMAIN ordered : \A j \in 1..(i - 1) : Sig[ordered[j].c] # Sig[ordered[i].c]}
  <2>1. Deduped(ordered) = Among(ordered, I) /\ I \in SUBSET DOMAIN ordered
    BY DEF Deduped
  <2> HIDE DEF I
  <2> QED BY <1>3, <2>1, AmongKeeps
<1>5. Reranked(s, raw, b) = First(Deduped(ordered), TopRerank)
  BY DEF Reranked, ordered, scored
<1>6. TopRerank \in Nat
  BY RetrievalAssumption
<1> QED BY <1>4, <1>5, <1>6, FirstIs

\* Merging the results of hops adds nothing to what they found.
LEMMA MergedIs ==
  ASSUME NEW T, NEW s \in Seq(T), NEW f \in Seq(T)
  PROVE  Merged(s, f) \in Seq(T)
PROOF
<1> DEFINE better == [i \in DOMAIN s |-> Better(f, s[i])]
<1> DEFINE J == {k \in DOMAIN f : \A i \in DOMAIN s : s[i].c # f[k].c}
<1>1. ASSUME NEW x \in T PROVE Better(f, x) \in T
  <2>1. CASE \E i \in DOMAIN f : f[i].c = x.c
    <3>1. (CHOOSE k \in DOMAIN f : f[k].c = x.c) \in DOMAIN f
      BY <2>1
    <3> QED BY <3>1 DEF Better
  <2>2. CASE ~\E i \in DOMAIN f : f[i].c = x.c
    BY <2>2 DEF Better
  <2> QED BY <2>1, <2>2
<1>2. better \in Seq(T)
  BY <1>1
<1>3. Among(f, J) \in Seq(T)
  BY AmongKeeps
<1>4. Merged(s, f) = better \o Among(f, J)
  BY DEF Merged
<1> HIDE DEF better, J
<1> QED BY <1>2, <1>3, <1>4

-----------------------------------------------------------------------------
(* The packing of passages into the budget.                                  *)

LEMMA TokensAdd ==
  /\ Tokens(0) = 0
  /\ \A a, b \in Nat : Tokens(a) \in Nat /\ Tokens(a + b) <= Tokens(a) + Tokens(b)
PROOF
  BY DEF Tokens

LEMMA WordsAre ==
  ASSUME NEW s \in Seq(Sentence)
  PROVE  WordsOf(s) \in Nat
PROOF
<1>1. Words \in [Sentence -> Nat]
  BY RetrievalAssumption
<1>2. Sums(Words, s) \in [0..Len(s) -> Nat]
  BY <1>1, SumsAre
<1>3. Len(s) \in 0..Len(s)
  OBVIOUS
<1> QED BY <1>2, <1>3 DEF WordsOf

\* Counting the sentences one by one, and rounding each up, never counts too few
\* tokens for the text they make together.
LEMMA FittingIs ==
  ASSUME NEW s \in Seq(Sentence), NEW left \in Nat
  PROVE  Fitting(s, left) \in Seq(Sentence) /\ Tokens(WordsOf(Fitting(s, left))) <= left
PROOF
<1> DEFINE size == [x \in Sentence |-> Tokens(Words[x])]
<1> DEFINE sums == Sums(size, s)
<1> DEFINE fits == {n \in 0..Len(s) : sums[n] <= left}
<1> DEFINE m == CHOOSE n \in fits : \A k \in fits : k <= n
<1> DEFINE part == SubSeq(s, 1, m)
<1> DEFINE words == Sums(Words, part)
<1>1. Fitting(s, left) = part
  BY DEF Fitting
<1>2. Words \in [Sentence -> Nat]
  BY RetrievalAssumption
<1>3. size \in [Sentence -> Nat]
  BY <1>2, TokensAdd
<1>4. /\ sums \in [0..Len(s) -> Nat] /\ sums[0] = 0
      /\ \A i \in 1..Len(s) : sums[i] = sums[i - 1] + size[s[i]]
  <2> HIDE DEF size
  <2> QED BY <1>3, SumsAre
<1>5. m \in fits
  <2>1. 0 \in fits
    <3> HIDE DEF sums
    <3> QED BY <1>4
  <2>2. fits \in SUBSET (0..Len(s)) /\ Len(s) \in Nat
    OBVIOUS
  <2> HIDE DEF fits
  <2>3. \E n \in fits : \A k \in fits : k <= n
    BY <2>1, <2>2, Greatest
  <2> QED BY <2>3
<1>6. m \in 0..Len(s) /\ sums[m] <= left
  <2> HIDE DEF m, sums
  <2> QED BY <1>5
<1> HIDE DEF m
<1>7. part \in Seq(Sentence) /\ Len(part) = m /\ \A i \in 1..m : part[i] = s[i]
  BY <1>6
<1> HIDE DEF part
<1>8. /\ words \in [0..m -> Nat] /\ words[0] = 0
      /\ \A i \in 1..m : words[i] = words[i - 1] + Words[part[i]]
  <2>0. part \in Seq(Sentence)
    BY <1>7
  <2> HIDE DEF words
  <2>1. /\ words \in [0..Len(part) -> Nat] /\ words[0] = 0
        /\ \A i \in 1..Len(part) : words[i] = words[i - 1] + Words[part[i]]
    BY <1>2, <2>0, SumsAre, SMTT(30) DEF words
  <2>2. Len(part) = m
    BY <1>7
  <2> QED BY <2>1, <2>2, Zenon
<1> DEFINE S == {i \in Nat : i <= m => Tokens(words[i]) <= sums[i]}
<1> HIDE DEF words, sums, size
<1>9. 0 \in S
  BY <1>4, <1>8, TokensAdd
<1>10. ASSUME NEW i \in Nat, i \in S PROVE i + 1 \in S
  <2> SUFFICES ASSUME i + 1 <= m PROVE Tokens(words[i + 1]) <= sums[i + 1]
    OBVIOUS
  <2>1. i + 1 \in 1..m /\ i + 1 \in 1..Len(s) /\ (i + 1) - 1 = i /\ i \in 0..m /\ i \in 0..Len(s)
    BY <1>6
  <2>2. s[i + 1] \in Sentence /\ part[i + 1] = s[i + 1]
    BY <1>7, <2>1
  <2>3. words[i + 1] = words[i] + Words[s[i + 1]] /\ words[i] \in Nat /\ Words[s[i + 1]] \in Nat
    BY <1>2, <1>8, <2>1, <2>2
  <2>4. sums[i + 1] = sums[i] + Tokens(Words[s[i + 1]]) /\ sums[i] \in Nat
    BY <1>4, <2>1, <2>2 DEF size
  <2>5. Tokens(words[i]) <= sums[i]
    BY <1>10, <2>1
  <2>6. /\ Tokens(words[i] + Words[s[i + 1]]) <= Tokens(words[i]) + Tokens(Words[s[i + 1]])
        /\ Tokens(words[i]) \in Nat /\ Tokens(Words[s[i + 1]]) \in Nat
        /\ Tokens(words[i] + Words[s[i + 1]]) \in Nat
    <3> DEFINE a == words[i]
    <3> DEFINE b == Words[s[i + 1]]
    <3>1. a \in Nat /\ b \in Nat /\ a + b \in Nat
      BY <2>3
    <3> HIDE DEF a, b
    <3>2. Tokens(a + b) <= Tokens(a) + Tokens(b) /\ Tokens(a) \in Nat /\ Tokens(b) \in Nat /\ Tokens(a + b) \in Nat
      BY <3>1, TokensAdd
    <3> QED BY <3>2 DEF a, b
  <2> QED BY <2>3, <2>4, <2>5, <2>6
<1>11. Nat \subseteq S
  <2> HIDE DEF S
  <2> QED BY <1>9, <1>10, NatInduct
<1>12. Tokens(words[m]) <= sums[m]
  BY <1>6, <1>11
<1>13. WordsOf(part) = words[m] /\ words[m] \in Nat
  BY <1>6, <1>7, <1>8 DEF WordsOf, words
<1>14. Tokens(words[m]) \in Nat /\ sums[m] \in Nat
  BY <1>4, <1>6, <1>13, TokensAdd
<1> QED BY <1>1, <1>6, <1>7, <1>12, <1>13, <1>14

LEMMA RetainedIs ==
  ASSUME NEW c \in Chunk, NEW score \in Nat, NEW accepted
  PROVE  Retained(c, score, accepted) \in Seq(Sentence)
PROOF
<1> DEFINE s == Sents[c]
<1> DEFINE salience == [i \in DOMAIN s |-> Salience(s[i], score)]
<1> DEFINE new == {i \in DOMAIN s : salience[i] >= 1500 /\ \A t \in accepted : Gist[t] # Gist[s[i]]}
<1> DEFINE once == {i \in new : \A j \in new : j < i => Gist[s[j]] # Gist[s[i]]}
<1>1. Retained(c, score, accepted) = IF new = {} THEN First(Sorted(s, salience), 1) ELSE Among(s, once)
  BY DEF Retained
<1>2. s \in Seq(Sentence)
  BY RetrievalAssumption
<1>3. new \in SUBSET DOMAIN s
  OBVIOUS
<1>4. once \in SUBSET DOMAIN s
  <2> HIDE DEF new
  <2> QED BY <1>3
<1> HIDE DEF s, once
<1>5. salience \in [DOMAIN s -> Int]
  <2>1. ASSUME NEW t \in Sentence PROVE Salience(t, score) \in Int
    <3>2. Hit[t] \in Nat
      BY RetrievalAssumption DEF Score
    <3> DEFINE a == (4 * score) \div 10
    <3> DEFINE b == (45 * Hit[t]) \div 100
    <3> DEFINE d == IF t \in Numeric THEN 1500 ELSE 0
    <3>3. a \in Int /\ b \in Int /\ d \in Int
      BY <3>2
    <3>4. Salience(t, score) = Least(10000, a + b + d)
      BY DEF Salience
    <3> HIDE DEF a, b, d
    <3> QED BY <3>3, <3>4 DEF Least
  <2>2. \A i \in DOMAIN s : s[i] \in Sentence
    BY <1>2
  <2> QED BY <2>1, <2>2
<1> HIDE DEF salience, new
<1>6. First(Sorted(s, salience), 1) \in Seq(Sentence)
  <2>1. Sorted(s, salience) \in Seq(Sentence) /\ 1 \in Nat
    BY <1>2, <1>5, SortedIs
  <2> QED BY <2>1, FirstIs
<1>7. Among(s, once) \in Seq(Sentence)
  BY <1>2, <1>4, AmongKeeps
<1> QED BY <1>1, <1>6, <1>7

LEMMA TableTokensAre ==
  ASSUME NEW c \in Chunk
  PROVE  TableTokens(c) \in Nat
PROOF
<1> DEFINE cols == Columns[c]
<1> DEFINE rank(i) == Cardinality({j \in 2..Len(cols) : cols[j] > cols[i] \/ (cols[j] = cols[i] /\ j <= i)})
<1>1. cols \in Seq(Score) /\ ColWords \in Nat
  BY RetrievalAssumption
<1>2. KeptColumns(c) = IF Len(cols) <= 3 THEN DOMAIN cols
         ELSE {1} \union {i \in 2..Len(cols) : rank(i) <= 2 \/ (rank(i) = 3 /\ cols[i] > 0)}
  BY DEF KeptColumns
<1> HIDE DEF cols, rank
<1>3. DOMAIN cols = 1..Len(cols) /\ Len(cols) \in Nat
  BY <1>1
<1>4. KeptColumns(c) \subseteq 1..Len(cols)
  BY <1>2, <1>3
<1>5. IsFiniteSet(1..Len(cols))
  BY <1>3, FS_Interval
<1>6. Cardinality(KeptColumns(c)) \in Nat
  BY <1>4, <1>5, FS_Subset, FS_CardinalityType
<1>7. \A a, b \in Nat : a * b \in Nat
  OBVIOUS
<1>8. Cardinality(KeptColumns(c)) * ColWords \in Nat
  BY <1>1, <1>6, <1>7
<1> QED BY <1>8, TokensAdd DEF TableTokens

\* What the packing has done so far: within the budget, and each passage counted.
Packs(C) == [used : 0..Budget, accepted : SUBSET Sentence, kept : Seq(C), dropped : Nat]

LEMMA PackFields ==
  ASSUME NEW C, NEW acc \in Packs(C)
  PROVE  /\ acc.used \in 0..Budget /\ acc.accepted \in SUBSET Sentence
         /\ acc.kept \in Seq(C) /\ acc.dropped \in Nat
PROOF
  BY DEF Packs

LEMMA PackIs ==
  ASSUME NEW C, C \subseteq Chunk, NEW acc \in Packs(C), NEW x \in Passages(C)
  PROVE  /\ Pack(acc, x) \in Packs(C)
         /\ Len(Pack(acc, x).kept) + Pack(acc, x).dropped = Len(acc.kept) + acc.dropped + 1
PROOF
<1> DEFINE left == Budget - acc.used
<1> DEFINE add(words, size) == [acc EXCEPT !.used = @ + size, !.kept = Append(@, x.c), !.accepted = @ \union words]
<1> DEFINE drop(words) == [acc EXCEPT !.dropped = @ + 1, !.accepted = @ \union words]
<1> DEFINE sents == Retained(x.c, Eff(x), acc.accepted)
<1> DEFINE part == Fitting(sents, left)
<1> DEFINE Is(t) == t \in Packs(C) /\ Len(t.kept) + t.dropped = Len(acc.kept) + acc.dropped + 1
<1>1. /\ acc.used \in 0..Budget /\ acc.accepted \in SUBSET Sentence
      /\ acc.kept \in Seq(C) /\ acc.dropped \in Nat
  BY PackFields
<1>2. Budget \in Nat /\ left \in Nat
  BY <1>1, RetrievalAssumption
<1>3. x.c \in C /\ x.rrf \in Nat /\ x.score \in Nat /\ x.c \in Chunk /\ Eff(x) \in Nat
  BY DEF Passages, Eff
<1>4. ASSUME NEW w \in SUBSET Sentence, NEW size \in Nat, size <= left PROVE Is(add(w, size))
  <2> DEFINE u == acc.used + size
  <2> DEFINE a == acc.accepted \union w
  <2> DEFINE k == Append(acc.kept, x.c)
  <2>1. add(w, size) = [acc EXCEPT !.used = u, !.kept = k, !.accepted = a]
    OBVIOUS
  <2>2. u \in 0..Budget
    BY <1>1, <1>2, <1>4
  <2>3. k \in Seq(C) /\ Len(k) = Len(acc.kept) + 1 /\ Len(acc.kept) \in Nat
    BY <1>1, <1>3
  <2>4. a \in SUBSET Sentence
    BY <1>1
  <2> HIDE DEF u, k, a, add
  <2>5. add(w, size) \in Packs(C)
    BY <2>1, <2>2, <2>3, <2>4 DEF Packs
  <2>6. add(w, size).kept = k /\ add(w, size).dropped = acc.dropped
    BY <2>1 DEF Packs
  <2>7. Len(add(w, size).kept) + add(w, size).dropped = Len(acc.kept) + acc.dropped + 1
    <3>1. PICK r : r = add(w, size)
      OBVIOUS
    <3>2. r.kept = k /\ r.dropped = acc.dropped
      BY <2>6, <3>1
    <3>3. Len(r.kept) = Len(acc.kept) + 1 /\ acc.dropped \in Nat /\ Len(acc.kept) \in Nat
      BY <1>1, <2>3, <3>2
    <3>4. Len(r.kept) + r.dropped = Len(acc.kept) + acc.dropped + 1
      BY <3>2, <3>3
    <3> QED BY <3>1, <3>4
  <2> QED BY <2>5, <2>7
<1>5. ASSUME NEW w \in SUBSET Sentence PROVE Is(drop(w))
  <2> DEFINE a == acc.accepted \union w
  <2> DEFINE d == acc.dropped + 1
  <2>1. drop(w) = [acc EXCEPT !.dropped = d, !.accepted = a]
    OBVIOUS
  <2>2. a \in SUBSET Sentence /\ d \in Nat /\ Len(acc.kept) \in Nat
    BY <1>1
  <2>3. Len(acc.kept) + d = Len(acc.kept) + acc.dropped + 1
    BY <1>1, <2>2
  <2> HIDE DEF d, a, drop
  <2>4. drop(w) \in Packs(C)
    BY <2>1, <2>2 DEF Packs
  <2>5. drop(w).kept = acc.kept /\ drop(w).dropped = d
    BY <2>1 DEF Packs
  <2> QED BY <2>3, <2>4, <2>5
<1>6. sents \in Seq(Sentence)
  BY <1>3, RetainedIs
<1> HIDE DEF sents, left
<1>7. ToSet(sents) \in SUBSET Sentence /\ {} \in SUBSET Sentence
  BY <1>6 DEF ToSet
<1>8. /\ WordsOf(sents) \in Nat /\ Tokens(WordsOf(sents)) \in Nat
      /\ Tokens(WordsOf(part)) \in Nat /\ Tokens(WordsOf(part)) <= left
  <2>1. part \in Seq(Sentence) /\ Tokens(WordsOf(part)) <= left
    BY <1>2, <1>6, FittingIs
  <2> HIDE DEF part
  <2>2. WordsOf(sents) \in Nat /\ WordsOf(part) \in Nat
    BY <1>6, <2>1, WordsAre
  <2> QED BY <2>1, <2>2, TokensAdd
<1>9. TableTokens(x.c) \in Nat
  BY <1>3, TableTokensAre
<1>10. Pack(acc, x) =
         IF IsTable(x.c)
         THEN IF TableTokens(x.c) <= left THEN add({}, TableTokens(x.c)) ELSE drop({})
         ELSE IF Tokens(WordsOf(sents)) <= left THEN add(ToSet(sents), Tokens(WordsOf(sents)))
         ELSE IF left > 0 /\ part # <<>> THEN add(ToSet(sents), Tokens(WordsOf(part)))
         ELSE drop(ToSet(sents))
  BY DEF Pack, sents, left
<1> HIDE DEF part, add, drop
<1>11. TableTokens(x.c) <= left => Is(add({}, TableTokens(x.c)))
  <2> HIDE DEF Is
  <2> QED BY <1>4, <1>7, <1>9
<1>12. Tokens(WordsOf(sents)) <= left => Is(add(ToSet(sents), Tokens(WordsOf(sents))))
  <2> HIDE DEF Is
  <2> QED BY <1>4, <1>7, <1>8
<1>13. Is(add(ToSet(sents), Tokens(WordsOf(part))))
  <2> HIDE DEF Is
  <2> QED BY <1>4, <1>7, <1>8
<1>14. Is(drop({})) /\ Is(drop(ToSet(sents)))
  <2> HIDE DEF Is
  <2> QED BY <1>5, <1>7
<1>15. Is(Pack(acc, x))
  <2> HIDE DEF Is
  <2> QED BY <1>10, <1>11, <1>12, <1>13, <1>14
<1> QED BY <1>15

\* Packing one passage after another stays within the budget and loses none of them.
LEMMA PackedIs ==
  ASSUME NEW C, C \subseteq Chunk, NEW s \in Seq(Passages(C))
  PROVE  Packed(s) \in Packs(C) /\ Len(Packed(s).kept) + Packed(s).dropped = Len(s)
PROOF
<1> DEFINE n == Len(s)
<1> DEFINE Is(g) == g = [i \in 0..n |-> IF i = 0 THEN Unpacked ELSE Pack(g[i - 1], s[i])]
<1> DEFINE pack == CHOOSE g : Is(g)
<1>1. n \in Nat /\ \A i \in 1..n : s[i] \in Passages(C)
  OBVIOUS
<1>2. Unpacked \in Packs(C) /\ Len(Unpacked.kept) + Unpacked.dropped = 0
  <2>1. 0 \in 0..Budget /\ {} \in SUBSET Sentence /\ <<>> \in Seq(C) /\ 0 \in Nat
    BY RetrievalAssumption
  <2>2. Unpacked \in Packs(C)
    BY <2>1 DEF Unpacked, Packs
  <2> QED BY <2>2 DEF Unpacked
<1>3. \E g : Is(g)
  <2> DEFINE step == [p \in (1..n) \X Packs(C) |-> Pack(p[2], s[p[1]])]
  <2>1. step \in [(1..n) \X Packs(C) -> Packs(C)]
    BY <1>1, PackIs
  <2>2. \A i \in 1..n, a \in Packs(C) : step[<<i, a>>] = Pack(a, s[i])
    OBVIOUS
  <2> HIDE DEF step, n
  <2>3. Steps(n, Packs(C), Unpacked, step) # {}
    BY <1>1, <1>2, <2>1, Repeats
  <2>4. PICK g \in [0..n -> Packs(C)] : g[0] = Unpacked /\ \A i \in 1..n : g[i] = step[<<i, g[i - 1]>>]
    BY <2>3 DEF Steps
  <2>5. \A i \in 1..n : g[i] = Pack(g[i - 1], s[i])
    <3> SUFFICES ASSUME NEW i \in 1..n PROVE g[i] = Pack(g[i - 1], s[i])
      OBVIOUS
    <3>1. i - 1 \in 0..n
      BY <1>1
    <3> QED BY <2>2, <2>4, <3>1
  <2>6. Is(g)
    BY <1>1, <2>4, <2>5
  <2> QED BY <2>6
<1>4. Packed(s) = pack[n]
  BY DEF Packed
<1>5. Is(pack)
  <2> HIDE DEF Is
  <2> QED BY <1>3
<1> HIDE DEF pack
<1>6. pack[0] = Unpacked /\ \A i \in 1..n : pack[i] = Pack(pack[i - 1], s[i])
  <2> HIDE DEF n
  <2> QED BY <1>1, <1>5
<1> DEFINE S == {i \in Nat : i <= n => pack[i] \in Packs(C) /\ Len(pack[i].kept) + pack[i].dropped = i}
<1> HIDE DEF n
<1>7. 0 \in S
  BY <1>2, <1>6
<1>8. ASSUME NEW i \in Nat, i \in S PROVE i + 1 \in S
  <2> SUFFICES ASSUME i + 1 <= n
               PROVE  pack[i + 1] \in Packs(C) /\ Len(pack[i + 1].kept) + pack[i + 1].dropped = i + 1
    OBVIOUS
  <2>1. i + 1 \in 1..n /\ (i + 1) - 1 = i /\ i <= n
    BY <1>1
  <2>2. pack[i] \in Packs(C) /\ Len(pack[i].kept) + pack[i].dropped = i
    BY <1>8, <2>1
  <2>3. pack[i + 1] = Pack(pack[i], s[i + 1]) /\ s[i + 1] \in Passages(C)
    BY <1>1, <1>6, <2>1
  <2> QED BY <2>2, <2>3, PackIs
<1>9. Nat \subseteq S
  <2> HIDE DEF S
  <2> QED BY <1>7, <1>8, NatInduct
<1>10. pack[n] \in Packs(C) /\ Len(pack[n].kept) + pack[n].dropped = n
  BY <1>1, <1>9
<1> QED BY <1>4, <1>10 DEF n

\* What the model is given of the passages fits the budget, unless none was kept.
LEMMA CompactedIs ==
  ASSUME NEW C, C \subseteq Chunk, NEW s \in Seq(Passages(C))
  PROVE  /\ Compacted(s).kept \in Seq(C) /\ Compacted(s).tokens \in 0..Budget
         /\ Compacted(s).dropped \in Nat
         /\ Len(Compacted(s).kept) + Compacted(s).dropped = Len(s)
         /\ Compacted(s) = [kept |-> Compacted(s).kept, tokens |-> Compacted(s).tokens,
                            dropped |-> Compacted(s).dropped]
PROOF
<1> DEFINE acc == Packed(s)
<1>1. acc \in Packs(C) /\ Len(acc.kept) + acc.dropped = Len(s)
  BY PackedIs
<1>2. Compacted(s) = [kept |-> acc.kept, tokens |-> acc.used, dropped |-> acc.dropped]
  BY DEF Compacted
<1> HIDE DEF acc
<1>3. acc.used \in 0..Budget /\ acc.kept \in Seq(C) /\ acc.dropped \in Nat
  BY <1>1, PackFields
<1> QED BY <1>1, <1>2, <1>3

LEMMA WholeTokensAre ==
  ASSUME NEW C, C \subseteq Chunk, NEW s \in Seq(Passages(C))
  PROVE  WholeTokens(s) \in Nat
PROOF
<1> DEFINE f == [c \in Chunk |-> Tokens(WholeWords(c))]
<1> DEFINE t == [i \in DOMAIN s |-> s[i].c]
<1>1. f \in [Chunk -> Nat]
  <2>1. ASSUME NEW c \in Chunk PROVE WholeWords(c) \in Nat
    <3>1. Columns[c] \in Seq(Score) /\ Sents[c] \in Seq(Sentence) /\ ColWords \in Nat
      BY RetrievalAssumption
    <3>2. Len(Columns[c]) \in Nat /\ \A a, b \in Nat : a * b \in Nat
      BY <3>1
    <3>3. Len(Columns[c]) * ColWords \in Nat
      BY <3>1, <3>2
    <3>4. WordsOf(Sents[c]) \in Nat
      BY <3>1, WordsAre
    <3> QED BY <3>3, <3>4 DEF WholeWords
  <2> QED BY <2>1, TokensAdd
<1>2. t \in Seq(Chunk) /\ Len(t) = Len(s)
  <2>1. \A i \in DOMAIN s : s[i].c \in Chunk
    <3>1. \A x \in Passages(C) : x.c \in Chunk
      BY DEF Passages
    <3>2. \A i \in DOMAIN s : s[i] \in Passages(C)
      OBVIOUS
    <3> QED BY <3>1, <3>2
  <2>2. DOMAIN s = 1..Len(s) /\ Len(s) \in Nat
    OBVIOUS
  <2> QED BY <2>1, <2>2
<1>3. Len(s) \in 0..Len(s)
  OBVIOUS
<1>4. WholeTokens(s) = Sums(f, t)[Len(s)]
  BY DEF WholeTokens
<1> HIDE DEF f, t
<1>5. Sums(f, t) \in [0..Len(t) -> Nat]
  BY <1>1, <1>2, SumsAre
<1> QED BY <1>2, <1>3, <1>4, <1>5

-----------------------------------------------------------------------------
(* The invariant of a turn.                                                  *)

Steppings == {"start", "plan", "search", "rerank", "graph", "doubt", "assess", "traverse", "unify",
              "compact", "generate", "answered", "failed", "refused"}

TypeOK ==
  /\ pc \in Steppings /\ ask \in Requests /\ hops \in Nat
  /\ corrected \in BOOLEAN /\ broad \in BOOLEAN /\ relations \in BOOLEAN
  /\ found \in Seq(Cands(In(ask.scope)))
  /\ pool \in Seq(Passages(In(ask.scope))) /\ cands \in Seq(Passages(In(ask.scope)))
  /\ evidence.kept \in Seq(In(ask.scope)) /\ evidence.tokens \in Nat /\ evidence.dropped \in Nat

\* Where a turn can be: past its start it may read something, a search has a hop to do,
\* and only a plan searches with another text than the question.
Control ==
  /\ pc \notin {"start", "refused"} => ask.scope # {}
  /\ pc \in {"search", "rerank"} => hops > 0
  /\ pc \in {"plan", "assess", "traverse", "unify"} => Agentic
  /\ pc \in {"graph", "doubt"} => ask.mode = "graph"
  /\ pc \in {"search", "rerank"} /\ ~Agentic => broad = ask.broad

\* What was found on the way to an answer.
Passed ==
  /\ pc = "graph" => cands # <<>> /\ TopScore(cands) >= Cutoff(ask.broad)
  /\ pc \in {"traverse", "unify"} => crag = "CONFIDENT" \/ (crag = "AMBIGUOUS" /\ ask.terms = {})
  /\ AnswersAreGrounded

TurnInv == TypeOK /\ Control /\ Passed /\ EvidenceFits /\ QuestionKept

LEMMA InitTurn == Init => TurnInv
PROOF
<1> SUFFICES ASSUME Init PROVE TurnInv
  OBVIOUS
<1> USE DEF Init
<1>1. TypeOK
  <2>1. <<>> \in Seq(Cands(In(ask.scope))) /\ <<>> \in Seq(Passages(In(ask.scope))) /\ <<>> \in Seq(In(ask.scope))
    OBVIOUS
  <2> QED BY <2>1 DEF TypeOK, Steppings, NoEvidence
<1>2. Control
  BY DEF Control
<1>3. Passed
  BY DEF Passed, AnswersAreGrounded
<1>4. EvidenceFits /\ QuestionKept
  BY DEF EvidenceFits, QuestionKept
<1> QED BY <1>1, <1>2, <1>3, <1>4 DEF TurnInv

\* The question is settled when the turn starts.
LEMMA AskStays ==
  ASSUME [Next]_vars
  PROVE  ask' = ask
PROOF
  BY DEF Next, Start, Decompose, Search, RerankOne, TraverseForGraph, RerankHop, Assess, Traverse, Unify,
         Compact, CompactPlan, Generate, Ended, vars

LEMMA RankingsAre ==
  ASSUME NEW s \in DenseFinds \union SparseFinds
  PROVE  s \in Seq(Searched(ask.scope))
PROOF
<1> DEFINE X == Searched(ask.scope)
<1>1. CASE s = <<>>
  BY <1>1
<1>2. CASE s \in Rankings
  <2>1. PICK n \in 0..TopK : s \in [1..n -> X]
    BY <1>2 DEF Rankings
  <2>2. n \in Nat
    BY <2>1, RetrievalAssumption
  <2> HIDE DEF X
  <2>3. s \in Seq(X)
    BY <2>1, <2>2
  <2> QED BY <2>3 DEF X
<1> QED BY <1>1, <1>2 DEF DenseFinds, SparseFinds

\* The scores of a rerank are numbers.
LEMMA OutcomesAre ==
  ASSUME NEW s, NEW raw \in Outcomes(s)
  PROVE  raw = Down \/ \A i \in DOMAIN s : raw[s[i].c] \in Nat
PROOF
<1>1. CASE raw = Down
  BY <1>1
<1>2. CASE raw \in [{s[i].c : i \in DOMAIN s} -> Raws]
  <2>1. \A i \in DOMAIN s : s[i].c \in {s[j].c : j \in DOMAIN s}
    OBVIOUS
  <2>2. Raws \subseteq Nat
    BY ChatTurnAssumption
  <2> QED BY <1>2, <2>1, <2>2
<1> QED BY <1>1, <1>2 DEF Outcomes

LEMMA RerankedOf ==
  ASSUME NEW C, NEW s, s \in Seq(Cands(C)) \/ s \in Seq(Passages(C)), NEW raw \in Outcomes(s), NEW b
  PROVE  Reranked(s, raw, b) \in Seq(Passages(C))
PROOF
<1>1. raw = Down \/ \A i \in DOMAIN s : raw[s[i].c] \in Nat
  BY OutcomesAre
<1>2. CASE s \in Seq(Cands(C))
  <2>1. \A x \in Cands(C) : x.c \in C /\ x.rrf \in Nat
    BY DEF Cands
  <2> QED BY <1>1, <1>2, <2>1, RerankedIs
<1>3. CASE s \in Seq(Passages(C))
  <2>1. \A x \in Passages(C) : x.c \in C /\ x.rrf \in Nat
    BY DEF Passages
  <2> QED BY <1>1, <1>3, <2>1, RerankedIs
<1> QED BY <1>2, <1>3

LEMMA EvidenceIs ==
  ASSUME NEW C, C \subseteq Chunk, cands \in Seq(Passages(C)), NEW e, e = Evidence(Compacted(cands))
  PROVE  /\ e.kept \in Seq(C) /\ e.tokens \in Nat /\ e.dropped \in Nat
         /\ e.kept # <<>> => e.tokens <= Budget
         /\ Len(e.kept) + e.dropped = Len(cands)
PROOF
<1> DEFINE comp == Compacted(cands)
<1>1. /\ comp.kept \in Seq(C) /\ comp.tokens \in 0..Budget /\ comp.dropped \in Nat
      /\ Len(comp.kept) + comp.dropped = Len(cands)
  BY CompactedIs
<1>2. comp = [kept |-> comp.kept, tokens |-> comp.tokens, dropped |-> comp.dropped]
  BY CompactedIs
<1>3. e = [comp EXCEPT !.tokens = IF comp.kept = <<>> THEN WholeTokens(cands) ELSE comp.tokens]
  BY DEF Evidence
<1>4. WholeTokens(cands) \in Nat /\ Budget \in Nat
  BY WholeTokensAre, RetrievalAssumption
<1> HIDE DEF comp
<1>5. e.kept = comp.kept /\ e.dropped = comp.dropped
      /\ e.tokens = IF comp.kept = <<>> THEN WholeTokens(cands) ELSE comp.tokens
  <2>1. PICK k, t, d : comp = [kept |-> k, tokens |-> t, dropped |-> d]
    BY <1>2
  <2> QED BY <1>3, <2>1
<1> QED BY <1>1, <1>4, <1>5

LEMMA Assessed ==
  ASSUME Assess
  PROVE  /\ pc = "assess" /\ crag' \in {"REFUSE", "CONFIDENT", "AMBIGUOUS"}
         /\ UNCHANGED <<ask, found, pool, cands, relations, evidence, prompt>>
         /\ \/ /\ ~corrected /\ crag' = "AMBIGUOUS" /\ ask.terms # {}
               /\ pc' = "search" /\ hops' = 1 /\ corrected' = TRUE /\ broad' \in BOOLEAN
            \/ pc' = "refused" /\ UNCHANGED <<hops, corrected, broad>>
            \/ /\ crag' = "CONFIDENT" \/ (crag' = "AMBIGUOUS" /\ ask.terms = {})
               /\ pc' = "traverse" /\ UNCHANGED <<hops, corrected, broad>>
PROOF
<1> DEFINE status == Assessment(pool, ask.terms, ask.broad)
<1> DEFINE A == ~corrected /\ status = "AMBIGUOUS" /\ ask.terms # {}
<1> DEFINE B == (corrected /\ status # "CONFIDENT") \/ status = "REFUSE"
<1>1. status \in {"REFUSE", "CONFIDENT", "AMBIGUOUS"}
  BY DEF Assessment
<1>2. /\ pc = "assess" /\ crag' = status
      /\ UNCHANGED <<ask, found, pool, cands, relations, evidence, prompt>>
      /\ CASE A -> pc' = "search" /\ hops' = 1 /\ corrected' = TRUE /\ broad' \in BOOLEAN
           [] B -> pc' = "refused" /\ UNCHANGED <<hops, corrected, broad>>
           [] OTHER -> pc' = "traverse" /\ UNCHANGED <<hops, corrected, broad>>
  BY DEF Assess
<1> HIDE DEF status
<1>3. ~(A /\ B)
  BY <1>1
<1>4. CASE A
  BY <1>2, <1>3, <1>4
<1>5. CASE B
  <2>1. ~A
    BY <1>3, <1>5
  <2> HIDE DEF A, B
  <2>2. pc' = "refused" /\ UNCHANGED <<hops, corrected, broad>>
    BY <1>2, <1>5, <2>1
  <2> QED BY <1>1, <1>2, <2>2
<1>6. CASE ~A /\ ~B
  BY <1>1, <1>2, <1>6
<1> QED BY <1>4, <1>5, <1>6

LEMMA TypeStep ==
  ASSUME TypeOK, Control, [Next]_vars
  PROVE  TypeOK'
PROOF
<1>1. PICK C : C = In(ask.scope)
  OBVIOUS
<1>2. ask' = ask
  BY AskStays
<1>3. C \subseteq Chunk
  BY <1>1 DEF In
<1>4. /\ pc \in Steppings /\ ask \in Requests /\ hops \in Nat
      /\ corrected \in BOOLEAN /\ broad \in BOOLEAN /\ relations \in BOOLEAN
      /\ found \in Seq(Cands(C)) /\ pool \in Seq(Passages(C)) /\ cands \in Seq(Passages(C))
      /\ evidence.kept \in Seq(C) /\ evidence.tokens \in Nat /\ evidence.dropped \in Nat
  BY <1>1 DEF TypeOK
<1>5. <<>> \in Seq(Cands(C)) /\ <<>> \in Seq(Passages(C))
  OBVIOUS
<1>6. ask.broad \in BOOLEAN
  BY <1>4 DEF Requests
<1> DEFINE Typed ==
      /\ pc' \in Steppings /\ hops' \in Nat
      /\ corrected' \in BOOLEAN /\ broad' \in BOOLEAN /\ relations' \in BOOLEAN
      /\ found' \in Seq(Cands(C)) /\ pool' \in Seq(Passages(C)) /\ cands' \in Seq(Passages(C))
      /\ evidence'.kept \in Seq(C) /\ evidence'.tokens \in Nat /\ evidence'.dropped \in Nat
<1>7. Typed
  <2>1. CASE Start
    BY <1>4, <1>6, <2>1 DEF Start, Steppings
  <2>2. CASE Decompose
    <3>1. \A n \in 1..MaxHops : n \in Nat
      OBVIOUS
    <3> QED BY <1>4, <2>2, <3>1 DEF Decompose, Steppings
  <2>3. CASE Search
    <3>1. PICK dense \in DenseFinds, sparse \in SparseFinds :
            found' = Candidates(dense, sparse, ask.scope, broad)
      BY <2>3 DEF Search
    <3>2. dense \in Seq(Searched(ask.scope)) /\ sparse \in Seq(Searched(ask.scope))
      BY RankingsAre
    <3>3. ask.scope # {}
      BY <2>3 DEF Search, Control
    <3>4. found' \in Seq(Cands(In(ask.scope)))
      BY <3>1, <3>2, <3>3, CandidatesIs
    <3> QED BY <1>1, <1>4, <2>3, <3>4 DEF Search, Steppings
  <2>4. CASE RerankOne
    <3>1. PICK raw \in Outcomes(found) : cands' = Reranked(found, raw, broad)
      BY <2>4 DEF RerankOne
    <3>2. cands' \in Seq(Passages(C))
      BY <1>4, <3>1, RerankedOf
    <3>3. pc' \in Steppings
      BY <2>4 DEF RerankOne, Steppings
    <3> QED BY <1>4, <1>5, <2>4, <3>2, <3>3 DEF RerankOne
  <2>5. CASE TraverseForGraph
    BY <1>4, <2>5 DEF TraverseForGraph, Steppings
  <2>6. CASE RerankHop
    <3>1. PICK raw \in Outcomes(found) : pool' = Merged(pool, Reranked(found, raw, broad))
      BY <2>6 DEF RerankHop
    <3>2. Reranked(found, raw, broad) \in Seq(Passages(C))
      BY <1>4, RerankedOf
    <3>3. pool' \in Seq(Passages(C))
      BY <1>4, <3>1, <3>2, MergedIs
    <3>4. hops' \in Nat
      BY <1>4, <2>6 DEF RerankHop, Control
    <3> QED BY <1>4, <1>5, <2>6, <3>3, <3>4 DEF RerankHop, Steppings
  <2>7. CASE Assess
    <3>1. /\ UNCHANGED <<found, pool, cands, relations, evidence>>
          /\ pc' \in {"search", "refused", "traverse"}
          /\ (hops' = 1 /\ corrected' = TRUE /\ broad' \in BOOLEAN) \/ UNCHANGED <<hops, corrected, broad>>
      BY <2>7, Assessed
    <3>2. hops' \in Nat /\ corrected' \in BOOLEAN /\ broad' \in BOOLEAN
      <4>1. CASE hops' = 1 /\ corrected' = TRUE /\ broad' \in BOOLEAN
        BY <4>1
      <4>2. CASE UNCHANGED <<hops, corrected, broad>>
        BY <1>4, <4>2
      <4> QED BY <3>1, <4>1, <4>2
    <3>3. pc' \in Steppings
      BY <3>1 DEF Steppings
    <3>4. relations' \in BOOLEAN /\ found' \in Seq(Cands(C)) /\ pool' \in Seq(Passages(C))
      BY <1>4, <3>1
    <3>5. /\ cands' \in Seq(Passages(C))
          /\ evidence'.kept \in Seq(C) /\ evidence'.tokens \in Nat /\ evidence'.dropped \in Nat
      BY <1>4, <3>1
    <3> QED BY <3>2, <3>3, <3>4, <3>5
  <2>8. CASE Traverse
    BY <1>4, <2>8 DEF Traverse, Steppings
  <2>9. CASE Unify
    <3>1. PICK raw \in Outcomes(pool) : cands' = Reranked(pool, raw, ask.broad)
      BY <2>9 DEF Unify
    <3>2. cands' \in Seq(Passages(C))
      BY <1>4, <3>1, RerankedOf
    <3>3. pc' \in Steppings
      BY <2>9 DEF Unify, Steppings
    <3> QED BY <1>4, <1>5, <2>9, <3>2, <3>3 DEF Unify
  <2>10. CASE Compact \/ CompactPlan
    <3>1. PICK e : e = Evidence(Compacted(cands))
      OBVIOUS
    <3>2. e.kept \in Seq(C) /\ e.tokens \in Nat /\ e.dropped \in Nat
      BY <1>3, <1>4, <3>1, EvidenceIs
    <3>3. evidence' = e
      BY <2>10, <3>1 DEF Compact, CompactPlan
    <3> QED BY <1>4, <2>10, <3>2, <3>3 DEF Compact, CompactPlan, Steppings
  <2>11. CASE Generate
    BY <1>4, <2>11 DEF Generate, Steppings
  <2>12. CASE Ended \/ UNCHANGED vars
    BY <1>4, <2>12 DEF Ended, vars
  <2> QED BY <2>1, <2>2, <2>3, <2>4, <2>5, <2>6, <2>7, <2>8, <2>9, <2>10, <2>11, <2>12 DEF Next
<1> QED BY <1>1, <1>2, <1>4, <1>7 DEF TypeOK

LEMMA ControlStep ==
  ASSUME TypeOK, Control, [Next]_vars
  PROVE  Control'
PROOF
<1>1. ask' = ask
  BY AskStays
<1>2. hops \in Nat /\ ask.mode \in {"agentic", "graph", "direct"}
  BY DEF TypeOK, Requests
<1> USE DEF Control, Agentic
<1>3. CASE Start
  BY <1>1, <1>2, <1>3 DEF Start
<1>4. CASE Decompose
  <2>1. \A n \in 1..MaxHops : n > 0
    OBVIOUS
  <2> QED BY <1>1, <1>4, <2>1 DEF Decompose
<1>5. CASE Search
  BY <1>1, <1>5 DEF Search
<1>6. CASE RerankOne
  <2>1. pc = "rerank" /\ pc' \in {"doubt", "graph", "refused", "compact"}
        /\ (pc' \in {"doubt", "graph"} => ask.mode = "graph")
    BY <1>6 DEF RerankOne
  <2> QED BY <1>1, <2>1
<1>7. CASE TraverseForGraph
  BY <1>1, <1>7 DEF TraverseForGraph
<1>8. CASE RerankHop
  <2>1. pc = "rerank" /\ Agentic /\ (pc' = IF hops' > 0 THEN "search" ELSE "assess")
    BY <1>8 DEF RerankHop
  <2> QED BY <1>1, <2>1
<1>9. CASE Assess
  <2>1. pc = "assess" /\ pc' \in {"search", "refused", "traverse"} /\ (pc' = "search" => hops' = 1)
    BY <1>9, Assessed
  <2> QED BY <1>1, <2>1
<1>10. CASE Traverse
  BY <1>1, <1>10 DEF Traverse
<1>11. CASE Unify
  <2>1. pc = "unify" /\ pc' \in {"refused", "compact"}
    BY <1>11 DEF Unify
  <2> QED BY <1>1, <2>1
<1>12. CASE Compact \/ CompactPlan
  <2>1. pc = "compact" /\ pc' = "generate"
    BY <1>12 DEF Compact, CompactPlan
  <2> QED BY <1>1, <2>1
<1>13. CASE Generate
  <2>1. pc = "generate" /\ pc' \in {"answered", "failed"}
    BY <1>13 DEF Generate
  <2> QED BY <1>1, <2>1
<1>14. CASE Ended \/ UNCHANGED vars
  BY <1>14 DEF Ended, vars
<1> QED BY <1>3, <1>4, <1>5, <1>6, <1>7, <1>8, <1>9, <1>10, <1>11, <1>12, <1>13, <1>14 DEF Next

LEMMA CutoffIs == \A b : Cutoff(b) \in Nat /\ Cutoff(b) <= MinScore
PROOF
<1>1. MinScore \in Nat
  BY RetrievalAssumption DEF Score
<1> QED BY <1>1 DEF Cutoff, Least

\* What reranking did not refuse has a first passage at the cutoff.
LEMMA NotRefused ==
  ASSUME NEW C, NEW s \in Seq(Passages(C)), NEW cutoff \in Nat, ~Refused(s, cutoff)
  PROVE  s # <<>> /\ TopScore(s) \in Nat /\ TopScore(s) >= cutoff
PROOF
<1>1. s # <<>> /\ ~(TopScore(s) < cutoff)
  BY DEF Refused
<1>2. s[1] \in Passages(C)
  BY <1>1
<1>3. TopScore(s) \in Nat
  BY <1>1, <1>2 DEF TopScore, Passages
<1> QED BY <1>1, <1>3

LEMMA PassedStep ==
  ASSUME TypeOK, TypeOK', Control, Passed, [Next]_vars
  PROVE  Passed'
PROOF
<1>1. ask' = ask
  BY AskStays
<1>2. PICK C : C = In(ask.scope)
  OBVIOUS
<1>3. ask.mode \in {"agentic", "graph", "direct"} /\ MinScore \in Nat
  BY RetrievalAssumption DEF TypeOK, Requests, Score
<1>4. cands' \in Seq(Passages(C))
  BY <1>1, <1>2 DEF TypeOK
<1> DEFINE Grounds == {"compact", "generate", "answered", "failed"}
<1>5. ASSUME pc' \notin {"graph", "traverse", "unify"} \union Grounds PROVE Passed'
  BY <1>5 DEF Passed, AnswersAreGrounded
<1>6. CASE Start \/ Decompose \/ Search
  BY <1>5, <1>6 DEF Start, Decompose, Search
<1>7. CASE RerankOne
  <2>1. PICK top : top = cands'
    OBVIOUS
  <2>2. /\ ~Agentic /\ pc = "rerank"
        /\ pc' = IF ask.mode = "graph" THEN (IF Refused(top, Cutoff(broad)) THEN "doubt" ELSE "graph")
                 ELSE IF Refused(top, Cutoff(broad)) THEN "refused" ELSE "compact"
    BY <1>7, <2>1 DEF RerankOne
  <2>3. broad = ask.broad
    BY <2>2 DEF Control
  <2>4. CASE Refused(top, Cutoff(broad))
    BY <1>5, <2>2, <2>4
  <2>5. CASE ~Refused(top, Cutoff(broad))
    <3>1. top # <<>> /\ TopScore(top) >= Cutoff(broad)
      BY <1>4, <2>1, <2>5, CutoffIs, NotRefused
    <3>2. cands' # <<>> /\ TopScore(cands)' >= Cutoff(ask.broad)'
      BY <1>1, <2>1, <2>3, <3>1 DEF TopScore, Cutoff
    <3> QED BY <1>1, <2>2, <2>5, <3>2 DEF Passed, AnswersAreGrounded, Agentic
  <2> QED BY <2>4, <2>5
<1>8. CASE TraverseForGraph
  <2>1. /\ pc \in {"graph", "doubt"} /\ UNCHANGED cands
        /\ pc' = IF pc = "doubt" /\ ~relations' THEN "refused" ELSE "compact"
    BY <1>8 DEF TraverseForGraph
  <2>2. ask.mode = "graph" /\ ~Agentic
    BY <2>1 DEF Control, Agentic
  <2>3. CASE pc = "graph"
    <3>1. cands # <<>> /\ TopScore(cands) >= Cutoff(ask.broad)
      BY <2>3 DEF Passed
    <3>2. cands' # <<>> /\ TopScore(cands)' >= Cutoff(ask.broad)'
      BY <1>1, <2>1, <3>1 DEF TopScore, Cutoff
    <3> QED BY <1>1, <2>1, <2>2, <2>3, <3>2 DEF Passed, AnswersAreGrounded, Agentic
  <2>4. CASE pc = "doubt" /\ relations'
    BY <1>1, <2>1, <2>2, <2>4 DEF Passed, AnswersAreGrounded
  <2>5. CASE pc = "doubt" /\ ~relations'
    BY <1>5, <2>1, <2>5
  <2> QED BY <2>1, <2>3, <2>4, <2>5
<1>9. CASE RerankHop
  <2>1. pc' \in {"search", "assess"}
    BY <1>9 DEF RerankHop
  <2> QED BY <1>5, <2>1
<1>10. CASE Assess
  <2>1. CASE pc' # "traverse"
    <3>1. pc' \in {"search", "refused"}
      BY <1>10, <2>1, Assessed
    <3> QED BY <1>5, <3>1
  <2>2. CASE pc' = "traverse"
    <3>1. crag' = "CONFIDENT" \/ (crag' = "AMBIGUOUS" /\ ask.terms = {})
      BY <1>10, <2>2, Assessed
    <3> QED BY <1>1, <2>2, <3>1 DEF Passed, AnswersAreGrounded
  <2> QED BY <2>1, <2>2
<1>11. CASE Traverse
  <2>1. pc = "traverse" /\ pc' = "unify" /\ UNCHANGED <<ask, crag>>
    BY <1>11 DEF Traverse
  <2> QED BY <2>1 DEF Passed, AnswersAreGrounded
<1>12. CASE Unify
  <2>1. PICK top : top = cands'
    OBVIOUS
  <2>2. pc = "unify" /\ UNCHANGED <<ask, crag>>
        /\ pc' = IF Refused(top, MinScore) THEN "refused" ELSE "compact"
    BY <1>12, <2>1 DEF Unify
  <2>3. crag = "CONFIDENT" \/ (crag = "AMBIGUOUS" /\ ask.terms = {})
    BY <2>2 DEF Passed
  <2>4. CASE Refused(top, MinScore)
    BY <1>5, <2>2, <2>4
  <2>5. CASE ~Refused(top, MinScore)
    <3>1. top # <<>> /\ TopScore(top) \in Nat /\ TopScore(top) >= MinScore
      BY <1>3, <1>4, <2>1, <2>5, NotRefused
    <3>2. TopScore(top) >= Cutoff(ask.broad)
      BY <1>3, <3>1, CutoffIs
    <3>3. cands' # <<>> /\ TopScore(cands)' >= Cutoff(ask.broad)' /\ TopScore(cands)' >= MinScore
      BY <1>1, <2>1, <3>1, <3>2 DEF TopScore, Cutoff
    <3> QED BY <1>1, <2>2, <2>3, <2>5, <3>3 DEF Passed, AnswersAreGrounded, Agentic
  <2> QED BY <2>4, <2>5
<1>13. CASE Compact \/ CompactPlan \/ Generate
  <2>1. pc \in Grounds /\ pc' \in Grounds /\ UNCHANGED <<ask, cands, crag, relations>>
    BY <1>13 DEF Compact, CompactPlan, Generate
  <2>2. TopScore(cands)' = TopScore(cands) /\ Cutoff(ask.broad)' = Cutoff(ask.broad)
    BY <2>1 DEF TopScore, Cutoff
  <2> QED BY <2>1, <2>2 DEF Passed, AnswersAreGrounded, Agentic
<1>14. CASE Ended \/ UNCHANGED vars
  <2>1. UNCHANGED vars
    BY <1>14 DEF Ended
  <2> QED BY <2>1 DEF vars, Passed, AnswersAreGrounded, Agentic, TopScore, Cutoff
<1> QED BY <1>6, <1>7, <1>8, <1>9, <1>10, <1>11, <1>12, <1>13, <1>14 DEF Next

LEMMA FitsStep ==
  ASSUME TypeOK, EvidenceFits, [Next]_vars
  PROVE  EvidenceFits'
PROOF
<1>1. CASE Compact \/ CompactPlan
  <2>1. PICK C : C = In(ask.scope)
    OBVIOUS
  <2>2. C \subseteq Chunk /\ cands \in Seq(Passages(C))
    BY <2>1 DEF In, TypeOK
  <2>3. PICK e : e = Evidence(Compacted(cands))
    OBVIOUS
  <2>4. (e.kept # <<>> => e.tokens <= Budget) /\ Len(e.kept) + e.dropped = Len(cands)
    BY <2>2, <2>3, EvidenceIs
  <2>5. evidence' = e /\ cands' = cands
    BY <1>1, <2>3 DEF Compact, CompactPlan
  <2> QED BY <2>4, <2>5 DEF EvidenceFits
<1>2. CASE Generate \/ Ended \/ UNCHANGED vars
  <2>1. (pc' \in {"generate", "answered", "failed"} => pc \in {"generate", "answered", "failed"})
        /\ UNCHANGED <<cands, evidence>>
    BY <1>2 DEF Generate, Ended, vars
  <2> QED BY <2>1 DEF EvidenceFits
<1>3. CASE Start \/ Decompose \/ Search \/ RerankOne \/ TraverseForGraph \/ RerankHop \/ Assess \/ Traverse \/ Unify
  <2>1. CASE Assess
    BY <2>1, Assessed DEF EvidenceFits
  <2>2. pc' \notin {"generate", "answered", "failed"}
    BY <1>3, Assessed DEF Start, Decompose, Search, RerankOne, TraverseForGraph, RerankHop, Traverse, Unify
  <2> QED BY <2>2 DEF EvidenceFits
<1> QED BY <1>1, <1>2, <1>3 DEF Next

\* The window is never smaller than the second try's, and a prompt that was cut has the
\* size it was cut to, with the end of it whole up to half of that.
LEMMA WindowIs ==
  ASSUME NEW chars \in Nat, NEW large \in BOOLEAN
  PROVE  /\ NumCtx(chars, large) \in Nat /\ NumCtx(chars, large) >= 2048
         /\ MaxChars(NumCtx(chars, large)) \in Nat /\ MaxChars(NumCtx(chars, large)) >= 5943
         /\ 2 * MaxChars(NumCtx(chars, large)) <= 7 * (NumCtx(chars, large) - 350)
PROOF
<1>1. Budget \in Nat
  BY RetrievalAssumption
<1>2. PICK ctx : ctx = NumCtx(chars, large)
  OBVIOUS
<1>3. ctx \in Nat /\ ctx >= 2048
  <2> DEFINE need == Most(Budget + 512, (2 * chars) \div 7 + 256 + 64)
  <2>1. need \in Nat
    BY <1>1 DEF Most
  <2> HIDE DEF need
  <2>2. ctx = Least(Most(2048, need), IF large THEN 4096 ELSE 8192)
    BY <1>2 DEF NumCtx, need
  <2> QED BY <2>1, <2>2 DEF Least, Most
<1>4. MaxChars(ctx) \in Nat /\ MaxChars(ctx) >= 5943 /\ 2 * MaxChars(ctx) <= 7 * (ctx - 350)
  BY <1>3 DEF MaxChars
<1> QED BY <1>2, <1>3, <1>4

CutTo(c, tail, max) ==
  /\ c.head \in Int /\ c.tail \in Nat /\ c.note \in Nat
  /\ c.head + c.tail + c.note \in Nat /\ c.head + c.tail + c.note <= max
  /\ tail <= 2000 => c.tail = tail

LEMMA CutIs ==
  ASSUME NEW chars \in Nat, NEW tail \in Nat, NEW max \in Nat, max >= 4000
  PROVE  CutTo(Cut(chars, tail, max), tail, max)
PROOF
<1> SUFFICES ASSUME NEW c, c = Cut(chars, tail, max) PROVE CutTo(c, tail, max)
  OBVIOUS
<1> USE DEF CutTo
<1>1. CASE chars <= max
  <2>1. c = [head |-> chars - tail, tail |-> tail, note |-> 0]
    BY <1>1 DEF Cut
  <2>2. c.head = chars - tail /\ c.tail = tail /\ c.note = 0
    BY <2>1
  <2> QED BY <1>1, <2>2
<1>2. CASE ~(chars <= max)
  <2> DEFINE t == Least(tail, max \div 2)
  <2>1. c = [head |-> Most(max - t - Note, 0), tail |-> t, note |-> Note]
    BY <1>2 DEF Cut
  <2>2. c.head = Most(max - t - Note, 0) /\ c.tail = t /\ c.note = Note
    <3> HIDE DEF t
    <3> QED BY <2>1
  <2>3. t \in Nat /\ 2 * t <= max /\ (tail <= 2000 => t = tail)
    BY DEF Least
  <2> HIDE DEF t
  <2> QED BY <2>2, <2>3 DEF Most, Note
<1> QED BY <1>1, <1>2

LEMMA QuestionStep ==
  ASSUME TypeOK, QuestionKept, [Next]_vars
  PROVE  QuestionKept'
PROOF
<1>1. CASE Generate
  <2>0. PICK rest \in Rests, tail \in Tails, large \in BOOLEAN : \E chars, ctx, sent, again :
          /\ chars = PromptChars(rest, tail) /\ ctx = NumCtx(chars, large)
          /\ sent = Cut(chars, tail, MaxChars(ctx))
          /\ again = Cut(sent.head + sent.tail + sent.note, IF sent.tail = tail THEN tail ELSE 1000, 4000)
          /\ \/ prompt' = [head |-> sent.head, tail |-> sent.tail, note |-> sent.note, ctx |-> ctx, whole |-> tail]
             \/ prompt' = [head |-> again.head, tail |-> again.tail, note |-> again.note, ctx |-> 2048, whole |-> tail]
    BY <1>1 DEF Generate
  <2>1. PICK chars, ctx, sent, again :
          /\ chars = PromptChars(rest, tail) /\ ctx = NumCtx(chars, large)
          /\ sent = Cut(chars, tail, MaxChars(ctx))
          /\ again = Cut(sent.head + sent.tail + sent.note, IF sent.tail = tail THEN tail ELSE 1000, 4000)
          /\ \/ prompt' = [head |-> sent.head, tail |-> sent.tail, note |-> sent.note, ctx |-> ctx, whole |-> tail]
             \/ prompt' = [head |-> again.head, tail |-> again.tail, note |-> again.note, ctx |-> 2048, whole |-> tail]
    BY <2>0
  <2>2. rest \in Nat /\ tail \in Nat /\ evidence.tokens \in Nat
    BY ChatTurnAssumption DEF TypeOK
  <2>3. chars \in Nat
    BY <2>1, <2>2 DEF PromptChars
  <2>4. ctx \in Nat /\ ctx >= 2048 /\ MaxChars(ctx) \in Nat /\ MaxChars(ctx) >= 5943
        /\ 2 * MaxChars(ctx) <= 7 * (ctx - 350)
    BY <2>1, <2>3, WindowIs
  <2>5. PICK max : max = MaxChars(ctx)
    OBVIOUS
  <2>6. /\ sent.head \in Int /\ sent.tail \in Nat /\ sent.note \in Nat
        /\ sent.head + sent.tail + sent.note \in Nat /\ sent.head + sent.tail + sent.note <= max
        /\ tail <= 2000 => sent.tail = tail
    <3>1. sent = Cut(chars, tail, max) /\ max \in Nat /\ max >= 4000
      BY <2>1, <2>4, <2>5
    <3>2. CutTo(sent, tail, max)
      BY <2>2, <2>3, <3>1, CutIs
    <3> QED BY <3>2 DEF CutTo
  <2>7. PICK left, end : left = sent.head + sent.tail + sent.note /\ end = IF sent.tail = tail THEN tail ELSE 1000
    OBVIOUS
  <2>8. left \in Nat /\ end \in Nat /\ (tail <= 2000 => end = tail)
    BY <2>2, <2>6, <2>7
  <2>9. /\ again.head \in Int /\ again.tail \in Nat /\ again.note \in Nat
        /\ again.head + again.tail + again.note <= 4000
        /\ end <= 2000 => again.tail = end
    <3>1. again = Cut(left, end, 4000) /\ 4000 \in Nat /\ 4000 >= 4000
      BY <2>1, <2>7
    <3>2. CutTo(again, end, 4000)
      BY <2>8, <3>1, CutIs
    <3> QED BY <3>2 DEF CutTo
  <2>10. CASE prompt' = [head |-> sent.head, tail |-> sent.tail, note |-> sent.note, ctx |-> ctx, whole |-> tail]
    <3>1. prompt'.head = sent.head /\ prompt'.tail = sent.tail /\ prompt'.note = sent.note
          /\ prompt'.ctx = ctx /\ prompt'.whole = tail
      BY <2>10
    <3>2. 2 * (sent.head + sent.tail + sent.note) <= 7 * (ctx - 256)
      BY <2>4, <2>5, <2>6
    <3> QED BY <2>6, <3>1, <3>2 DEF QuestionKept
  <2>11. CASE prompt' = [head |-> again.head, tail |-> again.tail, note |-> again.note, ctx |-> 2048, whole |-> tail]
    <3>1. prompt'.head = again.head /\ prompt'.tail = again.tail /\ prompt'.note = again.note
          /\ prompt'.ctx = 2048 /\ prompt'.whole = tail
      BY <2>11
    <3>2. 2 * (again.head + again.tail + again.note) <= 7 * (2048 - 256)
      BY <2>9
    <3>3. tail <= 2000 => again.tail = tail
      BY <2>2, <2>8, <2>9
    <3> QED BY <3>1, <3>2, <3>3 DEF QuestionKept
  <2> QED BY <2>1, <2>10, <2>11
<1>2. CASE Ended \/ UNCHANGED vars
  BY <1>2 DEF Ended, vars, QuestionKept
<1>3. CASE ~Generate /\ ~Ended /\ Next
  <2>1. CASE Assess
    <3>1. pc' \in {"search", "refused", "traverse"}
      BY <2>1, Assessed
    <3> QED BY <3>1 DEF QuestionKept
  <2>2. CASE ~Assess
    <3>1. pc' \notin {"answered", "failed"}
      BY <1>3, <2>2 DEF Next, Start, Decompose, Search, RerankOne, TraverseForGraph, RerankHop, Traverse,
                         Unify, Compact, CompactPlan
    <3> QED BY <3>1 DEF QuestionKept
  <2> QED BY <2>1, <2>2
<1> QED BY <1>1, <1>2, <1>3

LEMMA TurnInvariant == Spec => []TurnInv
PROOF
<1>1. ASSUME TurnInv, [Next]_vars PROVE TurnInv'
  <2>1. TypeOK'
    BY <1>1, TypeStep DEF TurnInv
  <2> QED BY <1>1, <2>1, ControlStep, PassedStep, FitsStep, QuestionStep DEF TurnInv
<1> QED BY <1>1, InitTurn, PTL DEF Spec

-----------------------------------------------------------------------------
(* The theorems.                                                             *)

\* Whatever the stores find, the cross-encoder scores and the model decomposes, nothing
\* outside the documents a project may read reaches the candidates, the pool of the hops,
\* the passages or the evidence.
THEOREM ScopeIsKept == Spec => []ScopeHolds
PROOF
<1>1. TurnInv => ScopeHolds
  <2> SUFFICES ASSUME TurnInv PROVE ScopeHolds
    OBVIOUS
  <2>1. PICK C : C = In(ask.scope)
    OBVIOUS
  <2>2. /\ found \in Seq(Cands(C)) /\ pool \in Seq(Passages(C)) /\ cands \in Seq(Passages(C))
        /\ evidence.kept \in Seq(C)
    BY <2>1 DEF TurnInv, TypeOK
  <2>3. \A x \in Cands(C) \union Passages(C) : x.c \in C
    BY DEF Cands, Passages
  <2>4. \A c \in C : InScope(c, ask.scope)
    BY <2>1 DEF In
  <2>5. \A i \in DOMAIN found : InScope(found[i].c, ask.scope)
    BY <2>2, <2>3, <2>4
  <2>6. \A i \in DOMAIN pool : InScope(pool[i].c, ask.scope)
    BY <2>2, <2>3, <2>4
  <2>7. \A i \in DOMAIN cands : InScope(cands[i].c, ask.scope)
    BY <2>2, <2>3, <2>4
  <2>8. \A i \in DOMAIN evidence.kept : InScope(evidence.kept[i], ask.scope)
    BY <2>2, <2>4
  <2> QED BY <2>5, <2>6, <2>7, <2>8 DEF ScopeHolds
<1> QED BY <1>1, TurnInvariant, PTL

\* The model is asked only with a passage at the cutoff or, in graph mode, a relation, and
\* after a plan only with an assessment that is confident or could not be improved on.
THEOREM AnswersHaveGrounds == Spec => []AnswersAreGrounded
PROOF
<1>1. TurnInv => AnswersAreGrounded
  BY DEF TurnInv, Passed
<1> QED BY <1>1, TurnInvariant, PTL

\* For every budget, and every passages, sentences and tables, the packed evidence stays
\* within the budget, and every passage is kept or counted.
THEOREM EvidenceIsWithinBudget == Spec => []EvidenceFits
PROOF
<1>1. TurnInv => EvidenceFits
  BY DEF TurnInv
<1> QED BY <1>1, TurnInvariant, PTL

\* However long the history and the evidence are, a prompt fits the window at both tries,
\* and a question of up to 2000 characters is not cut.
THEOREM QuestionsReachTheModel == Spec => []QuestionKept
PROOF
<1>1. TurnInv => QuestionKept
  BY DEF TurnInv
<1> QED BY <1>1, TurnInvariant, PTL

\* Every step of a turn leaves fewer calls to make, for plans of any number of hops: no
\* assessment, and no failure of a store or of the model, makes a turn go round.
THEOREM TurnsAreFinite == Spec => TurnsEnd
PROOF
<1>1. ASSUME TypeOK, Control, [Next]_vars PROVE [CallsLeft' < CallsLeft]_vars
  <2>1. MaxHops \in Nat /\ MaxHops > 0 /\ hops \in Nat
    BY <1>1, ChatTurnAssumption DEF TypeOK
  <2> USE DEF CallsLeft
  <2>2. CASE Start
    BY <2>1, <2>2 DEF Start
  <2>3. CASE Decompose
    <3>1. hops' \in Nat /\ hops' <= MaxHops /\ pc = "plan" /\ pc' = "search"
      BY <2>1, <2>3 DEF Decompose
    <3> QED BY <2>1, <3>1
  <2>4. CASE Search
    BY <2>1, <2>4 DEF Search
  <2>5. CASE RerankOne
    <3>1. pc = "rerank" /\ pc' \in {"doubt", "graph", "refused", "compact"}
      BY <2>5 DEF RerankOne
    <3> QED BY <2>1, <3>1
  <2>6. CASE TraverseForGraph
    <3>1. pc \in {"graph", "doubt"} /\ pc' \in {"refused", "compact"}
      BY <2>6 DEF TraverseForGraph
    <3> QED BY <3>1
  <2>7. CASE RerankHop
    <3>1. pc = "rerank" /\ hops > 0 /\ hops' = hops - 1 /\ corrected' = corrected
          /\ pc' = IF hops' > 0 THEN "search" ELSE "assess"
      BY <1>1, <2>7 DEF RerankHop, Control
    <3> QED BY <2>1, <3>1
  <2>8. CASE Assess
    <3>1. pc = "assess" /\ (\/ ~corrected /\ pc' = "search" /\ hops' = 1 /\ corrected' = TRUE
                            \/ pc' \in {"refused", "traverse"})
      BY <2>8, Assessed
    <3> QED BY <3>1
  <2>9. CASE Traverse
    BY <2>9 DEF Traverse
  <2>10. CASE Unify
    <3>1. pc = "unify" /\ pc' \in {"refused", "compact"}
      BY <2>10 DEF Unify
    <3> QED BY <3>1
  <2>11. CASE Compact \/ CompactPlan
    <3>1. pc = "compact" /\ pc' = "generate"
      BY <2>11 DEF Compact, CompactPlan
    <3> QED BY <3>1
  <2>12. CASE Generate
    <3>1. pc = "generate" /\ pc' \in {"answered", "failed"}
      BY <2>12 DEF Generate
    <3> QED BY <3>1
  <2>13. CASE Ended \/ UNCHANGED vars
    BY <2>13 DEF Ended
  <2> QED BY <1>1, <2>2, <2>3, <2>4, <2>5, <2>6, <2>7, <2>8, <2>9, <2>10, <2>11, <2>12, <2>13 DEF Next
<1>2. TurnInv => TypeOK /\ Control
  BY DEF TurnInv
<1> QED BY <1>1, <1>2, TurnInvariant, PTL DEF Spec, TurnsEnd

-----------------------------------------------------------------------------
(* What is extracted from a chunk.                                           *)

Predicates == Plain \cup {Assoc, "has"}
Told(c) == {t \in Names \X Predicates \X Names : {t[1], t[3]} \subseteq Entities(c)}
Facts(c) ==
  {e \in [src : Names, pred : Predicates, tgt : Names, chunk : {c}, weight : {6, 10}] : Ends(e) \subseteq Entities(c)}

\* No two of these relations state the same triple.
Once(s) == \A i, j \in DOMAIN s : Triple(s[i]) = Triple(s[j]) => i = j

LEMMA FactIs ==
  ASSUME NEW c, NEW t \in Told(c), NEW w \in {6, 10}
  PROVE  Fact(c, t, w) \in Facts(c) /\ Triple(Fact(c, t, w)) = t
PROOF
<1>1. t \in Names \X Predicates \X Names /\ {t[1], t[3]} \subseteq Entities(c)
  BY DEF Told
<1>2. t[1] \in Names /\ t[2] \in Predicates /\ t[3] \in Names /\ t = <<t[1], t[2], t[3]>>
  BY <1>1
<1>3. Ends(Fact(c, t, w)) = {t[1], t[3]}
  BY DEF Ends, Fact
<1>4. Fact(c, t, w) \in [src : Names, pred : Predicates, tgt : Names, chunk : {c}, weight : {6, 10}]
  BY <1>2 DEF Fact
<1>5. Triple(Fact(c, t, w)) = <<t[1], t[2], t[3]>>
  BY DEF Fact, Triple
<1> QED BY <1>1, <1>2, <1>3, <1>4, <1>5 DEF Facts

\* The relations found anew: of the chunk, each triple once, none of those seen.
LEMMA NewsIs ==
  ASSUME NEW c, NEW seen, NEW ts \in Seq(Told(c)), NEW w \in {6, 10}
  PROVE  /\ News(seen, c, ts, w) \in Seq(Facts(c)) /\ Once(News(seen, c, ts, w))
         /\ \A e \in ToSet(seen), d \in ToSet(News(seen, c, ts, w)) : Triple(e) # Triple(d)
PROOF
<1> DEFINE I == {i \in DOMAIN ts : /\ \A e \in ToSet(seen) : Triple(e) # ts[i]
                                   /\ \A j \in 1..(i - 1) : ts[j] # ts[i]}
<1> DEFINE new == Among(ts, I)
<1> DEFINE news == [k \in DOMAIN new |-> Fact(c, new[k], w)]
<1> DEFINE n == Cardinality(I)
<1>1. news = News(seen, c, ts, w)
  BY DEF News
<1>2. I \in SUBSET DOMAIN ts
  OBVIOUS
<1>3. /\ \A i \in I, e \in ToSet(seen) : Triple(e) # ts[i]
      /\ \A i, j \in I : j < i => ts[j] # ts[i]
      /\ \A i \in I : ts[i] \in Told(c) /\ i \in Nat
  OBVIOUS
<1> HIDE DEF I
<1>4. PICK f \in [1..n -> I] :
           /\ n \in Nat
           /\ new = [k \in 1..n |-> ts[f[k]]]
           /\ \A k, l \in 1..n : k < l => f[k] < f[l]
  BY <1>2, AmongPlaces
<1> HIDE DEF n, new
<1>5. /\ DOMAIN new = 1..n
      /\ \A k \in 1..n : f[k] \in I /\ new[k] = ts[f[k]] /\ new[k] \in Told(c)
  BY <1>3, <1>4
<1>6. /\ DOMAIN news = 1..n
      /\ \A k \in 1..n : news[k] = Fact(c, new[k], w) /\ news[k] \in Facts(c) /\ Triple(news[k]) = new[k]
  BY <1>5, FactIs
<1>7. news \in Seq(Facts(c))
  <2>1. \A k \in 1..n : Fact(c, new[k], w) \in Facts(c)
    BY <1>5, FactIs
  <2> QED BY <1>4, <1>5, <2>1
<1> HIDE DEF news
<1>8. Once(news)
  <2> SUFFICES ASSUME NEW k \in 1..n, NEW l \in 1..n, new[k] = new[l], k # l PROVE FALSE
    BY <1>6 DEF Once
  <2>1. ts[f[k]] = ts[f[l]] /\ f[k] \in I /\ f[l] \in I
    BY <1>5
  <2>2. k < l \/ l < k
    BY <1>4
  <2> QED BY <1>3, <1>4, <2>1, <2>2
<1>9. ASSUME NEW e \in ToSet(seen), NEW d \in ToSet(news) PROVE Triple(e) # Triple(d)
  <2>1. PICK k \in 1..n : d = news[k]
    BY <1>6 DEF ToSet
  <2>2. Triple(d) = ts[f[k]] /\ f[k] \in I
    BY <1>5, <1>6, <2>1
  <2> QED BY <1>3, <2>2
<1> QED BY <1>1, <1>7, <1>8, <1>9

LEMMA NamesFinite ==
  ASSUME NEW S \in SUBSET Names
  PROVE  S \in SUBSET Nat /\ IsFiniteSet(S)
PROOF
<1>1. Names \subseteq Nat /\ IsFiniteSet(Names)
  BY GraphFactsAssumption
<1> QED BY <1>1, FS_Subset

\* The pairs of names that occur together relate two different names of the sentence.
LEMMA PairedIs ==
  ASSUME NEW c, NEW ns \in SUBSET Names, ns \subseteq Entities(c)
  PROVE  Paired(ns) \in Seq(Told(c))
PROOF
<1> DEFINE s == InOrder(ns)
<1>1. s \in Seq(ns)
  BY NamesFinite, InOrderIs
<1> DEFINE n == Len(s) - 1
<1> DEFINE at(i) == <<s[1], Assoc, s[i + 1]>>
<1>2. Paired(ns) = [i \in 1..n |-> at(i)]
  BY DEF Paired
<1> HIDE DEF s
<1>3. ASSUME NEW i \in 1..n PROVE at(i) \in Told(c)
  <2>1. 1 \in DOMAIN s /\ i + 1 \in DOMAIN s
    BY <1>1
  <2>2. s[1] \in ns /\ s[i + 1] \in ns
    BY <1>1, <2>1
  <2> QED BY <2>2 DEF Told, Predicates
<1> HIDE DEF at
<1>4. CASE n \in Nat
  <2> HIDE DEF n
  <2> QED BY <1>2, <1>3, <1>4
<1>5. CASE n \notin Nat
  <2>1. 1..n = {}
    BY <1>1, <1>5
  <2>2. Paired(ns) = <<>>
    <3> HIDE DEF n
    <3> QED BY <1>2, <2>1
  <2> QED BY <2>2
<1> QED BY <1>4, <1>5

LEMMA SentenceIs ==
  ASSUME NEW c \in Chunk, NEW s \in ToSet(Sentences[c])
  PROVE  s.names \in SUBSET Names /\ s.names \subseteq Entities(c) /\ s.said \in Seq(Told(c))
PROOF
<1>1. /\ Sentences[c] \in Seq([names : SUBSET Names, said : Seq(Names \X Predicates \X Names)])
      /\ \A t \in ToSet(s.said) : {t[1], t[3]} \subseteq s.names
  BY GraphFactsAssumption DEF Predicates
<1>2. s \in [names : SUBSET Names, said : Seq(Names \X Predicates \X Names)]
  <2> DEFINE R == [names : SUBSET Names, said : Seq(Names \X Predicates \X Names)]
  <2>1. Sentences[c] \in Seq(R)
    BY <1>1
  <2> HIDE DEF R
  <2>2. s \in R
    BY <2>1 DEF ToSet
  <2> QED BY <2>2 DEF R
<1>3. s.names \in SUBSET Names /\ s.said \in Seq(Names \X Predicates \X Names)
  BY <1>2
<1>4. s.names \subseteq Entities(c)
  BY DEF Entities
<1>5. \A i \in DOMAIN s.said : s.said[i] \in Told(c)
  <2> SUFFICES ASSUME NEW i \in DOMAIN s.said PROVE s.said[i] \in Told(c)
    OBVIOUS
  <2> DEFINE t == s.said[i]
  <2>1. t \in Names \X Predicates \X Names
    BY <1>3
  <2>2. t \in ToSet(s.said)
    BY DEF ToSet
  <2>3. {t[1], t[3]} \subseteq Entities(c)
    BY <1>1, <1>4, <2>2
  <2> QED BY <2>1, <2>3 DEF Told
<1>6. s.said \in Seq(Told(c))
  BY <1>3, <1>5
<1> QED BY <1>3, <1>4, <1>6

\* A sentence adds relations of its chunk, whose triples are not among those seen.
LEMMA FromSentenceIs ==
  ASSUME NEW c \in Chunk, NEW s \in ToSet(Sentences[c]), NEW seen
  PROVE  /\ FromSentence(seen, c, s) \in Seq(Facts(c)) /\ Once(FromSentence(seen, c, s))
         /\ \A e \in ToSet(seen), d \in ToSet(FromSentence(seen, c, s)) : Triple(e) # Triple(d)
PROOF
<1> DEFINE Good(r) == /\ r \in Seq(Facts(c)) /\ Once(r)
                      /\ \A e \in ToSet(seen), d \in ToSet(r) : Triple(e) # Triple(d)
<1> DEFINE I == {i \in DOMAIN s.said : s.said[i][1] # s.said[i][3]}
<1> DEFINE said == News(seen, c, Among(s.said, I), 10)
<1> DEFINE pairs == News(seen, c, Paired(s.names), 6)
<1>1. FromSentence(seen, c, s) = IF Cardinality(s.names) < 2 THEN <<>> ELSE IF said # <<>> THEN said ELSE pairs
  BY DEF FromSentence
<1>2. s.names \in SUBSET Names /\ s.names \subseteq Entities(c) /\ s.said \in Seq(Told(c))
  BY SentenceIs
<1>3. Good(said)
  <2>1. Among(s.said, I) \in Seq(Told(c))
    BY <1>2, AmongHas
  <2> HIDE DEF I
  <2> QED BY <2>1, NewsIs
<1>4. Good(pairs)
  <2>1. Paired(s.names) \in Seq(Told(c))
    BY <1>2, PairedIs
  <2> QED BY <2>1, NewsIs
<1>5. Good(<<>>)
  BY DEF Once, ToSet
<1>6. Good(FromSentence(seen, c, s))
  <2> HIDE DEF Good, said, pairs
  <2> QED BY <1>1, <1>3, <1>4, <1>5
<1> QED BY <1>6

LEMMA OnceJoined ==
  ASSUME NEW c, NEW s \in Seq(Facts(c)), NEW t \in Seq(Facts(c)), Once(s), Once(t),
         \A e \in ToSet(s), d \in ToSet(t) : Triple(e) # Triple(d)
  PROVE  s \o t \in Seq(Facts(c)) /\ Once(s \o t)
PROOF
<1> DEFINE m == Len(s)
<1> DEFINE n == Len(t)
<1> DEFINE u == s \o t
<1>1. /\ m \in Nat /\ n \in Nat /\ u \in Seq(Facts(c)) /\ DOMAIN s = 1..m /\ DOMAIN t = 1..n /\ DOMAIN u = 1..(m + n)
      /\ \A i \in 1..m : u[i] = s[i]
      /\ \A i \in 1..(m + n) : i \in 1..m \/ (i - m \in 1..n /\ u[i] = t[i - m])
  OBVIOUS
<1>2. \A i \in 1..m, j \in 1..n : Triple(s[i]) # Triple(t[j])
  <2> HIDE DEF m, n, u
  <2> QED BY <1>1 DEF ToSet
<1> HIDE DEF m, n, u
<1>3. ASSUME NEW i \in 1..(m + n), NEW j \in 1..(m + n), Triple(u[i]) = Triple(u[j]) PROVE i = j
  <2>1. CASE i \in 1..m /\ j \in 1..m
    BY <1>1, <1>3, <2>1 DEF Once
  <2>2. CASE i \in 1..m /\ j \notin 1..m
    BY <1>1, <1>2, <1>3, <2>2
  <2>3. CASE i \notin 1..m /\ j \in 1..m
    BY <1>1, <1>2, <1>3, <2>3
  <2>4. CASE i \notin 1..m /\ j \notin 1..m
    <3>1. i - m \in 1..n /\ j - m \in 1..n /\ Triple(t[i - m]) = Triple(t[j - m])
      BY <1>1, <1>3, <2>4
    <3>2. i - m = j - m
      BY <1>1, <3>1 DEF Once
    <3> QED BY <1>1, <3>2
  <2> QED BY <2>1, <2>2, <2>3, <2>4
<1> QED BY <1>1, <1>3 DEF Once, u

\* What is extracted from a chunk states no triple twice, and only names that it mentions.
LEMMA RelationsAre ==
  ASSUME NEW c \in Chunk
  PROVE  Relations(c) \in Seq(Facts(c)) /\ Once(Relations(c))
PROOF
<1> DEFINE ss == Sentences[c]
<1> DEFINE n == Len(ss)
<1> DEFINE S == {s \in Seq(Facts(c)) : Once(s)}
<1> DEFINE Is(g) == g = [i \in 0..n |-> IF i = 0 THEN <<>> ELSE g[i - 1] \o FromSentence(g[i - 1], c, ss[i])]
<1>1. n \in Nat /\ \A i \in 1..n : ss[i] \in ToSet(ss)
  <2>1. ss \in Seq([names : SUBSET Names, said : Seq(Names \X Predicates \X Names)])
    BY GraphFactsAssumption DEF Predicates
  <2> HIDE DEF ss
  <2> QED BY <2>1 DEF ToSet
<1>2. ASSUME NEW i \in 1..n, NEW s \in S PROVE s \o FromSentence(s, c, ss[i]) \in S
  <2>1. s \in Seq(Facts(c)) /\ Once(s)
    OBVIOUS
  <2>2. /\ FromSentence(s, c, ss[i]) \in Seq(Facts(c)) /\ Once(FromSentence(s, c, ss[i]))
        /\ \A e \in ToSet(s), d \in ToSet(FromSentence(s, c, ss[i])) : Triple(e) # Triple(d)
    BY <1>1, FromSentenceIs
  <2> HIDE DEF n, ss
  <2> QED BY <2>1, <2>2, OnceJoined
<1>3. <<>> \in S
  BY DEF Once
<1>4. \E f \in [0..n -> S] : Is(f)
  <2> DEFINE step == [p \in (1..n) \X S |-> p[2] \o FromSentence(p[2], c, ss[p[1]])]
  <2> HIDE DEF S, n, ss
  <2>1. step \in [(1..n) \X S -> S]
    <3>1. ASSUME NEW p \in (1..n) \X S PROVE p[2] \o FromSentence(p[2], c, ss[p[1]]) \in S
      <4>1. p[1] \in 1..n /\ p[2] \in S
        OBVIOUS
      <4> QED BY <1>2, <4>1
    <3> QED BY <3>1
  <2>2. \A i \in 1..n, a \in S : step[<<i, a>>] = a \o FromSentence(a, c, ss[i])
    OBVIOUS
  <2> HIDE DEF step
  <2>3. Steps(n, S, <<>>, step) # {}
    BY <1>1, <1>3, <2>1, Repeats
  <2>4. PICK f \in [0..n -> S] : f[0] = <<>> /\ \A i \in 1..n : f[i] = step[<<i, f[i - 1]>>]
    BY <2>3 DEF Steps
  <2>5. \A i \in 1..n : f[i] = f[i - 1] \o FromSentence(f[i - 1], c, ss[i])
    <3>1. \A i \in 1..n : i - 1 \in 0..n
      BY <1>1
    <3>2. \A i \in 1..n : f[i - 1] \in S
      BY <3>1
    <3> QED BY <2>2, <2>4, <3>2
  <2>6. \A i \in 0..n : f[i] = IF i = 0 THEN <<>> ELSE f[i - 1] \o FromSentence(f[i - 1], c, ss[i])
    <3>1. \A i \in 0..n : i = 0 \/ i \in 1..n
      BY <1>1
    <3> QED BY <2>4, <2>5, <3>1
  <2>7. Is(f)
    BY <2>6, Zenon
  <2> QED BY <2>7
<1>5. Relations(c) = (CHOOSE g : Is(g))[n]
  BY DEF Relations
<1> DEFINE g == CHOOSE g : Is(g)
<1>6. Is(g)
  <2>1. \E h : Is(h)
    BY <1>4
  <2> HIDE DEF Is
  <2> QED BY <2>1
<1>7. \A i \in 0..n : g[i] = IF i = 0 THEN <<>> ELSE g[i - 1] \o FromSentence(g[i - 1], c, ss[i])
  <2> HIDE DEF g, n, ss
  <2> QED BY <1>6, Zenon
<1> DEFINE A == {i \in Nat : i <= n => g[i] \in S}
<1> HIDE DEF g, n, ss, S
<1>8. 0 \in A
  BY <1>1, <1>3, <1>7
<1>9. ASSUME NEW i \in Nat, i \in A PROVE i + 1 \in A
  <2> SUFFICES ASSUME i + 1 <= n PROVE g[i + 1] \in S
    OBVIOUS
  <2>1. i + 1 \in 0..n /\ i + 1 \in 1..n /\ i + 1 # 0 /\ (i + 1) - 1 = i /\ g[i] \in S
    BY <1>1, <1>9
  <2>2. g[i + 1] = g[i] \o FromSentence(g[i], c, ss[i + 1])
    BY <1>7, <2>1
  <2> QED BY <1>2, <2>1, <2>2
<1>10. Nat \subseteq A
  <2> HIDE DEF A
  <2> QED BY <1>8, <1>9, NatInduct
<1>11. g[n] \in S
  BY <1>1, <1>10
<1> QED BY <1>5, <1>11 DEF S, g

-----------------------------------------------------------------------------
(* The copies of the graph.                                                  *)

Stated == UNION {ToSet(Relations(c)) : c \in Chunk}

\* The chunks that are recorded for each name mention it.
Of == {f \in [Names -> SUBSET Chunk] : \A n \in Names : \A c \in f[n] : n \in Entities(c)}

Copies == [has : SUBSET Names, of : Of, edges : Seq(Stated)]
NeoCopies == {g \in [has : SUBSET Names, of : Of, rels : SUBSET Stated] : IsFiniteSet(g.rels)}

LEMMA AppendHas ==
  ASSUME NEW T, NEW s \in Seq(T), NEW x \in T
  PROVE  Append(s, x) \in Seq(T) /\ ToSet(Append(s, x)) = ToSet(s) \cup {x}
PROOF
<1> DEFINE u == Append(s, x)
<1>1. /\ u \in Seq(T) /\ Len(s) \in Nat /\ DOMAIN s = 1..Len(s) /\ DOMAIN u = 1..(Len(s) + 1) /\ u[Len(s) + 1] = x
      /\ \A i \in 1..Len(s) : u[i] = s[i]
      /\ \A i \in 1..(Len(s) + 1) : i \in 1..Len(s) \/ i = Len(s) + 1
      /\ \A i \in 1..Len(s) : i \in 1..(Len(s) + 1)
      /\ Len(s) + 1 \in 1..(Len(s) + 1)
  OBVIOUS
<1> HIDE DEF u
<1> QED BY <1>1 DEF ToSet, u

LEMMA StatedIs ==
  ASSUME NEW e \in Stated
  PROVE  /\ e.chunk \in Chunk /\ e \in ToSet(Relations(e.chunk)) /\ Ends(e) \subseteq Entities(e.chunk)
         /\ Ends(e) \subseteq Names
         /\ e \in [src : Names, pred : Predicates, tgt : Names, chunk : Chunk, weight : {6, 10}]
PROOF
<1>1. PICK c \in Chunk : e \in ToSet(Relations(c))
  BY DEF Stated
<1>2. Relations(c) \in Seq(Facts(c))
  BY RelationsAre
<1>3. e \in Facts(c)
  <2> HIDE DEF Facts
  <2> QED BY <1>1, <1>2 DEF ToSet
<1>4. e \in [src : Names, pred : Predicates, tgt : Names, chunk : {c}, weight : {6, 10}] /\ Ends(e) \subseteq Entities(c)
  BY <1>3 DEF Facts
<1>5. e.chunk = c /\ Ends(e) \subseteq Names
  BY <1>4 DEF Ends
<1>6. e \in [src : Names, pred : Predicates, tgt : Names, chunk : Chunk, weight : {6, 10}]
  BY <1>4
<1> QED BY <1>1, <1>4, <1>5, <1>6

LEMMA RelationsStated ==
  ASSUME NEW c \in Chunk
  PROVE  Relations(c) \in Seq(Stated) /\ \A i \in DOMAIN Relations(c) : Relations(c)[i].chunk = c
PROOF
<1>1. Relations(c) \in Seq(Facts(c))
  BY RelationsAre
<1>2. \A i \in DOMAIN Relations(c) : Relations(c)[i] \in Facts(c) /\ Relations(c)[i] \in Stated
  BY <1>1 DEF Stated, ToSet
<1>3. \A e \in Facts(c) : e.chunk = c
  BY DEF Facts
<1>4. Relations(c) \in Seq(Stated)
  <2>1. DOMAIN Relations(c) = 1..Len(Relations(c)) /\ Len(Relations(c)) \in Nat
    BY <1>1
  <2>2. Relations(c) = [i \in DOMAIN Relations(c) |-> Relations(c)[i]]
    BY <1>1
  <2> QED BY <1>2, <2>1, <2>2
<1> QED BY <1>2, <1>3, <1>4

\* A chunk states a triple once: what is recorded for it is the very relation.
LEMMA RecordedIs ==
  ASSUME NEW g \in Copies, NEW c \in Chunk, NEW e \in ToSet(Relations(c)), Recorded(g, e)
  PROVE  e \in ToSet(g.edges)
PROOF
<1>1. PICK d \in ToSet(g.edges) : Triple(d) = Triple(e) /\ d.chunk = e.chunk
  BY DEF Recorded
<1>2. d \in Stated
  <2>1. g.edges \in Seq(Stated)
    BY DEF Copies
  <2> QED BY <2>1 DEF ToSet
<1>3. e.chunk = c
  BY RelationsStated DEF ToSet
<1>4. d \in ToSet(Relations(c))
  BY <1>1, <1>2, <1>3, StatedIs
<1>5. Once(Relations(c))
  BY RelationsAre
<1>6. d = e
  BY <1>1, <1>4, <1>5 DEF Once, ToSet
<1> QED BY <1>1, <1>6

LEMMA AddEntityIs ==
  ASSUME NEW of \in Of, NEW ns \in SUBSET Names, NEW c \in Chunk, ns \subseteq Entities(c)
  PROVE  [n \in Names |-> IF n \in ns THEN of[n] \cup {c} ELSE of[n]] \in Of
PROOF
<1> DEFINE f == [n \in Names |-> IF n \in ns THEN of[n] \cup {c} ELSE of[n]]
<1>1. of \in [Names -> SUBSET Chunk] /\ \A n \in Names : \A d \in of[n] : n \in Entities(d)
  BY DEF Of
<1>2. f \in [Names -> SUBSET Chunk]
  BY <1>1
<1>3. ASSUME NEW n \in Names, NEW d \in f[n] PROVE n \in Entities(d)
  <2>1. d \in of[n] \/ (n \in ns /\ d = c)
    BY <1>3
  <2> QED BY <1>1, <2>1
<1> QED BY <1>2, <1>3 DEF Of

LEMMA CopyAdds ==
  ASSUME NEW h, NEW o, NEW s, NEW ns, NEW c
  PROVE  AddEntity([has |-> h, of |-> o, edges |-> s], ns, c)
           = [has |-> h \cup ns, of |-> [n \in Names |-> IF n \in ns THEN o[n] \cup {c} ELSE o[n]], edges |-> s]
PROOF
<1> DEFINE g == [has |-> h, of |-> o, edges |-> s]
<1> DEFINE of == [n \in Names |-> IF n \in ns THEN o[n] \cup {c} ELSE o[n]]
<1>1. g.has = h /\ g.of = o
  OBVIOUS
<1>2. AddEntity(g, ns, c) = [g EXCEPT !.has = h \cup ns, !.of = of]
  BY <1>1, Zenon DEF AddEntity
<1>3. ASSUME NEW h2 PROVE [g EXCEPT !.has = h2] = [has |-> h2, of |-> o, edges |-> s]
  OBVIOUS
<1>4. ASSUME NEW h2, NEW o2
      PROVE  [[has |-> h2, of |-> o, edges |-> s] EXCEPT !.of = o2] = [has |-> h2, of |-> o2, edges |-> s]
  OBVIOUS
<1>5. AddEntity(g, ns, c) = [has |-> h \cup ns, of |-> of, edges |-> s]
  <2> HIDE DEF g, of
  <2> QED BY <1>2, <1>3, <1>4, Zenon
<1> QED BY <1>5

LEMMA CopyEdges ==
  ASSUME NEW h, NEW o, NEW s, NEW t
  PROVE  [[has |-> h, of |-> o, edges |-> s] EXCEPT !.edges = t] = [has |-> h, of |-> o, edges |-> t]
PROOF
  OBVIOUS

\* Adding a relation leaves a copy a copy and makes it one of the edges, with no other.
LEMMA AddRelationIs ==
  ASSUME NEW g \in Copies, NEW c \in Chunk, NEW e \in ToSet(Relations(c))
  PROVE  /\ AddRelation(g, e) \in Copies
         /\ ToSet(g.edges) \cup {e} = ToSet(AddRelation(g, e).edges)
PROOF
<1>1. g.has \in SUBSET Names /\ g.of \in Of /\ g.edges \in Seq(Stated) /\ g = [has |-> g.has, of |-> g.of, edges |-> g.edges]
  BY DEF Copies
<1>2. e \in Stated
  BY DEF Stated
<1>3. e.chunk \in Chunk /\ Ends(e) \subseteq Entities(e.chunk) /\ Ends(e) \subseteq Names
  BY <1>2, StatedIs
<1>4. CASE Recorded(g, e)
  BY <1>4, RecordedIs DEF AddRelation
<1>5. CASE ~Recorded(g, e)
  <2> DEFINE ns == Ends(e) \ g.has
  <2> DEFINE of == [n \in Names |-> IF n \in ns THEN g.of[n] \cup {e.chunk} ELSE g.of[n]]
  <2>1. AddRelation(g, e) = [AddEntity(g, ns, e.chunk) EXCEPT !.edges = Append(@, e)]
    BY <1>5 DEF AddRelation
  <2>2. AddEntity(g, ns, e.chunk) = [has |-> g.has \cup ns, of |-> of, edges |-> g.edges]
    BY <1>1, CopyAdds
  <2>3. of \in Of
    BY <1>1, <1>3, AddEntityIs
  <2>4. AddRelation(g, e) = [has |-> g.has \cup ns, of |-> of, edges |-> Append(g.edges, e)]
    <3> DEFINE h == [has |-> g.has \cup ns, of |-> of, edges |-> g.edges]
    <3>1. AddRelation(g, e) = [h EXCEPT !.edges = Append(h.edges, e)]
      BY <2>1, <2>2
    <3>2. h.edges = g.edges
      OBVIOUS
    <3> HIDE DEF of, ns
    <3> QED BY <3>1, <3>2, CopyEdges
  <2>5. Append(g.edges, e) \in Seq(Stated) /\ ToSet(Append(g.edges, e)) = ToSet(g.edges) \cup {e}
    BY <1>1, <1>2, AppendHas
  <2>6. g.has \cup ns \in SUBSET Names
    BY <1>1, <1>3
  <2> HIDE DEF of, ns
  <2> QED BY <2>3, <2>4, <2>5, <2>6 DEF Copies
<1> QED BY <1>4, <1>5

\* Indexing the relations of a chunk adds them all to the edges, and nothing else.
LEMMA WithRelationsIs ==
  ASSUME NEW g \in Copies, NEW c \in Chunk
  PROVE  /\ WithRelations(g, c) \in Copies
         /\ ToSet(WithRelations(g, c).edges) = ToSet(g.edges) \cup ToSet(Relations(c))
PROOF
<1> DEFINE rels == Relations(c)
<1> DEFINE n == Len(rels)
<1> DEFINE Is(f) == f = [i \in 0..n |-> IF i = 0 THEN g ELSE AddRelation(f[i - 1], rels[i])]
<1>1. n \in Nat /\ DOMAIN rels = 1..n /\ \A i \in 1..n : rels[i] \in ToSet(Relations(c))
  <2>1. rels \in Seq(Stated)
    BY RelationsStated
  <2> HIDE DEF rels
  <2> QED BY <2>1 DEF ToSet, rels
<1>2. ASSUME NEW i \in 1..n, NEW h \in Copies
      PROVE  AddRelation(h, rels[i]) \in Copies /\ ToSet(h.edges) \cup {rels[i]} = ToSet(AddRelation(h, rels[i]).edges)
  <2> HIDE DEF rels, n
  <2> QED BY <1>1, AddRelationIs
<1>3. \E f \in [0..n -> Copies] : Is(f)
  <2> DEFINE step == [p \in (1..n) \X Copies |-> AddRelation(p[2], rels[p[1]])]
  <2> HIDE DEF n, rels
  <2>1. step \in [(1..n) \X Copies -> Copies]
    <3>1. ASSUME NEW p \in (1..n) \X Copies PROVE AddRelation(p[2], rels[p[1]]) \in Copies
      <4>1. p[1] \in 1..n /\ p[2] \in Copies
        OBVIOUS
      <4> QED BY <1>2, <4>1
    <3> QED BY <3>1
  <2>2. \A i \in 1..n, a \in Copies : step[<<i, a>>] = AddRelation(a, rels[i])
    OBVIOUS
  <2> HIDE DEF step
  <2>3. Steps(n, Copies, g, step) # {}
    BY <1>1, <2>1, Repeats
  <2>4. PICK f \in [0..n -> Copies] : f[0] = g /\ \A i \in 1..n : f[i] = step[<<i, f[i - 1]>>]
    BY <2>3 DEF Steps
  <2>5. \A i \in 1..n : f[i] = AddRelation(f[i - 1], rels[i])
    <3>1. \A i \in 1..n : i - 1 \in 0..n
      BY <1>1
    <3>2. \A i \in 1..n : f[i - 1] \in Copies
      BY <3>1
    <3> QED BY <2>2, <2>4, <3>2
  <2>6. \A i \in 0..n : f[i] = IF i = 0 THEN g ELSE AddRelation(f[i - 1], rels[i])
    <3>1. \A i \in 0..n : i = 0 \/ i \in 1..n
      BY <1>1
    <3> QED BY <2>4, <2>5, <3>1
  <2>7. Is(f)
    BY <2>6, Zenon
  <2> QED BY <2>7
<1> DEFINE f == CHOOSE f : Is(f)
<1>4. WithRelations(g, c) = f[n]
  BY DEF WithRelations
<1>5. Is(f)
  <2>1. \E h : Is(h)
    BY <1>3
  <2> HIDE DEF Is
  <2> QED BY <2>1
<1>6. \A i \in 0..n : f[i] = IF i = 0 THEN g ELSE AddRelation(f[i - 1], rels[i])
  <2> HIDE DEF f, n, rels
  <2> QED BY <1>5, Zenon
<1> DEFINE Got(i) == f[i] \in Copies /\ ToSet(f[i].edges) = ToSet(g.edges) \cup {rels[j] : j \in 1..i}
<1> DEFINE A == {i \in Nat : i <= n => Got(i)}
<1> HIDE DEF f, n, rels
<1>7. 0 \in A
  BY <1>1, <1>6
<1>8. ASSUME NEW i \in Nat, i \in A PROVE i + 1 \in A
  <2> SUFFICES ASSUME i + 1 <= n PROVE Got(i + 1)
    OBVIOUS
  <2>1. i + 1 \in 0..n /\ i + 1 \in 1..n /\ i + 1 # 0 /\ (i + 1) - 1 = i /\ Got(i)
    BY <1>1, <1>8
  <2>2. f[i + 1] = AddRelation(f[i], rels[i + 1])
    BY <1>6, <2>1
  <2>3. f[i + 1] \in Copies /\ ToSet(f[i + 1].edges) = ToSet(f[i].edges) \cup {rels[i + 1]}
    BY <1>2, <2>1, <2>2
  <2>4. {rels[j] : j \in 1..(i + 1)} = {rels[j] : j \in 1..i} \cup {rels[i + 1]}
    <3>1. \A j : j \in 1..(i + 1) <=> j \in 1..i \/ j = i + 1
      OBVIOUS
    <3> QED BY <3>1
  <2> QED BY <2>1, <2>3, <2>4
<1>9. Nat \subseteq A
  <2> HIDE DEF A
  <2> QED BY <1>7, <1>8, NatInduct
<1>10. Got(n)
  BY <1>1, <1>9
<1>11. ToSet(Relations(c)) = {rels[j] : j \in 1..n}
  BY <1>1 DEF ToSet, rels
<1> QED BY <1>4, <1>10, <1>11

LEMMA EntitiesNamed ==
  ASSUME NEW c \in Chunk
  PROVE  Entities(c) \subseteq Names
PROOF
  BY SentenceIs DEF Entities

LEMMA WithEntitiesIs ==
  ASSUME NEW g \in Copies, NEW c \in Chunk
  PROVE  WithEntities(g, c) \in Copies /\ WithEntities(g, c).edges = g.edges
PROOF
<1>1. g.has \in SUBSET Names /\ g.of \in Of /\ g.edges \in Seq(Stated) /\ g = [has |-> g.has, of |-> g.of, edges |-> g.edges]
  BY DEF Copies
<1> DEFINE of == [n \in Names |-> IF n \in Entities(c) THEN g.of[n] \cup {c} ELSE g.of[n]]
<1>2. WithEntities(g, c) = [has |-> g.has \cup Entities(c), of |-> of, edges |-> g.edges]
  <2>1. AddEntity([has |-> g.has, of |-> g.of, edges |-> g.edges], Entities(c), c)
          = [has |-> g.has \cup Entities(c), of |-> of, edges |-> g.edges]
    BY CopyAdds
  <2> HIDE DEF of
  <2> QED BY <1>1, <2>1, Zenon DEF WithEntities
<1>3. of \in Of
  BY <1>1, EntitiesNamed, AddEntityIs
<1> HIDE DEF of
<1> QED BY <1>1, <1>2, <1>3, EntitiesNamed DEF Copies

LEMMA NeoAdds ==
  ASSUME NEW h, NEW o, NEW s, NEW ns, NEW c
  PROVE  AddEntity([has |-> h, of |-> o, rels |-> s], ns, c)
           = [has |-> h \cup ns, of |-> [n \in Names |-> IF n \in ns THEN o[n] \cup {c} ELSE o[n]], rels |-> s]
PROOF
<1> DEFINE g == [has |-> h, of |-> o, rels |-> s]
<1> DEFINE of == [n \in Names |-> IF n \in ns THEN o[n] \cup {c} ELSE o[n]]
<1>1. g.has = h /\ g.of = o
  OBVIOUS
<1>2. AddEntity(g, ns, c) = [g EXCEPT !.has = h \cup ns, !.of = of]
  BY <1>1, Zenon DEF AddEntity
<1>3. ASSUME NEW h2 PROVE [g EXCEPT !.has = h2] = [has |-> h2, of |-> o, rels |-> s]
  OBVIOUS
<1>4. ASSUME NEW h2, NEW o2
      PROVE  [[has |-> h2, of |-> o, rels |-> s] EXCEPT !.of = o2] = [has |-> h2, of |-> o2, rels |-> s]
  OBVIOUS
<1>5. AddEntity(g, ns, c) = [has |-> h \cup ns, of |-> of, rels |-> s]
  <2> HIDE DEF g, of
  <2> QED BY <1>2, <1>3, <1>4, Zenon
<1> QED BY <1>5

LEMMA NeoFields ==
  ASSUME NEW h, NEW o, NEW s, NEW h2, NEW t
  PROVE  [[has |-> h, of |-> o, rels |-> s] EXCEPT !.has = h2, !.rels = t] = [has |-> h2, of |-> o, rels |-> t]
PROOF
<1> DEFINE g == [has |-> h, of |-> o, rels |-> s]
<1>1. [g EXCEPT !.has = h2] = [has |-> h2, of |-> o, rels |-> s]
  OBVIOUS
<1>2. [[has |-> h2, of |-> o, rels |-> s] EXCEPT !.rels = t] = [has |-> h2, of |-> o, rels |-> t]
  OBVIOUS
<1> HIDE DEF g
<1>3. [g EXCEPT !.has = h2, !.rels = t] = [has |-> h2, of |-> o, rels |-> t]
  BY <1>1, <1>2, Zenon
<1> QED BY <1>3 DEF g

LEMMA NeoEntitiesIs ==
  ASSUME NEW g \in NeoCopies, NEW c \in Chunk
  PROVE  NeoEntities(g, c) \in NeoCopies
PROOF
<1> DEFINE ns == Entities(c) \ g.has
<1> DEFINE of == [n \in Names |-> IF n \in ns THEN g.of[n] \cup {c} ELSE g.of[n]]
<1>1. /\ g.has \in SUBSET Names /\ g.of \in Of /\ g.rels \in SUBSET Stated /\ IsFiniteSet(g.rels)
      /\ g = [has |-> g.has, of |-> g.of, rels |-> g.rels]
  BY DEF NeoCopies
<1>2. NeoEntities(g, c) = [has |-> g.has \cup ns, of |-> of, rels |-> g.rels]
  <2>1. AddEntity([has |-> g.has, of |-> g.of, rels |-> g.rels], ns, c)
          = [has |-> g.has \cup ns, of |-> of, rels |-> g.rels]
    BY NeoAdds
  <2> HIDE DEF of
  <2> QED BY <1>1, <2>1, Zenon DEF NeoEntities
<1>3. of \in Of
  BY <1>1, EntitiesNamed, AddEntityIs
<1>4. g.has \cup ns \in SUBSET Names
  BY <1>1, EntitiesNamed
<1> HIDE DEF of, ns
<1> QED BY <1>1, <1>2, <1>3, <1>4 DEF NeoCopies

\* Merging a relation into Neo4j leaves it a graph of what chunks state.
LEMMA NeoRelationIs ==
  ASSUME NEW g \in NeoCopies, NEW e \in Stated
  PROVE  NeoRelation(g, e) \in NeoCopies
PROOF
<1> DEFINE others == {d \in g.rels : ~SameRel(d, e)}
<1>1. /\ g.has \in SUBSET Names /\ g.of \in Of /\ g.rels \in SUBSET Stated /\ IsFiniteSet(g.rels)
      /\ g = [has |-> g.has, of |-> g.of, rels |-> g.rels]
  BY DEF NeoCopies
<1>2. NeoRelation(g, e) = [g EXCEPT !.has = g.has \cup Ends(e), !.rels = others \cup {e}]
  BY <1>1, Zenon DEF NeoRelation
<1>3. NeoRelation(g, e) = [has |-> g.has \cup Ends(e), of |-> g.of, rels |-> others \cup {e}]
  <2> HIDE DEF others
  <2> QED BY <1>1, <1>2, NeoFields
<1>4. others \cup {e} \in SUBSET Stated /\ IsFiniteSet(others \cup {e})
  <2>1. IsFiniteSet(others)
    BY <1>1, FS_Subset
  <2>2. IsFiniteSet(others \cup {e})
    BY <2>1, FS_AddElement
  <2> QED BY <1>1, <2>2
<1>5. g.has \cup Ends(e) \in SUBSET Names
  BY <1>1, StatedIs
<1> HIDE DEF others
<1> QED BY <1>1, <1>3, <1>4, <1>5 DEF NeoCopies

\* So does merging all the relations of a chunk.
LEMMA NeoRelationsIs ==
  ASSUME NEW g \in NeoCopies, NEW c \in Chunk
  PROVE  NeoRelations(g, c) \in NeoCopies
PROOF
<1> DEFINE rels == Relations(c)
<1> DEFINE n == Len(rels)
<1> DEFINE Is(f) == f = [i \in 0..n |-> IF i = 0 THEN g ELSE NeoRelation(f[i - 1], rels[i])]
<1>1. n \in Nat /\ \A i \in 1..n : rels[i] \in Stated
  BY RelationsStated
<1>2. ASSUME NEW i \in 1..n, NEW h \in NeoCopies PROVE NeoRelation(h, rels[i]) \in NeoCopies
  <2> HIDE DEF rels, n
  <2> QED BY <1>1, NeoRelationIs
<1>3. \E f \in [0..n -> NeoCopies] : Is(f)
  <2> DEFINE step == [p \in (1..n) \X NeoCopies |-> NeoRelation(p[2], rels[p[1]])]
  <2> HIDE DEF n, rels
  <2>1. step \in [(1..n) \X NeoCopies -> NeoCopies]
    <3>1. ASSUME NEW p \in (1..n) \X NeoCopies PROVE NeoRelation(p[2], rels[p[1]]) \in NeoCopies
      <4>1. p[1] \in 1..n /\ p[2] \in NeoCopies
        OBVIOUS
      <4> QED BY <1>2, <4>1
    <3> QED BY <3>1
  <2>2. \A i \in 1..n, a \in NeoCopies : step[<<i, a>>] = NeoRelation(a, rels[i])
    OBVIOUS
  <2> HIDE DEF step
  <2>3. Steps(n, NeoCopies, g, step) # {}
    BY <1>1, <2>1, Repeats
  <2>4. PICK f \in [0..n -> NeoCopies] : f[0] = g /\ \A i \in 1..n : f[i] = step[<<i, f[i - 1]>>]
    BY <2>3 DEF Steps
  <2>5. \A i \in 0..n : f[i] = IF i = 0 THEN g ELSE NeoRelation(f[i - 1], rels[i])
    <3>1. \A i \in 0..n : i = 0 \/ (i \in 1..n /\ i - 1 \in 0..n)
      BY <1>1
    <3> QED BY <2>2, <2>4, <3>1
  <2>6. Is(f)
    BY <2>5, Zenon
  <2> QED BY <2>6
<1> DEFINE f == CHOOSE f : Is(f)
<1>4. NeoRelations(g, c) = f[n]
  BY DEF NeoRelations
<1>5. Is(f)
  <2>1. \E h : Is(h)
    BY <1>3
  <2> HIDE DEF Is
  <2> QED BY <2>1
<1>6. \A i \in 0..n : f[i] = IF i = 0 THEN g ELSE NeoRelation(f[i - 1], rels[i])
  <2> HIDE DEF f, n, rels
  <2> QED BY <1>5, Zenon
<1> DEFINE A == {i \in Nat : i <= n => f[i] \in NeoCopies}
<1> HIDE DEF f, n, rels
<1>7. 0 \in A
  BY <1>1, <1>6
<1>8. ASSUME NEW i \in Nat, i \in A PROVE i + 1 \in A
  <2> SUFFICES ASSUME i + 1 <= n PROVE f[i + 1] \in NeoCopies
    OBVIOUS
  <2>1. i + 1 \in 0..n /\ i + 1 \in 1..n /\ i + 1 # 0 /\ (i + 1) - 1 = i /\ f[i] \in NeoCopies
    BY <1>1, <1>8
  <2> QED BY <1>2, <1>6, <2>1
<1>9. Nat \subseteq A
  <2> HIDE DEF A
  <2> QED BY <1>7, <1>8, NatInduct
<1> QED BY <1>1, <1>4, <1>9

\* Loading a file over a copy keeps the edges that are there.
LEMMA OverlaidIs ==
  ASSUME NEW g \in Copies, NEW f \in Copies
  PROVE  Overlaid(g, f) \in Copies /\ ToSet(g.edges) \subseteq ToSet(Overlaid(g, f).edges)
PROOF
<1> DEFINE of == [n \in Names |-> IF n \in f.has THEN f.of[n] ELSE g.of[n]]
<1>1. /\ g.has \in SUBSET Names /\ g.of \in Of /\ g.edges \in Seq(Stated)
      /\ f.has \in SUBSET Names /\ f.of \in Of /\ f.edges \in Seq(Stated)
  BY DEF Copies
<1>2. of \in Of
  BY <1>1 DEF Of
<1>3. Overlaid(g, f) = [has |-> g.has \cup f.has, of |-> of, edges |-> g.edges \o f.edges]
  BY DEF Overlaid
<1>4. g.edges \o f.edges \in Seq(Stated) /\ ToSet(g.edges) \subseteq ToSet(g.edges \o f.edges)
  BY <1>1, JoinHas
<1> HIDE DEF of
<1> QED BY <1>1, <1>2, <1>3, <1>4 DEF Copies

LEMMA EmptyIs == Empty \in Copies /\ EmptyNeo \in NeoCopies
PROOF
<1>1. [n \in Names |-> {}] \in Of
  BY DEF Of
<1>2. IsFiniteSet({}) /\ <<>> \in Seq(Stated)
  BY FS_EmptySet
<1> QED BY <1>1, <1>2 DEF Empty, EmptyNeo, Copies, NeoCopies

-----------------------------------------------------------------------------
(* The inductive invariant of the entity graph.                              *)

\* Every copy, those on their way to the file or from it included, holds what chunks state.
GraphType ==
  /\ mirror \in [Procs -> Copies] /\ neo \in NeoCopies /\ connected \in [Procs -> BOOLEAN]
  /\ disk \in Copies \cup {None, Torn} /\ reload \in Copies \cup {None}
  /\ call \in [Threads -> [at : {"idle", "entities", "relations", "save", "open", "write"},
                           chunk : Chunk \cup {None}, payload : Copies \cup {None}]]
  /\ kept \in [Procs -> SUBSET Chunk]
  /\ \A t \in Threads :
       /\ call[t].at \in {"entities", "relations"} => call[t].chunk \in Chunk
       /\ call[t].at \in {"open", "write"} => call[t].payload \in Copies

GraphInv == GraphType /\ EvidenceIsKept

LEMMA ProcOf ==
  /\ \A t \in Threads : Proc(t) \in Procs
  /\ "gateway" \in Procs
PROOF
  BY DEF Proc, Procs

LEMMA InitGraph == GraphInit => GraphInv
PROOF
<1> SUFFICES ASSUME GraphInit PROVE GraphInv
  OBVIOUS
<1> USE DEF GraphInit
<1>1. mirror \in [Procs -> Copies] /\ neo \in NeoCopies
  BY EmptyIs
<1>2. call \in [Threads -> [at : {"idle", "entities", "relations", "save", "open", "write"},
                           chunk : Chunk \cup {None}, payload : Copies \cup {None}]]
      /\ \A t \in Threads : call[t].at = "idle"
  BY DEF NoCall
<1>3. kept \in [Procs -> SUBSET Chunk] /\ \A p \in Procs : kept[p] = {}
  OBVIOUS
<1>4. connected \in [Procs -> BOOLEAN] /\ disk = None /\ reload = None
  OBVIOUS
<1> QED BY <1>1, <1>2, <1>3, <1>4 DEF GraphInv, GraphType, EvidenceIsKept

\* The calls of the threads, one by one.
CallOf(a) ==
  /\ a \in [at : {"idle", "entities", "relations", "save", "open", "write"},
            chunk : Chunk \cup {None}, payload : Copies \cup {None}]
  /\ a.at \in {"entities", "relations"} => a.chunk \in Chunk
  /\ a.at \in {"open", "write"} => a.payload \in Copies

\* Every step leaves every copy one of what chunks state, one case per action.
LEMMA GraphTypeStep == GraphType /\ [GraphNext]_graphVars => GraphType'
PROOF
<1> SUFFICES ASSUME GraphType, [GraphNext]_graphVars PROVE GraphType'
  OBVIOUS
<1> DEFINE Calls(f) == f \in [Threads -> {a \in [at : {"idle", "entities", "relations", "save", "open", "write"},
            chunk : Chunk \cup {None}, payload : Copies \cup {None}] : CallOf(a)}]
<1>1. /\ mirror \in [Procs -> Copies] /\ neo \in NeoCopies /\ connected \in [Procs -> BOOLEAN]
      /\ disk \in Copies \cup {None, Torn} /\ reload \in Copies \cup {None}
      /\ Calls(call)
      /\ kept \in [Procs -> SUBSET Chunk]
  BY DEF GraphType, CallOf
<1>2. ASSUME /\ mirror' \in [Procs -> Copies] /\ neo' \in NeoCopies /\ connected' \in [Procs -> BOOLEAN]
             /\ disk' \in Copies \cup {None, Torn} /\ reload' \in Copies \cup {None}
             /\ Calls(call')
             /\ kept' \in [Procs -> SUBSET Chunk]
      PROVE  GraphType'
  BY <1>2 DEF GraphType, CallOf
<1>3. CallOf(NoCall)
  BY DEF CallOf, NoCall
<1>4. ASSUME NEW t \in Threads, NEW a, CallOf(a) PROVE Calls([call EXCEPT ![t] = a])
  BY <1>1, <1>4 DEF CallOf
<1>5. \A t \in Threads : CallOf(call[t])
  BY <1>1
<1> HIDE DEF Calls
<1>6. ASSUME NEW t \in Threads, NEW c \in Chunk, Begin(t, c) PROVE GraphType'
  <2> DEFINE a == [NoCall EXCEPT !.at = "entities", !.chunk = c]
  <2>1. CallOf(a)
    BY DEF CallOf, NoCall
  <2>2. call' = [call EXCEPT ![t] = a]
    BY <1>6 DEF Begin
  <2> HIDE DEF a
  <2>3. Calls(call')
    BY <1>4, <2>1, <2>2
  <2> QED BY <1>1, <1>2, <1>6, <2>3 DEF Begin
<1>7. ASSUME NEW t \in Threads, NEW g, InNeo(t, g), g \in NeoCopies PROVE neo' \in NeoCopies
  BY <1>1, <1>7 DEF InNeo
<1>8. ASSUME NEW t \in Threads, NEW x \in {"relations", "save"},
             call[t].at \in {"entities", "relations"}, call' = [call EXCEPT ![t].at = x]
      PROVE  Calls(call') /\ call[t].chunk \in Chunk
  <2> DEFINE a == [call[t] EXCEPT !.at = x]
  <2>1. CallOf(a) /\ call[t].chunk \in Chunk
    BY <1>5, <1>8 DEF CallOf
  <2>2. call' = [call EXCEPT ![t] = a]
    BY <1>8
  <2> HIDE DEF a
  <2> QED BY <1>4, <2>1, <2>2
<1>9. ASSUME NEW t \in Threads, NEW g \in Copies, mirror' = [mirror EXCEPT ![Proc(t)] = g]
      PROVE  mirror' \in [Procs -> Copies]
  BY <1>1, <1>9, ProcOf
<1>10. ASSUME NEW t \in Threads, AddEntities(t) PROVE GraphType'
  <2>1. Calls(call') /\ call[t].chunk \in Chunk
    BY <1>8, <1>10 DEF AddEntities
  <2>2. NeoEntities(neo, call[t].chunk) \in NeoCopies
    BY <1>1, <2>1, NeoEntitiesIs
  <2>3. neo' \in NeoCopies
    BY <1>7, <1>10, <2>2 DEF AddEntities
  <2>4. mirror[Proc(t)] \in Copies
    BY <1>1, ProcOf
  <2>5. WithEntities(mirror[Proc(t)], call[t].chunk) \in Copies
    BY <2>1, <2>4, WithEntitiesIs
  <2>6. mirror' \in [Procs -> Copies]
    BY <1>9, <1>10, <2>5 DEF AddEntities
  <2> QED BY <1>1, <1>2, <1>10, <2>1, <2>3, <2>6 DEF AddEntities
<1>11. ASSUME NEW t \in Threads, AddRelations(t) PROVE GraphType'
  <2>1. Calls(call') /\ call[t].chunk \in Chunk
    BY <1>8, <1>11 DEF AddRelations
  <2>2. NeoRelations(neo, call[t].chunk) \in NeoCopies
    BY <1>1, <2>1, NeoRelationsIs
  <2>3. neo' \in NeoCopies
    BY <1>7, <1>11, <2>2 DEF AddRelations
  <2>4. mirror[Proc(t)] \in Copies
    BY <1>1, ProcOf
  <2>5. WithRelations(mirror[Proc(t)], call[t].chunk) \in Copies
    BY <2>1, <2>4, WithRelationsIs
  <2>6. mirror' \in [Procs -> Copies]
    BY <1>9, <1>11, <2>5 DEF AddRelations
  <2>7. kept' \in [Procs -> SUBSET Chunk]
    BY <1>1, <1>11, <2>1, ProcOf DEF AddRelations
  <2> QED BY <1>1, <1>2, <1>11, <2>1, <2>3, <2>6, <2>7 DEF AddRelations
<1>12. ASSUME NEW t \in Threads, TakePayload(t) PROVE GraphType'
  <2> DEFINE a == [call[t] EXCEPT !.at = "open", !.payload = mirror[Proc(t)]]
  <2>1. mirror[Proc(t)] \in Copies
    BY <1>1, ProcOf
  <2>2. CallOf(a)
    BY <1>5, <2>1 DEF CallOf
  <2>3. call' = [call EXCEPT ![t] = a]
    BY <1>12 DEF TakePayload
  <2> HIDE DEF a
  <2>4. Calls(call')
    BY <1>4, <2>2, <2>3
  <2> QED BY <1>1, <1>2, <1>12, <2>4 DEF TakePayload
<1>13. ASSUME NEW t \in Threads, OpenFile(t) PROVE GraphType'
  <2> DEFINE a == [call[t] EXCEPT !.at = "write"]
  <2>1. CallOf(a)
    BY <1>5, <1>13 DEF CallOf, OpenFile
  <2>2. call' = [call EXCEPT ![t] = a]
    BY <1>13 DEF OpenFile
  <2> HIDE DEF a
  <2>3. Calls(call')
    BY <1>4, <2>1, <2>2
  <2> QED BY <1>1, <1>2, <1>13, <2>3 DEF OpenFile
<1>14. ASSUME NEW t \in Threads, WriteFile(t) PROVE GraphType'
  <2>1. Calls(call')
    BY <1>3, <1>4, <1>14 DEF WriteFile
  <2>2. disk' \in Copies
    BY <1>5, <1>14 DEF WriteFile, CallOf
  <2> QED BY <1>1, <1>2, <1>14, <2>1, <2>2 DEF WriteFile
<1>15. ASSUME ReloadClear PROVE GraphType'
  <2>1. disk \in Copies /\ Empty \in Copies
    BY <1>1, <1>15, EmptyIs DEF ReloadClear
  <2>2. reload' \in Copies \cup {None} /\ mirror' \in [Procs -> Copies] /\ kept' \in [Procs -> SUBSET Chunk]
    BY <1>1, <1>15, <2>1, ProcOf DEF ReloadClear
  <2> QED BY <1>1, <1>2, <1>15, <2>2 DEF ReloadClear
<1>16. ASSUME ReloadFill PROVE GraphType'
  <2>1. reload \in Copies /\ mirror["gateway"] \in Copies
    BY <1>1, <1>16, ProcOf DEF ReloadFill
  <2>2. Overlaid(mirror["gateway"], reload) \in Copies
    BY <2>1, OverlaidIs
  <2>3. mirror' \in [Procs -> Copies]
    BY <1>1, <1>16, <2>2, ProcOf DEF ReloadFill
  <2> QED BY <1>1, <1>2, <1>16, <2>3 DEF ReloadFill
<1>17. ASSUME NEW p \in Procs, Restart(p) PROVE GraphType'
  <2>1. Loaded(disk) \in Copies
    BY <1>1, EmptyIs DEF Loaded
  <2>2. mirror' \in [Procs -> Copies] /\ kept' \in [Procs -> SUBSET Chunk] /\ connected' \in [Procs -> BOOLEAN]
    BY <1>1, <1>17, <2>1 DEF Restart
  <2>3. Calls(call')
    BY <1>1, <1>3, <1>5, <1>17 DEF Restart, Calls, CallOf
  <2>4. reload' \in Copies \cup {None}
    BY <1>1, <1>17 DEF Restart
  <2> QED BY <1>1, <1>2, <1>17, <2>2, <2>3, <2>4 DEF Restart
<1>18. CASE UNCHANGED graphVars
  BY <1>1, <1>2, <1>18 DEF graphVars
<1> QED BY <1>6, <1>10, <1>11, <1>12, <1>13, <1>14, <1>15, <1>16, <1>17, <1>18 DEF GraphNext

\* What this process indexed is in this copy.
Holds(g, C) == \A c \in C : ToSet(Relations(c)) \subseteq ToSet(g.edges)

\* No step takes from a process what it indexed since its last load.
LEMMA EvidenceStep == GraphInv /\ [GraphNext]_graphVars => EvidenceIsKept'
PROOF
<1> SUFFICES ASSUME GraphInv, [GraphNext]_graphVars PROVE EvidenceIsKept'
  OBVIOUS
<1>1. /\ mirror \in [Procs -> Copies] /\ reload \in Copies \cup {None} /\ kept \in [Procs -> SUBSET Chunk]
      /\ \A t \in Threads : call[t].at \in {"entities", "relations"} => call[t].chunk \in Chunk
  BY DEF GraphInv, GraphType
<1>2. \A p \in Procs : Holds(mirror[p], kept[p])
  BY DEF GraphInv, EvidenceIsKept, Holds
<1>3. ASSUME \A p \in Procs : Holds(mirror'[p], kept'[p]) PROVE EvidenceIsKept'
  BY <1>3 DEF EvidenceIsKept, Holds
<1>4. ASSUME NEW q \in Procs, NEW g, NEW C, Holds(g, C),
             mirror' = [mirror EXCEPT ![q] = g], kept' = [kept EXCEPT ![q] = C]
      PROVE  EvidenceIsKept'
  <2>1. \A p \in Procs : /\ mirror'[p] = IF p = q THEN g ELSE mirror[p]
                         /\ kept'[p] = IF p = q THEN C ELSE kept[p]
    BY <1>1, <1>4
  <2> QED BY <1>2, <1>3, <1>4, <2>1
<1>5. ASSUME UNCHANGED <<mirror, kept>> PROVE EvidenceIsKept'
  BY <1>2, <1>3, <1>5
<1>6. \A g : Holds(g, {})
  BY DEF Holds
<1>7. ASSUME NEW q \in Procs, UNCHANGED kept PROVE kept' = [kept EXCEPT ![q] = kept[q]]
  BY <1>1, <1>7
<1>8. ASSUME NEW t \in Threads, AddEntities(t) PROVE EvidenceIsKept'
  <2> DEFINE q == Proc(t)
  <2> DEFINE g == WithEntities(mirror[q], call[t].chunk)
  <2>1. q \in Procs /\ mirror[q] \in Copies /\ call[t].chunk \in Chunk
    BY <1>1, <1>8, ProcOf DEF AddEntities
  <2>2. g.edges = mirror[q].edges
    BY <2>1, WithEntitiesIs
  <2>3. mirror' = [mirror EXCEPT ![q] = g] /\ kept' = [kept EXCEPT ![q] = kept[q]]
    BY <1>7, <1>8, <2>1 DEF AddEntities
  <2>4. Holds(g, kept[q])
    <3> HIDE DEF g
    <3> QED BY <1>2, <2>1, <2>2 DEF Holds
  <2> HIDE DEF g, q
  <2> QED BY <1>4, <2>1, <2>3, <2>4
<1>9. ASSUME NEW t \in Threads, AddRelations(t) PROVE EvidenceIsKept'
  <2> DEFINE q == Proc(t)
  <2> DEFINE c == call[t].chunk
  <2> DEFINE g == WithRelations(mirror[q], c)
  <2>1. q \in Procs /\ mirror[q] \in Copies /\ c \in Chunk
    BY <1>1, <1>9, ProcOf DEF AddRelations
  <2>2. ToSet(g.edges) = ToSet(mirror[q].edges) \cup ToSet(Relations(c))
    BY <2>1, WithRelationsIs
  <2>3. mirror' = [mirror EXCEPT ![q] = g] /\ kept' = [kept EXCEPT ![q] = kept[q] \cup {c}]
    BY <1>9 DEF AddRelations
  <2>4. Holds(g, kept[q] \cup {c})
    <3> HIDE DEF g
    <3> QED BY <1>2, <2>1, <2>2 DEF Holds
  <2> HIDE DEF g, q, c
  <2> QED BY <1>4, <2>1, <2>3, <2>4
<1>10. ASSUME ReloadClear PROVE EvidenceIsKept'
  BY <1>4, <1>6, <1>10, ProcOf DEF ReloadClear
<1>11. ASSUME ReloadFill PROVE EvidenceIsKept'
  <2> DEFINE q == "gateway"
  <2> DEFINE g == Overlaid(mirror[q], reload)
  <2>1. q \in Procs /\ mirror[q] \in Copies /\ reload \in Copies
    BY <1>1, <1>11, ProcOf DEF ReloadFill
  <2>2. ToSet(mirror[q].edges) \subseteq ToSet(g.edges)
    BY <2>1, OverlaidIs
  <2>3. mirror' = [mirror EXCEPT ![q] = g] /\ kept' = [kept EXCEPT ![q] = kept[q]]
    BY <1>7, <1>11, <2>1 DEF ReloadFill
  <2>4. Holds(g, kept[q])
    <3> HIDE DEF g
    <3> QED BY <1>2, <2>1, <2>2 DEF Holds
  <2> HIDE DEF g, q
  <2> QED BY <1>4, <2>1, <2>3, <2>4
<1>12. ASSUME NEW p \in Procs, Restart(p) PROVE EvidenceIsKept'
  BY <1>4, <1>6, <1>12 DEF Restart
<1>13. ASSUME NEW t \in Threads,
              (\E c \in Chunk : Begin(t, c)) \/ TakePayload(t) \/ OpenFile(t) \/ WriteFile(t)
       PROVE  EvidenceIsKept'
  BY <1>5, <1>13 DEF Begin, TakePayload, OpenFile, WriteFile
<1>14. CASE UNCHANGED graphVars
  BY <1>5, <1>14 DEF graphVars
<1> QED BY <1>8, <1>9, <1>10, <1>11, <1>12, <1>13, <1>14 DEF GraphNext

LEMMA GraphInvariant == GraphSpec => []GraphInv
PROOF
<1>1. GraphInv /\ [GraphNext]_graphVars => GraphInv'
  BY GraphTypeStep, EvidenceStep DEF GraphInv
<1> QED BY InitGraph, <1>1, PTL DEF GraphSpec

\* Every relation of every copy of the graph - in the memory of either process,
\* in knowledge_graph.json, on its way from it, in Neo4j - is one that its chunk
\* states, and every chunk of a node mentions it, whatever the calls that index,
\* save, reload and restart did in between.
THEOREM ProvenanceHolds == GraphSpec => []ProvenanceIsReal
PROOF
<1>1. ASSUME GraphInv PROVE ProvenanceIsReal
  <2>1. /\ mirror \in [Procs -> Copies] /\ disk \in Copies \cup {None, Torn} /\ reload \in Copies \cup {None}
        /\ neo \in NeoCopies
    BY <1>1 DEF GraphInv, GraphType
  <2>2. Graphs \subseteq Copies
    <3>1. Range(mirror) \subseteq Copies
      BY <2>1 DEF Range
    <3>2. {disk, reload} \ {None, Torn} \subseteq Copies
      BY <2>1
    <3> QED BY <3>1, <3>2 DEF Graphs
  <2>3. \A g \in Copies : g.of \in Of /\ \A e \in ToSet(g.edges) : e \in Stated
    BY DEF Copies, ToSet
  <2>4. neo.of \in Of /\ neo.rels \subseteq Stated
    BY <2>1 DEF NeoCopies
  <2>5. \A e \in (UNION {ToSet(g.edges) : g \in Graphs}) \cup neo.rels : e \in ToSet(Relations(e.chunk))
    <3>1. (UNION {ToSet(g.edges) : g \in Graphs}) \cup neo.rels \subseteq Stated
      <4>1. \A g \in Graphs : ToSet(g.edges) \subseteq Stated
        BY <2>2, <2>3
      <4>2. UNION {ToSet(g.edges) : g \in Graphs} \subseteq Stated
        <5> SUFFICES ASSUME NEW S \in {ToSet(g.edges) : g \in Graphs} PROVE S \subseteq Stated
          BY Zenon
        <5> QED BY <4>1, Zenon
      <4> QED BY <2>4, <4>2, Zenon
    <3> QED BY <3>1, StatedIs
  <2>6. \A g \in Graphs \cup {neo} : \A n \in Names : \A c \in g.of[n] : n \in Entities(c)
    BY <2>2, <2>3, <2>4 DEF Of
  <2> QED BY <2>5, <2>6 DEF ProvenanceIsReal
<1> QED BY GraphInvariant, <1>1, PTL

\* What a process indexed since it last loaded the file is in its memory, each
\* relation with each chunk that states it: add_relation skips only a relation
\* of the same chunk, and nothing but a load takes an edge out.
THEOREM EvidenceStays == GraphSpec => []EvidenceIsKept
PROOF
<1>1. GraphInv => EvidenceIsKept
  BY DEF GraphInv
<1> QED BY GraphInvariant, <1>1, PTL

-----------------------------------------------------------------------------
(* What a query answers.                                                     *)

\* Relations whose ends their chunk mentions, turned around or not.
Grounded == {e \in [src : Names, pred : Predicates, tgt : Names, chunk : Chunk, weight : {6, 10}] :
               Ends(e) \subseteq Entities(e.chunk)}

LEMMA StatedGrounded == Stated \subseteq Grounded
PROOF
  BY StatedIs DEF Grounded

\* A neighborhood has only relations between names their chunks mention.
LEMMA NeighborsAre ==
  ASSUME NEW g \in Copies, NEW neo1 \in NeoCopies, NEW n, NEW depth
  PROVE  Neighborhood(g, n, depth).edges \in Seq(Grounded) /\ NeoNeighborhood(neo1, g, n, depth).edges \in Seq(Grounded)
PROOF
<1>1. g.edges \in Seq(Stated) /\ neo1.rels \in SUBSET Stated /\ IsFiniteSet(neo1.rels)
  BY DEF Copies, NeoCopies
<1>2. ASSUME NEW s \in Seq(Stated) PROVE s \in Seq(Grounded)
  BY StatedGrounded
<1>3. Neighborhood(g, n, depth).edges \in Seq(Grounded)
  <2> DEFINE ball == Ball(ToSet(g.edges), n, depth)
  <2> DEFINE I == {i \in DOMAIN g.edges : Ends(g.edges[i]) \subseteq ball}
  <2> DEFINE within == Among(g.edges, I)
  <2> DEFINE met == [edges |-> within, chunks |-> Chunks(within) \cup UNION {g.of[m] : m \in ball}]
  <2>1. Neighborhood(g, n, depth) = IF n \notin g.has THEN Nothing ELSE met
    BY DEF Neighborhood
  <2>2. I \in SUBSET DOMAIN g.edges
    OBVIOUS
  <2> HIDE DEF ball, I
  <2>3. within \in Seq(Stated)
    BY <1>1, <2>2, AmongHas
  <2>4. Nothing.edges \in Seq(Grounded) /\ met.edges = within
    BY DEF Nothing
  <2> HIDE DEF met, within
  <2> QED BY <1>2, <2>1, <2>3, <2>4
<1>4. NeoNeighborhood(neo1, g, n, depth).edges \in Seq(Grounded)
  <2> DEFINE on == {e \in neo1.rels : Ends(e) \cap Ball(neo1.rels, n, depth - 1) # {}}
  <2> DEFINE near == UNION {neo1.of[m] : m \in Ball(neo1.rels, n, depth)}
  <2> DEFINE met == [edges |-> SetToSeq(on), chunks |-> {e.chunk : e \in on} \cup near]
  <2>1. NeoNeighborhood(neo1, g, n, depth) = IF n \notin neo1.has \/ on = {} THEN Neighborhood(g, n, depth) ELSE met
    BY DEF NeoNeighborhood
  <2>2. IsFiniteSet(on) /\ on \subseteq Stated
    BY <1>1, FS_Subset
  <2> HIDE DEF on, near
  <2>3. SetToSeq(on) \in Seq(Stated)
    BY <2>2, SetToSeqIs
  <2>4. met.edges = SetToSeq(on)
    OBVIOUS
  <2> HIDE DEF met
  <2> QED BY <1>2, <1>3, <2>1, <2>3, <2>4
<1> QED BY <1>3, <1>4

LEMMA StepIs ==
  ASSUME NEW g \in Copies, NEW u \in Names, NEW v \in Names
  PROVE  Step(g, u, v) \in Seq(Grounded)
PROOF
<1> DEFINE I == {i \in DOMAIN g.edges : g.edges[i].src = u /\ g.edges[i].tgt = v}
<1> DEFINE J == {i \in DOMAIN g.edges : g.edges[i].src = v /\ g.edges[i].tgt = u}
<1> DEFINE from == Among(g.edges, J)
<1> DEFINE turn(i) == [from[i] EXCEPT !.src = u, !.tgt = v]
<1> DEFINE turned == [i \in DOMAIN from |-> turn(i)]
<1>1. g.edges \in Seq(Grounded)
  BY StatedGrounded DEF Copies
<1>2. Among(g.edges, I) \in Seq(Grounded)
  BY <1>1, AmongHas
<1>3. from \in Seq(Grounded) /\ ToSet(from) = {g.edges[i] : i \in J}
  BY <1>1, AmongHas
<1>4. \A e \in ToSet(from) : e.src = v /\ e.tgt = u
  <2> HIDE DEF from
  <2> QED BY <1>3
<1> HIDE DEF from
<1>5. ASSUME NEW i \in DOMAIN from PROVE turn(i) \in Grounded
  <2> DEFINE e == from[i]
  <2>1. e \in Grounded /\ e.src = v /\ e.tgt = u
    BY <1>3, <1>4 DEF ToSet
  <2>2. e \in [src : Names, pred : Predicates, tgt : Names, chunk : Chunk, weight : {6, 10}] /\ {v, u} \subseteq Entities(e.chunk)
    BY <2>1 DEF Grounded, Ends
  <2> HIDE DEF e
  <2>3. PICK p \in Predicates, c \in Chunk, w \in {6, 10} : e = [src |-> v, pred |-> p, tgt |-> u, chunk |-> c, weight |-> w]
    BY <2>1, <2>2
  <2>4. [e EXCEPT !.src = u, !.tgt = v] = [src |-> u, pred |-> p, tgt |-> v, chunk |-> c, weight |-> w]
    <3>1. [e EXCEPT !.src = u] = [src |-> u, pred |-> p, tgt |-> u, chunk |-> c, weight |-> w]
      BY <2>3
    <3>2. [[src |-> u, pred |-> p, tgt |-> u, chunk |-> c, weight |-> w] EXCEPT !.tgt = v]
            = [src |-> u, pred |-> p, tgt |-> v, chunk |-> c, weight |-> w]
      OBVIOUS
    <3> QED BY <3>1, <3>2, Zenon
  <2>5. Ends([src |-> u, pred |-> p, tgt |-> v, chunk |-> c, weight |-> w]) = {u, v}
    BY DEF Ends
  <2>6. {u, v} \subseteq Entities(c)
    BY <2>2, <2>3
  <2>7. [src |-> u, pred |-> p, tgt |-> v, chunk |-> c, weight |-> w] \in Grounded
    BY <2>5, <2>6 DEF Grounded
  <2> QED BY <2>4, <2>7 DEF e
<1>6. turned \in Seq(Grounded)
  <2> HIDE DEF turn
  <2> QED BY <1>3, <1>5
<1>7. Step(g, u, v) = IF Among(g.edges, I) # <<>> THEN Among(g.edges, I) ELSE turned
  BY DEF Step, from
<1> HIDE DEF turned, I
<1> QED BY <1>2, <1>6, <1>7

LEMMA LeastIs ==
  ASSUME NEW S \in SUBSET Nat, S # {}
  PROVE  \E m \in S : \A k \in S : m <= k
PROOF
<1> DEFINE R == OpToRel(<, Nat)
<1>1. \A x, y \in Nat : <<x, y>> \in R <=> x < y
  BY DEF OpToRel
<1>2. PICK x \in S : \A y \in S : <<y, x>> \notin R
  <2>1. IsWellFoundedOn(R, Nat)
    BY NatLessThanWellFounded
  <2> HIDE DEF R
  <2> QED BY <2>1, WFMin
<1> HIDE DEF R
<1>3. ASSUME NEW y \in S PROVE x <= y
  <2>1. x \in Nat /\ y \in Nat /\ ~(y < x)
    BY <1>1, <1>2
  <2> QED BY <2>1
<1> QED BY <1>3

\* A path that is shortest is one, and steps from name to name.
LEMMA PathIs ==
  ASSUME NEW E, NEW a, NEW b, Paths(E, a, b) # {}
  PROVE  \E k \in Nat \ {0} : ShortestPath(E, a, b) \in [1..k -> Names]
PROOF
<1>1. ASSUME NEW p \in Paths(E, a, b) PROVE \E k \in Nat \ {0} : p \in [1..k -> Names] /\ Len(p) = k
  <2>1. PICK k \in 1..Cardinality(Names) : p \in [1..k -> Names]
    BY DEF Paths
  <2>2. Cardinality(Names) \in Nat
    BY GraphFactsAssumption, FS_CardinalityType
  <2>3. k \in Nat \ {0}
    BY <2>1, <2>2
  <2> QED BY <2>1, <2>3
<1>2. \E p \in Paths(E, a, b) : \A q \in Paths(E, a, b) : Len(p) <= Len(q)
  <2> DEFINE L == {Len(p) : p \in Paths(E, a, b)}
  <2>1. L # {} /\ L \subseteq Nat
    BY <1>1
  <2>2. PICK m \in L : \A l \in L : m <= l
    <3> HIDE DEF L
    <3> QED BY <2>1, LeastIs
  <2> QED BY <2>2
<1>3. ShortestPath(E, a, b) \in Paths(E, a, b)
  BY <1>2 DEF ShortestPath
<1> QED BY <1>1, <1>3

\* So has what stands for a path, an edge against the step turned round included.
LEMMA PathEdgesAre ==
  ASSUME NEW g \in Copies, NEW a, NEW b
  PROVE  PathEdges(g, a, b) \in Seq(Grounded)
PROOF
<1> DEFINE E == ToSet(g.edges)
<1> DEFINE p == ShortestPath(E, a, b)
<1> DEFINE steps == [i \in 1..(Len(p) - 1) |-> Step(g, p[i], p[i + 1])]
<1>1. PathEdges(g, a, b) = IF {a, b} \subseteq g.has /\ Paths(E, a, b) # {} THEN FlattenSeq(steps) ELSE <<>>
  BY DEF PathEdges
<1>2. ASSUME Paths(E, a, b) # {} PROVE FlattenSeq(steps) \in Seq(Grounded)
  <2>1. PICK k \in Nat \ {0} : p \in [1..k -> Names]
    BY <1>2, PathIs
  <2> HIDE DEF p
  <2>2. Len(p) = k /\ Len(p) - 1 \in Nat /\ \A i \in 1..(Len(p) - 1) : p[i] \in Names /\ p[i + 1] \in Names
    BY <2>1
  <2>3. \A i \in 1..(Len(p) - 1) : Step(g, p[i], p[i + 1]) \in Seq(Grounded)
    BY <2>2, StepIs
  <2>4. steps \in Seq(Seq(Grounded))
    <3> DEFINE m == Len(p) - 1
    <3>1. m \in Nat
      BY <2>2
    <3>2. \A i \in 1..m : Step(g, p[i], p[i + 1]) \in Seq(Grounded)
      BY <2>3
    <3> HIDE DEF m
    <3>3. [i \in 1..m |-> Step(g, p[i], p[i + 1])] \in Seq(Seq(Grounded))
      BY <3>1, <3>2
    <3> QED BY <3>3 DEF m
  <2> HIDE DEF steps
  <2> QED BY <2>4, FlattenHas
<1> HIDE DEF steps
<1> QED BY <1>1, <1>2

LEMMA NoneAbove ==
  ASSUME NEW s \in Seq(Grounded), NEW n \in Nat
  PROVE  First(ByWeight(s), n) \in Seq(ToSet(s))
PROOF
<1> DEFINE T == ToSet(s)
<1>1. s \in Seq(T)
  BY DEF ToSet
<1> DEFINE I == {i \in DOMAIN s : s[i].weight = 10}
<1> DEFINE J == {i \in DOMAIN s : s[i].weight # 10}
<1>2. I \in SUBSET DOMAIN s /\ J \in SUBSET DOMAIN s
  OBVIOUS
<1>3. ByWeight(s) = Among(s, I) \o Among(s, J)
  BY DEF ByWeight
<1> HIDE DEF I, J, T
<1>4. Among(s, I) \in Seq(T) /\ Among(s, J) \in Seq(T)
  BY <1>1, <1>2, AmongHas
<1>5. ByWeight(s) \in Seq(T)
  BY <1>3, <1>4
<1> QED BY <1>5, FirstIs DEF T

\* The neighborhoods of the names asked, and the paths between them.
LEMMA AroundIs ==
  ASSUME NEW g \in Copies, NEW neo1 \in NeoCopies, NEW b, NEW focal, NEW depth,
         Len(focal) \in Nat, DOMAIN focal = 1..Len(focal),
         NEW nbs, nbs = Around(g, neo1, b, focal, depth)
  PROVE  [i \in DOMAIN nbs |-> nbs[i].edges] \in Seq(Seq(Grounded))
PROOF
<1> DEFINE nb(i) == IF b THEN NeoNeighborhood(neo1, g, focal[i], depth) ELSE Neighborhood(g, focal[i], depth)
<1>1. nbs = [i \in DOMAIN focal |-> nb(i)]
  BY DEF Around
<1>2. \A i \in DOMAIN focal : nb(i).edges \in Seq(Grounded)
  BY NeighborsAre
<1> HIDE DEF nb
<1> QED BY <1>1, <1>2

LEMMA BetweenIs ==
  ASSUME NEW g \in Copies, NEW focal, Len(focal) \in Nat, DOMAIN focal = 1..Len(focal)
  PROVE  Between(g, focal) \in Seq(Grounded)
PROOF
<1> DEFINE P == {ij \in (DOMAIN focal) \X (DOMAIN focal) : ij[1] < ij[2]}
<1> DEFINE pairs == SetToSeq(P)
<1> DEFINE between(k) == PathEdges(g, focal[pairs[k][1]], focal[pairs[k][2]])
<1>1. Between(g, focal) = FlattenSeq([k \in DOMAIN pairs |-> between(k)])
  BY DEF Between
<1>2. pairs \in Seq(P)
  <2>1. IsFiniteSet(DOMAIN focal)
    BY FS_Interval
  <2>2. IsFiniteSet((DOMAIN focal) \X (DOMAIN focal))
    BY <2>1, FS_Product
  <2>3. IsFiniteSet(P)
    BY <2>2, FS_Subset
  <2> HIDE DEF P
  <2> QED BY <2>3, SetToSeqIs
<1> HIDE DEF P, pairs
<1>3. \A k \in DOMAIN pairs : between(k) \in Seq(Grounded)
  BY PathEdgesAre
<1> HIDE DEF between
<1>4. [k \in DOMAIN pairs |-> between(k)] \in Seq(Seq(Grounded))
  <2>1. DOMAIN pairs = 1..Len(pairs) /\ Len(pairs) \in Nat
    BY <1>2
  <2> QED BY <1>3, <2>1
<1> QED BY <1>1, <1>4, FlattenHas

\* All that a query collects before it narrows and sorts it.
LEMMA FoundIs ==
  ASSUME NEW g \in Copies, NEW neo1 \in NeoCopies, NEW b, NEW asked \in SUBSET Names, NEW depth,
         NEW all, all = Found(g, neo1, b, asked, depth)
  PROVE  all.relations \in Seq(Grounded) /\ all.matched = Mentioned(g, asked)
PROOF
<1> DEFINE focal == InOrder(asked)
<1> DEFINE nbs == Around(g, neo1, b, focal, depth)
<1> DEFINE edges == [i \in DOMAIN nbs |-> nbs[i].edges]
<1> DEFINE paths == Between(g, focal)
<1> DEFINE collected == FlattenSeq(edges) \o paths
<1>1. all.relations = Firsts(collected) /\ all.matched = Mentioned(g, asked)
  BY DEF Found
<1>2. Len(focal) \in Nat /\ DOMAIN focal = 1..Len(focal)
  BY NamesFinite, InOrderIs
<1> HIDE DEF focal
<1>3. edges \in Seq(Seq(Grounded)) /\ paths \in Seq(Grounded)
  BY <1>2, AroundIs, BetweenIs
<1> HIDE DEF edges, paths
<1>4. collected \in Seq(Grounded)
  <2>1. FlattenSeq(edges) \in Seq(Grounded)
    BY <1>3, FlattenHas
  <2> QED BY <1>3, <2>1
<1> HIDE DEF collected
<1>5. Firsts(collected) \in Seq(Grounded)
  <2> DEFINE I == {i \in DOMAIN collected : \A j \in 1..(i - 1) : Triple(collected[j]) # Triple(collected[i])}
  <2>1. Firsts(collected) = Among(collected, I) /\ I \in SUBSET DOMAIN collected
    BY DEF Firsts
  <2> HIDE DEF I
  <2> QED BY <1>4, <2>1, AmongHas
<1> QED BY <1>1, <1>5

\* What is left of it in the scope of a project.
LEMMA ScopedIs ==
  ASSUME NEW all, all.relations \in Seq(Grounded), NEW scope, NEW a, a = Scoped(all, scope)
  PROVE  /\ a.relations \in Seq(Grounded) /\ a.chunks = Chunks(a.relations)
         /\ \A e \in ToSet(a.relations) : DocOf[e.chunk] \in scope
         /\ \A m \in a.matched : m \in all.matched /\ (m.doc \in scope \/ \E e \in ToSet(a.relations) : m.name \in Ends(e))
         /\ a = [relations |-> a.relations, chunks |-> a.chunks, matched |-> a.matched]
PROOF
<1> DEFINE rels == all.relations
<1> DEFINE I == {i \in DOMAIN rels : DocOf[rels[i].chunk] \in scope}
<1> DEFINE left == Among(rels, I)
<1> DEFINE matched == {m \in all.matched : m.doc \in scope \/ \E e \in ToSet(left) : m.name \in Ends(e)}
<1>1. a = [relations |-> left, chunks |-> Chunks(left), matched |-> matched]
  BY DEF Scoped
<1>2. left \in Seq(Grounded) /\ ToSet(left) = {rels[i] : i \in I}
  BY AmongHas
<1>3. \A e \in ToSet(left) : DocOf[e.chunk] \in scope
  BY <1>2
<1>4. \A m \in matched : m \in all.matched /\ (m.doc \in scope \/ \E e \in ToSet(left) : m.name \in Ends(e))
  OBVIOUS
<1> HIDE DEF left, matched
<1>5. a.relations = left /\ a.chunks = Chunks(left) /\ a.matched = matched
  BY <1>1
<1> QED BY <1>1, <1>2, <1>3, <1>4, <1>5

\* An answer of the documents scope only.
StaysIn(scope, a) ==
  /\ Chunks(a.relations) \subseteq a.chunks
  /\ \A c \in a.chunks : DocOf[c] \in scope
  /\ \A m \in a.matched : \E c \in Chunk : DocOf[c] \in scope /\ m.name \in Entities(c)

\* An answer stays in the scope of its project.
LEMMA AnswerIs ==
  ASSUME NEW g \in Copies, NEW neo1 \in NeoCopies, NEW b, NEW asked \in SUBSET Names, NEW depth,
         NEW scope \in SUBSET Doc, scope # {}, NEW a, a = Query(g, neo1, b, asked, depth, scope)
  PROVE  StaysIn(scope, a)
PROOF
<1> DEFINE all == Found(g, neo1, b, asked, depth)
<1> DEFINE left == Scoped(all, scope)
<1> DEFINE kept1 == left.relations
<1> DEFINE top == First(ByWeight(kept1), MaxRelations)
<1>0. all.relations \in Seq(Grounded) /\ all.matched = Mentioned(g, asked)
  BY FoundIs
<1>1. a = [left EXCEPT !.relations = top]
  BY DEF Query
<1> HIDE DEF all
<1>2. /\ kept1 \in Seq(Grounded) /\ left.chunks = Chunks(kept1)
      /\ \A e \in ToSet(kept1) : DocOf[e.chunk] \in scope
      /\ \A m \in left.matched : m \in Mentioned(g, asked) /\ (m.doc \in scope \/ \E e \in ToSet(kept1) : m.name \in Ends(e))
      /\ left = [relations |-> kept1, chunks |-> left.chunks, matched |-> left.matched]
  BY <1>0, ScopedIs
<1>3. a.relations = top /\ a.chunks = Chunks(kept1) /\ a.matched = left.matched
  <2> HIDE DEF left, top
  <2> QED BY <1>1, <1>2
<1> HIDE DEF left
<1>4. Chunks(a.relations) \subseteq a.chunks
  <2>1. First(ByWeight(kept1), MaxRelations) \in Seq(ToSet(kept1))
    BY <1>2, NoneAbove, GraphFactsAssumption
  <2>2. ToSet(First(ByWeight(kept1), MaxRelations)) \subseteq ToSet(kept1)
    BY <2>1 DEF ToSet
  <2> QED BY <1>3, <2>2 DEF Chunks
<1>5. \A c \in a.chunks : DocOf[c] \in scope
  BY <1>2, <1>3 DEF Chunks
<1>6. ASSUME NEW m \in a.matched PROVE \E c \in Chunk : DocOf[c] \in scope /\ m.name \in Entities(c)
  <2>1. CASE \E e \in ToSet(kept1) : m.name \in Ends(e)
    <3>1. PICK e \in ToSet(kept1) : m.name \in Ends(e)
      BY <2>1
    <3>2. e \in Grounded
      BY <1>2 DEF ToSet
    <3>3. e.chunk \in Chunk /\ Ends(e) \subseteq Entities(e.chunk)
      BY <3>2 DEF Grounded
    <3> QED BY <1>2, <3>1, <3>3
  <2>2. CASE m.doc \in scope /\ m \in Mentioned(g, asked)
    <3>1. PICK n \in asked : m = [name |-> n, doc |-> SourceOf(g, n)]
      BY <2>2 DEF Mentioned
    <3>2. m.name = n /\ m.doc = SourceOf(g, n) /\ n \in Names
      BY <3>1
    <3>3. g.of[n] # {}
      BY <2>2, <3>2, GraphFactsAssumption DEF SourceOf
    <3> DEFINE c == CHOOSE c \in g.of[n] : TRUE
    <3>4. c \in g.of[n] /\ DocOf[c] \in scope
      BY <2>2, <3>2, <3>3 DEF SourceOf
    <3>5. g.of \in Of
      BY DEF Copies
    <3>6. c \in Chunk /\ n \in Entities(c)
      BY <3>2, <3>4, <3>5 DEF Of
    <3> HIDE DEF c
    <3> QED BY <3>2, <3>4, <3>6
  <2> QED BY <1>2, <1>3, <2>1, <2>2
<1> QED BY <1>4, <1>5, <1>6 DEF StaysIn

\* So do the statistics.
LEMMA CountedIs ==
  ASSUME NEW g \in Copies, NEW neo1 \in NeoCopies, NEW b, NEW scope,
         NEW n \in Stats(g, neo1, b, scope).nodes \cup UNION {Ends(e) : e \in Stats(g, neo1, b, scope).relations}
  PROVE  \E c \in Chunk : DocOf[c] \in scope /\ n \in Entities(c)
PROOF
<1> DEFINE of == IF b THEN neo1.of ELSE g.of
<1> DEFINE nodes == {m \in Names : \E c \in of[m] : DocOf[c] \in scope}
<1> DEFINE rels == {e \in IF b THEN neo1.rels ELSE ToSet(g.edges) : Ends(e) \subseteq nodes}
<1>1. Stats(g, neo1, b, scope) = [nodes |-> nodes, relations |-> rels]
  BY DEF Stats
<1>2. n \in nodes
  <2>1. \A e \in rels : Ends(e) \subseteq nodes
    OBVIOUS
  <2>2. Stats(g, neo1, b, scope).nodes = nodes /\ Stats(g, neo1, b, scope).relations = rels
    <3> HIDE DEF nodes, rels
    <3> QED BY <1>1
  <2> HIDE DEF nodes, rels
  <2>3. n \in nodes \cup UNION {Ends(e) : e \in rels}
    BY <2>2
  <2> QED BY <2>1, <2>3
<1>3. of \in Of
  BY DEF Copies, NeoCopies
<1>4. PICK c \in of[n] : DocOf[c] \in scope
  BY <1>2
<1> QED BY <1>2, <1>3, <1>4 DEF Of

\* Whatever the graph holds, an answer to a project and the statistics shown to
\* it have no relation, chunk or name of an entity that only other documents
\* mention, whether Neo4j or the memory answers and whatever the question.
THEOREM ScopesAreKept == GraphSpec => []AnswersStayInScope
PROOF
<1>1. ASSUME GraphInv PROVE AnswersStayInScope
  <2> DEFINE g == mirror["gateway"]
  <2> DEFINE b == connected["gateway"]
  <2>1. g \in Copies /\ neo \in NeoCopies
    BY <1>1, ProcOf DEF GraphInv, GraphType
  <2> SUFFICES ASSUME NEW scope \in (SUBSET Doc) \ {{}}, NEW a \in Answers(scope)
               PROVE  /\ Chunks(a.relations) \subseteq a.chunks
                      /\ \A c \in a.chunks : DocOf[c] \in scope
                      /\ \A n \in {m.name : m \in a.matched} \cup CountedOf(scope).nodes
                                    \cup UNION {Ends(e) : e \in CountedOf(scope).relations} :
                           \E c \in Chunk : DocOf[c] \in scope /\ n \in Entities(c)
    BY Zenon DEF AnswersStayInScope
  <2>2. PICK q \in Questions : a = Query(g, neo, b, q.asked, q.hops, scope)
    BY DEF Answers
  <2>3. q.asked \in SUBSET Names
    BY EntityGraphAssumption
  <2>4. StaysIn(scope, a)
    <3>1. scope \in SUBSET Doc /\ scope # {}
      OBVIOUS
    <3> HIDE DEF g, b
    <3> QED BY <2>1, <2>2, <2>3, <3>1, AnswerIs
  <2>5. ASSUME NEW n \in CountedOf(scope).nodes \cup UNION {Ends(e) : e \in CountedOf(scope).relations}
        PROVE  \E c \in Chunk : DocOf[c] \in scope /\ n \in Entities(c)
    <3>1. CountedOf(scope) = Stats(g, neo, b, scope)
      BY DEF CountedOf
    <3> HIDE DEF g, b
    <3> QED BY <2>1, <2>5, <3>1, CountedIs
  <2> QED BY <2>4, <2>5 DEF StaysIn
<1> QED BY GraphInvariant, <1>1, PTL

-----------------------------------------------------------------------------
(* The sizes of texts.                                                       *)

\* The size of a text is summed up word by word.
LEMMA SizesAre ==
  ASSUME NEW T, \A w \in T : w.size \in Nat, NEW s \in Seq(T)
  PROVE  \E f \in [0..Len(s) -> Nat] :
           f[0] = 0 /\ f[Len(s)] = Size(s) /\ \A i \in 1..Len(s) : f[i] = f[i - 1] + s[i].size
PROOF
<1> DEFINE sizes == [w \in ToSet(s) |-> w.size]
<1>1. s \in Seq(ToSet(s)) /\ ToSet(s) \subseteq T /\ \A i \in 1..Len(s) : s[i] \in ToSet(s)
  BY DEF ToSet
<1>2. sizes \in [ToSet(s) -> Nat]
  BY <1>1
<1>3. \A i \in 1..Len(s) : sizes[s[i]] = s[i].size
  BY <1>1
<1>4. Size(s) = Sums(sizes, s)[Len(s)]
  BY DEF Size
<1> HIDE DEF sizes
<1>5. /\ Sums(sizes, s) \in [0..Len(s) -> Nat] /\ Sums(sizes, s)[0] = 0
      /\ \A i \in 1..Len(s) : Sums(sizes, s)[i] = Sums(sizes, s)[i - 1] + sizes[s[i]]
  BY <1>1, <1>2, SumsAre
<1> QED BY <1>3, <1>4, <1>5

\* The size of a text is that of its two halves.
LEMMA SizeAdds ==
  ASSUME NEW T, \A w \in T : w.size \in Nat, NEW s \in Seq(T), NEW t \in Seq(T)
  PROVE  Size(s) \in Nat /\ Size(t) \in Nat /\ Size(s \o t) = Size(s) + Size(t)
PROOF
<1> DEFINE u == s \o t
<1> DEFINE m == Len(s)
<1> DEFINE n == Len(t)
<1>1. /\ u \in Seq(T) /\ m \in Nat /\ n \in Nat /\ Len(u) = m + n
      /\ \A i \in 1..m : u[i] = s[i]
      /\ \A i \in 1..n : u[m + i] = t[i]
  OBVIOUS
<1>2. /\ \A i \in 1..m : s[i].size \in Nat
      /\ \A i \in 1..n : t[i].size \in Nat
  OBVIOUS
<1>3. PICK f \in [0..m -> Nat] : f[0] = 0 /\ f[m] = Size(s) /\ \A i \in 1..m : f[i] = f[i - 1] + s[i].size
  BY SizesAre
<1>4. PICK g \in [0..n -> Nat] : g[0] = 0 /\ g[n] = Size(t) /\ \A i \in 1..n : g[i] = g[i - 1] + t[i].size
  BY SizesAre
<1>5. PICK h \in [0..(m + n) -> Nat] :
        h[0] = 0 /\ h[m + n] = Size(u) /\ \A i \in 1..(m + n) : h[i] = h[i - 1] + u[i].size
  <2> HIDE DEF u
  <2>1. PICK h \in [0..Len(u) -> Nat] :
          h[0] = 0 /\ h[Len(u)] = Size(u) /\ \A i \in 1..Len(u) : h[i] = h[i - 1] + u[i].size
    BY <1>1, SizesAre
  <2>2. Len(u) = m + n
    BY <1>1
  <2> QED BY <2>1, <2>2
<1> HIDE DEF u, m, n
<1>6. \A i \in 0..m : h[i] = f[i]
  <2> DEFINE S == {i \in Nat : i <= m => h[i] = f[i]}
  <2>1. 0 \in S
    BY <1>3, <1>5
  <2>2. ASSUME NEW i \in Nat, i \in S PROVE i + 1 \in S
    <3> SUFFICES ASSUME i + 1 <= m PROVE h[i + 1] = f[i + 1]
      OBVIOUS
    <3>1. i + 1 \in 1..m /\ i + 1 \in 1..(m + n) /\ (i + 1) - 1 = i /\ i <= m
      BY <1>1
    <3>2. h[i + 1] = h[i] + u[i + 1].size /\ f[i + 1] = f[i] + s[i + 1].size
      BY <1>3, <1>5, <3>1
    <3> QED BY <1>1, <2>2, <3>1, <3>2
  <2>3. Nat \subseteq S
    <3> HIDE DEF S
    <3> QED BY <2>1, <2>2, NatInduct
  <2> QED BY <1>1, <2>3
<1>7. \A i \in 0..n : h[m + i] = f[m] + g[i]
  <2> DEFINE S == {i \in Nat : i <= n => h[m + i] = f[m] + g[i]}
  <2>0. f[m] \in Nat
    BY <1>1, <1>3
  <2>1. 0 \in S
    BY <1>1, <1>4, <1>6, <2>0
  <2>2. ASSUME NEW i \in Nat, i \in S PROVE i + 1 \in S
    <3> SUFFICES ASSUME i + 1 <= n PROVE h[m + (i + 1)] = f[m] + g[i + 1]
      OBVIOUS
    <3>1. i + 1 \in 1..n /\ m + (i + 1) \in 1..(m + n) /\ (m + (i + 1)) - 1 = m + i /\ (i + 1) - 1 = i /\ i \in 0..n
      BY <1>1
    <3>2. h[m + (i + 1)] = h[m + i] + u[m + (i + 1)].size /\ g[i + 1] = g[i] + t[i + 1].size
      BY <1>4, <1>5, <3>1
    <3>3. h[m + i] = f[m] + g[i] /\ u[m + (i + 1)] = t[i + 1] /\ t[i + 1].size \in Nat /\ g[i] \in Nat
      <4>1. g[i] \in Nat /\ t[i + 1].size \in Nat
        BY <1>2, <1>4, <3>1
      <4>2. u[m + (i + 1)] = t[i + 1]
        BY <1>1, <3>1
      <4>3. h[m + i] = f[m] + g[i]
        BY <2>2, <3>1
      <4> QED BY <4>1, <4>2, <4>3
    <3> QED BY <2>0, <3>2, <3>3
  <2>3. Nat \subseteq S
    <3> HIDE DEF S
    <3> QED BY <2>1, <2>2, NatInduct
  <2> QED BY <1>1, <2>3
<1>8. h[m + n] = f[m] + g[n]
  BY <1>1, <1>7
<1>9. Size(s) \in Nat /\ Size(t) \in Nat
  BY <1>1, <1>3, <1>4
<1> QED BY <1>3, <1>4, <1>5, <1>8, <1>9 DEF u

\* No word, no size.
LEMMA SizeOfNone == Size(<<>>) = 0
PROOF
<1>1. <<>> \in Seq({}) /\ Len(<<>>) = 0
  OBVIOUS
<1>2. PICK f \in [0..Len(<<>>) -> Nat] : f[0] = 0 /\ f[Len(<<>>)] = Size(<<>>)
  BY <1>1, SizesAre
<1> QED BY <1>1, <1>2

\* The size of one word.
LEMMA SizeOfOne ==
  ASSUME NEW T, \A w \in T : w.size \in Nat, NEW w \in T
  PROVE  Size(<<>>) = 0 /\ Size(<<w>>) = w.size
PROOF
<1>1. Size(<<>>) = 0
  BY SizeOfNone
<1>2. Size(<<w>>) = w.size
  <2>1. <<w>> \in Seq(T) /\ Len(<<w>>) = 1 /\ <<w>>[1] = w /\ w.size \in Nat
    OBVIOUS
  <2> DEFINE s == <<w>>
  <2> HIDE DEF s
  <2>2. PICK f \in [0..Len(s) -> Nat] : f[0] = 0 /\ f[Len(s)] = Size(s) /\ \A i \in 1..Len(s) : f[i] = f[i - 1] + s[i].size
    BY <2>1, SizesAre DEF s
  <2>3. Len(s) = 1 /\ s[1] = w
    BY <2>1 DEF s
  <2>4. f[1] = f[0] + w.size
    BY <2>2, <2>3
  <2> QED BY <2>1, <2>2, <2>3, <2>4 DEF s
<1> QED BY <1>1, <1>2

\* Two sequences with the same at every place are the same.
LEMMA SameSeq ==
  ASSUME NEW T, NEW s \in Seq(T), NEW t \in Seq(T), Len(s) = Len(t), \A k \in 1..Len(s) : s[k] = t[k]
  PROVE  s = t
PROOF
  OBVIOUS

\* Two sequences, one behind the other.
LEMMA JoinedIs ==
  ASSUME NEW T, NEW s \in Seq(T), NEW t \in Seq(T)
  PROVE  s \o t \in Seq(T) /\ Len(s \o t) = Len(s) + Len(t)
PROOF
  OBVIOUS

\* The end of a text, from one of its words on.
LEMMA FromIs ==
  ASSUME NEW T, \A w \in T : w.size \in Nat, NEW s \in Seq(T), NEW i \in 1..Len(s)
  PROVE  /\ From(s, i) \in Seq(T) /\ ToSet(From(s, i)) \subseteq ToSet(s) /\ s[i] \in ToSet(From(s, i))
         /\ From(s, i) # <<>> /\ From(s, i)[Len(From(s, i))] = s[Len(s)]
         /\ Size(From(s, i)) \in Nat
         /\ Size(From(s, i)) = s[i].size + (IF i = Len(s) THEN 0 ELSE Size(From(s, i + 1)))
PROOF
<1> DEFINE t == From(s, i)
<1> DEFINE n == Len(s)
<1>1. n \in Nat /\ i \in Nat /\ i <= n /\ i >= 1
  OBVIOUS
<1>2. t \in Seq(T) /\ Len(t) = n - i + 1 /\ \A k \in 1..Len(t) : t[k] = s[i + k - 1]
  BY DEF From
<1>3. \A k \in 1..(n - i + 1) : i + k - 1 \in 1..n
  BY <1>1
<1>4. ToSet(t) \subseteq ToSet(s)
  BY <1>2, <1>3 DEF ToSet
<1>5. t[1] = s[i] /\ t[Len(t)] = s[n] /\ Len(t) >= 1
  <2>1. 1 \in 1..Len(t) /\ n - i + 1 \in 1..Len(t) /\ i + 1 - 1 = i /\ i + (n - i + 1) - 1 = n
    BY <1>1, <1>2
  <2> QED BY <1>2, <2>1
<1>6. s[i] \in ToSet(t) /\ t # <<>>
  BY <1>1, <1>2, <1>5 DEF ToSet
<1>7. s[i] \in T /\ <<s[i]>> \in Seq(T) /\ Size(<<s[i]>>) = s[i].size /\ s[i].size \in Nat
  BY SizeOfOne
<1>8. CASE i = n
  <2>1. t = <<s[i]>>
    BY <1>2, <1>5, <1>8
  <2> QED BY <1>2, <1>4, <1>5, <1>6, <1>7, <1>8, <2>1
<1>9. CASE i < n
  <2> DEFINE r == From(s, i + 1)
  <2>1. r \in Seq(T) /\ Len(r) = n - i /\ \A k \in 1..Len(r) : r[k] = s[i + k]
    BY <1>1, <1>9 DEF From
  <2>2. t = <<s[i]>> \o r
    <3>1. <<s[i]>> \o r \in Seq(T) /\ Len(<<s[i]>> \o r) = Len(t)
      <4>1. <<s[i]>> \in Seq(T) /\ Len(<<s[i]>>) = 1
        BY <1>7
      <4>2. /\ <<s[i]>> \o r \in Seq(T)
            /\ Len(<<s[i]>> \o r) = Len(<<s[i]>>) + Len(r)
        BY <2>1, <4>1, JoinedIs
      <4>3. 1 + (n - i) = n - i + 1
        BY <1>1
      <4> HIDE DEF t, r, n
      <4> QED BY <1>2, <2>1, <4>1, <4>2, <4>3
    <3>2. ASSUME NEW k \in 1..Len(t) PROVE (<<s[i]>> \o r)[k] = t[k]
      <4>1. CASE k = 1
        BY <1>5, <1>7, <2>1, <4>1
      <4>2. CASE k > 1
        <5>1. k - 1 \in 1..Len(r) /\ Len(<<s[i]>>) = 1
          BY <1>1, <1>2, <2>1, <4>2
        <5>2. (<<s[i]>> \o r)[k] = r[k - 1]
          BY <1>7, <2>1, <4>2, <5>1
        <5> QED BY <1>1, <1>2, <2>1, <5>1, <5>2
      <4> HIDE DEF t, r
      <4>3. k = 1 \/ k > 1
        BY <1>1, <1>2
      <4> QED BY <4>1, <4>2, <4>3
    <3> HIDE DEF t, r
    <3> QED BY <1>2, <3>1, <3>2, SameSeq
  <2> HIDE DEF r
  <2>3. Size(t) = s[i].size + Size(r) /\ Size(r) \in Nat
    BY <1>7, <2>1, <2>2, SizeAdds
  <2>4. Size(t) \in Nat
    BY <1>7, <2>3
  <2> QED BY <1>2, <1>4, <1>5, <1>6, <1>9, <2>3, <2>4 DEF r
<1> QED BY <1>1, <1>8, <1>9

\* A text that is cut gives texts, single words when every word ends a part, and every word is in one.
LEMMA PartsAre ==
  ASSUME NEW T, NEW s \in Seq(T), s # <<>>, NEW level
  PROVE  /\ Parts(s, level) \in Seq(Seq(T) \ {<<>>}) /\ Parts(s, level) # <<>>
         /\ (\A i \in DOMAIN s : s[i].end <= level) => \A k \in DOMAIN Parts(s, level) : Len(Parts(s, level)[k]) = 1
         /\ \A w \in ToSet(s) : \E k \in DOMAIN Parts(s, level) : w \in ToSet(Parts(s, level)[k])
PROOF
<1> DEFINE E == {i \in DOMAIN s : i = Len(s) \/ s[i].end <= level}
<1> DEFINE ends == InOrder(E)
<1> DEFINE lo(k) == IF k = 1 THEN 1 ELSE ends[k - 1] + 1
<1> DEFINE part(k) == SubSeq(s, lo(k), ends[k])
<1> DEFINE n == Len(ends)
<1>1. Parts(s, level) = [k \in DOMAIN ends |-> part(k)]
  BY DEF Parts
<1>2. Len(s) \in Nat /\ DOMAIN s = 1..Len(s) /\ Len(s) >= 1
  OBVIOUS
<1>3. E \in SUBSET Nat /\ IsFiniteSet(E) /\ E \subseteq 1..Len(s) /\ Len(s) \in E
  <2>1. IsFiniteSet(DOMAIN s)
    BY <1>2, FS_Interval
  <2>2. IsFiniteSet(E)
    BY <2>1, FS_Subset
  <2> HIDE DEF ends
  <2> QED BY <1>2, <2>2
<1>4. (\A i \in DOMAIN s : s[i].end <= level) => E = 1..Len(s)
  BY <1>2
<1> HIDE DEF E
<1>5. /\ ends \in Seq(E) /\ ToSet(ends) = E
      /\ \A k, l \in DOMAIN ends : k < l => ends[k] < ends[l]
  BY <1>3, InOrderIs
<1> HIDE DEF ends
<1>6. /\ n \in Nat /\ DOMAIN ends = 1..n /\ n >= 1
      /\ \A k \in 1..n : ends[k] \in E /\ ends[k] \in 1..Len(s) /\ ends[k] \in Nat
      /\ \A i \in E : \E k \in 1..n : ends[k] = i
  <2>1. n \in Nat /\ DOMAIN ends = 1..n /\ \A k \in 1..n : ends[k] \in E
    BY <1>5
  <2>2. \A i \in E : \E k \in 1..n : ends[k] = i
    BY <1>5, <2>1 DEF ToSet
  <2>3. n >= 1
    BY <1>3, <2>1, <2>2
  <2> QED BY <1>3, <2>1, <2>2, <2>3
<1>7. \A k, l \in 1..n : k < l => ends[k] < ends[l]
  BY <1>5, <1>6
<1> HIDE DEF n
<1>8. ASSUME NEW k \in 1..n PROVE lo(k) \in 1..ends[k]
  <2>1. CASE k = 1
    BY <1>6, <2>1
  <2>2. CASE k # 1
    <3>1. k - 1 \in 1..n /\ k - 1 < k
      BY <1>6, <2>2
    <3>2. ends[k - 1] < ends[k] /\ ends[k - 1] \in Nat /\ ends[k] \in Nat
      BY <1>6, <1>7, <3>1
    <3> QED BY <2>2, <3>2
  <2> QED BY <2>1, <2>2
<1>9. ASSUME NEW k \in 1..n PROVE part(k) \in Seq(T) /\ Len(part(k)) = ends[k] - lo(k) + 1 /\ part(k) # <<>>
  <2>1. lo(k) \in 1..ends[k] /\ ends[k] \in 1..Len(s)
    BY <1>6, <1>8
  <2> HIDE DEF lo
  <2>2. part(k) \in Seq(T) /\ Len(part(k)) = ends[k] - lo(k) + 1
    BY <1>2, <2>1
  <2> HIDE DEF part
  <2>3. Len(part(k)) # 0
    BY <1>2, <2>1, <2>2
  <2> QED BY <2>2, <2>3
<1>10. Parts(s, level) \in Seq(Seq(T) \ {<<>>}) /\ Parts(s, level) # <<>>
  <2> DEFINE ps == [k \in 1..n |-> part(k)]
  <2>1. Parts(s, level) = ps
    BY <1>1, <1>6
  <2>2. \A k \in 1..n : part(k) \in Seq(T) \ {<<>>}
    BY <1>9
  <2> HIDE DEF part
  <2>3. ps \in Seq(Seq(T) \ {<<>>}) /\ Len(ps) = n
    BY <1>6, <2>2
  <2> HIDE DEF ps
  <2> QED BY <1>6, <2>1, <2>3
<1>11. ASSUME \A i \in DOMAIN s : s[i].end <= level, NEW k \in 1..n PROVE lo(k) = ends[k]
  <2> SUFFICES ASSUME lo(k) # ends[k] PROVE FALSE
    OBVIOUS
  <2>0. lo(k) \in 1..ends[k] /\ ends[k] \in 1..Len(s)
    BY <1>6, <1>8
  <2>1. lo(k) < ends[k] /\ ends[k] - 1 \in 1..Len(s) /\ lo(k) <= ends[k] - 1 /\ lo(k) \in Nat /\ lo(k) >= 1
    <3> HIDE DEF lo
    <3> QED BY <1>2, <2>0
  <2>2. PICK l \in 1..n : ends[l] = ends[k] - 1
    BY <1>4, <1>6, <1>11, <2>1
  <2>3. l < k
    <3>1. ends[l] < ends[k] /\ ends[k] \in Nat
      BY <1>6, <2>2
    <3>2. l # k /\ ~(k < l)
      BY <1>6, <1>7, <2>2, <3>1
    <3> QED BY <1>6, <3>2
  <2>4. k # 1 /\ k - 1 \in 1..n /\ l <= k - 1
    BY <1>6, <2>3
  <2>5. ends[l] <= ends[k - 1]
    <3>1. CASE l = k - 1
      BY <1>6, <2>4, <3>1
    <3>2. CASE l < k - 1
      BY <1>6, <1>7, <2>4, <3>2
    <3> QED BY <1>6, <2>4, <3>1, <3>2
  <2>6. lo(k) = ends[k - 1] + 1 /\ ends[k - 1] \in Nat
    BY <1>6, <2>4
  <2> HIDE DEF lo
  <2> QED BY <1>6, <2>1, <2>2, <2>5, <2>6
<1>12. (\A i \in DOMAIN s : s[i].end <= level) => \A k \in DOMAIN Parts(s, level) : Len(Parts(s, level)[k]) = 1
  <2> SUFFICES ASSUME \A i \in DOMAIN s : s[i].end <= level, NEW k \in 1..n PROVE Len(part(k)) = 1
    <3> HIDE DEF part
    <3> QED BY <1>1, <1>6
  <2>1. lo(k) = ends[k] /\ ends[k] \in Nat /\ Len(part(k)) = ends[k] - lo(k) + 1
    BY <1>6, <1>9, <1>11
  <2> HIDE DEF part, lo
  <2> QED BY <2>1
<1>13. ASSUME NEW i \in 1..Len(s) PROVE \E k \in 1..n : i \in lo(k)..ends[k]
  <2> DEFINE HeldAt(k) == \E j \in 1..k : i \in lo(j)..ends[j]
  <2> DEFINE S == {k \in Nat : k \in 1..n /\ i <= ends[k] => HeldAt(k)}
  <2>1. 0 \in S
    OBVIOUS
  <2>2. ASSUME NEW k \in Nat, k \in S PROVE k + 1 \in S
    <3> SUFFICES ASSUME k + 1 \in 1..n, i <= ends[k + 1] PROVE HeldAt(k + 1)
      OBVIOUS
    <3>1. k + 1 \in 1..(k + 1) /\ ends[k + 1] \in Nat /\ i \in Nat /\ i >= 1
      BY <1>2, <1>6
    <3>2. CASE k = 0
      <4>1. lo(k + 1) = 1
        BY <3>2
      <4>2. i \in lo(k + 1)..ends[k + 1]
        BY <3>1, <4>1
      <4> QED BY <3>1, <4>2
    <3>3. CASE k # 0 /\ i <= ends[k]
      <4>1. k \in 1..n
        BY <1>6, <3>3
      <4>2. HeldAt(k)
        BY <2>2, <3>3, <4>1
      <4>3. \A j \in 1..k : j \in 1..(k + 1)
        OBVIOUS
      <4> HIDE DEF lo
      <4> QED BY <4>2, <4>3
    <3>4. CASE k # 0 /\ ~(i <= ends[k])
      <4>1. k \in 1..n /\ (k + 1) - 1 = k /\ k + 1 # 1
        BY <1>6, <3>4
      <4>2. ends[k] \in Nat
        BY <1>6, <4>1
      <4>3. lo(k + 1) = ends[k] + 1
        BY <4>1
      <4> HIDE DEF lo
      <4>4. i \in lo(k + 1)..ends[k + 1]
        BY <3>1, <3>4, <4>2, <4>3
      <4> QED BY <3>1, <4>4
    <3> QED BY <3>2, <3>3, <3>4
  <2>3. Nat \subseteq S
    <3> HIDE DEF S
    <3> QED BY <2>1, <2>2, NatInduct
  <2>4. PICK k \in 1..n : ends[k] = Len(s)
    BY <1>3, <1>6
  <2>5. k \in Nat /\ i <= ends[k]
    BY <1>2, <1>6, <2>4
  <2>6. k \in S
    <3> HIDE DEF S
    <3> QED BY <2>3, <2>5
  <2>7. PICK j \in 1..k : i \in lo(j)..ends[j]
    BY <2>5, <2>6
  <2>8. j \in 1..n
    BY <1>6
  <2> HIDE DEF lo
  <2> QED BY <2>7, <2>8
<1>14. \A w \in ToSet(s) : \E k \in DOMAIN Parts(s, level) : w \in ToSet(Parts(s, level)[k])
  <2> SUFFICES ASSUME NEW w \in ToSet(s) PROVE \E k \in 1..n : w \in ToSet(part(k))
    <3> HIDE DEF part
    <3> QED BY <1>1, <1>6
  <2>1. PICK i \in 1..Len(s) : w = s[i]
    BY <1>2 DEF ToSet
  <2>2. PICK k \in 1..n : i \in lo(k)..ends[k]
    BY <1>13
  <2>3. lo(k) \in 1..ends[k] /\ ends[k] \in 1..Len(s) /\ i \in Nat
    BY <1>2, <1>6, <1>8
  <2> HIDE DEF lo
  <2> DEFINE j == i - lo(k) + 1
  <2>4. /\ part(k) \in Seq(T) /\ Len(part(k)) = ends[k] - lo(k) + 1
        /\ \A l \in 1..(ends[k] - lo(k) + 1) : part(k)[l] = s[lo(k) + l - 1]
    BY <1>2, <2>3
  <2> HIDE DEF part
  <2>5. j \in 1..(ends[k] - lo(k) + 1) /\ lo(k) + j - 1 = i
    BY <1>2, <2>2, <2>3
  <2>6. j \in DOMAIN part(k) /\ part(k)[j] = w
    BY <2>1, <2>4, <2>5
  <2> QED BY <2>6 DEF ToSet
<1> QED BY <1>10, <1>12, <1>14

-----------------------------------------------------------------------------
(* What comes of a text.                                                     *)

\* The words and lines of a text, by where they are from.
Ats(s) == {w.at : w \in ToSet(s)}
WordsAt(A) == {w \in Word : w.at \in A}
TextsAt(A) == Seq(WordsAt(A)) \ {<<>>}

\* What passes its budget n by the overlap, or by its last word, at most.
Within(s, n) == Size(s) <= n + (3 * Overlap) \div 10 \/ \E w \in ToSet(s) : Size(s) <= n + w.size - 1

FitTexts(A, most) == {s \in TextsAt(A) : Within(s, most)}

\* The largest of some places of a text.
LEMMA MaxIs ==
  ASSUME NEW n \in Nat, NEW S \in SUBSET (0..n), S # {}
  PROVE  Max(S) \in S /\ \A i \in S : i <= Max(S)
PROOF
<1>1. \E m \in S : \A i \in S : m >= i
  <2>1. PICK m \in S : \A i \in S : i <= m
    BY Greatest
  <2>2. \A i \in S : i \in Nat
    OBVIOUS
  <2>3. \A i \in S : m >= i
    BY <2>1, <2>2
  <2> QED BY <2>3
<1>2. Max(S) \in S /\ \A i \in S : Max(S) >= i
  BY <1>1 DEF Max
<1> QED BY <1>2

\* The smallest of some places of a text.
LEMMA MinIs ==
  ASSUME NEW n \in Nat, NEW S \in SUBSET (0..n), S # {}
  PROVE  Min(S) \in S /\ \A i \in S : Min(S) <= i
PROOF
<1> DEFINE N == {n - i : i \in S}
<1>1. N \in SUBSET (0..n) /\ N # {}
  <2>1. \A i \in 0..n : n - i \in 0..n
    OBVIOUS
  <2>2. \A i \in S : n - i \in 0..n
    BY <2>1
  <2> QED BY <2>2
<1>2. PICK m \in N : \A k \in N : k <= m
  <2> HIDE DEF N
  <2> QED BY <1>1, Greatest
<1>3. PICK i \in S : m = n - i
  OBVIOUS
<1>4. \A k \in S : i <= k
  <2> SUFFICES ASSUME NEW k \in S PROVE i <= k
    OBVIOUS
  <2>1. n - k <= m
    BY <1>2
  <2> QED BY <1>3, <2>1
<1> QED BY <1>3, <1>4 DEF Min

\* Ten times at most thirteen times the overlap is at most the overlap and three tenths of it.
LEMMA Share10 ==
  ASSUME NEW x \in Nat, NEW o \in Nat, NEW n \in Nat, o <= n, 10 * x <= 13 * o
  PROVE  x <= o + (3 * n) \div 10
PROOF
<1> DEFINE q == (3 * n) \div 10
<1>1. q \in Nat /\ 3 * n < 10 * q + 10
  OBVIOUS
<1> HIDE DEF q
<1>2. x <= o + q
  BY <1>1
<1> QED BY <1>2 DEF q

\* What is known of a word.
LEMMA SizesOfWords == \A A : \A w \in WordsAt(A) : w.size \in Nat /\ w \in Word /\ w.end <= Space
PROOF
  BY DEF WordsAt, Word, Space, Paragraph

\* The overlap is the end of the text, and about as long as it should be.
LEMMA OverlapPrefixIs ==
  ASSUME NEW A, NEW s \in TextsAt(A), NEW overlap \in Nat, overlap <= Overlap
  PROVE  /\ OverlapPrefix(s, overlap) \in Seq(WordsAt(A)) /\ ToSet(OverlapPrefix(s, overlap)) \subseteq ToSet(s)
         /\ Within(OverlapPrefix(s, overlap), overlap)
PROOF
<1> DEFINE T == WordsAt(A)
<1> DEFINE n == Len(s)
<1> DEFINE starts == {i \in DOMAIN s : i = 1 \/ s[i - 1].end <= Stop}
<1> DEFINE within == {Max(starts)} \cup {i \in starts : Size(From(s, i)) <= overlap}
<1> DEFINE enough == {1} \cup {i \in DOMAIN s : Size(From(s, i)) >= overlap}
<1> DEFINE a == Min(within)
<1> DEFINE b == Max(enough)
<1> DEFINE r == OverlapPrefix(s, overlap)
<1>1. s \in Seq(T) /\ n \in Nat /\ n >= 1 /\ DOMAIN s = 1..n
  BY DEF TextsAt
<1>2. \A w \in T : w.size \in Nat
  BY SizesOfWords
<1>3. a \in 1..n
  <2>1. starts \in SUBSET (0..n) /\ starts # {} /\ starts \subseteq 1..n
    <3>1. 1 \in 1..n /\ 1..n \subseteq 0..n
      BY <1>1
    <3>2. starts \subseteq 1..n
      <4> HIDE DEF n
      <4> QED BY <1>1
    <3>3. 1 \in starts
      BY <1>1, <3>1
    <3> HIDE DEF starts, n
    <3> QED BY <3>1, <3>2, <3>3
  <2>2. Max(starts) \in starts
    <3> HIDE DEF starts
    <3> QED BY <1>1, <2>1, MaxIs
  <2>3. within \in SUBSET (0..n) /\ within # {} /\ within \subseteq 1..n
    <3> HIDE DEF starts
    <3> QED BY <2>1, <2>2
  <2> HIDE DEF within
  <2> QED BY <1>1, <2>3, MinIs
<1>4. b \in enough /\ b \in 1..n /\ \A i \in enough : i <= b
  <2>1. enough \in SUBSET (0..n) /\ enough # {} /\ enough \subseteq 1..n
    <3> DEFINE long == {i \in DOMAIN s : Size(From(s, i)) >= overlap}
    <3>1. long \subseteq 1..n
      <4> HIDE DEF n
      <4> QED BY <1>1
    <3>2. 1 \in 1..n /\ 1..n \subseteq 0..n
      BY <1>1
    <3> HIDE DEF long, n
    <3> QED BY <3>1, <3>2 DEF long
  <2> HIDE DEF enough
  <2> QED BY <1>1, <2>1, MaxIs
<1>5. \/ r = <<>> /\ overlap = 0
      \/ r = From(s, a) /\ 10 * Size(From(s, a)) <= 13 * overlap
      \/ r = From(s, b) /\ overlap > 0
  <2> HIDE DEF a, b
  <2>1. r = CASE overlap = 0 -> <<>>
              [] overlap > 0 /\ starts # {1} /\ 10 * Size(From(s, a)) <= 13 * overlap -> From(s, a)
              [] OTHER -> From(s, b)
    BY DEF OverlapPrefix, a, b
  <2>2. CASE overlap = 0
    BY <2>1, <2>2
  <2>3. CASE overlap > 0 /\ starts # {1} /\ 10 * Size(From(s, a)) <= 13 * overlap
    <3> HIDE DEF r, starts
    <3>1. overlap # 0
      BY <2>3
    <3> QED BY <2>1, <2>3, <3>1
  <2>4. CASE overlap # 0 /\ ~(overlap > 0 /\ starts # {1} /\ 10 * Size(From(s, a)) <= 13 * overlap)
    <3> HIDE DEF r, starts
    <3>1. overlap > 0
      BY <2>4
    <3> QED BY <2>1, <2>4, <3>1
  <2> QED BY <2>2, <2>3, <2>4
<1> HIDE DEF a, r
<1>6. CASE r = <<>> /\ overlap = 0
  <2>1. Size(<<>>) = 0 /\ (3 * Overlap) \div 10 \in Nat
    BY SizeOfNone, ChunkingAssumption
  <2>2. Within(r, overlap)
    BY <1>6, <2>1 DEF Within
  <2> QED BY <1>6, <2>2 DEF r, ToSet
<1>7. CASE r = From(s, a) /\ 10 * Size(From(s, a)) <= 13 * overlap
  <2>1. From(s, a) \in Seq(T) /\ ToSet(From(s, a)) \subseteq ToSet(s) /\ Size(From(s, a)) \in Nat
    BY <1>1, <1>2, <1>3, FromIs
  <2>2. Size(From(s, a)) <= overlap + (3 * Overlap) \div 10
    BY <1>7, <2>1, Share10, ChunkingAssumption
  <2> QED BY <1>7, <2>1, <2>2 DEF Within, r
<1>8. CASE r = From(s, b) /\ overlap > 0
  <2>1. /\ From(s, b) \in Seq(T) /\ ToSet(From(s, b)) \subseteq ToSet(s) /\ s[b] \in ToSet(From(s, b))
        /\ Size(From(s, b)) = s[b].size + (IF b = n THEN 0 ELSE Size(From(s, b + 1)))
    BY <1>1, <1>2, <1>4, FromIs
  <2>2. (IF b = n THEN 0 ELSE Size(From(s, b + 1))) <= overlap - 1
    <3>1. CASE b = n
      BY <1>8, <3>1
    <3>2. CASE b # n
      <4>1. b + 1 \in 1..n /\ b + 1 > b
        BY <1>1, <1>4, <3>2
      <4>2. Size(From(s, b + 1)) \in Nat
        BY <1>1, <1>2, <4>1, FromIs
      <4>3. b + 1 \notin enough
        BY <1>4, <4>1
      <4>4. ~(Size(From(s, b + 1)) >= overlap)
        BY <1>1, <4>1, <4>3
      <4> QED BY <3>2, <4>2, <4>4
    <3> QED BY <3>1, <3>2
  <2>3. s[b].size \in Nat
    BY <1>1, <1>2, <1>4
  <2>4. (IF b = n THEN 0 ELSE Size(From(s, b + 1))) \in Int
    <3>1. CASE b = n
      BY <3>1
    <3>2. CASE b # n
      <4>1. b + 1 \in 1..n
        BY <1>1, <1>4, <3>2
      <4>2. Size(From(s, b + 1)) \in Nat
        BY <1>1, <1>2, <4>1, FromIs
      <4> QED BY <3>2, <4>2
    <3> QED BY <3>1, <3>2
  <2> DEFINE rest == IF b = n THEN 0 ELSE Size(From(s, b + 1))
  <2>5. Size(From(s, b)) <= overlap + s[b].size - 1
    <3>1. Size(From(s, b)) = s[b].size + rest /\ rest <= overlap - 1 /\ rest \in Int
      BY <2>1, <2>2, <2>4
    <3> HIDE DEF rest
    <3> QED BY <2>3, <3>1
  <2> QED BY <1>8, <2>1, <2>5 DEF Within, r
<1> QED BY <1>5, <1>6, <1>7, <1>8

-----------------------------------------------------------------------------
(* The units a text is cut into.                                             *)

\* Division rounded up.
LEMMA Ceiling ==
  ASSUME NEW x \in Nat, NEW m \in Nat, m >= 1, NEW n, n = (x + m - 1) \div m
  PROVE  n \in Nat /\ n * m >= x /\ (n >= 1 => (n - 1) * m < x)
PROOF
<1>1. n \in Int /\ n * m <= x + m - 1 /\ x + m - 1 < (n + 1) * m
  OBVIOUS
<1>2. (n + 1) * m = n * m + m /\ (n - 1) * m = n * m - m
  BY <1>1
<1>3. n * m \in Int
  BY <1>1
<1>4. n * m >= x /\ (n - 1) * m < x
  BY <1>1, <1>2, <1>3
<1>5. n >= 0
  <2> SUFFICES ASSUME n < 0 PROVE FALSE
    BY <1>1
  <2>1. n + 1 <= 0 /\ n + 1 \in Int
    BY <1>1
  <2>2. (n + 1) * m <= 0
    BY <2>1
  <2> QED BY <1>1, <2>2
<1> QED BY <1>1, <1>4, <1>5

\* A piece of a word is a word of the same place.
LEMMA PieceIs ==
  ASSUME NEW A, NEW w \in WordsAt(A), NEW n \in Nat, NEW i \in Nat
  PROVE  Piece(w, i, n) \in WordsAt(A) /\ Piece(w, i, n).size = n
PROOF
<1>1. w \in Word /\ w.at \in A
  BY DEF WordsAt
<1>2. Piece(w, i, n) \in Word /\ Piece(w, i, n).at \in A /\ Piece(w, i, n).size = n
  BY <1>1 DEF Word, Piece
<1> QED BY <1>2 DEF WordsAt

\* A text of one word.
LEMMA OneIs ==
  ASSUME NEW A, NEW w \in WordsAt(A)
  PROVE  <<w>> \in TextsAt(A) /\ Size(<<w>>) = w.size /\ w.size \in Nat
PROOF
<1>1. \A v \in WordsAt(A) : v.size \in Nat
  BY SizesOfWords
<1>2. Size(<<w>>) = w.size
  BY <1>1, SizeOfOne
<1>3. <<w>> \in Seq(WordsAt(A)) /\ <<w>> # <<>>
  OBVIOUS
<1> QED BY <1>1, <1>2, <1>3 DEF TextsAt

\* The units that fit.
Fits(A, most) == {t \in TextsAt(A) : Size(t) <= most}

\* The pieces of a word fit.
LEMMA PiecesAre ==
  ASSUME NEW A, NEW w \in WordsAt(A), NEW most \in Nat, most >= 1
  PROVE  Pieces(w, most) \in Seq(Fits(A, most))
PROOF
<1> DEFINE n == (w.size + most - 1) \div most
<1> DEFINE size(i) == IF i < n THEN most ELSE w.size - (n - 1) * most
<1>1. w.size \in Nat
  BY SizesOfWords
<1>2. n \in Nat /\ n * most >= w.size /\ (n >= 1 => (n - 1) * most < w.size)
  BY <1>1, Ceiling
<1> HIDE DEF n
<1>3. ASSUME NEW i \in 1..n PROVE size(i) \in Nat /\ size(i) <= most
  <2>1. CASE i < n
    BY <2>1
  <2>2. CASE ~(i < n)
    <3>1. n >= 1 /\ n - 1 \in Nat
      BY <1>2
    <3>2. n * most = (n - 1) * most + most /\ (n - 1) * most \in Int
      BY <1>2
    <3> QED BY <1>1, <1>2, <2>2, <3>1, <3>2
  <2> QED BY <2>1, <2>2
<1>4. Pieces(w, most) = [i \in 1..n |-> <<Piece(w, i, size(i))>>]
  BY DEF Pieces, n
<1> HIDE DEF size
<1>5. ASSUME NEW i \in 1..n PROVE <<Piece(w, i, size(i))>> \in Fits(A, most)
  <2>1. i \in Nat
    BY <1>2
  <2>2. Piece(w, i, size(i)) \in WordsAt(A) /\ Piece(w, i, size(i)).size = size(i)
    BY <1>3, <2>1, PieceIs
  <2> DEFINE p == Piece(w, i, size(i))
  <2> HIDE DEF p
  <2>3. <<p>> \in TextsAt(A) /\ Size(<<p>>) = p.size
    BY <2>2, OneIs DEF p
  <2> QED BY <1>3, <2>2, <2>3 DEF Fits, p
<1> DEFINE piece(i) == <<Piece(w, i, size(i))>>
<1>6. \A i \in 1..n : piece(i) \in Fits(A, most)
  BY <1>5
<1>7. Pieces(w, most) = [i \in 1..n |-> piece(i)]
  BY <1>4
<1> HIDE DEF piece
<1> QED BY <1>2, <1>6, <1>7

\* What joins sequences that are not empty is not empty.
LEMMA FlattenSome ==
  ASSUME NEW T, NEW ss \in Seq(Seq(T)), ss # <<>>, \A i \in DOMAIN ss : ss[i] # <<>>
  PROVE  FlattenSeq(ss) \in Seq(T) /\ FlattenSeq(ss) # <<>>
PROOF
<1>1. FlattenSeq(ss) \in Seq(T) /\ ToSet(FlattenSeq(ss)) = UNION {ToSet(ss[i]) : i \in DOMAIN ss}
  BY FlattenHas
<1>2. 1 \in DOMAIN ss /\ ss[1] \in Seq(T) /\ ss[1] # <<>>
  OBVIOUS
<1>3. 1 \in DOMAIN ss[1]
  BY <1>2
<1>4. ss[1][1] \in ToSet(ss[1])
  BY <1>3 DEF ToSet
<1>5. ToSet(FlattenSeq(ss)) # {}
  BY <1>1, <1>2, <1>4
<1> QED BY <1>1, <1>5 DEF ToSet

\* Cutting what is too large once more gives texts, and single words at last.
LEMMA FinerIs ==
  ASSUME NEW A, NEW units \in Seq(TextsAt(A)), units # <<>>, NEW level, NEW most
  PROVE  /\ Finer(units, level, most) \in Seq(TextsAt(A)) /\ Finer(units, level, most) # <<>>
         /\ level = Space =>
              Finer(units, level, most) \in Seq({t \in TextsAt(A) : Size(t) <= most \/ Len(t) = 1})
PROOF
<1> DEFINE T == TextsAt(A)
<1> DEFINE U == {t \in T : Size(t) <= most \/ Len(t) = 1}
<1> DEFINE cut(i) == IF Size(units[i]) <= most THEN <<units[i]>> ELSE Parts(units[i], level)
<1> DEFINE ss == [i \in DOMAIN units |-> cut(i)]
<1>1. Finer(units, level, most) = FlattenSeq(ss)
  BY DEF Finer
<1>2. ASSUME NEW i \in DOMAIN units
      PROVE  cut(i) \in Seq(T) /\ cut(i) # <<>> /\ (level = Space => cut(i) \in Seq(U))
  <2>1. units[i] \in T
    OBVIOUS
  <2>2. CASE Size(units[i]) <= most
    <3>1. cut(i) = <<units[i]>>
      BY <2>2
    <3>2. units[i] \in U
      BY <2>1, <2>2
    <3> HIDE DEF U, T, cut
    <3> QED BY <2>1, <3>1, <3>2
  <2>3. CASE ~(Size(units[i]) <= most)
    <3>1. cut(i) = Parts(units[i], level)
      BY <2>3
    <3>2. units[i] \in Seq(WordsAt(A)) /\ units[i] # <<>>
      BY <2>1 DEF TextsAt
    <3>3. /\ Parts(units[i], level) \in Seq(Seq(WordsAt(A)) \ {<<>>}) /\ Parts(units[i], level) # <<>>
          /\ (\A j \in DOMAIN units[i] : units[i][j].end <= level) =>
                \A k \in DOMAIN Parts(units[i], level) : Len(Parts(units[i], level)[k]) = 1
      BY <3>2, PartsAre
    <3>4. cut(i) \in Seq(T) /\ cut(i) # <<>>
      BY <3>1, <3>3 DEF TextsAt
    <3>5. ASSUME level = Space PROVE cut(i) \in Seq(U)
      <4>1. \A j \in DOMAIN units[i] : units[i][j].end <= level
        BY <3>2, <3>5, SizesOfWords
      <4>2. \A k \in DOMAIN cut(i) : Len(cut(i)[k]) = 1
        BY <3>1, <3>3, <4>1
      <4>3. \A k \in DOMAIN cut(i) : cut(i)[k] \in T
        <5> HIDE DEF cut, T
        <5> QED BY <3>4
      <4>4. \A k \in DOMAIN cut(i) : cut(i)[k] \in U
        <5> HIDE DEF cut
        <5> QED BY <4>2, <4>3
      <4> HIDE DEF cut, U, T
      <4> QED BY <3>4, <4>4
    <3> HIDE DEF cut, U, T
    <3> QED BY <3>4, <3>5
  <2> HIDE DEF cut, U, T
  <2> QED BY <2>2, <2>3
<1>3. DOMAIN units = 1..Len(units) /\ Len(units) \in Nat /\ Len(units) >= 1
  OBVIOUS
<1> HIDE DEF cut, T, U
<1>4. ss \in Seq(Seq(T)) /\ ss # <<>> /\ \A i \in DOMAIN ss : ss[i] # <<>>
  BY <1>2, <1>3
<1>5. level = Space => ss \in Seq(Seq(U))
  BY <1>2, <1>3
<1> HIDE DEF ss
<1>6. FlattenSeq(ss) \in Seq(T) /\ FlattenSeq(ss) # <<>>
  BY <1>4, FlattenSome
<1>7. level = Space => FlattenSeq(ss) \in Seq(U)
  BY <1>5, FlattenHas
<1> QED BY <1>1, <1>6, <1>7 DEF T, U

\* A text is cut into units that fit.
LEMMA UnitsAre ==
  ASSUME NEW A, NEW text \in TextsAt(A), NEW most \in Nat, most >= 1
  PROVE  Units(text, most) \in Seq(Fits(A, most)) /\ Units(text, most) # <<>>
PROOF
<1> DEFINE T == TextsAt(A)
<1> DEFINE U == {t \in T : Size(t) <= most \/ Len(t) = 1}
<1> DEFINE paragraphs == Finer(<<text>>, Paragraph, most)
<1> DEFINE lines == Finer(paragraphs, Line, most)
<1> DEFINE stops == Finer(lines, Stop, most)
<1> DEFINE clauses == Finer(stops, Clause, most)
<1> DEFINE words == Finer(clauses, Space, most)
<1> DEFINE cut(i) == IF Size(words[i]) <= most THEN <<words[i]>> ELSE Pieces(words[i][1], most)
<1> DEFINE ss == [i \in DOMAIN words |-> cut(i)]
<1>1. Units(text, most) = FlattenSeq(ss)
  BY DEF Units
<1>2. <<text>> \in Seq(T) /\ <<text>> # <<>>
  OBVIOUS
<1> HIDE DEF words
<1>3. words \in Seq(U) /\ words # <<>>
  <2>1. paragraphs \in Seq(T) /\ paragraphs # <<>>
    BY <1>2, FinerIs
  <2> HIDE DEF paragraphs
  <2>2. lines \in Seq(T) /\ lines # <<>>
    BY <2>1, FinerIs
  <2> HIDE DEF lines
  <2>3. stops \in Seq(T) /\ stops # <<>>
    BY <2>2, FinerIs
  <2> HIDE DEF stops
  <2>4. clauses \in Seq(T) /\ clauses # <<>>
    BY <2>3, FinerIs
  <2> HIDE DEF clauses
  <2> QED BY <2>4, FinerIs DEF words
<1> DEFINE V == Fits(A, most)
<1>4. ASSUME NEW i \in DOMAIN words PROVE cut(i) \in Seq(V) /\ cut(i) # <<>>
  <2>1. words[i] \in U
    BY <1>3
  <2>2. CASE Size(words[i]) <= most
    <3>1. cut(i) = <<words[i]>>
      BY <2>2
    <3>2. words[i] \in V
      BY <2>1, <2>2 DEF Fits
    <3> HIDE DEF V, cut
    <3> QED BY <3>1, <3>2
  <2>3. CASE ~(Size(words[i]) <= most)
    <3>1. cut(i) = Pieces(words[i][1], most)
      BY <2>3
    <3> DEFINE t == words[i]
    <3>2. t \in Seq(WordsAt(A)) /\ Len(t) = 1
      BY <2>1, <2>3 DEF TextsAt
    <3> HIDE DEF t
    <3>3. t[1] \in WordsAt(A) /\ t = <<t[1]>>
      BY <3>2
    <3> DEFINE w == t[1]
    <3> HIDE DEF w
    <3>4. w \in WordsAt(A) /\ t = <<w>>
      BY <3>3 DEF w
    <3>5. w.size \in Nat /\ ~(w.size <= most)
      <4>1. Size(<<w>>) = w.size /\ w.size \in Nat
        BY <3>4, OneIs
      <4> QED BY <2>3, <3>4, <4>1 DEF t
    <3>6. Pieces(w, most) \in Seq(V)
      BY <3>4, PiecesAre
    <3>7. Pieces(w, most) # <<>>
      <4> DEFINE n == (w.size + most - 1) \div most
      <4>1. n \in Nat /\ n * most >= w.size
        BY <3>5, Ceiling
      <4>2. n # 0
        <5> SUFFICES ASSUME n = 0 PROVE FALSE
          OBVIOUS
        <5>1. 0 >= w.size
          BY <4>1
        <5> QED BY <3>5, <5>1
      <4>3. Pieces(w, most) = [k \in 1..n |-> <<Piece(w, k, IF k < n THEN most ELSE w.size - (n - 1) * most)>>]
        BY DEF Pieces
      <4> HIDE DEF n
      <4>4. 1 \in DOMAIN Pieces(w, most)
        BY <4>1, <4>2, <4>3
      <4> QED BY <3>6, <4>4
    <3> QED BY <3>1, <3>6, <3>7 DEF t, w
  <2> QED BY <2>2, <2>3
<1> HIDE DEF cut, V, U
<1>5. ss \in Seq(Seq(V)) /\ ss # <<>> /\ \A i \in DOMAIN ss : ss[i] # <<>>
  BY <1>3, <1>4
<1> HIDE DEF ss
<1> QED BY <1>1, <1>5, FlattenSome DEF V

-----------------------------------------------------------------------------
(* The packing of units, and what is made of a text.                         *)

Fillings(A, most) ==
  [out : Seq(FitTexts(A, most)), cur : FitTexts(A, most) \cup {<<>>}]

\* What fits without an overlap fits.
LEMMA FitsWithin ==
  ASSUME NEW A, NEW most \in Nat, NEW t \in TextsAt(A), Size(t) <= most
  PROVE  t \in FitTexts(A, most)
PROOF
<1>1. Size(t) \in Nat
  BY SizesOfWords, SizeAdds DEF TextsAt
<1>2. (3 * Overlap) \div 10 \in Nat
  BY ChunkingAssumption
<1> QED BY <1>1, <1>2 DEF FitTexts, Within

\* A unit put behind what was gathered leaves all that is out, and gathered, fitting.
LEMMA PutIs ==
  ASSUME NEW A, NEW most \in Nat, NEW room \in Nat, NEW overlap \in Nat, overlap <= Overlap, room + overlap <= most,
         NEW p \in Fillings(A, most), NEW u \in Fits(A, room)
  PROVE  Put(p, u, most, overlap) \in Fillings(A, most) /\ Put(p, u, most, overlap).cur # <<>>
PROOF
<1> DEFINE T == WordsAt(A)
<1> DEFINE F == FitTexts(A, most)
<1> DEFINE q == Put(p, u, most, overlap)
<1>1. /\ u \in TextsAt(A) /\ u \in Seq(T) /\ u # <<>> /\ Size(u) \in Nat /\ Size(u) <= room
      /\ \A w \in T : w.size \in Nat
  BY SizesOfWords, SizeAdds DEF TextsAt, Fits
<1>2. p.out \in Seq(F) /\ p.cur \in F \cup {<<>>}
  BY DEF Fillings
<1>3. p.cur \in Seq(T)
  <2>1. CASE p.cur \in F
    BY <2>1 DEF FitTexts, TextsAt
  <2>2. CASE p.cur = <<>>
    BY <2>2
  <2> HIDE DEF F
  <2> QED BY <1>2, <2>1, <2>2
<1>4. CASE p.cur # <<>> /\ Size(p.cur \o u) > most
  <2> DEFINE o == OverlapPrefix(p.cur, overlap)
  <2>1. q = [out |-> Append(p.out, p.cur), cur |-> o \o u]
    BY <1>4 DEF Put
  <2>2. p.cur \in F /\ p.cur \in TextsAt(A)
    BY <1>2, <1>4 DEF FitTexts
  <2>3. o \in Seq(T) /\ Within(o, overlap)
    BY <2>2, OverlapPrefixIs
  <2> HIDE DEF o
  <2>4. o \o u \in Seq(T) /\ ToSet(o \o u) = ToSet(o) \cup ToSet(u)
    BY <1>1, <2>3, JoinHas
  <2>5. Size(o \o u) = Size(o) + Size(u) /\ Size(o) \in Nat
    BY <1>1, <2>3, SizeAdds
  <2>6. o \o u # <<>>
    BY <1>1, <2>3
  <2>7. Within(o \o u, most)
    <3>1. CASE Size(o) <= overlap + (3 * Overlap) \div 10
      <4> DEFINE x == (3 * Overlap) \div 10
      <4>1. x \in Nat /\ Size(o) <= overlap + x
        BY <3>1, ChunkingAssumption
      <4> HIDE DEF x
      <4>2. Size(o \o u) <= most + x
        BY <1>1, <2>5, <4>1
      <4> QED BY <4>2 DEF Within, x
    <3>2. CASE \E w \in ToSet(o) : Size(o) <= overlap + w.size - 1
      <4>1. PICK w \in ToSet(o) : Size(o) <= overlap + w.size - 1
        BY <3>2
      <4>2. w \in T
        BY <2>3, <4>1 DEF ToSet
      <4>3. Size(o \o u) <= most + w.size - 1
        BY <1>1, <2>5, <4>1, <4>2
      <4> QED BY <2>4, <4>1, <4>3 DEF Within
    <3> QED BY <2>3, <3>1, <3>2 DEF Within
  <2>8. o \o u \in F
    BY <2>4, <2>6, <2>7 DEF FitTexts, TextsAt
  <2> HIDE DEF q, F
  <2>9. Append(p.out, p.cur) \in Seq(F)
    BY <1>2, <2>2
  <2>10. [out |-> Append(p.out, p.cur), cur |-> o \o u] \in Fillings(A, most)
    BY <2>8, <2>9 DEF Fillings, F
  <2> QED BY <2>1, <2>6, <2>10 DEF q
<1>5. CASE ~(p.cur # <<>> /\ Size(p.cur \o u) > most)
  <2>1. q = [out |-> p.out, cur |-> p.cur \o u]
    BY <1>5 DEF Put
  <2>2. p.cur \o u \in Seq(T) /\ p.cur \o u # <<>>
    BY <1>1, <1>3
  <2>3. Size(p.cur \o u) <= most
    <3>1. Size(p.cur \o u) \in Nat
      BY <1>1, <2>2, SizeAdds
    <3>2. CASE p.cur = <<>>
      <4>1. p.cur \o u = u
        BY <1>1, <3>2
      <4> QED BY <1>1, <4>1
    <3> QED BY <1>5, <3>1, <3>2
  <2>4. p.cur \o u \in F
    BY <2>2, <2>3, FitsWithin DEF TextsAt
  <2> HIDE DEF q, F
  <2>5. [out |-> p.out, cur |-> p.cur \o u] \in Fillings(A, most)
    BY <1>2, <2>4 DEF Fillings, F
  <2> QED BY <2>1, <2>2, <2>5 DEF q
<1> QED BY <1>4, <1>5

\* The fillings a text goes through, unit by unit.
Filling(put, units, most, overlap) ==
  /\ put[0] = [out |-> <<>>, cur |-> <<>>]
  /\ \A i \in 1..Len(units) : put[i] = Put(put[i - 1], units[i], most, overlap)
  /\ Filled(units, most, overlap) = Append(put[Len(units)].out, put[Len(units)].cur)
FillingsFit(put, A, n, most) == (\A i \in 0..n : put[i] \in Fillings(A, most)) /\ put[n].cur # <<>>

\* So every filling fits.
LEMMA FillingIs ==
  ASSUME NEW A, NEW most \in Nat, NEW room \in Nat, NEW overlap \in Nat, overlap <= Overlap, room + overlap <= most,
         NEW units \in Seq(Fits(A, room)), units # <<>>
  PROVE  \E put : Filling(put, units, most, overlap) /\ FillingsFit(put, A, Len(units), most)
PROOF
<1> DEFINE P == Fillings(A, most)
<1> DEFINE n == Len(units)
<1> DEFINE none == [out |-> <<>>, cur |-> <<>>]
<1> DEFINE Is(g) == g = [i \in 0..n |-> IF i = 0 THEN none ELSE Put(g[i - 1], units[i], most, overlap)]
<1>1. n \in Nat /\ n >= 1 /\ \A i \in 1..n : units[i] \in Fits(A, room)
  OBVIOUS
<1>2. none \in P
  BY DEF Fillings
<1> HIDE DEF n
<1>3. \E g \in [0..n -> P] : Is(g)
  <2> DEFINE step == [p \in (1..n) \X P |-> Put(p[2], units[p[1]], most, overlap)]
  <2>1. step \in [(1..n) \X P -> P]
    <3> SUFFICES ASSUME NEW i \in 1..n, NEW p \in P PROVE Put(p, units[i], most, overlap) \in P
      BY Zenon
    <3>1. units[i] \in Fits(A, room)
      BY <1>1
    <3> QED BY <3>1, PutIs
  <2>2. \A i \in 1..n, p \in P : step[<<i, p>>] = Put(p, units[i], most, overlap)
    OBVIOUS
  <2> HIDE DEF step, P, none
  <2>3. PICK g \in [0..n -> P] : g[0] = none /\ \A i \in 1..n : g[i] = step[<<i, g[i - 1]>>]
    <3>1. Steps(n, P, none, step) # {}
      BY <1>1, <1>2, <2>1, Repeats
    <3> QED BY <3>1 DEF Steps
  <2>4. \A i \in 1..n : g[i] = Put(g[i - 1], units[i], most, overlap)
    <3> SUFFICES ASSUME NEW i \in 1..n PROVE g[i] = Put(g[i - 1], units[i], most, overlap)
      OBVIOUS
    <3>1. i - 1 \in 0..n
      BY <1>1
    <3> QED BY <2>2, <2>3, <3>1
  <2>5. Is(g)
    BY <1>1, <2>3, <2>4
  <2> QED BY <2>5
<1> DEFINE put == CHOOSE g : Is(g)
<1>4. Is(put)
  <2>1. \E g : Is(g)
    BY <1>3
  <2> HIDE DEF Is
  <2> QED BY <2>1
<1>5. Filled(units, most, overlap) = Append(put[n].out, put[n].cur)
  BY DEF Filled, n
<1>6. put[0] = none /\ \A i \in 1..n : put[i] = Put(put[i - 1], units[i], most, overlap)
  <2> HIDE DEF put, none
  <2>1. \A i \in 0..n : put[i] = IF i = 0 THEN none ELSE Put(put[i - 1], units[i], most, overlap)
    BY <1>4, Zenon
  <2>2. 0 \in 0..n /\ \A i \in 1..n : i \in 0..n /\ i # 0
    BY <1>1
  <2> QED BY <2>1, <2>2, Zenon
<1> HIDE DEF put, P, none, Is
<1>7. \A i \in Nat : i <= n => put[i] \in P
  <2> DEFINE S == {i \in Nat : i <= n => put[i] \in P}
  <2>1. 0 \in S
    BY <1>2, <1>6
  <2>2. ASSUME NEW i \in Nat, i \in S PROVE i + 1 \in S
    <3> SUFFICES ASSUME i + 1 <= n PROVE put[i + 1] \in P
      OBVIOUS
    <3>1. put[i] \in P /\ i + 1 \in 1..n /\ (i + 1) - 1 = i
      BY <1>1, <2>2
    <3>2. put[i + 1] = Put(put[i], units[i + 1], most, overlap)
      BY <1>6, <3>1
    <3>3. units[i + 1] \in Fits(A, room)
      BY <1>1, <3>1
    <3> QED BY <3>1, <3>2, <3>3, PutIs DEF P
  <2>3. Nat \subseteq S
    <3> HIDE DEF S
    <3> QED BY <2>1, <2>2, NatInduct
  <2> QED BY <2>3
<1>8. put[n] \in P /\ put[n].cur # <<>>
  <2>1. n - 1 \in Nat /\ n - 1 <= n /\ n \in 1..n
    BY <1>1
  <2>2. put[n - 1] \in P /\ put[n] = Put(put[n - 1], units[n], most, overlap)
    BY <1>6, <1>7, <2>1
  <2>3. units[n] \in Fits(A, room)
    BY <1>1, <2>1
  <2> QED BY <2>2, <2>3, PutIs DEF P
<1>9. Filling(put, units, most, overlap)
  BY <1>5, <1>6 DEF Filling, n, none
<1>10. FillingsFit(put, A, n, most)
  <2>1. \A i \in 0..n : i \in Nat /\ i <= n
    BY <1>1
  <2> QED BY <1>7, <1>8, <2>1 DEF FillingsFit, P
<1> QED BY <1>9, <1>10 DEF n

\* And so does the last of them.
LEMMA FilledIs ==
  ASSUME NEW A, NEW most \in Nat, NEW room \in Nat, NEW overlap \in Nat, overlap <= Overlap, room + overlap <= most,
         NEW units \in Seq(Fits(A, room)), units # <<>>
  PROVE  Filled(units, most, overlap) \in Seq(FitTexts(A, most))
PROOF
<1> DEFINE n == Len(units)
<1>1. PICK put : Filling(put, units, most, overlap) /\ FillingsFit(put, A, n, most)
  BY FillingIs
<1>2. n \in 0..n
  OBVIOUS
<1> HIDE DEF n
<1>3. put[n].out \in Seq(FitTexts(A, most)) /\ put[n].cur \in FitTexts(A, most)
  BY <1>1, <1>2 DEF FillingsFit, Fillings
<1>4. Filled(units, most, overlap) = Append(put[n].out, put[n].cur)
  BY <1>1 DEF Filling, n
<1> QED BY <1>3, <1>4

\* The units and the overlap have room together: half and a quarter of the budget.
LEMMA Quarter ==
  ASSUME NEW most \in Nat, NEW o \in Nat, o <= most \div 4
  PROVE  /\ Most(most - o, most \div 2) \in Nat /\ Most(most - o, most \div 2) + o <= most
         /\ most >= 2 => Most(most - o, most \div 2) >= 1
PROOF
<1> DEFINE q == most \div 4
<1> DEFINE h == most \div 2
<1>1. q \in Nat /\ 4 * q <= most
  OBVIOUS
<1>2. h \in Nat /\ 2 * h <= most /\ most < 2 * h + 2
  OBVIOUS
<1> HIDE DEF q, h
<1>3. most - o >= h
  BY <1>1, <1>2 DEF q
<1>4. Most(most - o, h) = most - o
  BY <1>3 DEF Most
<1>5. most >= 2 => h >= 1
  BY <1>2
<1> QED BY <1>2, <1>3, <1>4, <1>5 DEF h

\* What a text is split into fits, if for an overlap or a last word that is too long.
LEMMA SplitsAre ==
  ASSUME NEW A, NEW text \in Seq(WordsAt(A)), NEW most \in Nat, most >= 2
  PROVE  Splits(text, most) \in Seq(FitTexts(A, most))
PROOF
<1> DEFINE overlap == EffectiveOverlap(most)
<1> DEFINE room == Most(most - overlap, most \div 2)
<1>1. CASE text = <<>>
  <2>1. Splits(text, most) = <<>>
    BY <1>1 DEF Splits
  <2> QED BY <2>1
<1>2. CASE text # <<>> /\ Size(text) <= most
  <2>1. Splits(text, most) = <<text>>
    BY <1>2 DEF Splits
  <2>2. text \in FitTexts(A, most)
    BY <1>2, FitsWithin DEF TextsAt
  <2> QED BY <2>1, <2>2
<1>3. CASE text # <<>> /\ ~(Size(text) <= most)
  <2>1. Splits(text, most) = Filled(Units(text, room), most, overlap)
    BY <1>3 DEF Splits
  <2>2. most \div 4 \in Nat
    OBVIOUS
  <2>3. overlap \in Nat /\ overlap <= Overlap /\ overlap <= most \div 4
    BY <2>2, ChunkingAssumption DEF EffectiveOverlap, Least
  <2> HIDE DEF overlap
  <2>4. room \in Nat /\ room + overlap <= most /\ room >= 1
    BY <2>3, Quarter
  <2> HIDE DEF room
  <2>5. Units(text, room) \in Seq(Fits(A, room)) /\ Units(text, room) # <<>>
    BY <1>3, <2>4, UnitsAre DEF TextsAt
  <2> QED BY <2>1, <2>3, <2>4, <2>5, FilledIs
<1> QED BY <1>1, <1>2, <1>3

-----------------------------------------------------------------------------
(* The parts of a table.                                                     *)

\* What a row is put with: others whose tokens fit beside it, or none if it was cut.
PartPacks(A, room) == {s \in TextsAt(A) : Reckoned(s) <= room \/ (Len(s) = 1 /\ CutRow(s[1]))}
RowFillings(A, room) == [out : Seq(PartPacks(A, room)), cur : PartPacks(A, room) \cup {<<>>}]

\* The parts of a table: a row takes less than a token more than it is counted.
PartSizes(s, most, wide) ==
  \/ Len(s) <= 2 \/ TokensOf(Size(s)) <= most + (Len(s) - 2)
  \/ Len(s) = 3 /\ CutRow(s[3])
  \/ wide /\ TokensOf(Size(s)) <= 2 * most
FitTables(A, most, wide) ==
  {s \in Seq(WordsAt(A \cup {Nowhere})) : (s # <<>> => s[Len(s)].at \in A) /\ PartSizes(s, most, wide)}

\* TokensOf are rounded down, and there is at least one.
LEMMA TokensAre ==
  ASSUME NEW n \in Nat
  PROVE  /\ TokensOf(n) \in Nat /\ TokensOf(n) >= 1 /\ n <= 380 * TokensOf(n) + 379
         /\ \A k \in Nat \ {0} : n < 380 * (k + 1) => TokensOf(n) <= k
PROOF
<1> DEFINE t == n \div 380
<1>1. t \in Nat /\ 380 * t <= n /\ n <= 380 * t + 379
  OBVIOUS
<1>2. TokensOf(n) = IF t >= 1 THEN t ELSE 1
  BY DEF TokensOf, Most, TokenParts
<1> HIDE DEF t
<1> QED BY <1>1, <1>2

\* The characters of a line, rounded up.
LEMMA CharsAre ==
  ASSUME NEW w \in Word
  PROVE  /\ CharOf(w) \in {100, 247} /\ CharsIn(w) \in Nat
         /\ w.size \in Nat /\ w.size <= 247 * CharsIn(w)
PROOF
<1>1. w.size \in Nat /\ CharOf(w) \in {100, 247}
  BY DEF Word, CharOf, CharParts, DenseCharParts
<1>2. CASE CharOf(w) = 100
  <2>1. CharsIn(w) = (w.size + 99) \div 100
    BY <1>1, <1>2 DEF CharsIn
  <2> QED BY <1>1, <2>1
<1>3. CASE CharOf(w) = 247
  <2>1. CharsIn(w) = (w.size + 246) \div 247
    BY <1>1, <1>3 DEF CharsIn
  <2> QED BY <1>1, <2>1
<1> QED BY <1>1, <1>2, <1>3

\* A line cut to some characters is a line from the same place.
LEMMA ShortenedIs ==
  ASSUME NEW A, NEW w \in WordsAt(A), NEW n \in Nat
  PROVE  /\ Shortened(w, n) \in WordsAt(A) /\ Shortened(w, n).at = w.at
         /\ Shortened(w, n).piece = 1 /\ CharOf(Shortened(w, n)) = CharOf(w)
         /\ Shortened(w, n).size = CharOf(w) * n /\ Shortened(w, n).size <= 247 * n
PROOF
<1>1. w \in Word /\ w.at \in A
  BY DEF WordsAt
<1> DEFINE m == CharOf(w) * n
<1>2. m \in Nat /\ m <= 247 * n
  <2>1. CharOf(w) = 100 \/ CharOf(w) = 247
    BY <1>1, CharsAre
  <2> QED BY <2>1
<1> DEFINE v == [at |-> w.at, size |-> m, end |-> w.end, piece |-> 1, kind |-> w.kind]
<1>3. Shortened(w, n) = v
  BY DEF Shortened, Piece
<1> HIDE DEF m
<1>5. v \in Word /\ v.at = w.at /\ v.piece = 1 /\ v.size = m /\ v.kind = w.kind
  BY <1>1, <1>2 DEF Word
<1> HIDE DEF v
<1>7. CharOf(v) = CharOf(w)
  BY <1>5 DEF CharOf
<1>8. v \in WordsAt(A)
  BY <1>1, <1>5 DEF WordsAt
<1> QED BY <1>2, <1>3, <1>5, <1>7, <1>8 DEF m

\* A row that fits stays as it is, and another is cut.
LEMMA FittedIs ==
  ASSUME NEW A, NEW row \in WordsAt(A), NEW room \in Nat, room <= MaxTokens
  PROVE  /\ Fitted(row, room) \in WordsAt(A) /\ Fitted(row, room).at = row.at
         /\ TokensOf(Fitted(row, room).size) <= room \/ CutRow(Fitted(row, room))
         /\ TokensOf(row.size) <= room => Fitted(row, room) = row
PROOF
<1>1. row \in Word /\ row.size \in Nat /\ CharsIn(row) \in Nat
  BY CharsAre DEF WordsAt
<1>2. CASE TokensOf(row.size) <= room
  BY <1>2 DEF Fitted
<1>3. CASE ~(TokensOf(row.size) <= room)
  <2> DEFINE k == Most(3 * room, RowFloor)
  <2> DEFINE l == Most(3 * MaxTokens, RowFloor)
  <2> DEFINE n == Least(CharsIn(row), k) + 7
  <2>1. k \in Nat /\ l \in Nat /\ k <= l
    BY ChunkingAssumption DEF Most
  <2> HIDE DEF k, l
  <2>2. n \in Nat /\ n <= l + 7
    BY <1>1, <2>1 DEF Least
  <2>3. Fitted(row, room) = Shortened(row, n)
    BY <1>3 DEF Fitted, k, RowTail
  <2> HIDE DEF n
  <2>4. /\ Shortened(row, n) \in WordsAt(A) /\ Shortened(row, n).at = row.at
        /\ Shortened(row, n).piece = 1 /\ CharOf(Shortened(row, n)) = CharOf(row)
        /\ Shortened(row, n).size = CharOf(row) * n
    BY <2>2, ShortenedIs
  <2>5. CharOf(row) * n <= CharOf(row) * (l + 7)
    <3>1. CharOf(row) = 100 \/ CharOf(row) = 247
      BY <1>1, CharsAre
    <3>2. 100 * n <= 100 * (l + 7) /\ 247 * n <= 247 * (l + 7)
      BY <2>1, <2>2
    <3> QED BY <3>1, <3>2
  <2>6. CutRow(Shortened(row, n))
    BY <2>4, <2>5 DEF CutRow, l, RowTail
  <2> QED BY <1>3, <2>3, <2>4, <2>6
<1> QED BY <1>2, <1>3

\* Rows are counted one by one.
LEMMA ReckonedAdds ==
  ASSUME NEW A, NEW s \in Seq(WordsAt(A)), NEW w \in WordsAt(A)
  PROVE  /\ Reckoned(s) \in Nat /\ Reckoned(Append(s, w)) = Reckoned(s) + TokensOf(w.size)
         /\ Reckoned(<<w>>) = TokensOf(w.size)
PROOF
<1> DEFINE R == [size : Nat]
<1> DEFINE T == WordsAt(A)
<1> DEFINE n == Len(s)
<1> DEFINE r == [size |-> TokensOf(w.size)]
<1> DEFINE a == [i \in DOMAIN s |-> [size |-> TokensOf(s[i].size)]]
<1> DEFINE u == Append(s, w)
<1> DEFINE b == [i \in DOMAIN u |-> [size |-> TokensOf(u[i].size)]]
<1> DEFINE one == <<w>>
<1> DEFINE c == [i \in DOMAIN one |-> [size |-> TokensOf(one[i].size)]]
<1>1. \A x \in T : x.size \in Nat /\ TokensOf(x.size) \in Nat
  BY SizesOfWords, TokensAre
<1>2. r \in R /\ (\A x \in R : x.size \in Nat) /\ r.size = TokensOf(w.size)
  BY <1>1
<1>3. n \in Nat /\ DOMAIN s = 1..n /\ (\A i \in 1..n : s[i] \in T) /\ s \in Seq(T)
  OBVIOUS
<1>4. /\ DOMAIN u = 1..(n + 1) /\ u[n + 1] = w /\ \A i \in 1..n : u[i] = s[i]
      /\ DOMAIN one = 1..1 /\ one[1] = w
  BY <1>3
<1>5. a \in Seq(R) /\ Len(a) = n
  <2>1. \A i \in 1..n : a[i] \in R
    BY <1>1, <1>3
  <2>2. a = [i \in 1..n |-> a[i]]
    BY <1>3
  <2> HIDE DEF a, R, n
  <2>3. a \in [1..n -> R]
    BY <2>1, <2>2
  <2> QED BY <1>3, <2>3
<1>6. \A i \in 1..n : a[i] = [size |-> TokensOf(s[i].size)]
  BY <1>3
<1>7. DOMAIN b = 1..(n + 1) /\ (\A i \in 1..n : b[i] = a[i]) /\ b[n + 1] = r
  <2>1. \A i \in 1..(n + 1) : b[i] = [size |-> TokensOf(u[i].size)]
    BY <1>4
  <2> HIDE DEF b, a, u, n
  <2>2. \A i \in 1..n : i \in 1..(n + 1)
    BY <1>3
  <2>3. n + 1 \in 1..(n + 1)
    BY <1>3
  <2>4. \A i \in 1..n : b[i] = a[i]
    BY <1>4, <1>6, <2>1, <2>2
  <2>5. b[n + 1] = r
    BY <1>4, <2>1, <2>3
  <2> QED BY <1>4, <2>4, <2>5 DEF b
<1>8. b = [i \in 1..(n + 1) |-> b[i]]
  BY <1>4
<1>9. c = <<r>>
  <2>1. DOMAIN c = 1..1 /\ c[1] = r /\ c = [i \in 1..1 |-> c[i]]
    BY <1>4
  <2> HIDE DEF c, r
  <2> QED BY <2>1
<1>10. b = a \o <<r>>
  <2> HIDE DEF a, b, r, R, n
  <2> DEFINE d == a \o <<r>>
  <2>1. <<r>> \in Seq(R) /\ Len(<<r>>) = 1 /\ <<r>>[1] = r
    BY <1>2
  <2>2. d \in Seq(R) /\ Len(d) = n + 1 /\ (\A i \in 1..n : d[i] = a[i]) /\ d[n + 1] = r
    BY <1>3, <1>5, <2>1
  <2>3. \A i \in 1..(n + 1) : i \in 1..n \/ i = n + 1
    BY <1>3
  <2>4. \A i \in 1..(n + 1) : b[i] = d[i]
    BY <1>7, <2>2, <2>3
  <2>5. b \in Seq(R) /\ Len(b) = n + 1
    <3>1. \A i \in 1..(n + 1) : b[i] \in R
      BY <1>2, <1>5, <1>7, <2>3
    <3>2. b \in [1..(n + 1) -> R] /\ n + 1 \in Nat
      BY <1>3, <1>8, <3>1
    <3> QED BY <3>2
  <2> HIDE DEF d
  <2>6. b = d
    BY <2>2, <2>4, <2>5, SameSeq
  <2> QED BY <2>6 DEF d
<1>11. Reckoned(s) = Size(a) /\ Reckoned(u) = Size(b) /\ Reckoned(one) = Size(c)
  BY DEF Reckoned
<1> HIDE DEF a, b, c, r, R, u, one
<1>12. Size(<<r>>) = r.size /\ <<r>> \in Seq(R)
  BY <1>2, SizeOfOne
<1>13. Size(a) \in Nat /\ Size(a \o <<r>>) = Size(a) + Size(<<r>>)
  BY <1>2, <1>5, <1>12, SizeAdds
<1> QED BY <1>2, <1>9, <1>10, <1>11, <1>12, <1>13 DEF u, one

\* Each row takes less than a token more than it is counted.
LEMMA ReckonedIs ==
  ASSUME NEW A, NEW s \in Seq(WordsAt(A))
  PROVE  Size(s) \in Nat /\ Reckoned(s) \in Nat /\ Size(s) <= 380 * Reckoned(s) + 379 * Len(s)
PROOF
<1> DEFINE R == [size : Nat]
<1> DEFINE T == WordsAt(A)
<1> DEFINE n == Len(s)
<1> DEFINE a == [i \in DOMAIN s |-> [size |-> TokensOf(s[i].size)]]
<1>1. \A x \in T : x.size \in Nat /\ TokensOf(x.size) \in Nat /\ x.size <= 380 * TokensOf(x.size) + 379
  BY SizesOfWords, TokensAre
<1>2. n \in Nat /\ DOMAIN s = 1..n /\ (\A i \in 1..n : s[i] \in T) /\ s \in Seq(T)
  OBVIOUS
<1>3. \A i \in 1..n : a[i] \in R /\ a[i].size = TokensOf(s[i].size)
  BY <1>1, <1>2
<1>4. a \in Seq(R) /\ Len(a) = n /\ \A x \in R : x.size \in Nat
  <2>1. a = [i \in 1..n |-> a[i]]
    BY <1>2
  <2>2. \A x \in R : x.size \in Nat
    OBVIOUS
  <2> HIDE DEF a, n, R
  <2>3. a \in [1..n -> R]
    BY <1>3, <2>1
  <2> QED BY <1>2, <2>2, <2>3
<1>5. Reckoned(s) = Size(a)
  BY DEF Reckoned
<1> HIDE DEF a, R
<1>6. PICK f \in [0..n -> Nat] : f[0] = 0 /\ f[n] = Size(s) /\ \A i \in 1..n : f[i] = f[i - 1] + s[i].size
  BY <1>1, <1>2, SizesAre
<1> HIDE DEF n
<1>7. PICK g \in [0..Len(a) -> Nat] : g[0] = 0 /\ g[Len(a)] = Size(a) /\ \A i \in 1..Len(a) : g[i] = g[i - 1] + a[i].size
  BY <1>4, SizesAre
<1>8. \A i \in Nat : i <= n => f[i] <= 380 * g[i] + 379 * i
  <2> DEFINE S == {i \in Nat : i <= n => f[i] <= 380 * g[i] + 379 * i}
  <2>1. 0 \in S
    BY <1>6, <1>7
  <2>2. ASSUME NEW i \in Nat, i \in S PROVE i + 1 \in S
    <3> SUFFICES ASSUME i + 1 <= n PROVE f[i + 1] <= 380 * g[i + 1] + 379 * (i + 1)
      OBVIOUS
    <3>1. i + 1 \in 1..n /\ (i + 1) - 1 = i /\ i <= n /\ i \in 0..n
      BY <1>2
    <3>2. f[i + 1] = f[i] + s[i + 1].size /\ g[i + 1] = g[i] + a[i + 1].size
      BY <1>4, <1>6, <1>7, <3>1
    <3>3. f[i] \in Nat /\ g[i] \in Nat /\ f[i] <= 380 * g[i] + 379 * i
      BY <1>4, <1>6, <1>7, <2>2, <3>1
    <3>4. s[i + 1].size \in Nat /\ a[i + 1].size \in Nat /\ s[i + 1].size <= 380 * a[i + 1].size + 379
      <4>1. s[i + 1] \in T /\ a[i + 1].size = TokensOf(s[i + 1].size)
        BY <1>2, <1>3, <3>1
      <4> HIDE DEF T
      <4> QED BY <1>1, <4>1
    <3>5. 379 * (i + 1) = 379 * i + 379 /\ 379 * i \in Nat
      OBVIOUS
    <3> DEFINE x == f[i]
    <3> DEFINE y == g[i]
    <3> DEFINE v == s[i + 1].size
    <3> DEFINE w == a[i + 1].size
    <3>6. x \in Nat /\ y \in Nat /\ v \in Nat /\ w \in Nat /\ x <= 380 * y + 379 * i /\ v <= 380 * w + 379
      BY <3>3, <3>4
    <3>7. f[i + 1] = x + v /\ g[i + 1] = y + w
      BY <3>2
    <3> HIDE DEF x, y, v, w
    <3>8. x + v <= 380 * (y + w) + 379 * (i + 1)
      BY <3>5, <3>6
    <3> QED BY <3>7, <3>8
  <2>3. Nat \subseteq S
    <3> HIDE DEF S
    <3> QED BY <2>1, <2>2, NatInduct
  <2> QED BY <2>3
<1>9. f[n] = Size(s) /\ g[n] = Size(a) /\ f[n] \in Nat /\ g[n] \in Nat
  <2>1. n \in 0..n
    BY <1>2
  <2> QED BY <1>4, <1>6, <1>7, <2>1
<1>10. f[n] <= 380 * g[n] + 379 * n
  BY <1>2, <1>8
<1> QED BY <1>5, <1>9, <1>10 DEF n

\* A row put behind others leaves the parts of a table fitting.
LEMMA PutRowIs ==
  ASSUME NEW A, NEW room \in Nat, NEW p \in RowFillings(A, room),
         NEW row \in WordsAt(A), TokensOf(row.size) <= room \/ CutRow(row)
  PROVE  PutRow(p, row, room) \in RowFillings(A, room) /\ PutRow(p, row, room).cur # <<>>
PROOF
<1> DEFINE T == WordsAt(A)
<1> DEFINE F == PartPacks(A, room)
<1> DEFINE q == PutRow(p, row, room)
<1>1. p.out \in Seq(F) /\ p.cur \in F \cup {<<>>}
  BY DEF RowFillings
<1>2. ASSUME NEW s \in Seq(T), Reckoned(s) + TokensOf(row.size) <= room PROVE Append(s, row) \in F
  <2>1. Append(s, row) \in Seq(T) /\ Append(s, row) # <<>>
    <3> HIDE DEF T
    <3>1. row \in T
      BY DEF T
    <3>2. Append(s, row) \in Seq(T) /\ Len(Append(s, row)) = Len(s) + 1 /\ Len(s) \in Nat
      BY <1>2, <3>1
    <3> QED BY <3>2
  <2>2. Reckoned(Append(s, row)) <= room
    BY <1>2, ReckonedAdds
  <2> QED BY <2>1, <2>2 DEF PartPacks, TextsAt
<1>3. <<row>> \in F
  <2>1. <<row>> \in Seq(T) /\ <<row>> # <<>> /\ Len(<<row>>) = 1 /\ <<row>>[1] = row
    OBVIOUS
  <2>2. <<>> \in Seq(T)
    OBVIOUS
  <2>3. Reckoned(<<row>>) = TokensOf(row.size)
    BY <2>2, ReckonedAdds
  <2> QED BY <2>1, <2>3 DEF PartPacks, TextsAt
<1>4. ASSUME NEW cur \in F PROVE cur \in Seq(T) /\ cur # <<>> /\ Last(cur) \in T
  BY <1>4 DEF PartPacks, TextsAt, Last
<1>5. CASE Reckoned(p.cur) + TokensOf(row.size) > room /\ p.cur # <<>>
  <2> DEFINE again == Again(p.cur, row, room)
  <2>1. q = [out |-> Append(p.out, p.cur), cur |-> Append(again, row)]
    BY <1>5 DEF PutRow
  <2>2. p.cur \in F /\ Last(p.cur) \in T
    BY <1>1, <1>4, <1>5
  <2>3. Append(again, row) \in F /\ Append(again, row) # <<>>
    <3> DEFINE w == Last(p.cur)
    <3>1. CASE TokensOf(w.size) + TokensOf(row.size) <= room
      <4>1. again = <<w>>
        BY <3>1 DEF Again
      <4>2. <<w>> \in Seq(T) /\ Reckoned(<<w>>) = TokensOf(w.size)
        <5>1. <<>> \in Seq(T) /\ <<w>> \in Seq(T)
          BY <2>2
        <5> QED BY <2>2, <5>1, ReckonedAdds
      <4> HIDE DEF w, F, again
      <4>3. Append(<<w>>, row) \in F
        BY <1>2, <3>1, <4>2
      <4>4. Append(<<w>>, row) # <<>>
        BY <1>4, <4>3
      <4> QED BY <4>1, <4>3, <4>4
    <3>2. CASE ~(TokensOf(w.size) + TokensOf(row.size) <= room)
      <4>1. again = <<>>
        BY <3>2 DEF Again
      <4>2. Append(<<>>, row) = <<row>>
        OBVIOUS
      <4> HIDE DEF F, again
      <4> QED BY <1>3, <1>4, <4>1, <4>2
    <3> QED BY <3>1, <3>2
  <2> HIDE DEF again, F, q
  <2>4. Append(p.out, p.cur) \in Seq(F)
    BY <1>1, <2>2
  <2>5. [out |-> Append(p.out, p.cur), cur |-> Append(again, row)] \in RowFillings(A, room)
    BY <2>3, <2>4 DEF RowFillings, F
  <2> QED BY <2>1, <2>3, <2>5 DEF q
<1>6. CASE ~(Reckoned(p.cur) + TokensOf(row.size) > room /\ p.cur # <<>>)
  <2>1. q = [out |-> p.out, cur |-> Append(p.cur, row)]
    BY <1>6 DEF PutRow
  <2>2. Append(p.cur, row) \in F /\ Append(p.cur, row) # <<>>
    <3>1. CASE p.cur = <<>>
      <4>1. Append(p.cur, row) = <<row>>
        BY <3>1
      <4> HIDE DEF F
      <4> QED BY <1>3, <1>4, <4>1
    <3>2. CASE p.cur # <<>>
      <4>1. p.cur \in Seq(T)
        BY <1>1, <1>4, <3>2
      <4>2. Reckoned(p.cur) \in Nat /\ TokensOf(row.size) \in Nat
        BY <4>1, ReckonedAdds, SizesOfWords, TokensAre
      <4>3. Reckoned(p.cur) + TokensOf(row.size) <= room
        BY <1>6, <3>2, <4>2
      <4> HIDE DEF F
      <4> QED BY <1>2, <1>4, <4>1, <4>3
    <3> QED BY <3>1, <3>2
  <2> HIDE DEF F, q
  <2>3. [out |-> p.out, cur |-> Append(p.cur, row)] \in RowFillings(A, room)
    BY <1>1, <2>2 DEF RowFillings, F
  <2> QED BY <2>1, <2>2, <2>3 DEF q
<1> QED BY <1>5, <1>6

\* The fillings a table goes through, row by row.
RowFilling(put, rows, room) ==
  /\ put[0] = [out |-> <<>>, cur |-> <<>>]
  /\ \A i \in 1..Len(rows) : put[i] = PutRow(put[i - 1], Fitted(rows[i], room), room)
  /\ RowPacks(rows, room) = Append(put[Len(rows)].out, put[Len(rows)].cur)
RowFillingsFit(put, A, n, room) == (\A i \in 0..n : put[i] \in RowFillings(A, room)) /\ put[n].cur # <<>>

\* So every filling fits.
LEMMA RowFillingIs ==
  ASSUME NEW A, NEW room \in Nat, room <= MaxTokens, NEW rows \in Seq(WordsAt(A)), rows # <<>>
  PROVE  \E put : RowFilling(put, rows, room) /\ RowFillingsFit(put, A, Len(rows), room)
PROOF
<1> DEFINE P == RowFillings(A, room)
<1> DEFINE n == Len(rows)
<1> DEFINE none == [out |-> <<>>, cur |-> <<>>]
<1> DEFINE Is(g) == g = [i \in 0..n |-> IF i = 0 THEN none ELSE PutRow(g[i - 1], Fitted(rows[i], room), room)]
<1>1. n \in Nat /\ n >= 1 /\ \A i \in 1..n : rows[i] \in WordsAt(A)
  OBVIOUS
<1>2. none \in P
  BY DEF RowFillings
<1> HIDE DEF n
<1>3. ASSUME NEW i \in 1..n, NEW p \in P
      PROVE  PutRow(p, Fitted(rows[i], room), room) \in P /\ PutRow(p, Fitted(rows[i], room), room).cur # <<>>
  <2> DEFINE row == Fitted(rows[i], room)
  <2>1. rows[i] \in WordsAt(A)
    BY <1>1
  <2>2. row \in WordsAt(A) /\ (TokensOf(row.size) <= room \/ CutRow(row))
    BY <2>1, FittedIs
  <2> HIDE DEF row
  <2>3. PutRow(p, row, room) \in P /\ PutRow(p, row, room).cur # <<>>
    BY <2>2, PutRowIs
  <2> QED BY <2>3 DEF row
<1>4. \E g \in [0..n -> P] : Is(g)
  <2> DEFINE step == [p \in (1..n) \X P |-> PutRow(p[2], Fitted(rows[p[1]], room), room)]
  <2>1. step \in [(1..n) \X P -> P]
    <3> SUFFICES ASSUME NEW i \in 1..n, NEW p \in P PROVE PutRow(p, Fitted(rows[i], room), room) \in P
      BY Zenon
    <3> QED BY <1>3
  <2>2. \A i \in 1..n, p \in P : step[<<i, p>>] = PutRow(p, Fitted(rows[i], room), room)
    OBVIOUS
  <2> HIDE DEF step, P, none
  <2>3. PICK g \in [0..n -> P] : g[0] = none /\ \A i \in 1..n : g[i] = step[<<i, g[i - 1]>>]
    <3>1. Steps(n, P, none, step) # {}
      BY <1>1, <1>2, <2>1, Repeats
    <3> QED BY <3>1 DEF Steps
  <2>4. \A i \in 1..n : g[i] = PutRow(g[i - 1], Fitted(rows[i], room), room)
    <3> SUFFICES ASSUME NEW i \in 1..n PROVE g[i] = PutRow(g[i - 1], Fitted(rows[i], room), room)
      OBVIOUS
    <3>1. i - 1 \in 0..n
      BY <1>1
    <3> QED BY <2>2, <2>3, <3>1
  <2>5. Is(g)
    BY <1>1, <2>3, <2>4
  <2> QED BY <2>5
<1> DEFINE put == CHOOSE g : Is(g)
<1>5. Is(put)
  <2>1. \E g : Is(g)
    BY <1>4
  <2> HIDE DEF Is
  <2> QED BY <2>1
<1>6. RowPacks(rows, room) = Append(put[n].out, put[n].cur)
  BY DEF RowPacks, n
<1>7. put[0] = none /\ \A i \in 1..n : put[i] = PutRow(put[i - 1], Fitted(rows[i], room), room)
  <2> HIDE DEF put, none
  <2>1. \A i \in 0..n : put[i] = IF i = 0 THEN none ELSE PutRow(put[i - 1], Fitted(rows[i], room), room)
    BY <1>5, Zenon
  <2>2. 0 \in 0..n /\ \A i \in 1..n : i \in 0..n /\ i # 0
    BY <1>1
  <2> QED BY <2>1, <2>2, Zenon
<1> HIDE DEF put, P, none, Is
<1>8. \A i \in Nat : i <= n => put[i] \in P
  <2> DEFINE S == {i \in Nat : i <= n => put[i] \in P}
  <2>1. 0 \in S
    BY <1>2, <1>7
  <2>2. ASSUME NEW i \in Nat, i \in S PROVE i + 1 \in S
    <3> SUFFICES ASSUME i + 1 <= n PROVE put[i + 1] \in P
      OBVIOUS
    <3>1. put[i] \in P /\ i + 1 \in 1..n /\ (i + 1) - 1 = i
      BY <1>1, <2>2
    <3>2. put[i + 1] = PutRow(put[i], Fitted(rows[i + 1], room), room)
      BY <1>7, <3>1
    <3> QED BY <1>3, <3>1, <3>2
  <2>3. Nat \subseteq S
    <3> HIDE DEF S
    <3> QED BY <2>1, <2>2, NatInduct
  <2> QED BY <2>3
<1>9. put[n] \in P /\ put[n].cur # <<>>
  <2>1. n - 1 \in Nat /\ n - 1 <= n /\ n \in 1..n
    BY <1>1
  <2>2. put[n - 1] \in P /\ put[n] = PutRow(put[n - 1], Fitted(rows[n], room), room)
    BY <1>7, <1>8, <2>1
  <2> QED BY <1>3, <2>1, <2>2
<1>10. RowFilling(put, rows, room)
  BY <1>6, <1>7 DEF RowFilling, n, none
<1>11. RowFillingsFit(put, A, n, room)
  <2>1. \A i \in 0..n : i \in Nat /\ i <= n
    BY <1>1
  <2> QED BY <1>8, <1>9, <2>1 DEF RowFillingsFit, P
<1> QED BY <1>10, <1>11 DEF n

\* And so does the last of them.
LEMMA RowPacksAre ==
  ASSUME NEW A, NEW room \in Nat, room <= MaxTokens, NEW rows \in Seq(WordsAt(A)), rows # <<>>
  PROVE  RowPacks(rows, room) \in Seq(PartPacks(A, room))
PROOF
<1> DEFINE n == Len(rows)
<1>1. PICK put : RowFilling(put, rows, room) /\ RowFillingsFit(put, A, n, room)
  BY RowFillingIs
<1>2. n \in 0..n
  OBVIOUS
<1> HIDE DEF n
<1>3. put[n].out \in Seq(PartPacks(A, room)) /\ put[n].cur \in PartPacks(A, room)
  BY <1>1, <1>2 DEF RowFillingsFit, RowFillings
<1>4. RowPacks(rows, room) = Append(put[n].out, put[n].cur)
  BY <1>1 DEF RowFilling, n
<1> QED BY <1>3, <1>4

\* The sums of the characters of a table bound the sizes of its beginnings.
LEMMA CharsBound ==
  ASSUME NEW A, NEW lines \in Seq(WordsAt(A)), NEW upTo, upTo = Sums([w \in ToSet(lines) |-> CharsIn(w)], lines)
  PROVE  /\ upTo \in [0..Len(lines) -> Nat] /\ upTo[0] = 0
         /\ \A i \in 1..Len(lines) : upTo[i] = upTo[i - 1] + CharsIn(lines[i])
         /\ \A i \in 0..Len(lines) : /\ SubSeq(lines, 1, i) \in Seq(WordsAt(A))
                                     /\ Size(SubSeq(lines, 1, i)) \in Nat /\ Size(SubSeq(lines, 1, i)) <= 247 * upTo[i]
PROOF
<1> DEFINE T == WordsAt(A)
<1> DEFINE n == Len(lines)
<1> DEFINE chars == [w \in ToSet(lines) |-> CharsIn(w)]
<1>1. n \in Nat /\ lines \in Seq(T) /\ lines \in Seq(ToSet(lines)) /\ \A i \in 1..n : lines[i] \in T /\ lines[i] \in ToSet(lines)
  BY DEF ToSet
<1>2. \A w \in T : w.size \in Nat /\ CharsIn(w) \in Nat /\ w.size <= 247 * CharsIn(w)
  BY CharsAre DEF WordsAt
<1>3. chars \in [ToSet(lines) -> Nat] /\ \A i \in 1..n : chars[lines[i]] = CharsIn(lines[i])
  <2>1. \A w \in ToSet(lines) : w \in T
    BY DEF ToSet
  <2> QED BY <1>1, <1>2, <2>1
<1> HIDE DEF chars
<1>4. upTo \in [0..n -> Nat] /\ upTo[0] = 0 /\ \A i \in 1..n : upTo[i] = upTo[i - 1] + chars[lines[i]]
  <2>1. upTo = Sums(chars, lines)
    BY DEF chars
  <2>2. Sums(chars, lines) \in [0..Len(lines) -> Nat] /\ Sums(chars, lines)[0] = 0
        /\ \A i \in 1..Len(lines) : Sums(chars, lines)[i] = Sums(chars, lines)[i - 1] + chars[lines[i]]
    BY <1>1, <1>3, SumsAre
  <2> QED BY <2>1, <2>2
<1> DEFINE head(i) == SubSeq(lines, 1, i)
<1> HIDE DEF n, T
<1>5. \A i \in 0..n : head(i) \in Seq(T) /\ Len(head(i)) = i /\ \A k \in 1..i : head(i)[k] = lines[k]
  <2> SUFFICES ASSUME NEW i \in 0..n PROVE head(i) \in Seq(T) /\ Len(head(i)) = i /\ \A k \in 1..i : head(i)[k] = lines[k]
    OBVIOUS
  <2>1. i \in Nat /\ i <= n
    BY <1>1
  <2>2. head(i) = [k \in 1..i |-> lines[k]]
    BY <2>1
  <2>3. \A k \in 1..i : lines[k] \in T
    BY <1>1, <2>1
  <2> HIDE DEF head
  <2>4. head(i) \in [1..i -> T]
    BY <2>2, <2>3
  <2> QED BY <2>1, <2>2, <2>4
<1>6. head(0) = <<>>
  BY <1>1
<1>7. \A i \in Nat : i + 1 <= n => head(i + 1) = head(i) \o <<lines[i + 1]>>
  <2> SUFFICES ASSUME NEW i \in Nat, i + 1 <= n PROVE head(i + 1) = head(i) \o <<lines[i + 1]>>
    OBVIOUS
  <2> DEFINE v == lines[i + 1]
  <2> DEFINE d == head(i) \o <<v>>
  <2>1. i \in 0..n /\ i + 1 \in 0..n /\ i + 1 \in 1..n /\ v \in T
    BY <1>1
  <2>2. /\ head(i) \in Seq(T) /\ Len(head(i)) = i /\ (\A k \in 1..i : head(i)[k] = lines[k])
        /\ head(i + 1) \in Seq(T) /\ Len(head(i + 1)) = i + 1 /\ (\A k \in 1..(i + 1) : head(i + 1)[k] = lines[k])
    BY <1>5, <2>1
  <2> HIDE DEF head
  <2>3. d \in Seq(T) /\ Len(d) = i + 1 /\ (\A k \in 1..i : d[k] = head(i)[k]) /\ d[i + 1] = v
    <3>1. <<v>> \in Seq(T) /\ Len(<<v>>) = 1 /\ <<v>>[1] = v
      BY <2>1
    <3> HIDE DEF v
    <3> QED BY <2>2, <3>1
  <2>4. \A k \in 1..(i + 1) : k \in 1..i \/ k = i + 1
    OBVIOUS
  <2>5. \A k \in 1..(i + 1) : d[k] = head(i + 1)[k]
    BY <2>2, <2>3, <2>4 DEF v
  <2> HIDE DEF d
  <2>6. d = head(i + 1)
    BY <2>2, <2>3, <2>5, SameSeq
  <2> QED BY <2>6 DEF d, v
<1>8. \A i \in Nat : i <= n => Size(head(i)) \in Nat /\ Size(head(i)) <= 247 * upTo[i]
  <2> DEFINE S == {i \in Nat : i <= n => Size(head(i)) \in Nat /\ Size(head(i)) <= 247 * upTo[i]}
  <2> HIDE DEF head
  <2>1. 0 \in S
    BY <1>4, <1>6, SizeOfNone
  <2>2. ASSUME NEW i \in Nat, i \in S PROVE i + 1 \in S
    <3> SUFFICES ASSUME i + 1 <= n PROVE Size(head(i + 1)) \in Nat /\ Size(head(i + 1)) <= 247 * upTo[i + 1]
      OBVIOUS
    <3> DEFINE v == lines[i + 1]
    <3>1. i \in 0..n /\ i + 1 \in 1..n /\ (i + 1) - 1 = i /\ i <= n /\ v \in T
      BY <1>1
    <3>2. Size(head(i)) \in Nat /\ Size(head(i)) <= 247 * upTo[i] /\ head(i) \in Seq(T)
      BY <1>5, <2>2, <3>1
    <3>3. upTo[i + 1] = upTo[i] + CharsIn(v) /\ upTo[i] \in Nat
      BY <1>3, <1>4, <3>1
    <3>4. v.size \in Nat /\ CharsIn(v) \in Nat /\ v.size <= 247 * CharsIn(v) /\ <<v>> \in Seq(T)
      BY <1>2, <3>1
    <3>5. Size(<<v>>) = v.size
      BY <1>2, <3>1, SizeOfOne
    <3>6. Size(head(i) \o <<v>>) = Size(head(i)) + Size(<<v>>)
      BY <1>2, <3>2, <3>4, SizeAdds
    <3>7. Size(head(i + 1)) = Size(head(i)) + v.size
      BY <1>7, <3>5, <3>6
    <3> HIDE DEF v
    <3> QED BY <3>2, <3>3, <3>4, <3>7
  <2>3. Nat \subseteq S
    <3> HIDE DEF S
    <3> QED BY <2>1, <2>2, NatInduct
  <2> QED BY <2>3
<1>9. \A i \in 1..n : upTo[i] = upTo[i - 1] + CharsIn(lines[i])
  BY <1>3, <1>4
<1>10. \A i \in 0..n : i \in Nat /\ i <= n
  BY <1>1
<1> QED BY <1>4, <1>5, <1>8, <1>9, <1>10 DEF n, T

\* The first characters of a table are no more tokens than the densest of them.
LEMMA CutOffIs ==
  ASSUME NEW A, NEW lines \in Seq(WordsAt(A)), lines # <<>>, NEW n \in Nat
  PROVE  /\ CutOff(lines, n) \in Seq(WordsAt(A)) /\ CutOff(lines, n) # <<>>
         /\ CutOff(lines, n)[Len(CutOff(lines, n))].at \in A
         /\ Size(CutOff(lines, n)) \in Nat /\ Size(CutOff(lines, n)) <= 247 * n
PROOF
<1> DEFINE T == WordsAt(A)
<1> DEFINE m == Len(lines)
<1> DEFINE upTo == Sums([w \in ToSet(lines) |-> CharsIn(w)], lines)
<1> DEFINE I == {i \in DOMAIN lines : upTo[i] >= n} \cup {m}
<1> DEFINE end == Min(I)
<1> DEFINE room == n - upTo[end - 1]
<1> DEFINE last == lines[end]
<1> DEFINE v == IF CharsIn(last) <= room THEN last ELSE Shortened(last, room)
<1> DEFINE before == SubSeq(lines, 1, end - 1)
<1>1. m \in Nat /\ m >= 1 /\ DOMAIN lines = 1..m /\ (\A i \in 1..m : lines[i] \in T)
  OBVIOUS
<1>2. /\ upTo \in [0..m -> Nat] /\ upTo[0] = 0
      /\ \A i \in 0..m : /\ SubSeq(lines, 1, i) \in Seq(T)
                         /\ Size(SubSeq(lines, 1, i)) \in Nat /\ Size(SubSeq(lines, 1, i)) <= 247 * upTo[i]
  <2> HIDE DEF upTo
  <2> QED BY CharsBound DEF upTo
<1>3. CutOff(lines, n) = Append(before, v)
  BY DEF CutOff
<1> HIDE DEF upTo
<1>4. end \in I /\ \A i \in I : end <= i
  <2>1. I \subseteq 0..m /\ I # {}
    BY <1>1
  <2> HIDE DEF I, m
  <2> QED BY <1>1, <2>1, MinIs
<1>5. end \in 1..m /\ end - 1 \in 0..m /\ upTo[end - 1] <= n
  <2>1. end \in 1..m
    BY <1>1, <1>4
  <2>2. \A i \in 1..m : upTo[i] >= n => end <= i
    BY <1>1, <1>4
  <2> HIDE DEF end
  <2>3. end - 1 \in 0..m /\ (end - 1 = 0 \/ end - 1 \in 1..m) /\ ~(end <= end - 1)
    BY <1>1, <2>1
  <2>4. upTo[end - 1] \in Nat
    BY <1>2, <2>3
  <2>5. CASE end - 1 = 0
    BY <1>2, <2>1, <2>3, <2>5
  <2>6. CASE end - 1 \in 1..m
    <3>1. ~(upTo[end - 1] >= n)
      BY <2>2, <2>3, <2>6
    <3> QED BY <2>1, <2>3, <2>4, <3>1
  <2> QED BY <2>1, <2>3, <2>5, <2>6
<1> HIDE DEF end, I
<1>6. before \in Seq(T) /\ Size(before) \in Nat /\ Size(before) <= 247 * upTo[end - 1] /\ last \in T /\ upTo[end - 1] \in Nat
  BY <1>1, <1>2, <1>5
<1>7. room \in Nat /\ upTo[end - 1] + room = n
  BY <1>5, <1>6
<1> HIDE DEF m, room, last, before
<1>8. v \in T /\ v.size \in Nat /\ v.size <= 247 * room /\ v.at \in A
  <2>1. last \in Word /\ last.at \in A
    BY <1>6 DEF WordsAt
  <2>2. CASE CharsIn(last) <= room
    <3>1. last.size \in Nat /\ last.size <= 247 * CharsIn(last) /\ CharsIn(last) \in Nat
      BY <2>1, CharsAre
    <3> QED BY <1>6, <1>7, <2>1, <2>2, <3>1
  <2>3. CASE ~(CharsIn(last) <= room)
    <3>1. v = Shortened(last, room)
      BY <2>3
    <3>2. Shortened(last, room) \in T /\ Shortened(last, room).at = last.at /\ Shortened(last, room).size <= 247 * room
      BY <1>6, <1>7, ShortenedIs
    <3>3. Shortened(last, room).size \in Nat
      BY <3>2, SizesOfWords
    <3> QED BY <2>1, <3>1, <3>2, <3>3
  <2> QED BY <2>2, <2>3
<1> HIDE DEF v, T
<1>9. <<v>> \in Seq(T) /\ Append(before, v) = before \o <<v>> /\ Append(before, v) \in Seq(T)
      /\ Append(before, v) # <<>> /\ Append(before, v)[Len(Append(before, v))] = v
  BY <1>6, <1>8
<1>10. \A w \in T : w.size \in Nat
  BY SizesOfWords DEF T
<1>11. Size(<<v>>) = v.size
  BY <1>8, <1>10, SizeOfOne
<1>12. Size(before \o <<v>>) = Size(before) + Size(<<v>>)
  BY <1>6, <1>9, <1>10, SizeAdds
<1>13. Size(Append(before, v)) \in Nat /\ Size(Append(before, v)) <= 247 * n
  BY <1>6, <1>7, <1>8, <1>9, <1>11, <1>12
<1> QED BY <1>3, <1>8, <1>9, <1>13 DEF T

\* The parts of a table end in a line of it, and their sizes are those.
LEMMA TablePartsAre ==
  ASSUME NEW A, NEW lines \in Seq(WordsAt(A)), NEW most \in Nat, most >= 2, most <= MaxTokens,
         NEW wide \in BOOLEAN, Len(lines) > 2 /\ TokensOf(Size(TableHead(lines))) >= most => wide
  PROVE  TableParts(lines, most) \in Seq(FitTables(A, most, wide))
PROOF
<1> DEFINE B == A \cup {Nowhere}
<1> DEFINE T == WordsAt(A)
<1> DEFINE U == WordsAt(B)
<1> DEFINE G == FitTables(A, most, wide)
<1>1. T \subseteq U /\ (\A w \in U : w.size \in Nat) /\ (\A w \in T : w.at \in A)
  BY SizesOfWords DEF WordsAt
<1>a. \A s \in Seq(T) : s \in Seq(U)
  <2> HIDE DEF T, U
  <2> QED BY <1>1
<1>2. CASE Len(lines) <= 2
  <2>1. TableParts(lines, most) = <<lines>>
    BY <1>2 DEF TableParts
  <2>2. lines # <<>> => lines[Len(lines)] \in T
    OBVIOUS
  <2>3. lines \in G
    BY <1>1, <1>a, <1>2, <2>2 DEF FitTables, PartSizes
  <2> HIDE DEF G
  <2>4. TableParts(lines, most) \in Seq(G)
    BY <2>1, <2>3
  <2> QED BY <2>4 DEF G
<1>3. CASE ~(Len(lines) <= 2)
  <2> DEFINE head == TableHead(lines)
  <2> DEFINE h == TokensOf(Size(head))
  <2> DEFINE room == most - h
  <2>1. Len(lines) \in Nat /\ Len(lines) >= 3 /\ lines[1] \in T /\ lines[2] \in T
    BY <1>3
  <2>2. head \in Seq(U) /\ Len(head) = 2
    <3>1. NoRule \in U
      <4>1. NoRule \in Word /\ NoRule.at = Nowhere
        BY DEF NoRule, Word, Nowhere, Paragraph, Line, Space, TokenParts
      <4> QED BY <4>1 DEF WordsAt
    <3> DEFINE rule == IF lines[2].kind = "rule" THEN lines[2] ELSE NoRule
    <3>2. rule \in U
      BY <1>1, <2>1, <3>1
    <3>3. head = <<lines[1], rule>>
      BY DEF TableHead
    <3>4. lines[1] \in U
      BY <1>1, <2>1
    <3> HIDE DEF rule, U, T, head
    <3> QED BY <3>2, <3>3, <3>4
  <2> HIDE DEF head
  <2>3. Size(head) \in Nat /\ h \in Nat /\ h >= 1 /\ Size(head) <= 380 * h + 379
    BY <1>1, <2>2, SizeAdds, TokensAre
  <2> HIDE DEF h
  <2>4. CASE room <= 0
    <3> DEFINE s == CutOff(lines, 3 * most)
    <3>1. TableParts(lines, most) = <<s>>
      BY <1>3, <2>4 DEF TableParts, head, h
    <3>2. s \in Seq(T) /\ s # <<>> /\ s[Len(s)].at \in A /\ Size(s) \in Nat /\ Size(s) <= 247 * (3 * most)
      <4>1. lines # <<>> /\ 3 * most \in Nat
        BY <2>1
      <4> QED BY <4>1, CutOffIs
    <3> HIDE DEF s
    <3>3. wide
      BY <2>1, <2>3, <2>4 DEF h, head
    <3>4. TokensOf(Size(s)) <= 2 * most
      <4>1. Size(s) < 380 * (2 * most + 1) /\ 2 * most \in Nat \ {0}
        BY <3>2
      <4> QED BY <3>2, <4>1, TokensAre
    <3>5. s \in G
      BY <1>a, <3>2, <3>3, <3>4 DEF FitTables, PartSizes
    <3> HIDE DEF G
    <3>6. TableParts(lines, most) \in Seq(G)
      BY <3>1, <3>5
    <3> QED BY <3>6 DEF G
  <2>5. CASE ~(room <= 0)
    <3> DEFINE first == IF lines[2].kind = "rule" THEN 3 ELSE 2
    <3> DEFINE rows == From(lines, first)
    <3> DEFINE packs == RowPacks(rows, room)
    <3> DEFINE F == PartPacks(A, room)
    <3>1. TableParts(lines, most) = [i \in DOMAIN packs |-> head \o packs[i]]
      <4>1. TableParts(lines, most) = Headed(head, RowPacks(TableRows(lines), room))
        BY <1>3, <2>5 DEF TableParts, head, h
      <4>2. TableRows(lines) = rows
        BY DEF TableRows
      <4> QED BY <4>1, <4>2 DEF Headed
    <3>2. first \in 1..Len(lines)
      BY <2>1
    <3> HIDE DEF first
    <3>3. rows \in Seq(T) /\ rows # <<>>
      BY <1>1, <3>2, FromIs
    <3>4. room \in Nat /\ room <= MaxTokens /\ h + room = most
      BY <2>3, <2>5, ChunkingAssumption
    <3> HIDE DEF rows, room
    <3>5. packs \in Seq(F)
      BY <3>3, <3>4, RowPacksAre
    <3> HIDE DEF packs
    <3>6. ASSUME NEW i \in DOMAIN packs PROVE head \o packs[i] \in G
      <4> DEFINE s == packs[i]
      <4> DEFINE part == head \o s
      <4>1. s \in F
        BY <3>5
      <4> HIDE DEF s
      <4>2. s \in Seq(T) /\ s # <<>> /\ (Reckoned(s) <= room \/ (Len(s) = 1 /\ CutRow(s[1])))
        BY <4>1 DEF PartPacks, TextsAt
      <4>3. s \in Seq(U) /\ Len(s) \in Nat /\ Len(s) >= 1
        <5>1. s \in Seq(U)
          BY <1>a, <4>2
        <5> HIDE DEF T, U
        <5> QED BY <4>2, <5>1
      <4>4. Size(part) = Size(head) + Size(s) /\ Size(s) \in Nat
        BY <1>1, <2>2, <4>3, SizeAdds
      <4>5. /\ part \in Seq(U) /\ Len(part) = 2 + Len(s) /\ part # <<>>
            /\ \A k \in 1..Len(s) : part[2 + k] = s[k]
        <5> HIDE DEF U
        <5>1. part \in Seq(U) /\ Len(part) = Len(head) + Len(s) /\ \A k \in 1..Len(s) : part[Len(head) + k] = s[k]
          <6>1. head \in Seq(U) /\ s \in Seq(U)
            BY <2>2, <4>3
          <6> QED BY <6>1
        <5> HIDE DEF part
        <5>2. part # <<>>
          BY <2>2, <4>3, <5>1
        <5> QED BY <2>2, <5>1, <5>2
      <4>6. part[Len(part)] = s[Len(s)] /\ s[Len(s)] \in T
        <5>1. Len(s) \in 1..Len(s) /\ s[Len(s)] \in T
          BY <4>2
        <5> HIDE DEF T, U, part
        <5> QED BY <4>5, <5>1
      <4> HIDE DEF part
      <4>7. PartSizes(part, most, wide)
        <5>1. CASE Reckoned(s) <= room
          <6>1. Reckoned(s) \in Nat /\ Size(s) <= 380 * Reckoned(s) + 379 * Len(s)
            BY <4>2, ReckonedIs
          <6> DEFINE n == Len(s)
          <6>2. n \in Nat /\ n >= 1
            BY <4>3
          <6>3. Size(part) \in Nat /\ Size(part) < 380 * ((most + n) + 1)
            <7> HIDE DEF n
            <7>1. Size(s) <= 380 * Reckoned(s) + 379 * n
              BY <6>1 DEF n
            <7> QED BY <2>3, <3>4, <4>4, <5>1, <6>1, <6>2, <7>1
          <6>4. TokensOf(Size(part)) <= most + n
            <7>1. most + n \in Nat \ {0}
              BY <6>2
            <7> HIDE DEF n
            <7> QED BY <6>3, <7>1, TokensAre
          <6>5. n = Len(part) - 2
            BY <4>3, <4>5
          <6> HIDE DEF n
          <6> QED BY <6>4, <6>5 DEF PartSizes
        <5>2. CASE Len(s) = 1 /\ CutRow(s[1])
          <6>1. Len(part) = 3 /\ part[3] = s[1]
            <7>1. 1 \in 1..Len(s) /\ 2 + 1 = 3
              BY <5>2
            <7> QED BY <4>5, <5>2, <7>1
          <6> QED BY <5>2, <6>1 DEF PartSizes
        <5> QED BY <4>2, <5>1, <5>2
      <4>8. part \in G
        BY <1>1, <4>5, <4>6, <4>7 DEF FitTables
      <4> QED BY <4>8 DEF part, s
    <3> DEFINE part(i) == head \o packs[i]
    <3>7. \A i \in DOMAIN packs : part(i) \in G
      BY <3>6
    <3>8. TableParts(lines, most) = [i \in DOMAIN packs |-> part(i)]
      BY <3>1
    <3>9. DOMAIN packs = 1..Len(packs) /\ Len(packs) \in Nat
      BY <3>5
    <3> HIDE DEF part, G
    <3>10. TableParts(lines, most) \in Seq(G)
      BY <3>7, <3>8, <3>9
    <3> QED BY <3>10 DEF G
  <2> QED BY <2>4, <2>5
<1> QED BY <1>2, <1>3

\* The head of a table is its first line and the rule under it, or one that is put in.
LEMMA HeadIs ==
  ASSUME NEW A, NEW lines \in Seq(WordsAt(A)), Len(lines) >= 3
  PROVE  /\ TableHead(lines) \in Seq(WordsAt(A \cup {Nowhere}))
         /\ ToSet(TableHead(lines)) = {lines[1], IF lines[2].kind = "rule" THEN lines[2] ELSE NoRule}
         /\ Size(TableHead(lines)) \in Nat
PROOF
<1> DEFINE T == WordsAt(A)
<1> DEFINE U == WordsAt(A \cup {Nowhere})
<1> DEFINE v == lines[1]
<1> DEFINE rule == IF lines[2].kind = "rule" THEN lines[2] ELSE NoRule
<1>1. T \subseteq U /\ (\A w \in U : w.size \in Nat)
  BY SizesOfWords DEF WordsAt
<1>2. lines[1] \in T /\ lines[2] \in T
  OBVIOUS
<1>3. NoRule \in U
  <2>1. NoRule \in Word /\ NoRule.at = Nowhere
    BY DEF NoRule, Word, Nowhere, Paragraph, Line, Space, TokenParts
  <2> QED BY <2>1 DEF WordsAt
<1>4. rule \in U /\ v \in U
  BY <1>1, <1>2, <1>3
<1>5. TableHead(lines) = <<v, rule>>
  BY DEF TableHead
<1> HIDE DEF U, v
<1>6. <<v, rule>> \in Seq(U) /\ ToSet(<<v, rule>>) = {v, rule}
  <2> HIDE DEF rule
  <2> QED BY <1>4 DEF ToSet
<1>7. Size(<<v, rule>>) \in Nat
  <2> HIDE DEF rule
  <2> QED BY <1>1, <1>6, SizeAdds
<1> QED BY <1>5, <1>6, <1>7 DEF U, v

-----------------------------------------------------------------------------
(* The budget of a text under its headings.                                  *)

Headings == Seq([at : Nat, size : Nat])

\* The first heading and the last, together.
LEMMA Couple ==
  ASSUME NEW T, NEW v \in T, NEW w \in T
  PROVE  <<v, w>> = <<v>> \o <<w>>
PROOF
<1>1. <<v>> \in Seq(T) /\ <<w>> \in Seq(T) /\ Len(<<v>>) = 1 /\ Len(<<w>>) = 1 /\ <<v>>[1] = v /\ <<w>>[1] = w
  OBVIOUS
<1> DEFINE s == <<v>>
<1> DEFINE t == <<w>>
<1> HIDE DEF s, t
<1>2. s \in Seq(T) /\ t \in Seq(T) /\ Len(s) = 1 /\ Len(t) = 1 /\ s[1] = v /\ t[1] = w
  BY <1>1 DEF s, t
<1>3. /\ s \o t \in Seq(T) /\ Len(s \o t) = Len(s) + Len(t)
      /\ \A i \in 1..Len(s) : (s \o t)[i] = s[i]
      /\ \A i \in 1..Len(t) : (s \o t)[Len(s) + i] = t[i]
  <2>1. s \in Seq(T) /\ t \in Seq(T)
    BY <1>2
  <2> QED BY <2>1
<1> DEFINE u == s \o t
<1> DEFINE x == <<v, w>>
<1>4. x \in Seq(T) /\ Len(x) = 2 /\ x[1] = v /\ x[2] = w
  OBVIOUS
<1> HIDE DEF u, x
<1>5. u = x
  <2>1. u \in Seq(T) /\ Len(u) = 2 /\ u[1] = v /\ u[2] = w
    <3>1. u \in Seq(T) /\ Len(u) = 1 + 1
      BY <1>2, <1>3 DEF u
    <3>2. 1 \in 1..Len(s) /\ 1 \in 1..Len(t) /\ Len(s) + 1 = 2
      BY <1>2
    <3>3. u[1] = v
      BY <1>2, <1>3, <3>2 DEF u
    <3>4. u[2] = w
      BY <1>2, <1>3, <3>2 DEF u
    <3> QED BY <3>1, <3>3, <3>4
  <2>2. \A k \in 1..Len(u) : u[k] = x[k]
    <3>1. \A k \in 1..2 : k = 1 \/ k = 2
      OBVIOUS
    <3> QED BY <1>4, <2>1, <3>1
  <2> QED BY <1>4, <2>1, <2>2, SameSeq
<1> QED BY <1>5 DEF s, t, u, x

\* What comes before a text takes no more than its room and its label.
LEMMA PrefixIs ==
  ASSUME NEW hs \in Headings, NEW room \in Nat
  PROVE  PrefixTokens(hs, room) \in Nat /\ PrefixTokens(hs, room) <= Label + room
PROOF
<1> DEFINE H == [at : Nat, size : Nat]
<1> DEFINE c == Crumb(hs, room)
<1>1. hs \in Seq(H) /\ \A h \in H : h.size \in Nat
  BY DEF Headings
<1>2. CASE hs = <<>>
  BY <1>2, ChunkingAssumption DEF PrefixTokens
<1>3. CASE hs # <<>>
  <2>1. PrefixTokens(hs, room) = Label + Size(c)
    BY <1>3 DEF PrefixTokens
  <2>2. hs[1] \in H /\ hs[Len(hs)] \in H /\ Last(hs) = hs[Len(hs)] /\ Size(hs) \in Nat
    <3>1. Size(hs) \in Nat
      BY <1>1, SizeAdds
    <3>2. hs[1] \in H /\ hs[Len(hs)] \in H
      <4> HIDE DEF H
      <4> QED BY <1>1, <1>3
    <3> QED BY <3>1, <3>2 DEF Last
  <2> DEFINE v == hs[1]
  <2> DEFINE w == Last(hs)
  <2>3. v \in H /\ w \in H /\ v.size \in Nat /\ w.size \in Nat
    BY <1>1, <2>2
  <2> HIDE DEF H, v, w
  <2>4. Size(c) \in Nat /\ Size(c) <= room
    <3>1. CASE Size(hs) <= room
      <4>1. c = hs
        <5>1. ~(Size(hs) > room)
          BY <2>2, <3>1
        <5> QED BY <3>1, <5>1 DEF Crumb
      <4> QED BY <2>2, <3>1, <4>1
    <3>2. CASE Size(hs) > room /\ Len(hs) > 2 /\ v.size + w.size <= room
      <4>1. c = <<v, w>>
        <5>1. ~(hs = <<>> \/ Size(hs) <= room)
          BY <1>3, <2>2, <3>2
        <5> QED BY <3>2, <5>1 DEF Crumb, v, w
      <4>2. <<v>> \in Seq(H) /\ <<w>> \in Seq(H) /\ <<v, w>> = <<v>> \o <<w>>
        <5>1. <<v>> \in Seq(H) /\ <<w>> \in Seq(H)
          BY <2>3
        <5>2. <<v, w>> = <<v>> \o <<w>>
          BY <2>3, Couple
        <5> QED BY <5>1, <5>2
      <4>3. Size(<<v>>) = v.size /\ Size(<<w>>) = w.size
        BY <1>1, <2>3, SizeOfOne
      <4>4. Size(<<v>> \o <<w>>) = Size(<<v>>) + Size(<<w>>)
        BY <1>1, <4>2, SizeAdds
      <4>5. Size(c) = v.size + w.size
        BY <4>1, <4>2, <4>3, <4>4
      <4> QED BY <2>3, <3>2, <4>5
    <3>3. CASE ~(Size(hs) <= room) /\ ~(Size(hs) > room /\ Len(hs) > 2 /\ v.size + w.size <= room)
      <4> DEFINE u == [w EXCEPT !.size = Least(@, room)]
      <4>1. c = <<u>>
        <5>1. ~(hs = <<>> \/ Size(hs) <= room)
          BY <1>3, <3>3
        <5> QED BY <3>3, <5>1 DEF Crumb, v, w
      <4>2. u \in H /\ u.size <= room
        BY <2>3 DEF Least, H
      <4> HIDE DEF u
      <4>3. Size(<<u>>) = u.size /\ u.size \in Nat
        BY <1>1, <4>2, SizeOfOne
      <4> QED BY <4>1, <4>2, <4>3
    <3> QED BY <3>1, <3>2, <3>3
  <2> HIDE DEF c
  <2> QED BY <2>1, <2>4, ChunkingAssumption
<1> QED BY <1>2, <1>3

\* What a text may take and what comes before it fill a chunk.
LEMMA BudgetIs ==
  ASSUME NEW hs \in Headings, NEW room \in {TextCrumb, BlockCrumb}
  PROVE  /\ BudgetUnder(hs, room) \in Nat /\ BudgetUnder(hs, room) >= 2 /\ PrefixTokens(hs, room) \in Nat
         /\ PrefixTokens(hs, room) + BudgetUnder(hs, room) <= MaxTokens - Slack
         /\ BudgetUnder(hs, room) <= MaxTokens /\ BudgetUnder(hs, room) >= MaxTokens \div 2
         /\ BudgetUnder(hs, room) >= MaxTokens - Label - room - Slack
PROOF
<1> DEFINE p == PrefixTokens(hs, room)
<1> DEFINE h == MaxTokens \div 2
<1>1. MaxTokens \in Nat /\ MaxTokens >= 4 /\ Slack \in Nat /\ Label \in Nat /\ Label + Most(TextCrumb, BlockCrumb) + Slack <= h
  BY ChunkingAssumption
<1>2. room \in Nat /\ room <= Most(TextCrumb, BlockCrumb) /\ Most(TextCrumb, BlockCrumb) \in Nat
  BY ChunkingAssumption DEF Most
<1>3. p \in Nat /\ p <= Label + room
  BY <1>2, PrefixIs
<1>4. h \in Nat /\ h >= 2 /\ 2 * h <= MaxTokens
  BY <1>1
<1> HIDE DEF h, p
<1>5. MaxTokens - p - Slack >= h
  BY <1>1, <1>2, <1>3, <1>4
<1>6. BudgetUnder(hs, room) = MaxTokens - p - Slack
  BY <1>5 DEF BudgetUnder, Most, h, p
<1>7. /\ MaxTokens - p - Slack \in Nat /\ MaxTokens - p - Slack >= 2 /\ MaxTokens - p - Slack <= MaxTokens
      /\ p + (MaxTokens - p - Slack) <= MaxTokens - Slack /\ MaxTokens - p - Slack >= MaxTokens - Label - room - Slack
  BY <1>1, <1>2, <1>3, <1>4, <1>5
<1> QED BY <1>3, <1>5, <1>6, <1>7 DEF p, h

-----------------------------------------------------------------------------
(* What the parsers make of a document.                                      *)

\* No block has a word that is nowhere, a heading has a level, and a text or an image has words.
BlockType ==
  {b \in [type : {"text", "heading", "table", "image"}, page : Nat, y : Nat, text : Seq(Word), level : Nat] :
     /\ Nowhere \notin Ats(b.text) /\ (b.type = "heading" => b.level >= 1)
     /\ b.type \in {"text", "image"} => b.text # <<>>}
Apart(bs) == \A i, j \in DOMAIN bs : i # j => Ats(bs[i].text) \cap Ats(bs[j].text) = {}

\* The blocks of an element have its words, or a word that is put for it.
Made(e) == {b \in BlockType : \A w \in ToSet(b.text) : w.at[1] = e.id}

\* Each block is made of an element of its own.
MadeOf(bs, d, f) ==
  /\ f \in [DOMAIN bs -> DOMAIN d] /\ \A k, l \in DOMAIN bs : f[k] = f[l] => k = l
  /\ \A k \in DOMAIN bs : bs[k] \in Made(d[f[k]])

\* An element whose words are its own.
Own(e) ==
  /\ e \in Element /\ \A w \in InElement(e) : w.at[1] = e.id
  /\ e.label = "section_header" \/ e.look \in {"hash", "large"} => e.level >= 1

\* The words of an element are its own.
LEMMA WordsOwn ==
  ASSUME NEW e, Own(e), NEW text \in Seq(Word), ToSet(text) \subseteq InElement(e),
         NEW type \in {"text", "heading", "table", "image"}, NEW level \in Nat, type = "heading" => level >= 1,
         type \in {"text", "image"} => text # <<>>
  PROVE  Block(type, e, text, level) \in Made(e)
PROOF
<1> DEFINE b == Block(type, e, text, level)
<1>1. e.page \in Nat /\ e.y \in Nat /\ e.id \in Nat \ {0}
  BY DEF Own, Element
<1>2. b \in [type : {"text", "heading", "table", "image"}, page : Nat, y : Nat, text : Seq(Word), level : Nat]
  BY <1>1 DEF Block
<1>3. b.text = text /\ b.type = type /\ b.level = level
  BY DEF Block
<1>4. \A w \in ToSet(text) : w.at[1] = e.id
  BY DEF Own
<1>5. Nowhere \notin Ats(text)
  <2> SUFFICES ASSUME NEW w \in ToSet(text), w.at = Nowhere PROVE FALSE
    BY DEF Ats
  <2>1. w.at[1] = 0
    BY DEF Nowhere
  <2> QED BY <1>1, <1>4, <2>1
<1> HIDE DEF b
<1>6. b \in BlockType
  <2>1. /\ Nowhere \notin Ats(b.text) /\ (b.type = "heading" => b.level >= 1)
        /\ b.type \in {"text", "image"} => b.text # <<>>
    BY <1>3, <1>5
  <2> QED BY <1>2, <2>1 DEF BlockType
<1>7. b \in Made(e)
  BY <1>3, <1>4, <1>6 DEF Made
<1> QED BY <1>7 DEF b

\* So are those that stand for an image.
LEMMA PlaceholderOwn ==
  ASSUME NEW e, Own(e)
  PROVE  Block("image", e, Placeholder(e), 0) \in Made(e)
PROOF
<1> DEFINE w == [at |-> <<e.id, 0>>, size |-> 5, end |-> 2, piece |-> 0, kind |-> "word"]
<1> DEFINE b == Block("image", e, <<w>>, 0)
<1>1. e.page \in Nat /\ e.y \in Nat /\ e.id \in Nat \ {0}
  BY DEF Own, Element
<1>2. w \in Word /\ w.at[1] = e.id /\ w.at # Nowhere
  BY <1>1 DEF Word, Paragraph, Space, Nowhere
<1>3. Placeholder(e) = <<w>>
  BY DEF Placeholder
<1> HIDE DEF w
<1>4. <<w>> \in Seq(Word) /\ ToSet(<<w>>) = {w}
  BY <1>2 DEF ToSet
<1>5. b \in [type : {"text", "heading", "table", "image"}, page : Nat, y : Nat, text : Seq(Word), level : Nat]
  BY <1>1, <1>4 DEF Block
<1>6. b.text = <<w>> /\ b.type = "image"
  BY DEF Block
<1>7. Nowhere \notin Ats(b.text)
  BY <1>2, <1>4, <1>6 DEF Ats
<1> HIDE DEF b
<1>8. b \in Made(e)
  BY <1>2, <1>4, <1>5, <1>6, <1>7 DEF Made, BlockType
<1> QED BY <1>3, <1>8 DEF b

\* So are its text, its lines, and its lines behind its caption.
LEMMA TextsOwn ==
  ASSUME NEW e, Own(e)
  PROVE  /\ e.text # <<>> => Text(e) \in Made(e)
         /\ \A l \in Nat \ {0} : Heading(e, l) \in Made(e)
         /\ Block("table", e, e.lines, 0) \in Made(e)
         /\ Block("table", e, e.caption \o e.lines, 0) \in Made(e)
PROOF
<1>1. e.text \in Seq(Word) /\ e.lines \in Seq(Word) /\ e.caption \in Seq(Word)
  BY DEF Own, Element
<1>2. ToSet(e.text) \subseteq InElement(e) /\ ToSet(e.lines) \subseteq InElement(e) /\ ToSet(e.caption) \subseteq InElement(e)
  BY DEF InElement
<1>3. e.caption \o e.lines \in Seq(Word) /\ ToSet(e.caption \o e.lines) \subseteq InElement(e)
  BY <1>1, <1>2, JoinHas
<1>4. e.text # <<>> => Text(e) \in Made(e)
  BY <1>1, <1>2, WordsOwn DEF Text
<1>5. \A l \in Nat \ {0} : Heading(e, l) \in Made(e)
  BY <1>1, <1>2, WordsOwn DEF Heading
<1>6. Block("table", e, e.lines, 0) \in Made(e)
  BY <1>1, <1>2, WordsOwn
<1>7. Block("table", e, e.caption \o e.lines, 0) \in Made(e)
  BY <1>3, WordsOwn
<1> QED BY <1>4, <1>5, <1>6, <1>7

\* A block Docling makes of an element is of its own words, if it has any.
LEMMA DoclingBlockIs ==
  ASSUME NEW e, Own(e), DoclingBlock(e).text # <<>>
  PROVE  DoclingBlock(e) \in Made(e)
PROOF
<1>1. e.level \in Nat /\ (e.label = "section_header" \/ e.look = "hash" => e.level \in Nat \ {0})
  BY DEF Own, Element
<1>2. DoclingPicture(e) \in Made(e)
  BY TextsOwn, PlaceholderOwn DEF DoclingPicture
<1>3. /\ Heading(e, 1) \in Made(e) /\ Heading(e, 2) \in Made(e) /\ (e.text # <<>> => Text(e) \in Made(e))
      /\ Block("table", e, e.lines, 0) \in Made(e)
      /\ (e.label = "section_header" \/ e.look = "hash" => Heading(e, e.level) \in Made(e))
  BY <1>1, TextsOwn
<1>4. Text(e).text = e.text
  BY DEF Text, Block
<1> QED BY <1>2, <1>3, <1>4 DEF DoclingBlock

\* So are those PyMuPDF makes.
LEMMA MuPDFBlocks ==
  ASSUME NEW e, Own(e), NEW l \in Nat
  PROVE  Multimodal(e) \in Made(e) /\ (e.text # <<>> => TextBlock(e, l) \in Made(e))
PROOF
  BY TextsOwn, PlaceholderOwn DEF Multimodal, TextBlock

\* A document is of elements whose words are their own.
LEMMA DocumentIs ==
  ASSUME NEW d \in Documents
  PROVE  /\ d \in Seq(Element) /\ \A i \in DOMAIN d : Own(d[i]) /\ d[i].id = i
PROOF
<1>1. d \in Seq(Element)
  BY IngestionAssumption
<1>2. ASSUME NEW i \in DOMAIN d PROVE Own(d[i]) /\ d[i].id = i
  <2>1. d[i] \in Element
    BY <1>1
  <2>2. /\ d[i].id = i /\ \A w \in InElement(d[i]) : w.at[1] = i
        /\ d[i].label = "section_header" \/ d[i].look \in {"hash", "large"} => d[i].level >= 1
    BY IngestionAssumption
  <2> QED BY <2>1, <2>2 DEF Own
<1> QED BY <1>1, <1>2

\* Blocks of elements of their own share no word.
LEMMA MadeApart ==
  ASSUME NEW d \in Documents, NEW bs \in Seq(BlockType), NEW f, MadeOf(bs, d, f)
  PROVE  Apart(bs)
PROOF
<1> SUFFICES ASSUME NEW i \in DOMAIN bs, NEW j \in DOMAIN bs, i # j,
                    NEW v \in ToSet(bs[i].text), NEW w \in ToSet(bs[j].text), v.at = w.at
             PROVE  FALSE
  BY DEF Apart, Ats
<1>1. f[i] \in DOMAIN d /\ f[j] \in DOMAIN d /\ f[i] # f[j]
  BY DEF MadeOf
<1>2. v.at[1] = d[f[i]].id /\ w.at[1] = d[f[j]].id
  BY DEF MadeOf, Made
<1>3. d[f[i]].id = f[i] /\ d[f[j]].id = f[j]
  BY <1>1, DocumentIs
<1> QED BY <1>1, <1>2, <1>3

\* A sequence over a set is one over a larger set.
LEMMA Wider ==
  ASSUME NEW T, NEW U, T \subseteq U, NEW s \in Seq(T)
  PROVE  s \in Seq(U)
PROOF
  OBVIOUS

\* A function on the first n numbers is a sequence.
LEMMA ListIs ==
  ASSUME NEW T, NEW n \in Nat, NEW s, s = [k \in 1..n |-> s[k]], \A k \in 1..n : s[k] \in T
  PROVE  s \in Seq(T) /\ Len(s) = n /\ DOMAIN s = 1..n
PROOF
<1>1. s \in [1..n -> T]
  OBVIOUS
<1> QED BY <1>1

\* r is of some elements of s, each of which stands once in it.
Chosen(r, s, I, f) ==
  /\ Cardinality(I) \in Nat /\ f \in [1..Cardinality(I) -> I]
  /\ r = [k \in 1..Cardinality(I) |-> s[f[k]]]
  /\ \A k, l \in 1..Cardinality(I) : f[k] = f[l] => k = l

\* Arranging some places takes each place once.
LEMMA ArrangedChosen ==
  ASSUME NEW T, NEW s \in Seq(T), NEW I \in SUBSET DOMAIN s, NEW R, Orders(R, I)
  PROVE  \E f : Chosen(Arranged(s, I, R), s, I, f)
PROOF
<1>1. PICK f \in [1..Cardinality(I) -> I] :
        /\ Arranged(s, I, R) = [k \in 1..Cardinality(I) |-> s[f[k]]]
        /\ \A i \in I : \E k \in 1..Cardinality(I) : f[k] = i
        /\ \A k, l \in 1..Cardinality(I) : k < l => <<f[k], f[l]>> \in R
  BY ArrangedPlaces
<1>2. Cardinality(I) \in Nat
  BY ArrangedIs
<1>3. ASSUME NEW k \in 1..Cardinality(I), NEW l \in 1..Cardinality(I), f[k] = f[l] PROVE k = l
  <2> SUFFICES ASSUME k # l PROVE FALSE
    OBVIOUS
  <2>1. k < l \/ l < k
    BY <1>2
  <2>2. <<f[k], f[l]>> \in R \/ <<f[l], f[k]>> \in R
    BY <1>1, <2>1
  <2>3. f[k] \in I /\ <<f[k], f[k]>> \notin R
    BY DEF Orders
  <2> QED BY <1>3, <2>2, <2>3
<1> QED BY <1>1, <1>2, <1>3 DEF Chosen

\* So does taking them in turn.
LEMMA AmongChosen ==
  ASSUME NEW T, NEW s \in Seq(T), NEW I \in SUBSET DOMAIN s
  PROVE  \E f : Chosen(Among(s, I), s, I, f)
PROOF
<1>1. Orders(InTurn(I), I)
  <2>1. I \subseteq Nat
    OBVIOUS
  <2> QED BY <2>1 DEF Orders, InTurn
<1>2. \E f : Chosen(Arranged(s, I, InTurn(I)), s, I, f)
  BY <1>1, ArrangedChosen
<1> QED BY <1>2 DEF Among

\* Docling makes blocks that share no word.
LEMMA DoclingIs ==
  ASSUME NEW d \in Documents
  PROVE  Docling(d) \in Seq(BlockType) /\ Apart(Docling(d))
PROOF
<1> DEFINE I == {i \in DOMAIN d : d[i].label # "page_header" /\ DoclingBlock(d[i]).text # <<>>}
<1> DEFINE items == Among(d, I)
<1> DEFINE bs == Docling(d)
<1>1. d \in Seq(Element) /\ \A i \in DOMAIN d : Own(d[i])
  BY DocumentIs
<1>2. I \in SUBSET DOMAIN d
  OBVIOUS
<1>3. bs = [k \in DOMAIN items |-> DoclingBlock(items[k])]
  BY DEF Docling
<1> HIDE DEF I, bs
<1>4. PICK f : Chosen(items, d, I, f)
  BY <1>1, <1>2, AmongChosen
<1> DEFINE n == Cardinality(I)
<1> HIDE DEF n, items
<1>5. n \in Nat /\ DOMAIN bs = 1..n /\ \A k \in 1..n : f[k] \in DOMAIN d /\ bs[k] = DoclingBlock(d[f[k]])
  BY <1>2, <1>3, <1>4 DEF n, Chosen
<1>6. \A k \in 1..n : bs[k] \in Made(d[f[k]])
  <2>1. \A k \in 1..n : f[k] \in I
    BY <1>4 DEF n, Chosen
  <2>2. \A k \in 1..n : DoclingBlock(d[f[k]]).text # <<>>
    BY <2>1 DEF I
  <2> QED BY <1>1, <1>5, <2>2, DoclingBlockIs
<1>7. bs \in Seq(BlockType)
  <2>1. \A k \in 1..n : bs[k] \in BlockType
    BY <1>6 DEF Made
  <2>2. bs = [k \in 1..n |-> bs[k]]
    BY <1>3, <1>5
  <2> QED BY <1>5, <2>1, <2>2
<1>8. \A k, l \in 1..n : f[k] = f[l] => k = l
  BY <1>4 DEF n, Chosen
<1>9. MadeOf(bs, d, f)
  <2>1. f \in [1..n -> DOMAIN d]
    BY <1>2, <1>4 DEF n, Chosen
  <2> QED BY <1>5, <1>6, <1>8, <2>1 DEF MadeOf
<1> QED BY <1>7, <1>9, MadeApart DEF bs

\* The blocks of a page, from top to bottom, are the same blocks.
LEMMA DownOrders ==
  ASSUME NEW bs \in Seq(BlockType)
  PROVE  Orders(TopDown(bs), DOMAIN bs)
PROOF
<1> DEFINE I == DOMAIN bs
<1> DEFINE before(a, b, i, j) == a.page < b.page \/ (a.page = b.page /\ (a.y < b.y \/ (a.y = b.y /\ i < j)))
<1>1. \A i \in I : bs[i].page \in Nat /\ bs[i].y \in Nat /\ i \in Nat
  BY DEF BlockType
<1>2. \A i, j \in I : <<i, j>> \in TopDown(bs) <=> before(bs[i], bs[j], i, j)
  BY DEF TopDown
<1>3. \A i \in I : <<i, i>> \notin TopDown(bs)
  BY <1>1, <1>2
<1>4. \A i, j \in I : i # j => <<i, j>> \in TopDown(bs) \/ <<j, i>> \in TopDown(bs)
  <2> SUFFICES ASSUME NEW i \in I, NEW j \in I, i # j PROVE <<i, j>> \in TopDown(bs) \/ <<j, i>> \in TopDown(bs)
    OBVIOUS
  <2>1. /\ bs[i].page \in Nat /\ bs[i].y \in Nat /\ i \in Nat
        /\ bs[j].page \in Nat /\ bs[j].y \in Nat /\ j \in Nat
    BY <1>1
  <2>2. before(bs[i], bs[j], i, j) \/ before(bs[j], bs[i], j, i)
    <3> HIDE DEF I
    <3> QED BY <2>1
  <2> HIDE DEF before
  <2> QED BY <1>2, <2>2
<1>5. ASSUME NEW i \in I, NEW j \in I, NEW k \in I, <<i, j>> \in TopDown(bs), <<j, k>> \in TopDown(bs)
      PROVE  <<i, k>> \in TopDown(bs)
  <2>1. before(bs[i], bs[j], i, j) /\ before(bs[j], bs[k], j, k)
    BY <1>2, <1>5
  <2>2. before(bs[i], bs[k], i, k)
    BY <1>1, <2>1
  <2> QED BY <1>2, <2>2
<1> QED BY <1>3, <1>4, <1>5 DEF Orders

\* So they share no word after that.
LEMMA DownIs ==
  ASSUME NEW d \in Documents, NEW bs \in Seq(BlockType), NEW f, MadeOf(bs, d, f)
  PROVE  DownThePage(bs) \in Seq(BlockType) /\ Apart(DownThePage(bs))
PROOF
<1> DEFINE I == DOMAIN bs
<1> DEFINE cs == DownThePage(bs)
<1> DEFINE n == Cardinality(I)
<1>1. Orders(TopDown(bs), I)
  BY DownOrders
<1>2. IsFiniteSet(I) /\ n \in Nat /\ I \subseteq Nat
  <2>1. IsFiniteSet(I) /\ n \in Nat
    BY <1>1, ArrangedIs
  <2> QED BY <2>1
<1>3. PICK g : Chosen(cs, bs, I, g)
  <2>1. I \in SUBSET DOMAIN bs /\ cs = Arranged(bs, I, TopDown(bs))
    BY DEF DownThePage
  <2> QED BY <1>1, <2>1, ArrangedChosen
<1> HIDE DEF n, cs
<1>4. \A k, l \in 1..n : g[k] = g[l] => k = l
  BY <1>3 DEF n, Chosen
<1> DEFINE h == [k \in 1..n |-> f[g[k]]]
<1>5. DOMAIN cs = 1..n /\ \A k \in 1..n : g[k] \in I /\ cs[k] = bs[g[k]] /\ h[k] = f[g[k]]
  BY <1>3 DEF n, Chosen
<1>6. h \in [1..n -> DOMAIN d]
  BY <1>5 DEF MadeOf
<1> HIDE DEF h
<1>7. MadeOf(cs, d, h)
  BY <1>4, <1>5, <1>6 DEF MadeOf
<1>8. cs \in Seq(BlockType)
  <2>1. \A k \in 1..n : cs[k] \in BlockType
    BY <1>5
  <2>2. cs = [k \in 1..n |-> cs[k]]
    BY <1>3, <1>5 DEF n, Chosen
  <2> QED BY <1>2, <2>1, <2>2
<1> QED BY <1>7, <1>8, MadeApart DEF cs

\* So does PyMuPDF, whatever it finds.
LEMMA MuPDFIs ==
  ASSUME NEW d \in Documents, NEW spotted \in Findings(d), NEW level \in [ToSet(d) -> Nat]
  PROVE  MuPDF(d, spotted, level) \in Seq(BlockType) /\ Apart(MuPDF(d, spotted, level))
PROOF
<1> DEFINE I == spotted
<1> DEFINE J == {i \in (DOMAIN d) \ spotted : d[i].text # <<>>}
<1> DEFINE shown == Among(d, I)
<1> DEFINE texts == Among(d, J)
<1> DEFINE a == [i \in DOMAIN shown |-> Multimodal(shown[i])]
<1> DEFINE b == [i \in DOMAIN texts |-> TextBlock(texts[i], level[texts[i]])]
<1>0. d \in Seq(Element)
  BY DocumentIs
<1>1. d \in Seq(Element) /\ (\A i \in DOMAIN d : Own(d[i])) /\ DOMAIN d \subseteq Nat
  BY DocumentIs
<1>2. I \in SUBSET DOMAIN d /\ J \in SUBSET DOMAIN d /\ I \cap J = {}
  BY DEF Findings
<1>3. MuPDF(d, spotted, level) = DownThePage(a \o b)
  BY DEF MuPDF
<1>a. \A i \in J : d[i].text # <<>>
  OBVIOUS
<1> HIDE DEF I, J
<1>4. PICK f : Chosen(shown, d, I, f)
  BY <1>0, <1>2, AmongChosen
<1>5. PICK g : Chosen(texts, d, J, g)
  BY <1>0, <1>2, AmongChosen
<1> DEFINE m == Cardinality(I)
<1> DEFINE n == Cardinality(J)
<1> HIDE DEF m, n, shown, texts
<1>6. /\ m \in Nat /\ DOMAIN a = 1..m
      /\ \A k \in 1..m : f[k] \in I /\ f[k] \in DOMAIN d /\ a[k] = Multimodal(d[f[k]])
  BY <1>2, <1>4 DEF m, Chosen
<1>7. /\ n \in Nat /\ DOMAIN b = 1..n
      /\ \A k \in 1..n : g[k] \in J /\ g[k] \in DOMAIN d /\ b[k] = TextBlock(d[g[k]], level[d[g[k]]])
  BY <1>2, <1>5 DEF n, Chosen
<1>8. \A k \in 1..m : a[k] \in Made(d[f[k]])
  BY <1>1, <1>6, MuPDFBlocks
<1>9. \A k \in 1..n : b[k] \in Made(d[g[k]])
  <2> SUFFICES ASSUME NEW k \in 1..n PROVE b[k] \in Made(d[g[k]])
    OBVIOUS
  <2>1. d[g[k]] \in ToSet(d) /\ Own(d[g[k]])
    BY <1>1, <1>7 DEF ToSet
  <2>2. level[d[g[k]]] \in Nat
    BY <2>1
  <2>3. d[g[k]].text # <<>>
    BY <1>7, <1>a
  <2> QED BY <1>7, <2>1, <2>2, <2>3, MuPDFBlocks
<1>10. a \in Seq(BlockType) /\ b \in Seq(BlockType)
  <2>1. (\A k \in 1..m : a[k] \in BlockType) /\ (\A k \in 1..n : b[k] \in BlockType)
    BY <1>8, <1>9 DEF Made
  <2>2. a = [k \in 1..m |-> a[k]] /\ b = [k \in 1..n |-> b[k]]
    BY <1>6, <1>7
  <2> HIDE DEF a, b
  <2>3. a \in Seq(BlockType)
    BY <1>6, <2>1, <2>2, ListIs
  <2>4. b \in Seq(BlockType)
    BY <1>7, <2>1, <2>2, ListIs
  <2> QED BY <2>3, <2>4
<1> HIDE DEF a, b
<1> DEFINE bs == a \o b
<1>11. Len(a) = m /\ Len(b) = n
  BY <1>6, <1>7, <1>10
<1>12. /\ bs \in Seq(BlockType) /\ DOMAIN bs = 1..(m + n)
       /\ \A k \in 1..m : bs[k] = a[k]
       /\ \A k \in (m + 1)..(m + n) : k - m \in 1..n /\ bs[k] = b[k - m]
  <2>1. m \in Nat /\ n \in Nat
    BY <1>6, <1>7
  <2>2. /\ bs \in Seq(BlockType) /\ Len(bs) = Len(a) + Len(b)
        /\ \A k \in 1..Len(a) : bs[k] = a[k]
        /\ \A k \in 1..Len(b) : bs[Len(a) + k] = b[k]
    BY <1>10
  <2> HIDE DEF bs
  <2>3. ASSUME NEW k \in (m + 1)..(m + n) PROVE k - m \in 1..n /\ bs[k] = b[k - m]
    <3>1. k - m \in 1..n /\ m + (k - m) = k
      BY <2>1
    <3> QED BY <1>11, <2>2, <3>1
  <2>4. DOMAIN bs = 1..(m + n)
    BY <1>11, <2>2
  <2> QED BY <1>11, <2>2, <2>3, <2>4
<1> HIDE DEF bs
<1> DEFINE h == [k \in 1..(m + n) |-> IF k <= m THEN f[k] ELSE g[k - m]]
<1>13. ASSUME NEW k \in 1..m PROVE k \in 1..(m + n) /\ h[k] = f[k]
  BY <1>6, <1>7
<1>14. ASSUME NEW k \in (m + 1)..(m + n) PROVE k \in 1..(m + n) /\ h[k] = g[k - m]
  BY <1>6, <1>7
<1>15. \A k \in 1..(m + n) : k \in 1..m \/ k \in (m + 1)..(m + n)
  BY <1>6, <1>7
<1>16. DOMAIN h = 1..(m + n) /\ h = [k \in 1..(m + n) |-> h[k]]
  OBVIOUS
<1> HIDE DEF h
<1>17. \A k \in 1..(m + n) : h[k] \in DOMAIN d /\ bs[k] \in Made(d[h[k]])
  BY <1>6, <1>7, <1>8, <1>9, <1>12, <1>13, <1>14, <1>15
<1>18. \A k, l \in 1..m : f[k] = f[l] => k = l
  BY <1>4 DEF m, Chosen
<1>19. \A k, l \in 1..n : g[k] = g[l] => k = l
  BY <1>5 DEF n, Chosen
<1>20. ASSUME NEW k \in 1..(m + n), NEW l \in 1..(m + n), h[k] = h[l] PROVE k = l
  <2>1. CASE k \in 1..m /\ l \in 1..m
    BY <1>13, <1>18, <1>20, <2>1
  <2>2. CASE k \in (m + 1)..(m + n) /\ l \in (m + 1)..(m + n)
    <3>1. k - m \in 1..n /\ l - m \in 1..n /\ g[k - m] = g[l - m]
      BY <1>12, <1>14, <1>20, <2>2
    <3>2. k - m = l - m
      BY <1>19, <3>1
    <3> QED BY <1>6, <3>2
  <2>3. CASE k \in 1..m /\ l \in (m + 1)..(m + n)
    <3>1. h[k] \in I /\ h[l] \in J
      BY <1>6, <1>7, <1>12, <1>13, <1>14, <2>3
    <3> QED BY <1>2, <1>20, <3>1
  <2>4. CASE l \in 1..m /\ k \in (m + 1)..(m + n)
    <3>1. h[l] \in I /\ h[k] \in J
      BY <1>6, <1>7, <1>12, <1>13, <1>14, <2>4
    <3> QED BY <1>2, <1>20, <3>1
  <2> QED BY <1>15, <2>1, <2>2, <2>3, <2>4
<1>21. MadeOf(bs, d, h)
  <2>1. h \in [1..(m + n) -> DOMAIN d]
    BY <1>16, <1>17
  <2> QED BY <1>12, <1>17, <1>20, <2>1 DEF MadeOf
<1> QED BY <1>3, <1>12, <1>21, DownIs DEF bs

\* So does OCR.
LEMMA OcrIs ==
  ASSUME NEW d \in Documents
  PROVE  Ocr(d) \in Seq(BlockType) /\ Apart(Ocr(d))
PROOF
<1> DEFINE I == {i \in DOMAIN d : d[i].text # <<>>}
<1> DEFINE items == Among(d, I)
<1> DEFINE bs == Ocr(d)
<1>1. d \in Seq(Element) /\ \A i \in DOMAIN d : Own(d[i])
  BY DocumentIs
<1>2. I \in SUBSET DOMAIN d
  OBVIOUS
<1>3. bs = [k \in DOMAIN items |-> TextBlock(items[k], 0)]
  BY DEF Ocr
<1> HIDE DEF I, bs
<1>4. PICK f : Chosen(items, d, I, f)
  BY <1>1, <1>2, AmongChosen
<1> DEFINE n == Cardinality(I)
<1> HIDE DEF n, items
<1>5. n \in Nat /\ DOMAIN bs = 1..n /\ \A k \in 1..n : f[k] \in DOMAIN d /\ bs[k] = TextBlock(d[f[k]], 0)
  BY <1>2, <1>3, <1>4 DEF n, Chosen
<1>6. \A k \in 1..n : bs[k] \in Made(d[f[k]])
  <2>1. \A k \in 1..n : f[k] \in I
    BY <1>4 DEF n, Chosen
  <2>2. \A k \in 1..n : d[f[k]].text # <<>>
    BY <2>1 DEF I
  <2> QED BY <1>1, <1>5, <2>2, MuPDFBlocks
<1>7. bs \in Seq(BlockType)
  <2>1. \A k \in 1..n : bs[k] \in BlockType
    BY <1>6 DEF Made
  <2>2. bs = [k \in 1..n |-> bs[k]]
    BY <1>3, <1>5
  <2> QED BY <1>5, <2>1, <2>2
<1>8. \A k, l \in 1..n : f[k] = f[l] => k = l
  BY <1>4 DEF n, Chosen
<1>9. MadeOf(bs, d, f)
  <2>1. f \in [1..n -> DOMAIN d]
    BY <1>2, <1>4 DEF n, Chosen
  <2> QED BY <1>5, <1>6, <1>8, <2>1 DEF MadeOf
<1> QED BY <1>7, <1>9, MadeApart DEF bs

\* Whichever parser reads a document, no two blocks share a word.
LEMMA ParseIs ==
  ASSUME NEW d \in Documents, NEW r, NEW docling \in BOOLEAN, NEW spotted \in Findings(d)
  PROVE  Parse(r, d, docling, spotted) \in Seq(BlockType) /\ Apart(Parse(r, d, docling, spotted))
PROOF
<1>1. ASSUME NEW e \in ToSet(d) PROVE FallbackLevel(e) \in Nat /\ FastLevel(e) \in Nat
  <2>1. e \in Element
    BY DocumentIs DEF ToSet
  <2>2. e.level \in Nat
    BY <2>1 DEF Element
  <2> QED BY <2>2 DEF FallbackLevel, FastLevel
<1>2. Fallback(d, spotted) \in Seq(BlockType) /\ Apart(Fallback(d, spotted))
  <2>1. [e \in ToSet(d) |-> FallbackLevel(e)] \in [ToSet(d) -> Nat]
    BY <1>1
  <2> QED BY <2>1, MuPDFIs DEF Fallback
<1>3. FastText(d, spotted) \in Seq(BlockType) /\ Apart(FastText(d, spotted))
  <2>1. [e \in ToSet(d) |-> FastLevel(e)] \in [ToSet(d) -> Nat]
    BY <1>1
  <2> QED BY <2>1, MuPDFIs DEF FastText
<1> QED BY <1>2, <1>3, DoclingIs, OcrIs DEF Parse, Layout

-----------------------------------------------------------------------------
(* No word is lost when a text is cut.                                       *)

\* Where the words of some texts are from.
LEMMA PlacesAre ==
  ASSUME NEW ss, NEW a
  PROVE  a \in PlacesOf(ss) <=> \E i \in DOMAIN ss : a \in Ats(ss[i])
PROOF
  BY DEF PlacesOf, Ats, ToSet

\* A text behind another adds its words.
LEMMA AtsJoin ==
  ASSUME NEW T, NEW s \in Seq(T), NEW t \in Seq(T)
  PROVE  Ats(s \o t) = Ats(s) \cup Ats(t)
PROOF
<1>1. ToSet(s \o t) = ToSet(s) \cup ToSet(t)
  BY JoinHas
<1> QED BY <1>1 DEF Ats

\* So does one more text.
LEMMA PlacesAppend ==
  ASSUME NEW T, NEW ss \in Seq(T), NEW t \in T
  PROVE  PlacesOf(Append(ss, t)) = PlacesOf(ss) \cup Ats(t)
PROOF
<1> DEFINE one == <<t>>
<1>1. one \in Seq(T) /\ ToSet(one) = {t}
  BY DEF ToSet
<1>2. Append(ss, t) = ss \o one
  OBVIOUS
<1> HIDE DEF one
<1>3. ToSet(ss \o one) = ToSet(ss) \cup ToSet(one)
  BY <1>1, JoinHas
<1>4. ToSet(Append(ss, t)) = ToSet(ss) \cup {t}
  BY <1>1, <1>2, <1>3
<1> QED BY <1>4 DEF PlacesOf, Ats

\* What is joined has the words of all that is joined.
LEMMA PlacesFlat ==
  ASSUME NEW T, NEW sss \in Seq(Seq(T)), NEW i \in DOMAIN sss
  PROVE  PlacesOf(sss[i]) \subseteq PlacesOf(FlattenSeq(sss))
PROOF
<1>1. ToSet(FlattenSeq(sss)) = UNION {ToSet(sss[k]) : k \in DOMAIN sss}
  BY FlattenHas
<1>2. ToSet(sss[i]) \subseteq ToSet(FlattenSeq(sss))
  BY <1>1
<1> QED BY <1>2 DEF PlacesOf

\* Cutting what is too large once more keeps every word.
LEMMA FinerKeeps ==
  ASSUME NEW A, NEW units \in Seq(TextsAt(A)), NEW level, NEW most
  PROVE  PlacesOf(units) \subseteq PlacesOf(Finer(units, level, most))
PROOF
<1> DEFINE T == TextsAt(A)
<1> DEFINE cut(i) == IF Size(units[i]) <= most THEN <<units[i]>> ELSE Parts(units[i], level)
<1> DEFINE ss == [i \in DOMAIN units |-> cut(i)]
<1>1. Finer(units, level, most) = FlattenSeq(ss)
  BY DEF Finer
<1>2. ASSUME NEW i \in DOMAIN units
      PROVE  cut(i) \in Seq(T) /\ Ats(units[i]) \subseteq PlacesOf(cut(i))
  <2>1. units[i] \in T
    OBVIOUS
  <2>2. CASE Size(units[i]) <= most
    <3>1. cut(i) = <<units[i]>>
      BY <2>2
    <3>2. 1 \in DOMAIN cut(i) /\ cut(i)[1] = units[i]
      BY <3>1
    <3> HIDE DEF cut, T
    <3> QED BY <2>1, <3>1, <3>2, PlacesAre
  <2>3. CASE ~(Size(units[i]) <= most)
    <3>1. cut(i) = Parts(units[i], level)
      BY <2>3
    <3>2. units[i] \in Seq(WordsAt(A)) /\ units[i] # <<>>
      BY <2>1 DEF TextsAt
    <3>3. /\ Parts(units[i], level) \in Seq(Seq(WordsAt(A)) \ {<<>>})
          /\ \A w \in ToSet(units[i]) : \E k \in DOMAIN Parts(units[i], level) : w \in ToSet(Parts(units[i], level)[k])
      BY <3>2, PartsAre
    <3>4. cut(i) \in Seq(T)
      BY <3>1, <3>3 DEF TextsAt
    <3>5. \A w \in ToSet(units[i]) : \E k \in DOMAIN cut(i) : w.at \in Ats(cut(i)[k])
      BY <3>1, <3>3 DEF Ats
    <3> HIDE DEF cut
    <3>6. \A w \in ToSet(units[i]) : w.at \in PlacesOf(cut(i))
      BY <3>5, PlacesAre
    <3> QED BY <3>4, <3>6 DEF Ats
  <2> HIDE DEF cut, T
  <2> QED BY <2>2, <2>3
<1>3. DOMAIN units = 1..Len(units) /\ Len(units) \in Nat
  OBVIOUS
<1> HIDE DEF cut, T
<1>4. ss \in Seq(Seq(T)) /\ DOMAIN ss = DOMAIN units /\ \A i \in DOMAIN units : ss[i] = cut(i)
  BY <1>2, <1>3
<1> HIDE DEF ss
<1>5. ASSUME NEW i \in DOMAIN units PROVE Ats(units[i]) \subseteq PlacesOf(FlattenSeq(ss))
  <2>1. PlacesOf(ss[i]) \subseteq PlacesOf(FlattenSeq(ss))
    BY <1>4, PlacesFlat
  <2> QED BY <1>2, <1>4, <2>1
<1> QED BY <1>1, <1>5, PlacesAre

\* A word that is cut is in its pieces.
LEMMA PiecesKeep ==
  ASSUME NEW A, NEW w \in WordsAt(A), NEW most \in Nat, most >= 1, w.size > 0
  PROVE  w.at \in PlacesOf(Pieces(w, most))
PROOF
<1> DEFINE n == (w.size + most - 1) \div most
<1> DEFINE piece(i) == <<Piece(w, i, IF i < n THEN most ELSE w.size - (n - 1) * most)>>
<1>1. w.size \in Nat
  BY SizesOfWords
<1>2. n \in Nat /\ n * most >= w.size
  BY <1>1, Ceiling
<1>3. n # 0
  <2> SUFFICES ASSUME n = 0 PROVE FALSE
    OBVIOUS
  <2>1. 0 >= w.size
    BY <1>2
  <2> QED BY <1>1, <2>1
<1>4. Pieces(w, most) = [i \in 1..n |-> piece(i)]
  BY DEF Pieces
<1>5. w.at \in Ats(piece(1))
  <2> DEFINE v == Piece(w, 1, IF 1 < n THEN most ELSE w.size - (n - 1) * most)
  <2>1. v.at = w.at
    BY DEF Piece
  <2>2. piece(1) = <<v>>
    OBVIOUS
  <2> HIDE DEF v, piece
  <2>3. ToSet(<<v>>) = {v}
    BY DEF ToSet
  <2> QED BY <2>1, <2>2, <2>3 DEF Ats
<1> HIDE DEF n, piece
<1>6. 1 \in 1..n
  BY <1>2, <1>3
<1>7. 1 \in DOMAIN Pieces(w, most) /\ Pieces(w, most)[1] = piece(1)
  BY <1>4, <1>6
<1> QED BY <1>5, <1>7, PlacesAre

\* The units of a text have all its words.
LEMMA UnitsKeep ==
  ASSUME NEW A, NEW text \in TextsAt(A), NEW most \in Nat, most >= 1
  PROVE  Ats(text) \subseteq PlacesOf(Units(text, most))
PROOF
<1> DEFINE T == TextsAt(A)
<1> DEFINE U == {t \in T : Size(t) <= most \/ Len(t) = 1}
<1> DEFINE paragraphs == Finer(<<text>>, Paragraph, most)
<1> DEFINE lines == Finer(paragraphs, Line, most)
<1> DEFINE stops == Finer(lines, Stop, most)
<1> DEFINE clauses == Finer(stops, Clause, most)
<1> DEFINE words == Finer(clauses, Space, most)
<1> DEFINE cut(i) == IF Size(words[i]) <= most THEN <<words[i]>> ELSE Pieces(words[i][1], most)
<1> DEFINE ss == [i \in DOMAIN words |-> cut(i)]
<1>1. Units(text, most) = FlattenSeq(ss)
  BY DEF Units
<1>2. <<text>> \in Seq(T) /\ <<text>> # <<>> /\ Ats(text) \subseteq PlacesOf(<<text>>)
  <2>1. 1 \in DOMAIN <<text>> /\ <<text>>[1] = text
    OBVIOUS
  <2>2. \A a \in Ats(text) : a \in PlacesOf(<<text>>)
    BY <2>1, PlacesAre
  <2> QED BY <2>2
<1> HIDE DEF words
<1>3. words \in Seq(U) /\ Ats(text) \subseteq PlacesOf(words)
  <2>1. paragraphs \in Seq(T) /\ paragraphs # <<>> /\ PlacesOf(<<text>>) \subseteq PlacesOf(paragraphs)
    BY <1>2, FinerIs, FinerKeeps
  <2> HIDE DEF paragraphs
  <2>2. lines \in Seq(T) /\ lines # <<>> /\ PlacesOf(paragraphs) \subseteq PlacesOf(lines)
    BY <2>1, FinerIs, FinerKeeps
  <2> HIDE DEF lines
  <2>3. stops \in Seq(T) /\ stops # <<>> /\ PlacesOf(lines) \subseteq PlacesOf(stops)
    BY <2>2, FinerIs, FinerKeeps
  <2> HIDE DEF stops
  <2>4. clauses \in Seq(T) /\ clauses # <<>> /\ PlacesOf(stops) \subseteq PlacesOf(clauses)
    BY <2>3, FinerIs, FinerKeeps
  <2> HIDE DEF clauses
  <2>5. words \in Seq(U) /\ PlacesOf(clauses) \subseteq PlacesOf(words)
    BY <2>4, FinerIs, FinerKeeps DEF words
  <2> QED BY <1>2, <2>1, <2>2, <2>3, <2>4, <2>5
<1> DEFINE V == Seq(WordsAt(A))
<1>4. ASSUME NEW i \in DOMAIN words PROVE cut(i) \in Seq(V) /\ Ats(words[i]) \subseteq PlacesOf(cut(i))
  <2>1. words[i] \in U /\ words[i] \in V
    BY <1>3 DEF TextsAt
  <2>2. CASE Size(words[i]) <= most
    <3>1. cut(i) = <<words[i]>>
      BY <2>2
    <3>2. 1 \in DOMAIN cut(i) /\ cut(i)[1] = words[i]
      BY <3>1
    <3> HIDE DEF V, cut
    <3> QED BY <2>1, <3>1, <3>2, PlacesAre
  <2>3. CASE ~(Size(words[i]) <= most)
    <3>1. cut(i) = Pieces(words[i][1], most)
      BY <2>3
    <3> DEFINE t == words[i]
    <3>2. t \in Seq(WordsAt(A)) /\ Len(t) = 1
      BY <2>1, <2>3 DEF TextsAt
    <3> HIDE DEF t
    <3>3. t[1] \in WordsAt(A) /\ t = <<t[1]>>
      BY <3>2
    <3> DEFINE w == t[1]
    <3> HIDE DEF w
    <3>4. w \in WordsAt(A) /\ t = <<w>>
      BY <3>3 DEF w
    <3>5. w.size \in Nat /\ w.size > 0
      <4>1. Size(<<w>>) = w.size /\ w.size \in Nat
        BY <3>4, OneIs
      <4> QED BY <2>3, <3>4, <4>1 DEF t
    <3>6. Pieces(w, most) \in Seq(Fits(A, most)) /\ w.at \in PlacesOf(Pieces(w, most))
      BY <3>4, <3>5, PiecesAre, PiecesKeep
    <3>7. Fits(A, most) \subseteq V
      BY DEF Fits, TextsAt
    <3>8. Ats(t) = {w.at}
      BY <3>4 DEF Ats, ToSet
    <3> HIDE DEF V, cut
    <3>9. Pieces(w, most) \in Seq(V)
      BY <3>6, <3>7, Wider
    <3>10. cut(i) = Pieces(w, most)
      BY <3>1 DEF w, t
    <3> QED BY <3>6, <3>8, <3>9, <3>10 DEF t
  <2> QED BY <2>2, <2>3
<1>5. DOMAIN words = 1..Len(words) /\ Len(words) \in Nat
  BY <1>3
<1> HIDE DEF cut, V, U
<1>6. ss \in Seq(Seq(V)) /\ DOMAIN ss = DOMAIN words /\ \A i \in DOMAIN words : ss[i] = cut(i)
  BY <1>4, <1>5
<1> HIDE DEF ss
<1>7. ASSUME NEW i \in DOMAIN words PROVE Ats(words[i]) \subseteq PlacesOf(FlattenSeq(ss))
  <2>1. PlacesOf(ss[i]) \subseteq PlacesOf(FlattenSeq(ss))
    BY <1>6, PlacesFlat
  <2> QED BY <1>4, <1>6, <2>1
<1> QED BY <1>1, <1>3, <1>7, PlacesAre

\* Where the words of a filling are from.
Held(p) == PlacesOf(p.out) \cup Ats(p.cur)

\* A unit put behind what was gathered keeps it all.
LEMMA PutKeeps ==
  ASSUME NEW A, NEW most \in Nat, NEW overlap \in Nat, overlap <= Overlap,
         NEW p \in Fillings(A, most), NEW u \in TextsAt(A)
  PROVE  Held(p) \cup Ats(u) \subseteq Held(Put(p, u, most, overlap))
PROOF
<1> DEFINE T == WordsAt(A)
<1> DEFINE F == FitTexts(A, most)
<1> DEFINE q == Put(p, u, most, overlap)
<1>1. p.out \in Seq(F) /\ p.cur \in F \cup {<<>>} /\ u \in Seq(T)
  BY DEF Fillings, TextsAt
<1>2. p.cur \in F => p.cur \in Seq(T) /\ p.cur \in TextsAt(A)
  BY DEF FitTexts, TextsAt
<1>3. p.cur \in Seq(T)
  <2>1. CASE p.cur = <<>>
    BY <2>1
  <2> HIDE DEF F, T
  <2> QED BY <1>1, <1>2, <2>1
<1>4. CASE p.cur # <<>> /\ Size(p.cur \o u) > most
  <2> DEFINE o == OverlapPrefix(p.cur, overlap)
  <2>1. q = [out |-> Append(p.out, p.cur), cur |-> o \o u]
    BY <1>4 DEF Put
  <2>2. p.cur \in F /\ o \in Seq(T)
    <3>1. p.cur \in F
      BY <1>1, <1>4
    <3>2. p.cur \in TextsAt(A)
      BY <1>2, <3>1
    <3>3. o \in Seq(T)
      BY <3>2, OverlapPrefixIs
    <3> QED BY <3>1, <3>3
  <2> HIDE DEF o, F, q
  <2>3. PlacesOf(Append(p.out, p.cur)) = PlacesOf(p.out) \cup Ats(p.cur)
    BY <1>1, <2>2, PlacesAppend
  <2>4. Ats(u) \subseteq Ats(o \o u)
    BY <1>1, <2>2, AtsJoin
  <2>5. q.out = Append(p.out, p.cur) /\ q.cur = o \o u
    BY <2>1
  <2> QED BY <2>3, <2>4, <2>5 DEF Held, q
<1>5. CASE ~(p.cur # <<>> /\ Size(p.cur \o u) > most)
  <2>1. q = [out |-> p.out, cur |-> p.cur \o u]
    BY <1>5 DEF Put
  <2>2. Ats(p.cur \o u) = Ats(p.cur) \cup Ats(u)
    BY <1>1, <1>3, AtsJoin
  <2> HIDE DEF q
  <2>3. q.out = p.out /\ q.cur = p.cur \o u
    BY <2>1
  <2> QED BY <2>2, <2>3 DEF Held, q
<1> QED BY <1>4, <1>5

\* What units are gathered to has all their words.
LEMMA FilledKeeps ==
  ASSUME NEW A, NEW most \in Nat, NEW room \in Nat, NEW overlap \in Nat, overlap <= Overlap, room + overlap <= most,
         NEW units \in Seq(Fits(A, room)), units # <<>>
  PROVE  PlacesOf(units) \subseteq PlacesOf(Filled(units, most, overlap))
PROOF
<1> DEFINE n == Len(units)
<1>1. PICK put : Filling(put, units, most, overlap) /\ FillingsFit(put, A, n, most)
  BY FillingIs
<1>2. n \in Nat /\ DOMAIN units = 1..n /\ \A i \in 1..n : units[i] \in TextsAt(A)
  BY DEF Fits
<1>3. \A i \in 1..n : put[i] = Put(put[i - 1], units[i], most, overlap)
  BY <1>1 DEF Filling
<1>4. Filled(units, most, overlap) = Append(put[n].out, put[n].cur)
  BY <1>1 DEF Filling
<1> HIDE DEF n
<1>5. \A i \in 0..n : put[i] \in Fillings(A, most)
  BY <1>1 DEF FillingsFit
<1>6. ASSUME NEW i \in 1..n PROVE Held(put[i - 1]) \cup Ats(units[i]) \subseteq Held(put[i])
  <2>1. i - 1 \in 0..n /\ put[i - 1] \in Fillings(A, most) /\ units[i] \in TextsAt(A)
    BY <1>2, <1>5
  <2> QED BY <1>3, <2>1, PutKeeps
<1>7. \A i \in Nat : i <= n => \A j \in 1..i : Ats(units[j]) \subseteq Held(put[i])
  <2> DEFINE S == {i \in Nat : i <= n => \A j \in 1..i : Ats(units[j]) \subseteq Held(put[i])}
  <2>1. 0 \in S
    OBVIOUS
  <2>2. ASSUME NEW i \in Nat, i \in S PROVE i + 1 \in S
    <3> SUFFICES ASSUME i + 1 <= n, NEW j \in 1..(i + 1) PROVE Ats(units[j]) \subseteq Held(put[i + 1])
      OBVIOUS
    <3>1. i <= n /\ i + 1 \in 1..n /\ (i + 1) - 1 = i /\ (j = i + 1 \/ j \in 1..i)
      BY <1>2
    <3>2. Held(put[i]) \cup Ats(units[i + 1]) \subseteq Held(put[i + 1])
      BY <1>6, <3>1
    <3> QED BY <2>2, <3>1, <3>2
  <2>3. Nat \subseteq S
    <3> HIDE DEF S
    <3> QED BY <2>1, <2>2, NatInduct
  <2> QED BY <2>3
<1>8. Held(put[n]) = PlacesOf(Filled(units, most, overlap))
  <2> DEFINE F == FitTexts(A, most) \cup {<<>>}
  <2>1. put[n] \in Fillings(A, most)
    BY <1>2, <1>5
  <2>2. put[n].out \in Seq(F) /\ put[n].cur \in F
    BY <2>1 DEF Fillings
  <2> HIDE DEF F
  <2> QED BY <1>4, <2>2, PlacesAppend DEF Held
<1>9. \A j \in 1..n : Ats(units[j]) \subseteq PlacesOf(Filled(units, most, overlap))
  BY <1>2, <1>7, <1>8
<1> QED BY <1>2, <1>9, PlacesAre

\* What a text is split into has all its words.
LEMMA SplitsKeep ==
  ASSUME NEW A, NEW text \in Seq(WordsAt(A)), NEW most \in Nat, most >= 2
  PROVE  Ats(text) \subseteq PlacesOf(Splits(text, most))
PROOF
<1> DEFINE overlap == EffectiveOverlap(most)
<1> DEFINE room == Most(most - overlap, most \div 2)
<1>1. CASE text = <<>>
  BY <1>1 DEF Ats, ToSet
<1>2. CASE text # <<>> /\ Size(text) <= most
  <2>1. Splits(text, most) = <<text>>
    BY <1>2 DEF Splits
  <2>2. 1 \in DOMAIN <<text>> /\ <<text>>[1] = text
    OBVIOUS
  <2>3. \A a \in Ats(text) : a \in PlacesOf(<<text>>)
    BY <2>2, PlacesAre
  <2> QED BY <2>1, <2>3
<1>3. CASE text # <<>> /\ ~(Size(text) <= most)
  <2>1. Splits(text, most) = Filled(Units(text, room), most, overlap)
    BY <1>3 DEF Splits
  <2>2. most \div 4 \in Nat
    OBVIOUS
  <2>3. overlap \in Nat /\ overlap <= Overlap /\ overlap <= most \div 4
    BY <2>2, ChunkingAssumption DEF EffectiveOverlap, Least
  <2> HIDE DEF overlap
  <2>4. room \in Nat /\ room + overlap <= most /\ room >= 1
    BY <2>3, Quarter
  <2> HIDE DEF room
  <2>5. /\ Units(text, room) \in Seq(Fits(A, room)) /\ Units(text, room) # <<>>
        /\ Ats(text) \subseteq PlacesOf(Units(text, room))
    BY <1>3, <2>4, UnitsAre, UnitsKeep DEF TextsAt
  <2>6. PlacesOf(Units(text, room)) \subseteq PlacesOf(Filled(Units(text, room), most, overlap))
    BY <2>3, <2>4, <2>5, FilledKeeps
  <2> QED BY <2>1, <2>5, <2>6
<1> QED BY <1>1, <1>2, <1>3

-----------------------------------------------------------------------------
(* Nor when a table is.                                                      *)

\* The lines some texts hold, and those of a filling.
WordsIn(ss) == UNION {ToSet(t) : t \in ToSet(ss)}
HeldLines(p) == WordsIn(p.out) \cup ToSet(p.cur)

\* One more text adds its lines.
LEMMA WordsAppend ==
  ASSUME NEW T, NEW ss \in Seq(T), NEW t \in T
  PROVE  WordsIn(Append(ss, t)) = WordsIn(ss) \cup ToSet(t)
PROOF
<1> DEFINE one == <<t>>
<1>1. one \in Seq(T) /\ ToSet(one) = {t}
  BY DEF ToSet
<1>2. Append(ss, t) = ss \o one
  OBVIOUS
<1> HIDE DEF one
<1>3. ToSet(ss \o one) = ToSet(ss) \cup ToSet(one)
  BY <1>1, JoinHas
<1> QED BY <1>1, <1>2, <1>3 DEF WordsIn

\* A row put behind others keeps them all.
LEMMA PutRowKeeps ==
  ASSUME NEW A, NEW room \in Nat, NEW p \in RowFillings(A, room), NEW row \in WordsAt(A)
  PROVE  HeldLines(p) \cup {row} \subseteq HeldLines(PutRow(p, row, room))
PROOF
<1> DEFINE T == WordsAt(A)
<1> DEFINE F == PartPacks(A, room)
<1> DEFINE q == PutRow(p, row, room)
<1>1. p.out \in Seq(F) /\ p.cur \in F \cup {<<>>}
  BY DEF RowFillings
<1>2. p.cur \in F => p.cur \in Seq(T) /\ p.cur # <<>>
  BY DEF PartPacks, TextsAt
<1>3. ASSUME NEW s \in Seq(T) PROVE ToSet(Append(s, row)) = ToSet(s) \cup {row}
  <2> DEFINE one == <<row>>
  <2>1. one \in Seq(T) /\ ToSet(one) = {row}
    BY DEF ToSet
  <2>2. Append(s, row) = s \o one
    OBVIOUS
  <2> HIDE DEF one, T
  <2>3. ToSet(s \o one) = ToSet(s) \cup ToSet(one)
    BY <2>1, JoinHas
  <2> QED BY <2>1, <2>2, <2>3
<1>4. CASE Reckoned(p.cur) + TokensOf(row.size) > room /\ p.cur # <<>>
  <2> DEFINE again == Again(p.cur, row, room)
  <2>1. q = [out |-> Append(p.out, p.cur), cur |-> Append(again, row)]
    BY <1>4 DEF PutRow
  <2>2. p.cur \in F /\ p.cur \in Seq(T)
    BY <1>1, <1>2, <1>4
  <2>3. again \in Seq(T)
    <3>1. Last(p.cur) \in T
      BY <1>4, <2>2 DEF Last
    <3> HIDE DEF T
    <3> QED BY <3>1 DEF Again
  <2> HIDE DEF again, F, q, T
  <2>4. WordsIn(Append(p.out, p.cur)) = WordsIn(p.out) \cup ToSet(p.cur)
    BY <1>1, <2>2, WordsAppend
  <2>5. ToSet(Append(again, row)) = ToSet(again) \cup {row}
    BY <1>3, <2>3
  <2>6. q.out = Append(p.out, p.cur) /\ q.cur = Append(again, row)
    BY <2>1
  <2> QED BY <2>4, <2>5, <2>6 DEF HeldLines, q
<1>5. CASE ~(Reckoned(p.cur) + TokensOf(row.size) > room /\ p.cur # <<>>)
  <2>1. q = [out |-> p.out, cur |-> Append(p.cur, row)]
    BY <1>5 DEF PutRow
  <2>2. p.cur \in Seq(T)
    <3>1. CASE p.cur = <<>>
      BY <3>1
    <3> HIDE DEF F, T
    <3> QED BY <1>1, <1>2, <3>1
  <2>3. ToSet(Append(p.cur, row)) = ToSet(p.cur) \cup {row}
    BY <1>3, <2>2
  <2> HIDE DEF q
  <2>4. q.out = p.out /\ q.cur = Append(p.cur, row)
    BY <2>1
  <2> QED BY <2>3, <2>4 DEF HeldLines, q
<1> QED BY <1>4, <1>5

\* The rows of a table are all in its parts, as they are fitted.
LEMMA RowPacksKeep ==
  ASSUME NEW A, NEW room \in Nat, room <= MaxTokens, NEW rows \in Seq(WordsAt(A)), rows # <<>>
  PROVE  \A i \in DOMAIN rows : Fitted(rows[i], room) \in WordsIn(RowPacks(rows, room))
PROOF
<1> DEFINE n == Len(rows)
<1>1. PICK put : RowFilling(put, rows, room) /\ RowFillingsFit(put, A, n, room)
  BY RowFillingIs
<1>2. n \in Nat /\ DOMAIN rows = 1..n /\ \A i \in 1..n : rows[i] \in WordsAt(A)
  OBVIOUS
<1>3. \A i \in 1..n : put[i] = PutRow(put[i - 1], Fitted(rows[i], room), room)
  BY <1>1 DEF RowFilling
<1>4. RowPacks(rows, room) = Append(put[n].out, put[n].cur)
  BY <1>1 DEF RowFilling
<1> HIDE DEF n
<1>5. \A i \in 0..n : put[i] \in RowFillings(A, room)
  BY <1>1 DEF RowFillingsFit
<1>6. ASSUME NEW i \in 1..n PROVE HeldLines(put[i - 1]) \cup {Fitted(rows[i], room)} \subseteq HeldLines(put[i])
  <2>1. i - 1 \in 0..n /\ put[i - 1] \in RowFillings(A, room) /\ rows[i] \in WordsAt(A)
    BY <1>2, <1>5
  <2>2. Fitted(rows[i], room) \in WordsAt(A)
    BY <2>1, FittedIs
  <2> QED BY <1>3, <2>1, <2>2, PutRowKeeps
<1>7. \A i \in Nat : i <= n => \A j \in 1..i : Fitted(rows[j], room) \in HeldLines(put[i])
  <2> DEFINE S == {i \in Nat : i <= n => \A j \in 1..i : Fitted(rows[j], room) \in HeldLines(put[i])}
  <2>1. 0 \in S
    OBVIOUS
  <2>2. ASSUME NEW i \in Nat, i \in S PROVE i + 1 \in S
    <3> SUFFICES ASSUME i + 1 <= n, NEW j \in 1..(i + 1) PROVE Fitted(rows[j], room) \in HeldLines(put[i + 1])
      OBVIOUS
    <3>1. i <= n /\ i + 1 \in 1..n /\ (i + 1) - 1 = i /\ (j = i + 1 \/ j \in 1..i)
      BY <1>2
    <3>2. HeldLines(put[i]) \cup {Fitted(rows[i + 1], room)} \subseteq HeldLines(put[i + 1])
      BY <1>6, <3>1
    <3> QED BY <2>2, <3>1, <3>2
  <2>3. Nat \subseteq S
    <3> HIDE DEF S
    <3> QED BY <2>1, <2>2, NatInduct
  <2> QED BY <2>3
<1>8. HeldLines(put[n]) = WordsIn(RowPacks(rows, room))
  <2> DEFINE F == PartPacks(A, room) \cup {<<>>}
  <2>1. put[n] \in RowFillings(A, room)
    BY <1>2, <1>5
  <2>2. put[n].out \in Seq(F) /\ put[n].cur \in F
    BY <2>1 DEF RowFillings
  <2> HIDE DEF F
  <2> QED BY <1>4, <2>2, WordsAppend DEF HeldLines
<1> QED BY <1>2, <1>7, <1>8

\* The end of a text has the words that are not before it.
LEMMA FromKeeps ==
  ASSUME NEW T, NEW s \in Seq(T), NEW i \in 1..Len(s)
  PROVE  \A k \in i..Len(s) : s[k] \in ToSet(From(s, i))
PROOF
<1> SUFFICES ASSUME NEW k \in i..Len(s) PROVE s[k] \in ToSet(From(s, i))
  OBVIOUS
<1> DEFINE t == From(s, i)
<1> DEFINE n == Len(s)
<1>1. n \in Nat /\ i \in Nat /\ k \in Nat /\ i >= 1 /\ i <= k /\ k <= n
  OBVIOUS
<1>2. Len(t) = n - i + 1 /\ t \in Seq(T) /\ \A l \in 1..(n - i + 1) : t[l] = s[i + l - 1]
  BY DEF From
<1> HIDE DEF t, n
<1>3. k - i + 1 \in 1..(n - i + 1) /\ i + (k - i + 1) - 1 = k
  BY <1>1
<1>4. k - i + 1 \in DOMAIN t /\ t[k - i + 1] = s[k]
  BY <1>2, <1>3
<1> QED BY <1>4 DEF ToSet, t

\* A table with room beside its head has all its lines in its parts, each as it is if it fits beside
\* the head; even a wide one has a part.
LEMMA TablePartsKeep ==
  ASSUME NEW A, NEW lines \in Seq(WordsAt(A)), NEW most \in Nat, most <= MaxTokens
  PROVE  /\ TableParts(lines, most) # <<>>
         /\ Len(lines) <= 2 \/ TokensOf(Size(TableHead(lines))) < most =>
              \A w \in ToSet(lines) :
                /\ w.at \in PlacesOf(TableParts(lines, most))
                /\ Len(lines) <= 2 \/ TokensOf(Size(TableHead(lines))) + TokensOf(w.size) <= most =>
                     w \in WordsIn(TableParts(lines, most))
PROOF
<1> DEFINE B == A \cup {Nowhere}
<1> DEFINE T == WordsAt(A)
<1> DEFINE U == WordsAt(B)
<1>1. T \subseteq U /\ (\A w \in U : w.size \in Nat)
  BY SizesOfWords DEF WordsAt
<1>2. CASE Len(lines) <= 2
  <2>1. TableParts(lines, most) = <<lines>>
    BY <1>2 DEF TableParts
  <2>2. WordsIn(<<lines>>) = ToSet(lines)
    BY DEF WordsIn, ToSet
  <2>3. \A w \in ToSet(lines) : w.at \in PlacesOf(<<lines>>)
    BY <2>2 DEF PlacesOf, WordsIn
  <2> QED BY <2>1, <2>2, <2>3
<1>3. CASE ~(Len(lines) <= 2)
  <2> DEFINE head == TableHead(lines)
  <2> DEFINE h == TokensOf(Size(head))
  <2> DEFINE room == most - h
  <2> DEFINE rule == IF lines[2].kind = "rule" THEN lines[2] ELSE NoRule
  <2>1. Len(lines) \in Nat /\ Len(lines) >= 3 /\ lines[1] \in T /\ lines[2] \in T
    BY <1>3
  <2>2. head \in Seq(U) /\ ToSet(head) = {lines[1], rule}
    BY <2>1, HeadIs DEF head
  <2>3. Size(head) \in Nat /\ h \in Nat
    BY <2>1, HeadIs, TokensAre DEF head
  <2> HIDE DEF head, h
  <2>4. CASE room <= 0
    <3> DEFINE s == CutOff(lines, 3 * most)
    <3>1. TableParts(lines, most) = <<s>>
      BY <1>3, <2>4 DEF TableParts, head, h
    <3> HIDE DEF s
    <3>2. TableParts(lines, most) # <<>>
      BY <3>1
    <3>3. ~(h < most)
      BY <2>3, <2>4
    <3> QED BY <1>3, <3>2, <3>3 DEF head, h
  <2>5. CASE ~(room <= 0)
    <3> DEFINE first == IF lines[2].kind = "rule" THEN 3 ELSE 2
    <3> DEFINE rows == From(lines, first)
    <3> DEFINE packs == RowPacks(rows, room)
    <3> DEFINE F == PartPacks(A, room)
    <3> DEFINE ps == TableParts(lines, most)
    <3>1. ps = [i \in DOMAIN packs |-> head \o packs[i]]
      <4>1. ps = Headed(head, RowPacks(TableRows(lines), room))
        BY <1>3, <2>5 DEF TableParts, head, h
      <4>2. TableRows(lines) = rows
        BY DEF TableRows
      <4> QED BY <4>1, <4>2 DEF Headed
    <3>2. first \in 1..Len(lines) /\ first \in Nat
      BY <2>1
    <3>3. \A k \in DOMAIN lines : k = 1 \/ (k = 2 /\ lines[2] = rule) \/ k \in first..Len(lines)
      BY <2>1
    <3> HIDE DEF first, rule
    <3>4. rows \in Seq(T) /\ rows # <<>> /\ \A k \in first..Len(lines) : lines[k] \in ToSet(rows)
      BY <1>1, <3>2, FromIs, FromKeeps
    <3>5. room \in Nat /\ room <= MaxTokens /\ \A n \in Nat : h + n <= most => n <= room
      BY <2>3, <2>5, ChunkingAssumption
    <3> HIDE DEF rows, room, ps
    <3>6. packs \in Seq(F) /\ \A i \in DOMAIN rows : Fitted(rows[i], room) \in WordsIn(packs)
      BY <3>4, <3>5, RowPacksAre, RowPacksKeep
    <3> HIDE DEF packs
    <3>7. ASSUME NEW i \in DOMAIN packs PROVE ToSet(head) \cup ToSet(packs[i]) \subseteq WordsIn(ps)
      <4> DEFINE s == packs[i]
      <4>1. s \in F
        BY <3>6
      <4> HIDE DEF s
      <4>2. s \in Seq(T)
        BY <4>1 DEF PartPacks, TextsAt
      <4> HIDE DEF T, U
      <4>3. s \in Seq(U)
        BY <1>1, <4>2, Wider
      <4>4. ToSet(head \o s) = ToSet(head) \cup ToSet(s)
        BY <2>2, <4>3, JoinHas
      <4>5. i \in DOMAIN ps /\ ps[i] = head \o s
        BY <3>1 DEF s
      <4>6. head \o s \in ToSet(ps)
        BY <4>5 DEF ToSet
      <4> QED BY <4>4, <4>6 DEF s, WordsIn
    <3>8. WordsIn(packs) \subseteq WordsIn(ps)
      <4> SUFFICES ASSUME NEW s \in ToSet(packs), NEW w \in ToSet(s) PROVE w \in WordsIn(ps)
        BY DEF WordsIn
      <4>1. PICK i \in DOMAIN packs : packs[i] = s
        BY DEF ToSet
      <4> QED BY <3>7, <4>1
    <3>9. \E i \in DOMAIN packs : TRUE
      <4>1. 1 \in DOMAIN rows
        <5> HIDE DEF T
        <5> QED BY <3>4
      <4>2. WordsIn(packs) # {}
        BY <3>6, <4>1
      <4> QED BY <4>2 DEF WordsIn, ToSet
    <3>10. ps # <<>> /\ ToSet(head) \subseteq WordsIn(ps)
      <4>1. PICK i \in DOMAIN packs : TRUE
        BY <3>9
      <4>2. i \in DOMAIN ps
        BY <3>1
      <4> QED BY <3>7, <4>1, <4>2
    <3>11. ASSUME NEW w \in ToSet(lines)
           PROVE  w.at \in PlacesOf(ps) /\ (h + TokensOf(w.size) <= most => w \in WordsIn(ps))
      <4>1. PICK k \in DOMAIN lines : w = lines[k]
        BY DEF ToSet
      <4>2. \A v \in WordsIn(ps) : v.at \in PlacesOf(ps)
        BY DEF WordsIn, PlacesOf
      <4>3. CASE k = 1 \/ (k = 2 /\ lines[2] = rule)
        <5>1. w \in ToSet(head)
          BY <2>2, <4>1, <4>3
        <5> QED BY <3>10, <4>2, <5>1
      <4>4. CASE k \in first..Len(lines)
        <5>1. w \in ToSet(rows)
          BY <3>4, <4>1, <4>4
        <5>2. PICK i \in DOMAIN rows : rows[i] = w
          BY <5>1 DEF ToSet
        <5>3. w \in WordsAt(A) /\ w.size \in Nat
          <6>1. w \in T
            BY <4>1
          <6> QED BY <1>1, <6>1
        <5>4. Fitted(w, room) \in WordsIn(ps)
          BY <3>6, <3>8, <5>2
        <5>5. Fitted(w, room).at = w.at /\ (TokensOf(w.size) <= room => Fitted(w, room) = w)
          BY <3>5, <5>3, FittedIs
        <5>6. TokensOf(w.size) \in Nat
          BY <5>3, TokensAre
        <5>7. h + TokensOf(w.size) <= most => TokensOf(w.size) <= room
          BY <3>5, <5>6
        <5>8. w.at \in PlacesOf(ps)
          BY <4>2, <5>4, <5>5
        <5> QED BY <5>4, <5>5, <5>7, <5>8
      <4> QED BY <3>3, <4>1, <4>3, <4>4
    <3> QED BY <1>3, <3>10, <3>11 DEF ps, head, h
  <2> QED BY <2>4, <2>5
<1> QED BY <1>2, <1>3

-----------------------------------------------------------------------------
(* Numbers in order, and words that are larger than others.                  *)

Ascending(s) == \A k, l \in DOMAIN s : k < l => s[k] < s[l]

\* There is one way to put a set of numbers in order.
LEMMA OneOrder ==
  ASSUME NEW s \in Seq(Nat), NEW t \in Seq(Nat), Ascending(s), Ascending(t), ToSet(s) = ToSet(t)
  PROVE  s = t
PROOF
<1> DEFINE m == Len(s)
<1> DEFINE n == Len(t)
<1>1. /\ m \in Nat /\ n \in Nat
      /\ \A k \in 1..m : s[k] \in Nat /\ \E l \in 1..n : s[k] = t[l]
      /\ \A l \in 1..n : t[l] \in Nat /\ \E k \in 1..m : t[l] = s[k]
  <2>1. m \in Nat /\ n \in Nat /\ DOMAIN s = 1..m /\ DOMAIN t = 1..n
    OBVIOUS
  <2>2. (\A k \in 1..m : s[k] \in Nat) /\ (\A l \in 1..n : t[l] \in Nat)
    OBVIOUS
  <2> HIDE DEF m, n
  <2> QED BY <2>1, <2>2 DEF ToSet
<1>2. /\ \A k, l \in 1..m : k < l => s[k] < s[l]
      /\ \A k, l \in 1..n : k < l => t[k] < t[l]
  BY DEF Ascending
<1> DEFINE Same(k) == k <= m /\ k <= n /\ s[k] = t[k]
<1> DEFINE S == {k \in Nat : \A j \in 1..k : (j <= m \/ j <= n) => Same(j)}
<1> HIDE DEF m, n
<1>3. 0 \in S
  OBVIOUS
<1>4. ASSUME NEW k \in Nat, k \in S PROVE k + 1 \in S
  <2> SUFFICES ASSUME k + 1 <= m \/ k + 1 <= n PROVE Same(k + 1)
    <3>1. ASSUME NEW j \in 1..(k + 1), j <= m \/ j <= n PROVE Same(j)
      <4>1. j \in 1..k \/ j = k + 1
        OBVIOUS
      <4> HIDE DEF Same
      <4> QED BY <1>4, <3>1, <4>1
    <3> HIDE DEF Same
    <3> QED BY <3>1
  <2>1. \A j \in 1..k : (j <= m \/ j <= n) => j <= m /\ j <= n /\ s[j] = t[j]
    BY <1>4
  <2>2. ASSUME k + 1 <= m PROVE \E l \in 1..n : l >= k + 1 /\ s[k + 1] = t[l]
    <3>1. k + 1 \in 1..m
      BY <1>1, <2>2
    <3>2. PICK l \in 1..n : s[k + 1] = t[l]
      BY <1>1, <3>1
    <3>3. l >= k + 1
      <4> SUFFICES ASSUME ~(l >= k + 1) PROVE FALSE
        OBVIOUS
      <4>1. l \in 1..k /\ l < k + 1 /\ l <= n
        BY <1>1
      <4>2. l <= m /\ s[l] = t[l] /\ l \in 1..m
        <5>1. l <= m /\ s[l] = t[l]
          BY <2>1, <4>1
        <5> QED BY <1>1, <4>1, <5>1
      <4>3. s[l] < s[k + 1] /\ s[l] \in Nat
        BY <1>1, <1>2, <3>1, <4>1, <4>2
      <4>4. s[k + 1] = s[l]
        BY <3>2, <4>2
      <4> QED BY <4>3, <4>4
    <3> QED BY <3>2, <3>3
  <2>3. ASSUME k + 1 <= n PROVE \E l \in 1..m : l >= k + 1 /\ t[k + 1] = s[l]
    <3>1. k + 1 \in 1..n
      BY <1>1, <2>3
    <3>2. PICK l \in 1..m : t[k + 1] = s[l]
      BY <1>1, <3>1
    <3>3. l >= k + 1
      <4> SUFFICES ASSUME ~(l >= k + 1) PROVE FALSE
        OBVIOUS
      <4>1. l \in 1..k /\ l < k + 1 /\ l <= m
        BY <1>1
      <4>2. l <= n /\ s[l] = t[l] /\ l \in 1..n
        <5>1. l <= n /\ s[l] = t[l]
          BY <2>1, <4>1
        <5> QED BY <1>1, <4>1, <5>1
      <4>3. t[l] < t[k + 1] /\ t[l] \in Nat
        BY <1>1, <1>2, <3>1, <4>1, <4>2
      <4>4. t[k + 1] = t[l]
        BY <3>2, <4>2
      <4> QED BY <4>3, <4>4
    <3> QED BY <3>2, <3>3
  <2>4. k + 1 <= m /\ k + 1 <= n
    BY <1>1, <2>2, <2>3
  <2>5. k + 1 \in 1..m /\ k + 1 \in 1..n
    BY <1>1, <2>4
  <2>6. PICK l \in 1..n : l >= k + 1 /\ s[k + 1] = t[l]
    BY <2>2, <2>4
  <2>7. PICK j \in 1..m : j >= k + 1 /\ t[k + 1] = s[j]
    BY <2>3, <2>4
  <2>8. t[k + 1] <= s[k + 1]
    <3>1. CASE l = k + 1
      BY <1>1, <2>5, <2>6, <3>1
    <3>2. CASE k + 1 < l
      <4>1. t[k + 1] < t[l]
        BY <1>2, <2>5, <3>2
      <4>2. t[k + 1] \in Nat /\ t[l] \in Nat
        BY <1>1, <2>5
      <4> QED BY <2>6, <4>1, <4>2
    <3> QED BY <1>1, <2>6, <3>1, <3>2
  <2>9. s[k + 1] <= t[k + 1]
    <3>1. CASE j = k + 1
      BY <1>1, <2>5, <2>7, <3>1
    <3>2. CASE k + 1 < j
      <4>1. s[k + 1] < s[j]
        BY <1>2, <2>5, <3>2
      <4>2. s[k + 1] \in Nat /\ s[j] \in Nat
        BY <1>1, <2>5
      <4> QED BY <2>7, <4>1, <4>2
    <3> QED BY <1>1, <2>7, <3>1, <3>2
  <2>10. s[k + 1] \in Nat /\ t[k + 1] \in Nat
    BY <1>1, <2>5
  <2> QED BY <2>4, <2>8, <2>9, <2>10
<1>5. Nat \subseteq S
  <2> HIDE DEF S
  <2> QED BY <1>3, <1>4, NatInduct
<1>6. m = n
  <2> SUFFICES ASSUME m # n PROVE FALSE
    OBVIOUS
  <2>1. m + n \in S
    <3>1. m + n \in Nat
      BY <1>1
    <3> HIDE DEF S
    <3> QED BY <1>5, <3>1
  <2>2. CASE m < n
    <3>1. n \in 1..(m + n) /\ n <= n
      BY <1>1, <2>2
    <3>2. n <= m
      BY <2>1, <3>1
    <3> QED BY <1>1, <2>2, <3>2
  <2>3. CASE n < m
    <3>1. m \in 1..(m + n) /\ m <= m
      BY <1>1, <2>3
    <3>2. m <= n
      BY <2>1, <3>1
    <3> QED BY <1>1, <2>3, <3>2
  <2> QED BY <1>1, <2>2, <2>3
<1>7. \A k \in 1..m : s[k] = t[k]
  <2> SUFFICES ASSUME NEW k \in 1..m PROVE s[k] = t[k]
    OBVIOUS
  <2>1. m \in S /\ k <= m
    <3> HIDE DEF S
    <3> QED BY <1>1, <1>5
  <2> QED BY <2>1
<1> QED BY <1>6, <1>7, SameSeq DEF m, n

\* A sequence that ascends is the order of what is in it.
LEMMA OrderOf ==
  ASSUME NEW s \in Seq(Nat), Ascending(s), IsFiniteSet(ToSet(s))
  PROVE  s = InOrder(ToSet(s))
PROOF
<1> DEFINE S == ToSet(s)
<1>1. S \in SUBSET Nat /\ IsFiniteSet(S)
  BY DEF ToSet
<1> HIDE DEF S
<1>2. /\ InOrder(S) \in Seq(S) /\ ToSet(InOrder(S)) = S
      /\ \A k, l \in DOMAIN InOrder(S) : k < l => InOrder(S)[k] < InOrder(S)[l]
  BY <1>1, InOrderIs
<1> DEFINE t == InOrder(S)
<1> HIDE DEF t
<1>3. t \in Seq(Nat) /\ ToSet(t) = S /\ Ascending(t)
  <2>1. t \in Seq(S) /\ ToSet(t) = S
    BY <1>2 DEF t
  <2>2. Ascending(t)
    BY <1>2 DEF t, Ascending
  <2>3. t \in Seq(Nat)
    <3>1. Len(t) \in Nat /\ t = [k \in 1..Len(t) |-> t[k]] /\ \A k \in 1..Len(t) : t[k] \in S
      BY <2>1
    <3>2. \A k \in 1..Len(t) : t[k] \in Nat
      BY <1>1, <3>1
    <3> QED BY <3>1, <3>2, ListIs
  <2> QED BY <2>1, <2>2, <2>3
<1>4. s = t
  BY <1>3, OneOrder DEF S
<1> QED BY <1>4 DEF t, S

\* No word is larger than its text.
LEMMA WordsFit ==
  ASSUME NEW s \in Seq(Word), NEW w \in ToSet(s)
  PROVE  Size(s) \in Nat /\ w.size \in Nat /\ w.size <= Size(s)
PROOF
<1> DEFINE n == Len(s)
<1>1. \A v \in Word : v.size \in Nat
  BY DEF Word
<1>2. n \in Nat /\ \A i \in 1..n : s[i] \in Word
  OBVIOUS
<1>3. PICK f \in [0..n -> Nat] : f[0] = 0 /\ f[n] = Size(s) /\ \A i \in 1..n : f[i] = f[i - 1] + s[i].size
  BY <1>1, SizesAre
<1>4. PICK i \in 1..n : w = s[i]
  BY DEF ToSet
<1> HIDE DEF n
<1>5. f[i] >= w.size /\ w.size \in Nat
  <2>1. i - 1 \in 0..n /\ w.size \in Nat
    BY <1>1, <1>2, <1>4
  <2>2. f[i - 1] \in Nat /\ f[i] = f[i - 1] + w.size
    BY <1>3, <1>4, <2>1
  <2> QED BY <2>1, <2>2
<1> DEFINE S == {k \in Nat : i + k <= n => f[i + k] >= f[i]}
<1>6. 0 \in S
  <2>1. i + 0 = i /\ f[i] \in Nat
    BY <1>2, <1>3
  <2> QED BY <2>1
<1>7. ASSUME NEW k \in Nat, k \in S PROVE k + 1 \in S
  <2> SUFFICES ASSUME i + (k + 1) <= n PROVE f[i + (k + 1)] >= f[i]
    OBVIOUS
  <2> DEFINE j == i + (k + 1)
  <2>1. j \in 1..n /\ j - 1 = i + k /\ i + k \in 0..n /\ i + k <= n /\ i \in 0..n
    BY <1>2
  <2>2. f[i + k] >= f[i]
    BY <1>7, <2>1
  <2>3. s[j].size \in Nat
    BY <1>1, <1>2, <2>1
  <2> HIDE DEF j
  <2>4. f[j] = f[i + k] + s[j].size
    BY <1>3, <2>1
  <2>5. f[i + k] \in Nat /\ f[i] \in Nat
    BY <1>3, <2>1
  <2>6. f[j] >= f[i]
    BY <2>2, <2>3, <2>4, <2>5
  <2> QED BY <2>6 DEF j
<1>8. Nat \subseteq S
  <2> HIDE DEF S
  <2> QED BY <1>6, <1>7, NatInduct
<1>9. f[n] >= f[i]
  <2>1. n - i \in Nat /\ i + (n - i) = n /\ n <= n
    BY <1>2
  <2>2. n - i \in S
    BY <1>8, <2>1
  <2> QED BY <2>1, <2>2
<1>10. f[n] \in Nat /\ f[i] \in Nat
  BY <1>2, <1>3
<1> QED BY <1>3, <1>5, <1>9, <1>10

\* The largest word of a text, less one.
LEMMA LargestIs ==
  ASSUME NEW s \in Seq(Word)
  PROVE  /\ Max({0} \cup {w.size - 1 : w \in ToSet(s)}) \in Nat
         /\ \A w \in ToSet(s) : w.size - 1 <= Max({0} \cup {v.size - 1 : v \in ToSet(s)})
PROOF
<1> DEFINE S == {0} \cup {w.size - 1 : w \in ToSet(s)}
<1> DEFINE P == S \cap Nat
<1>1. \A w \in ToSet(s) : Size(s) \in Nat /\ w.size \in Nat /\ w.size <= Size(s)
  BY WordsFit
<1>2. Size(s) \in Nat
  <2>1. \A v \in Word : v.size \in Nat
    BY DEF Word
  <2> QED BY <2>1, SizeAdds
<1>3. P \in SUBSET (0..Size(s)) /\ P # {}
  BY <1>1, <1>2
<1>4. PICK m \in P : \A k \in P : k <= m
  <2> HIDE DEF P
  <2> QED BY <1>2, <1>3, Greatest
<1>5. m \in S /\ m \in Nat
  OBVIOUS
<1>6. \A x \in S : x \in Int
  BY <1>1
<1>7. \A x \in S : m >= x
  <2> SUFFICES ASSUME NEW x \in S PROVE m >= x
    OBVIOUS
  <2>1. CASE x \in Nat
    <3>1. x \in P
      BY <2>1
    <3> HIDE DEF P, S
    <3> QED BY <1>4, <1>5, <2>1, <3>1
  <2>2. CASE ~(x \in Nat)
    <3> HIDE DEF S
    <3>1. x \in Int
      BY <1>6
    <3> QED BY <1>5, <2>2, <3>1
  <2> QED BY <2>1, <2>2
<1> DEFINE x == Max(S)
<1>8. x \in S /\ \A y \in S : x >= y
  <2> HIDE DEF S
  <2> QED BY <1>5, <1>7 DEF Max
<1>9. x \in Int /\ x >= 0
  <2>1. 0 \in S
    OBVIOUS
  <2> HIDE DEF S, x
  <2> QED BY <1>6, <1>8, <2>1
<1>10. \A w \in ToSet(s) : w.size - 1 \in S /\ w.size - 1 \in Int
  BY <1>1
<1>11. \A w \in ToSet(s) : w.size - 1 <= x
  <2> HIDE DEF S, x
  <2> QED BY <1>8, <1>9, <1>10
<1> QED BY <1>9, <1>11

-----------------------------------------------------------------------------
(* What is so at every step of the reading of a document.                    *)

ChunkType == [kind : {"text", "table", "figure"}, page : Nat, text : Seq(Word), headings : Headings, size : Nat]

IngestType ==
  /\ phase \in {"probe", "parse", "chunk", "done", "failed"} /\ doc \in Documents /\ page \in Nat
  /\ next \in 1..(Len(blocks) + 1) /\ blocks \in Seq(BlockType) /\ Apart(blocks)
  /\ stack \in Headings /\ chunks \in Seq(ChunkType)
  /\ phase \in {"probe", "parse"} => blocks = <<>> /\ stack = <<>> /\ accum = <<>> /\ chunks = <<>>

Under(hs) == [i \in DOMAIN hs |-> hs[i].at]

\* Unless the document skips a level, the headings on the stack are those in force, one of each level.
StackIsCurrent ==
  NoLevelSkipped =>
    /\ {stack[k].at : k \in DOMAIN stack} = InForce(next)
    /\ \A k \in DOMAIN stack : blocks[stack[k].at].level = k
    /\ \A k, l \in DOMAIN stack : k < l => stack[k].at < stack[l].at

\* The words gathered are of blocks of this page that have no heading after them.
Gathering == {i \in 1..(next - 1) : blocks[i].page = page /\ \A k \in i..(next - 1) : ~IsHeading(k)}
AccumIsGathered == accum \in Seq(WordsAt(UNION {Ats(blocks[i].text) : i \in Gathering}))

\* A chunk is of one page, ends in a block whose headings it has, and fits.
OnItsPage(c) ==
  \A w \in ToSet(c.text) : w.at # Nowhere =>
    \E i \in DOMAIN blocks : blocks[i].page = c.page /\ w.at \in Ats(blocks[i].text)
Filed(c) ==
  c.text # <<>> => \E i \in DOMAIN blocks : /\ c.text[Len(c.text)].at \in Ats(blocks[i].text)
                                            /\ NoLevelSkipped => Under(c.headings) = Above(i)
FitsCap(c) ==
  IF c.kind = "table" THEN PartFits(c)
  ELSE /\ c.text # <<>>
       /\ \/ c.size <= MaxTokens - Slack + (3 * Overlap) \div 10
          \/ \E w \in ToSet(c.text) : c.size <= MaxTokens - Slack + w.size - 1
Sound(c) == OnItsPage(c) /\ Filed(c) /\ FitsCap(c)

TitlesOnly(c) == phase = "done" /\ c.kind # "table" /\ c.text = <<>> /\ c.size = Size(stack)

ChunksAreSound == \A c \in ToSet(chunks) : Sound(c) \/ TitlesOnly(c)

IngestInv == IngestType /\ StackIsCurrent /\ AccumIsGathered /\ ChunksAreSound

-----------------------------------------------------------------------------
(* The headings in force.                                                    *)

\* Between two headings the headings in force stay the same.
LEMMA InForceSame ==
  ASSUME NEW n \in Nat, NEW i \in 1..n, \A k \in i..(n - 1) : ~IsHeading(k)
  PROVE  InForce(i) = InForce(n)
PROOF
<1>1. ASSUME NEW j \in InForce(i) PROVE j \in InForce(n)
  <2>1. /\ j \in 1..(i - 1) /\ IsHeading(j)
        /\ \A k \in (j + 1)..(i - 1) : IsHeading(k) => blocks[k].level > blocks[j].level
    BY DEF InForce
  <2>2. j \in 1..(n - 1)
    BY <2>1
  <2>3. ASSUME NEW k \in (j + 1)..(n - 1), IsHeading(k) PROVE blocks[k].level > blocks[j].level
    <3>1. k \notin i..(n - 1)
      BY <2>3
    <3>2. k \in (j + 1)..(i - 1)
      BY <2>1, <3>1
    <3> QED BY <2>1, <2>3, <3>2
  <2> QED BY <2>1, <2>2, <2>3 DEF InForce
<1>2. ASSUME NEW j \in InForce(n) PROVE j \in InForce(i)
  <2>1. /\ j \in 1..(n - 1) /\ IsHeading(j)
        /\ \A k \in (j + 1)..(n - 1) : IsHeading(k) => blocks[k].level > blocks[j].level
    BY DEF InForce
  <2>2. j \in 1..(i - 1)
    <3>1. j \notin i..(n - 1)
      BY <2>1
    <3> QED BY <2>1, <3>1
  <2>3. \A k \in (j + 1)..(i - 1) : k \in (j + 1)..(n - 1)
    BY <2>1
  <2> QED BY <2>1, <2>2, <2>3 DEF InForce
<1> QED BY <1>1, <1>2

\* A heading leaves those before it that are above its level.
LEMMA InForceHeading ==
  ASSUME NEW n \in Nat \ {0}, IsHeading(n)
  PROVE  InForce(n + 1) = {j \in InForce(n) : blocks[n].level > blocks[j].level} \cup {n}
PROOF
<1>1. n \in InForce(n + 1)
  <2>1. n \in 1..((n + 1) - 1) /\ (n + 1)..((n + 1) - 1) = {}
    OBVIOUS
  <2> QED BY <2>1 DEF InForce
<1>2. ASSUME NEW j \in InForce(n), blocks[n].level > blocks[j].level PROVE j \in InForce(n + 1)
  <2>1. /\ j \in 1..(n - 1) /\ IsHeading(j)
        /\ \A k \in (j + 1)..(n - 1) : IsHeading(k) => blocks[k].level > blocks[j].level
    BY DEF InForce
  <2>2. j \in 1..((n + 1) - 1)
    BY <2>1
  <2>3. ASSUME NEW k \in (j + 1)..((n + 1) - 1), IsHeading(k) PROVE blocks[k].level > blocks[j].level
    <3>1. k = n \/ k \in (j + 1)..(n - 1)
      BY <2>1
    <3> QED BY <1>2, <2>1, <2>3, <3>1
  <2> QED BY <2>1, <2>2, <2>3 DEF InForce
<1>3. ASSUME NEW j \in InForce(n + 1), j # n PROVE j \in InForce(n) /\ blocks[n].level > blocks[j].level
  <2>1. /\ j \in 1..((n + 1) - 1) /\ IsHeading(j)
        /\ \A k \in (j + 1)..((n + 1) - 1) : IsHeading(k) => blocks[k].level > blocks[j].level
    BY DEF InForce
  <2>2. j \in 1..(n - 1)
    BY <1>3, <2>1
  <2>3. \A k \in (j + 1)..(n - 1) : k \in (j + 1)..((n + 1) - 1)
    BY <2>2
  <2>4. n \in (j + 1)..((n + 1) - 1)
    BY <2>2
  <2> QED BY <2>1, <2>2, <2>3, <2>4 DEF InForce
<1> QED BY <1>1, <1>2, <1>3

\* The headings on the stack are those a block is under.
LEMMA UnderIs ==
  ASSUME IngestType, StackIsCurrent, NoLevelSkipped
  PROVE  Under(stack) = Above(next) /\ Len(Above(next)) = Len(stack)
PROOF
<1> DEFINE s == Under(stack)
<1> DEFINE n == Len(stack)
<1>1. n \in Nat /\ DOMAIN stack = 1..n /\ \A k \in 1..n : stack[k].at \in Nat
  <2> DEFINE H == [at : Nat, size : Nat]
  <2>1. stack \in Seq(H) /\ \A h \in H : h.at \in Nat
    BY DEF IngestType, Headings
  <2> HIDE DEF H
  <2> QED BY <2>1
<1>2. DOMAIN s = 1..n /\ s = [k \in 1..n |-> s[k]] /\ \A k \in 1..n : s[k] = stack[k].at
  BY <1>1 DEF Under
<1> HIDE DEF s, n
<1>3. s \in Seq(Nat) /\ Len(s) = n
  BY <1>1, <1>2, ListIs
<1>4. ToSet(s) = {stack[k].at : k \in DOMAIN stack}
  BY <1>1, <1>2 DEF ToSet
<1>5. ToSet(s) = InForce(next)
  BY <1>4 DEF StackIsCurrent
<1>6. Ascending(s)
  BY <1>1, <1>2 DEF StackIsCurrent, Ascending
<1>7. IsFiniteSet(InForce(next))
  <2>1. InForce(next) \subseteq 1..(next - 1)
    BY DEF InForce
  <2>2. IsFiniteSet(1..(next - 1))
    <3>1. next - 1 \in Int
      BY DEF IngestType
    <3> QED BY <3>1, FS_Interval
  <2> QED BY <2>1, <2>2, FS_Subset
<1>8. s = InOrder(InForce(next))
  BY <1>3, <1>5, <1>6, <1>7, OrderOf
<1> QED BY <1>3, <1>8 DEF s, n, Above

-----------------------------------------------------------------------------
(* What is put out.                                                          *)

AllSound(cs) == cs \in Seq(ChunkType) /\ \A c \in ToSet(cs) : Sound(c)

\* Sound chunks behind sound chunks.
LEMMA JoinSound ==
  ASSUME NEW cs, AllSound(cs), NEW ds, AllSound(ds)
  PROVE  AllSound(cs \o ds)
PROOF
<1>1. cs \in Seq(ChunkType) /\ ds \in Seq(ChunkType)
  BY DEF AllSound
<1>2. cs \o ds \in Seq(ChunkType) /\ ToSet(cs \o ds) = ToSet(cs) \cup ToSet(ds)
  BY <1>1, JoinHas
<1> QED BY <1>2 DEF AllSound

\* These words stand on this page, under the headings of now.
Stands(A, p) == \A a \in A : \E i \in DOMAIN blocks : blocks[i].page = p /\ a \in Ats(blocks[i].text) /\ InForce(i) = InForce(next)

\* What is cut from such words to its budget makes sound chunks.
LEMMA PutOutSound ==
  ASSUME IngestType, StackIsCurrent, NEW A, NEW p \in Nat, Stands(A, p),
         NEW kind \in {"text", "table", "figure"}, NEW room \in {TextCrumb, BlockCrumb},
         NEW wide \in BOOLEAN, wide => A \subseteq WideLines,
         NEW texts \in Seq(IF kind = "table" THEN FitTables(A, BudgetUnder(stack, room), wide)
                                             ELSE FitTexts(A, BudgetUnder(stack, room)))
  PROVE  AllSound(ChunksOf(kind, p, texts, PrefixTokens(stack, room)))
PROOF
<1> DEFINE b == BudgetUnder(stack, room)
<1> DEFINE pre == PrefixTokens(stack, room)
<1> DEFINE n == Len(texts)
<1> DEFINE F == IF kind = "table" THEN FitTables(A, b, wide) ELSE FitTexts(A, b)
<1>1. stack \in Headings
  BY DEF IngestType
<1>2. b \in Nat /\ pre \in Nat /\ pre + b <= MaxTokens - Slack /\ MaxTokens \in Nat /\ Slack \in Nat
  BY <1>1, BudgetIs, ChunkingAssumption
<1> HIDE DEF b, pre
<1>3. n \in Nat /\ DOMAIN texts = 1..n /\ \A i \in 1..n : texts[i] \in F
  <2>1. texts \in Seq(F)
    BY DEF b
  <2> HIDE DEF F
  <2> QED BY <2>1
<1> HIDE DEF n
<1>4. ASSUME NEW i \in 1..n
      PROVE  Cited(kind, p, texts[i], pre) \in ChunkType /\ Sound(Cited(kind, p, texts[i], pre))
  <2> DEFINE s == texts[i]
  <2> DEFINE c == Cited(kind, p, s, pre)
  <2>1. s \in F
    BY <1>3
  <2> HIDE DEF s
  <2>2. /\ s \in Seq(Word) /\ Size(s) \in Nat
        /\ \A w \in ToSet(s) : w.at # Nowhere => w.at \in A
        /\ s # <<>> => s[Len(s)].at \in A
        /\ \A w \in ToSet(s) : w.size \in Nat
    <3>1. WordsAt(A \cup {Nowhere}) \subseteq Word /\ WordsAt(A) \subseteq WordsAt(A \cup {Nowhere})
      BY DEF WordsAt
    <3>2. s \in Seq(WordsAt(A \cup {Nowhere})) /\ (s # <<>> => s[Len(s)].at \in A)
      <4>1. CASE kind = "table"
        BY <2>1, <4>1 DEF FitTables
      <4>2. CASE kind # "table"
        <5>1. s \in Seq(WordsAt(A)) /\ s # <<>>
          BY <2>1, <4>2 DEF FitTexts, TextsAt
        <5>2. s[Len(s)] \in WordsAt(A)
          BY <5>1
        <5>3. s[Len(s)].at \in A
          BY <5>2 DEF WordsAt
        <5>4. s \in Seq(WordsAt(A \cup {Nowhere}))
          BY <3>1, <5>1, Wider
        <5> QED BY <5>3, <5>4
      <4> QED BY <4>1, <4>2
    <3>3. s \in Seq(Word)
      BY <3>1, <3>2
    <3>4. \A w \in ToSet(s) : w \in WordsAt(A \cup {Nowhere})
      BY <3>2 DEF ToSet
    <3>5. \A w \in ToSet(s) : w.size \in Nat /\ (w.at # Nowhere => w.at \in A)
      BY <3>4, SizesOfWords DEF WordsAt
    <3>6. Size(s) \in Nat
      BY <3>2, SizesOfWords, SizeAdds
    <3> QED BY <3>2, <3>3, <3>5, <3>6
  <2> DEFINE size == IF kind = "table" THEN TokensOf(Size(s)) ELSE Size(s)
  <2>0. size \in Nat
    BY <2>2, TokensAre
  <2>3. c \in ChunkType
    <3>1. c = [kind |-> kind, page |-> p, text |-> s, headings |-> stack, size |-> pre + size]
      BY DEF Cited
    <3> HIDE DEF size, c
    <3> QED BY <1>1, <1>2, <2>0, <2>2, <3>1 DEF ChunkType
  <2>4. /\ c.kind = kind /\ c.page = p /\ c.text = s /\ c.headings = stack
        /\ c.size = pre + IF kind = "table" THEN TokensOf(Size(s)) ELSE Size(s)
    BY DEF Cited
  <2> HIDE DEF c
  <2>5. OnItsPage(c)
    BY <2>2, <2>4 DEF OnItsPage, Stands
  <2>6. Filed(c)
    <3> SUFFICES ASSUME s # <<>>
                 PROVE  \E j \in DOMAIN blocks : /\ s[Len(s)].at \in Ats(blocks[j].text)
                                                 /\ NoLevelSkipped => Under(stack) = Above(j)
      BY <2>4 DEF Filed
    <3>1. PICK j \in DOMAIN blocks : s[Len(s)].at \in Ats(blocks[j].text) /\ InForce(j) = InForce(next)
      BY <2>2 DEF Stands
    <3>2. NoLevelSkipped => Under(stack) = Above(j)
      BY <3>1, UnderIs DEF Above
    <3> QED BY <3>1, <3>2
  <2>7. FitsCap(c)
    <3>1. CASE kind = "table"
      <4>1. PartSizes(s, b, wide)
        BY <2>1, <3>1 DEF FitTables
      <4>2. c.size = pre + TokensOf(Size(s)) /\ TokensOf(Size(s)) \in Nat /\ Len(s) \in Nat
        BY <2>2, <2>4, <3>1, TokensAre
      <4>3. TokensOf(Size(s)) <= b + (Len(s) - 2) => c.size <= MaxTokens - Slack + Len(s) - 2
        <5> DEFINE length == Len(s)
        <5> HIDE DEF length
        <5>1. TokensOf(Size(s)) <= b + (length - 2) /\ length \in Nat => c.size <= MaxTokens - Slack + length - 2
          BY <1>2, <4>2
        <5> QED BY <4>2, <5>1 DEF length
      <4>4. Len(s) > 2 /\ wide /\ TokensOf(Size(s)) <= 2 * b => Last(s).at \in WideLines /\ c.size <= 2 * MaxTokens
        <5> SUFFICES ASSUME Len(s) > 2, wide, TokensOf(Size(s)) <= 2 * b
                     PROVE  Last(s).at \in WideLines /\ c.size <= 2 * MaxTokens
          OBVIOUS
        <5>1. s # <<>>
          OBVIOUS
        <5>2. Last(s).at \in WideLines
          BY <2>2, <5>1 DEF Last
        <5>3. c.size <= 2 * MaxTokens
          BY <1>2, <4>2
        <5> QED BY <5>2, <5>3
      <4>5. PartFits(c)
        <5>1. Len(s) <= 2 \/ Len(s) > 2
          BY <4>2
        <5> QED BY <2>4, <4>1, <4>3, <4>4, <5>1 DEF PartSizes, PartFits
      <4> QED BY <2>4, <3>1, <4>5 DEF FitsCap
    <3>2. CASE kind # "table"
      <4>1. Within(s, b) /\ s # <<>>
        BY <2>1, <3>2 DEF FitTexts, TextsAt
      <4>0. c.size = pre + Size(s)
        BY <2>4, <3>2
      <4> DEFINE x == (3 * Overlap) \div 10
      <4>2. x \in Nat
        BY ChunkingAssumption
      <4>3. CASE Size(s) <= b + x
        <5> HIDE DEF x
        <5>1. c.size <= MaxTokens - Slack + x
          BY <1>2, <2>2, <4>0, <4>2, <4>3
        <5> QED BY <2>4, <3>2, <4>1, <5>1 DEF FitsCap, x
      <4>4. CASE \E w \in ToSet(s) : Size(s) <= b + w.size - 1
        <5>1. PICK w \in ToSet(s) : Size(s) <= b + w.size - 1
          BY <4>4
        <5>2. w.size \in Nat
          BY <2>2
        <5>3. c.size <= MaxTokens - Slack + w.size - 1
          BY <1>2, <2>2, <4>0, <5>1, <5>2
        <5> QED BY <2>4, <3>2, <4>1, <5>3 DEF FitsCap
      <4> QED BY <4>1, <4>3, <4>4 DEF Within
    <3> QED BY <3>1, <3>2
  <2> QED BY <2>3, <2>5, <2>6, <2>7 DEF Sound, c, s
<1> DEFINE cited(i) == Cited(kind, p, texts[i], pre)
<1> DEFINE cs == ChunksOf(kind, p, texts, pre)
<1>5. cs = [i \in 1..n |-> cited(i)]
  BY <1>3 DEF ChunksOf
<1>6. \A i \in 1..n : cited(i) \in ChunkType /\ Sound(cited(i))
  BY <1>4
<1> HIDE DEF cited, cs
<1>7. DOMAIN cs = 1..n /\ (\A i \in 1..n : cs[i] = cited(i)) /\ cs = [i \in 1..n |-> cs[i]]
  BY <1>5
<1>8. cs \in Seq(ChunkType)
  BY <1>3, <1>6, <1>7, ListIs
<1>9. \A c \in ToSet(cs) : Sound(c)
  BY <1>6, <1>7 DEF ToSet
<1> QED BY <1>8, <1>9 DEF AllSound, cs, pre

\* What has been gathered stands on its page under the headings of now.
LEMMA GatheredStands ==
  ASSUME IngestType
  PROVE  Stands(UNION {Ats(blocks[i].text) : i \in Gathering}, page)
PROOF
<1> SUFFICES ASSUME NEW i \in Gathering, NEW a \in Ats(blocks[i].text)
             PROVE  i \in DOMAIN blocks /\ blocks[i].page = page /\ InForce(i) = InForce(next)
  BY DEF Stands
<1>1. i \in 1..(next - 1) /\ blocks[i].page = page /\ \A k \in i..(next - 1) : ~IsHeading(k)
  BY DEF Gathering
<1>2. next \in 1..(Len(blocks) + 1) /\ blocks \in Seq(BlockType)
  BY DEF IngestType
<1>3. next \in Nat /\ i \in 1..next /\ i \in DOMAIN blocks
  BY <1>1, <1>2
<1>4. InForce(i) = InForce(next)
  BY <1>1, <1>3, InForceSame
<1> QED BY <1>1, <1>3, <1>4

\* The text that has been gathered is put out as sound chunks.
LEMMA TextPutOut ==
  ASSUME IngestInv
  PROVE  /\ accum \in Seq(WordsAt(UNION {Ats(blocks[i].text) : i \in Gathering}))
         /\ BudgetUnder(stack, TextCrumb) \in Nat /\ BudgetUnder(stack, TextCrumb) >= 2
         /\ AllSound(ChunksOf("text", page, Splits(accum, BudgetUnder(stack, TextCrumb)), PrefixTokens(stack, TextCrumb)))
PROOF
<1> DEFINE A == UNION {Ats(blocks[i].text) : i \in Gathering}
<1> DEFINE b == BudgetUnder(stack, TextCrumb)
<1>1. IngestType /\ StackIsCurrent /\ accum \in Seq(WordsAt(A)) /\ page \in Nat /\ stack \in Headings
  BY DEF IngestInv, IngestType, AccumIsGathered
<1>2. Stands(A, page)
  BY <1>1, GatheredStands
<1> HIDE DEF A
<1>3. b \in Nat /\ b >= 2
  BY <1>1, BudgetIs
<1>4. Splits(accum, b) \in Seq(FitTexts(A, b))
  <2> HIDE DEF b
  <2> QED BY <1>1, <1>3, SplitsAre
<1>5. AllSound(ChunksOf("text", page, Splits(accum, b), PrefixTokens(stack, TextCrumb)))
  <2> DEFINE texts == Splits(accum, b)
  <2>1. texts \in Seq(IF "text" = "table" THEN FitTables(A, b, FALSE) ELSE FitTexts(A, b))
    BY <1>4
  <2> HIDE DEF texts
  <2>2. AllSound(ChunksOf("text", page, texts, PrefixTokens(stack, TextCrumb)))
    BY <1>1, <1>2, <2>1, PutOutSound
  <2> QED BY <2>2 DEF texts
<1> QED BY <1>1, <1>3, <1>5 DEF A

\* Behind the chunks there are.
LEMMA FlushedSound ==
  ASSUME IngestInv, phase = "chunk"
  PROVE  AllSound(Flushed)
PROOF
<1>1. AllSound(chunks)
  BY DEF IngestInv, IngestType, ChunksAreSound, TitlesOnly, AllSound
<1>2. AllSound(ChunksOf("text", page, Splits(accum, BudgetUnder(stack, TextCrumb)), PrefixTokens(stack, TextCrumb)))
  BY TextPutOut
<1> QED BY <1>1, <1>2, JoinSound DEF Flushed

\* The block that is read next.
LEMMA NextIs ==
  ASSUME IngestType, next \in DOMAIN blocks
  PROVE  /\ next \in Nat \ {0} /\ next + 1 \in 1..(Len(blocks) + 1)
         /\ blocks[next] \in BlockType /\ blocks[next].page \in Nat /\ blocks[next].level \in Nat
         /\ blocks[next].text \in Seq(WordsAt(Ats(blocks[next].text)))
         /\ Stands(Ats(blocks[next].text), blocks[next].page)
PROOF
<1> DEFINE b == blocks[next]
<1>1. blocks \in Seq(BlockType)
  BY DEF IngestType
<1>2. next \in Nat \ {0} /\ next + 1 \in 1..(Len(blocks) + 1) /\ b \in BlockType
  BY <1>1
<1> HIDE DEF b
<1>3. b.page \in Nat /\ b.level \in Nat /\ b.text \in Seq(Word)
  BY <1>2 DEF BlockType
<1>4. b.text \in Seq(WordsAt(Ats(b.text)))
  <2>1. \A w \in ToSet(b.text) : w \in WordsAt(Ats(b.text))
    BY <1>3 DEF WordsAt, Ats, ToSet
  <2>2. b.text \in Seq(ToSet(b.text))
    BY <1>3 DEF ToSet
  <2> QED BY <2>1, <2>2, Wider
<1>5. Stands(Ats(b.text), b.page)
  BY DEF Stands, b
<1> QED BY <1>2, <1>3, <1>4, <1>5 DEF b

\* A block that is put out by itself.
LEMMA TablePutOut ==
  ASSUME IngestInv, next \in DOMAIN blocks, blocks[next].type = "table"
  PROVE  AllSound(ChunksOf("table", blocks[next].page, TableParts(blocks[next].text, BudgetUnder(stack, BlockCrumb)),
                           PrefixTokens(stack, BlockCrumb)))
PROOF
<1> DEFINE A == Ats(blocks[next].text)
<1> DEFINE p == blocks[next].page
<1> DEFINE b == BudgetUnder(stack, BlockCrumb)
<1> DEFINE texts == TableParts(blocks[next].text, b)
<1>1. IngestType /\ StackIsCurrent /\ stack \in Headings
  BY DEF IngestInv, IngestType
<1>2. blocks[next].text \in Seq(WordsAt(A)) /\ p \in Nat /\ Stands(A, p)
  BY <1>1, NextIs
<1> DEFINE lines == blocks[next].text
<1> DEFINE wide == Wide(blocks[next])
<1>3. b \in Nat /\ b >= 2 /\ b <= MaxTokens /\ b >= MaxTokens \div 2 /\ MaxTokens \div 2 \in Nat
  BY <1>1, BudgetIs, ChunkingAssumption
<1>a. wide \in BOOLEAN /\ (wide => A \subseteq WideLines)
  <2>1. blocks[next] \in ToSet(blocks)
    BY DEF ToSet
  <2> QED BY <2>1 DEF Wide, WideLines, Ats
<1>b. Len(lines) > 2 /\ TokensOf(Size(TableHead(lines))) >= b => wide
  <2> SUFFICES ASSUME Len(lines) > 2, TokensOf(Size(TableHead(lines))) >= b PROVE wide
    OBVIOUS
  <2>1. Len(lines) >= 3
    BY <1>2
  <2>2. Size(TableHead(lines)) \in Nat
    BY <1>2, <2>1, HeadIs
  <2>3. TokensOf(Size(TableHead(lines))) \in Nat
    BY <2>2, TokensAre
  <2>4. TokensOf(Size(TableHead(lines))) >= MaxTokens \div 2
    BY <1>3, <2>3
  <2> QED BY <2>4 DEF Wide, HeadTokens
<1> HIDE DEF A, p, b, wide
<1>4. texts \in Seq(FitTables(A, b, wide))
  BY <1>2, <1>3, <1>a, <1>b, TablePartsAre
<1>5. texts \in Seq(IF "table" = "table" THEN FitTables(A, b, wide) ELSE FitTexts(A, b))
  BY <1>4
<1> HIDE DEF texts
<1>6. AllSound(ChunksOf("table", p, texts, PrefixTokens(stack, BlockCrumb)))
  BY <1>1, <1>2, <1>5, <1>a, PutOutSound DEF b
<1> QED BY <1>6 DEF texts, p, b

\* So is a figure.
LEMMA FigurePutOut ==
  ASSUME IngestInv, next \in DOMAIN blocks
  PROVE  AllSound(ChunksOf("figure", blocks[next].page, Splits(blocks[next].text, BudgetUnder(stack, BlockCrumb)),
                           PrefixTokens(stack, BlockCrumb)))
PROOF
<1> DEFINE A == Ats(blocks[next].text)
<1> DEFINE p == blocks[next].page
<1> DEFINE b == BudgetUnder(stack, BlockCrumb)
<1> DEFINE texts == Splits(blocks[next].text, b)
<1>1. IngestType /\ StackIsCurrent /\ stack \in Headings
  BY DEF IngestInv, IngestType
<1>2. blocks[next].text \in Seq(WordsAt(A)) /\ p \in Nat /\ Stands(A, p)
  BY <1>1, NextIs
<1>3. b \in Nat /\ b >= 2
  BY <1>1, BudgetIs
<1> HIDE DEF A, p, b
<1>4. texts \in Seq(FitTexts(A, b))
  BY <1>2, <1>3, SplitsAre
<1>5. texts \in Seq(IF "figure" = "table" THEN FitTables(A, b, FALSE) ELSE FitTexts(A, b))
  BY <1>4
<1> HIDE DEF texts
<1>6. AllSound(ChunksOf("figure", p, texts, PrefixTokens(stack, BlockCrumb)))
  BY <1>1, <1>2, <1>5, PutOutSound DEF b
<1> QED BY <1>6 DEF texts, p, b

-----------------------------------------------------------------------------
(* What a step leaves as it was.                                             *)

\* The headings in force go by the blocks alone.
LEMMA HeadingsKept ==
  ASSUME UNCHANGED blocks
  PROVE  /\ NoLevelSkipped' <=> NoLevelSkipped
         /\ \A i : Above(i)' = Above(i) /\ InForce(i)' = InForce(i)
PROOF
  BY DEF NoLevelSkipped, Above, InForce, IsHeading

\* A chunk stays sound.
LEMMA SoundKept ==
  ASSUME UNCHANGED blocks, NEW c, Sound(c)
  PROVE  Sound(c)'
PROOF
<1>1. OnItsPage(c)' /\ FitsCap(c)'
  BY DEF Sound, OnItsPage, FitsCap, PartFits, WideLines, Wide, HeadTokens
<1>2. Filed(c)'
  BY HeadingsKept DEF Sound, Filed
<1> QED BY <1>1, <1>2 DEF Sound

\* Sound chunks put out in a step.
LEMMA AllSoundStep ==
  ASSUME UNCHANGED blocks, NEW cs, AllSound(cs), chunks' = cs
  PROVE  chunks' \in Seq(ChunkType) /\ ChunksAreSound'
PROOF
  BY SoundKept DEF AllSound, ChunksAreSound

\* A block that is not a heading leaves the headings as they were.
LEMMA StackKept ==
  ASSUME IngestType, StackIsCurrent, UNCHANGED <<blocks, stack>>, next' = next + 1, ~IsHeading(next)
  PROVE  StackIsCurrent'
PROOF
<1>1. next \in Nat /\ next + 1 \in Nat /\ next \in 1..(next + 1)
  BY DEF IngestType
<1>2. \A k \in next..((next + 1) - 1) : ~IsHeading(k)
  BY <1>1
<1>3. InForce(next) = InForce(next + 1)
  BY <1>1, <1>2, InForceSame
<1>4. InForce(next)' = InForce(next + 1)
  BY DEF InForce, IsHeading
<1> QED BY <1>3, <1>4, HeadingsKept DEF StackIsCurrent

\* A heading puts an end to those that are not above it.
LEMMA StackRaised ==
  ASSUME IngestType, StackIsCurrent, UNCHANGED blocks, next \in DOMAIN blocks, IsHeading(next), next' = next + 1,
         NEW h \in [at : Nat, size : Nat], h.at = next,
         stack' = Append(SubSeq(stack, 1, Least(blocks[next].level - 1, Len(stack))), h)
  PROVE  stack' \in Headings /\ StackIsCurrent'
PROOF
<1> DEFINE H == [at : Nat, size : Nat]
<1> DEFINE l == blocks[next].level
<1> DEFINE n == Len(stack)
<1> DEFINE m == Least(l - 1, n)
<1>1. stack \in Seq(H) /\ n \in Nat /\ DOMAIN stack = 1..n
  BY DEF IngestType, Headings
<1>2. next \in Nat \ {0} /\ l \in Nat /\ l >= 1
  <2>1. blocks[next] \in BlockType
    BY NextIs
  <2>2. blocks[next].type = "heading"
    BY DEF IsHeading
  <2> QED BY <2>1, <2>2, NextIs DEF BlockType
<1> HIDE DEF l, n
<1>3. m \in 0..n /\ m <= l - 1
  BY <1>1, <1>2 DEF Least
<1> DEFINE s == SubSeq(stack, 1, m)
<1> HIDE DEF m, H
<1>4. s \in Seq(H) /\ Len(s) = m /\ \A k \in 1..m : k \in 1..n /\ s[k] = stack[k]
  <2>1. m \in Nat /\ m <= n
    BY <1>1, <1>3
  <2> QED BY <1>1, <2>1 DEF n
<1> HIDE DEF s
<1>5. stack' = Append(s, h)
  BY DEF s, m, l, n
<1>6. h \in H
  BY DEF H
<1>7. /\ stack' \in Seq(H) /\ DOMAIN stack' = 1..(m + 1)
      /\ \A k \in 1..m : stack'[k] = stack[k]
      /\ stack'[m + 1] = h
  <2>1. /\ Append(s, h) \in Seq(H) /\ Len(Append(s, h)) = m + 1
        /\ \A k \in 1..m : Append(s, h)[k] = s[k]
        /\ Append(s, h)[m + 1] = h
    BY <1>4, <1>6
  <2>2. DOMAIN Append(s, h) = 1..(m + 1)
    BY <2>1
  <2> QED BY <1>4, <1>5, <2>1, <2>2
<1>8. ASSUME NoLevelSkipped
      PROVE  /\ {stack'[k].at : k \in DOMAIN stack'} = InForce(next + 1)
             /\ \A k \in DOMAIN stack' : blocks[stack'[k].at].level = k
             /\ \A k, j \in DOMAIN stack' : k < j => stack'[k].at < stack'[j].at
  <2>1. /\ {stack[k].at : k \in 1..n} = InForce(next)
        /\ \A k \in 1..n : blocks[stack[k].at].level = k
        /\ \A k, j \in 1..n : k < j => stack[k].at < stack[j].at
    BY <1>1, <1>8 DEF StackIsCurrent
  <2>2. m = l - 1
    <3>1. l <= Len(Above(next)) + 1
      BY <1>8 DEF NoLevelSkipped, l
    <3>2. Len(Above(next)) = n
      BY <1>8, UnderIs DEF n
    <3> QED BY <1>1, <1>2, <3>1, <3>2 DEF m, Least
  <2>3. InForce(next + 1) = {j \in InForce(next) : l > blocks[j].level} \cup {next}
    BY <1>2, InForceHeading DEF l
  <2>4. \A k \in DOMAIN stack' : k \in 1..m \/ k = m + 1
    BY <1>3, <1>7
  <2>5. m \in Nat /\ m <= n /\ m < l
    BY <1>1, <1>2, <1>3, <2>2
  <2>6. \A j \in InForce(next) : j \in 1..(next - 1)
    BY DEF InForce
  <2>7. \A k \in 1..m : k \in 1..n /\ stack[k].at \in InForce(next) /\ stack[k].at < next
    <3> SUFFICES ASSUME NEW k \in 1..m PROVE k \in 1..n /\ stack[k].at \in InForce(next) /\ stack[k].at < next
      OBVIOUS
    <3>1. k \in 1..n
      BY <1>1, <2>5
    <3>2. stack[k].at \in InForce(next)
      BY <2>1, <3>1
    <3>3. stack[k].at \in 1..(next - 1)
      BY <2>6, <3>2
    <3> QED BY <1>2, <3>1, <3>2, <3>3
  <2>8. ASSUME NEW j \in {stack'[k].at : k \in DOMAIN stack'} PROVE j \in InForce(next + 1)
    <3>1. PICK k \in DOMAIN stack' : j = stack'[k].at
      BY <2>8
    <3>2. CASE k \in 1..m
      <4>1. j = stack[k].at /\ j \in InForce(next) /\ blocks[j].level = k
        BY <1>7, <2>1, <2>7, <3>1, <3>2
      <4>2. l > k
        BY <1>2, <2>5, <3>2
      <4> QED BY <2>3, <4>1, <4>2
    <3>3. CASE k = m + 1
      BY <1>7, <2>3, <3>1, <3>3
    <3> QED BY <2>4, <3>1, <3>2, <3>3
  <2>9. ASSUME NEW j \in InForce(next + 1) PROVE j \in {stack'[k].at : k \in DOMAIN stack'}
    <3>1. CASE j = next
      <4>1. m + 1 \in DOMAIN stack'
        BY <1>7, <2>5
      <4> QED BY <1>7, <3>1, <4>1
    <3>2. CASE j \in InForce(next) /\ l > blocks[j].level
      <4>1. PICK k \in 1..n : j = stack[k].at
        BY <2>1, <3>2
      <4>2. blocks[j].level = k
        BY <2>1, <4>1
      <4>3. k \in 1..m
        BY <1>2, <2>2, <3>2, <4>1, <4>2
      <4>4. k \in DOMAIN stack' /\ stack'[k].at = j
        BY <1>7, <2>5, <4>1, <4>3
      <4> QED BY <4>4
    <3> QED BY <2>3, <2>9, <3>1, <3>2
  <2>10. ASSUME NEW k \in DOMAIN stack' PROVE blocks[stack'[k].at].level = k
    <3>1. CASE k \in 1..m
      BY <1>7, <2>1, <2>7, <3>1
    <3>2. CASE k = m + 1
      BY <1>2, <1>7, <2>2, <3>2 DEF l
    <3> QED BY <2>4, <3>1, <3>2
  <2>11. ASSUME NEW k \in DOMAIN stack', NEW j \in DOMAIN stack', k < j PROVE stack'[k].at < stack'[j].at
    <3>1. CASE k \in 1..m /\ j \in 1..m
      BY <1>7, <2>1, <2>7, <2>11, <3>1
    <3>2. CASE k \in 1..m /\ j = m + 1
      BY <1>7, <2>7, <3>2
    <3>3. CASE k = m + 1
      <4>1. j \in 1..m \/ j = m + 1
        BY <2>4
      <4>2. m \in Nat
        BY <2>5
      <4> QED BY <2>11, <3>3, <4>1, <4>2
    <3> QED BY <2>4, <3>1, <3>2, <3>3
  <2> QED BY <2>8, <2>9, <2>10, <2>11
<1>9. InForce(next)' = InForce(next + 1)
  BY DEF InForce, IsHeading
<1>10. StackIsCurrent'
  BY <1>8, <1>9, HeadingsKept DEF StackIsCurrent
<1> QED BY <1>7, <1>10 DEF Headings, H

-----------------------------------------------------------------------------
(* The steps.                                                                *)

\* At first nothing is read.
LEMMA IngestInvInit == IngestInit => IngestInv
PROOF
<1> SUFFICES ASSUME IngestInit PROVE IngestInv
  OBVIOUS
<1> USE DEF IngestInit
<1>1. IngestType
  BY DEF IngestType, Apart, Headings
<1>2. StackIsCurrent
  BY DEF StackIsCurrent, InForce
<1>3. AccumIsGathered
  BY DEF AccumIsGathered
<1>4. ChunksAreSound
  BY DEF ChunksAreSound, ToSet
<1> QED BY <1>1, <1>2, <1>3, <1>4 DEF IngestInv

\* The probe only picks a route.
LEMMA ProbeStep == IngestInv /\ Probe => IngestInv'
PROOF
<1> SUFFICES ASSUME IngestInv, Probe PROVE IngestInv'
  OBVIOUS
<1>1. /\ phase = "probe" /\ phase' = "parse"
      /\ UNCHANGED <<doc, pdf, blocks, next, stack, accum, page, chunks>>
  BY DEF Probe
<1>2. IngestType /\ StackIsCurrent
  BY DEF IngestInv
<1>3. IngestType' /\ chunks = <<>> /\ accum = <<>>
  BY <1>1, <1>2 DEF IngestType
<1>4. StackIsCurrent'
  <2>1. InForce(next)' = InForce(next)
    BY <1>1 DEF InForce, IsHeading
  <2> QED BY <1>1, <1>2, <2>1, HeadingsKept DEF StackIsCurrent
<1>5. AccumIsGathered' /\ ChunksAreSound'
  BY <1>1, <1>3 DEF AccumIsGathered, ChunksAreSound, ToSet
<1> QED BY <1>3, <1>4, <1>5 DEF IngestInv

\* The parser makes blocks that share no word.
LEMMA ParseStep == IngestInv /\ ParseDocument => IngestInv'
PROOF
<1> SUFFICES ASSUME IngestInv, ParseDocument PROVE IngestInv'
  OBVIOUS
<1>1. /\ phase = "parse" /\ phase' \in {"failed", "chunk"}
      /\ UNCHANGED <<doc, pdf, route, next, stack, accum, page, chunks>>
  BY DEF ParseDocument
<1>2. /\ IngestType /\ blocks = <<>> /\ stack = <<>> /\ accum = <<>> /\ chunks = <<>> /\ next = 1
      /\ doc \in Documents /\ page \in Nat
  BY <1>1 DEF IngestInv, IngestType
<1>3. blocks' \in Seq(BlockType) /\ Apart(blocks')
  <2>1. PICK docling \in BOOLEAN, spotted \in Findings(doc) : blocks' = Parse(route, doc, docling, spotted)
    BY DEF ParseDocument
  <2> QED BY <1>2, <2>1, ParseIs
<1>4. IngestType'
  <2>1. next' \in 1..(Len(blocks') + 1)
    BY <1>1, <1>2, <1>3
  <2>2. Apart(blocks)'
    BY <1>3 DEF Apart
  <2> QED BY <1>1, <1>2, <1>3, <2>1, <2>2 DEF IngestType
<1>5. StackIsCurrent'
  BY <1>1, <1>2 DEF StackIsCurrent, InForce
<1>6. AccumIsGathered' /\ ChunksAreSound'
  BY <1>1, <1>2 DEF AccumIsGathered, ChunksAreSound, ToSet
<1> QED BY <1>4, <1>5, <1>6 DEF IngestInv

\* What the reading of a block leaves of the types.
LEMMA TypeKept ==
  ASSUME IngestType, phase = "chunk", UNCHANGED <<doc, blocks>>, phase' \in {"chunk", "done"},
         next' \in 1..(Len(blocks) + 1), page' \in Nat, stack' \in Headings, chunks' \in Seq(ChunkType)
  PROVE  IngestType'
PROOF
<1>1. Apart(blocks)'
  BY DEF IngestType, Apart
<1> QED BY <1>1 DEF IngestType

\* A heading ends what has been gathered and joins the stack.
LEMMA ReadHeadingStep == IngestInv /\ ReadHeading => IngestInv'
PROOF
<1> SUFFICES ASSUME IngestInv, ReadHeading PROVE IngestInv'
  OBVIOUS
<1> DEFINE h == [at |-> next, size |-> Size(blocks[next].text)]
<1>1. /\ phase = "chunk" /\ next \in DOMAIN blocks /\ blocks[next].type = "heading"
      /\ chunks' = Flushed /\ accum' = <<>> /\ page' = 0 /\ next' = next + 1
      /\ stack' = Append(SubSeq(stack, 1, Least(blocks[next].level - 1, Len(stack))), h)
      /\ UNCHANGED <<phase, doc, pdf, route, blocks>>
  BY DEF ReadHeading, Reading
<1>2. IngestType /\ StackIsCurrent
  BY DEF IngestInv
<1>3. h \in [at : Nat, size : Nat] /\ h.at = next
  <2>1. next \in Nat /\ blocks[next].text \in Seq(WordsAt(Ats(blocks[next].text)))
    BY <1>1, <1>2, NextIs
  <2>2. Size(blocks[next].text) \in Nat
    BY <2>1, SizesOfWords, SizeAdds
  <2> QED BY <2>1, <2>2
<1> HIDE DEF h
<1>4. stack' \in Headings /\ StackIsCurrent'
  BY <1>1, <1>2, <1>3, StackRaised DEF IsHeading
<1>5. AllSound(Flushed)
  BY <1>1, FlushedSound
<1>6. chunks' \in Seq(ChunkType) /\ ChunksAreSound'
  BY <1>1, <1>5, AllSoundStep
<1>7. IngestType'
  BY <1>1, <1>2, <1>4, <1>6, NextIs, TypeKept
<1>8. AccumIsGathered'
  BY <1>1 DEF AccumIsGathered
<1> QED BY <1>4, <1>6, <1>7, <1>8 DEF IngestInv

\* A block that is put out by itself ends what has been gathered.
LEMMA PutOutStep ==
  ASSUME IngestInv, phase = "chunk", next \in DOMAIN blocks, blocks[next].type # "heading",
         NEW cs, AllSound(cs), chunks' = Flushed \o cs, accum' = <<>>, page' = 0, next' = next + 1,
         UNCHANGED <<phase, doc, blocks, stack>>
  PROVE  IngestInv'
PROOF
<1>1. IngestType /\ StackIsCurrent /\ stack \in Headings
  BY DEF IngestInv, IngestType
<1>2. AllSound(Flushed \o cs)
  BY FlushedSound, JoinSound
<1>3. chunks' \in Seq(ChunkType) /\ ChunksAreSound'
  BY <1>2, AllSoundStep
<1>4. IngestType'
  BY <1>1, <1>3, NextIs, TypeKept
<1>5. StackIsCurrent'
  BY <1>1, StackKept DEF IsHeading
<1>6. AccumIsGathered'
  BY DEF AccumIsGathered
<1> QED BY <1>3, <1>4, <1>5, <1>6 DEF IngestInv

\* A table is put out by itself.
LEMMA ReadTableStep == IngestInv /\ ReadTable => IngestInv'
PROOF
<1> SUFFICES ASSUME IngestInv, ReadTable PROVE IngestInv'
  OBVIOUS
<1> DEFINE cs == ChunksOf("table", blocks[next].page, TableParts(blocks[next].text, BudgetUnder(stack, BlockCrumb)),
                          PrefixTokens(stack, BlockCrumb))
<1>1. /\ phase = "chunk" /\ next \in DOMAIN blocks /\ blocks[next].type # "heading"
      /\ chunks' = Flushed \o cs /\ accum' = <<>> /\ page' = 0 /\ next' = next + 1
      /\ blocks[next].type = "table" /\ UNCHANGED <<phase, doc, blocks, stack>>
  BY DEF ReadTable, Reading
<1>2. AllSound(cs)
  BY <1>1, TablePutOut
<1> HIDE DEF cs
<1> QED BY <1>1, <1>2, PutOutStep

\* So is a figure.
LEMMA ReadFigureStep == IngestInv /\ ReadFigure => IngestInv'
PROOF
<1> SUFFICES ASSUME IngestInv, ReadFigure PROVE IngestInv'
  OBVIOUS
<1> DEFINE cs == ChunksOf("figure", blocks[next].page, Splits(blocks[next].text, BudgetUnder(stack, BlockCrumb)),
                          PrefixTokens(stack, BlockCrumb))
<1>1. /\ phase = "chunk" /\ next \in DOMAIN blocks /\ blocks[next].type # "heading"
      /\ chunks' = Flushed \o cs /\ accum' = <<>> /\ page' = 0 /\ next' = next + 1
      /\ UNCHANGED <<phase, doc, blocks, stack>>
  BY DEF ReadFigure, Reading
<1>2. AllSound(cs)
  BY <1>1, FigurePutOut
<1> HIDE DEF cs
<1> QED BY <1>1, <1>2, PutOutStep

\* Text is gathered, after what was gathered of another page is put out.
LEMMA ReadTextStep == IngestInv /\ ReadText => IngestInv'
PROOF
<1> SUFFICES ASSUME IngestInv, ReadText PROVE IngestInv'
  OBVIOUS
<1> DEFINE text == blocks[next].text
<1> DEFINE B == UNION {Ats(blocks[i].text) : i \in Gathering}
<1> DEFINE C == UNION {Ats(blocks[i].text) : i \in Gathering'}
<1>1. /\ phase = "chunk" /\ next \in DOMAIN blocks /\ blocks[next].type = "text"
      /\ page' = blocks[next].page /\ next' = next + 1
      /\ UNCHANGED <<phase, doc, pdf, route, blocks, stack>>
  BY DEF ReadText, Reading
<1>2. IngestType /\ StackIsCurrent /\ accum \in Seq(WordsAt(B)) /\ stack \in Headings
  BY DEF IngestInv, IngestType, AccumIsGathered
<1>3. /\ next \in Nat \ {0} /\ next + 1 \in 1..(Len(blocks) + 1) /\ page' \in Nat
      /\ text \in Seq(WordsAt(Ats(text)))
  BY <1>1, <1>2, NextIs
<1>4. Ats(text) \subseteq C
  <2>1. next \in Gathering'
    <3>1. next \in 1..(next' - 1) /\ \A k \in next..(next' - 1) : k = next
      BY <1>1, <1>3
    <3>2. ~(blocks'[next].type = "heading")
      BY <1>1
    <3>3. \A k \in next..(next' - 1) : ~(blocks'[k].type = "heading")
      BY <3>1, <3>2
    <3> QED BY <1>1, <3>1, <3>3 DEF Gathering, IsHeading
  <2> QED BY <2>1
<1>5. page = page' => B \subseteq C
  <2> SUFFICES ASSUME page = page', NEW i \in Gathering PROVE i \in Gathering'
    OBVIOUS
  <2>1. i \in 1..(next - 1) /\ blocks[i].page = page /\ \A k \in i..(next - 1) : ~IsHeading(k)
    BY DEF Gathering
  <2>2. i \in 1..(next' - 1) /\ \A k \in i..(next' - 1) : k = next \/ k \in i..(next - 1)
    BY <1>1, <1>3, <2>1
  <2>3. ASSUME NEW k \in i..(next' - 1) PROVE ~(blocks[k].type = "heading")
    BY <1>1, <2>1, <2>2 DEF IsHeading
  <2> QED BY <1>1, <2>1, <2>2, <2>3 DEF Gathering, IsHeading
<1>6. text \in Seq(WordsAt(C))
  <2>1. WordsAt(Ats(text)) \subseteq WordsAt(C)
    BY <1>4 DEF WordsAt
  <2> HIDE DEF text, C
  <2> QED BY <1>3, <2>1, Wider
<1> HIDE DEF B, C, text
<1>7. CASE accum # <<>> /\ page # blocks[next].page
  <2>1. chunks' = Flushed /\ accum' = text
    BY <1>7 DEF ReadText, text
  <2>2. AllSound(Flushed)
    BY <1>1, FlushedSound
  <2>3. chunks' \in Seq(ChunkType) /\ ChunksAreSound'
    BY <1>1, <2>1, <2>2, AllSoundStep
  <2>4. accum' \in Seq(WordsAt(C))
    BY <1>6, <2>1
  <2> QED BY <1>1, <1>2, <1>3, <2>3, <2>4, StackKept, TypeKept DEF IngestInv, AccumIsGathered, C, IsHeading
<1>8. CASE ~(accum # <<>> /\ page # blocks[next].page)
  <2>1. accum' = Gathered(text) /\ UNCHANGED chunks
    BY <1>8 DEF ReadText, text
  <2>2. chunks' \in Seq(ChunkType) /\ ChunksAreSound'
    <3>1. AllSound(chunks)
      BY <1>1 DEF IngestInv, IngestType, ChunksAreSound, TitlesOnly, AllSound
    <3> QED BY <1>1, <2>1, <3>1, AllSoundStep
  <2>3. Gathered(text) \in Seq(WordsAt(C))
    <3> DEFINE T == WordsAt(C)
    <3>1. CASE accum = <<>>
      <4>1. Gathered(text) = <<>> \o text
        BY <3>1 DEF Gathered
      <4>2. <<>> \in Seq(T) /\ text \in Seq(T)
        BY <1>6
      <4> HIDE DEF T
      <4>3. <<>> \o text \in Seq(T)
        BY <4>2
      <4> QED BY <4>1, <4>3 DEF T
    <3>2. CASE accum # <<>>
      <4>1. accum \in Seq(T)
        <5>1. WordsAt(B) \subseteq T
          BY <1>1, <1>5, <1>8, <3>2 DEF WordsAt
        <5> HIDE DEF T
        <5> QED BY <1>2, <5>1, Wider
      <4> DEFINE n == Len(accum)
      <4>2. n \in Nat /\ n \in DOMAIN accum /\ accum[n] \in T
        <5> HIDE DEF T
        <5> QED BY <3>2, <4>1
      <4> DEFINE v == [accum[n] EXCEPT !.end = Paragraph]
      <4>3. v \in T
        <5>1. accum[n] \in Word /\ accum[n].at \in C
          BY <4>2 DEF WordsAt
        <5>2. v \in Word /\ v.at = accum[n].at
          BY <5>1 DEF Word, Paragraph, Space
        <5> QED BY <5>1, <5>2 DEF WordsAt
      <4> DEFINE ended == [accum EXCEPT ![n] = v]
      <4>4. Gathered(text) = ended \o text
        BY <3>2 DEF Gathered
      <4> HIDE DEF T, v, n
      <4>5. ended \in Seq(T)
        BY <4>1, <4>2, <4>3
      <4> HIDE DEF ended
      <4>6. ended \o text \in Seq(T)
        BY <1>6, <4>5 DEF T
      <4> QED BY <4>4, <4>6 DEF T
    <3> QED BY <3>1, <3>2
  <2> QED BY <1>1, <1>2, <1>3, <2>1, <2>2, <2>3, StackKept, TypeKept DEF IngestInv, AccumIsGathered, C, IsHeading
<1> QED BY <1>7, <1>8

\* At the end the rest is put out, or the headings alone.
LEMMA FinishStep == IngestInv /\ Finish => IngestInv'
PROOF
<1> SUFFICES ASSUME IngestInv, Finish PROVE IngestInv'
  OBVIOUS
<1>1. /\ phase = "chunk" /\ phase' = "done" /\ accum' = <<>> /\ page' = 0
      /\ UNCHANGED <<doc, pdf, route, blocks, next, stack>>
      /\ chunks' = IF Flushed = <<>> /\ stack # <<>> THEN Titles ELSE Flushed
  BY DEF Finish
<1>2. IngestType /\ StackIsCurrent /\ stack \in Headings /\ next \in 1..(Len(blocks) + 1)
  BY DEF IngestInv, IngestType
<1>3. AllSound(Flushed)
  BY <1>1, FlushedSound
<1>4. chunks' \in Seq(ChunkType) /\ ChunksAreSound'
  <2>1. CASE Flushed = <<>> /\ stack # <<>>
    <3>1. PICK c : c = [kind |-> "text", page |-> 1, text |-> <<>>, headings |-> stack, size |-> Size(stack)]
      OBVIOUS
    <3>2. chunks' = <<c>>
      BY <1>1, <2>1, <3>1 DEF Titles
    <3>3. Size(stack) \in Nat
      <4> DEFINE H == [at : Nat, size : Nat]
      <4>1. stack \in Seq(H) /\ \A h \in H : h.size \in Nat
        BY <1>2 DEF Headings
      <4> HIDE DEF H
      <4> QED BY <4>1, SizeAdds
    <3>4. c \in ChunkType
      BY <1>2, <3>1, <3>3 DEF ChunkType
    <3>5. c.kind # "table" /\ c.text = <<>> /\ c.size = Size(stack)
      BY <3>1
    <3>6. TitlesOnly(c)'
      BY <1>1, <3>5 DEF TitlesOnly
    <3>7. <<c>> \in Seq(ChunkType) /\ ToSet(<<c>>) = {c}
      BY <3>4 DEF ToSet
    <3> QED BY <3>2, <3>6, <3>7 DEF ChunksAreSound
  <2>2. CASE ~(Flushed = <<>> /\ stack # <<>>)
    BY <1>1, <1>3, <2>2, AllSoundStep
  <2> QED BY <2>1, <2>2
<1>5. IngestType'
  BY <1>1, <1>2, <1>4, TypeKept
<1>6. StackIsCurrent'
  <2>1. InForce(next)' = InForce(next)
    BY <1>1 DEF InForce, IsHeading
  <2> QED BY <1>1, <1>2, <2>1, HeadingsKept DEF StackIsCurrent
<1>7. AccumIsGathered'
  BY <1>1 DEF AccumIsGathered
<1> QED BY <1>4, <1>5, <1>6, <1>7 DEF IngestInv

\* A step of nothing.
LEMMA IngestStutter == IngestInv /\ UNCHANGED ingestVars => IngestInv'
PROOF
<1> SUFFICES ASSUME IngestInv, UNCHANGED ingestVars PROVE IngestInv'
  OBVIOUS
<1> USE DEF ingestVars
<1>1. IngestType'
  BY DEF IngestInv, IngestType, Apart
<1>2. StackIsCurrent'
  <2>1. InForce(next)' = InForce(next)
    BY DEF InForce, IsHeading
  <2> QED BY <2>1, HeadingsKept DEF IngestInv, StackIsCurrent
<1>3. AccumIsGathered'
  BY DEF IngestInv, AccumIsGathered, Gathering, IsHeading
<1>4. ChunksAreSound'
  BY SoundKept DEF IngestInv, ChunksAreSound, TitlesOnly
<1> QED BY <1>1, <1>2, <1>3, <1>4 DEF IngestInv

\* Of every document: its blocks share no word, the stack is of the headings in force, one of each
\* level, what is gathered is of one page under these headings, and every chunk is of one page,
\* under its headings and within its bound (IngestionService.parse and chunk_blocks).
THEOREM IngestInvHolds == IngestSpec => []IngestInv
PROOF
<1>1. IngestInv /\ [IngestNext]_ingestVars => IngestInv'
  <2> SUFFICES ASSUME IngestInv, [IngestNext]_ingestVars PROVE IngestInv'
    OBVIOUS
  <2> QED BY ProbeStep, ParseStep, ReadHeadingStep, ReadTableStep, ReadFigureStep, ReadTextStep, FinishStep, IngestStutter
          DEF IngestNext
<1> QED BY <1>1, IngestInvInit, PTL DEF IngestSpec

\* The page a chunk is cited with is the page of every word and row in it: chunk_blocks puts out
\* what it has gathered where a page ends, and around tables and figures.
THEOREM PagesAreTrue == IngestSpec => []OnePage
PROOF
<1>1. IngestInv => OnePage
  <2> SUFFICES ASSUME IngestInv, NEW c \in ToSet(chunks), NEW w \in ToSet(c.text), w.at # Nowhere
               PROVE  \E b \in ToSet(blocks) : b.page = c.page /\ \E v \in ToSet(b.text) : v.at = w.at
    BY DEF OnePage
  <2>1. OnItsPage(c)
    <3>1. CASE Sound(c)
      BY <3>1 DEF Sound
    <3>2. CASE TitlesOnly(c)
      BY <3>2 DEF TitlesOnly, OnItsPage, ToSet
    <3> QED BY <3>1, <3>2 DEF IngestInv, ChunksAreSound
  <2>2. PICK i \in DOMAIN blocks : blocks[i].page = c.page /\ w.at \in Ats(blocks[i].text)
    BY <2>1 DEF OnItsPage
  <2> QED BY <2>2 DEF Ats, ToSet
<1> QED BY <1>1, IngestInvHolds, PTL

\* In a document that skips no level of headings, a chunk is filed under exactly the headings its
\* text stands under (heading_stack of chunk_blocks).
THEOREM HeadingsHold == IngestSpec => []HeadingsAreCurrent
PROOF
<1>1. IngestInv => HeadingsAreCurrent
  <2> SUFFICES ASSUME IngestInv, NoLevelSkipped, NEW c \in ToSet(chunks), c.text # <<>>
               PROVE  [i \in DOMAIN c.headings |-> c.headings[i].at] = Above(BlockOf(c))
    BY DEF HeadingsAreCurrent
  <2> DEFINE a == Last(c.text).at
  <2>1. Filed(c)
    BY DEF IngestInv, ChunksAreSound, Sound, TitlesOnly
  <2>2. PICK i \in DOMAIN blocks : a \in Ats(blocks[i].text) /\ Under(c.headings) = Above(i)
    BY <2>1 DEF Filed, Last
  <2> HIDE DEF a
  <2>3. \A j \in DOMAIN blocks : a \in Ats(blocks[j].text) => j = i
    BY <2>2 DEF IngestInv, IngestType, Apart
  <2>4. \A j \in DOMAIN blocks : a \in Ats(blocks[j].text) <=> \E w \in ToSet(blocks[j].text) : w.at = a
    BY DEF Ats
  <2>5. BlockOf(c) = CHOOSE j \in DOMAIN blocks : \E w \in ToSet(blocks[j].text) : w.at = a
    BY DEF BlockOf, a
  <2>6. BlockOf(c) = i
    BY <2>2, <2>3, <2>4, <2>5
  <2> QED BY <2>2, <2>6 DEF Under
<1> QED BY <1>1, IngestInvHolds, PTL

\* A chunk of text stays within the cap but for the overlap it begins with or a last word.  The part
\* of a table stays within it but for less than a token for each of its rows, unless it is one row
\* that was cut and its head, or the table is cut off for its head or has no more than two lines
\* (split_text_recursive and split_large_table, under the breadcrumb of chunk_blocks).
THEOREM CapHolds == IngestSpec => []ChunksFit
PROOF
<1>1. IngestInv => ChunksFit
  <2> SUFFICES ASSUME IngestInv, NEW c \in ToSet(chunks)
               PROVE  CASE c.kind = "table" -> PartFits(c)
                        [] c.kind # "table" /\ c.text = <<>> -> c.size = Size(stack)
                        [] OTHER -> c.size <= MaxTokens - Slack + Excess(c)
    BY DEF ChunksFit
  <2>1. c \in ChunkType /\ (Sound(c) \/ TitlesOnly(c))
    BY DEF IngestInv, IngestType, ChunksAreSound, ToSet
  <2>2. CASE c.kind = "table"
    BY <2>1, <2>2 DEF Sound, FitsCap, TitlesOnly
  <2>3. CASE c.kind # "table" /\ c.text = <<>>
    BY <2>1, <2>3 DEF Sound, FitsCap, TitlesOnly
  <2>4. CASE c.kind # "table" /\ c.text # <<>>
    <3> DEFINE x == (3 * Overlap) \div 10
    <3> DEFINE y == Max({0} \cup {w.size - 1 : w \in ToSet(c.text)})
    <3> DEFINE m == MaxTokens - Slack
    <3>1. c.text \in Seq(Word) /\ c.size \in Nat
      BY <2>1 DEF ChunkType
    <3>2. y \in Nat /\ \A w \in ToSet(c.text) : w.size - 1 <= y
      BY <3>1, LargestIs
    <3>3. x \in Nat /\ m \in Int
      BY ChunkingAssumption
    <3>4. \A w \in ToSet(c.text) : w.size \in Nat
      BY <3>1, WordsFit
    <3>5. c.size <= m + x \/ \E w \in ToSet(c.text) : c.size <= m + w.size - 1
      BY <2>1, <2>4 DEF Sound, FitsCap, TitlesOnly
    <3>6. Excess(c) = Most(x, y)
      BY DEF Excess
    <3> HIDE DEF x, y, m
    <3>7. Most(x, y) \in Nat /\ x <= Most(x, y) /\ y <= Most(x, y)
      BY <3>2, <3>3 DEF Most
    <3>8. c.size <= m + Most(x, y)
      <4>1. CASE c.size <= m + x
        BY <3>1, <3>3, <3>7, <4>1
      <4>2. CASE \E w \in ToSet(c.text) : c.size <= m + w.size - 1
        <5>1. PICK w \in ToSet(c.text) : c.size <= m + w.size - 1
          BY <4>2
        <5>2. w.size \in Nat /\ w.size - 1 <= y
          BY <3>2, <3>4, <5>1
        <5> QED BY <3>1, <3>2, <3>3, <3>7, <5>1, <5>2
      <4> QED BY <3>5, <4>1, <4>2
    <3> QED BY <2>4, <3>6, <3>8 DEF m
  <2> QED BY <2>2, <2>3, <2>4
<1> QED BY <1>1, IngestInvHolds, PTL

-----------------------------------------------------------------------------
(* Nothing is lost on the way to the chunks.                                 *)

\* Every word of a block that was read is put out or gathered, if its table is not a wide one.
Placed == PlacesOf(Texts(chunks)) \cup Ats(accum)
AllKept == \A i \in 1..(next - 1) : ~IsHeading(i) /\ ~Wide(blocks[i]) => Ats(blocks[i].text) \subseteq Placed

\* Once a block was read there is something to put out.
SomethingIsHeld == phase = "chunk" /\ next > 1 => chunks # <<>> \/ accum # <<>> \/ stack # <<>>

\* Every line of a table that was read, and is not cut, is put out as it was read.
TablesKept ==
  \A i \in 1..(next - 1) : blocks[i].type = "table" /\ ~Wide(blocks[i]) =>
    \A w \in ToSet(blocks[i].text) : MayBeCut(blocks[i], w) \/ w \in LinesOf(chunks)

KeptInv == AllKept /\ TablesKept /\ SomethingIsHeld /\ SomethingIsIndexed

\* Where the words of some chunks are from.
LEMMA TextsOfChunks ==
  ASSUME NEW cs, NEW a
  PROVE  a \in PlacesOf(Texts(cs)) <=> \E c \in ToSet(cs) : a \in Ats(c.text)
PROOF
  BY DEF PlacesOf, Texts, Ats, ToSet

\* Chunks behind chunks have the words of both.
LEMMA ChunksJoin ==
  ASSUME NEW cs \in Seq(ChunkType), NEW ds \in Seq(ChunkType)
  PROVE  /\ PlacesOf(Texts(cs \o ds)) = PlacesOf(Texts(cs)) \cup PlacesOf(Texts(ds))
         /\ LinesOf(cs \o ds) = LinesOf(cs) \cup LinesOf(ds)
PROOF
<1>1. ToSet(cs \o ds) = ToSet(cs) \cup ToSet(ds)
  BY JoinHas
<1>2. LinesOf(cs \o ds) = LinesOf(cs) \cup LinesOf(ds)
  BY <1>1 DEF LinesOf
<1> QED BY <1>1, <1>2, TextsOfChunks

\* The chunks that are made of some texts have their words.
LEMMA ChunksOfTexts ==
  ASSUME NEW kind, NEW p, NEW texts, NEW prefix
  PROVE  /\ PlacesOf(Texts(ChunksOf(kind, p, texts, prefix))) = PlacesOf(texts)
         /\ DOMAIN ChunksOf(kind, p, texts, prefix) = DOMAIN texts
         /\ WordsIn(texts) \subseteq LinesOf(ChunksOf(kind, p, texts, prefix))
PROOF
<1> DEFINE cs == ChunksOf(kind, p, texts, prefix)
<1>1. DOMAIN cs = DOMAIN texts /\ \A i \in DOMAIN texts : cs[i] = Cited(kind, p, texts[i], prefix)
  BY DEF ChunksOf
<1>2. \A i \in DOMAIN texts : cs[i].text = texts[i]
  BY <1>1 DEF Cited
<1> HIDE DEF cs
<1>3. \A a : a \in PlacesOf(Texts(cs)) <=> \E i \in DOMAIN texts : a \in Ats(texts[i])
  BY <1>1, <1>2, TextsOfChunks DEF ToSet
<1>4. \A a : a \in PlacesOf(Texts(cs)) <=> a \in PlacesOf(texts)
  BY <1>3, PlacesAre
<1>5. WordsIn(texts) \subseteq LinesOf(cs)
  <2> SUFFICES ASSUME NEW i \in DOMAIN texts, NEW w \in ToSet(texts[i]) PROVE w \in LinesOf(cs)
    BY DEF WordsIn, ToSet
  <2>1. cs[i] \in ToSet(cs) /\ cs[i].text = texts[i]
    BY <1>1, <1>2 DEF ToSet
  <2> QED BY <2>1 DEF LinesOf
<1> QED BY <1>1, <1>4, <1>5 DEF cs

\* Putting out what has been gathered loses none of it.
LEMMA FlushedKeeps ==
  ASSUME IngestInv, phase = "chunk"
  PROVE  /\ Flushed \in Seq(ChunkType) /\ Placed \subseteq PlacesOf(Texts(Flushed))
         /\ LinesOf(chunks) \subseteq LinesOf(Flushed)
PROOF
<1> DEFINE A == UNION {Ats(blocks[i].text) : i \in Gathering}
<1> DEFINE texts == Splits(accum, BudgetUnder(stack, TextCrumb))
<1> DEFINE cs == ChunksOf("text", page, texts, PrefixTokens(stack, TextCrumb))
<1>1. /\ accum \in Seq(WordsAt(A)) /\ AllSound(cs)
      /\ BudgetUnder(stack, TextCrumb) \in Nat /\ BudgetUnder(stack, TextCrumb) >= 2
  BY TextPutOut
<1> HIDE DEF A
<1>2. Ats(accum) \subseteq PlacesOf(texts)
  BY <1>1, SplitsKeep
<1>3. PlacesOf(Texts(cs)) = PlacesOf(texts)
  BY ChunksOfTexts
<1>4. chunks \in Seq(ChunkType) /\ cs \in Seq(ChunkType)
  BY <1>1 DEF IngestInv, IngestType, AllSound
<1>5. Flushed = chunks \o cs
  BY DEF Flushed
<1> HIDE DEF cs, texts
<1>6. /\ PlacesOf(Texts(Flushed)) = PlacesOf(Texts(chunks)) \cup PlacesOf(Texts(cs))
      /\ LinesOf(Flushed) = LinesOf(chunks) \cup LinesOf(cs)
  BY <1>4, <1>5, ChunksJoin
<1>7. Flushed \in Seq(ChunkType)
  BY FlushedSound DEF AllSound
<1> QED BY <1>2, <1>3, <1>6, <1>7 DEF Placed

\* The texts are words.
LEMMA TextsAreWords ==
  ASSUME IngestInv
  PROVE  Texts(chunks) \in Seq(Seq(Word)) /\ accum \in Seq(Word)
PROOF
<1>1. accum \in Seq(Word)
  <2> DEFINE A == UNION {Ats(blocks[i].text) : i \in Gathering}
  <2>1. accum \in Seq(WordsAt(A))
    BY DEF IngestInv, AccumIsGathered
  <2>2. WordsAt(A) \subseteq Word
    BY DEF WordsAt
  <2> HIDE DEF A
  <2> QED BY <2>1, <2>2, Wider
<1>2. chunks \in Seq(ChunkType) /\ \A c \in ChunkType : c.text \in Seq(Word)
  BY DEF IngestInv, IngestType, ChunkType
<1> DEFINE ts == Texts(chunks)
<1> DEFINE n == Len(chunks)
<1>3. n \in Nat /\ DOMAIN chunks = 1..n /\ \A i \in 1..n : chunks[i].text \in Seq(Word)
  <2> DEFINE T == ChunkType
  <2>1. chunks \in Seq(T) /\ \A c \in T : c.text \in Seq(Word)
    BY <1>2
  <2> HIDE DEF T
  <2> QED BY <2>1
<1>4. DOMAIN ts = 1..n /\ (\A i \in 1..n : ts[i] \in Seq(Word)) /\ ts = [i \in 1..n |-> ts[i]]
  BY <1>3 DEF Texts
<1> HIDE DEF ts, n
<1>5. ts \in Seq(Seq(Word))
  BY <1>3, <1>4, ListIs
<1> QED BY <1>1, <1>5 DEF ts

\* A text that has words has places, and so has what holds them.
LEMMA SomeWord ==
  ASSUME NEW s \in Seq(Word), s # <<>>, NEW cs, Ats(s) \subseteq PlacesOf(Texts(cs))
  PROVE  cs # <<>>
PROOF
<1>1. 1 \in DOMAIN s
  OBVIOUS
<1>2. s[1].at \in Ats(s)
  BY <1>1 DEF Ats, ToSet
<1>3. PICK c \in ToSet(cs) : s[1].at \in Ats(c.text)
  BY <1>2, TextsOfChunks
<1> QED BY <1>3 DEF ToSet

\* What was gathered and the text behind it.
LEMMA GatheredHas ==
  ASSUME accum \in Seq(Word), NEW text \in Seq(Word)
  PROVE  Ats(Gathered(text)) = Ats(accum) \cup Ats(text)
PROOF
<1>1. CASE accum = <<>>
  <2>1. Gathered(text) = text
    BY <1>1 DEF Gathered
  <2>2. Ats(accum) = {}
    BY <1>1 DEF Ats, ToSet
  <2> QED BY <2>1, <2>2
<1>2. CASE accum # <<>>
  <2> DEFINE n == Len(accum)
  <2> DEFINE v == [accum[n] EXCEPT !.end = Paragraph]
  <2> DEFINE ended == [accum EXCEPT ![n] = v]
  <2>1. n \in Nat /\ n \in DOMAIN accum /\ accum[n] \in Word /\ DOMAIN accum = 1..n
    BY <1>2
  <2>2. v \in Word /\ v.at = accum[n].at
    <3> DEFINE w == accum[n]
    <3>1. w \in Word
      BY <2>1
    <3> HIDE DEF w, n
    <3>2. Paragraph \in Paragraph..Space
      BY DEF Paragraph, Space
    <3>3. [w EXCEPT !.end = Paragraph] \in Word /\ [w EXCEPT !.end = Paragraph].at = w.at
      BY <3>1, <3>2 DEF Word
    <3> QED BY <3>3 DEF w
  <2>3. Gathered(text) = ended \o text
    BY <1>2 DEF Gathered
  <2> HIDE DEF v, n
  <2>4. ended \in Seq(Word) /\ DOMAIN ended = DOMAIN accum /\ \A k \in DOMAIN accum : ended[k] = IF k = n THEN v ELSE accum[k]
    BY <2>1, <2>2
  <2> HIDE DEF ended
  <2>5. \A k \in DOMAIN accum : ended[k].at = accum[k].at
    BY <2>2, <2>4
  <2>6. Ats(ended) = Ats(accum)
    BY <2>4, <2>5 DEF Ats, ToSet
  <2> QED BY <2>3, <2>4, <2>6, AtsJoin
<1> QED BY <1>1, <1>2

\* A block is read and nothing of what was held is lost.
LEMMA KeptStep ==
  ASSUME IngestType, AllKept, TablesKept, UNCHANGED blocks, next' = next + 1,
         Placed \subseteq Placed', LinesOf(chunks) \subseteq LinesOf(chunks'),
         ~IsHeading(next) /\ ~Wide(blocks[next]) => Ats(blocks[next].text) \subseteq Placed',
         blocks[next].type = "table" /\ ~Wide(blocks[next]) =>
           \A w \in ToSet(blocks[next].text) : MayBeCut(blocks[next], w) \/ w \in LinesOf(chunks')
  PROVE  AllKept' /\ TablesKept'
PROOF
<1>1. next \in Nat
  BY DEF IngestType
<1>2. \A i : IsHeading(i)' <=> IsHeading(i)
  BY DEF IsHeading
<1>3. ASSUME NEW i \in 1..(next' - 1), ~IsHeading(i), ~Wide(blocks[i]) PROVE Ats(blocks[i].text) \subseteq Placed'
  <2>1. i = next \/ i \in 1..(next - 1)
    BY <1>1
  <2> QED BY <1>3, <2>1 DEF AllKept
<1>4. ASSUME NEW i \in 1..(next' - 1), blocks[i].type = "table", ~Wide(blocks[i]), NEW w \in ToSet(blocks[i].text)
      PROVE  MayBeCut(blocks[i], w) \/ w \in LinesOf(chunks')
  <2>1. i = next \/ i \in 1..(next - 1)
    BY <1>1
  <2> QED BY <1>4, <2>1 DEF TablesKept
<1> QED BY <1>2, <1>3, <1>4 DEF AllKept, TablesKept

-----------------------------------------------------------------------------
(* The steps, again.                                                         *)

\* Nothing is read at first.
LEMMA KeptInit == IngestInit => KeptInv
PROOF
  BY DEF IngestInit, KeptInv, AllKept, TablesKept, SomethingIsHeld, SomethingIsIndexed

\* Before anything is read.
LEMMA KeptUnread == IngestInv /\ KeptInv /\ (Probe \/ ParseDocument) => KeptInv'
PROOF
<1> SUFFICES ASSUME IngestInv, KeptInv, Probe \/ ParseDocument PROVE KeptInv'
  OBVIOUS
<1>1. /\ phase \in {"probe", "parse"} /\ phase' \in {"parse", "failed", "chunk"}
      /\ UNCHANGED <<next, stack, accum, chunks>>
  BY DEF Probe, ParseDocument
<1>2. next = 1
  <2>1. blocks = <<>> /\ next \in 1..(Len(blocks) + 1)
    BY <1>1 DEF IngestInv, IngestType
  <2> QED BY <2>1
<1>3. AllKept' /\ TablesKept'
  <2>1. 1..(next' - 1) = {}
    BY <1>1, <1>2
  <2> QED BY <2>1 DEF AllKept, TablesKept
<1>4. SomethingIsHeld' /\ SomethingIsIndexed'
  BY <1>1, <1>2 DEF SomethingIsHeld, SomethingIsIndexed
<1> QED BY <1>3, <1>4 DEF KeptInv

\* A heading puts out what was gathered and stays on the stack.
LEMMA KeptHeading == IngestInv /\ KeptInv /\ ReadHeading => KeptInv'
PROOF
<1> SUFFICES ASSUME IngestInv, KeptInv, ReadHeading PROVE KeptInv'
  OBVIOUS
<1> DEFINE h == [at |-> next, size |-> Size(blocks[next].text)]
<1> DEFINE s == SubSeq(stack, 1, Least(blocks[next].level - 1, Len(stack)))
<1>1. /\ phase = "chunk" /\ phase' = phase /\ IsHeading(next) /\ next' = next + 1
      /\ chunks' = Flushed /\ stack' = Append(s, h) /\ UNCHANGED blocks
  BY DEF ReadHeading, Reading, IsHeading
<1>2. Placed \subseteq PlacesOf(Texts(Flushed)) /\ LinesOf(chunks) \subseteq LinesOf(Flushed)
  BY <1>1, FlushedKeeps
<1>3. Placed \subseteq Placed'
  BY <1>1, <1>2 DEF Placed
<1>4. AllKept' /\ TablesKept'
  <2>1. ~(blocks[next].type = "table")
    BY <1>1 DEF IsHeading
  <2> QED BY <1>1, <1>2, <1>3, <2>1, KeptStep DEF IngestInv, KeptInv
<1>5. stack' # <<>>
  <2> DEFINE H == [at : Nat, size : Nat]
  <2> DEFINE n == Len(stack)
  <2> DEFINE m == Least(blocks[next].level - 1, n)
  <2>1. stack \in Seq(H) /\ n \in Nat
    BY DEF IngestInv, IngestType, Headings
  <2>2. blocks[next].level \in Nat /\ blocks[next].level >= 1
    <3>1. blocks[next] \in BlockType /\ blocks[next].level \in Nat /\ blocks[next].type = "heading"
      BY NextIs DEF ReadHeading, Reading, IngestInv
    <3> QED BY <3>1 DEF BlockType
  <2>3. m \in Nat /\ m <= n
    <3> HIDE DEF n
    <3> QED BY <2>1, <2>2 DEF Least
  <2>4. h \in H /\ s = SubSeq(stack, 1, m)
    <3>1. Size(blocks[next].text) \in Nat /\ next \in Nat
      <4>1. blocks[next].text \in Seq(WordsAt(Ats(blocks[next].text))) /\ next \in Nat
        BY NextIs DEF ReadHeading, Reading, IngestInv
      <4> QED BY <4>1, SizesOfWords, SizeAdds
    <3> QED BY <3>1
  <2> HIDE DEF H, m, n, s, h
  <2>5. s \in Seq(H)
    BY <2>1, <2>3, <2>4 DEF n
  <2>6. Len(Append(s, h)) = Len(s) + 1 /\ Len(s) \in Nat
    BY <2>4, <2>5
  <2>7. Len(stack') # 0
    BY <1>1, <2>6
  <2> QED BY <2>7
<1>6. SomethingIsHeld' /\ SomethingIsIndexed'
  BY <1>1, <1>5 DEF SomethingIsHeld, SomethingIsIndexed
<1> QED BY <1>4, <1>6 DEF KeptInv

\* A block that is put out by itself.
LEMMA KeptPutOut ==
  ASSUME IngestInv, KeptInv, phase = "chunk", UNCHANGED <<phase, blocks, stack>>, next' = next + 1,
         NEW cs \in Seq(ChunkType), cs # <<>>, chunks' = Flushed \o cs,
         ~Wide(blocks[next]) => Ats(blocks[next].text) \subseteq PlacesOf(Texts(cs)),
         blocks[next].type = "table" /\ ~Wide(blocks[next]) =>
           \A w \in ToSet(blocks[next].text) : MayBeCut(blocks[next], w) \/ w \in LinesOf(cs)
  PROVE  KeptInv'
PROOF
<1>1. /\ Flushed \in Seq(ChunkType) /\ Placed \subseteq PlacesOf(Texts(Flushed))
      /\ LinesOf(chunks) \subseteq LinesOf(Flushed)
  BY FlushedKeeps
<1>2. /\ PlacesOf(Texts(chunks')) = PlacesOf(Texts(Flushed)) \cup PlacesOf(Texts(cs))
      /\ LinesOf(chunks') = LinesOf(Flushed) \cup LinesOf(cs)
  BY <1>1, ChunksJoin
<1>3. PlacesOf(Texts(chunks')) \subseteq Placed'
  BY DEF Placed
<1>4. AllKept' /\ TablesKept'
  BY <1>1, <1>2, <1>3, KeptStep DEF IngestInv, KeptInv
<1>5. chunks' # <<>>
  <2> DEFINE T == ChunkType
  <2>1. Flushed \in Seq(T) /\ cs \in Seq(T)
    BY <1>1
  <2> HIDE DEF T
  <2>2. Len(Flushed \o cs) = Len(Flushed) + Len(cs) /\ Len(Flushed) \in Nat /\ Len(cs) \in Nat /\ Len(cs) # 0
    BY <2>1
  <2>3. Len(chunks') # 0
    BY <2>2
  <2> QED BY <2>3
<1> QED BY <1>4, <1>5 DEF KeptInv, SomethingIsHeld, SomethingIsIndexed

\* A table is put out in parts that have all its lines, if its head leaves them room.
LEMMA KeptTable == IngestInv /\ KeptInv /\ ReadTable => KeptInv'
PROOF
<1> SUFFICES ASSUME IngestInv, KeptInv, ReadTable PROVE KeptInv'
  OBVIOUS
<1> DEFINE text == blocks[next].text
<1> DEFINE b == BudgetUnder(stack, BlockCrumb)
<1> DEFINE texts == TableParts(text, b)
<1> DEFINE cs == ChunksOf("table", blocks[next].page, texts, PrefixTokens(stack, BlockCrumb))
<1>1. /\ phase = "chunk" /\ next \in DOMAIN blocks /\ blocks[next].type = "table"
      /\ chunks' = Flushed \o cs /\ next' = next + 1
      /\ UNCHANGED <<phase, blocks, stack>>
  BY DEF ReadTable, Reading
<1>2. AllSound(cs)
  BY <1>1, TablePutOut
<1>3. text \in Seq(WordsAt(Ats(text)))
  BY <1>1, NextIs DEF IngestInv
<1>4. /\ b \in Nat /\ b >= 2 /\ b <= MaxTokens /\ b >= MaxTokens \div 2 /\ MaxTokens \div 2 \in Nat
      /\ b >= LeastBudget /\ LeastBudget \in Int
  <2>1. b >= MaxTokens - Label - BlockCrumb - Slack
    BY BudgetIs DEF IngestInv, IngestType
  <2> QED BY <2>1, BudgetIs, ChunkingAssumption DEF IngestInv, IngestType, LeastBudget
<1>5. /\ PlacesOf(Texts(cs)) = PlacesOf(texts) /\ DOMAIN cs = DOMAIN texts
      /\ WordsIn(texts) \subseteq LinesOf(cs)
  BY ChunksOfTexts
<1> DEFINE h == TokensOf(Size(TableHead(text)))
<1> DEFINE whole(w) == Len(text) <= 2 \/ h + TokensOf(w.size) <= b
<1>6. /\ texts # <<>>
      /\ Len(text) <= 2 \/ h < b =>
           \A w \in ToSet(text) : w.at \in PlacesOf(texts) /\ (whole(w) => w \in WordsIn(texts))
  <2> HIDE DEF b, text
  <2> QED BY <1>3, <1>4, TablePartsKeep
<1>a. Len(text) \in Nat /\ (Len(text) > 2 => h \in Nat) /\ \A w \in ToSet(text) : TokensOf(w.size) \in Nat
  <2>1. Len(text) \in Nat
    BY <1>3
  <2>2. ASSUME Len(text) > 2 PROVE h \in Nat
    <3>1. Len(text) >= 3
      BY <2>1, <2>2
    <3>2. Size(TableHead(text)) \in Nat
      BY <1>3, <3>1, HeadIs
    <3> QED BY <3>2, TokensAre
  <2>3. ASSUME NEW w \in ToSet(text) PROVE TokensOf(w.size) \in Nat
    <3>1. w \in WordsAt(Ats(text))
      BY <1>3 DEF ToSet
    <3> QED BY <3>1, SizesOfWords, TokensAre
  <2> QED BY <2>1, <2>2, <2>3
<1>b. Wide(blocks[next]) <=> Len(text) > 2 /\ h >= MaxTokens \div 2
  BY <1>1 DEF Wide, HeadTokens
<1>c. \A w : MayBeCut(blocks[next], w) <=> Len(text) > 2 /\ h + TokensOf(w.size) > LeastBudget
  BY DEF MayBeCut, HeadTokens
<1> HIDE DEF h, b
<1>d. ~Wide(blocks[next]) => Len(text) <= 2 \/ h < b
  BY <1>4, <1>a, <1>b
<1>e. ASSUME NEW w \in ToSet(text) PROVE MayBeCut(blocks[next], w) \/ whole(w)
  <2>1. TokensOf(w.size) \in Nat
    BY <1>a
  <2> DEFINE k == TokensOf(w.size)
  <2> HIDE DEF k
  <2>2. (Len(text) > 2 /\ h + k > LeastBudget) \/ Len(text) <= 2 \/ h + k <= b
    BY <1>4, <1>a, <2>1 DEF k
  <2> QED BY <1>c, <2>2 DEF k
<1>7. cs # <<>>
  <2>1. 1 \in DOMAIN texts
    <3> DEFINE F == FitTables(Ats(text), b, TRUE)
    <3>1. texts \in Seq(F)
      BY <1>3, <1>4, TablePartsAre
    <3> HIDE DEF F, texts
    <3> QED BY <1>6, <3>1
  <2> HIDE DEF texts, cs
  <2> QED BY <1>5, <2>1
<1>8. ~Wide(blocks[next]) => Ats(text) \subseteq PlacesOf(Texts(cs))
  BY <1>5, <1>6, <1>d DEF Ats
<1>9. ~Wide(blocks[next]) => \A w \in ToSet(text) : MayBeCut(blocks[next], w) \/ w \in LinesOf(cs)
  BY <1>5, <1>6, <1>d, <1>e
<1>10. cs \in Seq(ChunkType)
  BY <1>2 DEF AllSound
<1> HIDE DEF cs, texts
<1> QED BY <1>1, <1>7, <1>8, <1>9, <1>10, KeptPutOut

\* So is the description of a figure.
LEMMA KeptFigure == IngestInv /\ KeptInv /\ ReadFigure => KeptInv'
PROOF
<1> SUFFICES ASSUME IngestInv, KeptInv, ReadFigure PROVE KeptInv'
  OBVIOUS
<1> DEFINE text == blocks[next].text
<1> DEFINE b == BudgetUnder(stack, BlockCrumb)
<1> DEFINE texts == Splits(text, b)
<1> DEFINE cs == ChunksOf("figure", blocks[next].page, texts, PrefixTokens(stack, BlockCrumb))
<1>1. /\ phase = "chunk" /\ next \in DOMAIN blocks /\ blocks[next].type = "image"
      /\ chunks' = Flushed \o cs /\ next' = next + 1
      /\ UNCHANGED <<phase, blocks, stack>>
  BY DEF ReadFigure, Reading
<1>2. AllSound(cs)
  BY <1>1, FigurePutOut
<1>3. text \in Seq(WordsAt(Ats(text))) /\ blocks[next] \in BlockType
  BY <1>1, NextIs DEF IngestInv
<1>4. b \in Nat /\ b >= 2
  BY BudgetIs DEF IngestInv, IngestType
<1>5. PlacesOf(Texts(cs)) = PlacesOf(texts)
  BY ChunksOfTexts
<1>6. Ats(text) \subseteq PlacesOf(texts)
  <2> HIDE DEF b, text
  <2> QED BY <1>3, <1>4, SplitsKeep
<1>7. text \in Seq(Word) /\ text # <<>>
  BY <1>1, <1>3 DEF BlockType
<1>a. blocks[next].type # "table"
  BY <1>1
<1> HIDE DEF cs, texts, b
<1>8. cs # <<>>
  <2> HIDE DEF text
  <2> QED BY <1>5, <1>6, <1>7, SomeWord
<1> QED BY <1>1, <1>2, <1>5, <1>6, <1>8, <1>a, KeptPutOut DEF AllSound

\* Text is gathered, or put out at a new page before it is.
LEMMA KeptText == IngestInv /\ KeptInv /\ ReadText => KeptInv'
PROOF
<1> SUFFICES ASSUME IngestInv, KeptInv, ReadText PROVE KeptInv'
  OBVIOUS
<1> DEFINE text == blocks[next].text
<1>1. /\ phase = "chunk" /\ next \in DOMAIN blocks /\ blocks[next].type = "text" /\ next' = next + 1
      /\ UNCHANGED <<phase, blocks, stack>>
  BY DEF ReadText, Reading
<1>2. text \in Seq(Word) /\ text # <<>>
  <2>1. blocks[next] \in BlockType
    BY <1>1, NextIs DEF IngestInv
  <2> QED BY <1>1, <2>1 DEF BlockType
<1>3. accum \in Seq(Word)
  BY TextsAreWords
<1> HIDE DEF text
<1>4. Placed \subseteq Placed' /\ Ats(text) \subseteq Ats(accum') /\ LinesOf(chunks) \subseteq LinesOf(chunks')
  <2>1. CASE accum # <<>> /\ page # blocks[next].page
    <3>1. chunks' = Flushed /\ accum' = text
      BY <2>1 DEF ReadText, text
    <3>2. Placed \subseteq PlacesOf(Texts(Flushed)) /\ LinesOf(chunks) \subseteq LinesOf(Flushed)
      BY <1>1, FlushedKeeps
    <3> QED BY <3>1, <3>2 DEF Placed
  <2>2. CASE ~(accum # <<>> /\ page # blocks[next].page)
    <3>1. accum' = Gathered(text) /\ UNCHANGED chunks
      BY <2>2 DEF ReadText, text
    <3>2. Ats(Gathered(text)) = Ats(accum) \cup Ats(text)
      BY <1>2, <1>3, GatheredHas
    <3> QED BY <3>1, <3>2 DEF Placed
  <2> QED BY <2>1, <2>2
<1>5. AllKept' /\ TablesKept'
  <2>1. Ats(text) \subseteq Placed'
    BY <1>4 DEF Placed
  <2> QED BY <1>1, <1>4, <2>1, KeptStep DEF IngestInv, KeptInv, text
<1>6. accum' # <<>>
  <2>1. text[1] \in ToSet(text)
    <3>1. 1 \in DOMAIN text
      BY <1>2
    <3> QED BY <3>1 DEF ToSet
  <2>2. text[1].at \in Ats(accum')
    BY <1>4, <2>1 DEF Ats
  <2> QED BY <2>2 DEF Ats, ToSet
<1> QED BY <1>1, <1>5, <1>6 DEF KeptInv, SomethingIsHeld, SomethingIsIndexed

\* What is left is put out at the end, or the headings if there is nothing else.
LEMMA KeptFinish == IngestInv /\ KeptInv /\ Finish => KeptInv'
PROOF
<1> SUFFICES ASSUME IngestInv, KeptInv, Finish PROVE KeptInv'
  OBVIOUS
<1>1. /\ phase = "chunk" /\ phase' = "done" /\ next = Len(blocks) + 1
      /\ UNCHANGED <<blocks, next, stack>>
      /\ chunks' = IF Flushed = <<>> /\ stack # <<>> THEN Titles ELSE Flushed
  BY DEF Finish
<1>2. Placed \subseteq PlacesOf(Texts(Flushed)) /\ LinesOf(chunks) \subseteq LinesOf(Flushed)
  BY <1>1, FlushedKeeps
<1>3. Flushed = <<>> => Placed = {} /\ LinesOf(chunks) = {}
  BY <1>2 DEF PlacesOf, LinesOf, Texts, ToSet
<1>4. Placed \subseteq Placed'
  BY <1>1, <1>2, <1>3 DEF Placed
<1>5. AllKept' /\ TablesKept'
  <2>1. \A i : IsHeading(i)' <=> IsHeading(i)
    BY <1>1 DEF IsHeading
  <2>2. LinesOf(chunks) \subseteq LinesOf(chunks')
    BY <1>1, <1>2, <1>3
  <2> QED BY <1>1, <1>4, <2>1, <2>2 DEF KeptInv, AllKept, TablesKept
<1>6. ASSUME chunks' = <<>> PROVE blocks = <<>>
  <2>1. Flushed = <<>> /\ stack = <<>>
    BY <1>1, <1>6 DEF Titles
  <2>2. accum = <<>>
    <3> SUFFICES ASSUME accum # <<>> PROVE FALSE
      OBVIOUS
    <3>1. accum \in Seq(WordsAt(UNION {Ats(blocks[i].text) : i \in Gathering}))
      BY DEF IngestInv, AccumIsGathered
    <3>2. 1 \in DOMAIN accum
      BY <3>1
    <3>3. accum[1].at \in Placed
      BY <3>2 DEF Placed, Ats, ToSet
    <3> QED BY <1>3, <2>1, <3>3
  <2>3. chunks = <<>>
    <3> DEFINE cs == ChunksOf("text", page, Splits(accum, BudgetUnder(stack, TextCrumb)), PrefixTokens(stack, TextCrumb))
    <3> DEFINE T == ChunkType
    <3>1. Flushed = chunks \o cs
      BY DEF Flushed
    <3>2. chunks \in Seq(T) /\ cs \in Seq(T)
      BY TextPutOut DEF IngestInv, IngestType, AllSound
    <3> HIDE DEF cs, T
    <3>3. Len(chunks \o cs) = Len(chunks) + Len(cs) /\ Len(chunks) \in Nat /\ Len(cs) \in Nat
      BY <3>2
    <3>4. Len(chunks \o cs) = 0
      BY <2>1, <3>1
    <3> QED BY <3>2, <3>3, <3>4
  <2>4. ~(next > 1)
    BY <1>1, <2>1, <2>2, <2>3 DEF KeptInv, SomethingIsHeld
  <2>5. blocks \in Seq(BlockType)
    BY DEF IngestInv, IngestType
  <2> QED BY <1>1, <2>4, <2>5
<1>7. SomethingIsHeld' /\ SomethingIsIndexed'
  BY <1>1, <1>6 DEF SomethingIsHeld, SomethingIsIndexed
<1> QED BY <1>5, <1>7 DEF KeptInv

\* Something of every word and every row read of a document is in a chunk, or gathered for the
\* next; a row is in a chunk as it was read if it and its head fit the least budget; and a document
\* with anything to read is never indexed as nothing.  What is lost is the end of a longer row, and
\* of a table whose head takes half a chunk (chunk_blocks, split_text_recursive, split_large_table).
THEOREM NothingIsLost == IngestSpec => [](WordsAreKept /\ RowsAreWhole /\ SomethingIsIndexed)
PROOF
<1>1. IngestInv /\ KeptInv /\ [IngestNext]_ingestVars => KeptInv'
  <2> SUFFICES ASSUME IngestInv, KeptInv, [IngestNext]_ingestVars PROVE KeptInv'
    OBVIOUS
  <2>1. CASE UNCHANGED ingestVars
    <3>1. UNCHANGED <<phase, blocks, next, stack, accum, chunks>>
      BY <2>1 DEF ingestVars
    <3>2. (\A i : IsHeading(i)' <=> IsHeading(i)) /\ Placed' = Placed
      BY <3>1 DEF IsHeading, Placed
    <3>3. AllKept' /\ TablesKept'
      BY <3>1, <3>2 DEF KeptInv, AllKept, TablesKept
    <3> QED BY <3>1, <3>3 DEF KeptInv, SomethingIsHeld, SomethingIsIndexed
  <2> QED BY <2>1, KeptUnread, KeptHeading, KeptTable, KeptFigure, KeptText, KeptFinish DEF IngestNext
<1>2. IngestInv /\ KeptInv => WordsAreKept /\ RowsAreWhole /\ SomethingIsIndexed
  <2> SUFFICES ASSUME IngestInv, KeptInv PROVE WordsAreKept /\ RowsAreWhole
    BY DEF KeptInv
  <2> DEFINE I == {i \in 1..(next - 1) : blocks[i].type # "heading"}
  <2>1. blocks \in Seq(BlockType) /\ next \in 1..(Len(blocks) + 1)
    BY DEF IngestInv, IngestType
  <2>2. I \in SUBSET DOMAIN blocks
    BY <2>1
  <2>3. ToSet(Read) = {blocks[i] : i \in I}
    <3> HIDE DEF I
    <3>1. ToSet(Among(blocks, I)) = {blocks[i] : i \in I}
      BY <2>1, <2>2, AmongHas
    <3> QED BY <3>1 DEF Read, I
  <2>4. ASSUME NEW a \in PlacesOf(Texts(Read)) PROVE a \in PlacesOf(Append(Texts(chunks), accum)) \cup WideLines
    <3>1. PICK b \in ToSet(Read) : a \in Ats(b.text)
      BY TextsOfChunks
    <3>2. PICK i \in I : b = blocks[i]
      BY <2>3, <3>1
    <3>3. CASE Wide(b)
      <4>1. b \in ToSet(blocks)
        BY <2>2, <3>2 DEF ToSet
      <4> QED BY <3>1, <3>3, <4>1 DEF WideLines, Ats
    <3>4. CASE ~Wide(b)
      <4>1. a \in Placed
        BY <3>1, <3>2, <3>4 DEF KeptInv, AllKept, IsHeading
      <4>2. Texts(chunks) \in Seq(Seq(Word)) /\ accum \in Seq(Word)
        BY TextsAreWords
      <4>3. PlacesOf(Append(Texts(chunks), accum)) = Placed
        BY <4>2, PlacesAppend DEF Placed
      <4> QED BY <4>1, <4>3
    <3> QED BY <3>3, <3>4
  <2>5. RowsAreWhole
    BY <2>3 DEF RowsAreWhole, KeptInv, TablesKept
  <2> QED BY <2>4, <2>5 DEF WordsAreKept
<1> QED BY <1>1, <1>2, KeptInit, IngestInvHolds, PTL DEF IngestSpec
=============================================================================
