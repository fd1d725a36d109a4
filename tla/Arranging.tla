----------------------------- MODULE Arranging -----------------------------
(***************************************************************************)
(* Sequences put in an order: some places of one, its best first, its      *)
(* first few; a set of numbers in order; sums along a sequence.            *)
(***************************************************************************)
EXTENDS Integers, Sequences, FiniteSets, SequencesExt

Least(a, b) == IF a <= b THEN a ELSE b
Most(a, b) == IF a >= b THEN a ELSE b
First(s, n) == SubSeq(s, 1, Least(n, Len(s)))

\* The elements of s at the places I, in the order R of them.
Arranged(s, I, R) ==
  [k \in 1..Cardinality(I) |-> s[CHOOSE i \in I : Cardinality({j \in I : <<j, i>> \in R}) = k - 1]]
\* As they come; or by their scores, equal ones as they come.
InTurn(I) == {p \in I \X I : p[1] < p[2]}
BestFirst(score) ==
  {p \in (DOMAIN score) \X (DOMAIN score) :
     score[p[1]] > score[p[2]] \/ (score[p[1]] = score[p[2]] /\ p[1] < p[2])}

Among(s, I) == Arranged(s, I, InTurn(I))
Sorted(s, score) == Arranged(s, DOMAIN s, BestFirst(score))

\* The elements of a set of numbers, the least first.
InOrder(S) == [k \in 1..Cardinality(S) |-> CHOOSE n \in S : Cardinality({m \in S : m < n}) = k - 1]

\* The sums of f over the beginnings of a sequence.
Sums(f, s) == LET sum[i \in 0..Len(s)] == IF i = 0 THEN 0 ELSE sum[i - 1] + f[s[i]] IN sum
=============================================================================
