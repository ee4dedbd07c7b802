---------------------------- MODULE SequenceFacts ----------------------------
(***************************************************************************)
(* What the proofs need of sequences and of sets of naturals and the       *)
(* library does not state: a least element, recursion on a measure, and    *)
(* how FlattenSeq grows with the sequence of sequences it flattens.        *)
(***************************************************************************)
EXTENDS Integers, Sequences, SequencesExt, SequenceTheorems, WellFoundedInduction, TLAPS

\* A nonempty set of naturals has a least element.
LEMMA MinOfNaturals ==
    ASSUME NEW S, S \subseteq Nat, S # {}
    PROVE  \E m \in S : \A x \in S : m <= x
<1>1. PICK m \in S : \A x \in S : ~(<<x, m>> \in OpToRel(<, Nat))
  BY WFMin, NatLessThanWellFounded
<1>2. ASSUME NEW x \in S PROVE m <= x
  <2>1. x \in Nat /\ m \in Nat
    OBVIOUS
  <2>2. SUFFICES ASSUME x < m PROVE FALSE
    BY <2>1
  <2>3. <<x, m>> \in OpToRel(<, Nat)
    BY <2>1, <2>2 DEF OpToRel
  <2> QED
    BY <1>1, <2>3
<1> QED
  BY <1>2

\* A set of naturals that has 0 and with each number the next has every one.
LEMMA Induction ==
    ASSUME NEW S, 0 \in S, \A n \in Nat : n \in S => n + 1 \in S
    PROVE  Nat \subseteq S
<1> SUFFICES ASSUME Nat \ S # {} PROVE FALSE
  OBVIOUS
<1>1. PICK m \in Nat \ S : \A x \in Nat \ S : m <= x
  BY MinOfNaturals
<1>2. m - 1 \in Nat /\ m - 1 \notin S
  BY <1>1
<1> QED
  BY <1>1, <1>2

\* What a function is at p depends, where the measure m is not 0, on what it is
\* at next[p], where the measure is less.
Descends(D, m, next) ==
    /\ m \in [D -> Nat] /\ next \in [D -> D]
    /\ \A p \in D : m[p] # 0 => m[next[p]] < m[p]

Recursive(f, D, m, next, base, step) ==
    \A p \in D : f[p] = IF m[p] = 0 THEN base[p] ELSE step[<<p, f[next[p]]>>]

\* There is a function so defined.
LEMMA RecursionExists ==
    ASSUME NEW D, NEW V, NEW m, NEW next, Descends(D, m, next),
           NEW base, base \in [D -> V], NEW step, step \in [D \X V -> V],
           NEW N, N \in Nat, \A p \in D : m[p] <= N
    PROVE  \E f : f \in [D -> V] /\ Recursive(f, D, m, next, base, step)
<1> USE DEF Descends
<1> DEFINE Below(k) == {p \in D : m[p] <= k}
           Solves(f, k) ==
               \A p \in Below(k) :
                   f[p] = IF m[p] = 0 THEN base[p] ELSE step[<<p, f[next[p]]>>]
           S == {k \in Nat : \E f \in [Below(k) -> V] : Solves(f, k)}
<1>1. 0 \in S
  <2> DEFINE f == [p \in Below(0) |-> base[p]]
  <2>1. f \in [Below(0) -> V] /\ \A p \in Below(0) : m[p] = 0 /\ f[p] = base[p]
    OBVIOUS
  <2>2. Solves(f, 0)
    BY <2>1
  <2> QED
    BY <2>1, <2>2
<1>2. ASSUME NEW k \in Nat, k \in S PROVE k + 1 \in S
  <2>1. PICK f \in [Below(k) -> V] : Solves(f, k)
    BY <1>2
  <2> DEFINE g == [p \in Below(k + 1) |->
                      IF p \in Below(k) THEN f[p] ELSE step[<<p, f[next[p]]>>]]
  <2>2. \A p \in Below(k + 1) : m[p] # 0 => next[p] \in Below(k)
    <3> TAKE p \in Below(k + 1)
    <3> HAVE m[p] # 0
    <3>1. p \in D /\ next[p] \in D /\ m[p] \in Nat /\ m[next[p]] \in Nat /\ m[p] <= k + 1
      OBVIOUS
    <3>2. m[next[p]] < m[p]
      BY <3>1
    <3> QED
      BY <3>1, <3>2
  <2>3. \A p \in Below(k + 1) : p \notin Below(k) => m[p] # 0
    OBVIOUS
  <2>4. \A p \in Below(k) : p \in Below(k + 1) /\ f[p] \in V
    OBVIOUS
  <2>5. \A p \in Below(k + 1) : p \in D
    OBVIOUS
  <2> HIDE DEF Below
  <2>6. \A p \in Below(k + 1) : m[p] # 0 => f[next[p]] \in V /\ g[next[p]] = f[next[p]]
    BY <2>2, <2>4
  <2>7. g \in [Below(k + 1) -> V]
    <3> SUFFICES ASSUME NEW p \in Below(k + 1)
                 PROVE  (IF p \in Below(k) THEN f[p] ELSE step[<<p, f[next[p]]>>]) \in V
      OBVIOUS
    <3>1. CASE p \in Below(k)
      BY <2>4, <3>1
    <3>2. CASE p \notin Below(k)
      <4>1. <<p, f[next[p]]>> \in D \X V
        BY <2>3, <2>5, <2>6, <3>2
      <4> QED
        BY <3>2, <4>1
    <3> QED
      BY <3>1, <3>2
  <2>8. Solves(g, k + 1)
    <3> SUFFICES ASSUME NEW p \in Below(k + 1)
                 PROVE  g[p] = IF m[p] = 0 THEN base[p] ELSE step[<<p, g[next[p]]>>]
      OBVIOUS
    <3>1. g[p] = IF p \in Below(k) THEN f[p] ELSE step[<<p, f[next[p]]>>]
      OBVIOUS
    <3> HIDE DEF g
    <3>2. CASE p \in Below(k)
      <4>1. f[p] = IF m[p] = 0 THEN base[p] ELSE step[<<p, f[next[p]]>>]
        BY <2>1, <3>2
      <4> QED
        BY <2>6, <3>1, <3>2, <4>1
    <3>3. CASE p \notin Below(k)
      BY <2>3, <2>6, <3>1, <3>3
    <3> QED
      BY <3>2, <3>3
  <2> HIDE DEF g, Solves
  <2> QED
    BY <2>7, <2>8
<1> HIDE DEF S
<1>3. N \in S
  BY <1>1, <1>2, Induction
<1>4. PICK f \in [Below(N) -> V] : Solves(f, N)
  BY <1>3 DEF S
<1>5. Below(N) = D
  OBVIOUS
<1> HIDE DEF Below
<1> QED
  BY <1>4, <1>5 DEF Recursive

\* What holds of a function where the measure is 0, and of p if it holds of
\* next[p], holds of it everywhere: its value is related to its argument by R.
LEMMA RecursionHolds ==
    ASSUME NEW D, NEW m, NEW next, Descends(D, m, next), NEW f, NEW R,
           \A p \in D : m[p] = 0 => <<p, f[p]>> \in R,
           \A p \in D : m[p] # 0 /\ <<next[p], f[next[p]]>> \in R => <<p, f[p]>> \in R
    PROVE  \A p \in D : <<p, f[p]>> \in R
<1> USE DEF Descends
<1> DEFINE S == {k \in Nat : \A p \in D : m[p] <= k => <<p, f[p]>> \in R}
<1>1. 0 \in S
  OBVIOUS
<1>2. ASSUME NEW k \in Nat, k \in S PROVE k + 1 \in S
  <2> SUFFICES ASSUME NEW p \in D, m[p] <= k + 1 PROVE <<p, f[p]>> \in R
    OBVIOUS
  <2>1. CASE m[p] = 0
    BY <2>1
  <2>2. CASE m[p] # 0
    <3>1. next[p] \in D /\ m[p] \in Nat /\ m[next[p]] \in Nat /\ m[next[p]] < m[p]
      BY <2>2
    <3>2. m[next[p]] <= k
      BY <3>1
    <3> QED
      BY <1>2, <2>2, <3>1, <3>2
  <2> QED
    BY <2>1, <2>2
<1> HIDE DEF S
<1>3. Nat \subseteq S
  BY <1>1, <1>2, Induction
<1>4. ASSUME NEW p \in D PROVE <<p, f[p]>> \in R
  <2>1. m[p] \in Nat /\ m[p] <= m[p] /\ m[p] \in S
    BY <1>3
  <2> QED
    BY <2>1 DEF S
<1> QED
  BY <1>4

\* f lists the flattenings of the first 1, 2, ..., n sequences of seqs.
Flattens(f, seqs, n) ==
    f = [i \in 1..n |-> IF i = 1 THEN seqs[i] ELSE f[i - 1] \o seqs[i]]

\* A member of the list continues the one before it.
LEMMA FlattensStep ==
    ASSUME NEW seqs, NEW n \in Nat, NEW f, Flattens(f, seqs, n), NEW k \in Nat, k + 1 <= n
    PROVE  f[k + 1] = IF k = 0 THEN seqs[k + 1] ELSE f[k] \o seqs[k + 1]
<1>1. k + 1 \in 1..n /\ (k + 1) - 1 = k /\ (k + 1 = 1 <=> k = 0)
  OBVIOUS
<1>2. f[k + 1] = IF k + 1 = 1 THEN seqs[k + 1] ELSE f[(k + 1) - 1] \o seqs[k + 1]
  BY <1>1 DEF Flattens
<1> QED
  BY <1>1, <1>2

\* There is such a list, and its members are sequences.
LEMMA FlattensExists ==
    ASSUME NEW T, NEW seqs \in Seq(Seq(T)), NEW n \in Nat, n <= Len(seqs)
    PROVE  \E f : Flattens(f, seqs, n) /\ \A i \in 1..n : f[i] \in Seq(T)
<1> DEFINE S == {k \in Nat : k <= Len(seqs) =>
                    \E f : Flattens(f, seqs, k) /\ \A i \in 1..k : f[i] \in Seq(T)}
<1>1. 0 \in S
  <2>1. Flattens(<<>>, seqs, 0)
    BY DEF Flattens
  <2> QED
    BY <2>1
<1>2. ASSUME NEW k \in Nat, k \in S PROVE k + 1 \in S
  <2> SUFFICES ASSUME k + 1 <= Len(seqs)
               PROVE  \E g : Flattens(g, seqs, k + 1) /\ \A i \in 1..(k + 1) : g[i] \in Seq(T)
    OBVIOUS
  <2>1. PICK f : Flattens(f, seqs, k) /\ \A i \in 1..k : f[i] \in Seq(T)
    BY <1>2
  <2>2. seqs[k + 1] \in Seq(T)
    OBVIOUS
  <2> DEFINE next == IF k = 0 THEN seqs[1] ELSE f[k] \o seqs[k + 1]
             g == [i \in 1..(k + 1) |-> IF i = k + 1 THEN next ELSE f[i]]
  <2>3. next \in Seq(T)
    BY <2>1, <2>2, ConcatProperties
  <2>4. \A i \in 1..k : f[i] = IF i = 1 THEN seqs[i] ELSE f[i - 1] \o seqs[i]
    BY <2>1 DEF Flattens
  <2>5. \A i \in 1..(k + 1) : g[i] = IF i = 1 THEN seqs[i] ELSE g[i - 1] \o seqs[i]
    <3> TAKE i \in 1..(k + 1)
    <3>1. CASE i = k + 1
      BY <3>1
    <3>2. CASE i \in 1..k
      BY <2>4, <3>2
    <3> QED
      BY <3>1, <3>2
  <2>6. Flattens(g, seqs, k + 1)
    BY <2>5 DEF Flattens
  <2>7. \A i \in 1..(k + 1) : g[i] \in Seq(T)
    BY <2>1, <2>3
  <2> QED
    BY <2>6, <2>7
<1> HIDE DEF S
<1>3. n \in S
  BY <1>1, <1>2, Induction
<1> QED
  BY <1>3 DEF S

\* Two such lists agree as far as their sequences do.
LEMMA FlattensUnique ==
    ASSUME NEW v, NEW w, NEW m, NEW n, NEW f, NEW g,
           /\ m \in Nat /\ n \in Nat /\ m <= n
           /\ Flattens(f, v, m) /\ Flattens(g, w, n)
           /\ \A i \in 1..m : v[i] = w[i]
    PROVE  \A i \in 1..m : f[i] = g[i]
<1> DEFINE S == {k \in Nat : k \in 1..m => f[k] = g[k]}
<1>1. 0 \in S
  OBVIOUS
<1>2. ASSUME NEW k \in Nat, k \in S PROVE k + 1 \in S
  <2> SUFFICES ASSUME k + 1 \in 1..m PROVE f[k + 1] = g[k + 1]
    OBVIOUS
  <2>1. f[k + 1] = IF k = 0 THEN v[k + 1] ELSE f[k] \o v[k + 1]
    BY FlattensStep
  <2>2. g[k + 1] = IF k = 0 THEN w[k + 1] ELSE g[k] \o w[k + 1]
    BY FlattensStep
  <2>3. k # 0 => f[k] = g[k]
    BY <1>2
  <2>4. v[k + 1] = w[k + 1]
    OBVIOUS
  <2> QED
    BY <2>1, <2>2, <2>3, <2>4
<1> HIDE DEF S
<1>3. Nat \subseteq S
  BY <1>1, <1>2, Induction
<1> QED
  BY <1>3 DEF S

\* FlattenSeq gives the last of the list.
LEMMA FlattenSeqLast ==
    ASSUME NEW T, NEW seqs \in Seq(Seq(T)), Len(seqs) # 0
    PROVE  \E f : /\ Flattens(f, seqs, Len(seqs)) /\ FlattenSeq(seqs) = f[Len(seqs)]
                  /\ f[Len(seqs)] \in Seq(T)
<1> DEFINE n == Len(seqs)
           f == CHOOSE h : h = [i \in 1..n |-> IF i = 1 THEN seqs[i] ELSE h[i - 1] \o seqs[i]]
<1>1. n \in Nat /\ n \in 1..n
  BY LenProperties
<1>2. PICK g : Flattens(g, seqs, n) /\ \A i \in 1..n : g[i] \in Seq(T)
  BY <1>1, FlattensExists
<1>3. \E h : h = [i \in 1..n |-> IF i = 1 THEN seqs[i] ELSE h[i - 1] \o seqs[i]]
  BY <1>2 DEF Flattens
<1>4. FlattenSeq(seqs) = f[n]
  BY DEF FlattenSeq
<1>5. Flattens(f, seqs, n)
  BY <1>3 DEF Flattens
<1> HIDE DEF f, n
<1>6. f[n] = g[n]
  <2>1. n <= n /\ \A i \in 1..n : seqs[i] = seqs[i]
    BY <1>1
  <2>2. \A i \in 1..n : f[i] = g[i]
    BY <1>1, <1>2, <1>5, <2>1, FlattensUnique
  <2> QED
    BY <1>1, <2>2
<1> QED
  BY <1>1, <1>2, <1>4, <1>5, <1>6 DEF n

\* The flattening is a sequence of the members' members.
LEMMA FlattenSeqType ==
    ASSUME NEW T, NEW seqs \in Seq(Seq(T))
    PROVE  FlattenSeq(seqs) \in Seq(T)
<1>1. CASE Len(seqs) = 0
  BY <1>1 DEF FlattenSeq
<1>2. CASE Len(seqs) # 0
  BY <1>2, FlattenSeqLast
<1> QED
  BY <1>1, <1>2

\* A sequence added at the end is added to the flattening.
LEMMA FlattenSeqAppend ==
    ASSUME NEW T, NEW seqs \in Seq(Seq(T)), NEW last \in Seq(T)
    PROVE  FlattenSeq(Append(seqs, last)) = FlattenSeq(seqs) \o last
<1> DEFINE more == Append(seqs, last)
           n == Len(seqs)
<1>1. /\ more \in Seq(Seq(T)) /\ Len(more) = n + 1 /\ n \in Nat /\ more[n + 1] = last
      /\ \A i \in 1..n : more[i] = seqs[i]
  BY AppendProperties
<1> HIDE DEF more
<1> HIDE DEF n
<1>2. PICK g : Flattens(g, more, n + 1) /\ FlattenSeq(more) = g[n + 1]
  <2>1. Len(more) # 0
    BY <1>1
  <2> QED
    BY <1>1, <2>1, FlattenSeqLast
<1>3. g[n + 1] = IF n = 0 THEN more[n + 1] ELSE g[n] \o more[n + 1]
  <2>1. n \in Nat /\ n + 1 \in Nat /\ n + 1 <= n + 1
    BY <1>1
  <2> QED
    BY <1>2, <2>1, FlattensStep, Zenon
<1>4. CASE n = 0
  <2>1. FlattenSeq(seqs) = <<>>
    BY <1>4 DEF FlattenSeq, n
  <2> QED
    BY <1>1, <1>2, <1>3, <1>4, <2>1, ConcatEmptySeq DEF more
<1>5. CASE n # 0
  <2>1. PICK f : Flattens(f, seqs, n) /\ FlattenSeq(seqs) = f[n]
    BY <1>5, FlattenSeqLast DEF n
  <2> DEFINE k == n + 1
  <2>2. n \in Nat /\ k \in Nat /\ n <= k /\ n \in 1..n /\ \A i \in 1..n : seqs[i] = more[i]
    BY <1>1, <1>5
  <2>3. Flattens(g, more, k)
    BY <1>2
  <2> HIDE DEF k
  <2>4. \A i \in 1..n : f[i] = g[i]
    BY <2>1, <2>2, <2>3, FlattensUnique
  <2> QED
    BY <1>1, <1>2, <1>3, <1>5, <2>1, <2>2, <2>4 DEF more
<1> QED
  BY <1>4, <1>5

\* Concatenation is associative, for sequences of whatever members.
LEMMA ConcatAssoc == \A T : \A u, v, w \in Seq(T) : (u \o v) \o w = u \o (v \o w)
BY ConcatAssociative

-----------------------------------------------------------------------------
(* Sums.  A fold adds up the members of a sequence from its set of indices, *)
(* taking off the greatest each time.                                       *)

SumOf(sizes) == FoldLeft(LAMBDA sum, size : sum + size, 0, sizes)

\* f gives for each set of indices up to n the sum of the sizes there.
Sums(f, sizes, n) ==
    f = [s \in SUBSET (1..n) |->
            IF s = {} THEN 0 ELSE f[s \ {Max(s)}] + sizes[Max(s)]]

\* A nonempty set of indices has a greatest, without which it is in the range
\* of the indices before.
LEMMA MaxOfIndices ==
    ASSUME NEW n \in Nat, NEW s, s \subseteq 1..(n + 1), s # {}
    PROVE  Max(s) \in s /\ (\A x \in s : x <= Max(s)) /\ s \ {Max(s)} \subseteq 1..n
<1> DEFINE S == {(n + 1) - x : x \in s}
<1>1. S \subseteq Nat /\ S # {}
  <2>1. \A x \in s : x \in Int /\ x <= n + 1
    OBVIOUS
  <2>2. \A x \in s : (n + 1) - x \in Nat
    BY <2>1
  <2> QED
    BY <2>2
<1>2. PICK m \in S : \A y \in S : m <= y
  BY <1>1, MinOfNaturals
<1>3. PICK x \in s : m = (n + 1) - x
  OBVIOUS
<1>4. \A y \in s : x >= y
  <2> TAKE y \in s
  <2>1. m <= (n + 1) - y
    BY <1>2
  <2> QED
    BY <1>3, <2>1
<1>5. Max(s) \in s /\ \A y \in s : Max(s) >= y
  BY <1>3, <1>4 DEF Max
<1> HIDE DEF S
<1>6. \A y \in s : y \in Int /\ y <= n + 1 /\ y >= 1
  OBVIOUS
<1>7. ASSUME NEW y \in s, y # Max(s) PROVE y \in 1..n
  <2> DEFINE top == Max(s)
  <2>1. top \in Int /\ top <= n + 1 /\ top >= y /\ y # top
    BY <1>5, <1>6, <1>7
  <2>2. y \in Int /\ y >= 1
    BY <1>6
  <2> HIDE DEF top
  <2> QED
    BY <2>1, <2>2
<1> QED
  BY <1>5, <1>6, <1>7

\* There is such a function.
LEMMA SumsExists ==
    ASSUME NEW sizes, NEW n \in Nat
    PROVE  \E f : Sums(f, sizes, n)
<1> DEFINE S == {k \in Nat : \E f : Sums(f, sizes, k)}
<1>1. 0 \in S
  <2> DEFINE f == [s \in SUBSET (1..0) |-> 0]
  <2>1. \A s \in SUBSET (1..0) : s = {}
    OBVIOUS
  <2>2. Sums(f, sizes, 0)
    BY <2>1 DEF Sums
  <2> QED
    BY <2>2
<1>2. ASSUME NEW k \in Nat, k \in S PROVE k + 1 \in S
  <2>1. PICK f : Sums(f, sizes, k)
    BY <1>2
  <2> DEFINE of(s) == IF s = {} THEN 0 ELSE f[s \ {Max(s)}] + sizes[Max(s)]
             g == [s \in SUBSET (1..(k + 1)) |-> of(s)]
  <2>2. f = [s \in SUBSET (1..k) |-> of(s)]
    BY <2>1 DEF Sums
  <2>3. \A s \in SUBSET (1..k) : s \in SUBSET (1..(k + 1)) /\ f[s] = of(s)
    <3>1. 1..k \subseteq 1..(k + 1)
      OBVIOUS
    <3> HIDE DEF of
    <3> QED
      BY <2>2, <3>1
  <2>4. \A s \in SUBSET (1..(k + 1)) : s # {} => s \ {Max(s)} \in SUBSET (1..k)
    BY MaxOfIndices
  <2> HIDE DEF of
  <2>5. \A s \in SUBSET (1..k) : f[s] = g[s]
    BY <2>3
  <2>6. \A s \in SUBSET (1..(k + 1)) :
            of(s) = IF s = {} THEN 0 ELSE g[s \ {Max(s)}] + sizes[Max(s)]
    <3> TAKE s \in SUBSET (1..(k + 1))
    <3>1. CASE s = {}
      BY <3>1 DEF of
    <3>2. CASE s # {}
      <4>1. f[s \ {Max(s)}] = g[s \ {Max(s)}]
        BY <2>4, <2>5, <3>2
      <4> HIDE DEF g
      <4> QED
        BY <3>2, <4>1 DEF of
    <3> QED
      BY <3>1, <3>2
  <2>7. Sums(g, sizes, k + 1)
    BY <2>6, Zenon DEF Sums, g
  <2> QED
    BY <2>7
<1> HIDE DEF S
<1>3. n \in S
  BY <1>1, <1>2, Induction
<1> QED
  BY <1>3 DEF S

\* What it gives for all the indices up to k.
LEMMA SumsStep ==
    ASSUME NEW f, NEW sizes, NEW n \in Nat, Sums(f, sizes, n), NEW k \in Nat, k <= n
    PROVE  f[1..k] = IF k = 0 THEN 0 ELSE f[1..(k - 1)] + sizes[k]
<1>1. 1..k \in SUBSET (1..n)
  OBVIOUS
<1>2. f[1..k] = IF 1..k = {} THEN 0 ELSE f[(1..k) \ {Max(1..k)}] + sizes[Max(1..k)]
  BY <1>1, Zenon DEF Sums
<1>3. CASE k = 0
  <2>1. 1..k = {}
    BY <1>3
  <2> QED
    BY <1>2, <1>3, <2>1, Zenon
<1>4. CASE k # 0
  <2>1. 1..k # {} /\ k \in 1..k
    BY <1>4
  <2>2. Max(1..k) = k
    <3>1. k \in 1..k /\ \A y \in 1..k : k >= y
      BY <2>1
    <3>2. \A x \in 1..k : (\A y \in 1..k : x >= y) => x = k
      BY <3>1
    <3> QED
      BY <3>1, <3>2 DEF Max
  <2>3. (1..k) \ {k} = 1..(k - 1)
    OBVIOUS
  <2> QED
    BY <1>2, <1>4, <2>1, <2>2, <2>3, Zenon
<1> QED
  BY <1>3, <1>4

\* The sum of a sequence is what such a function gives for all its indices.
LEMMA SumIsLast ==
    ASSUME NEW T, NEW sizes \in Seq(T)
    PROVE  \E f : Sums(f, sizes, Len(sizes)) /\ SumOf(sizes) = f[1..Len(sizes)]
<1> DEFINE n == Len(sizes)
           f == CHOOSE h : h = [s \in SUBSET (1..n) |->
                                  IF s = {} THEN 0 ELSE h[s \ {Max(s)}] + sizes[Max(s)]]
<1>1. n \in Nat /\ DOMAIN sizes = 1..n
  BY LenProperties
<1>2. SumOf(sizes) = f[1..n]
  BY <1>1 DEF SumOf, FoldLeft, MapThenFoldSet
<1>3. \E h : h = [s \in SUBSET (1..n) |->
                     IF s = {} THEN 0 ELSE h[s \ {Max(s)}] + sizes[Max(s)]]
  <2>1. \E h : Sums(h, sizes, n)
    BY <1>1, SumsExists
  <2> QED
    BY <2>1, Zenon DEF Sums
<1>4. Sums(f, sizes, n)
  BY <1>3, Zenon DEF Sums
<1> HIDE DEF f
<1> QED
  BY <1>2, <1>4

\* The sum of no numbers is 0.
LEMMA SumOfNone == SumOf(<<>>) = 0
<1>1. <<>> \in Seq({})
  OBVIOUS
<1>2. PICK f : Sums(f, <<>>, Len(<<>>)) /\ SumOf(<<>>) = f[1..Len(<<>>)]
  BY <1>1, SumIsLast
<1>3. Len(<<>>) = 0 /\ 0 \in Nat /\ 0 <= 0
  OBVIOUS
<1>4. f[1..0] = 0
  BY <1>2, <1>3, SumsStep, Zenon
<1> QED
  BY <1>2, <1>3, <1>4, Zenon

\* A number added at the end is added to the sum.
LEMMA SumAppend ==
    ASSUME NEW T, NEW sizes \in Seq(T), NEW last \in T
    PROVE  SumOf(Append(sizes, last)) = SumOf(sizes) + last
<1> DEFINE more == Append(sizes, last)
           n == Len(sizes)
<1>1. /\ more \in Seq(T) /\ Len(more) = n + 1 /\ n \in Nat /\ more[n + 1] = last
      /\ \A i \in 1..n : more[i] = sizes[i]
  BY AppendProperties
<1>2. PICK f : Sums(f, sizes, n) /\ SumOf(sizes) = f[1..n]
  BY SumIsLast
<1>3. PICK g : Sums(g, more, Len(more)) /\ SumOf(more) = g[1..Len(more)]
  BY <1>1, SumIsLast
<1> HIDE DEF more, n
<1> DEFINE S == {k \in Nat : k <= n => f[1..k] = g[1..k]}
<1>4. \A k \in Nat : k <= n + 1 =>
          g[1..k] = IF k = 0 THEN 0 ELSE g[1..(k - 1)] + more[k]
  <2>1. n + 1 \in Nat /\ Sums(g, more, n + 1)
    BY <1>1, <1>3
  <2> QED
    BY <2>1, SumsStep
<1>5. \A k \in Nat : k <= n => f[1..k] = IF k = 0 THEN 0 ELSE f[1..(k - 1)] + sizes[k]
  BY <1>1, <1>2, SumsStep
<1>6. 0 \in S
  BY <1>1, <1>4, <1>5
<1>7. ASSUME NEW k \in Nat, k \in S PROVE k + 1 \in S
  <2> SUFFICES ASSUME k + 1 <= n PROVE f[1..(k + 1)] = g[1..(k + 1)]
    OBVIOUS
  <2>1. k <= n /\ k + 1 <= n + 1 /\ k + 1 \in Nat /\ k + 1 # 0 /\ (k + 1) - 1 = k
        /\ k + 1 \in 1..n
    BY <1>1
  <2>2. f[1..(k + 1)] = f[1..k] + sizes[k + 1]
    BY <1>5, <2>1
  <2>3. g[1..(k + 1)] = g[1..k] + more[k + 1]
    BY <1>4, <2>1
  <2> QED
    BY <1>1, <1>7, <2>1, <2>2, <2>3
<1> HIDE DEF S
<1>8. n \in S
  BY <1>1, <1>6, <1>7, Induction
<1>9. f[1..n] = g[1..n]
  BY <1>1, <1>8 DEF S
<1>10. g[1..(n + 1)] = g[1..n] + more[n + 1]
  <2>1. n + 1 \in Nat /\ n + 1 <= n + 1 /\ n + 1 # 0 /\ (n + 1) - 1 = n
    BY <1>1
  <2> QED
    BY <1>4, <2>1
<1> QED
  BY <1>1, <1>2, <1>3, <1>9, <1>10 DEF more

\* A sum of naturals is a natural.
LEMMA SumType ==
    ASSUME NEW sizes \in Seq(Nat)
    PROVE  SumOf(sizes) \in Nat
<1>1. PICK f : Sums(f, sizes, Len(sizes)) /\ SumOf(sizes) = f[1..Len(sizes)]
  BY SumIsLast
<1> DEFINE n == Len(sizes)
           S == {k \in Nat : k <= n => f[1..k] \in Nat}
<1>2. n \in Nat /\ \A i \in 1..n : sizes[i] \in Nat
  BY LenProperties
<1> HIDE DEF n
<1>3. \A k \in Nat : k <= n => f[1..k] = IF k = 0 THEN 0 ELSE f[1..(k - 1)] + sizes[k]
  BY <1>1, <1>2, SumsStep DEF n
<1>4. 0 \in S
  BY <1>2, <1>3
<1>5. ASSUME NEW k \in Nat, k \in S PROVE k + 1 \in S
  <2> SUFFICES ASSUME k + 1 <= n PROVE f[1..(k + 1)] \in Nat
    OBVIOUS
  <2>1. k <= n /\ k + 1 \in Nat /\ k + 1 # 0 /\ (k + 1) - 1 = k /\ k + 1 \in 1..n
    BY <1>2
  <2>2. f[1..(k + 1)] = f[1..k] + sizes[k + 1]
    BY <1>3, <2>1
  <2> QED
    BY <1>2, <1>5, <2>1, <2>2
<1> HIDE DEF S
<1>6. n \in S
  BY <1>2, <1>4, <1>5, Induction
<1> QED
  BY <1>1, <1>2, <1>6 DEF S, n

=============================================================================
