----------------------------- MODULE SeqProofs -----------------------------
(***************************************************************************)
(* Facts about numbers and sequences that the proofs about the log and the *)
(* server share.                                                           *)
(***************************************************************************)
EXTENDS Integers, Sequences, SequencesExt, SequenceTheorems, FiniteSetTheorems, TLAPS

(***************************************************************************)
(* Every non-empty set of natural numbers has a least element.  This is    *)
(* the form in which the proofs use induction: they look at the least      *)
(* number for which a claim would fail.                                    *)
(***************************************************************************)
LEMMA LeastNumber ==
  ASSUME NEW T \in SUBSET Nat, T # {}
  PROVE  \E n \in T : \A m \in T : n <= m
  <1>1. IsWellFoundedOn(OpToRel(<, Nat), Nat)
    BY NatLessThanWellFounded, Zenon
  <1>2. PICK n \in T : \A m \in T : ~(<<m, n>> \in OpToRel(<, Nat))
    BY <1>1, WFMin, Zenon
  <1>3. \A m \in T : ~(m < n)
    BY <1>2 DEF OpToRel
  <1> QED
    BY <1>3

\* The two parts of a concatenation.
LEMMA ConcatParts ==
  ASSUME NEW S, NEW s \in Seq(S), NEW t \in Seq(S)
  PROVE  /\ s \o t \in Seq(S)
         /\ Len(s \o t) = Len(s) + Len(t)
         /\ \A i \in 1 .. Len(s) : (s \o t)[i] = s[i]
         /\ \A i \in 1 .. Len(t) : (s \o t)[Len(s) + i] = t[i]
  OBVIOUS

\* A sequence cut in two.
LEMMA Cut ==
  ASSUME NEW S, NEW s \in Seq(S), NEW n \in 0 .. Len(s)
  PROVE  /\ SubSeq(s, 1, n) \in Seq(S)
         /\ SubSeq(s, n + 1, Len(s)) \in Seq(S)
         /\ Len(SubSeq(s, 1, n)) = n
         /\ Len(SubSeq(s, n + 1, Len(s))) = Len(s) - n
         /\ SubSeq(s, 1, n) \o SubSeq(s, n + 1, Len(s)) = s
  <1>0. Len(s) \in Nat /\ n \in Nat /\ n <= Len(s) /\ \A i \in 1 .. Len(s) : s[i] \in S
    OBVIOUS
  <1>1. SubSeq(s, 1, n) \in Seq(S) /\ Len(SubSeq(s, 1, n)) = n
    BY <1>0, SubSeqProperties
  <1>2. /\ SubSeq(s, n + 1, Len(s)) \in Seq(S)
        /\ Len(SubSeq(s, n + 1, Len(s))) = Len(s) - n
    BY <1>0, SubSeqProperties
  <1>3. SubSeq(s, 1, n) \o SubSeq(s, n + 1, Len(s)) = SubSeq(s, 1, Len(s))
    <2>1. 1 \in 1 .. Len(s) + 1 /\ n \in 1 - 1 .. Len(s) /\ Len(s) \in n .. Len(s)
      BY <1>0
    <2> QED
      BY <2>1, ConcatAdjacentSubSeq
  <1>4. SubSeq(s, 1, Len(s)) = s
    BY SubSeqFull
  <1> QED
    BY <1>1, <1>2, <1>3, <1>4

LEMMA AppendNotEmpty ==
  ASSUME NEW S, NEW s \in Seq(S), NEW e \in S
  PROVE  Append(s, e) # <<>>
  <1>1. Len(Append(s, e)) = Len(s) + 1 /\ Len(s) \in Nat /\ Len(<<>>) = 0
    BY AppendProperties, EmptySeq
  <1> QED
    BY <1>1

\* A prefix, element by element.
LEMMA PrefixAt ==
  ASSUME NEW S, NEW s \in Seq(S), NEW t \in Seq(S),
         Len(s) <= Len(t), \A i \in 1 .. Len(s) : s[i] = t[i]
  PROVE  IsPrefix(s, t)
  <1>0. Len(s) \in Nat /\ Len(t) \in Nat
    OBVIOUS
  <1>1. SubSeq(s, 1, Len(s)) = s
    BY SubSeqFull
  <1>2. SubSeq(t, 1, Len(s)) \in Seq(S) /\ Len(SubSeq(t, 1, Len(s))) = Len(s)
    BY <1>0, Cut
  <1>3. \A i \in 1 .. Len(s) : SubSeq(t, 1, Len(s))[i] = t[i]
    BY <1>0
  <1>4. s = SubSeq(t, 1, Len(s))
    BY <1>2, <1>3, SeqEqual
  <1> QED
    BY <1>1, <1>4 DEF IsPrefix

\* Induction up to N, over the numbers of which something is true.
LEMMA Induction ==
  ASSUME NEW S, NEW N \in Nat, 0 \in S, \A n \in 1 .. N : n - 1 \in S => n \in S
  PROVE  0 .. N \subseteq S
  <1> SUFFICES ASSUME {n \in 0 .. N : n \notin S} # {} PROVE FALSE
    OBVIOUS
  <1>1. {n \in 0 .. N : n \notin S} \in SUBSET Nat
    OBVIOUS
  <1>2. PICK n \in {n \in 0 .. N : n \notin S} : \A m \in {k \in 0 .. N : k \notin S} : n <= m
    BY <1>1, LeastNumber, Zenon
  <1>3. n \in 1 .. N
    BY <1>2
  <1>4. n - 1 \in 0 .. N /\ ~(n <= n - 1)
    BY <1>3
  <1> QED
    BY <1>2, <1>3, <1>4

\* A function can be defined by recursion on a natural number.
LEMMA Recursion ==
  ASSUME NEW V, NEW b \in V, NEW N \in Nat, NEW step \in [1 .. N -> [V -> V]]
  PROVE  \E f \in [0 .. N -> V] :
            f[0] = b /\ \A n \in 1 .. N : f[n] = step[n][f[n - 1]]
  <1> DEFINE Upto(f, k) == f[0] = b /\ \A n \in 1 .. k : f[n] = step[n][f[n - 1]]
             S == {k \in 0 .. N : \E f \in [0 .. k -> V] : Upto(f, k)}
  <1>1. 0 \in S
    <2>1. [n \in 0 .. 0 |-> b] \in [0 .. 0 -> V] /\ Upto([n \in 0 .. 0 |-> b], 0)
      OBVIOUS
    <2>2. 0 \in 0 .. N
      OBVIOUS
    <2> HIDE DEF Upto
    <2> QED
      BY <2>1, <2>2
  <1>2. ASSUME NEW k \in 1 .. N, k - 1 \in S PROVE k \in S
    <2>1. PICK f \in [0 .. k - 1 -> V] : Upto(f, k - 1)
      BY <1>2
    <2> DEFINE g == [n \in 0 .. k |-> IF n = k THEN step[k][f[k - 1]] ELSE f[n]]
    <2>2. k - 1 \in 0 .. k - 1 /\ \A n \in 0 .. k : n # k => n \in 0 .. k - 1
      OBVIOUS
    <2>3. step[k][f[k - 1]] \in V
      BY <2>2
    <2>4. g \in [0 .. k -> V]
      BY <2>2, <2>3
    <2>5. g[0] = b
      BY <2>1
    <2>6. ASSUME NEW n \in 1 .. k PROVE g[n] = step[n][g[n - 1]]
      <3>1. n - 1 \in 0 .. k /\ n - 1 # k /\ n \in 0 .. k
        OBVIOUS
      <3>2. g[n - 1] = f[n - 1]
        BY <3>1
      <3>3. CASE n = k
        BY <3>1, <3>2, <3>3
      <3>4. CASE n # k
        <4>1. n \in 1 .. k - 1
          BY <3>4
        <4>2. g[n] = f[n]
          BY <3>1, <3>4
        <4> QED
          BY <2>1, <3>2, <4>1, <4>2
      <3> QED
        BY <3>3, <3>4
    <2> HIDE DEF g
    <2> QED
      BY <2>4, <2>5, <2>6
  <1> HIDE DEF S
  <1>3. 0 .. N \subseteq S
    BY <1>1, <1>2, Induction
  <1>4. N \in S
    BY <1>3
  <1> QED
    BY <1>4 DEF S

\* f holds the states of a loop over the rounds 1 .. N, which begins with b.
Rounds(f, V, b, N, step) ==
  f \in [0 .. N -> V] /\ f[0] = b /\ \A n \in 1 .. N : f[n] = step[n][f[n - 1]]

LEMMA RoundsExist ==
  \A V, b, N, step :
    b \in V /\ N \in Nat /\ step \in [1 .. N -> [V -> V]] => \E f : Rounds(f, V, b, N, step)
  BY Recursion DEF Rounds

\* f is defined by a recursion that descends from n to down[n], in any steps.
Descends(f, V, base, down, step) ==
  /\ f \in [Nat -> V]
  /\ \A n \in Nat : f[n] = IF down[n] < n THEN step[n][f[down[n]]] ELSE base[n]

LEMMA DescentExists ==
  \A V, base, down, step :
    base \in [Nat -> V] /\ down \in [Nat -> Nat] /\ step \in [Nat -> [V -> V]]
      => \E f : Descends(f, V, base, down, step)
  <1> SUFFICES ASSUME NEW V, NEW base \in [Nat -> V], NEW down \in [Nat -> Nat],
                      NEW step \in [Nat -> [V -> V]]
               PROVE  \E f : Descends(f, V, base, down, step)
    BY Zenon
  <1> DEFINE At(f, n) == f[n] = IF down[n] < n THEN step[n][f[down[n]]] ELSE base[n]
             Upto(f, k) == f \in [0 .. k -> V] /\ \A n \in 0 .. k : At(f, n)
             S == {k \in Nat : \E f : Upto(f, k)}
  <1>1. 0 \in S
    <2> DEFINE f == [n \in 0 .. 0 |-> base[0]]
    <2>1. Upto(f, 0)
      OBVIOUS
    <2> HIDE DEF Upto
    <2> QED
      BY <2>1
  <1>2. ASSUME NEW k \in Nat, k \in S PROVE k + 1 \in S
    <2>1. PICK f : Upto(f, k)
      BY <1>2
    <2> DEFINE v == IF down[k + 1] < k + 1 THEN step[k + 1][f[down[k + 1]]] ELSE base[k + 1]
               g == [n \in 0 .. k + 1 |-> IF n = k + 1 THEN v ELSE f[n]]
    <2>2. v \in V
      <3>1. down[k + 1] \in Nat /\ (down[k + 1] < k + 1 => down[k + 1] \in 0 .. k)
        OBVIOUS
      <3> QED
        BY <2>1, <3>1
    <2>3. \A n \in 0 .. k : g[n] = f[n] /\ n # k + 1 /\ n \in 0 .. k + 1
      OBVIOUS
    <2>4. g \in [0 .. k + 1 -> V]
      <3>1. \A n \in 0 .. k + 1 : n # k + 1 => n \in 0 .. k
        OBVIOUS
      <3> HIDE DEF v
      <3> QED
        BY <2>1, <2>2, <3>1
    <2>5. ASSUME NEW n \in 0 .. k + 1 PROVE At(g, n)
      <3>1. down[n] \in Nat /\ (down[n] < n => down[n] \in 0 .. k)
        OBVIOUS
      <3>2. down[n] < n => g[down[n]] = f[down[n]]
        BY <2>3, <3>1
      <3>3. CASE n = k + 1
        <4>1. g[n] = v
          BY <3>3
        <4> HIDE DEF g
        <4> QED
          BY <3>2, <3>3, <4>1
      <3>4. CASE n # k + 1
        <4>1. n \in 0 .. k
          BY <3>4
        <4>2. g[n] = f[n] /\ At(f, n)
          BY <2>1, <2>3, <4>1
        <4> HIDE DEF g
        <4> QED
          BY <3>2, <4>2
      <3> QED
        BY <3>3, <3>4
    <2> HIDE DEF g, At
    <2>6. Upto(g, k + 1)
      BY <2>4, <2>5
    <2> HIDE DEF Upto
    <2> QED
      BY <2>6
  <1>3. ASSUME NEW k \in Nat PROVE \E f : Upto(f, k)
    <2> HIDE DEF S
    <2>1. \A n \in 1 .. k : n - 1 \in S => n \in S
      <3> TAKE n \in 1 .. k
      <3>1. n - 1 \in Nat /\ (n - 1) + 1 = n
        OBVIOUS
      <3> QED
        BY <1>2, <3>1
    <2>2. 0 .. k \subseteq S
      BY <1>1, <2>1, Induction
    <2>3. k \in S
      BY <2>2
    <2> HIDE DEF Upto
    <2> QED
      BY <2>3 DEF S
  <1>4. ASSUME NEW j \in Nat, NEW k \in Nat, j <= k, NEW f, NEW g, Upto(f, j), Upto(g, k)
        PROVE  f[j] = g[j]
    <2> DEFINE T == {n \in 0 .. j : f[n] # g[n]}
    <2> SUFFICES ASSUME T # {} PROVE FALSE
      BY <1>4
    <2>1. T \in SUBSET Nat
      OBVIOUS
    <2>2. PICK n \in T : \A m \in T : n <= m
      BY <2>1, LeastNumber, Zenon
    <2>3. n \in 0 .. j /\ n \in 0 .. k /\ f[n] # g[n]
      BY <1>4, <2>2
    <2>4. At(f, n) /\ At(g, n)
      <3> HIDE DEF At, T
      <3> QED
        BY <1>4, <2>3
    <2>5. down[n] < n => down[n] \in 0 .. j /\ down[n] \notin T
      BY <2>2, <2>3
    <2>6. down[n] < n => f[down[n]] = g[down[n]]
      BY <2>5
    <2> HIDE DEF T
    <2> QED
      BY <2>3, <2>4, <2>6
  <1> DEFINE F == [n \in Nat |-> (CHOOSE f : Upto(f, n))[n]]
  <1>5. \A n \in Nat : Upto(CHOOSE f : Upto(f, n), n)
    <2> HIDE DEF Upto
    <2> QED
      BY <1>3
  <1>6. F \in [Nat -> V]
    <2> SUFFICES ASSUME NEW n \in Nat PROVE (CHOOSE f : Upto(f, n))[n] \in V
      OBVIOUS
    <2> DEFINE f == CHOOSE f : Upto(f, n)
    <2>1. Upto(f, n)
      BY <1>5, Zenon
    <2>2. n \in 0 .. n
      OBVIOUS
    <2> HIDE DEF f, At
    <2>3. f[n] \in V
      BY <2>1, <2>2
    <2> QED
      BY <2>3 DEF f
  <1>7. ASSUME NEW n \in Nat PROVE At(F, n)
    <2> DEFINE f == CHOOSE f : Upto(f, n)
    <2>0. Upto(f, n)
      BY <1>5, Zenon
    <2>a. F[n] = f[n]
      <3> HIDE DEF Upto
      <3> QED
        OBVIOUS
    <2>b. n \in 0 .. n
      OBVIOUS
    <2>1. Upto(f, n) /\ n \in 0 .. n /\ F[n] = f[n]
      BY <2>0, <2>a, <2>b, Zenon
    <2>2. At(f, n)
      <3> HIDE DEF f, F, At
      <3> QED
        BY <2>1
    <2>3. ASSUME down[n] < n PROVE F[down[n]] = f[down[n]]
      <3> DEFINE d == down[n]
                 h == CHOOSE g : Upto(g, d)
      <3>1. d \in Nat /\ d <= n
        BY <2>3
      <3>2. Upto(h, d) /\ F[d] = h[d]
        BY <1>5, <3>1
      <3> HIDE DEF f, F, h, d, Upto
      <3>3. h[d] = f[d]
        BY <1>4, <2>1, <3>1, <3>2
      <3> QED
        BY <3>2, <3>3 DEF d
    <2> HIDE DEF f, F
    <2> QED
      BY <2>1, <2>2, <2>3
  <1> HIDE DEF F
  <1>8. \A n \in Nat : F[n] = IF down[n] < n THEN step[n][F[down[n]]] ELSE base[n]
    BY <1>7, Zenon DEF At
  <1>9. Descends(F, V, base, down, step)
    BY <1>6, <1>8, Zenon DEF Descends
  <1> QED
    BY <1>9, Zenon

----------------------------------------------------------------------------
(* Joining sequences *)

LEMMA Concatenations ==
  ASSUME NEW N \in Nat, NEW V, NEW nil \in V, NEW ss,
         \A n \in 1 .. N : \A v \in V : v \o ss[n] \in V
  PROVE  \E f \in [0 .. N -> V] : f[0] = nil /\ \A n \in 1 .. N : f[n] = f[n - 1] \o ss[n]
  <1> DEFINE step == [n \in 1 .. N |-> [v \in V |-> v \o ss[n]]]
  <1>1. step \in [1 .. N -> [V -> V]]
    OBVIOUS
  <1>2. PICK f \in [0 .. N -> V] :
          f[0] = nil /\ \A n \in 1 .. N : f[n] = step[n][f[n - 1]]
    <2> HIDE DEF step
    <2> QED
      BY <1>1, Recursion
  <1>3. \A n \in 1 .. N : f[n] = f[n - 1] \o ss[n]
    <2> TAKE n \in 1 .. N
    <2>1. n - 1 \in 0 .. N
      OBVIOUS
    <2>2. f[n - 1] \in V
      BY <1>2, <2>1
    <2>3. step[n][f[n - 1]] = f[n - 1] \o ss[n]
      BY <2>2
    <2> QED
      BY <1>2, <2>3
  <1> QED
    BY <1>2, <1>3

IsLists(ss, X) == ss \in Seq(Seq(X))

\* FlattenSeq satisfies its recursive definition.
LEMMA FlattenDef ==
  ASSUME NEW X, NEW ss, IsLists(ss, X)
  PROVE  \E f \in [0 .. Len(ss) -> Seq(X)] :
            /\ f[0] = <<>> /\ \A n \in 1 .. Len(ss) : f[n] = f[n - 1] \o ss[n]
            /\ FlattenSeq(ss) = f[Len(ss)]
  <1> DEFINE N == Len(ss)
             V == Seq(X)
             Body(f, n) == IF n = 1 THEN ss[n] ELSE f[n - 1] \o ss[n]
  <1>0. N \in Nat /\ <<>> \in V /\ \A n \in 1 .. N : ss[n] \in V
    BY DEF IsLists
  <1>1. \A n \in 1 .. N : \A v \in V : v \o ss[n] \in V
    BY <1>0
  <1>2. PICK f \in [0 .. N -> V] :
          f[0] = <<>> /\ \A n \in 1 .. N : f[n] = f[n - 1] \o ss[n]
    <2> DEFINE nil == <<>>
    <2>1. N \in Nat /\ nil \in V
      BY <1>0
    <2> HIDE DEF N, V, nil
    <2>2. \E f \in [0 .. N -> V] : f[0] = nil /\ \A n \in 1 .. N : f[n] = f[n - 1] \o ss[n]
      <3> DEFINE C(M, W, b, tt) ==
            \E f \in [0 .. M -> W] : f[0] = b /\ \A n \in 1 .. M : f[n] = f[n - 1] \o tt[n]
          A(M, W, tt) == \A n \in 1 .. M : \A v \in W : v \o tt[n] \in W
      <3>1. \A M \in Nat : \A W : \A b \in W : \A tt : A(M, W, tt) => C(M, W, b, tt)
        BY Concatenations
      <3>2. A(N, V, ss)
        BY <1>1
      <3> HIDE DEF A, C
      <3>3. C(N, V, nil, ss)
        BY <3>1, <3>2, <2>1, Zenon
      <3> QED
        BY <3>3 DEF C
    <2> QED
      BY <2>2 DEF nil
  <1>3. \A n \in 1 .. N : f[n] = f[n - 1] \o ss[n]
    BY <1>2
  <1>4. CASE N = 0
    <2>1. FlattenSeq(ss) = ss /\ ss = <<>>
      BY <1>4 DEF FlattenSeq, IsLists
    <2> QED
      BY <1>2, <1>3, <1>4, <2>1
  <1>5. CASE N # 0
    <2> DEFINE r == [n \in 1 .. N |-> f[n]]
    <2>1. \A n \in 1 .. N : r[n] = Body(r, n)
      <3> TAKE n \in 1 .. N
      <3>1. CASE n = 1
        <4>1. 1 \in 1 .. N /\ 1 - 1 = 0
          BY <3>1
        <4>2. f[1] = f[1 - 1] \o ss[1] /\ ss[1] \in V
          BY <1>0, <1>3, <4>1, Zenon
        <4>3. f[1] = <<>> \o ss[1]
          BY <1>2, <4>1, <4>2, Zenon
        <4>4. f[1] = ss[1]
          <5> HIDE DEF N
          <5> QED
            BY <4>2, <4>3
        <4> QED
          BY <3>1, <4>4
      <3>2. CASE n # 1
        <4>1. n - 1 \in 1 .. N
          BY <3>2
        <4> QED
          BY <1>3, <3>2, <4>1
      <3> QED
        BY <3>1, <3>2
    <2>2. r = [n \in 1 .. N |-> Body(r, n)]
      BY <2>1
    <2> DEFINE flatten == CHOOSE g : g = [n \in 1 .. N |-> Body(g, n)]
    <2>3. flatten = [n \in 1 .. N |-> Body(flatten, n)]
      <3> HIDE DEF Body, r
      <3> QED
        BY <2>2
    <2>4. FlattenSeq(ss) = flatten[N]
      BY <1>5, Zenon DEF FlattenSeq
    <2> HIDE DEF flatten
    <2> DEFINE S == {n \in 0 .. N : n # 0 => flatten[n] = f[n]}
    <2>5. 0 \in S
      BY <1>0
    <2>6. ASSUME NEW n \in 1 .. N, n - 1 \in S PROVE n \in S
      <3>0. n \in 0 .. N
        OBVIOUS
      <3>a. flatten[n] = Body(flatten, n)
        <4> HIDE DEF Body
        <4> QED
          BY <2>3
      <3>b. f[n] = Body(r, n)
        <4>1. f[n] = r[n]
          OBVIOUS
        <4> HIDE DEF Body, r
        <4> QED
          BY <2>1, <4>1
      <3>1. n \in 0 .. N /\ flatten[n] = Body(flatten, n) /\ f[n] = Body(r, n)
        BY <3>0, <3>a, <3>b, Zenon
      <3>2. CASE n = 1
        BY <3>1, <3>2
      <3>3. CASE n # 1
        <4>1. n - 1 \in 1 .. N /\ n - 1 # 0
          BY <3>3
        <4>2. flatten[n - 1] = r[n - 1]
          BY <2>6, <4>1
        <4> QED
          BY <3>1, <3>3, <4>2
      <3> QED
        BY <3>2, <3>3
    <2> HIDE DEF S
    <2>7. 0 .. N \subseteq S
      <3>1. N \in Nat
        BY <1>0
      <3> HIDE DEF N
      <3> QED
        BY <2>5, <2>6, <3>1, Induction
    <2>8. flatten[N] = f[N]
      <3>1. N \in 0 .. N
        BY <1>0
      <3> QED
        BY <1>5, <2>7, <3>1 DEF S
    <2> QED
      BY <1>2, <1>3, <2>4, <2>8
  <1> QED
    BY <1>4, <1>5
============================================================================
