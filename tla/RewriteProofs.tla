--------------------------- MODULE RewriteProofs ---------------------------
(***************************************************************************)
(* Theorems about compaction of the log, for any finite set of             *)
(* connections, any capacities and any number of rewrites.                 *)
(***************************************************************************)
EXTENDS AofRewrite, AofProofs

----------------------------------------------------------------------------
(* The inductive invariant *)

\* The first n pushes of p.
Pushes(p, n) == [i \in 1 .. n |-> <<p, i>>]

RewriteType ==
  /\ rw \in {"idle", "snapshot", "swap", "rename"}
  /\ snap \in [Conns -> Nat] /\ taken \subseteq Conns
  /\ tmp \in Seq(Half) /\ quiet \subseteq Conns

(***************************************************************************)
(* Between the flush and the rename the new history is not about the file  *)
(* that is at the log's path, and nothing has been written since.          *)
(***************************************************************************)
Swapping == base = tmp /\ (server # "crashed" => accepted = hand \o ch)

SwapInv ==
  /\ TypeOK /\ Control /\ IdleMeansFlushed /\ RewriteType
  /\ rw # "rename" => NothingLost /\ FileIsPrefix
  /\ rw = "rename" => Swapping

\* The temporary file holds the snapshot.
TempOK ==
  rw \in {"swap", "rename"} =>
     /\ taken = Conns /\ Whole(tmp)
     /\ \A p \in Conns : Of(p, Replayed(tmp)) = Pushes(p, snap[p])

\* The copy of a quiet list is up to date until the swap.
CopyOK ==
  rw \in {"snapshot", "swap"} =>
     \A p \in quiet \cap taken : snap[p] = seq[p] /\ ~UnderWay(p)

\* QuietListsExact, after a crash too.
ListsExact == \A p \in quiet : Of(p, Replayed(base) \o accepted) = Pushes(p, seq[p])

\* The new file has all that the old one has of a quiet list.
SavedOK ==
  rw = "rename" => \A p \in quiet : IsPrefix(Of(p, Replayed(file)), Of(p, Replayed(tmp)))

RewriteInv == SwapInv /\ Whole(base) /\ TempOK /\ CopyOK /\ ListsExact /\ SavedOK

----------------------------------------------------------------------------
(* The pushes of one connection *)

\* of lists the pushes of p among the first n commands, for every n.
Filters(of, p, cmds) ==
  /\ of[0] = <<>>
  /\ \A n \in 1 .. Len(cmds) :
        of[n] = IF cmds[n][1] = p THEN Append(of[n - 1], cmds[n]) ELSE of[n - 1]
  /\ of \in [0 .. Len(cmds) -> Seq(Record)]
  /\ Of(p, cmds) = of[Len(cmds)]

\* Of satisfies its recursive definition.
LEMMA OfDef ==
  ASSUME NEW cmds \in Seq(Record), NEW p
  PROVE  \E of : Filters(of, p, cmds)
  <1> DEFINE N == Len(cmds)
             V == Seq(Record)
             Body(f, n) == IF n = 0 THEN <<>>
                           ELSE IF cmds[n][1] = p THEN Append(f[n - 1], cmds[n]) ELSE f[n - 1]
             step == [n \in 1 .. N |-> [v \in V |->
                        IF cmds[n][1] = p THEN Append(v, cmds[n]) ELSE v]]
  <1>0. N \in Nat /\ <<>> \in V /\ \A n \in 1 .. N : cmds[n] \in Record
    OBVIOUS
  <1>1. step \in [1 .. N -> [V -> V]]
    BY <1>0
  <1>2. PICK f \in [0 .. N -> V] :
          f[0] = <<>> /\ \A n \in 1 .. N : f[n] = step[n][f[n - 1]]
    <2> DEFINE nil == <<>>
    <2>1. nil \in V /\ N \in Nat
      BY <1>0
    <2> HIDE DEF step, N, V, nil
    <2>2. \E f \in [0 .. N -> V] :
            f[0] = nil /\ \A n \in 1 .. N : f[n] = step[n][f[n - 1]]
      BY <1>1, <2>1, Recursion
    <2> QED
      BY <2>2 DEF nil
  <1>3. \A n \in 0 .. N : f[n] = Body(f, n)
    <2> TAKE n \in 0 .. N
    <2>1. CASE n = 0
      BY <1>2, <2>1
    <2>2. CASE n # 0
      <3>1. n \in 1 .. N /\ f[n - 1] \in V
        BY <2>2
      <3>2. step[n][f[n - 1]] = Body(f, n)
        BY <2>2, <3>1
      <3> QED
        BY <1>2, <3>1, <3>2
    <2> QED
      BY <2>1, <2>2
  <1>4. f = [n \in 0 .. N |-> Body(f, n)]
    BY <1>3
  <1> DEFINE of == CHOOSE g : g = [n \in 0 .. N |-> Body(g, n)]
  <1>5. of = [n \in 0 .. N |-> Body(of, n)]
    <2> HIDE DEF Body
    <2> QED
      BY <1>4
  <1>6. Of(p, cmds) = of[N]
    BY Zenon DEF Of
  <1> HIDE DEF of
  <1>7. \A n \in 0 .. N : of[n] = f[n]
    <2> DEFINE S == {n \in 0 .. N : of[n] = f[n]}
    <2>1. 0 \in S
      BY <1>0, <1>3, <1>5
    <2>2. ASSUME NEW n \in 1 .. N, n - 1 \in S PROVE n \in S
      <3>1. n \in 0 .. N /\ n # 0 /\ of[n - 1] = f[n - 1]
        BY <2>2
      <3>2. of[n] = Body(of, n) /\ f[n] = Body(f, n)
        BY <1>3, <1>5, <3>1
      <3> QED
        BY <3>1, <3>2
    <2> HIDE DEF S
    <2>3. 0 .. N \subseteq S
      BY <1>0, <2>1, <2>2, Induction
    <2> QED
      BY <2>3 DEF S
  <1>8. N \in 0 .. N
    BY <1>0
  <1>9. \A n \in 1 .. N : f[n] = IF cmds[n][1] = p THEN Append(f[n - 1], cmds[n]) ELSE f[n - 1]
    <2> TAKE n \in 1 .. N
    <2>1. n \in 0 .. N /\ n # 0
      OBVIOUS
    <2> QED
      BY <1>3, <2>1
  <1>10. Of(p, cmds) = f[N]
    BY <1>6, <1>7, <1>8
  <1> QED
    BY <1>2, <1>9, <1>10 DEF Filters

LEMMA OfType ==
  ASSUME NEW cmds \in Seq(Record), NEW p
  PROVE  Of(p, cmds) \in Seq(Record)
  <1>1. PICK of : Filters(of, p, cmds)
    BY OfDef
  <1>2. Len(cmds) \in 0 .. Len(cmds)
    OBVIOUS
  <1> QED
    BY <1>1, <1>2 DEF Filters

\* All the commands are of p, or none is.
LEMMA OfSame ==
  ASSUME NEW cmds \in Seq(Record), NEW p
  PROVE  /\ (\A i \in 1 .. Len(cmds) : cmds[i][1] = p) => Of(p, cmds) = cmds
         /\ (\A i \in 1 .. Len(cmds) : cmds[i][1] # p) => Of(p, cmds) = <<>>
  <1> DEFINE N == Len(cmds)
  <1>0. N \in Nat /\ N \in 0 .. N
    OBVIOUS
  <1>1. PICK f : Filters(f, p, cmds)
    BY OfDef
  <1>2. /\ f[0] = <<>> /\ f \in [0 .. N -> Seq(Record)] /\ Of(p, cmds) = f[N]
        /\ \A n \in 1 .. N : f[n] = IF cmds[n][1] = p THEN Append(f[n - 1], cmds[n]) ELSE f[n - 1]
    BY <1>1 DEF Filters
  <1>3. ASSUME \A i \in 1 .. N : cmds[i][1] = p PROVE Of(p, cmds) = cmds
    <2> DEFINE S == {n \in 0 .. N : Len(f[n]) = n /\ \A i \in 1 .. n : f[n][i] = cmds[i]}
    <2>1. 0 \in S
      BY <1>0, <1>2
    <2>2. ASSUME NEW n \in 1 .. N, n - 1 \in S PROVE n \in S
      <3>1. /\ n - 1 \in 0 .. N /\ n \in 0 .. N /\ f[n - 1] \in Seq(Record) /\ cmds[n] \in Record
            /\ Len(f[n - 1]) = n - 1 /\ \A i \in 1 .. n - 1 : f[n - 1][i] = cmds[i]
        BY <1>2, <2>2
      <3>2. f[n] = Append(f[n - 1], cmds[n])
        BY <1>2, <1>3
      <3>3. Len(f[n]) = n /\ f[n][n] = cmds[n] /\ \A i \in 1 .. n - 1 : f[n][i] = f[n - 1][i]
        BY <3>1, <3>2
      <3>4. \A i \in 1 .. n : i = n \/ i \in 1 .. n - 1
        OBVIOUS
      <3>5. \A i \in 1 .. n : f[n][i] = cmds[i]
        BY <3>1, <3>3, <3>4
      <3> QED
        BY <3>1, <3>3, <3>5
    <2> HIDE DEF S
    <2>3. 0 .. N \subseteq S
      <3>1. N \in Nat
        BY <1>0
      <3> HIDE DEF N
      <3> QED
        BY <2>1, <2>2, <3>1, Induction
    <2>4. Len(f[N]) = N /\ \A i \in 1 .. N : f[N][i] = cmds[i]
      BY <1>0, <2>3 DEF S
    <2>5. f[N] \in Seq(Record)
      BY <1>0, <1>2
    <2>6. f[N] = cmds
      BY <2>4, <2>5, SeqEqual
    <2> QED
      BY <1>2, <2>6
  <1>4. ASSUME \A i \in 1 .. N : cmds[i][1] # p PROVE Of(p, cmds) = <<>>
    <2> DEFINE S == {n \in 0 .. N : f[n] = <<>>}
    <2>1. 0 \in S
      BY <1>0, <1>2
    <2>2. ASSUME NEW n \in 1 .. N, n - 1 \in S PROVE n \in S
      BY <1>2, <1>4, <2>2
    <2> HIDE DEF S
    <2>3. 0 .. N \subseteq S
      <3>1. N \in Nat
        BY <1>0
      <3> HIDE DEF N
      <3> QED
        BY <2>1, <2>2, <3>1, Induction
    <2> QED
      BY <1>0, <1>2, <2>3 DEF S
  <1> QED
    BY <1>3, <1>4

LEMMA JoinAppend ==
  ASSUME NEW a \in Seq(Record), NEW b \in Seq(Record), NEW r \in Record
  PROVE  Append(a \o b, r) = a \o Append(b, r)
  <1>1. /\ Append(a \o b, r) = (a \o b) \o <<r>> /\ Append(b, r) = b \o <<r>>
        /\ <<r>> \in Seq(Record) /\ a \o b \in Seq(Record)
    BY AppendIsConcat, ConcatProperties
  <1>2. (a \o b) \o <<r>> = a \o (b \o <<r>>)
    BY <1>1, ConcatAssociative
  <1> QED
    BY <1>1, <1>2

LEMMA OfConcat ==
  ASSUME NEW a \in Seq(Record), NEW b \in Seq(Record), NEW p
  PROVE  Of(p, a \o b) = Of(p, a) \o Of(p, b)
  <1> DEFINE N == Len(a)
             M == Len(b)
             c == a \o b
  <1>0. N \in Nat /\ M \in Nat /\ \A i \in 1 .. M : b[i] \in Record
    OBVIOUS
  <1>1. /\ c \in Seq(Record) /\ Len(c) = N + M
        /\ \A i \in 1 .. N : c[i] = a[i]
        /\ \A i \in 1 .. M : c[N + i] = b[i]
    BY ConcatParts
  <1> HIDE DEF c, N, M
  <1>2. PICK f : Filters(f, p, a)
    BY OfDef
  <1>3. PICK g : Filters(g, p, b)
    BY OfDef
  <1>4. PICK k : Filters(k, p, c)
    BY <1>1, OfDef
  <1>5. /\ f[0] = <<>> /\ f \in [0 .. N -> Seq(Record)] /\ Of(p, a) = f[N]
        /\ \A n \in 1 .. N : f[n] = IF a[n][1] = p THEN Append(f[n - 1], a[n]) ELSE f[n - 1]
    BY <1>2 DEF Filters, N
  <1>6. /\ g[0] = <<>> /\ g \in [0 .. M -> Seq(Record)] /\ Of(p, b) = g[M]
        /\ \A n \in 1 .. M : g[n] = IF b[n][1] = p THEN Append(g[n - 1], b[n]) ELSE g[n - 1]
    BY <1>3 DEF Filters, M
  <1>7. /\ k[0] = <<>> /\ Of(p, c) = k[N + M]
        /\ \A n \in 1 .. N + M : k[n] = IF c[n][1] = p THEN Append(k[n - 1], c[n]) ELSE k[n - 1]
    BY <1>1, <1>4 DEF Filters
  <1> DEFINE S == {n \in 0 .. N : k[n] = f[n]}
             T == {n \in 0 .. M : k[N + n] = f[N] \o g[n]}
  <1>8. 0 \in S
    BY <1>0, <1>5, <1>7
  <1>9. ASSUME NEW n \in 1 .. N, n - 1 \in S PROVE n \in S
    <2>1. n \in 1 .. N + M /\ n \in 0 .. N /\ c[n] = a[n] /\ k[n - 1] = f[n - 1]
      BY <1>0, <1>1, <1>9
    <2> QED
      BY <1>5, <1>7, <2>1
  <1>10. k[N] = f[N]
    <2> HIDE DEF S
    <2>1. 0 .. N \subseteq S
      BY <1>0, <1>8, <1>9, Induction
    <2>2. N \in 0 .. N
      BY <1>0
    <2> QED
      BY <2>1, <2>2 DEF S
  <1>11. f[N] \in Seq(Record)
    <2>1. N \in 0 .. N
      BY <1>0
    <2> QED
      BY <1>5, <2>1
  <1>12. 0 \in T
    <2>1. N + 0 = N /\ 0 \in 0 .. M
      BY <1>0
    <2>2. f[N] \o <<>> = f[N]
      BY <1>11
    <2> QED
      BY <1>6, <1>10, <2>1, <2>2
  <1>13. ASSUME NEW n \in 1 .. M, n - 1 \in T PROVE n \in T
    <2>0. k[N + (n - 1)] = f[N] \o g[n - 1]
      BY <1>13, Zenon
    <2>1. /\ N + n \in 1 .. N + M /\ (N + n) - 1 = N + (n - 1) /\ n \in 0 .. M /\ n - 1 \in 0 .. M
          /\ c[N + n] = b[n]
      BY <1>0, <1>1
    <2>2. k[N + n] = IF b[n][1] = p THEN Append(f[N] \o g[n - 1], b[n]) ELSE f[N] \o g[n - 1]
      BY <1>7, <2>0, <2>1
    <2>3. g[n - 1] \in Seq(Record) /\ b[n] \in Record
      BY <1>0, <1>6, <2>1
    <2>4. Append(f[N] \o g[n - 1], b[n]) = f[N] \o Append(g[n - 1], b[n])
      BY <1>11, <2>3, JoinAppend
    <2> QED
      BY <1>6, <2>1, <2>2, <2>4
  <1>14. k[N + M] = f[N] \o g[M]
    <2> HIDE DEF T
    <2>1. 0 .. M \subseteq T
      BY <1>0, <1>12, <1>13, Induction
    <2>2. M \in 0 .. M
      BY <1>0
    <2> QED
      BY <2>1, <2>2 DEF T
  <1> QED
    BY <1>5, <1>6, <1>7, <1>14 DEF c

----------------------------------------------------------------------------
(* The temporary file *)

\* SetToSeq lists every connection once.
LEMMA OrderIs ==
  /\ SetToSeq(Conns) \in Seq(Conns)
  /\ DOMAIN SetToSeq(Conns) = 1 .. Len(SetToSeq(Conns))
  /\ \A i, j \in 1 .. Len(SetToSeq(Conns)) : SetToSeq(Conns)[i] = SetToSeq(Conns)[j] => i = j
  /\ \A p \in Conns : \E i \in 1 .. Len(SetToSeq(Conns)) : SetToSeq(Conns)[i] = p
  <1> DEFINE n == Cardinality(Conns)
             Q(f) == IsInjective(f)
             order == CHOOSE f \in [1 .. n -> Conns] : Q(f)
  <1>1. IsFiniteSet(Conns) /\ n \in Nat /\ ExistsBijection(1 .. n, Conns)
    BY RewriteAssumption, FS_CardinalityType
  <1>2. PICK f \in Bijection(1 .. n, Conns) : TRUE
    BY <1>1 DEF ExistsBijection
  <1>3. f \in [1 .. n -> Conns] /\ IsInjective(f)
    BY <1>2 DEF Bijection, Injection
  <1>4. order \in [1 .. n -> Conns] /\ Q(order)
    <2> HIDE DEF Q
    <2>1. Q(f)
      BY <1>3 DEF Q
    <2> QED
      BY <1>3, <2>1
  <1>5. SetToSeq(Conns) = order
    BY DEF SetToSeq
  <1> HIDE DEF order
  <1>6. order \in Injection(1 .. n, Conns)
    BY <1>4 DEF Injection
  <1>7. Cardinality(1 .. n) = n
    <2>1. n \in Int /\ 1 \in Int /\ (IF 1 > n THEN 0 ELSE n - 1 + 1) = n
      BY <1>1
    <2> HIDE DEF n
    <2> QED
      BY <2>1, FS_Interval
  <1>8. order \in Surjection(1 .. n, Conns)
    BY <1>1, <1>6, <1>7, FS_Injection
  <1> HIDE DEF n
  <1>9. order \in Seq(Conns) /\ Len(order) = n /\ DOMAIN order = 1 .. n
    BY <1>1, <1>4
  <1>10. \A i, j \in 1 .. n : order[i] = order[j] => i = j
    BY <1>4, <1>9 DEF IsInjective
  <1>11. \A p \in Conns : \E i \in 1 .. n : order[i] = p
    BY <1>8 DEF Surjection
  <1> QED
    BY <1>5, <1>9, <1>10, <1>11

LEMMA PushesType ==
  ASSUME NEW p \in Conns, NEW n \in Nat
  PROVE  /\ Pushes(p, n) \in Seq(Record) /\ Len(Pushes(p, n)) = n
         /\ \A i \in 1 .. n : Pushes(p, n)[i] = <<p, i>>
         /\ \A q : Of(q, Pushes(p, n)) = IF q = p THEN Pushes(p, n) ELSE <<>>
  <1>1. Pushes(p, n) \in [1 .. n -> Record]
    BY DEF Pushes, Record
  <1>2. Pushes(p, n) \in Seq(Record) /\ Len(Pushes(p, n)) = n
    BY <1>1
  <1>3. \A i \in 1 .. n : Pushes(p, n)[i] = <<p, i>>
    BY DEF Pushes
  <1> DEFINE s == Pushes(p, n)
  <1> HIDE DEF s
  <1>4. s \in Seq(Record) /\ \A i \in 1 .. Len(s) : s[i][1] = p
    BY <1>2, <1>3 DEF s
  <1>5. \A q : Of(q, s) = IF q = p THEN s ELSE <<>>
    BY <1>4, OfSame
  <1> QED
    BY <1>2, <1>3, <1>5 DEF s

\* The commands that WriteTemp writes.
Commands ==
  FlattenSeq([i \in DOMAIN SetToSeq(Conns) |-> snapshotCommands(SetToSeq(Conns)[i])])

\* They recreate every list as it was copied.
LEMMA SnapshotIs ==
  ASSUME RewriteType
  PROVE  /\ Commands \in Seq(Record)
         /\ \A p \in Conns : Of(p, Commands) = Pushes(p, snap[p])
  <1> DEFINE order == SetToSeq(Conns)
             N == Len(order)
             ss == [i \in DOMAIN order |-> snapshotCommands(order[i])]
  <1>1. /\ order \in Seq(Conns) /\ DOMAIN order = 1 .. N
        /\ \A i, j \in 1 .. N : order[i] = order[j] => i = j
        /\ \A p \in Conns : \E i \in 1 .. N : order[i] = p
    BY OrderIs
  <1> HIDE DEF order
  <1>2. N \in Nat /\ \A i \in 1 .. N : order[i] \in Conns
    BY <1>1
  <1>3. ASSUME NEW i \in 1 .. N
        PROVE  /\ ss[i] = Pushes(order[i], snap[order[i]]) /\ ss[i] \in Seq(Record)
               /\ \A p : Of(p, ss[i]) = IF p = order[i] THEN Pushes(p, snap[p]) ELSE <<>>
    <2>1. order[i] \in Conns /\ snap[order[i]] \in Nat
      BY <1>2 DEF RewriteType
    <2>2. ss[i] = Pushes(order[i], snap[order[i]])
      BY <1>1 DEF snapshotCommands, Pushes
    <2>3. /\ Pushes(order[i], snap[order[i]]) \in Seq(Record)
          /\ \A p : Of(p, Pushes(order[i], snap[order[i]])) =
                     IF p = order[i] THEN Pushes(order[i], snap[order[i]]) ELSE <<>>
      BY <2>1, PushesType, Zenon
    <2> HIDE DEF ss
    <2> QED
      BY <2>2, <2>3, Zenon
  <1>4. ss \in [1 .. N -> Seq(Record)]
    BY <1>1, <1>3
  <1>5. ss \in Seq(Seq(Record)) /\ Len(ss) = N
    BY <1>2, <1>4
  <1>6. Commands = FlattenSeq(ss)
    BY DEF Commands, order
  <1> HIDE DEF ss, N
  <1>7. PICK f \in [0 .. N -> Seq(Record)] :
            /\ f[0] = <<>> /\ \A n \in 1 .. N : f[n] = f[n - 1] \o ss[n]
            /\ Commands = f[N]
    BY <1>5, <1>6, FlattenDef DEF IsLists
  <1>8. ASSUME NEW p \in Conns PROVE Of(p, f[N]) = Pushes(p, snap[p])
    <2>1. PICK k \in 1 .. N : order[k] = p
      BY <1>1
    <2>2. \A i \in 1 .. N : order[i] = p <=> i = k
      BY <1>1, <2>1
    <2> DEFINE P == Pushes(p, snap[p])
               S == {n \in 0 .. N : Of(p, f[n]) = IF k <= n THEN P ELSE <<>>}
    <2>3. P \in Seq(Record)
      BY PushesType DEF RewriteType
    <2> HIDE DEF P
    <2>4. 0 \in S
      <3>1. Of(p, f[0]) = <<>>
        <4>1. <<>> \in Seq(Record) /\ Len(<<>>) = 0
          OBVIOUS
        <4>2. \A i \in 1 .. Len(<<>>) : <<>>[i][1] # p
          BY <4>1
        <4>3. Of(p, <<>>) = <<>>
          BY <4>1, <4>2, OfSame
        <4> QED
          BY <1>7, <4>3
      <3> QED
        BY <1>2, <3>1
    <2>5. ASSUME NEW n \in 1 .. N, n - 1 \in S PROVE n \in S
      <3>1. /\ n - 1 \in 0 .. N /\ n \in 0 .. N /\ f[n - 1] \in Seq(Record) /\ ss[n] \in Seq(Record)
            /\ f[n] = f[n - 1] \o ss[n]
        <4>1. n - 1 \in 0 .. N /\ n \in 0 .. N
          BY <1>2
        <4>2. ss[n] \in Seq(Record) /\ f[n] = f[n - 1] \o ss[n]
          BY <1>3, <1>7, Zenon
        <4> QED
          BY <4>1, <4>2
      <3>2. Of(p, f[n]) = Of(p, f[n - 1]) \o Of(p, ss[n])
        BY <3>1, OfConcat
      <3>3. Of(p, f[n - 1]) = IF k <= n - 1 THEN P ELSE <<>>
        BY <2>5
      <3>4. Of(p, ss[n]) = IF n = k THEN P ELSE <<>>
        BY <1>3, <2>2 DEF P
      <3>5. P \o <<>> = P /\ <<>> \o P = P /\ <<>> \o <<>> = <<>>
        BY <2>3
      <3>6. CASE n = k
        <4>1. ~(k <= n - 1) /\ k <= n
          BY <3>6
        <4> QED
          BY <3>1, <3>2, <3>3, <3>4, <3>5, <3>6, <4>1, Zenon
      <3>7. CASE n > k
        <4>1. k <= n - 1 /\ k <= n /\ n # k
          BY <3>7
        <4> QED
          BY <3>1, <3>2, <3>3, <3>4, <3>5, <4>1, Zenon
      <3>8. CASE n < k
        <4>1. ~(k <= n - 1) /\ ~(k <= n) /\ n # k
          BY <3>8
        <4> QED
          BY <3>1, <3>2, <3>3, <3>4, <3>5, <4>1, Zenon
      <3> QED
        BY <3>6, <3>7, <3>8
    <2> HIDE DEF S
    <2>6. 0 .. N \subseteq S
      BY <1>2, <2>4, <2>5, Induction
    <2>7. N \in 0 .. N /\ k <= N
      BY <1>2
    <2> QED
      BY <2>6, <2>7 DEF S, P
  <1>9. f[N] \in Seq(Record)
    BY <1>2, <1>7
  <1> QED
    BY <1>7, <1>8, <1>9

----------------------------------------------------------------------------
(* Longer files *)

LEMMA PrefixOfConcat ==
  ASSUME NEW S, NEW s \in Seq(S), NEW t \in Seq(S)
  PROVE  IsPrefix(s, s \o t)
  <1>1. /\ s \o t \in Seq(S) /\ Len(s) <= Len(s \o t)
        /\ \A i \in 1 .. Len(s) : s[i] = (s \o t)[i]
    BY ConcatParts
  <1> QED
    BY <1>1, PrefixAt

\* A longer file replays to at least as much.
LEMMA ReplayGrows ==
  ASSUME NEW f \in Seq(Half), NEW rest \in Seq(Half)
  PROVE  IsPrefix(Replayed(f), Replayed(f \o rest))
  <1> DEFINE g == f \o rest
             a == Len(f)
             b == Len(g)
  <1>1. /\ g \in Seq(Half) /\ a \in Nat /\ b \in Nat /\ a <= b
        /\ \A i \in 1 .. a : g[i] = f[i]
    BY ConcatParts
  <1> HIDE DEF g
  <1>2. PICK n \in 0 .. a \div 2 :
          Complete(f, n) /\ Replayed(f) = [i \in 1 .. n |-> f[2 * i][1]]
    BY ReplayStops
  <1>3. PICK m \in 0 .. b \div 2 :
          /\ m = b \div 2 \/ ~Complete(g, m + 1)
          /\ Replayed(g) = [i \in 1 .. m |-> g[2 * i][1]]
    BY <1>1, ReplayStops
  <1>4. Replayed(f) \in Seq(Record) /\ Replayed(g) \in Seq(Record)
    BY <1>1, ReplayedType
  <1> HIDE DEF a, b
  <1>5. \A i \in 1 .. n : 2 * i \in 1 .. a /\ 2 * i - 1 \in 1 .. a
    BY <1>1
  <1>6. ASSUME m < n PROVE FALSE
    <2>1. m + 1 \in 1 .. n /\ m # b \div 2
      BY <1>1, <1>6
    <2>2. \A i \in 1 .. m + 1 : i \in 1 .. n
      BY <2>1
    <2>3. \A i \in 1 .. n : /\ f[2 * i - 1][2] = 1
                            /\ f[2 * i] = <<f[2 * i - 1][1], 2>>
      BY <1>2 DEF Complete
    <2>4. \A i \in 1 .. m + 1 : /\ g[2 * i - 1][2] = 1
                                /\ g[2 * i] = <<g[2 * i - 1][1], 2>>
      BY <1>1, <1>5, <2>2, <2>3
    <2>5. Complete(g, m + 1)
      BY <2>4 DEF Complete
    <2> QED
      BY <1>3, <2>1, <2>5
  <1>7. n \in Nat /\ m \in Nat /\ n <= m
    BY <1>1, <1>6
  <1>8. Len(Replayed(f)) = n /\ Len(Replayed(g)) = m
    BY <1>2, <1>3, <1>4, <1>7
  <1>9. \A i \in 1 .. n : Replayed(f)[i] = Replayed(g)[i]
    <2> TAKE i \in 1 .. n
    <2>1. i \in 1 .. m /\ g[2 * i] = f[2 * i]
      BY <1>1, <1>5, <1>7
    <2> QED
      BY <1>2, <1>3, <2>1
  <1> QED
    BY <1>4, <1>7, <1>8, <1>9, PrefixAt DEF g

\* More commands hold at least as many of each connection.
LEMMA OfGrows ==
  ASSUME NEW a \in Seq(Record), NEW b \in Seq(Record), IsPrefix(a, b), NEW p
  PROVE  IsPrefix(Of(p, a), Of(p, b))
  <1> DEFINE n == Len(a)
             rest == SubSeq(b, n + 1, Len(b))
  <1>1. n \in 0 .. Len(b) /\ SubSeq(a, 1, n) = SubSeq(b, 1, n)
    BY DEF IsPrefix
  <1>2. SubSeq(a, 1, n) = a
    OBVIOUS
  <1>3. rest \in Seq(Record) /\ SubSeq(b, 1, n) \o rest = b
    <2> HIDE DEF n
    <2> QED
      BY <1>1, Cut
  <1> HIDE DEF rest, n
  <1>4. b = a \o rest
    BY <1>1, <1>2, <1>3
  <1>5. Of(p, b) = Of(p, a) \o Of(p, rest)
    BY <1>3, <1>4, OfConcat
  <1>6. Of(p, a) \in Seq(Record) /\ Of(p, rest) \in Seq(Record)
    BY <1>3, OfType
  <1> QED
    BY <1>5, <1>6, PrefixOfConcat

LEMMA SavedGrows ==
  ASSUME NEW f \in Seq(Half), NEW rest \in Seq(Half), NEW p
  PROVE  IsPrefix(Of(p, Replayed(f)), Of(p, Replayed(f \o rest)))
  <1>1. f \o rest \in Seq(Half)
    BY ConcatParts
  <1>2. Replayed(f) \in Seq(Record) /\ Replayed(f \o rest) \in Seq(Record)
    BY <1>1, ReplayedType
  <1> QED
    BY <1>2, ReplayGrows, OfGrows

----------------------------------------------------------------------------
(* The swap *)

\* Another goroutine's step beside Rewrite is a step of the log.
LogMove == LogStep \/ \E p \in Conns : CallBeside(p)

LEMMA LogMoveIsNext ==
  ASSUME LogMove
  PROVE  Next /\ ~Restart /\ UNCHANGED <<rewriting, base>>
  <1>1. CASE LogStep
    <2>1. Next
      BY <1>1 DEF LogStep, Next, Writer
    <2>2. ~Restart /\ base' = base
      BY <1>1 DEF LogStep, Accept, Send, Leave, Size, Receive, Write, FlushIfDrained,
         FinalFlush, CloseFile, Shutdown, CloseChannel, Crash, Restart, conns
    <2> QED
      BY <1>1, <2>1, <2>2 DEF LogStep
  <1>2. ASSUME NEW p \in Conns, CallBeside(p) PROVE Next /\ ~Restart /\ UNCHANGED <<rewriting, base>>
    BY <1>2 DEF CallBeside, Call, Restart, Next
  <1> QED
    BY <1>1, <1>2 DEF LogMove

\* While Rewrite holds l.mu the others only queue commands and take one out.
LEMMA LogMoveSwapping ==
  ASSUME TypeOK, Control, rw = "rename", Swapping, LogMove
  PROVE  Swapping' /\ file' = file
  <1>0. UNCHANGED <<rewriting, base>>
    BY LogMoveIsNext
  <1>1. tmp' = tmp /\ base' = base
    BY <1>0 DEF rewriting
  <1>a. hand \in Seq(Record) /\ ch \in Seq(Record)
    BY DEF TypeOK
  <1> DEFINE Goal == (server' # "crashed" => accepted' = hand' \o ch') /\ file' = file
  <1>2. ASSUME server' = server \/ server # "crashed", UNCHANGED <<accepted, hand, ch, file>>
        PROVE  Goal
    BY <1>2 DEF Swapping
  <1>3. ASSUME NEW p \in Conns, Accept(p) \/ Leave(p) \/ CallBeside(p) PROVE Goal
    BY <1>2, <1>3 DEF Accept, Leave, CallBeside, Call
  <1>4. ASSUME NEW p \in Conns, Send(p) PROVE Goal
    <2> DEFINE r == <<p, seq[p] + 1>>
    <2>1. r \in Record
      BY SentIsRecord
    <2>2. /\ ch' = Append(ch, r) /\ accepted' = Append(accepted, r)
          /\ hand' = hand /\ server' = server /\ file' = file
      BY <1>4 DEF Send
    <2> HIDE DEF r
    <2>3. Append(hand \o ch, r) = hand \o Append(ch, r)
      BY <1>a, <2>1, JoinAppend
    <2> QED
      BY <2>2, <2>3 DEF Swapping
  <1>5. ASSUME Receive PROVE Goal
    <2>1. hand = <<>> /\ ch # <<>>
      BY <1>5 DEF Receive, Control
    <2>2. /\ hand' = <<Head(ch)>> /\ ch' = Tail(ch) /\ accepted' = accepted
          /\ server' = server /\ file' = file
      BY <1>5 DEF Receive
    <2>3. <<Head(ch)>> \o Tail(ch) = ch /\ <<>> \o ch = ch
      BY <1>a, <2>1
    <2> QED
      BY <2>1, <2>2, <2>3 DEF Swapping
  <1>6. ASSUME Shutdown \/ CloseChannel PROVE Goal
    BY <1>2, <1>6 DEF Shutdown, CloseChannel
  <1>7. ASSUME Crash PROVE Goal
    BY <1>7 DEF Crash
  <1>8. Goal
    <2> HIDE DEF Goal
    <2> QED
      BY <1>3, <1>4, <1>5, <1>6, <1>7 DEF LogMove, LogStep, LogMutex
  <1> QED
    BY <1>1, <1>8 DEF Swapping

LEMMA LogMoveSwap ==
  ASSUME SwapInv, LogMove
  PROVE  SwapInv'
  <1>1. TypeOK /\ Control /\ IdleMeansFlushed /\ RewriteType
    BY DEF SwapInv
  <1>2. Next /\ UNCHANGED rewriting
    BY LogMoveIsNext
  <1>3. TypeOK' /\ Control' /\ IdleMeansFlushed'
    BY <1>1, <1>2, NextAofType, NextControl
  <1>4. quiet' \subseteq quiet
    BY DEF LogMove, LogStep, CallBeside
  <1>5. RewriteType'
    BY <1>1, <1>2, <1>4 DEF RewriteType, rewriting
  <1>6. rw' = rw
    BY <1>2 DEF rewriting
  <1>7. ASSUME rw # "rename" PROVE NothingLost' /\ FileIsPrefix'
    <2>1. AofInv
      BY <1>1, <1>7 DEF SwapInv, AofInv
    <2>2. AofInv'
      BY <1>2, <2>1, NextAof
    <2> QED
      BY <2>2 DEF AofInv
  <1>8. ASSUME rw = "rename" PROVE Swapping'
    BY <1>1, <1>8, LogMoveSwapping DEF SwapInv
  <1> QED
    BY <1>3, <1>5, <1>6, <1>7, <1>8 DEF SwapInv

LEMMA SnapshotSwap ==
  ASSUME SwapInv, RewriteStart \/ (\E p \in Conns : SnapshotShard(p)) \/ WriteTemp
  PROVE  SwapInv' /\ UNCHANGED vars /\ rw # "rename" /\ rw' # "rename"
  <1>1. UNCHANGED vars /\ rw # "rename" /\ rw' # "rename"
    BY DEF RewriteStart, SnapshotShard, WriteTemp
  <1>2. RewriteType
    BY DEF SwapInv
  <1>3. RewriteType'
    <2>1. CASE RewriteStart
      BY <1>2, <2>1 DEF RewriteStart, RewriteType
    <2>2. ASSUME NEW p \in Conns, SnapshotShard(p) PROVE RewriteType'
      <3>1. Pushed(p) \in Nat
        BY DEF Pushed, SwapInv, TypeOK
      <3> QED
        BY <1>2, <2>2, <3>1 DEF SnapshotShard, RewriteType
    <2>3. CASE WriteTemp
      <3>1. tmp' = Halves(Commands)
        BY <2>3, Zenon DEF WriteTemp, Commands
      <3>2. tmp' \in Seq(Half)
        BY <1>2, <3>1, SnapshotIs, HalvesType
      <3> QED
        BY <1>2, <2>3, <3>2 DEF WriteTemp, RewriteType
    <2> QED
      BY <2>1, <2>2, <2>3
  <1>4. TypeOK' /\ Control' /\ IdleMeansFlushed' /\ NothingLost' /\ FileIsPrefix'
    <2>1. AofInv
      BY <1>1 DEF SwapInv, AofInv
    <2>2. AofInv'
      BY <1>1, <2>1, NextAof
    <2> QED
      BY <2>2 DEF AofInv
  <1> QED
    BY <1>1, <1>3, <1>4 DEF SwapInv

LEMMA FlushSwap ==
  ASSUME SwapInv, SwapFlush
  PROVE  SwapInv'
  <1>1. /\ buf' = <<>> /\ file' = file \o buf /\ rw' = "rename"
        /\ base' = tmp /\ accepted' = hand \o ch
        /\ UNCHANGED <<ch, closed, hand, pc, open, sending, seq, server, starts,
                       snap, taken, tmp, quiet>>
    BY DEF SwapFlush, Flush, conns
  <1>2. TypeOK /\ Control /\ IdleMeansFlushed /\ RewriteType
    BY DEF SwapInv
  <1>3. TypeOK'
    <2>1. /\ file' \in Seq(Half) /\ accepted' \in Seq(Record) /\ base' \in Seq(Half)
          /\ buf' \in Seq(Half) /\ Len(buf') <= BufCap
      BY <1>1, <1>2, ConcatProperties, NothingYet DEF TypeOK, RewriteType
    <2> QED
      BY <1>1, <1>2, <2>1 DEF TypeOK
  <1>4. Control' /\ IdleMeansFlushed'
    BY <1>1, <1>2 DEF Control, IdleMeansFlushed
  <1>5. RewriteType'
    BY <1>1, <1>2 DEF RewriteType
  <1>6. Swapping'
    BY <1>1 DEF Swapping
  <1> QED
    BY <1>1, <1>3, <1>4, <1>5, <1>6 DEF SwapInv

LEMMA RenameSwap ==
  ASSUME SwapInv, Rename
  PROVE  SwapInv'
  <1>1. /\ file' = tmp /\ buf' = <<>> /\ rw' = "idle"
        /\ UNCHANGED <<ch, closed, hand, pc, open, sending, seq, server, starts,
                       base, accepted, snap, taken, tmp, quiet>>
    BY DEF Rename, conns
  <1>2. TypeOK /\ Control /\ IdleMeansFlushed /\ RewriteType
    BY DEF SwapInv
  <1>3. TypeOK'
    <2>1. file' \in Seq(Half) /\ buf' \in Seq(Half) /\ Len(buf') <= BufCap
      BY <1>1, <1>2, NothingYet DEF RewriteType
    <2> QED
      BY <1>1, <1>2, <2>1 DEF TypeOK
  <1>4. Control' /\ IdleMeansFlushed'
    BY <1>1, <1>2 DEF Control, IdleMeansFlushed
  <1>5. RewriteType'
    BY <1>1, <1>2 DEF RewriteType
  <1>6. base = tmp /\ accepted = hand \o ch /\ server # "crashed"
    BY DEF SwapInv, Swapping, Rename, Up
  <1>7. /\ tmp \in Seq(Half) /\ hand \in Seq(Record) /\ ch \in Seq(Record)
        /\ Halves(hand) \in Seq(Half) /\ Halves(ch) \in Seq(Half) /\ Halves(accepted) \in Seq(Half)
    BY <1>2, PipelineType DEF TypeOK, RewriteType
  <1>8. Halves(accepted) = Halves(hand) \o Halves(ch)
    BY <1>6, <1>7, HalvesConcat
  <1>9. NothingLost'
    <2>1. tmp \o <<>> = tmp
      BY <1>7, NothingYet
    <2>2. tmp \o Halves(hand) \o Halves(ch) = tmp \o (Halves(hand) \o Halves(ch))
      BY <1>7, Regroup
    <2>3. tmp \o <<>> \o Halves(hand) \o Halves(ch) = base \o Halves(accepted)
      BY <1>6, <1>8, <2>1, <2>2
    <2>4. file' \o buf' \o Halves(hand') \o Halves(ch') = base' \o Halves(accepted')
      BY <1>1, <2>3
    <2> QED
      BY <2>4 DEF NothingLost
  <1>10. FileIsPrefix'
    <2>1. Len(base') <= Len(file')
      BY <1>1, <1>6, <1>7
    <2>2. file' \o Halves(accepted) = base' \o Halves(accepted')
      BY <1>1, <1>6
    <2> QED
      BY <1>7, <2>1, <2>2 DEF FileIsPrefix
  <1> QED
    BY <1>1, <1>3, <1>4, <1>5, <1>9, <1>10 DEF SwapInv

----------------------------------------------------------------------------
(* The snapshot *)

LEMMA LogMoveTemp ==
  ASSUME TempOK, LogMove
  PROVE  TempOK'
  BY LogMoveIsNext DEF TempOK, rewriting

LEMMA WriteTempOK ==
  ASSUME RewriteType, WriteTemp
  PROVE  TempOK'
  <1>1. tmp' = Halves(Commands) /\ taken' = Conns /\ snap' = snap
    BY Zenon DEF WriteTemp, Commands
  <1>2. Commands \in Seq(Record) /\ \A p \in Conns : Of(p, Commands) = Pushes(p, snap[p])
    BY SnapshotIs
  <1>3. Replayed(tmp') = Commands
    BY <1>1, <1>2, ReplayOfHalves
  <1>4. Whole(tmp')
    BY <1>1, <1>3 DEF Whole
  <1> QED
    BY <1>1, <1>2, <1>3, <1>4 DEF TempOK

\* A command of p is with the writer or in the channel.
Queued(p) == \E r \in ToSet(hand \o ch) : r[1] = p

LEMMA Elements ==
  ASSUME NEW x \in Seq(Record)
  PROVE  \A r : r \in ToSet(x) <=> \E i \in 1 .. Len(x) : r = x[i]
  <1>1. DOMAIN x = 1 .. Len(x)
    OBVIOUS
  <1>2. ToSet(x) = {x[i] : i \in DOMAIN x}
    BY Zenon DEF ToSet
  <1> QED
    BY <1>1, <1>2

\* Which steps put a command of p under way, or have it sent.
LEMMA LogMoveUnderWay ==
  ASSUME TypeOK, Control, LogMove, NEW p \in Conns, ~UnderWay(p)
  PROVE  /\ seq'[p] = seq[p]
         /\ UnderWay(p)' => CallBeside(p)
  <1>0. p \notin sending /\ ~Queued(p)
    BY DEF UnderWay, Queued
  <1>a. hand \in Seq(Record) /\ ch \in Seq(Record) /\ seq \in [Conns -> Nat]
    BY DEF TypeOK
  <1>c. hand \o ch \in Seq(Record)
    BY <1>a, ConcatProperties
  <1> DEFINE Goal == seq'[p] = seq[p] /\ (UnderWay(p)' => CallBeside(p))
  <1>1. ASSUME hand' \o ch' = hand \o ch, sending' \subseteq sending, seq' = seq PROVE Goal
    BY <1>0, <1>1 DEF UnderWay, Queued
  <1>2. ASSUME UNCHANGED <<hand, ch>>, sending' \subseteq sending, seq' = seq PROVE Goal
    BY <1>1, <1>2
  <1>3. ASSUME NEW q \in Conns, Accept(q) \/ Leave(q) \/ Size(q) PROVE Goal
    BY <1>2, <1>3 DEF Accept, Leave, Size, conns
  <1>4. ASSUME NEW q \in Conns, Send(q) PROVE Goal
    <2> DEFINE r == <<q, seq[q] + 1>>
               x == hand \o ch
    <2>1. q # p
      BY <1>0, <1>4 DEF Send
    <2>2. r \in Record /\ r[1] = q
      BY SentIsRecord
    <2>3. ch' = Append(ch, r) /\ hand' = hand /\ sending' \subseteq sending /\ seq'[p] = seq[p]
      BY <1>4, <1>a, <2>1 DEF Send
    <2> HIDE DEF r
    <2>4. hand' \o ch' = Append(x, r)
      BY <1>a, <2>2, <2>3, JoinAppend
    <2>5. \A e \in ToSet(Append(x, r)) : e = r \/ e \in ToSet(x)
      <3>1. x \in Seq(Record) /\ Append(x, r) \in Seq(Record)
        BY <1>c, <2>2
      <3>2. /\ Len(Append(x, r)) = Len(x) + 1 /\ Append(x, r)[Len(x) + 1] = r
            /\ \A i \in 1 .. Len(x) : Append(x, r)[i] = x[i]
        BY <3>1, <2>2
      <3>3. \A i \in 1 .. Len(x) + 1 : i = Len(x) + 1 \/ i \in 1 .. Len(x)
        BY <3>1
      <3> DEFINE y == Append(x, r)
      <3> HIDE DEF x, y
      <3>4. /\ \A e : e \in ToSet(x) <=> \E i \in 1 .. Len(x) : e = x[i]
            /\ \A e : e \in ToSet(y) <=> \E i \in 1 .. Len(y) : e = y[i]
        BY <3>1, Elements DEF y
      <3>5. ASSUME NEW e \in ToSet(y) PROVE e = r \/ e \in ToSet(x)
        <4>1. PICK i \in 1 .. Len(y) : e = y[i]
          BY <3>4
        <4>2. i = Len(x) + 1 \/ i \in 1 .. Len(x)
          BY <3>2, <3>3 DEF y
        <4> QED
          BY <3>2, <3>4, <4>1, <4>2, Zenon DEF y
      <3> QED
        BY <3>5 DEF y
    <2>6. \A e \in ToSet(hand' \o ch') : e[1] # p
      BY <1>0, <2>1, <2>2, <2>4, <2>5 DEF Queued
    <2> QED
      BY <1>0, <2>3, <2>6 DEF UnderWay
  <1>5. ASSUME Receive PROVE Goal
    <2>1. hand = <<>> /\ ch # <<>>
      BY <1>5 DEF Receive, Control
    <2>2. hand' = <<Head(ch)>> /\ ch' = Tail(ch) /\ sending' = sending /\ seq' = seq
      BY <1>5 DEF Receive, conns
    <2>3. <<Head(ch)>> \o Tail(ch) = ch /\ <<>> \o ch = ch
      BY <1>a, <2>1
    <2> QED
      BY <1>1, <2>1, <2>2, <2>3
  <1>6. ASSUME Write PROVE Goal
    <2>1. hand' = <<>> /\ ch' = ch /\ sending' = sending /\ seq' = seq
      BY <1>6 DEF Write, conns
    <2>2. hand' \o ch' = ch
      BY <1>a, <2>1
    <2>3. \A e \in ToSet(ch) : e \in ToSet(hand \o ch)
      <3>1. /\ Len(hand \o ch) = Len(hand) + Len(ch) /\ Len(hand) \in Nat /\ Len(ch) \in Nat
            /\ \A i \in 1 .. Len(ch) : (hand \o ch)[Len(hand) + i] = ch[i]
        BY <1>a, ConcatParts
      <3>2. \A i \in 1 .. Len(ch) : Len(hand) + i \in 1 .. Len(hand \o ch)
        BY <3>1
      <3>3. ASSUME NEW e \in ToSet(ch) PROVE e \in ToSet(hand \o ch)
        <4>1. PICK i \in 1 .. Len(ch) : e = ch[i]
          BY <1>a, Elements
        <4>2. e = (hand \o ch)[Len(hand) + i] /\ Len(hand) + i \in 1 .. Len(hand \o ch)
          BY <3>1, <3>2, <4>1
        <4> QED
          BY <1>c, <4>2, Elements, Zenon
      <3> QED
        BY <3>3
    <2> QED
      BY <1>0, <2>1, <2>2, <2>3 DEF UnderWay, Queued
  <1>7. ASSUME FlushIfDrained \/ FinalFlush \/ Shutdown \/ CloseChannel \/ CloseFile PROVE Goal
    BY <1>2, <1>7 DEF FlushIfDrained, FinalFlush, Shutdown, CloseChannel, CloseFile, conns
  <1>8. ASSUME Crash PROVE Goal
    <2>1. hand' = <<>> /\ ch' = <<>> /\ sending' = {} /\ seq' = seq
      BY <1>8 DEF Crash
    <2>2. hand' \o ch' = <<>> /\ Len(<<>>) = 0 /\ <<>> \in Seq(Record)
      BY <2>1
    <2>3. \A r : r \notin ToSet(<<>>)
      <3>1. \A r : r \in ToSet(<<>>) <=> \E i \in 1 .. Len(<<>>) : r = <<>>[i]
        BY <2>2, Elements, Zenon
      <3>2. 1 .. Len(<<>>) = {}
        BY <2>2
      <3> QED
        BY <3>1, <3>2, Zenon
    <2> QED
      BY <2>1, <2>2, <2>3 DEF UnderWay
  <1>9. ASSUME NEW q \in Conns, CallBeside(q) PROVE Goal
    <2>1. sending' = sending \cup {q} /\ UNCHANGED <<seq, hand, ch>>
      BY <1>9 DEF CallBeside, Call
    <2> QED
      BY <1>0, <1>9, <2>1 DEF UnderWay, Queued
  <1>10. Goal
    <2> HIDE DEF Goal
    <2> QED
      BY <1>3, <1>4, <1>5, <1>6, <1>7, <1>8, <1>9 DEF LogMove, LogStep
  <1> QED
    BY <1>10

\* A command that would make the copy stale takes its list out of quiet.
LEMMA LogMoveCopy ==
  ASSUME TypeOK, Control, RewriteType, CopyOK, LogMove
  PROVE  CopyOK'
  <1>1. UNCHANGED rewriting
    BY LogMoveIsNext
  <1>2. rw' = rw /\ snap' = snap /\ taken' = taken
    BY <1>1 DEF rewriting
  <1> SUFFICES ASSUME rw \in {"snapshot", "swap"}, NEW p \in quiet', p \in taken
               PROVE  snap[p] = seq'[p] /\ ~UnderWay(p)'
    BY <1>2 DEF CopyOK, UnderWay
  <1>3. p \in quiet
    BY DEF LogMove, LogStep, CallBeside
  <1>4. p \in Conns /\ snap[p] = seq[p] /\ ~UnderWay(p)
    BY <1>3 DEF CopyOK, RewriteType
  <1>5. seq'[p] = seq[p] /\ (UnderWay(p)' => CallBeside(p))
    BY <1>4, LogMoveUnderWay
  <1>6. ~CallBeside(p)
    BY DEF CallBeside
  <1> QED
    BY <1>4, <1>5, <1>6

LEMMA SnapshotCopy ==
  ASSUME TypeOK, RewriteType, CopyOK, NEW p \in Conns, SnapshotShard(p)
  PROVE  CopyOK'
  <1>1. UNCHANGED <<seq, sending, hand, ch>> /\ rw = "snapshot"
    BY DEF SnapshotShard, vars, conns
  <1>2. snap' = [snap EXCEPT ![p] = Pushed(p)] /\ taken' = taken \cup {p} /\ quiet' \subseteq quiet
        /\ (p \in quiet' => ~UnderWay(p)) /\ p \notin taken
    BY DEF SnapshotShard
  <1>3. \A q : UnderWay(q)' <=> UnderWay(q)
    BY <1>1 DEF UnderWay
  <1>4. ASSUME NEW q \in quiet', q \in taken' PROVE snap'[q] = seq'[q] /\ ~UnderWay(q)'
    <2>1. CASE q = p
      <3>1. ~UnderWay(p) /\ p \notin sending
        BY <1>2, <1>4, <2>1 DEF UnderWay
      <3>2. snap'[p] = seq[p]
        BY <1>2, <3>1 DEF Pushed, TypeOK, RewriteType
      <3> QED
        BY <1>1, <1>3, <2>1, <3>1, <3>2
    <2>2. CASE q # p
      <3>1. q \in quiet /\ q \in taken
        BY <1>2, <1>4, <2>2
      <3>2. snap[q] = seq[q] /\ ~UnderWay(q)
        BY <1>1, <3>1 DEF CopyOK
      <3>3. snap'[q] = snap[q]
        BY <1>2, <2>2, <3>1 DEF RewriteType
      <3> QED
        BY <1>1, <1>3, <3>2, <3>3
    <2> QED
      BY <2>1, <2>2
  <1> QED
    BY <1>4 DEF CopyOK, UnderWay

----------------------------------------------------------------------------
(* The lists *)

LEMMA PushesNext ==
  ASSUME NEW p \in Conns, NEW n \in Nat
  PROVE  Pushes(p, n) \o << <<p, n + 1>> >> = Pushes(p, n + 1)
  <1> DEFINE r == <<p, n + 1>>
             a == Pushes(p, n)
             b == Pushes(p, n + 1)
  <1>0. n + 1 \in Nat /\ r \in Record
    BY DEF Record
  <1>1. a \in Seq(Record) /\ Len(a) = n /\ \A i \in 1 .. n : a[i] = <<p, i>>
    BY PushesType
  <1>2. b \in Seq(Record) /\ Len(b) = n + 1 /\ \A i \in 1 .. n + 1 : b[i] = <<p, i>>
    BY <1>0, PushesType
  <1> HIDE DEF a, b
  <1>3. a \o <<r>> = Append(a, r)
    BY <1>0, <1>1, AppendIsConcat
  <1>4. /\ Append(a, r) \in Seq(Record) /\ Len(Append(a, r)) = n + 1
        /\ Append(a, r)[n + 1] = r /\ \A i \in 1 .. n : Append(a, r)[i] = a[i]
    BY <1>0, <1>1
  <1>5. \A i \in 1 .. n + 1 : Append(a, r)[i] = b[i]
    <2> TAKE i \in 1 .. n + 1
    <2>1. i = n + 1 \/ i \in 1 .. n
      OBVIOUS
    <2> QED
      BY <1>1, <1>2, <1>4, <2>1
  <1>6. Append(a, r) = b
    BY <1>2, <1>4, <1>5, SeqEqual
  <1> QED
    BY <1>3, <1>6 DEF a, b

\* A push that is sent is the next of its list, and concerns no other.
LEMMA SendLists ==
  ASSUME TypeOK, RewriteType, NEW q \in Conns, Send(q), NEW p \in quiet,
         Of(p, Replayed(base) \o accepted) = Pushes(p, seq[p])
  PROVE  Of(p, Replayed(base') \o accepted') = Pushes(p, seq'[p])
  <1> DEFINE r == <<q, seq[q] + 1>>
             a == Replayed(base)
             c == a \o accepted
  <1>1. r \in Record /\ <<r>> \in Seq(Record) /\ r[1] = q
    BY SentIsRecord
  <1>2. accepted' = Append(accepted, r) /\ base' = base /\ seq' = [seq EXCEPT ![q] = @ + 1]
    BY DEF Send
  <1>3. a \in Seq(Record) /\ accepted \in Seq(Record) /\ seq \in [Conns -> Nat]
    BY ReplayedType DEF TypeOK
  <1>4. p \in Conns /\ seq[p] \in Nat
    BY <1>3 DEF RewriteType
  <1>n. <<r>>[1] = r /\ Len(<<r>>) = 1
    OBVIOUS
  <1> DEFINE one == <<r>>
  <1> HIDE DEF r, a
  <1>5. a \o Append(accepted, r) = Append(c, r)
    BY <1>1, <1>3, JoinAppend
  <1>6. c \in Seq(Record)
    BY <1>3, ConcatProperties
  <1> HIDE DEF c
  <1>7. Append(c, r) = c \o one
    BY <1>1, <1>6, AppendIsConcat
  <1>8. one \in Seq(Record) /\ Len(one) = 1 /\ \A i \in 1 .. Len(one) : one[i][1] = q
    <2>1. one \in Seq(Record) /\ Len(one) = 1 /\ one[1] = r
      BY <1>1, <1>n
    <2> HIDE DEF one
    <2>2. \A i \in 1 .. Len(one) : i = 1
      BY <2>1
    <2> QED
      BY <1>1, <2>1, <2>2, Zenon
  <1> HIDE DEF one
  <1>9. Of(p, c \o one) = Of(p, c) \o Of(p, one)
    BY <1>6, <1>8, OfConcat
  <1>10. Of(p, Replayed(base') \o accepted') = Pushes(p, seq[p]) \o Of(p, one)
    BY <1>2, <1>5, <1>7, <1>9 DEF a, c
  <1>11. CASE p = q
    <2>1. Of(p, one) = one
      BY <1>8, <1>11, OfSame
    <2>2. one = << <<p, seq[p] + 1>> >>
      BY <1>11 DEF one, r
    <2>3. seq'[p] = seq[p] + 1
      BY <1>2, <1>3, <1>4, <1>11
    <2> QED
      BY <1>4, <1>10, <2>1, <2>2, <2>3, PushesNext
  <1>12. CASE p # q
    <2>1. \A i \in 1 .. Len(one) : one[i][1] # p
      BY <1>8, <1>12
    <2>2. Of(p, one) = <<>>
      BY <1>8, <2>1, OfSame
    <2>3. Pushes(p, seq[p]) \in Seq(Record)
      BY <1>4, PushesType
    <2>4. Pushes(p, seq[p]) \o <<>> = Pushes(p, seq[p])
      BY <2>3
    <2>5. seq'[p] = seq[p]
      BY <1>2, <1>3, <1>4, <1>12
    <2> QED
      BY <1>10, <2>2, <2>4, <2>5
  <1> QED
    BY <1>11, <1>12

LEMMA LogMoveLists ==
  ASSUME TypeOK, RewriteType, ListsExact, LogMove
  PROVE  ListsExact'
  <1>1. quiet' \subseteq quiet
    BY DEF LogMove, LogStep, CallBeside
  <1>2. ASSUME UNCHANGED <<base, accepted, seq>> PROVE ListsExact'
    BY <1>1, <1>2 DEF ListsExact
  <1>3. ASSUME NEW q \in Conns, Send(q) PROVE ListsExact'
    BY <1>1, <1>3, SendLists DEF ListsExact
  <1>4. UNCHANGED <<base, accepted, seq>> \/ \E q \in Conns : Send(q)
    BY DEF LogMove, LogStep, CallBeside, Call, Accept, Leave, Size, Receive, Write,
       FlushIfDrained, FinalFlush, CloseFile, Shutdown, CloseChannel, Crash, conns
  <1> QED
    BY <1>2, <1>3, <1>4

\* At the swap the copy of a quiet list is all of it, and nothing of it is queued.
LEMMA SwapLists ==
  ASSUME TypeOK, RewriteType, TempOK, CopyOK, SwapFlush
  PROVE  /\ ListsExact'
         /\ \A p \in quiet : Of(p, Replayed(tmp)) = Pushes(p, seq[p])
  <1>1. /\ rw = "swap" /\ base' = tmp /\ accepted' = hand \o ch
        /\ quiet' = quiet /\ seq' = seq
    BY DEF SwapFlush, conns
  <1>2. taken = Conns /\ \A p \in Conns : Of(p, Replayed(tmp)) = Pushes(p, snap[p])
    BY <1>1 DEF TempOK
  <1>3. ASSUME NEW p \in quiet
        PROVE  /\ Of(p, Replayed(tmp)) = Pushes(p, seq[p])
               /\ Of(p, Replayed(tmp) \o (hand \o ch)) = Pushes(p, seq[p])
    <2>1. p \in Conns /\ snap[p] = seq[p] /\ ~UnderWay(p) /\ seq[p] \in Nat
      BY <1>1, <1>2 DEF CopyOK, RewriteType, TypeOK
    <2> DEFINE x == hand \o ch
    <2>2. x \in Seq(Record) /\ Replayed(tmp) \in Seq(Record)
      BY ConcatProperties, ReplayedType DEF TypeOK, RewriteType
    <2>3. \A r \in ToSet(x) : r[1] # p
      BY <2>1 DEF UnderWay
    <2> HIDE DEF x
    <2>4. \A i \in 1 .. Len(x) : x[i][1] # p
      BY <2>2, <2>3, Elements
    <2>5. Of(p, x) = <<>>
      BY <2>2, <2>4, OfSame
    <2>6. Of(p, Replayed(tmp) \o x) = Pushes(p, seq[p]) \o <<>>
      <3>1. Of(p, Replayed(tmp) \o x) = Of(p, Replayed(tmp)) \o Of(p, x)
        BY <2>2, OfConcat
      <3>2. Of(p, Replayed(tmp)) = Pushes(p, seq[p])
        BY <1>2, <2>1
      <3> QED
        BY <2>5, <3>1, <3>2, Zenon
    <2>7. Pushes(p, seq[p]) \in Seq(Record)
      BY <2>1, PushesType
    <2>8. Pushes(p, seq[p]) \o <<>> = Pushes(p, seq[p])
      BY <2>7
    <2> QED
      BY <1>2, <2>1, <2>6, <2>8 DEF x
  <1> QED
    BY <1>1, <1>3 DEF ListsExact

\* The file that is closed holds no more of a quiet list than the new one.
LEMMA SwapSaved ==
  ASSUME SwapInv, Whole(base), TempOK, CopyOK, ListsExact, SwapFlush
  PROVE  SavedOK'
  <1>1. TypeOK /\ RewriteType /\ NothingLost
    BY DEF SwapInv, SwapFlush
  <1>2. file' = file \o buf /\ tmp' = tmp /\ quiet' = quiet /\ server # "crashed"
    BY DEF SwapFlush, Flush, Up
  <1> DEFINE rest == Halves(hand) \o Halves(ch)
             all == Replayed(base) \o accepted
  <1>3. /\ file' \in Seq(Half) /\ rest \in Seq(Half)
        /\ Halves(hand) \in Seq(Half) /\ Halves(ch) \in Seq(Half)
    BY <1>1, <1>2, PipelineType, ConcatProperties
  <1>4. file' \o rest = file' \o Halves(hand) \o Halves(ch)
    BY <1>3, Regroup
  <1>5. all \in Seq(Record) /\ base \o Halves(accepted) = Halves(all)
    BY <1>1, WholeBase
  <1>6. file' \o rest = Halves(all)
    BY <1>1, <1>2, <1>4, <1>5 DEF NothingLost
  <1> HIDE DEF rest, all
  <1>7. IsPrefix(Replayed(file'), all)
    BY <1>3, <1>5, <1>6, ReplayOfPart
  <1>8. Replayed(file') \in Seq(Record)
    BY <1>3, ReplayedType
  <1>9. ASSUME NEW p \in quiet PROVE IsPrefix(Of(p, Replayed(file')), Of(p, Replayed(tmp)))
    <2>1. IsPrefix(Of(p, Replayed(file')), Of(p, all))
      BY <1>5, <1>7, <1>8, OfGrows
    <2>2. Of(p, all) = Pushes(p, seq[p])
      BY DEF ListsExact, all
    <2>3. Of(p, Replayed(tmp)) = Pushes(p, seq[p])
      BY <1>1, SwapLists
    <2> QED
      BY <2>1, <2>2, <2>3
  <1> QED
    BY <1>2, <1>9 DEF SavedOK

----------------------------------------------------------------------------
(* Theorems *)

LEMMA InitRewrite == RewriteInit => RewriteInv
  <1> SUFFICES ASSUME RewriteInit PROVE RewriteInv
    OBVIOUS
  <1>1. /\ AofInv /\ rw = "idle" /\ snap = [p \in Conns |-> 0] /\ taken = {} /\ tmp = <<>>
        /\ quiet = Conns
    BY InitAof DEF RewriteInit
  <1>2. RewriteType
    BY <1>1, NothingYet DEF RewriteType
  <1>3. SwapInv
    BY <1>1, <1>2 DEF SwapInv, AofInv
  <1>4. base = <<>> /\ accepted = <<>> /\ seq = [p \in Conns |-> 0]
    BY DEF RewriteInit, Init
  <1>5. Replayed(<<>>) = <<>>
    BY NothingYet, ReplayOfHalves
  <1>6. Whole(base)
    BY <1>4, <1>5, HalvesEmpty DEF Whole
  <1>7. ListsExact
    <2>1. Replayed(base) \o accepted = <<>>
      BY <1>4, <1>5
    <2>2. ASSUME NEW p \in Conns PROVE Of(p, <<>>) = Pushes(p, seq[p])
      <3>1. 0 \in Nat /\ seq[p] = 0
        BY <1>4
      <3>2. Pushes(p, 0) \in Seq(Record) /\ Len(Pushes(p, 0)) = 0
            /\ Of(p, Pushes(p, 0)) = Pushes(p, 0)
        BY <3>1, PushesType, Zenon
      <3>3. Pushes(p, 0) = <<>>
        BY <3>2, EmptySeq
      <3> QED
        BY <3>1, <3>2, <3>3
    <2> QED
      BY <1>1, <2>1, <2>2 DEF ListsExact
  <1> QED
    BY <1>1, <1>3, <1>6, <1>7 DEF RewriteInv, TempOK, CopyOK, SavedOK

LEMMA NextRewrite == RewriteInv /\ [RewriteNext]_allVars => RewriteInv'
  <1> SUFFICES ASSUME RewriteInv, [RewriteNext]_allVars PROVE RewriteInv'
    OBVIOUS
  <1>0. /\ SwapInv /\ Whole(base) /\ TempOK /\ CopyOK /\ ListsExact /\ SavedOK
        /\ TypeOK /\ Control /\ RewriteType
    BY DEF RewriteInv, SwapInv
  <1>1. CASE LogMove
    <2>1. SwapInv' /\ TempOK' /\ CopyOK' /\ ListsExact'
      BY <1>0, <1>1, LogMoveSwap, LogMoveTemp, LogMoveCopy, LogMoveLists
    <2>2. base' = base /\ rw' = rw /\ tmp' = tmp /\ quiet' \subseteq quiet
      <3>1. quiet' \subseteq quiet
        BY <1>1 DEF LogMove, LogStep, CallBeside
      <3> QED
        BY <1>1, <3>1, LogMoveIsNext DEF rewriting
    <2>3. SavedOK'
      <3>1. rw = "rename" => file' = file
        BY <1>0, <1>1, LogMoveSwapping DEF SwapInv
      <3> QED
        BY <1>0, <2>2, <3>1 DEF SavedOK
    <2>4. Whole(base')
      BY <1>0, <2>2
    <2> QED
      BY <2>1, <2>3, <2>4 DEF RewriteInv
  <1>2. CASE RewriteStart \/ (\E p \in Conns : SnapshotShard(p)) \/ WriteTemp
    <2>1. SwapInv' /\ UNCHANGED vars /\ rw' # "rename"
      BY <1>0, <1>2, SnapshotSwap
    <2>2. UNCHANGED <<base, accepted, seq, sending, hand, ch>>
      BY <2>1 DEF vars, conns
    <2>3. quiet' \subseteq quiet
      BY <1>2 DEF RewriteStart, SnapshotShard, WriteTemp
    <2>4. ListsExact' /\ Whole(base') /\ SavedOK'
      BY <1>0, <2>1, <2>2, <2>3 DEF ListsExact, SavedOK
    <2>5. TempOK'
      <3>1. CASE WriteTemp
        BY <1>0, <3>1, WriteTempOK
      <3>2. CASE ~WriteTemp
        BY <1>2, <3>2 DEF TempOK, RewriteStart, SnapshotShard
      <3> QED
        BY <3>1, <3>2
    <2>6. CopyOK'
      <3>1. CASE RewriteStart
        BY <3>1 DEF RewriteStart, CopyOK
      <3>2. ASSUME NEW p \in Conns, SnapshotShard(p) PROVE CopyOK'
        BY <1>0, <3>2, SnapshotCopy
      <3>3. CASE WriteTemp
        BY <1>0, <2>2, <3>3 DEF WriteTemp, CopyOK, UnderWay
      <3> QED
        BY <1>2, <3>1, <3>2, <3>3
    <2> QED
      BY <2>1, <2>4, <2>5, <2>6 DEF RewriteInv
  <1>3. CASE SwapFlush
    <2>1. SwapInv' /\ ListsExact' /\ SavedOK'
      BY <1>0, <1>3, FlushSwap, SwapLists, SwapSaved
    <2>2. /\ rw = "swap" /\ rw' = "rename" /\ base' = tmp
          /\ tmp' = tmp /\ taken' = taken /\ snap' = snap
      BY <1>3 DEF SwapFlush
    <2>3. TempOK' /\ Whole(base') /\ CopyOK'
      BY <1>0, <2>2 DEF TempOK, CopyOK
    <2> QED
      BY <2>1, <2>3 DEF RewriteInv
  <1>4. CASE Rename
    <2>1. SwapInv'
      BY <1>0, <1>4, RenameSwap
    <2>2. rw' = "idle" /\ UNCHANGED <<base, accepted, seq, quiet>>
      BY <1>4 DEF Rename, conns
    <2>3. TempOK' /\ CopyOK' /\ SavedOK' /\ ListsExact' /\ Whole(base')
      BY <1>0, <2>2 DEF TempOK, CopyOK, SavedOK, ListsExact
    <2> QED
      BY <2>1, <2>3 DEF RewriteInv
  <1>5. CASE UNCHANGED allVars
    <2>1. UNCHANGED <<vars, rw, snap, taken, tmp, quiet>>
      BY <1>5 DEF allVars, rewriting
    <2>2. UNCHANGED <<ch, closed, hand, pc, buf, file, open, sending, seq, server, starts,
                      base, accepted>>
      BY <2>1 DEF vars, conns
    <2>3. TypeOK' /\ Control' /\ IdleMeansFlushed'
      BY <1>0, <2>1, NextAofType, NextControl DEF SwapInv
    <2>4. SwapInv'
      BY <1>0, <2>1, <2>2, <2>3 DEF SwapInv, RewriteType, NothingLost, FileIsPrefix, Swapping
    <2>5. TempOK' /\ CopyOK' /\ SavedOK' /\ ListsExact' /\ Whole(base')
      BY <1>0, <2>1, <2>2 DEF TempOK, CopyOK, SavedOK, ListsExact, UnderWay
    <2> QED
      BY <2>4, <2>5 DEF RewriteInv
  <1> QED
    BY <1>1, <1>2, <1>3, <1>4, <1>5 DEF RewriteNext, LogMove

LEMMA RewriteInvariant == RewriteSpec => []RewriteInv
  BY InitRewrite, NextRewrite, PTL DEF RewriteSpec

\* Rewrite's claim that no appends are interleaved with the swap: what is
\* queued or sent while Rewrite replaces the file goes to the new one, whole,
\* in order and once.
THEOREM RewriteLosesNothing == RewriteSpec => []SwapLosesNothing
  <1>1. RewriteInv => SwapLosesNothing
    BY DEF RewriteInv, SwapInv, SwapLosesNothing
  <1> QED
    BY <1>1, RewriteInvariant, PTL

\* SnapshotAll and Rewrite are exact for every list that has no command under
\* way from the copy of its shard to the swap.
THEOREM RewriteExactForQuiet == RewriteSpec => []QuietListsExact
  <1>1. RewriteInv => QuietListsExact
    BY DEF RewriteInv, ListsExact, QuietListsExact, Pushes
  <1> QED
    BY <1>1, RewriteInvariant, PTL

\* No step of Rewrite, of the writer or of a crash between them makes the
\* file at the log's path hold less of such a list.
THEOREM RewriteIsAtomic == RewriteSpec => SavedStaysSaved
  <1> DEFINE Kept == file' # file =>
               \A p \in quiet' : IsPrefix(Of(p, Replayed(file)), Of(p, Replayed(file')))
  <1>1. ASSUME RewriteInv, [RewriteNext]_allVars PROVE [Kept]_allVars
    <2>0. TypeOK /\ SwapInv /\ SavedOK /\ file \in Seq(Half) /\ buf \in Seq(Half)
      BY <1>1 DEF RewriteInv, SwapInv, TypeOK
    <2>1. ASSUME NEW rest \in Seq(Half), file' = file \o rest PROVE Kept
      BY <2>0, <2>1, SavedGrows
    <2>2. ASSUME file' = file PROVE Kept
      BY <2>2
    <2>3. CASE LogMove
      BY <2>0, <2>1, <2>3, LogMoveIsNext, FileGrows
    <2>4. CASE RewriteStart \/ (\E p \in Conns : SnapshotShard(p)) \/ WriteTemp
      <3>1. UNCHANGED vars
        BY <2>0, <2>4, SnapshotSwap
      <3> QED
        BY <2>2, <3>1 DEF vars
    <2>5. CASE SwapFlush
      BY <2>0, <2>1, <2>5 DEF SwapFlush, Flush
    <2>6. CASE Rename
      BY <2>0, <2>6 DEF Rename, SavedOK
    <2> QED
      BY <1>1, <2>3, <2>4, <2>5, <2>6 DEF RewriteNext, LogMove
  <1> QED
    BY <1>1, RewriteInvariant, PTL DEF RewriteSpec, SavedStaysSaved
============================================================================
