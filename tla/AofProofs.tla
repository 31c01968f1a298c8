----------------------------- MODULE AofProofs -----------------------------
(***************************************************************************)
(* Theorems about the append-only log, for any connections, any capacity   *)
(* of the channel and the buffer, and any bounds.                          *)
(***************************************************************************)
EXTENDS AofLog, SeqProofs

----------------------------------------------------------------------------
(* Records and their halves *)

LEMMA HalvesType ==
  ASSUME NEW recs \in Seq(Record)
  PROVE  /\ Halves(recs) \in Seq(Half)
         /\ Len(Halves(recs)) = 2 * Len(recs)
         /\ \A i \in 1 .. Len(recs) : /\ Halves(recs)[2 * i - 1] = <<recs[i], 1>>
                                      /\ Halves(recs)[2 * i] = <<recs[i], 2>>
         /\ \A j \in 1 .. 2 * Len(recs) :
              Halves(recs)[j] = <<recs[(j + 1) \div 2], 2 - (j % 2)>>
  <1> DEFINE n == Len(recs)
  <1>0. n \in Nat /\ 2 * n \in Nat
    OBVIOUS
  <1>1. \A j \in 1 .. 2 * n : (j + 1) \div 2 \in 1 .. n /\ 2 - (j % 2) \in {1, 2}
    OBVIOUS
  <1>2. \A j \in 1 .. 2 * n : <<recs[(j + 1) \div 2], 2 - (j % 2)>> \in Half
    BY <1>1 DEF Half
  <1>3. Halves(recs) \in [1 .. 2 * n -> Half]
    BY <1>2 DEF Halves
  <1>4. Halves(recs) \in Seq(Half) /\ Len(Halves(recs)) = 2 * n
    BY <1>0, <1>3
  <1>5. \A j \in 1 .. 2 * n : Halves(recs)[j] = <<recs[(j + 1) \div 2], 2 - (j % 2)>>
    BY DEF Halves
  <1>6. ASSUME NEW i \in 1 .. n
        PROVE  /\ Halves(recs)[2 * i - 1] = <<recs[i], 1>>
               /\ Halves(recs)[2 * i] = <<recs[i], 2>>
    <2>1. /\ 2 * i - 1 \in 1 .. 2 * n /\ ((2 * i - 1) + 1) \div 2 = i
          /\ 2 - ((2 * i - 1) % 2) = 1
          /\ 2 * i \in 1 .. 2 * n /\ (2 * i + 1) \div 2 = i /\ 2 - ((2 * i) % 2) = 2
      OBVIOUS
    <2> QED
      BY <1>5, <2>1
  <1> QED
    BY <1>4, <1>5, <1>6

LEMMA HalvesConcat ==
  ASSUME NEW a \in Seq(Record), NEW b \in Seq(Record)
  PROVE  Halves(a \o b) = Halves(a) \o Halves(b)
  <1> DEFINE n == Len(a)
             m == Len(b)
             c == a \o b
             x == Halves(c)
             ha == Halves(a)
             hb == Halves(b)
             y == ha \o hb
  <1>0. n \in Nat /\ m \in Nat
    OBVIOUS
  <1>1. /\ c \in Seq(Record) /\ Len(c) = n + m
        /\ \A i \in 1 .. n : c[i] = a[i]
        /\ \A i \in 1 .. m : c[n + i] = b[i]
    BY ConcatProperties
  <1>2. /\ ha \in Seq(Half) /\ Len(ha) = 2 * n
        /\ hb \in Seq(Half) /\ Len(hb) = 2 * m
        /\ \A j \in 1 .. 2 * n : ha[j] = <<a[(j + 1) \div 2], 2 - (j % 2)>>
        /\ \A j \in 1 .. 2 * m : hb[j] = <<b[(j + 1) \div 2], 2 - (j % 2)>>
    BY HalvesType
  <1> HIDE DEF c, ha, hb
  <1>t. ha \in Seq(Half) /\ hb \in Seq(Half)
    BY <1>2
  <1>3. /\ y \in Seq(Half) /\ Len(y) = Len(ha) + Len(hb)
        /\ \A i \in 1 .. Len(ha) : y[i] = ha[i]
        /\ \A i \in 1 .. Len(hb) : y[Len(ha) + i] = hb[i]
    BY <1>t, ConcatParts
  <1>4. /\ x \in Seq(Half) /\ Len(x) = 2 * (n + m)
        /\ \A j \in 1 .. 2 * (n + m) : x[j] = <<c[(j + 1) \div 2], 2 - (j % 2)>>
    BY <1>1, HalvesType
  <1> HIDE DEF x, y, n, m
  <1>5. ASSUME NEW j \in 1 .. 2 * (n + m) PROVE x[j] = y[j]
    <2>1. CASE j <= 2 * n
      <3>1. j \in 1 .. 2 * n /\ (j + 1) \div 2 \in 1 .. n
        BY <1>0, <2>1
      <3> QED
        BY <1>1, <1>2, <1>3, <1>4, <3>1
    <2>2. CASE j > 2 * n
      <3>1. PICK i \in 1 .. 2 * m : j = 2 * n + i
        BY <1>0, <2>2
      <3>2. /\ (i + 1) \div 2 \in 1 .. m
            /\ (j + 1) \div 2 = n + (i + 1) \div 2 /\ j % 2 = i % 2
        BY <1>0, <3>1
      <3>3. y[j] = hb[i]
        BY <1>2, <1>3, <3>1
      <3> QED
        BY <1>1, <1>2, <1>4, <3>2, <3>3
    <2> QED
      BY <1>0, <2>1, <2>2
  <1>6. Len(x) = Len(y)
    BY <1>0, <1>2, <1>3, <1>4
  <1>7. x = y
    BY <1>3, <1>4, <1>5, <1>6, SeqEqual
  <1> QED
    BY <1>7 DEF x, y, c, ha, hb

\* What the writer takes from the channel is its first record.
LEMMA HalvesHeadTail ==
  ASSUME NEW s \in Seq(Record), s # <<>>
  PROVE  Halves(<<Head(s)>>) \o Halves(Tail(s)) = Halves(s)
  <1>1. <<Head(s)>> \in Seq(Record) /\ Tail(s) \in Seq(Record)
    OBVIOUS
  <1>2. <<Head(s)>> \o Tail(s) = s
    OBVIOUS
  <1> QED
    BY <1>1, <1>2, HalvesConcat

LEMMA HalvesEmpty == Halves(<<>>) = <<>>
  <1>1. <<>> \in Seq(Record) /\ Len(<<>>) = 0
    OBVIOUS
  <1>2. Halves(<<>>) \in Seq(Half) /\ Len(Halves(<<>>)) = 2 * Len(<<>>)
    BY <1>1, HalvesType, Zenon
  <1>3. Len(Halves(<<>>)) = 0
    BY <1>1, <1>2
  <1> QED
    BY <1>2, <1>3, EmptySeq

----------------------------------------------------------------------------
(* The inductive invariant *)

(***************************************************************************)
(* Where the goroutines are: the writer holds a record exactly between     *)
(* Receive and Write; it has exited only when the channel was closed and   *)
(* drained, or the process has died; the channel is closed only after the  *)
(* last handler returned.                                                  *)
(***************************************************************************)
Control ==
  /\ hand # <<>> <=> pc = "write"
  /\ \A p \in sending : seq[p] < MaxAppends
  /\ server \in {"closing", "stopped", "crashed"} => open = {}
  /\ closed => server \in {"closing", "stopped", "crashed"}
  /\ server \in {"stopped", "crashed"} => pc = "exited"
  /\ pc = "exited" => /\ ch = <<>> /\ hand = <<>> /\ buf = <<>>
                      /\ closed \/ server = "crashed"

(***************************************************************************)
(* The file begins with what it held when it was opened and goes on with   *)
(* a part of what was accepted, after a crash too.                         *)
(***************************************************************************)
FileIsPrefix ==
  /\ Len(base) <= Len(file)
  /\ \E rest \in Seq(Half) : file \o rest = base \o Halves(accepted)

AofInv ==
  /\ TypeOK
  /\ Control
  /\ IdleMeansFlushed
  /\ NothingLost
  /\ FileIsPrefix

LEMMA NothingYet ==
  /\ <<>> \in Seq(Record) /\ <<>> \in Seq(Half)
  /\ Len(<<>>) = 0 /\ Len(<<>>) <= 1 /\ Len(<<>>) <= Capacity /\ Len(<<>>) <= BufCap
  /\ Halves(<<>>) = <<>>
  /\ \A s \in Seq(Half) : s \o <<>> = s /\ <<>> \o s = s
  <1>1. Len(<<>>) = 0 /\ <<>> \in Seq(Record) /\ <<>> \in Seq(Half)
    BY EmptySeq
  <1>2. 0 <= Capacity /\ 0 <= BufCap
    BY CapacityAssumption, BufCapAssumption
  <1>3. \A s \in Seq(Half) : s \o <<>> = s /\ <<>> \o s = s
    BY ConcatEmptySeq
  <1> QED
    BY <1>1, <1>2, <1>3, HalvesEmpty

LEMMA InitAof == Init => AofInv
  <1> SUFFICES ASSUME Init PROVE AofInv
    OBVIOUS
  <1>1. TypeOK
    BY NothingYet DEF Init, TypeOK, PCs, States
  <1>2. Control /\ IdleMeansFlushed
    BY DEF Init, Control, IdleMeansFlushed
  <1>3. file \o buf \o Halves(hand) \o Halves(ch) = base \o Halves(accepted)
    BY NothingYet DEF Init
  <1>4. FileIsPrefix
    <2>1. file = <<>> /\ base = <<>> /\ accepted = <<>>
      BY DEF Init
    <2>2. Len(base) <= Len(file)
      BY <2>1, NothingYet
    <2>3. file \o <<>> = base \o Halves(accepted)
      BY <2>1, NothingYet
    <2> QED
      BY <2>2, <2>3, NothingYet DEF FileIsPrefix
  <1> QED
    BY <1>1, <1>2, <1>3, <1>4 DEF AofInv, NothingLost

\* What a connection sends is a record.
LEMMA SentIsRecord ==
  ASSUME TypeOK, NEW p \in Conns
  PROVE  <<p, seq[p] + 1>> \in Record
  BY DEF TypeOK, Record

LEMMA NextAofType == TypeOK /\ [Next]_vars => TypeOK'
  <1> SUFFICES ASSUME TypeOK, [Next]_vars PROVE TypeOK'
    OBVIOUS
  <1> USE DEF TypeOK
  <1>1. ASSUME NEW p \in Conns, Accept(p) PROVE TypeOK'
    BY <1>1 DEF Accept
  <1>2. ASSUME NEW p \in Conns, Call(p) PROVE TypeOK'
    BY <1>2 DEF Call
  <1>3. ASSUME NEW p \in Conns, Send(p) PROVE TypeOK'
    <2>1. <<p, seq[p] + 1>> \in Record
      BY SentIsRecord
    <2>2. ch' \in Seq(Record) /\ Len(ch') <= Capacity /\ accepted' \in Seq(Record)
      BY <1>3, <2>1, CapacityAssumption DEF Send
    <2>3. seq' \in [Conns -> Nat]
      BY <1>3 DEF Send
    <2> QED
      BY <1>3, <2>2, <2>3 DEF Send
  <1>4. ASSUME NEW p \in Conns, Size(p) PROVE TypeOK'
    BY <1>4, BufCapAssumption DEF Size, Flush, conns
  <1>5. ASSUME NEW p \in Conns, Leave(p) PROVE TypeOK'
    BY <1>5 DEF Leave
  <1>6. CASE Receive
    <2>1. Head(ch) \in Record /\ Tail(ch) \in Seq(Record) /\ Len(Tail(ch)) <= Capacity
      BY <1>6, CapacityAssumption DEF Receive
    <2>2. <<Head(ch)>> \in Seq(Record) /\ Len(<<Head(ch)>>) <= 1
      BY <2>1
    <2> QED
      BY <1>6, <2>1, <2>2 DEF Receive, conns, PCs
  <1>7. CASE Write
    <2> DEFINE all == buf \o Halves(hand)
    <2>1. all \in Seq(Half)
      BY HalvesType
    <2>2. PICK n \in 0 .. Len(all) :
            /\ IF Len(all) <= BufCap THEN n = 0
               ELSE n >= Len(buf) /\ n >= 1 /\ Len(all) - n <= BufCap
            /\ file' = file \o SubSeq(all, 1, n)
            /\ buf' = SubSeq(all, n + 1, Len(all))
      BY <1>7 DEF Write
    <2> HIDE DEF all
    <2>3. file' \in Seq(Half) /\ buf' \in Seq(Half) /\ Len(buf') <= BufCap
      BY <2>1, <2>2, Cut, BufCapAssumption
    <2>4. hand' = <<>> /\ pc' = "locked"
          /\ UNCHANGED <<ch, closed, conns, server, starts, base, accepted>>
      BY <1>7 DEF Write
    <2> QED
      BY <2>3, <2>4 DEF conns, PCs
  <1>8. CASE FlushIfDrained
    <2>1. buf' \in Seq(Half) /\ Len(buf') <= BufCap /\ file' \in Seq(Half)
      BY <1>8, NothingYet, ConcatProperties DEF FlushIfDrained, Flush
    <2> QED
      BY <1>8, <2>1 DEF FlushIfDrained, conns, PCs
  <1>9. CASE FinalFlush
    BY <1>9, BufCapAssumption DEF FinalFlush, Flush, conns, PCs
  <1>10. CASE Shutdown \/ CloseChannel \/ CloseFile
    BY <1>10 DEF Shutdown, CloseChannel, CloseFile, conns, States
  <1>11. CASE Crash
    BY <1>11, CapacityAssumption, BufCapAssumption DEF Crash, PCs, States
  <1>12. CASE Restart
    <2>1. /\ ch' = <<>> /\ closed' = FALSE /\ hand' = <<>> /\ pc' = "recv" /\ buf' = <<>>
          /\ server' = "serving" /\ base' = file /\ accepted' = <<>> /\ starts' = starts + 1
          /\ file' = file /\ open' = open /\ sending' = sending /\ seq' = seq
      BY <1>12 DEF Restart, conns
    <2>2. starts + 1 \in Nat
      OBVIOUS
    <2> QED
      BY <2>1, <2>2, NothingYet, Zenon DEF PCs, States
  <1>13. CASE UNCHANGED vars
    BY <1>13 DEF vars, conns
  <1> QED
    BY <1>1, <1>2, <1>3, <1>4, <1>5, <1>6, <1>7, <1>8, <1>9, <1>10, <1>11, <1>12, <1>13
    DEF Next, Writer

LEMMA NextControl ==
  TypeOK /\ Control /\ IdleMeansFlushed /\ [Next]_vars => Control' /\ IdleMeansFlushed'
  <1> SUFFICES ASSUME TypeOK, Control, IdleMeansFlushed, [Next]_vars
               PROVE  Control' /\ IdleMeansFlushed'
    OBVIOUS
  <1> USE DEF TypeOK, Control, IdleMeansFlushed
  <1>1. ASSUME NEW p \in Conns, Accept(p) PROVE Control' /\ IdleMeansFlushed'
    BY <1>1 DEF Accept
  <1>2. ASSUME NEW p \in Conns, Call(p) PROVE Control' /\ IdleMeansFlushed'
    BY <1>2 DEF Call
  <1>3. ASSUME NEW p \in Conns, Send(p) PROVE Control' /\ IdleMeansFlushed'
    <2>1. /\ ch' # <<>>
          /\ \A q \in sending' : q \in sending /\ seq'[q] = seq[q]
      <3>1. ch \in Seq(Record) /\ ch' = Append(ch, <<p, seq[p] + 1>>)
        BY <1>3 DEF Send
      <3>2. <<p, seq[p] + 1>> \in Record
        BY SentIsRecord
      <3>4. ch' # <<>>
        BY <3>1, <3>2, AppendNotEmpty, Zenon
      <3> QED
        BY <1>3, <3>4 DEF Send
    <2>2. open # {} /\ pc # "exited"
      BY <1>3 DEF Send
    <2> QED
      BY <1>3, <2>1, <2>2 DEF Send
  <1>4. ASSUME NEW p \in Conns, Size(p) PROVE Control' /\ IdleMeansFlushed'
    BY <1>4 DEF Size, Flush, conns
  <1>5. ASSUME NEW p \in Conns, Leave(p) PROVE Control' /\ IdleMeansFlushed'
    BY <1>5 DEF Leave
  <1>6. CASE Receive
    BY <1>6 DEF Receive, conns
  <1>7. CASE Write
    BY <1>7 DEF Write, conns
  <1>8. CASE FlushIfDrained
    BY <1>8 DEF FlushIfDrained, Flush, conns
  <1>9. CASE FinalFlush
    BY <1>9 DEF FinalFlush, Flush, conns
  <1>10. CASE Shutdown \/ CloseChannel \/ CloseFile
    BY <1>10 DEF Shutdown, CloseChannel, CloseFile, conns
  <1>11. CASE Crash
    BY <1>11 DEF Crash
  <1>12. CASE Restart
    BY <1>12 DEF Restart, conns
  <1>13. CASE UNCHANGED vars
    BY <1>13 DEF vars, conns
  <1> QED
    BY <1>1, <1>2, <1>3, <1>4, <1>5, <1>6, <1>7, <1>8, <1>9, <1>10, <1>11, <1>12, <1>13
    DEF Next, Writer

----------------------------------------------------------------------------
(* Nothing is lost *)

\* Everything between the senders and the disk, in order.
Pipeline == file \o buf \o Halves(hand) \o Halves(ch)

LEMMA Regroup ==
  /\ \A a, b \in Seq(Half) : a \o b \in Seq(Half)
  /\ \A a, b, c \in Seq(Half) : (a \o b) \o c = a \o (b \o c)
  BY ConcatProperties, ConcatAssociative

LEMMA PipelineType ==
  ASSUME TypeOK
  PROVE  /\ Halves(hand) \in Seq(Half) /\ Halves(ch) \in Seq(Half)
         /\ Halves(accepted) \in Seq(Half)
         /\ file \in Seq(Half) /\ buf \in Seq(Half) /\ base \in Seq(Half)
  BY HalvesType DEF TypeOK

\* A flush moves the buffer behind the file.
LEMMA FlushKeeps ==
  ASSUME TypeOK, Flush, UNCHANGED <<hand, ch>>
  PROVE  Pipeline' = Pipeline
  <1> DEFINE t == Halves(hand) \o Halves(ch)
  <1>1. t \in Seq(Half) /\ file \o buf \in Seq(Half)
    BY PipelineType, ConcatProperties
  <1>2. Pipeline' = ((file \o buf) \o <<>>) \o Halves(hand) \o Halves(ch)
    BY DEF Flush, Pipeline
  <1>3. (file \o buf) \o <<>> = file \o buf
    BY <1>1, NothingYet
  <1> QED
    BY <1>2, <1>3 DEF Pipeline

LEMMA ReceiveKeeps ==
  ASSUME TypeOK, Receive, hand = <<>>
  PROVE  Pipeline' = Pipeline
  <1> DEFINE f == file \o buf
             t == Halves(<<Head(ch)>>)
             u == Halves(Tail(ch))
  <1>1. f \in Seq(Half)
    BY PipelineType, ConcatProperties
  <1>2. ch \in Seq(Record) /\ ch # <<>>
    BY DEF TypeOK, Receive
  <1>3. t \o u = Halves(ch)
    BY <1>2, HalvesHeadTail
  <1>4. t \in Seq(Half) /\ u \in Seq(Half)
    <2>1. <<Head(ch)>> \in Seq(Record) /\ Tail(ch) \in Seq(Record)
      BY <1>2
    <2> QED
      BY <2>1, HalvesType
  <1>5. Pipeline' = f \o t \o u
    BY DEF Receive, Pipeline
  <1>6. Pipeline = f \o <<>> \o Halves(ch)
    BY HalvesEmpty DEF Pipeline
  <1> HIDE DEF f, t, u
  <1>7. f \o t \o u = f \o (t \o u)
    BY <1>1, <1>4, Regroup
  <1>8. f \o <<>> = f
    BY <1>1, NothingYet
  <1> QED
    BY <1>3, <1>5, <1>6, <1>7, <1>8

\* Whatever part of a record a full buffer spills, nothing is written twice.
LEMMA WriteKeeps ==
  ASSUME TypeOK, Write
  PROVE  Pipeline' = Pipeline
  <1> DEFINE all == buf \o Halves(hand)
             u == Halves(ch)
  <1>1. all \in Seq(Half) /\ u \in Seq(Half) /\ file \in Seq(Half)
    BY PipelineType, ConcatProperties
  <1>2. PICK n \in 0 .. Len(all) : /\ file' = file \o SubSeq(all, 1, n)
                                   /\ buf' = SubSeq(all, n + 1, Len(all))
    BY DEF Write
  <1>3. hand' = <<>> /\ ch' = ch
    BY DEF Write
  <1>a. (file \o buf) \o Halves(hand) = file \o (buf \o Halves(hand))
    <2>1. file \in Seq(Half) /\ buf \in Seq(Half) /\ Halves(hand) \in Seq(Half)
      BY PipelineType
    <2> QED
      BY <2>1, Regroup
  <1>4. Pipeline = file \o all \o u
    BY <1>a DEF Pipeline
  <1> HIDE DEF all, u
  <1> DEFINE x == SubSeq(all, 1, n)
             y == SubSeq(all, n + 1, Len(all))
  <1>5. x \in Seq(Half) /\ y \in Seq(Half) /\ x \o y = all
    BY <1>1, Cut
  <1>6. Pipeline' = (file \o x) \o y \o <<>> \o u
    BY <1>2, <1>3, HalvesEmpty DEF Pipeline, u
  <1> HIDE DEF x, y
  <1>t. x \in Seq(Half) /\ y \in Seq(Half) /\ file \in Seq(Half)
    BY <1>1, <1>5
  <1>7. (file \o x) \o y = file \o (x \o y)
    BY <1>t, Regroup
  <1>8. file \o all \in Seq(Half)
    BY <1>1, ConcatProperties
  <1>9. (file \o all) \o <<>> = file \o all
    BY <1>8, NothingYet
  <1> QED
    BY <1>4, <1>5, <1>6, <1>7, <1>9

LEMMA SendKeeps ==
  ASSUME TypeOK, NEW p \in Conns, Send(p), Pipeline = base \o Halves(accepted)
  PROVE  Pipeline' = (base \o Halves(accepted))'
  <1> DEFINE r == <<p, seq[p] + 1>>
             f == file \o buf \o Halves(hand)
             t == Halves(<<r>>)
  <1>1. r \in Record /\ <<r>> \in Seq(Record)
    BY SentIsRecord
  <1>2. ch \in Seq(Record) /\ accepted \in Seq(Record)
    BY DEF TypeOK
  <1>3. ch' = Append(ch, r) /\ accepted' = Append(accepted, r)
        /\ UNCHANGED <<file, buf, hand, base>>
    BY DEF Send
  <1> HIDE DEF r
  <1>4. Append(ch, r) = ch \o <<r>> /\ Append(accepted, r) = accepted \o <<r>>
    BY <1>1, <1>2, AppendIsConcat
  <1>5. Halves(ch') = Halves(ch) \o t /\ Halves(accepted') = Halves(accepted) \o t
    BY <1>1, <1>2, <1>3, <1>4, HalvesConcat
  <1>6. /\ f \in Seq(Half) /\ t \in Seq(Half) /\ Halves(ch) \in Seq(Half)
        /\ base \in Seq(Half) /\ Halves(accepted) \in Seq(Half)
    BY <1>1, PipelineType, ConcatProperties, HalvesType
  <1>7. Pipeline = f \o Halves(ch) /\ Pipeline' = f \o (Halves(ch) \o t)
    BY <1>3, <1>5 DEF Pipeline
  <1>8. (base \o Halves(accepted))' = base \o (Halves(accepted) \o t)
    BY <1>3, <1>5
  <1> HIDE DEF f, t
  <1>9. f \o (Halves(ch) \o t) = f \o Halves(ch) \o t
    BY <1>6, Regroup
  <1>10. base \o (Halves(accepted) \o t) = base \o Halves(accepted) \o t
    BY <1>6, Regroup
  <1> QED
    BY <1>7, <1>8, <1>9, <1>10

\* Every step but a crash keeps NothingLost; after a crash it claims nothing.
LEMMA NextNothingLost == AofInv /\ [Next]_vars => NothingLost'
  <1> SUFFICES ASSUME AofInv, [Next]_vars, server' # "crashed"
               PROVE  Pipeline' = (base \o Halves(accepted))'
    BY DEF NothingLost, Pipeline
  <1>0. TypeOK /\ Control
    BY DEF AofInv
  <1> DEFINE Goal == Pipeline' = (base \o Halves(accepted))'
             Before == Pipeline = base \o Halves(accepted)
  <1>1. server # "crashed" => Before
    BY DEF AofInv, NothingLost, Pipeline
  <1>2. ASSUME Before, Pipeline' = Pipeline, UNCHANGED <<base, accepted>> PROVE Goal
    BY <1>2
  <1>3. ASSUME Before, UNCHANGED <<file, buf, hand, ch, base, accepted>> PROVE Goal
    BY <1>3 DEF Pipeline
  <1> HIDE DEF Goal, Before
  <1> SUFFICES Goal
    BY DEF Goal
  <1>4. ASSUME NEW p \in Conns, Accept(p) \/ Call(p) \/ Leave(p) PROVE Goal
    BY <1>1, <1>3, <1>4 DEF Accept, Call, Leave
  <1>5. ASSUME NEW p \in Conns, Send(p) PROVE Goal
    <2>1. server' = server
      BY <1>5 DEF Send
    <2> QED
      BY <1>0, <1>1, <1>5, <2>1, SendKeeps DEF Goal, Before
  <1>6. ASSUME NEW p \in Conns, Size(p) PROVE Goal
    BY <1>0, <1>1, <1>2, <1>6, FlushKeeps DEF Size
  <1>7. CASE Receive
    <2>1. hand = <<>>
      BY <1>0, <1>7 DEF Receive, Control
    <2>2. Pipeline' = Pipeline
      BY <1>0, <1>7, <2>1, ReceiveKeeps
    <2> QED
      BY <1>1, <1>2, <1>7, <2>2 DEF Receive
  <1>8. CASE Write
    <2>1. Pipeline' = Pipeline
      BY <1>0, <1>8, WriteKeeps
    <2> QED
      BY <1>1, <1>2, <1>8, <2>1 DEF Write
  <1>9. CASE FlushIfDrained
    <2>1. CASE Flush
      BY <1>0, <1>1, <1>2, <1>9, <2>1, FlushKeeps DEF FlushIfDrained
    <2>2. CASE UNCHANGED <<buf, file>>
      BY <1>1, <1>3, <1>9, <2>2 DEF FlushIfDrained
    <2> QED
      BY <1>9, <2>1, <2>2 DEF FlushIfDrained
  <1>10. CASE FinalFlush
    BY <1>0, <1>1, <1>2, <1>10, FlushKeeps DEF FinalFlush
  <1>11. CASE Shutdown \/ CloseChannel \/ CloseFile
    BY <1>1, <1>3, <1>11 DEF Shutdown, CloseChannel, CloseFile
  <1>12. CASE Restart
    <2>1. /\ ch' = <<>> /\ hand' = <<>> /\ buf' = <<>> /\ base' = file /\ accepted' = <<>>
          /\ file' = file
      BY <1>12 DEF Restart
    <2>2. file \in Seq(Half)
      BY <1>0 DEF TypeOK
    <2>3. file \o <<>> \o <<>> \o <<>> = file \o <<>>
      BY <2>2, NothingYet
    <2> QED
      BY <2>1, <2>3, NothingYet DEF Goal, Pipeline
  <1>13. CASE UNCHANGED vars
    BY <1>1, <1>3, <1>13 DEF vars
  <1>14. ~Crash
    BY DEF Crash
  <1> QED
    BY <1>4, <1>5, <1>6, <1>7, <1>8, <1>9, <1>10, <1>11, <1>12, <1>13, <1>14
    DEF Next, Writer, Goal

\* No step takes anything away from the file.
LEMMA FileGrows ==
  ASSUME TypeOK, Next
  PROVE  \E rest \in Seq(Half) : file' = file \o rest
  <1>1. file \in Seq(Half) /\ buf \in Seq(Half) /\ <<>> \in Seq(Half) /\ file \o <<>> = file
    BY NothingYet DEF TypeOK
  <1>2. CASE file' = file
    BY <1>1, <1>2
  <1>3. CASE Flush
    BY <1>1, <1>3 DEF Flush
  <1>4. CASE Write
    <2> DEFINE all == buf \o Halves(hand)
    <2>1. all \in Seq(Half)
      BY PipelineType, ConcatProperties
    <2>2. PICK n \in 0 .. Len(all) : file' = file \o SubSeq(all, 1, n)
      BY <1>4 DEF Write
    <2> HIDE DEF all
    <2>3. SubSeq(all, 1, n) \in Seq(Half)
      BY <2>1, Cut
    <2> QED
      BY <2>2, <2>3
  <1>5. file' = file \/ Flush \/ Write
    BY DEF Next, Writer, Accept, Call, Send, Size, Leave, Receive, FlushIfDrained,
           FinalFlush, Shutdown, CloseChannel, CloseFile, Crash, Restart
  <1> QED
    BY <1>2, <1>3, <1>4, <1>5

LEMMA NextFileIsPrefix == AofInv /\ TypeOK' /\ NothingLost' /\ [Next]_vars => FileIsPrefix'
  <1> SUFFICES ASSUME AofInv, TypeOK', NothingLost', [Next]_vars PROVE FileIsPrefix'
    OBVIOUS
  <1>0. TypeOK /\ FileIsPrefix
    BY DEF AofInv
  <1>1. CASE UNCHANGED vars
    BY <1>0, <1>1 DEF vars, FileIsPrefix
  <1>2. CASE Crash
    BY <1>0, <1>2 DEF Crash, FileIsPrefix
  <1>3. CASE Next /\ ~Crash
    <2>1. Len(base') <= Len(file')
      <3>1. CASE Restart
        BY <1>0, <3>1 DEF Restart, TypeOK
      <3>2. CASE ~Restart
        <4>1. base' = base
          BY <1>3, <3>2
          DEF Next, Writer, Accept, Call, Send, Size, Leave, Receive, Write,
              FlushIfDrained, FinalFlush, Shutdown, CloseChannel, CloseFile
        <4>2. PICK rest \in Seq(Half) : file' = file \o rest
          BY <1>0, <1>3, FileGrows
        <4>3. Len(file') = Len(file) + Len(rest) /\ Len(file) \in Nat /\ Len(base) \in Nat
              /\ Len(rest) \in Nat
          BY <1>0, <4>2, ConcatProperties DEF TypeOK
        <4> QED
          BY <1>0, <4>1, <4>3 DEF FileIsPrefix
      <3> QED
        BY <3>1, <3>2
    <2>2. server' # "crashed"
      <3>1. server = "crashed" => Restart
        BY <1>0, <1>3 DEF AofInv, Control, Next, Writer, Accept, Call, Send, Size, Leave,
           Receive, Write, FlushIfDrained, FinalFlush, Shutdown, CloseChannel, CloseFile, TypeOK
      <3> QED
        BY <1>3, <3>1 DEF Next, Writer, Accept, Call, Send, Size, Leave,
           Receive, Write, FlushIfDrained, FinalFlush, Shutdown, CloseChannel, CloseFile,
           Restart, conns
    <2> DEFINE rest == buf' \o (Halves(hand') \o Halves(ch'))
    <2>3. /\ Halves(hand') \in Seq(Half) /\ Halves(ch') \in Seq(Half)
          /\ file' \in Seq(Half) /\ buf' \in Seq(Half)
      BY HalvesType DEF TypeOK
    <2>a. file' \o buf' \o Halves(hand') = file' \o (buf' \o Halves(hand'))
      BY <2>3, Regroup
    <2>b. buf' \o Halves(hand') \in Seq(Half)
      BY <2>3, Regroup
    <2>c. file' \o (buf' \o Halves(hand')) \o Halves(ch')
            = file' \o (buf' \o Halves(hand') \o Halves(ch'))
      BY <2>3, <2>b, Regroup
    <2>d. buf' \o Halves(hand') \o Halves(ch') = rest
      BY <2>3, Regroup
    <2>4. Pipeline' = file' \o rest
      BY <2>a, <2>c, <2>d DEF Pipeline
    <2>5. file' \o rest = base' \o Halves(accepted')
      BY <2>2, <2>4 DEF NothingLost, Pipeline
    <2>6. rest \in Seq(Half)
      BY <2>3, Regroup
    <2> QED
      BY <2>1, <2>5, <2>6 DEF FileIsPrefix
  <1> QED
    BY <1>1, <1>2, <1>3

LEMMA NextAof == AofInv /\ [Next]_vars => AofInv'
  BY NextAofType, NextControl, NextNothingLost, NextFileIsPrefix DEF AofInv

LEMMA AofInvariant == Spec => []AofInv
  BY InitAof, NextAof, PTL DEF Spec
----------------------------------------------------------------------------
(* Replay *)

\* Replay stops at a definite place: the largest number of complete records
\* that the file begins with.
LEMMA ReplayStops ==
  ASSUME NEW f \in Seq(Half)
  PROVE  \E n \in 0 .. Len(f) \div 2 :
            /\ Complete(f, n)
            /\ n = Len(f) \div 2 \/ ~Complete(f, n + 1)
            /\ Replayed(f) = [i \in 1 .. n |-> f[2 * i][1]]
  <1> DEFINE half == Len(f) \div 2
             Ends(m) == m = half \/ ~Complete(f, m + 1)
             T == {m \in Nat : Ends(m)}
  <1>0. half \in Nat
    OBVIOUS
  <1>1. T \in SUBSET Nat /\ half \in T
    BY <1>0
  <1> HIDE DEF half
  <1>2. PICK n \in T : \A m \in T : n <= m
    BY <1>1, LeastNumber, Zenon
  <1>3. n \in 0 .. half /\ Ends(n)
    BY <1>0, <1>1, <1>2
  <1>4. Complete(f, n)
    <2>1. CASE n = 0
      BY <2>1 DEF Complete
    <2>2. CASE n # 0
      <3>1. n - 1 \in Nat /\ ~(n <= n - 1) /\ n - 1 # half
        BY <1>0, <1>3, <2>2
      <3>2. ~Ends(n - 1)
        BY <1>2, <3>1
      <3>3. (n - 1) + 1 = n
        BY <1>3
      <3> QED
        BY <3>1, <3>2, <3>3
    <2> QED
      BY <2>1, <2>2
  <1> DEFINE Q(m) == Complete(f, m) /\ (m = half \/ ~Complete(f, m + 1))
             k == CHOOSE m \in 0 .. half : Q(m)
  <1>5. \E m \in 0 .. half : Q(m)
    BY <1>3, <1>4
  <1>6. k \in 0 .. half /\ Q(k)
    <2> HIDE DEF Q
    <2> QED
      BY <1>5
  <1>7. Replayed(f) = [i \in 1 .. k |-> f[2 * i][1]]
    BY Zenon DEF Replayed, half
  <1> HIDE DEF k
  <1> QED
    BY <1>6, <1>7 DEF half

LEMMA ReplayedType ==
  ASSUME NEW f \in Seq(Half)
  PROVE  Replayed(f) \in Seq(Record)
  <1>1. PICK n \in 0 .. Len(f) \div 2 : Replayed(f) = [i \in 1 .. n |-> f[2 * i][1]]
    BY ReplayStops
  <1>2. \A i \in 1 .. n : f[2 * i][1] \in Record
    <2>1. \A i \in 1 .. n : 2 * i \in 1 .. Len(f)
      OBVIOUS
    <2>2. \A j \in 1 .. Len(f) : f[j] \in Half
      OBVIOUS
    <2>3. \A h \in Half : h[1] \in Record
      BY DEF Half
    <2> QED
      BY <2>1, <2>2, <2>3
  <1>3. n \in Nat
    OBVIOUS
  <1>4. [i \in 1 .. n |-> f[2 * i][1]] \in [1 .. n -> Record]
    BY <1>2
  <1> QED
    BY <1>1, <1>3, <1>4

\* What replay finds in the beginning of a log is the beginning of what was logged.
LEMMA ReplayOfPart ==
  ASSUME NEW recs \in Seq(Record), NEW f \in Seq(Half), NEW rest \in Seq(Half),
         f \o rest = Halves(recs)
  PROVE  IsPrefix(Replayed(f), recs)
  <1>1. PICK n \in 0 .. Len(f) \div 2 : Replayed(f) = [i \in 1 .. n |-> f[2 * i][1]]
    BY ReplayStops
  <1>2. /\ Len(f \o rest) = Len(f) + Len(rest)
        /\ \A i \in 1 .. Len(f) : (f \o rest)[i] = f[i]
    BY ConcatParts
  <1>3. /\ Len(Halves(recs)) = 2 * Len(recs)
        /\ \A i \in 1 .. Len(recs) : Halves(recs)[2 * i] = <<recs[i], 2>>
    BY HalvesType
  <1>4. n \in Nat /\ n <= Len(recs)
    BY <1>2, <1>3
  <1>5. Replayed(f) \in Seq(Record)
    BY ReplayedType
  <1>6. Len(Replayed(f)) = n
    BY <1>1, <1>4, <1>5
  <1>7. \A i \in 1 .. n : Replayed(f)[i] = recs[i]
    <2> TAKE i \in 1 .. n
    <2>1. 2 * i \in 1 .. Len(f) /\ i \in 1 .. Len(recs)
      BY <1>4
    <2>2. f[2 * i] = <<recs[i], 2>>
      BY <1>2, <1>3, <2>1
    <2> QED
      BY <1>1, <2>2
  <1> QED
    BY <1>4, <1>5, <1>6, <1>7, PrefixAt

\* A log of complete records replays to exactly those.
LEMMA ReplayOfHalves ==
  ASSUME NEW recs \in Seq(Record)
  PROVE  Replayed(Halves(recs)) = recs
  <1> DEFINE f == Halves(recs)
             k == Len(recs)
  <1>1. /\ f \in Seq(Half) /\ Len(f) = 2 * k
        /\ \A i \in 1 .. k : f[2 * i - 1] = <<recs[i], 1>> /\ f[2 * i] = <<recs[i], 2>>
    BY HalvesType
  <1>2. k \in Nat /\ recs = [i \in 1 .. k |-> recs[i]]
    OBVIOUS
  <1> HIDE DEF f, k
  <1>3. Len(f) \div 2 = k
    BY <1>1, <1>2
  <1>4. PICK n \in 0 .. k : /\ n = k \/ ~Complete(f, n + 1)
                            /\ Replayed(f) = [i \in 1 .. n |-> f[2 * i][1]]
    BY <1>1, <1>3, ReplayStops
  <1>5. \A m \in 0 .. k : Complete(f, m)
    BY <1>1, <1>2 DEF Complete
  <1>6. n = k
    <2>1. n # k => n + 1 \in 0 .. k
      BY <1>2
    <2> QED
      BY <1>4, <1>5, <2>1
  <1>7. Replayed(f) = [i \in 1 .. k |-> recs[i]]
    BY <1>1, <1>4, <1>6
  <1> QED
    BY <1>2, <1>7 DEF f
----------------------------------------------------------------------------
(* Theorems *)

\* The channel of Open never exceeds its capacity nor the buffer its size,
\* whatever the senders, the writer, INFO, a crash or a restart do.
THEOREM AofTypeCorrect == Spec => []TypeOK
  <1>1. AofInv => TypeOK
    BY DEF AofInv
  <1> QED
    BY <1>1, AofInvariant, PTL

\* Append, writeLoop, Size and Close lose, duplicate and reorder nothing:
\* file, buffer, the writer's hand and channel are what was accepted.
THEOREM AofLosesNothing == Spec => []NothingLost
  <1>1. AofInv => NothingLost
    BY DEF AofInv
  <1> QED
    BY <1>1, AofInvariant, PTL

\* writeLoop never waits for the next command while its buffer holds data.
THEOREM IdleWriterHasFlushed == Spec => []IdleMeansFlushed
  <1>1. AofInv => IdleMeansFlushed
    BY DEF AofInv
  <1> QED
    BY <1>1, AofInvariant, PTL

\* When Close has closed the file, all the stages before it are empty.
LEMMA StoppedFile ==
  ASSUME TypeOK, Control, NothingLost, server # "crashed", pc = "exited"
  PROVE  file = base \o Halves(accepted)
  <1>1. ch = <<>> /\ hand = <<>> /\ buf = <<>> /\ file \in Seq(Half)
    BY DEF Control, TypeOK
  <1>2. file \o <<>> \o <<>> \o <<>> = base \o Halves(accepted)
    BY <1>1, HalvesEmpty DEF NothingLost
  <1> QED
    BY <1>1, <1>2, NothingYet

\* Nobody is inside Append when Close has closed the channel, and the file
\* that Close leaves is complete.
THEOREM CloseLeavesAll == Spec => []ClosedIsComplete
  <1>1. ASSUME AofInv PROVE ClosedIsComplete
    <2>1. TypeOK /\ Control /\ NothingLost
      BY <1>1 DEF AofInv
    <2>2. closed => sending = {}
      BY <2>1 DEF TypeOK, Control
    <2>3. server = "stopped" => file = base \o Halves(accepted)
      BY <2>1, StoppedFile DEF Control
    <2> QED
      BY <2>2, <2>3 DEF ClosedIsComplete
  <1> QED
    BY <1>1, AofInvariant, PTL

\* What Whole says of the file that was opened, in the terms of the lemmas.
LEMMA WholeBase ==
  ASSUME TypeOK, Whole(base)
  PROVE  /\ Replayed(base) \o accepted \in Seq(Record)
         /\ base \o Halves(accepted) = Halves(Replayed(base) \o accepted)
  <1>1. base \in Seq(Half) /\ accepted \in Seq(Record)
    BY DEF TypeOK
  <1>2. Replayed(base) \in Seq(Record)
    BY <1>1, ReplayedType
  <1>3. Halves(Replayed(base) \o accepted) = Halves(Replayed(base)) \o Halves(accepted)
    BY <1>1, <1>2, HalvesConcat
  <1> QED
    BY <1>1, <1>2, <1>3, ConcatProperties DEF Whole

\* Replay after a crash at any moment, even inside a record, finds a prefix
\* of what was accepted.
THEOREM CrashLeavesPrefix == Spec => []ReplayIsPrefix
  <1>1. ASSUME AofInv PROVE ReplayIsPrefix
    <2>1. TypeOK /\ FileIsPrefix
      BY <1>1 DEF AofInv
    <2> SUFFICES ASSUME Whole(base)
                 PROVE  IsPrefix(Replayed(file), Replayed(base) \o accepted)
      BY DEF ReplayIsPrefix
    <2>2. file \in Seq(Half)
      BY <2>1 DEF TypeOK
    <2>3. PICK rest \in Seq(Half) : file \o rest = base \o Halves(accepted)
      BY <2>1 DEF FileIsPrefix
    <2>4. /\ Replayed(base) \o accepted \in Seq(Record)
          /\ file \o rest = Halves(Replayed(base) \o accepted)
      BY <2>1, <2>3, WholeBase
    <2> QED
      BY <2>2, <2>4, ReplayOfPart
  <1> QED
    BY <1>1, AofInvariant, PTL

\* The README's promise that replay rebuilds the exact dataset holds of a
\* graceful stop whenever the file was not torn when Open found it.
THEOREM StopKeepsAllOfWholeLog == Spec => [](Whole(base) => StopKeepsAll)
  <1>1. ASSUME AofInv PROVE Whole(base) => StopKeepsAll
    <2> SUFFICES ASSUME Whole(base), server = "stopped"
                 PROVE  Replayed(file) = Replayed(base) \o accepted
      BY DEF StopKeepsAll
    <2>1. TypeOK /\ Control /\ NothingLost
      BY <1>1 DEF AofInv
    <2>2. file = base \o Halves(accepted)
      BY <2>1, StoppedFile DEF Control
    <2>3. /\ Replayed(base) \o accepted \in Seq(Record)
          /\ file = Halves(Replayed(base) \o accepted)
      BY <2>1, <2>2, WholeBase
    <2> QED
      BY <2>3, ReplayOfHalves
  <1> QED
    BY <1>1, AofInvariant, PTL
----------------------------------------------------------------------------
(* The log implements CommandLog *)

\* Of two beginnings of the same sequence the shorter begins the longer.
LEMMA CommonWhole ==
  ASSUME NEW s \in Seq(Half), NEW t \in Seq(Half), NEW u \in Seq(Half), NEW v \in Seq(Half),
         s \o u = t \o v, Len(s) <= Len(t)
  PROVE  IsPrefix(s, t)
  <1>1. \A i \in 1 .. Len(s) : (s \o u)[i] = s[i]
    BY ConcatParts
  <1>2. \A i \in 1 .. Len(t) : (t \o v)[i] = t[i]
    BY ConcatParts
  <1>3. Len(s) \in Nat /\ Len(t) \in Nat
    OBVIOUS
  <1>4. \A i \in 1 .. Len(s) : s[i] = t[i]
    BY <1>1, <1>2, <1>3
  <1> QED
    BY <1>4, PrefixAt

\* Saved counts the complete records that the file has gained.
LEMMA SavedCount ==
  ASSUME NEW b \in Seq(Half), NEW a \in Seq(Record), NEW f \in Seq(Half),
         NEW rest \in Seq(Half), f \o rest = b \o Halves(a), Len(b) <= Len(f)
  PROVE  LET k == (Len(f) - Len(b)) \div 2
         IN  /\ k \in 0 .. Len(a)
             /\ Cardinality({n \in 1 .. Len(a) :
                    IsPrefix(b \o Halves(SubSeq(a, 1, n)), f)}) = k
  <1> DEFINE k == (Len(f) - Len(b)) \div 2
             In(n) == IsPrefix(b \o Halves(SubSeq(a, 1, n)), f)
  <1>0. Len(a) \in Nat /\ Len(f) \in Nat /\ Len(b) \in Nat /\ Len(rest) \in Nat
    OBVIOUS
  <1>1. Halves(a) \in Seq(Half) /\ Len(Halves(a)) = 2 * Len(a)
    BY HalvesType
  <1>2. Len(f) + Len(rest) = Len(b) + 2 * Len(a)
    <2>1. Len(f \o rest) = Len(f) + Len(rest)
      BY ConcatParts
    <2>2. Len(b \o Halves(a)) = Len(b) + Len(Halves(a))
      BY <1>1, ConcatParts
    <2> QED
      BY <1>1, <2>1, <2>2
  <1>3. k \in 0 .. Len(a)
    BY <1>0, <1>2
  <1>4. ASSUME NEW n \in 1 .. Len(a) PROVE In(n) <=> n <= k
    <2> DEFINE x == SubSeq(a, 1, n)
               y == SubSeq(a, n + 1, Len(a))
    <2>0. n \in 0 .. Len(a)
      OBVIOUS
    <2>1. x \in Seq(Record) /\ y \in Seq(Record) /\ Len(x) = n /\ x \o y = a
      BY <2>0, Cut
    <2> HIDE DEF x, y
    <2>2. /\ Halves(x) \in Seq(Half) /\ Len(Halves(x)) = 2 * n /\ Halves(y) \in Seq(Half)
          /\ Halves(a) = Halves(x) \o Halves(y)
      BY <2>1, HalvesType, HalvesConcat
    <2> DEFINE p == b \o Halves(x)
    <2>3. p \in Seq(Half) /\ Len(p) = Len(b) + 2 * n
      BY <2>2, ConcatParts
    <2>4. p \o Halves(y) = b \o (Halves(x) \o Halves(y))
      BY <2>2, Regroup
    <2>5. p \o Halves(y) = f \o rest
      BY <2>2, <2>4
    <2>6. n <= k <=> Len(b) + 2 * n <= Len(f)
      BY <1>0
    <2>7. In(n) <=> IsPrefix(p, f)
      BY DEF x
    <2> HIDE DEF p, k, In
    <2>8. CASE n <= k
      BY <2>2, <2>3, <2>5, <2>6, <2>7, <2>8, CommonWhole
    <2>9. CASE In(n)
      <3>1. Len(p) <= Len(f)
        BY <2>7, <2>9 DEF IsPrefix
      <3> QED
        BY <2>3, <2>6, <2>9, <3>1
    <2> QED
      BY <2>8, <2>9
  <1> HIDE DEF k, In
  <1>5. {n \in 1 .. Len(a) : In(n)} = 1 .. k
    BY <1>0, <1>3, <1>4
  <1>6. Cardinality(1 .. k) = k
    <2>1. k \in Int /\ 1 \in Int /\ (IF 1 > k THEN 0 ELSE k - 1 + 1) = k
      BY <1>3
    <2> QED
      BY <2>1, FS_Interval
  <1> QED
    BY <1>3, <1>5, <1>6 DEF k, In
\* Complete records in the file beyond the ones it was opened with.
Gained == (Len(file) - Len(base)) \div 2

LEMMA SavedIsGained ==
  ASSUME TypeOK, FileIsPrefix
  PROVE  Saved = Gained /\ Gained \in 0 .. Len(accepted)
  <1>1. base \in Seq(Half) /\ accepted \in Seq(Record) /\ file \in Seq(Half)
    BY DEF TypeOK
  <1>2. PICK rest \in Seq(Half) : file \o rest = base \o Halves(accepted)
    BY DEF FileIsPrefix
  <1>3. Len(base) <= Len(file)
    BY DEF FileIsPrefix
  <1> QED
    BY <1>1, <1>2, <1>3, SavedCount DEF Saved, Gained

LEMMA SavedIsGainedNext ==
  ASSUME TypeOK', FileIsPrefix'
  PROVE  Saved' = Gained' /\ Gained' \in 0 .. Len(accepted')
  <1>1. base' \in Seq(Half) /\ accepted' \in Seq(Record) /\ file' \in Seq(Half)
    BY DEF TypeOK
  <1>2. PICK rest \in Seq(Half) : file' \o rest = base' \o Halves(accepted')
    BY DEF FileIsPrefix
  <1>3. Len(base') <= Len(file')
    BY DEF FileIsPrefix
  <1> QED
    BY <1>1, <1>2, <1>3, SavedCount DEF Saved, Gained

LEMMA InitImplements == Init => Abstract!Init
  <1> SUFFICES ASSUME Init PROVE Abstract!Init
    OBVIOUS
  <1>1. Saved = Gained
    BY InitAof, SavedIsGained DEF AofInv
  <1>2. Gained = 0
    BY NothingYet DEF Init, Gained
  <1> QED
    BY <1>1, <1>2 DEF Init, Abstract!Init

\* Every step of the log is a step of CommandLog or changes nothing there.
LEMMA NextImplements ==
  AofInv /\ AofInv' /\ [Next]_vars => [Abstract!Next]_(Abstract!vars)
  <1> SUFFICES ASSUME AofInv, AofInv', [Next]_vars
               PROVE  Abstract!Next \/ UNCHANGED Abstract!vars
    OBVIOUS
  <1>0. TypeOK /\ Control /\ FileIsPrefix /\ NothingLost
    BY DEF AofInv
  <1>1. Saved = Gained /\ Gained \in 0 .. Len(accepted)
    BY <1>0, SavedIsGained
  <1>2. Saved' = Gained' /\ Gained' \in 0 .. Len(accepted')
    BY SavedIsGainedNext DEF AofInv
  <1>3. Len(file) \in Nat /\ Len(base) \in Nat /\ Len(accepted) \in Nat
    BY <1>0 DEF TypeOK
  <1> DEFINE Up == server \notin {"stopped", "crashed"}
             Goal == Abstract!Next \/ UNCHANGED Abstract!vars
  \* Steps in which nothing is logged and nothing reaches the file.
  <1>4. ASSUME UNCHANGED <<file, base, accepted>>,
               server' = server \/ (Up /\ server' \notin {"stopped", "crashed"})
        PROVE  Goal
    <2>1. Saved' = Saved
      BY <1>4 DEF Saved
    <2> QED
      BY <1>4, <2>1 DEF Abstract!vars
  \* Steps in which something may reach the file.
  <1>5. ASSUME Up, UNCHANGED <<base, accepted, server>>, Next PROVE Goal
    <2>1. PICK rest \in Seq(Half) : file' = file \o rest
      BY <1>0, <1>5, FileGrows
    <2>2. Len(file') = Len(file) + Len(rest) /\ Len(rest) \in Nat
      BY <1>0, <2>1, ConcatProperties DEF TypeOK
    <2>3. Gained' \in Gained .. Len(accepted)
      BY <1>1, <1>2, <1>3, <1>5, <2>2 DEF Gained
    <2>4. Abstract!Save
      BY <1>1, <1>2, <1>5, <2>3 DEF Abstract!Save
    <2> QED
      BY <2>4 DEF Abstract!Next
  <1>6. ASSUME NEW p \in Conns, Send(p) PROVE Goal
    <2>1. Up
      BY <1>0, <1>6 DEF Send, TypeOK, Control
    <2>2. <<p, seq[p] + 1>> \in Conns \X (1 .. MaxAppends)
      <3>1. seq[p] \in Nat /\ seq[p] < MaxAppends
        BY <1>0, <1>6 DEF Send, TypeOK, Control
      <3>2. seq[p] + 1 \in 1 .. MaxAppends
        BY <3>1, AofBoundsAssumption
      <3> QED
        BY <3>2
    <2>3. Saved' = Saved
      BY <1>1, <1>2, <1>6 DEF Send, Gained
    <2>4. accepted' = Append(accepted, <<p, seq[p] + 1>>) /\ server' = server
      BY <1>6 DEF Send
    <2>5. Abstract!Log
      BY <2>1, <2>2, <2>3, <2>4 DEF Abstract!Log
    <2> QED
      BY <2>5 DEF Abstract!Next
  <1>7. ASSUME NEW p \in Conns, Size(p) PROVE Goal
    <2>1. Up
      BY <1>0, <1>7 DEF Size, Control
    <2> QED
      BY <1>5, <1>7, <2>1 DEF Size, Next
  <1>8. ASSUME NEW p \in Conns, Accept(p) \/ Call(p) \/ Leave(p) PROVE Goal
    BY <1>4, <1>8 DEF Accept, Call, Leave
  <1>9. CASE Receive
    BY <1>4, <1>9 DEF Receive
  <1>10. CASE Write \/ FlushIfDrained \/ FinalFlush
    <2>1. Up
      BY <1>0, <1>10 DEF Write, FlushIfDrained, FinalFlush, Control
    <2> QED
      BY <1>5, <1>10, <2>1 DEF Write, FlushIfDrained, FinalFlush, Next, Writer
  <1>11. CASE Shutdown \/ CloseChannel
    BY <1>4, <1>11 DEF Shutdown, CloseChannel
  <1>12. CASE CloseFile
    <2>1. file = base \o Halves(accepted)
      BY <1>0, <1>12, StoppedFile DEF CloseFile
    <2>2. Len(file) = Len(base) + 2 * Len(accepted)
      <3>1. /\ base \in Seq(Half) /\ Halves(accepted) \in Seq(Half)
            /\ Len(Halves(accepted)) = 2 * Len(accepted)
        BY <1>0, HalvesType DEF TypeOK
      <3> QED
        BY <2>1, <3>1, ConcatParts
    <2>3. Gained = Len(accepted)
      BY <1>3, <2>2 DEF Gained
    <2>4. Saved' = Saved
      BY <1>12 DEF CloseFile, Saved
    <2>5. Abstract!Stop
      BY <1>1, <1>12, <2>3, <2>4 DEF CloseFile, Abstract!Stop
    <2> QED
      BY <2>5 DEF Abstract!Next
  <1>13. CASE Crash
    <2>1. Saved' = Saved
      BY <1>13 DEF Crash, Saved
    <2>2. Abstract!Crash
      BY <1>13, <2>1 DEF Crash, Abstract!Crash
    <2> QED
      BY <2>2 DEF Abstract!Next
  <1>14. CASE Restart
    <2>1. Gained' = 0
      BY <1>3, <1>14 DEF Restart, Gained
    <2>2. Abstract!Start
      BY <1>2, <1>14, <2>1 DEF Restart, Abstract!Start
    <2> QED
      BY <2>2 DEF Abstract!Next
  <1>15. CASE UNCHANGED vars
    BY <1>4, <1>15 DEF vars
  <1> HIDE DEF Goal
  <1> QED
    BY <1>6, <1>7, <1>8, <1>9, <1>10, <1>11, <1>12, <1>13, <1>14, <1>15
    DEF Next, Writer, Goal

\* Channel, writer, buffer and file together implement the abstract log: the
\* file never loses a command it holds, Close ends with all of them there, and
\* a crash keeps exactly the prefix that had reached the file.
THEOREM LogImplementsCommandLog == Spec => ImplementsCommandLog
  BY InitImplements, NextImplements, AofInvariant, PTL
  DEF Spec, ImplementsCommandLog, Abstract!Spec
============================================================================
