---------------------------- MODULE ReaderProofs ----------------------------
(***************************************************************************)
(* Theorems about what a subscribed client reads, on top of the invariant  *)
(* of the server: confirmations come first, and no message comes twice.    *)
(***************************************************************************)
EXTENDS ServerProofs

----------------------------------------------------------------------------
(* Confirmations before messages *)

\* The confirmations of subscriptions to ch, of the first n things sent.
Confirmed(o, ch, n) == {i \in 1 .. n : o[i][1] = "subscribe" /\ o[i][2] = ch}

\* ConfirmedFirst, for the things o that one client was sent.
First(o) ==
  \A j \in 1 .. Len(o) : IsMessage(o[j]) =>
     Cardinality(Confirmed(o, o[j][3][2], j)) >= o[j][3][3]

\* A subscription to ch that is registered and not yet confirmed.
Pending(c, ch) == IF h[c].pc = "confirm" /\ Head(h[c].cmd.args) = ch THEN 1 ELSE 0

\* Every subscription that a connected client made was confirmed, or is pending.
ConfirmOK(c) ==
  Running /\ c \in up => \A ch \in Channels :
     Cardinality(Confirmed(out[c], ch, Len(out[c]))) + Pending(c, ch)
        = Cardinality(Made(dl, c, ch))

ConfirmInv == \A c \in Conns : ConfirmOK(c) /\ First(out[c])

LEMMA ConfirmedType ==
  ASSUME NEW o, NEW ch, NEW n \in Nat
  PROVE  IsFiniteSet(Confirmed(o, ch, n)) /\ Cardinality(Confirmed(o, ch, n)) \in Nat
  <1>1. IsFiniteSet(1 .. n) /\ Confirmed(o, ch, n) \subseteq 1 .. n
    BY FS_Interval DEF Confirmed
  <1>2. IsFiniteSet(Confirmed(o, ch, n))
    BY <1>1, FS_Subset
  <1> QED
    BY <1>2, FS_CardinalityType

\* One more thing is sent.
LEMMA ConfirmedGrow ==
  ASSUME NEW o \in Seq(Thing), NEW x \in Thing, NEW ch
  PROVE  /\ \A n \in 0 .. Len(o) : Confirmed(Append(o, x), ch, n) = Confirmed(o, ch, n)
         /\ x[1] = "subscribe" /\ x[2] = ch
               => Cardinality(Confirmed(Append(o, x), ch, Len(o) + 1))
                    = Cardinality(Confirmed(o, ch, Len(o))) + 1
         /\ ~(x[1] = "subscribe" /\ x[2] = ch)
               => Confirmed(Append(o, x), ch, Len(o) + 1) = Confirmed(o, ch, Len(o))
  <1> DEFINE p == Append(o, x)
             N == Len(o)
  <1>1. N \in Nat /\ p[N + 1] = x /\ \A i \in 1 .. N : p[i] = o[i]
    OBVIOUS
  <1> HIDE DEF p, N
  <1>2. \A n \in 0 .. N : Confirmed(p, ch, n) = Confirmed(o, ch, n)
    BY <1>1 DEF Confirmed
  <1>3. ASSUME x[1] = "subscribe", x[2] = ch
        PROVE  Cardinality(Confirmed(p, ch, N + 1)) = Cardinality(Confirmed(o, ch, N)) + 1
    <2>1. Confirmed(p, ch, N + 1) = Confirmed(o, ch, N) \cup {N + 1}
      BY <1>1, <1>3 DEF Confirmed
    <2>2. N + 1 \notin Confirmed(o, ch, N)
      BY <1>1 DEF Confirmed
    <2>3. IsFiniteSet(Confirmed(o, ch, N))
      BY <1>1, ConfirmedType
    <2> QED
      BY <2>1, <2>2, <2>3, FS_AddElement
  <1>4. ASSUME ~(x[1] = "subscribe" /\ x[2] = ch)
        PROVE  Confirmed(p, ch, N + 1) = Confirmed(o, ch, N)
    BY <1>1, <1>4 DEF Confirmed
  <1> QED
    BY <1>2, <1>3, <1>4 DEF p, N

LEMMA FirstGrow ==
  ASSUME NEW o \in Seq(Thing), NEW x \in Thing, First(o),
         IsMessage(x) => Cardinality(Confirmed(o, x[3][2], Len(o))) >= x[3][3]
  PROVE  First(Append(o, x))
  <1> DEFINE p == Append(o, x)
             N == Len(o)
  <1>1. N \in Nat /\ Len(p) = N + 1 /\ p[N + 1] = x /\ \A i \in 1 .. N : p[i] = o[i]
    OBVIOUS
  <1>2. /\ \A ch : \A n \in 0 .. N : Confirmed(p, ch, n) = Confirmed(o, ch, n)
        /\ IsMessage(x) => Confirmed(p, x[3][2], N + 1) = Confirmed(o, x[3][2], N)
    BY ConfirmedGrow DEF IsMessage
  <1> HIDE DEF p, N
  <1>3. SUFFICES ASSUME NEW j \in 1 .. N + 1, IsMessage(p[j])
                 PROVE  Cardinality(Confirmed(p, p[j][3][2], j)) >= p[j][3][3]
    BY <1>1 DEF First, p
  <1>4. CASE j = N + 1
    BY <1>1, <1>2, <1>3, <1>4 DEF N
  <1>5. CASE j # N + 1
    <2>1. j \in 1 .. N /\ j \in 0 .. N /\ p[j] = o[j]
      BY <1>1, <1>5
    <2>2. Cardinality(Confirmed(o, o[j][3][2], j)) >= o[j][3][3]
      BY <1>3, <2>1 DEF First, N
    <2> QED
      BY <1>2, <2>1, <2>2
  <1> QED
    BY <1>4, <1>5

LEMMA MadeFinite ==
  ASSUME NEW d, NEW c \in Conns, NEW ch
  PROVE  IsFiniteSet(Made(d, c, ch))
  <1> DEFINE I == 1 .. MaxSubs[c]
             f == [n \in I |-> <<c, ch, n>>]
             T == {f[n] : n \in I}
  <1>1. IsFiniteSet(I)
    BY MaxSubsAssumption, FS_Interval
  <1>2. f \in Surjection(I, T)
    BY DEF Surjection
  <1>3. Made(d, c, ch) \subseteq T
    BY SubscriptionIs DEF Made
  <1> HIDE DEF I, f, T
  <1>4. IsFiniteSet(T)
    BY <1>1, <1>2, FS_Surjection
  <1> QED
    BY <1>3, <1>4, FS_Subset

LEMMA ConfirmSame ==
  ASSUME NEW c \in Conns, ConfirmOK(c), First(out[c]),
         out'[c] = out[c] \/ (c \notin up' /\ out'[c] = <<>>),
         Running' /\ c \in up' => /\ Running /\ c \in up
                                  /\ \A ch \in Channels : Pending(c, ch)' = Pending(c, ch)
                                  /\ \A s \in Subscription : s[1] = c =>
                                        (dl'[s] = "off" <=> dl[s] = "off")
  PROVE  ConfirmOK(c)' /\ First(out'[c])
  <1>1. First(out'[c])
    BY DEF First
  <1>2. ConfirmOK(c)'
    <2> SUFFICES ASSUME Running', c \in up', NEW ch \in Channels
                 PROVE  Cardinality(Confirmed(out'[c], ch, Len(out'[c]))) + Pending(c, ch)'
                          = Cardinality(Made(dl', c, ch))
      BY DEF ConfirmOK
    <2>1. Made(dl', c, ch) = Made(dl, c, ch)
      BY DEF Made
    <2> QED
      BY <2>1 DEF ConfirmOK
  <1> QED
    BY <1>1, <1>2

LEMMA ConfirmStep ==
  ASSUME ServerInv, ConfirmInv, Next, NEW d \in Conns
  PROVE  ConfirmOK(d)' /\ First(out'[d])
  <1>0. /\ TypeOK /\ HistoryType /\ \A c \in Conns : HandlerOK(c)
        /\ dl \in [Subscription -> {"off", "recv", "lock", "push", "ended"}]
        /\ out \in [Conns -> Seq(Thing)] /\ NumbersOK
        /\ ConfirmOK(d) /\ First(out[d])
    BY InvParts DEF TypeOK, HistoryType, ConfirmInv
  <1>1. ASSUME NEW c \in Conns, Quiet(c), ~Confirm(c) PROVE ConfirmOK(d)' /\ First(out'[d])
    <2>1. /\ out' = out /\ dl' = dl /\ run' = run /\ up' \subseteq up /\ Passes(c)
      BY <1>1, QuietElse, QuietPasses DEF delivery
    <2>2. h[c].pc # "confirm" /\ h'[c].pc # "confirm"
      BY <1>1, <2>1 DEF Passes, Quiet, Accept, Start, ReadCommand, ReadError, NotAllowed, Ping,
           SubscribeStart, AlreadySubscribed, UnsubscribeStart, PublishStart, Published, Flush,
           Dispatch, At
    <2>3. \A ch : Pending(d, ch)' = Pending(d, ch)
      BY <2>1, <2>2 DEF Passes, Pending
    <2> QED
      BY <1>0, <2>1, <2>3, ConfirmSame DEF Running
  <1>2. ASSUME NEW c \in Conns, Confirm(c) PROVE ConfirmOK(d)' /\ First(out'[d])
    <2>0. Quiet(c)
      BY <1>2 DEF Quiet
    <2>1. /\ dl' = dl /\ run' = run /\ up' = up /\ Passes(c)
          /\ out' = Written(c, <<"subscribe", Head(h[c].cmd.args)>>)
          /\ h[c].pc = "confirm" /\ h[c].cmd.args # <<>> /\ h[c].cmd.args \in Seq(Channels)
      BY <1>0, <1>2, <2>0, QuietPasses, ServerTypes
      DEF Confirm, At, delivery, peers, HandlerOK, ArgsOK
    <2> DEFINE ch0 == Head(h[c].cmd.args)
               x == <<"subscribe", ch0>>
    <2>2. x \in Thing /\ ~IsMessage(x) /\ x[1] = "subscribe" /\ x[2] = ch0 /\ ch0 \in Channels
      BY <2>1, Arguments DEF Thing, IsMessage
    <2>3. CASE d # c \/ c \notin up
      <3>1. out'[d] = out[d]
        BY <1>0, <2>1, <2>3 DEF Written
      <3>2. d \in up => \A ch : Pending(d, ch)' = Pending(d, ch)
        BY <2>1, <2>3 DEF Passes, Pending
      <3> QED
        BY <1>0, <2>1, <3>1, <3>2, ConfirmSame DEF Running
    <2>4. CASE d = c /\ c \in up
      <3> HIDE DEF x, ch0
      <3> DEFINE o == out[c]
                 p == Append(o, x)
      <3>1. out'[c] = p /\ o \in Seq(Thing) /\ Len(o) \in Nat /\ Len(p) = Len(o) + 1
        BY <1>0, <2>1, <2>2, <2>4 DEF Written, x, ch0
      <3> HIDE DEF o
      <3>2. First(p)
        BY <1>0, <2>2, <2>4, <3>1, FirstGrow DEF o
      <3>3. ASSUME Running', NEW ch \in Channels
            PROVE  Cardinality(Confirmed(p, ch, Len(o) + 1)) + Pending(c, ch)'
                      = Cardinality(Made(dl', c, ch))
        <4>1. Cardinality(Confirmed(o, ch, Len(o))) + Pending(c, ch) = Cardinality(Made(dl, c, ch))
          BY <1>0, <2>1, <2>4, <3>3 DEF ConfirmOK, o, Running
        <4>2. Pending(c, ch)' = 0 /\ Pending(c, ch) = IF ch = ch0 THEN 1 ELSE 0
          BY <2>1 DEF Passes, Pending, ch0
        <4>3. Cardinality(Confirmed(o, ch, Len(o))) \in Nat
          BY <3>1, ConfirmedType
        <4>4. CASE ch = ch0
          <5>1. Cardinality(Confirmed(p, ch, Len(o) + 1)) = Cardinality(Confirmed(o, ch, Len(o))) + 1
            BY <2>2, <3>1, <4>4, ConfirmedGrow
          <5> QED
            BY <2>1, <4>1, <4>2, <4>3, <4>4, <5>1
        <4>5. CASE ch # ch0
          <5>1. Confirmed(p, ch, Len(o) + 1) = Confirmed(o, ch, Len(o))
            BY <2>2, <3>1, <4>5, ConfirmedGrow
          <5> QED
            BY <2>1, <4>1, <4>2, <4>3, <4>5, <5>1
        <4> QED
          BY <4>4, <4>5
      <3> QED
        BY <2>4, <3>1, <3>2, <3>3 DEF ConfirmOK
    <2> QED
      BY <2>3, <2>4
  <1>3. ASSUME NEW c \in Conns, Register(c) PROVE ConfirmOK(d)' /\ First(out'[d])
    <2>1. PICK s : Registers(c, s)
      BY <1>3, RegisterEffect
    <2>2. /\ s \in Subscription /\ s[1] = c /\ s[2] = Head(h[c].cmd.args) /\ dl[s] = "off"
          /\ dl' = [dl EXCEPT ![s] = "recv"] /\ run' = run /\ up' = up /\ out' = out
          /\ h'[c].pc = "confirm" /\ h'[c].cmd = h[c].cmd /\ (d # c => h'[d] = h[d])
          /\ h[c].pc = "subscribe"
      BY <1>3, <2>1 DEF Registers, Becomes, peers, history, Register, At
    <2>3. CASE d # c
      <3>1. \A t \in Subscription : t[1] = d => dl'[t] = dl[t]
        BY <1>0, <2>2, <2>3
      <3>2. \A ch : Pending(d, ch)' = Pending(d, ch)
        BY <2>2, <2>3 DEF Pending
      <3> QED
        BY <1>0, <2>2, <3>1, <3>2, ConfirmSame DEF Running
    <2>4. CASE d = c
      <3>1. ASSUME Running', c \in up', NEW ch \in Channels
            PROVE  Cardinality(Confirmed(out'[c], ch, Len(out'[c]))) + Pending(c, ch)'
                      = Cardinality(Made(dl', c, ch))
        <4>1. Cardinality(Confirmed(out[c], ch, Len(out[c]))) + Pending(c, ch)
                = Cardinality(Made(dl, c, ch))
          BY <1>0, <2>2, <2>4, <3>1 DEF ConfirmOK, Running
        <4>2. Pending(c, ch) = 0 /\ Pending(c, ch)' = IF ch = s[2] THEN 1 ELSE 0
          BY <2>2 DEF Pending
        <4>3. Cardinality(Confirmed(out[c], ch, Len(out[c]))) \in Nat
          <5>1. Len(out[c]) \in Nat
            BY <1>0
          <5> QED
            BY <5>1, ConfirmedType
        <4>4. CASE ch = s[2]
          <5>1. Made(dl', c, ch) = Made(dl, c, ch) \cup {s} /\ s \notin Made(dl, c, ch)
            BY <1>0, <2>2, <4>4 DEF Made
          <5>2. IsFiniteSet(Made(dl, c, ch))
            BY <1>0, <3>1, MadeFinite
          <5>3. Cardinality(Made(dl', c, ch)) = Cardinality(Made(dl, c, ch)) + 1
            BY <5>1, <5>2, FS_AddElement
          <5> QED
            BY <2>2, <4>1, <4>2, <4>3, <4>4, <5>3
        <4>5. CASE ch # s[2]
          <5>1. Made(dl', c, ch) = Made(dl, c, ch)
            BY <1>0, <2>2, <4>5 DEF Made
          <5> QED
            BY <2>2, <4>1, <4>2, <4>3, <4>5, <5>1
        <4> QED
          BY <4>4, <4>5
      <3> QED
        BY <1>0, <2>2, <2>4, <3>1 DEF ConfirmOK
    <2> QED
      BY <2>3, <2>4
  <1>4. ASSUME NEW c \in Conns, Unregister(c) \/ Cleanup(c) \/ PublishSend(c)
        PROVE  ConfirmOK(d)' /\ First(out'[d])
    <2>1. UNCHANGED <<dl, run, up, out>> /\ h[c].pc \in {"unsubscribe", "cleanup", "publish"}
      BY <1>4 DEF Unregister, Cleanup, PublishSend, delivery, peers, history, At
    <2>2. /\ h'[c].pc \in {"unsubscribe", "cleanup", "publish", "flush"}
          /\ d # c => h'[d] = h[d]
      <3>1. d # c => h'[d] = h[d]
        BY <1>4, StillCounted
      <3>2. h'[c].pc \in {"unsubscribe", "cleanup", "publish", "flush"}
        BY <1>0, <1>4, <2>1, UnregisterEffect, CleanupEffect, SendEffect DEF Becomes, Onward
      <3> QED
        BY <3>1, <3>2
    <2>3. \A ch : Pending(d, ch)' = Pending(d, ch)
      BY <2>1, <2>2 DEF Pending
    <2> QED
      BY <1>0, <2>1, <2>3, ConfirmSame DEF Running
  <1>5. ASSUME NEW c \in Conns, PublishPanics(c) PROVE ConfirmOK(d)' /\ First(out'[d])
    BY <1>0, <1>5, PanicLeaves DEF ConfirmOK
  <1>6. ASSUME NEW c \in Conns, Return(c) \/ HangUp(c) PROVE ConfirmOK(d)' /\ First(out'[d])
    <2>1. UNCHANGED <<dl, run>> /\ Closed(c) /\ (d # c => h'[d] = h[d])
      BY <1>0, <1>6, ReturnEffect DEF Return, HangUp, delivery, Becomes
    <2>2. CASE d = c
      <3>1. d \notin up' /\ out'[d] = <<>>
        BY <1>0, <2>1, <2>2 DEF Closed
      <3> QED
        BY <1>0, <3>1, ConfirmSame
    <2>3. CASE d # c
      <3>1. out'[d] = out[d] /\ (d \in up' => d \in up) /\ (Running' => Running)
        BY <1>0, <2>1, <2>3 DEF Closed, Running
      <3>2. \A ch : Pending(d, ch)' = Pending(d, ch)
        BY <2>1, <2>3 DEF Pending
      <3> QED
        BY <1>0, <2>1, <3>1, <3>2, ConfirmSame
    <2> QED
      BY <2>2, <2>3
  <1>7. ASSUME NEW s \in Subscription, Push(s) PROVE ConfirmOK(d)' /\ First(out'[d])
    <2>1. /\ h' = h /\ run' = run /\ up' = up /\ Running /\ dl[s] = "push"
          /\ dl' = [dl EXCEPT ![s] = "recv"]
          /\ out' = Written(s[1], <<"message", hand[s][1], s>>)
      BY <1>7 DEF Push, peers
    <2> DEFINE x == <<"message", hand[s][1], s>>
    <2>2. x \in Thing /\ IsMessage(x) /\ x[1] = "message" /\ x[3] = s
      <3>1. hand[s] \in Seq(Message) /\ Len(hand[s]) = 1
        BY <2>1, InvParts DEF DeliveryOK, TypeOK
      <3>2. hand[s][1] \in Message
        BY <3>1
      <3> QED
        BY <3>2 DEF Thing, IsMessage
    <2>3. out' = Written(s[1], x)
      BY <2>1
    <2> HIDE DEF x
    <2>4. \A ch : Pending(d, ch)' = Pending(d, ch)
      BY <2>1 DEF Pending
    <2>5. \A t \in Subscription : dl'[t] = "off" <=> dl[t] = "off"
      BY <1>0, <2>1
    <2>6. CASE d # s[1] \/ d \notin up
      <3>1. out'[d] = out[d]
        BY <1>0, <2>3, <2>6 DEF Written
      <3> QED
        BY <1>0, <2>1, <2>4, <2>5, <3>1, ConfirmSame
    <2>7. CASE d = s[1] /\ d \in up
      <3> DEFINE o == out[d]
                 p == Append(o, x)
      <3>1. out'[d] = p /\ o \in Seq(Thing) /\ Len(o) \in Nat /\ Len(p) = Len(o) + 1
        BY <1>0, <2>2, <2>3, <2>7 DEF Written
      <3> HIDE DEF o
      <3>2. \A ch : Confirmed(p, ch, Len(o) + 1) = Confirmed(o, ch, Len(o))
        BY <2>2, <3>1, ConfirmedGrow
      <3>3. \A ch \in Channels : Cardinality(Confirmed(o, ch, Len(o))) + Pending(d, ch)
                                    = Cardinality(Made(dl, d, ch))
        BY <1>0, <2>1, <2>7 DEF ConfirmOK, o
      <3>4. \A ch : Pending(d, ch) = 0
        <4>1. h[d].pc # "confirm"
          BY <2>1, <2>7, InvParts DEF WriterOK, Writing
        <4> QED
          BY <4>1 DEF Pending
      <3>5. Cardinality(Confirmed(o, s[2], Len(o))) >= s[3]
        <4>1. /\ s = <<d, s[2], s[3]>> /\ s[2] \in Channels /\ s[3] \in 1 .. MaxSubs[d]
          BY <2>7, SubscriptionIs
        <4>2. s[3] <= Cardinality(Made(dl, d, s[2])) /\ Cardinality(Made(dl, d, s[2])) \in Nat
          BY <1>0, <2>1, <4>1, Numbering DEF NumbersOK
        <4>3. Cardinality(Confirmed(o, s[2], Len(o))) \in Nat
          BY <3>1, ConfirmedType
        <4>4. Cardinality(Confirmed(o, s[2], Len(o))) + 0 = Cardinality(Made(dl, d, s[2]))
          BY <3>3, <3>4, <4>1
        <4>5. s[3] \in Nat
          BY <4>1
        <4> QED
          BY <4>2, <4>3, <4>4, <4>5
      <3>6. First(p)
        BY <1>0, <2>2, <3>1, <3>5, FirstGrow DEF o
      <3>7. \A ch : Made(dl', d, ch) = Made(dl, d, ch)
        BY <2>5 DEF Made
      <3>8. ConfirmOK(d)'
        BY <2>4, <3>1, <3>2, <3>3, <3>7 DEF ConfirmOK
      <3> QED
        BY <3>1, <3>6, <3>8
    <2> QED
      BY <2>6, <2>7
  <1>8. ASSUME \/ \E c \in Conns : Stall(c)
               \/ \E s \in Subscription : Take(s) \/ LockWriter(s) \/ Finish(s)
               \/ Shutdown \/ CloseListener \/ Stop
        PROVE  ConfirmOK(d)' /\ First(out'[d])
    <2>1. /\ UNCHANGED <<h, up, out>> /\ (Running' => Running)
          /\ \A t \in Subscription : dl'[t] = "off" <=> dl[t] = "off"
      BY <1>0, <1>8 DEF Stall, Take, LockWriter, Finish, Shutdown, CloseListener, Stop, sessions, peers, history,
                        delivery, Running
    <2>2. \A ch : Pending(d, ch)' = Pending(d, ch)
      BY <2>1 DEF Pending
    <2> QED
      BY <1>0, <2>1, <2>2, ConfirmSame
  <1> QED
    BY <1>1, <1>2, <1>3, <1>4, <1>5, <1>6, <1>7, <1>8, Steps DEF Delivery

LEMMA ConfirmInit ==
  ASSUME Init
  PROVE  ConfirmInv
  <1> SUFFICES ASSUME NEW c \in Conns PROVE ConfirmOK(c) /\ First(out[c])
    BY DEF ConfirmInv
  <1>1. out[c] = <<>> /\ Len(out[c]) = 0 /\ h[c].pc = "none" /\ dl = [s \in Subscription |-> "off"]
    BY DEF Init, Idle
  <1>2. ASSUME NEW ch
        PROVE  Confirmed(out[c], ch, Len(out[c])) = {} /\ Made(dl, c, ch) = {} /\ Pending(c, ch) = 0
    BY <1>1 DEF Confirmed, Made, Pending
  <1>3. ASSUME NEW ch
        PROVE  Cardinality(Confirmed(out[c], ch, Len(out[c]))) = 0 /\ Cardinality(Made(dl, c, ch)) = 0
    BY <1>2, FS_EmptySet, Zenon
  <1>4. ConfirmOK(c)
    <2>1. ASSUME NEW ch
          PROVE  Cardinality(Confirmed(out[c], ch, Len(out[c]))) + Pending(c, ch)
                    = Cardinality(Made(dl, c, ch))
      BY <1>2, <1>3
    <2> QED
      BY <2>1 DEF ConfirmOK
  <1>5. First(out[c])
    BY <1>1 DEF First
  <1> QED
    BY <1>4, <1>5

LEMMA ConfirmNext ==
  ASSUME ServerInv, ConfirmInv, [Next]_vars
  PROVE  ConfirmInv'
  <1>1. CASE Next
    BY <1>1, ConfirmStep DEF ConfirmInv
  <1>2. CASE UNCHANGED vars
    <2>1. UNCHANGED <<run, up, out, dl, h>>
      BY <1>2 DEF vars, sessions, peers, history, delivery
    <2>2. ASSUME NEW c \in Conns PROVE ConfirmOK(c)' /\ First(out'[c])
      BY <2>1, ConfirmSame DEF ConfirmInv, Running, Pending
    <2> QED
      BY <2>2 DEF ConfirmInv
  <1> QED
    BY <1>1, <1>2

(***************************************************************************)
(* Whatever the interleaving of Publish, of the handler that subscribes    *)
(* and of the delivery goroutines: when a client reads a message that came *)
(* by its k-th subscription to a channel, it has read k confirmations of   *)
(* subscriptions to that channel.                                          *)
(***************************************************************************)
THEOREM ConfirmationsComeFirst == Spec => []ConfirmedFirst
  <1>1. ServerInv /\ ConfirmInv => ConfirmedFirst
    <2> SUFFICES ASSUME ServerInv, ConfirmInv, NEW c \in Conns, NEW j \in DOMAIN out[c],
                        IsMessage(out[c][j])
                 PROVE  Cardinality({i \in 1 .. j : /\ out[c][i][1] = "subscribe"
                                                    /\ out[c][i][2] = out[c][j][3][2]})
                          >= out[c][j][3][3]
      BY DEF ConfirmedFirst
    <2>1. out[c] \in Seq(Thing)
      BY InvParts DEF HistoryType
    <2>2. j \in 1 .. Len(out[c])
      BY <2>1
    <2>3. Cardinality(Confirmed(out[c], out[c][j][3][2], j)) >= out[c][j][3][3]
      BY <2>2 DEF ConfirmInv, First
    <2> QED
      BY <2>3 DEF Confirmed
  <1> QED
    BY <1>1, ConfirmInit, ConfirmNext, ServerInvariant, PTL DEF Spec

----------------------------------------------------------------------------
(* No message twice *)

\* ReadOnce, for the things o that one client was sent.
Once(o) ==
  \A i, j \in 1 .. Len(o) : IsMessage(o[i]) /\ IsMessage(o[j]) /\ o[i][2] = o[j][2] => i = j

\* The messages that client c was sent came by its own subscriptions.
Addressed(o, c) == \A j \in 1 .. Len(o) : IsMessage(o[j]) => o[j][3][1] = c

\* No message was taken twice by the Go channels of one client.
TakenOnce(a) ==
  \A s, t \in Subscription : s[1] = t[1] =>
     \A i \in 1 .. Len(a[s]), j \in 1 .. Len(a[t]) : a[s][i] = a[t][j] => s = t /\ i = j

\* Publish has at most one subscription of each client left to send to.
TargetsOK(c) == h[c].pc = "publish" => \A s, t \in h[c].targets : s[1] = t[1] => s = t

(***************************************************************************)
(* A message m that subscription s took is of an earlier command of its    *)
(* publisher, or of the one that is executed; then no subscription of the  *)
(* same client is left to send to.                                         *)
(***************************************************************************)
Past(m, s) ==
  h[m[1]].pc # "done" =>
     /\ m[2] <= h[m[1]].sent
     /\ h[m[1]].pc = "want" => m[2] < h[m[1]].sent
     /\ h[m[1]].pc = "publish" /\ m[2] = h[m[1]].sent
           => \A t \in h[m[1]].targets : t[1] # s[1]

SentOK(s) == Running => \A i \in 1 .. Len(accepted[s]) : Past(accepted[s][i], s)

OnceInv ==
  /\ \A c \in Conns : Once(out[c]) /\ Addressed(out[c], c) /\ TargetsOK(c)
  /\ TakenOnce(accepted)
  /\ \A s \in Subscription : SentOK(s)

\* Every message among the things o is listed by Messages.
LEMMA MessagesList ==
  ASSUME NEW o \in Seq(Thing), NEW j \in 1 .. Len(o), IsMessage(o[j])
  PROVE  \E i \in 1 .. Len(Messages(o, o[j][3])) : Messages(o, o[j][3])[i] = o[j][2]
  <1> DEFINE s == o[j][3]
             m == o[j][2]
             N == Len(o)
  <1>0. N \in Nat /\ o[j] \in Thing /\ j \in 1 .. N
    OBVIOUS
  <1>1. m \in Message /\ \A n \in 1 .. N : IsMessage(o[n]) => o[n][2] \in Message
    BY DEF IsMessage, Thing
  <1>2. PICK f : Unfolds(f, o, s)
    BY MessagesDef
  <1>3. /\ f \in [0 .. N -> Seq(Message)] /\ Messages(o, s) = f[N]
        /\ \A n \in 1 .. N : f[n] = IF IsMessage(o[n]) /\ o[n][3] = s
                                    THEN Append(f[n - 1], o[n][2]) ELSE f[n - 1]
    BY <1>2 DEF Unfolds
  <1> DEFINE Has(q) == \E i \in 1 .. Len(q) : q[i] = m
             S == {n \in 0 .. N : n >= j => Has(f[n])}
  <1> HIDE DEF s, m, N
  <1>4. 0 \in S
    BY <1>0
  <1>5. ASSUME NEW n \in 1 .. N, n - 1 \in S PROVE n \in S
    <2>1. n - 1 \in 0 .. N /\ n \in 0 .. N /\ f[n - 1] \in Seq(Message) /\ j \in 1 .. N
      BY <1>0, <1>3
    <2>2. CASE n = j
      <3>1. f[n] = Append(f[n - 1], m) /\ m \in Message
        BY <1>1, <1>3, <2>2 DEF s, m
      <3>2. Len(f[n]) = Len(f[n - 1]) + 1 /\ f[n][Len(f[n - 1]) + 1] = m /\ Len(f[n - 1]) \in Nat
        BY <2>1, <3>1
      <3>3. Has(f[n])
        BY <3>2
      <3> QED
        BY <2>1, <3>3
    <2>3. CASE n > j
      <3>1. Has(f[n - 1])
        BY <1>5, <2>1, <2>3
      <3>2. PICK i \in 1 .. Len(f[n - 1]) : f[n - 1][i] = m
        BY <3>1
      <3>3. f[n] = f[n - 1] \/ \E x \in Message : f[n] = Append(f[n - 1], x)
        BY <1>1, <1>3
      <3>4. ASSUME NEW x \in Message, f[n] = Append(f[n - 1], x)
            PROVE  i \in 1 .. Len(f[n]) /\ f[n][i] = m
        BY <2>1, <3>2, <3>4
      <3>5. Has(f[n])
        BY <3>2, <3>3, <3>4
      <3> QED
        BY <2>1, <3>5
    <2>4. CASE n < j
      BY <2>1, <2>4
    <2> QED
      BY <2>1, <2>2, <2>3, <2>4
  <1> HIDE DEF S
  <1>6. 0 .. N \subseteq S
    BY <1>0, <1>4, <1>5, Induction
  <1>7. N \in 0 .. N /\ N >= j
    BY <1>0
  <1>8. Has(f[N])
    BY <1>6, <1>7 DEF S
  <1> QED
    BY <1>3, <1>8 DEF s, m, N

LEMMA OnceGrow ==
  ASSUME NEW o \in Seq(Thing), NEW x \in Thing, NEW c, Once(o), Addressed(o, c),
         IsMessage(x) => /\ x[3][1] = c
                         /\ \A j \in 1 .. Len(o) : IsMessage(o[j]) => o[j][2] # x[2]
  PROVE  Once(Append(o, x)) /\ Addressed(Append(o, x), c)
  <1> DEFINE p == Append(o, x)
             N == Len(o)
  <1>1. N \in Nat /\ Len(p) = N + 1 /\ p[N + 1] = x /\ \A i \in 1 .. N : p[i] = o[i]
    OBVIOUS
  <1>2. \A i \in 1 .. N + 1 : i = N + 1 \/ i \in 1 .. N
    BY <1>1
  <1> HIDE DEF p
  <1>3. Addressed(p, c)
    BY <1>1, <1>2 DEF Addressed
  <1>4. Once(p)
    BY <1>1, <1>2 DEF Once
  <1> QED
    BY <1>3, <1>4 DEF p

\* A subscription takes a new message.
LEMMA TakenGrow ==
  ASSUME NEW a \in [Subscription -> Seq(Message)], NEW s \in Subscription, NEW m \in Message,
         TakenOnce(a),
         \A t \in Subscription : t[1] = s[1] => \A j \in 1 .. Len(a[t]) : a[t][j] # m
  PROVE  TakenOnce([a EXCEPT ![s] = Append(a[s], m)])
  <1> DEFINE b == [a EXCEPT ![s] = Append(a[s], m)]
             N == Len(a[s])
  <1>1. /\ N \in Nat /\ Len(b[s]) = N + 1 /\ b[s][N + 1] = m /\ \A i \in 1 .. N : b[s][i] = a[s][i]
        /\ \A t \in Subscription : t # s => b[t] = a[t]
    OBVIOUS
  <1>2. \A i \in 1 .. N + 1 : i = N + 1 \/ i \in 1 .. N
    BY <1>1
  <1> HIDE DEF b
  <1>3. SUFFICES ASSUME NEW t \in Subscription, NEW u \in Subscription, t[1] = u[1],
                        NEW i \in 1 .. Len(b[t]), NEW j \in 1 .. Len(b[u]), b[t][i] = b[u][j]
                 PROVE  t = u /\ i = j
    BY DEF TakenOnce, b
  <1>4. CASE t # s /\ u # s
    BY <1>1, <1>3, <1>4 DEF TakenOnce
  <1>5. CASE t = s /\ u # s
    <2>1. CASE i = N + 1
      BY <1>1, <1>3, <1>5, <2>1
    <2>2. CASE i \in 1 .. N
      BY <1>1, <1>3, <1>5, <2>2 DEF TakenOnce
    <2> QED
      BY <1>1, <1>2, <1>3, <1>5, <2>1, <2>2
  <1>6. CASE t # s /\ u = s
    <2>1. CASE j = N + 1
      BY <1>1, <1>3, <1>6, <2>1
    <2>2. CASE j \in 1 .. N
      BY <1>1, <1>3, <1>6, <2>2 DEF TakenOnce
    <2> QED
      BY <1>1, <1>2, <1>3, <1>6, <2>1, <2>2
  <1>7. CASE t = s /\ u = s
    <2>1. CASE i \in 1 .. N /\ j \in 1 .. N
      BY <1>1, <1>3, <1>7, <2>1 DEF TakenOnce
    <2>2. CASE i = N + 1 /\ j \in 1 .. N
      BY <1>1, <1>3, <1>7, <2>2
    <2>3. CASE i \in 1 .. N /\ j = N + 1
      BY <1>1, <1>3, <1>7, <2>3
    <2>4. CASE i = N + 1 /\ j = N + 1
      BY <1>7, <2>4
    <2> QED
      BY <1>1, <1>2, <1>3, <1>7, <2>1, <2>2, <2>3, <2>4
  <1> QED
    BY <1>4, <1>5, <1>6, <1>7

LEMMA JoinedParts ==
  ASSUME NEW r \in Seq(Message), NEW x \in Seq(Message), NEW b \in Seq(Message)
  PROVE  /\ Joined(r, x, b) \in Seq(Message)
         /\ Len(Joined(r, x, b)) = Len(r) + Len(x) + Len(b)
         /\ \A i \in 1 .. Len(r) : Joined(r, x, b)[i] = r[i]
         /\ \A i \in 1 .. Len(x) : Joined(r, x, b)[Len(r) + i] = x[i]
  <1> DEFINE y == r \o x
  <1>1. /\ y \in Seq(Message) /\ Len(y) = Len(r) + Len(x)
        /\ \A i \in 1 .. Len(r) : y[i] = r[i]
        /\ \A i \in 1 .. Len(x) : y[Len(r) + i] = x[i]
    BY ConcatParts
  <1>2. Len(r) \in Nat /\ Len(x) \in Nat /\ Len(b) \in Nat
    OBVIOUS
  <1> HIDE DEF y
  <1>3. /\ y \o b \in Seq(Message) /\ Len(y \o b) = Len(y) + Len(b)
        /\ \A i \in 1 .. Len(y) : (y \o b)[i] = y[i]
    <2>1. y \in Seq(Message)
      BY <1>1
    <2> QED
      BY <2>1, ConcatParts
  <1>4. Joined(r, x, b) = y \o b
    BY DEF Joined, y
  <1> DEFINE z == Joined(r, x, b)
  <1>5. z \in Seq(Message) /\ Len(z) = Len(y) + Len(b) /\ \A i \in 1 .. Len(y) : z[i] = y[i]
    BY <1>3, <1>4
  <1> HIDE DEF z
  <1>6. /\ \A i \in 1 .. Len(r) : i \in 1 .. Len(y)
        /\ \A i \in 1 .. Len(x) : Len(r) + i \in 1 .. Len(y)
    BY <1>1, <1>2
  <1> QED
    BY <1>1, <1>5, <1>6 DEF z

\* The handler of another connection, or one that has taken no new command.
LEMMA PastSame ==
  ASSUME NEW m \in Message, NEW s, Past(m, s), h'[m[1]] = h[m[1]]
  PROVE  Past(m, s)'
  BY DEF Past

LEMMA PastMoves ==
  ASSUME TypeOK, NEW m \in Message, NEW s, Past(m, s), h'[m[1]].sent \in Nat,
         h[m[1]].pc # "done",
         h'[m[1]].sent = IF h'[m[1]].pc = "want" THEN h[m[1]].sent + 1 ELSE h[m[1]].sent,
         h'[m[1]].pc = "publish" =>
            \/ h[m[1]].pc = "want"
            \/ h[m[1]].pc = "publish" /\ h'[m[1]].targets \subseteq h[m[1]].targets
  PROVE  Past(m, s)'
  <1>1. m[1] \in Conns /\ m[2] \in Nat
    BY DEF Message
  <1>2. h[m[1]].sent \in Nat
    BY <1>1, ServerTypes
  <1> QED
    BY <1>1, <1>2 DEF Past

\* What a step does to the publisher of a message that was taken before.
LEMMA PastStep ==
  ASSUME ServerInv, Next, Running', NEW m \in Message, NEW s, Past(m, s)
  PROVE  Past(m, s)'
  <1>0. TypeOK /\ m[1] \in Conns /\ TypeOK'
    BY InvParts, TypeStep DEF Message
  <1>a. h'[m[1]].sent \in Nat
    BY <1>0 DEF TypeOK
  <1>1. ASSUME NEW c \in Conns, Quiet(c) PROVE Past(m, s)'
    <2>1. Passes(c)
      BY <1>1, QuietPasses
    <2>2. CASE m[1] # c
      BY <1>0, <2>1, <2>2, PastSame DEF Passes
    <2>3. CASE m[1] = c
      BY <1>0, <1>a, <2>1, <2>3, PastMoves DEF Passes
    <2> QED
      BY <2>2, <2>3
  <1>2. ASSUME NEW c \in Conns, Register(c) \/ Unregister(c) \/ Cleanup(c) \/ PublishSend(c)
        PROVE  Past(m, s)'
    <2>1. \A d \in Conns : d # c => h'[d] = h[d]
      BY <1>2, StillCounted
    <2>2. /\ h[c].pc # "done" /\ h'[c].sent = h[c].sent /\ h'[c].pc # "want"
          /\ h'[c].pc = "publish" => h[c].pc = "publish" /\ h'[c].targets \subseteq h[c].targets
      <3>1. CASE Register(c)
        <4>1. PICK t : Registers(c, t)
          BY <3>1, RegisterEffect
        <4> QED
          BY <3>1, <4>1 DEF Registers, Becomes, Register, At
      <3>2. CASE Unregister(c)
        <4>1. PICK pc, cmd, sb :
                /\ pc \in {"unsubscribe", "flush"}
                /\ Becomes(c, pc, h[c].sent, cmd, sb, h[c].targets)
          BY <3>2, UnregisterEffect DEF Onward
        <4> QED
          BY <3>2, <4>1 DEF Becomes, Unregister, At
      <3>3. CASE Cleanup(c)
        <4>1. PICK sb : Becomes(c, h[c].pc, h[c].sent, h[c].cmd, sb, h[c].targets)
          BY <1>0, <3>3, CleanupEffect
        <4> QED
          BY <3>3, <4>1 DEF Becomes, Cleanup, At
      <3>4. CASE PublishSend(c)
        <4>1. PICK t : Becomes(c, h[c].pc, h[c].sent, h[c].cmd, h[c].subs, h[c].targets \ {t})
          BY <1>0, <3>4, SendEffect
        <4> QED
          BY <3>4, <4>1 DEF Becomes, PublishSend, At
      <3> QED
        BY <1>2, <3>1, <3>2, <3>3, <3>4
    <2>3. CASE m[1] # c
      BY <1>0, <2>1, <2>3, PastSame
    <2>4. CASE m[1] = c
      BY <1>0, <1>a, <2>2, <2>4, PastMoves
    <2> QED
      BY <2>3, <2>4
  <1>3. ASSUME NEW c \in Conns, PublishPanics(c) PROVE Past(m, s)'
    BY <1>3, PanicLeaves
  <1>4. ASSUME NEW c \in Conns, Return(c) PROVE Past(m, s)'
    <2>1. Becomes(c, "done", 0, NoCommand, {}, {})
      BY <1>0, <1>4, ReturnEffect
    <2>2. CASE m[1] # c
      BY <1>0, <2>1, <2>2, PastSame DEF Becomes
    <2>3. CASE m[1] = c
      BY <2>1, <2>3 DEF Becomes, Past
    <2> QED
      BY <2>2, <2>3
  <1>5. ASSUME h' = h PROVE Past(m, s)'
    BY <1>5, PastSame
  <1> QED
    BY <1>1, <1>2, <1>3, <1>4, <1>5, Steps, OthersLeave

LEMMA TargetsStep ==
  ASSUME ServerInv, OnceInv, Next, NEW d \in Conns
  PROVE  TargetsOK(d)'
  <1>0. TypeOK /\ BrokerOK /\ (\A c \in Conns : HandlerOK(c)) /\ TargetsOK(d)
    BY InvParts DEF OnceInv
  <1>1. ASSUME NEW c \in Conns, Quiet(c) PROVE TargetsOK(d)'
    <2>1. Passes(c)
      BY <1>1, QuietPasses
    <2>2. \A s, t \in subs : s[1] = t[1] /\ s[2] = t[2] => s = t
      BY <1>0, SubscriptionIs DEF BrokerOK, HandlerOK
    <2>3. \A ch : \A s, t \in Targets(ch) : s[1] = t[1] => s = t
      BY <2>2 DEF Targets
    <2> QED
      BY <1>0, <2>1, <2>3 DEF Passes, TargetsOK
  <1>2. ASSUME NEW c \in Conns, PublishSend(c) PROVE TargetsOK(d)'
    <2>1. PICK s : Becomes(c, h[c].pc, h[c].sent, h[c].cmd, h[c].subs, h[c].targets \ {s})
      BY <1>0, <1>2, SendEffect
    <2> QED
      BY <1>0, <2>1 DEF Becomes, TargetsOK
  <1>3. ASSUME NEW c \in Conns, Register(c) PROVE TargetsOK(d)'
    <2>1. PICK s : Registers(c, s)
      BY <1>3, RegisterEffect
    <2> QED
      BY <1>0, <2>1 DEF Registers, Becomes, TargetsOK
  <1>4. ASSUME NEW c \in Conns, Unregister(c) PROVE TargetsOK(d)'
    <2>1. PICK pc, cmd, sb :
            /\ pc \in {"unsubscribe", "flush"}
            /\ Becomes(c, pc, h[c].sent, cmd, sb, h[c].targets)
      BY <1>4, UnregisterEffect DEF Onward
    <2> QED
      BY <1>0, <2>1 DEF Becomes, TargetsOK
  <1>5. ASSUME NEW c \in Conns, Cleanup(c) PROVE TargetsOK(d)'
    <2>1. PICK sb : Becomes(c, h[c].pc, h[c].sent, h[c].cmd, sb, h[c].targets)
      BY <1>0, <1>5, CleanupEffect
    <2> QED
      BY <1>0, <2>1 DEF Becomes, TargetsOK
  <1>6. ASSUME NEW c \in Conns, PublishPanics(c) PROVE TargetsOK(d)'
    BY <1>6, PanicLeaves DEF TargetsOK, Idle
  <1>7. ASSUME NEW c \in Conns, Return(c) PROVE TargetsOK(d)'
    <2>1. Becomes(c, "done", 0, NoCommand, {}, {})
      BY <1>0, <1>7, ReturnEffect
    <2> QED
      BY <1>0, <2>1 DEF Becomes, TargetsOK
  <1>8. ASSUME h' = h PROVE TargetsOK(d)'
    BY <1>0, <1>8 DEF TargetsOK
  <1> QED
    BY <1>1, <1>2, <1>3, <1>4, <1>5, <1>6, <1>7, <1>8, Steps, OthersLeave

\* Publish sends: the message is new to the client.
LEMMA SendOnce ==
  ASSUME ServerInv, OnceInv, NEW c \in Conns, PublishSend(c), Next
  PROVE  TakenOnce(accepted') /\ \A t \in Subscription : SentOK(t)'
  <1>0. /\ TypeOK /\ TargetsOK(c) /\ TakenOnce(accepted) /\ Running /\ h[c].pc = "publish"
        /\ accepted \in [Subscription -> Seq(Message)] /\ \A t \in Subscription : SentOK(t)
    BY InvParts DEF OnceInv, HistoryType, PublishSend, At
  <1>1. PICK s \in h[c].targets :
            /\ Becomes(c, h[c].pc, h[c].sent, h[c].cmd, h[c].subs, h[c].targets \ {s})
            /\ accepted' = IF Room(s) /\ s[1] \in up
                           THEN [accepted EXCEPT ![s] = Append(@, Msg(c))] ELSE accepted
    BY <1>0, SendEffect
  <1>a. PICK m : m = Msg(c)
    OBVIOUS
  <1>2. m \in Message /\ s \in Subscription /\ m[1] = c /\ m[2] = h[c].sent
    BY <1>0, <1>a, MsgType, ServerTypes DEF PublishSend, Msg
  <1>3. ASSUME NEW t \in Subscription, t[1] = s[1], NEW j \in 1 .. Len(accepted[t])
        PROVE  accepted[t][j] # m
    BY <1>0, <1>2, <1>3 DEF SentOK, Past
  <1>4. \A t \in Subscription : \A i \in 1 .. Len(accepted[t]) :
          accepted[t][i] \in Message /\ Past(accepted[t][i], t)
    BY <1>0 DEF SentOK
  <1>5. \A n \in Message, t \in Subscription : Running' /\ Past(n, t) => Past(n, t)'
    BY PastStep
  <1>6. CASE accepted' = accepted
    <2>1. \A t \in Subscription : SentOK(t)'
      BY <1>4, <1>5, <1>6 DEF SentOK
    <2> QED
      BY <1>0, <1>6, <2>1
  <1>7. CASE accepted' = [accepted EXCEPT ![s] = Append(accepted[s], m)]
    <2>1. TakenOnce(accepted')
      BY <1>0, <1>2, <1>3, <1>7, TakenGrow
    <2>2. Past(m, s)'
      <3>1. h'[c].pc = h[c].pc /\ h'[c].sent = h[c].sent /\ h'[c].targets = h[c].targets \ {s}
        BY <1>1 DEF Becomes
      <3>2. \A t \in h[c].targets \ {s} : t[1] # s[1]
        BY <1>0 DEF TargetsOK
      <3>3. h[c].sent \in Nat
        BY <1>0, ServerTypes
      <3> QED
        BY <1>0, <1>2, <3>1, <3>2, <3>3 DEF Past
    <2>3. ASSUME Running', NEW t \in Subscription, NEW i \in 1 .. Len(accepted'[t]),
                 NEW n, n = accepted'[t][i]
          PROVE  Past(n, t)'
      <3>1. CASE t # s
        <4>1. accepted'[t] = accepted[t]
          BY <1>0, <1>7, <3>1
        <4> QED
          BY <1>4, <1>5, <2>3, <4>1
      <3>2. CASE t = s
        <4>1. accepted'[s] = Append(accepted[s], m) /\ accepted[s] \in Seq(Message)
          BY <1>0, <1>2, <1>7
        <4>2. (i \in 1 .. Len(accepted[s]) /\ n = accepted[s][i]) \/ n = m
          BY <1>2, <2>3, <3>2, <4>1
        <4> QED
          BY <1>4, <1>5, <2>2, <2>3, <3>2, <4>2
      <3> QED
        BY <3>1, <3>2
    <2>4. ASSUME NEW t \in Subscription PROVE SentOK(t)'
      <3>1. SUFFICES ASSUME Running', NEW i \in 1 .. Len(accepted'[t])
                     PROVE  Past(accepted[t][i], t)'
        BY DEF SentOK
      <3>2. \A n : n = accepted'[t][i] => Past(n, t)'
        BY <2>3, <3>1
      <3> QED
        BY <3>2 DEF Past
    <2> QED
      BY <2>1, <2>4
  <1> QED
    BY <1>1, <1>a, <1>6, <1>7

\* A delivery goroutine writes: the message is new to the client.
LEMMA PushOnce ==
  ASSUME ServerInv, OnceInv, NEW s \in Subscription, Push(s), NEW d \in Conns
  PROVE  Once(out'[d]) /\ Addressed(out'[d], d)
  <1>0. /\ HistoryType /\ DeliveryOK(s) /\ TakenOnce(accepted)
        /\ Once(out[d]) /\ Addressed(out[d], d)
        /\ out \in [Conns -> Seq(Thing)] /\ accepted \in [Subscription -> Seq(Message)]
        /\ C \in [Subscription -> Seq(Message)] /\ hand \in [Subscription -> Seq(Message)]
    BY InvParts DEF OnceInv, HistoryType, TypeOK
  <1>1. /\ Running /\ dl[s] = "push" /\ s[1] \in Conns
        /\ out' = Written(s[1], <<"message", hand[s][1], s>>)
    BY SubscriptionIs DEF Push
  <1> DEFINE m == hand[s][1]
             x == <<"message", m, s>>
  <1>2. Len(hand[s]) = 1 /\ m \in Message /\ x \in Thing /\ x[2] = m /\ x[3] = s
    <2>1. hand[s] \in Seq(Message) /\ Len(hand[s]) = 1
      BY <1>0, <1>1 DEF DeliveryOK
    <2>2. m \in Message
      BY <2>1
    <2> QED
      BY <2>1, <2>2 DEF Thing
  <1>3. out' = Written(s[1], x)
    BY <1>1
  <1> HIDE DEF x
  <1>4. CASE d # s[1] \/ d \notin up
    <2>1. out'[d] = out[d]
      BY <1>0, <1>3, <1>4 DEF Written
    <2> QED
      BY <1>0, <2>1
  <1>5. CASE d = s[1] /\ d \in up
    <2>1. out'[d] = Append(out[d], x) /\ out[d] \in Seq(Thing)
      BY <1>0, <1>3, <1>5 DEF Written
    <2>2. ASSUME NEW t \in Subscription, t[1] = d
          PROVE  /\ ReadBy(t) \in Seq(Message) /\ hand[t] \in Seq(Message)
                 /\ Len(accepted[t]) = Len(ReadBy(t)) + Len(hand[t]) + Len(C[t])
                 /\ \A i \in 1 .. Len(ReadBy(t)) : accepted[t][i] = ReadBy(t)[i]
                 /\ \A i \in 1 .. Len(hand[t]) : accepted[t][Len(ReadBy(t)) + i] = hand[t][i]
                 /\ Len(ReadBy(t)) \in Nat /\ Len(hand[t]) \in Nat /\ Len(C[t]) \in Nat
      <3>1. ReadBy(t) \in Seq(Message) /\ hand[t] \in Seq(Message) /\ C[t] \in Seq(Message)
        BY <1>0, ReadByType
      <3>2. Joined(ReadBy(t), hand[t], C[t]) = accepted[t]
        BY <1>1, <1>5, <2>2, InvParts DEF DeliveryOK
      <3> DEFINE r == ReadBy(t)
                 b == C[t]
                 y == hand[t]
      <3> HIDE DEF r, b, y
      <3>3. /\ Len(Joined(r, y, b)) = Len(r) + Len(y) + Len(b)
            /\ \A i \in 1 .. Len(r) : Joined(r, y, b)[i] = r[i]
            /\ \A i \in 1 .. Len(y) : Joined(r, y, b)[Len(r) + i] = y[i]
        BY <3>1, JoinedParts, ZenonT(60) DEF r, b, y
      <3>4. Len(r) \in Nat /\ Len(y) \in Nat /\ Len(b) \in Nat
        BY <3>1 DEF r, b, y
      <3> QED
        BY <3>1, <3>2, <3>3, <3>4 DEF r, b, y
    <2>3. ASSUME NEW j \in 1 .. Len(out[d]), IsMessage(out[d][j]), out[d][j][2] = m
          PROVE  FALSE
      <3> DEFINE t == out[d][j][3]
      <3>1. t \in Subscription /\ t[1] = d
        <4>1. out[d][j] \in Thing
          BY <2>1
        <4> QED
          BY <1>0, <2>3, <4>1 DEF Thing, IsMessage, Addressed
      <3>2. PICK i \in 1 .. Len(ReadBy(t)) : ReadBy(t)[i] = m
        <4>1. \E i \in 1 .. Len(Messages(out[d], t)) : Messages(out[d], t)[i] = m
          BY <2>1, <2>3, MessagesList
        <4>2. ReadBy(t) = Messages(out[d], t)
          BY <3>1 DEF ReadBy
        <4> QED
          BY <4>1, <4>2
      <3> HIDE DEF t
      <3>3. i \in 1 .. Len(accepted[t]) /\ accepted[t][i] = m
        <4>1. /\ Len(accepted[t]) = Len(ReadBy(t)) + Len(hand[t]) + Len(C[t])
              /\ \A k \in 1 .. Len(ReadBy(t)) : accepted[t][k] = ReadBy(t)[k]
              /\ Len(ReadBy(t)) \in Nat /\ Len(hand[t]) \in Nat /\ Len(C[t]) \in Nat
          BY <2>2, <3>1
        <4>2. accepted[t][i] = m
          BY <3>2, <4>1
        <4>3. i \in 1 .. Len(accepted[t])
          <5> DEFINE r == Len(ReadBy(t))
                     y == Len(hand[t])
                     b == Len(C[t])
          <5>1. i \in 1 .. r /\ r \in Nat /\ y \in Nat /\ b \in Nat /\ Len(accepted[t]) = r + y + b
            BY <4>1
          <5> HIDE DEF r, y, b
          <5> QED
            BY <5>1
        <4> QED
          BY <4>2, <4>3
      <3>4. Len(ReadBy(s)) + 1 \in 1 .. Len(accepted[s]) /\ accepted[s][Len(ReadBy(s)) + 1] = m
        <4>1. /\ Len(accepted[s]) = Len(ReadBy(s)) + Len(hand[s]) + Len(C[s])
              /\ \A k \in 1 .. Len(hand[s]) : accepted[s][Len(ReadBy(s)) + k] = hand[s][k]
              /\ Len(ReadBy(s)) \in Nat /\ Len(C[s]) \in Nat
          BY <1>5, <2>2
        <4>2. 1 \in 1 .. Len(hand[s])
          BY <1>2
        <4>3. accepted[s][Len(ReadBy(s)) + 1] = m
          BY <4>1, <4>2
        <4>4. Len(ReadBy(s)) + 1 \in 1 .. Len(accepted[s])
          <5> DEFINE r == Len(ReadBy(s))
                     b == Len(C[s])
          <5>1. r \in Nat /\ b \in Nat /\ Len(accepted[s]) = r + 1 + b
            BY <1>2, <4>1
          <5> HIDE DEF r, b
          <5>2. r + 1 \in 1 .. Len(accepted[s])
            BY <5>1
          <5> QED
            BY <5>2 DEF r
        <4> QED
          BY <4>3, <4>4
      <3>5. t = s /\ i = Len(ReadBy(s)) + 1
        BY <1>0, <1>5, <3>1, <3>3, <3>4 DEF TakenOnce
      <3>6. Len(ReadBy(s)) \in Nat
        BY <1>5, <2>2
      <3> QED
        BY <3>2, <3>5, <3>6
    <2>4. IsMessage(x) => /\ x[3][1] = d
                          /\ \A j \in 1 .. Len(out[d]) : IsMessage(out[d][j]) => out[d][j][2] # x[2]
      BY <1>2, <1>5, <2>3
    <2> HIDE DEF m
    <2>5. Once(Append(out[d], x)) /\ Addressed(Append(out[d], x), d)
      BY <1>0, <1>2, <2>1, <2>4, OnceGrow
    <2> QED
      BY <2>1, <2>5
  <1> QED
    BY <1>4, <1>5

\* Steps in which no subscription takes a message.
LEMMA SentSame ==
  ASSUME ServerInv, OnceInv, Next, Running' => Running,
         \A t \in Subscription : accepted'[t] = accepted[t] \/ Len(accepted'[t]) = 0
  PROVE  TakenOnce(accepted') /\ \A t \in Subscription : SentOK(t)'
  <1>0. /\ TakenOnce(accepted) /\ accepted \in [Subscription -> Seq(Message)]
        /\ \A t \in Subscription : SentOK(t)
    BY InvParts DEF OnceInv, HistoryType
  <1>1. \A t \in Subscription : \A i \in 1 .. Len(accepted'[t]) :
          accepted'[t] = accepted[t] /\ i \in 1 .. Len(accepted[t])
    OBVIOUS
  <1>2. TakenOnce(accepted')
    BY <1>0, <1>1 DEF TakenOnce
  <1>3. ASSUME NEW t \in Subscription PROVE SentOK(t)'
    <2>1. SUFFICES ASSUME Running', NEW i \in 1 .. Len(accepted'[t])
                   PROVE  Past(accepted[t][i], t)'
      BY DEF SentOK
    <2>2. PICK n : n = accepted[t][i]
      OBVIOUS
    <2>3. n \in Message /\ Past(n, t) /\ n = accepted'[t][i]
      BY <1>0, <1>1, <2>1, <2>2 DEF SentOK
    <2>4. Past(n, t)'
      BY <2>1, <2>3, PastStep
    <2> QED
      BY <2>3, <2>4 DEF Past
  <1> QED
    BY <1>2, <1>3

\* What other steps than those of PublishSend and Push do to the history.
LEMMA HistoryLeft ==
  ASSUME ServerInv, NEW c \in Conns,
         \/ Quiet(c) \/ Register(c) \/ Unregister(c) \/ Cleanup(c) \/ PublishPanics(c)
         \/ Return(c) \/ HangUp(c) \/ Stall(c)
  PROVE  /\ Running' => Running
         /\ \A t \in Subscription : accepted'[t] = accepted[t] \/ Len(accepted'[t]) = 0
  <1>1. CASE Return(c) \/ HangUp(c)
    <2>1. Closed(c) /\ run' = run
      BY <1>1 DEF Return, HangUp
    <2> QED
      BY <2>1 DEF Closed, Running
  <1>2. CASE ~(Return(c) \/ HangUp(c))
    <2>1. accepted' = accepted /\ (Running' => Running)
      BY <1>2, QuietElse, PanicLeaves
      DEF Register, Unregister, Cleanup, Stall, At, history, Running
    <2> QED
      BY <2>1
  <1> QED
    BY <1>1, <1>2

LEMMA SentStep ==
  ASSUME ServerInv, OnceInv, Next
  PROVE  TakenOnce(accepted') /\ \A t \in Subscription : SentOK(t)'
  <1>1. CASE \E c \in Conns : PublishSend(c)
    BY <1>1, SendOnce
  <1>2. CASE \E c \in Conns : \/ Quiet(c) \/ Register(c) \/ Unregister(c) \/ Cleanup(c)
                              \/ PublishPanics(c) \/ Return(c) \/ HangUp(c) \/ Stall(c)
    BY <1>2, HistoryLeft, SentSame
  <1>3. CASE (\E s \in Subscription : Delivery(s)) \/ Shutdown \/ CloseListener \/ Stop
    <2>1. accepted' = accepted /\ (Running' => Running)
      BY <1>3 DEF Delivery, Take, LockWriter, Push, Finish, Shutdown, CloseListener, Stop, sessions, history, Running
    <2> QED
      BY <2>1, SentSame
  <1> QED
    BY <1>1, <1>2, <1>3, Steps

\* What clients were sent.
LEMMA OnceOut ==
  ASSUME ServerInv, OnceInv, Next, NEW d \in Conns
  PROVE  Once(out'[d]) /\ Addressed(out'[d], d)
  <1>0. /\ Once(out[d]) /\ Addressed(out[d], d) /\ out \in [Conns -> Seq(Thing)]
        /\ TypeOK /\ \A c \in Conns : HandlerOK(c)
    BY InvParts DEF OnceInv, HistoryType
  <1>1. ASSUME out'[d] = out[d] PROVE Once(out'[d]) /\ Addressed(out'[d], d)
    BY <1>0, <1>1
  <1>2. ASSUME NEW c \in Conns, Confirm(c) PROVE Once(out'[d]) /\ Addressed(out'[d], d)
    <2> DEFINE x == <<"subscribe", Head(h[c].cmd.args)>>
    <2>1. out' = Written(c, x) /\ x \in Thing /\ ~IsMessage(x)
      <3>1. h[c].cmd.args # <<>> /\ h[c].cmd.args \in Seq(Channels)
        BY <1>0, <1>2, ServerTypes DEF Confirm, At, HandlerOK, ArgsOK
      <3> QED
        BY <1>2, <3>1, Arguments DEF Confirm, Thing, IsMessage
    <2> HIDE DEF x
    <2>2. CASE d # c \/ c \notin up
      <3>1. out'[d] = out[d]
        BY <1>0, <2>1, <2>2 DEF Written
      <3> QED
        BY <1>1, <3>1
    <2>3. CASE d = c /\ c \in up
      <3>1. out'[d] = Append(out[d], x) /\ out[d] \in Seq(Thing)
        BY <1>0, <2>1, <2>3 DEF Written
      <3>2. Once(Append(out[d], x)) /\ Addressed(Append(out[d], x), d)
        BY <1>0, <2>1, <3>1, OnceGrow
      <3> QED
        BY <3>1, <3>2
    <2> QED
      BY <2>2, <2>3
  <1>3. ASSUME NEW c \in Conns, Return(c) \/ HangUp(c)
        PROVE  Once(out'[d]) /\ Addressed(out'[d], d)
    <2>1. out'[d] = IF d = c THEN <<>> ELSE out[d]
      BY <1>0, <1>3 DEF Return, HangUp, Closed
    <2>2. CASE d = c
      <3>1. Len(out'[d]) = 0
        BY <2>1, <2>2
      <3> QED
        BY <3>1 DEF Once, Addressed
    <2> QED
      BY <1>1, <2>1, <2>2
  <1>4. ASSUME NEW c \in Conns,
               \/ Quiet(c) /\ ~Confirm(c)
               \/ Register(c) \/ Unregister(c) \/ Cleanup(c) \/ PublishSend(c) \/ PublishPanics(c)
               \/ Stall(c)
        PROVE  Once(out'[d]) /\ Addressed(out'[d], d)
    <2>1. out' = out
      BY <1>4, QuietElse, PanicLeaves DEF Register, Unregister, Cleanup, PublishSend, Stall, history
    <2> QED
      BY <1>1, <2>1
  <1>5. ASSUME NEW s \in Subscription, Delivery(s)
        PROVE  Once(out'[d]) /\ Addressed(out'[d], d)
    <2>1. CASE Push(s)
      BY <2>1, PushOnce
    <2>2. CASE ~Push(s)
      <3>1. out' = out
        BY <1>5, <2>2 DEF Delivery, Take, LockWriter, Finish, sessions, history
      <3> QED
        BY <1>1, <3>1
    <2> QED
      BY <2>1, <2>2
  <1>6. ASSUME Shutdown \/ CloseListener \/ Stop PROVE Once(out'[d]) /\ Addressed(out'[d], d)
    <2>1. out' = out
      BY <1>6 DEF Shutdown, CloseListener, Stop, sessions, history
    <2> QED
      BY <1>1, <2>1
  <1> QED
    BY <1>2, <1>3, <1>4, <1>5, <1>6, Steps

LEMMA OnceInit ==
  ASSUME Init
  PROVE  OnceInv
  <1>1. /\ \A c \in Conns : Len(out[c]) = 0 /\ h[c].pc = "none"
        /\ \A s \in Subscription : Len(accepted[s]) = 0
    BY DEF Init, Idle
  <1> QED
    BY <1>1 DEF OnceInv, Once, Addressed, TargetsOK, TakenOnce, SentOK

LEMMA OnceNext ==
  ASSUME ServerInv, OnceInv, [Next]_vars
  PROVE  OnceInv'
  <1>1. CASE Next
    BY <1>1, OnceOut, TargetsStep, SentStep DEF OnceInv
  <1>2. CASE UNCHANGED vars
    <2>1. UNCHANGED <<run, out, accepted, h>>
      BY <1>2 DEF vars, sessions, history
    <2> QED
      BY <2>1 DEF OnceInv, TargetsOK, SentOK, Past, Running
  <1> QED
    BY <1>1, <1>2

(***************************************************************************)
(* Publish copies the subscribers of a channel and sends after it has      *)
(* released the broker's lock.  Clients that leave and rejoin the channel  *)
(* meanwhile still read its message at most once, for any number of        *)
(* clients, subscriptions and publishers.                                  *)
(***************************************************************************)
THEOREM MessagesReadOnce == Spec => []ReadOnce
  <1>1. ServerInv /\ OnceInv => ReadOnce
    <2> SUFFICES ASSUME ServerInv, OnceInv, NEW c \in Conns
                 PROVE  \A i, j \in DOMAIN out[c] :
                           IsMessage(out[c][i]) /\ IsMessage(out[c][j])
                             /\ out[c][i][2] = out[c][j][2] => i = j
      BY DEF ReadOnce
    <2>1. out[c] \in Seq(Thing) /\ Once(out[c])
      BY InvParts DEF HistoryType, OnceInv
    <2>2. DOMAIN out[c] = 1 .. Len(out[c])
      BY <2>1
    <2> QED
      BY <2>1, <2>2 DEF Once
  <1> QED
    BY <1>1, OnceInit, OnceNext, ServerInvariant, PTL DEF Spec
=============================================================================
