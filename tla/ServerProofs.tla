---------------------------- MODULE ServerProofs ----------------------------
(***************************************************************************)
(* Theorems about connections and pub/sub, for any finite set of           *)
(* connections, any channels, scripts, limits and buffer sizes.            *)
(***************************************************************************)
EXTENDS Server, SeqProofs

----------------------------------------------------------------------------
(* The inductive invariant *)

Handlers == [pc : PCs, sent : Nat, cmd : Command, subs : SUBSET Subscription,
             targets : SUBSET Subscription]

\* What a client can be sent.
Thing == ({"subscribe"} \X Channels) \cup ({"message"} \X Message \X Subscription)

HistoryType == out \in [Conns -> Seq(Thing)] /\ accepted \in [Subscription -> Seq(Message)]

\* A handler that has not counted itself, or no longer does.
Uncounted == {"none", "refused", "started", "done"}

\* A handler that holds writeMu.
Writing == {"subscribe", "confirm", "unsubscribe", "publish", "flush"}

(***************************************************************************)
(* The loops over arguments have an argument; a channel to subscribe to is *)
(* one the connection has, or the bound leaves room for a subscription.    *)
(***************************************************************************)
ArgsOK(c) ==
  /\ h[c].pc \in {"subscribe", "confirm", "unsubscribe", "publish"} => h[c].cmd.args # <<>>
  /\ h[c].pc = "want" /\ h[c].cmd.op = "PUBLISH" => h[c].cmd.args # <<>>
  /\ \/ h[c].pc = "want" /\ h[c].cmd.op = "SUBSCRIBE"
     \/ h[c].pc \in {"subscribe", "confirm"}
     => \A ch \in ToSet(h[c].cmd.args) : Subscribed(c, ch) \/ NextSub(c, ch) <= MaxSubs[c]

(***************************************************************************)
(* The locals of a handler: its subscriptions are its own, one for each    *)
(* channel, and none before it starts or after it returned; a client that  *)
(* was not accepted yet reads.                                             *)
(***************************************************************************)
HandlerOK(c) ==
  /\ IsFiniteSet(h[c].subs)
  /\ \A s \in h[c].subs : s[1] = c
  /\ \A s, t \in h[c].subs : s[2] = t[2] => s = t
  /\ h[c].pc \in Uncounted => h[c].subs = {}
  /\ h[c].pc = "none" => c \notin stalled
  /\ ArgsOK(c)

\* The broker's subscriptions are those that the handlers have.
BrokerOK == subs = {s \in Subscription : s \in h[s[1]].subs}

\* writeMu is held by the handler, or by one delivery goroutine.
WriterOK(c) ==
  /\ mu[c] = "handler" <=> h[c].pc \in Writing
  /\ mu[c] = "delivery" <=> \E s \in Subscription : s[1] = c /\ dl[s] = "push"
  /\ \A s, t \in Subscription :
        s[1] = c /\ t[1] = c /\ dl[s] = "push" /\ dl[t] = "push" => s = t

\* A handler that has not begun or has returned has no delivery goroutine.
ReturnedOK(c) == h[c].pc \in Uncounted => Delivering(c) = {}

\* s.clients counts the handlers that have begun and not returned.
Counted == {c \in Conns : h[c].pc \notin Uncounted}

CountOK == clients = Cardinality(Counted)

\* Subscriptions to a channel are numbered from 1 without gaps.
Numbered(d) ==
  \A s \in Subscription : d[s] # "off" => \A n \in 1 .. s[3] : d[<<s[1], s[2], n>>] # "off"

NumbersOK == Numbered(dl)

\* What was read, is in hand and is buffered.
Joined(r, x, b) == r \o x \o b

\* The delivery goroutine of s.
DeliveryOK(s) ==
  /\ dl[s] \in {"lock", "push"} => Len(hand[s]) = 1
  /\ dl[s] \notin {"lock", "push"} => hand[s] = <<>>
  /\ dl[s] = "ended" => s \in closed /\ C[s] = <<>>
  /\ Running /\ s[1] \in up => Joined(ReadBy(s), hand[s], C[s]) = accepted[s]

ServerInv ==
  /\ TypeOK /\ HistoryType
  /\ \A c \in Conns : HandlerOK(c) /\ WriterOK(c) /\ ReturnedOK(c)
  /\ BrokerOK /\ CountOK /\ NumbersOK
  /\ \A s \in Subscription : DeliveryOK(s)

----------------------------------------------------------------------------
(* What a client has read *)

\* came lists what came by s with the first n of the things o, for every n.
Unfolds(came, o, s) ==
  /\ came[0] = <<>>
  /\ \A n \in 1 .. Len(o) :
        came[n] = IF IsMessage(o[n]) /\ o[n][3] = s
                  THEN Append(came[n - 1], o[n][2]) ELSE came[n - 1]
  /\ came \in [0 .. Len(o) -> Seq(Message)]
  /\ Messages(o, s) = came[Len(o)]

\* Messages satisfies its recursive definition.
LEMMA MessagesDef ==
  ASSUME NEW o \in Seq(Thing), NEW s
  PROVE  \E came : Unfolds(came, o, s)
  <1> DEFINE N == Len(o)
             V == Seq(Message)
             Came(f, n) == IF n = 0 THEN <<>>
                           ELSE IF IsMessage(o[n]) /\ o[n][3] = s
                                THEN Append(f[n - 1], o[n][2]) ELSE f[n - 1]
             step == [n \in 1 .. N |-> [v \in V |->
                        IF IsMessage(o[n]) /\ o[n][3] = s THEN Append(v, o[n][2]) ELSE v]]
  <1>0. N \in Nat
    OBVIOUS
  <1>1. \A n \in 1 .. N : IsMessage(o[n]) => o[n][2] \in Message
    BY DEF IsMessage, Thing
  <1>2. step \in [1 .. N -> [V -> V]]
    BY <1>1
  <1>3. <<>> \in V
    OBVIOUS
  <1>4. PICK f \in [0 .. N -> V] :
          f[0] = <<>> /\ \A n \in 1 .. N : f[n] = step[n][f[n - 1]]
    <2> DEFINE nil == <<>>
    <2>1. nil \in V
      BY <1>3
    <2> HIDE DEF step, N, V, nil
    <2>2. \E f \in [0 .. N -> V] :
            f[0] = nil /\ \A n \in 1 .. N : f[n] = step[n][f[n - 1]]
      BY <1>0, <1>2, <2>1, Recursion
    <2> QED
      BY <2>2 DEF nil
  <1>5. \A n \in 0 .. N : f[n] = Came(f, n)
    <2> TAKE n \in 0 .. N
    <2>1. CASE n = 0
      BY <1>4, <2>1
    <2>2. CASE n # 0
      <3>1. n \in 1 .. N /\ f[n - 1] \in V
        BY <2>2
      <3>2. step[n][f[n - 1]] = Came(f, n)
        BY <2>2, <3>1
      <3> QED
        BY <1>4, <3>1, <3>2
    <2> QED
      BY <2>1, <2>2
  <1>6. f = [n \in 0 .. N |-> Came(f, n)]
    BY <1>5
  <1> DEFINE came == CHOOSE g : g = [n \in 0 .. N |-> Came(g, n)]
  <1>7. came = [n \in 0 .. N |-> Came(came, n)]
    <2> HIDE DEF Came
    <2> QED
      BY <1>6
  <1>8. Messages(o, s) = came[N]
    BY Zenon DEF Messages
  <1> HIDE DEF came
  <1>9. \A n \in 0 .. N : came[n] = f[n]
    <2> DEFINE S == {n \in 0 .. N : came[n] = f[n]}
    <2>1. 0 \in S
      BY <1>0, <1>5, <1>7
    <2>2. ASSUME NEW n \in 1 .. N, n - 1 \in S PROVE n \in S
      <3>1. n \in 0 .. N /\ n # 0 /\ came[n - 1] = f[n - 1]
        BY <2>2
      <3>2. came[n] = Came(came, n) /\ f[n] = Came(f, n)
        BY <1>5, <1>7, <3>1
      <3> QED
        BY <3>1, <3>2
    <2> HIDE DEF S
    <2>3. 0 .. N \subseteq S
      BY <1>0, <2>1, <2>2, Induction
    <2> QED
      BY <2>3 DEF S
  <1>10. came = f
    <2>1. came = [n \in 0 .. N |-> came[n]] /\ f = [n \in 0 .. N |-> f[n]]
      BY <1>7
    <2> QED
      BY <1>9, <2>1
  <1>11. \A n \in 1 .. N : f[n] = IF IsMessage(o[n]) /\ o[n][3] = s
                                  THEN Append(f[n - 1], o[n][2]) ELSE f[n - 1]
    <2> TAKE n \in 1 .. N
    <2>1. n \in 0 .. N /\ n # 0
      OBVIOUS
    <2> QED
      BY <1>5, <2>1
  <1> QED
    BY <1>4, <1>8, <1>10, <1>11 DEF Unfolds

\* Nothing was read at first, and each thing sent adds at most one message.
LEMMA MessagesGrow ==
  ASSUME NEW o \in Seq(Thing), NEW x \in Thing, NEW s
  PROVE  /\ Messages(o, s) \in Seq(Message)
         /\ Messages(Append(o, x), s) = IF IsMessage(x) /\ x[3] = s
                                        THEN Append(Messages(o, s), x[2])
                                        ELSE Messages(o, s)
  <1> DEFINE N == Len(o)
             p == Append(o, x)
  <1>1. /\ N \in Nat /\ p \in Seq(Thing) /\ Len(p) = N + 1
        /\ p[N + 1] = x /\ \A n \in 1 .. N : p[n] = o[n]
    OBVIOUS
  <1> HIDE DEF p, N
  <1>2. PICK f : Unfolds(f, o, s)
    BY MessagesDef
  <1>3. PICK g : Unfolds(g, p, s)
    BY <1>1, MessagesDef
  <1>a. /\ f[0] = <<>> /\ g[0] = <<>> /\ f \in [0 .. N -> Seq(Message)]
        /\ \A n \in 1 .. N : f[n] = IF IsMessage(o[n]) /\ o[n][3] = s
                                    THEN Append(f[n - 1], o[n][2]) ELSE f[n - 1]
        /\ \A n \in 1 .. N + 1 : g[n] = IF IsMessage(p[n]) /\ p[n][3] = s
                                        THEN Append(g[n - 1], p[n][2]) ELSE g[n - 1]
        /\ Messages(o, s) = f[N] /\ Messages(p, s) = g[N + 1]
    BY <1>1, <1>2, <1>3 DEF Unfolds, N
  <1> DEFINE S == {n \in 0 .. N : g[n] = f[n]}
  <1>4. 0 \in S
    BY <1>1, <1>a
  <1>5. ASSUME NEW n \in 1 .. N, n - 1 \in S PROVE n \in S
    <2>1. n \in 1 .. N + 1 /\ n \in 0 .. N /\ p[n] = o[n] /\ g[n - 1] = f[n - 1]
      BY <1>1, <1>5
    <2> QED
      BY <1>a, <2>1
  <1> HIDE DEF S
  <1>6. 0 .. N \subseteq S
    <2>1. N \in Nat
      BY <1>1
    <2> QED
      BY <1>4, <1>5, <2>1, Induction
  <1>7. N + 1 \in 1 .. N + 1 /\ (N + 1) - 1 = N /\ N \in 0 .. N
    BY <1>1
  <1>8. g[N] = f[N]
    BY <1>6, <1>7 DEF S
  <1>9. Messages(o, s) \in Seq(Message)
    BY <1>a, <1>7
  <1>10. g[N + 1] = IF IsMessage(x) /\ x[3] = s THEN Append(g[N], x[2]) ELSE g[N]
    BY <1>1, <1>a, <1>7
  <1> QED
    BY <1>a, <1>8, <1>9, <1>10 DEF p

LEMMA MessagesNone ==
  ASSUME NEW o \in Seq(Thing), Len(o) = 0, NEW s
  PROVE  Messages(o, s) = <<>>
  <1>1. PICK came : Unfolds(came, o, s)
    BY MessagesDef
  <1> QED
    BY <1>1 DEF Unfolds
----------------------------------------------------------------------------
(* Subscriptions and their numbers *)

LEMMA SubscriptionIs ==
  /\ \A c, ch, n : <<c, ch, n>> \in Subscription
                   <=> c \in Conns /\ ch \in Channels /\ n \in 1 .. MaxSubs[c]
  /\ \A s \in Subscription : /\ s = <<s[1], s[2], s[3]>>
                             /\ s[1] \in Conns /\ s[2] \in Channels
                             /\ s[3] \in 1 .. MaxSubs[s[1]]
  BY DEF Subscription

\* The subscriptions of c to ch that were ever made, by the goroutines' states d.
Made(d, c, ch) == {s \in Subscription : s[1] = c /\ s[2] = ch /\ d[s] # "off"}

\* They are the first ones, as many as there are.
LEMMA Numbering ==
  ASSUME NEW d, Numbered(d), NEW c \in Conns, NEW ch \in Channels
  PROVE  /\ Cardinality(Made(d, c, ch)) \in Nat
         /\ \A n \in 1 .. MaxSubs[c] :
               d[<<c, ch, n>>] # "off" <=> n <= Cardinality(Made(d, c, ch))
  <1> DEFINE max == MaxSubs[c]
             N == {n \in 1 .. max : d[<<c, ch, n>>] # "off"}
             T == {n \in Nat : n + 1 \notin N}
  <1>0. max \in Nat
    BY MaxSubsAssumption
  <1>1. T \in SUBSET Nat /\ max \in T
    BY <1>0
  <1>2. PICK k \in T : \A m \in T : k <= m
    BY <1>1, LeastNumber, Zenon
  <1>3. ASSUME NEW n \in N, NEW m \in 1 .. n PROVE m \in N
    <2>1. <<c, ch, n>> \in Subscription /\ m \in 1 .. max
      BY <1>0, SubscriptionIs
    <2> QED
      BY <2>1 DEF Numbered
  <1>4. k \in Nat /\ k + 1 \notin N /\ N \subseteq 1 .. max
    BY <1>2
  <1>5. \A n \in 1 .. k : n \in N
    <2> TAKE n \in 1 .. k
    <2>1. n - 1 \in Nat /\ ~(k <= n - 1) /\ (n - 1) + 1 = n
      BY <1>4
    <2> QED
      BY <1>2, <2>1
  <1> HIDE DEF N
  <1>6. \A n \in N : n \in 1 .. k
    <2> TAKE n \in N
    <2>1. n \in Nat \ {0}
      BY <1>0, <1>4
    <2>2. n > k => k + 1 \in 1 .. n
      BY <1>4, <2>1
    <2> QED
      BY <1>3, <1>4, <2>1, <2>2
  <1>7. N = 1 .. k
    BY <1>5, <1>6
  <1>8. k <= max
    BY <1>0, <1>4, <1>7
  <1> DEFINE U == Made(d, c, ch)
             f == [n \in 1 .. k |-> <<c, ch, n>>]
  <1>9. \A s : s \in U <=> \E n \in 1 .. k : s = <<c, ch, n>>
    <2>1. ASSUME NEW n \in 1 .. k PROVE <<c, ch, n>> \in U
      <3>1. n \in N /\ n \in 1 .. max
        BY <1>0, <1>7, <1>8
      <3> QED
        BY <3>1, SubscriptionIs DEF Made, N
    <2>2. ASSUME NEW s \in U PROVE \E n \in 1 .. k : s = <<c, ch, n>>
      <3>1. s = <<c, ch, s[3]>> /\ s[3] \in 1 .. max /\ d[s] # "off"
        BY SubscriptionIs DEF Made
      <3>2. s[3] \in N
        BY <3>1 DEF N
      <3> QED
        BY <1>7, <3>1, <3>2
    <2> QED
      BY <2>1, <2>2
  <1>10. f \in Bijection(1 .. k, U)
    <2>1. f \in [1 .. k -> U]
      BY <1>9
    <2>2. f \in Injection(1 .. k, U)
      BY <2>1 DEF Injection, IsInjective
    <2>3. f \in Surjection(1 .. k, U)
      BY <1>9, <2>1 DEF Surjection
    <2> QED
      BY <2>2, <2>3 DEF Bijection
  <1>11. Cardinality(U) = k
    <2>1. ExistsBijection(1 .. k, U)
      BY <1>10 DEF ExistsBijection
    <2> QED
      BY <1>4, <2>1, FS_CountingElements
  <1> QED
    BY <1>4, <1>7, <1>11 DEF N
----------------------------------------------------------------------------
(* Types *)

LEMMA ServerTypes ==
  ASSUME TypeOK
  PROVE  /\ h \in [Conns -> Handlers]
         /\ \A c \in Conns : /\ h[c] \in Handlers /\ h[c].pc \in PCs /\ h[c].sent \in Nat
                             /\ h[c].cmd \in Command /\ h[c].subs \subseteq Subscription
                             /\ h[c].targets \subseteq Subscription
                             /\ h[c].cmd.args \in Seq(Channels)
  BY DEF TypeOK, Handlers, Command

\* The locals of the handler of c become these, and no others change.
Set(c, pc, sent, cmd, sb, tg) ==
  h' = [h EXCEPT ![c] = [pc |-> pc, sent |-> sent, cmd |-> cmd, subs |-> sb, targets |-> tg]]

\* What the locals of the handler of c have become.
Becomes(c, pc, sent, cmd, sb, tg) ==
  /\ h' \in [Conns -> Handlers]
  /\ h'[c].pc = pc /\ h'[c].sent = sent /\ h'[c].cmd = cmd
  /\ h'[c].subs = sb /\ h'[c].targets = tg
  /\ \A d \in Conns : d # c => h'[d] = h[d]

LEMMA SetEffect ==
  ASSUME h \in [Conns -> Handlers], NEW c \in Conns, NEW pc \in PCs, NEW sent \in Nat,
         NEW cmd \in Command, NEW sb \in SUBSET Subscription, NEW tg \in SUBSET Subscription,
         Set(c, pc, sent, cmd, sb, tg)
  PROVE  Becomes(c, pc, sent, cmd, sb, tg)
  BY DEF Set, Becomes, Handlers

\* Every assignment that a step makes to the locals of a handler has this form.
LEMMA SetForms ==
  ASSUME h \in [Conns -> Handlers], NEW c \in Conns
  PROVE  /\ \A pc : Goto(c, pc)
              => Set(c, pc, h[c].sent, h[c].cmd, h[c].subs, h[c].targets)
         /\ Loop(c) => Set(c, IF run # "serving" THEN "cleanup" ELSE "read",
                           h[c].sent, NoCommand, h[c].subs, h[c].targets)
         /\ \A pc, cmd : h' = [h EXCEPT ![c].pc = pc, ![c].cmd = cmd, ![c].sent = @ + 1]
              => Set(c, pc, h[c].sent + 1, cmd, h[c].subs, h[c].targets)
         /\ \A pc, s : h' = [h EXCEPT ![c].pc = pc, ![c].subs = @ \cup {s}]
              => Set(c, pc, h[c].sent, h[c].cmd, h[c].subs \cup {s}, h[c].targets)
         /\ \A pc, tg : h' = [h EXCEPT ![c].pc = pc, ![c].targets = tg]
              => Set(c, pc, h[c].sent, h[c].cmd, h[c].subs, tg)
         /\ \A s : h' = [h EXCEPT ![c].targets = @ \ {s}]
              => Set(c, h[c].pc, h[c].sent, h[c].cmd, h[c].subs, h[c].targets \ {s})
         /\ \A s : h' = [h EXCEPT ![c].subs = @ \ {s}]
              => Set(c, h[c].pc, h[c].sent, h[c].cmd, h[c].subs \ {s}, h[c].targets)
         /\ h' = [h EXCEPT ![c] = [Idle EXCEPT !.pc = "done"]]
              => Set(c, "done", 0, NoCommand, {}, {})
  BY DEF Set, Handlers, Goto, Loop, Idle

\* A command with other arguments.
With(cmd, args) == [op |-> cmd.op, args |-> args]

LEMMA ArgsForms ==
  ASSUME h \in [Conns -> Handlers], NEW c \in Conns, h[c].cmd \in Command
  PROVE  /\ \A sb : NextArg(c, sb)
              => Set(c, IF Tail(h[c].cmd.args) # <<>> THEN h[c].pc ELSE "flush", h[c].sent,
                     With(h[c].cmd, Tail(h[c].cmd.args)), sb, h[c].targets)
         /\ \A pc, args : h' = [h EXCEPT ![c].cmd.args = args, ![c].pc = pc]
              => Set(c, pc, h[c].sent, With(h[c].cmd, args), h[c].subs, h[c].targets)
         /\ \A pc, args : h' = [h EXCEPT ![c].pc = pc, ![c].cmd.args = args]
              => Set(c, pc, h[c].sent, With(h[c].cmd, args), h[c].subs, h[c].targets)
         /\ \A pc, cmd, sb :
              h' = [h EXCEPT ![c] = [h[c] EXCEPT !.cmd = cmd, !.subs = sb, !.pc = pc]]
              => Set(c, pc, h[c].sent, cmd, sb, h[c].targets)
         /\ \A args \in Seq(Channels) : With(h[c].cmd, args) \in Command
  <1>1. \A args : [h[c].cmd EXCEPT !.args = args] = With(h[c].cmd, args)
    BY DEF Command, With
  <1>2. \A pc, cmd, sb :
          /\ h' = [h EXCEPT ![c] = [h[c] EXCEPT !.cmd = cmd, !.subs = sb, !.pc = pc]]
              => Set(c, pc, h[c].sent, cmd, sb, h[c].targets)
          /\ h' = [h EXCEPT ![c] = [h[c] EXCEPT !.cmd = cmd, !.pc = pc]]
              => Set(c, pc, h[c].sent, cmd, h[c].subs, h[c].targets)
          /\ h' = [h EXCEPT ![c] = [h[c] EXCEPT !.pc = pc, !.cmd = cmd]]
              => Set(c, pc, h[c].sent, cmd, h[c].subs, h[c].targets)
    BY ZenonT(60) DEF Set, Handlers
  <1>3. ASSUME NEW sb, NextArg(c, sb)
        PROVE  Set(c, IF Tail(h[c].cmd.args) # <<>> THEN h[c].pc ELSE "flush", h[c].sent,
                     With(h[c].cmd, Tail(h[c].cmd.args)), sb, h[c].targets)
    <2> DEFINE rest == Tail(h[c].cmd.args)
               cmd == With(h[c].cmd, rest)
    <2>1. h' = [h EXCEPT ![c] = [h[c] EXCEPT !.cmd = [h[c].cmd EXCEPT !.args = rest], !.subs = sb,
                                            !.pc = IF rest # <<>> THEN h[c].pc ELSE "flush"]]
      BY <1>3 DEF NextArg, Handlers
    <2> QED
      BY <1>1, <1>2, <2>1
  <1>4. ASSUME NEW pc, NEW args, h' = [h EXCEPT ![c].cmd.args = args, ![c].pc = pc]
        PROVE  Set(c, pc, h[c].sent, With(h[c].cmd, args), h[c].subs, h[c].targets)
    <2>1. h' = [h EXCEPT ![c] = [h[c] EXCEPT !.cmd = [h[c].cmd EXCEPT !.args = args], !.pc = pc]]
      BY <1>4 DEF Handlers
    <2> QED
      BY <1>1, <1>2, <2>1
  <1>5. ASSUME NEW pc, NEW args, h' = [h EXCEPT ![c].pc = pc, ![c].cmd.args = args]
        PROVE  Set(c, pc, h[c].sent, With(h[c].cmd, args), h[c].subs, h[c].targets)
    <2>1. h' = [h EXCEPT ![c] = [h[c] EXCEPT !.pc = pc, !.cmd = [h[c].cmd EXCEPT !.args = args]]]
      BY <1>5 DEF Handlers
    <2> QED
      BY <1>1, <1>2, <2>1
  <1>6. ASSUME NEW args \in Seq(Channels) PROVE With(h[c].cmd, args) \in Command
    BY DEF With, Command
  <1> QED
    BY <1>2, <1>3, <1>4, <1>5, <1>6

LEMMA PCNames ==
  /\ "none" \in PCs /\ "refused" \in PCs /\ "started" \in PCs /\ "read" \in PCs
  /\ "want" \in PCs /\ "subscribe" \in PCs /\ "confirm" \in PCs /\ "unsubscribe" \in PCs
  /\ "publish" \in PCs /\ "flush" \in PCs /\ "cleanup" \in PCs /\ "done" \in PCs
  /\ NoCommand \in Command
  BY DEF PCs, NoCommand, Command

\* The arguments of a command that has some.
LEMMA Arguments ==
  ASSUME NEW args \in Seq(Channels), args # <<>>
  PROVE  /\ Head(args) \in Channels /\ Tail(args) \in Seq(Channels)
         /\ Head(args) \in ToSet(args) /\ ToSet(Tail(args)) \subseteq ToSet(args)
  BY DEF ToSet

\* The steps of the handler of c that leave the broker and the deliveries alone.
Quiet(c) ==
  \/ Accept(c) \/ Start(c) \/ ReadCommand(c) \/ ReadError(c)
  \/ NotAllowed(c) \/ Ping(c) \/ SubscribeStart(c) \/ AlreadySubscribed(c) \/ Confirm(c)
  \/ UnsubscribeStart(c) \/ PublishStart(c) \/ Published(c) \/ Flush(c)

LEMMA GotoEffect ==
  ASSUME TypeOK, NEW c \in Conns
  PROVE  /\ \A pc \in PCs : Goto(c, pc)
              => Becomes(c, pc, h[c].sent, h[c].cmd, h[c].subs, h[c].targets)
         /\ Loop(c) => Becomes(c, IF run # "serving" THEN "cleanup" ELSE "read",
                               h[c].sent, NoCommand, h[c].subs, h[c].targets)
  <1>0. /\ h \in [Conns -> Handlers] /\ h[c].sent \in Nat /\ h[c].cmd \in Command
        /\ h[c].subs \in SUBSET Subscription /\ h[c].targets \in SUBSET Subscription
    BY ServerTypes
  <1>1. ASSUME NEW pc \in PCs, Goto(c, pc)
        PROVE  Becomes(c, pc, h[c].sent, h[c].cmd, h[c].subs, h[c].targets)
    <2>1. Set(c, pc, h[c].sent, h[c].cmd, h[c].subs, h[c].targets)
      BY <1>0, <1>1, SetForms
    <2> QED
      BY <1>0, <1>1, <2>1, SetEffect
  <1>2. ASSUME Loop(c)
        PROVE  Becomes(c, IF run # "serving" THEN "cleanup" ELSE "read",
                       h[c].sent, NoCommand, h[c].subs, h[c].targets)
    <2> DEFINE pc == IF run # "serving" THEN "cleanup" ELSE "read"
    <2>1. Set(c, pc, h[c].sent, NoCommand, h[c].subs, h[c].targets)
      BY <1>0, <1>2, SetForms
    <2>2. pc \in PCs /\ NoCommand \in Command
      BY PCNames
    <2> HIDE DEF pc
    <2>3. Becomes(c, pc, h[c].sent, NoCommand, h[c].subs, h[c].targets)
      BY <1>0, <2>1, <2>2, SetEffect
    <2> QED
      BY <2>3 DEF pc
  <1> QED
    BY <1>1, <1>2

LEMMA CommandEffect ==
  ASSUME TypeOK, NEW c \in Conns, ReadCommand(c)
  PROVE  \E cmd \in Script[c][h[c].sent + 1] :
            /\ cmd \in Command
            /\ cmd.op = "PUBLISH" => cmd.args # <<>>
            /\ cmd.op = "SUBSCRIBE" => \A ch \in ToSet(cmd.args) : NextSub(c, ch) <= MaxSubs[c]
            /\ Becomes(c, "want", h[c].sent + 1, cmd, h[c].subs, h[c].targets)
  <1>0. /\ h \in [Conns -> Handlers] /\ h[c].sent \in Nat
        /\ h[c].subs \in SUBSET Subscription /\ h[c].targets \in SUBSET Subscription
    BY ServerTypes
  <1>1. PICK cmd \in Script[c][h[c].sent + 1] :
          /\ cmd.op = "SUBSCRIBE" => \A ch \in ToSet(cmd.args) : NextSub(c, ch) <= MaxSubs[c]
          /\ h' = [h EXCEPT ![c].pc = "want", ![c].cmd = cmd, ![c].sent = @ + 1]
    BY DEF ReadCommand
  <1>2. h[c].sent + 1 \in DOMAIN Script[c] /\ h[c].sent + 1 \in Nat
    BY <1>0, ScriptAssumption DEF ReadCommand
  <1>3. cmd \in Command /\ (cmd.op = "PUBLISH" => cmd.args # <<>>)
    <2>1. Script[c] \in Seq(SUBSET Command)
      BY ScriptAssumption
    <2>2. Script[c][h[c].sent + 1] \in SUBSET Command
      BY <1>2, <2>1
    <2> QED
      BY <1>2, <2>2, ScriptAssumption
  <1>4. Set(c, "want", h[c].sent + 1, cmd, h[c].subs, h[c].targets)
    BY <1>0, <1>1, SetForms
  <1>5. Becomes(c, "want", h[c].sent + 1, cmd, h[c].subs, h[c].targets)
    BY <1>0, <1>2, <1>3, <1>4, SetEffect, PCNames
  <1> QED
    BY <1>1, <1>3, <1>5

\* The loops over the arguments of SUBSCRIBE and UNSUBSCRIBE.
LEMMA NextArgEffect ==
  ASSUME TypeOK, NEW c \in Conns, h[c].cmd.args # <<>>, NEW sb \in SUBSET Subscription,
         NextArg(c, sb)
  PROVE  Becomes(c, IF Tail(h[c].cmd.args) # <<>> THEN h[c].pc ELSE "flush", h[c].sent,
                 With(h[c].cmd, Tail(h[c].cmd.args)), sb, h[c].targets)
  <1> DEFINE cmd == With(h[c].cmd, Tail(h[c].cmd.args))
             pc == IF Tail(h[c].cmd.args) # <<>> THEN h[c].pc ELSE "flush"
  <1>0. /\ h \in [Conns -> Handlers] /\ h[c].sent \in Nat /\ h[c].cmd \in Command
        /\ h[c].targets \in SUBSET Subscription /\ h[c].cmd.args \in Seq(Channels)
        /\ h[c].pc \in PCs
    BY ServerTypes
  <1>1. Set(c, pc, h[c].sent, cmd, sb, h[c].targets)
    BY <1>0, ArgsForms
  <1>2. pc \in PCs
    BY <1>0, PCNames
  <1>3. cmd \in Command
    BY <1>0, Arguments, ArgsForms
  <1> HIDE DEF cmd, pc
  <1>4. Becomes(c, pc, h[c].sent, cmd, sb, h[c].targets)
    BY <1>0, <1>1, <1>2, <1>3, SetEffect
  <1> QED
    BY <1>4 DEF cmd, pc

LEMMA FailsEffect ==
  ASSUME TypeOK, NEW c \in Conns, NEW sb \in SUBSET Subscription, ReplyFails(c, sb)
  PROVE  \E cmd \in Command : Becomes(c, "flush", h[c].sent, cmd, sb, h[c].targets)
  <1> DEFINE cmd == [op |-> "QUIT", args |-> <<>>]
  <1>0. /\ h \in [Conns -> Handlers] /\ h[c].sent \in Nat /\ h[c].cmd \in Command
        /\ h[c].targets \in SUBSET Subscription
    BY ServerTypes
  <1>1. cmd \in Command
    BY DEF Command
  <1>2. h' = [h EXCEPT ![c] = [h[c] EXCEPT !.cmd = cmd, !.subs = sb, !.pc = "flush"]]
    BY <1>0 DEF ReplyFails
  <1> HIDE DEF cmd
  <1>3. Set(c, "flush", h[c].sent, cmd, sb, h[c].targets)
    BY <1>0, <1>2, ArgsForms
  <1>4. Becomes(c, "flush", h[c].sent, cmd, sb, h[c].targets)
    BY <1>0, <1>1, <1>3, SetEffect, PCNames
  <1> QED
    BY <1>1, <1>4

\* Such a loop goes on with the other arguments, or has come to its end.
Onward(c, loop, pc, cmd) ==
  \/ pc = loop /\ Tail(h[c].cmd.args) # <<>> /\ cmd = With(h[c].cmd, Tail(h[c].cmd.args))
  \/ pc = "flush" /\ cmd \in Command

LEMMA ConfirmEffect ==
  ASSUME TypeOK, NEW c \in Conns, h[c].cmd.args # <<>>, Confirm(c)
  PROVE  \E pc, cmd : /\ Onward(c, "subscribe", pc, cmd)
                      /\ Becomes(c, pc, h[c].sent, cmd, h[c].subs, h[c].targets)
  <1> DEFINE rest == Tail(h[c].cmd.args)
             cmd == With(h[c].cmd, rest)
             pc == IF rest # <<>> THEN "subscribe" ELSE "flush"
  <1>0. /\ h \in [Conns -> Handlers] /\ h[c].sent \in Nat /\ h[c].cmd \in Command
        /\ h[c].subs \in SUBSET Subscription
        /\ h[c].targets \in SUBSET Subscription /\ h[c].cmd.args \in Seq(Channels)
    BY ServerTypes
  <1>1. \/ h' = [h EXCEPT ![c].cmd.args = rest, ![c].pc = pc]
        \/ ReplyFails(c, h[c].subs)
    BY DEF Confirm
  <1>2. pc \in PCs
    BY PCNames
  <1>3. cmd \in Command
    BY <1>0, Arguments, ArgsForms
  <1>4. Onward(c, "subscribe", pc, cmd)
    BY <1>3 DEF Onward
  <1>5. CASE h' = [h EXCEPT ![c].cmd.args = rest, ![c].pc = pc]
    <2> HIDE DEF pc, rest
    <2>1. Set(c, pc, h[c].sent, cmd, h[c].subs, h[c].targets)
      BY <1>0, <1>5, ArgsForms
    <2> HIDE DEF cmd
    <2>2. Becomes(c, pc, h[c].sent, cmd, h[c].subs, h[c].targets)
      BY <1>0, <1>2, <1>3, <2>1, SetEffect
    <2> QED
      BY <1>4, <2>2
  <1>6. CASE ReplyFails(c, h[c].subs)
    BY <1>0, <1>6, FailsEffect DEF Onward
  <1> QED
    BY <1>1, <1>5, <1>6

LEMMA UnsubscribeEffect ==
  ASSUME TypeOK, NEW c \in Conns, IsFiniteSet(h[c].subs), UnsubscribeStart(c)
  PROVE  \E args \in Seq(Channels) :
            Becomes(c, IF args = <<>> THEN "flush" ELSE "unsubscribe", h[c].sent,
                    With(h[c].cmd, args), h[c].subs, h[c].targets)
  <1>0. /\ h \in [Conns -> Handlers] /\ h[c].sent \in Nat /\ h[c].cmd \in Command
        /\ h[c].subs \in SUBSET Subscription
        /\ h[c].targets \in SUBSET Subscription /\ h[c].cmd.args \in Seq(Channels)
    BY ServerTypes
  <1> DEFINE Own == {s[2] : s \in h[c].subs}
             Pc(args) == IF args = <<>> THEN "flush" ELSE "unsubscribe"
  <1>1. PICK args \in IF h[c].cmd.args # <<>> THEN {h[c].cmd.args} ELSE SetToSeqs(Own) :
          h' = [h EXCEPT ![c].pc = Pc(args), ![c].cmd.args = args]
    BY DEF UnsubscribeStart
  <1>2. args \in Seq(Channels)
    <2>1. Own \subseteq Channels
      BY <1>0, SubscriptionIs
    <2>2. IsFiniteSet(Own)
      <3> DEFINE f == [s \in h[c].subs |-> s[2]]
      <3>1. f \in Surjection(h[c].subs, Own)
        BY DEF Surjection
      <3> HIDE DEF f, Own
      <3> QED
        BY <3>1, FS_Surjection
    <2>3. Cardinality(Own) \in Nat
      BY <2>2, FS_CardinalityType
    <2> HIDE DEF Own
    <2>4. CASE args \in SetToSeqs(Own)
      <3>1. args \in [1 .. Cardinality(Own) -> Own]
        BY <2>4 DEF SetToSeqs
      <3>2. args \in [1 .. Cardinality(Own) -> Channels]
        BY <2>1, <3>1
      <3> QED
        BY <2>3, <3>2
    <2> QED
      BY <1>0, <1>1, <2>4
  <1>3. Pc(args) \in PCs
    BY PCNames
  <1>4. With(h[c].cmd, args) \in Command
    BY <1>0, <1>2, ArgsForms
  <1> HIDE DEF Pc
  <1>5. Set(c, Pc(args), h[c].sent, With(h[c].cmd, args), h[c].subs, h[c].targets)
    BY <1>0, <1>1, ArgsForms
  <1>6. Becomes(c, Pc(args), h[c].sent, With(h[c].cmd, args), h[c].subs, h[c].targets)
    BY <1>0, <1>3, <1>4, <1>5, SetEffect
  <1> QED
    BY <1>2, <1>6 DEF Pc

LEMMA PublishEffect ==
  ASSUME TypeOK, NEW c \in Conns, PublishStart(c)
  PROVE  Becomes(c, "publish", h[c].sent, h[c].cmd, h[c].subs, Targets(Head(h[c].cmd.args)))
  <1>0. /\ h \in [Conns -> Handlers] /\ h[c].sent \in Nat /\ h[c].cmd \in Command
        /\ h[c].subs \in SUBSET Subscription
    BY ServerTypes
  <1>1. Targets(Head(h[c].cmd.args)) \in SUBSET Subscription
    BY DEF Targets, TypeOK
  <1>2. Set(c, "publish", h[c].sent, h[c].cmd, h[c].subs, Targets(Head(h[c].cmd.args)))
    BY <1>0, SetForms DEF PublishStart
  <1> QED
    BY <1>0, <1>1, <1>2, SetEffect, PCNames

LEMMA InvParts ==
  ASSUME ServerInv
  PROVE  /\ TypeOK /\ HistoryType /\ BrokerOK /\ CountOK /\ NumbersOK
         /\ \A c \in Conns : HandlerOK(c) /\ WriterOK(c) /\ ReturnedOK(c)
         /\ \A s \in Subscription : DeliveryOK(s)
  BY DEF ServerInv

\* s is the subscription that Register(c) makes.
Registers(c, s) ==
  /\ s \in Subscription /\ s[1] = c /\ s[2] = Head(h[c].cmd.args) /\ s[3] = NextSub(c, s[2])
  /\ dl[s] = "off" /\ ~Subscribed(c, s[2])
  /\ Becomes(c, "confirm", h[c].sent, h[c].cmd, h[c].subs \cup {s}, h[c].targets)
  /\ Subscribe(s)
  /\ dl' = [dl EXCEPT ![s] = "recv"]
  /\ UNCHANGED <<run, clients, mu, peers, history, hand>>

LEMMA RegisterEffect ==
  ASSUME ServerInv, NEW c \in Conns, Register(c)
  PROVE  \E s : Registers(c, s)
  <1> DEFINE ch == Head(h[c].cmd.args)
             n == NextSub(c, ch)
             s == <<c, ch, n>>
  <1>0. /\ h \in [Conns -> Handlers] /\ h[c].sent \in Nat /\ h[c].cmd \in Command
        /\ h[c].subs \in SUBSET Subscription
        /\ h[c].targets \in SUBSET Subscription /\ h[c].cmd.args \in Seq(Channels)
    BY InvParts, ServerTypes
  <1>1. h[c].pc = "subscribe" /\ ~Subscribed(c, ch)
    BY DEF Register, At
  <1>2. h[c].cmd.args # <<>>
    BY <1>1, InvParts DEF HandlerOK, ArgsOK
  <1>3. ch \in Channels /\ ch \in ToSet(h[c].cmd.args)
    BY <1>0, <1>2, Arguments
  <1>4. n <= MaxSubs[c]
    BY <1>1, <1>3, InvParts DEF HandlerOK, ArgsOK
  <1>5. /\ n = 1 + Cardinality(Made(dl, c, ch)) /\ Cardinality(Made(dl, c, ch)) \in Nat
        /\ \A k \in 1 .. MaxSubs[c] :
             dl[<<c, ch, k>>] # "off" <=> k <= Cardinality(Made(dl, c, ch))
    BY <1>3, InvParts, Numbering DEF NumbersOK, NextSub, Made
  <1>6. MaxSubs[c] \in Nat
    BY MaxSubsAssumption
  <1>7. n \in 1 .. MaxSubs[c] /\ ~(n <= Cardinality(Made(dl, c, ch)))
    BY <1>4, <1>5, <1>6
  <1>8. dl[s] = "off"
    BY <1>5, <1>7
  <1>9. s \in Subscription
    BY <1>3, <1>7, SubscriptionIs
  <1>10. /\ h' = [h EXCEPT ![c].pc = "confirm", ![c].subs = @ \cup {s}]
         /\ Subscribe(s) /\ dl' = [dl EXCEPT ![s] = "recv"]
         /\ UNCHANGED <<run, clients, mu, peers, history, hand>>
    BY DEF Register
  <1>11. s[1] = c /\ s[2] = ch /\ s[3] = n
    OBVIOUS
  <1> HIDE DEF s, n
  <1>12. Set(c, "confirm", h[c].sent, h[c].cmd, h[c].subs \cup {s}, h[c].targets)
    BY <1>0, <1>10, SetForms
  <1>13. h[c].subs \cup {s} \in SUBSET Subscription
    BY <1>0, <1>9
  <1>14. Becomes(c, "confirm", h[c].sent, h[c].cmd, h[c].subs \cup {s}, h[c].targets)
    BY <1>0, <1>12, <1>13, SetEffect, PCNames
  <1>15. Registers(c, s)
    BY <1>1, <1>8, <1>9, <1>10, <1>11, <1>14 DEF Registers, n
  <1> QED
    BY <1>15

\* Of the subscriptions of c, only s is dropped.
Drops(c, s) ==
  /\ s \in h[c].subs
  /\ h'[c].subs = h[c].subs \ {s}
  /\ Unsubscribe(s)

LEMMA UnregisterEffect ==
  ASSUME ServerInv, NEW c \in Conns, Unregister(c)
  PROVE  /\ h[c].pc = "unsubscribe" /\ h[c].cmd.args # <<>>
         /\ \E pc, cmd, sb : /\ Onward(c, "unsubscribe", pc, cmd)
                             /\ Becomes(c, pc, h[c].sent, cmd, sb, h[c].targets)
         /\ \/ \E s : Drops(c, s)
            \/ h'[c].subs = h[c].subs /\ UNCHANGED broker
         /\ UNCHANGED <<run, clients, mu, peers, history, delivery>>
  <1> DEFINE ch == Head(h[c].cmd.args)
             left == {s \in h[c].subs : s[2] # ch}
  <1>0. TypeOK /\ HandlerOK(c) /\ h[c].subs \in SUBSET Subscription /\ h[c].cmd \in Command
        /\ h \in [Conns -> Handlers] /\ h[c].cmd.args \in Seq(Channels)
    BY InvParts, ServerTypes
  <1>1. h[c].pc = "unsubscribe" /\ h[c].cmd.args # <<>>
    BY <1>0 DEF Unregister, At, HandlerOK, ArgsOK
  <1>2. (NextArg(c, left) \/ ReplyFails(c, left)) /\ left \in SUBSET Subscription
    BY <1>0 DEF Unregister
  <1> HIDE DEF left
  <1>3. PICK pc, cmd : /\ Onward(c, "unsubscribe", pc, cmd)
                       /\ Becomes(c, pc, h[c].sent, cmd, left, h[c].targets)
    <2> DEFINE rest == With(h[c].cmd, Tail(h[c].cmd.args))
               to == IF Tail(h[c].cmd.args) # <<>> THEN "unsubscribe" ELSE "flush"
    <2>1. CASE NextArg(c, left)
      <3>1. Becomes(c, to, h[c].sent, rest, left, h[c].targets)
        BY <1>0, <1>1, <1>2, <2>1, NextArgEffect
      <3>2. rest \in Command
        BY <1>0, <1>1, Arguments, ArgsForms
      <3>3. Onward(c, "unsubscribe", to, rest)
        BY <3>2 DEF Onward
      <3> QED
        BY <3>1, <3>3
    <2>2. CASE ReplyFails(c, left)
      BY <1>0, <1>2, <2>2, FailsEffect DEF Onward
    <2> QED
      BY <1>2, <2>1, <2>2
  <1>4. h'[c].subs = left
    BY <1>3 DEF Becomes
  <1>5. CASE Subscribed(c, ch)
    <2>1. PICK s \in h[c].subs : s[2] = ch /\ Unsubscribe(s)
      BY <1>5 DEF Unregister
    <2>2. \A t \in h[c].subs : t[2] = ch => t = s
      BY <1>0, <2>1 DEF HandlerOK, ArgsOK
    <2>3. left = h[c].subs \ {s}
      BY <2>1, <2>2 DEF left
    <2>4. Drops(c, s)
      BY <1>4, <2>1, <2>3 DEF Drops
    <2> QED
      BY <1>1, <1>3, <2>4 DEF Unregister
  <1>6. CASE ~Subscribed(c, ch)
    <2>1. left = h[c].subs
      BY <1>6 DEF left, Subscribed
    <2>2. UNCHANGED broker
      BY <1>6 DEF Unregister
    <2> QED
      BY <1>1, <1>3, <1>4, <2>1, <2>2 DEF Unregister
  <1> QED
    BY <1>5, <1>6

LEMMA CleanupEffect ==
  ASSUME TypeOK, NEW c \in Conns, Cleanup(c)
  PROVE  \E s : Drops(c, s) /\ Becomes(c, h[c].pc, h[c].sent, h[c].cmd, h[c].subs \ {s},
                                       h[c].targets)
  <1>0. /\ h \in [Conns -> Handlers] /\ h[c].sent \in Nat /\ h[c].cmd \in Command
        /\ h[c].subs \in SUBSET Subscription /\ h[c].pc \in PCs
        /\ h[c].targets \in SUBSET Subscription
    BY ServerTypes
  <1>1. PICK s \in h[c].subs : Unsubscribe(s) /\ h' = [h EXCEPT ![c].subs = @ \ {s}]
    BY DEF Cleanup
  <1>2. Set(c, h[c].pc, h[c].sent, h[c].cmd, h[c].subs \ {s}, h[c].targets)
    BY <1>0, <1>1, SetForms
  <1>3. h[c].subs \ {s} \in SUBSET Subscription
    BY <1>0
  <1>4. Becomes(c, h[c].pc, h[c].sent, h[c].cmd, h[c].subs \ {s}, h[c].targets)
    BY <1>0, <1>2, <1>3, SetEffect
  <1> QED
    BY <1>1, <1>4 DEF Becomes, Drops

LEMMA SendEffect ==
  ASSUME TypeOK, NEW c \in Conns, PublishSend(c)
  PROVE  \E s \in h[c].targets :
            /\ Send(s, Msg(c))
            /\ Becomes(c, h[c].pc, h[c].sent, h[c].cmd, h[c].subs, h[c].targets \ {s})
            /\ accepted' = IF Room(s) /\ s[1] \in up
                           THEN [accepted EXCEPT ![s] = Append(@, Msg(c))] ELSE accepted
  <1>0. /\ h \in [Conns -> Handlers] /\ h[c].sent \in Nat /\ h[c].cmd \in Command
        /\ h[c].subs \in SUBSET Subscription /\ h[c].pc \in PCs
        /\ h[c].targets \in SUBSET Subscription
    BY ServerTypes
  <1>1. PICK s \in h[c].targets :
          /\ Send(s, Msg(c))
          /\ h' = [h EXCEPT ![c].targets = @ \ {s}]
          /\ accepted' = IF Room(s) /\ s[1] \in up
                         THEN [accepted EXCEPT ![s] = Append(@, Msg(c))] ELSE accepted
    BY DEF PublishSend
  <1>2. Set(c, h[c].pc, h[c].sent, h[c].cmd, h[c].subs, h[c].targets \ {s})
    BY <1>0, <1>1, SetForms
  <1>3. h[c].targets \ {s} \in SUBSET Subscription
    BY <1>0
  <1>4. Becomes(c, h[c].pc, h[c].sent, h[c].cmd, h[c].subs, h[c].targets \ {s})
    BY <1>0, <1>2, <1>3, SetEffect
  <1> QED
    BY <1>1, <1>4

LEMMA ReturnEffect ==
  ASSUME TypeOK, NEW c \in Conns, Return(c)
  PROVE  Becomes(c, "done", 0, NoCommand, {}, {})
  <1>1. Set(c, "done", 0, NoCommand, {}, {})
    BY ServerTypes, SetForms DEF Return
  <1>2. h \in [Conns -> Handlers] /\ {} \in SUBSET Subscription /\ 0 \in Nat
    BY ServerTypes
  <1> QED
    BY <1>1, <1>2, SetEffect, PCNames

----------------------------------------------------------------------------
(* Quiet steps *)

\* The handler of c goes on, and takes or releases writeMu accordingly.
Passes(c) ==
  /\ h' \in [Conns -> Handlers]
  /\ \A d \in Conns : d # c => h'[d] = h[d]
  /\ h'[c].subs = h[c].subs
  /\ h'[c].pc # "none" /\ h'[c].pc # "confirm" /\ h[c].pc # "done"
  /\ h'[c].sent = IF h'[c].pc = "want" THEN h[c].sent + 1 ELSE h[c].sent
  /\ h'[c].pc = "publish" => /\ h[c].pc = "want"
                             /\ h'[c].targets = Targets(Head(h[c].cmd.args))
  /\ h'[c].pc \in Uncounted => h[c].pc \in Uncounted
  /\ \/ mu' = mu /\ (h[c].pc \in Writing <=> h'[c].pc \in Writing)
     \/ mu[c] = "free" /\ mu' = [mu EXCEPT ![c] = "handler"] /\ h'[c].pc \in Writing
     \/ h[c].pc \in Writing /\ mu' = [mu EXCEPT ![c] = "free"] /\ h'[c].pc \notin Writing
  /\ \/ clients' = clients /\ (h[c].pc \in Uncounted => h'[c].pc \in Uncounted)
     \/ clients' = clients + 1 /\ h[c].pc \in Uncounted /\ h'[c].pc \notin Uncounted

LEMMA QuietPasses ==
  ASSUME ServerInv, NEW c \in Conns, Quiet(c)
  PROVE  Passes(c)
  <1>0. TypeOK /\ HandlerOK(c) /\ h[c].subs \in SUBSET Subscription
    BY InvParts, ServerTypes
  <1>1. CASE Accept(c)
    <2>1. PICK pc \in {"refused", "started"} :
            Becomes(c, pc, h[c].sent, h[c].cmd, h[c].subs, h[c].targets)
      BY <1>0, <1>1, GotoEffect, PCNames DEF Accept
    <2> QED
      BY <1>1, <2>1 DEF Becomes, Passes, Accept, Uncounted, Writing
  <1>2. CASE Start(c)
    <2>1. PICK pc \in {"cleanup", "read"} :
            Becomes(c, pc, h[c].sent, NoCommand, h[c].subs, h[c].targets)
      BY <1>0, <1>2, GotoEffect DEF Start
    <2> QED
      BY <1>2, <2>1 DEF Becomes, Passes, Start, At, Uncounted, Writing
  <1>3. CASE ReadCommand(c)
    <2>1. PICK cmd : Becomes(c, "want", h[c].sent + 1, cmd, h[c].subs, h[c].targets)
      BY <1>0, <1>3, CommandEffect
    <2> QED
      BY <1>3, <2>1 DEF Becomes, Passes, ReadCommand, At, Uncounted, Writing
  <1>4. CASE ReadError(c)
    <2>1. Becomes(c, "cleanup", h[c].sent, h[c].cmd, h[c].subs, h[c].targets)
      BY <1>0, <1>4, GotoEffect, PCNames DEF ReadError
    <2> QED
      BY <1>4, <2>1 DEF Becomes, Passes, ReadError, At, Uncounted, Writing
  <1>5. CASE NotAllowed(c) \/ Ping(c)
    <2>1. Becomes(c, "flush", h[c].sent, h[c].cmd, h[c].subs, h[c].targets)
      BY <1>0, <1>5, GotoEffect, PCNames DEF NotAllowed, Ping
    <2> QED
      BY <1>5, <2>1 DEF Becomes, Passes, NotAllowed, Ping, Dispatch, At, Uncounted, Writing
  <1>6. CASE SubscribeStart(c)
    <2>1. PICK pc \in {"flush", "subscribe"} :
            Becomes(c, pc, h[c].sent, h[c].cmd, h[c].subs, h[c].targets)
      BY <1>0, <1>6, GotoEffect, PCNames DEF SubscribeStart
    <2> QED
      BY <1>6, <2>1 DEF Becomes, Passes, SubscribeStart, Dispatch, At, Uncounted, Writing
  <1>7. CASE AlreadySubscribed(c)
    <2>1. h[c].pc = "subscribe" /\ h[c].cmd.args # <<>>
      BY <1>0, <1>7 DEF AlreadySubscribed, At, HandlerOK, ArgsOK
    <2>2. PICK pc, cmd :
            /\ pc \in {"subscribe", "flush"}
            /\ Becomes(c, pc, h[c].sent, cmd, h[c].subs, h[c].targets)
      BY <1>0, <1>7, <2>1, NextArgEffect DEF AlreadySubscribed
    <2> QED
      BY <1>7, <2>1, <2>2 DEF Becomes, Passes, AlreadySubscribed, Uncounted, Writing
  <1>8. CASE Confirm(c)
    <2>1. h[c].pc = "confirm" /\ h[c].cmd.args # <<>>
      BY <1>0, <1>8 DEF Confirm, At, HandlerOK, ArgsOK
    <2>2. PICK pc, cmd :
            /\ pc \in {"subscribe", "flush"}
            /\ Becomes(c, pc, h[c].sent, cmd, h[c].subs, h[c].targets)
      BY <1>0, <1>8, <2>1, ConfirmEffect DEF Onward
    <2> QED
      BY <1>8, <2>1, <2>2 DEF Becomes, Passes, Confirm, Uncounted, Writing
  <1>9. CASE UnsubscribeStart(c)
    <2>1. PICK pc, cmd :
            /\ pc \in {"flush", "unsubscribe"}
            /\ Becomes(c, pc, h[c].sent, cmd, h[c].subs, h[c].targets)
      <3>1. IsFiniteSet(h[c].subs)
        BY <1>0 DEF HandlerOK, ArgsOK
      <3> QED
        BY <1>0, <1>9, <3>1, UnsubscribeEffect
    <2> QED
      BY <1>9, <2>1 DEF Becomes, Passes, UnsubscribeStart, Dispatch, At, Uncounted, Writing
  <1>10. CASE PublishStart(c)
    <2>1. Becomes(c, "publish", h[c].sent, h[c].cmd, h[c].subs, Targets(Head(h[c].cmd.args)))
      BY <1>0, <1>10, PublishEffect
    <2> QED
      BY <1>10, <2>1 DEF Becomes, Passes, PublishStart, Dispatch, At, Uncounted, Writing
  <1>11. CASE Published(c)
    <2>1. Becomes(c, "flush", h[c].sent, h[c].cmd, h[c].subs, h[c].targets)
      BY <1>0, <1>11, GotoEffect, PCNames DEF Published
    <2> QED
      BY <1>11, <2>1 DEF Becomes, Passes, Published, At, Uncounted, Writing
  <1>12. CASE Flush(c)
    <2>1. PICK pc, cmd :
            /\ pc \in {"read", "cleanup"}
            /\ Becomes(c, pc, h[c].sent, cmd, h[c].subs, h[c].targets)
      BY <1>0, <1>12, GotoEffect, PCNames DEF Flush
    <2> QED
      BY <1>12, <2>1 DEF Becomes, Passes, Flush, At, Uncounted, Writing
  <1> QED
    BY <1>1, <1>2, <1>3, <1>4, <1>5, <1>6, <1>7, <1>8, <1>9, <1>10, <1>11, <1>12 DEF Quiet

\* The rest of the state.
LEMMA QuietElse ==
  ASSUME ServerInv, NEW c \in Conns, Quiet(c)
  PROVE  /\ UNCHANGED <<broker, run, delivery, stalled, accepted>>
         /\ Running
         /\ \/ up' = up
            \/ h[c].pc = "none" /\ up' = up \ {c}
         /\ \/ out' = out
            \/ Confirm(c) /\ out' = Written(c, <<"subscribe", Head(h[c].cmd.args)>>)
  BY DEF Quiet, Accept, Start, ReadCommand, ReadError, NotAllowed, Ping, SubscribeStart,
         AlreadySubscribed, Confirm, UnsubscribeStart, PublishStart, Published, Flush, Dispatch,
         At, Running, delivery, history, peers

----------------------------------------------------------------------------
(* Types *)

LEMMA WrittenType ==
  ASSUME HistoryType, NEW c \in Conns, NEW reply \in Thing
  PROVE  Written(c, reply) \in [Conns -> Seq(Thing)]
  BY DEF Written, HistoryType

LEMMA ClosedType ==
  ASSUME HistoryType, TypeOK, NEW c \in Conns, Closed(c)
  PROVE  up' \subseteq Conns /\ stalled' \subseteq up' /\ HistoryType'
  <1>1. <<>> \in Seq(Thing) /\ <<>> \in Seq(Message)
    OBVIOUS
  <1>2. up' \subseteq Conns /\ stalled' \subseteq up'
    BY DEF Closed, TypeOK
  <1>3. out' \in [Conns -> Seq(Thing)]
    BY <1>1 DEF Closed, HistoryType
  <1>4. accepted' \in [Subscription -> Seq(Message)]
    BY <1>1 DEF Closed, HistoryType
  <1> QED
    BY <1>2, <1>3, <1>4 DEF HistoryType

LEMMA QuietType ==
  ASSUME ServerInv, NEW c \in Conns, Quiet(c)
  PROVE  TypeOK' /\ HistoryType'
  <1>0. TypeOK /\ HistoryType /\ HandlerOK(c) /\ Passes(c)
    BY InvParts, QuietPasses
  <1>1. UNCHANGED <<subs, C, closed, run, dl, hand, stalled, accepted>>
    BY QuietElse DEF broker, delivery
  <1>2. clients' \in Nat
    BY <1>0 DEF Passes, TypeOK
  <1>3. mu' \in [Conns -> {"free", "handler", "delivery"}]
    BY <1>0 DEF Passes, TypeOK
  <1>4. up' \subseteq Conns /\ stalled' \subseteq up'
    BY <1>0, <1>1, QuietElse DEF TypeOK, HandlerOK, ArgsOK
  <1>5. h' \in [Conns -> Handlers]
    BY <1>0 DEF Passes
  <1>6. TypeOK'
    BY <1>0, <1>1, <1>2, <1>3, <1>4, <1>5 DEF TypeOK, Handlers
  <1>7. out' \in [Conns -> Seq(Thing)]
    <2>1. ASSUME Confirm(c), out' = Written(c, <<"subscribe", Head(h[c].cmd.args)>>)
          PROVE  out' \in [Conns -> Seq(Thing)]
      <3>1. h[c].cmd.args # <<>> /\ h[c].cmd.args \in Seq(Channels)
        BY <1>0, <2>1, ServerTypes DEF Confirm, At, HandlerOK, ArgsOK
      <3>2. <<"subscribe", Head(h[c].cmd.args)>> \in Thing
        BY <3>1, Arguments DEF Thing
      <3> QED
        BY <1>0, <2>1, <3>2, WrittenType
    <2> QED
      BY <1>0, <2>1, QuietElse DEF HistoryType
  <1> QED
    BY <1>0, <1>1, <1>6, <1>7 DEF HistoryType

\* Subscribing and unsubscribing.
LEMMA BrokerType ==
  ASSUME ServerInv, NEW c \in Conns, Register(c) \/ Unregister(c) \/ Cleanup(c)
  PROVE  TypeOK' /\ HistoryType'
  <1>0. TypeOK /\ HistoryType
    BY InvParts
  <1>1. UNCHANGED <<C, run, clients, mu, up, stalled, hand, out, accepted>>
    BY DEF Register, Unregister, Cleanup, Subscribe, Unsubscribe, broker, peers, history, delivery
  <1>2. CASE Register(c)
    <2>1. PICK s : Registers(c, s)
      BY <1>2, RegisterEffect
    <2>2. subs' \subseteq Subscription /\ closed' = closed
      BY <1>0, <2>1 DEF Registers, Subscribe, TypeOK
    <2>3. dl' \in [Subscription -> {"off", "recv", "lock", "push", "ended"}]
      BY <1>0, <2>1 DEF Registers, TypeOK
    <2>4. h' \in [Conns -> Handlers]
      BY <2>1 DEF Registers, Becomes
    <2> QED
      BY <1>0, <1>1, <2>2, <2>3, <2>4 DEF TypeOK, Handlers, HistoryType
  <1>3. CASE Unregister(c) \/ Cleanup(c)
    <2>1. dl' = dl
      BY <1>3 DEF Unregister, Cleanup, delivery
    <2>2. h' \in [Conns -> Handlers]
      BY <1>0, <1>3, UnregisterEffect, CleanupEffect DEF Becomes
    <2>3. subs' \subseteq Subscription /\ closed' \subseteq Subscription
      BY <1>0, <1>3 DEF Unregister, Cleanup, Unsubscribe, TypeOK, broker
    <2> QED
      BY <1>0, <1>1, <2>1, <2>2, <2>3 DEF TypeOK, Handlers, HistoryType
  <1> QED
    BY <1>2, <1>3

LEMMA MsgType ==
  ASSUME ServerInv, NEW c \in Conns, At(c, "publish")
  PROVE  Msg(c) \in Message
  <1>1. /\ h[c].cmd.args \in Seq(Channels) /\ h[c].cmd.args # <<>> /\ h[c].sent \in Nat
    BY InvParts, ServerTypes DEF At, HandlerOK, ArgsOK
  <1> QED
    BY <1>1, Arguments DEF Msg, Message

LEMMA SendType ==
  ASSUME ServerInv, NEW c \in Conns, PublishSend(c)
  PROVE  TypeOK' /\ HistoryType'
  <1>0. TypeOK /\ HistoryType
    BY InvParts
  <1>1. UNCHANGED <<run, clients, mu, up, stalled, dl, hand, out>>
    BY DEF PublishSend, peers, delivery
  <1>2. PICK s \in h[c].targets :
            /\ Send(s, Msg(c))
            /\ Becomes(c, h[c].pc, h[c].sent, h[c].cmd, h[c].subs, h[c].targets \ {s})
            /\ accepted' = IF Room(s) /\ s[1] \in up
                           THEN [accepted EXCEPT ![s] = Append(@, Msg(c))] ELSE accepted
    BY <1>0, SendEffect
  <1>3. Msg(c) \in Message /\ s \in Subscription
    BY <1>0, MsgType, ServerTypes DEF PublishSend
  <1>4. accepted' \in [Subscription -> Seq(Message)]
    BY <1>0, <1>2, <1>3 DEF HistoryType
  <1>5. subs' = subs /\ closed' = closed
    BY <1>2 DEF Send
  <1>6. C' = [C EXCEPT ![s] = IF Room(s) THEN Append(C[s], Msg(c)) ELSE C[s]]
    BY <1>2 DEF Send
  <1>7. C \in [Subscription -> Seq(Message)] /\ \A t \in Subscription : Len(C[t]) <= BufCap
    BY <1>0 DEF TypeOK
  <1>8. C' \in [Subscription -> Seq(Message)]
    BY <1>3, <1>6, <1>7
  <1>9. \A t \in Subscription : Len(C'[t]) <= BufCap
    <2>1. Room(s) => Len(Append(C[s], Msg(c))) <= BufCap
      BY <1>3, <1>7, BufCapAssumption DEF Room
    <2> QED
      BY <1>3, <1>6, <1>7, <2>1
  <1>10. h' \in [Conns -> Handlers]
    BY <1>2 DEF Becomes
  <1> QED
    BY <1>0, <1>1, <1>4, <1>5, <1>8, <1>9, <1>10 DEF TypeOK, Handlers, HistoryType

\* The counter is positive while a handler is counted.
LEMMA CountPositive ==
  ASSUME CountOK, NEW c \in Counted
  PROVE  clients \in Nat /\ clients - 1 \in Nat /\ IsFiniteSet(Counted)
  <1>1. IsFiniteSet(Counted)
    BY FS_Subset, ServerAssumption DEF Counted
  <1>2. Cardinality(Counted) \in Nat /\ Cardinality(Counted) # 0
    BY <1>1, FS_CardinalityType, FS_EmptySet
  <1> QED
    BY <1>1, <1>2 DEF CountOK

LEMMA LeavingType ==
  ASSUME ServerInv, NEW c \in Conns, Return(c) \/ HangUp(c) \/ Stall(c)
  PROVE  TypeOK' /\ HistoryType'
  <1>0. TypeOK /\ HistoryType /\ CountOK
    BY InvParts
  <1>1. UNCHANGED <<subs, C, closed, run, mu, dl, hand>>
    BY DEF Return, HangUp, Stall, broker, delivery
  <1>2. up' \subseteq Conns /\ stalled' \subseteq up' /\ HistoryType'
    <2>1. CASE Stall(c)
      BY <1>0, <2>1 DEF Stall, TypeOK, HistoryType, history
    <2> QED
      BY <1>0, <2>1, ClosedType DEF Return, HangUp
  <1>3. clients' \in Nat
    <2>1. CASE Return(c)
      <3>1. c \in Counted
        BY <2>1 DEF Return, At, Counted, Uncounted
      <3> QED
        BY <1>0, <2>1, <3>1, CountPositive DEF Return
    <2> QED
      BY <1>0, <2>1 DEF HangUp, Stall, TypeOK
  <1>4. h' \in [Conns -> Handlers]
    BY <1>0, ReturnEffect, ServerTypes DEF HangUp, Stall, Becomes
  <1> QED
    BY <1>0, <1>1, <1>2, <1>3, <1>4 DEF TypeOK, Handlers

LEMMA PanicType ==
  ASSUME ServerInv, NEW c \in Conns, PublishPanics(c)
  PROVE  TypeOK' /\ HistoryType'
  <1>1. /\ run' = "panicked" /\ clients' = 0 /\ subs' = {} /\ closed' = {} /\ up' = {}
        /\ stalled' = {} /\ UNCHANGED <<out, accepted>>
        /\ C' = [s \in Subscription |-> <<>>] /\ hand' = [s \in Subscription |-> <<>>]
        /\ h' = [x \in Conns |-> Idle] /\ mu' = [x \in Conns |-> "free"]
        /\ dl' = [s \in Subscription |-> "off"]
    BY DEF PublishPanics, history
  <1>2. Idle \in Handlers
    BY PCNames DEF Idle, Handlers
  <1>3. <<>> \in Seq(Message) /\ Len(<<>>) <= BufCap
    BY BufCapAssumption
  <1>4. /\ C' \in [Subscription -> Seq(Message)] /\ hand' \in [Subscription -> Seq(Message)]
        /\ \A s \in Subscription : Len(C'[s]) <= BufCap
    BY <1>1, <1>3
  <1>5. h' \in [Conns -> Handlers]
    BY <1>1, <1>2
  <1>6. /\ mu' \in [Conns -> {"free", "handler", "delivery"}]
        /\ dl' \in [Subscription -> {"off", "recv", "lock", "push", "ended"}]
    BY <1>1
  <1> QED
    BY <1>1, <1>4, <1>5, <1>6, InvParts DEF TypeOK, Handlers, HistoryType

LEMMA DeliveryType ==
  ASSUME ServerInv, NEW s \in Subscription, Delivery(s)
  PROVE  TypeOK' /\ HistoryType'
  <1>0. TypeOK /\ HistoryType /\ DeliveryOK(s) /\ s[1] \in Conns
    BY InvParts, SubscriptionIs
  <1>1. /\ C \in [Subscription -> Seq(Message)] /\ \A t \in Subscription : Len(C[t]) <= BufCap
        /\ dl \in [Subscription -> {"off", "recv", "lock", "push", "ended"}]
        /\ mu \in [Conns -> {"free", "handler", "delivery"}]
        /\ hand \in [Subscription -> Seq(Message)]
    BY <1>0 DEF TypeOK
  <1>2. CASE Take(s)
    <2>1. /\ C[s] # <<>> /\ C' = [C EXCEPT ![s] = Tail(C[s])]
          /\ hand' = [hand EXCEPT ![s] = <<Head(C[s])>>] /\ dl' = [dl EXCEPT ![s] = "lock"]
          /\ UNCHANGED <<subs, closed, run, clients, h, mu, up, stalled, out, accepted>>
      BY <1>2 DEF Take, Receive, sessions, peers, history
    <2>2. /\ Head(C[s]) \in Message /\ Tail(C[s]) \in Seq(Message)
          /\ Len(Tail(C[s])) <= BufCap /\ <<Head(C[s])>> \in Seq(Message)
      BY <1>1, <2>1, BufCapAssumption
    <2>3. C' \in [Subscription -> Seq(Message)] /\ \A t \in Subscription : Len(C'[t]) <= BufCap
      BY <1>1, <2>1, <2>2
    <2>4. /\ hand' \in [Subscription -> Seq(Message)]
          /\ dl' \in [Subscription -> {"off", "recv", "lock", "push", "ended"}]
      BY <1>1, <2>1, <2>2
    <2> QED
      BY <1>0, <2>1, <2>3, <2>4 DEF TypeOK, HistoryType
  <1>3. CASE LockWriter(s) \/ Finish(s)
    <2>1. UNCHANGED <<subs, C, closed, run, clients, h, hand, up, stalled, out, accepted>>
      BY <1>3 DEF LockWriter, Finish, broker, sessions, peers, history
    <2>2. /\ dl' \in [Subscription -> {"off", "recv", "lock", "push", "ended"}]
          /\ mu' \in [Conns -> {"free", "handler", "delivery"}]
      BY <1>0, <1>1, <1>3 DEF LockWriter, Finish, sessions
    <2> QED
      BY <1>0, <2>1, <2>2 DEF TypeOK, HistoryType
  <1>4. CASE Push(s)
    <2>1. /\ dl[s] = "push" /\ out' = Written(s[1], <<"message", hand[s][1], s>>)
          /\ mu' = [mu EXCEPT ![s[1]] = "free"] /\ hand' = [hand EXCEPT ![s] = <<>>]
          /\ dl' = [dl EXCEPT ![s] = "recv"]
          /\ UNCHANGED <<subs, C, closed, run, clients, h, up, stalled, accepted>>
      BY <1>4 DEF Push, broker, peers
    <2>2. hand[s] \in Seq(Message) /\ Len(hand[s]) = 1
      BY <1>0, <1>1, <2>1 DEF DeliveryOK
    <2>3. hand[s][1] \in Message
      BY <2>2
    <2>4. <<"message", hand[s][1], s>> \in Thing
      BY <2>3 DEF Thing
    <2>5. out' \in [Conns -> Seq(Thing)]
      BY <1>0, <2>1, <2>4, WrittenType
    <2>6. /\ dl' \in [Subscription -> {"off", "recv", "lock", "push", "ended"}]
          /\ mu' \in [Conns -> {"free", "handler", "delivery"}]
      BY <1>0, <1>1, <2>1
    <2>7. hand' \in [Subscription -> Seq(Message)]
      BY <1>1, <2>1
    <2> QED
      BY <1>0, <2>1, <2>5, <2>6, <2>7 DEF TypeOK, HistoryType
  <1> QED
    BY <1>2, <1>3, <1>4 DEF Delivery

LEMMA RunType ==
  ASSUME ServerInv, Shutdown \/ CloseListener \/ Stop
  PROVE  TypeOK' /\ HistoryType'
  <1>1. /\ UNCHANGED <<subs, C, closed, clients, h, mu, up, stalled, dl, hand, out, accepted>>
        /\ run' \in {"cancelled", "draining", "stopped"}
    BY DEF Shutdown, CloseListener, Stop, broker, sessions, peers, history, delivery
  <1> QED
    BY <1>1, InvParts DEF TypeOK, HistoryType

\* The steps of Next, arranged as the proofs go through them.
LEMMA Steps ==
  ASSUME Next
  PROVE  \/ \E c \in Conns : \/ Quiet(c) \/ Register(c) \/ Unregister(c) \/ Cleanup(c)
                             \/ PublishSend(c) \/ PublishPanics(c)
                             \/ Return(c) \/ HangUp(c) \/ Stall(c)
         \/ \E s \in Subscription : Delivery(s)
         \/ Shutdown \/ CloseListener \/ Stop
  BY DEF Next, Handler, Quiet

LEMMA TypeStep ==
  ASSUME ServerInv, Next
  PROVE  TypeOK' /\ HistoryType'
  BY Steps, QuietType, BrokerType, SendType, LeavingType, PanicType, DeliveryType, RunType

----------------------------------------------------------------------------
(* The counter of clients *)

\* Steps other than those of a handler leave the handlers' locals and the counter.
LEMMA OthersLeave ==
  ASSUME \/ \E c \in Conns : HangUp(c) \/ Stall(c)
         \/ \E s \in Subscription : Delivery(s)
         \/ Shutdown \/ CloseListener \/ Stop
  PROVE  UNCHANGED <<h, clients>>
  BY DEF HangUp, Stall, Delivery, Take, LockWriter, Push, Finish, Shutdown, CloseListener, Stop, sessions

\* After a panic there is nothing.
LEMMA PanicLeaves ==
  ASSUME NEW c \in Conns, PublishPanics(c)
  PROVE  /\ clients' = 0 /\ subs' = {} /\ closed' = {} /\ up' = {} /\ stalled' = {}
         /\ ~Running'
         /\ \A d \in Conns : h'[d] = Idle /\ mu'[d] = "free"
         /\ \A s \in Subscription : dl'[s] = "off" /\ hand'[s] = <<>> /\ C'[s] = <<>>
         /\ UNCHANGED <<out, accepted>>
  BY DEF PublishPanics, Running, history

\* Other steps of a handler, which keep it counted.
LEMMA StillCounted ==
  ASSUME ServerInv, NEW c \in Conns,
         Register(c) \/ Unregister(c) \/ Cleanup(c) \/ PublishSend(c)
  PROVE  /\ clients' = clients
         /\ h' \in [Conns -> Handlers] /\ \A d \in Conns : d # c => h'[d] = h[d]
         /\ h[c].pc \notin Uncounted /\ h'[c].pc \notin Uncounted
         /\ h[c].pc \in Writing <=> h'[c].pc \in Writing
  <1>0. TypeOK
    BY InvParts
  <1>1. CASE Register(c)
    <2>1. PICK s : Registers(c, s)
      BY <1>1, RegisterEffect
    <2> QED
      BY <1>1, <2>1 DEF Registers, Becomes, Register, At, Uncounted, Writing
  <1>2. CASE Unregister(c)
    <2>1. PICK pc, cmd, sb :
            /\ pc \in {"unsubscribe", "flush"}
            /\ Becomes(c, pc, h[c].sent, cmd, sb, h[c].targets)
      BY <1>2, UnregisterEffect DEF Onward
    <2> QED
      BY <1>2, <2>1 DEF Becomes, Unregister, At, Uncounted, Writing
  <1>3. CASE Cleanup(c)
    <2>1. PICK sb : Becomes(c, h[c].pc, h[c].sent, h[c].cmd, sb, h[c].targets)
      BY <1>0, <1>3, CleanupEffect
    <2> QED
      BY <1>3, <2>1 DEF Becomes, Cleanup, At, Uncounted, Writing
  <1>4. CASE PublishSend(c)
    <2>1. PICK tg : Becomes(c, h[c].pc, h[c].sent, h[c].cmd, h[c].subs, tg)
      BY <1>0, <1>4, SendEffect
    <2> QED
      BY <1>4, <2>1 DEF Becomes, PublishSend, At, Uncounted, Writing
  <1> QED
    BY <1>1, <1>2, <1>3, <1>4

LEMMA CountSame ==
  ASSUME CountOK, clients' = clients,
         \A d \in Conns : h'[d].pc \in Uncounted <=> h[d].pc \in Uncounted
  PROVE  CountOK'
  <1>1. Counted' = Counted
    BY DEF Counted
  <1> QED
    BY <1>1 DEF CountOK

LEMMA CountStep ==
  ASSUME ServerInv, Next
  PROVE  CountOK'
  <1>0. CountOK /\ TypeOK
    BY InvParts
  <1>1. ASSUME NEW c \in Conns, Quiet(c) PROVE CountOK'
    <2>0. Passes(c)
      BY <1>1, QuietPasses
    <2>1. CASE clients' = clients /\ (h[c].pc \in Uncounted => h'[c].pc \in Uncounted)
      <3>1. \A d \in Conns : h'[d].pc \in Uncounted <=> h[d].pc \in Uncounted
        BY <2>0, <2>1 DEF Passes
      <3> QED
        BY <1>0, <2>1, <3>1, CountSame
    <2>2. CASE clients' = clients + 1 /\ h[c].pc \in Uncounted /\ h'[c].pc \notin Uncounted
      <3>1. Counted' = Counted \cup {c} /\ c \notin Counted
        BY <2>0, <2>2 DEF Passes, Counted
      <3>2. IsFiniteSet(Counted)
        BY FS_Subset, ServerAssumption DEF Counted
      <3>3. Cardinality(Counted') = Cardinality(Counted) + 1
        BY <3>1, <3>2, FS_AddElement
      <3> QED
        BY <1>0, <2>2, <3>3 DEF CountOK
    <2> QED
      BY <2>0, <2>1, <2>2 DEF Passes
  <1>2. ASSUME NEW c \in Conns, Register(c) \/ Unregister(c) \/ Cleanup(c) \/ PublishSend(c)
        PROVE  CountOK'
    <2>1. clients' = clients /\ \A d \in Conns : h'[d].pc \in Uncounted <=> h[d].pc \in Uncounted
      BY <1>2, StillCounted
    <2> QED
      BY <1>0, <2>1, CountSame
  <1>3. ASSUME NEW c \in Conns, PublishPanics(c) PROVE CountOK'
    <2>1. Counted' = {}
      BY <1>3, PanicLeaves DEF Counted, Uncounted, Idle
    <2> QED
      BY <1>3, <2>1, PanicLeaves, FS_EmptySet DEF CountOK
  <1>4. ASSUME NEW c \in Conns, Return(c) PROVE CountOK'
    <2>1. Becomes(c, "done", 0, NoCommand, {}, {}) /\ clients' = clients - 1
      BY <1>0, <1>4, ReturnEffect DEF Return
    <2>2. c \in Counted
      BY <1>4 DEF Return, At, Counted, Uncounted
    <2>3. Counted' = Counted \ {c}
      BY <2>1 DEF Becomes, Counted, Uncounted
    <2>4. IsFiniteSet(Counted)
      BY <1>0, <2>2, CountPositive
    <2>5. Cardinality(Counted') = Cardinality(Counted) - 1
      BY <2>2, <2>3, <2>4, FS_RemoveElement
    <2> QED
      BY <1>0, <2>1, <2>5 DEF CountOK
  <1>5. ASSUME UNCHANGED <<h, clients>> PROVE CountOK'
    BY <1>0, <1>5 DEF CountOK, Counted
  <1> QED
    BY <1>1, <1>2, <1>3, <1>4, <1>5, Steps, OthersLeave

----------------------------------------------------------------------------
(* The broker *)

LEMMA BrokerSame ==
  ASSUME BrokerOK, subs' = subs, \A d \in Conns : h'[d].subs = h[d].subs
  PROVE  BrokerOK'
  BY SubscriptionIs DEF BrokerOK

LEMMA DropBroker ==
  ASSUME BrokerOK, TypeOK, NEW c \in Conns, HandlerOK(c), NEW s, Drops(c, s),
         \A d \in Conns : d # c => h'[d] = h[d]
  PROVE  BrokerOK' /\ s \in subs /\ s \in Subscription /\ s[1] = c
  <1>1. s \in Subscription /\ s[1] = c
    BY ServerTypes DEF Drops, HandlerOK, ArgsOK
  <1>2. subs' = subs \ {s} /\ h'[c].subs = h[c].subs \ {s} /\ s \in h[c].subs
    BY DEF Drops, Unsubscribe
  <1>3. s \in subs
    BY <1>1, <1>2 DEF BrokerOK
  <1>4. ASSUME NEW t \in Subscription PROVE t \in subs' <=> t \in h'[t[1]].subs
    BY <1>1, <1>2, SubscriptionIs DEF BrokerOK
  <1>5. subs' \subseteq Subscription
    BY <1>2 DEF BrokerOK
  <1> QED
    BY <1>1, <1>3, <1>4, <1>5 DEF BrokerOK

LEMMA BrokerStep ==
  ASSUME ServerInv, Next
  PROVE  BrokerOK'
  <1>0. BrokerOK /\ TypeOK /\ \A c \in Conns : HandlerOK(c)
    BY InvParts
  <1>1. ASSUME NEW c \in Conns, Quiet(c) PROVE BrokerOK'
    <2>1. subs' = subs /\ \A d \in Conns : h'[d].subs = h[d].subs
      BY <1>1, QuietPasses, QuietElse DEF Passes, broker
    <2> QED
      BY <1>0, <2>1, BrokerSame
  <1>2. ASSUME NEW c \in Conns, Register(c) PROVE BrokerOK'
    <2>1. PICK s : Registers(c, s)
      BY <1>2, RegisterEffect
    <2>2. /\ s \in Subscription /\ s[1] = c /\ subs' = subs \cup {s}
          /\ h'[c].subs = h[c].subs \cup {s} /\ \A d \in Conns : d # c => h'[d] = h[d]
      BY <2>1 DEF Registers, Becomes, Subscribe
    <2>3. ASSUME NEW t \in Subscription PROVE t \in subs' <=> t \in h'[t[1]].subs
      BY <1>0, <2>2, SubscriptionIs DEF BrokerOK
    <2>4. subs' \subseteq Subscription
      BY <1>0, <2>2 DEF BrokerOK
    <2> QED
      BY <2>3, <2>4 DEF BrokerOK
  <1>3. ASSUME NEW c \in Conns, Unregister(c) \/ Cleanup(c) PROVE BrokerOK'
    <2>1. \A d \in Conns : d # c => h'[d] = h[d]
      BY <1>3, StillCounted
    <2>2. (\E s : Drops(c, s)) \/ (h'[c].subs = h[c].subs /\ subs' = subs)
      BY <1>0, <1>3, UnregisterEffect, CleanupEffect DEF broker
    <2>3. ASSUME NEW s, Drops(c, s) PROVE BrokerOK'
      BY <1>0, <2>1, <2>3, DropBroker
    <2>4. ASSUME h'[c].subs = h[c].subs, subs' = subs PROVE BrokerOK'
      BY <1>0, <2>1, <2>4, BrokerSame
    <2> QED
      BY <2>2, <2>3, <2>4
  <1>4. ASSUME NEW c \in Conns, PublishSend(c) PROVE BrokerOK'
    <2>1. subs' = subs /\ \A d \in Conns : h'[d].subs = h[d].subs
      BY <1>0, <1>4, SendEffect DEF Send, Becomes
    <2> QED
      BY <1>0, <2>1, BrokerSame
  <1>5. ASSUME NEW c \in Conns, PublishPanics(c) PROVE BrokerOK'
    BY <1>5, PanicLeaves, SubscriptionIs DEF BrokerOK, Idle
  <1>6. ASSUME NEW c \in Conns, Return(c) PROVE BrokerOK'
    <2>1. subs' = subs /\ \A d \in Conns : h'[d].subs = h[d].subs
      BY <1>0, <1>6, ReturnEffect DEF Return, Becomes, broker
    <2> QED
      BY <1>0, <2>1, BrokerSame
  <1>7. ASSUME \/ \E c \in Conns : HangUp(c) \/ Stall(c)
               \/ \E s \in Subscription : Delivery(s)
               \/ Shutdown \/ CloseListener \/ Stop
        PROVE  BrokerOK'
    <2>1. h' = h /\ subs' = subs
      BY <1>7, OthersLeave DEF HangUp, Stall, Delivery, Take, Receive, LockWriter, Push, Finish,
                               Shutdown, CloseListener, Stop, broker
    <2> QED
      BY <1>0, <2>1, BrokerSame
  <1> QED
    BY <1>1, <1>2, <1>3, <1>4, <1>5, <1>6, <1>7, Steps

----------------------------------------------------------------------------
(* The delivery goroutines and writeMu *)

\* Which goroutines start and end.
LEMMA Goroutines ==
  ASSUME ServerInv, Next
  PROVE  \/ dl' = dl
         \/ \E c \in Conns, s \in Subscription : Register(c) /\ Registers(c, s)
         \/ \E c \in Conns : PublishPanics(c)
         \/ \E s \in Subscription : /\ Delivery(s) /\ dl[s] \in {"recv", "lock", "push"}
                                    /\ \E v \in {"recv", "lock", "push", "ended"} :
                                          dl' = [dl EXCEPT ![s] = v]
  <1>1. ASSUME NEW c \in Conns, Quiet(c) PROVE dl' = dl
    BY <1>1, QuietElse DEF delivery
  <1>2. ASSUME NEW c \in Conns, Register(c)
        PROVE  \E s \in Subscription : Register(c) /\ Registers(c, s)
    BY <1>2, RegisterEffect DEF Registers
  <1>3. ASSUME NEW c \in Conns, \/ Unregister(c) \/ Cleanup(c) \/ PublishSend(c) \/ Return(c)
                                \/ HangUp(c) \/ Stall(c)
        PROVE  dl' = dl
    BY <1>3 DEF Unregister, Cleanup, PublishSend, Return, HangUp, Stall, delivery
  <1>4. ASSUME NEW s \in Subscription, Delivery(s)
        PROVE  /\ dl[s] \in {"recv", "lock", "push"}
               /\ \E v \in {"recv", "lock", "push", "ended"} : dl' = [dl EXCEPT ![s] = v]
    BY <1>4 DEF Delivery, Take, LockWriter, Push, Finish
  <1>5. ASSUME Shutdown \/ CloseListener \/ Stop PROVE dl' = dl
    BY <1>5 DEF Shutdown, CloseListener, Stop, delivery
  <1> QED
    BY <1>1, <1>2, <1>3, <1>4, <1>5, Steps

LEMMA NumbersStep ==
  ASSUME ServerInv, Next
  PROVE  NumbersOK'
  <1>0. Numbered(dl) /\ dl \in [Subscription -> {"off", "recv", "lock", "push", "ended"}]
    BY InvParts DEF NumbersOK, TypeOK
  <1>1. ASSUME NEW c \in Conns, NEW s \in Subscription, Registers(c, s) PROVE Numbered(dl')
    <2>1. /\ s = <<c, s[2], s[3]>> /\ s[2] \in Channels /\ s[3] \in 1 .. MaxSubs[c]
          /\ s[3] = NextSub(c, s[2]) /\ dl' = [dl EXCEPT ![s] = "recv"]
      BY <1>1, SubscriptionIs DEF Registers
    <2>2. /\ NextSub(c, s[2]) = 1 + Cardinality(Made(dl, c, s[2]))
          /\ Cardinality(Made(dl, c, s[2])) \in Nat
          /\ \A k \in 1 .. MaxSubs[c] :
               dl[<<c, s[2], k>>] # "off" <=> k <= Cardinality(Made(dl, c, s[2]))
      BY <1>0, <2>1, Numbering DEF NextSub, Made
    <2>3. MaxSubs[c] \in Nat
      BY MaxSubsAssumption
    <2>4. \A n \in 1 .. s[3] : n # s[3] => dl[<<c, s[2], n>>] # "off"
      BY <2>1, <2>2, <2>3
    <2>5. ASSUME NEW t \in Subscription, dl'[t] # "off", NEW n \in 1 .. t[3]
          PROVE  dl'[<<t[1], t[2], n>>] # "off"
      <3>1. <<t[1], t[2], n>> \in Subscription
        <4>1. t[1] \in Conns /\ t[2] \in Channels /\ t[3] \in 1 .. MaxSubs[t[1]]
          BY SubscriptionIs
        <4>2. MaxSubs[t[1]] \in Nat
          BY <4>1, MaxSubsAssumption
        <4>3. n \in 1 .. MaxSubs[t[1]]
          BY <4>1, <4>2
        <4> QED
          BY <4>1, <4>3, SubscriptionIs
      <3>2. CASE t = s
        <4>1. n = s[3] => <<t[1], t[2], n>> = s
          BY <2>1, <3>2
        <4>2. t[1] = c /\ t[2] = s[2] /\ t[3] = s[3]
          BY <3>2, <1>1 DEF Registers
        <4> QED
          BY <1>0, <2>1, <2>4, <3>1, <4>1, <4>2
      <3>3. CASE t # s
        BY <1>0, <2>1, <2>5, <3>1, <3>3 DEF Numbered
      <3> QED
        BY <3>2, <3>3
    <2> QED
      BY <2>5 DEF Numbered
  <1>2. ASSUME NEW c \in Conns, PublishPanics(c) PROVE Numbered(dl')
    BY <1>2, PanicLeaves DEF Numbered
  <1>3. ASSUME NEW s \in Subscription, dl[s] # "off", NEW v, v # "off",
               dl' = [dl EXCEPT ![s] = v]
        PROVE  Numbered(dl')
    <2>1. \A t \in Subscription : dl'[t] # "off" <=> dl[t] # "off"
      BY <1>0, <1>3
    <2>2. ASSUME NEW t \in Subscription, NEW n \in 1 .. t[3]
          PROVE  <<t[1], t[2], n>> \in Subscription
      <3>1. t[1] \in Conns /\ t[2] \in Channels /\ t[3] \in 1 .. MaxSubs[t[1]]
        BY SubscriptionIs
      <3>2. MaxSubs[t[1]] \in Nat
        BY <3>1, MaxSubsAssumption
      <3>3. n \in 1 .. MaxSubs[t[1]]
        BY <3>1, <3>2
      <3> QED
        BY <3>1, <3>3, SubscriptionIs
    <2> QED
      BY <1>0, <2>1, <2>2 DEF Numbered
  <1> QED
    BY <1>0, <1>1, <1>2, <1>3, Goroutines DEF NumbersOK

LEMMA ReturnedStep ==
  ASSUME ServerInv, Next, NEW d \in Conns
  PROVE  ReturnedOK(d)'
  <1>0. /\ TypeOK /\ \A c \in Conns : ReturnedOK(c)
        /\ dl \in [Subscription -> {"off", "recv", "lock", "push", "ended"}]
    BY InvParts DEF TypeOK
  <1>1. ASSUME NEW c \in Conns, Quiet(c) PROVE ReturnedOK(d)'
    <2>1. dl' = dl /\ (h'[d].pc \in Uncounted => h[d].pc \in Uncounted)
      BY <1>1, QuietElse, QuietPasses DEF Passes, delivery
    <2> QED
      BY <1>0, <2>1 DEF ReturnedOK, Delivering
  <1>2. ASSUME NEW c \in Conns, Register(c) \/ Unregister(c) \/ Cleanup(c) \/ PublishSend(c)
        PROVE  ReturnedOK(d)'
    <2>1. h'[c].pc \notin Uncounted /\ (d # c => h'[d] = h[d])
      BY <1>2, StillCounted
    <2>2. \A s \in Subscription : s[1] # c => dl'[s] = dl[s]
      <3>1. CASE Register(c)
        <4>1. PICK s : Registers(c, s)
          BY <3>1, RegisterEffect
        <4> QED
          BY <1>0, <4>1 DEF Registers
      <3> QED
        BY <1>2, <3>1 DEF Unregister, Cleanup, PublishSend, delivery
    <2> QED
      BY <1>0, <2>1, <2>2 DEF ReturnedOK, Delivering
  <1>3. ASSUME NEW c \in Conns, PublishPanics(c) PROVE ReturnedOK(d)'
    BY <1>3, PanicLeaves DEF ReturnedOK, Delivering
  <1>4. ASSUME NEW c \in Conns, Return(c) PROVE ReturnedOK(d)'
    <2>1. dl' = dl /\ Delivering(c) = {}
      BY <1>4 DEF Return, delivery
    <2>2. d # c => h'[d] = h[d]
      BY <1>0, <1>4, ReturnEffect DEF Becomes
    <2> QED
      BY <1>0, <2>1, <2>2 DEF ReturnedOK, Delivering
  <1>5. ASSUME NEW s \in Subscription, Delivery(s) PROVE ReturnedOK(d)'
    <2>1. /\ dl[s] \in {"recv", "lock", "push"} /\ h' = h
          /\ \A t \in Subscription : t # s => dl'[t] = dl[t]
      BY <1>0, <1>5, OthersLeave DEF Delivery, Take, LockWriter, Push, Finish
    <2>2. s[1] \in Conns /\ s \in Delivering(s[1])
      BY <2>1, SubscriptionIs DEF Delivering
    <2>3. h[s[1]].pc \notin Uncounted
      BY <1>0, <2>2 DEF ReturnedOK
    <2> QED
      BY <1>0, <2>1, <2>3 DEF ReturnedOK, Delivering
  <1>6. ASSUME (\E c \in Conns : HangUp(c) \/ Stall(c)) \/ Shutdown \/ CloseListener \/ Stop
        PROVE  ReturnedOK(d)'
    <2>1. h' = h /\ dl' = dl
      BY <1>6, OthersLeave DEF HangUp, Stall, Shutdown, CloseListener, Stop, delivery
    <2> QED
      BY <1>0, <2>1 DEF ReturnedOK, Delivering
  <1> QED
    BY <1>1, <1>2, <1>3, <1>4, <1>5, <1>6, Steps

LEMMA WriterSame ==
  ASSUME NEW d \in Conns, WriterOK(d), mu'[d] = mu[d],
         h'[d].pc \in Writing <=> h[d].pc \in Writing,
         \A s \in Subscription : s[1] = d => (dl'[s] = "push" <=> dl[s] = "push")
  PROVE  WriterOK(d)'
  BY DEF WriterOK

LEMMA WriterStep ==
  ASSUME ServerInv, Next, NEW d \in Conns
  PROVE  WriterOK(d)'
  <1>0. /\ TypeOK /\ \A c \in Conns : WriterOK(c)
        /\ dl \in [Subscription -> {"off", "recv", "lock", "push", "ended"}]
        /\ mu \in [Conns -> {"free", "handler", "delivery"}]
    BY InvParts DEF TypeOK
  <1>1. ASSUME NEW c \in Conns, Quiet(c) PROVE WriterOK(d)'
    <2>1. dl' = dl /\ Passes(c) /\ (d # c => h'[d] = h[d] /\ mu'[d] = mu[d])
      <3>1. dl' = dl /\ Passes(c)
        BY <1>1, QuietElse, QuietPasses DEF delivery
      <3> QED
        BY <1>0, <3>1 DEF Passes
    <2>2. CASE d # c
      BY <1>0, <2>1, <2>2, WriterSame
    <2>3. CASE d = c /\ mu' = mu /\ (h[c].pc \in Writing <=> h'[c].pc \in Writing)
      BY <1>0, <2>1, <2>3, WriterSame
    <2>4. CASE d = c /\ mu[c] = "free" /\ mu' = [mu EXCEPT ![c] = "handler"] /\ h'[c].pc \in Writing
      <3>1. mu'[c] = "handler" /\ ~\E s \in Subscription : s[1] = c /\ dl[s] = "push"
        BY <1>0, <2>4 DEF WriterOK
      <3> QED
        BY <2>1, <2>4, <3>1 DEF WriterOK
    <2>5. CASE d = c /\ h[c].pc \in Writing /\ mu' = [mu EXCEPT ![c] = "free"] /\ h'[c].pc \notin Writing
      <3>1. mu'[c] = "free" /\ ~\E s \in Subscription : s[1] = c /\ dl[s] = "push"
        BY <1>0, <2>5 DEF WriterOK
      <3> QED
        BY <2>1, <2>5, <3>1 DEF WriterOK
    <2> QED
      BY <2>1, <2>2, <2>3, <2>4, <2>5 DEF Passes
  <1>2. ASSUME NEW c \in Conns, Register(c) \/ Unregister(c) \/ Cleanup(c) \/ PublishSend(c)
        PROVE  WriterOK(d)'
    <2>1. mu' = mu /\ (h'[d].pc \in Writing <=> h[d].pc \in Writing)
      <3>1. mu' = mu
        BY <1>2 DEF Register, Unregister, Cleanup, PublishSend
      <3> QED
        BY <1>2, <3>1, StillCounted
    <2>2. \A s \in Subscription : dl'[s] = "push" <=> dl[s] = "push"
      <3>1. CASE Register(c)
        <4>1. PICK s : Registers(c, s)
          BY <3>1, RegisterEffect
        <4> QED
          BY <1>0, <4>1 DEF Registers
      <3> QED
        BY <1>2, <3>1 DEF Unregister, Cleanup, PublishSend, delivery
    <2> QED
      BY <1>0, <2>1, <2>2, WriterSame
  <1>3. ASSUME NEW c \in Conns, PublishPanics(c) PROVE WriterOK(d)'
    BY <1>3, PanicLeaves DEF WriterOK, Writing, Idle
  <1>4. ASSUME NEW c \in Conns, Return(c) PROVE WriterOK(d)'
    <2>1. dl' = dl /\ mu' = mu /\ h[c].pc = "cleanup"
      BY <1>4 DEF Return, delivery, At
    <2>2. h'[c].pc = "done" /\ (d # c => h'[d] = h[d])
      BY <1>0, <1>4, ReturnEffect DEF Becomes
    <2>3. h'[d].pc \in Writing <=> h[d].pc \in Writing
      BY <2>1, <2>2 DEF Writing
    <2> QED
      BY <1>0, <2>1, <2>3, WriterSame
  <1>5. ASSUME NEW s \in Subscription, Take(s) \/ Finish(s) PROVE WriterOK(d)'
    <2>1. h' = h /\ mu' = mu /\ \A t \in Subscription : dl'[t] = "push" <=> dl[t] = "push"
      BY <1>0, <1>5 DEF Take, Finish, sessions
    <2> QED
      BY <1>0, <2>1, WriterSame
  <1>6. ASSUME NEW s \in Subscription, LockWriter(s) PROVE WriterOK(d)'
    <2>1. /\ h' = h /\ mu[s[1]] = "free" /\ mu' = [mu EXCEPT ![s[1]] = "delivery"]
          /\ dl' = [dl EXCEPT ![s] = "push"] /\ s[1] \in Conns
      BY <1>6, SubscriptionIs DEF LockWriter
    <2>2. CASE d # s[1]
      BY <1>0, <2>1, <2>2, WriterSame
    <2>3. CASE d = s[1]
      <3>1. /\ h[d].pc \notin Writing /\ mu'[d] = "delivery" /\ dl'[s] = "push"
            /\ \A t \in Subscription : t[1] = d /\ t # s => dl'[t] # "push"
        BY <1>0, <2>1, <2>3 DEF WriterOK
      <3> QED
        BY <2>1, <2>3, <3>1 DEF WriterOK
    <2> QED
      BY <2>2, <2>3
  <1>7. ASSUME NEW s \in Subscription, Push(s) PROVE WriterOK(d)'
    <2>1. /\ h' = h /\ dl[s] = "push" /\ mu' = [mu EXCEPT ![s[1]] = "free"]
          /\ dl' = [dl EXCEPT ![s] = "recv"] /\ s[1] \in Conns
      BY <1>7, SubscriptionIs DEF Push
    <2>2. CASE d # s[1]
      BY <1>0, <2>1, <2>2, WriterSame
    <2>3. CASE d = s[1]
      <3>1. /\ mu[d] = "delivery" /\ mu'[d] = "free"
            /\ \A t \in Subscription : t[1] = d => dl'[t] # "push"
        BY <1>0, <2>1, <2>3 DEF WriterOK
      <3>2. h[d].pc \notin Writing
        BY <1>0, <3>1 DEF WriterOK
      <3> QED
        BY <2>1, <2>3, <3>1, <3>2 DEF WriterOK
    <2> QED
      BY <2>2, <2>3
  <1>8. ASSUME (\E c \in Conns : HangUp(c) \/ Stall(c)) \/ Shutdown \/ CloseListener \/ Stop
        PROVE  WriterOK(d)'
    <2>1. h' = h /\ dl' = dl /\ mu' = mu
      BY <1>8, OthersLeave DEF HangUp, Stall, Shutdown, CloseListener, Stop, delivery, sessions
    <2> QED
      BY <1>0, <2>1, WriterSame
  <1> QED
    BY <1>1, <1>2, <1>3, <1>4, <1>5, <1>6, <1>7, <1>8, Steps DEF Delivery

----------------------------------------------------------------------------
(* The locals of the handlers *)

\* The next number changes only when a subscription is made.
LEMMA NextSubSame ==
  ASSUME NEW c, NEW ch,
         \A s \in Subscription : s[1] = c /\ s[2] = ch => (dl'[s] = "off" <=> dl[s] = "off")
  PROVE  NextSub(c, ch)' = NextSub(c, ch)
  <1>1. {s \in Subscription : s[1] = c /\ s[2] = ch /\ dl'[s] # "off"}
          = {s \in Subscription : s[1] = c /\ s[2] = ch /\ dl[s] # "off"}
    OBVIOUS
  <1> QED
    BY <1>1 DEF NextSub

LEMMA HandlerSame ==
  ASSUME NEW d \in Conns, HandlerOK(d), h'[d] = h[d],
         h[d].pc = "none" => (d \in stalled' => d \in stalled),
         \A s \in Subscription : s[1] = d => (dl'[s] = "off" <=> dl[s] = "off")
  PROVE  HandlerOK(d)'
  <1>1. \A ch : NextSub(d, ch)' = NextSub(d, ch) /\ (Subscribed(d, ch)' <=> Subscribed(d, ch))
    BY NextSubSame DEF Subscribed
  <1>2. ArgsOK(d)'
    BY <1>1 DEF HandlerOK, ArgsOK
  <1> QED
    BY <1>2 DEF HandlerOK

\* With fewer subscriptions, and none of the arguments to look at.
LEMMA HandlerFewer ==
  ASSUME NEW d \in Conns, HandlerOK(d), h'[d].subs \subseteq h[d].subs,
         h'[d].pc \in Uncounted => h'[d].subs = {}, h'[d].pc # "none", ArgsOK(d)'
  PROVE  HandlerOK(d)'
  <1>1. IsFiniteSet(h'[d].subs)
    BY FS_Subset DEF HandlerOK
  <1> QED
    BY <1>1 DEF HandlerOK

LEMMA QuietArgs ==
  ASSUME ServerInv, NEW c \in Conns, Quiet(c)
  PROVE  ArgsOK(c)'
  <1>0. TypeOK /\ HandlerOK(c) /\ ArgsOK(c) /\ h[c].cmd.args \in Seq(Channels)
    BY InvParts, ServerTypes DEF HandlerOK
  <1>1. \A ch : NextSub(c, ch)' = NextSub(c, ch)
    <2>1. dl' = dl
      BY QuietElse DEF delivery
    <2> QED
      BY <2>1, NextSubSame
  <1>2. \A ch : Subscribed(c, ch)' <=> Subscribed(c, ch)
    BY QuietPasses DEF Passes, Subscribed
  <1>3. ASSUME h'[c].pc \in {"none", "refused", "started", "read", "flush", "cleanup", "done"}
        PROVE  ArgsOK(c)'
    BY <1>3 DEF ArgsOK
  <1>4. CASE \/ Accept(c) \/ Start(c) \/ ReadError(c) \/ NotAllowed(c) \/ Ping(c)
             \/ Published(c) \/ Flush(c)
    <2>1. PICK pc, cmd :
            /\ pc \in {"refused", "started", "read", "flush", "cleanup"}
            /\ Becomes(c, pc, h[c].sent, cmd, h[c].subs, h[c].targets)
      BY <1>0, <1>4, GotoEffect, PCNames
      DEF Accept, Start, ReadError, NotAllowed, Ping, Published, Flush
    <2> QED
      BY <1>3, <2>1 DEF Becomes
  <1>5. CASE ReadCommand(c)
    <2>1. PICK cmd \in Script[c][h[c].sent + 1] :
            /\ cmd.op = "PUBLISH" => cmd.args # <<>>
            /\ cmd.op = "SUBSCRIBE" => \A ch \in ToSet(cmd.args) : NextSub(c, ch) <= MaxSubs[c]
            /\ Becomes(c, "want", h[c].sent + 1, cmd, h[c].subs, h[c].targets)
      BY <1>0, <1>5, CommandEffect
    <2>2. h'[c].pc = "want" /\ h'[c].cmd = cmd
      BY <2>1 DEF Becomes
    <2> QED
      BY <1>1, <2>1, <2>2 DEF ArgsOK
  <1>6. CASE SubscribeStart(c)
    <2>1. h[c].pc = "want" /\ h[c].cmd.op = "SUBSCRIBE"
      BY <1>6 DEF SubscribeStart, Dispatch, At
    <2>2. /\ h'[c].pc = IF h[c].cmd.args = <<>> THEN "flush" ELSE "subscribe"
          /\ h'[c].cmd = h[c].cmd
      BY <1>0, <1>6, GotoEffect, PCNames DEF SubscribeStart, Becomes
    <2> QED
      BY <1>0, <1>1, <1>2, <2>1, <2>2 DEF ArgsOK
  <1>7. CASE AlreadySubscribed(c) \/ Confirm(c)
    <2>1. h[c].pc \in {"subscribe", "confirm"} /\ h[c].cmd.args # <<>>
      BY <1>0, <1>7 DEF AlreadySubscribed, Confirm, At, ArgsOK
    <2> DEFINE rest == Tail(h[c].cmd.args)
    <2>2. rest \in Seq(Channels) /\ ToSet(rest) \subseteq ToSet(h[c].cmd.args)
      BY <1>0, <2>1, Arguments
    <2>3. \/ h'[c].pc = "subscribe" /\ rest # <<>> /\ h'[c].cmd = With(h[c].cmd, rest)
          \/ h'[c].pc = "flush"
      <3>1. CASE AlreadySubscribed(c)
        <4>1. h[c].pc = "subscribe" /\ NextArg(c, h[c].subs) /\ h[c].subs \in SUBSET Subscription
          BY <1>0, <3>1, ServerTypes DEF AlreadySubscribed, At
        <4> QED
          BY <1>0, <2>1, <4>1, NextArgEffect DEF Becomes
      <3>2. CASE Confirm(c)
        BY <1>0, <2>1, <3>2, ConfirmEffect DEF Becomes, Onward
      <3> QED
        BY <1>7, <3>1, <3>2
    <2>4. h'[c].cmd = With(h[c].cmd, rest) => h'[c].cmd.args = rest
      BY DEF With
    <2> HIDE DEF rest
    <2>5. CASE h'[c].pc = "subscribe" /\ rest # <<>> /\ h'[c].cmd = With(h[c].cmd, rest)
      BY <1>0, <1>1, <1>2, <2>1, <2>2, <2>4, <2>5 DEF ArgsOK
    <2>6. CASE h'[c].pc = "flush"
      BY <1>3, <2>6
    <2> QED
      BY <2>3, <2>5, <2>6
  <1>8. CASE UnsubscribeStart(c)
    <2>1. PICK args \in Seq(Channels) :
            Becomes(c, IF args = <<>> THEN "flush" ELSE "unsubscribe", h[c].sent,
                    With(h[c].cmd, args), h[c].subs, h[c].targets)
      BY <1>0, <1>8, UnsubscribeEffect DEF HandlerOK
    <2>2. /\ h'[c].pc = IF args = <<>> THEN "flush" ELSE "unsubscribe"
          /\ h'[c].cmd.args = args
      BY <2>1 DEF Becomes, With
    <2> QED
      BY <1>3, <2>2 DEF ArgsOK
  <1>9. CASE PublishStart(c)
    <2>1. h[c].pc = "want" /\ h[c].cmd.op = "PUBLISH"
      BY <1>9 DEF PublishStart, Dispatch, At
    <2>2. h'[c].pc = "publish" /\ h'[c].cmd = h[c].cmd
      BY <1>0, <1>9, PublishEffect DEF Becomes
    <2> QED
      BY <1>0, <2>1, <2>2 DEF ArgsOK
  <1> QED
    BY <1>4, <1>5, <1>6, <1>7, <1>8, <1>9 DEF Quiet

LEMMA RegisterHandler ==
  ASSUME ServerInv, NEW c \in Conns, NEW s, Registers(c, s), Register(c)
  PROVE  HandlerOK(c)'
  <1>0. HandlerOK(c) /\ dl \in [Subscription -> {"off", "recv", "lock", "push", "ended"}]
    BY InvParts DEF TypeOK
  <1>1. /\ h[c].pc = "subscribe" /\ h'[c].pc = "confirm" /\ h'[c].cmd = h[c].cmd
        /\ h'[c].subs = h[c].subs \cup {s} /\ s[1] = c /\ ~Subscribed(c, s[2])
        /\ dl' = [dl EXCEPT ![s] = "recv"]
    BY DEF Registers, Becomes, Register, At
  <1>2. IsFiniteSet(h'[c].subs)
    BY <1>0, <1>1, FS_AddElement DEF HandlerOK
  <1>3. \A t \in h'[c].subs : t[1] = c
    BY <1>0, <1>1 DEF HandlerOK
  <1>4. \A t, u \in h'[c].subs : t[2] = u[2] => t = u
    BY <1>0, <1>1 DEF HandlerOK, Subscribed
  <1>5. ASSUME NEW ch \in ToSet(h[c].cmd.args)
        PROVE  Subscribed(c, ch)' \/ NextSub(c, ch)' <= MaxSubs[c]
    <2>1. CASE ch = s[2]
      BY <1>1, <2>1 DEF Subscribed
    <2>2. CASE ch # s[2]
      <3>1. NextSub(c, ch)' = NextSub(c, ch)
        BY <1>0, <1>1, <2>2, NextSubSame
      <3>2. Subscribed(c, ch) => Subscribed(c, ch)'
        BY <1>1 DEF Subscribed
      <3> QED
        BY <1>0, <1>1, <3>1, <3>2 DEF HandlerOK, ArgsOK
    <2> QED
      BY <2>1, <2>2
  <1>6. ArgsOK(c)'
    BY <1>0, <1>1, <1>5 DEF HandlerOK, ArgsOK
  <1> QED
    BY <1>1, <1>2, <1>3, <1>4, <1>6 DEF HandlerOK, Uncounted

LEMMA HandlerStep ==
  ASSUME ServerInv, Next, NEW d \in Conns
  PROVE  HandlerOK(d)'
  <1>0. /\ TypeOK /\ \A c \in Conns : HandlerOK(c)
        /\ dl \in [Subscription -> {"off", "recv", "lock", "push", "ended"}]
    BY InvParts DEF TypeOK
  <1>1. ASSUME NEW c \in Conns, Quiet(c) PROVE HandlerOK(d)'
    <2>1. dl' = dl /\ stalled' = stalled /\ Passes(c)
      BY <1>1, QuietElse, QuietPasses DEF delivery
    <2>2. CASE d # c
      <3>1. h'[d] = h[d]
        BY <2>1, <2>2 DEF Passes
      <3> QED
        BY <1>0, <2>1, <3>1, HandlerSame
    <2>3. CASE d = c
      <3>1. /\ h'[d].subs \subseteq h[d].subs /\ h'[d].pc # "none"
            /\ h'[d].pc \in Uncounted => h'[d].subs = {}
        BY <1>0, <2>1, <2>3 DEF Passes, HandlerOK
      <3>2. ArgsOK(d)'
        BY <1>1, <2>3, QuietArgs
      <3> QED
        BY <1>0, <3>1, <3>2, HandlerFewer
    <2> QED
      BY <2>2, <2>3
  <1>2. ASSUME NEW c \in Conns, Register(c) PROVE HandlerOK(d)'
    <2>1. PICK s : Registers(c, s)
      BY <1>2, RegisterEffect
    <2>2. CASE d = c
      BY <1>2, <2>1, <2>2, RegisterHandler
    <2>3. CASE d # c
      <3>1. h'[d] = h[d] /\ stalled' = stalled /\ \A t \in Subscription : t[1] = d => dl'[t] = dl[t]
        BY <1>0, <2>1, <2>3 DEF Registers, Becomes, peers
      <3> QED
        BY <1>0, <3>1, HandlerSame
    <2> QED
      BY <2>2, <2>3
  <1>3. ASSUME NEW c \in Conns, Unregister(c) \/ Cleanup(c) \/ PublishSend(c)
        PROVE  HandlerOK(d)'
    <2>1. dl' = dl /\ stalled' = stalled
      BY <1>3 DEF Unregister, Cleanup, PublishSend, delivery, peers
    <2>2. CASE d # c
      <3>1. h'[d] = h[d]
        BY <1>3, <2>2, StillCounted
      <3> QED
        BY <1>0, <2>1, <3>1, HandlerSame
    <2>3. CASE d = c
      <3>1. h'[c].pc \notin Uncounted
        BY <1>3, StillCounted
      <3>2. h'[c].pc # "none"
        BY <3>1 DEF Uncounted
      <3>3. h'[c].subs \subseteq h[c].subs
        <4>1. CASE Unregister(c)
          BY <4>1, UnregisterEffect DEF Drops
        <4>2. CASE Cleanup(c)
          BY <1>0, <4>2, CleanupEffect DEF Drops
        <4>3. CASE PublishSend(c)
          BY <1>0, <4>3, SendEffect DEF Becomes
        <4> QED
          BY <1>3, <4>1, <4>2, <4>3
      <3>4. ArgsOK(c)'
        <4>1. CASE Unregister(c)
          <5>1. PICK pc, cmd, sb : /\ Onward(c, "unsubscribe", pc, cmd)
                                   /\ Becomes(c, pc, h[c].sent, cmd, sb, h[c].targets)
            BY <4>1, UnregisterEffect
          <5>2. h'[c].pc = "flush" \/ (h'[c].pc = "unsubscribe" /\ h'[c].cmd.args # <<>>)
            <6>1. h'[c].pc = pc /\ h'[c].cmd = cmd
              BY <5>1 DEF Becomes
            <6>2. With(h[c].cmd, Tail(h[c].cmd.args)).args = Tail(h[c].cmd.args)
              BY DEF With
            <6>3. CASE pc = "flush"
              BY <6>1, <6>3
            <6>4. CASE /\ pc = "unsubscribe" /\ Tail(h[c].cmd.args) # <<>>
                       /\ cmd = With(h[c].cmd, Tail(h[c].cmd.args))
              <7>1. h'[c].cmd.args = Tail(h[c].cmd.args)
                BY <6>1, <6>2, <6>4
              <7> QED
                BY <6>1, <6>4, <7>1
            <6> QED
              BY <5>1, <6>3, <6>4 DEF Onward
          <5> QED
            BY <5>2 DEF ArgsOK
        <4>2. CASE Cleanup(c)
          <5>1. h'[c].pc = "cleanup"
            BY <1>0, <4>2, CleanupEffect DEF Becomes, Cleanup, At
          <5> QED
            BY <5>1 DEF ArgsOK
        <4>3. CASE PublishSend(c)
          <5>1. h[c].pc = "publish" /\ h'[c].pc = "publish" /\ h'[c].cmd = h[c].cmd
            BY <1>0, <4>3, SendEffect DEF Becomes, PublishSend, At
          <5> QED
            BY <1>0, <5>1 DEF ArgsOK, HandlerOK
        <4> QED
          BY <1>3, <4>1, <4>2, <4>3
      <3> QED
        BY <1>0, <2>3, <3>1, <3>2, <3>3, <3>4, HandlerFewer
    <2> QED
      BY <2>2, <2>3
  <1>4. ASSUME NEW c \in Conns, PublishPanics(c) PROVE HandlerOK(d)'
    <2>1. h'[d].subs = {} /\ h'[d].pc = "none" /\ stalled' = {}
      BY <1>4, PanicLeaves DEF Idle
    <2> QED
      BY <2>1, FS_EmptySet DEF HandlerOK, ArgsOK
  <1>5. ASSUME NEW c \in Conns, Return(c) PROVE HandlerOK(d)'
    <2>1. /\ dl' = dl /\ stalled' \subseteq stalled /\ h'[c].pc = "done" /\ h'[c].subs = {}
          /\ d # c => h'[d] = h[d]
      BY <1>0, <1>5, ReturnEffect DEF Return, delivery, Closed, Becomes
    <2>2. CASE d # c
      BY <1>0, <2>1, <2>2, HandlerSame
    <2>3. CASE d = c
      <3>1. ArgsOK(d)'
        BY <2>1, <2>3 DEF ArgsOK
      <3> QED
        BY <1>0, <2>1, <2>3, <3>1, HandlerFewer
    <2> QED
      BY <2>2, <2>3
  <1>6. ASSUME NEW c \in Conns, HangUp(c) \/ Stall(c) PROVE HandlerOK(d)'
    <2>1. h' = h /\ dl' = dl /\ (h[d].pc = "none" => (d \in stalled' => d \in stalled))
      BY <1>6 DEF HangUp, Stall, Closed, delivery
    <2> QED
      BY <1>0, <2>1, HandlerSame
  <1>7. ASSUME NEW s \in Subscription, Delivery(s) PROVE HandlerOK(d)'
    <2>1. h' = h /\ stalled' = stalled /\ \A t \in Subscription : dl'[t] = "off" <=> dl[t] = "off"
      BY <1>0, <1>7 DEF Delivery, Take, LockWriter, Push, Finish, sessions, peers
    <2> QED
      BY <1>0, <2>1, HandlerSame
  <1>8. ASSUME Shutdown \/ CloseListener \/ Stop PROVE HandlerOK(d)'
    <2>1. h' = h /\ stalled' = stalled /\ dl' = dl
      BY <1>8 DEF Shutdown, CloseListener, Stop, sessions, peers, delivery
    <2> QED
      BY <1>0, <2>1, HandlerSame
  <1> QED
    BY <1>1, <1>2, <1>3, <1>4, <1>5, <1>6, <1>7, <1>8, Steps

----------------------------------------------------------------------------
(* What is on its way to the clients *)

\* The stages of a delivery.  A message is sent, ...
LEMMA StageSend ==
  ASSUME NEW r \in Seq(Message), NEW x \in Seq(Message), NEW b \in Seq(Message),
         NEW m \in Message
  PROVE  Joined(r, x, Append(b, m)) = Append(Joined(r, x, b), m)
  <1> DEFINE y == r \o x
  <1>1. y \in Seq(Message)
    BY ConcatParts
  <1> HIDE DEF y
  <1>2. y \o Append(b, m) = Append(y \o b, m)
    BY <1>1
  <1> QED
    BY <1>2 DEF y, Joined

\* ... taken from the buffer, ...
LEMMA StageTake ==
  ASSUME NEW r \in Seq(Message), NEW b \in Seq(Message), b # <<>>
  PROVE  Joined(r, <<Head(b)>>, Tail(b)) = Joined(r, <<>>, b)
  <1>1. Head(b) \in Message /\ Tail(b) \in Seq(Message) /\ b = <<Head(b)>> \o Tail(b)
    OBVIOUS
  <1>2. <<Head(b)>> \in Seq(Message) /\ r \o <<>> = r
    BY <1>1
  <1>3. (r \o <<Head(b)>>) \o Tail(b) = r \o (<<Head(b)>> \o Tail(b))
    BY <1>1, <1>2, ConcatAssociative
  <1> QED
    BY <1>1, <1>2, <1>3 DEF Joined

\* ... and written.
LEMMA StageWrite ==
  ASSUME NEW r \in Seq(Message), NEW x \in Seq(Message), NEW b \in Seq(Message), Len(x) = 1
  PROVE  Joined(Append(r, x[1]), <<>>, b) = Joined(r, x, b)
  <1>1. 1 \in 1 .. Len(x)
    OBVIOUS
  <1>2. x[1] \in Message
    BY <1>1, ElementOfSeq
  <1>3. x = <<x[1]>>
    BY <1>2
  <1>4. Append(r, x[1]) = r \o <<x[1]>> /\ Append(r, x[1]) \in Seq(Message)
    BY <1>2, AppendIsConcat, AppendProperties
  <1>5. Append(r, x[1]) \o <<>> = Append(r, x[1])
    BY <1>4, ConcatEmptySeq
  <1> QED
    BY <1>3, <1>4, <1>5, Zenon DEF Joined

LEMMA ReadByType ==
  ASSUME HistoryType, NEW s \in Subscription
  PROVE  ReadBy(s) \in Seq(Message) /\ out[s[1]] \in Seq(Thing)
  <1>1. out[s[1]] \in Seq(Thing)
    BY SubscriptionIs DEF HistoryType
  <1>2. PICK came : Unfolds(came, out[s[1]], s)
    BY <1>1, MessagesDef
  <1>3. Len(out[s[1]]) \in 0 .. Len(out[s[1]])
    BY <1>1
  <1> QED
    BY <1>1, <1>2, <1>3 DEF Unfolds, ReadBy

LEMMA DeliverySame ==
  ASSUME NEW s \in Subscription, DeliveryOK(s),
         dl'[s] = dl[s], hand'[s] = hand[s], C'[s] = C[s], s \in closed => s \in closed',
         Running' /\ s[1] \in up' => /\ Running /\ s[1] \in up
                                     /\ ReadBy(s)' = ReadBy(s) /\ accepted'[s] = accepted[s]
  PROVE  DeliveryOK(s)'
  BY DEF DeliveryOK

LEMMA QuietDelivery ==
  ASSUME ServerInv, NEW c \in Conns, Quiet(c), NEW t \in Subscription
  PROVE  DeliveryOK(t)'
  <1>0. DeliveryOK(t) /\ HistoryType /\ TypeOK /\ HandlerOK(c)
    BY InvParts
  <1>1. UNCHANGED <<dl, hand, C, closed, run, accepted>> /\ up' \subseteq up /\ Running
    BY QuietElse DEF broker, delivery
  <1>2. ReadBy(t)' = ReadBy(t)
    <2>1. CASE out' = out
      BY <2>1 DEF ReadBy
    <2>2. CASE Confirm(c) /\ out' = Written(c, <<"subscribe", Head(h[c].cmd.args)>>)
      <3> DEFINE x == <<"subscribe", Head(h[c].cmd.args)>>
      <3>1. h[c].cmd.args # <<>> /\ h[c].cmd.args \in Seq(Channels)
        BY <1>0, <2>2, ServerTypes DEF Confirm, At, HandlerOK, ArgsOK
      <3>2. x \in Thing /\ ~IsMessage(x)
        BY <3>1, Arguments DEF Thing, IsMessage
      <3> HIDE DEF x
      <3>3. out' = Written(c, x)
        BY <2>2 DEF x
      <3>4. out'[t[1]] = out[t[1]] \/ out'[t[1]] = Append(out[t[1]], x)
        BY <1>0, <3>3, SubscriptionIs DEF Written, HistoryType
      <3>5. Messages(Append(out[t[1]], x), t) = Messages(out[t[1]], t)
        BY <1>0, <3>2, ReadByType, MessagesGrow
      <3> QED
        BY <3>4, <3>5 DEF ReadBy
    <2> QED
      BY <2>1, <2>2, QuietElse
  <1> QED
    BY <1>0, <1>1, <1>2, DeliverySame

LEMMA SendDelivery ==
  ASSUME ServerInv, NEW c \in Conns, PublishSend(c), NEW t \in Subscription
  PROVE  DeliveryOK(t)'
  <1>0. /\ DeliveryOK(t) /\ HistoryType /\ TypeOK
        /\ C \in [Subscription -> Seq(Message)] /\ hand \in [Subscription -> Seq(Message)]
        /\ accepted \in [Subscription -> Seq(Message)]
    BY InvParts DEF TypeOK, HistoryType
  <1>1. UNCHANGED <<dl, hand, run, up, out>> /\ Running
    BY DEF PublishSend, peers, delivery, At
  <1>2. PICK s \in h[c].targets :
            /\ Send(s, Msg(c))
            /\ accepted' = IF Room(s) /\ s[1] \in up
                           THEN [accepted EXCEPT ![s] = Append(@, Msg(c))] ELSE accepted
    BY <1>0, SendEffect
  <1>3. Msg(c) \in Message /\ s \in Subscription
    BY <1>0, MsgType, ServerTypes DEF PublishSend
  <1>4. /\ s \notin closed /\ closed' = closed
        /\ C' = [C EXCEPT ![s] = IF Room(s) THEN Append(C[s], Msg(c)) ELSE C[s]]
    BY <1>2 DEF Send
  <1>5. ReadBy(t)' = ReadBy(t)
    BY <1>1 DEF ReadBy
  <1>6. CASE t # s \/ ~Room(s)
    <2>1. C'[t] = C[t] /\ accepted'[t] = accepted[t]
      BY <1>0, <1>2, <1>3, <1>4, <1>6
    <2> QED
      BY <1>0, <1>1, <1>4, <1>5, <2>1, DeliverySame
  <1>7. CASE t = s /\ Room(s)
    <2>1. C'[t] = Append(C[t], Msg(c))
      BY <1>0, <1>3, <1>4, <1>7
    <2>2. dl[t] # "ended"
      BY <1>0, <1>4, <1>7 DEF DeliveryOK
    <2>3. ASSUME t[1] \in up
          PROVE  Joined(ReadBy(t)', hand'[t], C'[t]) = accepted'[t]
      <3>1. accepted'[t] = Append(accepted[t], Msg(c))
        BY <1>0, <1>2, <1>3, <1>7, <2>3
      <3>2. Joined(ReadBy(t), hand[t], C[t]) = accepted[t]
        BY <1>0, <1>1, <2>3 DEF DeliveryOK
      <3>3. ReadBy(t) \in Seq(Message) /\ hand[t] \in Seq(Message) /\ C[t] \in Seq(Message)
        BY <1>0, ReadByType
      <3>4. Joined(ReadBy(t), hand[t], Append(C[t], Msg(c)))
              = Append(Joined(ReadBy(t), hand[t], C[t]), Msg(c))
        BY <1>3, <3>3, StageSend
      <3> QED
        BY <1>1, <1>5, <2>1, <3>1, <3>2, <3>4
    <2> QED
      BY <1>0, <1>1, <2>2, <2>3 DEF DeliveryOK
  <1> QED
    BY <1>6, <1>7

LEMMA PushDelivery ==
  ASSUME ServerInv, NEW s \in Subscription, Push(s), NEW t \in Subscription
  PROVE  DeliveryOK(t)'
  <1>0. /\ DeliveryOK(t) /\ DeliveryOK(s) /\ HistoryType
        /\ C \in [Subscription -> Seq(Message)] /\ hand \in [Subscription -> Seq(Message)]
        /\ dl \in [Subscription -> {"off", "recv", "lock", "push", "ended"}]
    BY InvParts DEF TypeOK
  <1>1. /\ Running /\ dl[s] = "push" /\ hand' = [hand EXCEPT ![s] = <<>>]
        /\ dl' = [dl EXCEPT ![s] = "recv"]
        /\ UNCHANGED <<C, closed, run, up, accepted>>
        /\ out' = Written(s[1], <<"message", hand[s][1], s>>)
    BY DEF Push, broker, peers
  <1>2. hand[s] \in Seq(Message) /\ Len(hand[s]) = 1
    BY <1>0, <1>1 DEF DeliveryOK
  <1> DEFINE x == <<"message", hand[s][1], s>>
  <1>3. x \in Thing /\ IsMessage(x) /\ x[2] = hand[s][1] /\ x[3] = s
    <2>1. hand[s][1] \in Message
      BY <1>2
    <2> QED
      BY <2>1 DEF Thing, IsMessage
  <1>4. out' = Written(s[1], x)
    BY <1>1
  <1> HIDE DEF x
  <1>5. ASSUME t[1] \in up
        PROVE  ReadBy(t)' = IF t = s THEN Append(ReadBy(t), hand[s][1]) ELSE ReadBy(t)
    <2>1. /\ out'[t[1]] = out[t[1]] \/ out'[t[1]] = Append(out[t[1]], x)
          /\ t = s => out'[t[1]] = Append(out[t[1]], x)
      BY <1>0, <1>4, <1>5, SubscriptionIs DEF Written, HistoryType
    <2>2. Messages(Append(out[t[1]], x), t)
            = IF t = s THEN Append(Messages(out[t[1]], t), hand[s][1]) ELSE Messages(out[t[1]], t)
      <3>1. out[t[1]] \in Seq(Thing)
        BY <1>0, ReadByType
      <3>2. Messages(Append(out[t[1]], x), t)
              = IF IsMessage(x) /\ x[3] = t
                THEN Append(Messages(out[t[1]], t), x[2]) ELSE Messages(out[t[1]], t)
        BY <1>3, <3>1, MessagesGrow
      <3> QED
        BY <1>3, <3>2
    <2> QED
      BY <2>1, <2>2 DEF ReadBy
  <1>6. CASE t # s
    <2>1. dl'[t] = dl[t] /\ hand'[t] = hand[t]
      BY <1>0, <1>1, <1>6
    <2> QED
      BY <1>0, <1>1, <1>5, <1>6, <2>1, DeliverySame
  <1>7. CASE t = s
    <2>1. dl'[t] = "recv" /\ hand'[t] = <<>>
      BY <1>0, <1>1, <1>7
    <2>2. ASSUME t[1] \in up
          PROVE  Joined(ReadBy(t)', hand'[t], C'[t]) = accepted'[t]
      <3>1. Joined(ReadBy(t), hand[t], C[t]) = accepted[t]
        BY <1>0, <1>1, <2>2 DEF DeliveryOK
      <3>2. ReadBy(t) \in Seq(Message) /\ C[t] \in Seq(Message)
        BY <1>0, ReadByType
      <3>3. Joined(Append(ReadBy(t), hand[s][1]), <<>>, C[t]) = Joined(ReadBy(t), hand[s], C[t])
        BY <1>2, <3>2, StageWrite
      <3> QED
        BY <1>1, <1>5, <1>7, <2>1, <2>2, <3>1, <3>3
    <2> QED
      BY <1>1, <2>1, <2>2 DEF DeliveryOK
  <1> QED
    BY <1>6, <1>7

LEMMA TakeDelivery ==
  ASSUME ServerInv, NEW s \in Subscription, Take(s) \/ LockWriter(s) \/ Finish(s),
         NEW t \in Subscription
  PROVE  DeliveryOK(t)'
  <1>0. /\ DeliveryOK(t) /\ HistoryType
        /\ C \in [Subscription -> Seq(Message)] /\ hand \in [Subscription -> Seq(Message)]
        /\ dl \in [Subscription -> {"off", "recv", "lock", "push", "ended"}]
    BY InvParts DEF TypeOK
  <1>1. UNCHANGED <<closed, run, up, accepted, out>> /\ Running
    BY DEF Take, Receive, LockWriter, Finish, broker, sessions, peers, history
  <1>2. ReadBy(t)' = ReadBy(t)
    BY <1>1 DEF ReadBy
  <1>3. CASE t # s
    <2>1. dl'[t] = dl[t] /\ hand'[t] = hand[t] /\ C'[t] = C[t]
      BY <1>0, <1>3 DEF Take, Receive, LockWriter, Finish, broker
    <2> QED
      BY <1>0, <1>1, <1>2, <2>1, DeliverySame
  <1>4. CASE t = s /\ Take(s)
    <2>1. /\ dl[t] = "recv" /\ dl'[t] = "lock" /\ C[t] # <<>>
          /\ C'[t] = Tail(C[t]) /\ hand'[t] = <<Head(C[t])>>
      BY <1>0, <1>4 DEF Take, Receive
    <2>2. hand[t] = <<>>
      BY <1>0, <2>1 DEF DeliveryOK
    <2>3. ASSUME t[1] \in up
          PROVE  Joined(ReadBy(t)', hand'[t], C'[t]) = accepted'[t]
      <3>1. Joined(ReadBy(t), <<>>, C[t]) = accepted[t]
        BY <1>0, <1>1, <2>2, <2>3 DEF DeliveryOK
      <3>2. ReadBy(t) \in Seq(Message) /\ C[t] \in Seq(Message)
        BY <1>0, ReadByType
      <3>3. Joined(ReadBy(t), <<Head(C[t])>>, Tail(C[t])) = Joined(ReadBy(t), <<>>, C[t])
        BY <2>1, <3>2, StageTake
      <3> QED
        BY <1>1, <1>2, <2>1, <3>1, <3>3
    <2>4. Len(hand'[t]) = 1
      BY <2>1
    <2> QED
      BY <1>1, <2>1, <2>3, <2>4 DEF DeliveryOK
  <1>5. CASE t = s /\ LockWriter(s)
    <2>1. dl[t] = "lock" /\ dl'[t] = "push" /\ hand'[t] = hand[t] /\ C'[t] = C[t]
      BY <1>0, <1>5 DEF LockWriter, broker
    <2> QED
      BY <1>0, <1>1, <1>2, <2>1 DEF DeliveryOK
  <1>6. CASE t = s /\ Finish(s)
    <2>1. /\ dl[t] = "recv" /\ dl'[t] = "ended" /\ hand'[t] = hand[t] /\ C'[t] = C[t]
          /\ t \in closed /\ C[t] = <<>>
      BY <1>0, <1>6 DEF Finish, broker
    <2> QED
      BY <1>0, <1>1, <1>2, <2>1 DEF DeliveryOK
  <1> QED
    BY <1>3, <1>4, <1>5, <1>6

LEMMA DeliveryStep ==
  ASSUME ServerInv, Next, NEW t \in Subscription
  PROVE  DeliveryOK(t)'
  <1>0. /\ DeliveryOK(t) /\ HistoryType /\ TypeOK /\ t[1] \in Conns
        /\ dl \in [Subscription -> {"off", "recv", "lock", "push", "ended"}]
        /\ out \in [Conns -> Seq(Thing)] /\ accepted \in [Subscription -> Seq(Message)]
    BY InvParts, SubscriptionIs DEF TypeOK, HistoryType
  <1>1. ASSUME NEW c \in Conns, Register(c) PROVE DeliveryOK(t)'
    <2>1. PICK s : Registers(c, s)
      BY <1>1, RegisterEffect
    <2>2. /\ s \in Subscription /\ dl[s] = "off" /\ dl' = [dl EXCEPT ![s] = "recv"]
          /\ UNCHANGED <<C, closed, run, up, out, accepted, hand>>
      BY <2>1 DEF Registers, Subscribe, peers, history
    <2>3. ReadBy(t)' = ReadBy(t) /\ (Running' <=> Running)
      BY <2>2 DEF ReadBy, Running
    <2>4. CASE t # s
      <3>1. dl'[t] = dl[t]
        BY <1>0, <2>2, <2>4
      <3> QED
        BY <1>0, <2>2, <2>3, <3>1, DeliverySame
    <2>5. CASE t = s
      <3>1. dl'[t] = "recv" /\ dl[t] = "off"
        BY <1>0, <2>2, <2>5
      <3> QED
        BY <1>0, <2>2, <2>3, <3>1 DEF DeliveryOK
    <2> QED
      BY <2>4, <2>5
  <1>2. ASSUME NEW c \in Conns, Unregister(c) \/ Cleanup(c) PROVE DeliveryOK(t)'
    <2>1. UNCHANGED <<C, dl, hand, run, up, out, accepted>> /\ closed \subseteq closed'
      BY <1>2 DEF Unregister, Cleanup, Unsubscribe, broker, delivery, peers, history
    <2>2. ReadBy(t)' = ReadBy(t) /\ (Running' <=> Running)
      BY <2>1 DEF ReadBy, Running
    <2> QED
      BY <1>0, <2>1, <2>2, DeliverySame
  <1>3. ASSUME NEW c \in Conns, PublishPanics(c) PROVE DeliveryOK(t)'
    BY <1>3, PanicLeaves DEF DeliveryOK
  <1>4. ASSUME NEW c \in Conns, Return(c) \/ HangUp(c) PROVE DeliveryOK(t)'
    <2>1. UNCHANGED <<C, closed, dl, hand, run>> /\ Closed(c)
      BY <1>4 DEF Return, HangUp, broker, delivery
    <2>2. Running' => Running
      BY <2>1 DEF Running
    <2>3. t[1] \in up' => /\ t[1] \in up /\ ReadBy(t)' = ReadBy(t) /\ accepted'[t] = accepted[t]
      BY <1>0, <2>1 DEF Closed, ReadBy
    <2> QED
      BY <1>0, <2>1, <2>2, <2>3, DeliverySame
  <1>5. ASSUME NEW c \in Conns, Stall(c) PROVE DeliveryOK(t)'
    <2>1. UNCHANGED <<C, closed, dl, hand, run, up, out, accepted>>
      BY <1>5 DEF Stall, broker, delivery, history
    <2>2. ReadBy(t)' = ReadBy(t) /\ (Running' => Running)
      BY <2>1 DEF ReadBy, Running
    <2> QED
      BY <1>0, <2>1, <2>2, DeliverySame
  <1>6. ASSUME Shutdown \/ CloseListener \/ Stop PROVE DeliveryOK(t)'
    <2>1. UNCHANGED <<C, closed, dl, hand, up, out, accepted>> /\ Running
      BY <1>6 DEF Shutdown, CloseListener, Stop, broker, delivery, sessions, peers, history, Running
    <2>2. ReadBy(t)' = ReadBy(t)
      BY <2>1 DEF ReadBy
    <2> QED
      BY <1>0, <2>1, <2>2, DeliverySame
  <1>7. ASSUME NEW s \in Subscription, Delivery(s) PROVE DeliveryOK(t)'
    BY <1>7, TakeDelivery, PushDelivery DEF Delivery
  <1> QED
    BY <1>1, <1>2, <1>3, <1>4, <1>5, <1>6, <1>7, Steps, QuietDelivery, SendDelivery

----------------------------------------------------------------------------
(* The invariant *)

LEMMA ServerInit ==
  ASSUME Init
  PROVE  ServerInv
  <1>1. /\ run = "serving" /\ clients = 0 /\ subs = {} /\ closed = {} /\ up = Conns /\ stalled = {}
        /\ C = [s \in Subscription |-> <<>>] /\ hand = [s \in Subscription |-> <<>>]
        /\ h = [c \in Conns |-> Idle] /\ mu = [c \in Conns |-> "free"]
        /\ dl = [s \in Subscription |-> "off"]
        /\ out = [c \in Conns |-> <<>>] /\ accepted = [s \in Subscription |-> <<>>]
    BY DEF Init, BrokerInit
  <1>2. <<>> \in Seq(Message) /\ <<>> \in Seq(Thing) /\ Len(<<>>) = 0 /\ Len(<<>>) <= BufCap
    BY BufCapAssumption
  <1>3. h \in [Conns -> Handlers]
    BY <1>1, PCNames DEF Idle, Handlers
  <1>4. /\ C \in [Subscription -> Seq(Message)] /\ hand \in [Subscription -> Seq(Message)]
        /\ \A s \in Subscription : Len(C[s]) <= BufCap
        /\ mu \in [Conns -> {"free", "handler", "delivery"}]
        /\ dl \in [Subscription -> {"off", "recv", "lock", "push", "ended"}]
    BY <1>1, <1>2
  <1>5. TypeOK
    BY <1>1, <1>3, <1>4 DEF TypeOK, Handlers
  <1>6. HistoryType
    BY <1>1, <1>2 DEF HistoryType
  <1>7. ASSUME NEW c \in Conns PROVE HandlerOK(c) /\ WriterOK(c) /\ ReturnedOK(c)
    <2>1. h[c].subs = {} /\ h[c].pc = "none" /\ mu[c] = "free"
      BY <1>1 DEF Idle
    <2>2. \A s \in Subscription : dl[s] = "off"
      BY <1>1
    <2>3. HandlerOK(c)
      BY <1>1, <2>1, FS_EmptySet DEF HandlerOK, ArgsOK
    <2>4. WriterOK(c)
      BY <2>1, <2>2 DEF WriterOK, Writing
    <2>5. ReturnedOK(c)
      BY <2>2 DEF ReturnedOK, Delivering
    <2> QED
      BY <2>3, <2>4, <2>5
  <1>8. BrokerOK
    BY <1>1, SubscriptionIs DEF BrokerOK, Idle
  <1>9. CountOK
    <2>1. Counted = {}
      BY <1>1 DEF Counted, Uncounted, Idle
    <2> QED
      BY <1>1, <2>1, FS_EmptySet DEF CountOK
  <1>10. NumbersOK
    BY <1>1 DEF NumbersOK, Numbered
  <1>11. ASSUME NEW s \in Subscription PROVE DeliveryOK(s)
    <2>1. /\ hand[s] = <<>> /\ C[s] = <<>> /\ accepted[s] = <<>> /\ dl[s] = "off"
          /\ out[s[1]] = <<>>
      BY <1>1, SubscriptionIs
    <2>2. ReadBy(s) = <<>>
      BY <1>2, <2>1, MessagesNone DEF ReadBy
    <2>3. Joined(<<>>, <<>>, <<>>) = <<>>
      BY DEF Joined
    <2> QED
      BY <2>1, <2>2, <2>3 DEF DeliveryOK
  <1> QED
    BY <1>5, <1>6, <1>7, <1>8, <1>9, <1>10, <1>11 DEF ServerInv

LEMMA ServerStep ==
  ASSUME ServerInv, [Next]_vars
  PROVE  ServerInv'
  <1>1. CASE Next
    <2>1. TypeOK' /\ HistoryType'
      BY <1>1, TypeStep
    <2>2. \A c \in Conns : HandlerOK(c)' /\ WriterOK(c)' /\ ReturnedOK(c)'
      BY <1>1, HandlerStep, WriterStep, ReturnedStep
    <2>3. BrokerOK' /\ CountOK' /\ NumbersOK'
      BY <1>1, BrokerStep, CountStep, NumbersStep
    <2>4. \A s \in Subscription : DeliveryOK(s)'
      BY <1>1, DeliveryStep
    <2> QED
      BY <2>1, <2>2, <2>3, <2>4 DEF ServerInv
  <1>2. CASE UNCHANGED vars
    <2>1. UNCHANGED <<subs, C, closed, run, clients, h, mu, dl, hand, up, stalled, out, accepted>>
      BY <1>2 DEF vars, broker, sessions, delivery, peers, history
    <2>2. TypeOK' /\ HistoryType' /\ BrokerOK' /\ CountOK' /\ NumbersOK'
      BY <2>1, InvParts DEF TypeOK, HistoryType, BrokerOK, CountOK, Counted, NumbersOK
    <2>3. ASSUME NEW c \in Conns PROVE HandlerOK(c)' /\ WriterOK(c)' /\ ReturnedOK(c)'
      <3>1. HandlerOK(c)'
        BY <2>1, InvParts, HandlerSame
      <3>2. WriterOK(c)'
        BY <2>1, InvParts, WriterSame
      <3>3. ReturnedOK(c)'
        BY <2>1, InvParts DEF ReturnedOK, Delivering
      <3> QED
        BY <3>1, <3>2, <3>3
    <2>4. ASSUME NEW s \in Subscription PROVE DeliveryOK(s)'
      <3>1. ReadBy(s)' = ReadBy(s) /\ (Running' => Running)
        BY <2>1 DEF ReadBy, Running
      <3> QED
        BY <2>1, <3>1, InvParts, DeliverySame
    <2> QED
      BY <2>2, <2>3, <2>4 DEF ServerInv
  <1> QED
    BY <1>1, <1>2

\* The inductive invariant holds in every state of the server.
LEMMA ServerInvariant == Spec => []ServerInv
  BY ServerInit, ServerStep, PTL DEF Spec

----------------------------------------------------------------------------
(* Theorems *)

(***************************************************************************)
(* Every variable keeps its type, no buffer of a subscription exceeds its  *)
(* capacity, and s.clients never becomes negative.                         *)
(***************************************************************************)
THEOREM ServerTypeCorrect == Spec => []TypeOK
  <1>1. ServerInv => TypeOK
    BY DEF ServerInv
  <1> QED
    BY <1>1, ServerInvariant, PTL

(***************************************************************************)
(* What Publish handed over to the subscription of a connected client is   *)
(* read by it, in this order and once, or is still on its way: for any     *)
(* number of clients, subscriptions, publishers and messages.              *)
(***************************************************************************)
THEOREM DeliveriesInOrder == Spec => []DeliveredInOrder
  <1>1. ASSUME ServerInv PROVE DeliveredInOrder
    <2> SUFFICES ASSUME Running, NEW s \in Subscription, s[1] \in up
                 PROVE  /\ ReadBy(s) \o hand[s] \o C[s] = accepted[s]
                        /\ dl[s] = "ended" => ReadBy(s) = accepted[s]
      BY DEF DeliveredInOrder
    <2>1. DeliveryOK(s) /\ HistoryType
      BY <1>1, InvParts
    <2>2. Joined(ReadBy(s), hand[s], C[s]) = accepted[s]
      BY <2>1 DEF DeliveryOK
    <2>3. ASSUME dl[s] = "ended" PROVE ReadBy(s) = accepted[s]
      <3>1. hand[s] = <<>> /\ C[s] = <<>>
        BY <2>1, <2>3 DEF DeliveryOK
      <3>2. ReadBy(s) \in Seq(Message)
        BY <2>1, ReadByType
      <3>3. Joined(ReadBy(s), <<>>, <<>>) = ReadBy(s)
        BY <3>2 DEF Joined
      <3> QED
        BY <2>2, <3>1, <3>3
    <2> QED
      BY <2>2, <2>3 DEF Joined
  <1> QED
    BY <1>1, ServerInvariant, PTL

(***************************************************************************)
(* When a handler has returned, the broker has no subscription of its      *)
(* connection, no delivery goroutine of it is left, and writeMu is free.   *)
(***************************************************************************)
THEOREM ReturnLeavesNothing == Spec => []NothingLeftBehind
  <1>1. ASSUME ServerInv PROVE NothingLeftBehind
    <2> SUFFICES ASSUME NEW c \in Conns, h[c].pc = "done"
                 PROVE  {s \in subs : s[1] = c} = {} /\ Delivering(c) = {} /\ mu[c] = "free"
      BY DEF NothingLeftBehind
    <2>1. HandlerOK(c) /\ WriterOK(c) /\ ReturnedOK(c) /\ BrokerOK
      BY <1>1, InvParts
    <2>2. h[c].pc \in Uncounted /\ h[c].pc \notin Writing
      BY DEF Uncounted, Writing
    <2>3. h[c].subs = {} /\ Delivering(c) = {}
      BY <2>1, <2>2 DEF HandlerOK, ReturnedOK
    <2>4. {s \in subs : s[1] = c} = {}
      BY <2>1, <2>3 DEF BrokerOK
    <2>5. mu[c] # "handler" /\ mu[c] # "delivery"
      BY <2>1, <2>2, <2>3 DEF WriterOK, Delivering
    <2>6. mu[c] \in {"free", "handler", "delivery"}
      BY <1>1, InvParts DEF TypeOK
    <2> QED
      BY <2>3, <2>4, <2>5, <2>6
  <1> QED
    BY <1>1, ServerInvariant, PTL

(***************************************************************************)
(* The accept loop turns a client away only if at least maxclients other   *)
(* handlers are at work: the counter never exceeds their number, although  *)
(* it is compared before a handler has counted itself.                     *)
(***************************************************************************)
THEOREM RefusalsAreJustified == Spec => RefusedOnlyWhenFull
  <1> DEFINE Full == \A c \in Conns : h[c].pc = "none" /\ h'[c].pc = "refused" =>
                        Cardinality(Serving) >= MaxClients
  <1>1. ASSUME ServerInv, [Next]_vars PROVE [Full]_vars
    <2> SUFFICES ASSUME Next, NEW c \in Conns, h[c].pc = "none", h'[c].pc = "refused"
                 PROVE  Cardinality(Serving) >= MaxClients
      BY <1>1
    <2>0. TypeOK /\ CountOK
      BY <1>1, InvParts
    <2>1. Accept(c)
      <3>1. ASSUME NEW d \in Conns, Quiet(d) PROVE Accept(c)
        <4>1. d = c
          BY <1>1, <3>1, QuietPasses DEF Passes
        <4>2. Accept(c) \/ ~(h[c].pc = "none")
          BY <3>1, <4>1 DEF Quiet, Start, ReadCommand, ReadError, NotAllowed, Ping, SubscribeStart,
               AlreadySubscribed, Confirm, UnsubscribeStart, PublishStart, Published, Flush,
               Dispatch, At
        <4> QED
          BY <4>2
      <3>2. ASSUME NEW d \in Conns, Register(d) \/ Unregister(d) \/ Cleanup(d) \/ PublishSend(d)
            PROVE  FALSE
        BY <1>1, <3>2, StillCounted DEF Uncounted
      <3>3. ASSUME NEW d \in Conns, PublishPanics(d) PROVE FALSE
        BY <3>3, PanicLeaves DEF Idle
      <3>4. ASSUME NEW d \in Conns, Return(d) PROVE FALSE
        BY <2>0, <3>4, ReturnEffect DEF Becomes
      <3>5. ASSUME h' = h PROVE FALSE
        BY <3>5
      <3> QED
        BY <3>1, <3>2, <3>3, <3>4, <3>5, Steps, OthersLeave
    <2>2. MaxClients > 0 /\ clients >= MaxClients
      <3>1. CASE ~(MaxClients > 0 /\ clients >= MaxClients)
        <4>1. Becomes(c, "started", h[c].sent, h[c].cmd, h[c].subs, h[c].targets)
          BY <2>0, <2>1, <3>1, GotoEffect, PCNames DEF Accept
        <4> QED
          BY <4>1 DEF Becomes
      <3> QED
        BY <3>1
    <2>3. Counted \subseteq Serving /\ Serving \subseteq Conns
      BY DEF Counted, Serving, Uncounted
    <2>4. IsFiniteSet(Serving)
      BY <2>3, FS_Subset, ServerAssumption
    <2>5. Cardinality(Counted) <= Cardinality(Serving) /\ IsFiniteSet(Counted)
      BY <2>3, <2>4, FS_Subset
    <2>6. Cardinality(Counted) \in Nat /\ Cardinality(Serving) \in Nat
      BY <2>4, <2>5, FS_CardinalityType
    <2> QED
      BY <2>0, <2>2, <2>5, <2>6, ServerAssumption DEF CountOK
  <1>2. ServerInv /\ [Next]_vars => [Full]_vars
    BY <1>1
  <1> HIDE DEF Full
  <1>3. Spec => [][Full]_vars
    BY <1>2, ServerInvariant, PTL DEF Spec
  <1> QED
    BY <1>3 DEF RefusedOnlyWhenFull, Full
=============================================================================
