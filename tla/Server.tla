------------------------------- MODULE Server -------------------------------
(***************************************************************************)
(* Connections and pub/sub: Run, handleConn and its delivery goroutines    *)
(* (internal/server/server.go), the subscription handlers and the rules of *)
(* subscribe mode (internal/command/command.go), on top of Broker.         *)
(*                                                                         *)
(* A handler goroutine holds the connection's writeMu from the dispatch of *)
(* a command to the flush of its reply.  Every subscription has a delivery *)
(* goroutine, which takes writeMu for one message at a time.  out[c] holds *)
(* the confirmations of subscriptions and the messages that client c is    *)
(* sent; the other replies are left out.  Commands other than those on     *)
(* subscriptions are PING: they reply and leave this state alone.          *)
(***************************************************************************)
EXTENDS Broker, FiniteSets, SequencesExt

CONSTANTS
    Script,         \* bound: Script[c][n] is the set of commands from which
                    \* client c takes its n-th
    MaxClients,     \* cfg.MaxClients, 0 for no limit
    Fickle          \* clients that may hang up or stop reading at any time

ASSUME ServerAssumption ==
    /\ IsFiniteSet(Conns)
    /\ DOMAIN Script = Conns
    /\ MaxClients \in Nat
    /\ Fickle \subseteq Conns

VARIABLES
    run,        \* what Run is doing
    clients,    \* s.clients
    h,          \* h[c]: the locals of the handler of c, with cs.Subs
    mu,         \* mu[c]: who holds writeMu
    dl,         \* dl[s]: where the delivery goroutine of s is
    hand,       \* hand[s]: the message it has received
    up,         \* the connections that neither side has closed
    stalled,    \* the clients that have stopped reading
    out,        \* out[c]: what client c was sent while it was connected
    accepted    \* history: accepted[s] is what the Go channel of s took
                \* while its client was connected

peers == <<up, stalled>>
history == <<out, accepted>>
sessions == <<h, mu, peers, history>>
delivery == <<dl, hand>>
vars == <<broker, run, clients, sessions, delivery>>

Command == [op : {"SUBSCRIBE", "UNSUBSCRIBE", "PUBLISH", "PING", "QUIT"}, args : Seq(Channels)]

\* A PUBLISH that does not name its channel only gets an error, as PING does.
ASSUME ScriptAssumption ==
    \A c \in Conns :
        /\ Script[c] \in Seq(SUBSET Command)
        /\ \A n \in DOMAIN Script[c] : \A cmd \in Script[c][n] :
              cmd.op = "PUBLISH" => cmd.args # <<>>

\* A published message: its publisher, the number of the command, the channel.
Message == Conns \X Nat \X Channels

NoCommand == [op |-> "PING", args |-> <<>>]

Idle == [pc |-> "none", sent |-> 0, cmd |-> NoCommand, subs |-> {}, targets |-> {}]

Init ==
    /\ BrokerInit
    /\ run = "serving"
    /\ clients = 0
    /\ h = [c \in Conns |-> Idle]
    /\ mu = [c \in Conns |-> "free"]
    /\ dl = [s \in Subscription |-> "off"]
    /\ hand = [s \in Subscription |-> <<>>]
    /\ up = Conns
    /\ stalled = {}
    /\ out = [c \in Conns |-> <<>>]
    /\ accepted = [s \in Subscription |-> <<>>]

Running == run \in {"serving", "cancelled", "draining"}

At(c, pc) == Running /\ h[c].pc = pc

Goto(c, pc) == h' = [h EXCEPT ![c].pc = pc]

\* A write to the connection; it is lost when the client has hung up.
Written(c, reply) == IF c \in up THEN [out EXCEPT ![c] = Append(@, reply)] ELSE out

\* The connection of c is closed.
Closed(c) ==
    /\ up' = up \ {c} /\ stalled' = stalled \ {c}
    /\ out' = [out EXCEPT ![c] = <<>>]
    /\ accepted' = [s \in Subscription |-> IF s[1] = c THEN <<>> ELSE accepted[s]]

----------------------------------------------------------------------------
(* Accepting connections *)

\* The accept loop compares the counter with the limit and starts a handler.  Until
\* the listener is closed it does so after the context was cancelled, too.
Accept(c) ==
    /\ run \in {"serving", "cancelled"}
    /\ h[c].pc = "none"
    /\ IF MaxClients > 0 /\ clients >= MaxClients
       THEN Goto(c, "refused") /\ up' = up \ {c}
       ELSE Goto(c, "started") /\ UNCHANGED up
    /\ UNCHANGED <<broker, run, clients, mu, stalled, history, delivery>>

\* The head of the loop: ctx.Err() is looked at before ReadCommand only.
Loop(c) ==
    h' = [h EXCEPT ![c].pc = IF run # "serving" THEN "cleanup" ELSE "read",
                   ![c].cmd = NoCommand]

\* The handler counts itself when it comes to run.
Start(c) ==
    /\ At(c, "started")
    /\ clients' = clients + 1
    /\ Loop(c)
    /\ UNCHANGED <<broker, run, mu, peers, history, delivery>>

----------------------------------------------------------------------------
(* Clients *)

\* The number of the subscription that c would make next to ch.
NextSub(c, ch) == 1 + Cardinality({s \in Subscription : s[1] = c /\ s[2] = ch /\ dl[s] # "off"})

ReadCommand(c) ==
    /\ At(c, "read")
    /\ h[c].sent < Len(Script[c])
    /\ \E cmd \in Script[c][h[c].sent + 1] :
          /\ cmd.op = "SUBSCRIBE" => \A ch \in ToSet(cmd.args) : NextSub(c, ch) <= MaxSubs[c]
          /\ h' = [h EXCEPT ![c].pc = "want", ![c].cmd = cmd, ![c].sent = @ + 1]
    /\ UNCHANGED <<broker, run, clients, mu, peers, history, delivery>>

\* The client closes its connection.  Commands it sent before may be unread.
HangUp(c) ==
    /\ Running
    /\ c \in Fickle \cap up
    /\ h[c].pc \notin {"none", "refused", "done"}
    /\ Closed(c)
    /\ UNCHANGED <<broker, run, clients, h, mu, delivery>>

\* The client stops reading: once the socket is full, writes to it block.
Stall(c) ==
    /\ Running
    /\ c \in (Fickle \cap up) \ stalled
    /\ h[c].pc \notin {"none", "refused", "done"}
    /\ stalled' = stalled \cup {c}
    /\ UNCHANGED <<broker, run, clients, h, mu, up, history, delivery>>

ReadError(c) ==
    /\ At(c, "read")
    /\ c \notin up
    /\ Goto(c, "cleanup")
    /\ UNCHANGED <<broker, run, clients, mu, peers, history, delivery>>

----------------------------------------------------------------------------
(* Execute, under writeMu *)

InSubscribeMode(c) == h[c].subs # {}

\* The handler takes writeMu and dispatches a command that is allowed.
Dispatch(c, op) ==
    /\ At(c, "want")
    /\ mu[c] = "free"
    /\ h[c].cmd.op = op
    /\ InSubscribeMode(c) => op \in {"SUBSCRIBE", "UNSUBSCRIBE", "PING", "QUIT"}
    /\ mu' = [mu EXCEPT ![c] = "handler"]

\* A command that is not allowed in subscribe mode gets an error.
NotAllowed(c) ==
    /\ At(c, "want")
    /\ mu[c] = "free"
    /\ InSubscribeMode(c) /\ h[c].cmd.op = "PUBLISH"
    /\ mu' = [mu EXCEPT ![c] = "handler"]
    /\ Goto(c, "flush")
    /\ UNCHANGED <<broker, run, clients, peers, history, delivery>>

\* PING and QUIT only reply; after QUIT the handler returns.
Ping(c) ==
    /\ \E op \in {"PING", "QUIT"} : Dispatch(c, op)
    /\ Goto(c, "flush")
    /\ UNCHANGED <<broker, run, clients, peers, history, delivery>>

\* SUBSCRIBE without channels is an error.
SubscribeStart(c) ==
    /\ Dispatch(c, "SUBSCRIBE")
    /\ Goto(c, IF h[c].cmd.args = <<>> THEN "flush" ELSE "subscribe")
    /\ UNCHANGED <<broker, run, clients, peers, history, delivery>>

Subscribed(c, ch) == \E s \in h[c].subs : s[2] = ch

\* The loops of cmdSubscribe and cmdUnsubscribe: go on with the other channels.
NextArg(c, newSubs) ==
    LET rest == Tail(h[c].cmd.args) IN
    h' = [h EXCEPT ![c].cmd.args = rest, ![c].subs = newSubs,
                   ![c].pc = IF rest # <<>> THEN @ ELSE "flush"]

\* Mutant: a second subscription to the same channel.
RegisterTwice(c) ==
    LET ch == Head(h[c].cmd.args)
        s == <<c, ch, NextSub(c, ch)>>
    IN  /\ At(c, "subscribe")
        /\ s[3] <= MaxSubs[c]
        /\ Subscribe(s)
        /\ h' = [h EXCEPT ![c].pc = "confirm",
                          ![c].subs = {x \in @ : x[2] # ch} \cup {s}]
        /\ dl' = [dl EXCEPT ![s] = "recv"]
        /\ UNCHANGED <<run, clients, mu, peers, history, hand>>

\* Broker.Subscribe, cs.Subs and Deliver, which starts the goroutine.
Register(c) ==
    LET ch == Head(h[c].cmd.args)
        s == <<c, ch, NextSub(c, ch)>>
    IN  /\ At(c, "subscribe")
        /\ ~Subscribed(c, ch)
        /\ Subscribe(s)
        /\ h' = [h EXCEPT ![c].pc = "confirm", ![c].subs = @ \cup {s}]
        /\ dl' = [dl EXCEPT ![s] = "recv"]
        /\ UNCHANGED <<run, clients, mu, peers, history, hand>>

\* A channel the connection already has gets no second reply.
AlreadySubscribed(c) ==
    /\ At(c, "subscribe")
    /\ Subscribed(c, Head(h[c].cmd.args))
    /\ NextArg(c, h[c].subs)
    /\ UNCHANGED <<broker, run, clients, mu, peers, history, delivery>>

\* A reply cannot be written: the loops of cmdSubscribe and cmdUnsubscribe end with
\* an error, upon which the handler returns as it does upon that of QUIT.
ReplyFails(c, newSubs) ==
    /\ c \notin up
    /\ h' = [h EXCEPT ![c].cmd = [op |-> "QUIT", args |-> <<>>], ![c].subs = newSubs,
                      ![c].pc = "flush"]

\* writeSubscribeReply.
Confirm(c) ==
    LET rest == Tail(h[c].cmd.args) IN
    /\ At(c, "confirm")
    /\ out' = Written(c, <<"subscribe", Head(h[c].cmd.args)>>)
    /\ \/ h' = [h EXCEPT ![c].cmd.args = rest,
                         ![c].pc = IF rest # <<>> THEN "subscribe" ELSE "flush"]
       \/ ReplyFails(c, h[c].subs)
    /\ UNCHANGED <<broker, run, clients, mu, peers, accepted, delivery>>

\* UNSUBSCRIBE without channels means all of them, in any order; if there is
\* none, one reply is sent.
UnsubscribeStart(c) ==
    /\ Dispatch(c, "UNSUBSCRIBE")
    /\ \E args \in IF h[c].cmd.args # <<>> THEN {h[c].cmd.args}
                   ELSE SetToSeqs({s[2] : s \in h[c].subs}) :
          h' = [h EXCEPT ![c].pc = IF args = <<>> THEN "flush" ELSE "unsubscribe",
                         ![c].cmd.args = args]
    /\ UNCHANGED <<broker, run, clients, peers, history, delivery>>

\* One channel of cmdUnsubscribe: Broker.Unsubscribe, delete, reply.
Unregister(c) ==
    LET ch == Head(h[c].cmd.args)
        left == {s \in h[c].subs : s[2] # ch}
    IN  /\ At(c, "unsubscribe")
        /\ IF Subscribed(c, ch)
           THEN \E s \in h[c].subs : s[2] = ch /\ Unsubscribe(s)
           ELSE UNCHANGED broker
        /\ NextArg(c, left) \/ ReplyFails(c, left)
        /\ UNCHANGED <<run, clients, mu, peers, history, delivery>>

\* Publish, first half: the subscribers of the channel.
PublishStart(c) ==
    /\ Dispatch(c, "PUBLISH")
    /\ h' = [h EXCEPT ![c].pc = "publish", ![c].targets = Targets(Head(h[c].cmd.args))]
    /\ UNCHANGED <<broker, run, clients, peers, history, delivery>>

Msg(c) == <<c, h[c].sent, Head(h[c].cmd.args)>>

\* Publish, second half: one send, to whichever target the map yields next.
PublishSend(c) ==
    /\ At(c, "publish")
    /\ \E s \in h[c].targets :
          /\ Send(s, Msg(c))
          /\ h' = [h EXCEPT ![c].targets = @ \ {s}]
          /\ accepted' = IF Room(s) /\ s[1] \in up
                         THEN [accepted EXCEPT ![s] = Append(@, Msg(c))] ELSE accepted
    /\ UNCHANGED <<run, clients, mu, peers, out, delivery>>

\* A send on a channel that was closed panics, in a select too, and ends the
\* process with all it holds: no handler recovers.
PublishPanics(c) ==
    /\ At(c, "publish")
    /\ h[c].targets \cap closed # {}
    /\ run' = "panicked"
    /\ clients' = 0
    /\ subs' = {} /\ closed' = {}
    /\ C' = [s \in Subscription |-> <<>>]
    /\ h' = [x \in Conns |-> Idle] /\ mu' = [x \in Conns |-> "free"] /\ up' = {} /\ stalled' = {}
    /\ dl' = [s \in Subscription |-> "off"] /\ hand' = [s \in Subscription |-> <<>>]
    /\ UNCHANGED history

Published(c) ==
    /\ At(c, "publish")
    /\ h[c].targets = {}
    /\ Goto(c, "flush")
    /\ UNCHANGED <<broker, run, clients, mu, peers, history, delivery>>

\* writer.Flush() and writeMu.Unlock().  The handler returns after QUIT, and
\* when it notices that the client has gone.
Flush(c) ==
    /\ At(c, "flush")
    /\ c \notin stalled
    /\ mu' = [mu EXCEPT ![c] = "free"]
    /\ \/ /\ h[c].cmd.op # "QUIT"
          /\ Loop(c)
       \/ /\ h[c].cmd.op = "QUIT" \/ c \notin up
          /\ Goto(c, "cleanup")
    /\ UNCHANGED <<broker, run, clients, peers, history, delivery>>

----------------------------------------------------------------------------
(* Leaving *)

\* The deferred function drops the subscriptions one after the other, ...
Cleanup(c) ==
    /\ At(c, "cleanup")
    /\ \E s \in h[c].subs :
          /\ Unsubscribe(s)
          /\ h' = [h EXCEPT ![c].subs = @ \ {s}]
    /\ UNCHANGED <<run, clients, mu, peers, history, delivery>>

Delivering(c) == {s \in Subscription : s[1] = c /\ dl[s] \notin {"off", "ended"}}

\* Mutant: the connection is closed without waiting for deliveries.
ReturnEarly(c) ==
    /\ At(c, "cleanup")
    /\ h[c].subs = {}
    /\ clients' = clients - 1
    /\ h' = [h EXCEPT ![c] = [Idle EXCEPT !.pc = "done"]]
    /\ Closed(c)
    /\ UNCHANGED <<broker, run, mu, delivery>>

\* Mutant: the counter is not decremented.
ReturnUncounted(c) ==
    /\ At(c, "cleanup")
    /\ h[c].subs = {}
    /\ Delivering(c) = {}
    /\ h' = [h EXCEPT ![c] = [Idle EXCEPT !.pc = "done"]]
    /\ Closed(c)
    /\ UNCHANGED <<broker, run, clients, mu, delivery>>

\* ... waits for the delivery goroutines, and the connection is closed.
Return(c) ==
    /\ At(c, "cleanup")
    /\ h[c].subs = {}
    /\ Delivering(c) = {}
    /\ clients' = clients - 1
    /\ h' = [h EXCEPT ![c] = [Idle EXCEPT !.pc = "done"]]
    /\ Closed(c)
    /\ UNCHANGED <<broker, run, mu, delivery>>

----------------------------------------------------------------------------
(* The delivery goroutine of a subscription *)

Take(s) ==
    /\ Running
    /\ dl[s] = "recv"
    /\ Receive(s)
    /\ hand' = [hand EXCEPT ![s] = <<Head(C[s])>>]
    /\ dl' = [dl EXCEPT ![s] = "lock"]
    /\ UNCHANGED <<run, clients, sessions>>

\* Mutant: deliveries do not take writeMu.
LockNothing(s) ==
    /\ Running
    /\ dl[s] = "lock"
    /\ dl' = [dl EXCEPT ![s] = "push"]
    /\ UNCHANGED <<broker, run, clients, h, mu, peers, history, hand>>

LockWriter(s) ==
    /\ Running
    /\ dl[s] = "lock"
    /\ mu[s[1]] = "free"
    /\ mu' = [mu EXCEPT ![s[1]] = "delivery"]
    /\ dl' = [dl EXCEPT ![s] = "push"]
    /\ UNCHANGED <<broker, run, clients, h, peers, history, hand>>

\* Write, flush, unlock.  Errors are ignored; the flush blocks while the
\* client does not read.
Push(s) ==
    /\ Running
    /\ dl[s] = "push"
    /\ s[1] \notin stalled
    /\ out' = Written(s[1], <<"message", hand[s][1], s>>)
    /\ mu' = [mu EXCEPT ![s[1]] = "free"]
    /\ hand' = [hand EXCEPT ![s] = <<>>]
    /\ dl' = [dl EXCEPT ![s] = "recv"]
    /\ UNCHANGED <<broker, run, clients, h, peers, accepted>>

\* Mutant: the loop ends as soon as the channel is closed.
FinishEarly(s) ==
    /\ Running
    /\ dl[s] = "recv"
    /\ s \in closed
    /\ dl' = [dl EXCEPT ![s] = "ended"]
    /\ UNCHANGED <<broker, run, clients, sessions, hand>>

\* The loop ends when the channel is closed and drained.
Finish(s) ==
    /\ Running
    /\ dl[s] = "recv"
    /\ s \in closed
    /\ C[s] = <<>>
    /\ dl' = [dl EXCEPT ![s] = "ended"]
    /\ UNCHANGED <<broker, run, clients, sessions, hand>>

----------------------------------------------------------------------------
(* Run *)

\* The context is cancelled, ...
Shutdown ==
    /\ run = "serving"
    /\ run' = "cancelled"
    /\ UNCHANGED <<broker, clients, sessions, delivery>>

\* ... the listener is closed, and the accept loop is left.
CloseListener ==
    /\ run = "cancelled"
    /\ run' = "draining"
    /\ UNCHANGED <<broker, clients, sessions, delivery>>

\* s.wg.Wait() returns.
Stop ==
    /\ run = "draining"
    /\ \A c \in Conns : h[c].pc \in {"none", "refused", "done"}
    /\ run' = "stopped"
    /\ UNCHANGED <<broker, clients, sessions, delivery>>

\* The steps of a handler but ReadCommand, which waits for the client.
Handler(c) ==
    \/ Start(c) \/ ReadError(c)
    \/ NotAllowed(c) \/ Ping(c)
    \/ SubscribeStart(c) \/ Register(c) \/ AlreadySubscribed(c) \/ Confirm(c)
    \/ UnsubscribeStart(c) \/ Unregister(c)
    \/ PublishStart(c) \/ PublishSend(c) \/ PublishPanics(c) \/ Published(c)
    \/ Flush(c) \/ Cleanup(c) \/ Return(c)

Delivery(s) == Take(s) \/ LockWriter(s) \/ Push(s) \/ Finish(s)

Next ==
    \/ \E c \in Conns :
          \/ Accept(c) \/ HangUp(c) \/ Stall(c) \/ Handler(c)
          \/ ReadCommand(c)
    \/ \E s \in Subscription : Delivery(s)
    \/ Shutdown
    \/ CloseListener
    \/ Stop

Spec == Init /\ [][Next]_vars

(***************************************************************************)
(* Goroutines that can run are scheduled.  No client is obliged to send,   *)
(* to hang up or to go on reading.                                         *)
(***************************************************************************)
FairSpec ==
    /\ Spec
    /\ \A c \in Conns : WF_vars(Handler(c))
    /\ \A s \in Subscription : WF_vars(Delivery(s))
    /\ WF_vars(CloseListener)
    /\ WF_vars(Stop)

----------------------------------------------------------------------------
(* Properties *)

PCs == {"none", "refused", "started", "read", "want", "subscribe", "confirm",
        "unsubscribe", "publish", "flush", "cleanup", "done"}

\* The values every variable takes; no buffer exceeds its capacity.
TypeOK ==
    /\ subs \subseteq Subscription
    /\ C \in [Subscription -> Seq(Message)]
    /\ \A s \in Subscription : Len(C[s]) <= BufCap
    /\ closed \subseteq Subscription
    /\ run \in {"serving", "cancelled", "draining", "stopped", "panicked"}
    /\ clients \in Nat
    /\ h \in [Conns -> [pc : PCs, sent : Nat, cmd : Command, subs : SUBSET Subscription,
                        targets : SUBSET Subscription]]
    /\ mu \in [Conns -> {"free", "handler", "delivery"}]
    /\ dl \in [Subscription -> {"off", "recv", "lock", "push", "ended"}]
    /\ hand \in [Subscription -> Seq(Message)]
    /\ up \subseteq Conns /\ stalled \subseteq up

IsMessage(x) == x[1] = "message"

(***************************************************************************)
(* A message is written to a client only after the reply that confirms the *)
(* subscription it came by, although Publish can reach a subscription      *)
(* before its handler has replied: the k-th subscription to a channel is   *)
(* used after the k-th confirmation.                                       *)
(***************************************************************************)
ConfirmedFirst ==
    \A c \in Conns : \A j \in DOMAIN out[c] : IsMessage(out[c][j]) =>
        LET s == out[c][j][3]
            confirmed == {i \in 1 .. j : out[c][i][1] = "subscribe" /\ out[c][i][2] = s[2]}
        IN  Cardinality(confirmed) >= s[3]

(***************************************************************************)
(* No client reads a message twice, however it subscribes and unsubscribes *)
(* while Publish walks over an older set of subscriptions.                 *)
(***************************************************************************)
ReadOnce ==
    \A c \in Conns : \A i, j \in DOMAIN out[c] :
        IsMessage(out[c][i]) /\ IsMessage(out[c][j]) /\ out[c][i][2] = out[c][j][2] => i = j

\* The messages that came by subscription s, of all the things a client was sent.
Messages(things, s) ==
    LET came[n \in 0 .. Len(things)] ==
            IF n = 0 THEN <<>>
            ELSE IF IsMessage(things[n]) /\ things[n][3] = s
                 THEN Append(came[n - 1], things[n][2])
                 ELSE came[n - 1]
    IN  came[Len(things)]

\* The messages that client s[1] has read by subscription s.
ReadBy(s) == Messages(out[s[1]], s)

(***************************************************************************)
(* What Publish counted as delivered is not lost, duplicated or reordered  *)
(* on its way to a client that stays connected, also when the client has   *)
(* unsubscribed: it has been read, or is in the hand of the delivery       *)
(* goroutine or in the buffer, and that goroutine has not ended.           *)
(***************************************************************************)
DeliveredInOrder ==
    Running => \A s \in Subscription : s[1] \in up =>
        /\ ReadBy(s) \o hand[s] \o C[s] = accepted[s]
        /\ dl[s] = "ended" => ReadBy(s) = accepted[s]

(***************************************************************************)
(* A handler that has returned leaves nothing behind: no subscription in   *)
(* the broker, no delivery goroutine that could write to the closed        *)
(* connection, and writeMu free.                                           *)
(***************************************************************************)
NothingLeftBehind ==
    \A c \in Conns : h[c].pc = "done" =>
        /\ {s \in subs : s[1] = c} = {}
        /\ Delivering(c) = {}
        /\ mu[c] = "free"

\* The handlers that Run has started and that have not returned.
Serving == {c \in Conns : h[c].pc \notin {"none", "refused", "done"}}

(***************************************************************************)
(* "Enforce maxclients": a client is turned away only when as many others  *)
(* are being served as the limit allows.  (The limit itself can be passed: *)
(* a handler counts itself after the accept loop has gone on.)             *)
(***************************************************************************)
RefusedOnlyWhenFull ==
    [][\A c \in Conns : h[c].pc = "none" /\ h'[c].pc = "refused" =>
           Cardinality(Serving) >= MaxClients]_vars

(***************************************************************************)
(* "One slow client can never stall the publisher": Publish comes to an    *)
(* end even if subscribers never read again.                               *)
(***************************************************************************)
PublishReturns ==
    \A c \in Conns : h[c].pc = "publish" ~> (h[c].pc # "publish" \/ ~Running)

\* A client that goes on reading gets what is buffered for it.
BufferDrains ==
    \A s \in Subscription : C[s] # <<>> ~> (C[s] = <<>> \/ s[1] \notin up \ stalled)

(***************************************************************************)
(* A shutdown waits for nothing but clients: those that are connected and  *)
(* send nothing, because ReadCommand is not woken up, and those that do    *)
(* not read.  Everything else comes to an end.                             *)
(***************************************************************************)
ShutdownDrains ==
    run \in {"cancelled", "draining"} ~>
        \/ ~Running
        \/ \E c \in up : h[c].pc = "read"
        \/ \E c \in stalled : h[c].pc = "flush" \/ mu[c] = "delivery"

\* "Safe to call once per sub": closing a subscription's channel never makes
\* Publish send on a closed channel.
NoPanic == run # "panicked"
=============================================================================
