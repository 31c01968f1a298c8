------------------------------- MODULE Broker -------------------------------
(***************************************************************************)
(* The pub/sub broker of internal/pubsub/pubsub.go.  Subscribe and         *)
(* Unsubscribe run under the broker's mutex; Publish copies the set of     *)
(* subscriptions under the mutex and sends to them after it was released,  *)
(* so that Targets and Send are steps of their own.                        *)
(*                                                                         *)
(* A subscription is identified by the connection that made it, the name   *)
(* of the channel, and a number: every call of Subscribe makes a new one.  *)
(***************************************************************************)
EXTENDS Integers, Sequences

CONSTANTS
    Conns,      \* connections
    Channels,   \* channel names
    MaxSubs,    \* bound: MaxSubs[c] subscriptions of c to one channel
    BufCap      \* capacity of a subscription's Go channel (64 in Subscribe)

ASSUME BufCapAssumption == BufCap \in Nat \ {0}
ASSUME MaxSubsAssumption == MaxSubs \in [Conns -> Nat]

VARIABLES
    subs,       \* b.subs: the subscriptions that are registered
    C,          \* C[s]: what is buffered in the Go channel of s
    closed      \* the subscriptions whose Go channel was closed

broker == <<subs, C, closed>>

Subscription == UNION {{c} \X Channels \X (1 .. MaxSubs[c]) : c \in Conns}

BrokerInit ==
    /\ subs = {}
    /\ C = [s \in Subscription |-> <<>>]
    /\ closed = {}

Subscribe(s) ==
    /\ subs' = subs \cup {s}
    /\ UNCHANGED <<C, closed>>

\* Mutant: the Go channel stays open.
UnsubscribeOpen(s) ==
    /\ subs' = subs \ {s}
    /\ UNCHANGED <<C, closed>>

\* Mutant: what is buffered is discarded.
UnsubscribeDiscard(s) ==
    /\ subs' = subs \ {s}
    /\ closed' = IF s \in subs THEN closed \cup {s} ELSE closed
    /\ C' = [C EXCEPT ![s] = <<>>]

\* Closing the channel keeps what is buffered in it.
Unsubscribe(s) ==
    /\ subs' = subs \ {s}
    /\ closed' = IF s \in subs THEN closed \cup {s} ELSE closed
    /\ UNCHANGED C

\* The copy that Publish makes under the mutex.
Targets(ch) == {s \in subs : s[2] = ch}

Room(s) == Len(C[s]) < BufCap

\* Mutant: the send waits for room.
SendBlocking(s, msg) ==
    /\ s \notin closed
    /\ Room(s)
    /\ C' = [C EXCEPT ![s] = Append(@, msg)]
    /\ UNCHANGED <<subs, closed>>

\* Mutant: the buffer is not bounded.
SendUnbounded(s, msg) ==
    /\ s \notin closed
    /\ C' = [C EXCEPT ![s] = Append(@, msg)]
    /\ UNCHANGED <<subs, closed>>

\* The select of Publish: a subscriber without room misses the message.
Send(s, msg) ==
    /\ s \notin closed
    /\ C' = [C EXCEPT ![s] = IF Room(s) THEN Append(@, msg) ELSE @]
    /\ UNCHANGED <<subs, closed>>

\* One step of `for msg := range sub.C`.
Receive(s) ==
    /\ C[s] # <<>>
    /\ C' = [C EXCEPT ![s] = Tail(@)]
    /\ UNCHANGED <<subs, closed>>
=============================================================================
