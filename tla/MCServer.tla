------------------------------ MODULE MCServer ------------------------------
(* A subscriber that comes and goes and a publisher, a limit of one client   *)
(* (which two connections that arrive together pass), buffers of one         *)
(* message.  Three messages are one more than the buffer and the hand of the *)
(* delivery goroutine hold.                                                  *)
EXTENDS Server

CONSTANTS a, p, ch1

Cmd(op, args) == [op |-> op, args |-> args]

Sub == Cmd("SUBSCRIBE", <<ch1>>)
Pub == Cmd("PUBLISH", <<ch1>>)

MCScript ==
    [c \in Conns |-> IF c = a
        THEN <<{Sub}, {Cmd("UNSUBSCRIBE", <<>>), Pub}, {Sub, Cmd("QUIT", <<>>)}>>
        ELSE <<{Pub}, {Pub}, {Pub}>>]

MCMaxSubs == [c \in Conns |-> IF c = a THEN 2 ELSE 0]
=============================================================================
