------------------------------- MODULE AofLog -------------------------------
(***************************************************************************)
(* The append-only log of internal/aof/aof.go: connection goroutines send  *)
(* commands into a bounded channel, one writer goroutine takes them out    *)
(* and writes them through a buffer into the file, flushing when it sees   *)
(* the channel empty.  INFO flushes as well (Size).  A graceful shutdown   *)
(* waits for the connections and then closes the log (server.Run); a crash *)
(* loses the channel and the buffer, and the next start replays the file   *)
(* and appends to what it finds.                                           *)
(*                                                                         *)
(* A record, the RESP form of one command, is two halves, so that a write  *)
(* can stop inside a record.                                               *)
(***************************************************************************)
EXTENDS Integers, Sequences, SequencesExt, FiniteSets

CONSTANTS
    Conns,      \* connection goroutines
    Capacity,   \* capacity of the channel (1024 in Open)
    BufCap,     \* halves of records that fit in the bufio.Writer
    MaxAppends, \* bound: commands each connection logs
    MaxStarts   \* bound: how often the process is started

ASSUME CapacityAssumption == Capacity \in Nat \ {0}
ASSUME BufCapAssumption == BufCap \in Nat \ {0}
ASSUME AofBoundsAssumption == MaxAppends \in Nat /\ MaxStarts \in Nat \ {0}

VARIABLES
    ch,         \* l.ch
    closed,     \* l.ch has been closed
    hand,       \* the command the writer has received and not yet written
    pc,         \* where the writer is in writeLoop
    buf,        \* l.w
    file,       \* the contents of the file
    open,       \* the connections whose handler is running (s.wg)
    sending,    \* those of them that are inside Append
    seq,        \* seq[p]: how many commands connection p has sent
    server,     \* what Run is doing
    starts,     \* how often the process was started (bounds the model)
    base,       \* history: the file when it was opened
    accepted    \* history: the commands sent since then, in order

conns == <<open, sending, seq>>
vars == <<ch, closed, hand, pc, buf, file, conns, server, starts, base, accepted>>

Record == Conns \X Nat

Half == Record \X {1, 2}

\* writeCommand: a command as it lies in the file.
Halves(recs) == [j \in 1 .. 2 * Len(recs) |-> <<recs[(j + 1) \div 2], 2 - (j % 2)>>]

(***************************************************************************)
(* Replay reads records from the start of the file and ends at the first   *)
(* that is not complete.  When such a torn record is not the last thing in *)
(* the file, ReadCommand may instead fill it up with the bytes of the next *)
(* record; that record is then lost as well, and nothing below depends on  *)
(* what follows it.                                                        *)
(***************************************************************************)
Complete(f, n) ==
    \A i \in 1 .. n : /\ f[2 * i - 1][2] = 1
                      /\ f[2 * i] = <<f[2 * i - 1][1], 2>>

Replayed(f) ==
    LET n == CHOOSE m \in 0 .. Len(f) \div 2 :
                 /\ Complete(f, m)
                 /\ m = Len(f) \div 2 \/ ~Complete(f, m + 1)
    IN  [i \in 1 .. n |-> f[2 * i][1]]

Init ==
    /\ ch = <<>>
    /\ closed = FALSE
    /\ hand = <<>>
    /\ pc = "recv"
    /\ buf = <<>>
    /\ file = <<>>
    /\ open = {}
    /\ sending = {}
    /\ seq = [p \in Conns |-> 0]
    /\ server = "serving"
    /\ starts = 1
    /\ base = <<>>
    /\ accepted = <<>>

----------------------------------------------------------------------------
(* Connections *)

\* Run accepts connections until the listener is closed.
Accept(p) ==
    /\ server = "serving"
    /\ p \notin open
    /\ seq[p] < MaxAppends
    /\ open' = open \cup {p}
    /\ UNCHANGED <<ch, closed, hand, pc, buf, file, sending, seq, server, starts, base, accepted>>

\* A handler calls Append.  It may do so during shutdown too: the handler
\* looks at the context before it waits for a command, not after.
Call(p) ==
    /\ p \in open \ sending
    /\ seq[p] < MaxAppends
    /\ sending' = sending \cup {p}
    /\ UNCHANGED <<ch, closed, hand, pc, buf, file, open, seq, server, starts, base, accepted>>

\* Mutant: the channel is not bounded.
SendUnbounded(p) ==
    /\ p \in sending
    /\ ch' = Append(ch, <<p, seq[p] + 1>>)
    /\ accepted' = Append(accepted, <<p, seq[p] + 1>>)
    /\ seq' = [seq EXCEPT ![p] = @ + 1]
    /\ sending' = sending \ {p}
    /\ UNCHANGED <<closed, hand, pc, buf, file, open, server, starts, base>>

\* l.ch <- args: blocks while the channel is full.
Send(p) ==
    /\ p \in sending
    /\ Len(ch) < Capacity
    /\ ch' = Append(ch, <<p, seq[p] + 1>>)
    /\ accepted' = Append(accepted, <<p, seq[p] + 1>>)
    /\ seq' = [seq EXCEPT ![p] = @ + 1]
    /\ sending' = sending \ {p}
    /\ UNCHANGED <<closed, hand, pc, buf, file, open, server, starts, base>>

\* The handler returns: the client has gone, or the server is shutting down.
Leave(p) ==
    /\ p \in open \ sending
    /\ open' = open \ {p}
    /\ UNCHANGED <<ch, closed, hand, pc, buf, file, sending, seq, server, starts, base, accepted>>

\* l.mu is free: the writer holds it from its write to its flush decision.
MutexFree == pc # "locked"

Flush == buf' = <<>> /\ file' = file \o buf

\* INFO asks for the size of the file.
Size(p) ==
    /\ p \in open \ sending
    /\ MutexFree
    /\ Flush
    /\ UNCHANGED <<ch, closed, hand, pc, conns, server, starts, base, accepted>>

----------------------------------------------------------------------------
(* The writer goroutine *)

\* for cmd := range l.ch
Receive ==
    /\ pc = "recv"
    /\ ch # <<>>
    /\ hand' = <<Head(ch)>>
    /\ ch' = Tail(ch)
    /\ pc' = "write"
    /\ UNCHANGED <<closed, buf, file, conns, server, starts, base, accepted>>

\* Mutant: a record that does not fit replaces what the buffer holds.
WriteOverBuffer ==
    /\ pc = "write"
    /\ buf' = IF Len(buf) + 2 <= BufCap THEN buf \o Halves(hand) ELSE Halves(hand)
    /\ hand' = <<>>
    /\ pc' = "locked"
    /\ UNCHANGED <<ch, closed, file, conns, server, starts, base, accepted>>

\* Mutant: a record that does not fit goes to the file past the buffer.
WritePastBuffer ==
    /\ pc = "write"
    /\ IF Len(buf) + 2 <= BufCap
       THEN buf' = buf \o Halves(hand) /\ UNCHANGED file
       ELSE file' = file \o Halves(hand) /\ UNCHANGED buf
    /\ hand' = <<>>
    /\ pc' = "locked"
    /\ UNCHANGED <<ch, closed, conns, server, starts, base, accepted>>

(***************************************************************************)
(* writeCommand under l.mu.  A record that does not fit makes bufio write  *)
(* out what it holds and some part of the record.                          *)
(***************************************************************************)
Write ==
    LET all == buf \o Halves(hand) IN
    /\ pc = "write"
    /\ \E n \in 0 .. Len(all) :
          /\ IF Len(all) <= BufCap THEN n = 0
             ELSE n >= Len(buf) /\ n >= 1 /\ Len(all) - n <= BufCap
          /\ file' = file \o SubSeq(all, 1, n)
          /\ buf' = SubSeq(all, n + 1, Len(all))
    /\ hand' = <<>>
    /\ pc' = "locked"
    /\ UNCHANGED <<ch, closed, conns, server, starts, base, accepted>>

\* Mutant: the writer leaves flushing to INFO and to Close.
FlushNever ==
    /\ pc = "locked"
    /\ pc' = "recv"
    /\ UNCHANGED <<ch, closed, hand, buf, file, conns, server, starts, base, accepted>>

\* Mutant: the writer waits for the channel to be empty while it holds l.mu.
FlushOnlyDrained ==
    /\ pc = "locked"
    /\ ch = <<>>
    /\ Flush
    /\ pc' = "recv"
    /\ UNCHANGED <<ch, closed, hand, conns, server, starts, base, accepted>>

\* if len(l.ch) == 0 { l.w.Flush() }, still under l.mu.
FlushIfDrained ==
    /\ pc = "locked"
    /\ IF ch = <<>> THEN Flush ELSE UNCHANGED <<buf, file>>
    /\ pc' = "recv"
    /\ UNCHANGED <<ch, closed, hand, conns, server, starts, base, accepted>>

\* Mutant: the writer does not notice that the channel was closed.
FinalFlushStays ==
    /\ pc = "recv"
    /\ closed
    /\ ch = <<>>
    /\ Flush
    /\ UNCHANGED <<ch, closed, hand, pc, conns, server, starts, base, accepted>>

\* The channel is closed and drained: flush once more and exit.
FinalFlush ==
    /\ pc = "recv"
    /\ closed
    /\ ch = <<>>
    /\ Flush
    /\ pc' = "exited"
    /\ UNCHANGED <<ch, closed, hand, conns, server, starts, base, accepted>>

Writer == Receive \/ Write \/ FlushIfDrained \/ FinalFlush

----------------------------------------------------------------------------
(* The process *)

\* The context is cancelled, the listener closed, the accept loop left.
Shutdown ==
    /\ server = "serving"
    /\ server' = "draining"
    /\ UNCHANGED <<ch, closed, hand, pc, buf, file, conns, starts, base, accepted>>

\* Mutant: Close does not wait for the handlers.
CloseChannelEarly ==
    /\ server = "draining"
    /\ closed' = TRUE
    /\ server' = "closing"
    /\ UNCHANGED <<ch, hand, pc, buf, file, conns, starts, base, accepted>>

\* After s.wg.Wait(), Close closes the channel ...
CloseChannel ==
    /\ server = "draining"
    /\ open = {}
    /\ closed' = TRUE
    /\ server' = "closing"
    /\ UNCHANGED <<ch, hand, pc, buf, file, conns, starts, base, accepted>>

\* ... and closes the file once the writer has exited.
CloseFile ==
    /\ server = "closing"
    /\ pc = "exited"
    /\ server' = "stopped"
    /\ UNCHANGED <<ch, closed, hand, pc, buf, file, conns, starts, base, accepted>>

\* The process dies.  What has not reached the file is gone.
Crash ==
    /\ server \notin {"stopped", "crashed"}
    /\ server' = "crashed"
    /\ pc' = "exited"
    /\ ch' = <<>> /\ hand' = <<>> /\ buf' = <<>>
    /\ open' = {} /\ sending' = {}
    /\ UNCHANGED <<closed, file, seq, starts, base, accepted>>

\* Run: replay the file, then Open it for appending: its contents stay, the
\* channel and the buffer are new.
Restart ==
    /\ server \in {"stopped", "crashed"}
    /\ starts < MaxStarts
    /\ ch' = <<>> /\ closed' = FALSE
    /\ hand' = <<>> /\ pc' = "recv" /\ buf' = <<>>
    /\ server' = "serving"
    /\ base' = file /\ accepted' = <<>>
    /\ starts' = starts + 1
    /\ UNCHANGED <<file, conns>>

Next ==
    \/ \E p \in Conns : Accept(p) \/ Call(p) \/ Send(p) \/ Size(p) \/ Leave(p)
    \/ Writer
    \/ Shutdown
    \/ CloseChannel
    \/ CloseFile
    \/ Crash
    \/ Restart

Spec == Init /\ [][Next]_vars

(***************************************************************************)
(* The writer goroutine is scheduled; senders blocked on a full channel    *)
(* are served in turn by the runtime; a shutdown that has begun goes on.   *)
(***************************************************************************)
FairSpec ==
    /\ Spec
    /\ WF_vars(Writer)
    /\ \A p \in Conns : SF_vars(Send(p))
    /\ WF_vars(CloseChannel)
    /\ WF_vars(CloseFile)

----------------------------------------------------------------------------
(* Properties *)

PCs == {"recv", "write", "locked", "exited"}

States == {"serving", "draining", "closing", "stopped", "crashed"}

\* The values every variable takes; the channel never exceeds its capacity
\* and the buffer its size.
TypeOK ==
    /\ ch \in Seq(Record) /\ Len(ch) <= Capacity
    /\ closed \in BOOLEAN
    /\ hand \in Seq(Record) /\ Len(hand) <= 1
    /\ pc \in PCs
    /\ buf \in Seq(Half) /\ Len(buf) <= BufCap
    /\ file \in Seq(Half)
    /\ sending \subseteq open
    /\ open \subseteq Conns
    /\ seq \in [Conns -> Nat]
    /\ server \in States
    /\ starts \in Nat
    /\ base \in Seq(Half)
    /\ accepted \in Seq(Record)

(***************************************************************************)
(* Between the senders and the disk no command is lost, duplicated or      *)
(* reordered, and no two records are interleaved: what is in the file, the *)
(* buffer, the writer's hand and the channel is, in this order, exactly    *)
(* what has been accepted since the log was opened.                        *)
(***************************************************************************)
NothingLost ==
    server # "crashed" =>
        file \o buf \o Halves(hand) \o Halves(ch) = base \o Halves(accepted)

(***************************************************************************)
(* "If nothing else is queued, flush now so data reaches the OS promptly": *)
(* the writer never goes to sleep on a buffer that holds data, although it *)
(* looks at the channel without excluding the senders.                     *)
(***************************************************************************)
IdleMeansFlushed == pc = "recv" /\ ch = <<>> => buf = <<>>

(***************************************************************************)
(* Close comes after every handler has returned: no goroutine is left to   *)
(* send on the closed channel, which would panic, and the file that Close  *)
(* leaves holds everything that was accepted.                              *)
(***************************************************************************)
ClosedIsComplete ==
    /\ closed => sending = {}
    /\ server = "stopped" => file = base \o Halves(accepted)

\* f holds complete records only.
Whole(f) == f = Halves(Replayed(f))

(***************************************************************************)
(* Whenever the process dies, replay finds a prefix of what was accepted:  *)
(* possibly not the last commands, but never one without those before it   *)
(* and never a part of one.  (For a file that was whole when opened.)      *)
(***************************************************************************)
ReplayIsPrefix ==
    Whole(base) => IsPrefix(Replayed(file), Replayed(base) \o accepted)

(***************************************************************************)
(* "On startup the file is replayed to rebuild the exact dataset": after a *)
(* graceful stop, replay finds all that was in the log when it was opened  *)
(* and all that was accepted since.                                        *)
(***************************************************************************)
StopKeepsAll == server = "stopped" => Replayed(file) = Replayed(base) \o accepted

\* Append blocks only for a while: back-pressure, not deadlock.
AppendsReturn == \A p \in Conns : p \in sending ~> p \notin sending

\* Unless the process dies, a command that was accepted reaches the file.
AcceptedReachesFile ==
    \A p \in Conns, n \in 1 .. MaxAppends :
        (<<p, n>> \in ToSet(accepted)) ~>
            (<<<<p, n>>, 2>> \in ToSet(file) \/ server = "crashed")

\* A shutdown whose connections have ended comes to its end.
ShutdownCompletes ==
    server = "draining" /\ open = {} ~> server \in {"stopped", "crashed"}

----------------------------------------------------------------------------
(* The log as its users see it *)

\* How many of the commands accepted since the log was opened are in the file.
Saved ==
    Cardinality({n \in 1 .. Len(accepted) :
                    IsPrefix(base \o Halves(SubSeq(accepted, 1, n)), file)})

Abstract == INSTANCE CommandLog WITH
    Command <- Conns \X (1 .. MaxAppends),
    log     <- IF server = "crashed" THEN SubSeq(accepted, 1, Saved) ELSE accepted,
    safe    <- Saved,
    process <- IF server \in {"stopped", "crashed"} THEN server ELSE "up"

(***************************************************************************)
(* Channel, writer, buffer and file together are the log of CommandLog:    *)
(* what is in the file is always a prefix of what was accepted and never   *)
(* shrinks, through spills, flushes and INFO; Close ends only when all of  *)
(* it is there; a crash keeps exactly that prefix.                         *)
(***************************************************************************)
ImplementsCommandLog == Abstract!Spec
============================================================================
