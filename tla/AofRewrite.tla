----------------------------- MODULE AofRewrite -----------------------------
(***************************************************************************)
(* Compaction of the log while it is in use: SnapshotAll                   *)
(* (internal/store/store.go) copies the dataset one shard at a time,       *)
(* Rewrite (internal/aof/aof.go) writes commands that recreate the copy to *)
(* a temporary file and swaps it for the live one under l.mu.              *)
(*                                                                         *)
(* Each connection pushes to a list of its own, in a shard of its own, and *)
(* its n-th command pushes n.  The handler changes the store before it     *)
(* calls Append, so that the list of p holds 1 .. Pushed(p).  The command  *)
(* that recreates a list is represented by one push for each element.      *)
(***************************************************************************)
EXTENDS AofLog

CONSTANT MaxRewrites    \* bound: how often the log is rewritten

ASSUME RewriteAssumption == IsFiniteSet(Conns) /\ MaxRewrites \in Nat

VARIABLES
    rw,         \* where Rewrite is
    snap,       \* snap[p]: the length of the list of p in the snapshot
    taken,      \* the shards that SnapshotAll has copied
    tmp,        \* the contents of the temporary file
    rewrites,   \* how often Rewrite was called (bounds the model)
    quiet       \* history: the connections that had no command under way
                \* from the copy of their shard to the swap, in any rewrite

rewriting == <<rw, snap, taken, tmp, rewrites>>
allVars == <<vars, rewriting, quiet>>

RewriteInit ==
    /\ Init
    /\ rw = "idle"
    /\ snap = [p \in Conns |-> 0]
    /\ taken = {}
    /\ tmp = <<>>
    /\ rewrites = 0
    /\ quiet = Conns

Up == server \notin {"stopped", "crashed"}

Pushed(p) == seq[p] + (IF p \in sending THEN 1 ELSE 0)

\* A command of p has changed the store and has not been written.
UnderWay(p) == p \in sending \/ \E r \in ToSet(hand \o ch) : r[1] = p

RewriteStart ==
    /\ Up
    /\ rw = "idle"
    /\ rewrites < MaxRewrites
    /\ rw' = "snapshot"
    /\ snap' = [p \in Conns |-> 0] /\ taken' = {}
    /\ rewrites' = rewrites + 1
    /\ UNCHANGED <<vars, tmp, quiet>>

\* SnapshotAll holds the lock of one shard.
SnapshotShard(p) ==
    /\ Up
    /\ rw = "snapshot"
    /\ p \notin taken
    /\ snap' = [snap EXCEPT ![p] = Pushed(p)]
    /\ taken' = taken \cup {p}
    /\ quiet' = IF UnderWay(p) THEN quiet \ {p} ELSE quiet
    /\ UNCHANGED <<vars, rw, tmp, rewrites>>

\* Mutant: a list of one element is taken for an empty one.
snapshotCommandsTwo(p) == [n \in 1 .. (IF snap[p] = 1 THEN 0 ELSE snap[p]) |-> <<p, n>>]

snapshotCommands(p) == [n \in 1 .. snap[p] |-> <<p, n>>]

\* The temporary file is written, flushed and closed.
WriteTemp ==
    /\ Up
    /\ rw = "snapshot"
    /\ taken = Conns
    /\ LET order == SetToSeq(Conns) IN
       tmp' = Halves(FlattenSeq([i \in DOMAIN order |-> snapshotCommands(order[i])]))
    /\ rw' = "swap"
    /\ UNCHANGED <<vars, snap, taken, rewrites, quiet>>

\* Mutant: the live file is truncated before the new one is in place.
SwapFlushTruncates ==
    /\ Up
    /\ rw = "swap"
    /\ MutexFree
    /\ buf' = <<>> /\ file' = <<>>
    /\ rw' = "rename"
    /\ base' = tmp /\ accepted' = hand \o ch
    /\ UNCHANGED <<ch, closed, hand, pc, conns, server, starts,
                   snap, taken, tmp, rewrites, quiet>>

(***************************************************************************)
(* Under l.mu: the buffer goes to the old file, which is closed.  The      *)
(* history starts anew: from here on the log is the temporary file, and    *)
(* what the writer has not written comes next.                             *)
(***************************************************************************)
SwapFlush ==
    /\ Up
    /\ rw = "swap"
    /\ MutexFree
    /\ Flush
    /\ rw' = "rename"
    /\ base' = tmp /\ accepted' = hand \o ch
    /\ UNCHANGED <<ch, closed, hand, pc, conns, server, starts,
                   snap, taken, tmp, rewrites, quiet>>

\* Still under l.mu: rename replaces the file at once, and it is opened with a
\* new buffer.
Rename ==
    /\ Up
    /\ rw = "rename"
    /\ file' = tmp /\ buf' = <<>>
    /\ rw' = "idle"
    /\ UNCHANGED <<ch, closed, hand, pc, conns, server, starts, base, accepted,
                   snap, taken, tmp, rewrites, quiet>>

\* Mutant: the other users of l.mu are not kept out.
NoLogMutex == TRUE

\* l.mu is not held by Rewrite.
LogMutex == rw # "rename"

\* The store changes when the handler is about to call Append.
CallBeside(p) ==
    /\ Call(p)
    /\ quiet' = IF rw # "idle" /\ p \in taken THEN quiet \ {p} ELSE quiet
    /\ UNCHANGED rewriting

\* The other steps of the log; those that need l.mu wait for Rewrite.
LogStep ==
    /\ \/ \E p \in Conns : Accept(p) \/ Send(p) \/ Leave(p) \/ (LogMutex /\ Size(p))
       \/ Receive
       \/ LogMutex /\ (Write \/ FlushIfDrained \/ FinalFlush \/ CloseFile)
       \/ Shutdown
       \/ CloseChannel
       \/ Crash
    /\ UNCHANGED <<rewriting, quiet>>

RewriteNext ==
    \/ RewriteStart
    \/ \E p \in Conns : SnapshotShard(p) \/ CallBeside(p)
    \/ WriteTemp
    \/ SwapFlush
    \/ Rename
    \/ LogStep

RewriteSpec == RewriteInit /\ [][RewriteNext]_allVars

----------------------------------------------------------------------------
(* Properties *)

(***************************************************************************)
(* "No appends are ... interleaved with the swap": what the writer has not *)
(* written when Rewrite takes l.mu, and what is sent later, goes to the    *)
(* new file, whole, in order and once.                                     *)
(***************************************************************************)
SwapLosesNothing == rw # "rename" => NothingLost

\* The pushes of p among the commands cmds.
Of(p, cmds) ==
    LET of[n \in 0 .. Len(cmds)] ==
            IF n = 0 THEN <<>>
            ELSE IF cmds[n][1] = p THEN Append(of[n - 1], cmds[n]) ELSE of[n - 1]
    IN  of[Len(cmds)]

(***************************************************************************)
(* Rewrite is exact for a list to which no command is under way from its   *)
(* copy to the swap, whatever happens to the other lists: the log, with    *)
(* what is still queued, holds each of its pushes once and in order.  (For *)
(* the others the claim that no appends are lost fails: a push between     *)
(* copy and swap goes to the file that is replaced, and one that was       *)
(* copied while it was queued is logged twice.)                            *)
(***************************************************************************)
QuietListsExact ==
    server # "crashed" => \A p \in quiet :
        Of(p, Replayed(base) \o accepted) = [n \in 1 .. seq[p] |-> <<p, n>>]

(***************************************************************************)
(* The replacement is atomic: at no step of Rewrite, of the writer or of a *)
(* crash between them does the file at the log's path hold less of such a  *)
(* list than before.                                                       *)
(***************************************************************************)
SavedStaysSaved ==
    [][file' # file =>
         \A p \in quiet' : IsPrefix(Of(p, Replayed(file)), Of(p, Replayed(file')))]_allVars
=============================================================================
