----------------------------- MODULE CommandLog -----------------------------
(***************************************************************************)
(* What the append-only log promises to those who append to it: a sequence *)
(* of commands that only grows, of which a prefix is safe.  A graceful     *)
(* stop makes everything safe, the end of the process takes away what is   *)
(* not, and the next start opens a new section of the log.                 *)
(***************************************************************************)
EXTENDS Integers, Sequences

CONSTANT Command    \* what may be logged

VARIABLES
    log,        \* the commands logged since the log was opened
    safe,       \* how many of them are in the file
    process     \* "up", "stopped" or "crashed"

vars == <<log, safe, process>>

Init == log = <<>> /\ safe = 0 /\ process = "up"

Log ==
    /\ process = "up"
    /\ \E cmd \in Command : log' = Append(log, cmd)
    /\ UNCHANGED <<safe, process>>

Save ==
    /\ process = "up"
    /\ safe' \in safe .. Len(log)
    /\ UNCHANGED <<log, process>>

Stop ==
    /\ process = "up"
    /\ safe = Len(log)
    /\ process' = "stopped"
    /\ UNCHANGED <<log, safe>>

Crash ==
    /\ process = "up"
    /\ process' = "crashed"
    /\ log' = SubSeq(log, 1, safe)
    /\ UNCHANGED safe

Start ==
    /\ process # "up"
    /\ process' = "up"
    /\ log' = <<>> /\ safe' = 0

Next == Log \/ Save \/ Stop \/ Crash \/ Start

Spec == Init /\ [][Next]_vars
=============================================================================
