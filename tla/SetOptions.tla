----------------------------- MODULE SetOptions -----------------------------
(***************************************************************************)
(* The options of SET: parseSetOpts of internal/command/helpers.go.  An    *)
(* option is a token, upper-cased; a token that is an amount is in the     *)
(* domain of AmountOf.  A time.Duration is a signed integer of few bits,   *)
(* and a multiplication keeps the low ones.                                *)
(***************************************************************************)
EXTENDS Integers, Sequences

CONSTANTS
    AmountOf,   \* AmountOf[t]: the integer that the token t denotes
    Wrapping    \* durations are in -Wrapping .. Wrapping - 1

\* The name of an option is not an integer.
ASSUME DurationAssumption ==
    /\ Wrapping \in Nat \ {0}
    /\ AmountOf \in [DOMAIN AmountOf -> Int]
    /\ DOMAIN AmountOf \cap {"EX", "PX", "NX", "XX"} = {}

Millisecond == 1
Second == 4

Unit(option) == IF option = "EX" THEN Second ELSE Millisecond

\* d as a time.Duration.
Wrap(d) == ((d + Wrapping) % (2 * Wrapping)) - Wrapping

SyntaxError == [ok |-> FALSE]

\* Mutant: only an NX behind an XX is noticed.
ConflictsOneWay(acc, opt) == opt = "NX" /\ acc.xx

\* NX and XX exclude each other.
Conflicts(acc, opt) == (opt = "NX" /\ acc.xx) \/ (opt = "XX" /\ acc.nx)

\* A round of the loop: `acc' is what the options before the i-th have set.
Option(opts, acc) ==
    LET opt == opts[acc.i]
        amount == AmountOf[opts[acc.i + 1]]
    IN  IF opt \in {"EX", "PX"}
        THEN IF acc.haveTTL \/ acc.i + 1 > Len(opts) THEN SyntaxError
             ELSE IF opts[acc.i + 1] \notin DOMAIN AmountOf THEN SyntaxError
             ELSE IF amount <= 0 THEN SyntaxError
             ELSE [acc EXCEPT !.haveTTL = TRUE, !.ttl = Wrap(amount * Unit(opt)),
                              !.i = @ + 2]
        ELSE IF opt \notin {"NX", "XX"} \/ Conflicts(acc, opt) THEN SyntaxError
        ELSE [acc EXCEPT !.nx = @ \/ opt = "NX", !.xx = @ \/ opt = "XX", !.i = @ + 1]

\* There are at most as many rounds as options.
parseSetOpts(opts) ==
    LET Round(acc) == IF ~acc.ok \/ acc.i > Len(opts) THEN acc ELSE Option(opts, acc)
        after[n \in 0 .. Len(opts)] ==
            IF n = 0
            THEN [ok |-> TRUE, ttl |-> 0, nx |-> FALSE, xx |-> FALSE, haveTTL |-> FALSE, i |-> 1]
            ELSE Round(after[n - 1])
    IN  after[Len(opts)]
=============================================================================
