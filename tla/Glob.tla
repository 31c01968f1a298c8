-------------------------------- MODULE Glob --------------------------------
(***************************************************************************)
(* KEYS patterns: the backtracking matcher of internal/store/helpers.go,   *)
(* and what a pattern means, to check the matcher against.  Patterns and   *)
(* keys are sequences of bytes.  Positions count from 1.                   *)
(***************************************************************************)
EXTENDS Integers, Sequences

Star == 42
Dash == 45
Mark == 63
Open == 91
Escape == 92
Close == 93
Caret == 94

----------------------------------------------------------------------------
(* The matcher *)

\* Mutant: "-]" at the end of a class is read as a range up to ']'.
IsRangeAtClose(p, i) == i + 2 <= Len(p) /\ p[i + 1] = Dash

\* The item of a class at position i is a range.
IsRange(p, i) == i + 2 <= Len(p) /\ p[i + 1] = Dash /\ p[i + 2] # Close

\* The loop of matchClass, from the position `first': `i' is where the class ends,
\* one past p if it does not, and `found' whether one of its items has c.
ScanClass(p, c, first) ==
    LET scan[i \in 1 .. Len(p) + 1] ==
            IF i > Len(p) \/ p[i] = Close THEN [i |-> i, found |-> FALSE]
            ELSE IF IsRange(p, i)
            THEN [scan[i + 3] EXCEPT !.found = @ \/ (p[i] <= c /\ c <= p[i + 2])]
            ELSE [scan[i + 1] EXCEPT !.found = @ \/ p[i] = c]
    IN  scan[first]

\* The class that opens at position i: whether c matched, where the pattern goes on,
\* and whether the class was closed.
matchClass(p, i, c) ==
    LET negate == i < Len(p) /\ p[i + 1] = Caret
        scan == ScanClass(p, c, IF negate THEN i + 2 ELSE i + 1)
    IN  IF scan.i > Len(p)
        THEN [matched |-> FALSE, rest |-> Len(p) + 1, ok |-> FALSE]
        ELSE [matched |-> scan.found # negate, rest |-> scan.i + 1, ok |-> TRUE]

\* p from position i on matches s from position j on.
matchHere(p, s) ==
    LET here[i \in 1 .. Len(p) + 1] == [j \in 1 .. Len(s) + 1 |->
            IF i > Len(p) THEN j > Len(s)
            ELSE IF p[i] = Star
            THEN \* consecutive stars collapse; a trailing one matches what is left
                 \/ i = Len(p)
                 \/ i < Len(p) /\ p[i + 1] = Star /\ here[i + 1][j]
                 \/ i < Len(p) /\ p[i + 1] # Star /\ \E k \in j .. Len(s) + 1 : here[i + 1][k]
            ELSE /\ j <= Len(s)
                 /\ IF p[i] = Mark THEN here[i + 1][j + 1]
                    ELSE IF p[i] = Open
                    THEN LET class == matchClass(p, i, s[j])
                         IN  class.ok /\ class.matched /\ here[class.rest][j + 1]
                    ELSE IF p[i] = Escape /\ i < Len(p)
                    THEN s[j] = p[i + 1] /\ here[i + 2][j + 1]
                    ELSE s[j] = p[i] /\ here[i + 1][j + 1]]
    IN  here[1][1]

globMatch(pattern, s) == matchHere(pattern, s)

----------------------------------------------------------------------------
(* What a pattern means: a sequence of tokens, each either Gap, any number *)
(* of bytes, or a set of bytes that stands for one byte of the set.        *)

Byte == 0 .. 255

Gap == {-1}

\* The bytes that the inside of a class lists: ranges and single bytes.
Members(body) ==
    LET from[i \in 1 .. Len(body) + 1] ==
            IF i > Len(body) THEN {}
            ELSE IF i + 2 <= Len(body) /\ body[i + 1] = Dash
            THEN (body[i] .. body[i + 2]) \cup from[i + 3]
            ELSE {body[i]} \cup from[i + 1]
    IN  from[1]

\* A class that is not closed is the empty set: it stands for no byte.
ClassSet(body) ==
    IF body # <<>> /\ body[1] = Caret
    THEN Byte \ Members(Tail(body))
    ELSE Members(body)

Tokens(p) ==
    LET read[i \in 1 .. Len(p) + 1] ==
            IF i > Len(p) THEN <<>>
            ELSE IF p[i] = Star THEN <<Gap>> \o read[i + 1]
            ELSE IF p[i] = Mark THEN <<Byte>> \o read[i + 1]
            ELSE IF p[i] = Escape /\ i < Len(p) THEN <<{p[i + 1]}>> \o read[i + 2]
            ELSE IF p[i] # Open THEN <<{p[i]}>> \o read[i + 1]
            ELSE LET closed == {j \in i + 1 .. Len(p) : p[j] = Close}
                     end == CHOOSE j \in closed : \A k \in closed : j <= k
                 IN  IF closed = {} THEN <<{}>>
                     ELSE <<ClassSet(SubSeq(p, i + 1, end - 1))>> \o read[end + 1]
    IN  read[1]

\* The positions of s a token can lead to from the positions in `at'.
Advance(s, at, token) ==
    IF token = Gap
    THEN {j \in 0 .. Len(s) : \E i \in at : i <= j}
    ELSE {j \in 1 .. Len(s) : j - 1 \in at /\ s[j] \in token}

\* Laid along s, the tokens of p can reach its end.
Means(p, s) ==
    LET tokens == Tokens(p)
        at[k \in 0 .. Len(tokens)] ==
            IF k = 0 THEN {0} ELSE Advance(s, at[k - 1], tokens[k])
    IN  Len(s) \in at[Len(tokens)]
============================================================================
