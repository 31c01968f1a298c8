-------------------------------- MODULE Resp --------------------------------
(***************************************************************************)
(* The wire format: the reader and the writers of internal/resp/resp.go,   *)
(* the records of the append-only file and their replay                    *)
(* (internal/aof/aof.go), and the small client of cmd/httpdemo/main.go.    *)
(*                                                                         *)
(* Strings are sequences of bytes.  A reading function takes the bytes     *)
(* that are left until the end of the stream and yields Fail, the error,   *)
(* or what it has read and the bytes behind it; Panic ends the process.    *)
(***************************************************************************)
EXTENDS Integers, Sequences, SequencesExt

LF == 10
CR == 13
Space == 32
BulkMark == 36      \* $
ArrayMark == 42     \* *
Plus == 43
Minus == 45
Digit0 == 48
Colon == 58

CRLF == <<CR, LF>>

Fail == [ok |-> FALSE, panic |-> FALSE]

\* A panic that nothing recovers.
Panic == [ok |-> FALSE, panic |-> TRUE]

Got(val, rest) == [ok |-> TRUE, val |-> val, rest |-> rest]

Drop(b, n) == SubSeq(b, n + 1, Len(b))

----------------------------------------------------------------------------
(* Writing *)

Digits[n \in Nat] ==
    IF n < 10 THEN <<Digit0 + n>> ELSE Digits[n \div 10] \o <<Digit0 + (n % 10)>>

\* The verb %d.
Decimal(n) == IF n < 0 THEN <<Minus>> \o Digits[-n] ELSE Digits[n]

WriteSimpleString(s) == <<Plus>> \o s \o CRLF

WriteInteger(n) == <<Colon>> \o Decimal(n) \o CRLF

WriteBulkString(s) == <<BulkMark>> \o Decimal(Len(s)) \o CRLF \o s \o CRLF

WriteNull == <<BulkMark>> \o Decimal(-1) \o CRLF

\* A record of the log, and a command of the HTTP demo's client.
writeCommand(args) ==
    <<ArrayMark>> \o Decimal(Len(args)) \o CRLF
    \o FlattenSeq([i \in DOMAIN args |-> WriteBulkString(args[i])])

----------------------------------------------------------------------------
(* Reading *)

\* A line without the carriage returns and line feeds at its end.
Trim(line) ==
    SubSeq(line, 1, Max({0} \cup {i \in DOMAIN line : line[i] \notin {CR, LF}}))

readLine(b) ==
    LET ends == {i \in DOMAIN b : b[i] = LF}
    IN  IF ends = {} THEN Fail
        ELSE Got(Trim(SubSeq(b, 1, Min(ends))), Drop(b, Min(ends)))

\* The number that digits denote.
Value(digits) ==
    LET upto[i \in 0 .. Len(digits)] ==
            IF i = 0 THEN 0 ELSE 10 * upto[i - 1] + (digits[i] - Digit0)
    IN  upto[Len(digits)]

\* strconv.Atoi: an optional sign and at least one digit.
Atoi(s) ==
    LET signed == s # <<>> /\ s[1] \in {Plus, Minus}
        digits == IF signed THEN Tail(s) ELSE s
    IN  IF digits = <<>> \/ \E i \in DOMAIN digits : digits[i] \notin Digit0 .. Digit0 + 9
        THEN Fail
        ELSE Got(IF s[1] = Minus THEN -Value(digits) ELSE Value(digits), <<>>)

readInt(b) ==
    LET line == readLine(b)
    IN  IF ~line.ok \/ ~Atoi(line.val).ok THEN Fail
        ELSE Got(Atoi(line.val).val, line.rest)

\* Mutant: an argument ends at the end of its line.
ReadBulkLine(b, length) == readLine(b)

\* Mutant: the line break behind an argument may be missing.
ReadBulkUnchecked(b, length) ==
    IF length < 0 THEN Panic
    ELSE IF Len(b) < length THEN Fail
    ELSE Got(SubSeq(b, 1, length), Drop(b, length + 2))

\* make([]byte, length), which a negative length does not survive, io.ReadFull
\* of as many bytes, and Discard(2).  The memory is taken to be large enough.
ReadBulk(b, length) ==
    IF length < 0 THEN Panic
    ELSE IF Len(b) < length + 2 THEN Fail
    ELSE Got(SubSeq(b, 1, length), Drop(b, length + 2))

ReadArg(b) ==
    IF b = <<>> \/ b[1] # BulkMark THEN Fail
    ELSE LET length == readInt(Tail(b))
         IN  IF length.ok THEN ReadBulk(length.rest, length.val) ELSE Fail

\* The loop of readArray: what has been read after i rounds of n.
ReadArgs(n, b) ==
    LET Round(args, arg) ==
            IF ~args.ok THEN args
            ELSE IF ~arg.ok THEN arg
            ELSE Got(Append(args.val, arg.val), arg.rest)
        after[i \in 0 .. n] ==
            IF i = 0 THEN Got(<<>>, b)
            ELSE Round(after[i - 1], ReadArg(after[i - 1].rest))
    IN  after[n]

readArray(b) ==
    LET n == readInt(b)
    IN  IF ~n.ok THEN Fail
        ELSE IF n.val < 0 THEN Got(<<>>, n.rest)
        ELSE ReadArgs(n.val, n.rest)

\* The bytes of one character in UTF-8.
IsRune(u) ==
    /\ Len(u) \in 1 .. 4
    /\ u[1] \in (CASE Len(u) = 1 -> 0 .. 127
                   [] Len(u) = 2 -> 194 .. 223
                   [] Len(u) = 3 -> 224 .. 239
                   [] Len(u) = 4 -> 240 .. 244)
    /\ \A i \in 2 .. Len(u) : u[i] \in 128 .. 191
    /\ u[1] = 224 => u[2] >= 160
    /\ u[1] = 237 => u[2] < 160
    /\ u[1] = 240 => u[2] >= 144
    /\ u[1] = 244 => u[2] < 144

\* The i-th byte belongs to a character.
InRune(b, i) ==
    \E j \in (i - 3 .. i) \cap DOMAIN b, k \in (i .. i + 3) \cap DOMAIN b :
        IsRune(SubSeq(b, j, k))

\* What comes of a byte: for one that belongs to no character, `range' yields U+FFFD.
Copied(b, i) == IF InRune(b, i) THEN <<b[i]>> ELSE <<239, 191, 189>>

\* The words of a line: `cur' is the word being read.  It is read a byte at a time:
\* no character contains the first byte of another one, and `range' skips a single
\* byte where it finds none.
splitInline(line) ==
    LET Round(acc, i) ==
            IF line[i] # Space THEN [acc EXCEPT !.cur = @ \o Copied(line, i)]
            ELSE IF acc.cur = <<>> THEN acc
            ELSE [out |-> Append(acc.out, acc.cur), cur |-> <<>>]
        after[i \in 0 .. Len(line)] ==
            IF i = 0 THEN [out |-> <<>>, cur |-> <<>>] ELSE Round(after[i - 1], i)
        last == after[Len(line)]
    IN  IF last.cur = <<>> THEN last.out ELSE Append(last.out, last.cur)

ReadCommand(b) ==
    IF b = <<>> THEN Fail
    ELSE IF b[1] = ArrayMark THEN readArray(Tail(b))
    ELSE IF ~readLine(b).ok THEN Fail
    ELSE Got(splitInline(readLine(b).val), readLine(b).rest)

\* The commands Replay applies: up to the first error, empty ones skipped.  (A panic
\* ends the process; a file of whole or cut records holds none.)
\* Every round reads a byte or fails, so that as many rounds as bytes are enough.
Replay(b) ==
    LET Round(acc, cmd) ==
            IF ~acc.ok \/ ~cmd.ok THEN [acc EXCEPT !.ok = FALSE]
            ELSE Got(IF cmd.val = <<>> THEN acc.val ELSE Append(acc.val, cmd.val), cmd.rest)
        after[i \in 0 .. Len(b)] ==
            IF i = 0 THEN Got(<<>>, b)
            ELSE Round(after[i - 1], ReadCommand(after[i - 1].rest))
    IN  after[Len(b)].val

----------------------------------------------------------------------------
(* The HTTP demo's client *)

\* "$-1", which readReply hands on for a null.
NilBulk == <<BulkMark>> \o Decimal(-1)

\* Mutant: a bulk reply is the line behind its header.
ReadReplyBulkLine(n, b) == IF n < 0 THEN Got(NilBulk, b) ELSE readLine(b)

\* A bulk reply whose header announces n bytes: readFull of n+2.
\* (Sscanf reads the header's number; a writer always writes one.)
ReadReplyBulk(n, b) ==
    IF n < 0 THEN Got(NilBulk, b)
    ELSE IF Len(b) < n + 2 THEN Fail
    ELSE Got(SubSeq(b, 1, n), Drop(b, n + 2))

readReply(b) ==
    LET line == readLine(b)
    IN  IF ~line.ok \/ line.val = <<>> THEN Fail
        ELSE IF line.val[1] = BulkMark
        THEN ReadReplyBulk(Atoi(Tail(line.val)).val, line.rest)
        ELSE Got(line.val, line.rest)

Backslash == 92
DoubleQuote == 34

\* abtnvfr, which behind a backslash stand for the bytes 7 to 13.
Letters == <<97, 98, 116, 110, 118, 102, 114>>

\* The verb %q renders a string of ASCII byte by byte (\x is left without its digits).
Quoted(b) ==
    IF b \in 7 .. 13 THEN <<Backslash, Letters[b - 6]>>
    ELSE IF b \in {DoubleQuote, Backslash} THEN <<Backslash, b>>
    ELSE IF b < 32 \/ b > 126 THEN <<Backslash, 120>>
    ELSE <<b>>

Quote(s) == [i \in DOMAIN s |-> Quoted(s[i])]

\* The byte JSON reads in a piece of such a rendering, if it is JSON at all.
Unquoted(q) ==
    IF Len(q) = 1 THEN {q[1]}
    ELSE {b \in {8, 9, 10, 12, 13} : q[2] = Letters[b - 6]}
         \cup ({DoubleQuote, 47, Backslash} \cap {q[2]})

\* What the page reads of an answer with these strings: r.json(), which throws when
\* one of them is not JSON.
call(strings) ==
    IF \E n \in DOMAIN strings : \E i \in DOMAIN strings[n] : Unquoted(strings[n][i]) = {}
    THEN Fail
    ELSE Got([n \in DOMAIN strings |->
                 [i \in DOMAIN strings[n] |-> CHOOSE b \in Unquoted(strings[n][i]) : TRUE]],
             <<>>)

\* The strings of the answers: the key, which is not empty, and the value if one
\* was found.
handleGet(key, reply) ==
    IF reply = NilBulk THEN <<Quote(key)>> ELSE <<Quote(key), Quote(reply)>>

\* strings.TrimPrefix, and %q.
handleSet(reply) ==
    <<Quote(IF reply # <<>> /\ reply[1] = Plus THEN Tail(reply) ELSE reply)>>
============================================================================
