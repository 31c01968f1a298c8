------------------------------ MODULE Queries ------------------------------
(***************************************************************************)
(* What the reading commands answer: the read-only methods of              *)
(* internal/store/store.go and their handlers in                           *)
(* internal/command/command.go, on the entry e of the key and at the       *)
(* instant `now' that the method reads.  And the other reader of entries,  *)
(* the log rewrite: which commands internal/aof writes to rebuild a key.   *)
(*                                                                         *)
(* An answer is WRONGTYPE or a value.  A nullable string is a set of at    *)
(* most one string.  Go walks a hash in no particular order, so HKEYS and  *)
(* HGETALL answer with sets, HVALS with a bag: field by field.             *)
(***************************************************************************)
EXTENDS Commands, FiniteSets

Answer(v) == [ok |-> TRUE, val |-> v]

WrongTypeError == [ok |-> FALSE]

\* The frame of the typed reads: what they answer for a key that is not there,
\* for one of another kind, and for one of their own.
Read(e, kind, now, missing, found) ==
    IF ~Live(e, now) THEN Answer(missing)
    ELSE IF e.kind # kind THEN WrongTypeError
    ELSE Answer(found)

----------------------------------------------------------------------------
(* Keys *)

\* Mutant: a key counts until the sweeper has removed it.
ExistsInMap(e, now) == e.kind # "none"

Exists(e, now) == Live(e, now)

Type(e, now) == IF Live(e, now) THEN e.kind ELSE "none"

\* d / unit in Go: truncated towards zero.
Quotient(d, unit) == IF d >= 0 THEN d \div unit ELSE -((-d) \div unit)

\* TTL and PTTL.  time.Until reads the clock again, after the lock has been
\* released: `later' is not before `now'.
TTL(e, now, later, unit) ==
    IF ~Live(e, now) THEN -2
    ELSE IF e.expiresAt = Never THEN -1
    ELSE Quotient((CHOOSE t \in e.expiresAt : TRUE) - later, unit)

----------------------------------------------------------------------------
(* Strings *)

Get(e, now) ==
    IF e.kind = "none" \/ expired(e, now) THEN Answer({})
    ELSE IF e.kind # "string" THEN WrongTypeError
    ELSE Answer({e.str})

\* One element of MGET: the wrong type reads as null.
MGetOne(e, now) == IF Get(e, now).ok THEN Get(e, now).val ELSE {}

----------------------------------------------------------------------------
(* Hashes *)

FieldsOf(h) == {f \in Fields : h[f] # {}}

HGet(e, f, now) == Read(e, "hash", now, {}, e.hash[f])

HExists(e, f, now) == Read(e, "hash", now, FALSE, e.hash[f] # {})

HKeys(e, now) == Read(e, "hash", now, {}, FieldsOf(e.hash))

HVals(e, now) == Read(e, "hash", now, EmptyHash, e.hash)

HGetAll(e, now) ==
    Read(e, "hash", now, {}, UNION {{<<f, v>> : v \in e.hash[f]} : f \in Fields})

HLen(e, now) == Read(e, "hash", now, 0, Cardinality(FieldsOf(e.hash)))

----------------------------------------------------------------------------
(* Lists.  Indices count from 0, as in the code. *)

normalizeIndex(i, length) == IF i < 0 THEN length + i ELSE i

LLen(e, now) == Read(e, "list", now, 0, Len(e.list))

LIndex(e, index, now) ==
    Read(e, "list", now, {},
         LET i == normalizeIndex(index, Len(e.list))
         IN  IF i < 0 \/ i >= Len(e.list) THEN {} ELSE {e.list[i + 1]})

\* Mutant: bounds outside the list give nothing instead of being clamped.
SliceUnclamped(l, start, stop) ==
    LET lo == normalizeIndex(start, Len(l))
        hi == normalizeIndex(stop, Len(l))
    IN  IF lo < 0 \/ lo > hi \/ hi >= Len(l) THEN <<>> ELSE SubSeq(l, lo + 1, hi + 1)

Slice(l, start, stop) ==
    LET first == normalizeIndex(start, Len(l))
        last == normalizeIndex(stop, Len(l))
        lo == IF first < 0 THEN 0 ELSE first
        hi == IF last >= Len(l) THEN Len(l) - 1 ELSE last
    IN  IF lo > hi \/ l = <<>> THEN <<>> ELSE SubSeq(l, lo + 1, hi + 1)

LRange(e, start, stop, now) ==
    Read(e, "list", now, <<>>, Slice(e.list, start, stop))

----------------------------------------------------------------------------
(* Rewriting a key *)

\* time.Millisecond, in instants of the model.
Milli == 2

\* The milliseconds that remain until t.
msUntil(t, now) == IF t < now THEN 0 ELSE (t - now) \div Milli

ValueCommands(k, e) ==
    CASE e.kind = "string" -> <<SetOf(k, e.str)>>
      [] e.kind = "hash" /\ e.hash # EmptyHash ->
            <<[name |-> "HSET", keys |-> <<k>>, pairs |-> e.hash]>>
      [] e.kind = "list" /\ e.list # <<>> ->
            <<[name |-> "RPUSH", keys |-> <<k>>, vals |-> e.list]>>
      [] OTHER -> <<>>

PExpire(k, ms) == [name |-> "EXPIRE", keys |-> <<k>>, ttl |-> ms * Milli]

DeadlineCommands(k, e, now) ==
    LET ms == {msUntil(t, now) : t \in e.expiresAt}
    IN  IF ValueCommands(k, e) = <<>> \/ ms \subseteq {0}
        THEN <<>>
        ELSE <<PExpire(k, CHOOSE m \in ms : TRUE)>>

\* Mutant: the deadline is written ahead of the value.
snapshotCommandsDeadlineFirst(k, e, now) ==
    DeadlineCommands(k, e, now) \o ValueCommands(k, e)

snapshotCommands(k, e, now) == ValueCommands(k, e) \o DeadlineCommands(k, e, now)

\* The commands SnapshotAll and Rewrite put in the file for a key: SnapshotAll
\* skips expired keys at `now', the deadlines are measured `later'.
Rewritten(k, e, now, later) ==
    IF Live(e, now) THEN snapshotCommands(k, e, later) ELSE <<>>
============================================================================
