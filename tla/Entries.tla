------------------------------ MODULE Entries ------------------------------
(***************************************************************************)
(* The per-key operations of internal/store/store.go: what each Store      *)
(* method does to the entry of one key while it holds the lock of the      *)
(* key's shard.  An operation takes the entry found in sh.data[key], the   *)
(* reading `now' of the clock that the method uses, and its arguments, and *)
(* yields the entry left behind together with `ok', true when the command  *)
(* handler goes on to append the command to the AOF.                       *)
(*                                                                         *)
(* Strings are sequences of fragments.  The decimal form of the integer n  *)
(* is <<n>>; any other string is built from text fragments, which never    *)
(* form a number.  Concatenation is concatenation of fragments.            *)
(***************************************************************************)
EXTENDS Integers, Sequences, SequencesExt

CONSTANTS
    Fields,     \* hash field names
    Texts,      \* string fragments that are not part of a number
    MaxInt      \* maxInt64

ASSUME TextsAreNotNumbers == Texts \cap Int = {}
ASSUME MaxIntAssumption == MaxInt \in Nat

MinInt == -MaxInt - 1

Str == Seq(Int \cup Texts)

\* A hash holds at most one value per field: the empty set for a field that
\* is not in the map.
Hash == [Fields -> SUBSET Str]

EmptyHash == [f \in Fields |-> {}]

Kinds == {"none", "string", "hash", "list"}

(***************************************************************************)
(* An entry has one payload per kind, as the Go struct does.  expiresAt is *)
(* a set of at most one instant; the zero time.Time is the empty set.  An  *)
(* absent key is the zero entry, whose kind is KindNone.                   *)
(***************************************************************************)
Never == {}

Entry == [kind : Kinds, str : Str, hash : Hash, list : Seq(Str),
          expiresAt : SUBSET Int]

NoEntry == [kind |-> "none", str |-> <<>>, hash |-> EmptyHash,
            list |-> <<>>, expiresAt |-> Never]

NewEntry(kind) == [NoEntry EXCEPT !.kind = kind]

expired(e, now) == \E t \in e.expiresAt : now > t

\* getLive's found result.
Live(e, now) == e.kind # "none" /\ ~expired(e, now)

\* Mutant: an updating method that looks only whether the key is in the map.
LiveOrUnchecked(e, kind, now) ==
    IF e.kind # "none" THEN [e EXCEPT !.expiresAt = Never] ELSE NewEntry(kind)

\* The entry an updating method works on: the live one, or a fresh one.
LiveOr(e, kind, now) == IF Live(e, now) THEN e ELSE NewEntry(kind)

\* The ErrWrongType test of the updating methods.
WrongType(e, kind, now) == Live(e, now) /\ e.kind # kind

Done(e) == [e |-> e, ok |-> TRUE]

Refused(e) == [e |-> e, ok |-> FALSE]

----------------------------------------------------------------------------
(* Strings *)

StringEntry(v, ttl, now) ==
    [NewEntry("string") EXCEPT
        !.str = v, !.expiresAt = IF ttl > 0 THEN {now + ttl} ELSE Never]

Set(e, v, ttl, now) == Done(StringEntry(v, ttl, now))

\* Mutant: a key with a deadline counts as absent.
SetNXVolatile(e, v, ttl, now) ==
    IF Live(e, now) /\ e.expiresAt = Never THEN Refused(e)
    ELSE Done(StringEntry(v, ttl, now))

SetNX(e, v, ttl, now) ==
    IF Live(e, now) THEN Refused(e) ELSE Done(StringEntry(v, ttl, now))

SetXX(e, v, ttl, now) ==
    IF Live(e, now) THEN Done(StringEntry(v, ttl, now)) ELSE Refused(e)

\* Mutant: the appended value is stored in a new entry.
StrAppendFresh(e, suffix, now) ==
    IF WrongType(e, "string", now)
    THEN Refused(e)
    ELSE Done(StringEntry(LiveOr(e, "string", now).str \o suffix, 0, now))

StrAppend(e, suffix, now) ==
    IF WrongType(e, "string", now)
    THEN Refused(e)
    ELSE Done([LiveOr(e, "string", now) EXCEPT !.str = @ \o suffix])

GetSet(e, v, now) ==
    IF WrongType(e, "string", now) THEN Refused(e) ELSE Done(StringEntry(v, 0, now))

\* strconv.ParseInt(s, 10, 64) succeeds.
IsInt64(s) == Len(s) = 1 /\ s[1] \in MinInt .. MaxInt

\* The integer IncrBy starts from: a missing key counts as 0.
Counter(e, now) == IF Live(e, now) THEN e.str[1] ELSE 0

\* Mutant: the bound itself is counted as room.
OverflowsLate(cur, delta) ==
    \/ delta > 0 /\ cur - 1 > MaxInt - delta
    \/ delta < 0 /\ cur < MinInt - delta

Overflows(cur, delta) ==
    \/ delta > 0 /\ cur > MaxInt - delta
    \/ delta < 0 /\ cur < MinInt - delta

IncrBy(e, delta, now) ==
    IF \/ WrongType(e, "string", now)
       \/ Live(e, now) /\ ~IsInt64(e.str)
       \/ Overflows(Counter(e, now), delta)
    THEN Refused(e)
    ELSE Done([LiveOr(e, "string", now) EXCEPT !.str = <<Counter(e, now) + delta>>])

----------------------------------------------------------------------------
(* Generic key operations *)

Del(e, now) == [e |-> NoEntry, ok |-> Live(e, now)]

Expire(e, ttl, now) ==
    IF Live(e, now) THEN Done([e EXCEPT !.expiresAt = {now + ttl}]) ELSE Refused(e)

Persist(e, now) ==
    IF Live(e, now) /\ e.expiresAt # Never
    THEN Done([e EXCEPT !.expiresAt = Never])
    ELSE Refused(e)

\* lazyDelete, and SweepExpired's treatment of one key.
Reclaim(e, now) == IF expired(e, now) THEN NoEntry ELSE e

----------------------------------------------------------------------------
(* Hashes.  The field/value pairs of HSET are given as the hash they       *)
(* denote (a later pair for the same field wins), the fields of HDEL as a  *)
(* set.                                                                    *)

HSet(e, pairs, now) ==
    IF WrongType(e, "hash", now)
    THEN Refused(e)
    ELSE LET h == LiveOr(e, "hash", now).hash
         IN  Done([LiveOr(e, "hash", now) EXCEPT
                 !.hash = [f \in Fields |-> IF pairs[f] # {} THEN pairs[f] ELSE h[f]]])

HDel(e, fields, now) ==
    IF e.kind # "hash" \/ ~Live(e, now)
    THEN Refused(e)
    ELSE LET rest == [f \in Fields |-> IF f \in fields THEN {} ELSE e.hash[f]]
         IN  [e  |-> IF rest = EmptyHash THEN NoEntry ELSE [e EXCEPT !.hash = rest],
              ok |-> rest # e.hash]

----------------------------------------------------------------------------
(* Lists *)

LPush(e, vals, now) ==
    IF WrongType(e, "list", now)
    THEN Refused(e)
    ELSE Done([LiveOr(e, "list", now) EXCEPT !.list = Reverse(vals) \o @])

RPush(e, vals, now) ==
    IF WrongType(e, "list", now)
    THEN Refused(e)
    ELSE Done([LiveOr(e, "list", now) EXCEPT !.list = @ \o vals])

\* Mutant: the key stays when its last element is popped.
PopKeepsEmpty(e, rest, now) ==
    IF e.kind # "list" \/ ~Live(e, now) \/ e.list = <<>>
    THEN Refused(e)
    ELSE Done([e EXCEPT !.list = rest])

Pop(e, rest, now) ==
    IF e.kind # "list" \/ ~Live(e, now) \/ e.list = <<>>
    THEN Refused(e)
    ELSE Done(IF rest = <<>> THEN NoEntry ELSE [e EXCEPT !.list = rest])

LPop(e, now) == Pop(e, IF e.list = <<>> THEN <<>> ELSE Tail(e.list), now)

RPop(e, now) == Pop(e, IF e.list = <<>> THEN <<>> ELSE Front(e.list), now)

----------------------------------------------------------------------------
\* An entry as the methods leave it: the payload of its own kind only, and a
\* key whose hash or list became empty is gone.
WellFormed(e) ==
    /\ e.kind = "none" => e = NoEntry
    /\ e.kind # "string" => e.str = <<>>
    /\ e.kind = "hash" <=> e.hash # EmptyHash
    /\ e.kind = "list" <=> e.list # <<>>
============================================================================
