------------------------------ MODULE Commands ------------------------------
(***************************************************************************)
(* The data commands of internal/command/command.go: the commands a client *)
(* can send once their arguments have been parsed, the Store method each   *)
(* handler calls, what the handler hands to the AOF, and what replaying a  *)
(* logged command does to a dataset.                                       *)
(*                                                                         *)
(* INCR and DECR are INCRBY by 1 and -1; EXPIRE and PEXPIRE are one        *)
(* command in the model's unit of time; STRLEN and MGET read the store     *)
(* exactly as GET does, MGET once per key.                                 *)
(***************************************************************************)
EXTENDS Entries

CONSTANT Keys

OneKey == {<<k>> : k \in Keys}

SomeKeys == Seq(Keys) \ {<<>>}

SomeVals == Seq(Str) \ {<<>>}

SetCommand == [name : {"SET"}, keys : OneKey, val : Str, ttl : Nat,
               cond : {"always", "NX", "XX"}]

MSetCommand == {m \in [name : {"MSET"}, keys : SomeKeys, vals : SomeVals] :
                   Len(m.keys) = Len(m.vals)}

StringCommand ==
    [name : {"GETSET"}, keys : OneKey, val : Str]
    \cup [name : {"APPEND"}, keys : OneKey, val : Seq(Texts)]
    \cup [name : {"INCRBY", "DECRBY"}, keys : OneKey, delta : MinInt .. MaxInt]
    \cup [name : {"GET"}, keys : SomeKeys]

KeyCommand ==
    [name : {"DEL"}, keys : SomeKeys]
    \cup [name : {"EXPIRE"}, keys : OneKey, ttl : Int]
    \cup [name : {"PERSIST"}, keys : OneKey]

HashCommand ==
    [name : {"HSET"}, keys : OneKey, pairs : Hash \ {EmptyHash}]
    \cup [name : {"HDEL"}, keys : OneKey, fields : SUBSET Fields]

ListCommand ==
    [name : {"LPUSH", "RPUSH"}, keys : OneKey, vals : SomeVals]
    \cup [name : {"LPOP", "RPOP"}, keys : OneKey]

FlushCommand == [name : {"FLUSHDB"}, keys : {<<>>}]

Command == SetCommand \cup MSetCommand \cup StringCommand \cup KeyCommand
           \cup HashCommand \cup ListCommand \cup FlushCommand

SetOf(k, v) == [name |-> "SET", keys |-> <<k>>, val |-> v, ttl |-> 0,
                cond |-> "always"]

\* -delta on int64: the most negative value is its own negation.
Negate(delta) == IF delta = MinInt THEN MinInt ELSE -delta

(***************************************************************************)
(* The Store call a handler makes for its i-th key, whose entry is e.      *)
(***************************************************************************)
Handle(m, i, e, now) ==
    CASE m.name = "SET" /\ m.cond = "always" -> Set(e, m.val, m.ttl, now)
      [] m.name = "SET" /\ m.cond = "NX"     -> SetNX(e, m.val, m.ttl, now)
      [] m.name = "SET" /\ m.cond = "XX"     -> SetXX(e, m.val, m.ttl, now)
      [] m.name = "MSET"    -> Set(e, m.vals[i], 0, now)
      [] m.name = "GETSET"  -> GetSet(e, m.val, now)
      [] m.name = "APPEND"  -> StrAppend(e, m.val, now)
      [] m.name = "INCRBY"  -> IncrBy(e, m.delta, now)
      [] m.name = "DECRBY"  -> IncrBy(e, Negate(m.delta), now)
      [] m.name = "DEL"     -> Del(e, now)
      [] m.name = "EXPIRE"  -> Expire(e, m.ttl, now)
      [] m.name = "PERSIST" -> Persist(e, now)
      [] m.name = "HSET"    -> HSet(e, m.pairs, now)
      [] m.name = "HDEL"    -> HDel(e, m.fields, now)
      [] m.name = "LPUSH"   -> LPush(e, m.vals, now)
      [] m.name = "RPUSH"   -> RPush(e, m.vals, now)
      [] m.name = "LPOP"    -> LPop(e, now)
      [] m.name = "RPOP"    -> RPop(e, now)

\* Store.Set reads the clock while it holds the lock; every other method
\* reads it before it asks for the lock.
ReadsClockUnderLock(m) ==
    m.name = "MSET" \/ (m.name = "SET" /\ m.cond = "always")

(***************************************************************************)
(* What the handler appends once the call has left entry e at the key: its *)
(* own arguments, except that MSET, GETSET and the counters append a plain *)
(* SET of the value stored.                                                *)
(***************************************************************************)
Logged(m, i, e) ==
    IF m.name \in {"MSET", "GETSET", "INCRBY", "DECRBY"}
    THEN SetOf(m.keys[i], e.str)
    ELSE m

\* One command of the log, executed by replayAOF at instant `now'.
ReplayStep(d, m, now) ==
    [k \in Keys |->
        IF m.name = "FLUSHDB" THEN NoEntry
        ELSE IF k \in ToSet(m.keys) THEN Handle(m, 1, d[k], now).e
        ELSE d[k]]
============================================================================
