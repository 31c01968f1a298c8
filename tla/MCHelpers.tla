------------------------------ MODULE MCHelpers ------------------------------
(* Inputs for the functions without shared state. *)
EXTENDS Helpers

CONSTANTS k1, f1, f2, a

ca == 97
cb == 98

MCPatternBytes == {Star, Mark, Open, Close, Caret, Dash, Escape, ca, cb + 1}

\* Keys of up to three bytes.
MCNames == UNION {[1 .. n -> {ca, cb}] : n \in 0 .. 3}
           \cup UNION {[1 .. n -> {Star, Open, Close, Caret, Dash, Escape}] : n \in 1 .. 2}

MCChunks == {CRLF, <<LF>>, <<BulkMark>>, <<ArrayMark>>, NilBulk, [i \in 1 .. 10 |-> ca],
             <<7>>, <<195>>, <<169>>}

MCAmountOf == "0" :> 0 @@ "1" :> 1 @@ "2" :> 2

MCRepertoire ==
    {[name |-> "SET", keys |-> <<k1>>, val |-> <<a>>, ttl |-> 3, cond |-> "always"],
     [name |-> "SET", keys |-> <<k1>>, val |-> <<1>>, ttl |-> 0, cond |-> "XX"],
     [name |-> "EXPIRE", keys |-> <<k1>>, ttl |-> 1],
     [name |-> "EXPIRE", keys |-> <<k1>>, ttl |-> 4],
     [name |-> "PERSIST", keys |-> <<k1>>],
     [name |-> "HSET", keys |-> <<k1>>, pairs |-> f1 :> {<<a>>} @@ f2 :> {<<1>>}],
     [name |-> "HDEL", keys |-> <<k1>>, fields |-> {f1}],
     [name |-> "RPUSH", keys |-> <<k1>>, vals |-> <<<<a>>, <<1>>>>],
     [name |-> "LPUSH", keys |-> <<k1>>, vals |-> <<<<2>>>>],
     [name |-> "LPOP", keys |-> <<k1>>],
     [name |-> "DEL", keys |-> <<k1>>]}
============================================================================
