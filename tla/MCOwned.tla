------------------------------ MODULE MCOwned ------------------------------
(* Two clients that share no key, nothing expires, persistence enabled. *)
EXTENDS Engine

CONSTANTS c1, c2, k1, k2, k3, f1, f2, a

MCShardOf == [k \in Keys |-> IF k = k3 THEN 2 ELSE 1]

MCRepertoire ==
    c1 :> {[name |-> "MSET", keys |-> <<k1, k2>>, vals |-> <<<<1>>, <<-2>>>>],
           [name |-> "DEL", keys |-> <<k1, k2>>],
           [name |-> "DEL", keys |-> <<k2>>],
           [name |-> "INCRBY", keys |-> <<k1>>, delta |-> 1],
           [name |-> "DECRBY", keys |-> <<k2>>, delta |-> 1],
           [name |-> "DECRBY", keys |-> <<k2>>, delta |-> MinInt],
           [name |-> "GETSET", keys |-> <<k1>>, val |-> <<a>>],
           [name |-> "SET", keys |-> <<k1>>, val |-> <<0>>, ttl |-> 0, cond |-> "NX"],
           [name |-> "SET", keys |-> <<k2>>, val |-> <<0>>, ttl |-> 0, cond |-> "XX"],
           [name |-> "APPEND", keys |-> <<k2>>, val |-> <<a>>]}
 @@ c2 :> {[name |-> "HSET", keys |-> <<k3>>, pairs |-> f1 :> {<<a>>} @@ f2 :> {<<1>>}],
           [name |-> "HDEL", keys |-> <<k3>>, fields |-> {f1}],
           [name |-> "HDEL", keys |-> <<k3>>, fields |-> {f1, f2}],
           [name |-> "RPUSH", keys |-> <<k3>>, vals |-> <<<<a>>, <<1>>>>],
           [name |-> "LPUSH", keys |-> <<k3>>, vals |-> <<<<a>>, <<1>>>>],
           [name |-> "LPOP", keys |-> <<k3>>],
           [name |-> "RPOP", keys |-> <<k3>>],
           [name |-> "PERSIST", keys |-> <<k3>>]}

ASSUME OwnedAssumption == Private /\ Permanent
============================================================================
