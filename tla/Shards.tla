------------------------------- MODULE Shards -------------------------------
(***************************************************************************)
(* How internal/store/store.go finds the shard of a key: the number of     *)
(* shards is rounded up to a power of two, and a mask takes the low bits   *)
(* of the key's hash.  Shards count from 0.                                *)
(***************************************************************************)
EXTENDS Integers

\* 1 << k
Doubled[k \in Nat] == IF k = 0 THEN 1 ELSE 2 * Doubled[k - 1]

\* x & y, bit by bit.
And[x \in Nat] ==
    [y \in Nat |-> IF x = 0 THEN 0
                   ELSE 2 * And[x \div 2][y \div 2] + (x % 2) * (y % 2)]

\* Mutant: any number of shards is taken as it is.
nextPow2AsIs(n) == IF n < 1 THEN 1 ELSE n

\* The first power of two that is not below n.
nextPow2(n) ==
    LET enough == {k \in 0 .. n : Doubled[k] >= n}
    IN  IF n < 1 THEN 1 ELSE Doubled[CHOOSE k \in enough : \A j \in enough : k <= j]

\* The shard of a key whose hash is h, in a store made for shardCount shards.
shardFor(h, shardCount) == And[h][nextPow2(shardCount) - 1]
============================================================================
