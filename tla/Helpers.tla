------------------------------- MODULE Helpers -------------------------------
(***************************************************************************)
(* The functions without shared state, each put to every input that can be *)
(* built in a bounded number of steps: the KEYS matcher, the wire format,  *)
(* the choice of a shard, and what one caller reads of one key, whose      *)
(* entry comes about by any sequence of commands at any times.             *)
(***************************************************************************)
EXTENDS Glob, Resp, Shards, SetOptions, Queries

CONSTANTS
    PatternBytes,   \* the bytes of KEYS patterns
    MaxPattern,     \* bound: the length of a pattern
    Names,          \* the keys patterns are matched with
    Chunks,         \* what arguments are made of: short sequences of bytes
    MaxParts,       \* bound: commands, arguments and chunks of a stream, in all
    OptionTokens,   \* the tokens behind SET key value
    MaxOptions,     \* bound: how many of them
    MaxShards,      \* bound: the number of shards asked for
    MaxHash,        \* bound: the hashes of keys
    Repertoire,     \* commands on the one key
    MaxInstant,     \* bound: the last instant
    MaxCommands     \* bound: how many commands are executed

ASSUME BytesAssumption ==
    PatternBytes \subseteq Byte /\ Names \subseteq Seq(Byte) /\ Chunks \subseteq Seq(Byte)

ASSUME HashAssumption == MaxHash \in Nat

\* Commands that change a key, with one value for a field; a hash is finite.
ASSUME KeyAssumption ==
    /\ Repertoire \subseteq Command
    /\ \A m \in Repertoire :
          /\ m.name \notin {"GET", "FLUSHDB"}
          /\ m.name = "HSET" => \A f \in Fields : \A v, w \in m.pairs[f] : v = w
    /\ IsFiniteSet(Fields)

VARIABLES
    pattern,    \* a KEYS pattern
    cmds,       \* commands a client, or the log, has written
    parts,      \* what `cmds' is made of (bounds the model)
    opts,       \* the options of a SET
    count,      \* shardCount
    entry,      \* the entry of the key
    now,        \* time.Now()
    done        \* how many commands have been executed (bounds the model)

vars == <<pattern, cmds, parts, opts, count, entry, now, done>>

Init ==
    /\ pattern = <<>>
    /\ cmds = <<>>
    /\ parts = 0
    /\ opts = <<>>
    /\ count = 0
    /\ entry = NoEntry
    /\ now = 0
    /\ done = 0

\* One input at a time is built up.
Only(inputs) ==
    /\ inputs # "pattern" => pattern = <<>>
    /\ inputs # "stream" => parts = 0
    /\ inputs # "options" => opts = <<>>
    /\ inputs # "shards" => count = 0
    /\ inputs # "entry" => now = 0 /\ done = 0

GrowPattern ==
    /\ Only("pattern")
    /\ Len(pattern) < MaxPattern
    /\ \E b \in PatternBytes : pattern' = Append(pattern, b)
    /\ UNCHANGED <<cmds, parts, opts, count, entry, now, done>>

GrowStream(cs) ==
    /\ Only("stream")
    /\ parts < MaxParts
    /\ cmds' = cs
    /\ parts' = parts + 1
    /\ UNCHANGED <<pattern, opts, count, entry, now, done>>

AddCommand == GrowStream(Append(cmds, <<<<>>>>))

AddArgument ==
    /\ cmds # <<>>
    /\ GrowStream([cmds EXCEPT ![Len(cmds)] = Append(@, <<>>)])

AddChunk ==
    /\ cmds # <<>>
    /\ \E chunk \in Chunks :
          GrowStream([cmds EXCEPT ![Len(cmds)][Len(Last(cmds))] = @ \o chunk])

AddOption ==
    /\ Only("options")
    /\ Len(opts) < MaxOptions
    /\ \E t \in OptionTokens : opts' = Append(opts, t)
    /\ UNCHANGED <<pattern, cmds, parts, count, entry, now, done>>

AddShard ==
    /\ Only("shards")
    /\ count < MaxShards
    /\ count' = count + 1
    /\ UNCHANGED <<pattern, cmds, parts, opts, entry, now, done>>

\* A command is executed on the key, by its only client.
Execute ==
    /\ Only("entry")
    /\ done < MaxCommands
    /\ \E m \in Repertoire : entry' = Handle(m, 1, entry, now).e
    /\ done' = done + 1
    /\ UNCHANGED <<pattern, cmds, parts, opts, count, now>>

Wait ==
    /\ Only("entry")
    /\ now < MaxInstant
    /\ now' = now + 1
    /\ UNCHANGED <<pattern, cmds, parts, opts, count, entry, done>>

Next ==
    \/ GrowPattern
    \/ AddCommand
    \/ AddArgument
    \/ AddChunk
    \/ AddOption
    \/ AddShard
    \/ Execute
    \/ Wait

Spec == Init /\ [][Next]_vars

----------------------------------------------------------------------------
(* The KEYS matcher *)

(***************************************************************************)
(* The matcher decides what the pattern means: stars, classes with ranges  *)
(* and negation, escapes, and patterns that end in the middle of one, are  *)
(* matched by backtracking exactly when the pattern's tokens can be laid   *)
(* along the key (globMatch).                                              *)
(***************************************************************************)
GlobMeansPattern == \A s \in Names : globMatch(pattern, s) <=> Means(pattern, s)

----------------------------------------------------------------------------
(* The wire format *)

Records == [i \in DOMAIN cmds |-> writeCommand(cmds[i])]

\* A line for nc or telnet: words between blanks.
Line(args, end) ==
    FlattenSeq([i \in DOMAIN args |-> args[i] \o <<Space, Space>>]) \o end

\* Arguments that can be written as words of such a line: UTF-8 without blanks.
Words(args) ==
    /\ args[1] # <<>> => args[1][1] # ArrayMark
    /\ \A i \in DOMAIN args :
          /\ args[i] # <<>>
          /\ \A j \in DOMAIN args[i] :
                args[i][j] \notin {CR, LF, Space} /\ InRune(args[i], j)

(***************************************************************************)
(* What is written is what is read: pipelined commands and log records     *)
(* come back one by one with their arguments byte for byte, line breaks,   *)
(* '$', '*' and bytes that are no UTF-8 in them included, and a line of    *)
(* words of valid UTF-8 is read as its words; what is not UTF-8 an inline  *)
(* command does not keep (writeCommand, ReadCommand, splitInline).         *)
(***************************************************************************)
CommandsReadBack ==
    /\ Replay(FlattenSeq(Records)) = cmds
    /\ cmds # <<>> /\ Words(Last(cmds)) =>
          \A end \in {CRLF, <<LF>>} :
              ReadCommand(Line(Last(cmds), end) \o FlattenSeq(Records))
                  = Got(Last(cmds), FlattenSeq(Records))

(***************************************************************************)
(* A file that was cut at any byte replays the commands that are whole     *)
(* before the cut, and nothing of the one that was cut: no argument is     *)
(* ever shortened and no record is taken for complete too early (Replay,   *)
(* readArray).                                                             *)
(***************************************************************************)
CutReplaysWhole ==
    LET file == FlattenSeq(Records)
    IN  \A cut \in 0 .. Len(file) :
            LET whole == {n \in 0 .. Len(cmds) :
                             Len(FlattenSeq(SubSeq(Records, 1, n))) <= cut}
            IN  Replay(SubSeq(file, 1, cut)) = SubSeq(cmds, 1, Max(whole))

\* Bytes the page can show: ASCII text, and what both Go and JSON write as an
\* escape of one letter.
Shown == (32 .. 126) \cup {8, 9, 10, 12, 13}

PageShows(strings) ==
    IF \A n \in DOMAIN strings : ToSet(strings[n]) \subseteq Shown THEN Got(strings, <<>>)
    ELSE Fail

Ascii(string) == \A i \in DOMAIN string : string[i] < 128

(***************************************************************************)
(* The page shows the key and the value that is stored, or the key that is *)
(* not found, byte for byte, as long as they are text; any other ASCII     *)
(* byte makes the answer no JSON, so that the page shows nothing of it.    *)
(* OK is shown as OK and a number is read as its line; a reply that breaks *)
(* off is an error and never a shorter value.  The value "$-1" is left     *)
(* out, see the README (handleGet, handleSet, readReply).                  *)
(***************************************************************************)
PageShowsValue ==
    cmds # <<>> =>
        LET key == Head(Last(cmds))
            value == Last(Last(cmds))
            reply == WriteBulkString(value)
            OK == <<79, 75>>
        IN  /\ key # <<>> /\ Ascii(key) /\ Ascii(value) /\ value # NilBulk =>
                  call(handleGet(key, readReply(reply).val)) = PageShows(<<key, value>>)
            /\ key # <<>> /\ Ascii(key) =>
                  call(handleGet(key, readReply(WriteNull).val)) = PageShows(<<key>>)
            /\ call(handleSet(readReply(WriteSimpleString(OK)).val)) = PageShows(<<OK>>)
            /\ readReply(WriteInteger(Len(value))).val = <<Colon>> \o Decimal(Len(value))
            /\ \A cut \in 0 .. Len(reply) - 1 : ~readReply(SubSeq(reply, 1, cut)).ok

----------------------------------------------------------------------------
(* The options of SET *)

\* The positions of EX and PX.
Deadlines == {i \in DOMAIN opts : opts[i] \in {"EX", "PX"}}

Has(option) == \E i \in DOMAIN opts : opts[i] = option

\* The positions of NX and XX.
Conditions == {i \in DOMAIN opts : opts[i] \in {"NX", "XX"}}

\* At most one deadline, and every token where it can stand.
WellPlaced ==
    /\ Cardinality(Deadlines) <= 1
    /\ \A i \in DOMAIN opts :
          \/ opts[i] \in {"NX", "XX"}
          \/ i \in Deadlines /\ i + 1 \in DOMAIN opts /\ opts[i + 1] \in DOMAIN AmountOf
          \/ i - 1 \in Deadlines /\ opts[i] \in DOMAIN AmountOf /\ AmountOf[opts[i]] > 0

\* SET key value [EX seconds | PX ms] [NX | XX], in either order.
Grammatical == WellPlaced /\ Cardinality(Conditions) <= 1

\* The one thing that is taken besides: NX twice, or XX twice.
Repeating == WellPlaced /\ Cardinality(Conditions) > 1 /\ ~(Has("NX") /\ Has("XX"))

(***************************************************************************)
(* SET takes the options its comment lists, in any order, besides them a   *)
(* repeated NX or XX, which the comment does not list, and nothing else;   *)
(* and they mean what they say: the condition, and the duration if it is   *)
(* less than Wrapping.  A longer one wraps and is kept for too short a     *)
(* time or for good; of it nothing is said.  Both are in the README        *)
(* (parseSetOpts).                                                         *)
(***************************************************************************)
OptionsAsWritten ==
    LET r == parseSetOpts(opts) IN
    /\ r.ok <=> Grammatical \/ Repeating
    /\ r.ok =>
          /\ r.nx <=> Has("NX")
          /\ r.xx <=> Has("XX")
          /\ Deadlines = {} => r.ttl = 0
          /\ \A i \in Deadlines :
                LET ttl == AmountOf[opts[i + 1]] * Unit(opts[i])
                IN  ttl < Wrapping => r.ttl = ttl

----------------------------------------------------------------------------
(* Shards *)

(***************************************************************************)
(* Every key has a shard, and every shard has keys: the mask takes a hash  *)
(* to its remainder by the number of shards, which is at least what was    *)
(* asked for and less than twice that (nextPow2, shardFor).                *)
(***************************************************************************)
ShardsCoverKeys ==
    LET n == nextPow2(count)
    IN  /\ n >= count
        /\ n < 2 * Max({count, 1})
        /\ \A h \in 0 .. MaxHash : shardFor(h, count) = h % n

----------------------------------------------------------------------------
(* What is read of a key *)

(***************************************************************************)
(* What a client reads tells what its next command will do, on an entry    *)
(* that is absent, live or expired and not yet removed: EXISTS tells       *)
(* whether DEL, EXPIRE and SET XX find the key and SET NX does not; TTL    *)
(* whether PERSIST has a deadline to remove; HEXISTS, HGET and HKEYS       *)
(* whether HDEL has a field to delete; LINDEX what the pops take; a read   *)
(* is WRONGTYPE where the write is refused (Exists, TTL, HGet, LIndex).    *)
(***************************************************************************)
ReadsForetellWrites ==
    LET ex == Exists(entry, now) IN
    /\ ex <=> Type(entry, now) # "none"
    /\ ex <=> Del(entry, now).ok
    /\ ex <=> Expire(entry, 1, now).ok
    /\ ex <=> SetXX(entry, <<>>, 0, now).ok
    /\ ex <=> ~SetNX(entry, <<>>, 0, now).ok
    /\ TTL(entry, now, now, 1) = -2 <=> ~ex
    /\ TTL(entry, now, now, 1) >= 0 <=> Persist(entry, now).ok
    /\ Get(entry, now).ok <=> GetSet(entry, <<>>, now).ok
    /\ MGetOne(entry, now) # {} <=> ex /\ GetSet(entry, <<>>, now).ok
    /\ \A f \in Fields :
          LET h == HDel(entry, {f}, now).ok IN
          /\ HExists(entry, f, now) = Answer(TRUE) <=> h
          /\ h => HGet(entry, f, now).val # {} /\ f \in HKeys(entry, now).val
          /\ HGet(entry, f, now).ok <=> HSet(entry, EmptyHash, now).ok
    /\ HKeys(entry, now).ok => HKeys(entry, now).val = FieldsOf(HVals(entry, now).val)
    /\ HLen(entry, now).ok => HLen(entry, now).val = Cardinality(HGetAll(entry, now).val)
    /\ LET first == LIndex(entry, 0, now)
           last == LIndex(entry, -1, now)
           pushed == RPush(entry, <<<<>>>>, now)
       IN  /\ first.ok <=> pushed.ok
           /\ pushed.ok => LLen(entry, now).val = Len(pushed.e.list) - 1
           /\ LPop(entry, now).ok =>
                 entry.list = <<CHOOSE v \in first.val : TRUE>> \o LPop(entry, now).e.list
           /\ RPop(entry, now).ok =>
                 entry.list = RPop(entry, now).e.list \o <<CHOOSE v \in last.val : TRUE>>

\* The element at index i, counted from 0, is between the bounds: a bound below
\* zero counts from the end.
Between(i, n, start, stop) ==
    /\ IF start < 0 THEN start <= i - n ELSE start <= i
    /\ IF stop < 0 THEN i - n <= stop ELSE i <= stop

(***************************************************************************)
(* LRANGE answers the elements between its bounds, in order, and no other, *)
(* for bounds on either side of either end of the list, and for one that   *)
(* is a single index it agrees with LINDEX (LRange, normalizeIndex).       *)
(***************************************************************************)
RangesExact ==
    entry.kind = "list" /\ Live(entry, now) =>
        LET n == Len(entry.list)
            bounds == -(n + 2) .. n + 2
        IN  \A start, stop \in bounds :
                LET r == LRange(entry, start, stop, now).val
                    in == {i \in 0 .. n - 1 : Between(i, n, start, stop)}
                IN  /\ r = [j \in 1 .. Cardinality(in) |-> entry.list[Min(in) + j]]
                    /\ start = stop => ToSet(r) = LIndex(entry, start, now).val

----------------------------------------------------------------------------
(* Rewriting a key *)

\* The dataset that replaying these commands at an instant yields.
Rebuilt(ms, instant) ==
    LET after[i \in 0 .. Len(ms)] ==
            IF i = 0 THEN [k \in Keys |-> NoEntry]
            ELSE ReplayStep(after[i - 1], ms[i], instant)
    IN  after[Len(ms)]

(***************************************************************************)
(* A rewritten key is the same key: replayed at once, the commands that    *)
(* the rewrite puts in the file yield the entry's contents, no deadline    *)
(* for a permanent key, and for a volatile one the same deadline but for   *)
(* the fraction of a millisecond that PEXPIRE cannot express.  A key with  *)
(* less than a millisecond left is left out, see the README; expired keys  *)
(* leave no trace (SnapshotAll, snapshotCommands, msUntil).                *)
(***************************************************************************)
SnapshotRebuilds ==
    \A k \in Keys, later \in now .. now + Milli :
        LET rebuilt == Rebuilt(Rewritten(k, entry, now, later), later)[k]
        IN  IF ~Live(entry, now) THEN rebuilt = NoEntry
            ELSE /\ [rebuilt EXCEPT !.expiresAt = Never] = [entry EXCEPT !.expiresAt = Never]
                 /\ entry.expiresAt = Never => rebuilt.expiresAt = Never
                 /\ \A t \in entry.expiresAt :
                       t - later >= Milli =>
                           \E u \in rebuilt.expiresAt : t - Milli < u /\ u <= t
============================================================================
