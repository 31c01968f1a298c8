# voltkv: a TLA+ verification project

voltkv is a small Redis-like server in Go: a sharded in-memory key-value store
with per-key deadlines, an append-only log (AOF) that is replayed at start,
pub/sub, and a RESP front end. This directory holds TLA+ models of its
concurrent core, the TLC configurations that check them on small instances, and
proofs (TLAPS) of the properties that matter most for every instance.

Paths below are relative to the repository's `internal/`, line numbers are those
of the commit in `src/`.

## 1. Inventory

| component | state | operations | interacts with |
|---|---|---|---|
| store (`store/store.go`) | an array of shards, each a mutex and a map from key to `entry` (kind, one payload per kind, `expiresAt`) | Set, SetNX, SetXX, Get (with `lazyDelete`), Append, GetSet, IncrBy, Del, Expire, Persist, HSet, HDel, LPush, RPush, LPop, RPop, FlushDB, SweepExpired; read-only: StrLen, Exists, Type, TTL, Keys, DBSize, H\*, LLen, LIndex, LRange, SnapshotAll | called by command handlers and by the sweeper goroutine, concurrently |
| commands (`command/command.go`, `helpers.go`) | per connection: the set of subscriptions | `Execute` parses a command, calls the store for each key, hands the command (or a rewritten one) to the log, replies | store, log, broker |
| append-only log (`aof/aof.go`) | a channel of 1024 commands, a `bufio.Writer`, the file, one mutex | Append, the writer goroutine `writeLoop`, Size, Close, Open, Replay | senders are all connection goroutines; replay runs `Execute` |
| log rewrite (`aof/aof.go`, `SnapshotAll`) | the temporary file | Rewrite, snapshotCommands | store and log (called from tests only) |
| broker (`pubsub/pubsub.go`) | channel name to set of subscriptions, each with a buffered Go channel | Subscribe, Unsubscribe, Publish | connection goroutines, one delivery goroutine per subscription |
| server (`server/server.go`, `cmd/server`) | listener, client counter, wait group; per connection `writeMu`, its subscriptions and their delivery goroutines | Run (replay, open log, accept, drain), `sweepLoop`, `handleConn` | everything |
| RESP codec (`resp/resp.go`) | reader and writer buffers | ReadCommand, Write\* | server, log |
| glob and indices (`store/helpers.go`) | none | globMatch, matchClass, normalizeIndex, nextPow2 | Keys, LRange, LIndex |
| HTTP demo (`cmd/httpdemo`) | none of the server's | respCommand, readReply, handleGet, handleSet | a client of the server |

What is hard:

* *Clock readings grow stale.* Most Store methods read the clock **before** they
  ask for the shard's lock (`Set` reads it under the lock). A goroutine may wait
  for the lock while the key expires, is rewritten, or is extended.
* *The log is outside the lock.* A handler changes the store under the shard's
  lock, releases it, and then appends to the log. Two writers of a key may log in
  the opposite order.
* *Replay happens at another time.* TTLs are relative and NX/XX are decided again.
* *One writer, many senders.* The writer decides whether to flush by looking at
  the channel's length, which senders change at the same time; the buffer spills
  in the middle of a record; the process may die at any step; shutdown has to
  close the channel after the last sender and the file after the writer.
* *Multi-key commands and FLUSHDB* take one lock after the other.
* *Publish sends without the lock.* It copies the set of subscriptions, releases the
  broker's mutex and then sends, while subscribers come, go, and close their
  channels. Replies and deliveries of one connection share a writer.
* *Rewrite works on a copy.* The dataset is copied shard by shard, written to
  another file and swapped in, while commands go on being executed and logged.
* *Clients do as they please.* They stop reading, hang up or stay silent while the
  server wants to deliver, to reply or to shut down.

What makes the components correct: expiry never destroys live data and never lets
expired contents show; updates keep deadlines; no empty collections; the log
rebuilds the store; no accepted command is lost, duplicated, reordered or torn
short of a crash, and after a crash a prefix remains; a rewrite changes the file but
not what it means; a subscriber reads what was published to it once, in order and
after its subscription was confirmed; a connection that ends leaves nothing behind;
blocked appends, commands, publishers and shutdown come to an end; what is written
on the wire is what is read. `PROJECT.json` lists every hazard at its line with the
properties that cover it, or the reason why none does.

## 2. Modules

```
Entries <- Commands <- Engine  <- MCStore, MCProgress, MCOwned, MCClaims
               \          \
                \     EntryProofs <- EngineProofs
                 Queries \
Glob, Resp, Shards, SetOptions <- Helpers <- MCHelpers, HelperProofs (and EntryProofs)
CommandLog <~ AofLog <- AofRewrite <- MCAofRewrite
                 \ MCAofLog
                  \ AofProofs <- RewriteProofs (and AofRewrite)
Broker <- Server <- MCServer                  (<- extends, <~ is implemented by)
              \ ServerProofs <- ReaderProofs
SeqProofs <- AofProofs, ServerProofs, HelperProofs
```

* **Entries** - the body of every Store method that writes, as an operator on the
  entry of one key: `SetNX(e, v, ttl, now)` yields the entry left behind and `ok`,
  whether the handler will log. A string is a sequence of fragments: the decimal
  form of `n` is `<<n>>`, text fragments never form a number, so that `Append` is
  concatenation and `ParseInt` succeeds exactly on `<<n>>` with `n` in range.
  Integers are bounded by `MaxInt`; the overflow guard is modelled as written.
  `expiresAt` is a set with at most one instant, empty for the zero time.
* **Commands** - the parsed commands, the Store call of each handler (`Handle`),
  what is logged (`Logged`: GETSET, MSET and the counters log a plain SET), and
  the effect of one logged command at replay (`ReplayStep`). INCR/DECR are INCRBY
  by 1 and -1; EXPIRE and PEXPIRE are one command; STRLEN and MGET are GET. APPEND
  takes text, because appending digits to a number would form another number,
  which fragments do not express.
* **Engine** - goroutines. `cl[c]` holds the locals of a connection goroutine in
  `Execute`; `pc` is `idle`, `clock` (about to read the clock), `lock` (about to
  take the shard's lock), `lazy` (in `lazyDelete`), `flush` (at the i-th shard of
  FLUSHDB) or `log` (about to append). One action per step: `Begin`, `ReadClock`,
  `Update`, `GetRead`, `LazyDelete`, `FlushShard`, `LogAppend` for connections,
  `SweepStart` and `SweepShard` for the sweeper, `Tick` for time. A critical
  section under one shard's lock is one atomic step. The log is represented by
  what it means: `replica` is the dataset its replay yields (at instant 0 of the
  restarted server).
* **AofLog** - the log below `Append`: channel, writer, buffer, file, shutdown,
  crash and restart. A record is two halves so that a write can stop inside one.
  `Write` spills as bufio does: what is buffered and some part of the new record.
  Past a torn record `Replayed` stops. The real reader may instead complete the
  torn record with bytes of the next one (`readArray` does not look at the two
  bytes it discards); the next record is lost either way, and no property looks
  further. That a record is all or nothing for `Replay` is itself checked byte by
  byte (`CutReplaysWhole`, below).
* **CommandLog** - what the log promises, abstractly: a growing sequence of which a
  prefix is safe; a graceful stop makes all of it safe, a crash keeps the prefix.
  `AofLog!Abstract` is the refinement mapping: `log` is `accepted`, `safe` the
  number of accepted commands whose records are in the file after the contents the
  file had when it was opened.
* **AofRewrite** - AofLog with `SnapshotAll` and `Rewrite` beside it: `RewriteStart`,
  `SnapshotShard` (one shard's lock), `WriteTemp`, `SwapFlush` and `Rename` (both
  under `l.mu`; the writer, INFO and Close wait, a crash may come between). Each
  connection pushes to a list of its own, in a shard of its own, so that the dataset
  is a number per connection and the order of a list's pushes can be checked.
  `quiet` records the connections to whose list no command was under way between
  copy and swap.
* **Broker** - subscriptions, their Go channels and the two halves of Publish
  (`Targets` under the mutex, `Send` after it). A subscription is identified by its
  connection, channel and a number, because each call of Subscribe makes a new one.
* **Server** - `Run`, `handleConn` and the delivery goroutines on top of Broker.
  `h[c].pc` is where the handler of connection `c` is; `mu[c]` is `writeMu`; `dl[s]`
  and `hand[s]` are the delivery goroutine of subscription `s`. `Accept` compares the
  counter, `Start` increments it later; `ReadCommand` waits for the client; a
  command is dispatched under `writeMu` and holds it until `Flush`; SUBSCRIBE and
  UNSUBSCRIBE take one step per channel, or end early when a reply to a client that is
  gone cannot be written (`ReplyFails`; a buffered write may also succeed), Publish one
  per target; `Cleanup` and `Return` are the deferred functions. A shutdown cancels the
  context (`Shutdown`) and then closes the listener (`CloseListener`); connections that
  are accepted in between end at the head of their loop. Clients in `Fickle` may hang up (`HangUp`) or
  stop reading (`Stall`: writes to them block). `PublishPanics` is a send on a closed
  channel, which ends the process. Data commands are PING here: they reply and touch
  none of this state.
* **Glob** - `matchHere` and `matchClass` as they are, and what a pattern means: a
  sequence of gaps and byte sets (`Tokens`) that is laid along the key by a set of
  reachable positions (`Means`).
* **Resp** - readers and writers on sequences of bytes, the records of the log and
  their replay, the HTTP demo's client. Bytes are 0..255. A negative length of an
  argument is `Panic`: `make` does not survive it and nothing recovers, so that the
  process ends; no writer modelled here writes one. `splitInline` decodes UTF-8 as
  `range` does (`InRune`): a byte that belongs to no character becomes U+FFFD
  (`Copied`). `handleGet` and `handleSet` render strings with `%q` (`Quote`, right for
  ASCII), which the page reads as JSON (`call`).
* **SetOptions** - `parseSetOpts`, with a duration of few bits that wraps.
* **Shards** - `nextPow2` and the mask.
* **Queries** - what the reading commands answer on one entry, and the commands a
  rewrite emits for it (`snapshotCommands`, `msUntil`; an instant is half a
  millisecond).
* **Helpers** - builds the inputs of these functions step by step, one function's
  at a time, and states their properties.

Engine and AofLog meet at `Append`: Engine's `LogAppend` is the send on the
channel, AofLog's `accepted` the order it creates; NothingLost and ReplayIsPrefix
say that this order is the order in the file.

Mutants (definitions commented "Mutant:") are plausible errors in one definition;
for each property one of them shows that the property can fail.

## 3. Runs

| run | instance | result |
|---|---|---|
| `store` | 2 clients, 2 keys in 2 shards, 16 commands of all kinds with deadlines 0 and 1, 3 commands in all, clock 0..3, no log | TypeOK, EntriesWellFormed, ReclaimSparesLive, NXSparesLive, UpdatesKeepDeadline, ExpiredContentsStayDead hold |
| `progress` | 2 clients, volatile keys in 2 shards, multi-key commands, FLUSHDB and a log | ExpiredIsReclaimed, CommandsReturn hold under `FairSpec` |
| `owned_keys` | 2 clients with keys of their own, every writing command without a deadline, 4 commands, integers -3..2 | LogFollowsStore and CountersNeverWrap hold |
| `aof_log` | 2 connections with 2 commands each, channel of 1, buffer of 3 halves, 2 starts | type, order, flush, close, prefix and liveness properties hold; ImplementsCommandLog: the log refines CommandLog |
| `rewrite` | the same log with 2 rewrites, 1 start | SwapLosesNothing, QuietListsExact, SavedStaysSaved hold |
| `pubsub` | a fickle subscriber with two subscriptions in turn, a publisher of 3 messages, buffers of 1, a limit of 1 client | ConfirmedFirst, ReadOnce, DeliveredInOrder, NothingLeftBehind, RefusedOnlyWhenFull hold; PublishReturns, BufferDrains, ShutdownDrains under `FairSpec` |
| `helpers` | patterns of up to 5 bytes out of 9, streams of up to 5 commands, arguments and chunks, 4 option tokens, 17 shards, entries after 4 commands in 6 instants | nine properties of the pure functions hold |
| `race_order` | 2 clients write one key | RebuildsExactDataset **fails**: the log has the writes in the other order |
| `replay_expiry` | 1 client, a key that expires | LiveKeysRebuilt **fails**: SET NX is refused at replay |
| `stale_clock` | EXPIRE against the clock | NoResurrection **fails**: an expired key gets a new deadline |
| `torn_tail` | crash in the middle of a record, restart, graceful stop | StopKeepsAll **fails**: records behind the tear are lost |
| `pubsub_closed` | the instance of `pubsub` | NoPanic **fails**: Publish sends on a channel that Unsubscribe has closed |

The `helpers` run checks the pure functions against reference definitions:
GlobMeansPattern (the matcher against the pattern's tokens laid along the key),
CommandsReadBack and CutReplaysWhole (what is written is read back, and a file cut at
any byte replays exactly its whole commands; an inline command is read back if its words
are valid UTF-8), PageShowsValue (the demo's reply reader and page: ASCII text is shown
byte for byte, other ASCII not at all), OptionsAsWritten (SET's options: those of its
comment, and a repeated NX or XX), ShardsCoverKeys (the shard mask),
ReadsForetellWrites (a read against the next write, on expired entries too),
RangesExact (LRANGE and LINDEX) and SnapshotRebuilds (the commands of a rewritten key).

The five failing runs each state a sentence of the repository's documentation or
comments; `findings` in `PROJECT.json` quotes it with the line where the code
differs. Some findings have no run of their own, because a passing property shows
how far the claim does hold and says what it leaves out:

* DECRBY of the least int64 (`command/command.go:311`): CountersNeverWrap leaves this
  amount out.
* Commands logged between a snapshot and the swap are lost, and commands copied while
  queued are logged twice (`aof/aof.go:185`): QuietListsExact is about the other keys.
* A key with less than a millisecond left loses its deadline in a rewrite
  (`aof/aof.go:225`): SnapshotRebuilds leaves it out.
* The value `$-1` is shown as "not found" by the HTTP demo (`cmd/httpdemo/main.go:162`):
  PageShowsValue leaves it out.
* `%q` is Go syntax, not JSON: a key or value with a control character other than
  backspace, tab, line feed, form feed and carriage return, or with bytes that are not
  UTF-8, makes the page's `r.json()` throw (`cmd/httpdemo/main.go:166`): PageShowsValue
  says exactly which ASCII strings are shown, and that the others are not. Bytes beyond
  ASCII are not in it.
* SET takes `NX NX` and `XX XX` (`command/helpers.go:38`), while its comment and the
  README list `[NX | XX]`: OptionsAsWritten accepts these repetitions by name
  (`Repeating`), beside the grammar of the comment (`Grammatical`).
* A burst of connections passes the client limit (`server/server.go:128`):
  RefusedOnlyWhenFull is the other direction of the claim.
* `EX` with an amount whose duration does not fit wraps, to a TTL that is too short or
  to none (`command/helpers.go:32`): OptionsAsWritten leaves these amounts out.
* A counter is logged as a plain SET, so that INCR on a key with a TTL makes it
  permanent after a restart (`command/command.go:325`).

Two things about pub/sub are true of the code and contradict no document: a message
may be written after the reply to UNSUBSCRIBE, because what is buffered is still
delivered; and after unsubscribing and subscribing again a client may read messages of
the new subscription before the rest of the old one (order is per subscription, as
DeliveredInOrder states).

*Bounds.* A stale reading needs one goroutine between its clock reading and its
lock, another that rewrites the key, and two or three ticks (set, expire, extend):
three commands and clock 3 contain all these races; two shards are enough for the
sweeper to be in one while a key changes in the other. A DEL of two keys of which
one is missing, or an MSET interrupted between its pairs, needs a command before it
and one beside it: four commands. The log needs a full channel (one record held by
the writer, one queued, one sender blocked) and a spill in the middle of a record
(a record and a half of buffer). A rewrite can go wrong with the writer between two
steps of one record and a second rewrite can find what the first left: two of each.
In pub/sub, one message in the hand of the delivery goroutine, one in the buffer and
one more is the first that is dropped; two subscriptions in turn are what a walk over
an old copy can confuse; two connections are more than the limit of one. A closed
range in a pattern takes five bytes. Argument chunks are line breaks, `$`, `*`, the
text `$-1`, a run of ten bytes, whose length has two digits, a control character (BEL)
that JSON cannot read as `%q` writes it, and the two bytes of one character (é), which
alone are not UTF-8. Time is a bounded
counter (`MaxClock`, `MaxInstant`), commands are bounded in number (`MaxCommands`,
`MaxAppends`, the length of `Script`), starts by `MaxStarts`, subscriptions by
`MaxSubs`. `CHECK_DEADLOCK FALSE` is used where the system really stops: the process
(log, server) or the inputs (helpers).

*Fairness.* In `Engine!FairSpec`: weak fairness of each connection's steps after
`Begin` (a goroutine that can run is scheduled; mutexes are held for one step), of
the sweeper (the ticker fires until shutdown) and of time. No client is obliged
to send anything. In `AofLog!FairSpec`: weak fairness of the writer and of the
shutdown steps, strong fairness of `Send`, because the Go runtime queues blocked
senders first-in first-out. Handlers are not obliged to return, so that
ShutdownCompletes starts from the moment the connections have ended. In
`Server!FairSpec`: weak fairness of each handler's steps but ReadCommand, of each
delivery goroutine, of `CloseListener` and of `Stop`. Clients are obliged to nothing, neither to send nor
to read nor to hang up: ShutdownDrains says that a shutdown waits for nothing but
clients that are connected and silent or do not read, as `wg.Wait` does.

## 4. Proofs

All theorems hold for any sets of clients, keys, fields and channels, any number of
shards, any capacities, any repertoires or scripts of commands and any bounds. They
rest on the named assumptions on constants only: `NumShardsAssumption`,
`ShardOfAssumption`, `RepertoireAssumption`, `BoundsAssumption`, `AOFAssumption`,
`TextsAreNotNumbers`, `MaxIntAssumption` for the store; `CapacityAssumption`,
`BufCapAssumption`, `AofBoundsAssumption` for the log (capacities and the number of
starts are at least 1) and `RewriteAssumption` for its rewrite (finitely many lists, as
SnapshotAll walks over them); `BufCapAssumption` of Broker, `MaxSubsAssumption` and
`ServerAssumption` for pub/sub (finitely many connections, as there are finitely many
file descriptors), with `ScriptAssumption`: clients send commands, and a PUBLISH that
reaches Publish has a channel, because `cmdPublish` checks the number of arguments;
`BytesAssumption`, `HashAssumption`, `DurationAssumption` and `KeyAssumption` for the pure
functions: what is read is bytes, hashes are natural numbers, amounts are integers and
no option's name parses as one, and the commands on the one key are commands that
change a key, an HSET with one value for a field.

* **SeqProofs** - facts about sequences of any kind: cutting and joining, prefixes
  element by element, and two forms of induction. The library's induction theorems
  have an operator parameter, which the installed provers cannot instantiate;
  `Induction` and `Recursion` are therefore stated about *sets* of numbers and about
  tables of functions, and proved from the existence of a least number
  (`LeastNumber`). They are what every theorem about a recursive function (`Messages`,
  `Of`, `Rebuilt`, the codec, the matcher) rests on: a recursive function is a CHOICE,
  and what it computes is known once some function satisfies its equation (`Recursion`
  for loops, `DescentExists` for recursion that skips numbers, `AscentExists` of
  HelperProofs for one that climbs, `FlattenDef` for `FlattenSeq`).
* **EntryProofs** - every operation maps entries to entries and well-formed entries
  to well-formed ones (`HandleType`, `HandleWF`); operations that do not replace a
  deadline keep it (`HandleKeepsDeadline`); a dead entry is treated as an absent key
  (`HandleDeadIsAbsent`); `IncrBy` stores the exact sum (`IncrByExact`).
* **EngineProofs** -
  * `TypeCorrect`: `Spec => []TypeOK`. The inductive invariant `Inv` adds
    `LocalsOK`: inside a command a goroutine has one of the commands, its index is
    one of the command's keys, only FLUSHDB walks shards, only GET is in lazy
    deletion, and what is about to be logged is never a GET or a command that is
    logged rewritten. Without it `Update` could apply a command to a key it does
    not have.
  * `EntriesStayWellFormed`: `Spec => []EntriesWellFormed`, from `HandleWF`.
  * `ReclaimIsSafe`, `NXIsSafe`: the action properties, from the invariant
    `ReadingsPast`: a clock reading in use is never ahead of the clock, so that
    what is live now was live at the reading, given the entry as it is now. This
    is why the second look under the lock is enough although the reading is old.
  * `DeadlinesKept`, `ExpiredStaysDead`, `CountersExact`: the action properties
    `UpdatesKeepDeadline`, `ExpiredContentsStayDead` and `CountersNeverWrap`. The
    first two use `ReadingsPast` in opposite directions: a key that is live now was
    taken for live, and so updated in place; a key that has expired may have been
    taken for live or for dead, and is live afterwards only if the write began afresh
    or was one of those that extend an entry.
  * `LogIsFaithful`: with the log enabled, clients that keep to keys
    of their own (`Private`) and no deadlines (`Permanent`), `Spec =>
    []LogFollowsStore`. The invariant `LogInv` says how store and replica are related
    *while* a command is under way (`Agree`): equal; or, in a DEL, erased keys are
    gone from the store and, if nothing was removed so far, were never in the
    replica; or the record about to be logged makes them equal. It needs that a
    client's record touches only the keys of its command, and that without deadlines
    the outcome of a call does not depend on the instant (`LoggedReplays`). The runs
    `race_order` and `replay_expiry` show that neither hypothesis can be dropped;
    `owned_keys` checks the hypotheses as an assumption of its instance.
* **AofProofs** - one inductive invariant `AofInv` for the log: types, `Control`
  (the writer's hand is full exactly between Receive and Write; the writer has exited
  only when the channel was closed and drained or the process died; the channel is
  closed only after the last handler returned), `IdleMeansFlushed`, `NothingLost`
  (`Pipeline`, the contents of all stages in order, changes only when something is
  sent) and `FileIsPrefix` (the file is what it was when opened and then a part of
  what was accepted; unlike `NothingLost` it survives a crash). From it
  * `AofTypeCorrect`, `AofLosesNothing`, `IdleWriterHasFlushed`, `CloseLeavesAll`:
    the run's invariants;
  * `CrashLeavesPrefix`: a part of whole records replays to a prefix of them
    (`ReplayOfPart`: the halves of a record that was cut do not match);
  * `StopKeepsAllOfWholeLog`: the claim that the run `torn_tail` refutes is true of a
    file that was whole when it was opened, so that the torn record is its only cause;
  * `LogImplementsCommandLog`: the refinement. `Saved` counts the records by which
    the file has grown (`SavedIsGained`); `Send` is `Log`, every flush and spill is
    `Save`, `CloseFile` is `Stop` because all stages before the file are empty by then,
    `Crash` and `Restart` are `Crash` and `Start`, and the rest stutters.
* **RewriteProofs** - the log while it is rewritten. `RewriteInv` has two halves.
  `SwapInv` is `AofInv`, except between the flush and the rename, where the history
  already speaks of the new file: there `Swapping` says that what was accepted is
  what the writer holds and the channel, which Send and Receive keep because
  everything that writes to the file waits for `l.mu`. It makes `NothingLost` true
  again at the rename. The other half follows the lists: `TempOK` (the temporary file
  is whole and recreates every list as it was copied), `CopyOK` (until the swap the
  copy of a quiet list is all of it and none of its commands is queued; a command that
  would make this false takes the list out of `quiet`), `ListsExact`
  (`QuietListsExact`, after a crash too) and `SavedOK` (the file that is about to be
  replaced has no more of a quiet list than the new one). Theorems:
  `RewriteLosesNothing`, `RewriteExactForQuiet`, `RewriteIsAtomic`. The lemmas are
  about operators: `Of`, the pushes of one connection, distributes over
  concatenation (`OfConcat`) and grows with its argument (`OfGrows`); a longer file
  replays to at least as much (`ReplayGrows`), torn or not; the commands of the
  temporary file, flattened in any order of the shards, give back every list
  (`SnapshotIs`).
* **ServerProofs** - the inductive invariant `ServerInv` for connections and pub/sub:
  types (of the histories too); `HandlerOK` (a handler's subscriptions are its own, one
  for each channel, and none before it starts or after it returned; its argument loops
  have an argument); `BrokerOK` (the broker has exactly the subscriptions that
  handlers have); `WriterOK` (`writeMu` is held by the handler in a command, or by one
  delivery goroutine in a write); `ReturnedOK`; `CountOK` (`s.clients` is the number
  of handlers that have begun and not returned); `NumbersOK` (subscriptions to a
  channel are numbered without gaps, so that `NextSub` is a fresh one); and
  `DeliveryOK` (what was read, is in hand and is buffered, joined, is what was
  accepted). `BrokerOK` and `HandlerOK` need each other: a subscription leaves the
  broker and the handler's set in one step of the handler. The steps of a handler that
  leave broker and histories alone are treated together (`Quiet`, `Passes`). Theorems:
  `ServerTypeCorrect`, `DeliveriesInOrder`, `ReturnLeavesNothing`, and
  `RefusalsAreJustified`, where `CountOK` bounds the counter by the handlers served.
* **ReaderProofs** - what a client reads, on top of `ServerInv`.
  * `ConfirmationsComeFirst`: `ConfirmInv` counts, for each client and channel, the
    confirmations it was sent, plus the one the handler still owes (`Pending`): they
    are as many as the subscriptions made. A delivery can be written only while the
    handler is not between registration and confirmation, since both hold `writeMu`
    (`WriterOK`), so that then nothing is owed.
  * `MessagesReadOnce`: `OnceInv` says that the Go channels of one client together
    took no message twice (`TakenOnce`). This needs that Publish has at most one
    subscription of each client left to send to (`TargetsOK`, from `HandlerOK` at the
    moment of the copy), and that a message already taken is of an earlier command, or
    its publisher has no target of the same client left (`SentOK`). What the client
    reads is then new because, by `DeliveryOK`, what it read before precedes it among
    the messages taken.

* **HelperProofs** - the pure functions, for inputs of any length: all nine invariants
  of the run `helpers`, for the bytes each of them is about. The inputs are what the invariants say of them
  (`pattern` is a sequence of bytes, `cmds` of commands with at least one argument,
  `opts` of tokens, `count` a natural number); the work is in the operators.
  * `ReadsAreTrue`, `RangesAreExact`, `SnapshotsRebuild`: the properties of one key,
    `[]ReadsForetellWrites`, `[]RangesExact` and `[]SnapshotRebuilds`. The invariant
    `KeyOK` says that the entry is an entry, well-formed, with at most one deadline and
    at most one value for a field (`HandleSingle`: every operation keeps this);
    without the last two TTL and HGET would have a choice. A range is an interval
    of indices once both bounds are clamped (`BetweenIs`). A rewrite is one command that
    rebuilds the value (`ValueRebuilt`, for each kind) and one that rounds the deadline
    down to a millisecond (`DeadlineRebuilt`); `RebuiltDef` unfolds their replay.
  * `StreamsReadBack`, `CutsReplayWhole`, `PagesShowValue`: `[]CommandsReadBack`,
    `[]CutReplaysWhole` and `[]PageShowsValue`. A number is read as it was written
    (`DigitsValue`), a line ends where its writer ended it because nothing before has a
    line feed (`LineRead`), and so each reader returns what its writer was given and
    leaves exactly what follows (`ArgRead`, `ArgsRead`, `CommandRead`). For a file that
    is cut, each has a second lemma: on a proper part of what was written it reads no
    value (`LineTorn`, `IntTorn`, `ArgTorn`, `ArgsTorn`, `CommandTorn`); a proper part of
    a joined string is a part of the first or all of it and a part of the rest
    (`PartOfJoin`). The loops (arguments, records, words of an inline command) are
    unfolded round by round (`ArgsLoop`, `ReplayLoop`, `InlineRounds`). The words of an
    inline command have to be valid UTF-8: a byte that belongs to a character of its
    word belongs to the same one in the line (`RuneInside`). What the page shows follows
    byte by byte from what JSON makes of a byte that `%q` has rendered (`ByteQuoted`,
    `PageReads`), for ASCII.
  * `OptionsMean`: `[]OptionsAsWritten`. The loop invariant `ReadTo(acc, n)` says that
    the accumulator is what the first n tokens say, each of which sits where the grammar
    allows it; an error means that the options are not what the loop takes
    (`RoundFails`, `Tolerated`), which is the grammar of the comment and a repeated NX or
    XX (`ToleratedIs`). Of durations of `Wrapping` or more, which wrap, nothing is said.
  * `ShardsAreEven`: `[]ShardsCoverKeys`. The number of shards is a power of two that is
    large enough (`NextPow2Is`), and the mask is the remainder by it, one bit at a time
    (`LowBit`, `MaskIsRemainder`).
  * `GlobsMean`: `[]GlobMeansPattern`. `Reaches(H, p, s)` says for each position of the
    pattern from which positions of the key the tokens from there on lead to its end.
    The matcher, which walks backwards through the pattern, computes it (`HereIs`), and
    the meaning, which lays the tokens from the front, ends at the end exactly when it
    has the start (`RunsReach`, `MeansIs`). Between them, the loop over a class finds the
    bytes it lists and the place where it closes (`ScanIs`, `ClassIs`), and the tokens
    are cut where the matcher goes on (`TokensDef`, `ClassEnds`).

Only model-checked: liveness (`ExpiredIsReclaimed`, `CommandsReturn`,
`AppendsReturn`, `AcceptedReachesFile`, `ShutdownCompletes`, `PublishReturns`,
`BufferDrains`, `ShutdownDrains`), because temporal proofs under fairness are out of the
prover's reach. Every invariant and every action property of a passing run, and the
refinement, is also a theorem.

## 5. Not modelled

KEYS and DBSIZE as walks over the shards (they change nothing; the matcher is in
Glob), INFO's counters, ECHO and COMMAND; replies that are arrays, and error texts; the
HTTP server and page of the demo and its start-up loop; I/O errors: the log ignores
those of writing, and when the rename in Rewrite fails it goes on with a closed file;
commands whose arguments are refused by the parsers; lengths and counts on the wire for
which there is no memory; what `%q` makes of bytes beyond ASCII; an empty key in the demo,
which is refused before the server is asked.
TTL and PTTL are modelled with the second clock reading they make after the lock was
released; with it the reply can be negative once the deadline has passed by a whole
unit, and no property is stated of that.

## 6. Plan

No safety property of a passing run is left to prove. What would be next is more model:
I/O errors of the log (a failed write, a rename that fails), the multi-key reads, and
bytes beyond ASCII in the demo's page.
