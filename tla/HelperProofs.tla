---------------------------- MODULE HelperProofs ----------------------------
(***************************************************************************)
(* The functions without shared state, for every input.                    *)
(***************************************************************************)
EXTENDS Helpers, EntryProofs, SeqProofs, FunctionTheorems

----------------------------------------------------------------------------
(* One key *)

\* An entry has at most one deadline, and a field at most one value.
Single(e) ==
  /\ \A t, u \in e.expiresAt : t = u
  /\ \A f \in Fields : \A v, w \in e.hash[f] : v = w

LEMMA SingleNew ==
  /\ Single(NoEntry)
  /\ \A kind : Single(NewEntry(kind)) /\ NewEntry(kind).kind = kind
  /\ \A v, ttl, instant : Single(StringEntry(v, ttl, instant))
  BY DEF Single, NoEntry, NewEntry, StringEntry, EmptyHash, Never

\* Storing another string or list leaves deadline and fields as they are.
LEMMA SingleKept ==
  ASSUME NEW e \in Entry, Single(e)
  PROVE  /\ \A v : Single([e EXCEPT !.str = v])
         /\ \A l : Single([e EXCEPT !.list = l])
         /\ \A t : Single([e EXCEPT !.expiresAt = {t}])
         /\ Single([e EXCEPT !.expiresAt = Never])
  BY DEF Single, Entry, Never

LEMMA SingleHash ==
  ASSUME NEW e \in Entry, Single(e), NEW h \in [Fields -> SUBSET Str],
         \A f \in Fields : \A v, w \in h[f] : v = w
  PROVE  Single([e EXCEPT !.hash = h])
  BY DEF Single, Entry

\* Every Store call of a handler leaves at most one deadline and one value for a field.
LEMMA HandleSingle ==
  ASSUME NEW m \in Repertoire, NEW e \in Entry, Single(e), NEW instant \in Int
  PROVE  Single(Handle(m, 1, e, instant).e)
  <1>0. /\ m \in Command /\ m.name \notin {"GET", "FLUSHDB"}
        /\ m.name = "HSET" => \A f \in Fields : \A v, w \in m.pairs[f] : v = w
    BY KeyAssumption
  <1>1. \A x : Done(x).e = x /\ Refused(x).e = x
    BY DEF Done, Refused
  <1>2. \A kind \in Kinds : LiveOr(e, kind, instant) \in Entry /\ Single(LiveOr(e, kind, instant))
    BY SingleNew, LiveOrType DEF LiveOr
  <1>3. \A v, ttl : /\ Single(Set(e, v, ttl, instant).e)
                    /\ Single(SetNX(e, v, ttl, instant).e)
                    /\ Single(SetXX(e, v, ttl, instant).e)
                    /\ Single(GetSet(e, v, instant).e)
    BY <1>1, SingleNew DEF Set, SetNX, SetXX, GetSet
  <1>4. \A v : /\ Single([LiveOr(e, "string", instant) EXCEPT !.str = v])
               /\ Single([LiveOr(e, "list", instant) EXCEPT !.list = v])
    BY <1>2, SingleKept DEF Kinds
  <1>5. \A v : Single(StrAppend(e, v, instant).e)
    <2> TAKE v
    <2> DEFINE w == LiveOr(e, "string", instant).str \o v
    <2>1. StrAppend(e, v, instant).e \in {e, [LiveOr(e, "string", instant) EXCEPT !.str = w]}
      BY <1>1 DEF StrAppend
    <2> HIDE DEF w
    <2> QED
      BY <1>4, <2>1
  <1>6. \A d : Single(IncrBy(e, d, instant).e)
    <2> TAKE d
    <2> DEFINE w == <<Counter(e, instant) + d>>
    <2>1. IncrBy(e, d, instant).e \in {e, [LiveOr(e, "string", instant) EXCEPT !.str = w]}
      BY <1>1 DEF IncrBy
    <2> HIDE DEF w
    <2> QED
      BY <1>4, <2>1
  <1>7. /\ Single(Del(e, instant).e)
        /\ \A ttl : Single(Expire(e, ttl, instant).e)
        /\ Single(Persist(e, instant).e)
    <2>1. Del(e, instant).e = NoEntry
      BY DEF Del
    <2>2. \A ttl : Expire(e, ttl, instant).e \in {e, [e EXCEPT !.expiresAt = {instant + ttl}]}
      BY <1>1 DEF Expire
    <2>3. Persist(e, instant).e \in {e, [e EXCEPT !.expiresAt = Never]}
      BY <1>1 DEF Persist
    <2>4. \A t : Single([e EXCEPT !.expiresAt = {t}])
      BY SingleKept
    <2>5. Single(NoEntry) /\ Single([e EXCEPT !.expiresAt = Never])
      BY SingleNew, SingleKept
    <2> HIDE DEF Single
    <2> QED
      BY <2>1, <2>2, <2>3, <2>4, <2>5
  <1>8. ASSUME m.name = "HSET" PROVE Single(HSet(e, m.pairs, instant).e)
    <2> DEFINE l == LiveOr(e, "hash", instant)
               merged == [f \in Fields |-> IF m.pairs[f] # {} THEN m.pairs[f] ELSE l.hash[f]]
    <2>1. m.pairs \in Hash
      BY <1>0, <1>8 DEF Command, SetCommand, MSetCommand, StringCommand, KeyCommand,
                        HashCommand, ListCommand, FlushCommand
    <2>2. l \in Entry /\ Single(l)
      BY <1>2 DEF Kinds
    <2>3. merged \in [Fields -> SUBSET Str]
      BY <2>1, <2>2 DEF Hash, Entry
    <2>4. \A f \in Fields : \A v, w \in merged[f] : v = w
      BY <1>0, <1>8, <2>2 DEF Single
    <2>5. HSet(e, m.pairs, instant).e \in {e, [l EXCEPT !.hash = merged]}
      BY <1>1 DEF HSet
    <2> HIDE DEF merged, l
    <2>6. Single([l EXCEPT !.hash = merged])
      BY <2>2, <2>3, <2>4, SingleHash
    <2> QED
      BY <2>5, <2>6
  <1>9. \A fs : Single(HDel(e, fs, instant).e)
    <2> TAKE fs
    <2> DEFINE rest == [f \in Fields |-> IF f \in fs THEN {} ELSE e.hash[f]]
    <2>1. rest \in [Fields -> SUBSET Str] /\ \A f \in Fields : \A v, w \in rest[f] : v = w
      BY DEF Entry, Hash, Single
    <2>2. HDel(e, fs, instant).e \in {e, NoEntry, [e EXCEPT !.hash = rest]}
      BY <1>1 DEF HDel
    <2> HIDE DEF rest
    <2>3. Single([e EXCEPT !.hash = rest])
      BY <2>1, SingleHash
    <2> QED
      BY <2>2, <2>3, SingleNew
  <1>10. \A v : Single(LPush(e, v, instant).e) /\ Single(RPush(e, v, instant).e)
    <2> TAKE v
    <2> DEFINE l == LiveOr(e, "list", instant)
               left == Reverse(v) \o l.list
               right == l.list \o v
    <2>1. /\ LPush(e, v, instant).e \in {e, [l EXCEPT !.list = left]}
          /\ RPush(e, v, instant).e \in {e, [l EXCEPT !.list = right]}
      BY <1>1 DEF LPush, RPush
    <2> HIDE DEF left, right
    <2> QED
      BY <1>4, <2>1
  <1>11. \A r : Single(Pop(e, r, instant).e)
    <2> TAKE r
    <2>1. Pop(e, r, instant).e \in {e, NoEntry, [e EXCEPT !.list = r]}
      BY <1>1 DEF Pop
    <2>2. Single(NoEntry) /\ Single([e EXCEPT !.list = r])
      BY SingleKept, SingleNew
    <2> QED
      BY <2>1, <2>2
  <1>12. \/ m.name = "SET" /\ m.cond \in {"always", "NX", "XX"}
         \/ m.name \in {"MSET", "GETSET", "APPEND", "INCRBY", "DECRBY", "DEL", "EXPIRE",
                        "PERSIST", "HSET", "HDEL", "LPUSH", "RPUSH", "LPOP", "RPOP"}
    BY <1>0 DEF Command, SetCommand, MSetCommand, StringCommand, KeyCommand, HashCommand,
                ListCommand, FlushCommand
  <1> HIDE DEF Single
  <1>13. CASE m.name = "SET"
    BY <1>3, <1>12, <1>13 DEF Handle
  <1>14. CASE m.name \in {"MSET", "GETSET", "APPEND", "INCRBY", "DECRBY", "DEL"}
    BY <1>3, <1>5, <1>6, <1>7, <1>14 DEF Handle
  <1>15. CASE m.name \in {"EXPIRE", "PERSIST", "HSET", "HDEL"}
    BY <1>7, <1>8, <1>9, <1>15 DEF Handle
  <1>16. CASE m.name \in {"LPUSH", "RPUSH", "LPOP", "RPOP"}
    BY <1>10, <1>11, <1>16 DEF Handle, LPop, RPop
  <1> QED
    BY <1>12, <1>13, <1>14, <1>15, <1>16

LEMMA FirstKey == \A ks \in OneKey \cup SomeKeys : 1 \in 1 .. Len(ks)
  BY DEF OneKey, SomeKeys

KeyOK == entry \in Entry /\ WellFormed(entry) /\ Single(entry) /\ now \in Nat

LEMMA KeyInit == Init => KeyOK
  BY NoEntryType, NewEntryWF, SingleNew DEF Init, KeyOK

LEMMA KeyStep == KeyOK /\ [Next]_vars => KeyOK'
  <1> SUFFICES ASSUME KeyOK, [Next]_vars PROVE KeyOK'
    OBVIOUS
  <1>1. CASE Execute
    <2>1. PICK m \in Repertoire : entry' = Handle(m, 1, entry, now).e
      BY <1>1 DEF Execute
    <2>2. m \in Command /\ m.name \notin {"GET", "FLUSHDB"}
      BY KeyAssumption
    <2>3. 1 \in 1 .. Len(m.keys)
      <3>1. m.keys \in OneKey \cup SomeKeys
        BY <2>2 DEF Command, SetCommand, MSetCommand, StringCommand, KeyCommand, HashCommand,
                    ListCommand, FlushCommand
      <3> QED
        BY <3>1, FirstKey
    <2>4. now' = now /\ now \in Int /\ entry \in Entry /\ WellFormed(entry) /\ Single(entry)
      BY <1>1 DEF KeyOK, Execute
    <2>5. Handle(m, 1, entry, now) \in Result
      BY <2>2, <2>3, <2>4, HandleType
    <2>6. WellFormed(Handle(m, 1, entry, now).e)
      BY <2>2, <2>3, <2>4, HandleWF
    <2>7. Single(Handle(m, 1, entry, now).e)
      BY <2>4, HandleSingle
    <2> QED
      BY <2>1, <2>4, <2>5, <2>6, <2>7 DEF KeyOK, Result
  <1>2. CASE Wait
    BY <1>2 DEF Wait, KeyOK
  <1>3. CASE UNCHANGED <<entry, now>>
    BY <1>3 DEF KeyOK
  <1>4. [Next]_vars => Execute \/ Wait \/ UNCHANGED <<entry, now>>
    BY DEF Next, vars, GrowPattern, AddCommand, AddArgument, AddChunk, GrowStream, AddOption,
           AddShard
  <1> QED
    BY <1>1, <1>2, <1>3, <1>4

\* The fields of a hash, and its pairs, are as many: every field has one value.
LEMMA FieldsArePairs ==
  ASSUME NEW h \in Hash, \A f \in Fields : \A v, w \in h[f] : v = w
  PROVE  Cardinality(FieldsOf(h))
           = Cardinality(UNION {{<<f, v>> : v \in h[f]} : f \in Fields})
  <1> DEFINE pairs == UNION {{<<f, v>> : v \in h[f]} : f \in Fields}
             pair == [f \in FieldsOf(h) |-> <<f, CHOOSE v \in h[f] : TRUE>>]
  <1>1. IsFiniteSet(FieldsOf(h))
    BY KeyAssumption, FS_Subset DEF FieldsOf
  <1>2. \A f \in FieldsOf(h) : f \in Fields /\ (CHOOSE v \in h[f] : TRUE) \in h[f]
    BY DEF FieldsOf
  <1>3. pair \in [FieldsOf(h) -> pairs]
    BY <1>2
  <1>4. \A f, g \in FieldsOf(h) : pair[f] = pair[g] => f = g
    OBVIOUS
  <1>5. \A x \in pairs : \E f \in FieldsOf(h) : pair[f] = x
    <2> TAKE x \in pairs
    <2>1. PICK f \in Fields : \E v \in h[f] : x = <<f, v>>
      OBVIOUS
    <2>2. PICK v \in h[f] : x = <<f, v>>
      BY <2>1
    <2>3. f \in FieldsOf(h)
      BY DEF FieldsOf
    <2>4. (CHOOSE w \in h[f] : TRUE) = v
      BY <1>2, <2>3
    <2>5. pair[f] = x
      BY <2>2, <2>3, <2>4
    <2> QED
      BY <2>3, <2>5
  <1>6. pair \in Bijection(FieldsOf(h), pairs)
    BY <1>3, <1>4, <1>5, Fun_IsBij, Zenon
  <1> HIDE DEF pairs, pair
  <1>7. ExistsBijection(FieldsOf(h), pairs)
    BY <1>6 DEF ExistsBijection
  <1>8. Cardinality(FieldsOf(h)) = Cardinality(pairs)
    BY <1>1, <1>7, FS_Bijection
  <1> QED
    BY <1>8 DEF pairs

(***************************************************************************)
(* What is read of a key foretells what a write will do.                   *)
(***************************************************************************)
LEMMA ReadsForetell ==
  ASSUME KeyOK PROVE ReadsForetellWrites
  <1>0. entry \in Entry /\ WellFormed(entry) /\ Single(entry) /\ now \in Nat
    BY DEF KeyOK
  <1> DEFINE ex == Exists(entry, now)
  <1>1. /\ ex <=> Type(entry, now) # "none"
        /\ ex <=> Del(entry, now).ok
        /\ ex <=> Expire(entry, 1, now).ok
        /\ ex <=> SetXX(entry, <<>>, 0, now).ok
        /\ ex <=> ~SetNX(entry, <<>>, 0, now).ok
    BY DEF Exists, Type, Del, Expire, SetXX, SetNX, Done, Refused, Live
  <1>2. /\ TTL(entry, now, now, 1) = -2 <=> ~ex
        /\ TTL(entry, now, now, 1) >= 0 <=> Persist(entry, now).ok
    <2>1. CASE ~Live(entry, now)
      BY <2>1 DEF TTL, Exists, Persist, Refused
    <2>2. CASE Live(entry, now) /\ entry.expiresAt = Never
      BY <2>2 DEF TTL, Exists, Persist, Refused
    <2>3. CASE Live(entry, now) /\ entry.expiresAt # Never
      <3> DEFINE t == CHOOSE u \in entry.expiresAt : TRUE
      <3>1. t \in entry.expiresAt
        BY <2>3 DEF Never
      <3>2. t \in Int
        BY <1>0, <3>1 DEF Entry
      <3>3. t >= now
        BY <1>0, <2>3, <3>1, <3>2 DEF Live, expired
      <3> HIDE DEF t
      <3>4. Quotient(t - now, 1) = t - now
        BY <1>0, <3>2, <3>3 DEF Quotient
      <3>5. TTL(entry, now, now, 1) = Quotient(t - now, 1)
        BY <2>3 DEF TTL, t
      <3>6. Persist(entry, now).ok
        BY <2>3 DEF Persist, Done
      <3> QED
        BY <1>0, <2>3, <3>2, <3>3, <3>4, <3>5, <3>6 DEF Exists
    <2> QED
      BY <2>1, <2>2, <2>3
  <1>3. /\ Get(entry, now).ok <=> GetSet(entry, <<>>, now).ok
        /\ MGetOne(entry, now) # {} <=> ex /\ GetSet(entry, <<>>, now).ok
    BY DEF Get, GetSet, MGetOne, WrongType, Done, Refused, Exists, Live, Answer, WrongTypeError
  <1>4. ASSUME NEW f \in Fields
        PROVE  LET h == HDel(entry, {f}, now).ok IN
               /\ HExists(entry, f, now) = Answer(TRUE) <=> h
               /\ h => HGet(entry, f, now).val # {} /\ f \in HKeys(entry, now).val
               /\ HGet(entry, f, now).ok <=> HSet(entry, EmptyHash, now).ok
    <2> DEFINE rest == [g \in Fields |-> IF g \in {f} THEN {} ELSE entry.hash[g]]
               hit == entry.kind = "hash" /\ Live(entry, now) /\ entry.hash[f] # {}
    <2>1. rest # entry.hash <=> entry.hash[f] # {}
      BY <1>0 DEF Entry, Hash
    <2>2. HDel(entry, {f}, now).ok <=> hit
      BY <2>1 DEF HDel, Refused
    <2>3. HExists(entry, f, now) = Answer(TRUE) <=> hit
      BY DEF HExists, Read, Answer, WrongTypeError
    <2>4. hit => HGet(entry, f, now).val # {} /\ f \in HKeys(entry, now).val
      BY DEF HGet, HKeys, Read, Answer, FieldsOf
    <2>5. HGet(entry, f, now).ok <=> HSet(entry, EmptyHash, now).ok
      BY DEF HGet, Read, Answer, WrongTypeError, HSet, WrongType, Done, Refused
    <2> HIDE DEF hit
    <2> QED
      BY <2>2, <2>3, <2>4, <2>5
  <1>5. HKeys(entry, now).ok => HKeys(entry, now).val = FieldsOf(HVals(entry, now).val)
    <2>1. FieldsOf(EmptyHash) = {}
      BY DEF FieldsOf, EmptyHash
    <2> QED
      BY <2>1 DEF HKeys, HVals, Read, Answer, WrongTypeError
  <1>6. HLen(entry, now).ok => HLen(entry, now).val = Cardinality(HGetAll(entry, now).val)
    <2> DEFINE pairs == UNION {{<<f, v>> : v \in entry.hash[f]} : f \in Fields}
    <2>1. Cardinality(FieldsOf(entry.hash)) = Cardinality(pairs)
      BY <1>0, FieldsArePairs DEF Entry, Single
    <2>2. HGetAll(entry, now) = Read(entry, "hash", now, {}, pairs)
      BY DEF HGetAll
    <2> HIDE DEF pairs
    <2>3. Cardinality({}) = 0
      BY FS_EmptySet
    <2> QED
      BY <2>1, <2>2, <2>3 DEF HLen, Read, Answer, WrongTypeError
  <1>7. LET first == LIndex(entry, 0, now)
            last == LIndex(entry, -1, now)
            pushed == RPush(entry, <<<<>>>>, now)
        IN  /\ first.ok <=> pushed.ok
            /\ pushed.ok => LLen(entry, now).val = Len(pushed.e.list) - 1
            /\ LPop(entry, now).ok =>
                  entry.list = <<CHOOSE v \in first.val : TRUE>> \o LPop(entry, now).e.list
            /\ RPop(entry, now).ok =>
                  entry.list = RPop(entry, now).e.list \o <<CHOOSE v \in last.val : TRUE>>
    <2> DEFINE l == entry.list
    <2>1. l \in Seq(Str) /\ Len(l) \in Nat
      BY <1>0 DEF Entry
    <2>2. LIndex(entry, 0, now).ok <=> RPush(entry, <<<<>>>>, now).ok
      BY DEF LIndex, Read, Answer, WrongTypeError, RPush, WrongType, Done, Refused
    <2>3. RPush(entry, <<<<>>>>, now).ok =>
            LLen(entry, now).val = Len(RPush(entry, <<<<>>>>, now).e.list) - 1
      <3> SUFFICES ASSUME ~WrongType(entry, "list", now)
                   PROVE  LLen(entry, now).val = Len(RPush(entry, <<<<>>>>, now).e.list) - 1
        BY DEF RPush, Refused
      <3> DEFINE old == LiveOr(entry, "list", now)
      <3>1. old \in Entry
        BY <1>0, LiveOrType DEF Kinds
      <3>2. RPush(entry, <<<<>>>>, now).e.list = old.list \o <<<<>>>>
        BY <3>1 DEF RPush, Done, Entry
      <3>3. Len(old.list \o <<<<>>>>) = Len(old.list) + 1 /\ Len(old.list) \in Nat
        BY <3>1 DEF Entry
      <3>4. LLen(entry, now).val = Len(old.list)
        BY DEF LLen, Read, Answer, LiveOr, WrongType, NewEntry, NoEntry
      <3> HIDE DEF old
      <3> QED
        BY <3>2, <3>3, <3>4
    <2>4. ASSUME entry.kind = "list", Live(entry, now), l # <<>>
          PROVE  /\ LIndex(entry, 0, now).val = {l[1]}
                 /\ LIndex(entry, -1, now).val = {l[Len(l)]}
      <3>1. Len(l) > 0
        BY <2>1, <2>4
      <3>2. LIndex(entry, 0, now).val
              = LET i == normalizeIndex(0, Len(l))
                IN  IF i < 0 \/ i >= Len(l) THEN {} ELSE {l[i + 1]}
        BY <2>4 DEF LIndex, Read, Answer
      <3>3. LIndex(entry, -1, now).val
              = LET i == normalizeIndex(-1, Len(l))
                IN  IF i < 0 \/ i >= Len(l) THEN {} ELSE {l[i + 1]}
        BY <2>4 DEF LIndex, Read, Answer
      <3>4. normalizeIndex(0, Len(l)) = 0 /\ normalizeIndex(-1, Len(l)) = Len(l) - 1
        BY <2>1 DEF normalizeIndex
      <3> QED
        BY <2>1, <3>1, <3>2, <3>3, <3>4
    <2>5. \A x : (CHOOSE v \in {x} : TRUE) = x
      OBVIOUS
    <2>6. ASSUME entry.kind = "list", Live(entry, now), l # <<>>
          PROVE  /\ LPop(entry, now).e.list = Tail(l)
                 /\ RPop(entry, now).e.list = Front(l)
      <3>1. NoEntry.list = <<>> /\ \A x : [entry EXCEPT !.list = x].list = x
        BY <1>0 DEF NoEntry, Entry
      <3>2. \A r : Pop(entry, r, now).e.list = r
        BY <2>6, <3>1 DEF Pop, Done
      <3> QED
        BY <2>6, <3>2 DEF LPop, RPop
    <2>7. l # <<>> => l = <<l[1]>> \o Tail(l) /\ l = Front(l) \o <<l[Len(l)]>>
      BY <2>1 DEF Front
    <2>8. LPop(entry, now).ok \/ RPop(entry, now).ok =>
             entry.kind = "list" /\ Live(entry, now) /\ l # <<>>
      BY DEF LPop, RPop, Pop, Refused
    <2> HIDE DEF l
    <2>9. ASSUME LPop(entry, now).ok
          PROVE  l = <<CHOOSE v \in LIndex(entry, 0, now).val : TRUE>> \o LPop(entry, now).e.list
      <3>1. LIndex(entry, 0, now).val = {l[1]} /\ LPop(entry, now).e.list = Tail(l)
        BY <2>4, <2>6, <2>8, <2>9
      <3> QED
        BY <2>5, <2>7, <2>8, <2>9, <3>1
    <2>10. ASSUME RPop(entry, now).ok
           PROVE  l = RPop(entry, now).e.list \o <<CHOOSE v \in LIndex(entry, -1, now).val : TRUE>>
      <3>1. LIndex(entry, -1, now).val = {l[Len(l)]} /\ RPop(entry, now).e.list = Front(l)
        BY <2>4, <2>6, <2>8, <2>10
      <3> QED
        BY <2>5, <2>7, <2>8, <2>10, <3>1
    <2> QED
      BY <2>2, <2>3, <2>9, <2>10 DEF l
  <1> HIDE DEF ex
  <1>8. ex <=> Exists(entry, now)
    BY DEF ex
  <1> QED
    BY <1>1, <1>2, <1>3, <1>4, <1>5, <1>6, <1>7, <1>8 DEF ReadsForetellWrites

\* The elements of a list between two bounds, as an interval of indices: those that
\* Slice takes.
LEMMA BetweenIs ==
  ASSUME NEW n \in Nat, NEW start \in Int, NEW stop \in Int
  PROVE  LET first == normalizeIndex(start, n)
             last == normalizeIndex(stop, n)
             lo == IF first < 0 THEN 0 ELSE first
             hi == IF last >= n THEN n - 1 ELSE last
         IN  {i \in 0 .. n - 1 : Between(i, n, start, stop)} = lo .. hi
  BY DEF Between, normalizeIndex

LEMMA MinOfInterval ==
  ASSUME NEW lo \in Int, NEW hi \in Int, lo <= hi
  PROVE  Min(lo .. hi) = lo
  <1>1. \A x \in lo .. hi : (\A y \in lo .. hi : x <= y) <=> x = lo
    OBVIOUS
  <1>2. lo \in lo .. hi
    OBVIOUS
  <1> QED
    BY <1>1, <1>2 DEF Min

(***************************************************************************)
(* LRANGE answers the elements between its bounds.                         *)
(***************************************************************************)
LEMMA RangesAre ==
  ASSUME KeyOK PROVE RangesExact
  <1> SUFFICES ASSUME entry.kind = "list", Live(entry, now),
                      NEW start \in -(Len(entry.list) + 2) .. Len(entry.list) + 2,
                      NEW stop \in -(Len(entry.list) + 2) .. Len(entry.list) + 2
               PROVE  LET n == Len(entry.list)
                          r == LRange(entry, start, stop, now).val
                          in == {i \in 0 .. n - 1 : Between(i, n, start, stop)}
                      IN  /\ r = [j \in 1 .. Cardinality(in) |-> entry.list[Min(in) + j]]
                          /\ start = stop => ToSet(r) = LIndex(entry, start, now).val
    BY DEF RangesExact
  <1> DEFINE l == entry.list
             n == Len(l)
             first == normalizeIndex(start, n)
             last == normalizeIndex(stop, n)
             lo == IF first < 0 THEN 0 ELSE first
             hi == IF last >= n THEN n - 1 ELSE last
             in == {i \in 0 .. n - 1 : Between(i, n, start, stop)}
             r == LRange(entry, start, stop, now).val
  <1>1. l \in Seq(Str) /\ n \in Nat /\ n > 0
    BY DEF KeyOK, Entry, WellFormed
  <1>2. start \in Int /\ stop \in Int /\ first \in Int /\ last \in Int /\ lo \in Nat /\ hi \in Int
        /\ hi < n
    BY <1>1 DEF normalizeIndex
  <1>3. in = lo .. hi
    BY <1>1, <1>2, BetweenIs
  <1>4. r = IF lo > hi THEN <<>> ELSE SubSeq(l, lo + 1, hi + 1)
    BY <1>1 DEF LRange, Read, Answer, Slice
  <1>5. LIndex(entry, start, now).val
          = IF first < 0 \/ first >= n THEN {} ELSE {l[first + 1]}
    BY DEF LIndex, Read, Answer
  <1>6. start = stop => first = last
    OBVIOUS
  <1>7. lo = (IF first < 0 THEN 0 ELSE first) /\ hi = (IF last >= n THEN n - 1 ELSE last)
    OBVIOUS
  <1> HIDE DEF in, r, lo, hi, first, last, n, l
  <1>8. CASE lo > hi
    <2>1. Cardinality(in) = 0 /\ r = <<>>
      BY <1>2, <1>3, <1>4, <1>8, FS_Interval
    <2>2. [j \in 1 .. Cardinality(in) |-> l[Min(in) + j]] = <<>>
      BY <2>1
    <2>3. start = stop => first < 0 \/ first >= n
      BY <1>1, <1>2, <1>6, <1>7, <1>8
    <2>4. ToSet(r) = {}
      BY <2>1 DEF ToSet
    <2> QED
      BY <1>5, <2>1, <2>2, <2>3, <2>4 DEF in, r, n, l
  <1>9. CASE lo <= hi
    <2>1. Cardinality(in) = hi - lo + 1 /\ Min(in) = lo
      BY <1>2, <1>3, <1>9, FS_Interval, MinOfInterval
    <2>2. r = SubSeq(l, lo + 1, hi + 1)
      BY <1>2, <1>4, <1>9
    <2>3. SubSeq(l, lo + 1, hi + 1) = [j \in 1 .. hi - lo + 1 |-> l[lo + j]]
      BY <1>1, <1>2, <1>9 DEF n
    <2>4. ASSUME start = stop PROVE ToSet(r) = LIndex(entry, start, now).val
      <3>1. lo = hi /\ first = lo /\ ~(first < 0) /\ ~(first >= n)
        BY <1>1, <1>2, <1>6, <1>7, <1>9, <2>4
      <3>2. hi - lo + 1 = 1
        BY <1>2, <3>1
      <3>3. r = [j \in 1 .. 1 |-> l[lo + j]]
        BY <2>2, <2>3, <3>2
      <3>4. ToSet(r) = {l[lo + 1]}
        BY <3>3 DEF ToSet
      <3> QED
        BY <1>5, <3>1, <3>4
    <2> QED
      BY <2>1, <2>2, <2>3, <2>4 DEF in, r, n, l
  <1> QED
    BY <1>2, <1>8, <1>9 DEF in, r, n, l

----------------------------------------------------------------------------
(* Rewriting a key *)

Datasets == [Keys -> Entry]

Writes == {m \in Command : m.name # "GET"}

LEMMA ReplayStepType ==
  ASSUME NEW d \in Datasets, NEW m \in Writes, NEW instant \in Int
  PROVE  ReplayStep(d, m, instant) \in Datasets
  <1> SUFFICES ASSUME NEW k \in Keys, m.name # "FLUSHDB", k \in ToSet(m.keys)
               PROVE  Handle(m, 1, d[k], instant).e \in Entry
    BY NoEntryType DEF ReplayStep, Datasets
  <1>1. m.keys \in OneKey \cup SomeKeys
    BY DEF Writes, Command, SetCommand, MSetCommand, StringCommand, KeyCommand, HashCommand,
           ListCommand, FlushCommand
  <1>3. 1 \in 1 .. Len(m.keys) /\ d[k] \in Entry
    BY <1>1, FirstKey DEF Datasets
  <1>4. Handle(m, 1, d[k], instant) \in Result
    BY <1>3, HandleType DEF Writes
  <1> QED
    BY <1>4 DEF Result

\* What Rebuilt computes, step by step.
LEMMA RebuiltDef ==
  ASSUME NEW ms \in Seq(Writes), NEW instant \in Int
  PROVE  \E f \in [0 .. Len(ms) -> Datasets] :
            /\ f[0] = [k \in Keys |-> NoEntry]
            /\ \A i \in 1 .. Len(ms) : f[i] = ReplayStep(f[i - 1], ms[i], instant)
            /\ Rebuilt(ms, instant) = f[Len(ms)]
  <1> DEFINE N == Len(ms)
             none == [k \in Keys |-> NoEntry]
             step == [i \in 1 .. N |-> [d \in Datasets |-> ReplayStep(d, ms[i], instant)]]
             Body(g, i) == IF i = 0 THEN none ELSE ReplayStep(g[i - 1], ms[i], instant)
             after == CHOOSE g : g = [i \in 0 .. N |-> Body(g, i)]
  <1>1. N \in Nat /\ none \in Datasets
    BY NoEntryType DEF Datasets
  <1>2. step \in [1 .. N -> [Datasets -> Datasets]]
    BY ReplayStepType
  <1>3. \A i \in 1 .. N, d \in Datasets : step[i][d] = ReplayStep(d, ms[i], instant)
    OBVIOUS
  <1> HIDE DEF step, N, none
  <1>4. PICK f \in [0 .. N -> Datasets] :
           f[0] = none /\ \A i \in 1 .. N : f[i] = step[i][f[i - 1]]
    <2>1. \E f : Rounds(f, Datasets, none, N, step)
      BY <1>1, <1>2, RoundsExist, Zenon
    <2> QED
      BY <2>1 DEF Rounds
  <1>5. \A i \in 1 .. N : f[i] = ReplayStep(f[i - 1], ms[i], instant)
    BY <1>1, <1>3, <1>4
  <1>6. f = [i \in 0 .. N |-> Body(f, i)]
    BY <1>1, <1>4, <1>5
  <1>7. after = [i \in 0 .. N |-> Body(after, i)]
    BY <1>6
  <1>8. Rebuilt(ms, instant) = after[N]
    BY DEF Rebuilt, N, none
  <1> HIDE DEF after
  <1>9. after[0] = none /\ \A i \in 1 .. N : after[i] = ReplayStep(after[i - 1], ms[i], instant)
    BY <1>1, <1>7
  <1> DEFINE S == {i \in 0 .. N : after[i] = f[i]}
  <1>10. 0 \in S
    BY <1>1, <1>4, <1>9
  <1>11. \A i \in 1 .. N : i - 1 \in S => i \in S
    BY <1>1, <1>5, <1>9
  <1> HIDE DEF S
  <1>12. 0 .. N \subseteq S
    BY <1>1, <1>10, <1>11, Induction
  <1>13. after[N] = f[N]
    BY <1>1, <1>12 DEF S
  <1> QED
    BY <1>4, <1>5, <1>8, <1>13 DEF N, none

\* The value command of a key restores its contents, without a deadline.
LEMMA ValueRebuilt ==
  ASSUME NEW e \in Entry, WellFormed(e), e.kind # "none", NEW k \in Keys, NEW instant \in Int
  PROVE  \E m \in Writes :
            /\ ValueCommands(k, e) = <<m>>
            /\ m.name # "FLUSHDB" /\ m.keys = <<k>>
            /\ Handle(m, 1, NoEntry, instant).e = [e EXCEPT !.expiresAt = Never]
  <1> DEFINE bare == [e EXCEPT !.expiresAt = Never]
  <1>0. /\ bare = [kind |-> e.kind, str |-> e.str, hash |-> e.hash, list |-> e.list,
                   expiresAt |-> Never]
        /\ e.str \in Str /\ e.hash \in Hash /\ e.list \in Seq(Str)
    BY DEF Entry
  <1> HIDE DEF bare
  <1> DEFINE Bare(kind, str, hash, list) ==
               [kind |-> kind, str |-> str, hash |-> hash, list |-> list, expiresAt |-> Never]
  <1>n. /\ \A v \in Str : StringEntry(v, 0, instant) = Bare("string", v, EmptyHash, <<>>)
        /\ \A h : [NewEntry("hash") EXCEPT !.hash = h] = Bare("hash", <<>>, h, <<>>)
        /\ \A l : [NewEntry("list") EXCEPT !.list = l] = Bare("list", <<>>, EmptyHash, l)
    <2>1. \A kind : NewEntry(kind) = Bare(kind, <<>>, EmptyHash, <<>>)
      BY DEF NewEntry, NoEntry
    <2>2. \A x \in Entry : x.expiresAt = Never => x = Bare(x.kind, x.str, x.hash, x.list)
      BY DEF Entry
    <2>3. \A v \in Str : StringEntry(v, 0, instant) = Bare("string", v, EmptyHash, <<>>)
      <3> TAKE v \in Str
      <3> DEFINE x == StringEntry(v, 0, instant)
      <3>1. x \in Entry
        BY StringEntryType
      <3>2. /\ x.kind = "string" /\ x.str = v /\ x.hash = EmptyHash /\ x.list = <<>>
            /\ x.expiresAt = Never
        BY DEF StringEntry, NewEntry, NoEntry
      <3> HIDE DEF x, Bare
      <3>3. x = Bare("string", v, EmptyHash, <<>>)
        BY <2>2, <3>1, <3>2
      <3> QED
        BY <3>3 DEF x
    <2>4. \A h : [NewEntry("hash") EXCEPT !.hash = h] = Bare("hash", <<>>, h, <<>>)
      BY <2>1
    <2>5. \A l : [NewEntry("list") EXCEPT !.list = l] = Bare("list", <<>>, EmptyHash, l)
      BY <2>1
    <2> HIDE DEF Bare
    <2> QED
      BY <2>3, <2>4, <2>5
  <1>1. ~Live(NoEntry, instant) /\ \A kind : /\ LiveOr(NoEntry, kind, instant) = NewEntry(kind)
                                            /\ ~WrongType(NoEntry, kind, instant)
    BY DEF Live, LiveOr, WrongType, NoEntry
  <1>2. CASE e.kind = "string"
    <2> DEFINE m == SetOf(k, e.str)
    <2>1. m \in Writes
      BY <1>0 DEF SetOf, Writes, Command, SetCommand, OneKey
    <2>2. e.hash = EmptyHash /\ e.list = <<>>
      BY <1>2 DEF WellFormed
    <2>3. StringEntry(e.str, 0, instant) = bare
      BY <1>0, <1>2, <1>n, <2>2
    <2>4. Handle(m, 1, NoEntry, instant).e = StringEntry(e.str, 0, instant)
      BY DEF SetOf, Handle, Set, Done
    <2>5. ValueCommands(k, e) = <<m>> /\ m.name # "FLUSHDB" /\ m.keys = <<k>>
      BY <1>2 DEF ValueCommands, SetOf
    <2> HIDE DEF m
    <2> QED
      BY <2>1, <2>3, <2>4, <2>5 DEF bare
  <1>3. CASE e.kind = "hash"
    <2> DEFINE m == [name |-> "HSET", keys |-> <<k>>, pairs |-> e.hash]
               merged == [f \in Fields |-> IF e.hash[f] # {} THEN e.hash[f]
                                           ELSE NewEntry("hash").hash[f]]
    <2>1. e.hash # EmptyHash /\ e.str = <<>> /\ e.list = <<>>
      BY <1>3 DEF WellFormed
    <2>2. m \in Writes
      BY <1>0, <2>1 DEF Writes, Command, HashCommand, OneKey
    <2>3. merged = e.hash
      BY <1>0 DEF Hash, NewEntry, NoEntry, EmptyHash
    <2>4. Handle(m, 1, NoEntry, instant).e = [NewEntry("hash") EXCEPT !.hash = merged]
      BY <1>1 DEF Handle, HSet, Done
    <2>5. [NewEntry("hash") EXCEPT !.hash = e.hash] = bare
      BY <1>0, <1>3, <1>n, <2>1
    <2>6. ValueCommands(k, e) = <<m>> /\ m.name # "FLUSHDB" /\ m.keys = <<k>>
      BY <1>3, <2>1 DEF ValueCommands
    <2> HIDE DEF m, merged
    <2> QED
      BY <2>2, <2>3, <2>4, <2>5, <2>6 DEF bare
  <1>4. CASE e.kind = "list"
    <2> DEFINE m == [name |-> "RPUSH", keys |-> <<k>>, vals |-> e.list]
    <2>1. e.list # <<>> /\ e.str = <<>> /\ e.hash = EmptyHash
      BY <1>4 DEF WellFormed
    <2>2. m \in Writes
      BY <1>0, <2>1 DEF Writes, Command, ListCommand, OneKey, SomeVals
    <2>3. Handle(m, 1, NoEntry, instant).e
            = [NewEntry("list") EXCEPT !.list = NewEntry("list").list \o e.list]
      BY <1>1 DEF Handle, RPush, Done
    <2>4. NewEntry("list").list \o e.list = e.list
      BY <1>0 DEF NewEntry, NoEntry
    <2>5. [NewEntry("list") EXCEPT !.list = e.list] = bare
      BY <1>0, <1>4, <1>n, <2>1
    <2>6. ValueCommands(k, e) = <<m>> /\ m.name # "FLUSHDB" /\ m.keys = <<k>>
      BY <1>4, <2>1 DEF ValueCommands
    <2> HIDE DEF m
    <2> QED
      BY <2>2, <2>3, <2>4, <2>5, <2>6 DEF bare
  <1> QED
    BY <1>2, <1>3, <1>4 DEF Entry, Kinds

LEMMA TwoTuple ==
  ASSUME NEW S, NEW x \in S, NEW y \in S PROVE <<x>> \o <<y>> = <<x, y>>
  <1>1. <<x>> \in Seq(S) /\ <<y>> \in Seq(S) /\ <<x, y>> \in Seq(S)
    OBVIOUS
  <1>2. Len(<<x>> \o <<y>>) = 2 /\ Len(<<x, y>>) = 2
    OBVIOUS
  <1>3. (<<x>> \o <<y>>)[1] = x /\ (<<x>> \o <<y>>)[2] = y
    OBVIOUS
  <1>4. \A i \in 1 .. 2 : (<<x>> \o <<y>>)[i] = <<x, y>>[i]
    BY <1>3
  <1> DEFINE s == <<x>> \o <<y>>
             t == <<x, y>>
  <1>5. s \in Seq(S) /\ t \in Seq(S) /\ Len(s) = Len(t) /\ \A i \in 1 .. Len(s) : s[i] = t[i]
    BY <1>1, <1>2, <1>4
  <1> HIDE DEF s, t
  <1>6. s = t
    BY <1>5, SeqEqual
  <1> QED
    BY <1>6 DEF s, t

\* What PEXPIRE restores of a deadline t: all but a fraction of a millisecond.
LEMMA DeadlineRebuilt ==
  ASSUME NEW t \in Int, NEW instant \in Int, t - instant >= Milli
  PROVE  /\ msUntil(t, instant) \in Nat /\ msUntil(t, instant) # 0
         /\ t - Milli < instant + msUntil(t, instant) * Milli
         /\ instant + msUntil(t, instant) * Milli <= t
  BY DEF msUntil, Milli

(***************************************************************************)
(* A rewritten key is the same key.                                        *)
(***************************************************************************)
LEMMA SnapshotIsKey ==
  ASSUME KeyOK PROVE SnapshotRebuilds
  <1> SUFFICES ASSUME NEW k \in Keys, NEW later \in now .. now + Milli
               PROVE  LET rebuilt == Rebuilt(Rewritten(k, entry, now, later), later)[k]
                      IN  IF ~Live(entry, now) THEN rebuilt = NoEntry
                          ELSE /\ [rebuilt EXCEPT !.expiresAt = Never]
                                    = [entry EXCEPT !.expiresAt = Never]
                               /\ entry.expiresAt = Never => rebuilt.expiresAt = Never
                               /\ \A t \in entry.expiresAt :
                                     t - later >= Milli =>
                                       \E u \in rebuilt.expiresAt : t - Milli < u /\ u <= t
    BY DEF SnapshotRebuilds
  <1>0. /\ entry \in Entry /\ WellFormed(entry) /\ later \in Int
        /\ entry.expiresAt \in SUBSET Int /\ \A t, u \in entry.expiresAt : t = u
    BY DEF KeyOK, Single, Entry, Milli
  <1> DEFINE ms == Rewritten(k, entry, now, later)
             bare == [entry EXCEPT !.expiresAt = Never]
             none == [x \in Keys |-> NoEntry]
  <1>1. CASE ~Live(entry, now)
    <2>1. ms = <<>> /\ ms \in Seq(Writes) /\ Len(ms) = 0
      BY <1>1 DEF Rewritten
    <2> HIDE DEF ms
    <2>2. PICK f \in [0 .. Len(ms) -> Datasets] : f[0] = none /\ Rebuilt(ms, later) = f[Len(ms)]
      <3>1. later \in Int /\ ms \in Seq(Writes)
        BY <1>0, <2>1
      <3> QED
        BY <3>1, RebuiltDef
    <2>3. Rebuilt(ms, later)[k] = NoEntry
      BY <2>1, <2>2
    <2> QED
      BY <1>1, <2>3 DEF ms
  <1>2. CASE Live(entry, now)
    <2>1. entry.kind # "none"
      BY <1>2 DEF Live
    <2>2. PICK m \in Writes :
             /\ ValueCommands(k, entry) = <<m>>
             /\ m.name # "FLUSHDB" /\ m.keys = <<k>>
             /\ Handle(m, 1, NoEntry, later).e = bare
      BY <1>0, <2>1, ValueRebuilt
    <2>3. bare \in Entry /\ bare.expiresAt = Never /\ bare.kind = entry.kind
      BY <1>0 DEF Entry, Never
    <2>4. ms = <<m>> \o DeadlineCommands(k, entry, later)
      BY <1>2, <2>2 DEF Rewritten, snapshotCommands
    <2>5. ReplayStep(none, m, later)[k] = bare
      BY <2>2 DEF ReplayStep, ToSet
    <2> HIDE DEF none, bare
    <2> DEFINE until == {msUntil(t, later) : t \in entry.expiresAt}
    <2>6. CASE until \subseteq {0}
      <3>1. DeadlineCommands(k, entry, later) = <<>>
        BY <2>6 DEF DeadlineCommands
      <3>2. ms = <<m>> /\ ms \in Seq(Writes) /\ Len(ms) = 1 /\ ms[1] = m
        BY <2>4, <3>1
      <3> HIDE DEF ms
      <3>3. PICK f \in [0 .. 1 -> Datasets] :
              /\ f[0] = none
              /\ \A i \in 1 .. 1 : f[i] = ReplayStep(f[i - 1], ms[i], later)
              /\ Rebuilt(ms, later) = f[1]
        BY <1>0, <3>2, RebuiltDef DEF none
      <3>4. Rebuilt(ms, later)[k] = bare
        BY <2>5, <3>2, <3>3
      <3>5. [bare EXCEPT !.expiresAt = Never] = bare
        BY <2>3 DEF Entry
      <3>6. \A t \in entry.expiresAt : ~(t - later >= Milli)
        <4> SUFFICES ASSUME NEW t \in entry.expiresAt, t - later >= Milli PROVE FALSE
          OBVIOUS
        <4>1. msUntil(t, later) \in until
          OBVIOUS
        <4>2. msUntil(t, later) # 0
          BY <1>0, DeadlineRebuilt
        <4> QED
          BY <2>6, <4>1, <4>2
      <3> QED
        BY <1>2, <2>3, <3>4, <3>5, <3>6 DEF ms, bare
    <2>7. CASE ~(until \subseteq {0})
      <3>1. PICK t \in entry.expiresAt : entry.expiresAt = {t} /\ t \in Int
        BY <1>0, <2>7
      <3> DEFINE w == msUntil(t, later)
                 ttl == w * Milli
                 x == PExpire(k, w)
                 full == [bare EXCEPT !.expiresAt = {later + ttl}]
      <3>2. until = {w} /\ w # 0
        BY <2>7, <3>1
      <3>3. (CHOOSE n \in until : TRUE) = w
        BY <3>2
      <3>4. DeadlineCommands(k, entry, later) = <<x>>
        <4>1. DeadlineCommands(k, entry, later)
                = IF ValueCommands(k, entry) = <<>> \/ until \subseteq {0} THEN <<>>
                  ELSE <<PExpire(k, CHOOSE n \in until : TRUE)>>
          BY DEF DeadlineCommands
        <4>2. ValueCommands(k, entry) # <<>>
          BY <2>2
        <4> HIDE DEF until, w
        <4> QED
          BY <2>7, <3>3, <4>1, <4>2
      <3>5. w \in Nat
        BY <1>0, <3>1 DEF msUntil, Milli
      <3>6. x \in Writes /\ x.name = "EXPIRE" /\ x.keys = <<k>> /\ x.ttl = ttl
        BY <3>5 DEF PExpire, Writes, Command, KeyCommand, OneKey, Milli
      <3>7. Handle(x, 1, bare, later).e = full
        <4> HIDE DEF x, ttl
        <4>1. Handle(x, 1, bare, later) = Expire(bare, ttl, later)
          BY <3>6 DEF Handle
        <4>2. Live(bare, later)
          BY <2>1, <2>3 DEF Live, expired, Never
        <4> QED
          BY <4>1, <4>2 DEF Expire, Done
      <3>8. full.expiresAt = {later + ttl} /\ [full EXCEPT !.expiresAt = Never] = bare
        BY <2>3 DEF Entry
      <3> HIDE DEF w, x, full, until, ttl
      <3>9. ms = <<m, x>> /\ ms \in Seq(Writes) /\ Len(ms) = 2 /\ ms[1] = m /\ ms[2] = x
        <4> HIDE DEF ms
        <4>1. <<m>> \o <<x>> = <<m, x>> /\ x \in Writes
          BY <3>6, TwoTuple
        <4>2. ms = <<m, x>>
          BY <2>4, <3>4, <4>1
        <4> QED
          BY <4>1, <4>2
      <3> HIDE DEF ms
      <3>10. PICK f \in [0 .. 2 -> Datasets] :
              /\ f[0] = none
              /\ \A i \in 1 .. 2 : f[i] = ReplayStep(f[i - 1], ms[i], later)
              /\ Rebuilt(ms, later) = f[2]
        BY <1>0, <3>9, RebuiltDef DEF none
      <3>11. f[1][k] = bare /\ Rebuilt(ms, later) = ReplayStep(f[1], x, later)
        BY <2>5, <3>9, <3>10
      <3>12. Rebuilt(ms, later)[k] = full
        BY <3>6, <3>7, <3>11 DEF ReplayStep, ToSet
      <3>13. t - later >= Milli => t - Milli < later + ttl /\ later + ttl <= t
        BY <1>0, <3>1, DeadlineRebuilt DEF w, ttl
      <3> QED
        BY <1>2, <3>1, <3>8, <3>12, <3>13 DEF ms, bare, Never
    <2> QED
      BY <2>6, <2>7
  <1> QED
    BY <1>1, <1>2

----------------------------------------------------------------------------
(* Numbers *)

Bytes == Seq(Int)

\* The recursive definition of Digits has a solution.
LEMMA DigitsDef ==
  ASSUME NEW n \in Nat
  PROVE  Digits[n] = IF n < 10 THEN <<Digit0 + n>>
                     ELSE Digits[n \div 10] \o <<Digit0 + (n % 10)>>
  <1> DEFINE Body(g, m) == IF m < 10 THEN <<Digit0 + m>> ELSE g[m \div 10] \o <<Digit0 + (m % 10)>>
             base == [m \in Nat |-> <<Digit0 + m>>]
             down == [m \in Nat |-> IF m < 10 THEN m ELSE m \div 10]
             step == [m \in Nat |-> [v \in Bytes |-> v \o <<Digit0 + (m % 10)>>]]
  <1>1. base \in [Nat -> Bytes] /\ \A m \in Nat : base[m] = <<Digit0 + m>>
    BY DEF Bytes, Digit0
  <1>2. /\ down \in [Nat -> Nat]
        /\ \A m \in Nat : IF m < 10 THEN ~(down[m] < m)
                          ELSE down[m] < m /\ down[m] = m \div 10
    OBVIOUS
  <1>3. step \in [Nat -> [Bytes -> Bytes]]
    <2>1. \A m \in Nat : <<Digit0 + (m % 10)>> \in Bytes
      BY DEF Bytes, Digit0
    <2>2. \A m \in Nat : \A v \in Bytes : v \o <<Digit0 + (m % 10)>> \in Bytes
      BY <2>1 DEF Bytes
    <2> QED
      BY <2>2
  <1>4. \A m \in Nat, v \in Bytes : step[m][v] = v \o <<Digit0 + (m % 10)>>
    OBVIOUS
  <1> HIDE DEF base, down, step
  <1>5. PICK f \in [Nat -> Bytes] : \A m \in Nat :
            f[m] = IF down[m] < m THEN step[m][f[down[m]]] ELSE base[m]
    <2>1. \E f : Descends(f, Bytes, base, down, step)
      BY <1>1, <1>2, <1>3, DescentExists, Zenon
    <2> QED
      BY <2>1 DEF Descends
  <1>6. \A m \in Nat : f[m] = Body(f, m)
    <2> TAKE m \in Nat
    <2>1. CASE m < 10
      BY <1>1, <1>2, <1>5, <2>1
    <2>2. CASE ~(m < 10)
      <3>1. down[m] < m /\ down[m] = m \div 10 /\ down[m] \in Nat /\ f[down[m]] \in Bytes
        BY <1>2, <1>5, <2>2
      <3>2. f[m] = f[down[m]] \o <<Digit0 + (m % 10)>>
        BY <1>4, <1>5, <3>1
      <3> QED
        BY <2>2, <3>1, <3>2
    <2> QED
      BY <2>1, <2>2
  <1> HIDE DEF Body
  <1>7. f = [m \in Nat |-> Body(f, m)]
    BY <1>6
  <1>8. Digits = CHOOSE g : g = [m \in Nat |-> Body(g, m)]
    BY DEF Digits, Body
  <1>9. Digits = [m \in Nat |-> Body(Digits, m)]
    BY <1>7, <1>8
  <1>10. Digits[n] = Body(Digits, n)
    BY <1>9
  <1> QED
    BY <1>10 DEF Body

Numeral == Seq(Digit0 .. Digit0 + 9)

\* Value, step by step.
LEMMA ValueDef ==
  ASSUME NEW s \in Numeral
  PROVE  \E f \in [0 .. Len(s) -> Int] :
            /\ f[0] = 0 /\ \A i \in 1 .. Len(s) : f[i] = 10 * f[i - 1] + (s[i] - Digit0)
            /\ Value(s) = f[Len(s)]
  <1> DEFINE N == Len(s)
             step == [i \in 1 .. N |-> [v \in Int |-> 10 * v + (s[i] - Digit0)]]
             Body(g, i) == IF i = 0 THEN 0 ELSE 10 * g[i - 1] + (s[i] - Digit0)
             upto == CHOOSE g : g = [i \in 0 .. N |-> Body(g, i)]
  <1>1. N \in Nat /\ \A i \in 1 .. N : s[i] - Digit0 \in Int
    BY DEF Numeral, Digit0
  <1>2. step \in [1 .. N -> [Int -> Int]]
    BY <1>1
  <1>3. \A i \in 1 .. N, v \in Int : step[i][v] = 10 * v + (s[i] - Digit0)
    OBVIOUS
  <1>4. Value(s) = upto[N]
    BY Zenon DEF Value
  <1> HIDE DEF step, N
  <1>5. PICK f \in [0 .. N -> Int] : f[0] = 0 /\ \A i \in 1 .. N : f[i] = step[i][f[i - 1]]
    <2>1. \E f : Rounds(f, Int, 0, N, step)
      <3>1. 0 \in Int
        OBVIOUS
      <3> QED
        BY <1>1, <1>2, <3>1, RoundsExist, Zenon
    <2> QED
      BY <2>1 DEF Rounds
  <1>6. \A i \in 1 .. N : f[i] = 10 * f[i - 1] + (s[i] - Digit0)
    <2> TAKE i \in 1 .. N
    <2>1. i - 1 \in 0 .. N
      BY <1>1
    <2>2. f[i - 1] \in Int
      BY <1>5, <2>1
    <2> QED
      BY <1>3, <1>5, <2>2
  <1>7. f = [i \in 0 .. N |-> Body(f, i)]
    BY <1>1, <1>5, <1>6
  <1>8. upto = [i \in 0 .. N |-> Body(upto, i)]
    BY <1>7
  <1> HIDE DEF upto
  <1>9. upto[0] = 0 /\ \A i \in 1 .. N : upto[i] = 10 * upto[i - 1] + (s[i] - Digit0)
    BY <1>1, <1>8
  <1> DEFINE S == {i \in 0 .. N : upto[i] = f[i]}
  <1>10. 0 \in S
    BY <1>1, <1>5, <1>9
  <1>11. \A i \in 1 .. N : i - 1 \in S => i \in S
    BY <1>1, <1>6, <1>9
  <1> HIDE DEF S
  <1>12. 0 .. N \subseteq S
    BY <1>1, <1>10, <1>11, Induction
  <1>13. upto[N] = f[N]
    BY <1>1, <1>12 DEF S
  <1> QED
    BY <1>4, <1>5, <1>6, <1>13 DEF N

\* One more digit.
LEMMA ValueAppend ==
  ASSUME NEW s \in Numeral, NEW d \in Digit0 .. Digit0 + 9
  PROVE  Value(s \o <<d>>) = 10 * Value(s) + (d - Digit0)
  <1> DEFINE t == s \o <<d>>
             N == Len(s)
  <1>1. t \in Numeral /\ Len(t) = N + 1 /\ N \in Nat /\ t[N + 1] = d /\ \A i \in 1 .. N : t[i] = s[i]
    BY DEF Numeral, Digit0
  <1> HIDE DEF t, N
  <1>2. PICK f \in [0 .. N -> Int] :
            /\ f[0] = 0 /\ \A i \in 1 .. N : f[i] = 10 * f[i - 1] + (s[i] - Digit0)
            /\ Value(s) = f[N]
    BY ValueDef DEF N
  <1>3. PICK g \in [0 .. N + 1 -> Int] :
            /\ g[0] = 0 /\ \A i \in 1 .. N + 1 : g[i] = 10 * g[i - 1] + (t[i] - Digit0)
            /\ Value(t) = g[N + 1]
    BY <1>1, ValueDef
  <1> DEFINE S == {i \in 0 .. N : f[i] = g[i]}
  <1>4. 0 \in S
    BY <1>1, <1>2, <1>3
  <1>5. ASSUME NEW i \in 1 .. N, i - 1 \in S PROVE i \in S
    <2>1. i \in 1 .. N + 1 /\ i \in 0 .. N /\ f[i - 1] = g[i - 1]
      BY <1>1, <1>5
    <2> QED
      BY <1>1, <1>2, <1>3, <2>1
  <1> HIDE DEF S
  <1>6. 0 .. N \subseteq S
    BY <1>1, <1>4, <1>5, Induction
  <1>7. f[N] = g[N]
    BY <1>1, <1>6 DEF S
  <1>8. g[N + 1] = 10 * g[(N + 1) - 1] + (t[N + 1] - Digit0) /\ (N + 1) - 1 = N
    <2>1. N + 1 \in 1 .. N + 1 /\ (N + 1) - 1 = N
      BY <1>1
    <2> QED
      BY <1>3, <2>1
  <1> QED
    BY <1>1, <1>2, <1>3, <1>7, <1>8 DEF t

\* What is written as a number is read as that number.
LEMMA DigitsValue ==
  ASSUME NEW n \in Nat
  PROVE  Digits[n] \in Numeral /\ Digits[n] # <<>> /\ Value(Digits[n]) = n
  <1> DEFINE Good(m) == Digits[m] \in Numeral /\ Digits[m] # <<>> /\ Value(Digits[m]) = m
             T == {m \in Nat : ~Good(m)}
  <1> HIDE DEF Good
  <1> SUFFICES ASSUME T # {} PROVE FALSE
    BY DEF Good
  <1>1. PICK m \in T : \A k \in T : m <= k
    BY LeastNumber, Zenon
  <1>2. m \in Nat /\ ~Good(m)
    BY <1>1
  <1>3. CASE m < 10
    <2>1. Digits[m] = <<Digit0 + m>> /\ Digit0 + m \in Digit0 .. Digit0 + 9
      <3>1. Digits[m] = IF m < 10 THEN <<Digit0 + m>>
                        ELSE Digits[m \div 10] \o <<Digit0 + (m % 10)>>
        BY <1>2, DigitsDef
      <3> QED
        BY <1>2, <1>3, <3>1 DEF Digit0
    <2>2. <<>> \in Numeral /\ Value(<<>>) = 0
      <3>1. <<>> \in Numeral /\ Len(<<>>) = 0
        BY DEF Numeral
      <3> QED
        BY <3>1, ValueDef
    <2> DEFINE d == Digit0 + m
               nil == <<>>
    <2>3. nil \o <<d>> = <<d>> /\ d - Digit0 = m
      BY <1>2 DEF Digit0
    <2>4. d \in Digit0 .. Digit0 + 9 /\ nil \in Numeral /\ Value(nil) = 0
      BY <2>1, <2>2
    <2> HIDE DEF d, nil
    <2>a. Value(nil \o <<d>>) = 10 * Value(nil) + (d - Digit0)
      BY <2>4, ValueAppend
    <2>b. Value(<<d>>) = m
      <3>1. Value(<<d>>) = 10 * 0 + m
        BY <2>3, <2>4, <2>a, Zenon
      <3> QED
        BY <1>2, <3>1
    <2>5. Value(<<Digit0 + m>>) = m
      BY <2>b DEF d
    <2>6. <<Digit0 + m>> \in Numeral /\ <<Digit0 + m>> # <<>>
      BY <2>1 DEF Numeral
    <2> QED
      BY <1>2, <2>1, <2>5, <2>6 DEF Good
  <1>4. CASE ~(m < 10)
    <2> DEFINE q == m \div 10
               r == m % 10
    <2>1. q \in Nat /\ q < m /\ r \in 0 .. 9 /\ 10 * q + r = m
      BY <1>2, <1>4
    <2> HIDE DEF q, r
    <2>2. Good(q)
      BY <1>1, <1>2, <2>1
    <2>3. Digits[m] = Digits[q] \o <<Digit0 + r>>
      BY <1>2, <1>4, DigitsDef DEF q, r
    <2> DEFINE s == Digits[q]
               d == Digit0 + r
    <2>4. s \in Numeral /\ Value(s) = q /\ d \in Digit0 .. Digit0 + 9 /\ d - Digit0 = r
      BY <2>1, <2>2 DEF Good, Digit0
    <2> HIDE DEF s, d
    <2>5. Value(s \o <<d>>) = 10 * q + r
      BY <2>4, ValueAppend
    <2>6. s \o <<d>> \in Numeral /\ s \o <<d>> # <<>>
      BY <2>4 DEF Numeral
    <2> QED
      BY <1>2, <2>1, <2>3, <2>5, <2>6 DEF Good, s, d
  <1> QED
    BY <1>3, <1>4

----------------------------------------------------------------------------
(* Strings of bytes and their beginnings *)

LEMMA Joined ==
  ASSUME NEW s \in Bytes, NEW t \in Bytes
  PROVE  /\ s \o t \in Bytes
         /\ Len(s \o t) = Len(s) + Len(t)
         /\ \A i \in 1 .. Len(s) : (s \o t)[i] = s[i]
         /\ \A i \in 1 .. Len(t) : (s \o t)[Len(s) + i] = t[i]
  BY ConcatParts DEF Bytes

LEMMA JoinedThree ==
  ASSUME NEW s \in Bytes, NEW t \in Bytes, NEW u \in Bytes
  PROVE  (s \o t) \o u = s \o (t \o u)
  BY ConcatAssociative DEF Bytes

LEMMA SameBytes ==
  ASSUME NEW s \in Bytes, NEW t \in Bytes,
         Len(s) = Len(t), \A i \in 1 .. Len(s) : s[i] = t[i]
  PROVE  s = t
  BY SeqEqual DEF Bytes

LEMMA BytesAre ==
  /\ <<>> \in Bytes /\ Len(<<>>) = 0
  /\ \A s \in Bytes : Len(s) \in Nat /\ DOMAIN s = 1 .. Len(s) /\ \A i \in 1 .. Len(s) : s[i] \in Int
  /\ \A s \in Bytes : Len(s) = 0 <=> s = <<>>
  /\ \A c \in Int : <<c>> \in Bytes /\ Len(<<c>>) = 1 /\ <<c>>[1] = c
  /\ \A c, d \in Int : <<c, d>> \in Bytes /\ Len(<<c, d>>) = 2 /\ <<c, d>>[1] = c /\ <<c, d>>[2] = d
  BY DEF Bytes

LEMMA JoinedEmpty ==
  ASSUME NEW s \in Bytes
  PROVE  s \o <<>> = s /\ <<>> \o s = s
  BY ConcatEmptySeq DEF Bytes

\* A string is taken apart where it was joined.
LEMMA Unjoined ==
  ASSUME NEW s \in Bytes, NEW t \in Bytes
  PROVE  SubSeq(s \o t, 1, Len(s)) = s /\ SubSeq(s \o t, Len(s) + 1, Len(s \o t)) = t
  <1> DEFINE b == s \o t
             n == Len(s)
             m == Len(t)
  <1>1. b \in Bytes /\ n \in Nat /\ m \in Nat /\ Len(b) = n + m
        /\ (\A i \in 1 .. n : b[i] = s[i]) /\ (\A i \in 1 .. m : b[n + i] = t[i])
    BY Joined, BytesAre
  <1> HIDE DEF b
  <1>2. \A i \in 1 .. n + m : b[i] \in Int
    BY <1>1, BytesAre
  <1> DEFINE u == SubSeq(b, 1, n)
             v == SubSeq(b, n + 1, n + m)
  <1>3. u \in Bytes /\ Len(u) = n /\ \A i \in 1 .. n : u[i] = b[i]
    BY <1>1, <1>2 DEF Bytes
  <1>4. v \in Bytes /\ Len(v) = m /\ \A i \in 1 .. m : v[i] = b[n + i]
    BY <1>1, <1>2 DEF Bytes
  <1> HIDE DEF u, v
  <1>5. u = s
    BY <1>1, <1>3, SameBytes
  <1>6. v = t
    BY <1>1, <1>4, SameBytes
  <1> QED
    BY <1>1, <1>5, <1>6 DEF u, v, b

LEMMA Tails ==
  ASSUME NEW c \in Int, NEW s \in Bytes
  PROVE  /\ <<c>> \o s \in Bytes /\ Len(<<c>> \o s) = Len(s) + 1
         /\ <<c>> \o s # <<>> /\ (<<c>> \o s)[1] = c /\ Tail(<<c>> \o s) = s
  <1> DEFINE h == <<c>>
             b == h \o s
  <1>1. h \in Bytes /\ Len(h) = 1 /\ h[1] = c /\ Len(s) \in Nat
    BY BytesAre
  <1> HIDE DEF h
  <1>2. b \in Bytes /\ Len(b) = Len(s) + 1 /\ b[1] = c
    <2>1. b \in Bytes /\ Len(b) = Len(h) + Len(s) /\ \A i \in 1 .. Len(h) : b[i] = h[i]
      BY <1>1, Joined
    <2> HIDE DEF b
    <2> QED
      BY <1>1, <2>1
  <1>3. SubSeq(b, 2, Len(b)) = s
    <2>1. SubSeq(b, Len(h) + 1, Len(b)) = s
      BY <1>1, Unjoined
    <2>2. Len(h) + 1 = 2
      BY <1>1
    <2> QED
      BY <2>1, <2>2, Zenon
  <1> HIDE DEF b
  <1>4. b # <<>> /\ Tail(b) = SubSeq(b, 2, Len(b))
    <2>1. b # <<>>
      BY <1>1, <1>2, BytesAre
    <2> QED
      BY <1>2, <2>1, TailIsSubSeq DEF Bytes
  <1> QED
    BY <1>2, <1>3, <1>4 DEF b, h

\* What is left of a string that was cut before its end.
Parts(b) == {SubSeq(b, 1, n) : n \in 0 .. Len(b) - 1}

LEMMA PartIs ==
  ASSUME NEW b \in Bytes, NEW p \in Parts(b)
  PROVE  p \in Bytes /\ Len(p) < Len(b) /\ \A i \in 1 .. Len(p) : p[i] = b[i]
  <1>1. PICK n \in 0 .. Len(b) - 1 : p = SubSeq(b, 1, n)
    BY DEF Parts
  <1>2. Len(b) \in Nat /\ \A i \in 1 .. n : b[i] \in Int
    BY BytesAre
  <1>3. p \in Bytes /\ Len(p) = n /\ \A i \in 1 .. n : p[i] = b[i]
    BY <1>1, <1>2 DEF Bytes
  <1> QED
    BY <1>2, <1>3

LEMMA PartAt ==
  ASSUME NEW b \in Bytes, NEW p \in Bytes, Len(p) < Len(b), \A i \in 1 .. Len(p) : p[i] = b[i]
  PROVE  p \in Parts(b)
  <1> DEFINE n == Len(p)
             q == SubSeq(b, 1, n)
  <1>1. n \in Nat /\ Len(b) \in Nat /\ n \in 0 .. Len(b) - 1 /\ \A i \in 1 .. n : b[i] \in Int
    BY BytesAre
  <1>2. q \in Bytes /\ Len(q) = n /\ \A i \in 1 .. n : q[i] = b[i]
    BY <1>1 DEF Bytes
  <1>3. q \in Parts(b)
    BY <1>1 DEF Parts
  <1> HIDE DEF q
  <1>4. q = p
    BY <1>1, <1>2, SameBytes
  <1> QED
    BY <1>3, <1>4

\* A cut in a joined string is in its first part or in its second.
LEMMA PartOfJoin ==
  ASSUME NEW s \in Bytes, NEW t \in Bytes, NEW p \in Parts(s \o t)
  PROVE  p \in Parts(s) \/ \E q \in Parts(t) : p = s \o q
  <1> DEFINE b == s \o t
             n == Len(p)
  <1>1. /\ b \in Bytes /\ Len(s) \in Nat /\ Len(t) \in Nat /\ Len(b) = Len(s) + Len(t)
        /\ \A i \in 1 .. Len(s) : b[i] = s[i]
        /\ \A i \in 1 .. Len(t) : b[Len(s) + i] = t[i]
    BY Joined, BytesAre
  <1>2. p \in Bytes /\ n \in Nat /\ n < Len(b) /\ \A i \in 1 .. n : p[i] = b[i]
    BY <1>1, PartIs, BytesAre
  <1> HIDE DEF b, n
  <1>3. CASE n < Len(s)
    <2>1. \A i \in 1 .. n : p[i] = s[i]
      BY <1>1, <1>2, <1>3
    <2> QED
      BY <1>2, <1>3, <2>1, PartAt DEF n
  <1>4. CASE ~(n < Len(s))
    <2> DEFINE m == n - Len(s)
               q == SubSeq(t, 1, m)
    <2>1. m \in 0 .. Len(t) - 1 /\ m \in Nat /\ m + Len(s) = n
      BY <1>1, <1>2, <1>4
    <2>2. q \in Parts(t)
      BY <2>1 DEF Parts
    <2>3. q \in Bytes /\ Len(q) = m /\ \A i \in 1 .. m : q[i] = t[i]
      <3>1. \A i \in 1 .. m : t[i] \in Int
        BY <1>1, <2>1, BytesAre
      <3> QED
        BY <2>1, <3>1 DEF Bytes
    <2> HIDE DEF m, q
    <2> DEFINE r == s \o q
    <2>4. /\ r \in Bytes /\ Len(r) = n
          /\ \A i \in 1 .. Len(s) : r[i] = s[i]
          /\ \A i \in 1 .. m : r[Len(s) + i] = q[i]
      <3>1. /\ r \in Bytes /\ Len(r) = Len(s) + Len(q)
            /\ \A i \in 1 .. Len(s) : r[i] = s[i]
            /\ \A i \in 1 .. Len(q) : r[Len(s) + i] = q[i]
        BY <2>3, Joined
      <3> HIDE DEF r
      <3> QED
        BY <1>1, <2>1, <2>3, <3>1
    <2> HIDE DEF r
    <2>5. ASSUME NEW i \in 1 .. n PROVE p[i] = r[i]
      <3>1. CASE i <= Len(s)
        BY <1>1, <1>2, <2>4, <3>1
      <3>2. CASE ~(i <= Len(s))
        <4> DEFINE j == i - Len(s)
        <4>1. j \in 1 .. m /\ j \in 1 .. Len(t) /\ i = Len(s) + j
          BY <1>1, <1>2, <2>1, <3>2
        <4> HIDE DEF j
        <4>2. b[i] = t[j] /\ r[i] = q[j] /\ q[j] = t[j]
          BY <1>1, <2>3, <2>4, <4>1
        <4> QED
          BY <1>2, <4>2
      <3> QED
        BY <3>1, <3>2
    <2>6. p = r
      BY <1>2, <2>4, <2>5, SameBytes DEF n
    <2> QED
      BY <2>2, <2>6 DEF r
  <1> QED
    BY <1>3, <1>4

LEMMA LeastOf ==
  ASSUME NEW S \in SUBSET Int, NEW m \in S, \A x \in S : m <= x
  PROVE  Min(S) = m
  <1>1. Min(S) \in S /\ \A x \in S : Min(S) <= x
    BY DEF Min
  <1> DEFINE x == Min(S)
  <1>2. m \in Int /\ x \in Int /\ x <= m /\ m <= x
    BY <1>1
  <1> HIDE DEF x
  <1>3. x = m
    BY <1>2
  <1> QED
    BY <1>3 DEF x

LEMMA GreatestOf ==
  ASSUME NEW S \in SUBSET Int, NEW m \in S, \A x \in S : m >= x
  PROVE  Max(S) = m
  <1>1. Max(S) \in S /\ \A x \in S : Max(S) >= x
    BY DEF Max
  <1> DEFINE x == Max(S)
  <1>2. m \in Int /\ x \in Int /\ x >= m /\ m >= x
    BY <1>1
  <1> HIDE DEF x
  <1>3. x = m
    BY <1>2
  <1> QED
    BY <1>3 DEF x

----------------------------------------------------------------------------
(* Lines and numbers *)

Plain(s) == s \in Bytes /\ \A i \in 1 .. Len(s) : s[i] \notin {CR, LF}

Ends == {CRLF, <<LF>>}

LEMMA EndIs ==
  ASSUME NEW end \in Ends
  PROVE  /\ end \in Bytes /\ Len(end) \in Nat /\ Len(end) >= 1 /\ end[Len(end)] = LF
         /\ \A i \in 1 .. Len(end) : end[i] \in {CR, LF} /\ (i < Len(end) => end[i] # LF)
  <1>1. CASE end = CRLF
    <2>1. end \in Bytes /\ Len(end) = 2 /\ end[1] = CR /\ end[2] = LF /\ CR # LF
      BY <1>1, BytesAre DEF CRLF, CR, LF
    <2> QED
      BY <2>1
  <1>2. CASE end = <<LF>>
    <2>1. end \in Bytes /\ Len(end) = 1 /\ end[1] = LF
      BY <1>2, BytesAre DEF LF
    <2> QED
      BY <2>1
  <1> QED
    BY <1>1, <1>2 DEF Ends

\* A line is read without the bytes that end it, whichever they are.
LEMMA LineRead ==
  ASSUME NEW s, Plain(s), NEW end \in Ends, NEW rest \in Bytes
  PROVE  readLine((s \o end) \o rest) = Got(s, rest)
  <1> DEFINE u == s \o end
             b == u \o rest
             n == Len(u)
             k == Len(s)
             m == Len(end)
  <1>0. s \in Bytes /\ k \in Nat /\ \A i \in 1 .. k : s[i] \notin {CR, LF}
    BY BytesAre DEF Plain
  <1>1. end \in Bytes /\ m \in Nat /\ m >= 1 /\ end[m] = LF
        /\ \A i \in 1 .. m : end[i] \in {CR, LF} /\ (i < m => end[i] # LF)
    BY EndIs
  <1>2. u \in Bytes /\ n = k + m /\ (\A i \in 1 .. k : u[i] = s[i])
        /\ (\A i \in 1 .. m : u[k + i] = end[i])
    BY <1>0, <1>1, Joined
  <1>3. SubSeq(u, 1, k) = s
    BY <1>0, <1>1, Unjoined
  <1> HIDE DEF u, k, m
  <1>4. b \in Bytes /\ Len(b) = n + Len(rest) /\ Len(rest) \in Nat /\ n \in Nat
        /\ (\A i \in 1 .. n : b[i] = u[i])
    BY <1>2, Joined, BytesAre
  <1>5. SubSeq(b, 1, n) = u /\ Drop(b, n) = rest
    BY <1>2, Unjoined DEF Drop
  <1> HIDE DEF b, n
  <1>6. ASSUME NEW i \in 1 .. n PROVE /\ (i <= k <=> u[i] \notin {CR, LF})
                                      /\ (u[i] = LF <=> i = n)
    <2>1. CASE i <= k
      BY <1>0, <1>1, <1>2, <2>1
    <2>2. CASE ~(i <= k)
      <3> DEFINE j == i - k
      <3>1. j \in 1 .. m /\ i = k + j /\ (j < m <=> i # n) /\ (j = m <=> i = n)
        BY <1>0, <1>1, <1>2, <2>2
      <3> HIDE DEF j
      <3>2. u[i] = end[j] /\ end[j] \in {CR, LF} /\ (j < m => end[j] # LF) /\ end[m] = LF
        BY <1>1, <1>2, <3>1
      <3> QED
        BY <2>2, <3>1, <3>2
    <2> QED
      BY <2>1, <2>2
  <1>7. Min({i \in DOMAIN b : b[i] = LF}) = n /\ {i \in DOMAIN b : b[i] = LF} # {}
    <2> DEFINE S == {i \in DOMAIN b : b[i] = LF}
    <2>1. DOMAIN b = 1 .. Len(b)
      BY <1>4, BytesAre
    <2>2. n \in 1 .. n /\ n \in 1 .. Len(b)
      BY <1>0, <1>1, <1>2, <1>4
    <2>3. n \in S
      BY <1>4, <1>6, <2>1, <2>2
    <2>4. \A x \in S : n <= x
      <3> TAKE x \in S
      <3>1. x \in 1 .. Len(b) /\ b[x] = LF
        BY <2>1
      <3> QED
        BY <1>4, <1>6, <3>1
    <2>5. S \in SUBSET Int
      BY <2>1
    <2> HIDE DEF S
    <2>6. Min(S) = n
      BY <2>3, <2>4, <2>5, LeastOf
    <2> QED
      BY <2>3, <2>6 DEF S
  <1>8. Trim(u) = s
    <2> DEFINE S == {0} \cup {i \in DOMAIN u : u[i] \notin {CR, LF}}
    <2>1. DOMAIN u = 1 .. n
      BY <1>2, BytesAre DEF n
    <2>2. k \in S
      <3>1. CASE k = 0
        BY <3>1
      <3>2. CASE k # 0
        <4>1. k \in 1 .. n
          BY <1>0, <1>1, <1>2, <3>2
        <4> QED
          BY <1>6, <2>1, <4>1
      <3> QED
        BY <3>1, <3>2
    <2>3. \A x \in S : k >= x
      BY <1>0, <1>6, <2>1
    <2>4. S \in SUBSET Int
      BY <2>1
    <2> HIDE DEF S
    <2>5. Max(S) = k
      BY <2>2, <2>3, <2>4, GreatestOf
    <2>6. Trim(u) = SubSeq(u, 1, Max(S))
      BY Zenon DEF Trim, S
    <2> QED
      BY <1>3, <2>5, <2>6
  <1>9. readLine(b) = Got(Trim(SubSeq(b, 1, n)), Drop(b, n))
    BY <1>7, Zenon DEF readLine
  <1>10. readLine(b) = Got(s, rest)
    BY <1>5, <1>8, <1>9, Zenon
  <1> QED
    BY <1>10, Zenon DEF b, u

LEMMA LineCut ==
  ASSUME NEW b \in Bytes, \A i \in 1 .. Len(b) : b[i] # LF
  PROVE  readLine(b) = Fail
  <1>1. {i \in DOMAIN b : b[i] = LF} = {}
    BY BytesAre
  <1> QED
    BY <1>1, Zenon DEF readLine

LEMMA LineTorn ==
  ASSUME NEW s, Plain(s), NEW end \in Ends, NEW p \in Parts(s \o end)
  PROVE  p \in Bytes /\ readLine(p) = Fail
  <1>0. s \in Bytes /\ end \in Bytes /\ Len(s) \in Nat /\ Len(end) \in Nat
        /\ \A i \in 1 .. Len(s) : s[i] # LF
    BY EndIs, BytesAre DEF Plain
  <1>1. p \in Bytes
    BY <1>0, Joined, PartIs
  <1>2. \A i \in 1 .. Len(p) : p[i] # LF
    <2>1. CASE p \in Parts(s)
      <3>1. Len(p) < Len(s) /\ (\A i \in 1 .. Len(p) : p[i] = s[i]) /\ Len(p) \in Nat
        BY <1>0, <1>1, <2>1, PartIs, BytesAre
      <3> QED
        BY <1>0, <3>1
    <2>2. CASE \E q \in Parts(end) : p = s \o q
      <3>1. PICK q \in Parts(end) : p = s \o q
        BY <2>2
      <3>2. q \in Bytes /\ Len(q) < Len(end) /\ Len(q) \in Nat /\ \A i \in 1 .. Len(q) : q[i] = end[i]
        BY <1>0, PartIs, BytesAre
      <3>3. \A i \in 1 .. Len(q) : q[i] # LF
        <4>1. \A i \in 1 .. Len(end) : i < Len(end) => end[i] # LF
          BY EndIs
        <4> QED
          BY <1>0, <3>2, <4>1
      <3>4. /\ Len(p) = Len(s) + Len(q)
            /\ \A i \in 1 .. Len(s) : p[i] = s[i]
            /\ \A i \in 1 .. Len(q) : p[Len(s) + i] = q[i]
        BY <1>0, <3>1, <3>2, Joined
      <3> TAKE i \in 1 .. Len(p)
      <3>5. CASE i <= Len(s)
        BY <1>0, <3>4, <3>5
      <3>6. CASE ~(i <= Len(s))
        <4>1. i - Len(s) \in 1 .. Len(q) /\ i = Len(s) + (i - Len(s))
          BY <1>0, <3>2, <3>4, <3>6
        <4>2. p[i] = q[i - Len(s)]
          BY <3>4, <4>1
        <4> QED
          BY <3>3, <4>1, <4>2
      <3> QED
        BY <3>5, <3>6
    <2> QED
      BY <1>0, <2>1, <2>2, PartOfJoin
  <1> QED
    BY <1>1, <1>2, LineCut

LEMMA NumeralPlain ==
  ASSUME NEW n \in Nat
  PROVE  /\ Plain(Decimal(n)) /\ Decimal(n) # <<>>
         /\ Atoi(Decimal(n)) = Got(n, <<>>)
  <1> DEFINE s == Digits[n]
  <1>1. Decimal(n) = s
    BY DEF Decimal
  <1>2. s \in Numeral /\ s # <<>> /\ Value(s) = n
    BY DigitsValue
  <1> HIDE DEF s
  <1>3. s \in Bytes /\ Len(s) \in Nat /\ Len(s) # 0 /\ DOMAIN s = 1 .. Len(s)
        /\ \A i \in 1 .. Len(s) : s[i] \in Digit0 .. Digit0 + 9
    BY <1>2 DEF Numeral, Bytes, Digit0
  <1>4. Plain(s)
    BY <1>3 DEF Plain, CR, LF, Digit0
  <1>5. s[1] \notin {Plus, Minus} /\ s[1] # Minus
    <2>1. s[1] \in Digit0 .. Digit0 + 9
      BY <1>3
    <2> QED
      BY <2>1 DEF Plus, Minus, Digit0
  <1>6. ~(\E i \in DOMAIN s : s[i] \notin Digit0 .. Digit0 + 9)
    BY <1>3
  <1>7. Atoi(s) = Got(Value(s), <<>>)
    BY <1>2, <1>5, <1>6, Zenon DEF Atoi
  <1> QED
    BY <1>1, <1>2, <1>4, <1>7

LEMMA IntRead ==
  ASSUME NEW n \in Nat, NEW rest \in Bytes
  PROVE  readInt((Decimal(n) \o CRLF) \o rest) = Got(n, rest)
  <1> DEFINE b == (Decimal(n) \o CRLF) \o rest
  <1>1. CRLF \in Ends
    BY DEF Ends
  <1>2. readLine(b) = Got(Decimal(n), rest)
    BY <1>1, NumeralPlain, LineRead
  <1> HIDE DEF b
  <1>3. Atoi(Decimal(n)) = Got(n, <<>>)
    BY NumeralPlain
  <1>4. readInt(b) = Got(n, rest)
    <2> DEFINE line == readLine(b)
               a == Atoi(line.val)
    <2>1. line.ok /\ line.val = Decimal(n) /\ line.rest = rest
      BY <1>2 DEF Got
    <2> HIDE DEF line
    <2>2. a.ok /\ a.val = n
      BY <1>3, <2>1 DEF Got
    <2> QED
      BY <2>1, <2>2, Zenon DEF readInt, line
  <1> QED
    BY <1>4 DEF b

LEMMA IntTorn ==
  ASSUME NEW n \in Nat, NEW p \in Parts(Decimal(n) \o CRLF)
  PROVE  p \in Bytes /\ readInt(p) = Fail
  <1>1. CRLF \in Ends
    BY DEF Ends
  <1>2. p \in Bytes /\ readLine(p) = Fail
    BY <1>1, NumeralPlain, LineTorn
  <1> QED
    BY <1>2 DEF readInt, Fail

----------------------------------------------------------------------------
(* Arguments *)

LEMMA Marks == BulkMark \in Int /\ ArrayMark \in Int /\ CRLF \in Bytes /\ Len(CRLF) = 2 /\ CRLF \in Ends
  BY BytesAre DEF BulkMark, ArrayMark, CRLF, CR, LF, Ends

\* A mark, a number and a line break, as the header of what follows.
LEMMA Headed ==
  ASSUME NEW c \in Int, NEW n \in Nat, NEW s \in Bytes
  PROVE  /\ Decimal(n) \o CRLF \in Bytes
         /\ <<c>> \o Decimal(n) \o CRLF \in Bytes
         /\ <<c>> \o Decimal(n) \o CRLF \o s = <<c>> \o ((Decimal(n) \o CRLF) \o s)
         /\ (Decimal(n) \o CRLF) \o s \in Bytes
  <1> DEFINE h == <<c>>
             d == Decimal(n)
             e == CRLF
  <1>1. h \in Bytes /\ d \in Bytes /\ e \in Bytes
    BY BytesAre, NumeralPlain, Marks DEF Plain
  <1> HIDE DEF h, d, e
  <1>2. d \o e \in Bytes /\ h \o d \in Bytes /\ (h \o d) \o e \in Bytes /\ (d \o e) \o s \in Bytes
    BY <1>1, Joined
  <1>3. (h \o d) \o e = h \o (d \o e)
    BY <1>1, JoinedThree
  <1> DEFINE u == d \o e
  <1>4. (h \o u) \o s = h \o (u \o s)
    <2>1. u \in Bytes
      BY <1>2
    <2> HIDE DEF u
    <2> QED
      BY <1>1, <2>1, JoinedThree
  <1>5. ((h \o d) \o e) \o s = h \o ((d \o e) \o s)
    BY <1>3, <1>4, Zenon
  <1> QED
    BY <1>2, <1>5, Zenon DEF h, d, e

LEMMA BulkIs ==
  ASSUME NEW a \in Bytes
  PROVE  /\ WriteBulkString(a) \in Bytes
         /\ WriteBulkString(a) = <<BulkMark>> \o ((Decimal(Len(a)) \o CRLF) \o (a \o CRLF))
         /\ a \o CRLF \in Bytes /\ Len(a \o CRLF) = Len(a) + 2 /\ Len(a) \in Nat
  <1> DEFINE n == Len(a)
             g == <<BulkMark>> \o Decimal(n) \o CRLF
             e == CRLF
             h == <<BulkMark>>
             u == Decimal(n) \o CRLF
  <1>1. n \in Nat /\ e \in Bytes /\ Len(e) = 2 /\ BulkMark \in Int
    BY BytesAre, Marks
  <1> HIDE DEF n
  <1> HIDE DEF e
  <1>2. a \o e \in Bytes /\ Len(a \o e) = Len(a) + Len(e)
    BY <1>1, Joined
  <1> DEFINE v == a \o e
  <1>3. g \in Bytes /\ u \in Bytes /\ u \o v \in Bytes /\ g \o v = h \o (u \o v)
    BY <1>1, <1>2, Headed
  <1>4. h \o (u \o v) \in Bytes
    BY <1>1, <1>3, Tails
  <1> HIDE DEF g, h, u
  <1>5. (g \o a) \o e = g \o (a \o e)
    BY <1>1, <1>3, JoinedThree
  <1>6. (g \o a) \o e = h \o (u \o v)
    BY <1>3, <1>5, Zenon
  <1>7. WriteBulkString(a) = (g \o a) \o e
    BY Zenon DEF WriteBulkString, g, e, n
  <1> QED
    BY <1>1, <1>2, <1>4, <1>6, <1>7 DEF h, u, v, e, n

LEMMA ArgRead ==
  ASSUME NEW a \in Bytes, NEW rest \in Bytes
  PROVE  ReadArg(WriteBulkString(a) \o rest) = Got(a, rest)
  <1> DEFINE n == Len(a)
             h == <<BulkMark>>
             u == Decimal(n) \o CRLF
             v == a \o CRLF
             w == v \o rest
             x == u \o w
             b == h \o x
  <1>1. n \in Nat /\ v \in Bytes /\ Len(v) = n + 2 /\ BulkMark \in Int /\ u \in Bytes /\ h \in Bytes
    BY BulkIs, Headed, Marks, BytesAre
  <1>2. w \in Bytes /\ Len(w) = Len(v) + Len(rest) /\ Len(rest) \in Nat
    <2>1. v \in Bytes
      BY <1>1
    <2> HIDE DEF v
    <2>2. v \o rest \in Bytes /\ Len(v \o rest) = Len(v) + Len(rest)
      BY <2>1, Joined
    <2>3. Len(rest) \in Nat
      BY BytesAre
    <2> QED
      BY <2>2, <2>3
  <1>3. x \in Bytes /\ u \o v \in Bytes
    BY <1>1, <1>2, Joined
  <1>4. WriteBulkString(a) \o rest = b
    <2>1. WriteBulkString(a) = h \o (u \o v)
      BY BulkIs
    <2> HIDE DEF h, u, v
    <2>2. (h \o (u \o v)) \o rest = h \o ((u \o v) \o rest)
      <3> DEFINE y == u \o v
      <3>1. y \in Bytes /\ h \in Bytes
        BY <1>1, <1>3
      <3> HIDE DEF y
      <3>2. (h \o y) \o rest = h \o (y \o rest)
        BY <3>1, JoinedThree
      <3> QED
        BY <3>2 DEF y
    <2>3. (u \o v) \o rest = u \o (v \o rest)
      BY <1>1, JoinedThree
    <2> QED
      BY <2>1, <2>2, <2>3, Zenon
  <1>5. readInt(x) = Got(n, w)
    BY <1>1, <1>2, IntRead
  <1>6. ReadBulk(w, n) = Got(a, rest)
    <2>1. SubSeq(w, Len(v) + 1, Len(w)) = rest
      BY <1>1, Unjoined
    <2>2. SubSeq(w, 1, n) = a
      <3> DEFINE e == CRLF
      <3>1. e \in Bytes /\ e \o rest \in Bytes
        BY Marks, Joined
      <3>2. w = a \o (e \o rest)
        BY <3>1, JoinedThree
      <3>3. SubSeq(a \o (e \o rest), 1, Len(a)) = a
        BY <3>1, Unjoined
      <3> QED
        BY <3>2, <3>3, Zenon
    <2> HIDE DEF w, v, n
    <2>3. Drop(w, n + 2) = rest
      BY <1>1, <2>1 DEF Drop
    <2>4. ~(n < 0 \/ Len(w) < n + 2)
      BY <1>1, <1>2
    <2> QED
      BY <2>2, <2>3, <2>4, Zenon DEF ReadBulk
  <1>7. b # <<>> /\ b[1] = BulkMark /\ Tail(b) = x
    BY <1>1, <1>3, Tails
  <1> HIDE DEF b, x, w, n
  <1>8. readInt(x).ok /\ readInt(x).rest = w /\ readInt(x).val = n
    BY <1>5 DEF Got
  <1>9. ReadArg(b) = Got(a, rest)
    BY <1>6, <1>7, <1>8, Zenon DEF ReadArg
  <1> QED
    BY <1>4, <1>9

LEMMA EmptyPart ==
  ASSUME NEW c \in Int, NEW p \in Parts(<<c>>)
  PROVE  p = <<>>
  <1> DEFINE b == <<c>>
  <1>1. b \in Bytes /\ Len(b) = 1
    BY BytesAre
  <1> HIDE DEF b
  <1>2. p \in Bytes /\ Len(p) < Len(b)
    BY <1>1, PartIs DEF b
  <1> QED
    BY <1>1, <1>2, BytesAre

\* A header and what follows, cut somewhere.
LEMMA HeadedTorn ==
  ASSUME NEW c \in Int, NEW n \in Nat, NEW s \in Bytes,
         NEW p \in Parts(<<c>> \o ((Decimal(n) \o CRLF) \o s))
  PROVE  \/ p = <<>>
         \/ /\ p # <<>> /\ p[1] = c
            /\ \/ readInt(Tail(p)) = Fail
               \/ \E q \in Parts(s) : readInt(Tail(p)) = Got(n, q)
  <1> DEFINE h == <<c>>
             u == Decimal(n) \o CRLF
             x == u \o s
  <1>1. h \in Bytes /\ u \in Bytes /\ x \in Bytes
    BY BytesAre, Headed
  <1>2. p \in Parts(h) \/ \E q \in Parts(x) : p = h \o q
    BY <1>1, PartOfJoin
  <1>3. CASE p \in Parts(h)
    BY <1>3, EmptyPart
  <1>4. CASE \E q \in Parts(x) : p = h \o q
    <2>1. PICK q \in Parts(x) : p = h \o q
      BY <1>4
    <2>2. q \in Bytes
      BY <1>1, PartIs
    <2>3. p # <<>> /\ p[1] = c /\ Tail(p) = q
      BY <2>1, <2>2, Tails
    <2>4. q \in Parts(u) \/ \E r \in Parts(s) : q = u \o r
      BY <1>1, PartOfJoin
    <2>5. CASE q \in Parts(u)
      BY <2>3, <2>5, IntTorn
    <2>6. CASE \E r \in Parts(s) : q = u \o r
      <3>1. PICK r \in Parts(s) : q = u \o r
        BY <2>6
      <3>2. r \in Bytes
        BY PartIs
      <3>3. readInt(q) = Got(n, r)
        BY <3>1, <3>2, IntRead
      <3> QED
        BY <2>3, <3>3
    <2> QED
      BY <2>4, <2>5, <2>6
  <1> QED
    BY <1>2, <1>3, <1>4

LEMMA ArgTorn ==
  ASSUME NEW a \in Bytes, NEW p \in Parts(WriteBulkString(a))
  PROVE  p \in Bytes /\ ReadArg(p) = Fail
  <1> DEFINE n == Len(a)
             s == a \o CRLF
             i == readInt(Tail(p))
  <1>1. n \in Nat /\ s \in Bytes /\ Len(s) = n + 2 /\ BulkMark \in Int
        /\ WriteBulkString(a) \in Bytes /\ WriteBulkString(a) = <<BulkMark>> \o ((Decimal(n) \o CRLF) \o s)
    BY BulkIs, Marks
  <1> HIDE DEF n, s
  <1>2. p \in Bytes
    BY <1>1, PartIs
  <1>3. \/ p = <<>>
        \/ p # <<>> /\ p[1] = BulkMark /\ (i = Fail \/ \E q \in Parts(s) : i = Got(n, q))
    BY <1>1, HeadedTorn
  <1> HIDE DEF i
  <1>4. CASE p = <<>>
    BY <1>2, <1>4 DEF ReadArg
  <1>5. CASE p # <<>> /\ p[1] = BulkMark /\ i = Fail
    <2>1. ~i.ok
      BY <1>5 DEF Fail
    <2> QED
      BY <1>2, <1>5, <2>1, Zenon DEF ReadArg, i
  <1>6. CASE p # <<>> /\ p[1] = BulkMark /\ \E q \in Parts(s) : i = Got(n, q)
    <2>1. PICK q \in Parts(s) : i = Got(n, q)
      BY <1>6
    <2>2. i.ok /\ i.val = n /\ i.rest = q
      BY <2>1 DEF Got
    <2>3. Len(q) < n + 2 /\ ~(n < 0)
      BY <1>1, PartIs
    <2>4. ReadBulk(q, n) = Fail
      BY <2>3, Zenon DEF ReadBulk
    <2> QED
      BY <1>2, <1>6, <2>2, <2>4, Zenon DEF ReadArg, i
  <1> QED
    BY <1>3, <1>4, <1>5, <1>6

----------------------------------------------------------------------------
(* Strings that are joined, and where they are cut *)

\* A sequence of strings.
Strings(ss) == IsLists(ss, Int)

LEMMA StringsAre ==
  ASSUME NEW ss, Strings(ss)
  PROVE  Len(ss) \in Nat /\ DOMAIN ss = 1 .. Len(ss) /\ \A i \in 1 .. Len(ss) : ss[i] \in Bytes
  BY DEF Strings, IsLists, Bytes

LEMMA StringsIf ==
  ASSUME NEW N \in Nat, NEW f, f = [i \in 1 .. N |-> f[i]], \A i \in 1 .. N : f[i] \in Bytes
  PROVE  Strings(f) /\ Len(f) = N
  <1>1. f \in Seq(Bytes) /\ Len(f) = N
    OBVIOUS
  <1> QED
    BY <1>1 DEF Strings, IsLists, Bytes

\* f[n] is the first n of the strings, joined.
Sums(f, ss) ==
  /\ f \in [0 .. Len(ss) -> Bytes] /\ f[0] = <<>>
  /\ \A n \in 1 .. Len(ss) : f[n] = f[n - 1] \o ss[n]

LEMMA SumsExist ==
  ASSUME NEW ss, Strings(ss)
  PROVE  \E f : Sums(f, ss) /\ FlattenSeq(ss) = f[Len(ss)]
  <1>1. IsLists(ss, Int)
    BY DEF Strings
  <1>2. PICK f \in [0 .. Len(ss) -> Seq(Int)] :
            /\ f[0] = <<>> /\ \A n \in 1 .. Len(ss) : f[n] = f[n - 1] \o ss[n]
            /\ FlattenSeq(ss) = f[Len(ss)]
    BY <1>1, FlattenDef
  <1> QED
    BY <1>2, Zenon DEF Sums, Bytes

LEMMA SumsOfFirst ==
  ASSUME NEW ss, Strings(ss), NEW f, Sums(f, ss), NEW n \in 0 .. Len(ss)
  PROVE  FlattenSeq(SubSeq(ss, 1, n)) = f[n]
  <1> DEFINE tt == SubSeq(ss, 1, n)
  <1>1. Len(ss) \in Nat /\ n \in Nat /\ \A i \in 1 .. n : ss[i] \in Bytes
    BY StringsAre
  <1>2. Strings(tt) /\ Len(tt) = n /\ \A i \in 1 .. n : tt[i] = ss[i]
    BY <1>1, SubSeqProperties DEF Strings, IsLists, Bytes
  <1> HIDE DEF tt
  <1>3. PICK g : Sums(g, tt) /\ FlattenSeq(tt) = g[Len(tt)]
    BY <1>2, SumsExist
  <1> DEFINE S == {i \in 0 .. n : g[i] = f[i]}
  <1>4. 0 \in S
    BY <1>1, <1>3 DEF Sums
  <1>5. ASSUME NEW i \in 1 .. n, i - 1 \in S PROVE i \in S
    <2>1. g[i] = g[i - 1] \o tt[i]
      BY <1>2, <1>3 DEF Sums
    <2>2. f[i] = f[i - 1] \o ss[i]
      <3>1. i \in 1 .. Len(ss)
        BY <1>1
      <3> QED
        BY <3>1 DEF Sums
    <2>3. g[i - 1] = f[i - 1] /\ tt[i] = ss[i] /\ i \in 0 .. n
      BY <1>2, <1>5
    <2> QED
      BY <2>1, <2>2, <2>3, Zenon
  <1> HIDE DEF S
  <1>6. 0 .. n \subseteq S
    BY <1>1, <1>4, <1>5, Induction
  <1>7. g[n] = f[n]
    BY <1>1, <1>6 DEF S
  <1> QED
    BY <1>2, <1>3, <1>7 DEF tt

\* R[i] is what is left of the first k strings and z behind the i-th string.
Rests(R, ss, k, z) ==
  /\ R \in [0 .. k -> Bytes] /\ R[k] = z
  /\ \A i \in 1 .. k : R[i - 1] = ss[i] \o R[i]

Left(ss, f, k, z) ==
  \E R : Rests(R, ss, k, z) /\ R[0] = f[k] \o z /\ \A i \in 0 .. k : R[0] = f[i] \o R[i]

LEMMA RestsExist ==
  ASSUME NEW ss, Strings(ss), NEW f, Sums(f, ss), NEW k \in 0 .. Len(ss), NEW z \in Bytes
  PROVE  Left(ss, f, k, z)
  <1> DEFINE step == [j \in 1 .. k |-> [v \in Bytes |-> ss[k + 1 - j] \o v]]
  <1>1. Len(ss) \in Nat /\ k \in Nat /\ \A i \in 1 .. k : ss[i] \in Bytes
    BY StringsAre
  <1>2. \A j \in 1 .. k : k + 1 - j \in 1 .. k /\ ss[k + 1 - j] \in Bytes
    BY <1>1
  <1>3. step \in [1 .. k -> [Bytes -> Bytes]]
    BY <1>2, Joined
  <1>4. \A j \in 1 .. k : \A v \in Bytes : step[j][v] = ss[k + 1 - j] \o v
    OBVIOUS
  <1> HIDE DEF step
  <1>5. PICK g : Rounds(g, Bytes, z, k, step)
    BY <1>1, <1>3, RoundsExist, Zenon
  <1>6. /\ g \in [0 .. k -> Bytes] /\ g[0] = z
        /\ \A j \in 1 .. k : g[j] = step[j][g[j - 1]]
    BY <1>5 DEF Rounds
  <1> DEFINE R == [i \in 0 .. k |-> g[k - i]]
  <1>7. R \in [0 .. k -> Bytes] /\ R[k] = z
    <2>1. \A i \in 0 .. k : k - i \in 0 .. k
      BY <1>1
    <2>2. k \in 0 .. k /\ k - k = 0
      BY <1>1
    <2> QED
      BY <1>6, <2>1, <2>2
  <1>8. ASSUME NEW i \in 1 .. k PROVE R[i - 1] = ss[i] \o R[i]
    <2> DEFINE j == k + 1 - i
    <2>1. j \in 1 .. k /\ j - 1 = k - i /\ k + 1 - j = i /\ i - 1 \in 0 .. k /\ i \in 0 .. k
          /\ k - (i - 1) = j /\ j - 1 \in 0 .. k
      BY <1>1
    <2>2. R[i - 1] = g[j] /\ R[i] = g[j - 1]
      BY <2>1
    <2> HIDE DEF R, j
    <2>3. g[j - 1] \in Bytes
      BY <1>6, <2>1
    <2>4. g[j] = ss[k + 1 - j] \o g[j - 1]
      BY <1>4, <1>6, <2>1, <2>3
    <2> QED
      BY <2>1, <2>2, <2>4, Zenon
  <1> HIDE DEF R
  <1> DEFINE S == {i \in 0 .. k : f[i] \o R[i] = R[0]}
  <1>9. 0 \in S
    <2>1. 0 \in 0 .. k /\ f[0] = <<>> /\ R[0] \in Bytes
      BY <1>1, <1>7 DEF Sums
    <2>2. <<>> \o R[0] = R[0]
      BY <2>1, JoinedEmpty
    <2> QED
      BY <2>1, <2>2, Zenon
  <1>10. ASSUME NEW i \in 1 .. k, i - 1 \in S PROVE i \in S
    <2>1. i \in 1 .. Len(ss) /\ i - 1 \in 0 .. Len(ss) /\ i \in 0 .. k
      BY <1>1
    <2>2. f[i] = f[i - 1] \o ss[i] /\ f[i - 1] \in Bytes
      BY <2>1 DEF Sums
    <2>3. ss[i] \in Bytes /\ R[i] \in Bytes
      BY <1>1, <1>7, <2>1
    <2> DEFINE a == f[i - 1]
               b == ss[i]
               c == R[i]
    <2>4. (a \o b) \o c = a \o (b \o c)
      <3>1. a \in Bytes /\ b \in Bytes /\ c \in Bytes
        BY <2>2, <2>3
      <3> HIDE DEF a, b, c
      <3> QED
        BY <3>1, JoinedThree
    <2>5. f[i - 1] \o R[i - 1] = R[0]
      BY <1>10
    <2> QED
      BY <1>8, <2>1, <2>2, <2>4, <2>5, Zenon
  <1> HIDE DEF S
  <1>11. 0 .. k \subseteq S
    BY <1>1, <1>9, <1>10, Induction
  <1>12. \A i \in 0 .. k : f[i] \o R[i] = R[0]
    BY <1>11 DEF S
  <1>13. f[k] \o R[k] = R[0]
    <2>1. k \in 0 .. k
      BY <1>1
    <2> QED
      BY <1>12, <2>1, Zenon
  <1> QED
    BY <1>7, <1>8, <1>12, <1>13 DEF Rests, Left

\* A cut in the joined strings is in one of them.
TornIn(ss, f, p) == \E k \in 1 .. Len(ss) : \E q \in Parts(ss[k]) : p = f[k - 1] \o q

LEMMA SumsTorn ==
  ASSUME NEW ss, Strings(ss), NEW f, Sums(f, ss), NEW p \in Parts(f[Len(ss)])
  PROVE  TornIn(ss, f, p)
  <1> DEFINE N == Len(ss)
             Torn(n) == \E k \in 1 .. n : \E q \in Parts(ss[k]) : p = f[k - 1] \o q
             S == {n \in 0 .. N : p \in Parts(f[n]) => Torn(n)}
  <1>1. N \in Nat /\ f[0] = <<>> /\ \A i \in 1 .. N : ss[i] \in Bytes
    BY StringsAre DEF Sums
  <1>2. 0 \in S
    <2>1. Parts(<<>>) = {}
      BY BytesAre DEF Parts
    <2> QED
      BY <1>1, <2>1
  <1>3. ASSUME NEW n \in 1 .. N, n - 1 \in S PROVE n \in S
    <2>1. n - 1 \in 0 .. N /\ n \in 0 .. N /\ n \in 1 .. n
      BY <1>1
    <2>2. f[n] = f[n - 1] \o ss[n] /\ f[n - 1] \in Bytes /\ ss[n] \in Bytes
      BY <1>1, <2>1 DEF Sums
    <2>3. SUFFICES ASSUME p \in Parts(f[n]) PROVE Torn(n)
      BY <2>1
    <2>4. p \in Parts(f[n - 1]) \/ \E q \in Parts(ss[n]) : p = f[n - 1] \o q
      <3> DEFINE a == f[n - 1]
                 b == ss[n]
      <3>1. a \in Bytes /\ b \in Bytes /\ p \in Parts(a \o b)
        BY <2>2, <2>3
      <3> HIDE DEF a, b
      <3>2. p \in Parts(a) \/ \E q \in Parts(b) : p = a \o q
        BY <3>1, PartOfJoin
      <3> QED
        BY <3>2 DEF a, b
    <2>5. CASE p \in Parts(f[n - 1])
      <3>1. Torn(n - 1)
        BY <1>3, <2>5
      <3>2. \A k \in 1 .. n - 1 : k \in 1 .. n
        BY <1>1
      <3> QED
        BY <3>1, <3>2, Zenon
    <2>6. CASE \E q \in Parts(ss[n]) : p = f[n - 1] \o q
      BY <2>1, <2>6, Zenon
    <2> QED
      BY <2>4, <2>5, <2>6
  <1> HIDE DEF S
  <1>4. 0 .. N \subseteq S
    <2> HIDE DEF N
    <2> QED
      BY <1>1, <1>2, <1>3, Induction
  <1>5. N \in S
    BY <1>1, <1>4
  <1>6. Torn(N)
    BY <1>5 DEF S
  <1> QED
    BY <1>6, Zenon DEF TornIn

\* The last two lemmas, in a form that is easier to instantiate.
LEMMA Divided ==
  \A ss, f : Strings(ss) /\ Sums(f, ss) =>
     /\ \A k \in 0 .. Len(ss) : \A z \in Bytes : Left(ss, f, k, z)
     /\ \A p \in Parts(f[Len(ss)]) : TornIn(ss, f, p)
  <1> SUFFICES ASSUME NEW ss, NEW f, Strings(ss), Sums(f, ss)
               PROVE  /\ \A k \in 0 .. Len(ss) : \A z \in Bytes : Left(ss, f, k, z)
                      /\ \A p \in Parts(f[Len(ss)]) : TornIn(ss, f, p)
    OBVIOUS
  <1>1. ASSUME NEW k \in 0 .. Len(ss), NEW z \in Bytes PROVE Left(ss, f, k, z)
    BY RestsExist, Zenon
  <1>2. ASSUME NEW p \in Parts(f[Len(ss)]) PROVE TornIn(ss, f, p)
    BY SumsTorn, Zenon
  <1> QED
    BY <1>1, <1>2

----------------------------------------------------------------------------
(* The loop of readArray *)

LEMMA Answers ==
  /\ ~Fail.ok
  /\ \A v, r : Got(v, r).ok /\ Got(v, r).val = v /\ Got(v, r).rest = r
  BY DEF Fail, Got

\* The first i of a sequence, and one more.
LEMMA FirstAppend ==
  ASSUME NEW X, NEW s \in Seq(X), NEW i \in 1 .. Len(s)
  PROVE  SubSeq(s, 1, i) = Append(SubSeq(s, 1, i - 1), s[i])
  <1> DEFINE t == SubSeq(s, 1, i - 1)
             u == SubSeq(s, 1, i)
  <1>1. Len(s) \in Nat /\ i - 1 \in 0 .. Len(s) /\ i \in 0 .. Len(s) /\ s[i] \in X
    OBVIOUS
  <1>2. t \in Seq(X) /\ Len(t) = i - 1 /\ \A j \in 1 .. i - 1 : t[j] = s[j]
    OBVIOUS
  <1>3. u \in Seq(X) /\ Len(u) = i /\ \A j \in 1 .. i : u[j] = s[j]
    OBVIOUS
  <1> HIDE DEF t, u
  <1> DEFINE w == Append(t, s[i])
  <1>4. w \in Seq(X) /\ Len(w) = i /\ \A j \in 1 .. i : w[j] = s[j]
    BY <1>1, <1>2
  <1> HIDE DEF w
  <1>5. u = w
    BY <1>3, <1>4, SeqEqual
  <1> QED
    BY <1>5 DEF w, t, u

\* The first k arguments are read; there is an error if there are to be more.
LEMMA ArgsLoop ==
  ASSUME NEW N \in Nat, NEW k \in 0 .. N, NEW b, NEW X, NEW args \in Seq(X), k <= Len(args),
         NEW R, R[0] = b,
         \A i \in 1 .. k : ReadArg(R[i - 1]) = Got(args[i], R[i]),
         k < N => ReadArg(R[k]) = Fail
  PROVE  ReadArgs(N, b) = IF k = N THEN Got(SubSeq(args, 1, k), R[k]) ELSE Fail
  <1> DEFINE Round(as, arg) ==
               IF ~as.ok THEN as
               ELSE IF ~arg.ok THEN arg
               ELSE Got(Append(as.val, arg.val), arg.rest)
             Body(g, i) ==
               IF i = 0 THEN Got(<<>>, b) ELSE Round(g[i - 1], ReadArg(g[i - 1].rest))
             after == CHOOSE g : g = [i \in 0 .. N |-> Body(g, i)]
             At(i) == IF i <= k THEN Got(SubSeq(args, 1, i), R[i]) ELSE Fail
             f == [i \in 0 .. N |-> At(i)]
  <1>1. ReadArgs(N, b) = after[N]
    BY Zenon DEF ReadArgs
  <1>2. \A i \in 0 .. N : f[i] = At(i)
    OBVIOUS
  <1>3. At(0) = Got(<<>>, b)
    <2>1. SubSeq(args, 1, 0) = <<>> /\ 0 <= k
      BY SubSeqEmpty
    <2> QED
      BY <2>1
  <1>4. ASSUME NEW i \in 1 .. N PROVE At(i) = Round(At(i - 1), ReadArg(At(i - 1).rest))
    <2>1. CASE i <= k
      <3>1. i - 1 <= k /\ i \in 1 .. k /\ i \in 1 .. Len(args)
        BY <2>1
      <3>2. At(i - 1).ok /\ At(i - 1).val = SubSeq(args, 1, i - 1) /\ At(i - 1).rest = R[i - 1]
        BY <3>1, Answers
      <3>3. ReadArg(R[i - 1]) = Got(args[i], R[i])
        BY <3>1
      <3>4. SubSeq(args, 1, i) = Append(SubSeq(args, 1, i - 1), args[i])
        BY <3>1, FirstAppend
      <3>5. At(i) = Got(SubSeq(args, 1, i), R[i])
        BY <2>1
      <3> HIDE DEF At
      <3> QED
        <4> DEFINE arg == ReadArg(At(i - 1).rest)
        <4>1. arg.ok /\ arg.val = args[i] /\ arg.rest = R[i]
          <5>1. arg = Got(args[i], R[i])
            BY <3>2, <3>3
          <5> HIDE DEF arg
          <5> QED
            BY <5>1, Answers
        <4> HIDE DEF arg
        <4>2. Round(At(i - 1), arg) = Got(Append(At(i - 1).val, arg.val), arg.rest)
          BY <3>2, <4>1, Zenon
        <4>3. At(i) = Round(At(i - 1), arg)
          BY <3>2, <3>4, <3>5, <4>1, <4>2, Zenon
        <4> QED
          BY <4>3, Zenon DEF arg
    <2>2. CASE i = k + 1
      <3>1. i - 1 = k /\ k < N /\ ~(i <= k) /\ i - 1 <= k
        BY <2>2
      <3>2. At(i - 1).rest = R[k] /\ At(i) = Fail
        BY <3>1, Answers
      <3>3. ReadArg(R[k]) = Fail
        BY <3>1
      <3>4. At(i - 1).ok
        BY <3>1, Answers
      <3> HIDE DEF At
      <3>5. Round(At(i - 1), Fail) = Fail
        BY <3>4, Answers, Zenon
      <3> HIDE DEF Round
      <3> QED
        BY <3>2, <3>3, <3>5
    <2>3. CASE ~(i <= k) /\ i # k + 1
      <3>1. ~(i - 1 <= k)
        BY <2>3
      <3>2. At(i - 1) = Fail /\ At(i) = Fail
        BY <2>3, <3>1
      <3> HIDE DEF At
      <3> QED
        BY <3>2, Answers, Zenon
    <2> QED
      BY <2>1, <2>2, <2>3
  <1> HIDE DEF At, Round
  <1>5. f = [i \in 0 .. N |-> Body(f, i)]
    <2>1. ASSUME NEW i \in 0 .. N PROVE f[i] = Body(f, i)
      <3>1. CASE i = 0
        BY <1>2, <1>3, <3>1
      <3>2. CASE i # 0
        <4>1. i \in 1 .. N /\ i - 1 \in 0 .. N
          BY <3>2
        <4>2. f[i] = At(i) /\ f[i - 1] = At(i - 1)
          BY <1>2, <4>1
        <4> HIDE DEF f
        <4> QED
          BY <1>4, <3>2, <4>1, <4>2
      <3> QED
        BY <3>1, <3>2
    <2> HIDE DEF Body
    <2> QED
      BY <2>1
  <1> HIDE DEF f, Body
  <1>6. after = [i \in 0 .. N |-> Body(after, i)]
    BY <1>5
  <1> HIDE DEF after
  <1> DEFINE S == {i \in 0 .. N : after[i] = f[i]}
  <1>7. \A i \in 0 .. N : after[i] = Body(after, i) /\ f[i] = Body(f, i)
    BY <1>5, <1>6
  <1>8. 0 \in S
    <2>1. 0 \in 0 .. N
      OBVIOUS
    <2>2. Body(after, 0) = Body(f, 0)
      BY DEF Body
    <2> QED
      BY <1>7, <2>1, <2>2
  <1>9. ASSUME NEW i \in 1 .. N, i - 1 \in S PROVE i \in S
    <2>1. i \in 0 .. N /\ after[i - 1] = f[i - 1]
      BY <1>9
    <2>2. Body(after, i) = Body(f, i)
      BY <2>1 DEF Body
    <2> QED
      BY <1>7, <2>1, <2>2
  <1> HIDE DEF S
  <1>10. 0 .. N \subseteq S
    BY <1>8, <1>9, Induction
  <1>11. N \in S /\ N \in 0 .. N
    BY <1>10
  <1>12. after[N] = At(N)
    BY <1>2, <1>11 DEF S
  <1>13. (N <= k) <=> k = N
    OBVIOUS
  <1> QED
    BY <1>1, <1>12, <1>13 DEF At

----------------------------------------------------------------------------
(* Commands *)

Bulks(args) == [i \in DOMAIN args |-> WriteBulkString(args[i])]

LEMMA BulksAre ==
  ASSUME NEW args, Strings(args)
  PROVE  /\ Strings(Bulks(args)) /\ Len(Bulks(args)) = Len(args)
         /\ \A i \in 1 .. Len(args) : Bulks(args)[i] = WriteBulkString(args[i]) /\ args[i] \in Bytes
  <1> DEFINE ss == Bulks(args)
             N == Len(args)
  <1>1. N \in Nat /\ DOMAIN args = 1 .. N /\ \A i \in 1 .. N : args[i] \in Bytes
    BY StringsAre
  <1>2. \A i \in 1 .. N : WriteBulkString(args[i]) \in Bytes
    BY <1>1, BulkIs
  <1>3. ss = [i \in 1 .. N |-> WriteBulkString(args[i])]
    BY <1>1 DEF Bulks
  <1> HIDE DEF ss, N
  <1>4. ss = [i \in 1 .. N |-> ss[i]] /\ \A i \in 1 .. N : ss[i] = WriteBulkString(args[i])
    BY <1>3
  <1>5. \A i \in 1 .. N : ss[i] \in Bytes
    BY <1>2, <1>4
  <1>6. Strings(ss) /\ Len(ss) = N
    BY <1>1, <1>4, <1>5, StringsIf
  <1> QED
    BY <1>1, <1>4, <1>6 DEF ss, N

LEMMA ArgsRead ==
  ASSUME NEW args, Strings(args), NEW rest \in Bytes
  PROVE  /\ FlattenSeq(Bulks(args)) \in Bytes
         /\ ReadArgs(Len(args), FlattenSeq(Bulks(args)) \o rest) = Got(args, rest)
  <1> DEFINE ss == Bulks(args)
             N == Len(args)
  <1>1. Strings(ss) /\ Len(ss) = N /\ N \in Nat
        /\ \A i \in 1 .. N : ss[i] = WriteBulkString(args[i]) /\ args[i] \in Bytes
    BY BulksAre, StringsAre
  <1> HIDE DEF ss
  <1>2. PICK f : Sums(f, ss) /\ FlattenSeq(ss) = f[N]
    BY <1>1, SumsExist
  <1>3. N \in 0 .. Len(ss) /\ N \in 0 .. N
    BY <1>1
  <1>4. PICK R : Rests(R, ss, N, rest) /\ R[0] = f[N] \o rest
    <2>1. Strings(ss) /\ Sums(f, ss) /\ N \in 0 .. Len(ss)
      BY <1>1, <1>2, <1>3
    <2>2. Left(ss, f, N, rest)
      BY <2>1, Divided, Zenon
    <2> QED
      BY <2>2 DEF Left
  <1>5. ASSUME NEW i \in 1 .. N PROVE ReadArg(R[i - 1]) = Got(args[i], R[i])
    <2>1. i \in 0 .. N
      BY <1>1
    <2>2. R[i - 1] = WriteBulkString(args[i]) \o R[i] /\ R[i] \in Bytes /\ args[i] \in Bytes
      BY <1>1, <1>4, <2>1 DEF Rests
    <2> QED
      BY <2>2, ArgRead
  <1>6. args \in Seq(Bytes) /\ R[N] = rest /\ N <= Len(args) /\ f[N] \in Bytes
    <2>1. args \in Seq(Bytes)
      BY DEF Strings, IsLists, Bytes
    <2>2. R[N] = rest
      BY <1>4 DEF Rests
    <2>3. f[N] \in Bytes
      BY <1>1, <1>2, <1>3 DEF Sums
    <2> QED
      BY <1>1, <2>1, <2>2, <2>3
  <1>7. ReadArgs(N, R[0]) = Got(SubSeq(args, 1, N), R[N])
    <2> HIDE DEF N
    <2>1. ~(N < N)
      BY <1>1
    <2> QED
      BY <1>1, <1>3, <1>5, <1>6, <2>1, ArgsLoop
  <1>8. SubSeq(args, 1, N) = args
    BY <1>6, SubSeqFull
  <1> QED
    BY <1>2, <1>4, <1>6, <1>7, <1>8 DEF ss

LEMMA ArgsTorn ==
  ASSUME NEW args, Strings(args), NEW p \in Parts(FlattenSeq(Bulks(args)))
  PROVE  ReadArgs(Len(args), p) = Fail
  <1> DEFINE ss == Bulks(args)
             N == Len(args)
  <1>1. Strings(ss) /\ Len(ss) = N /\ N \in Nat
        /\ \A i \in 1 .. N : ss[i] = WriteBulkString(args[i]) /\ args[i] \in Bytes
    BY BulksAre, StringsAre
  <1> HIDE DEF ss
  <1>2. PICK f : Sums(f, ss) /\ FlattenSeq(ss) = f[N]
    BY <1>1, SumsExist
  <1>3. PICK n \in 1 .. N : \E q \in Parts(ss[n]) : p = f[n - 1] \o q
    <2>1. p \in Parts(f[Len(ss)])
      BY <1>1, <1>2 DEF ss
    <2>2. \E n \in 1 .. Len(ss) : \E q \in Parts(ss[n]) : p = f[n - 1] \o q
      <3>1. Strings(ss) /\ Sums(f, ss)
        BY <1>1, <1>2
      <3>2. TornIn(ss, f, p)
        BY <2>1, <3>1, Divided, Zenon
      <3> QED
        BY <3>2 DEF TornIn
    <2> QED
      BY <1>1, <2>2
  <1>4. PICK q \in Parts(ss[n]) : p = f[n - 1] \o q
    BY <1>3
  <1>5. q \in Bytes /\ ReadArg(q) = Fail
    <2>1. ss[n] = WriteBulkString(args[n]) /\ args[n] \in Bytes
      BY <1>1
    <2> QED
      BY <1>4, <2>1, ArgTorn
  <1> DEFINE k == n - 1
  <1>6. k \in 0 .. N /\ k \in 0 .. Len(ss) /\ k < N /\ k <= Len(args) /\ k \in Nat
    BY <1>1, <1>3
  <1>7. p = f[k] \o q
    BY <1>4
  <1> HIDE DEF k
  <1>8. PICK R : Rests(R, ss, k, q) /\ R[0] = f[k] \o q
    <2>1. Strings(ss) /\ Sums(f, ss) /\ k \in 0 .. Len(ss) /\ q \in Bytes
      BY <1>1, <1>2, <1>5, <1>6
    <2>2. Left(ss, f, k, q)
      BY <2>1, Divided, Zenon
    <2> QED
      BY <2>2 DEF Left
  <1>9. ASSUME NEW i \in 1 .. k PROVE ReadArg(R[i - 1]) = Got(args[i], R[i])
    <2>1. i \in 1 .. N /\ i \in 0 .. k
      BY <1>1, <1>6
    <2>2. R[i - 1] = WriteBulkString(args[i]) \o R[i] /\ R[i] \in Bytes /\ args[i] \in Bytes
      BY <1>1, <1>8, <2>1 DEF Rests
    <2> QED
      BY <2>2, ArgRead
  <1>10. args \in Seq(Bytes) /\ R[k] = q
    <2>1. args \in Seq(Bytes)
      BY DEF Strings, IsLists, Bytes
    <2>2. R[k] = q
      BY <1>8 DEF Rests
    <2> QED
      BY <2>1, <2>2
  <1>11. ReadArgs(N, R[0]) = Fail
    <2>1. k # N
      BY <1>6
    <2> HIDE DEF N
    <2>2. ReadArgs(N, R[0]) = IF k = N THEN Got(SubSeq(args, 1, k), R[k]) ELSE Fail
      BY <1>1, <1>5, <1>6, <1>9, <1>10, ArgsLoop DEF N
    <2> QED
      BY <2>1, <2>2
  <1> QED
    BY <1>7, <1>8, <1>11

LEMMA CommandIs ==
  ASSUME NEW args, Strings(args)
  PROVE  LET s == FlattenSeq(Bulks(args))
         IN  /\ s \in Bytes /\ Len(args) \in Nat
             /\ writeCommand(args) = <<ArrayMark>> \o ((Decimal(Len(args)) \o CRLF) \o s)
             /\ writeCommand(args) \in Bytes /\ writeCommand(args) # <<>>
  <1> DEFINE s == FlattenSeq(Bulks(args))
             n == Len(args)
             x == (Decimal(n) \o CRLF) \o s
  <1>1. s \in Bytes /\ n \in Nat /\ ArrayMark \in Int
    BY ArgsRead, BytesAre, StringsAre, Marks
  <1>2. writeCommand(args) = <<ArrayMark>> \o Decimal(n) \o CRLF \o s
    BY Zenon DEF writeCommand, Bulks
  <1> HIDE DEF s, n
  <1>3. <<ArrayMark>> \o Decimal(n) \o CRLF \o s = <<ArrayMark>> \o x /\ x \in Bytes
    BY <1>1, Headed
  <1> HIDE DEF x
  <1>4. <<ArrayMark>> \o x \in Bytes /\ <<ArrayMark>> \o x # <<>>
    BY <1>1, <1>3, Tails
  <1> QED
    BY <1>1, <1>2, <1>3, <1>4 DEF x, s, n

\* A command is read with its arguments byte for byte, and nothing behind it.
LEMMA CommandRead ==
  ASSUME NEW args, Strings(args), NEW rest \in Bytes
  PROVE  ReadCommand(writeCommand(args) \o rest) = Got(args, rest)
  <1> DEFINE s == FlattenSeq(Bulks(args))
             n == Len(args)
             h == <<ArrayMark>>
             u == Decimal(n) \o CRLF
             w == s \o rest
             x == u \o w
             b == h \o x
  <1>1. s \in Bytes /\ n \in Nat /\ ArrayMark \in Int /\ writeCommand(args) = h \o (u \o s)
    BY CommandIs, Marks
  <1>2. ReadArgs(n, w) = Got(args, rest)
    BY ArgsRead
  <1> HIDE DEF s, n
  <1>3. h \in Bytes /\ u \in Bytes /\ u \o s \in Bytes /\ w \in Bytes
    BY <1>1, Headed, BytesAre, Joined
  <1>4. readInt(x) = Got(n, w)
    BY <1>1, <1>3, IntRead
  <1> HIDE DEF h, u
  <1>5. (h \o (u \o s)) \o rest = b
    <2> DEFINE y == u \o s
    <2>1. y \in Bytes
      BY <1>3
    <2>2. y \o rest = x
      BY <1>1, <1>3, JoinedThree
    <2> HIDE DEF y, x
    <2>3. (h \o y) \o rest = h \o (y \o rest)
      <3>1. h \in Bytes /\ y \in Bytes /\ rest \in Bytes
        BY <1>3, <2>1
      <3> QED
        BY <3>1, JoinedThree
    <2> QED
      BY <2>2, <2>3 DEF y
  <1>6. x \in Bytes
    BY <1>3, Joined
  <1> HIDE DEF x, w
  <1>7. b # <<>> /\ b[1] = ArrayMark /\ Tail(b) = x
    BY <1>1, <1>6, Tails DEF h
  <1> HIDE DEF b
  <1>8. ReadCommand(b) = readArray(x)
    BY <1>7, Zenon DEF ReadCommand
  <1>9. readInt(x).ok /\ readInt(x).val = n /\ readInt(x).rest = w
    BY <1>4, Answers
  <1>10. ~(n < 0)
    BY <1>1
  <1>11. readArray(x) = Got(args, rest)
    BY <1>2, <1>9, <1>10, Zenon DEF readArray
  <1> QED
    BY <1>1, <1>5, <1>8, <1>11

LEMMA CommandTorn ==
  ASSUME NEW args, Strings(args), NEW p \in Parts(writeCommand(args))
  PROVE  p \in Bytes /\ ~ReadCommand(p).ok
  <1> DEFINE s == FlattenSeq(Bulks(args))
             n == Len(args)
             i == readInt(Tail(p))
  <1>1. s \in Bytes /\ n \in Nat /\ ArrayMark \in Int /\ writeCommand(args) \in Bytes
        /\ writeCommand(args) = <<ArrayMark>> \o ((Decimal(n) \o CRLF) \o s)
    BY CommandIs, Marks
  <1>2. p \in Bytes
    BY <1>1, PartIs
  <1>3. \A q \in Parts(s) : ReadArgs(n, q) = Fail
    BY ArgsTorn
  <1> HIDE DEF s, n
  <1>4. \/ p = <<>>
        \/ p # <<>> /\ p[1] = ArrayMark /\ (i = Fail \/ \E q \in Parts(s) : i = Got(n, q))
    BY <1>1, HeadedTorn
  <1> HIDE DEF i
  <1>5. CASE p = <<>>
    BY <1>2, <1>5, Answers DEF ReadCommand
  <1>6. CASE p # <<>> /\ p[1] = ArrayMark
    <2>1. ReadCommand(p) = readArray(Tail(p))
      BY <1>6, Zenon DEF ReadCommand
    <2>2. CASE i = Fail
      <3>1. ~i.ok
        BY <2>2, Answers
      <3>2. readArray(Tail(p)) = Fail
        BY <3>1, Zenon DEF readArray, i
      <3> QED
        BY <1>2, <2>1, <3>2, Answers
    <2>3. CASE \E q \in Parts(s) : i = Got(n, q)
      <3>1. PICK q \in Parts(s) : i = Got(n, q)
        BY <2>3
      <3>2. i.ok /\ i.val = n /\ i.rest = q /\ ~(n < 0) /\ ReadArgs(n, q) = Fail
        BY <1>1, <1>3, <3>1, Answers
      <3>3. readArray(Tail(p)) = Fail
        BY <3>2, Zenon DEF readArray, i
      <3> QED
        BY <1>2, <2>1, <3>3, Answers
    <2> QED
      BY <1>4, <1>6, <2>2, <2>3
  <1> QED
    BY <1>4, <1>5, <1>6

----------------------------------------------------------------------------
(* The loop of Replay *)

LEMMA Stopped ==
  \A v, r : /\ ~[Got(v, r) EXCEPT !.ok = FALSE].ok
            /\ [Got(v, r) EXCEPT !.ok = FALSE].val = v
            /\ [[Got(v, r) EXCEPT !.ok = FALSE] EXCEPT !.ok = FALSE]
                 = [Got(v, r) EXCEPT !.ok = FALSE]
  BY DEF Got

\* The first k commands are read, and then there is an error.
LEMMA ReplayLoop ==
  ASSUME NEW b, NEW N \in Nat, Len(b) = N, NEW k \in 0 .. N,
         NEW X, NEW cs \in Seq(X), k <= Len(cs), \A i \in 1 .. k : cs[i] # <<>>,
         NEW R, R[0] = b,
         \A i \in 1 .. k : ReadCommand(R[i - 1]) = Got(cs[i], R[i]),
         k < N => ~ReadCommand(R[k]).ok
  PROVE  Replay(b) = SubSeq(cs, 1, k)
  <1> DEFINE Round(acc, cmd) ==
               IF ~acc.ok \/ ~cmd.ok THEN [acc EXCEPT !.ok = FALSE]
               ELSE Got(IF cmd.val = <<>> THEN acc.val ELSE Append(acc.val, cmd.val), cmd.rest)
             Body(g, i) ==
               IF i = 0 THEN Got(<<>>, b) ELSE Round(g[i - 1], ReadCommand(g[i - 1].rest))
             after == CHOOSE g : g = [i \in 0 .. N |-> Body(g, i)]
             stop == [Got(SubSeq(cs, 1, k), R[k]) EXCEPT !.ok = FALSE]
             At(i) == IF i <= k THEN Got(SubSeq(cs, 1, i), R[i]) ELSE stop
             f == [i \in 0 .. N |-> At(i)]
  <1>1. Replay(b) = after[N].val
    <2>1. Replay(b) = (CHOOSE g : g = [i \in 0 .. Len(b) |-> Body(g, i)])[Len(b)].val
      BY Zenon DEF Replay
    <2> HIDE DEF Body
    <2> QED
      BY <2>1, Zenon
  <1>2. \A i \in 0 .. N : f[i] = At(i)
    OBVIOUS
  <1>3. At(0) = Got(<<>>, b)
    <2>1. SubSeq(cs, 1, 0) = <<>> /\ 0 <= k
      BY SubSeqEmpty
    <2> QED
      BY <2>1
  <1>a. ~stop.ok /\ stop.val = SubSeq(cs, 1, k) /\ [stop EXCEPT !.ok = FALSE] = stop
    BY Stopped, Zenon
  <1>4. ASSUME NEW i \in 1 .. N PROVE At(i) = Round(At(i - 1), ReadCommand(At(i - 1).rest))
    <2> DEFINE cmd == ReadCommand(At(i - 1).rest)
    <2>1. CASE i <= k
      <3>1. i - 1 <= k /\ i \in 1 .. k /\ i \in 1 .. Len(cs)
        BY <2>1
      <3>2. At(i - 1).ok /\ At(i - 1).val = SubSeq(cs, 1, i - 1) /\ At(i - 1).rest = R[i - 1]
        BY <3>1, Answers
      <3>3. ReadCommand(R[i - 1]) = Got(cs[i], R[i]) /\ cs[i] # <<>>
        BY <3>1
      <3>4. SubSeq(cs, 1, i) = Append(SubSeq(cs, 1, i - 1), cs[i])
        BY <3>1, FirstAppend
      <3>5. At(i) = Got(SubSeq(cs, 1, i), R[i])
        BY <2>1
      <3> HIDE DEF At
      <3>6. cmd.ok /\ cmd.val = cs[i] /\ cmd.rest = R[i] /\ cmd.val # <<>>
        <4>1. cmd = Got(cs[i], R[i])
          BY <3>2, <3>3
        <4> HIDE DEF cmd
        <4> QED
          BY <3>3, <4>1, Answers
      <3> HIDE DEF cmd
      <3>7. Round(At(i - 1), cmd) = Got(Append(At(i - 1).val, cmd.val), cmd.rest)
        BY <3>2, <3>6, Zenon
      <3>8. At(i) = Round(At(i - 1), cmd)
        BY <3>2, <3>4, <3>5, <3>6, <3>7, Zenon
      <3> QED
        BY <3>8, Zenon DEF cmd
    <2>2. CASE i = k + 1
      <3>1. i - 1 = k /\ k < N /\ ~(i <= k) /\ i - 1 <= k
        BY <2>2
      <3>2. At(i - 1) = Got(SubSeq(cs, 1, k), R[k]) /\ At(i) = stop
        BY <3>1
      <3>3. ~ReadCommand(R[k]).ok
        BY <3>1
      <3> HIDE DEF At
      <3>4. At(i - 1).rest = R[k]
        BY <3>2, Answers
      <3>5. ~cmd.ok
        BY <3>3, <3>4, Zenon
      <3> HIDE DEF cmd
      <3>6. Round(At(i - 1), cmd) = [At(i - 1) EXCEPT !.ok = FALSE]
        BY <3>5, Zenon
      <3>7. At(i) = Round(At(i - 1), cmd)
        BY <3>2, <3>6, Zenon
      <3> QED
        BY <3>7, Zenon DEF cmd
    <2>3. CASE ~(i <= k) /\ i # k + 1
      <3>1. ~(i - 1 <= k)
        BY <2>3
      <3>2. At(i - 1) = stop /\ At(i) = stop
        BY <2>3, <3>1
      <3> HIDE DEF At, cmd
      <3> HIDE DEF stop
      <3>3. Round(stop, cmd) = [stop EXCEPT !.ok = FALSE]
        BY <1>a, Zenon
      <3>4. At(i) = Round(At(i - 1), cmd)
        BY <1>a, <3>2, <3>3, Zenon
      <3> QED
        BY <3>4, Zenon DEF cmd
    <2> QED
      BY <2>1, <2>2, <2>3
  <1> HIDE DEF At, Round
  <1>5. f = [i \in 0 .. N |-> Body(f, i)]
    <2>1. ASSUME NEW i \in 0 .. N PROVE f[i] = Body(f, i)
      <3>1. CASE i = 0
        BY <1>2, <1>3, <3>1
      <3>2. CASE i # 0
        <4>1. i \in 1 .. N /\ i - 1 \in 0 .. N
          BY <3>2
        <4>2. f[i] = At(i) /\ f[i - 1] = At(i - 1)
          BY <1>2, <4>1
        <4> HIDE DEF f
        <4> QED
          BY <1>4, <3>2, <4>1, <4>2
      <3> QED
        BY <3>1, <3>2
    <2> HIDE DEF Body
    <2> QED
      BY <2>1
  <1> HIDE DEF f, Body
  <1>6. after = [i \in 0 .. N |-> Body(after, i)]
    BY <1>5
  <1> HIDE DEF after
  <1> DEFINE S == {i \in 0 .. N : after[i] = f[i]}
  <1>7. \A i \in 0 .. N : after[i] = Body(after, i) /\ f[i] = Body(f, i)
    BY <1>5, <1>6
  <1>8. 0 \in S
    <2>1. 0 \in 0 .. N
      OBVIOUS
    <2>2. Body(after, 0) = Body(f, 0)
      BY DEF Body
    <2> QED
      BY <1>7, <2>1, <2>2
  <1>9. ASSUME NEW i \in 1 .. N, i - 1 \in S PROVE i \in S
    <2>1. i \in 0 .. N /\ after[i - 1] = f[i - 1]
      BY <1>9
    <2>2. Body(after, i) = Body(f, i)
      BY <2>1 DEF Body
    <2> QED
      BY <1>7, <2>1, <2>2
  <1> HIDE DEF S
  <1>10. 0 .. N \subseteq S
    BY <1>8, <1>9, Induction
  <1>11. N \in S /\ N \in 0 .. N
    BY <1>10
  <1>12. after[N] = At(N)
    BY <1>2, <1>11 DEF S
  <1>13. At(N).val = SubSeq(cs, 1, k)
    <2>1. CASE N = k
      <3>1. At(N) = Got(SubSeq(cs, 1, k), R[k])
        BY <2>1 DEF At
      <3> QED
        BY <3>1, Answers
    <2>2. CASE N # k
      <3>1. ~(N <= k)
        BY <2>2
      <3> QED
        BY <1>a, <3>1 DEF At
    <2> QED
      BY <2>1, <2>2
  <1> QED
    BY <1>1, <1>12, <1>13

----------------------------------------------------------------------------
(* Replay of whole and of cut files *)

Arguments == Seq(Bytes) \ {<<>>}

\* A sequence of commands.
IsCommands(cs) == cs \in Seq(Arguments)

RecordsOf(cs) == [i \in DOMAIN cs |-> writeCommand(cs[i])]

LEMMA CommandsAre ==
  ASSUME NEW cs, IsCommands(cs)
  PROVE  Len(cs) \in Nat /\ DOMAIN cs = 1 .. Len(cs)
         /\ \A i \in 1 .. Len(cs) : Strings(cs[i]) /\ cs[i] # <<>>
  <1>1. Len(cs) \in Nat /\ DOMAIN cs = 1 .. Len(cs) /\ \A i \in 1 .. Len(cs) : cs[i] \in Arguments
    BY DEF IsCommands
  <1>2. \A a \in Arguments : Strings(a) /\ a # <<>>
    BY DEF Arguments, Strings, IsLists, Bytes
  <1> QED
    BY <1>1, <1>2

LEMMA RecordsAre ==
  ASSUME NEW cs, IsCommands(cs)
  PROVE  /\ Strings(RecordsOf(cs)) /\ Len(RecordsOf(cs)) = Len(cs)
         /\ \A i \in 1 .. Len(cs) : RecordsOf(cs)[i] = writeCommand(cs[i]) /\ RecordsOf(cs)[i] # <<>>
  <1> DEFINE ss == RecordsOf(cs)
             N == Len(cs)
  <1>1. N \in Nat /\ DOMAIN cs = 1 .. N /\ \A i \in 1 .. N : Strings(cs[i])
    BY CommandsAre
  <1>2. \A i \in 1 .. N : writeCommand(cs[i]) \in Bytes /\ writeCommand(cs[i]) # <<>>
    BY <1>1, CommandIs
  <1>3. ss = [i \in 1 .. N |-> writeCommand(cs[i])]
    BY <1>1 DEF RecordsOf
  <1> HIDE DEF ss, N
  <1>4. ss = [i \in 1 .. N |-> ss[i]] /\ \A i \in 1 .. N : ss[i] = writeCommand(cs[i])
    BY <1>3
  <1>5. \A i \in 1 .. N : ss[i] \in Bytes /\ ss[i] # <<>>
    BY <1>2, <1>4
  <1>6. Strings(ss) /\ Len(ss) = N
    BY <1>1, <1>4, <1>5, StringsIf
  <1> QED
    BY <1>4, <1>5, <1>6 DEF ss, N

\* Joined strings that are not empty get longer.
LEMMA SumsGrow ==
  ASSUME NEW ss, Strings(ss), NEW f, Sums(f, ss), \A i \in 1 .. Len(ss) : ss[i] # <<>>
  PROVE  \A n \in 0 .. Len(ss) : /\ f[n] \in Bytes /\ Len(f[n]) \in Nat /\ Len(f[n]) >= n
                                 /\ \A m \in 0 .. n : Len(f[m]) <= Len(f[n])
  <1> DEFINE N == Len(ss)
             S == {n \in 0 .. N : Len(f[n]) >= n /\ \A m \in 0 .. n : Len(f[m]) <= Len(f[n])}
  <1>1. N \in Nat /\ f[0] = <<>> /\ Len(f[0]) = 0
    BY StringsAre, BytesAre DEF Sums
  <1>2. \A n \in 0 .. N : f[n] \in Bytes /\ Len(f[n]) \in Nat
    BY BytesAre DEF Sums
  <1>3. \A n \in 1 .. N : Len(f[n]) >= Len(f[n - 1]) + 1
    <2> TAKE n \in 1 .. N
    <2>1. f[n] = f[n - 1] \o ss[n] /\ n - 1 \in 0 .. N
      BY <1>1 DEF Sums
    <2>2. f[n - 1] \in Bytes /\ ss[n] \in Bytes /\ Len(ss[n]) \in Nat /\ Len(ss[n]) # 0
          /\ Len(f[n - 1]) \in Nat
      BY <1>2, <2>1, StringsAre, BytesAre
    <2>3. Len(f[n]) = Len(f[n - 1]) + Len(ss[n])
      BY <2>1, <2>2, Joined
    <2> QED
      BY <2>2, <2>3
  <1>4. 0 \in S
    BY <1>1
  <1>5. ASSUME NEW n \in 1 .. N, n - 1 \in S PROVE n \in S
    <2>1. n - 1 \in 0 .. N /\ n \in 0 .. N /\ Len(f[n]) \in Nat /\ Len(f[n - 1]) \in Nat
      BY <1>1, <1>2
    <2>2. Len(f[n - 1]) >= n - 1 /\ \A m \in 0 .. n - 1 : Len(f[m]) <= Len(f[n - 1])
      BY <1>5
    <2>3. Len(f[n]) >= n
      BY <1>3, <2>1, <2>2
    <2>4. ASSUME NEW m \in 0 .. n PROVE Len(f[m]) <= Len(f[n])
      <3>1. CASE m = n
        BY <2>1, <3>1
      <3>2. CASE m # n
        <4>1. m \in 0 .. n - 1 /\ m \in 0 .. N
          BY <3>2, <1>1
        <4>2. Len(f[m]) \in Nat /\ Len(f[m]) <= Len(f[n - 1])
          BY <1>2, <2>2, <4>1
        <4> QED
          BY <1>3, <2>1, <4>2
      <3> QED
        BY <3>1, <3>2
    <2> QED
      BY <2>1, <2>3, <2>4
  <1> HIDE DEF S
  <1>6. 0 .. N \subseteq S
    <2> HIDE DEF N
    <2> QED
      BY <1>1, <1>4, <1>5, Induction
  <1> QED
    BY <1>2, <1>6 DEF S

\* Whole commands and then something that is none.
LEMMA ReplayOf ==
  ASSUME NEW cs, IsCommands(cs), NEW f, Sums(f, RecordsOf(cs)),
         NEW k \in 0 .. Len(cs), NEW z \in Bytes, ~ReadCommand(z).ok
  PROVE  Replay(f[k] \o z) = SubSeq(cs, 1, k)
  <1> DEFINE ss == RecordsOf(cs)
             b == f[k] \o z
             N == Len(b)
  <1>1. Strings(ss) /\ Len(ss) = Len(cs) /\ Len(cs) \in Nat /\ k \in Nat
        /\ \A i \in 1 .. Len(cs) : ss[i] = writeCommand(cs[i]) /\ ss[i] # <<>>
    BY RecordsAre, CommandsAre
  <1>2. Sums(f, ss)
    OBVIOUS
  <1> HIDE DEF ss
  <1>3. f[k] \in Bytes /\ Len(f[k]) \in Nat /\ Len(f[k]) >= k
    BY <1>1, <1>2, SumsGrow
  <1>4. b \in Bytes /\ N \in Nat /\ k \in 0 .. N
    <2> DEFINE a == f[k]
    <2>1. a \in Bytes /\ Len(a) >= k /\ Len(a) \in Nat /\ Len(z) \in Nat
      BY <1>3, BytesAre
    <2> HIDE DEF a
    <2>2. a \o z \in Bytes /\ Len(a \o z) = Len(a) + Len(z)
      BY <2>1, Joined
    <2>3. Len(a \o z) \in Nat /\ k \in 0 .. Len(a \o z)
      BY <1>1, <2>1, <2>2
    <2> QED
      BY <2>2, <2>3 DEF a
  <1>5. PICK R : Rests(R, ss, k, z) /\ R[0] = b
    <2>1. Strings(ss) /\ Sums(f, ss) /\ k \in 0 .. Len(ss)
      BY <1>1, <1>2
    <2>2. Left(ss, f, k, z)
      BY <2>1, Divided, Zenon
    <2> QED
      BY <2>2 DEF Left
  <1> HIDE DEF b
  <1>6. ASSUME NEW i \in 1 .. k PROVE ReadCommand(R[i - 1]) = Got(cs[i], R[i])
    <2>1. i \in 1 .. Len(cs) /\ i \in 0 .. k
      BY <1>1
    <2>2. R[i - 1] = writeCommand(cs[i]) \o R[i] /\ R[i] \in Bytes /\ Strings(cs[i])
      BY <1>1, <1>5, <2>1, CommandsAre DEF Rests
    <2> QED
      BY <2>2, CommandRead
  <1>7. R[k] = z
    BY <1>5 DEF Rests
  <1>8. cs \in Seq(Arguments) /\ k <= Len(cs) /\ \A i \in 1 .. k : cs[i] # <<>>
    BY <1>1, CommandsAre DEF IsCommands
  <1>9. Replay(R[0]) = SubSeq(cs, 1, k)
    <2>1. Len(R[0]) = N /\ ~ReadCommand(R[k]).ok
      BY <1>5, <1>7
    <2> HIDE DEF N
    <2> QED
      BY <1>4, <1>6, <1>8, <2>1, ReplayLoop
  <1> QED
    BY <1>5, <1>9 DEF b

LEMMA NothingRead == ~ReadCommand(<<>>).ok
  BY Answers DEF ReadCommand

LEMMA ReplayWhole ==
  ASSUME NEW cs, IsCommands(cs)
  PROVE  FlattenSeq(RecordsOf(cs)) \in Bytes /\ Replay(FlattenSeq(RecordsOf(cs))) = cs
  <1> DEFINE ss == RecordsOf(cs)
             N == Len(cs)
  <1>1. Strings(ss) /\ Len(ss) = N /\ N \in Nat
    BY RecordsAre, CommandsAre
  <1>2. PICK f : Sums(f, ss) /\ FlattenSeq(ss) = f[N]
    BY <1>1, SumsExist
  <1>3. N \in 0 .. N /\ f[N] \in Bytes
    BY <1>1, <1>2 DEF Sums
  <1>4. f[N] \o <<>> = f[N] /\ <<>> \in Bytes
    BY <1>3, JoinedEmpty, BytesAre
  <1>5. Replay(f[N] \o <<>>) = SubSeq(cs, 1, N)
    <2> HIDE DEF N
    <2> DEFINE nil == <<>>
    <2>1. nil \in Bytes /\ ~ReadCommand(nil).ok
      BY <1>4, NothingRead
    <2> HIDE DEF nil
    <2>2. Replay(f[N] \o nil) = SubSeq(cs, 1, N)
      BY <1>2, <1>3, <2>1, ReplayOf DEF N
    <2> QED
      BY <2>2 DEF nil
  <1>6. SubSeq(cs, 1, N) = cs
    BY SubSeqFull DEF IsCommands
  <1> QED
    BY <1>2, <1>3, <1>4, <1>5, <1>6

----------------------------------------------------------------------------
(* The stream *)

LEMMA RecordsIs == Records = RecordsOf(cmds)
  BY DEF Records, RecordsOf

LEMMA StreamCut ==
  ASSUME IsCommands(cmds)
  PROVE  CutReplaysWhole
  <1> DEFINE ss == Records
             N == Len(cmds)
             file == FlattenSeq(ss)
  <1>1. Strings(ss) /\ Len(ss) = N /\ N \in Nat /\ ss = RecordsOf(cmds)
        /\ \A i \in 1 .. N : ss[i] = writeCommand(cmds[i]) /\ ss[i] # <<>>
    BY RecordsAre, CommandsAre, RecordsIs
  <1> HIDE DEF ss
  <1>2. PICK f : Sums(f, ss) /\ file = f[N]
    BY <1>1, SumsExist
  <1>3. \A n \in 0 .. N : /\ f[n] \in Bytes /\ Len(f[n]) \in Nat /\ Len(f[n]) >= n
                          /\ \A m \in 0 .. n : Len(f[m]) <= Len(f[n])
    BY <1>1, <1>2, SumsGrow
  <1>4. file \in Bytes /\ Len(file) \in Nat /\ N \in 0 .. N
    BY <1>1, <1>2, <1>3
  <1>5. \A n \in 0 .. N : FlattenSeq(SubSeq(ss, 1, n)) = f[n]
    BY <1>1, <1>2, SumsOfFirst
  <1>a. Replay(file) = cmds
    BY <1>1, ReplayWhole DEF ss
  <1>b. SubSeq(cmds, 1, N) = cmds
    BY SubSeqFull DEF IsCommands
  <1> HIDE DEF file
  <1>6. ASSUME NEW cut \in 0 .. Len(file)
        PROVE  Replay(SubSeq(file, 1, cut)) =
                 SubSeq(cmds, 1, Max({n \in 0 .. N : Len(FlattenSeq(SubSeq(ss, 1, n))) <= cut}))
    <2> DEFINE whole == {n \in 0 .. N : Len(FlattenSeq(SubSeq(ss, 1, n))) <= cut}
               p == SubSeq(file, 1, cut)
    <2>1. whole = {n \in 0 .. N : Len(f[n]) <= cut}
      BY <1>5
    <2> HIDE DEF whole
    <2>2. whole \in SUBSET Int
      BY <2>1
    <2>3. CASE cut = Len(file)
      <3>1. p = file
        BY <1>4, <2>3, SubSeqFull DEF Bytes
      <3>2. N \in whole /\ \A n \in whole : N >= n
        BY <1>1, <1>2, <1>4, <2>1, <2>3
      <3> HIDE DEF N
      <3>3. Max(whole) = N
        BY <2>2, <3>2, GreatestOf
      <3> HIDE DEF p
      <3>4. Replay(p) = SubSeq(cmds, 1, Max(whole))
        BY <1>a, <1>b, <3>1, <3>3
      <3> QED
        BY <3>4 DEF p, whole
    <2>4. CASE cut # Len(file)
      <3>1. p \in Parts(file) /\ Len(p) = cut
        <4>1. cut \in 0 .. Len(file) - 1
          BY <1>4, <2>4
        <4>2. p \in Parts(file)
          BY <4>1 DEF Parts
        <4>3. Len(p) = cut
          BY <1>4, <4>1, Cut DEF Bytes
        <4> QED
          BY <4>2, <4>3
      <3> HIDE DEF p
      <3>2. PICK n \in 1 .. N : \E q \in Parts(ss[n]) : p = f[n - 1] \o q
        <4>1. Strings(ss) /\ Sums(f, ss) /\ p \in Parts(f[Len(ss)])
          BY <1>1, <1>2, <3>1
        <4>2. TornIn(ss, f, p)
          BY <4>1, Divided, Zenon
        <4> QED
          BY <1>1, <4>2 DEF TornIn
      <3>3. PICK q \in Parts(ss[n]) : p = f[n - 1] \o q
        BY <3>2
      <3> DEFINE k == n - 1
      <3>4. k \in 0 .. N /\ n \in 0 .. N /\ n = k + 1 /\ k \in Nat
        BY <1>1
      <3>5. ss[n] \in Bytes /\ ss[n] = writeCommand(cmds[n]) /\ Strings(cmds[n])
        BY <1>1, StringsAre, CommandsAre
      <3>6. q \in Bytes /\ ~ReadCommand(q).ok
        BY <3>3, <3>5, CommandTorn
      <3>7. Len(q) < Len(ss[n]) /\ Len(q) \in Nat /\ Len(ss[n]) \in Nat
        BY <3>5, PartIs, BytesAre
      <3>8. f[n] = f[k] \o ss[n] /\ p = f[k] \o q
        BY <1>1, <1>2, <3>3 DEF Sums
      <3> HIDE DEF k
      <3>9. Len(f[k]) \in Nat /\ Len(f[n]) = Len(f[k]) + Len(ss[n]) /\ cut = Len(f[k]) + Len(q)
        <4>1. f[k] \in Bytes /\ Len(f[k]) \in Nat
          BY <1>3, <3>4
        <4>2. Len(f[n]) = Len(f[k]) + Len(ss[n])
          BY <3>5, <3>8, <4>1, Joined
        <4>3. Len(p) = Len(f[k]) + Len(q)
          BY <3>6, <3>8, <4>1, Joined
        <4> QED
          BY <3>1, <4>1, <4>2, <4>3
      <3>10. k \in whole
        BY <2>1, <3>4, <3>7, <3>9
      <3>11. \A m \in whole : k >= m
        <4> SUFFICES ASSUME NEW m \in whole, ~(k >= m) PROVE FALSE
          OBVIOUS
        <4>1. m \in 0 .. N /\ Len(f[m]) <= cut /\ n \in 0 .. m
          BY <2>1, <3>4
        <4>2. Len(f[n]) <= Len(f[m]) /\ Len(f[m]) \in Nat
          BY <1>3, <4>1
        <4> QED
          <5> DEFINE u == Len(f[n])
                     v == Len(f[m])
                     w == Len(f[k])
                     x == Len(q)
                     y == Len(ss[n])
          <5>1. /\ v \in Nat /\ w \in Nat /\ x \in Nat /\ y \in Nat
                /\ u = w + y /\ cut = w + x /\ x < y /\ v <= cut /\ u <= v
            BY <3>7, <3>9, <4>1, <4>2
          <5> HIDE DEF u, v, w, x, y
          <5> QED
            BY <5>1
      <3>12. Max(whole) = k
        BY <2>2, <3>10, <3>11, GreatestOf
      <3>13. Replay(f[k] \o q) = SubSeq(cmds, 1, k)
        <4>1. IsCommands(cmds) /\ Sums(f, RecordsOf(cmds)) /\ k \in 0 .. Len(cmds)
          BY <1>1, <1>2, <3>4
        <4> QED
          BY <3>6, <4>1, ReplayOf
      <3>14. Replay(p) = SubSeq(cmds, 1, Max(whole))
        BY <3>8, <3>12, <3>13
      <3> QED
        BY <3>14 DEF p, whole
    <2> QED
      BY <2>3, <2>4
  <1> QED
    BY <1>6, Zenon DEF CutReplaysWhole, file, ss

LEMMA StreamInit == Init => IsCommands(cmds)
  BY DEF Init, IsCommands, Arguments

LEMMA StreamStep == IsCommands(cmds) /\ [Next]_vars => IsCommands(cmds)'
  <1> SUFFICES ASSUME IsCommands(cmds), [Next]_vars PROVE IsCommands(cmds')
    BY DEF IsCommands
  <1> DEFINE N == Len(cmds)
             last == cmds[N]
  <1>0. <<>> \in Bytes
    BY BytesAre
  <1>1. ASSUME NEW a \in Seq(Bytes), a # <<>>, cmds # <<>>, cmds' = [cmds EXCEPT ![N] = a]
        PROVE  IsCommands(cmds')
    <2>1. a \in Arguments
      BY <1>1 DEF Arguments
    <2> QED
      BY <1>1, <2>1 DEF IsCommands
  <1>2. cmds # <<>> => N \in 1 .. N /\ last \in Seq(Bytes) /\ last # <<>>
    BY DEF IsCommands, Arguments
  <1>3. CASE AddCommand
    <2>1. <<<<>>>> \in Arguments
      <3> DEFINE nil == <<>>
      <3>1. nil \in Bytes
        BY <1>0
      <3> HIDE DEF nil
      <3>2. <<nil>> \in Seq(Bytes) /\ <<nil>> # <<>>
        BY <3>1
      <3> QED
        BY <3>2 DEF Arguments, nil
    <2>2. cmds' = Append(cmds, <<<<>>>>)
      BY <1>3 DEF AddCommand, GrowStream
    <2> QED
      BY <2>1, <2>2, AppendProperties DEF IsCommands
  <1>4. CASE AddArgument
    <2> DEFINE a == Append(last, <<>>)
    <2>1. cmds # <<>> /\ cmds' = [cmds EXCEPT ![N] = a]
      BY <1>4 DEF AddArgument, GrowStream
    <2>2. a \in Seq(Bytes) /\ a # <<>>
      BY <1>0, <1>2, <2>1, AppendProperties, AppendNotEmpty
    <2> HIDE DEF a
    <2> QED
      BY <1>1, <2>1, <2>2
  <1>5. CASE AddChunk
    <2>1. PICK chunk \in Chunks :
            cmds' = [cmds EXCEPT ![Len(cmds)][Len(Last(cmds))] = @ \o chunk]
      BY <1>5 DEF AddChunk, GrowStream
    <2> DEFINE M == Len(last)
               e == last[M] \o chunk
               a == [last EXCEPT ![M] = e]
    <2>2. cmds # <<>> /\ Last(cmds) = last
      BY <1>5 DEF AddChunk, Last
    <2>3. last \in Seq(Bytes) /\ last # <<>> /\ M \in 1 .. M
      BY <1>2, <2>2
    <2>4. chunk \in Bytes
      <3>1. chunk \in Seq(Byte) /\ Byte \subseteq Int
        BY BytesAssumption DEF Byte
      <3> QED
        BY <3>1, SeqMonotonic DEF Bytes
    <2>5. e \in Bytes
      BY <2>3, <2>4, Joined
    <2>6. cmds' = [cmds EXCEPT ![N] = a]
      BY <2>1, <2>2
    <2> HIDE DEF e
    <2>7. a \in Seq(Bytes) /\ Len(a) = M
      BY <2>3, <2>5, ExceptSeq
    <2>8. a # <<>>
      BY <2>3, <2>7
    <2> HIDE DEF a
    <2> QED
      BY <1>1, <2>2, <2>6, <2>7, <2>8
  <1>6. CASE cmds' = cmds
    BY <1>6
  <1> QED
    BY <1>3, <1>4, <1>5, <1>6
      DEF Next, GrowPattern, AddOption, AddShard, Execute, Wait, vars

----------------------------------------------------------------------------
(* Lines of words *)

\* What the loop of splitInline has when the words o and the bytes c are read.
Split(o, c) == [out |-> o, cur |-> c]

InlineRound(line, acc, i) ==
  IF line[i] # Space THEN [acc EXCEPT !.cur = @ \o Copied(line, i)]
  ELSE IF acc.cur = <<>> THEN acc
  ELSE [out |-> Append(acc.out, acc.cur), cur |-> <<>>]

LEMMA InlineRounds ==
  ASSUME NEW o, NEW c, NEW line, NEW i
  PROVE  /\ line[i] # Space => InlineRound(line, Split(o, c), i) = Split(o, c \o Copied(line, i))
         /\ (line[i] = Space /\ c = <<>>) => InlineRound(line, Split(o, c), i) = Split(o, c)
         /\ (line[i] = Space /\ c # <<>>) =>
               InlineRound(line, Split(o, c), i) = Split(Append(o, c), <<>>)
  BY DEF InlineRound, Split

LEMMA CopiedIs ==
  ASSUME NEW line \in Bytes, NEW i \in 1 .. Len(line)
  PROVE  Copied(line, i) \in Bytes
  <1>1. line[i] \in Int
    BY BytesAre
  <1>2. <<line[i]>> \in Bytes /\ <<239, 191, 189>> \in Bytes
    BY <1>1 DEF Bytes
  <1> QED
    BY <1>2, Zenon DEF Copied

LEMMA PieceIs ==
  ASSUME NEW a \in Seq(Int), NEW j \in 1 .. Len(a), NEW k \in 1 .. Len(a), j <= k,
         NEW n, n = (k - j) + 1
  PROVE  LET u == SubSeq(a, j, k)
         IN  n \in Nat /\ u \in Seq(Int) /\ Len(u) = n /\ \A i \in 1 .. n : u[i] = a[(j + i) - 1]
  <1>1. n \in Nat /\ Len(a) \in Nat
    OBVIOUS
  <1>2. SubSeq(a, j, k) \in Seq(Int)
    OBVIOUS
  <1>3. Len(SubSeq(a, j, k)) = n
    OBVIOUS
  <1>4. ASSUME NEW i \in 1 .. n PROVE SubSeq(a, j, k)[i] = a[(j + i) - 1]
    OBVIOUS
  <1> QED
    BY <1>1, <1>2, <1>3, <1>4

\* Strings of whole characters stay so in a longer line.
LEMMA RuneInside ==
  ASSUME NEW line \in Bytes, NEW a \in Bytes, NEW p \in Nat, p + Len(a) <= Len(line),
         \A m \in 1 .. Len(a) : line[p + m] = a[m],
         NEW m \in 1 .. Len(a), InRune(a, m)
  PROVE  Copied(line, p + m) = <<a[m]>>
  <1>1. Len(a) \in Nat /\ Len(line) \in Nat /\ DOMAIN a = 1 .. Len(a) /\ DOMAIN line = 1 .. Len(line)
    BY BytesAre
  <1>2. PICK j \in (m - 3 .. m) \cap DOMAIN a, k \in (m .. m + 3) \cap DOMAIN a :
          IsRune(SubSeq(a, j, k))
    BY DEF InRune
  <1>3. /\ p + j \in ((p + m) - 3 .. p + m) \cap DOMAIN line
        /\ p + k \in (p + m .. (p + m) + 3) \cap DOMAIN line
        /\ j \in 1 .. Len(a) /\ k \in 1 .. Len(a) /\ j <= k
    BY <1>1
  <1> DEFINE u == SubSeq(a, j, k)
             v == SubSeq(line, p + j, p + k)
             n == (k - j) + 1
  <1>4. n \in Nat /\ u \in Seq(Int) /\ Len(u) = n /\ \A i \in 1 .. n : u[i] = a[(j + i) - 1]
    <2>1. a \in Seq(Int) /\ j \in 1 .. Len(a) /\ k \in 1 .. Len(a) /\ j <= k
      BY <1>3 DEF Bytes
    <2> HIDE DEF n
    <2>2. n = (k - j) + 1
      BY DEF n
    <2> QED
      BY <2>1, <2>2, PieceIs
  <1>5. v \in Seq(Int) /\ Len(v) = n /\ \A i \in 1 .. n : v[i] = line[((p + j) + i) - 1]
    <2> DEFINE y == p + j
               z == p + k
    <2>1. line \in Seq(Int) /\ y \in 1 .. Len(line) /\ z \in 1 .. Len(line) /\ y <= z
          /\ n = (z - y) + 1
      BY <1>1, <1>3 DEF Bytes
    <2> HIDE DEF n, y, z
    <2>2. LET w == SubSeq(line, y, z)
          IN  w \in Seq(Int) /\ Len(w) = n /\ \A i \in 1 .. n : w[i] = line[(y + i) - 1]
      BY <2>1, PieceIs
    <2> QED
      BY <2>2, Zenon DEF y, z
  <1> HIDE DEF u, v
  <1>6. ASSUME NEW i \in 1 .. n PROVE v[i] = u[i]
    <2>1. (j + i) - 1 \in 1 .. Len(a) /\ ((p + j) + i) - 1 = p + ((j + i) - 1)
      BY <1>1, <1>3
    <2> QED
      BY <1>4, <1>5, <2>1
  <1> HIDE DEF n
  <1>7. v = u
    BY <1>4, <1>5, <1>6, SeqEqual
  <1>8. IsRune(v)
    BY <1>2, <1>7 DEF u
  <1>9. InRune(line, p + m)
    BY <1>3, <1>8, Zenon DEF InRune, v
  <1>10. line[p + m] = a[m]
    OBVIOUS
  <1> QED
    BY <1>9, <1>10, Zenon DEF Copied

Splits(g, line) ==
  /\ g[0] = Split(<<>>, <<>>)
  /\ \A i \in 1 .. Len(line) : g[i] = InlineRound(line, g[i - 1], i)

LEMMA InlineDef ==
  ASSUME NEW line \in Bytes
  PROVE  \E g : /\ Splits(g, line)
                /\ splitInline(line) = IF g[Len(line)].cur = <<>> THEN g[Len(line)].out
                                       ELSE Append(g[Len(line)].out, g[Len(line)].cur)
  <1> DEFINE N == Len(line)
             W == Seq(Bytes)
             V == [out : W, cur : Bytes]
             step == [i \in 1 .. N |-> [v \in V |-> InlineRound(line, v, i)]]
             Body(g, i) == IF i = 0 THEN Split(<<>>, <<>>) ELSE InlineRound(line, g[i - 1], i)
             after == CHOOSE g : g = [i \in 0 .. N |-> Body(g, i)]
  <1>1. N \in Nat /\ \A i \in 1 .. N : Copied(line, i) \in Bytes
    BY BytesAre, CopiedIs
  <1>2. <<>> \in W /\ <<>> \in Bytes /\ (\A c, d \in Bytes : c \o d \in Bytes)
        /\ \A o \in W, c \in Bytes : Append(o, c) \in W
    <2>1. \A c, d \in Bytes : c \o d \in Bytes
      BY Joined
    <2>2. \A o \in W, c \in Bytes : Append(o, c) \in W
      BY AppendProperties
    <2>3. <<>> \in W
      OBVIOUS
    <2> QED
      BY <2>1, <2>2, <2>3, BytesAre
  <1> HIDE DEF W
  <1>3. \A v \in V, i \in 1 .. N : InlineRound(line, v, i) \in V
    <2> HIDE DEF N
    <2> QED
      BY <1>1, <1>2 DEF InlineRound
  <1>4. Split(<<>>, <<>>) \in V
    BY <1>2 DEF Split
  <1>5. splitInline(line) = IF after[N].cur = <<>> THEN after[N].out
                            ELSE Append(after[N].out, after[N].cur)
    BY Zenon DEF splitInline, InlineRound, Split
  <1> HIDE DEF V
  <1>6. step \in [1 .. N -> [V -> V]]
    BY <1>1, <1>3
  <1>7. \A i \in 1 .. N : \A v \in V : step[i][v] = InlineRound(line, v, i)
    OBVIOUS
  <1> HIDE DEF step, N
  <1> DEFINE b == Split(<<>>, <<>>)
  <1> HIDE DEF b
  <1>8. PICK f : Rounds(f, V, b, N, step)
    <2>1. b \in V
      BY <1>4 DEF b
    <2> QED
      BY <1>1, <1>6, <2>1, RoundsExist, Zenon
  <1>9. f \in [0 .. N -> V] /\ f[0] = b /\ \A i \in 1 .. N : f[i] = step[i][f[i - 1]]
    BY <1>8 DEF Rounds
  <1>10. f = [i \in 0 .. N |-> Body(f, i)]
    <2>1. ASSUME NEW i \in 0 .. N PROVE f[i] = Body(f, i)
      <3>1. CASE i = 0
        BY <1>9, <3>1 DEF b
      <3>2. CASE i # 0
        <4>1. i \in 1 .. N /\ i - 1 \in 0 .. N
          BY <1>1, <3>2
        <4>2. f[i - 1] \in V
          BY <1>9, <4>1
        <4>3. f[i] = InlineRound(line, f[i - 1], i)
          BY <1>7, <1>9, <4>1, <4>2
        <4> QED
          BY <3>2, <4>3
      <3> QED
        BY <3>1, <3>2
    <2> HIDE DEF Body
    <2> QED
      BY <1>9, <2>1
  <1> HIDE DEF Body
  <1>11. after = [i \in 0 .. N |-> Body(after, i)]
    BY <1>10
  <1> HIDE DEF after
  <1>12. Splits(after, line)
    <2>1. \A i \in 0 .. N : after[i] = Body(after, i)
      BY <1>11
    <2>2. after[0] = Split(<<>>, <<>>)
      BY <1>1, <2>1 DEF Body
    <2>3. ASSUME NEW i \in 1 .. N PROVE after[i] = InlineRound(line, after[i - 1], i)
      <3>1. i \in 0 .. N /\ i # 0
        BY <1>1
      <3> QED
        BY <2>1, <3>1 DEF Body
    <2> QED
      BY <2>2, <2>3 DEF Splits, N
  <1> QED
    BY <1>5, <1>12 DEF N

\* A word and the two blanks behind it.
WordAt(line, g, p, o, a, n) ==
  /\ p \in Nat /\ a \in Bytes /\ n \in Nat /\ Len(a) = n /\ n # 0
  /\ \A m \in 1 .. n : line[p + m] # Space /\ Copied(line, p + m) = <<a[m]>>
  /\ line[p + (n + 1)] = Space /\ line[p + (n + 2)] = Space
  /\ \A m \in 1 .. n + 2 : g[p + m] = InlineRound(line, g[p + (m - 1)], p + m)
  /\ g[p] = Split(o, <<>>)

LEMMA WordSplit ==
  \A line, g, p, o, a, n :
    WordAt(line, g, p, o, a, n) => g[p + (n + 2)] = Split(Append(o, a), <<>>)
  <1> SUFFICES ASSUME NEW line, NEW g, NEW p, NEW o, NEW a, NEW n, WordAt(line, g, p, o, a, n)
               PROVE  g[p + (n + 2)] = Split(Append(o, a), <<>>)
    OBVIOUS
  <1> USE DEF WordAt
  <1> DEFINE S == {m \in 0 .. n : g[p + m] = Split(o, SubSeq(a, 1, m))}
  <1>1. 0 \in S
    <2>1. SubSeq(a, 1, 0) = <<>> /\ p + 0 = p /\ 0 \in 0 .. n
      BY SubSeqEmpty
    <2> QED
      BY <2>1
  <1>2. ASSUME NEW m \in 1 .. n, m - 1 \in S PROVE m \in S
    <2>1. m \in 0 .. n /\ m \in 1 .. n + 2 /\ m \in 1 .. Len(a)
      OBVIOUS
    <2>2. g[p + (m - 1)] = Split(o, SubSeq(a, 1, m - 1))
      BY <1>2
    <2>3. g[p + m] = InlineRound(line, Split(o, SubSeq(a, 1, m - 1)), p + m)
          /\ line[p + m] # Space /\ Copied(line, p + m) = <<a[m]>>
      BY <2>1, <2>2
    <2>4. SubSeq(a, 1, m) = Append(SubSeq(a, 1, m - 1), a[m])
      BY <2>1, FirstAppend DEF Bytes
    <2> DEFINE c == SubSeq(a, 1, m - 1)
    <2>a. c \in Seq(Int) /\ a[m] \in Int
      BY <2>1 DEF Bytes
    <2> HIDE DEF c
    <2>b. c \o <<a[m]>> = Append(c, a[m])
      BY <2>a
    <2>5. g[p + m] = Split(o, Append(c, a[m]))
      <3>1. InlineRound(line, Split(o, c), p + m) = Split(o, c \o Copied(line, p + m))
        BY <2>3, InlineRounds
      <3> QED
        BY <2>3, <2>b, <3>1, Zenon DEF c
    <2> QED
      BY <2>1, <2>4, <2>5 DEF c
  <1> HIDE DEF S
  <1>3. 0 .. n \subseteq S
    BY <1>1, <1>2, Induction
  <1>4. g[p + n] = Split(o, a)
    <2>1. n \in S
      BY <1>3
    <2>2. SubSeq(a, 1, n) = a
      BY SubSeqFull DEF Bytes
    <2> QED
      BY <2>1, <2>2 DEF S
  <1>5. a # <<>>
    BY BytesAre
  <1>6. g[p + (n + 1)] = Split(Append(o, a), <<>>)
    <2>1. n + 1 \in 1 .. n + 2 /\ (n + 1) - 1 = n
      OBVIOUS
    <2>2. g[p + (n + 1)] = InlineRound(line, g[p + ((n + 1) - 1)], p + (n + 1))
      BY <2>1
    <2>3. g[p + (n + 1)] = InlineRound(line, Split(o, a), p + (n + 1))
      BY <1>4, <2>1, <2>2
    <2> QED
      BY <1>5, <2>3, InlineRounds
  <1>7. g[p + (n + 2)] = InlineRound(line, g[p + (n + 1)], p + (n + 2))
    <2>1. n + 2 \in 1 .. n + 2 /\ (n + 2) - 1 = n + 1
      OBVIOUS
    <2>2. g[p + (n + 2)] = InlineRound(line, g[p + ((n + 2) - 1)], p + (n + 2))
      BY <2>1
    <2> QED
      BY <2>1, <2>2
  <1> QED
    BY <1>6, <1>7, InlineRounds

\* The bytes of a string among those of the joined strings.
Placed(ss, f, n) ==
  LET file == f[Len(ss)]
      p == Len(f[n - 1])
  IN  /\ p \in Nat /\ Len(ss[n]) \in Nat /\ Len(f[n]) = p + Len(ss[n])
      /\ p + Len(ss[n]) <= Len(file) /\ Len(file) \in Nat
      /\ \A m \in 1 .. Len(ss[n]) : file[p + m] = ss[n][m]

LEMMA SumsAt ==
  ASSUME NEW ss, Strings(ss), NEW f, Sums(f, ss), NEW n \in 1 .. Len(ss)
  PROVE  Placed(ss, f, n)
  <1> DEFINE N == Len(ss)
             nil == <<>>
  <1>1. N \in Nat /\ N \in 0 .. Len(ss) /\ n - 1 \in 0 .. N /\ n \in 0 .. N /\ ss[n] \in Bytes /\ nil \in Bytes
    BY StringsAre, BytesAre
  <1>2. f[n - 1] \in Bytes /\ f[n] \in Bytes /\ f[N] \in Bytes /\ f[n] = f[n - 1] \o ss[n]
    BY <1>1 DEF Sums
  <1> HIDE DEF nil
  <1>3. PICK R : Rests(R, ss, N, nil) /\ R[0] = f[N] \o nil /\ \A i \in 0 .. N : R[0] = f[i] \o R[i]
    <2>1. Left(ss, f, N, nil)
      BY <1>1, Divided, Zenon
    <2> QED
      BY <2>1 DEF Left
  <1>4. R[0] = f[N]
    BY <1>2, <1>3, JoinedEmpty DEF nil
  <1>5. R[n] \in Bytes
    BY <1>1, <1>3 DEF Rests
  <1> DEFINE a == f[n - 1]
             b == ss[n]
             c == R[n]
             d == a \o b
  <1>6. a \in Bytes /\ b \in Bytes /\ c \in Bytes /\ f[n] = d /\ f[N] = f[n] \o R[n]
    BY <1>1, <1>2, <1>3, <1>4, <1>5
  <1>7. f[N] = d \o c
    BY <1>6, Zenon
  <1> HIDE DEF a, b, c
  <1>8. /\ d \in Bytes /\ Len(d) = Len(a) + Len(b) /\ Len(a) \in Nat /\ Len(b) \in Nat
        /\ \A m \in 1 .. Len(b) : d[Len(a) + m] = b[m]
    BY <1>6, Joined, BytesAre
  <1> HIDE DEF d
  <1>9. /\ Len(d \o c) = Len(d) + Len(c) /\ Len(c) \in Nat
        /\ \A m \in 1 .. Len(d) : (d \o c)[m] = d[m]
    <2>1. d \in Bytes /\ c \in Bytes
      BY <1>6, <1>8
    <2>2. Len(c) \in Nat
      BY <2>1, BytesAre
    <2> QED
      BY <2>1, <2>2, Joined
  <1> DEFINE e == d \o c
  <1> HIDE DEF e
  <1>10. \A m \in 1 .. Len(b) : e[Len(a) + m] = b[m]
    <2> TAKE m \in 1 .. Len(b)
    <2>1. Len(a) + m \in 1 .. Len(d)
      BY <1>8
    <2> QED
      BY <1>8, <1>9, <2>1 DEF e
  <1>11. Len(e) \in Nat /\ Len(a) + Len(b) <= Len(e) /\ Len(d) = Len(a) + Len(b)
    BY <1>8, <1>9 DEF e
  <1> QED
    BY <1>6, <1>7, <1>8, <1>10, <1>11 DEF a, b, e, Placed

LEMMA SumsPlain ==
  ASSUME NEW ss, Strings(ss), NEW f, Sums(f, ss), \A i \in 1 .. Len(ss) : Plain(ss[i])
  PROVE  Plain(f[Len(ss)])
  <1> DEFINE N == Len(ss)
             S == {n \in 0 .. N : Plain(f[n])}
  <1>1. N \in Nat
    BY StringsAre
  <1>2. 0 \in S
    BY <1>1, BytesAre DEF Sums, Plain
  <1>3. ASSUME NEW n \in 1 .. N, n - 1 \in S PROVE n \in S
    <2> DEFINE a == f[n - 1]
               b == ss[n]
    <2>1. Plain(a) /\ Plain(b) /\ f[n] = a \o b /\ n \in 0 .. N
      BY <1>1, <1>3 DEF Sums
    <2> HIDE DEF a, b
    <2>2. Plain(a \o b)
      <3> DEFINE d == a \o b
      <3>1. a \in Bytes /\ b \in Bytes /\ Len(a) \in Nat /\ Len(b) \in Nat
        BY <2>1, BytesAre DEF Plain
      <3>2. /\ d \in Bytes /\ Len(d) = Len(a) + Len(b)
            /\ \A i \in 1 .. Len(a) : d[i] = a[i]
            /\ \A i \in 1 .. Len(b) : d[Len(a) + i] = b[i]
        BY <3>1, Joined
      <3> HIDE DEF d
      <3>3. ASSUME NEW i \in 1 .. Len(d) PROVE d[i] \notin {CR, LF}
        <4>1. CASE i <= Len(a)
          <5>1. i \in 1 .. Len(a)
            BY <3>1, <4>1
          <5> QED
            BY <2>1, <3>2, <5>1 DEF Plain
        <4>2. CASE ~(i <= Len(a))
          <5> DEFINE j == i - Len(a)
          <5>1. j \in 1 .. Len(b) /\ i = Len(a) + j
            BY <3>1, <3>2, <4>2
          <5> HIDE DEF j
          <5>2. d[i] = b[j]
            BY <3>2, <5>1
          <5> QED
            BY <2>1, <5>1, <5>2 DEF Plain
        <4> QED
          BY <4>1, <4>2
      <3>4. Plain(d)
        BY <3>2, <3>3 DEF Plain
      <3> QED
        BY <3>4 DEF d
    <2> QED
      BY <2>1, <2>2
  <1> HIDE DEF S
  <1>4. 0 .. N \subseteq S
    <2> HIDE DEF N
    <2> QED
      BY <1>1, <1>2, <1>3, Induction
  <1> QED
    BY <1>1, <1>4 DEF S

Blanks == <<Space, Space>>

\* The words of a line, each with the blanks behind it.
Spaced(args) == [i \in DOMAIN args |-> args[i] \o Blanks]

LEMMA SpacedIs ==
  ASSUME NEW args, Strings(args)
  PROVE  /\ Strings(Spaced(args)) /\ Len(Spaced(args)) = Len(args)
         /\ \A i \in 1 .. Len(args) :
              /\ Len(args[i]) \in Nat /\ Len(Spaced(args)[i]) = Len(args[i]) + 2
              /\ \A m \in 1 .. Len(args[i]) : Spaced(args)[i][m] = args[i][m]
              /\ Spaced(args)[i][Len(args[i]) + 1] = Space
              /\ Spaced(args)[i][Len(args[i]) + 2] = Space
  <1> DEFINE ss == Spaced(args)
             N == Len(args)
  <1>0. Blanks \in Bytes /\ Len(Blanks) = 2 /\ Blanks[1] = Space /\ Blanks[2] = Space
    BY BytesAre DEF Blanks, Space
  <1>1. N \in Nat /\ DOMAIN args = 1 .. N /\ \A i \in 1 .. N : args[i] \in Bytes
    BY StringsAre
  <1>2. ASSUME NEW a \in Bytes
        PROVE  LET b == a \o Blanks
               IN  /\ b \in Bytes /\ Len(a) \in Nat /\ Len(b) = Len(a) + 2
                   /\ \A m \in 1 .. Len(a) : b[m] = a[m]
                   /\ b[Len(a) + 1] = Space /\ b[Len(a) + 2] = Space
    <2> DEFINE b == a \o Blanks
    <2>1. /\ b \in Bytes /\ Len(a) \in Nat /\ Len(b) = Len(a) + Len(Blanks)
          /\ \A m \in 1 .. Len(a) : b[m] = a[m]
          /\ \A m \in 1 .. Len(Blanks) : b[Len(a) + m] = Blanks[m]
      BY <1>0, Joined, BytesAre
    <2> HIDE DEF b
    <2>2. 1 \in 1 .. Len(Blanks) /\ 2 \in 1 .. Len(Blanks)
      BY <1>0
    <2>3. b[Len(a) + 1] = Space /\ b[Len(a) + 2] = Space /\ Len(b) = Len(a) + 2
      BY <1>0, <2>1, <2>2
    <2> QED
      BY <2>1, <2>3 DEF b
  <1>3. ss = [i \in 1 .. N |-> args[i] \o Blanks]
    BY <1>1 DEF Spaced
  <1> HIDE DEF ss, N
  <1>4. ss = [i \in 1 .. N |-> ss[i]] /\ \A i \in 1 .. N : ss[i] = args[i] \o Blanks
    BY <1>3
  <1>5. \A i \in 1 .. N : ss[i] \in Bytes
    BY <1>1, <1>2, <1>4
  <1>6. Strings(ss) /\ Len(ss) = N
    BY <1>1, <1>4, <1>5, StringsIf
  <1>7. ASSUME NEW i \in 1 .. N
        PROVE  /\ Len(args[i]) \in Nat /\ Len(ss[i]) = Len(args[i]) + 2
               /\ \A m \in 1 .. Len(args[i]) : ss[i][m] = args[i][m]
               /\ ss[i][Len(args[i]) + 1] = Space
               /\ ss[i][Len(args[i]) + 2] = Space
    <2>1. args[i] \in Bytes /\ ss[i] = args[i] \o Blanks
      BY <1>1, <1>4
    <2> QED
      BY <1>2, <2>1
  <1> QED
    BY <1>6, <1>7 DEF ss, N

LEMMA WordsSplit ==
  ASSUME NEW args, Strings(args), NEW f, Sums(f, Spaced(args)),
         \A i \in 1 .. Len(args) :
            args[i] # <<>> /\ \A m \in 1 .. Len(args[i]) : args[i][m] # Space /\ InRune(args[i], m)
  PROVE  splitInline(f[Len(args)]) = args
  <1> DEFINE N == Len(args)
             ss == Spaced(args)
             line == f[N]
  <1>1. N \in Nat /\ (\A i \in 1 .. N : args[i] \in Bytes) /\ args \in Seq(Bytes)
    BY StringsAre DEF Strings, IsLists, Bytes
  <1>2. Strings(ss) /\ Len(ss) = N /\ Sums(f, ss)
    BY SpacedIs
  <1>3. \A i \in 1 .. N : /\ Len(args[i]) \in Nat /\ Len(ss[i]) = Len(args[i]) + 2
              /\ \A m \in 1 .. Len(args[i]) : ss[i][m] = args[i][m]
              /\ ss[i][Len(args[i]) + 1] = Space
              /\ ss[i][Len(args[i]) + 2] = Space
    BY SpacedIs
  <1> HIDE DEF ss
  <1>4. N \in 0 .. N /\ line \in Bytes /\ Len(f[0]) = 0 /\ Len(line) \in Nat
    BY <1>1, <1>2, BytesAre DEF Sums
  <1>5. PICK g : /\ Splits(g, line)
                 /\ splitInline(line) = IF g[Len(line)].cur = <<>> THEN g[Len(line)].out
                                        ELSE Append(g[Len(line)].out, g[Len(line)].cur)
    BY <1>4, InlineDef
  <1>6. g[0] = Split(<<>>, <<>>) /\ \A i \in 1 .. Len(line) : g[i] = InlineRound(line, g[i - 1], i)
    BY <1>5 DEF Splits
  <1> DEFINE S == {n \in 0 .. N : g[Len(f[n])] = Split(SubSeq(args, 1, n), <<>>)}
  <1>7. 0 \in S
    <2>1. SubSeq(args, 1, 0) = <<>> /\ 0 \in 0 .. N
      BY <1>1, SubSeqEmpty
    <2> QED
      BY <1>4, <1>6, <2>1
  <1>8. ASSUME NEW n \in 1 .. N, n - 1 \in S PROVE n \in S
    <2> DEFINE p == Len(f[n - 1])
               a == args[n]
               k == Len(a)
               o == SubSeq(args, 1, n - 1)
    <2>1. /\ p \in Nat /\ Len(f[n]) = p + Len(ss[n]) /\ p + Len(ss[n]) <= Len(line)
          /\ \A m \in 1 .. Len(ss[n]) : line[p + m] = ss[n][m]
      <3>1. n \in 1 .. Len(ss)
        BY <1>2
      <3>2. Placed(ss, f, n)
        BY <1>2, <3>1, SumsAt, Zenon
      <3> QED
        BY <1>2, <3>2 DEF Placed
    <2>2. a \in Bytes /\ k \in Nat /\ k # 0 /\ Len(ss[n]) = k + 2
      BY <1>1, <1>3, BytesAre
    <2>3. \A m \in 1 .. k : ss[n][m] = a[m] /\ a[m] # Space /\ InRune(a, m)
      BY <1>3
    <2>4. ss[n][k + 1] = Space /\ ss[n][k + 2] = Space
      BY <1>3
    <2>5. g[p] = Split(o, <<>>) /\ n \in 0 .. N
      BY <1>8
    <2>6. SubSeq(args, 1, n) = Append(o, a)
      BY <1>1, FirstAppend
    <2> HIDE DEF p, a, k, o, line
    <2>6a. p + k <= Len(line) /\ \A m \in 1 .. k : a[m] # Space /\ line[p + m] = a[m] /\ InRune(a, m)
      BY <1>4, <2>1, <2>2, <2>3
    <2>7. ASSUME NEW m \in 1 .. k
          PROVE  line[p + m] # Space /\ Copied(line, p + m) = <<a[m]>>
      <3>1. Copied(line, p + m) = <<a[m]>>
        BY <1>4, <2>1, <2>2, <2>6a, RuneInside DEF k
      <3> QED
        BY <2>6a, <3>1
    <2>8. line[p + (k + 1)] = Space /\ line[p + (k + 2)] = Space
      <3>1. k + 1 \in 1 .. Len(ss[n]) /\ k + 2 \in 1 .. Len(ss[n])
        BY <2>2
      <3> QED
        BY <2>1, <2>4, <3>1
    <2>9. \A m \in 1 .. k + 2 : g[p + m] = InlineRound(line, g[p + (m - 1)], p + m)
      <3> TAKE m \in 1 .. k + 2
      <3>1. p + m \in 1 .. Len(line) /\ (p + m) - 1 = p + (m - 1)
        BY <1>4, <2>1, <2>2
      <3>2. g[p + m] = InlineRound(line, g[(p + m) - 1], p + m)
        BY <1>6, <3>1
      <3> QED
        BY <3>1, <3>2
    <2>10. g[p + (k + 2)] = Split(Append(o, a), <<>>)
      <3>1. WordAt(line, g, p, o, a, k)
        BY <2>1, <2>2, <2>5, <2>7, <2>8, <2>9 DEF k, WordAt
      <3> QED
        BY <3>1, WordSplit
    <2>11. Len(f[n]) = p + (k + 2)
      BY <2>1, <2>2
    <2> QED
      BY <2>5, <2>6, <2>10, <2>11
  <1> HIDE DEF S, line
  <1>9. 0 .. N \subseteq S
    <2> HIDE DEF N
    <2> QED
      BY <1>1, <1>7, <1>8, Induction
  <1>10. g[Len(line)] = Split(SubSeq(args, 1, N), <<>>)
    <2>1. N \in S
      BY <1>4, <1>9
    <2> QED
      BY <2>1 DEF S, line
  <1>11. SubSeq(args, 1, N) = args
    BY <1>1, SubSeqFull
  <1>12. g[Len(line)].cur = <<>> /\ g[Len(line)].out = args
    BY <1>10, <1>11 DEF Split
  <1> QED
    BY <1>5, <1>12 DEF line

\* A line of words is read as its words.
LEMMA WordsRead ==
  ASSUME NEW args, Strings(args), args # <<>>, Words(args), NEW end \in Ends, NEW rest \in Bytes
  PROVE  ReadCommand(Line(args, end) \o rest) = Got(args, rest)
  <1> DEFINE N == Len(args)
             ss == Spaced(args)
  <1>1. N \in Nat /\ N # 0 /\ DOMAIN args = 1 .. N /\ \A i \in 1 .. N : args[i] \in Bytes
    BY StringsAre DEF Strings, IsLists
  <1>2. \A i \in 1 .. N :
          /\ args[i] # <<>>
          /\ \A j \in 1 .. Len(args[i]) : args[i][j] \notin {CR, LF, Space} /\ InRune(args[i], j)
    <2>1. \A i \in 1 .. N : DOMAIN args[i] = 1 .. Len(args[i])
      BY <1>1, BytesAre
    <2> QED
      BY <1>1, <2>1 DEF Words
  <1>3. Strings(ss) /\ Len(ss) = N
    BY SpacedIs
  <1>4. \A i \in 1 .. N : /\ Len(args[i]) \in Nat /\ Len(ss[i]) = Len(args[i]) + 2
              /\ \A m \in 1 .. Len(args[i]) : ss[i][m] = args[i][m]
              /\ ss[i][Len(args[i]) + 1] = Space
              /\ ss[i][Len(args[i]) + 2] = Space
    BY SpacedIs
  <1>a. Line(args, end) = FlattenSeq(ss) \o end
    BY Zenon DEF Line, Spaced, Blanks
  <1> HIDE DEF ss
  <1>5. PICK f : Sums(f, ss) /\ FlattenSeq(ss) = f[Len(ss)]
    BY <1>3, SumsExist
  <1> DEFINE line == f[N]
             b == (line \o end) \o rest
  <1>6. Plain(line)
    <2>1. ASSUME NEW i \in 1 .. N PROVE Plain(ss[i])
      <3>1. ss[i] \in Bytes
        BY <1>3, StringsAre
      <3> DEFINE a == args[i]
                 s == ss[i]
      <3>2. Len(a) \in Nat /\ Len(s) = Len(a) + 2 /\ (\A m \in 1 .. Len(a) : s[m] = a[m])
            /\ s[Len(a) + 1] = Space /\ s[Len(a) + 2] = Space
            /\ \A m \in 1 .. Len(a) : a[m] \notin {CR, LF}
        BY <1>2, <1>4
      <3> HIDE DEF a, s
      <3>3. ASSUME NEW m \in 1 .. Len(s) PROVE s[m] \notin {CR, LF}
        <4>1. CASE m <= Len(a)
          BY <3>2, <4>1
        <4>2. CASE ~(m <= Len(a))
          <5>1. m = Len(a) + 1 \/ m = Len(a) + 2
            BY <3>2, <4>2
          <5> QED
            BY <3>2, <5>1 DEF Space, CR, LF
        <4> QED
          BY <4>1, <4>2
      <3> QED
        BY <3>1, <3>3 DEF Plain, s
    <2>2. Strings(ss) /\ Sums(f, ss) /\ \A i \in 1 .. Len(ss) : Plain(ss[i])
      BY <1>3, <1>5, <2>1
    <2>3. Plain(f[Len(ss)])
      BY <2>2, SumsPlain
    <2> QED
      BY <1>3, <2>3
  <1>7. splitInline(line) = args
    <2>1. \A i \in 1 .. N : args[i] # <<>>
                             /\ \A m \in 1 .. Len(args[i]) : args[i][m] # Space /\ InRune(args[i], m)
      BY <1>2
    <2>2. Sums(f, Spaced(args))
      BY <1>5 DEF ss
    <2> QED
      BY <2>1, <2>2, WordsSplit
  <1>8. readLine(b) = Got(line, rest)
    <2> HIDE DEF line
    <2> QED
      BY <1>6, LineRead
  <1>9. b # <<>> /\ b[1] # ArrayMark
    <2>1. 1 \in 1 .. N /\ 1 - 1 = 0
      BY <1>1
    <2>2. /\ Len(f[0]) = 0 /\ Len(ss[1]) \in Nat /\ Len(ss[1]) <= Len(line) /\ Len(line) \in Nat
          /\ \A m \in 1 .. Len(ss[1]) : line[m] = ss[1][m]
      <3>1. 1 \in 1 .. Len(ss)
        BY <1>3, <2>1
      <3>2. /\ Len(f[1 - 1]) \in Nat /\ Len(ss[1]) \in Nat
            /\ Len(f[1 - 1]) + Len(ss[1]) <= Len(f[Len(ss)]) /\ Len(f[Len(ss)]) \in Nat
            /\ \A m \in 1 .. Len(ss[1]) : f[Len(ss)][Len(f[1 - 1]) + m] = ss[1][m]
        <4>1. Placed(ss, f, 1)
          BY <1>3, <1>5, <3>1, SumsAt, Zenon
        <4> QED
          BY <4>1 DEF Placed
      <3>3. f[1 - 1] = <<>> /\ Len(f[1 - 1]) = 0 /\ f[0] = <<>>
        BY <1>5, <2>1, BytesAre DEF Sums
      <3> QED
        BY <1>3, <3>2, <3>3
    <2>3. args[1] # <<>> /\ Len(args[1]) \in Nat /\ Len(args[1]) # 0 /\ Len(ss[1]) = Len(args[1]) + 2
          /\ ss[1][1] = args[1][1]
      <3>1. args[1] # <<>> /\ args[1] \in Bytes
        BY <1>1, <1>2, <2>1
      <3>2. Len(args[1]) \in Nat /\ Len(args[1]) # 0
        BY <3>1, BytesAre
      <3>3. 1 \in 1 .. Len(args[1])
        BY <3>2
      <3> QED
        BY <1>4, <2>1, <3>1, <3>2, <3>3
    <2>4. line[1] # ArrayMark /\ 1 \in 1 .. Len(line)
      <3>1. args[1][1] # ArrayMark
        BY <2>3 DEF Words
      <3>2. 1 \in 1 .. Len(ss[1])
        BY <2>3
      <3> QED
        BY <2>2, <2>3, <3>1, <3>2
    <2> HIDE DEF line
    <2> DEFINE u == line \o end
    <2>5. line \in Bytes /\ end \in Bytes /\ Len(end) \in Nat /\ Len(rest) \in Nat /\ Len(line) \in Nat
      BY <1>6, EndIs, BytesAre DEF Plain
    <2>6. u \in Bytes /\ Len(u) = Len(line) + Len(end) /\ \A i \in 1 .. Len(line) : u[i] = line[i]
      BY <2>5, Joined
    <2> HIDE DEF u
    <2>7. u \o rest \in Bytes /\ Len(u \o rest) = Len(u) + Len(rest) /\ \A i \in 1 .. Len(u) : (u \o rest)[i] = u[i]
      BY <2>6, Joined
    <2> DEFINE x == u \o rest
    <2> HIDE DEF x
    <2>8. x[1] # ArrayMark /\ Len(x) # 0
      <3>1. 1 \in 1 .. Len(u)
        BY <2>4, <2>5, <2>6
      <3> QED
        BY <2>4, <2>5, <2>6, <2>7, <3>1 DEF x
    <2>9. x # <<>>
      BY <2>8, BytesAre
    <2> QED
      BY <2>8, <2>9 DEF x, u
  <1> HIDE DEF b
  <1>10. readLine(b).ok /\ readLine(b).val = line /\ readLine(b).rest = rest
    <2> HIDE DEF line
    <2> QED
      BY <1>8, Answers
  <1>11. ReadCommand(b) = Got(splitInline(line), rest)
    <2> HIDE DEF line
    <2> QED
      BY <1>9, <1>10, Zenon DEF ReadCommand
  <1>12. Line(args, end) \o rest = b
    BY <1>3, <1>5, <1>a DEF b
  <1> QED
    BY <1>7, <1>11, <1>12

LEMMA StreamReadsBack ==
  ASSUME IsCommands(cmds)
  PROVE  CommandsReadBack
  <1> DEFINE rest == FlattenSeq(Records)
  <1>1. rest \in Bytes /\ Replay(rest) = cmds
    BY ReplayWhole, RecordsIs
  <1> HIDE DEF rest
  <1>2. ASSUME cmds # <<>>, Words(Last(cmds)), NEW end \in {CRLF, <<LF>>}
        PROVE  ReadCommand(Line(Last(cmds), end) \o rest) = Got(Last(cmds), rest)
    <2> DEFINE args == Last(cmds)
    <2>1. Strings(args) /\ args # <<>>
      <3>1. Len(cmds) \in 1 .. Len(cmds)
        BY <1>2, CommandsAre DEF IsCommands
      <3> QED
        BY <3>1, CommandsAre DEF Last
    <2>2. end \in Ends
      BY <1>2 DEF Ends
    <2>3. Words(args)
      BY <1>2
    <2> HIDE DEF args
    <2>4. ReadCommand(Line(args, end) \o rest) = Got(args, rest)
      BY <1>1, <2>1, <2>2, <2>3, WordsRead
    <2> QED
      BY <2>4 DEF args
  <1> QED
    BY <1>1, <1>2, Zenon DEF CommandsReadBack, rest

----------------------------------------------------------------------------
(* Replies, as the HTTP demo reads them *)

LEMMA MarkedPlain ==
  ASSUME NEW c \in Int, c \notin {CR, LF}, NEW s, Plain(s)
  PROVE  Plain(<<c>> \o s) /\ <<c>> \o s # <<>> /\ (<<c>> \o s)[1] = c /\ Tail(<<c>> \o s) = s
  <1> DEFINE h == <<c>>
             b == h \o s
  <1>1. s \in Bytes /\ h \in Bytes /\ Len(h) = 1 /\ h[1] = c /\ Len(s) \in Nat
    BY BytesAre DEF Plain
  <1>2. b # <<>> /\ b[1] = c /\ Tail(b) = s
    BY <1>1, Tails
  <1> HIDE DEF h
  <1>3. /\ b \in Bytes /\ Len(b) = Len(h) + Len(s)
        /\ \A i \in 1 .. Len(s) : b[Len(h) + i] = s[i]
    BY <1>1, Joined
  <1> HIDE DEF b
  <1>4. ASSUME NEW i \in 1 .. Len(b) PROVE b[i] \notin {CR, LF}
    <2>1. CASE i = 1
      BY <1>2, <2>1
    <2>2. CASE i # 1
      <3>1. i - 1 \in 1 .. Len(s) /\ Len(h) + (i - 1) = i
        BY <1>1, <1>3, <2>2
      <3>2. b[i] = s[i - 1]
        BY <1>3, <3>1
      <3> QED
        BY <3>1, <3>2 DEF Plain
    <2> QED
      BY <2>1, <2>2
  <1> QED
    BY <1>2, <1>3, <1>4 DEF Plain, b, h

\* A line that is a reply by itself.
LEMMA LineReply ==
  ASSUME NEW s, Plain(s)
  PROVE  readLine(s \o CRLF) = Got(s, <<>>)
  <1> DEFINE nil == <<>>
             e == CRLF
  <1>1. nil \in Bytes /\ e \in Ends /\ e \in Bytes /\ s \in Bytes
    BY BytesAre, Marks DEF Plain
  <1>2. s \o e \in Bytes
    BY <1>1, Joined
  <1>3. (s \o e) \o nil = s \o e
    BY <1>2, JoinedEmpty
  <1> HIDE DEF nil, e
  <1>4. readLine((s \o e) \o nil) = Got(s, nil)
    BY <1>1, LineRead
  <1> QED
    BY <1>3, <1>4 DEF nil, e

LEMMA PlainReply ==
  ASSUME NEW c \in Int, c \notin {CR, LF, BulkMark}, NEW s, Plain(s)
  PROVE  readReply((<<c>> \o s) \o CRLF).val = <<c>> \o s
  <1> DEFINE t == <<c>> \o s
             b == t \o CRLF
             line == readLine(b)
  <1>1. Plain(t) /\ t # <<>> /\ t[1] = c
    BY MarkedPlain
  <1> HIDE DEF t
  <1>2. line = Got(t, <<>>)
    BY <1>1, LineReply
  <1> HIDE DEF line
  <1>3. line.ok /\ line.val = t
    BY <1>2, Answers
  <1>4. t[1] # BulkMark
    BY <1>1
  <1>5. readReply(b) = Got(t, line.rest)
    BY <1>1, <1>3, <1>4, Zenon DEF readReply, line
  <1>6. readReply(b).val = t
    BY <1>5, Answers
  <1> QED
    BY <1>6 DEF t

\* A bulk reply is its header and its value.
LEMMA BulkReply ==
  ASSUME NEW a \in Bytes
  PROVE  LET s == <<BulkMark>> \o Decimal(Len(a))
         IN  /\ Plain(s) /\ s # <<>> /\ s[1] = BulkMark /\ Tail(s) = Decimal(Len(a))
             /\ WriteBulkString(a) = (s \o CRLF) \o (a \o CRLF)
             /\ s \o CRLF \in Bytes
  <1> DEFINE d == Decimal(Len(a))
             s == <<BulkMark>> \o d
             e == CRLF
  <1>1. Len(a) \in Nat /\ e \in Bytes
    BY BytesAre, Marks
  <1>2. Plain(d)
    BY <1>1, NumeralPlain
  <1>3. BulkMark \in Int /\ BulkMark \notin {CR, LF}
    BY DEF BulkMark, CR, LF
  <1>4. Plain(s) /\ s # <<>> /\ s[1] = BulkMark /\ Tail(s) = d
    BY <1>2, <1>3, MarkedPlain
  <1>5. WriteBulkString(a) = ((s \o e) \o a) \o e
    BY Zenon DEF WriteBulkString
  <1> HIDE DEF s, e, d
  <1>6. s \in Bytes
    BY <1>4 DEF Plain
  <1>7. s \o e \in Bytes
    BY <1>1, <1>6, Joined
  <1> DEFINE u == s \o e
  <1>8. (u \o a) \o e = u \o (a \o e)
    <2>1. u \in Bytes
      BY <1>7
    <2> HIDE DEF u
    <2> QED
      BY <1>1, <2>1, JoinedThree
  <1>9. WriteBulkString(a) = (s \o e) \o (a \o e)
    BY <1>5, <1>8, Zenon
  <1> QED
    BY <1>4, <1>7, <1>9 DEF s, e, d

\* What is read of a bulk reply once its header is.
LEMMA ReplyHeaded ==
  ASSUME NEW a \in Bytes, NEW r \in Bytes
  PROVE  readReply(((<<BulkMark>> \o Decimal(Len(a))) \o CRLF) \o r) = ReadReplyBulk(Len(a), r)
  <1> DEFINE n == Len(a)
             s == <<BulkMark>> \o Decimal(n)
             b == (s \o CRLF) \o r
             line == readLine(b)
  <1>1. Plain(s) /\ s # <<>> /\ s[1] = BulkMark /\ Tail(s) = Decimal(n) /\ n \in Nat /\ CRLF \in Ends
    BY BulkReply, BytesAre, Marks
  <1> HIDE DEF s, n
  <1>2. line = Got(s, r)
    BY <1>1, LineRead
  <1> HIDE DEF line
  <1>3. line.ok /\ line.val = s /\ line.rest = r
    BY <1>2, Answers
  <1>4. Atoi(Decimal(n)).val = n
    <2>1. Atoi(Decimal(n)) = Got(n, <<>>)
      BY <1>1, NumeralPlain
    <2> QED
      BY <2>1, Answers
  <1>5. readReply(b) = ReadReplyBulk(n, r)
    BY <1>1, <1>3, <1>4, Zenon DEF readReply, line
  <1> QED
    BY <1>5 DEF s, n

LEMMA ValueReply ==
  ASSUME NEW a \in Bytes
  PROVE  readReply(WriteBulkString(a)).val = a
  <1> DEFINE v == a \o CRLF
             n == Len(a)
  <1>1. v \in Bytes /\ Len(v) = n + 2 /\ n \in Nat
    BY BulkIs
  <1>2. readReply(WriteBulkString(a)) = ReadReplyBulk(n, v)
    BY <1>1, BulkReply, ReplyHeaded
  <1>3. SubSeq(v, 1, n) = a
    BY Marks, Unjoined
  <1> HIDE DEF v, n
  <1>4. ~(n < 0) /\ ~(Len(v) < n + 2)
    BY <1>1
  <1>5. ReadReplyBulk(n, v) = Got(a, Drop(v, n + 2))
    BY <1>3, <1>4, Zenon DEF ReadReplyBulk
  <1> QED
    BY <1>2, <1>5, Answers

LEMMA ReplyTorn ==
  ASSUME NEW a \in Bytes, NEW p \in Parts(WriteBulkString(a))
  PROVE  ~readReply(p).ok
  <1> DEFINE n == Len(a)
             s == <<BulkMark>> \o Decimal(n)
             g == s \o CRLF
             v == a \o CRLF
  <1>1. v \in Bytes /\ Len(v) = n + 2 /\ n \in Nat /\ CRLF \in Ends
    BY BulkIs, Marks
  <1>2. Plain(s) /\ g \in Bytes /\ p \in Parts(g \o v)
    BY BulkReply
  <1> HIDE DEF v, s, n
  <1>3. p \in Parts(g) \/ \E q \in Parts(v) : p = g \o q
    BY <1>1, <1>2, PartOfJoin
  <1>4. CASE p \in Parts(g)
    <2>1. readLine(p) = Fail
      BY <1>1, <1>2, <1>4, LineTorn
    <2>2. ~readLine(p).ok
      BY <2>1, Answers
    <2>3. readReply(p) = Fail
      BY <2>2, Zenon DEF readReply
    <2> QED
      BY <2>3, Answers
  <1>5. CASE \E q \in Parts(v) : p = g \o q
    <2>1. PICK q \in Parts(v) : p = g \o q
      BY <1>5
    <2>2. q \in Bytes /\ Len(q) < n + 2
      BY <1>1, PartIs
    <2>3. readReply(p) = ReadReplyBulk(n, q)
      BY <2>1, <2>2, ReplyHeaded DEF s, n
    <2>4. ~(n < 0)
      BY <1>1
    <2>5. ReadReplyBulk(n, q) = Fail
      BY <2>2, <2>4, Zenon DEF ReadReplyBulk
    <2> QED
      BY <2>3, <2>5, Answers
  <1> QED
    BY <1>3, <1>4, <1>5

LEMMA NullReply == readReply(WriteNull).val = NilBulk
  <1> DEFINE d == Digits[1]
             t == <<Minus>> \o d
             s == <<BulkMark>> \o t
             b == s \o CRLF
             line == readLine(b)
  <1>1. Decimal(-1) = t
    BY DEF Decimal
  <1>2. d \in Numeral /\ d # <<>> /\ Value(d) = 1 /\ d = Decimal(1) /\ Plain(d)
    BY DigitsValue, NumeralPlain DEF Decimal
  <1> HIDE DEF d
  <1>3. Plain(t) /\ t # <<>> /\ t[1] = Minus /\ Tail(t) = d
    BY <1>2, MarkedPlain DEF Minus, CR, LF
  <1>4. ~(\E i \in DOMAIN d : d[i] \notin Digit0 .. Digit0 + 9)
    <2>1. \A i \in DOMAIN d : d[i] \in Digit0 .. Digit0 + 9
      BY <1>2 DEF Numeral, Digit0
    <2> QED
      BY <2>1
  <1> HIDE DEF t
  <1>5. Atoi(t).val < 0
    <2>1. t[1] \in {Plus, Minus}
      BY <1>3
    <2>2. Atoi(t) = Got(-Value(d), <<>>)
      BY <1>2, <1>3, <1>4, <2>1, Zenon DEF Atoi
    <2>3. Atoi(t).val = -Value(d)
      BY <2>2, Answers
    <2> QED
      BY <1>2, <2>3
  <1>6. Plain(s) /\ s # <<>> /\ s[1] = BulkMark /\ Tail(s) = t
    BY <1>3, MarkedPlain DEF BulkMark, CR, LF
  <1>7. WriteNull = b /\ NilBulk = s
    BY <1>1 DEF WriteNull, NilBulk
  <1> HIDE DEF s
  <1>8. line = Got(s, <<>>)
    BY <1>6, LineReply
  <1> HIDE DEF line
  <1>9. line.ok /\ line.val = s
    BY <1>8, Answers
  <1>10. readReply(b) = ReadReplyBulk(Atoi(t).val, line.rest)
    BY <1>6, <1>9, Zenon DEF readReply, line
  <1>11. ReadReplyBulk(Atoi(t).val, line.rest) = Got(NilBulk, line.rest)
    BY <1>5, Zenon DEF ReadReplyBulk
  <1> QED
    BY <1>7, <1>10, <1>11, Answers

LEMMA OneChosen ==
  ASSUME NEW x, NEW S, S = {x}
  PROVE  (CHOOSE b \in S : TRUE) = x
  <1>1. (CHOOSE b \in S : TRUE) \in S
    <2>1. \E b \in S : TRUE
      OBVIOUS
    <2> QED
      BY <2>1
  <1> QED
    BY <1>1

\* What JSON makes of a byte rendered by %q.
LEMMA ByteQuoted ==
  ASSUME NEW b \in Int, b < 128
  PROVE  Unquoted(Quoted(b)) = IF b \in Shown THEN {b} ELSE {}
  <1> USE DEF Unquoted, Quoted, Shown, Letters, Backslash, DoubleQuote
  <1>1. CASE b = 7
    BY <1>1
  <1>2. CASE b = 8
    BY <1>2
  <1>3. CASE b = 9
    BY <1>3
  <1>4. CASE b = 10
    BY <1>4
  <1>5. CASE b = 11
    BY <1>5
  <1>6. CASE b = 12
    BY <1>6
  <1>7. CASE b = 13
    BY <1>7
  <1>8. CASE b = 34
    <2> DEFINE q == Quoted(b)
    <2>1. Len(q) = 2 /\ q[2] = 34
      BY <1>8
    <2> HIDE DEF q
    <2>2. \A c \in {8, 9, 10, 12, 13} : Letters[c - 6] # 34
      OBVIOUS
    <2>3. Unquoted(q) = {34}
      BY <2>1, <2>2
    <2> QED
      BY <1>8, <2>3 DEF q
  <1>11. CASE b = 92
    <2> DEFINE q == Quoted(b)
    <2>1. Len(q) = 2 /\ q[2] = 92
      BY <1>11
    <2> HIDE DEF q
    <2>2. \A c \in {8, 9, 10, 12, 13} : Letters[c - 6] # 92
      OBVIOUS
    <2>3. Unquoted(q) = {92}
      BY <2>1, <2>2
    <2> QED
      BY <1>11, <2>3 DEF q
  <1>9. CASE b \notin 7 .. 13 /\ (b < 32 \/ b > 126)
    BY <1>9
  <1>10. CASE b \in 32 .. 126 /\ b \notin {34, 92}
    BY <1>10
  <1> QED
    BY <1>1, <1>2, <1>3, <1>4, <1>5, <1>6, <1>7, <1>8, <1>9, <1>10, <1>11

\* The page reads the strings of an answer, or none of them.
LEMMA PageReads ==
  ASSUME NEW strings \in Seq(Bytes), \A n \in DOMAIN strings : Ascii(strings[n]),
         NEW q, q = [n \in DOMAIN strings |-> Quote(strings[n])]
  PROVE  call(q) = PageShows(strings)
  <1>1. ASSUME NEW n \in DOMAIN strings
        PROVE  /\ DOMAIN q[n] = DOMAIN strings[n]
               /\ strings[n] = [i \in DOMAIN strings[n] |-> strings[n][i]]
               /\ \A i \in DOMAIN strings[n] :
                    Unquoted(q[n][i]) = IF strings[n][i] \in Shown THEN {strings[n][i]} ELSE {}
    <2> DEFINE s == strings[n]
    <2>1. s \in Bytes /\ Ascii(s) /\ q[n] = Quote(s)
      OBVIOUS
    <2> HIDE DEF s
    <2>2. s = [i \in DOMAIN s |-> s[i]] /\ \A i \in DOMAIN s : s[i] \in Int /\ s[i] < 128
      BY <2>1 DEF Bytes, Ascii
    <2>3. DOMAIN q[n] = DOMAIN s /\ \A i \in DOMAIN s : q[n][i] = Quoted(s[i])
      BY <2>1 DEF Quote
    <2>4. \A i \in DOMAIN s : Unquoted(q[n][i]) = IF s[i] \in Shown THEN {s[i]} ELSE {}
      BY <2>2, <2>3, ByteQuoted
    <2> QED
      BY <2>2, <2>3, <2>4 DEF s
  <1>2. DOMAIN q = DOMAIN strings /\ strings = [n \in DOMAIN strings |-> strings[n]]
    OBVIOUS
  <1>3. CASE \A n \in DOMAIN strings : ToSet(strings[n]) \subseteq Shown
    <2>1. ASSUME NEW n \in DOMAIN strings, NEW i \in DOMAIN strings[n]
          PROVE  Unquoted(q[n][i]) = {strings[n][i]}
      <3>1. strings[n][i] \in Shown
        BY <1>3 DEF ToSet
      <3> QED
        BY <1>1, <3>1
    <2> DEFINE read(n) == [i \in DOMAIN q[n] |-> CHOOSE b \in Unquoted(q[n][i]) : TRUE]
    <2>2. ASSUME NEW n \in DOMAIN strings PROVE read(n) = strings[n]
      <3>1. \A i \in DOMAIN strings[n] : (CHOOSE b \in Unquoted(q[n][i]) : TRUE) = strings[n][i]
        BY <2>1, OneChosen
      <3>2. read(n) = [i \in DOMAIN strings[n] |-> strings[n][i]]
        BY <1>1, <3>1, Zenon
      <3> QED
        BY <1>1, <3>2
    <2>3. call(q) = Got([n \in DOMAIN q |-> read(n)], <<>>)
      <3>1. ~(\E n \in DOMAIN q : \E i \in DOMAIN q[n] : Unquoted(q[n][i]) = {})
        <4> SUFFICES ASSUME NEW n \in DOMAIN q, NEW i \in DOMAIN q[n], Unquoted(q[n][i]) = {}
                     PROVE  FALSE
          OBVIOUS
        <4>1. n \in DOMAIN strings
          BY <1>2
        <4>2. i \in DOMAIN strings[n]
          BY <1>1, <4>1
        <4>3. Unquoted(q[n][i]) = {strings[n][i]}
          BY <2>1, <4>1, <4>2
        <4> QED
          BY <4>3
      <3> QED
        BY <3>1, Zenon DEF call
    <2> HIDE DEF read
    <2> DEFINE F == [n \in DOMAIN q |-> read(n)]
    <2>4. F = strings
      BY <1>2, <2>2
    <2>5. call(q) = Got(F, <<>>)
      BY <2>3
    <2>6. PageShows(strings) = Got(strings, <<>>)
      BY <1>3, Zenon DEF PageShows
    <2> HIDE DEF F
    <2> QED
      BY <2>4, <2>5, <2>6
  <1>4. CASE ~(\A n \in DOMAIN strings : ToSet(strings[n]) \subseteq Shown)
    <2>0. PICK n \in DOMAIN strings : ~(ToSet(strings[n]) \subseteq Shown)
      BY <1>4
    <2>1. PICK i \in DOMAIN strings[n] : strings[n][i] \notin Shown
      BY <2>0 DEF ToSet
    <2>2. Unquoted(q[n][i]) = {} /\ n \in DOMAIN q /\ i \in DOMAIN q[n]
      BY <1>1, <1>2, <2>1
    <2>3. call(q) = Fail
      BY <2>2, Zenon DEF call
    <2> QED
      BY <1>4, <2>3, Zenon DEF PageShows
  <1> QED
    BY <1>3, <1>4

LEMMA OneString ==
  ASSUME NEW s \in Bytes, Ascii(s)
  PROVE  call(<<Quote(s)>>) = PageShows(<<s>>)
  <1> DEFINE q == <<Quote(s)>>
             ss == <<s>>
  <1>1. ss \in Seq(Bytes) /\ (\A n \in DOMAIN ss : Ascii(ss[n]))
        /\ q = [n \in DOMAIN ss |-> Quote(ss[n])]
    OBVIOUS
  <1> HIDE DEF q, ss
  <1>2. call(q) = PageShows(ss)
    BY <1>1, PageReads
  <1> QED
    BY <1>2 DEF q, ss

LEMMA TwoStrings ==
  ASSUME NEW s \in Bytes, NEW t \in Bytes, Ascii(s), Ascii(t)
  PROVE  call(<<Quote(s), Quote(t)>>) = PageShows(<<s, t>>)
  <1> DEFINE q == <<Quote(s), Quote(t)>>
             ss == <<s, t>>
  <1>1. ss \in Seq(Bytes) /\ (\A n \in DOMAIN ss : Ascii(ss[n]))
        /\ q = [n \in DOMAIN ss |-> Quote(ss[n])]
    OBVIOUS
  <1> HIDE DEF q, ss
  <1>2. call(q) = PageShows(ss)
    BY <1>1, PageReads
  <1> QED
    BY <1>2 DEF q, ss

LEMMA PageIsTrue ==
  ASSUME IsCommands(cmds)
  PROVE  PageShowsValue
  <1> SUFFICES ASSUME cmds # <<>> PROVE PageShowsValue
    BY Zenon DEF PageShowsValue
  <1> DEFINE key == Head(Last(cmds))
             value == Last(Last(cmds))
             reply == WriteBulkString(value)
             OK == <<79, 75>>
  <1>1. key \in Bytes /\ value \in Bytes
    <2> DEFINE args == Last(cmds)
    <2>1. Strings(args) /\ args # <<>>
      <3>1. Len(cmds) \in 1 .. Len(cmds)
        BY CommandsAre DEF IsCommands
      <3> QED
        BY <3>1, CommandsAre DEF Last
    <2> HIDE DEF args
    <2>2. Len(args) \in 1 .. Len(args) /\ 1 \in 1 .. Len(args)
      BY <2>1, StringsAre DEF Strings, IsLists
    <2>3. Last(args) \in Bytes
      BY <2>1, <2>2, StringsAre DEF Last
    <2>4. Head(args) \in Bytes
      <3>1. Head(args) = args[1]
        BY <2>1 DEF Strings, IsLists
      <3> QED
        BY <2>1, <2>2, <3>1, StringsAre
    <2> QED
      BY <2>3, <2>4 DEF args
  <1> HIDE DEF key, value
  <1>2. ASSUME key # <<>>, Ascii(key), Ascii(value), value # NilBulk
        PROVE  call(handleGet(key, readReply(reply).val)) = PageShows(<<key, value>>)
    <2>1. readReply(reply).val = value
      BY <1>1, ValueReply
    <2>2. handleGet(key, value) = <<Quote(key), Quote(value)>>
      BY <1>2, Zenon DEF handleGet
    <2> QED
      BY <1>1, <1>2, <2>1, <2>2, TwoStrings
  <1>3. ASSUME key # <<>>, Ascii(key)
        PROVE  call(handleGet(key, readReply(WriteNull).val)) = PageShows(<<key>>)
    <2>1. handleGet(key, NilBulk) = <<Quote(key)>>
      BY Zenon DEF handleGet
    <2> QED
      BY <1>1, <1>3, <2>1, NullReply, OneString
  <1>4. call(handleSet(readReply(WriteSimpleString(OK)).val)) = PageShows(<<OK>>)
    <2>1. OK \in Bytes /\ Len(OK) = 2 /\ OK[1] = 79 /\ OK[2] = 75 /\ DOMAIN OK = 1 .. 2
      BY BytesAre
    <2> HIDE DEF OK
    <2>2. Plain(OK) /\ Ascii(OK)
      BY <2>1 DEF Plain, CR, LF, Ascii
    <2>3. Plus \in Int /\ Plus \notin {CR, LF, BulkMark}
      BY DEF Plus, CR, LF, BulkMark
    <2>4. readReply(WriteSimpleString(OK)).val = <<Plus>> \o OK
      BY <2>2, <2>3, PlainReply DEF WriteSimpleString
    <2> DEFINE t == <<Plus>> \o OK
    <2>5. t # <<>> /\ t[1] = Plus /\ Tail(t) = OK
      BY <2>2, <2>3, MarkedPlain
    <2> HIDE DEF t
    <2>6. handleSet(t) = <<Quote(OK)>>
      BY <2>5, Zenon DEF handleSet
    <2>7. call(<<Quote(OK)>>) = PageShows(<<OK>>)
      BY <2>1, <2>2, OneString
    <2> QED
      BY <2>4, <2>6, <2>7 DEF t
  <1>5. readReply(WriteInteger(Len(value))).val = <<Colon>> \o Decimal(Len(value))
    <2> DEFINE n == Len(value)
    <2>1. n \in Nat
      BY <1>1, BytesAre
    <2> HIDE DEF n
    <2>2. Plain(Decimal(n))
      BY <2>1, NumeralPlain
    <2>3. Colon \in Int /\ Colon \notin {CR, LF, BulkMark}
      BY DEF Colon, CR, LF, BulkMark
    <2>4. readReply(WriteInteger(n)).val = <<Colon>> \o Decimal(n)
      BY <2>2, <2>3, PlainReply DEF WriteInteger
    <2> QED
      BY <2>4 DEF n
  <1>6. \A cut \in 0 .. Len(reply) - 1 : ~readReply(SubSeq(reply, 1, cut)).ok
    <2> TAKE cut \in 0 .. Len(reply) - 1
    <2>1. SubSeq(reply, 1, cut) \in Parts(reply)
      BY DEF Parts
    <2> QED
      BY <1>1, <2>1, ReplyTorn
  <1> HIDE DEF OK
  <1> QED
    BY <1>2, <1>3, <1>4, <1>5, <1>6, Zenon DEF PageShowsValue, key, value, OK

----------------------------------------------------------------------------
(* Shards *)

\* A number, its quotient and its remainder.
LEMMA Division ==
  ASSUME NEW n \in Nat, n > 0, NEW a \in Nat
  PROVE  /\ a \div n \in Nat /\ a % n \in Nat /\ a % n < n
         /\ a = n * (a \div n) + (a % n)
  OBVIOUS

LEMMA Multiple ==
  ASSUME NEW n \in Nat, NEW q \in Int, NEW m \in Int, q < m
  PROVE  n * q + n <= n * m
  <1>1. PICK d \in Nat : m = q + 1 + d
    <2>1. m - (q + 1) \in Nat /\ m = q + 1 + (m - (q + 1))
      OBVIOUS
    <2> QED
      BY <2>1
  <1>2. n * m = n * q + n + n * d
    BY <1>1
  <1>3. n * d \in Nat /\ n * q \in Int
    OBVIOUS
  <1> DEFINE x == n * q
             y == n * d
  <1> HIDE DEF x, y
  <1>4. x + n <= x + n + y
    BY <1>3 DEF x, y
  <1> QED
    BY <1>2, <1>4 DEF x, y

LEMMA Remainder ==
  ASSUME NEW n \in Nat, n > 0, NEW q \in Nat, NEW r \in Nat, r < n, NEW a \in Nat, a = n * q + r
  PROVE  a % n = r
  <1> DEFINE m == a \div n
             s == a % n
             x == n * q
             y == n * m
  <1>1. m \in Nat /\ s \in Nat /\ s < n /\ a = y + s
    <2>1. /\ a \div n \in Nat /\ a % n \in Nat /\ a % n < n
          /\ a = n * (a \div n) + (a % n)
      BY Division
    <2> QED
      BY <2>1
  <1>2. x \in Int /\ y \in Int /\ a = x + r
    BY <1>1
  <1>3. (q < m => x + n <= y) /\ (m < q => y + n <= x) /\ (q = m => x = y)
    BY <1>1, Multiple
  <1> HIDE DEF m, x, y, s
  <1>4. x = y
    BY <1>1, <1>2, <1>3
  <1>5. r = s
    BY <1>1, <1>2, <1>4
  <1> QED
    BY <1>5 DEF s

\* The remainder by twice a number, one bit at a time.
LEMMA LowBit ==
  ASSUME NEW n \in Nat, n > 0, NEW h \in Nat
  PROVE  h % (2 * n) = 2 * ((h \div 2) % n) + (h % 2)
  <1> DEFINE g == h \div 2
             b == h % 2
             q == g \div n
             r == g % n
             x == n * q
             m == 2 * n
  <1>1. g \in Nat /\ b \in 0 .. 1 /\ h = 2 * g + b
    OBVIOUS
  <1> HIDE DEF g, b
  <1>2. q \in Nat /\ r \in Nat /\ r < n /\ g = x + r
    <2>1. /\ g \div n \in Nat /\ g % n \in Nat /\ g % n < n
          /\ g = n * (g \div n) + (g % n)
      BY <1>1, Division
    <2> QED
      BY <2>1
  <1> HIDE DEF q, r
  <1>3. x \in Int /\ m * q = 2 * x
    BY <1>2
  <1>4. m \in Nat /\ m > 0 /\ 2 * r + b \in Nat /\ 2 * r + b < m
    BY <1>1, <1>2
  <1> HIDE DEF x, m
  <1>5. h = m * q + (2 * r + b)
    BY <1>1, <1>2, <1>3
  <1> DEFINE w == 2 * r + b
  <1>6. w \in Nat /\ w < m /\ h = m * q + w
    BY <1>4, <1>5
  <1> HIDE DEF w
  <1>7. h % m = w
    BY <1>2, <1>4, <1>6, Remainder
  <1> QED
    BY <1>7 DEF m, r, g, b, w

LEMMA DoubledDef ==
  /\ Doubled[0] = 1
  /\ \A k \in Nat : Doubled[k] \in Nat /\ Doubled[k] >= k + 1 /\ Doubled[k + 1] = 2 * Doubled[k]
  <1> DEFINE Body(g, m) == IF m = 0 THEN 1 ELSE 2 * g[m - 1]
             base == [m \in Nat |-> 1]
             down == [m \in Nat |-> IF m = 0 THEN m ELSE m - 1]
             step == [m \in Nat |-> [v \in Nat |-> 2 * v]]
  <1>1. base \in [Nat -> Nat] /\ \A m \in Nat : base[m] = 1
    OBVIOUS
  <1>2. /\ down \in [Nat -> Nat]
        /\ \A m \in Nat : IF m = 0 THEN ~(down[m] < m) ELSE down[m] < m /\ down[m] = m - 1
    OBVIOUS
  <1>3. step \in [Nat -> [Nat -> Nat]] /\ \A m \in Nat, v \in Nat : step[m][v] = 2 * v
    OBVIOUS
  <1> HIDE DEF base, down, step
  <1>4. PICK f \in [Nat -> Nat] : \A m \in Nat :
            f[m] = IF down[m] < m THEN step[m][f[down[m]]] ELSE base[m]
    <2>1. \E f : Descends(f, Nat, base, down, step)
      BY <1>1, <1>2, <1>3, DescentExists, Zenon
    <2> QED
      BY <2>1 DEF Descends
  <1>5. \A m \in Nat : f[m] = Body(f, m)
    <2> TAKE m \in Nat
    <2>1. CASE m = 0
      BY <1>1, <1>2, <1>4, <2>1
    <2>2. CASE m # 0
      <3>1. down[m] < m /\ down[m] = m - 1 /\ down[m] \in Nat /\ f[down[m]] \in Nat
        BY <1>2, <1>4, <2>2
      <3> QED
        BY <1>3, <1>4, <2>2, <3>1
    <2> QED
      BY <2>1, <2>2
  <1> HIDE DEF Body
  <1>6. f = [m \in Nat |-> Body(f, m)]
    BY <1>5
  <1>7. Doubled = CHOOSE g : g = [m \in Nat |-> Body(g, m)]
    BY DEF Doubled, Body
  <1>8. \A k \in Nat : Doubled[k] = IF k = 0 THEN 1 ELSE 2 * Doubled[k - 1]
    <2>1. Doubled = [m \in Nat |-> Body(Doubled, m)]
      BY <1>6, <1>7
    <2>2. \A k \in Nat : Doubled[k] = Body(Doubled, k)
      BY <2>1
    <2> QED
      BY <2>2 DEF Body
  <1>9. ASSUME NEW k \in Nat PROVE Doubled[k] \in Nat /\ Doubled[k] >= k + 1
    <2> DEFINE S == {n \in Nat : Doubled[n] \in Nat /\ Doubled[n] >= n + 1}
    <2>1. 0 \in S
      BY <1>8
    <2>2. ASSUME NEW n \in 1 .. k, n - 1 \in S PROVE n \in S
      <3>1. Doubled[n] = 2 * Doubled[n - 1] /\ Doubled[n - 1] \in Nat /\ Doubled[n - 1] >= n
        BY <1>8, <2>2
      <3> QED
        BY <3>1
    <2> HIDE DEF S
    <2>3. 0 .. k \subseteq S
      BY <2>1, <2>2, Induction
    <2> QED
      BY <2>3 DEF S
  <1>10. \A k \in Nat : k + 1 \in Nat /\ k + 1 # 0 /\ (k + 1) - 1 = k
    OBVIOUS
  <1> QED
    BY <1>8, <1>9, <1>10

Bit(x, y) == (x % 2) * (y % 2)

LEMMA BitIs ==
  ASSUME NEW x \in Nat, NEW y \in Nat
  PROVE  Bit(x, y) \in Nat /\ (y % 2 = 0 => Bit(x, y) = 0) /\ (y % 2 = 1 => Bit(x, y) = x % 2)
  <1>1. CASE y % 2 = 0
    BY <1>1 DEF Bit
  <1>2. CASE y % 2 = 1
    BY <1>2 DEF Bit
  <1> QED
    BY <1>1, <1>2

LEMMA AndDef ==
  \A x, y \in Nat : /\ And[x][y] \in Nat
                    /\ And[x][y] = IF x = 0 THEN 0 ELSE 2 * And[x \div 2][y \div 2] + Bit(x, y)
  <1> DEFINE V == [Nat -> Nat]
             More(v, x) == [y \in Nat |-> 2 * v[y \div 2] + Bit(x, y)]
             Body(g, x) == [y \in Nat |-> IF x = 0 THEN 0 ELSE 2 * g[x \div 2][y \div 2] + Bit(x, y)]
             zero == [y \in Nat |-> 0]
             base == [x \in Nat |-> zero]
             down == [x \in Nat |-> IF x = 0 THEN x ELSE x \div 2]
             step == [x \in Nat |-> [v \in V |-> More(v, x)]]
  <1>1. base \in [Nat -> V] /\ \A x \in Nat : base[x] = zero
    OBVIOUS
  <1>2. /\ down \in [Nat -> Nat]
        /\ \A x \in Nat : IF x = 0 THEN ~(down[x] < x) ELSE down[x] < x /\ down[x] = x \div 2
    OBVIOUS
  <1>3. \A v \in V, x \in Nat : More(v, x) \in V
    <2> TAKE v \in V, x \in Nat
    <2>1. \A y \in Nat : 2 * v[y \div 2] + Bit(x, y) \in Nat
      <3> TAKE y \in Nat
      <3>1. y \div 2 \in Nat
        OBVIOUS
      <3>2. v[y \div 2] \in Nat
        BY <3>1
      <3>3. Bit(x, y) \in Nat
        BY BitIs
      <3> DEFINE n == v[y \div 2]
                 b == Bit(x, y)
      <3> HIDE DEF n, b
      <3>4. 2 * n + b \in Nat
        BY <3>2, <3>3 DEF n, b
      <3> QED
        BY <3>4 DEF n, b
    <2> QED
      BY <2>1
  <1>4. step \in [Nat -> [V -> V]] /\ \A x \in Nat, v \in V : step[x][v] = More(v, x)
    <2> HIDE DEF More, V
    <2> QED
      BY <1>3
  <1> HIDE DEF base, down, step, V
  <1>5. PICK f \in [Nat -> V] : \A x \in Nat :
            f[x] = IF down[x] < x THEN step[x][f[down[x]]] ELSE base[x]
    <2>1. \E f : Descends(f, V, base, down, step)
      BY <1>1, <1>2, <1>4, DescentExists, Zenon
    <2> QED
      BY <2>1 DEF Descends
  <1>6. \A x \in Nat : f[x] = Body(f, x)
    <2> TAKE x \in Nat
    <2>1. CASE x = 0
      <3>1. f[x] = zero
        BY <1>1, <1>2, <1>5, <2>1
      <3>2. Body(f, x) = zero
        BY <2>1
      <3> QED
        BY <3>1, <3>2
    <2>2. CASE x # 0
      <3>1. down[x] < x /\ down[x] = x \div 2 /\ down[x] \in Nat /\ f[down[x]] \in V
        BY <1>2, <1>5, <2>2
      <3>2. f[x] = More(f[x \div 2], x)
        <4> HIDE DEF More
        <4> QED
          BY <1>4, <1>5, <3>1
      <3>3. Body(f, x) = More(f[x \div 2], x)
        BY <2>2
      <3> QED
        BY <3>2, <3>3
    <2> QED
      BY <2>1, <2>2
  <1>7. \A g, x : Body(g, x) = [y \in Nat |-> IF x = 0 THEN 0 ELSE 2 * g[x \div 2][y \div 2] + (x % 2) * (y % 2)]
    BY DEF Bit
  <1> HIDE DEF Body, More
  <1>8. f = [x \in Nat |-> Body(f, x)]
    BY <1>6
  <1>9. And = CHOOSE g : g = [x \in Nat |-> Body(g, x)]
    BY DEF And, Body, Bit
  <1>10. And = [x \in Nat |-> Body(And, x)]
    BY <1>8, <1>9
  <1>11. \A x \in Nat : And[x] = Body(And, x)
    BY <1>10
  <1>12. ASSUME NEW x \in Nat, NEW y \in Nat
         PROVE And[x][y] = IF x = 0 THEN 0 ELSE 2 * And[x \div 2][y \div 2] + Bit(x, y)
    BY <1>11 DEF Body
  <1>13. ASSUME NEW x \in Nat, NEW y \in Nat
         PROVE And[x][y] \in Nat
    <2> DEFINE T == {n \in Nat : \E m \in Nat : And[n][m] \notin Nat}
    <2> SUFFICES ASSUME x \in T PROVE FALSE
      OBVIOUS
    <2>1. T \in SUBSET Nat /\ T # {}
      OBVIOUS
    <2>2. PICK n \in T : \A m \in T : n <= m
      <3> HIDE DEF T
      <3> QED
        BY <2>1, LeastNumber, Zenon
    <2>3. PICK m \in Nat : And[n][m] \notin Nat
      BY <2>2
    <2>4. n \in Nat /\ n # 0
      BY <1>12, <2>2, <2>3
    <2>5. n \div 2 \in Nat /\ ~(n <= n \div 2) /\ m \div 2 \in Nat
      BY <2>4
    <2>6. And[n \div 2][m \div 2] \in Nat
      BY <2>2, <2>5
    <2>7. And[n][m] = 2 * And[n \div 2][m \div 2] + Bit(n, m) /\ Bit(n, m) \in Nat
      BY <1>12, <2>3, <2>4, BitIs
    <2> QED
      BY <2>3, <2>6, <2>7
  <1> QED
    BY <1>12, <1>13

LEMMA AndNothing == \A h \in Nat : And[h][0] = 0
  <1> DEFINE T == {h \in Nat : And[h][0] # 0}
  <1> SUFFICES ASSUME T # {} PROVE FALSE
    OBVIOUS
  <1>1. T \in SUBSET Nat
    OBVIOUS
  <1>2. PICK n \in T : \A m \in T : n <= m
    <2> HIDE DEF T
    <2> QED
      BY <1>1, LeastNumber, Zenon
  <1>3. n \in Nat /\ n # 0 /\ And[n][0] # 0
    BY <1>2, AndDef
  <1>4. n \div 2 \in Nat /\ ~(n <= n \div 2) /\ 0 \div 2 = 0 /\ 0 % 2 = 0
    BY <1>3
  <1>5. And[n \div 2][0] = 0
    BY <1>2, <1>4
  <1>6. And[n][0] = 2 * And[n \div 2][0 \div 2] + Bit(n, 0)
    BY <1>3, AndDef
  <1>7. Bit(n, 0) = 0
    BY <1>3, <1>4, BitIs
  <1> QED
    BY <1>3, <1>4, <1>5, <1>6, <1>7

\* A mask takes the low bits of a hash.
LEMMA MaskIsRemainder ==
  ASSUME NEW k \in Nat
  PROVE  \A h \in Nat : And[h][Doubled[k] - 1] = h % Doubled[k]
  <1> DEFINE S == {n \in Nat : \A h \in Nat : And[h][Doubled[n] - 1] = h % Doubled[n]}
  <1>1. 0 \in S
    BY AndNothing, DoubledDef
  <1>2. ASSUME NEW n \in 1 .. k, n - 1 \in S PROVE n \in S
    <2> DEFINE P == Doubled[n - 1]
               D == Doubled[n]
    <2>1. n - 1 \in Nat /\ (n - 1) + 1 = n /\ n \in Nat
      OBVIOUS
    <2>2. P \in Nat /\ P >= 1 /\ D = 2 * P
      BY <2>1, DoubledDef
    <2>3. \A g \in Nat : And[g][P - 1] = g % P
      BY <1>2
    <2> HIDE DEF P
    <2>4. D - 1 \in Nat /\ (D - 1) \div 2 = P - 1 /\ (D - 1) % 2 = 1
      BY <2>2
    <2> HIDE DEF D
    <2>5. ASSUME NEW h \in Nat PROVE And[h][D - 1] = h % D
      <3>1. h % D = 2 * ((h \div 2) % P) + (h % 2)
        <4>1. P \in Nat /\ P > 0
          BY <2>2
        <4>2. h % (2 * P) = 2 * ((h \div 2) % P) + (h % 2)
          BY <4>1, LowBit
        <4> QED
          BY <2>2, <4>2
      <3>2. h \div 2 \in Nat
        OBVIOUS
      <3>3. CASE h = 0
        <4>1. And[h][D - 1] = 0
          BY <2>4, <3>3, AndDef
        <4>2. h = D * 0 + 0 /\ D \in Nat /\ D > 0
          BY <2>2, <3>3
        <4>3. h % D = 0
          BY <4>2, Remainder
        <4> QED
          BY <4>1, <4>3
      <3>4. CASE h # 0
        <4>1. And[h][D - 1] = 2 * And[h \div 2][(D - 1) \div 2] + Bit(h, D - 1)
          BY <2>4, <3>4, AndDef
        <4>2. Bit(h, D - 1) = h % 2
          BY <2>4, BitIs
        <4>3. And[h \div 2][(D - 1) \div 2] = (h \div 2) % P
          BY <2>3, <2>4, <3>2
        <4> QED
          BY <3>1, <4>1, <4>2, <4>3
      <3> QED
        BY <3>3, <3>4
    <2> QED
      BY <2>1, <2>5 DEF D
  <1> HIDE DEF S
  <1>3. 0 .. k \subseteq S
    BY <1>1, <1>2, Induction
  <1> QED
    BY <1>3 DEF S

\* The first power of two that is enough.
LEMMA NextPow2Is ==
  ASSUME NEW n \in Nat
  PROVE  \E k \in Nat : /\ nextPow2(n) = Doubled[k] /\ Doubled[k] >= n
                        /\ n >= 1 => Doubled[k] < 2 * n
                        /\ n = 0 => Doubled[k] = 1
  <1>1. CASE n = 0
    <2>1. nextPow2(n) = 1
      BY <1>1 DEF nextPow2
    <2> QED
      BY <1>1, <2>1, DoubledDef
  <1>2. CASE n >= 1
    <2> DEFINE enough == {k \in 0 .. n : Doubled[k] >= n}
               least == CHOOSE k \in enough : \A j \in enough : k <= j
    <2>1. nextPow2(n) = Doubled[least]
      BY <1>2 DEF nextPow2
    <2>2. n \in enough /\ enough \in SUBSET Nat
      BY DoubledDef
    <2>3. least \in enough /\ \A j \in enough : least <= j
      <3> HIDE DEF enough
      <3>1. \E k \in enough : \A j \in enough : k <= j
        BY <2>2, LeastNumber
      <3> QED
        BY <3>1
    <2> HIDE DEF least
    <2>4. least \in 0 .. n /\ Doubled[least] >= n
      BY <2>3
    <2>5. Doubled[least] < 2 * n
      <3>1. CASE least = 0
        BY <1>2, <3>1, DoubledDef
      <3>2. CASE least # 0
        <4>1. least - 1 \in 0 .. n /\ ~(least <= least - 1) /\ least - 1 \in Nat /\ (least - 1) + 1 = least
          BY <2>4, <3>2
        <4>2. ~(Doubled[least - 1] >= n)
          BY <2>3, <4>1
        <4>3. Doubled[least - 1] \in Nat /\ Doubled[least] = 2 * Doubled[least - 1]
          BY <4>1, DoubledDef
        <4> QED
          BY <4>2, <4>3
      <3> QED
        BY <3>1, <3>2
    <2> QED
      BY <1>2, <2>1, <2>4, <2>5
  <1> QED
    BY <1>1, <1>2

LEMMA ShardsAre ==
  ASSUME count \in Nat
  PROVE  ShardsCoverKeys
  <1> DEFINE n == nextPow2(count)
             S == {count, 1}
  <1>1. PICK k \in Nat : /\ n = Doubled[k] /\ Doubled[k] >= count
                         /\ count >= 1 => Doubled[k] < 2 * count
                         /\ count = 0 => Doubled[k] = 1
    BY NextPow2Is
  <1>2. Max(S) = IF count >= 1 THEN count ELSE 1
    <2>1. S \in SUBSET Int
      OBVIOUS
    <2>2. CASE count >= 1
      <3>1. count \in S /\ \A x \in S : count >= x
        BY <2>2
      <3> HIDE DEF S
      <3>2. Max(S) = count
        BY <2>1, <3>1, GreatestOf
      <3> QED
        BY <2>2, <3>2
    <2>3. CASE ~(count >= 1)
      <3>1. 1 \in S /\ \A x \in S : 1 >= x
        BY <2>3
      <3> HIDE DEF S
      <3>2. Max(S) = 1
        BY <2>1, <3>1, GreatestOf
      <3> QED
        BY <2>3, <3>2
    <2> QED
      BY <2>2, <2>3
  <1> HIDE DEF S
  <1>3. n >= count /\ n < 2 * Max(S)
    BY <1>1, <1>2, DoubledDef
  <1>4. ASSUME NEW h \in 0 .. MaxHash PROVE shardFor(h, count) = h % n
    <2>1. h \in Nat
      BY HashAssumption
    <2> HIDE DEF n
    <2>2. And[h][n - 1] = h % n
      BY <1>1, <2>1, MaskIsRemainder
    <2> QED
      BY <2>2 DEF shardFor, n
  <1> HIDE DEF n
  <1> QED
    BY <1>3, <1>4 DEF ShardsCoverKeys, n, S

LEMMA ShardInit == Init => count \in Nat
  BY DEF Init

LEMMA ShardStep == count \in Nat /\ [Next]_vars => (count \in Nat)'
  BY DEF Next, GrowPattern, AddCommand, AddArgument, AddChunk, GrowStream, AddOption, AddShard,
         Execute, Wait, vars

----------------------------------------------------------------------------
(* The options of SET *)

\* What the loop holds between two rounds.
Accs == [ok : {TRUE}, ttl : Int, nx : BOOLEAN, xx : BOOLEAN, haveTTL : BOOLEAN, i : Nat \ {0}]

Timed(j) == opts[j] \in {"EX", "PX"}

\* Of n options, the one at j has its place.
Sits(j, n) ==
  \/ opts[j] \in {"NX", "XX"}
  \/ Timed(j) /\ j + 1 <= n /\ opts[j + 1] \in DOMAIN AmountOf
  \/ /\ j - 1 \in 1 .. n /\ Timed(j - 1)
     /\ opts[j] \in DOMAIN AmountOf /\ AmountOf[opts[j]] > 0

Within(n, option) == \E j \in 1 .. n : opts[j] = option

\* The loop has read n options without an error.
ReadTo(acc, n) ==
  /\ acc.nx <=> Within(n, "NX")
  /\ acc.xx <=> Within(n, "XX")
  /\ ~(acc.nx /\ acc.xx)
  /\ acc.haveTTL <=> \E j \in 1 .. n : Timed(j)
  /\ \A j, k \in 1 .. n : Timed(j) /\ Timed(k) => j = k
  /\ \A j \in 1 .. n : Sits(j, n)
  /\ ~acc.haveTTL => acc.ttl = 0
  /\ \A j \in 1 .. n : Timed(j) => acc.ttl = Wrap(AmountOf[opts[j + 1]] * Unit(opts[j]))

LEMMA NotAmounts ==
  \A t \in DOMAIN AmountOf : t \notin {"EX", "PX", "NX", "XX"}
  BY DurationAssumption

\* What the loop takes.
Tolerated == WellPlaced /\ ~(Has("NX") /\ Has("XX"))

LEMMA AtMostOne ==
  ASSUME NEW N \in Nat, NEW S, S \subseteq 1 .. N
  PROVE  Cardinality(S) \in Nat /\ (Cardinality(S) <= 1 <=> \A j, k \in S : j = k)
  <1>1. IsFiniteSet(S) /\ Cardinality(S) \in Nat
    <2>1. IsFiniteSet(1 .. N)
      BY FS_Interval
    <2> QED
      BY <2>1, FS_Subset, FS_CardinalityType
  <1>2. ASSUME NEW j \in S, NEW k \in S, j # k PROVE ~(Cardinality(S) <= 1)
    <2>1. IsFiniteSet(S \ {j}) /\ Cardinality(S \ {j}) = Cardinality(S) - 1
      BY <1>1, FS_RemoveElement
    <2>2. S \ {j} # {}
      BY <1>2
    <2>3. Cardinality(S \ {j}) # 0 /\ Cardinality(S \ {j}) \in Nat
      BY <2>1, <2>2, FS_EmptySet, FS_CardinalityType
    <2> QED
      BY <1>1, <2>1, <2>3
  <1>3. ASSUME \A j, k \in S : j = k PROVE Cardinality(S) <= 1
    <2>1. CASE S = {}
      BY <2>1, FS_EmptySet
    <2>2. CASE S # {}
      <3>1. PICK j \in S : S = {j}
        BY <1>3, <2>2
      <3>2. Cardinality({j}) = 1
        BY FS_Singleton
      <3> QED
        BY <3>1, <3>2
    <2> QED
      BY <2>1, <2>2
  <1> QED
    BY <1>1, <1>2, <1>3

\* It is the grammar of SET's comment, and a repeated NX or XX.
LEMMA ToleratedIs ==
  ASSUME NEW T, opts \in Seq(T)
  PROVE  Tolerated <=> Grammatical \/ Repeating
  <1>1. Len(opts) \in Nat /\ Conditions \subseteq 1 .. Len(opts)
    BY DEF Conditions
  <1>2. /\ Cardinality(Conditions) \in Nat
        /\ Cardinality(Conditions) <= 1 <=> \A j, k \in Conditions : j = k
    BY <1>1, AtMostOne
  <1>3. ASSUME Has("NX"), Has("XX") PROVE ~(Cardinality(Conditions) <= 1)
    <2>1. PICK j \in DOMAIN opts : opts[j] = "NX"
      BY <1>3 DEF Has
    <2>2. PICK k \in DOMAIN opts : opts[k] = "XX"
      BY <1>3 DEF Has
    <2>3. j \in Conditions /\ k \in Conditions /\ j # k
      BY <2>1, <2>2 DEF Conditions
    <2> QED
      BY <1>2, <2>3
  <1>4. Cardinality(Conditions) > 1 <=> ~(Cardinality(Conditions) <= 1)
    BY <1>2
  <1> QED
    BY <1>3, <1>4, Zenon DEF Tolerated, Grammatical, Repeating

LEMMA GrammarIs ==
  ASSUME NEW T, opts \in Seq(T)
  PROVE  Tolerated <=>
           /\ \A j, k \in 1 .. Len(opts) : Timed(j) /\ Timed(k) => j = k
           /\ ~(Within(Len(opts), "NX") /\ Within(Len(opts), "XX"))
           /\ \A j \in 1 .. Len(opts) : Sits(j, Len(opts))
  <1> DEFINE N == Len(opts)
  <1>1. N \in Nat /\ DOMAIN opts = 1 .. N
    OBVIOUS
  <1>2. Deadlines = {j \in 1 .. N : Timed(j)}
    BY <1>1 DEF Deadlines, Timed
  <1>3. Cardinality(Deadlines) <= 1 <=> \A j, k \in Deadlines : j = k
    <2>1. Deadlines \subseteq 1 .. N
      BY <1>2
    <2> HIDE DEF N
    <2> QED
      BY <1>1, <2>1, AtMostOne
  <1>5. Has("NX") = Within(N, "NX") /\ Has("XX") = Within(N, "XX")
    BY <1>1 DEF Has, Within
  <1>6. ASSUME NEW j \in 1 .. N
        PROVE  Sits(j, N) <=>
                 \/ opts[j] \in {"NX", "XX"}
                 \/ j \in Deadlines /\ j + 1 \in DOMAIN opts /\ opts[j + 1] \in DOMAIN AmountOf
                 \/ j - 1 \in Deadlines /\ opts[j] \in DOMAIN AmountOf /\ AmountOf[opts[j]] > 0
    <2>1. j + 1 <= N <=> j + 1 \in DOMAIN opts
      BY <1>1
    <2>2. j \in Deadlines <=> Timed(j)
      BY <1>2
    <2>3. j - 1 \in Deadlines <=> j - 1 \in 1 .. N /\ Timed(j - 1)
      BY <1>2
    <2> HIDE DEF N
    <2> QED
      BY <2>1, <2>2, <2>3 DEF Sits
  <1>7. (\A j, k \in Deadlines : j = k) <=> \A j, k \in 1 .. N : Timed(j) /\ Timed(k) => j = k
    BY <1>2
  <1> HIDE DEF N
  <1> QED
    BY <1>1, <1>3, <1>5, <1>6, <1>7 DEF Tolerated, WellPlaced, N

LEMMA WrapIs ==
  /\ \A d \in Int : Wrap(d) \in Int
  /\ \A d \in Nat : d < Wrapping => Wrap(d) = d
  <1> DEFINE W == Wrapping
             M == 2 * W
  <1>1. W \in Nat /\ W > 0 /\ M \in Nat /\ M > 0
    BY DurationAssumption
  <1>2. ASSUME NEW d \in Int PROVE Wrap(d) \in Int
    <2>1. (d + W) % M \in Int
      <3> HIDE DEF M
      <3> QED
        BY <1>1
    <2> QED
      BY <1>1, <2>1 DEF Wrap
  <1>3. ASSUME NEW d \in Nat, d < W PROVE Wrap(d) = d
    <2> DEFINE a == d + W
    <2>1. a \in Nat /\ a < M /\ a = M * 0 + a /\ 0 \in Nat
      BY <1>1, <1>3
    <2> HIDE DEF a, M
    <2>2. a % M = a
      BY <1>1, <2>1, Remainder
    <2>3. ((d + W) % M) - W = d
      BY <1>1, <2>2 DEF a
    <2> QED
      BY <2>3 DEF Wrap, M
  <1> QED
    BY <1>2, <1>3

LEMMA UnitIs == \A t : Unit(t) \in Nat /\ Unit(t) > 0
  BY DEF Unit, Second, Millisecond

\* The error of a round at EX or PX, and at another option.
NoAmount(acc) ==
  \/ acc.haveTTL \/ acc.i + 1 > Len(opts)
  \/ opts[acc.i + 1] \notin DOMAIN AmountOf \/ AmountOf[opts[acc.i + 1]] <= 0

NoOption(acc) == opts[acc.i] \notin {"NX", "XX"} \/ Conflicts(acc, opts[acc.i])

Amount(acc) == Wrap(AmountOf[opts[acc.i + 1]] * Unit(opts[acc.i]))

\* What a round comes to.
LEMMA OptionIs ==
  ASSUME NEW acc \in Accs
  PROVE  /\ Timed(acc.i) /\ NoAmount(acc) => Option(opts, acc) = SyntaxError
         /\ Timed(acc.i) /\ ~NoAmount(acc) =>
               Option(opts, acc) = [acc EXCEPT !.haveTTL = TRUE, !.ttl = Amount(acc), !.i = acc.i + 2]
         /\ ~Timed(acc.i) /\ NoOption(acc) => Option(opts, acc) = SyntaxError
         /\ ~Timed(acc.i) /\ ~NoOption(acc) =>
               Option(opts, acc) = [acc EXCEPT !.nx = acc.nx \/ opts[acc.i] = "NX",
                                               !.xx = acc.xx \/ opts[acc.i] = "XX", !.i = acc.i + 1]
  BY DEF Option, Timed, NoAmount, NoOption, Amount

\* The round after n options, when the options read so far are in order.
LEMMA RoundFails ==
  ASSUME NEW T, opts \in Seq(T), NEW n \in Nat, n < Len(opts),
         NEW acc \in Accs, acc.i = n + 1, ReadTo(acc, n),
         IF Timed(n + 1) THEN NoAmount(acc) ELSE NoOption(acc)
  PROVE  ~Tolerated
  <1> DEFINE N == Len(opts)
             i == n + 1
  <1> SUFFICES ASSUME Tolerated PROVE FALSE
    OBVIOUS
  <1>1. N \in Nat /\ i \in 1 .. N /\ \A j \in 1 .. n : j \in 1 .. N /\ j # i
    OBVIOUS
  <1>2. /\ \A j, k \in 1 .. N : Timed(j) /\ Timed(k) => j = k
        /\ ~(Within(N, "NX") /\ Within(N, "XX"))
        /\ \A j \in 1 .. N : Sits(j, N)
    BY GrammarIs
  <1>3. CASE Timed(i)
    <2>0. NoAmount(acc)
      BY <1>3
    <2> HIDE DEF N
    <2>1. ~acc.haveTTL
      BY <1>1, <1>2, <1>3 DEF ReadTo
    <2>2. opts[i] \notin {"NX", "XX"} /\ opts[i] \notin DOMAIN AmountOf
      BY <1>3, NotAmounts DEF Timed
    <2>3. i + 1 <= N /\ opts[i + 1] \in DOMAIN AmountOf
      BY <1>1, <1>2, <2>2 DEF Sits
    <2>4. opts[i + 1] \notin {"NX", "XX"} /\ ~Timed(i + 1)
      BY <2>3, NotAmounts DEF Timed
    <2>5. AmountOf[opts[i + 1]] > 0
      <3>1. i + 1 \in 1 .. N
        BY <1>1, <2>3
      <3> QED
        BY <1>2, <2>4, <3>1 DEF Sits
    <2>6. AmountOf[opts[i + 1]] \in Int
      BY <2>3, DurationAssumption
    <2> QED
      BY <1>1, <2>0, <2>1, <2>3, <2>5, <2>6 DEF NoAmount, N
  <1>4. CASE ~Timed(i)
    <2>0. NoOption(acc)
      BY <1>4
    <2> HIDE DEF N
    <2>1. ~Timed(n) \/ n = 0
      <3> SUFFICES ASSUME Timed(n), n # 0 PROVE FALSE
        OBVIOUS
      <3>1. n \in 1 .. n /\ ~(n + 1 <= n)
        OBVIOUS
      <3>2. Sits(n, n)
        BY <3>1 DEF ReadTo
      <3> QED
        BY <3>1, <3>2, NotAmounts DEF Sits, Timed
    <2>2. Sits(i, N)
      BY <1>1, <1>2
    <2>3. i - 1 = n
      OBVIOUS
    <2>4. ~(i - 1 \in 1 .. N /\ Timed(i - 1))
      BY <2>1, <2>3
    <2>5. opts[i] \in {"NX", "XX"}
      BY <1>4, <2>2, <2>4 DEF Sits
    <2>6. Conflicts(acc, opts[i])
      BY <2>0, <2>5 DEF NoOption
    <2>7. CASE opts[i] = "NX"
      <3>1. Within(n, "XX")
        BY <2>6, <2>7 DEF Conflicts, ReadTo
      <3>2. Within(N, "XX") /\ Within(N, "NX")
        BY <1>1, <2>7, <3>1 DEF Within
      <3> QED
        BY <1>2, <3>2
    <2>8. CASE opts[i] = "XX"
      <3>1. Within(n, "NX")
        BY <2>6, <2>8 DEF Conflicts, ReadTo
      <3>2. Within(N, "XX") /\ Within(N, "NX")
        BY <1>1, <2>8, <3>1 DEF Within
      <3> QED
        BY <1>2, <3>2
    <2> QED
      BY <2>5, <2>7, <2>8
  <1> QED
    BY <1>3, <1>4

WithTTL(acc, v, k) == [acc EXCEPT !.haveTTL = TRUE, !.ttl = v, !.i = k]

WithCondition(acc, v, w, k) == [acc EXCEPT !.nx = v, !.xx = w, !.i = k]

TimedAs(x, acc, v, k) ==
  x \in Accs /\ x.i = k /\ x.haveTTL /\ x.ttl = v /\ x.nx = acc.nx /\ x.xx = acc.xx

LEMMA AccTimed ==
  \A acc \in Accs, v \in Int, k \in Nat \ {0} : TimedAs(WithTTL(acc, v, k), acc, v, k)
  <1> TAKE acc \in Accs, v \in Int, k \in Nat \ {0}
  <1> DEFINE x == WithTTL(acc, v, k)
  <1>1. x.i = k /\ x.haveTTL = TRUE /\ x.ttl = v /\ x.nx = acc.nx /\ x.xx = acc.xx
    BY DEF Accs, WithTTL
  <1>2. x \in Accs
    BY DEF Accs, WithTTL
  <1> HIDE DEF x
  <1>3. TimedAs(x, acc, v, k)
    BY <1>1, <1>2, Zenon DEF TimedAs
  <1> QED
    BY <1>3 DEF x

ConditionAs(x, acc, v, w, k) ==
  x \in Accs /\ x.i = k /\ x.haveTTL = acc.haveTTL /\ x.ttl = acc.ttl /\ x.nx = v /\ x.xx = w

LEMMA AccCondition ==
  \A acc \in Accs, v \in BOOLEAN, w \in BOOLEAN, k \in Nat \ {0} :
      ConditionAs(WithCondition(acc, v, w, k), acc, v, w, k)
  <1> TAKE acc \in Accs, v \in BOOLEAN, w \in BOOLEAN, k \in Nat \ {0}
  <1> DEFINE x == WithCondition(acc, v, w, k)
  <1>1. x.i = k /\ x.haveTTL = acc.haveTTL /\ x.ttl = acc.ttl /\ x.nx = v /\ x.xx = w
    BY DEF Accs, WithCondition
  <1>2. x \in Accs
    BY DEF Accs, WithCondition
  <1> HIDE DEF x
  <1>3. ConditionAs(x, acc, v, w, k)
    BY <1>1, <1>2, Zenon DEF ConditionAs
  <1> QED
    BY <1>3 DEF x

LEMMA AmountRead ==
  ASSUME NEW T, opts \in Seq(T), NEW n \in Nat, n < Len(opts),
         NEW acc \in Accs, acc.i = n + 1, ReadTo(acc, n), Timed(n + 1), ~NoAmount(acc)
  PROVE  LET x == [acc EXCEPT !.haveTTL = TRUE, !.ttl = Amount(acc), !.i = acc.i + 2]
         IN  x \in Accs /\ x.i = n + 3 /\ n + 2 <= Len(opts) /\ ReadTo(x, n + 2)
  <1> DEFINE x == [acc EXCEPT !.haveTTL = TRUE, !.ttl = Amount(acc), !.i = acc.i + 2]
             i == n + 1
             m == n + 2
             N == Len(opts)
  <1>1. ~acc.haveTTL /\ m <= N /\ opts[m] \in DOMAIN AmountOf
        /\ ~(AmountOf[opts[m]] <= 0) /\ m \in Nat /\ i + 1 = m /\ m - 1 = i
    <2>1. acc.i + 1 = m /\ N \in Nat
      OBVIOUS
    <2> QED
      BY <2>1 DEF NoAmount
  <1>2. AmountOf[opts[m]] \in Int
    BY <1>1, DurationAssumption
  <1>3. Amount(acc) \in Int /\ Amount(acc) = Wrap(AmountOf[opts[i + 1]] * Unit(opts[i]))
    <2>1. AmountOf[opts[m]] * Unit(opts[i]) \in Int
      BY <1>2, UnitIs
    <2>2. Wrap(AmountOf[opts[m]] * Unit(opts[i])) \in Int
      BY <2>1, WrapIs
    <2> QED
      BY <1>1, <2>2 DEF Amount
  <1>4. x \in Accs /\ x.i = n + 3 /\ x.haveTTL /\ x.ttl = Amount(acc) /\ x.nx = acc.nx /\ x.xx = acc.xx
    <2> DEFINE k == acc.i + 2
               v == Amount(acc)
    <2>1. k \in Nat \ {0} /\ k = n + 3 /\ v \in Int
      BY <1>3
    <2> HIDE DEF k, v
    <2>2. x = WithTTL(acc, v, k)
      BY Zenon DEF k, v, WithTTL
    <2> HIDE DEF x
    <2>3. x \in Accs /\ x.i = k /\ x.haveTTL /\ x.ttl = v /\ x.nx = acc.nx /\ x.xx = acc.xx
      <3>1. TimedAs(WithTTL(acc, v, k), acc, v, k)
        BY <2>1, AccTimed, Zenon
      <3> QED
        BY <2>2, <3>1, Zenon DEF TimedAs
    <2> QED
      BY <2>1, <2>3, Zenon DEF v
  <1> HIDE DEF x, N
  <1>5. opts[m] \notin {"NX", "XX", "EX", "PX"} /\ ~Timed(m)
    BY <1>1, NotAmounts DEF Timed
  <1>6. opts[i] \notin {"NX", "XX"}
    BY DEF Timed
  <1>7. \A j \in 1 .. n : ~Timed(j)
    BY <1>1 DEF ReadTo
  <1>8. \A j \in 1 .. m : j \in 1 .. n \/ j = i \/ j = m
    OBVIOUS
  <1>9. \A j \in 1 .. n : j \in 1 .. m
    OBVIOUS
  <1>10. i \in 1 .. m /\ m \in 1 .. m
    OBVIOUS
  <1> HIDE DEF m, i
  <1>11. Within(m, "NX") = Within(n, "NX") /\ Within(m, "XX") = Within(n, "XX")
    BY <1>5, <1>6, <1>8, <1>9 DEF Within
  <1>12. Timed(i)
    BY DEF i
  <1>13. \A j, k \in 1 .. m : Timed(j) /\ Timed(k) => j = k
    BY <1>5, <1>7, <1>8
  <1>14. \A j \in 1 .. m : Timed(j) => x.ttl = Wrap(AmountOf[opts[j + 1]] * Unit(opts[j]))
    BY <1>3, <1>4, <1>5, <1>7, <1>8
  <1>15. \A j \in 1 .. m : Sits(j, m)
    <2>1. Sits(i, m)
      BY <1>1, <1>12 DEF Sits
    <2>2. AmountOf[opts[m]] > 0
      BY <1>1, <1>2
    <2>3. Sits(m, m)
      BY <1>1, <1>10, <1>12, <2>2 DEF Sits
    <2>4. ASSUME NEW j \in 1 .. n PROVE Sits(j, m)
      <3>1. Sits(j, n) /\ ~Timed(j)
        BY <1>7 DEF ReadTo
      <3>2. j - 1 \in 1 .. n => j - 1 \in 1 .. m
        BY <1>9
      <3> QED
        BY <3>1, <3>2 DEF Sits
    <2> QED
      BY <1>8, <2>1, <2>3, <2>4
  <1>16. ReadTo(x, m)
    <2>1. (acc.nx <=> Within(n, "NX")) /\ (acc.xx <=> Within(n, "XX")) /\ ~(acc.nx /\ acc.xx)
      BY Zenon DEF ReadTo
    <2>2. \E j \in 1 .. m : Timed(j)
      BY <1>10, <1>12
    <2> QED
      BY <1>4, <1>11, <1>13, <1>14, <1>15, <2>1, <2>2 DEF ReadTo
  <1> QED
    BY <1>1, <1>4, <1>16, Zenon DEF m, x, N

LEMMA ConditionRead ==
  ASSUME NEW T, opts \in Seq(T), NEW n \in Nat, n < Len(opts),
         NEW acc \in Accs, acc.i = n + 1, ReadTo(acc, n), ~Timed(n + 1), ~NoOption(acc)
  PROVE  LET x == [acc EXCEPT !.nx = acc.nx \/ opts[acc.i] = "NX",
                              !.xx = acc.xx \/ opts[acc.i] = "XX", !.i = acc.i + 1]
         IN  x \in Accs /\ x.i = n + 2 /\ ReadTo(x, n + 1)
  <1> DEFINE x == [acc EXCEPT !.nx = acc.nx \/ opts[acc.i] = "NX",
                              !.xx = acc.xx \/ opts[acc.i] = "XX", !.i = acc.i + 1]
             i == n + 1
  <1>1. acc.i = i
    OBVIOUS
  <1>2. opts[i] \in {"NX", "XX"} /\ ~Conflicts(acc, opts[i])
    BY <1>1 DEF NoOption
  <1>3. /\ x \in Accs /\ x.i = n + 2 /\ x.haveTTL = acc.haveTTL /\ x.ttl = acc.ttl
        /\ x.nx <=> acc.nx \/ opts[i] = "NX"
        /\ x.xx <=> acc.xx \/ opts[i] = "XX"
    <2> DEFINE k == acc.i + 1
               v == acc.nx \/ opts[i] = "NX"
               w == acc.xx \/ opts[i] = "XX"
    <2>1. k \in Nat \ {0} /\ k = n + 2 /\ v \in BOOLEAN /\ w \in BOOLEAN
      OBVIOUS
    <2>2. x = WithCondition(acc, v, w, k)
      BY <1>1, Zenon DEF WithCondition
    <2> HIDE DEF k, v, w, x
    <2>3. x \in Accs /\ x.i = k /\ x.haveTTL = acc.haveTTL /\ x.ttl = acc.ttl /\ x.nx = v /\ x.xx = w
      <3>1. ConditionAs(WithCondition(acc, v, w, k), acc, v, w, k)
        BY <2>1, AccCondition, Zenon
      <3> QED
        BY <2>2, <3>1, Zenon DEF ConditionAs
    <2> QED
      BY <2>1, <2>3, Zenon DEF v, w
  <1> HIDE DEF x
  <1>4. (\A j \in 1 .. i : j \in 1 .. n \/ j = i) /\ i \in 1 .. i /\ \A j \in 1 .. n : j \in 1 .. i
    OBVIOUS
  <1>5. ~Timed(i)
    OBVIOUS
  <1>6. \A j \in 1 .. n : j + 1 <= n => j + 1 <= i
    OBVIOUS
  <1> HIDE DEF i
  <1>7. \A t : Within(i, t) <=> Within(n, t) \/ opts[i] = t
    BY <1>4 DEF Within
  <1>8. /\ acc.nx <=> Within(n, "NX")
        /\ acc.xx <=> Within(n, "XX")
        /\ ~(acc.nx /\ acc.xx)
        /\ acc.haveTTL <=> \E j \in 1 .. n : Timed(j)
        /\ \A j, k \in 1 .. n : Timed(j) /\ Timed(k) => j = k
        /\ \A j \in 1 .. n : Sits(j, n)
        /\ ~acc.haveTTL => acc.ttl = 0
        /\ \A j \in 1 .. n : Timed(j) => acc.ttl = Wrap(AmountOf[opts[j + 1]] * Unit(opts[j]))
    BY Zenon DEF ReadTo
  <1>9. x.nx <=> Within(i, "NX")
    BY <1>3, <1>7, <1>8, Zenon
  <1>10. x.xx <=> Within(i, "XX")
    BY <1>3, <1>7, <1>8, Zenon
  <1>11. ~(x.nx /\ x.xx)
    <2>1. ~(opts[i] = "NX" /\ opts[i] = "XX")
      OBVIOUS
    <2> QED
      BY <1>2, <1>3, <1>8, <2>1, Zenon DEF Conflicts
  <1>12. x.haveTTL <=> \E j \in 1 .. i : Timed(j)
    BY <1>3, <1>4, <1>5, <1>8
  <1>13. \A j, k \in 1 .. i : Timed(j) /\ Timed(k) => j = k
    BY <1>4, <1>5, <1>8, Zenon
  <1>14. \A j \in 1 .. i : Sits(j, i)
    <2>1. Sits(i, i)
      BY <1>2 DEF Sits
    <2>2. ASSUME NEW j \in 1 .. n PROVE Sits(j, i)
      <3>1. Sits(j, n)
        BY <1>8
      <3>2. j - 1 \in 1 .. n => j - 1 \in 1 .. i
        BY <1>4
      <3>3. j + 1 <= n => j + 1 <= i
        BY <1>6
      <3> QED
        BY <3>1, <3>2, <3>3 DEF Sits
    <2> QED
      BY <1>4, <2>1, <2>2
  <1>15. ~x.haveTTL => x.ttl = 0
    BY <1>3, <1>8, Zenon
  <1>16. \A j \in 1 .. i : Timed(j) => x.ttl = Wrap(AmountOf[opts[j + 1]] * Unit(opts[j]))
    BY <1>3, <1>4, <1>5, <1>8, Zenon
  <1>17. ReadTo(x, i)
    BY <1>9, <1>10, <1>11, <1>12, <1>13, <1>14, <1>15, <1>16, Zenon DEF ReadTo
  <1> QED
    BY <1>3, <1>17, Zenon DEF x, i

\* What the loop can hold: what it has read is in order, or the options are not.
Readings ==
  {x \in Accs : x.i - 1 <= Len(opts) /\ ReadTo(x, x.i - 1)} \cup {x \in {SyntaxError} : ~Tolerated}

LEMMA OptionReads ==
  ASSUME NEW T, opts \in Seq(T), NEW acc \in Accs, acc.i <= Len(opts), ReadTo(acc, acc.i - 1)
  PROVE  /\ Option(opts, acc) \in Readings
         /\ Option(opts, acc) = SyntaxError \/ Option(opts, acc).i > acc.i
  <1> DEFINE n == acc.i - 1
             x == Option(opts, acc)
  <1>1. n \in Nat /\ acc.i = n + 1 /\ n < Len(opts) /\ Len(opts) \in Nat
    BY DEF Accs
  <1>2. ReadTo(acc, n)
    OBVIOUS
  <1> HIDE DEF n, x
  <1>3. CASE IF Timed(n + 1) THEN NoAmount(acc) ELSE NoOption(acc)
    <2>1. ~Tolerated
      BY <1>1, <1>2, <1>3, RoundFails
    <2>2. x = SyntaxError
      BY <1>1, <1>3, OptionIs DEF x
    <2> QED
      BY <2>1, <2>2 DEF Readings, x
  <1>4. CASE Timed(n + 1) /\ ~NoAmount(acc)
    <2>1. x = [acc EXCEPT !.haveTTL = TRUE, !.ttl = Amount(acc), !.i = acc.i + 2]
      BY <1>1, <1>4, OptionIs DEF x
    <2>2. LET y == [acc EXCEPT !.haveTTL = TRUE, !.ttl = Amount(acc), !.i = acc.i + 2]
          IN  y \in Accs /\ y.i = n + 3 /\ n + 2 <= Len(opts) /\ ReadTo(y, n + 2)
      BY <1>1, <1>2, <1>4, AmountRead
    <2>3. x \in Accs /\ x.i = n + 3 /\ n + 2 <= Len(opts) /\ ReadTo(x, n + 2)
      BY <2>1, <2>2, Zenon
    <2>4. x.i - 1 = n + 2 /\ x.i > acc.i /\ x.i - 1 <= Len(opts)
      BY <1>1, <2>3
    <2>5. ReadTo(x, x.i - 1)
      BY <2>3, <2>4, Zenon
    <2> QED
      BY <2>3, <2>4, <2>5 DEF Readings, x
  <1>5. CASE ~Timed(n + 1) /\ ~NoOption(acc)
    <2>1. x = [acc EXCEPT !.nx = acc.nx \/ opts[acc.i] = "NX",
                          !.xx = acc.xx \/ opts[acc.i] = "XX", !.i = acc.i + 1]
      BY <1>1, <1>5, OptionIs DEF x
    <2>2. LET y == [acc EXCEPT !.nx = acc.nx \/ opts[acc.i] = "NX",
                               !.xx = acc.xx \/ opts[acc.i] = "XX", !.i = acc.i + 1]
          IN  y \in Accs /\ y.i = n + 2 /\ ReadTo(y, n + 1)
      BY <1>1, <1>2, <1>5, ConditionRead
    <2>3. x \in Accs /\ x.i = n + 2 /\ ReadTo(x, n + 1)
      BY <2>1, <2>2, Zenon
    <2>4. x.i - 1 = n + 1 /\ x.i > acc.i /\ x.i - 1 <= Len(opts)
      BY <1>1, <2>3
    <2>5. ReadTo(x, x.i - 1)
      BY <2>3, <2>4, Zenon
    <2> QED
      BY <2>3, <2>4, <2>5 DEF Readings, x
  <1> QED
    BY <1>3, <1>4, <1>5

LEMMA AccOk == (\A acc \in Accs : acc.ok /\ acc.i \in Nat) /\ ~SyntaxError.ok
  BY DEF Accs, SyntaxError

Begun == [ok |-> TRUE, ttl |-> 0, nx |-> FALSE, xx |-> FALSE, haveTTL |-> FALSE, i |-> 1]

LEMMA BegunIs ==
  ASSUME NEW T, opts \in Seq(T)
  PROVE  Begun \in Readings
  <1>1. Begun \in Accs
    BY DEF Begun, Accs
  <1>2. Begun.i - 1 = 0 /\ 0 <= Len(opts) /\ 1 .. 0 = {}
    BY DEF Begun
  <1>3. ReadTo(Begun, 0)
    BY <1>2 DEF ReadTo, Begun, Within
  <1> QED
    BY <1>1, <1>2, <1>3 DEF Readings

\* All the options are read, or one of them is an error.
LEMMA OptionsLoop ==
  ASSUME NEW T, opts \in Seq(T)
  PROVE  LET r == parseSetOpts(opts)
         IN  \/ r = SyntaxError /\ ~Tolerated
             \/ r \in Accs /\ ReadTo(r, Len(opts))
  <1> DEFINE N == Len(opts)
             Round(acc) == IF ~acc.ok \/ acc.i > N THEN acc ELSE Option(opts, acc)
             Body(g, n) == IF n = 0 THEN Begun ELSE Round(g[n - 1])
             after == CHOOSE g : g = [n \in 0 .. N |-> Body(g, n)]
             V == Readings
             step == [n \in 1 .. N |-> [v \in V |-> Round(v)]]
  <1>1. parseSetOpts(opts) = after[N]
    BY Zenon DEF parseSetOpts, Begun
  <1>2. N \in Nat
    OBVIOUS
  <1>3. \A v \in V : \/ v \in Accs /\ v.i - 1 <= N /\ ReadTo(v, v.i - 1)
                     \/ v = SyntaxError /\ ~Tolerated
    BY DEF Readings
  <1>4. ASSUME NEW v \in V
        PROVE  /\ Round(v) \in V
               /\ v \in Accs /\ v.i > N => Round(v) = v
               /\ v \in Accs /\ ~(v.i > N) => Round(v) = SyntaxError \/ Round(v).i > v.i
               /\ v = SyntaxError => Round(v) = SyntaxError
    <2>1. CASE v = SyntaxError
      <3>1. Round(v) = v /\ v \notin Accs
        BY <2>1, AccOk
      <3> QED
        BY <2>1, <3>1
    <2>2. CASE v \in Accs /\ v.i > N
      <3>1. Round(v) = v /\ v # SyntaxError
        BY <2>2, AccOk
      <3> QED
        BY <2>2, <3>1
    <2>3. CASE v \in Accs /\ ~(v.i > N)
      <3>1. Round(v) = Option(opts, v) /\ v # SyntaxError /\ v.i <= N
        BY <1>2, <2>3, AccOk
      <3>2. ReadTo(v, v.i - 1)
        BY <1>3, <3>1
      <3>3. Option(opts, v) \in Readings /\ (Option(opts, v) = SyntaxError \/ Option(opts, v).i > v.i)
        BY <2>3, <3>1, <3>2, OptionReads
      <3> QED
        BY <2>3, <3>1, <3>3
    <2> QED
      BY <1>3, <2>1, <2>2, <2>3
  <1> HIDE DEF Round, V
  <1>5. step \in [1 .. N -> [V -> V]] /\ \A n \in 1 .. N, v \in V : step[n][v] = Round(v)
    BY <1>4
  <1> HIDE DEF step
  <1>6. PICK f : f \in [0 .. N -> V] /\ f[0] = Begun /\ \A n \in 1 .. N : f[n] = Round(f[n - 1])
    <2>1. Begun \in V
      BY BegunIs DEF V
    <2>2. PICK f : Rounds(f, V, Begun, N, step)
      BY <1>2, <1>5, <2>1, RoundsExist, Zenon
    <2>3. f \in [0 .. N -> V] /\ f[0] = Begun /\ \A n \in 1 .. N : f[n] = step[n][f[n - 1]]
      BY <2>2, Zenon DEF Rounds
    <2>4. \A n \in 1 .. N : n - 1 \in 0 .. N
      BY <1>2
    <2>5. \A n \in 1 .. N : f[n] = Round(f[n - 1])
      BY <1>5, <2>3, <2>4
    <2> QED
      BY <2>3, <2>5
  <1>7. \A n \in 0 .. N : f[n] = Body(f, n)
    BY <1>6
  <1> HIDE DEF Body
  <1>8. f = [n \in 0 .. N |-> Body(f, n)]
    BY <1>6, <1>7
  <1>9. after = [n \in 0 .. N |-> Body(after, n)]
    BY <1>8
  <1> HIDE DEF after
  <1>10. after[0] = Begun /\ \A n \in 1 .. N : after[n] = Round(after[n - 1])
    <2>1. \A n \in 0 .. N : after[n] = Body(after, n)
      BY <1>9
    <2> QED
      BY <1>2, <2>1 DEF Body
  <1> DEFINE S == {n \in 0 .. N : after[n] = f[n] /\ (f[n] \in Accs => f[n].i > n)}
  <1>11. 0 \in S
    <2>1. Begun.i = 1 /\ 0 \in 0 .. N
      BY <1>2 DEF Begun
    <2>2. after[0] = f[0] /\ f[0].i > 0
      BY <1>6, <1>10, <2>1
    <2> QED
      BY <2>1, <2>2
  <1>12. ASSUME NEW n \in 1 .. N, n - 1 \in S PROVE n \in S
    <2> DEFINE v == f[n - 1]
    <2>1. after[n] = f[n] /\ f[n] = Round(v) /\ v \in V /\ n \in 0 .. N
      BY <1>6, <1>10, <1>12
    <2>2. v \in Accs => v.i > n - 1
      BY <1>12
    <2> HIDE DEF v, S
    <2>3. ASSUME f[n] \in Accs PROVE f[n].i > n
      <3>1. v # SyntaxError /\ v \in Accs /\ f[n] # SyntaxError
        BY <1>3, <1>4, <2>1, <2>3, AccOk
      <3>2. CASE v.i > N
        BY <1>4, <2>1, <3>1, <3>2, AccOk
      <3>3. CASE ~(v.i > N)
        <4>1. f[n].i > v.i
          BY <1>4, <2>1, <3>1, <3>3
        <4> QED
          BY <2>2, <2>3, <3>1, <4>1, AccOk
      <3> QED
        BY <3>2, <3>3
    <2> QED
      BY <2>1, <2>3 DEF S
  <1> HIDE DEF S
  <1>13. 0 .. N \subseteq S
    BY <1>2, <1>11, <1>12, Induction
  <1>14. after[N] = f[N] /\ (f[N] \in Accs => f[N].i > N) /\ f[N] \in V
    <2>1. N \in 0 .. N
      BY <1>2
    <2> QED
      BY <1>6, <1>13, <2>1 DEF S
  <1>15. CASE f[N] = SyntaxError /\ ~Tolerated
    BY <1>1, <1>14, <1>15, Zenon
  <1>16. CASE f[N] \in Accs /\ f[N].i - 1 <= N /\ ReadTo(f[N], f[N].i - 1)
    <2>1. f[N].i - 1 = N
      BY <1>2, <1>14, <1>16, AccOk
    <2>2. ReadTo(f[N], N)
      BY <1>16, <2>1, Zenon
    <2> QED
      BY <1>1, <1>14, <1>16, <2>2, Zenon DEF N
  <1> QED
    BY <1>3, <1>14, <1>15, <1>16, Zenon

LEMMA OptionsAre ==
  ASSUME opts \in Seq(OptionTokens)
  PROVE  OptionsAsWritten
  <1> DEFINE N == Len(opts)
             r == parseSetOpts(opts)
  <1>1. N \in Nat /\ DOMAIN opts = 1 .. N
    OBVIOUS
  <1>2. \/ r = SyntaxError /\ ~Tolerated
        \/ r \in Accs /\ ReadTo(r, N)
    BY OptionsLoop, Zenon
  <1>3. Tolerated <=>
           /\ \A j, k \in 1 .. N : Timed(j) /\ Timed(k) => j = k
           /\ ~(Within(N, "NX") /\ Within(N, "XX"))
           /\ \A j \in 1 .. N : Sits(j, N)
    BY GrammarIs
  <1> HIDE DEF r
  <1>a. Tolerated <=> Grammatical \/ Repeating
    BY ToleratedIs
  <1>4. CASE r = SyntaxError /\ ~Tolerated
    BY <1>4, <1>a, AccOk, Zenon DEF OptionsAsWritten, r
  <1>5. CASE r \in Accs /\ ReadTo(r, N)
    <2>1. r.ok
      BY <1>5, AccOk
    <2>2. /\ r.nx <=> Within(N, "NX")
          /\ r.xx <=> Within(N, "XX")
          /\ ~(r.nx /\ r.xx)
          /\ r.haveTTL <=> \E j \in 1 .. N : Timed(j)
          /\ \A j, k \in 1 .. N : Timed(j) /\ Timed(k) => j = k
          /\ \A j \in 1 .. N : Sits(j, N)
          /\ ~r.haveTTL => r.ttl = 0
          /\ \A j \in 1 .. N : Timed(j) => r.ttl = Wrap(AmountOf[opts[j + 1]] * Unit(opts[j]))
      BY <1>5, Zenon DEF ReadTo
    <2> HIDE DEF N
    <2>3. Tolerated
      BY <1>3, <2>2, Zenon
    <2>4. (r.nx <=> Has("NX")) /\ (r.xx <=> Has("XX"))
      BY <1>1, <2>2, Zenon DEF Has, Within
    <2>5. Deadlines = {j \in 1 .. N : Timed(j)}
      BY <1>1 DEF Deadlines, Timed
    <2>6. Deadlines = {} => r.ttl = 0
      BY <2>2, <2>5
    <2>7. ASSUME NEW j \in Deadlines, AmountOf[opts[j + 1]] * Unit(opts[j]) < Wrapping
          PROVE  r.ttl = AmountOf[opts[j + 1]] * Unit(opts[j])
      <3>1. j \in 1 .. N /\ Timed(j)
        BY <2>5
      <3>2. j + 1 <= N /\ opts[j + 1] \in DOMAIN AmountOf
        <4>1. Sits(j, N)
          BY <2>2, <3>1
        <4> QED
          BY <3>1, <4>1, NotAmounts DEF Sits, Timed
      <3>3. AmountOf[opts[j + 1]] > 0
        <4>1. j + 1 \in 1 .. N
          BY <1>1, <3>1, <3>2
        <4>2. Sits(j + 1, N)
          BY <2>2, <4>1
        <4> QED
          BY <3>2, <4>2, NotAmounts DEF Sits, Timed
      <3> DEFINE m == AmountOf[opts[j + 1]]
                 u == Unit(opts[j])
                 d == m * u
      <3>4. m \in Nat /\ u \in Nat
        BY <3>2, <3>3, UnitIs, DurationAssumption
      <3>5. d \in Nat
        <4> HIDE DEF m, u
        <4> QED
          BY <3>4
      <3>6. r.ttl = Wrap(d) /\ d < Wrapping
        BY <2>2, <2>7, <3>1
      <3> HIDE DEF d
      <3>7. r.ttl = d
        BY <3>5, <3>6, WrapIs
      <3> QED
        BY <3>7 DEF d
    <2>8. \A j \in Deadlines : LET ttl == AmountOf[opts[j + 1]] * Unit(opts[j])
                               IN  ttl < Wrapping => r.ttl = ttl
      BY <2>7, Zenon
    <2> QED
      BY <1>a, <2>1, <2>3, <2>4, <2>6, <2>8, Zenon DEF OptionsAsWritten, r
  <1> QED
    BY <1>2, <1>4, <1>5

LEMMA OptionInit == Init => opts \in Seq(OptionTokens)
  BY DEF Init

LEMMA OptionStep == opts \in Seq(OptionTokens) /\ [Next]_vars => (opts \in Seq(OptionTokens))'
  <1> SUFFICES ASSUME opts \in Seq(OptionTokens), [Next]_vars PROVE opts' \in Seq(OptionTokens)
    OBVIOUS
  <1>1. CASE AddOption
    BY <1>1, AppendProperties DEF AddOption
  <1>2. CASE ~AddOption
    BY <1>2 DEF Next, GrowPattern, AddCommand, AddArgument, AddChunk, GrowStream, AddShard,
                Execute, Wait, vars
  <1> QED
    BY <1>1, <1>2

----------------------------------------------------------------------------
(* The KEYS matcher: recursions that ascend *)

\* f is defined on 1 .. K by a recursion that ascends from i to up[i].
Ascends(f, K, V, base, up, step) ==
  /\ f \in [1 .. K -> V]
  /\ \A i \in 1 .. K : f[i] = IF i < up[i] /\ up[i] <= K THEN step[i][f[up[i]]] ELSE base[i]

LEMMA AscentExists ==
  \A K, V, base, up, step :
    K \in Nat /\ base \in [1 .. K -> V] /\ up \in [1 .. K -> Nat] /\ step \in [1 .. K -> [V -> V]]
      /\ V # {}
      => \E f : Ascends(f, K, V, base, up, step)
  <1> SUFFICES ASSUME NEW K \in Nat, NEW V, NEW base \in [1 .. K -> V], NEW up \in [1 .. K -> Nat],
                      NEW step \in [1 .. K -> [V -> V]], V # {}
               PROVE  \E f : Ascends(f, K, V, base, up, step)
    BY Zenon
  <1>0. PICK v0 \in V : TRUE
    OBVIOUS
  <1> DEFINE At(n) == K + 1 - n
             Goes(i) == i < up[i] /\ up[i] <= K
             b == [n \in Nat |-> IF n \in 1 .. K THEN base[At(n)] ELSE v0]
             d == [n \in Nat |-> IF n \in 1 .. K THEN IF Goes(At(n)) THEN At(up[At(n)]) ELSE n ELSE n]
             t == [n \in Nat |-> [v \in V |-> IF n \in 1 .. K THEN step[At(n)][v] ELSE v]]
  <1>1. \A n \in 1 .. K : At(n) \in 1 .. K /\ At(At(n)) = n
    OBVIOUS
  <1>2. b \in [Nat -> V]
    BY <1>0, <1>1
  <1>3. d \in [Nat -> Nat]
    <2> SUFFICES ASSUME NEW n \in 1 .. K, Goes(At(n)) PROVE At(up[At(n)]) \in Nat
      OBVIOUS
    <2>1. up[At(n)] \in Nat /\ up[At(n)] <= K
      BY <1>1
    <2> QED
      BY <2>1
  <1>4. t \in [Nat -> [V -> V]]
    <2>1. \A n \in 1 .. K, v \in V : step[At(n)][v] \in V
      <3> HIDE DEF At
      <3> QED
        BY <1>1
    <2> HIDE DEF At
    <2> QED
      BY <2>1
  <1>5. \A n \in 1 .. K : b[n] = base[At(n)] /\ (\A v \in V : t[n][v] = step[At(n)][v])
                        /\ d[n] = IF Goes(At(n)) THEN At(up[At(n)]) ELSE n
    <2> HIDE DEF At, Goes
    <2>1. \A n \in 1 .. K : n \in Nat
      OBVIOUS
    <2> QED
      BY <2>1
  <1> HIDE DEF b, d, t
  <1>6. PICK g : Descends(g, V, b, d, t)
    BY <1>2, <1>3, <1>4, DescentExists, Zenon
  <1>7. g \in [Nat -> V] /\ \A n \in Nat : g[n] = IF d[n] < n THEN t[n][g[d[n]]] ELSE b[n]
    BY <1>6, Zenon DEF Descends
  <1> DEFINE f == [i \in 1 .. K |-> g[At(i)]]
  <1>8. f \in [1 .. K -> V] /\ \A i \in 1 .. K : f[i] = g[At(i)]
    BY <1>1, <1>7
  <1> HIDE DEF f
  <1>9. ASSUME NEW i \in 1 .. K
        PROVE  f[i] = IF i < up[i] /\ up[i] <= K THEN step[i][f[up[i]]] ELSE base[i]
    <2> DEFINE n == At(i)
    <2>1. n \in 1 .. K /\ At(n) = i /\ n \in Nat
      BY <1>1
    <2>2. f[i] = IF d[n] < n THEN t[n][g[d[n]]] ELSE b[n]
      BY <1>7, <1>8, <2>1
    <2>3. b[n] = base[i] /\ (\A v \in V : t[n][v] = step[i][v]) /\ d[n] = IF Goes(i) THEN At(up[i]) ELSE n
      <3> HIDE DEF n, At, Goes
      <3> QED
        BY <1>5, <2>1
    <2>4. CASE Goes(i)
      <3>1. up[i] \in 1 .. K /\ At(up[i]) < n
        BY <2>4
      <3>2. d[n] = At(up[i]) /\ d[n] < n
        BY <2>3, <2>4, <3>1
      <3>3. f[up[i]] = g[d[n]] /\ f[up[i]] \in V
        BY <1>8, <3>1, <3>2
      <3> HIDE DEF n, At
      <3>4. f[i] = t[n][g[d[n]]]
        BY <2>2, <3>2
      <3>5. f[i] = step[i][f[up[i]]]
        BY <2>3, <3>3, <3>4
      <3> QED
        BY <2>4, <3>5
    <2>5. CASE ~Goes(i)
      <3>1. ~(d[n] < n)
        BY <2>1, <2>3, <2>5
      <3>2. f[i] = b[n]
        BY <2>2, <3>1
      <3>3. f[i] = base[i]
        BY <2>3, <3>2
      <3> QED
        BY <2>5, <3>3
    <2> QED
      BY <2>4, <2>5
  <1>10. Ascends(f, K, V, base, up, step)
    BY <1>8, <1>9, Zenon DEF Ascends
  <1> QED
    BY <1>10, Zenon

\* Induction from K downwards.
LEMMA Downward ==
  ASSUME NEW S, NEW m \in Int, NEW K \in Int, \A i \in m .. K : (\A j \in i + 1 .. K : j \in S) => i \in S
  PROVE  \A i \in m .. K : i \in S
  <1> DEFINE T == {n \in Nat : K - n \in m .. K /\ K - n \notin S}
  <1> SUFFICES ASSUME NEW i \in m .. K, i \notin S PROVE FALSE
    OBVIOUS
  <1>1. K - i \in Nat /\ K - (K - i) = i
    OBVIOUS
  <1>2. T \in SUBSET Nat /\ K - i \in T
    BY <1>1
  <1>3. PICK n \in T : \A k \in T : n <= k
    <2> HIDE DEF T
    <2> QED
      BY <1>2, LeastNumber
  <1>4. n \in Nat /\ K - n \in m .. K /\ K - n \notin S
    BY <1>3
  <1>5. ASSUME NEW j \in (K - n) + 1 .. K PROVE j \in S
    <2>1. K - j \in Nat /\ K - (K - j) = j /\ j \in m .. K /\ ~(n <= K - j)
      BY <1>4
    <2> QED
      BY <1>3, <2>1
  <1> QED
    BY <1>4, <1>5

----------------------------------------------------------------------------
(* Classes *)

LEMMA RangeBytes ==
  ASSUME NEW x \in Byte, NEW y \in Byte
  PROVE  x .. y \subseteq Byte
  BY DEF Byte

RangeAt(b, k) == k + 2 <= Len(b) /\ b[k + 1] = Dash

\* f[k] has the bytes that b lists from k on.
Listed(f, b) ==
  \A k \in 1 .. Len(b) + 1 :
     f[k] = IF k > Len(b) THEN {}
            ELSE IF RangeAt(b, k) THEN (b[k] .. b[k + 2]) \cup f[k + 3]
            ELSE {b[k]} \cup f[k + 1]

LEMMA ListedBytes ==
  ASSUME NEW b \in Seq(Byte), NEW f, Listed(f, b)
  PROVE  \A k \in 1 .. Len(b) + 1 : f[k] \subseteq Byte
  <1> DEFINE N == Len(b)
             S == {k \in 1 .. N + 1 : f[k] \subseteq Byte}
  <1>1. N \in Nat /\ \A k \in 1 .. N : b[k] \in Byte
    OBVIOUS
  <1>2. ASSUME NEW k \in 1 .. N + 1, \A j \in k + 1 .. N + 1 : j \in S PROVE k \in S
    <2>1. f[k] = IF k > N THEN {} ELSE IF RangeAt(b, k) THEN (b[k] .. b[k + 2]) \cup f[k + 3]
                 ELSE {b[k]} \cup f[k + 1]
      BY DEF Listed
    <2> HIDE DEF N
    <2>2. CASE k > N
      BY <2>1, <2>2
    <2>3. CASE ~(k > N) /\ RangeAt(b, k)
      <3>1. k \in 1 .. N /\ k + 2 \in 1 .. N /\ k + 3 \in k + 1 .. N + 1
        BY <1>1, <2>3 DEF RangeAt, N
      <3>2. b[k] \in Byte /\ b[k + 2] \in Byte /\ f[k + 3] \subseteq Byte
        BY <1>1, <1>2, <3>1
      <3>3. b[k] .. b[k + 2] \subseteq Byte
        BY <3>2, RangeBytes
      <3> QED
        BY <2>1, <2>3, <3>2, <3>3
    <2>4. CASE ~(k > N) /\ ~RangeAt(b, k)
      <3>1. k \in 1 .. N /\ k + 1 \in k + 1 .. N + 1
        BY <1>1, <2>4
      <3>2. b[k] \in Byte /\ f[k + 1] \subseteq Byte
        BY <1>1, <1>2, <3>1
      <3> QED
        BY <2>1, <2>4, <3>2
    <2> QED
      BY <2>2, <2>3, <2>4
  <1>3. \A k \in 1 .. N + 1 : k \in S
    <2>1. N + 1 \in Int /\ 1 \in Int
      BY <1>1
    <2> HIDE DEF S, N
    <2> QED
      BY <1>2, <2>1, Downward
  <1> QED
    BY <1>3

LEMMA MembersDef ==
  ASSUME NEW b \in Seq(Byte)
  PROVE  \E f : Listed(f, b) /\ Members(b) = f[1]
  <1> DEFINE N == Len(b)
             K == N + 1
             V == SUBSET Byte
             Body(g, k) == IF k > N THEN {}
                           ELSE IF k + 2 <= N /\ b[k + 1] = Dash THEN (b[k] .. b[k + 2]) \cup g[k + 3]
                           ELSE {b[k]} \cup g[k + 1]
             from == CHOOSE g : g = [k \in 1 .. K |-> Body(g, k)]
             base == [k \in 1 .. K |-> {}]
             up == [k \in 1 .. K |-> IF k > N THEN k ELSE IF RangeAt(b, k) THEN k + 3 ELSE k + 1]
             Item(k) == IF RangeAt(b, k) THEN b[k] .. b[k + 2] ELSE {b[k]}
             step == [k \in 1 .. K |-> [v \in V |-> IF k > N THEN v ELSE Item(k) \cup v]]
  <1>1. Members(b) = from[1]
    BY Zenon DEF Members
  <1>2. N \in Nat /\ K \in Nat /\ K = N + 1 /\ \A k \in 1 .. N : b[k] \in Byte
    OBVIOUS
  <1> HIDE DEF K
  <1>3. \A k \in 1 .. N : Item(k) \subseteq Byte
    <2> TAKE k \in 1 .. N
    <2>1. CASE RangeAt(b, k)
      <3>1. k + 2 \in 1 .. N
        BY <1>2, <2>1 DEF RangeAt
      <3>2. b[k] \in Byte /\ b[k + 2] \in Byte
        BY <1>2, <3>1
      <3>3. b[k] .. b[k + 2] \subseteq Byte
        BY <3>2, RangeBytes
      <3> QED
        BY <2>1, <3>3
    <2>2. CASE ~RangeAt(b, k)
      BY <1>2, <2>2
    <2> QED
      BY <2>1, <2>2
  <1>4. base \in [1 .. K -> V] /\ \A k \in 1 .. K : base[k] = {}
    OBVIOUS
  <1>5. /\ up \in [1 .. K -> Nat]
        /\ \A k \in 1 .. K : up[k] = IF k > N THEN k ELSE IF RangeAt(b, k) THEN k + 3 ELSE k + 1
    <2> HIDE DEF N
    <2> QED
      BY <1>2
  <1>6. /\ step \in [1 .. K -> [V -> V]]
        /\ \A k \in 1 .. K, v \in V : step[k][v] = IF k > N THEN v ELSE Item(k) \cup v
    <2>1. \A k \in 1 .. K : ~(k > N) => k \in 1 .. N
      BY <1>2
    <2> HIDE DEF Item, N
    <2>2. \A k \in 1 .. K, v \in V : (IF k > N THEN v ELSE Item(k) \cup v) \in V
      BY <1>3, <2>1
    <2> HIDE DEF V
    <2> QED
      BY <2>2
  <1>7. V # {}
    OBVIOUS
  <1> HIDE DEF base, up, step, V
  <1>8. PICK f : Ascends(f, K, V, base, up, step)
    BY <1>2, <1>4, <1>5, <1>6, <1>7, AscentExists, Zenon
  <1>9. /\ f \in [1 .. K -> V]
        /\ \A k \in 1 .. K : f[k] = IF k < up[k] /\ up[k] <= K THEN step[k][f[up[k]]] ELSE base[k]
    BY <1>8, Zenon DEF Ascends
  <1>10. ASSUME NEW k \in 1 .. K PROVE f[k] = Body(f, k)
    <2>1. CASE k > N
      <3>1. up[k] = k
        BY <1>5, <2>1
      <3>2. ~(k < up[k])
        BY <3>1
      <3>3. f[k] = base[k] /\ base[k] = {}
        BY <1>4, <1>9, <3>2
      <3> QED
        BY <2>1, <3>3
    <2>2. CASE ~(k > N)
      <3>1. /\ up[k] = IF RangeAt(b, k) THEN k + 3 ELSE k + 1
            /\ k < up[k] /\ up[k] <= K /\ up[k] \in 1 .. K
        <4>1. up[k] = IF RangeAt(b, k) THEN k + 3 ELSE k + 1
          BY <1>5, <2>2
        <4>2. RangeAt(b, k) => k + 2 <= N
          BY DEF RangeAt
        <4> HIDE DEF N
        <4> QED
          BY <1>2, <2>2, <4>1, <4>2
      <3>2. f[k] = step[k][f[up[k]]] /\ f[up[k]] \in V
        BY <1>9, <3>1
      <3>3. f[k] = Item(k) \cup f[up[k]]
        <4> HIDE DEF Item, N
        <4> QED
          BY <1>6, <2>2, <3>2
      <3>4. CASE RangeAt(b, k)
        <4>1. f[k] = (b[k] .. b[k + 2]) \cup f[k + 3]
          BY <3>1, <3>3, <3>4
        <4> QED
          BY <2>2, <3>4, <4>1 DEF RangeAt
      <3>5. CASE ~RangeAt(b, k)
        <4>1. f[k] = {b[k]} \cup f[k + 1]
          BY <3>1, <3>3, <3>5
        <4> QED
          BY <2>2, <3>5, <4>1 DEF RangeAt
      <3> QED
        BY <3>4, <3>5
    <2> QED
      BY <2>1, <2>2
  <1>11. \A g, k : Body(g, k) = IF k > N THEN {} ELSE IF RangeAt(b, k) THEN (b[k] .. b[k + 2]) \cup g[k + 3]
                                ELSE {b[k]} \cup g[k + 1]
    BY Zenon DEF RangeAt
  <1> HIDE DEF Body
  <1>12. f = [k \in 1 .. K |-> Body(f, k)]
    BY <1>9, <1>10
  <1>13. from = [k \in 1 .. K |-> Body(from, k)]
    BY <1>12
  <1> HIDE DEF from
  <1>14. \A k \in 1 .. K : from[k] = Body(from, k)
    BY <1>13
  <1>15. Listed(from, b)
    BY <1>2, <1>11, <1>14, Zenon DEF Listed, K
  <1> QED
    BY <1>1, <1>15

ScanAt(q, found) == [i |-> q, found |-> found]

Scans == [i : Nat, found : BOOLEAN]

\* The item at q has c.
ItemHas(p, q, c) == IF IsRange(p, q) THEN p[q] <= c /\ c <= p[q + 2] ELSE p[q] = c

NextItem(p, q) == IF IsRange(p, q) THEN q + 3 ELSE q + 1

LEMMA ScanFound ==
  \A v \in Scans, h \in BOOLEAN :
     /\ [v EXCEPT !.found = v.found \/ h] = ScanAt(v.i, v.found \/ h)
     /\ ScanAt(v.i, v.found \/ h) \in Scans
  BY DEF Scans, ScanAt

LEMMA ScanFields ==
  \A q, h : ScanAt(q, h).i = q /\ ScanAt(q, h).found = h
  BY DEF ScanAt

\* f[q] is what the loop of matchClass comes to from q on.
Scanned(f, p, c) ==
  \A q \in 1 .. Len(p) + 1 :
     f[q] = IF q > Len(p) \/ p[q] = Close THEN ScanAt(q, FALSE)
            ELSE [f[NextItem(p, q)] EXCEPT !.found = @ \/ ItemHas(p, q, c)]

LEMMA ScanDef ==
  ASSUME NEW p \in Seq(Byte), NEW c \in Byte
  PROVE  \E f : Scanned(f, p, c) /\ \A q : ScanClass(p, c, q) = f[q]
  <1> DEFINE N == Len(p)
             K == N + 1
             V == Scans
             Stops(q) == q > N \/ p[q] = Close
             Body(g, q) == IF q > N \/ p[q] = Close THEN [i |-> q, found |-> FALSE]
                           ELSE IF IsRange(p, q)
                           THEN [g[q + 3] EXCEPT !.found = @ \/ (p[q] <= c /\ c <= p[q + 2])]
                           ELSE [g[q + 1] EXCEPT !.found = @ \/ p[q] = c]
             scan == CHOOSE g : g = [q \in 1 .. K |-> Body(g, q)]
             base == [q \in 1 .. K |-> ScanAt(q, FALSE)]
             up == [q \in 1 .. K |-> IF Stops(q) THEN q ELSE NextItem(p, q)]
             h(q) == ItemHas(p, q, c)
             step == [q \in 1 .. K |-> [v \in V |-> IF Stops(q) THEN v ELSE [v EXCEPT !.found = v.found \/ h(q)]]]
  <1>1. \A q : ScanClass(p, c, q) = scan[q]
    BY Zenon DEF ScanClass
  <1>2. N \in Nat /\ K \in Nat /\ K = N + 1 /\ \A k \in 1 .. N : p[k] \in Byte
    OBVIOUS
  <1> HIDE DEF K
  <1>3. \A q : h(q) \in BOOLEAN
    BY Zenon DEF ItemHas
  <1>4. base \in [1 .. K -> V] /\ \A q \in 1 .. K : base[q] = ScanAt(q, FALSE)
    <2>1. \A q \in 1 .. K : ScanAt(q, FALSE) \in V
      BY DEF ScanAt, Scans
    <2> HIDE DEF V
    <2> QED
      BY <2>1
  <1>5. \A q \in 1 .. K : ~Stops(q) => q < NextItem(p, q) /\ NextItem(p, q) \in 1 .. K
    <2> TAKE q \in 1 .. K
    <2>1. IsRange(p, q) => q + 2 <= N
      BY DEF IsRange
    <2> HIDE DEF N
    <2> QED
      BY <1>2, <2>1 DEF NextItem
  <1>6. up \in [1 .. K -> Nat] /\ \A q \in 1 .. K : up[q] = IF Stops(q) THEN q ELSE NextItem(p, q)
    <2> HIDE DEF Stops
    <2>1. \A q \in 1 .. K : (IF Stops(q) THEN q ELSE NextItem(p, q)) \in Nat
      BY <1>2, <1>5
    <2> QED
      BY <2>1
  <1>7. /\ step \in [1 .. K -> [V -> V]]
        /\ \A q \in 1 .. K, v \in V :
              step[q][v] = IF Stops(q) THEN v ELSE [v EXCEPT !.found = v.found \/ h(q)]
    <2> HIDE DEF Stops, h
    <2>1. \A q \in 1 .. K, v \in V : (IF Stops(q) THEN v ELSE [v EXCEPT !.found = v.found \/ h(q)]) \in V
      BY <1>3, ScanFound, Zenon
    <2> HIDE DEF V
    <2> QED
      BY <2>1, Zenon
  <1>8. V # {}
    <2>1. ScanAt(1, FALSE) \in V
      BY DEF ScanAt, Scans
    <2> QED
      BY <2>1
  <1> HIDE DEF base, up, step, V
  <1>9. PICK f : Ascends(f, K, V, base, up, step)
    BY <1>2, <1>4, <1>6, <1>7, <1>8, AscentExists, Zenon
  <1>10. /\ f \in [1 .. K -> V]
         /\ \A q \in 1 .. K : f[q] = IF q < up[q] /\ up[q] <= K THEN step[q][f[up[q]]] ELSE base[q]
    BY <1>9, Zenon DEF Ascends
  <1>11. \A g, q : Body(g, q) = IF Stops(q) THEN ScanAt(q, FALSE)
                                ELSE [g[NextItem(p, q)] EXCEPT !.found = @ \/ ItemHas(p, q, c)]
    <2> SUFFICES ASSUME NEW g, NEW q
                 PROVE  Body(g, q) = IF Stops(q) THEN ScanAt(q, FALSE)
                                     ELSE [g[NextItem(p, q)] EXCEPT !.found = @ \/ ItemHas(p, q, c)]
      BY Zenon
    <2>1. CASE IsRange(p, q)
      BY <2>1, Zenon DEF ScanAt, NextItem, ItemHas
    <2>2. CASE ~IsRange(p, q)
      BY <2>2, Zenon DEF ScanAt, NextItem, ItemHas
    <2> QED
      BY <2>1, <2>2, Zenon
  <1> HIDE DEF Body, N
  <1>12. ASSUME NEW q \in 1 .. K PROVE f[q] = Body(f, q)
    <2>1. CASE Stops(q)
      <3> HIDE DEF Stops
      <3>1. up[q] = q
        BY <1>6, <2>1
      <3>2. ~(q < up[q])
        BY <3>1
      <3>3. f[q] = ScanAt(q, FALSE)
        BY <1>4, <1>10, <3>2
      <3> QED
        BY <1>11, <2>1, <3>3, Zenon
    <2>2. CASE ~Stops(q)
      <3> HIDE DEF Stops, h
      <3> DEFINE u == NextItem(p, q)
      <3>1. up[q] = u /\ q < up[q] /\ up[q] <= K /\ u \in 1 .. K
        BY <1>2, <1>5, <1>6, <2>2
      <3> HIDE DEF u
      <3>2. f[q] = step[q][f[u]] /\ f[u] \in V
        BY <1>10, <3>1
      <3>3. f[q] = [f[u] EXCEPT !.found = f[u].found \/ h(q)]
        BY <1>7, <2>2, <3>2, Zenon
      <3> QED
        BY <1>11, <2>2, <3>3, Zenon DEF u, h
    <2> QED
      BY <2>1, <2>2
  <1>13. f = [q \in 1 .. K |-> Body(f, q)]
    BY <1>10, <1>12
  <1>14. scan = [q \in 1 .. K |-> Body(scan, q)]
    BY <1>13
  <1> HIDE DEF scan
  <1>15. \A q \in 1 .. K : scan[q] = Body(scan, q)
    BY <1>14
  <1>16. Scanned(scan, p, c)
    BY <1>11, <1>15, Zenon DEF Scanned, K, N
  <1> QED
    BY <1>1, <1>16, Zenon

LEMMA InsideIs ==
  ASSUME NEW p \in Seq(Byte), NEW m \in 1 .. Len(p) + 1, NEW e \in m .. Len(p) + 1
  PROVE  LET b == SubSeq(p, m, e - 1)
         IN  /\ b \in Seq(Byte) /\ Len(b) = e - m
             /\ \A q \in m .. e - 1 : b[q - m + 1] = p[q]
  <1> DEFINE b == SubSeq(p, m, e - 1)
  <1>1. m \in Int /\ e \in Int /\ Len(p) \in Nat
    OBVIOUS
  <1>2. Len(b) = e - m /\ \A k \in 1 .. e - m : b[k] = p[m + k - 1]
    BY <1>1
  <1>3. b \in Seq(Byte)
    <2>1. \A k \in 1 .. e - m : m + k - 1 \in 1 .. Len(p)
      BY <1>1
    <2>2. \A i \in m .. e - 1 : i \in 1 .. Len(p) /\ p[i] \in Byte
      BY <1>1
    <2> QED
      BY <1>1, <2>2, SubSeqProperties
  <1>4. \A q \in m .. e - 1 : q - m + 1 \in 1 .. e - m /\ m + (q - m + 1) - 1 = q
    BY <1>1
  <1> HIDE DEF b
  <1>5. \A q \in m .. e - 1 : b[q - m + 1] = p[q]
    BY <1>2, <1>4
  <1> QED
    BY <1>2, <1>3, <1>5 DEF b

\* The loop of matchClass goes to the first bracket, e, and finds what is listed before it.
LEMMA ScanIs ==
  ASSUME NEW p \in Seq(Byte), NEW c \in Byte, NEW m \in 1 .. Len(p) + 1, NEW e \in m .. Len(p) + 1,
         e <= Len(p) => p[e] = Close, \A q \in m .. e - 1 : p[q] # Close
  PROVE  ScanClass(p, c, m) = ScanAt(e, c \in Members(SubSeq(p, m, e - 1)))
  <1> DEFINE b == SubSeq(p, m, e - 1)
             N == Len(p)
             B == Len(b)
  <1>1. N \in Nat /\ e \in Int /\ m \in Int /\ \A q \in 1 .. N : p[q] \in Byte /\ p[q] \in Int
    <2>1. Byte \subseteq Int
      BY DEF Byte
    <2>2. \A q \in 1 .. N : p[q] \in Byte
      OBVIOUS
    <2>3. N \in Nat /\ m \in Int /\ e \in Int
      OBVIOUS
    <2> HIDE DEF N
    <2> QED
      BY <2>1, <2>2, <2>3
  <1>2. b \in Seq(Byte) /\ B = e - m /\ \A q \in m .. e - 1 : b[q - m + 1] = p[q]
    BY InsideIs
  <1> HIDE DEF b
  <1>3. PICK f : Listed(f, b) /\ Members(b) = f[1]
    BY <1>2, MembersDef
  <1>4. PICK g : Scanned(g, p, c) /\ \A q : ScanClass(p, c, q) = g[q]
    BY ScanDef
  <1> HIDE DEF B, N
  <1> DEFINE at(q) == q - m + 1
             S == {q \in m .. e : g[q] = ScanAt(e, c \in f[at(q)])}
  <1>5. ASSUME NEW q \in m .. e, \A r \in q + 1 .. e : r \in S PROVE q \in S
    <2> DEFINE k == at(q)
    <2>1. q \in 1 .. N + 1 /\ k \in 1 .. B + 1 /\ q \in Nat /\ (k > B <=> q = e) /\ B \in Nat /\ q <= e
      BY <1>1, <1>2 DEF N
    <2>2. g[q] = IF q > N \/ p[q] = Close THEN ScanAt(q, FALSE)
                 ELSE [g[NextItem(p, q)] EXCEPT !.found = @ \/ ItemHas(p, q, c)]
      BY <1>4, <2>1, Zenon DEF Scanned, N
    <2>3. f[k] = IF k > B THEN {} ELSE IF RangeAt(b, k) THEN (b[k] .. b[k + 2]) \cup f[k + 3]
                 ELSE {b[k]} \cup f[k + 1]
      BY <1>3, <2>1, Zenon DEF Listed, B
    <2>4. CASE q = e
      <3>1. f[k] = {}
        BY <2>1, <2>3, <2>4
      <3>2. q > N \/ p[q] = Close
        BY <1>1, <2>1, <2>4 DEF N
      <3>3. g[q] = ScanAt(e, FALSE)
        BY <2>2, <2>4, <3>2
      <3>4. (c \in f[at(q)]) = FALSE
        BY <3>1
      <3> QED
        BY <3>3, <3>4
    <2>5. CASE q # e
      <3>1. q \in m .. e - 1 /\ q \in 1 .. N /\ ~(q > N) /\ ~(k > B)
        BY <1>1, <2>1, <2>5 DEF N
      <3>2. p[q] # Close /\ b[k] = p[q]
        BY <1>2, <3>1
      <3>3. IsRange(p, q) <=> RangeAt(b, k)
        <4>1. ASSUME IsRange(p, q) PROVE RangeAt(b, k)
          <5>1. q + 2 <= N /\ p[q + 1] = Dash /\ p[q + 2] # Close
            BY <4>1 DEF IsRange, N
          <5>2. q + 1 # e /\ q + 2 # e
            <6>1. e <= N => p[e] = Close
              BY DEF N
            <6>2. Dash # Close
              BY DEF Dash, Close
            <6> QED
              BY <1>1, <2>1, <5>1, <6>1, <6>2
          <5>3. q + 1 \in m .. e - 1 /\ k + 2 <= B /\ (q + 1) - m + 1 = k + 1
            BY <1>1, <1>2, <3>1, <5>2
          <5>4. b[k + 1] = p[q + 1]
            BY <1>2, <5>3
          <5> QED
            BY <5>1, <5>3, <5>4 DEF RangeAt, B
        <4>2. ASSUME RangeAt(b, k) PROVE IsRange(p, q)
          <5>1. k + 2 <= B /\ b[k + 1] = Dash
            BY <4>2 DEF RangeAt, B
          <5>2. q + 1 \in m .. e - 1 /\ q + 2 \in m .. e - 1 /\ (q + 1) - m + 1 = k + 1 /\ q + 2 <= N
            BY <1>1, <1>2, <3>1, <5>1 DEF N
          <5>3. b[k + 1] = p[q + 1] /\ p[q + 2] # Close
            BY <1>2, <5>2
          <5> QED
            BY <5>1, <5>2, <5>3 DEF IsRange, N
        <4> QED
          BY <4>1, <4>2
      <3> DEFINE u == NextItem(p, q)
                 h == ItemHas(p, q, c)
      <3>4. g[q] = [g[u] EXCEPT !.found = @ \/ h]
        BY <2>2, <3>1, <3>2, Zenon
      <3>5. /\ u \in q + 1 .. e /\ u \in Nat
            /\ (c \in f[k]) <=> h \/ c \in f[at(u)]
        <4>1. CASE IsRange(p, q)
          <5>1. u = q + 3 /\ h <=> p[q] <= c /\ c <= p[q + 2]
            BY <4>1 DEF NextItem, ItemHas
          <5>2. k + 2 <= B
            BY <3>3, <4>1 DEF RangeAt, B
          <5>3. q + 2 \in m .. e - 1 /\ (q + 2) - m + 1 = k + 2 /\ q + 2 \in 1 .. N /\ at(q + 3) = k + 3
            BY <1>1, <1>2, <3>1, <5>2 DEF N
          <5>4. b[k + 2] = p[q + 2]
            BY <1>2, <5>3
          <5>5. f[k] = (p[q] .. p[q + 2]) \cup f[k + 3]
            BY <2>3, <3>1, <3>2, <3>3, <4>1, <5>4
          <5>6. p[q] \in Int /\ p[q + 2] \in Int /\ c \in Int
            BY <1>1, <3>1, <5>3 DEF Byte
          <5>7. c \in p[q] .. p[q + 2] <=> p[q] <= c /\ c <= p[q + 2]
            BY <5>6
          <5>8. u = q + 3 /\ (h <=> p[q] <= c /\ c <= p[q + 2])
            BY <4>1 DEF NextItem, ItemHas
          <5>9. q + 3 \in q + 1 .. e /\ q + 3 \in Nat
            BY <2>1, <5>3
          <5> HIDE DEF u, h, at, k
          <5> QED
            BY <5>3, <5>5, <5>7, <5>8, <5>9
        <4>2. CASE ~IsRange(p, q)
          <5>1. u = q + 1 /\ (h <=> p[q] = c)
            BY <4>2 DEF NextItem, ItemHas
          <5>2. f[k] = {p[q]} \cup f[k + 1]
            BY <2>3, <3>1, <3>2, <3>3, <4>2
          <5>3. at(q + 1) = k + 1 /\ q + 1 \in q + 1 .. e /\ q + 1 \in Nat
            BY <1>1, <2>1, <3>1
          <5> HIDE DEF u, h, at, k
          <5> QED
            BY <5>1, <5>2, <5>3
        <4> QED
          BY <4>1, <4>2
      <3> HIDE DEF u, h, at, k
      <3>6. g[u] = ScanAt(e, c \in f[at(u)]) /\ (c \in f[at(u)]) \in BOOLEAN
        BY <1>5, <3>5
      <3>7. ScanAt(e, c \in f[at(u)]) \in Scans
        BY <1>1, <2>1 DEF ScanAt, Scans
      <3>8. h \in BOOLEAN
        BY Zenon DEF h, ItemHas
      <3>9. g[q] = ScanAt(e, (c \in f[at(u)]) \/ h)
        <4>1. [g[u] EXCEPT !.found = g[u].found \/ h] = ScanAt(g[u].i, g[u].found \/ h)
          BY <3>6, <3>7, <3>8, ScanFound, Zenon
        <4>2. g[u].i = e /\ g[u].found = (c \in f[at(u)])
          <5> DEFINE x == c \in f[at(u)]
                     y == g[u]
          <5>1. y = ScanAt(e, x)
            BY <3>6, Zenon
          <5> HIDE DEF x, y
          <5>2. y.i = e /\ y.found = x
            BY <5>1 DEF ScanAt
          <5> QED
            BY <5>2, Zenon DEF x, y
        <4> QED
          BY <3>4, <4>1, <4>2, Zenon
      <3>10. ((c \in f[at(u)]) \/ h) = (c \in f[k])
        <4> DEFINE x == c \in f[at(u)]
                   y == c \in f[k]
        <4>1. x \in BOOLEAN /\ y \in BOOLEAN
          OBVIOUS
        <4>2. y <=> h \/ x
          BY <3>5
        <4> HIDE DEF x, y
        <4>3. (x \/ h) = y
          BY <3>8, <4>1, <4>2
        <4> QED
          BY <4>3 DEF x, y
      <3> QED
        BY <3>9, <3>10, Zenon DEF k
    <2> QED
      BY <2>4, <2>5
  <1> HIDE DEF S
  <1>6. \A q \in m .. e : q \in S
    BY <1>1, <1>5, Downward
  <1>7. g[m] = ScanAt(e, c \in f[1])
    <2>1. m \in m .. e /\ at(m) = 1
      BY <1>1
    <2> QED
      BY <1>6, <2>1 DEF S
  <1> QED
    BY <1>3, <1>4, <1>7 DEF b

\* The class that opens at i ends at e, or past p.
EndsClass(p, i, e) ==
  /\ e \in i + 1 .. Len(p) + 1
  /\ e <= Len(p) => p[e] = Close
  /\ \A q \in i + 1 .. e - 1 : p[q] # Close

LEMMA TailOf ==
  ASSUME NEW p \in Seq(Byte), NEW m \in 1 .. Len(p), NEW e \in m + 1 .. Len(p) + 1
  PROVE  Tail(SubSeq(p, m, e - 1)) = SubSeq(p, m + 1, e - 1)
  <1> DEFINE b == SubSeq(p, m, e - 1)
             t == SubSeq(p, m + 1, e - 1)
  <1>1. m \in Int /\ e \in Int /\ Len(p) \in Nat
    OBVIOUS
  <1>2. Len(b) = e - m /\ \A k \in 1 .. e - m : b[k] = p[m + k - 1]
    BY <1>1
  <1>3. Len(t) = e - (m + 1) /\ \A k \in 1 .. e - (m + 1) : t[k] = p[(m + 1) + k - 1]
    BY <1>1
  <1>4. b \in Seq(Byte) /\ t \in Seq(Byte)
    <2>1. m \in 1 .. Len(p) + 1 /\ e \in m .. Len(p) + 1 /\ m + 1 \in 1 .. Len(p) + 1 /\ e \in m + 1 .. Len(p) + 1
      BY <1>1
    <2> QED
      BY <2>1, InsideIs
  <1> HIDE DEF b, t
  <1>5. b # <<>> /\ Len(b) > 0
    BY <1>1, <1>2, <1>4
  <1>6. Tail(b) \in Seq(Byte) /\ Len(Tail(b)) = Len(b) - 1 /\ \A k \in 1 .. Len(b) - 1 : Tail(b)[k] = b[k + 1]
    BY <1>4, <1>5
  <1>7. Len(Tail(b)) = Len(t)
    BY <1>1, <1>2, <1>3, <1>6
  <1>8. ASSUME NEW k \in 1 .. Len(t) PROVE Tail(b)[k] = t[k]
    <2>1. k \in 1 .. Len(b) - 1 /\ k + 1 \in 1 .. e - m /\ k \in 1 .. e - (m + 1)
          /\ m + (k + 1) - 1 = (m + 1) + k - 1
      BY <1>1, <1>2, <1>3
    <2> QED
      BY <1>2, <1>3, <1>6, <2>1
  <1>9. Tail(b) = t
    BY <1>4, <1>6, <1>7, <1>8, SeqEqual
  <1> QED
    BY <1>9 DEF b, t

\* What matchClass answers.
LEMMA ClassIs ==
  ASSUME NEW p \in Seq(Byte), NEW i \in 1 .. Len(p), NEW c \in Byte, NEW e, EndsClass(p, i, e)
  PROVE  /\ e > Len(p) => ~matchClass(p, i, c).ok
         /\ e <= Len(p) => /\ matchClass(p, i, c).ok
                           /\ matchClass(p, i, c).rest = e + 1
                           /\ matchClass(p, i, c).matched <=> c \in ClassSet(SubSeq(p, i + 1, e - 1))
  <1> DEFINE N == Len(p)
             b == SubSeq(p, i + 1, e - 1)
             negate == i < N /\ p[i + 1] = Caret
             m == IF negate THEN i + 2 ELSE i + 1
             scan == ScanClass(p, c, m)
             inside == SubSeq(p, m, e - 1)
  <1>1. N \in Nat /\ i \in Nat /\ e \in Int /\ e \in i + 1 .. N + 1 /\ i <= N
        /\ (e <= N => p[e] = Close) /\ \A q \in i + 1 .. e - 1 : p[q] # Close
    BY DEF EndsClass
  <1>2. matchClass(p, i, c) = IF scan.i > N THEN [matched |-> FALSE, rest |-> N + 1, ok |-> FALSE]
                              ELSE [matched |-> scan.found # negate, rest |-> scan.i + 1, ok |-> TRUE]
    BY Zenon DEF matchClass
  <1>3. negate => e # i + 1
    <2>1. Caret # Close
      BY DEF Caret, Close
    <2> HIDE DEF N
    <2> QED
      BY <1>1, <2>1
  <1>4. m \in 1 .. N + 1 /\ e \in m .. N + 1 /\ m \in Nat /\ m >= i + 1
    BY <1>1, <1>3
  <1>5. scan = ScanAt(e, c \in Members(inside))
    <2>1. \A q \in m .. e - 1 : p[q] # Close
      <3>1. \A q \in m .. e - 1 : q \in i + 1 .. e - 1
        <4> HIDE DEF m
        <4> QED
          BY <1>1, <1>4
      <3> QED
        BY <1>1, <3>1
    <2> HIDE DEF m
    <2> QED
      BY <1>1, <1>4, <2>1, ScanIs
  <1>6. c \in ClassSet(b) <=> (c \in Members(inside)) # negate
    <2>1. i + 1 \in 1 .. N + 1 /\ e \in i + 1 .. N + 1
      BY <1>1
    <2>2. b \in Seq(Byte) /\ Len(b) = e - (i + 1) /\ \A q \in i + 1 .. e - 1 : b[q - (i + 1) + 1] = p[q]
      BY <2>1, InsideIs
    <2>3. CASE negate
      <3>1. i + 1 \in i + 1 .. e - 1 /\ (i + 1) - (i + 1) + 1 = 1 /\ e \in (i + 1) + 1 .. N + 1 /\ i + 1 \in 1 .. N
            /\ (i + 1) + 1 = i + 2
        BY <1>1, <1>3, <2>3
      <3>2. b[1] = Caret /\ b # <<>>
        <4>1. b[1] = p[i + 1]
          <5> HIDE DEF b
          <5> QED
            BY <2>2, <3>1
        <4>2. Len(b) # 0
          <5> HIDE DEF b
          <5> QED
            BY <1>1, <2>2, <3>1
        <4> HIDE DEF b
        <4>3. b # <<>>
          BY <4>2
        <4> QED
          BY <2>3, <4>1, <4>3
      <3>3. Tail(b) = inside
        <4>1. Tail(b) = SubSeq(p, (i + 1) + 1, e - 1)
          BY <3>1, TailOf
        <4> QED
          BY <2>3, <3>1, <4>1
      <3>4. ClassSet(b) = Byte \ Members(inside)
        <4> HIDE DEF b, inside
        <4> QED
          BY <3>2, <3>3 DEF ClassSet
      <3>5. negate = TRUE
        BY <2>3
      <3> HIDE DEF negate, inside, b
      <3> QED
        BY <3>4, <3>5
    <2>4. CASE ~negate
      <3>1. ~(b # <<>> /\ b[1] = Caret)
        <4> SUFFICES ASSUME b # <<>>, b[1] = Caret PROVE FALSE
          OBVIOUS
        <4> HIDE DEF b
        <4>1. Len(b) # 0
          BY <2>2
        <4>2. i + 1 \in i + 1 .. e - 1 /\ (i + 1) - (i + 1) + 1 = 1 /\ i < N
          BY <1>1, <2>2, <4>1
        <4>3. b[1] = p[i + 1]
          BY <2>2, <4>2
        <4> QED
          BY <2>4, <4>2, <4>3
      <3>2. b = inside
        BY <2>4
      <3>3. ClassSet(b) = Members(inside)
        <4> HIDE DEF b, inside
        <4> QED
          BY <3>1, <3>2 DEF ClassSet
      <3>4. negate = FALSE
        BY <2>4
      <3> HIDE DEF negate, inside, b
      <3> DEFINE x == c \in Members(inside)
      <3>5. x \in BOOLEAN /\ (c \in ClassSet(b) <=> x)
        BY <3>3
      <3> HIDE DEF x
      <3>6. (x # FALSE) <=> x
        BY <3>5
      <3>7. (x # negate) <=> x
        BY <3>4, <3>6
      <3> QED
        BY <3>5, <3>7 DEF x
    <2> QED
      BY <2>3, <2>4
  <1> HIDE DEF N, b, negate, m, inside, scan
  <1>7. scan.i = e /\ scan.found = (c \in Members(inside))
    <2> DEFINE x == c \in Members(inside)
    <2> HIDE DEF x
    <2>1. scan = ScanAt(e, x)
      BY <1>5 DEF x
    <2>2. scan.i = e /\ scan.found = x
      BY <2>1 DEF ScanAt
    <2> QED
      BY <2>2 DEF x
  <1>8. ASSUME e > N PROVE ~matchClass(p, i, c).ok
    BY <1>2, <1>7, <1>8
  <1>9. ASSUME e <= N PROVE /\ matchClass(p, i, c).ok
                            /\ matchClass(p, i, c).rest = e + 1
                            /\ matchClass(p, i, c).matched <=> c \in ClassSet(b)
    <2>1. ~(e > N)
      BY <1>1, <1>9
    <2> DEFINE x == c \in Members(inside)
               y == x # negate
    <2> HIDE DEF x, y
    <2>2. matchClass(p, i, c) = [matched |-> y, rest |-> e + 1, ok |-> TRUE]
      BY <1>2, <1>7, <2>1, Zenon DEF x, y
    <2>3. matchClass(p, i, c).matched = y /\ matchClass(p, i, c).rest = e + 1 /\ matchClass(p, i, c).ok = TRUE
      BY <2>2
    <2>4. y <=> c \in ClassSet(b)
      BY <1>6 DEF x, y
    <2> QED
      BY <2>3, <2>4
  <1> QED
    BY <1>8, <1>9 DEF N, b

----------------------------------------------------------------------------
(* Tokens *)

Closing(p, i) == {j \in i + 1 .. Len(p) : p[j] = Close}

ClosingAt(p, i) == CHOOSE j \in Closing(p, i) : \A k \in Closing(p, i) : j <= k

ClassEnd(p, i) == IF Closing(p, i) = {} THEN Len(p) + 1 ELSE ClosingAt(p, i)

ClassToken(p, i) ==
  IF ClassEnd(p, i) > Len(p) THEN {} ELSE ClassSet(SubSeq(p, i + 1, ClassEnd(p, i) - 1))

\* The token at i, and where the next one is.
TokenAt(p, i) ==
  IF p[i] = Star THEN Gap
  ELSE IF p[i] = Mark THEN Byte
  ELSE IF p[i] = Escape /\ i < Len(p) THEN {p[i + 1]}
  ELSE IF p[i] # Open THEN {p[i]}
  ELSE ClassToken(p, i)

TokenEnd(p, i) ==
  IF p[i] = Star \/ p[i] = Mark THEN i + 1
  ELSE IF p[i] = Escape /\ i < Len(p) THEN i + 2
  ELSE IF p[i] # Open THEN i + 1
  ELSE IF ClassEnd(p, i) > Len(p) THEN Len(p) + 1 ELSE ClassEnd(p, i) + 1

LEMMA ClassEnds ==
  ASSUME NEW p \in Seq(Byte), NEW i \in 1 .. Len(p)
  PROVE  /\ EndsClass(p, i, ClassEnd(p, i))
         /\ ClassEnd(p, i) > Len(p) <=> Closing(p, i) = {}
         /\ Closing(p, i) # {} => ClassEnd(p, i) = ClosingAt(p, i)
  <1> DEFINE N == Len(p)
             C == Closing(p, i)
             e == ClosingAt(p, i)
  <1>1. N \in Nat /\ i \in Nat /\ i <= N
    OBVIOUS
  <1>2. CASE C = {}
    <2>1. ClassEnd(p, i) = N + 1
      BY <1>2 DEF ClassEnd
    <2>2. \A q \in i + 1 .. N : p[q] # Close
      BY <1>2 DEF Closing
    <2> QED
      BY <1>1, <1>2, <2>1, <2>2 DEF EndsClass
  <1>3. CASE C # {}
    <2>1. ClassEnd(p, i) = e
      BY <1>3 DEF ClassEnd
    <2>2. e \in C /\ \A k \in C : e <= k
      <3>1. C \in SUBSET Nat
        BY <1>1 DEF Closing
      <3>2. \E j \in C : \A k \in C : j <= k
        <4> HIDE DEF C
        <4> QED
          BY <1>3, <3>1, LeastNumber
      <3> QED
        BY <3>2, Zenon DEF ClosingAt
    <2>3. e \in i + 1 .. N /\ p[e] = Close
      BY <2>2 DEF Closing
    <2> HIDE DEF e
    <2>4. ASSUME NEW q \in i + 1 .. e - 1 PROVE p[q] # Close
      <3>1. q \in i + 1 .. N /\ ~(e <= q)
        BY <1>1, <2>3
      <3>2. q \notin C
        BY <2>2, <3>1
      <3> QED
        BY <3>1, <3>2 DEF Closing
    <2>5. EndsClass(p, i, e) /\ ~(e > N)
      <3>1. e \in i + 1 .. N + 1 /\ e <= N
        BY <1>1, <2>3
      <3> QED
        BY <1>1, <2>3, <2>4, <3>1 DEF EndsClass
    <2> QED
      BY <1>3, <2>1, <2>5 DEF e
  <1> QED
    BY <1>2, <1>3

LEMMA TokenIs ==
  ASSUME NEW p \in Seq(Byte), NEW i \in 1 .. Len(p)
  PROVE  /\ TokenAt(p, i) \in SUBSET Int
         /\ TokenEnd(p, i) \in i + 1 .. Len(p) + 1
         /\ TokenAt(p, i) = Gap <=> p[i] = Star
  <1> DEFINE N == Len(p)
             e == ClassEnd(p, i)
             b == SubSeq(p, i + 1, e - 1)
  <1>1. N \in Nat /\ i \in Nat /\ i <= N /\ \A q \in 1 .. N : p[q] \in Byte
    OBVIOUS
  <1>2. e \in i + 1 .. N + 1
    BY ClassEnds DEF EndsClass
  <1>3. ClassToken(p, i) \subseteq Byte
    <2>1. CASE e > N
      BY <2>1 DEF ClassToken
    <2>2. CASE ~(e > N)
      <3>1. i + 1 \in 1 .. N + 1 /\ e \in i + 1 .. N + 1 /\ e \in Int
        BY <1>1, <1>2
      <3>2. b \in Seq(Byte)
        <4> HIDE DEF e
        <4> QED
          BY <3>1, InsideIs
      <3> HIDE DEF b
      <3>3. \A a \in Seq(Byte) : Members(a) \subseteq Byte
        <4> TAKE a \in Seq(Byte)
        <4>1. PICK f : Listed(f, a) /\ Members(a) = f[1]
          BY MembersDef
        <4>2. \A k \in 1 .. Len(a) + 1 : f[k] \subseteq Byte
          BY <4>1, ListedBytes
        <4>3. 1 \in 1 .. Len(a) + 1
          OBVIOUS
        <4> QED
          BY <4>1, <4>2, <4>3
      <3>4. ClassSet(b) \subseteq Byte
        BY <3>2, <3>3 DEF ClassSet
      <3> QED
        BY <2>2, <3>4 DEF ClassToken, b
    <2> QED
      BY <2>1, <2>2
  <1>4. Byte \subseteq Int /\ Gap \subseteq Int /\ \A x : x \subseteq Byte => x # Gap
    <2>1. -1 \notin Byte /\ -1 \in Gap
      BY DEF Byte, Gap
    <2>2. Byte \subseteq Int /\ Gap \subseteq Int
      BY DEF Byte, Gap
    <2>3. \A x : x \subseteq Byte => x # Gap
      BY <2>1
    <2> QED
      BY <2>2, <2>3
  <1>5. p[i] \in Byte /\ (i < N => p[i + 1] \in Byte)
    BY <1>1
  <1> HIDE DEF N, e
  <1>6. p[i] # Star => TokenAt(p, i) \subseteq Byte
    BY <1>3, <1>5 DEF TokenAt, N
  <1>7. p[i] = Star => TokenAt(p, i) = Gap
    BY DEF TokenAt
  <1>8. TokenEnd(p, i) \in i + 1 .. N + 1
    BY <1>1, <1>2 DEF TokenEnd, N, e
  <1> QED
    BY <1>4, <1>6, <1>7, <1>8 DEF N

\* f[i] has the tokens of p from i on.
Tokenized(f, p) ==
  /\ f[Len(p) + 1] = <<>>
  /\ \A i \in 1 .. Len(p) : f[i] = <<TokenAt(p, i)>> \o f[TokenEnd(p, i)]

Token == SUBSET Int

LEMMA TokenizedSeq ==
  ASSUME NEW p \in Seq(Byte), NEW f, Tokenized(f, p)
  PROVE  \A i \in 1 .. Len(p) + 1 : f[i] \in Seq(Token)
  <1> DEFINE N == Len(p)
             S == {i \in 1 .. N + 1 : f[i] \in Seq(Token)}
  <1>1. N \in Nat /\ N + 1 \in Int /\ 1 \in Int
    OBVIOUS
  <1>2. ASSUME NEW i \in 1 .. N + 1, \A j \in i + 1 .. N + 1 : j \in S PROVE i \in S
    <2>1. CASE i = N + 1
      <3>1. f[N + 1] = <<>> /\ <<>> \in Seq(Token)
        BY DEF Tokenized
      <3> QED
        BY <2>1, <3>1
    <2>2. CASE i # N + 1
      <3>1. i \in 1 .. N
        BY <1>1, <2>2
      <3> DEFINE t == TokenAt(p, i)
                 u == TokenEnd(p, i)
      <3>2. t \in Token /\ u \in i + 1 .. N + 1
        BY <3>1, TokenIs DEF Token
      <3>3. f[i] = <<t>> \o f[u]
        BY <3>1 DEF Tokenized
      <3> HIDE DEF t, u
      <3>4. f[u] \in Seq(Token) /\ <<t>> \in Seq(Token)
        BY <1>2, <3>2
      <3>5. f[i] \in Seq(Token)
        <4> DEFINE x == f[u]
                   y == <<t>>
        <4> HIDE DEF x, y
        <4>1. y \o x \in Seq(Token)
          BY <3>4 DEF x, y
        <4> QED
          BY <3>3, <4>1 DEF x, y
      <3> QED
        BY <3>5
    <2> QED
      BY <2>1, <2>2
  <1> HIDE DEF S, N
  <1>3. \A i \in 1 .. N + 1 : i \in S
    BY <1>1, <1>2, Downward
  <1> QED
    BY <1>3 DEF S, N

LEMMA TokensDef ==
  ASSUME NEW p \in Seq(Byte)
  PROVE  \E f : Tokenized(f, p) /\ Tokens(p) = f[1]
  <1> DEFINE N == Len(p)
             K == N + 1
             V == Seq(Token)
             Body(g, i) ==
               IF i > N THEN <<>>
               ELSE IF p[i] = Star THEN <<Gap>> \o g[i + 1]
               ELSE IF p[i] = Mark THEN <<Byte>> \o g[i + 1]
               ELSE IF p[i] = Escape /\ i < N THEN <<{p[i + 1]}>> \o g[i + 2]
               ELSE IF p[i] # Open THEN <<{p[i]}>> \o g[i + 1]
               ELSE LET closed == {j \in i + 1 .. N : p[j] = Close}
                        end == CHOOSE j \in closed : \A k \in closed : j <= k
                    IN  IF closed = {} THEN <<{}>>
                        ELSE <<ClassSet(SubSeq(p, i + 1, end - 1))>> \o g[end + 1]
             read == CHOOSE g : g = [i \in 1 .. K |-> Body(g, i)]
             base == [i \in 1 .. K |-> <<>>]
             up == [i \in 1 .. K |-> IF i > N THEN i ELSE TokenEnd(p, i)]
             step == [i \in 1 .. K |-> [v \in V |-> IF i > N THEN v ELSE <<TokenAt(p, i)>> \o v]]
  <1>1. Tokens(p) = read[1]
    BY Zenon DEF Tokens
  <1>2. N \in Nat /\ K \in Nat /\ K = N + 1 /\ \A i \in 1 .. K : i > N \/ i \in 1 .. N
    OBVIOUS
  <1>3. ASSUME NEW g, g[K] = <<>>, NEW i \in 1 .. N
        PROVE  Body(g, i) = <<TokenAt(p, i)>> \o g[TokenEnd(p, i)]
    <2>1. ~(i > N)
      OBVIOUS
    <2>2. CASE p[i] # Open \/ p[i] = Star \/ p[i] = Mark \/ (p[i] = Escape /\ i < N)
      BY <2>1, <2>2, Zenon DEF TokenAt, TokenEnd
    <2>3. CASE ~(p[i] # Open \/ p[i] = Star \/ p[i] = Mark \/ (p[i] = Escape /\ i < N))
      <3> DEFINE closed == {j \in i + 1 .. N : p[j] = Close}
                 end == CHOOSE j \in closed : \A k \in closed : j <= k
      <3>1. Body(g, i) = IF closed = {} THEN <<{}>>
                         ELSE <<ClassSet(SubSeq(p, i + 1, end - 1))>> \o g[end + 1]
        BY <2>1, <2>3, Zenon
      <3>2. closed = Closing(p, i) /\ end = ClosingAt(p, i)
        BY Zenon DEF Closing, ClosingAt
      <3>3. TokenAt(p, i) = ClassToken(p, i)
        BY <2>3, Zenon DEF TokenAt
      <3>4. TokenEnd(p, i) = IF ClassEnd(p, i) > N THEN K ELSE ClassEnd(p, i) + 1
        BY <2>3, Zenon DEF TokenEnd
      <3>5. /\ ClassEnd(p, i) > N <=> Closing(p, i) = {}
            /\ Closing(p, i) # {} => ClassEnd(p, i) = ClosingAt(p, i)
        BY ClassEnds
      <3> HIDE DEF closed, end, Body, K
      <3>6. CASE closed = {}
        <4>1. TokenAt(p, i) = {} /\ TokenEnd(p, i) = K
          BY <3>2, <3>3, <3>4, <3>5, <3>6 DEF ClassToken
        <4>2. Body(g, i) = <<{}>>
          BY <3>1, <3>6
        <4>3. <<{}>> \o <<>> = <<{}>>
          OBVIOUS
        <4> QED
          BY <1>3, <4>1, <4>2, <4>3, Zenon
      <3>7. CASE closed # {}
        <4>1. ClassEnd(p, i) = end /\ ~(ClassEnd(p, i) > N)
          BY <3>2, <3>5, <3>7
        <4>2. TokenAt(p, i) = ClassSet(SubSeq(p, i + 1, end - 1)) /\ TokenEnd(p, i) = end + 1
          BY <3>3, <3>4, <4>1, Zenon DEF ClassToken
        <4> QED
          BY <3>1, <3>7, <4>2, Zenon
      <3> QED
        BY <3>6, <3>7
    <2> QED
      BY <2>2, <2>3
  <1>4. \A g : Body(g, K) = <<>>
    BY <1>2
  <1>5. base \in [1 .. K -> V] /\ \A i \in 1 .. K : base[i] = <<>>
    <2>1. <<>> \in V
      OBVIOUS
    <2> HIDE DEF V
    <2> QED
      BY <2>1
  <1> HIDE DEF K, Body
  <1>6. \A i \in 1 .. N : i < TokenEnd(p, i) /\ TokenEnd(p, i) \in 1 .. K /\ TokenEnd(p, i) \in Nat
                          /\ TokenAt(p, i) \in Token
    <2> TAKE i \in 1 .. N
    <2>1. TokenAt(p, i) \in Token /\ TokenEnd(p, i) \in i + 1 .. N + 1
      BY TokenIs DEF Token
    <2> HIDE DEF N
    <2> QED
      BY <1>2, <2>1
  <1> HIDE DEF N
  <1>7. up \in [1 .. K -> Nat] /\ \A i \in 1 .. K : up[i] = IF i > N THEN i ELSE TokenEnd(p, i)
    <2>1. \A i \in 1 .. K : (IF i > N THEN i ELSE TokenEnd(p, i)) \in Nat
      BY <1>2, <1>6
    <2> QED
      BY <2>1
  <1>8. /\ step \in [1 .. K -> [V -> V]]
        /\ \A i \in 1 .. K, v \in V : step[i][v] = IF i > N THEN v ELSE <<TokenAt(p, i)>> \o v
    <2>1. \A i \in 1 .. K, v \in V : (IF i > N THEN v ELSE <<TokenAt(p, i)>> \o v) \in V
      <3> TAKE i \in 1 .. K, v \in V
      <3>1. CASE i > N
        BY <3>1
      <3>2. CASE ~(i > N)
        <4> DEFINE t == TokenAt(p, i)
        <4>1. t \in Token
          BY <1>2, <1>6, <3>2
        <4> HIDE DEF t
        <4>2. <<t>> \o v \in V
          BY <4>1
        <4> QED
          BY <3>2, <4>2 DEF t
      <3> QED
        BY <3>1, <3>2
    <2> HIDE DEF V
    <2> QED
      BY <2>1
  <1>9. V # {}
    <2>1. <<>> \in V
      OBVIOUS
    <2> QED
      BY <2>1
  <1> HIDE DEF base, up, step, V
  <1>10. PICK f : Ascends(f, K, V, base, up, step)
    BY <1>2, <1>5, <1>7, <1>8, <1>9, AscentExists, Zenon
  <1>11. /\ f \in [1 .. K -> V]
         /\ \A i \in 1 .. K : f[i] = IF i < up[i] /\ up[i] <= K THEN step[i][f[up[i]]] ELSE base[i]
    BY <1>10, Zenon DEF Ascends
  <1>12. f[K] = <<>>
    <2>1. K \in 1 .. K /\ K > N
      BY <1>2
    <2>2. up[K] = K /\ ~(K < up[K])
      BY <1>2, <1>7, <2>1
    <2> QED
      BY <1>5, <1>11, <2>1, <2>2
  <1>13. ASSUME NEW i \in 1 .. K PROVE f[i] = Body(f, i)
    <2>1. CASE i = K
      BY <1>4, <1>12, <2>1
    <2>2. CASE i # K
      <3> DEFINE u == TokenEnd(p, i)
                 t == TokenAt(p, i)
      <3>1. i \in 1 .. N /\ ~(i > N)
        BY <1>2, <2>2
      <3>2. up[i] = u /\ i < up[i] /\ up[i] <= K /\ u \in 1 .. K
        BY <1>2, <1>6, <1>7, <3>1
      <3> HIDE DEF u, t
      <3>3. f[i] = step[i][f[u]] /\ f[u] \in V
        BY <1>11, <3>2
      <3>4. f[i] = <<t>> \o f[u]
        BY <1>8, <3>1, <3>3, Zenon DEF t
      <3>5. Body(f, i) = <<t>> \o f[u]
        BY <1>3, <1>12, <3>1, Zenon DEF t, u
      <3> QED
        BY <3>4, <3>5
    <2> QED
      BY <2>1, <2>2
  <1>14. f = [i \in 1 .. K |-> Body(f, i)]
    BY <1>11, <1>13
  <1>15. read = [i \in 1 .. K |-> Body(read, i)]
    BY <1>14
  <1> HIDE DEF read
  <1>16. \A i \in 1 .. K : read[i] = Body(read, i)
    BY <1>15
  <1>17. K \in 1 .. K /\ \A i \in 1 .. N : i \in 1 .. K
    BY <1>2
  <1>18. read[K] = <<>>
    BY <1>4, <1>16, <1>17, Zenon
  <1>19. Tokenized(read, p)
    BY <1>3, <1>16, <1>17, <1>18, Zenon DEF Tokenized, K, N
  <1> QED
    BY <1>1, <1>19

----------------------------------------------------------------------------
(* Positions *)

\* The token t can lead from the position a of s to b.
Leads(s, a, b, t) == IF t = Gap THEN a <= b ELSE b = a + 1 /\ s[b] \in t

LEMMA AdvanceIs ==
  ASSUME NEW s \in Seq(Byte), NEW at \in SUBSET (0 .. Len(s)), NEW t
  PROVE  Advance(s, at, t) = {b \in 0 .. Len(s) : \E a \in at : Leads(s, a, b, t)}
  <1> DEFINE M == Len(s)
  <1>1. M \in Nat
    OBVIOUS
  <1>2. CASE t = Gap
    BY <1>2 DEF Advance, Leads
  <1>3. CASE t # Gap
    <2>1. \A b \in 1 .. M : b - 1 \in at => \E a \in at : b = a + 1
      <3> TAKE b \in 1 .. M
      <3> HAVE b - 1 \in at
      <3>1. b = (b - 1) + 1
        OBVIOUS
      <3> QED
        BY <3>1
    <2>2. \A b \in 0 .. M, a \in at : b = a + 1 => b \in 1 .. M /\ b - 1 \in at
      <3> TAKE b \in 0 .. M, a \in at
      <3> HAVE b = a + 1
      <3>1. a \in 0 .. M
        OBVIOUS
      <3>2. b - 1 = a /\ b \in 1 .. M
        BY <3>1
      <3> QED
        BY <3>2
    <2>3. \A b \in 1 .. M : b \in 0 .. M
      OBVIOUS
    <2>4. Advance(s, at, t) = {b \in 1 .. M : b - 1 \in at /\ s[b] \in t}
      BY <1>3, Zenon DEF Advance
    <2>5. \A a, b : Leads(s, a, b, t) <=> b = a + 1 /\ s[b] \in t
      BY <1>3, Zenon DEF Leads
    <2> HIDE DEF M
    <2> DEFINE X == {b \in 1 .. M : b - 1 \in at /\ s[b] \in t}
               Y == {b \in 0 .. M : \E a \in at : Leads(s, a, b, t)}
    <2>6. ASSUME NEW b \in X PROVE b \in Y
      <3>1. b \in 1 .. M /\ b - 1 \in at /\ s[b] \in t
        OBVIOUS
      <3>2. PICK a \in at : b = a + 1
        BY <2>1, <3>1
      <3> QED
        BY <2>3, <2>5, <3>1, <3>2
    <2>7. ASSUME NEW b \in Y PROVE b \in X
      <3>1. PICK a \in at : Leads(s, a, b, t)
        OBVIOUS
      <3>2. b \in 0 .. M /\ b = a + 1 /\ s[b] \in t
        BY <2>5, <3>1
      <3>3. b \in 1 .. M /\ b - 1 \in at
        BY <2>2, <3>2
      <3> QED
        BY <3>2, <3>3
    <2>8. X = Y
      <3> HIDE DEF X, Y
      <3> QED
        BY <2>6, <2>7
    <2> QED
      BY <2>4, <2>8 DEF M
  <1> QED
    BY <1>2, <1>3

\* f[k] has the positions that the first k tokens can lead to from those in A.
Runs(f, s, A, ts) ==
  f[0] = A /\ \A k \in 1 .. Len(ts) : f[k] = Advance(s, f[k - 1], ts[k])

\* H[i] has the positions of s from which the tokens of p from i on can reach its end.
Reaches(H, p, s) ==
  /\ H \in [1 .. Len(p) + 1 -> SUBSET (0 .. Len(s))]
  /\ H[Len(p) + 1] = {Len(s)}
  /\ \A i \in 1 .. Len(p) :
        H[i] = {a \in 0 .. Len(s) : \E b \in H[TokenEnd(p, i)] : Leads(s, a, b, TokenAt(p, i))}

LEMMA ReachesExists ==
  ASSUME NEW p \in Seq(Byte), NEW s \in Seq(Byte)
  PROVE  \E H : Reaches(H, p, s)
  <1> DEFINE N == Len(p)
             K == N + 1
             P == 0 .. Len(s)
             V == SUBSET P
             From(i, v) == {a \in P : \E b \in v : Leads(s, a, b, TokenAt(p, i))}
             base == [i \in 1 .. K |-> {Len(s)}]
             up == [i \in 1 .. K |-> IF i > N THEN i ELSE TokenEnd(p, i)]
             step == [i \in 1 .. K |-> [v \in V |-> From(i, v)]]
  <1>1. N \in Nat /\ K \in Nat /\ K = N + 1 /\ \A i \in 1 .. K : i > N \/ i \in 1 .. N
    OBVIOUS
  <1>2. \A i, v : From(i, v) \in V
    OBVIOUS
  <1>3. base \in [1 .. K -> V] /\ \A i \in 1 .. K : base[i] = {Len(s)}
    <2>1. {Len(s)} \in V
      OBVIOUS
    <2> HIDE DEF V, K
    <2> QED
      BY <2>1
  <1>4. \A i \in 1 .. N : i < TokenEnd(p, i) /\ TokenEnd(p, i) \in 1 .. K /\ TokenEnd(p, i) \in Nat
    <2> TAKE i \in 1 .. N
    <2>1. TokenEnd(p, i) \in i + 1 .. N + 1
      BY TokenIs
    <2> HIDE DEF N, K
    <2> QED
      BY <1>1, <2>1
  <1> HIDE DEF N, K, From, V
  <1>5. up \in [1 .. K -> Nat] /\ \A i \in 1 .. K : up[i] = IF i > N THEN i ELSE TokenEnd(p, i)
    <2>1. \A i \in 1 .. K : (IF i > N THEN i ELSE TokenEnd(p, i)) \in Nat
      BY <1>1, <1>4
    <2> QED
      BY <2>1
  <1>6. step \in [1 .. K -> [V -> V]] /\ \A i \in 1 .. K, v \in V : step[i][v] = From(i, v)
    BY <1>2
  <1>7. V # {}
    BY <1>2
  <1> HIDE DEF base, up, step
  <1>8. PICK f : Ascends(f, K, V, base, up, step)
    BY <1>1, <1>3, <1>5, <1>6, <1>7, AscentExists, Zenon
  <1>9. /\ f \in [1 .. K -> V]
        /\ \A i \in 1 .. K : f[i] = IF i < up[i] /\ up[i] <= K THEN step[i][f[up[i]]] ELSE base[i]
    BY <1>8, Zenon DEF Ascends
  <1>10. f[K] = {Len(s)}
    <2>1. K \in 1 .. K /\ K > N
      BY <1>1
    <2>2. up[K] = K /\ ~(K < up[K])
      BY <1>1, <1>5, <2>1
    <2> QED
      BY <1>3, <1>9, <2>1, <2>2
  <1>11. ASSUME NEW i \in 1 .. N PROVE f[i] = From(i, f[TokenEnd(p, i)])
    <2> DEFINE u == TokenEnd(p, i)
    <2>1. i \in 1 .. K /\ ~(i > N)
      BY <1>1
    <2>2. up[i] = u /\ i < up[i] /\ up[i] <= K /\ u \in 1 .. K
      BY <1>1, <1>4, <1>5, <2>1
    <2> HIDE DEF u
    <2>3. f[i] = step[i][f[u]] /\ f[u] \in V
      BY <1>9, <2>1, <2>2
    <2>4. f[i] = From(i, f[u])
      BY <1>6, <2>1, <2>3
    <2> QED
      BY <2>4 DEF u
  <1>12. Reaches(f, p, s)
    BY <1>9, <1>10, <1>11, Zenon DEF Reaches, V, K, N, From
  <1> QED
    BY <1>12

\* Some position of A is one from which the tokens reach the end.
Meets(A, W) == \E a \in A : a \in W

LEMMA FirstToken ==
  ASSUME NEW t \in Token, NEW ts \in Seq(Token)
  PROVE  LET us == <<t>> \o ts
         IN  /\ Len(us) = Len(ts) + 1 /\ us[1] = t
             /\ \A k \in 1 .. Len(ts) : us[k + 1] = ts[k]
  <1> DEFINE h == <<t>>
             us == h \o ts
  <1>1. h \in Seq(Token) /\ Len(h) = 1 /\ h[1] = t
    OBVIOUS
  <1> HIDE DEF h
  <1>2. Len(us) = Len(h) + Len(ts) /\ \A k \in 1 .. Len(us) : us[k] = IF k <= Len(h) THEN h[k] ELSE ts[k - Len(h)]
    <2>1. Len(us) = Len(h) + Len(ts)
          /\ \A k \in 1 .. Len(h) + Len(ts) : us[k] = IF k <= Len(h) THEN h[k] ELSE ts[k - Len(h)]
      BY <1>1, ConcatProperties
    <2> HIDE DEF us
    <2> QED
      BY <2>1
  <1>3. Len(ts) \in Nat
    OBVIOUS
  <1> HIDE DEF us
  <1>4. us[1] = t /\ Len(us) = Len(ts) + 1
    BY <1>1, <1>2, <1>3
  <1>5. \A k \in 1 .. Len(ts) : us[k + 1] = ts[k]
    <2> TAKE k \in 1 .. Len(ts)
    <2>1. k + 1 \in 1 .. Len(us) /\ ~(k + 1 <= Len(h)) /\ (k + 1) - Len(h) = k
      BY <1>1, <1>3, <1>4
    <2> QED
      BY <1>2, <2>1
  <1> QED
    BY <1>4, <1>5 DEF us, h

LEMMA RunsReach ==
  ASSUME NEW p \in Seq(Byte), NEW s \in Seq(Byte), NEW R, Tokenized(R, p), NEW H, Reaches(H, p, s)
  PROVE  \A i \in 1 .. Len(p) + 1 :
            \A A \in SUBSET (0 .. Len(s)) : \A f :
               Runs(f, s, A, R[i]) => (Len(s) \in f[Len(R[i])] <=> Meets(A, H[i]))
  <1> DEFINE N == Len(p)
             M == Len(s)
             Good(i) == \A A \in SUBSET (0 .. M) : \A f :
                          Runs(f, s, A, R[i]) => (M \in f[Len(R[i])] <=> Meets(A, H[i]))
             S == {i \in 1 .. N + 1 : Good(i)}
  <1>1. N \in Nat /\ N + 1 \in Int /\ 1 \in Int /\ M \in Nat /\ \A i \in 1 .. N + 1 : R[i] \in Seq(Token)
    BY TokenizedSeq
  <1>2. ASSUME NEW i \in 1 .. N + 1, \A j \in i + 1 .. N + 1 : j \in S PROVE i \in S
    <2> SUFFICES ASSUME NEW A \in SUBSET (0 .. M), NEW f, Runs(f, s, A, R[i])
                 PROVE  M \in f[Len(R[i])] <=> Meets(A, H[i])
      BY Zenon
    <2>1. CASE i = N + 1
      <3>1. R[i] = <<>> /\ H[i] = {M}
        BY <2>1 DEF Tokenized, Reaches
      <3>2. Len(R[i]) = 0 /\ f[0] = A
        BY <3>1 DEF Runs
      <3> HIDE DEF M
      <3> QED
        BY <3>1, <3>2 DEF Meets
    <2>2. CASE i # N + 1
      <3> DEFINE t == TokenAt(p, i)
                 u == TokenEnd(p, i)
                 r == R[u]
      <3>1. i \in 1 .. N
        BY <1>1, <2>2
      <3>2. t \in Token /\ u \in i + 1 .. N + 1 /\ u \in 1 .. N + 1
        <4>1. t \in Token /\ u \in i + 1 .. N + 1
          BY <3>1, TokenIs DEF Token
        <4> HIDE DEF u, t, N
        <4> QED
          BY <1>1, <3>1, <4>1
      <3>3. R[i] = <<t>> \o r
        BY <3>1, Zenon DEF Tokenized
      <3>4. H[i] = {a \in 0 .. M : \E b \in H[u] : Leads(s, a, b, t)} /\ H[u] \in SUBSET (0 .. M)
        <4>1. H[i] = {a \in 0 .. M : \E b \in H[u] : Leads(s, a, b, t)}
          BY <3>1, Zenon DEF Reaches
        <4>2. H[u] \in SUBSET (0 .. M)
          <5> HIDE DEF u
          <5> QED
            BY <3>2 DEF Reaches
        <4> QED
          BY <4>1, <4>2
      <3>5. r \in Seq(Token) /\ Len(r) \in Nat
        <4> HIDE DEF u
        <4>1. R[u] \in Seq(Token)
          BY <1>1, <3>2
        <4> QED
          BY <4>1
      <3>6. Good(u)
        <4> HIDE DEF Good, u
        <4> QED
          BY <1>2, <3>2
      <3> HIDE DEF t, u, r, N
      <3>7. Len(R[i]) = Len(r) + 1 /\ R[i][1] = t /\ \A k \in 1 .. Len(r) : R[i][k + 1] = r[k]
        BY <3>2, <3>3, <3>5, FirstToken
      <3>8. f[0] = A /\ \A k \in 1 .. Len(r) + 1 : f[k] = Advance(s, f[k - 1], R[i][k])
        BY <3>7, Zenon DEF Runs
      <3> DEFINE g == [k \in 0 .. Len(r) |-> f[k + 1]]
                 B == f[1]
      <3>9. B = Advance(s, A, t)
        <4>1. 1 \in 1 .. Len(r) + 1 /\ 1 - 1 = 0
          BY <3>5
        <4> QED
          BY <3>7, <3>8, <4>1
      <3>10. B = {b \in 0 .. M : \E a \in A : Leads(s, a, b, t)}
        BY <3>9, AdvanceIs
      <3>11. Runs(g, s, B, r)
        <4>1. g[0] = B
          BY <3>5
        <4>2. ASSUME NEW k \in 1 .. Len(r) PROVE g[k] = Advance(s, g[k - 1], r[k])
          <5>1. k \in 0 .. Len(r) /\ k - 1 \in 0 .. Len(r) /\ k + 1 \in 1 .. Len(r) + 1
                /\ (k + 1) - 1 = k /\ (k - 1) + 1 = k
            BY <3>5
          <5>2. g[k] = f[k + 1] /\ g[k - 1] = f[k]
            BY <5>1
          <5>3. f[k + 1] = Advance(s, f[(k + 1) - 1], R[i][k + 1])
            BY <3>8, <5>1
          <5> HIDE DEF g
          <5> QED
            BY <3>7, <5>1, <5>2, <5>3
        <4> HIDE DEF g, B
        <4> QED
          BY <4>1, <4>2, Zenon DEF Runs
      <3>12. g[Len(r)] = f[Len(R[i])]
        <4>1. Len(r) \in 0 .. Len(r)
          BY <3>5
        <4> QED
          BY <3>7, <4>1
      <3>13. B \in SUBSET (0 .. M)
        BY <3>10
      <3> HIDE DEF g, M, B
      <3>14. M \in g[Len(r)] <=> Meets(B, H[u])
        BY <3>6, <3>11, <3>13, Zenon DEF r
      <3>15. Meets(B, H[u]) <=> Meets(A, H[i])
        <4>1. ASSUME Meets(B, H[u]) PROVE Meets(A, H[i])
          <5>1. PICK b \in B : b \in H[u]
            BY <4>1 DEF Meets
          <5>2. PICK a \in A : Leads(s, a, b, t)
            BY <3>10, <5>1
          <5>3. a \in H[i]
            BY <3>4, <5>1, <5>2
          <5> QED
            BY <5>3 DEF Meets
        <4>2. ASSUME Meets(A, H[i]) PROVE Meets(B, H[u])
          <5>1. PICK a \in A : a \in H[i]
            BY <4>2 DEF Meets
          <5>2. PICK b \in H[u] : Leads(s, a, b, t)
            BY <3>4, <5>1
          <5>3. b \in B
            BY <3>4, <3>10, <5>1, <5>2
          <5> QED
            BY <5>3 DEF Meets
        <4> QED
          BY <4>1, <4>2
      <3> QED
        BY <3>12, <3>14, <3>15, Zenon
    <2> QED
      BY <2>1, <2>2
  <1> HIDE DEF S, N, Good
  <1>3. \A i \in 1 .. N + 1 : i \in S
    BY <1>1, <1>2, Downward
  <1>4. \A i \in 1 .. N + 1 : Good(i)
    BY <1>3 DEF S
  <1> QED
    BY <1>4, Zenon DEF Good, N, M

LEMMA MeansIs ==
  ASSUME NEW p \in Seq(Byte), NEW s \in Seq(Byte), NEW H, Reaches(H, p, s)
  PROVE  Means(p, s) <=> 0 \in H[1]
  <1> DEFINE ts == Tokens(p)
             M == Len(s)
             T == Len(ts)
             V == SUBSET (0 .. M)
             Body(g, k) == IF k = 0 THEN {0} ELSE Advance(s, g[k - 1], ts[k])
             at == CHOOSE g : g = [k \in 0 .. T |-> Body(g, k)]
             step == [k \in 1 .. T |-> [v \in V |-> Advance(s, v, ts[k])]]
  <1>1. Means(p, s) <=> M \in at[T]
    BY Zenon DEF Means
  <1>2. PICK R : Tokenized(R, p) /\ ts = R[1]
    BY TokensDef
  <1> HIDE DEF ts
  <1>3. ts \in Seq(Token) /\ T \in Nat /\ M \in Nat /\ 1 \in 1 .. Len(p) + 1
    <2>1. 1 \in 1 .. Len(p) + 1
      OBVIOUS
    <2>2. ts \in Seq(Token)
      BY <1>2, <2>1, TokenizedSeq
    <2> QED
      BY <2>1, <2>2
  <1>4. \A v \in V : \A t : Advance(s, v, t) \in V
    <2> TAKE v \in V
    <2> TAKE t
    <2>1. Advance(s, v, t) = {b \in 0 .. M : \E a \in v : Leads(s, a, b, t)}
      BY AdvanceIs
    <2> QED
      BY <2>1
  <1>5. {0} \in V
    BY <1>3
  <1> HIDE DEF V, T
  <1>6. step \in [1 .. T -> [V -> V]] /\ \A k \in 1 .. T, v \in V : step[k][v] = Advance(s, v, ts[k])
    BY <1>4
  <1> HIDE DEF step
  <1>7. PICK f : Rounds(f, V, {0}, T, step)
    BY <1>3, <1>5, <1>6, RoundsExist, Zenon
  <1>8. f \in [0 .. T -> V] /\ f[0] = {0} /\ \A k \in 1 .. T : f[k] = step[k][f[k - 1]]
    BY <1>7, Zenon DEF Rounds
  <1>9. ASSUME NEW k \in 0 .. T PROVE f[k] = Body(f, k)
    <2>1. CASE k = 0
      BY <1>8, <2>1
    <2>2. CASE k # 0
      <3>1. k \in 1 .. T /\ k - 1 \in 0 .. T
        BY <1>3, <2>2
      <3>2. f[k] = step[k][f[k - 1]] /\ f[k - 1] \in V
        BY <1>8, <3>1
      <3>3. f[k] = Advance(s, f[k - 1], ts[k])
        BY <1>6, <3>1, <3>2
      <3> QED
        BY <2>2, <3>3
    <2> QED
      BY <2>1, <2>2
  <1> HIDE DEF Body
  <1>10. f = [k \in 0 .. T |-> Body(f, k)]
    BY <1>8, <1>9
  <1>11. at = [k \in 0 .. T |-> Body(at, k)]
    BY <1>10
  <1> HIDE DEF at
  <1>12. \A k \in 0 .. T : at[k] = Body(at, k)
    BY <1>11
  <1>13. Runs(at, s, {0}, ts)
    <2>1. 0 \in 0 .. T /\ \A k \in 1 .. T : k \in 0 .. T /\ k # 0
      BY <1>3
    <2>2. at[0] = {0} /\ \A k \in 1 .. T : at[k] = Advance(s, at[k - 1], ts[k])
      BY <1>12, <2>1, Zenon DEF Body
    <2> QED
      BY <2>2, Zenon DEF Runs, T
  <1>14. M \in at[T] <=> Meets({0}, H[1])
    <2>1. {0} \in SUBSET (0 .. M)
      BY <1>5 DEF V
    <2> DEFINE zero == {0}
    <2> HIDE DEF zero
    <2>2. \A i \in 1 .. Len(p) + 1 :
            \A A \in SUBSET (0 .. Len(s)) : \A g :
               Runs(g, s, A, R[i]) => (Len(s) \in g[Len(R[i])] <=> Meets(A, H[i]))
      BY <1>2, RunsReach
    <2>3. zero \in SUBSET (0 .. Len(s)) /\ Runs(at, s, zero, R[1])
      BY <1>2, <1>13, <2>1, Zenon DEF zero
    <2>4. Len(s) \in at[Len(R[1])] <=> Meets(zero, H[1])
      BY <1>3, <2>2, <2>3, Zenon
    <2> QED
      BY <1>2, <2>4, Zenon DEF zero, T
  <1>15. Meets({0}, H[1]) <=> 0 \in H[1]
    BY DEF Meets
  <1> QED
    BY <1>1, <1>14, <1>15

----------------------------------------------------------------------------
(* The matcher *)

\* What matchHere is at i and j, when g is what it is further on.
HereBody(p, s, g, i, j) ==
  IF i > Len(p) THEN j > Len(s)
  ELSE IF p[i] = Star
  THEN \/ i = Len(p)
       \/ i < Len(p) /\ p[i + 1] = Star /\ g[i + 1][j]
       \/ i < Len(p) /\ p[i + 1] # Star /\ \E k \in j .. Len(s) + 1 : g[i + 1][k]
  ELSE /\ j <= Len(s)
       /\ IF p[i] = Mark THEN g[i + 1][j + 1]
          ELSE IF p[i] = Open
          THEN LET class == matchClass(p, i, s[j])
               IN  class.ok /\ class.matched /\ g[class.rest][j + 1]
          ELSE IF p[i] = Escape /\ i < Len(p)
          THEN s[j] = p[i + 1] /\ g[i + 2][j + 1]
          ELSE s[j] = p[i] /\ g[i + 1][j + 1]

\* g tells, at i, from which positions the end can be reached.
Tells(g, H, s, i) == \A j \in 1 .. Len(s) + 1 : g[i][j] <=> j - 1 \in H[i]

LEMMA ReachOne ==
  ASSUME NEW s \in Seq(Byte), NEW W \in SUBSET (0 .. Len(s)), NEW t, t # Gap, NEW j \in 1 .. Len(s) + 1
  PROVE  (\E b \in W : Leads(s, j - 1, b, t)) <=> j <= Len(s) /\ s[j] \in t /\ j \in W
  <1>1. Len(s) \in Nat /\ (j - 1) + 1 = j
    OBVIOUS
  <1>2. \A b : Leads(s, j - 1, b, t) <=> b = j /\ s[b] \in t
    BY <1>1 DEF Leads
  <1>3. j \in W => j <= Len(s)
    BY <1>1
  <1> QED
    BY <1>2, <1>3

LEMMA HereStar ==
  ASSUME NEW p \in Seq(Byte), NEW s \in Seq(Byte), NEW H, Reaches(H, p, s),
         NEW i \in 1 .. Len(p), p[i] = Star, NEW g, \A k \in i + 1 .. Len(p) + 1 : Tells(g, H, s, k),
         NEW j \in 1 .. Len(s) + 1
  PROVE  HereBody(p, s, g, i, j) <=> j - 1 \in H[i]
  <1> DEFINE N == Len(p)
             M == Len(s)
             a == j - 1
             Through(k) == {x \in 0 .. M : \E b \in H[k] : x <= b}
  <1>1. N \in Nat /\ M \in Nat /\ i \in Nat /\ i <= N /\ ~(i > N) /\ a \in 0 .. M /\ j \in Nat
    OBVIOUS
  <1>2. \A k \in 1 .. N : p[k] = Star => H[k] = Through(k + 1)
    <2> TAKE k \in 1 .. N
    <2> HAVE p[k] = Star
    <2>1. TokenAt(p, k) = Gap /\ TokenEnd(p, k) = k + 1
      BY DEF TokenAt, TokenEnd
    <2>2. H[k] = {x \in 0 .. M : \E b \in H[TokenEnd(p, k)] : Leads(s, x, b, TokenAt(p, k))}
      BY Zenon DEF Reaches
    <2>3. \A x, b : Leads(s, x, b, Gap) <=> x <= b
      BY Zenon DEF Leads
    <2> QED
      BY <2>1, <2>2, <2>3
  <1>3. \A k \in 1 .. N + 1 : H[k] \in SUBSET (0 .. M)
    BY DEF Reaches
  <1>4. a \in H[i] <=> \E b \in H[i + 1] : a <= b
    BY <1>1, <1>2
  <1>5. HereBody(p, s, g, i, j) <=>
           \/ i = N
           \/ i < N /\ p[i + 1] = Star /\ g[i + 1][j]
           \/ i < N /\ p[i + 1] # Star /\ \E k \in j .. M + 1 : g[i + 1][k]
    BY <1>1, Zenon DEF HereBody
  <1>6. i + 1 \in i + 1 .. N + 1 /\ i + 1 \in 1 .. N + 1
    BY <1>1
  <1>7. \A k \in 1 .. M + 1 : g[i + 1][k] <=> k - 1 \in H[i + 1]
    <2>1. Tells(g, H, s, i + 1)
      BY <1>6
    <2> QED
      BY <2>1, Zenon DEF Tells
  <1>8. CASE i = N
    <2>1. H[i + 1] = {M}
      BY <1>8, Zenon DEF Reaches
    <2>2. M \in H[i + 1] /\ a <= M
      BY <1>1, <2>1
    <2> QED
      BY <1>4, <1>5, <1>8, <2>2
  <1>9. CASE i # N /\ p[i + 1] = Star
    <2>1. i < N /\ i + 1 \in 1 .. N /\ (i + 1) + 1 \in 1 .. N + 1
      BY <1>1, <1>9
    <2>2. H[i + 1] = Through((i + 1) + 1)
      BY <1>2, <1>9, <2>1
    <2>3. HereBody(p, s, g, i, j) <=> a \in H[i + 1]
      BY <1>5, <1>7, <1>9, <2>1
    <2>4. a \in H[i + 1] => a \in H[i]
      <3>1. a <= a
        BY <1>1
      <3> QED
        BY <1>4, <3>1
    <2>5. a \in H[i] => a \in H[i + 1]
      <3> SUFFICES ASSUME a \in H[i] PROVE a \in H[i + 1]
        OBVIOUS
      <3>1. PICK b \in H[i + 1] : a <= b
        BY <1>4
      <3>2. b \in 0 .. M
        BY <1>3, <1>6
      <3>3. PICK c \in H[(i + 1) + 1] : b <= c
        BY <2>2
      <3>4. c \in 0 .. M
        BY <1>3, <2>1
      <3> HIDE DEF a
      <3>5. a <= c
        BY <1>1, <3>1, <3>2, <3>3, <3>4
      <3> QED
        BY <1>1, <2>2, <3>5
    <2> QED
      BY <2>3, <2>4, <2>5
  <1>10. CASE i # N /\ p[i + 1] # Star
    <2>1. i < N
      BY <1>1, <1>10
    <2>2. HereBody(p, s, g, i, j) <=> \E k \in j .. M + 1 : g[i + 1][k]
      BY <1>5, <1>10, <2>1
    <2>3. ASSUME NEW k \in j .. M + 1, g[i + 1][k] PROVE \E b \in H[i + 1] : a <= b
      <3>1. k \in 1 .. M + 1 /\ a <= k - 1
        BY <1>1
      <3>2. k - 1 \in H[i + 1]
        BY <1>7, <2>3, <3>1
      <3> QED
        BY <3>1, <3>2
    <2>4. ASSUME NEW b \in H[i + 1], a <= b PROVE \E k \in j .. M + 1 : g[i + 1][k]
      <3>1. b \in 0 .. M
        BY <1>3, <1>6
      <3>2. b + 1 \in j .. M + 1 /\ b + 1 \in 1 .. M + 1 /\ (b + 1) - 1 = b
        BY <1>1, <2>4, <3>1
      <3>3. g[i + 1][b + 1]
        BY <1>7, <3>2
      <3> QED
        BY <3>2, <3>3
    <2> QED
      BY <1>4, <2>2, <2>3, <2>4
  <1> QED
    BY <1>8, <1>9, <1>10

LEMMA HereByte ==
  ASSUME NEW p \in Seq(Byte), NEW s \in Seq(Byte), NEW H, Reaches(H, p, s),
         NEW i \in 1 .. Len(p), p[i] # Star, NEW g, \A k \in i + 1 .. Len(p) + 1 : Tells(g, H, s, k),
         NEW j \in 1 .. Len(s) + 1
  PROVE  HereBody(p, s, g, i, j) <=> j - 1 \in H[i]
  <1> DEFINE N == Len(p)
             M == Len(s)
             t == TokenAt(p, i)
             u == TokenEnd(p, i)
  <1>1. N \in Nat /\ M \in Nat /\ i \in Nat /\ i <= N /\ ~(i > N) /\ j - 1 \in 0 .. M /\ j \in Nat
    OBVIOUS
  <1>2. t # Gap /\ u \in i + 1 .. N + 1
    BY TokenIs
  <1>3. H[u] \in SUBSET (0 .. M)
    <2>1. u \in 1 .. N + 1
      <3> HIDE DEF u, N
      <3> QED
        BY <1>1, <1>2
    <2> HIDE DEF u
    <2> QED
      BY <2>1 DEF Reaches
  <1>4. H[i] = {x \in 0 .. M : \E b \in H[u] : Leads(s, x, b, t)}
    BY Zenon DEF Reaches
  <1>5. j - 1 \in H[i] <=> j <= M /\ s[j] \in t /\ j \in H[u]
    <2> HIDE DEF t, u
    <2>1. j - 1 \in H[i] <=> \E b \in H[u] : Leads(s, j - 1, b, t)
      BY <1>1, <1>4
    <2> QED
      BY <1>2, <1>3, <2>1, ReachOne
  <1>6. HereBody(p, s, g, i, j) <=>
          /\ j <= M
          /\ IF p[i] = Mark THEN g[i + 1][j + 1]
             ELSE IF p[i] = Open
             THEN LET class == matchClass(p, i, s[j])
                  IN  class.ok /\ class.matched /\ g[class.rest][j + 1]
             ELSE IF p[i] = Escape /\ i < N
             THEN s[j] = p[i + 1] /\ g[i + 2][j + 1]
             ELSE s[j] = p[i] /\ g[i + 1][j + 1]
    BY <1>1, Zenon DEF HereBody
  <1>7. CASE ~(j <= M)
    BY <1>5, <1>6, <1>7, Zenon
  <1>8. CASE j <= M
    <2>1. j \in 1 .. M /\ j + 1 \in 1 .. M + 1 /\ (j + 1) - 1 = j /\ s[j] \in Byte
      BY <1>1, <1>8
    <2>2. g[u][j + 1] <=> j \in H[u]
      <3>1. Tells(g, H, s, u)
        <4> HIDE DEF u
        <4> QED
          BY <1>2
      <3>2. g[u][j + 1] <=> (j + 1) - 1 \in H[u]
        BY <2>1, <3>1, Zenon DEF Tells
      <3> HIDE DEF u
      <3> QED
        BY <2>1, <3>2
    <2>3. Mark # Open /\ Escape # Open /\ Mark # Escape
      BY DEF Mark, Open, Escape
    <2>4. CASE p[i] = Mark
      <3>1. t = Byte /\ u = i + 1
        BY <2>4, Zenon DEF TokenAt, TokenEnd
      <3>2. HereBody(p, s, g, i, j) <=> g[i + 1][j + 1]
        BY <1>6, <1>8, <2>4, Zenon
      <3>3. s[j] \in t
        BY <2>1, <3>1
      <3> QED
        BY <1>5, <1>8, <2>2, <3>1, <3>2, <3>3, Zenon
    <2>5. CASE p[i] = Open
      <3> DEFINE e == ClassEnd(p, i)
                 class == matchClass(p, i, s[j])
      <3>1. t = ClassToken(p, i) /\ u = IF e > N THEN N + 1 ELSE e + 1
        BY <2>3, <2>5 DEF TokenAt, TokenEnd
      <3>2. HereBody(p, s, g, i, j) <=> class.ok /\ class.matched /\ g[class.rest][j + 1]
        BY <1>6, <1>8, <2>3, <2>5, Zenon
      <3>3. /\ e > N => ~class.ok
            /\ e <= N => /\ class.ok
                         /\ class.rest = e + 1
                         /\ class.matched <=> s[j] \in ClassSet(SubSeq(p, i + 1, e - 1))
        <4>1. EndsClass(p, i, e)
          BY ClassEnds
        <4> HIDE DEF e
        <4> DEFINE c == s[j]
        <4>2. c \in Byte
          BY <2>1
        <4> HIDE DEF c
        <4>3. /\ e > N => ~matchClass(p, i, c).ok
              /\ e <= N => /\ matchClass(p, i, c).ok
                           /\ matchClass(p, i, c).rest = e + 1
                           /\ matchClass(p, i, c).matched <=> c \in ClassSet(SubSeq(p, i + 1, e - 1))
          BY <4>1, <4>2, ClassIs
        <4> QED
          BY <4>3, Zenon DEF c
      <3>4. CASE e > N
        <4>1. t = {}
          BY <3>1, <3>4, Zenon DEF ClassToken
        <4>2. s[j] \notin t
          BY <4>1
        <4> QED
          BY <1>5, <3>2, <3>3, <3>4, <4>2, Zenon
      <3>5. CASE ~(e > N)
        <4>1. e <= N
          <5>1. e \in Int
            BY ClassEnds DEF EndsClass
          <5> HIDE DEF e
          <5> QED
            BY <1>1, <3>5, <5>1
        <4>2. t = ClassSet(SubSeq(p, i + 1, e - 1)) /\ u = e + 1
          BY <3>1, <3>5, Zenon DEF ClassToken
        <4>3. class.ok /\ class.rest = u /\ (class.matched <=> s[j] \in t)
          BY <3>3, <4>1, <4>2, Zenon
        <4> QED
          BY <1>5, <1>8, <2>2, <3>2, <4>3, Zenon
      <3> QED
        BY <3>4, <3>5
    <2>6. CASE p[i] = Escape /\ i < N
      <3>1. t = {p[i + 1]} /\ u = i + 2
        BY <2>3, <2>6, Zenon DEF TokenAt, TokenEnd
      <3>2. HereBody(p, s, g, i, j) <=> s[j] = p[i + 1] /\ g[i + 2][j + 1]
        BY <1>6, <1>8, <2>3, <2>6, Zenon
      <3>3. s[j] \in t <=> s[j] = p[i + 1]
        BY <3>1
      <3> QED
        BY <1>5, <1>8, <2>2, <3>1, <3>2, <3>3, Zenon
    <2>7. CASE p[i] # Mark /\ p[i] # Open /\ ~(p[i] = Escape /\ i < N)
      <3>1. t = {p[i]} /\ u = i + 1
        BY <2>7, Zenon DEF TokenAt, TokenEnd
      <3>2. HereBody(p, s, g, i, j) <=> s[j] = p[i] /\ g[i + 1][j + 1]
        BY <1>6, <1>8, <2>7, Zenon
      <3>3. s[j] \in t <=> s[j] = p[i]
        BY <3>1
      <3> QED
        BY <1>5, <1>8, <2>2, <3>1, <3>2, <3>3, Zenon
    <2> QED
      BY <2>4, <2>5, <2>6, <2>7
  <1> QED
    BY <1>7, <1>8

LEMMA HereIs ==
  ASSUME NEW p \in Seq(Byte), NEW s \in Seq(Byte), NEW H, Reaches(H, p, s),
         NEW i \in 1 .. Len(p) + 1, NEW g, \A k \in i + 1 .. Len(p) + 1 : Tells(g, H, s, k),
         NEW j \in 1 .. Len(s) + 1
  PROVE  HereBody(p, s, g, i, j) <=> j - 1 \in H[i]
  <1>1. Len(p) \in Nat /\ Len(s) \in Nat
    OBVIOUS
  <1>2. CASE i = Len(p) + 1
    <2>1. H[i] = {Len(s)} /\ i > Len(p)
      BY <1>1, <1>2 DEF Reaches
    <2>2. HereBody(p, s, g, i, j) <=> j > Len(s)
      BY <2>1, Zenon DEF HereBody
    <2>3. j - 1 = Len(s) <=> j > Len(s)
      BY <1>1
    <2> QED
      BY <2>1, <2>2, <2>3
  <1>3. CASE i # Len(p) + 1 /\ p[i] = Star
    <2>1. i \in 1 .. Len(p)
      BY <1>1, <1>3
    <2> QED
      BY <1>3, <2>1, HereStar
  <1>4. CASE i # Len(p) + 1 /\ p[i] # Star
    <2>1. i \in 1 .. Len(p)
      BY <1>1, <1>4
    <2> QED
      BY <1>4, <2>1, HereByte
  <1> QED
    BY <1>2, <1>3, <1>4

LEMMA HereBoolean == \A p, s, g, i, j : HereBody(p, s, g, i, j) \in BOOLEAN
  <1> TAKE p, s, g, i, j
  <1> DEFINE x == i = Len(p)
             y == \/ i < Len(p) /\ p[i + 1] = Star /\ g[i + 1][j]
                  \/ i < Len(p) /\ p[i + 1] # Star /\ \E k \in j .. Len(s) + 1 : g[i + 1][k]
             z == IF p[i] = Mark THEN g[i + 1][j + 1]
                  ELSE IF p[i] = Open
                  THEN LET class == matchClass(p, i, s[j])
                       IN  class.ok /\ class.matched /\ g[class.rest][j + 1]
                  ELSE IF p[i] = Escape /\ i < Len(p)
                  THEN s[j] = p[i + 1] /\ g[i + 2][j + 1]
                  ELSE s[j] = p[i] /\ g[i + 1][j + 1]
  <1>1. HereBody(p, s, g, i, j) =
          IF i > Len(p) THEN j > Len(s) ELSE IF p[i] = Star THEN x \/ y ELSE j <= Len(s) /\ z
    BY Zenon DEF HereBody
  <1> HIDE DEF x, y, z
  <1>2. (x \/ y) \in BOOLEAN
    OBVIOUS
  <1>3. (j <= Len(s) /\ z) \in BOOLEAN
    OBVIOUS
  <1>4. (j > Len(s)) \in BOOLEAN
    OBVIOUS
  <1> QED
    BY <1>1, <1>2, <1>3, <1>4, Zenon

LEMMA MatchIs ==
  ASSUME NEW p \in Seq(Byte), NEW s \in Seq(Byte), NEW H, Reaches(H, p, s)
  PROVE  matchHere(p, s) <=> 0 \in H[1]
  <1> DEFINE K == Len(p) + 1
             J == Len(s) + 1
             Row(g, i) == [j \in 1 .. J |-> HereBody(p, s, g, i, j)]
             here == CHOOSE g : g = [i \in 1 .. K |-> Row(g, i)]
             f == [i \in 1 .. K |-> [j \in 1 .. J |-> j - 1 \in H[i]]]
  <1>1. matchHere(p, s) = here[1][1]
    BY Zenon DEF matchHere, HereBody
  <1>2. K \in Int /\ 1 \in Int /\ 1 \in 1 .. K /\ 1 \in 1 .. J
    OBVIOUS
  <1>3. \A i \in 1 .. K, j \in 1 .. J : f[i][j] = (j - 1 \in H[i])
    BY Zenon
  <1>4. \A i \in 1 .. K : Tells(f, H, s, i)
    <2> HIDE DEF f
    <2> QED
      BY <1>3, Zenon DEF Tells
  <1>5. \A i \in 1 .. K : f[i] = Row(f, i)
    <2> TAKE i \in 1 .. K
    <2>1. \A k \in i + 1 .. K : Tells(f, H, s, k)
      <3>1. \A k \in i + 1 .. K : k \in 1 .. K
        BY <1>2
      <3> QED
        BY <1>4, <3>1, Zenon
    <2>2. \A j \in 1 .. J : HereBody(p, s, f, i, j) <=> j - 1 \in H[i]
      <3> HIDE DEF f
      <3> QED
        BY <2>1, HereIs
    <2>3. \A j \in 1 .. J : HereBody(p, s, f, i, j) = (j - 1 \in H[i])
      <3> TAKE j \in 1 .. J
      <3>1. HereBody(p, s, f, i, j) \in BOOLEAN
        BY HereBoolean, Zenon
      <3> HIDE DEF f
      <3> QED
        BY <2>2, <3>1
    <2>4. f[i] = [j \in 1 .. J |-> j - 1 \in H[i]]
      BY Zenon
    <2> HIDE DEF f
    <2> QED
      BY <2>3, <2>4
  <1>6. f = [i \in 1 .. K |-> f[i]]
    OBVIOUS
  <1> HIDE DEF f, Row
  <1>7. f = [i \in 1 .. K |-> Row(f, i)]
    BY <1>5, <1>6
  <1>8. here = [i \in 1 .. K |-> Row(here, i)]
    BY <1>7
  <1> HIDE DEF here
  <1>9. \A i \in 1 .. K, j \in 1 .. J : here[i][j] = HereBody(p, s, here, i, j)
    <2>1. \A i \in 1 .. K : here[i] = Row(here, i)
      BY <1>8
    <2> QED
      BY <2>1 DEF Row
  <1> DEFINE S == {i \in 1 .. K : Tells(here, H, s, i)}
  <1>10. ASSUME NEW i \in 1 .. K, \A k \in i + 1 .. K : k \in S PROVE i \in S
    <2>1. \A k \in i + 1 .. K : Tells(here, H, s, k)
      BY <1>10
    <2>2. ASSUME NEW j \in 1 .. J PROVE here[i][j] <=> j - 1 \in H[i]
      <3>1. HereBody(p, s, here, i, j) <=> j - 1 \in H[i]
        BY <2>1, HereIs
      <3> QED
        BY <1>9, <3>1, Zenon
    <2>3. Tells(here, H, s, i)
      BY <2>2, Zenon DEF Tells
    <2> QED
      BY <2>3
  <1> HIDE DEF S, K
  <1>11. \A i \in 1 .. K : i \in S
    BY <1>2, <1>10, Downward
  <1>12. Tells(here, H, s, 1)
    BY <1>2, <1>11 DEF S
  <1>13. here[1][1] <=> 1 - 1 \in H[1]
    BY <1>2, <1>12, Zenon DEF Tells
  <1>14. 1 - 1 = 0
    OBVIOUS
  <1>15. matchHere(p, s) <=> here[1][1]
    BY <1>1, Zenon
  <1> QED
    BY <1>13, <1>14, <1>15

LEMMA PatternMeans ==
  ASSUME pattern \in Seq(Byte)
  PROVE  GlobMeansPattern
  <1> SUFFICES ASSUME NEW s \in Names PROVE globMatch(pattern, s) <=> Means(pattern, s)
    BY Zenon DEF GlobMeansPattern
  <1>1. s \in Seq(Byte)
    BY BytesAssumption
  <1>2. PICK H : Reaches(H, pattern, s)
    BY <1>1, ReachesExists
  <1>3. matchHere(pattern, s) <=> 0 \in H[1]
    BY <1>1, <1>2, MatchIs
  <1>4. Means(pattern, s) <=> 0 \in H[1]
    BY <1>1, <1>2, MeansIs
  <1> QED
    BY <1>3, <1>4, Zenon DEF globMatch

LEMMA PatternInit == Init => pattern \in Seq(Byte)
  BY DEF Init

LEMMA PatternStep == pattern \in Seq(Byte) /\ [Next]_vars => (pattern \in Seq(Byte))'
  <1> SUFFICES ASSUME pattern \in Seq(Byte), [Next]_vars PROVE pattern' \in Seq(Byte)
    OBVIOUS
  <1>1. CASE GrowPattern
    <2>1. PICK b \in PatternBytes : pattern' = Append(pattern, b)
      BY <1>1 DEF GrowPattern
    <2>2. b \in Byte
      BY BytesAssumption
    <2> QED
      BY <2>1, <2>2, AppendProperties
  <1>2. CASE ~GrowPattern
    BY <1>2 DEF Next, AddCommand, AddArgument, AddChunk, GrowStream, AddOption, AddShard,
                Execute, Wait, vars
  <1> QED
    BY <1>1, <1>2

----------------------------------------------------------------------------
(* Theorems *)

(***************************************************************************)
(* On every entry that commands can bring about, at every instant, what a  *)
(* client reads tells what its next command will do (Exists, TTL, HGet,    *)
(* LIndex and the commands that write).                                    *)
(***************************************************************************)
THEOREM ReadsAreTrue == Spec => []ReadsForetellWrites
  BY KeyInit, KeyStep, ReadsForetell, PTL DEF Spec

(***************************************************************************)
(* LRANGE answers exactly the elements between its bounds, and LINDEX the  *)
(* one at its index, for lists of any length (LRange, normalizeIndex).     *)
(***************************************************************************)
THEOREM RangesAreExact == Spec => []RangesExact
  BY KeyInit, KeyStep, RangesAre, PTL DEF Spec

(***************************************************************************)
(* A rewritten key is the same key, with the deadline it had but for the   *)
(* fraction of a millisecond (snapshotCommands, msUntil).                  *)
(***************************************************************************)
THEOREM SnapshotsRebuild == Spec => []SnapshotRebuilds
  BY KeyInit, KeyStep, SnapshotIsKey, PTL DEF Spec

(***************************************************************************)
(* Every command is read back as it was written, whatever the bytes of its *)
(* arguments, and consumes its own bytes alone; a line of words is the     *)
(* command of those words if they are valid UTF-8, which splitInline       *)
(* decodes (WriteCommand, ReadCommand, readArray, readInt, splitInline of  *)
(* resp.go).                                                               *)
(***************************************************************************)
THEOREM StreamsReadBack == Spec => []CommandsReadBack
  BY StreamInit, StreamStep, StreamReadsBack, PTL DEF Spec

(***************************************************************************)
(* A log that was cut at any byte replays exactly the commands that are    *)
(* whole before the cut (Replay of aof.go, on the readers of resp.go).     *)
(***************************************************************************)
THEOREM CutsReplayWhole == Spec => []CutReplaysWhole
  BY StreamInit, StreamStep, StreamCut, PTL DEF Spec

(***************************************************************************)
(* The demo's page shows the key and the value that the server's bulk      *)
(* string carried, if they are ASCII text (and the value is not "$-1"),    *)
(* and nothing if they are ASCII with another control character, of which  *)
(* %q makes no JSON; a missing key as missing, OK and a number as their    *)
(* lines, and a reply that breaks off as an error (readReply and the       *)
(* handlers of httpdemo, on the writers of resp.go).                       *)
(***************************************************************************)
THEOREM PagesShowValue == Spec => []PageShowsValue
  BY StreamInit, StreamStep, PageIsTrue, PTL DEF Spec

(***************************************************************************)
(* For any number of shards asked for, the number made is the first power  *)
(* of two that is enough, less than twice as many, and the mask takes a    *)
(* key's hash to its remainder: no shard is out of range, none is without  *)
(* keys (nextPow2, shardFor of store.go).                                  *)
(***************************************************************************)
THEOREM ShardsAreEven == Spec => []ShardsCoverKeys
  BY ShardInit, ShardStep, ShardsAre, PTL DEF Spec

(***************************************************************************)
(* SET takes the options that its comment lists and, what the comment does *)
(* not list, a repeated NX or XX, however many and in any order, and no    *)
(* others; the condition is the one written, and so is the duration if it  *)
(* is less than Wrapping: of a longer one, which wraps, nothing is said    *)
(* (parseSetOpts of command/helpers.go).                                   *)
(***************************************************************************)
THEOREM OptionsMean == Spec => []OptionsAsWritten
  BY OptionInit, OptionStep, OptionsAre, PTL DEF Spec

(***************************************************************************)
(* KEYS matches a key exactly when the tokens of the pattern can be laid   *)
(* along it, for patterns and keys of any bytes and any length: stars by   *)
(* backtracking, classes, ranges, negation, escapes, and patterns that     *)
(* break off (globMatch, matchHere, matchClass of store/helpers.go).       *)
(***************************************************************************)
THEOREM GlobsMean == Spec => []GlobMeansPattern
  BY PatternInit, PatternStep, PatternMeans, PTL DEF Spec
=============================================================================
