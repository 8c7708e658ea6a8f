--------------------------- MODULE CommandsProofs ---------------------------
(***************************************************************************)
(* Proofs about the wrappers: no error reply becomes a result, whatever    *)
(* the server may answer and whatever the reply holds besides; which       *)
(* wrappers take the QUEUED of a transaction for one; and what each makes  *)
(* of every reply to its command, the lists among them of any length.      *)
(***************************************************************************)
EXTENDS Commands, SequenceTheorems, TLAPS

\* A chain of tests that returns an error for every error reply; it takes
\* QUEUED for a value if takes holds.
Reading(f, takes) ==
  /\ f = [k \in Kinds |-> f[k]]
  /\ \A k \in Errors : f[k] \in Failures
  /\ f["queued"] = "value" <=> takes

\* A wrapper that ends in such a chain.
Sound(w, takes) ==
  /\ w = [sends |-> w.sends, none |-> w.none, reads |-> w.reads, items |-> w.items,
          atLeast |-> w.atLeast, looksAt |-> w.looksAt]
  /\ Reading(w.reads, takes)

-----------------------------------------------------------------------------
(* What the chains of tests do with errors and with QUEUED.                *)

LEMMA ReadsIs ==
  ASSUME NEW kinds, "error" \notin kinds, "wrongtype" \notin kinds, "queued" \notin kinds
  PROVE  Reading(Reads(kinds), FALSE) /\ Reading(ReadsElseNull(kinds), FALSE)
           /\ Reading(ReadsOrNull(kinds), FALSE)
BY DEF Reading, Reads, ReadsElseNull, ReadsOrNull, Kinds, Errors, Statuses, Failures,
       ReplyError, UnexpectedType, NullReply

LEMMA ReadsStatusIs ==
  ASSUME NEW kinds, "error" \notin kinds, "wrongtype" \notin kinds, "queued" \in kinds
  PROVE  Reading(Reads(kinds), TRUE) /\ Reading(ReadsOrNull(kinds), TRUE)
BY DEF Reading, Reads, ReadsOrNull, Kinds, Errors, Statuses, Failures,
       ReplyError, UnexpectedType, NullReply

LEMMA OnIs ==
  ASSUME NEW f, NEW takes, Reading(f, takes), NEW result,
         NEW kind \in Kinds \ (Errors \cup {"queued"})
  PROVE  Reading(On(kind, result, f), takes)
BY DEF Reading, On, Kinds, Errors, Statuses

LEMMA OnNilIs ==
  ASSUME NEW f, NEW takes, Reading(f, takes), NEW result
  PROVE  Reading(OnNil(result, f), takes)
BY OnIs DEF OnNil, Kinds, Errors

LEMMA OnWrongTypeIs ==
  ASSUME NEW f, NEW takes, Reading(f, takes)
  PROVE  Reading(OnWrongType(f), takes)
BY DEF Reading, OnWrongType, On, Kinds, Errors, Statuses, Failures, NullReply

LEMMA ShowsIs ==
  ASSUME NEW f, NEW takes, Reading(f, takes), NEW kinds,
         "error" \notin kinds, "wrongtype" \notin kinds, "queued" \notin kinds
  PROVE  Reading(Shows(kinds, f), takes)
BY DEF Reading, Shows, Kinds, Errors, Statuses

LEMMA ReadsAnyIs == Reading(ReadsAny, TRUE)
BY DEF Reading, ReadsAny, Kinds, Errors, Statuses, Failures, ReplyError

-----------------------------------------------------------------------------
(* What a wrapper adds to its chain does not change that.                  *)

LEMMA CallIs ==
  ASSUME NEW f, NEW takes, Reading(f, takes), NEW sent
  PROVE  Sound(Call(sent, f), takes)
BY DEF Sound, Call

LEMMA ListCallIs ==
  ASSUME NEW f, NEW takes, Reading(f, takes), NEW sent, NEW items
  PROVE  Sound(ListCall(sent, f, items), takes)
BY DEF Sound, ListCall, Call

LEMMA AroundIs ==
  ASSUME NEW w, NEW takes, Sound(w, takes), NEW result, NEW n
  PROVE  /\ Sound(OnEmpty(result, w), takes)
         /\ Sound(AtLeast(n, w), takes)
         /\ Sound(OnlyFirst(w), takes)
BY DEF Sound, OnEmpty, AtLeast, OnlyFirst

\* The chains that are used as they stand, by name.
LEMMA NamedChains ==
  /\ Reading(Number, FALSE) /\ Reading(NumberOrNull, FALSE) /\ Reading(Done, FALSE)
  /\ Reading(Bytes, FALSE) /\ Reading(List, FALSE) /\ Reading(ListOrNull, FALSE)
  /\ Reading(Text, FALSE) /\ Reading(Members, FALSE) /\ Reading(OptionalBytes, FALSE)
  /\ Reading(OptionalNumber, FALSE) /\ Reading(Remaining, FALSE)
  /\ Reading(AnyStatus, TRUE) /\ Reading(Returned, TRUE)
<1> USE DEF Numbers, Statuses, Errors, Kinds
<1>1. /\ Reading(Number, FALSE) /\ Reading(NumberOrNull, FALSE) /\ Reading(Done, FALSE)
      /\ Reading(Bytes, FALSE)
  BY ReadsIs DEF Number, NumberOrNull, Done, Bytes
<1>2. /\ Reading(List, FALSE) /\ Reading(ListOrNull, FALSE) /\ Reading(Text, FALSE)
      /\ Reading(AnyStatus, TRUE)
  BY ReadsIs, ReadsStatusIs DEF List, ListOrNull, Text, AnyStatus
<1>3. /\ Reading(Reads({"string", "array"}), FALSE)
      /\ Reading(Reads({"string"} \cup Statuses \cup Numbers), TRUE)
  BY ReadsIs, ReadsStatusIs
<1>4. /\ Reading(Members, FALSE) /\ Reading(OptionalBytes, FALSE)
      /\ Reading(OptionalNumber, FALSE) /\ Reading(Returned, TRUE)
  BY <1>1, <1>3, OnNilIs DEF Members, OptionalBytes, OptionalNumber, Returned
<1>5. Reading(On("minus2", KeyNotFound, NumberOrNull), FALSE)
  BY <1>1, OnIs
<1>6. Reading(Remaining, FALSE)
  BY <1>5, OnIs DEF Remaining
<1> QED BY <1>1, <1>2, <1>4, <1>6

\* And those that one or a few wrappers put together.
LEMMA OwnChains ==
  /\ Reading(OnNil(NullReply, Done), FALSE) /\ Reading(OnNil(KeyNotFound, Bytes), FALSE)
  /\ Reading(OnNil("value", Bytes), FALSE)
  /\ Reading(OnNil("none", List), FALSE) /\ Reading(OnNil("value", List), FALSE)
  /\ Reading(OnNil(KeyNotFound, Reads({"string"} \cup Statuses)), TRUE)
  /\ Reading(OnWrongType(OnNil(KeyNotFound, Reads({"string"} \cup Statuses))), TRUE)
  /\ Reading(OnNil("none", Reads(Numbers \cup {"array"})), FALSE)
  /\ Reading(ReadsElseNull({"array"}), FALSE)
  /\ Reading(OnWrongType(ReadsElseNull({"array"})), FALSE)
  /\ Reading(ReadsElseNull({"ok"}), FALSE) /\ Reading(ReadsOrNull({"ok"}), FALSE)
  /\ Reading(ReadsOrNull({"string"}), FALSE) /\ Reading(ReadsOrNull(Statuses), TRUE)
  /\ Reading(Reads({"reset"}), FALSE) /\ Reading(Reads(Numbers \cup {"ok"}), FALSE)
  /\ Reading(Reads({"array", "map"}), FALSE) /\ Reading(Reads(Statuses), TRUE)
  /\ Reading(Shows({"array", "map"}, Reads({"string"} \cup Numbers)), FALSE)
  /\ Reading(Shows({"array"}, List), FALSE) /\ Reading(Shows({"array"}, ReadsElseNull({})), FALSE)
  /\ Reading([k \in Kinds |-> IF k \in Errors THEN NullReply ELSE Printed[k]], TRUE)
<1> USE DEF Numbers, Statuses, Errors
<1>1. /\ Reading(OnNil(NullReply, Done), FALSE) /\ Reading(OnNil(KeyNotFound, Bytes), FALSE)
      /\ Reading(OnNil("value", Bytes), FALSE)
      /\ Reading(OnNil("none", List), FALSE) /\ Reading(OnNil("value", List), FALSE)
  BY NamedChains, OnNilIs
<1>2. /\ Reading(Reads({"string"} \cup Statuses), TRUE)
      /\ Reading(Reads(Numbers \cup {"array"}), FALSE)
       /\ Reading(Reads({"string"} \cup Numbers), FALSE)
      /\ Reading(Reads({"reset"}), FALSE) /\ Reading(Reads(Numbers \cup {"ok"}), FALSE)
      /\ Reading(Reads({"array", "map"}), FALSE) /\ Reading(Reads(Statuses), TRUE)
  BY ReadsIs, ReadsStatusIs
<1>3. /\ Reading(ReadsElseNull({"array"}), FALSE) /\ Reading(ReadsElseNull({}), FALSE)
      /\ Reading(ReadsElseNull({"ok"}), FALSE) /\ Reading(ReadsOrNull({"ok"}), FALSE)
      /\ Reading(ReadsOrNull({"string"}), FALSE) /\ Reading(ReadsOrNull(Statuses), TRUE)
  BY ReadsIs, ReadsStatusIs
<1>4. /\ Reading(OnNil(KeyNotFound, Reads({"string"} \cup Statuses)), TRUE)
      /\ Reading(OnNil("none", Reads(Numbers \cup {"array"})), FALSE)
      /\ Reading(OnWrongType(OnNil(KeyNotFound, Reads({"string"} \cup Statuses))), TRUE)
      /\ Reading(OnWrongType(ReadsElseNull({"array"})), FALSE)
  BY <1>2, <1>3, OnNilIs, OnWrongTypeIs, Zenon
<1>5. \A f, takes : Reading(f, takes) =>
        Reading(Shows({"array"}, f), takes) /\ Reading(Shows({"array", "map"}, f), takes)
  BY ShowsIs
<1>6. /\ Reading(Shows({"array", "map"}, Reads({"string"} \cup Numbers)), FALSE)
      /\ Reading(Shows({"array"}, List), FALSE)
       /\ Reading(Shows({"array"}, ReadsElseNull({})), FALSE)
  BY <1>2, <1>3, <1>5, NamedChains, Zenon
<1>7. Reading([k \in Kinds |-> IF k \in Errors THEN NullReply ELSE Printed[k]], TRUE)
  BY DEF Reading, Printed, Shows, Kinds, Failures, NullReply
<1> QED BY <1>1, <1>2, <1>3, <1>4, <1>6, <1>7

-----------------------------------------------------------------------------
(* The wrappers, table by table.                                           *)

LEMMA StringsAreSound ==
  /\ \A w \in {psetex, get, mset} : Sound(w, TRUE)
  /\ \A w \in StringWrappers : w \in {psetex, get, mset}
       \/ Sound(w, FALSE)
<1>1. /\ Sound(setnx, FALSE) /\ Sound(setrange, FALSE) /\ Sound(append, FALSE)
      /\ Sound(strlen, FALSE) /\ Sound(msetnx, FALSE) /\ Sound(getbit, FALSE)
      /\ Sound(setbit, FALSE) /\ Sound(bitcount, FALSE) /\ Sound(bitop, FALSE)
      /\ Sound(bitpos, FALSE) /\ Sound(pfadd, FALSE) /\ Sound(pfcount, FALSE)
  BY NamedChains, CallIs, AroundIs, Zenon
  DEF setnx, setrange, append, strlen, msetnx, getbit, setbit, bitcount, bitop, bitpos,
      pfadd, pfcount
<1>2. /\ Sound(incr, FALSE) /\ Sound(incrby, FALSE) /\ Sound(decr, FALSE)
      /\ Sound(decrby, FALSE)
  BY NamedChains, CallIs, Zenon
  DEF incr, incrby, decr, decrby
<1>3. /\ Sound(set, FALSE) /\ Sound(setex, FALSE) /\ Sound(psetex, TRUE)
      /\ Sound(mset, TRUE) /\ Sound(get, TRUE)
  BY NamedChains, OwnChains, CallIs, AroundIs, Zenon
  DEF set, setex, psetex, mset, get
<1>4. /\ Sound(getdel, FALSE) /\ Sound(getex, FALSE) /\ Sound(getset, FALSE)
      /\ Sound(getrange, FALSE) /\ Sound(incrbyfloat, FALSE) /\ Sound(mget, FALSE)
  BY NamedChains, OwnChains, CallIs, ListCallIs, AroundIs, Zenon
  DEF getdel, getex, getset, getrange, incrbyfloat, mget
<1>5. /\ Sound(lcs, FALSE) /\ Sound(pfmerge, FALSE)
  BY NamedChains, OwnChains, CallIs, Zenon
  DEF lcs, pfmerge
<1>6. ASSUME NEW w \in StringWrappers
      PROVE  w \in {psetex, get, mset}
                \/ Sound(w, FALSE)
  BY <1>1, <1>2, <1>3, <1>4, <1>5, ZenonT(60) DEF StringWrappers
<1> QED BY <1>1, <1>2, <1>3, <1>4, <1>5, <1>6

LEMMA CollectionsAreSound ==
  /\ \A w \in {hmset, hget, lset, ltrim} : Sound(w, TRUE)
  /\ \A w \in CollectionWrappers : w \in {hmset, hget, lset, ltrim}
       \/ Sound(w, FALSE)
<1>1. /\ Sound(hset, FALSE) /\ Sound(hdel, FALSE) /\ Sound(hexists, FALSE)
      /\ Sound(hincrby, FALSE) /\ Sound(sadd, FALSE) /\ Sound(scard, FALSE)
      /\ Sound(sismember, FALSE)
  BY NamedChains, CallIs, Zenon
  DEF hset, hdel, hexists, hincrby, sadd, scard, sismember
<1>2. /\ Sound(hsetnx, FALSE) /\ Sound(hlen, FALSE) /\ Sound(hstrlen, FALSE)
      /\ Sound(lpush, FALSE) /\ Sound(lpushx, FALSE) /\ Sound(rpush, FALSE)
      /\ Sound(rpushx, FALSE) /\ Sound(llen, FALSE) /\ Sound(linsert, FALSE)
      /\ Sound(lrem, FALSE) /\ Sound(srem, FALSE) /\ Sound(smove, FALSE)
      /\ Sound(sdiffstore, FALSE) /\ Sound(sinterstore, FALSE) /\ Sound(sunionstore, FALSE)
      /\ Sound(sintercard, FALSE)
  BY NamedChains, CallIs, AroundIs, Zenon
  DEF hsetnx, hlen, hstrlen, lpush, lpushx, rpush, rpushx, llen, linsert, lrem, srem,
      smove, sdiffstore, sinterstore, sunionstore, sintercard
<1>3. /\ Sound(hmget, FALSE) /\ Sound(hvals, FALSE) /\ Sound(hscan, FALSE)
      /\ Sound(lrange, FALSE) /\ Sound(smismember, FALSE) /\ Sound(sdiff, FALSE)
      /\ Sound(sinter, FALSE) /\ Sound(sunion, FALSE) /\ Sound(sscan, FALSE)
  BY NamedChains, CallIs, ListCallIs, AroundIs, Zenon
  DEF hmget, hvals, hscan, lrange, smismember, sdiff, sinter, sunion, sscan
<1>4. /\ Sound(hrandfield, FALSE) /\ Sound(lpop, FALSE) /\ Sound(rpop, FALSE)
      /\ Sound(spop, FALSE) /\ Sound(srandmember, FALSE)
  BY NamedChains, ListCallIs, Zenon
  DEF hrandfield, lpop, rpop, spop, srandmember
<1>5. /\ Sound(lmpop, FALSE) /\ Sound(blmpop, FALSE) /\ Sound(blpop, FALSE)
      /\ Sound(brpop, FALSE)
  BY OwnChains, ListCallIs, AroundIs, Zenon
  DEF lmpop, blmpop, blpop, brpop, Popped
<1>6. /\ Sound(hmset, TRUE) /\ Sound(lset, TRUE) /\ Sound(ltrim, TRUE) /\ Sound(hget, TRUE)
      /\ Sound(hgetall, FALSE) /\ Sound(hkeys, FALSE)
  BY NamedChains, OwnChains, CallIs, ListCallIs, AroundIs, Zenon
  DEF hmset, lset, ltrim, hget, hgetall, hkeys
<1>7. /\ Sound(hincrbyfloat, FALSE) /\ Sound(lindex, FALSE) /\ Sound(lmove, FALSE)
      /\ Sound(rpoplpush, FALSE) /\ Sound(lpos, FALSE)
  BY NamedChains, OwnChains, CallIs, ListCallIs, AroundIs, Zenon
  DEF hincrbyfloat, lindex, lmove, rpoplpush, lpos
<1>8. /\ Sound(blmove, FALSE) /\ Sound(brpoplpush, FALSE) /\ Sound(smembers, FALSE)
  BY NamedChains, OwnChains, CallIs, ListCallIs, Zenon
  DEF blmove, brpoplpush, smembers
<1>9. ASSUME NEW w \in CollectionWrappers
      PROVE  w \in {hmset, hget, lset, ltrim}
                \/ Sound(w, FALSE)
  BY <1>1, <1>2, <1>3, <1>4, <1>5, <1>6, <1>7, <1>8, ZenonT(60) DEF CollectionWrappers
<1> QED BY <1>1, <1>2, <1>3, <1>4, <1>5, <1>6, <1>7, <1>8, <1>9

LEMMA SortedSetsAreSound ==
  /\ \A w \in {xack, xgroup_create} : Sound(w, TRUE)
  /\ \A w \in SortedSetWrappers : w \in {xack, xgroup_create}
       \/ Sound(w, FALSE)
<1>1. /\ Sound(zcount, FALSE) /\ Sound(zlexcount, FALSE) /\ Sound(zrangestore, FALSE)
      /\ Sound(zrem, FALSE) /\ Sound(zremrangebylex, FALSE)
      /\ Sound(zremrangebyrank, FALSE) /\ Sound(zremrangebyscore, FALSE)
      /\ Sound(zdiffstore, FALSE) /\ Sound(zinterstore, FALSE) /\ Sound(zunionstore, FALSE)
      /\ Sound(zintercard, FALSE) /\ Sound(geoadd, FALSE) /\ Sound(geosearchstore, FALSE)
      /\ Sound(xlen, FALSE) /\ Sound(xdel, FALSE) /\ Sound(xtrim, FALSE)
  BY NamedChains, CallIs, AroundIs, Zenon
  DEF zcount, zlexcount, zrangestore, zrem, zremrangebylex, zremrangebyrank,
      zremrangebyscore, zdiffstore, zinterstore, zunionstore, zintercard, geoadd,
      geosearchstore, xlen, xdel, xtrim
<1>2. /\ Sound(zmscore, FALSE) /\ Sound(zrevrange, FALSE) /\ Sound(zrangebylex, FALSE)
      /\ Sound(zrevrangebylex, FALSE) /\ Sound(zrangebyscore, FALSE)
      /\ Sound(zrevrangebyscore, FALSE) /\ Sound(zpopmin, FALSE) /\ Sound(zpopmax, FALSE)
      /\ Sound(zdiff, FALSE) /\ Sound(zinter, FALSE) /\ Sound(zunion, FALSE)
      /\ Sound(zscan, FALSE) /\ Sound(geohash, FALSE) /\ Sound(geopos, FALSE)
      /\ Sound(geosearch, FALSE)
  BY NamedChains, CallIs, ListCallIs, AroundIs, Zenon
  DEF zmscore, zrevrange, zrangebylex, zrevrangebylex, zrangebyscore, zrevrangebyscore,
      zpopmin, zpopmax, zdiff, zinter, zunion, zscan, geohash, geopos, geosearch
<1>3. /\ Sound(zadd, FALSE) /\ Sound(zcard, FALSE) /\ Sound(zincrby, FALSE)
      /\ Sound(xadd, FALSE) /\ Sound(zscore, FALSE) /\ Sound(geodist, FALSE)
  BY NamedChains, CallIs, Zenon
  DEF zadd, zcard, zincrby, xadd, zscore, geodist
<1>4. /\ Sound(zrank, FALSE) /\ Sound(zrevrank, FALSE) /\ Sound(zrange, FALSE)
      /\ Sound(zrandmember, FALSE) /\ Sound(bzpopmin, FALSE) /\ Sound(bzpopmax, FALSE)
  BY NamedChains, OwnChains, CallIs, ListCallIs, AroundIs, Zenon
  DEF zrank, zrevrank, zrange, zrandmember, bzpopmin, bzpopmax
<1>5. /\ Sound(xrange, FALSE) /\ Sound(xread, FALSE) /\ Sound(xreadgroup, FALSE)
      /\ Sound(xack, TRUE) /\ Sound(xgroup_create, TRUE)
  BY OwnChains, ReadsAnyIs, CallIs, ListCallIs, AroundIs, Zenon
  DEF xrange, xread, xreadgroup, xack, xgroup_create
<1>6. ASSUME NEW w \in SortedSetWrappers
      PROVE  w \in {xack, xgroup_create}
                \/ Sound(w, FALSE)
  BY <1>1, <1>2, <1>3, <1>4, <1>5, ZenonT(60) DEF SortedSetWrappers
<1> QED BY <1>1, <1>2, <1>3, <1>4, <1>5, <1>6

LEMMA ServersAreSound ==
  /\ \A w \in {rename, type, eval, evalsha, quit, command, bgsave, bgrewriteaof} : Sound(w, TRUE)
  /\ \A w \in ServerWrappers : w \in
        {rename, type, eval, evalsha, quit, command, bgsave, bgrewriteaof}
       \/ Sound(w, FALSE)
<1>1. /\ Sound(unlink, FALSE) /\ Sound(touch, FALSE) /\ Sound(expire, FALSE)
      /\ Sound(expireat, FALSE) /\ Sound(pexpire, FALSE) /\ Sound(pexpireat, FALSE)
      /\ Sound(expiretime, FALSE) /\ Sound(persist, FALSE) /\ Sound(renamenx, FALSE)
      /\ Sound(copy, FALSE) /\ Sound(clientid, FALSE) /\ Sound(dbsize, FALSE)
      /\ Sound(lastsave, FALSE) /\ Sound(slowloglen, FALSE)
  BY NamedChains, CallIs, AroundIs, Zenon
  DEF unlink, touch, expire, expireat, pexpire, pexpireat, expiretime, persist,
      renamenx, copy, clientid, dbsize, lastsave, slowloglen
<1>2. /\ Sound(scriptflush, FALSE) /\ Sound(scriptkill, FALSE) /\ Sound(select, FALSE)
      /\ Sound(clientsetname, FALSE) /\ Sound(clientpause, FALSE)
      /\ Sound(clientunpause, FALSE) /\ Sound(multi, FALSE) /\ Sound(discard, FALSE)
      /\ Sound(watch, FALSE) /\ Sound(unwatch, FALSE) /\ Sound(configset, FALSE)
      /\ Sound(configrewrite, FALSE) /\ Sound(configresetstat, FALSE)
      /\ Sound(slowlogreset, FALSE)
  BY NamedChains, CallIs, AroundIs, Zenon
  DEF scriptflush, scriptkill, select, clientsetname, clientpause, clientunpause,
      multi, discard, watch, unwatch, configset, configrewrite, configresetstat,
      slowlogreset
<1>3. /\ Sound(del, FALSE) /\ Sound(exists, FALSE) /\ Sound(publish, FALSE)
      /\ Sound(ttl, FALSE) /\ Sound(pttl, FALSE) /\ Sound(rename, TRUE)
  BY NamedChains, CallIs, AroundIs, Zenon
  DEF del, exists, publish, ttl, pttl, rename
<1>4. /\ Sound(type, TRUE) /\ Sound(keys, FALSE) /\ Sound(scan, FALSE)
      /\ Sound(scriptexists, FALSE) /\ Sound(time, FALSE)
  BY NamedChains, OwnChains, CallIs, ListCallIs, AroundIs, Zenon
  DEF type, keys, scan, scriptexists, time
<1>5. /\ Sound(randomkey, FALSE) /\ Sound(objectencoding, FALSE)
      /\ Sound(clientgetname, FALSE) /\ Sound(objectfreq, FALSE)
      /\ Sound(objectidletime, FALSE) /\ Sound(memoryusage, FALSE)
  BY NamedChains, CallIs, Zenon
  DEF randomkey, objectencoding, clientgetname, objectfreq, objectidletime, memoryusage
<1>6. /\ Sound(eval, TRUE) /\ Sound(evalsha, TRUE) /\ Sound(scriptload, FALSE)
      /\ Sound(echo, FALSE) /\ Sound(auth, FALSE) /\ Sound(hello, FALSE)
  BY NamedChains, OwnChains, CallIs, Zenon
  DEF eval, evalsha, scriptload, echo, auth, hello
<1>7. /\ Sound(ping, FALSE) /\ Sound(reset, FALSE) /\ Sound(quit, TRUE)
      /\ Sound(clientinfo, FALSE) /\ Sound(clientlist, FALSE) /\ Sound(info, FALSE)
  BY NamedChains, OwnChains, ReadsAnyIs, CallIs, Zenon
  DEF ping, reset, quit, clientinfo, clientlist, info
<1>8. /\ Sound(clientkill, FALSE) /\ Sound(exec, FALSE) /\ Sound(command, TRUE)
      /\ Sound(subscribe, FALSE) /\ Sound(flushall, FALSE)
  BY OwnChains, CallIs, ListCallIs, AroundIs, Zenon
  DEF clientkill, exec, command, subscribe, flushall
<1>9. /\ Sound(bgsave, TRUE) /\ Sound(bgrewriteaof, TRUE) /\ Sound(configget, FALSE)
      /\ Sound(slowlogget, FALSE)
  BY OwnChains, CallIs, ListCallIs, Zenon
  DEF bgsave, bgrewriteaof, configget, slowlogget
<1>10. ASSUME NEW w \in ServerWrappers
       PROVE  w \in {rename, type, eval, evalsha, quit, command, bgsave, bgrewriteaof}
                 \/ Sound(w, FALSE)
  BY <1>1, <1>2, <1>3, <1>4, <1>5, <1>6, <1>7, <1>8, <1>9, ZenonT(60) DEF ServerWrappers
<1> QED BY <1>1, <1>2, <1>3, <1>4, <1>5, <1>6, <1>7, <1>8, <1>9, <1>10

-----------------------------------------------------------------------------
(* How a call ends.                                                        *)

\* The wrappers that have their command queued and say so as a value; quit
\* would, but QUIT is never queued.
LEMMA WrappersAreSound ==
  /\ \A w \in TakesQueued : Sound(w, TRUE)
  /\ \A w \in Wrappers : w \in TakesQueued \/ w = quit \/ Sound(w, FALSE)
  /\ Sound(quit, TRUE) /\ quit.sends \in AtOnce
<1>1. quit.sends \in AtOnce
  BY DEF quit, Call, AtOnce
<1>2. \A w \in TakesQueued : Sound(w, TRUE)
  BY StringsAreSound, CollectionsAreSound, SortedSetsAreSound, ServersAreSound DEF TakesQueued
<1>3. Sound(quit, TRUE)
  BY ServersAreSound
<1>4. ASSUME NEW w \in StringWrappers \cup CollectionWrappers
      PROVE  w \in TakesQueued \/ Sound(w, FALSE)
  BY <1>4, StringsAreSound, CollectionsAreSound DEF TakesQueued
<1>5. ASSUME NEW w \in SortedSetWrappers \cup ServerWrappers
      PROVE  w \in TakesQueued \/ w = quit \/ Sound(w, FALSE)
  BY <1>5, SortedSetsAreSound, ServersAreSound DEF TakesQueued
<1> QED BY <1>1, <1>2, <1>3, <1>4, <1>5 DEF Wrappers

\* Whatever the elements that come with it, an error ends in a failure.
LEMMA ErrorFails ==
  ASSUME NEW w, NEW takes, Sound(w, takes), NEW r, r.kind \in Errors
  PROVE  Result(w, r).is \in Failures
<1>1. w.reads[r.kind] \in Failures /\ w.reads[r.kind] # "value" /\ r.kind # "array"
  BY DEF Sound, Reading, Errors, Failures, ConnectErrors, ConnectIO, ConnectEOF, ConnectProtocol,
         ConnectOther, NullReply, ReplyError, UnexpectedType, KeyNotFound, NoExpiry
<1> QED BY <1>1 DEF Result

LEMMA QueuedIs ==
  ASSUME NEW w, NEW takes, Sound(w, takes), NEW r, r = Plain("queued")
  PROVE  Result(w, r).is = "value" <=> takes
<1>1. r.kind = "queued" /\ r.items = <<>> /\ DOMAIN r.items = {}
  BY DEF Plain
<1>2. Result(w, r).is = w.reads[r.kind]
  BY <1>1 DEF Result
<1> QED BY <1>1, <1>2 DEF Sound, Reading

-----------------------------------------------------------------------------
(* What a wrapper makes of the replies to its command.                     *)

\* The replies R are of a kind in flat and hold no elements, or are arrays of
\* at least this many elements of these kinds.
Among(R, flat, kinds, least) == \A r \in R :
  \/ r.kind \in flat \ {"array"} /\ r.items = <<>>
  \/ kinds # {} /\ r.kind = "array" /\ r.items \in Seq(kinds) /\ Len(r.items) >= least

\* A chain of tests that understands these kinds.
Tells(f, kinds) == \A k \in kinds : f[k] \in Expected(k)

\* Elements of these kinds have their place in the answer.
Places(items, kinds) == \A k \in kinds : items[k] = "kept" \/ (k = "nil" /\ items[k] = "none")

\* Wrapper w sends c, ends in the chain f and treats elements as items says.
Reader(w, c, f, items, least) ==
  /\ w.sends = c /\ w.reads = f /\ w.items = items
  /\ w.atLeast = least /\ w.looksAt = "all"

Copes(w, R) == \A r \in R :
  /\ Result(w, r).is \in Expected(r.kind)
  /\ Result(w, r).is = "value" => Complete(w, r)

-----------------------------------------------------------------------------
LEMMA Readers ==
  ASSUME NEW c, NEW f, NEW items, NEW x, NEW n
  PROVE  /\ Reader(Call(c, f), c, f, Whatever, 0)
         /\ Reader(OnEmpty(x, Call(c, f)), c, f, Whatever, 0)
         /\ Reader(AtLeast(n, Call(c, f)), c, f, Whatever, n)
         /\ Reader(OnEmpty(x, AtLeast(n, Call(c, f))), c, f, Whatever, n)
         /\ Reader(ListCall(c, f, items), c, f, items, 0)
         /\ Reader(OnEmpty(x, ListCall(c, f, items)), c, f, items, 0)
         /\ Reader(OnEmpty(x, AtLeast(n, ListCall(c, f, items))), c, f, items, n)
BY DEF Reader, Call, OnEmpty, AtLeast, ListCall

\* A reply without elements has nothing to lose.
LEMMA BareIsComplete ==
  ASSUME NEW w, NEW r, r.items = <<>>
  PROVE  Complete(w, r) /\ (r.kind # "array" => Result(w, r).is = w.reads[r.kind])
<1> DEFINE seen == IF w.looksAt = "first" /\ r.items # <<>> THEN <<Head(r.items)>> ELSE r.items
           fates == [i \in DOMAIN seen |-> w.items[seen[i]]]
<1>1. seen = <<>> /\ DOMAIN seen = {}
  OBVIOUS
<1>2. DOMAIN fates = {} /\ fates = <<>>
  BY <1>1
<1>3. Result(w, r).items = <<>>
  BY <1>2 DEF Result
<1>4. r.kind # "array" => Result(w, r).is = w.reads[r.kind]
  BY <1>2 DEF Result
<1> QED BY <1>3, <1>4 DEF Complete

\* Elements that have their place are all there.
LEMMA PlacedIsComplete ==
  ASSUME NEW w, NEW r, NEW kinds, r.items \in Seq(kinds), w.looksAt = "all", Places(w.items, kinds),
         w.atLeast \in Nat, r.kind = "array" => Len(r.items) >= w.atLeast
  PROVE  /\ Result(w, r).is = w.reads[r.kind]
         /\ Result(w, r).is = "value" => Complete(w, r)
<1> DEFINE fates == [i \in DOMAIN r.items |-> w.items[r.items[i]]]
<1>1. \A i \in DOMAIN r.items : r.items[i] \in kinds
  OBVIOUS
<1>2. \A i \in DOMAIN fates : fates[i] = "kept" \/ (r.items[i] = "nil" /\ fates[i] = "none")
  BY <1>1 DEF Places
<1>3. Len(fates) = Len(r.items) /\ DOMAIN fates = DOMAIN r.items
  OBVIOUS
<1> HIDE DEF fates
<1>4. Result(w, r) = [is |-> w.reads[r.kind],
                      items |-> IF w.reads[r.kind] = "value" THEN fates ELSE <<>>]
  <2>1. ~(r.kind = "array" /\ Len(r.items) < w.atLeast)
    OBVIOUS
  <2> QED BY <1>2, <2>1 DEF Result, fates
<1> QED BY <1>2, <1>3, <1>4 DEF Complete

LEMMA ReaderCopes ==
  ASSUME NEW w, NEW c, NEW f, NEW items, NEW n \in Nat, Reader(w, c, f, items, n),
         NEW flat, NEW kinds, NEW R, Among(R, flat, kinds, n), Tells(f, flat),
         kinds # {} => Tells(f, {"array"}) /\ Places(items, kinds)
  PROVE  Copes(w, R)
<1> SUFFICES ASSUME NEW r \in R
             PROVE  /\ Result(w, r).is \in Expected(r.kind)
                    /\ Result(w, r).is = "value" => Complete(w, r)
  BY DEF Copes
<1>1. CASE r.kind \in flat \ {"array"} /\ r.items = <<>>
  BY <1>1, BareIsComplete DEF Reader, Tells
<1>2. CASE kinds # {} /\ r.kind = "array" /\ r.items \in Seq(kinds) /\ Len(r.items) >= n
  BY <1>2, PlacedIsComplete DEF Reader, Tells
<1> QED BY <1>1, <1>2 DEF Among

\* What the catalogue's replies hold.
LEMMA CatalogueAmong ==
  /\ Among(Ints, Numbers, {}, 0) /\ Among({Ok}, {"ok"}, {}, 0) /\ Among({Text1}, {"string"}, {}, 0)
  /\ Among({Ok} \cup {Nil}, {"ok", "nil"}, {}, 0)
   /\ Among({Nil} \cup {Text1}, {"nil", "string"}, {}, 0)
  /\ Among({Nil} \cup Ints, Numbers \cup {"nil"}, {}, 0)
  /\ Among({Plain("status")}, {"status"}, {}, 0) /\ Among({Plain("reset")}, {"reset"}, {}, 0)
BY DEF Among, Ints, Ok, Text1, Nil, Plain, Numbers

LEMMA ListsAmong ==
  ASSUME NEW kinds, kinds # {}
  PROVE  /\ Among(Lists(kinds), {}, kinds, 0)
         /\ Among({Nil} \cup {Text1} \cup Lists(kinds), {"nil", "string"}, kinds, 0)
<1>1. ASSUME NEW r \in Lists(kinds)
      PROVE r.kind = "array" /\ r.items \in Seq(kinds) /\ Len(r.items) >= 0
  <2>1. PICK s \in UpTo(kinds) : r = Many("array", s)
    BY DEF Lists
  <2>2. s \in Seq(kinds)
    BY DEF UpTo
  <2> QED BY <2>1, <2>2 DEF Many
<1> QED BY <1>1 DEF Among, Nil, Text1, Plain

LEMMA TuplesAmong ==
  /\ Among(Pairs("array", <<"string", "string">>), {}, {"string"}, 0)
  /\ Among({Many("array", <<"string", "array">>)}, {}, {"string", "array"}, 2)
  /\ Among({Nil} \cup {Many("array", <<"string", "array">>)}, {"nil"}, {"string", "array"}, 2)
  /\ Among({Nil} \cup {Many("array", <<"array">>)}, {"nil"}, {"array"}, 0)
  /\ Among({Many("array", <<"string", "string">>)}, {}, {"string"}, 2)
  /\ Among({Nil} \cup {Many("array", <<"string", "string">>)}, {"nil"}, {"string"}, 2)
  /\ Among({Nil} \cup {Many("array", <<"string", "string", "string">>)}, {"nil"}, {"string"}, 3)
  /\ Among({Many("array", <<"string", "string", "integer">>)}, {}, {"string", "integer"}, 3)
<1> DEFINE Fit(items, kinds, n) == kinds # {} /\ items \in Seq(kinds) /\ Len(items) >= n
<1>1. ASSUME NEW items, NEW kinds, NEW n, Fit(items, kinds, n)
      PROVE  /\ Among({Many("array", items)}, {}, kinds, n)
             /\ Among({Nil} \cup {Many("array", items)}, {"nil"}, kinds, n)
  BY <1>1 DEF Among, Many, Nil, Plain
<1>2. /\ Fit(<<>>, {"string"}, 0) /\ Fit(<<"string", "string">>, {"string"}, 0)
      /\ Fit(<<"string", "string">>, {"string"}, 2) /\ Fit(<<"array">>, {"array"}, 0)
      /\ Fit(<<"string", "array">>, {"string", "array"}, 2)
      /\ Fit(<<"string", "string", "string">>, {"string"}, 3)
      /\ Fit(<<"string", "string", "integer">>, {"string", "integer"}, 3)
  OBVIOUS
<1> HIDE DEF Fit
<1>3. \A R, S, flat, kinds, n :
        Among(R, flat, kinds, n) /\ Among(S, flat, kinds, n) => Among(R \cup S, flat, kinds, n)
  BY DEF Among
<1>4. Among(Pairs("array", <<"string", "string">>), {}, {"string"}, 0)
  BY <1>1, <1>2, <1>3, Zenon DEF Pairs
<1> QED BY <1>1, <1>2, <1>4, Zenon

\* The chains that the wrappers end in, on what their commands are answered.
LEMMA ChainsTell ==
  /\ Tells(Number, Numbers) /\ Tells(NumberOrNull, Numbers) /\ Tells(ReadsAny, Numbers)
  /\ Tells(Remaining, Numbers) /\ Tells(Reads(Numbers \cup {"ok"}), Numbers)
  /\ Tells(OptionalNumber, Numbers \cup {"nil"})
  /\ Tells(AnyStatus, {"ok"}) /\ Tells(Done, {"ok"}) /\ Tells(ReadsAny, {"ok"})
  /\ Tells(ReadsElseNull({"ok"}), {"ok"}) /\ Tells(ReadsOrNull({"ok"}), {"ok"})
  /\ Tells(OnNil(NullReply, Done), {"ok", "nil"})
  /\ Tells(Reads(Statuses), {"status"}) /\ Tells(ReadsOrNull(Statuses), {"status"})
  /\ Tells(Reads({"reset"}), {"reset"})
  /\ Tells(Bytes, {"string"}) /\ Tells(Text, {"string"})
   /\ Tells(ReadsOrNull({"string"}), {"string"})
  /\ Tells(OptionalBytes, {"nil", "string"}) /\ Tells(OnNil("value", Bytes), {"nil", "string"})
  /\ Tells(OnNil(KeyNotFound, Bytes), {"nil", "string"})
  /\ Tells(OnNil(KeyNotFound, Reads({"string"} \cup Statuses)), {"nil", "string"})
  /\ Tells(OnWrongType(OnNil(KeyNotFound, Reads({"string"} \cup Statuses))), {"nil", "string"})
  /\ Tells(List, {"array"}) /\ Tells(ListOrNull, {"array"})
  /\ Tells(ReadsElseNull({"array"}), {"array"}) /\ Tells(Reads({"array", "map"}), {"array"})
  /\ Tells(OnWrongType(ReadsElseNull({"array"})), {"array"})
  /\ Tells(Members, {"nil", "string"}) /\ Tells(Members, {"array"})
  /\ Tells(OnNil("value", List), {"nil"}) /\ Tells(OnNil("value", List), {"array"})
  /\ Tells(OnNil("none", List), {"nil"}) /\ Tells(OnNil("none", List), {"array"})
  /\ \A f : Tells(f, {})
<1> USE DEF Tells, Expected, Numbers, Kinds, Errors, Statuses
<1>1. /\ Tells(Number, Numbers) /\ Tells(NumberOrNull, Numbers) /\ Tells(ReadsAny, Numbers)
      /\ Tells(Remaining, Numbers) /\ Tells(Reads(Numbers \cup {"ok"}), Numbers)
  BY DEF Number, NumberOrNull, ReadsAny, Remaining, Reads, ReadsOrNull, On
<1>2. /\ Tells(OptionalNumber, Numbers \cup {"nil"})
  BY DEF OptionalNumber, OnNil, On, Reads, Number
<1>3. /\ Tells(AnyStatus, {"ok"}) /\ Tells(Done, {"ok"}) /\ Tells(ReadsAny, {"ok"})
      /\ Tells(ReadsElseNull({"ok"}), {"ok"}) /\ Tells(ReadsOrNull({"ok"}), {"ok"})
      /\ Tells(OnNil(NullReply, Done), {"ok", "nil"})
  BY DEF AnyStatus, Done, ReadsAny, ReadsElseNull, ReadsOrNull, Reads, OnNil, On
<1>4. /\ Tells(Reads(Statuses), {"status"}) /\ Tells(ReadsOrNull(Statuses), {"status"})
      /\ Tells(Reads({"reset"}), {"reset"})
  BY DEF Reads, ReadsOrNull
<1>5. /\ Tells(Bytes, {"string"}) /\ Tells(Text, {"string"})
       /\ Tells(ReadsOrNull({"string"}), {"string"})
      /\ Tells(OptionalBytes, {"nil", "string"}) /\ Tells(OnNil("value", Bytes), {"nil", "string"})
      /\ Tells(OnNil(KeyNotFound, Bytes), {"nil", "string"})
  BY DEF Bytes, Text, OptionalBytes, Reads, ReadsOrNull, OnNil, On
<1>6. /\ Tells(OnNil(KeyNotFound, Reads({"string"} \cup Statuses)), {"nil", "string"})
      /\ Tells(OnWrongType(OnNil(KeyNotFound, Reads({"string"} \cup Statuses))), {"nil", "string"})
  BY DEF Reads, OnNil, OnWrongType, On
<1>7. /\ Tells(List, {"array"}) /\ Tells(ListOrNull, {"array"})
      /\ Tells(ReadsElseNull({"array"}), {"array"}) /\ Tells(Reads({"array", "map"}), {"array"})
      /\ Tells(OnWrongType(ReadsElseNull({"array"})), {"array"})
  BY DEF List, ListOrNull, Reads, ReadsOrNull, ReadsElseNull, OnWrongType, On
<1>8. /\ Tells(Members, {"nil", "string"}) /\ Tells(Members, {"array"})
      /\ Tells(OnNil("value", List), {"nil"}) /\ Tells(OnNil("value", List), {"array"})
      /\ Tells(OnNil("none", List), {"nil"}) /\ Tells(OnNil("none", List), {"array"})
  BY DEF Members, List, Reads, OnNil, On
<1>9. \A f : Tells(f, {})
  OBVIOUS
<1> HIDE DEF Tells
<1> QED BY <1>1, <1>2, <1>3, <1>4, <1>5, <1>6, <1>7, <1>8, <1>9

\* The elements that have their place.
LEMMA ElementsAreKept ==
  /\ Places(Strings, {"string"}) /\ Places(AllStrings, {"string"})
  /\ Places(Options, {"string", "nil"}) /\ Places(Flags, Numbers)
  /\ Places(Positions, {"array", "nil"}) /\ Places(Flattened, {"array"})
<1> USE DEF Places, Each, Kinds, Statuses, Numbers, Errors
<1>1. /\ Places(Strings, {"string"}) /\ Places(AllStrings, {"string"})
      /\ Places(Options, {"string", "nil"}) /\ Places(Flags, Numbers)
  BY DEF Strings, AllStrings, Options, Flags
<1>2. /\ Places(Positions, {"array", "nil"}) /\ Places(Flattened, {"array"})
  BY DEF Positions, Flattened
<1> QED BY <1>1, <1>2

\* The kinds of elements in tuples.
LEMMA SomeKinds ==
  /\ {"string"} \subseteq Kinds /\ {"string", "array"} \subseteq Kinds
  /\ {"string", "integer"} \subseteq Kinds
BY DEF Kinds, Numbers

-----------------------------------------------------------------------------
\* In protocol p wrapper w understands what its command is answered.
Understood(p, w) == Copes(w, Answers(p, w.sends))

\* Whatever the reply, a value that wrapper w returns is all of it.
Keeps(w) == \A r : r.items \in Seq(Kinds) /\ Result(w, r).is = "value" => Complete(w, r)

Faithful(w) == Understood(2, w) /\ Keeps(w)

\* An element that is not kept leaves no value.
LEMMA ReaderKeeps ==
  ASSUME NEW w, NEW c, NEW f, NEW items, NEW n, Reader(w, c, f, items, n),
         \A k \in Kinds : items[k] \in {"kept", "fails", "voids"}
  PROVE  Keeps(w)
<1> SUFFICES ASSUME NEW r, r.items \in Seq(Kinds), Result(w, r).is = "value"
             PROVE  Complete(w, r)
  BY DEF Keeps
<1> DEFINE fates == [i \in DOMAIN r.items |-> w.items[r.items[i]]]
<1>1. \A i \in DOMAIN fates : fates[i] \in {"kept", "fails", "voids"}
  BY DEF Reader
<1>2. Len(fates) = Len(r.items)
  OBVIOUS
<1> HIDE DEF fates
<1>3. /\ Result(w, r).items = fates
      /\ ~ \E i \in DOMAIN fates : fates[i] = "fails" \/ fates[i] = "voids"
  BY DEF Result, Reader, fates, NullReply
<1> QED BY <1>1, <1>2, <1>3 DEF Complete

LEMMA CallCopes ==
  ASSUME NEW c, NEW f, NEW flat, Among(Answers(2, c), flat, {}, 0), Tells(f, flat)
  PROVE  Faithful(Call(c, f)) /\ \A x : Faithful(OnEmpty(x, Call(c, f)))
<1> SUFFICES ASSUME NEW w, Reader(w, c, f, Whatever, 0) PROVE Faithful(w)
  BY Readers
<1>1. Understood(2, w)
  BY ReaderCopes DEF Understood, Reader
<1>2. Keeps(w)
  BY ReaderKeeps DEF Whatever, Each
<1> QED BY <1>1, <1>2 DEF Faithful

LEMMA AtLeastCopes ==
  ASSUME NEW c, NEW f, NEW flat, NEW kinds, kinds \subseteq Kinds, NEW n \in {2, 3},
         Among(Answers(2, c), flat, kinds, n), Tells(f, flat), Tells(f, {"array"})
  PROVE  /\ Faithful(AtLeast(n, Call(c, f)))
         /\ \A x : Faithful(OnEmpty(x, AtLeast(n, Call(c, f))))
         /\ \A x : Faithful(OnEmpty(x, AtLeast(n, ListCall(c, f, Each(kinds, "voids")))))
<1> SUFFICES ASSUME NEW w, NEW items \in {Whatever, Each(kinds, "voids")},
                    Reader(w, c, f, items, n)
             PROVE  Faithful(w)
  BY Readers
<1>1. Places(items, kinds)
  BY DEF Places, Whatever, Each
<1>2. \A k \in Kinds : items[k] \in {"kept", "fails", "voids"}
  BY DEF Whatever, Each
<1>3. Understood(2, w)
  BY <1>1, ReaderCopes DEF Understood, Reader
<1> QED BY <1>2, <1>3, ReaderKeeps DEF Faithful

LEMMA ListCallCopes ==
  ASSUME NEW p, NEW c, NEW f, NEW items, NEW flat, NEW kinds,
         Among(Answers(p, c), flat, kinds, 0), Tells(f, flat), Tells(f, {"array"}),
         Places(items, kinds)
  PROVE  /\ Understood(p, ListCall(c, f, items))
         /\ \A x : Understood(p, OnEmpty(x, ListCall(c, f, items)))
<1> SUFFICES ASSUME NEW w, Reader(w, c, f, items, 0) PROVE Understood(p, w)
  BY Readers
<1> QED BY ReaderCopes DEF Understood, Reader

\* Replies that are numbers ...
LEMMA NumbersAreUnderstood ==
  \A w \in {setnx, setrange, append, strlen, msetnx, incr, incrby, decr, decrby, getbit,
           setbit, bitcount, bitop, bitpos, pfadd, pfcount, hset, hsetnx, hdel, hexists,
           hlen, hstrlen, hincrby, lpush, lpushx, rpush, rpushx, llen, linsert, lrem,
           sadd, srem, scard, sismember, smove, sdiffstore, sinterstore, sunionstore,
           sintercard} :
    Faithful(w)
<1>1. \A c, f : Answers(2, c) = Ints /\ Tells(f, Numbers) =>
       Faithful(Call(c, f)) /\ \A x : Faithful(OnEmpty(x, Call(c, f)))
  BY CallCopes, CatalogueAmong, Zenon
<1>2. /\ Answers(2, "SETNX") = Ints /\ Answers(2, "SETRANGE") = Ints
      /\ Answers(2, "APPEND") = Ints /\ Answers(2, "STRLEN") = Ints
      /\ Answers(2, "MSETNX") = Ints /\ Answers(2, "INCR") = Ints
      /\ Answers(2, "INCRBY") = Ints /\ Answers(2, "DECR") = Ints
  BY DEF To, Answers, Simple, Counts, Compound, Resp2
<1>3. \A w \in {setnx, setrange, append, strlen, msetnx, incr, incrby, decr} : Faithful(w)
  BY <1>1, <1>2, ChainsTell, Zenon
  DEF setnx, setrange, append, strlen, msetnx, incr, incrby, decr
<1>4. /\ Answers(2, "DECRBY") = Ints /\ Answers(2, "GETBIT") = Ints
      /\ Answers(2, "SETBIT") = Ints /\ Answers(2, "BITCOUNT") = Ints
      /\ Answers(2, "BITOP") = Ints /\ Answers(2, "BITPOS") = Ints
      /\ Answers(2, "PFADD") = Ints /\ Answers(2, "PFCOUNT") = Ints
  BY DEF To, Answers, Simple, Counts, Compound, Resp2
<1>5. \A w \in {decrby, getbit, setbit, bitcount, bitop, bitpos, pfadd, pfcount} : Faithful(w)
  BY <1>1, <1>4, ChainsTell, Zenon
  DEF decrby, getbit, setbit, bitcount, bitop, bitpos, pfadd, pfcount
<1>6. /\ Answers(2, "HSET") = Ints /\ Answers(2, "HSETNX") = Ints
      /\ Answers(2, "HDEL") = Ints /\ Answers(2, "HEXISTS") = Ints
      /\ Answers(2, "HLEN") = Ints /\ Answers(2, "HSTRLEN") = Ints
      /\ Answers(2, "HINCRBY") = Ints /\ Answers(2, "LPUSH") = Ints
  BY DEF To, Answers, Simple, Counts, Compound, Resp2
<1>7. \A w \in {hset, hsetnx, hdel, hexists, hlen, hstrlen, hincrby, lpush} : Faithful(w)
  BY <1>1, <1>6, ChainsTell, Zenon
  DEF hset, hsetnx, hdel, hexists, hlen, hstrlen, hincrby, lpush
<1>8. /\ Answers(2, "LPUSHX") = Ints /\ Answers(2, "RPUSH") = Ints
      /\ Answers(2, "RPUSHX") = Ints /\ Answers(2, "LLEN") = Ints
      /\ Answers(2, "LINSERT") = Ints /\ Answers(2, "LREM") = Ints
      /\ Answers(2, "SADD") = Ints /\ Answers(2, "SREM") = Ints
  BY DEF To, Answers, Simple, Counts, Compound, Resp2
<1>9. \A w \in {lpushx, rpush, rpushx, llen, linsert, lrem, sadd, srem} : Faithful(w)
  BY <1>1, <1>8, ChainsTell, Zenon
  DEF lpushx, rpush, rpushx, llen, linsert, lrem, sadd, srem
<1>10. /\ Answers(2, "SCARD") = Ints /\ Answers(2, "SISMEMBER") = Ints
       /\ Answers(2, "SMOVE") = Ints /\ Answers(2, "SDIFFSTORE") = Ints
       /\ Answers(2, "SINTERSTORE") = Ints /\ Answers(2, "SUNIONSTORE") = Ints
       /\ Answers(2, "SINTERCARD") = Ints
  BY DEF To, Answers, Simple, Counts, Compound, Resp2
<1>11. \A w \in {scard, sismember, smove, sdiffstore, sinterstore, sunionstore,
                 sintercard} : Faithful(w)
  BY <1>1, <1>10, ChainsTell, Zenon
  DEF scard, sismember, smove, sdiffstore, sinterstore, sunionstore, sintercard
<1> QED BY <1>3, <1>5, <1>7, <1>9, <1>11

LEMMA MoreNumbersAreUnderstood ==
  \A w \in {zadd, zcard, zcount, zlexcount, zrangestore, zrem, zremrangebylex,
           zremrangebyrank, zremrangebyscore, zdiffstore, zinterstore, zunionstore,
           zintercard, geoadd, geosearchstore, xlen, xdel, xtrim, xack, del, unlink,
           touch, exists, expire, expireat, pexpire, pexpireat, expiretime, persist, ttl,
           pttl, renamenx, copy, clientid, clientkill, publish, dbsize, lastsave,
           slowloglen, zrank, zrevrank, objectfreq, objectidletime, memoryusage} :
    Faithful(w)
<1>1. \A c, f : Answers(2, c) = Ints /\ Tells(f, Numbers) =>
       Faithful(Call(c, f)) /\ \A x : Faithful(OnEmpty(x, Call(c, f)))
  BY CallCopes, CatalogueAmong, Zenon
<1>2. /\ Answers(2, "ZADD") = Ints /\ Answers(2, "ZCARD") = Ints
      /\ Answers(2, "ZCOUNT") = Ints /\ Answers(2, "ZLEXCOUNT") = Ints
      /\ Answers(2, "ZRANGESTORE") = Ints /\ Answers(2, "ZREM") = Ints
      /\ Answers(2, "ZREMRANGEBYLEX") = Ints /\ Answers(2, "ZREMRANGEBYRANK") = Ints
  BY DEF To, Answers, Simple, Counts, Compound, Resp2
<1>3. \A w \in {zadd, zcard, zcount, zlexcount, zrangestore, zrem, zremrangebylex,
                zremrangebyrank} : Faithful(w)
  BY <1>1, <1>2, ChainsTell, Zenon
  DEF zadd, zcard, zcount, zlexcount, zrangestore, zrem, zremrangebylex, zremrangebyrank
<1>4. /\ Answers(2, "ZREMRANGEBYSCORE") = Ints /\ Answers(2, "ZDIFFSTORE") = Ints
      /\ Answers(2, "ZINTERSTORE") = Ints /\ Answers(2, "ZUNIONSTORE") = Ints
      /\ Answers(2, "ZINTERCARD") = Ints /\ Answers(2, "GEOADD") = Ints
      /\ Answers(2, "GEOSEARCHSTORE") = Ints /\ Answers(2, "XLEN") = Ints
  BY DEF To, Answers, Simple, Counts, Compound, Resp2
<1>5. \A w \in {zremrangebyscore, zdiffstore, zinterstore, zunionstore, zintercard,
                geoadd, geosearchstore, xlen} : Faithful(w)
  BY <1>1, <1>4, ChainsTell, Zenon
  DEF zremrangebyscore, zdiffstore, zinterstore, zunionstore, zintercard, geoadd,
      geosearchstore, xlen
<1>6. /\ Answers(2, "XDEL") = Ints /\ Answers(2, "XTRIM") = Ints
      /\ Answers(2, "XACK") = Ints /\ Answers(2, "DEL") = Ints
      /\ Answers(2, "UNLINK") = Ints /\ Answers(2, "TOUCH") = Ints
      /\ Answers(2, "EXISTS") = Ints /\ Answers(2, "EXPIRE") = Ints
  BY DEF To, Answers, Simple, Counts, Compound, Resp2
<1>7. \A w \in {xdel, xtrim, xack, del, unlink, touch, exists, expire} : Faithful(w)
  BY <1>1, <1>6, ChainsTell, Zenon
  DEF xdel, xtrim, xack, del, unlink, touch, exists, expire
<1>8. /\ Answers(2, "EXPIREAT") = Ints /\ Answers(2, "PEXPIRE") = Ints
      /\ Answers(2, "PEXPIREAT") = Ints /\ Answers(2, "EXPIRETIME") = Ints
      /\ Answers(2, "PERSIST") = Ints /\ Answers(2, "TTL") = Ints
      /\ Answers(2, "PTTL") = Ints /\ Answers(2, "RENAMENX") = Ints
  BY DEF To, Answers, Simple, Counts, Compound, Resp2
<1>9. \A w \in {expireat, pexpire, pexpireat, expiretime, persist, ttl, pttl, renamenx} :
        Faithful(w)
  BY <1>1, <1>8, ChainsTell, Zenon
  DEF expireat, pexpire, pexpireat, expiretime, persist, ttl, pttl, renamenx
<1>10. /\ Answers(2, "COPY") = Ints /\ Answers(2, "CLIENT ID") = Ints
       /\ Answers(2, "CLIENT KILL") = Ints /\ Answers(2, "PUBLISH") = Ints
       /\ Answers(2, "DBSIZE") = Ints /\ Answers(2, "LASTSAVE") = Ints
       /\ Answers(2, "SLOWLOG LEN") = Ints
  BY DEF To, Answers, Simple, Counts, Compound, Resp2
<1>11. \A w \in {copy, clientid, clientkill, publish, dbsize, lastsave, slowloglen} : Faithful(w)
  BY <1>1, <1>10, ChainsTell, Zenon
  DEF copy, clientid, clientkill, publish, dbsize, lastsave, slowloglen
<1>12. \A c, f : Answers(2, c) = {Nil} \cup Ints /\ Tells(f, Numbers \cup {"nil"}) =>
       Faithful(Call(c, f)) /\ \A x : Faithful(OnEmpty(x, Call(c, f)))
  BY CallCopes, CatalogueAmong, Zenon
<1>13. /\ Answers(2, "ZRANK") = {Nil} \cup Ints
       /\ Answers(2, "ZREVRANK") = {Nil} \cup Ints
       /\ Answers(2, "OBJECT FREQ") = {Nil} \cup Ints
       /\ Answers(2, "OBJECT IDLETIME") = {Nil} \cup Ints
       /\ Answers(2, "MEMORY USAGE") = {Nil} \cup Ints
  BY DEF To, Answers, Simple, Counts, Compound, Resp2
<1>14. \A w \in {zrank, zrevrank, objectfreq, objectidletime, memoryusage} : Faithful(w)
  BY <1>12, <1>13, ChainsTell, Zenon
  DEF zrank, zrevrank, objectfreq, objectidletime, memoryusage
<1> QED BY <1>3, <1>5, <1>7, <1>9, <1>11, <1>14

\* ... statuses,
LEMMA StatusesAreUnderstood ==
  \A w \in {psetex, mset, pfmerge, hmset, lset, ltrim, xgroup_create, rename,
           scriptflush, scriptkill, auth, select, quit, clientsetname, clientpause,
           clientunpause, multi, discard, watch, unwatch, flushall, configset,
           configrewrite, configresetstat, slowlogreset, set, setex, type, bgsave,
           bgrewriteaof, reset} :
    Faithful(w)
<1>1. \A c, f : Answers(2, c) = {Ok} /\ Tells(f, {"ok"}) =>
       Faithful(Call(c, f)) /\ \A x : Faithful(OnEmpty(x, Call(c, f)))
  BY CallCopes, CatalogueAmong, Zenon
<1>2. /\ Answers(2, "PSETEX") = {Ok} /\ Answers(2, "MSET") = {Ok}
      /\ Answers(2, "PFMERGE") = {Ok} /\ Answers(2, "HMSET") = {Ok}
      /\ Answers(2, "LSET") = {Ok} /\ Answers(2, "LTRIM") = {Ok}
      /\ Answers(2, "XGROUP") = {Ok}
  BY DEF To, Answers, Simple, Counts, Compound, Resp2
<1>3. \A w \in {psetex, mset, pfmerge, hmset, lset, ltrim, xgroup_create} : Faithful(w)
  BY <1>1, <1>2, ChainsTell, Zenon
  DEF psetex, mset, pfmerge, hmset, lset, ltrim, xgroup_create
<1>4. /\ Answers(2, "RENAME") = {Ok} /\ Answers(2, "SCRIPT FLUSH") = {Ok}
      /\ Answers(2, "SCRIPT KILL") = {Ok} /\ Answers(2, "AUTH") = {Ok}
      /\ Answers(2, "SELECT") = {Ok} /\ Answers(2, "QUIT") = {Ok}
      /\ Answers(2, "CLIENT SETNAME") = {Ok}
  BY DEF To, Answers, Simple, Counts, Compound, Resp2
<1>5. \A w \in {rename, scriptflush, scriptkill, auth, select, quit, clientsetname} : Faithful(w)
  BY <1>1, <1>4, ChainsTell, Zenon
  DEF rename, scriptflush, scriptkill, auth, select, quit, clientsetname
<1>6. /\ Answers(2, "CLIENT PAUSE") = {Ok} /\ Answers(2, "CLIENT UNPAUSE") = {Ok}
      /\ Answers(2, "MULTI") = {Ok} /\ Answers(2, "DISCARD") = {Ok}
      /\ Answers(2, "WATCH") = {Ok} /\ Answers(2, "UNWATCH") = {Ok}
      /\ Answers(2, "FLUSHALL") = {Ok}
  BY DEF To, Answers, Simple, Counts, Compound, Resp2
<1>7. \A w \in {clientpause, clientunpause, multi, discard, watch, unwatch, flushall} : Faithful(w)
  BY <1>1, <1>6, ChainsTell, Zenon
  DEF clientpause, clientunpause, multi, discard, watch, unwatch, flushall
<1>8. /\ Answers(2, "CONFIG SET") = {Ok} /\ Answers(2, "CONFIG REWRITE") = {Ok}
      /\ Answers(2, "CONFIG RESETSTAT") = {Ok} /\ Answers(2, "SLOWLOG RESET") = {Ok}
  BY DEF To, Answers, Simple, Counts, Compound, Resp2
<1>9. \A w \in {configset, configrewrite, configresetstat, slowlogreset} : Faithful(w)
  BY <1>1, <1>8, ChainsTell, Zenon
  DEF configset, configrewrite, configresetstat, slowlogreset
<1>10. \A c, f : Answers(2, c) = {Ok} \cup {Nil} /\ Tells(f, {"ok", "nil"}) =>
       Faithful(Call(c, f)) /\ \A x : Faithful(OnEmpty(x, Call(c, f)))
  BY CallCopes, CatalogueAmong, Zenon
<1>11. /\ Answers(2, "SET") = {Ok} \cup {Nil}
  BY DEF To, Answers, Simple, Counts, Compound, Resp2
<1>12. /\ Faithful(set) /\ Faithful(setex)
  BY <1>10, <1>11, ChainsTell, Zenon
  DEF set, setex
<1>13. \A c, f : Answers(2, c) = {Plain("status")} /\ Tells(f, {"status"}) =>
       Faithful(Call(c, f)) /\ \A x : Faithful(OnEmpty(x, Call(c, f)))
  BY CallCopes, CatalogueAmong, Zenon
<1>14. /\ Answers(2, "TYPE") = {Plain("status")}
       /\ Answers(2, "BGSAVE") = {Plain("status")}
       /\ Answers(2, "BGREWRITEAOF") = {Plain("status")}
  BY DEF To, Answers, Simple, Counts, Compound, Resp2
<1>15. \A w \in {type, bgsave, bgrewriteaof} : Faithful(w)
  BY <1>13, <1>14, ChainsTell, Zenon
  DEF type, bgsave, bgrewriteaof
<1>16. \A c, f : Answers(2, c) = {Plain("reset")} /\ Tells(f, {"reset"}) =>
       Faithful(Call(c, f)) /\ \A x : Faithful(OnEmpty(x, Call(c, f)))
  BY CallCopes, CatalogueAmong, Zenon
<1>17. /\ Answers(2, "RESET") = {Plain("reset")}
  BY DEF To, Answers, Simple, Counts, Compound, Resp2
<1>18. /\ Faithful(reset)
  BY <1>16, <1>17, ChainsTell, Zenon
  DEF reset
<1> QED BY <1>3, <1>5, <1>7, <1>9, <1>12, <1>15, <1>18

\* ... texts,
LEMMA TextsAreUnderstood ==
  \A w \in {get, getdel, getex, getset, hget, lindex, lmove, rpoplpush, blmove,
           brpoplpush, zscore, geodist, randomkey, objectencoding, clientgetname,
           getrange, incrbyfloat, hincrbyfloat, zincrby, xadd, scriptload, ping, echo,
           clientinfo, clientlist, info} :
    Faithful(w)
<1>1. \A c, f : Answers(2, c) = {Nil} \cup {Text1} /\ Tells(f, {"nil", "string"}) =>
       Faithful(Call(c, f)) /\ \A x : Faithful(OnEmpty(x, Call(c, f)))
  BY CallCopes, CatalogueAmong, Zenon
<1>2. /\ Answers(2, "GET") = {Nil} \cup {Text1}
      /\ Answers(2, "GETDEL") = {Nil} \cup {Text1}
      /\ Answers(2, "GETEX") = {Nil} \cup {Text1}
      /\ Answers(2, "GETSET") = {Nil} \cup {Text1}
      /\ Answers(2, "HGET") = {Nil} \cup {Text1}
      /\ Answers(2, "LINDEX") = {Nil} \cup {Text1}
      /\ Answers(2, "LMOVE") = {Nil} \cup {Text1}
      /\ Answers(2, "RPOPLPUSH") = {Nil} \cup {Text1}
  BY DEF To, Answers, Simple, Counts, Compound, Resp2
<1>3. \A w \in {get, getdel, getex, getset, hget, lindex, lmove, rpoplpush} : Faithful(w)
  BY <1>1, <1>2, ChainsTell, Zenon
  DEF get, getdel, getex, getset, hget, lindex, lmove, rpoplpush
<1>4. /\ Answers(2, "BLMOVE") = {Nil} \cup {Text1}
      /\ Answers(2, "BRPOPLPUSH") = {Nil} \cup {Text1}
      /\ Answers(2, "ZSCORE") = {Nil} \cup {Text1}
      /\ Answers(2, "GEODIST") = {Nil} \cup {Text1}
      /\ Answers(2, "RANDOMKEY") = {Nil} \cup {Text1}
      /\ Answers(2, "OBJECT ENCODING") = {Nil} \cup {Text1}
      /\ Answers(2, "CLIENT GETNAME") = {Nil} \cup {Text1}
  BY DEF To, Answers, Simple, Counts, Compound, Resp2
<1>5. \A w \in {blmove, brpoplpush, zscore, geodist, randomkey, objectencoding,
                clientgetname} : Faithful(w)
  BY <1>1, <1>4, ChainsTell, Zenon
  DEF blmove, brpoplpush, zscore, geodist, randomkey, objectencoding, clientgetname
<1>6. \A c, f : Answers(2, c) = {Text1} /\ Tells(f, {"string"}) =>
       Faithful(Call(c, f)) /\ \A x : Faithful(OnEmpty(x, Call(c, f)))
  BY CallCopes, CatalogueAmong, Zenon
<1>7. /\ Answers(2, "GETRANGE") = {Text1} /\ Answers(2, "INCRBYFLOAT") = {Text1}
      /\ Answers(2, "HINCRBYFLOAT") = {Text1} /\ Answers(2, "ZINCRBY") = {Text1}
      /\ Answers(2, "XADD") = {Text1} /\ Answers(2, "SCRIPT LOAD") = {Text1}
  BY DEF To, Answers, Simple, Counts, Compound, Resp2
<1>8. \A w \in {getrange, incrbyfloat, hincrbyfloat, zincrby, xadd, scriptload} : Faithful(w)
  BY <1>6, <1>7, ChainsTell, Zenon
  DEF getrange, incrbyfloat, hincrbyfloat, zincrby, xadd, scriptload
<1>9. /\ Answers(2, "PING") = {Text1} /\ Answers(2, "ECHO") = {Text1}
      /\ Answers(2, "CLIENT INFO") = {Text1} /\ Answers(2, "CLIENT LIST") = {Text1}
      /\ Answers(2, "INFO") = {Text1}
  BY DEF To, Answers, Simple, Counts, Compound, Resp2
<1>10. \A w \in {ping, echo, clientinfo, clientlist, info} : Faithful(w)
  BY <1>6, <1>9, ChainsTell, Zenon
  DEF ping, echo, clientinfo, clientlist, info
<1> QED BY <1>3, <1>5, <1>8, <1>10

\* ... lists of any length
LEMMA ListsAreUnderstood ==
  \A w \in {hkeys, hvals, lrange, smembers, sdiff, sinter, sunion, zrange, zrevrange,
           zrangebylex, zrevrangebylex, zrangebyscore, zrevrangebyscore, zpopmin,
           zpopmax, zdiff, zinter, zunion, geosearch, keys, hrandfield, lpop, rpop, spop,
           srandmember, zrandmember, mget, hmget, zmscore, geohash, smismember,
           scriptexists, geopos, hgetall, configget, xread, xreadgroup} :
    Understood(2, w)
<1>1. \A c, f, items :
       Answers(2, c) = Lists({"string"})
         /\ Tells(f, {"array"}) /\ Places(items, {"string"}) =>
       /\ Understood(2, ListCall(c, f, items))
       /\ \A x : Understood(2, OnEmpty(x, ListCall(c, f, items)))
  BY ListCallCopes, ListsAmong, ChainsTell, Zenon
<1>2. /\ Answers(2, "HKEYS") = Lists({"string"})
      /\ Answers(2, "HVALS") = Lists({"string"})
      /\ Answers(2, "LRANGE") = Lists({"string"})
      /\ Answers(2, "SMEMBERS") = Lists({"string"})
      /\ Answers(2, "SDIFF") = Lists({"string"})
      /\ Answers(2, "SINTER") = Lists({"string"})
      /\ Answers(2, "SUNION") = Lists({"string"})
  BY DEF To, Answers, Simple, Counts, Compound, Resp2
<1>3. \A w \in {hkeys, hvals, lrange, smembers, sdiff, sinter, sunion} : Understood(2, w)
  BY <1>1, <1>2, ChainsTell, ElementsAreKept, Zenon
  DEF hkeys, hvals, lrange, smembers, sdiff, sinter, sunion
<1>4. /\ Answers(2, "ZRANGE") = Lists({"string"})
      /\ Answers(2, "ZREVRANGE") = Lists({"string"})
      /\ Answers(2, "ZRANGEBYLEX") = Lists({"string"})
      /\ Answers(2, "ZREVRANGEBYLEX") = Lists({"string"})
      /\ Answers(2, "ZRANGEBYSCORE") = Lists({"string"})
      /\ Answers(2, "ZREVRANGEBYSCORE") = Lists({"string"})
      /\ Answers(2, "ZPOPMIN") = Lists({"string"})
  BY DEF To, Answers, Simple, Counts, Compound, Resp2
<1>5. \A w \in {zrange, zrevrange, zrangebylex, zrevrangebylex, zrangebyscore,
                zrevrangebyscore, zpopmin} : Understood(2, w)
  BY <1>1, <1>4, ChainsTell, ElementsAreKept, Zenon
  DEF zrange, zrevrange, zrangebylex, zrevrangebylex, zrangebyscore, zrevrangebyscore,
      zpopmin
<1>6. /\ Answers(2, "ZPOPMAX") = Lists({"string"})
      /\ Answers(2, "ZDIFF") = Lists({"string"})
      /\ Answers(2, "ZINTER") = Lists({"string"})
      /\ Answers(2, "ZUNION") = Lists({"string"})
      /\ Answers(2, "GEOSEARCH") = Lists({"string"})
      /\ Answers(2, "KEYS") = Lists({"string"})
  BY DEF To, Answers, Simple, Counts, Compound, Resp2
<1>7. \A w \in {zpopmax, zdiff, zinter, zunion, geosearch, keys} : Understood(2, w)
  BY <1>1, <1>6, ChainsTell, ElementsAreKept, Zenon
  DEF zpopmax, zdiff, zinter, zunion, geosearch, keys
<1>8. \A c, f, items :
       Answers(2, c) = {Nil} \cup {Text1} \cup Lists({"string"}) /\ Tells(f, {"nil", "string"})
         /\ Tells(f, {"array"}) /\ Places(items, {"string"}) =>
       /\ Understood(2, ListCall(c, f, items))
       /\ \A x : Understood(2, OnEmpty(x, ListCall(c, f, items)))
  BY ListCallCopes, ListsAmong, ChainsTell, Zenon
<1>9. /\ Answers(2, "HRANDFIELD") = {Nil} \cup {Text1} \cup Lists({"string"})
      /\ Answers(2, "LPOP") = {Nil} \cup {Text1} \cup Lists({"string"})
      /\ Answers(2, "RPOP") = {Nil} \cup {Text1} \cup Lists({"string"})
      /\ Answers(2, "SPOP") = {Nil} \cup {Text1} \cup Lists({"string"})
      /\ Answers(2, "SRANDMEMBER") = {Nil} \cup {Text1} \cup Lists({"string"})
      /\ Answers(2, "ZRANDMEMBER") = {Nil} \cup {Text1} \cup Lists({"string"})
  BY DEF To, Answers, Simple, Counts, Compound, Resp2
<1>10. \A w \in {hrandfield, lpop, rpop, spop, srandmember, zrandmember} : Understood(2, w)
  BY <1>8, <1>9, ChainsTell, ElementsAreKept, Zenon
  DEF hrandfield, lpop, rpop, spop, srandmember, zrandmember
<1>11. \A c, f, items :
       Answers(2, c) = Lists({"string", "nil"})
         /\ Tells(f, {"array"}) /\ Places(items, {"string", "nil"}) =>
       /\ Understood(2, ListCall(c, f, items))
       /\ \A x : Understood(2, OnEmpty(x, ListCall(c, f, items)))
  BY ListCallCopes, ListsAmong, ChainsTell, Zenon
<1>12. /\ Answers(2, "MGET") = Lists({"string", "nil"})
       /\ Answers(2, "HMGET") = Lists({"string", "nil"})
       /\ Answers(2, "ZMSCORE") = Lists({"string", "nil"})
       /\ Answers(2, "GEOHASH") = Lists({"string", "nil"})
  BY DEF To, Answers, Simple, Counts, Compound, Resp2
<1>13. \A w \in {mget, hmget, zmscore, geohash} : Understood(2, w)
  BY <1>11, <1>12, ChainsTell, ElementsAreKept, Zenon
  DEF mget, hmget, zmscore, geohash
<1>14. \A c, f, items :
       Answers(2, c) = Lists(Numbers)
         /\ Tells(f, {"array"}) /\ Places(items, Numbers) =>
       /\ Understood(2, ListCall(c, f, items))
       /\ \A x : Understood(2, OnEmpty(x, ListCall(c, f, items)))
  BY ListCallCopes, ListsAmong, ChainsTell, Zenon DEF Numbers
<1>15. /\ Answers(2, "SMISMEMBER") = Lists(Numbers)
       /\ Answers(2, "SCRIPT EXISTS") = Lists(Numbers)
  BY DEF To, Answers, Simple, Counts, Compound, Resp2
<1>16. /\ Understood(2, smismember) /\ Understood(2, scriptexists)
  BY <1>14, <1>15, ChainsTell, ElementsAreKept, Zenon
  DEF smismember, scriptexists
<1>17. \A c, f, items :
       Answers(2, c) = Lists({"array", "nil"})
         /\ Tells(f, {"array"}) /\ Places(items, {"array", "nil"}) =>
       /\ Understood(2, ListCall(c, f, items))
       /\ \A x : Understood(2, OnEmpty(x, ListCall(c, f, items)))
  BY ListCallCopes, ListsAmong, ChainsTell, Zenon
<1>18. /\ Answers(2, "GEOPOS") = Lists({"array", "nil"})
  BY DEF To, Answers, Simple, Counts, Compound, Resp2
<1>19. /\ Understood(2, geopos)
  BY <1>17, <1>18, ChainsTell, ElementsAreKept, Zenon
  DEF geopos
<1>20. \A c, f, items :
       Answers(2, c) = Pairs("array", <<"string", "string">>)
         /\ Tells(f, {"array"}) /\ Places(items, {"string"}) =>
       /\ Understood(2, ListCall(c, f, items))
       /\ \A x : Understood(2, OnEmpty(x, ListCall(c, f, items)))
  BY ListCallCopes, TuplesAmong, ChainsTell, Zenon
<1>21. /\ Answers(2, "HGETALL") = Pairs("array", <<"string", "string">>)
       /\ Answers(2, "CONFIG GET") = Pairs("array", <<"string", "string">>)
  BY DEF To, Answers, Simple, Counts, Compound, Resp2
<1>22. /\ Understood(2, hgetall) /\ Understood(2, configget)
  BY <1>20, <1>21, ChainsTell, ElementsAreKept, Zenon
  DEF hgetall, configget
<1>23. \A c, f, items :
       Answers(2, c) = {Nil} \cup {Many("array", <<"array">>)} /\ Tells(f, {"nil"})
         /\ Tells(f, {"array"}) /\ Places(items, {"array"}) =>
       /\ Understood(2, ListCall(c, f, items))
       /\ \A x : Understood(2, OnEmpty(x, ListCall(c, f, items)))
  BY ListCallCopes, TuplesAmong, ChainsTell, Zenon
<1>24. /\ Answers(2, "XREAD") = {Nil} \cup {Many("array", <<"array">>)}
       /\ Answers(2, "XREADGROUP") = {Nil} \cup {Many("array", <<"array">>)}
  BY DEF To, Answers, Simple, Counts, Compound, Resp2
<1>25. /\ Understood(2, xread) /\ Understood(2, xreadgroup)
  BY <1>23, <1>24, ChainsTell, ElementsAreKept, Zenon
  DEF xread, xreadgroup
<1> QED BY <1>3, <1>5, <1>7, <1>10, <1>13, <1>16, <1>19, <1>22, <1>25

\* ... and of a fixed one.
LEMMA TuplesAreUnderstood ==
  \A w \in {lmpop, blmpop, blpop, brpop, bzpopmin, bzpopmax, hscan, sscan, zscan, scan,
           time, subscribe} :
    Faithful(w)
<1>1. \A c : Answers(2, c) = {Nil} \cup {Many("array", <<"string", "array">>)} =>
       Faithful(Popped(c, {"string", "array"}))
  BY AtLeastCopes, TuplesAmong, ChainsTell, SomeKinds, Zenon DEF Popped
<1>2. /\ Answers(2, "LMPOP") = {Nil} \cup {Many("array", <<"string", "array">>)}
      /\ Answers(2, "BLMPOP") = {Nil} \cup {Many("array", <<"string", "array">>)}
  BY DEF To, Answers, Simple, Counts, Compound, Resp2
<1>3. /\ Faithful(lmpop) /\ Faithful(blmpop)
  BY <1>1, <1>2, Zenon
  DEF lmpop, blmpop, Popped
<1>4. \A c : Answers(2, c) = {Nil} \cup {Many("array", <<"string", "string">>)} =>
       Faithful(Popped(c, {"string"}))
  BY AtLeastCopes, TuplesAmong, ChainsTell, SomeKinds, Zenon DEF Popped
<1>5. /\ Answers(2, "BLPOP") = {Nil} \cup {Many("array", <<"string", "string">>)}
      /\ Answers(2, "BRPOP") = {Nil} \cup {Many("array", <<"string", "string">>)}
  BY DEF To, Answers, Simple, Counts, Compound, Resp2
<1>6. /\ Faithful(blpop) /\ Faithful(brpop)
  BY <1>4, <1>5, Zenon
  DEF blpop, brpop, Popped
<1>7. \A c : Answers(2, c) = {Nil} \cup {Many("array", <<"string", "string", "string">>)} =>
       Faithful(OnEmpty("none", AtLeast(3, Call(c, OnNil("none", List)))))
  BY AtLeastCopes, TuplesAmong, ChainsTell, SomeKinds, Zenon
<1>8. /\ Answers(2, "BZPOPMIN") = {Nil} \cup {Many("array", <<"string", "string", "string">>)}
      /\ Answers(2, "BZPOPMAX") = {Nil} \cup {Many("array", <<"string", "string", "string">>)}
  BY DEF To, Answers, Simple, Counts, Compound, Resp2
<1>9. /\ Faithful(bzpopmin) /\ Faithful(bzpopmax)
  BY <1>7, <1>8, Zenon
  DEF bzpopmin, bzpopmax
<1>10. \A c : Answers(2, c) = {Many("array", <<"string", "array">>)} =>
       Faithful(AtLeast(2, Call(c, List)))
  BY AtLeastCopes, TuplesAmong, ChainsTell, SomeKinds, Zenon
<1>11. /\ Answers(2, "HSCAN") = {Many("array", <<"string", "array">>)}
       /\ Answers(2, "SSCAN") = {Many("array", <<"string", "array">>)}
       /\ Answers(2, "ZSCAN") = {Many("array", <<"string", "array">>)}
       /\ Answers(2, "SCAN") = {Many("array", <<"string", "array">>)}
  BY DEF To, Answers, Simple, Counts, Compound, Resp2
<1>12. \A w \in {hscan, sscan, zscan, scan} : Faithful(w)
  BY <1>10, <1>11, Zenon
  DEF hscan, sscan, zscan, scan
<1>13. \A c : Answers(2, c) = {Many("array", <<"string", "string">>)} =>
       Faithful(AtLeast(2, Call(c, List)))
  BY AtLeastCopes, TuplesAmong, ChainsTell, SomeKinds, Zenon
<1>14. /\ Answers(2, "TIME") = {Many("array", <<"string", "string">>)}
  BY DEF To, Answers, Simple, Counts, Compound, Resp2
<1>15. /\ Faithful(time)
  BY <1>13, <1>14, Zenon
  DEF time
<1>16. \A c : Answers(2, c) = {Many("array", <<"string", "string", "integer">>)} =>
       Faithful(AtLeast(3, Call(c, ReadsElseNull({"array"}))))
  BY AtLeastCopes, TuplesAmong, ChainsTell, SomeKinds, Zenon
<1>17. /\ Answers(2, "SUBSCRIBE") = {Many("array", <<"string", "string", "integer">>)}
  BY DEF To, Answers, Simple, Counts, Compound, Resp2
<1>18. /\ Faithful(subscribe)
  BY <1>16, <1>17, Zenon
  DEF subscribe
<1> QED BY <1>3, <1>6, <1>9, <1>12, <1>15, <1>18

\* The lists that RESP3 answers as RESP2 did.
LEMMA ListsAreUnderstoodInResp3 ==
  \A w \in {hvals, lrange, zrangebylex, zrevrangebylex, geosearch, lpop, rpop,
           srandmember, mget, hmget, geohash, smismember, scriptexists} :
    Understood(3, w)
<1>1. \A c, f, items :
       Answers(3, c) = Lists({"string"})
         /\ Tells(f, {"array"}) /\ Places(items, {"string"}) =>
       /\ Understood(3, ListCall(c, f, items))
       /\ \A x : Understood(3, OnEmpty(x, ListCall(c, f, items)))
  BY ListCallCopes, ListsAmong, ChainsTell, Zenon
<1>2. /\ Answers(3, "HVALS") = Lists({"string"})
      /\ Answers(3, "LRANGE") = Lists({"string"})
      /\ Answers(3, "ZRANGEBYLEX") = Lists({"string"})
      /\ Answers(3, "ZREVRANGEBYLEX") = Lists({"string"})
      /\ Answers(3, "GEOSEARCH") = Lists({"string"})
  BY DEF To, Answers, Simple, Counts, Compound, Resp3, Superseded
<1>3. \A w \in {hvals, lrange, zrangebylex, zrevrangebylex, geosearch} : Understood(3, w)
  BY <1>1, <1>2, ChainsTell, ElementsAreKept, Zenon
  DEF hvals, lrange, zrangebylex, zrevrangebylex, geosearch
<1>4. \A c, f, items :
       Answers(3, c) = {Nil} \cup {Text1} \cup Lists({"string"}) /\ Tells(f, {"nil", "string"})
         /\ Tells(f, {"array"}) /\ Places(items, {"string"}) =>
       /\ Understood(3, ListCall(c, f, items))
       /\ \A x : Understood(3, OnEmpty(x, ListCall(c, f, items)))
  BY ListCallCopes, ListsAmong, ChainsTell, Zenon
<1>5. /\ Answers(3, "LPOP") = {Nil} \cup {Text1} \cup Lists({"string"})
      /\ Answers(3, "RPOP") = {Nil} \cup {Text1} \cup Lists({"string"})
      /\ Answers(3, "SRANDMEMBER") = {Nil} \cup {Text1} \cup Lists({"string"})
  BY DEF To, Answers, Simple, Counts, Compound, Resp3, Superseded
<1>6. \A w \in {lpop, rpop, srandmember} : Understood(3, w)
  BY <1>4, <1>5, ChainsTell, ElementsAreKept, Zenon
  DEF lpop, rpop, srandmember
<1>7. \A c, f, items :
       Answers(3, c) = Lists({"string", "nil"})
         /\ Tells(f, {"array"}) /\ Places(items, {"string", "nil"}) =>
       /\ Understood(3, ListCall(c, f, items))
       /\ \A x : Understood(3, OnEmpty(x, ListCall(c, f, items)))
  BY ListCallCopes, ListsAmong, ChainsTell, Zenon
<1>8. /\ Answers(3, "MGET") = Lists({"string", "nil"})
      /\ Answers(3, "HMGET") = Lists({"string", "nil"})
      /\ Answers(3, "GEOHASH") = Lists({"string", "nil"})
  BY DEF To, Answers, Simple, Counts, Compound, Resp3, Superseded
<1>9. \A w \in {mget, hmget, geohash} : Understood(3, w)
  BY <1>7, <1>8, ChainsTell, ElementsAreKept, Zenon
  DEF mget, hmget, geohash
<1>10. \A c, f, items :
       Answers(3, c) = Lists(Numbers)
         /\ Tells(f, {"array"}) /\ Places(items, Numbers) =>
       /\ Understood(3, ListCall(c, f, items))
       /\ \A x : Understood(3, OnEmpty(x, ListCall(c, f, items)))
  BY ListCallCopes, ListsAmong, ChainsTell, Zenon DEF Numbers
<1>11. /\ Answers(3, "SMISMEMBER") = Lists(Numbers)
       /\ Answers(3, "SCRIPT EXISTS") = Lists(Numbers)
  BY DEF To, Answers, Simple, Counts, Compound, Resp3, Superseded
<1>12. /\ Understood(3, smismember) /\ Understood(3, scriptexists)
  BY <1>10, <1>11, ChainsTell, ElementsAreKept, Zenon
  DEF smismember, scriptexists
<1> QED BY <1>3, <1>6, <1>9, <1>12

\* In RESP3 a value that wrapper w returns is all of the reply.
Retained(w) == \A r \in Answers(3, w.sends) : Result(w, r).is = "value" => Complete(w, r)

\* Aggregates that RESP3 adds are refused.
LEMMA RefusedIsRetained ==
  ASSUME NEW c, NEW f, NEW items, NEW kind \in {"set", "map"}, f[kind] # "value",
         \A r \in Answers(3, c) : r.items = <<>> \/ r.kind = kind
  PROVE  /\ Retained(ListCall(c, f, items))
         /\ \A x : Retained(OnEmpty(x, ListCall(c, f, items)))
<1> SUFFICES ASSUME NEW w, Reader(w, c, f, items, 0) PROVE Retained(w)
  BY Readers
<1> SUFFICES ASSUME NEW r \in Answers(3, c) PROVE Result(w, r).is = "value" => Complete(w, r)
  BY DEF Retained, Reader
<1>1. CASE r.items = <<>>
  BY <1>1, BareIsComplete
<1>2. CASE r.kind = kind
  <2>1. w.reads[r.kind] # "value" /\ r.kind # "array"
    BY <1>2 DEF Reader
  <2>2. Result(w, r).is # "value"
    BY <2>1 DEF Result, NullReply
  <2> QED BY <2>2
<1> QED BY <1>1, <1>2

LEMMA SetsAreRetained == \A w \in {spop, sdiff, sinter, sunion, xread, xreadgroup} : Retained(w)
<1>1. /\ List["set"] # "value" /\ Members["set"] # "value" /\ OnNil("value", List)["map"] # "value"
  BY DEF List, Members, OnNil, On, Reads, Kinds, Errors, UnexpectedType, Numbers
<1>2. \A kind, s : Many(kind, s).kind = kind
  BY DEF Many
<1>3. /\ Nil.items = <<>> /\ Text1.items = <<>>
  BY DEF Nil, Text1, Plain
<1>4. /\ Answers(3, "SDIFF") = {Many("set", s) : s \in UpTo({"string"})}
      /\ Answers(3, "SINTER") = {Many("set", s) : s \in UpTo({"string"})}
      /\ Answers(3, "SUNION") = {Many("set", s) : s \in UpTo({"string"})}
      /\ Answers(3, "SPOP") = {Nil} \cup {Text1} \cup {Many("set", s) : s \in UpTo({"string"})}
  BY DEF To, Answers, Simple, Counts, Compound, Resp3, Superseded
<1>5. /\ Answers(3, "XREAD") = {Nil} \cup {Many("map", <<"string", "array">>)}
      /\ Answers(3, "XREADGROUP") = {Nil} \cup {Many("map", <<"string", "array">>)}
  BY DEF To, Answers, Simple, Counts, Compound, Resp3, Superseded
<1>6. \A c \in {"SDIFF", "SINTER", "SUNION", "SPOP"} :
        \A r \in Answers(3, c) : r.items = <<>> \/ r.kind = "set"
  BY <1>2, <1>3, <1>4
<1>7. \A c \in {"XREAD", "XREADGROUP"} : \A r \in Answers(3, c) : r.items = <<>> \/ r.kind = "map"
  BY <1>2, <1>3, <1>5
<1>8. \A w \in {spop, sdiff, sinter, sunion} : Retained(w)
  BY <1>1, <1>6, RefusedIsRetained, Zenon DEF spop, sdiff, sinter, sunion
<1>9. Retained(xread) /\ Retained(xreadgroup)
  BY <1>1, <1>7, RefusedIsRetained, Zenon DEF xread, xreadgroup
<1> QED BY <1>8, <1>9

\* And what an aggregate other than an array holds is kept.
LEMMA PlacedIsRetained ==
  ASSUME NEW c, NEW f, NEW items, NEW kinds, Places(items, kinds),
         \A r \in Answers(3, c) : r.kind # "array" /\ r.items \in Seq(kinds)
  PROVE  Retained(ListCall(c, f, items))
<1> SUFFICES ASSUME NEW w, Reader(w, c, f, items, 0) PROVE Retained(w)
  BY Readers
<1>1. /\ w.sends = c /\ w.looksAt = "all" /\ w.atLeast \in Nat /\ Places(w.items, kinds)
  BY DEF Reader
<1>2. ASSUME NEW r \in Answers(3, c) PROVE Result(w, r).is = "value" => Complete(w, r)
  <2>1. r.kind # "array" /\ r.items \in Seq(kinds)
    BY <1>2
  <2> QED BY <1>1, <2>1, PlacedIsComplete
<1> QED BY <1>1, <1>2 DEF Retained

LEMMA PairsAreRetained == Retained(configget)
<1>1. Answers(3, "CONFIG GET") = Pairs("map", <<"string", "string">>)
  BY DEF To, Answers, Simple, Counts, Compound, Resp3, Superseded
<1>2. \A kinds, of : of \in Seq(kinds) =>
        \A r \in Pairs("map", of) : r.kind # "array" /\ r.items \in Seq(kinds)
  <2>1. \A kinds : <<>> \in Seq(kinds)
    OBVIOUS
  <2>2. \A of : /\ Many("map", of).kind = "map" /\ Many("map", of).items = of
    BY DEF Many
  <2> QED BY <2>1, <2>2 DEF Pairs
<1>3. <<"string", "string">> \in Seq({"string"})
  OBVIOUS
<1>4. \A r \in Answers(3, "CONFIG GET") : r.kind # "array" /\ r.items \in Seq({"string"})
  BY <1>1, <1>2, <1>3, Zenon
<1> QED BY <1>4, ElementsAreKept, PlacedIsRetained, Zenon DEF configget

\* The wrappers that insist on lists of texts.
LEMMA AllStringsKeep == \A w \in {hgetall, hkeys, zrange, smembers, keys} : Keeps(w)
<1>1. \A c, f : Keeps(ListCall(c, f, AllStrings))
  BY Readers, ReaderKeeps DEF AllStrings, Each
<1> QED BY <1>1, Zenon DEF hgetall, hkeys, zrange, smembers, keys

-----------------------------------------------------------------------------
(* All wrappers and all that they may be answered.                         *)

\* A reply of the catalogue: QUEUED is not among them.
Regular == [kind : Kinds \ {"queued"}, items : Seq(Kinds)]

LEMMA AnswersAreRegular == \A p, name : Answers(p, name) \subseteq Regular
<1>1. \A kinds : kinds \subseteq Kinds => UpTo(kinds) \subseteq Seq(Kinds)
  BY DEF UpTo
<1>2. /\ {"string"} \subseteq Kinds /\ {"array"} \subseteq Kinds
       /\ {"string", "nil"} \subseteq Kinds
      /\ {"array", "nil"} \subseteq Kinds /\ {"double", "nil"} \subseteq Kinds
      /\ {"doubles", "nil"} \subseteq Kinds /\ Numbers \subseteq Kinds
      /\ {"string", "ok", "integer", "nil", "error", "array"} \subseteq Kinds
  BY DEF Kinds, Statuses, Numbers, Errors
<1>3. \A kind \in Kinds \ {"queued"} : Plain(kind) \in Regular
  BY DEF Plain, Regular
<1>4. \A kind \in Kinds \ {"queued"}, s \in Seq(Kinds) : Many(kind, s) \in Regular
  BY DEF Many, Regular
<1>5. {"array", "map", "set", "ok", "nil", "string", "status", "reset", "double", "verb"}
        \cup Numbers \subseteq Kinds \ {"queued"}
  BY DEF Kinds, Statuses, Numbers
<1> DEFINE Fine(R) == R \subseteq Regular
<1>6. /\ Fine({Ok}) /\ Fine({Nil}) /\ Fine({Text1}) /\ Fine(Ints)
      /\ Fine({Plain("status")}) /\ Fine({Plain("reset")})
      /\ Fine({Plain("double")}) /\ Fine({Plain("verb")})
  BY <1>3, <1>5 DEF Ok, Nil, Text1, Ints
<1>7. ASSUME NEW kinds, kinds \subseteq Kinds
      PROVE  Fine(Lists(kinds)) /\ Fine({Many("set", s) : s \in UpTo(kinds)})
  BY <1>1, <1>4, <1>5, <1>7 DEF Lists
<1>8. ASSUME NEW s \in Seq(Kinds)
      PROVE  /\ Fine({Many("array", s)}) /\ Fine({Many("map", s)})
             /\ Fine(Pairs("array", s)) /\ Fine(Pairs("map", s))
  <2>1. <<>> \in Seq(Kinds)
    OBVIOUS
  <2> QED BY <1>4, <1>5, <2>1 DEF Pairs
<1>9. /\ <<"string", "string">> \in Seq(Kinds) /\ <<"string", "integer">> \in Seq(Kinds)
      /\ <<"array">> \in Seq(Kinds) /\ <<"string", "array">> \in Seq(Kinds)
      /\ <<"string", "string", "string">> \in Seq(Kinds)
      /\ <<"string", "string", "integer">> \in Seq(Kinds)
      /\ <<"string", "double">> \in Seq(Kinds) /\ <<"string", "string", "double">> \in Seq(Kinds)
  BY DEF Kinds, Numbers
<1>10. /\ \A name, commands, R : Fine(R) => Fine(To(name, commands, R))
       /\ \A R, S : Fine(R) /\ Fine(S) => Fine(R \cup S)
  BY DEF To
<1> HIDE DEF Fine
<1>11. \A name : Fine(Simple(name)) /\ Fine(Counts(name))
  <2>1. \A name : Fine(Simple(name))
    BY <1>6, <1>10, ZenonT(60) DEF Simple
  <2>2. \A name : Fine(Counts(name))
    BY <1>6, <1>10, ZenonT(60) DEF Counts
  <2> QED BY <2>1, <2>2
<1>12. \A name : Fine(Compound(name))
  BY <1>2, <1>7, <1>8, <1>9, <1>10, Zenon DEF Compound
<1>13. \A name : Fine(Resp2(name))
  BY <1>2, <1>7, <1>8, <1>9, <1>10, Zenon DEF Resp2
<1>14. \A name : Fine(Resp3(name))
  <2>1. Fine({Many("set", s) : s \in UpTo({"string"})})
    BY <1>2, <1>7
  <2> QED BY <1>2, <1>6, <1>7, <1>8, <1>9, <1>10, <2>1, ZenonT(60) DEF Resp3
<1> USE DEF Fine
<1> QED BY <1>11, <1>12, <1>13, <1>14 DEF Answers

\* Every wrapper understands all of RESP2, and loses nothing of RESP3 or is
\* among those that do.
Safe(w) == Understood(2, w) /\ (w \in LosesInResp3 \/ Retained(w))

LEMMA WrappersAreSafe == \A w \in Wrappers \ Partial : Safe(w)
<1>1. \A w : Faithful(w) => Safe(w)
  BY AnswersAreRegular DEF Faithful, Keeps, Retained, Safe, Regular
<1>2. \A w : Understood(2, w)
             /\ (Keeps(w) \/ Understood(3, w) \/ Retained(w) \/ w \in LosesInResp3) => Safe(w)
  BY AnswersAreRegular DEF Understood, Copes, Keeps, Retained, Safe, Regular
<1>3. \A w \in StringWrappers : w \in Partial \/ Safe(w)
  BY <1>1, <1>2, NumbersAreUnderstood, MoreNumbersAreUnderstood, StatusesAreUnderstood,
     TextsAreUnderstood, ListsAreUnderstood, ListsAreUnderstoodInResp3 DEF StringWrappers, Partial
<1>4. \A w \in CollectionWrappers : w \in Partial \/ Safe(w)
  BY <1>1, <1>2, NumbersAreUnderstood, MoreNumbersAreUnderstood, StatusesAreUnderstood,
     TextsAreUnderstood, ListsAreUnderstood, ListsAreUnderstoodInResp3,
     TuplesAreUnderstood, SetsAreRetained, AllStringsKeep DEF CollectionWrappers, Partial,
      LosesInResp3
<1>5. \A w \in SortedSetWrappers : w \in Partial \/ Safe(w)
  BY <1>1, <1>2, NumbersAreUnderstood, MoreNumbersAreUnderstood, StatusesAreUnderstood,
     TextsAreUnderstood, ListsAreUnderstood, ListsAreUnderstoodInResp3,
     TuplesAreUnderstood, SetsAreRetained, AllStringsKeep DEF SortedSetWrappers, Partial,
      LosesInResp3
<1>6. \A w \in ServerWrappers : w \in Partial \/ Safe(w)
  BY <1>1, <1>2, NumbersAreUnderstood, MoreNumbersAreUnderstood, StatusesAreUnderstood,
     TextsAreUnderstood, ListsAreUnderstood, ListsAreUnderstoodInResp3,
     TuplesAreUnderstood, PairsAreRetained, AllStringsKeep DEF ServerWrappers, Partial
<1> QED BY <1>3, <1>4, <1>5, <1>6 DEF Wrappers

-----------------------------------------------------------------------------
(* The invariant: a call in progress is one of the wrappers, and how the   *)
(* last one ended is as it should be.                                      *)

CInv ==
  /\ asked \in Wrappers \cup {NoCall} /\ proto \in {2, 3}
  /\ ErrorsAreReported /\ QueuedIsNoResult /\ AnswersUnderstood /\ NothingSilentlyLost

LEMMA NoReplyIs == NoReply.kind = "no reply" /\ "no reply" \notin Errors \cup {"queued"}
BY DEF NoReply, Plain, Errors

\* A call that ends without a reply has nothing to report.
LEMMA SilenceIs ==
  ASSUME got'.reply = NoReply
  PROVE  ErrorsAreReported' /\ QueuedIsNoResult' /\ AnswersUnderstood' /\ NothingSilentlyLost'
BY NoReplyIs DEF ErrorsAreReported, QueuedIsNoResult, AnswersUnderstood, NothingSilentlyLost

LEMMA CInvInit == Init => CInv
<1>1. Init => got.reply = NoReply
  BY DEF Init, NoAnswer
<1> QED BY <1>1, NoReplyIs
        DEF Init, CInv, ErrorsAreReported, QueuedIsNoResult, AnswersUnderstood, NothingSilentlyLost

\* A call that returns reports errors, QUEUED if its command was queued, and
\* otherwise what the reply says.
LEMMA ReturnIs ==
  ASSUME CInv, asked \in Wrappers, NEW r, NEW p \in {2, 3}, Return(r, p), proto' \in {2, 3},
         \/ \E k \in Errors : r = Plain(k)
         \/ r = Plain("queued") /\ asked.sends \notin AtOnce
         \/ r \in Answers(p, asked.sends)
  PROVE  CInv'
<1>1. /\ asked' = NoCall /\ got'.reply = r /\ got'.to = asked /\ got'.proto = p
      /\ got'.is = Result(asked, r).is
  BY DEF Return
<1>2. Sound(asked, TRUE) \/ Sound(asked, FALSE)
  BY WrappersAreSound
<1>3. ErrorsAreReported'
  BY <1>1, <1>2, ErrorFails DEF ErrorsAreReported
<1>4. r.kind = "queued" => r = Plain("queued") /\ asked.sends \notin AtOnce
  <2>1. \A k \in Errors : Plain(k).kind # "queued"
    BY DEF Plain, Errors
  <2>2. r \in Answers(p, asked.sends) => r.kind # "queued"
    BY AnswersAreRegular DEF Regular
  <2> QED BY <2>1, <2>2
<1>5. ASSUME r.kind = "queued" PROVE got'.is = "value" <=> asked \in TakesQueued
  <2>1. r = Plain("queued") /\ asked # quit
    BY <1>4, <1>5, WrappersAreSound
  <2>2. CASE asked \in TakesQueued
    BY <1>1, <2>1, <2>2, WrappersAreSound, QueuedIs
  <2>3. CASE asked \notin TakesQueued
    BY <1>1, <2>1, <2>3, WrappersAreSound, QueuedIs
  <2> QED BY <2>2, <2>3
<1>6. QueuedIsNoResult'
  BY <1>1, <1>5 DEF QueuedIsNoResult
<1>7. r \in Answers(p, asked.sends) \/ (r.kind \in Errors \cup {"queued"} /\ r.items = <<>>)
  BY DEF Plain
<1>8. asked \in Partial \/ Safe(asked)
  BY WrappersAreSafe
<1>9. AnswersUnderstood'
  <2> SUFFICES ASSUME p = 2, asked \notin Partial, r.kind \notin Errors \cup {"queued"}
               PROVE  /\ Result(asked, r).is \in Expected(r.kind)
                      /\ Result(asked, r).is = "value" => Complete(asked, r)
    BY <1>1 DEF AnswersUnderstood
  <2> QED BY <1>7, <1>8 DEF Safe, Understood, Copes
<1>10. NothingSilentlyLost'
  <2> SUFFICES ASSUME asked \notin Partial, Result(asked, r).is = "value"
               PROVE  Complete(asked, r) \/ (p = 3 /\ asked \in LosesInResp3)
    BY <1>1 DEF NothingSilentlyLost
  <2>1. CASE r.items = <<>>
    BY <2>1, BareIsComplete
  <2>2. CASE r \in Answers(p, asked.sends)
    BY <1>8, <2>2 DEF Safe, Understood, Copes, Retained
  <2> QED BY <1>7, <2>1, <2>2
<1> QED BY <1>1, <1>3, <1>6, <1>9, <1>10 DEF CInv

LEMMA CInvStep == CInv /\ [Next]_vars => CInv'
<1> SUFFICES ASSUME CInv, [Next]_vars PROVE CInv'
  OBVIOUS
<1>1. (asked # NoCall => asked \in Wrappers) /\ proto \in {2, 3}
  BY DEF CInv
<1>2. NoAnswer.reply = NoReply
  BY DEF NoAnswer
<1>3. ASSUME NEW w \in Wrappers, Ask(w) PROVE CInv'
  BY <1>1, <1>2, <1>3, SilenceIs DEF Ask, CInv
<1>4. ASSUME NEW w \in Wrappers, Refuse(w) PROVE CInv'
  <2>1. got'.reply = NoReply
    BY <1>4 DEF Refuse, NoAnswer
  <2> QED BY <1>1, <1>4, <2>1, SilenceIs DEF Refuse, CInv
<1>5. CASE Fail
  <2>1. got'.reply = NoReply
    BY <1>5 DEF Fail, NoAnswer
  <2> QED BY <1>5, <2>1, SilenceIs DEF Fail, CInv
<1>6. CASE AnswerError
  <2>1. PICK k \in Errors : Return(Plain(k), proto)
    BY <1>6 DEF AnswerError
  <2> QED BY <1>1, <1>6, <2>1, ReturnIs DEF AnswerError
<1>7. CASE AnswerQueued
  BY <1>1, <1>7, ReturnIs DEF AnswerQueued
<1>8. CASE Answer
  <2>1. PICK p, r : p \in {2, 3, proto} /\ r \in Answers(p, asked.sends)
                   /\ Return(r, p) /\ proto' = p
    BY <1>8 DEF Answer
  <2>2. asked \in Wrappers /\ p \in {2, 3}
    BY <1>1, <1>8, <2>1 DEF Answer
  <2> QED BY <2>1, <2>2, ReturnIs
<1>9. CASE RunsOffTheEnd
  BY <1>1, <1>2, <1>9, SilenceIs DEF RunsOffTheEnd, CInv
<1>10. CASE UNCHANGED vars
  BY <1>10 DEF vars, CInv, ErrorsAreReported, QueuedIsNoResult, AnswersUnderstood,
      NothingSilentlyLost
<1> QED BY <1>3, <1>4, <1>5, <1>6, <1>7, <1>8, <1>9, <1>10 DEF Next

LEMMA SpecCInv == Spec => []CInv
BY CInvInit, CInvStep, PTL DEF Spec

\* No wrapper of the C layer turns an error reply into a result.  The proof
\* looks at the wrappers only: it holds whatever else the server may answer.
THEOREM ErrorsSurface == Spec => []ErrorsAreReported
<1>1. CInv => ErrorsAreReported
  BY DEF CInv
<1> QED BY <1>1, SpecCInv, PTL

\* Inside MULTI the wrappers that accept any status, and no others, return
\* the server's QUEUED as if it were what their command computes.
THEOREM QueuedIsTold == Spec => []QueuedIsNoResult
<1>1. CInv => QueuedIsNoResult
  BY DEF CInv
<1> QED BY <1>1, SpecCInv, PTL

\* In RESP2 every wrapper, apart from those listed as partial, accepts each
\* reply that the server may send to its command and returns all of it,
\* however long the list.
THEOREM RepliesAreUnderstood == Spec => []AnswersUnderstood
<1>1. CInv => AnswersUnderstood
  BY DEF CInv
<1> QED BY <1>1, SpecCInv, PTL

\* In either protocol a wrapper that returns a value returns all of a list of
\* any length, apart from the twelve that drop what RESP3 pairs with members.
THEOREM ListsAreReturnedWhole == Spec => []NothingSilentlyLost
<1>1. CInv => NothingSilentlyLost
  BY DEF CInv
<1> QED BY <1>1, SpecCInv, PTL
=============================================================================
