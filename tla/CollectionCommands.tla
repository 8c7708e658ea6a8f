------------------------- MODULE CollectionCommands -------------------------
(* Wrappers of the commands on hashes, lists and sets.                     *)
EXTENDS StringCommands

\* Mutant: nil is an unexpected type.
BytesOnly == Bytes
OptionalBytes == OnNil("none", Bytes)
\* [member or value lists] nil -> the empty list, a single string -> a list of one
Members == OnNil("value", Reads({"string", "array"}))

hset         == Call("HSET", NumberOrNull)
hsetnx       == Call("HSETNX", Number)
hmset        == OnEmpty(ReplyError, Call("HMSET", AnyStatus))
hget         == Call("HGET", OnWrongType(OnNil(KeyNotFound, Reads({"string"} \cup Statuses))))
hmget        == OnEmpty("value", ListCall("HMGET", List, Options))
hgetall      == ListCall("HGETALL", OnWrongType(ReadsElseNull({"array"})), AllStrings)
hkeys        == ListCall("HKEYS", OnWrongType(ReadsElseNull({"array"})), AllStrings)
hvals        == ListCall("HVALS", List, Strings)
hdel         == Call("HDEL", NumberOrNull)
hexists      == Call("HEXISTS", NumberOrNull)
hlen         == Call("HLEN", Number)
hstrlen      == Call("HSTRLEN", Number)
hincrby      == Call("HINCRBY", NumberOrNull)
hincrbyfloat == Call("HINCRBYFLOAT", Bytes)
hrandfield   == ListCall("HRANDFIELD", Members, Strings)
hscan        == AtLeast(2, Call("HSCAN", List))

lpush      == OnEmpty(ReplyError, Call("LPUSH", Number))
lpushx     == OnEmpty(ReplyError, Call("LPUSHX", Number))
rpush      == OnEmpty(ReplyError, Call("RPUSH", Number))
rpushx     == OnEmpty(ReplyError, Call("RPUSHX", Number))
lpop       == ListCall("LPOP", Members, Strings)
rpop       == ListCall("RPOP", Members, Strings)
llen       == Call("LLEN", Number)
lrange     == ListCall("LRANGE", List, Strings)
lindex     == Call("LINDEX", OnNil(KeyNotFound, Bytes))
lset       == Call("LSET", AnyStatus)
ltrim      == Call("LTRIM", AnyStatus)
linsert    == Call("LINSERT", Number)
lrem       == Call("LREM", Number)
\* Of the positions that COUNT asks for the first is returned; a value
\* without elements is none.
lpos       == OnlyFirst(ListCall("LPOS", OnNil("none", Reads(Numbers \cup {"array"})),
                                 Each(Numbers, "voids")))
lmove      == Call("LMOVE", OnNil(KeyNotFound, Bytes))
rpoplpush  == Call("RPOPLPUSH", OnNil(KeyNotFound, Bytes))
\* [pops from several lists] nothing is returned unless the key and what was
\* popped have the right kinds
Popped(name, kinds) ==
  OnEmpty(ReplyError, AtLeast(2, ListCall(name, OnNil("none", List), Each(kinds, "voids"))))
lmpop      == Popped("LMPOP", {"string", "array"})
blmpop     == Popped("BLMPOP", {"string", "array"})
blpop      == Popped("BLPOP", {"string"})
brpop      == Popped("BRPOP", {"string"})
blmove     == Call("BLMOVE", OptionalBytes)
brpoplpush == Call("BRPOPLPUSH", OptionalBytes)

sadd        == Call("SADD", NumberOrNull)
srem        == OnEmpty("value", Call("SREM", Number))
scard       == Call("SCARD", NumberOrNull)
sismember   == Call("SISMEMBER", NumberOrNull)
smismember  == OnEmpty("value", ListCall("SMISMEMBER", List, Flags))
smembers    == ListCall("SMEMBERS", ReadsElseNull({"array"}), AllStrings)
smove       == Call("SMOVE", Number)
spop        == ListCall("SPOP", Members, Strings)
srandmember == ListCall("SRANDMEMBER", Members, Strings)
sdiff       == OnEmpty("value", ListCall("SDIFF", List, Strings))
sinter      == OnEmpty("value", ListCall("SINTER", List, Strings))
sunion      == OnEmpty("value", ListCall("SUNION", List, Strings))
sdiffstore  == Call("SDIFFSTORE", Number)
sinterstore == Call("SINTERSTORE", Number)
sunionstore == Call("SUNIONSTORE", Number)
sintercard  == OnEmpty("value", Call("SINTERCARD", Number))
sscan       == AtLeast(2, Call("SSCAN", List))

CollectionWrappers ==
  {hset, hsetnx, hmset, hget, hmget, hgetall, hkeys, hvals, hdel, hexists, hlen, hstrlen,
   hincrby, hincrbyfloat, hrandfield, hscan,
   lpush, lpushx, rpush, rpushx, lpop, rpop, llen, lrange, lindex, lset, ltrim, linsert, lrem,
   lpos, lmove, rpoplpush, lmpop, blmpop, blpop, brpop, blmove, brpoplpush,
   sadd, srem, scard, sismember, smismember, smembers, smove, spop, srandmember, sdiff, sinter,
   sunion, sdiffstore, sinterstore, sunionstore, sintercard, sscan}

=============================================================================
