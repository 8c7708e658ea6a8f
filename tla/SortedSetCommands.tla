-------------------------- MODULE SortedSetCommands -------------------------
(* Wrappers of the commands on sorted sets, positions and streams.         *)
EXTENDS CollectionCommands

OptionalNumber == OnNil("none", Number)

zadd             == Call("ZADD", NumberOrNull)
zcard            == Call("ZCARD", NumberOrNull)
zcount           == Call("ZCOUNT", Number)
zlexcount        == Call("ZLEXCOUNT", Number)
zincrby          == Call("ZINCRBY", Bytes)
zscore           == Call("ZSCORE", OptionalBytes)
zmscore          == OnEmpty("value", ListCall("ZMSCORE", List, Options))
zrank            == Call("ZRANK", OptionalNumber)
zrevrank         == Call("ZREVRANK", OptionalNumber)
zrange           == ListCall("ZRANGE", OnWrongType(ReadsElseNull({"array"})), AllStrings)
zrevrange        == ListCall("ZREVRANGE", List, Strings)
zrangebylex      == ListCall("ZRANGEBYLEX", List, Strings)
zrevrangebylex   == ListCall("ZREVRANGEBYLEX", List, Strings)
zrangebyscore    == ListCall("ZRANGEBYSCORE", List, Strings)
zrevrangebyscore == ListCall("ZREVRANGEBYSCORE", List, Strings)
zrangestore      == Call("ZRANGESTORE", Number)
zrandmember      == ListCall("ZRANDMEMBER", Members, Strings)
zpopmin          == ListCall("ZPOPMIN", List, Strings)
zpopmax          == ListCall("ZPOPMAX", List, Strings)
bzpopmin         == OnEmpty("none", AtLeast(3, Call("BZPOPMIN", OnNil("none", List))))
bzpopmax         == OnEmpty("none", AtLeast(3, Call("BZPOPMAX", OnNil("none", List))))
zrem             == OnEmpty("value", Call("ZREM", Number))
zremrangebylex   == Call("ZREMRANGEBYLEX", Number)
zremrangebyrank  == Call("ZREMRANGEBYRANK", Number)
zremrangebyscore == Call("ZREMRANGEBYSCORE", Number)
zdiff            == OnEmpty("value", ListCall("ZDIFF", List, Strings))
zinter           == OnEmpty("value", ListCall("ZINTER", List, Strings))
zunion           == OnEmpty("value", ListCall("ZUNION", List, Strings))
zdiffstore       == OnEmpty("value", Call("ZDIFFSTORE", Number))
zinterstore      == OnEmpty("value", Call("ZINTERSTORE", Number))
zunionstore      == OnEmpty("value", Call("ZUNIONSTORE", Number))
zintercard       == OnEmpty("value", Call("ZINTERCARD", Number))
zscan            == AtLeast(2, Call("ZSCAN", List))

geoadd         == OnEmpty("value", Call("GEOADD", Number))
geodist        == Call("GEODIST", OptionalBytes)
geohash        == OnEmpty("value", ListCall("GEOHASH", List, Options))
\* A coordinate that is no string counts as 0.0.
Positions      == [Each({"array"}, "none") EXCEPT !["doubles"] = "zeros"]
geopos         == OnEmpty("value", ListCall("GEOPOS", List, Positions))
geosearch      == ListCall("GEOSEARCH", List, Strings)
geosearchstore == Call("GEOSEARCHSTORE", Number)

xadd          == Call("XADD", Bytes)
xlen          == Call("XLEN", Number)
xdel          == OnEmpty(ReplyError, Call("XDEL", Number))
xtrim         == Call("XTRIM", Number)
\* Any entries become the text "XRANGE_REPLY".
xrange        == Call("XRANGE", Shows({"array"}, List))
\* serialize_reply: the strings and numbers at any depth, one per line.
Flattened     == Each({"string", "array"} \cup Statuses \cup Numbers \cup Errors, "dropped")
xread         == OnEmpty(ReplyError, ListCall("XREAD", OnNil("value", List), Flattened))
xreadgroup    == ListCall("XREADGROUP", OnNil("value", List), Flattened)
xack          == Call("XACK", ReadsAny)
xgroup_create == Call("XGROUP", ReadsAny)

SortedSetWrappers ==
  {zadd, zcard, zcount, zlexcount, zincrby, zscore, zmscore, zrank, zrevrank, zrange, zrevrange,
   zrangebylex, zrevrangebylex, zrangebyscore, zrevrangebyscore, zrangestore, zrandmember,
   zpopmin, zpopmax, bzpopmin, bzpopmax, zrem, zremrangebylex, zremrangebyrank,
   zremrangebyscore, zdiff, zinter, zunion, zdiffstore, zinterstore, zunionstore, zintercard,
   zscan, geoadd, geodist, geohash, geopos, geosearch, geosearchstore,
   xadd, xlen, xdel, xtrim, xrange, xread, xreadgroup, xack, xgroup_create}

=============================================================================
