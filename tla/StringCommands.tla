--------------------------- MODULE StringCommands ---------------------------
(* Wrappers of the commands on strings, bits and HyperLogLogs.             *)
EXTENDS Replies

Number == Reads(Numbers)
NumberOrNull == ReadsOrNull(Numbers)
\* Mutant: any status will do.
DoneByAnyStatus == Reads(Statuses)
Done   == Reads({"ok"})
AnyStatus == Reads(Statuses \cup {"string"})
Bytes  == Reads({"string"})
List   == Reads({"array"})
ListOrNull == ReadsOrNull({"array"})

set         == Call("SET", OnNil(NullReply, Done))
setex       == Call("SET", OnNil(NullReply, Done))
setnx       == Call("SETNX", Number)
psetex      == Call("PSETEX", AnyStatus)
get         == Call("GET", OnNil(KeyNotFound, Reads({"string"} \cup Statuses)))
getdel      == Call("GETDEL", OnNil(KeyNotFound, Bytes))
getex       == Call("GETEX", OnNil(KeyNotFound, Bytes))
getset      == Call("GETSET", OnNil("value", Bytes))
getrange    == Call("GETRANGE", Bytes)
setrange    == Call("SETRANGE", Number)
append      == Call("APPEND", Number)
strlen      == Call("STRLEN", Number)
mget        == OnEmpty("value", ListCall("MGET", List, Options))
mset        == OnEmpty(ReplyError, Call("MSET", AnyStatus))
msetnx      == OnEmpty(ReplyError, Call("MSETNX", Number))
incr        == Call("INCR", NumberOrNull)
incrby      == Call("INCRBY", NumberOrNull)
decr        == Call("DECR", NumberOrNull)
decrby      == Call("DECRBY", NumberOrNull)
incrbyfloat == Call("INCRBYFLOAT", Bytes)
\* The aggregate that IDX asks for becomes an empty array of bytes.
lcs         == Call("LCS", Shows({"array", "map"}, Reads({"string"} \cup Numbers)))

getbit      == Call("GETBIT", Number)
setbit      == Call("SETBIT", Number)
bitcount    == Call("BITCOUNT", Number)
bitop       == Call("BITOP", Number)
bitpos      == Call("BITPOS", Number)

pfadd       == Call("PFADD", Number)
pfcount     == OnEmpty("value", Call("PFCOUNT", Number))
pfmerge     == Call("PFMERGE", Done)

StringWrappers ==
  {set, setex, setnx, psetex, get, getdel, getex, getset, getrange, setrange, append, strlen,
   mget, mset, msetnx, incr, incrby, decr, decrby, incrbyfloat, lcs,
   getbit, setbit, bitcount, bitop, bitpos, pfadd, pfcount, pfmerge}

=============================================================================
