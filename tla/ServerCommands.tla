--------------------------- MODULE ServerCommands ---------------------------
(* Wrappers of the commands on keys, scripts, connections, transactions,   *)
(* channels and the server.                                                *)
EXTENDS SortedSetCommands

Text      == Reads({"string", "verb"})
\* TTL and PTTL: -2 is a missing key, -1 a key that does not expire.
Remaining == On("minus1", NoExpiry, On("minus2", KeyNotFound, NumberOrNull))

del            == OnEmpty("value", Call("DEL", NumberOrNull))
unlink         == OnEmpty("value", Call("UNLINK", Number))
touch          == OnEmpty("value", Call("TOUCH", Number))
exists         == Call("EXISTS", NumberOrNull)
expire         == Call("EXPIRE", Number)
expireat       == Call("EXPIREAT", Number)
pexpire        == Call("PEXPIRE", Number)
pexpireat      == Call("PEXPIREAT", Number)
expiretime     == Call("EXPIRETIME", Number)
persist        == Call("PERSIST", Number)
ttl            == Call("TTL", Remaining)
pttl           == Call("PTTL", Remaining)
rename         == Call("RENAME", AnyStatus)
renamenx       == Call("RENAMENX", Number)
copy           == Call("COPY", Number)
type           == Call("TYPE", ReadsOrNull(Statuses))
keys           == ListCall("KEYS", ListOrNull, AllStrings)
scan           == AtLeast(2, Call("SCAN", List))
randomkey      == Call("RANDOMKEY", OptionalBytes)
objectencoding == Call("OBJECT ENCODING", OptionalBytes)
objectfreq     == Call("OBJECT FREQ", OptionalNumber)
objectidletime == Call("OBJECT IDLETIME", OptionalNumber)
memoryusage    == Call("MEMORY USAGE", OptionalNumber)

Returned     == OnNil("value", Reads({"string"} \cup Statuses \cup Numbers))
eval         == Call("EVAL", Returned)
evalsha      == Call("EVALSHA", Returned)
scriptload   == Call("SCRIPT LOAD", Bytes)
scriptexists == OnEmpty("value", ListCall("SCRIPT EXISTS", List, Flags))
scriptflush  == Call("SCRIPT FLUSH", Done)
scriptkill   == Call("SCRIPT KILL", Done)

auth            == Call("AUTH", ReadsElseNull({"ok"}))
\* Any fields become the text "HELLO response with n elements".
hello           == Call("HELLO", Shows({"array"}, ReadsElseNull({})))
ping            == Call("PING", ReadsOrNull({"string"}))
echo            == Call("ECHO", Bytes)
select          == Call("SELECT", Done)
reset           == Call("RESET", Reads({"reset"}))
quit            == Call("QUIT", ReadsAny)
clientid        == Call("CLIENT ID", Number)
clientgetname   == Call("CLIENT GETNAME", OptionalBytes)
clientsetname   == Call("CLIENT SETNAME", Done)
clientinfo      == Call("CLIENT INFO", Text)
clientlist      == Call("CLIENT LIST", Text)
clientkill      == Call("CLIENT KILL", Reads(Numbers \cup {"ok"}))
clientpause     == Call("CLIENT PAUSE", Done)
clientunpause   == Call("CLIENT UNPAUSE", Done)

multi     == Call("MULTI", Done)
discard   == Call("DISCARD", Done)
watch     == OnEmpty("value", Call("WATCH", Done))
unwatch   == Call("UNWATCH", Done)
\* nil: the transaction was aborted. An element that is no text, status or
\* number, an error among them, becomes an empty array of bytes.
exec      == ListCall("EXEC", OnNil("none", List),
                      Each({"string"} \cup Statuses \cup Numbers, "blank"))
\* command sends the words of its argument, any command, if the line ends in a
\* word without quotes (RunsOffTheEnd says what else may happen), and nothing for
\* a line without words; an aggregate other than an array, and any kind RESP3
\* adds, becomes "UNKNOWN_TYPE_n".
Printed   == Shows(Kinds \ (Statuses \cup Numbers \cup {"string", "nil", "array"}),
                   [k \in Kinds |-> "value"])
command   == OnEmpty(NullReply,
               ListCall("ANY", [k \in Kinds |-> IF k \in Errors THEN NullReply ELSE Printed[k]],
                        Each({"string", "nil"} \cup Numbers, "blank")))
publish   == Call("PUBLISH", NumberOrNull)
subscribe == AtLeast(3, Call("SUBSCRIBE", ReadsElseNull({"array"})))

\* flushall refuses a mode other than SYNC and ASYNC.
flushall        == OnEmpty(NullReply, Call("FLUSHALL", ReadsOrNull({"ok"})))
dbsize          == Call("DBSIZE", Number)
lastsave        == Call("LASTSAVE", Number)
info            == Call("INFO", Text)
time            == AtLeast(2, Call("TIME", List))
bgsave          == Call("BGSAVE", Reads(Statuses))
bgrewriteaof    == Call("BGREWRITEAOF", Reads(Statuses))
configget       == ListCall("CONFIG GET", Reads({"array", "map"}), Strings)
configset       == Call("CONFIG SET", Done)
configrewrite   == Call("CONFIG REWRITE", Done)
configresetstat == Call("CONFIG RESETSTAT", Done)
\* Any entries become the text "n entries".
slowlogget      == Call("SLOWLOG GET", Shows({"array"}, List))
slowloglen      == Call("SLOWLOG LEN", Number)
slowlogreset    == Call("SLOWLOG RESET", Done)

ServerWrappers ==
  {del, unlink, touch, exists, expire, expireat, pexpire, pexpireat, expiretime, persist, ttl,
   pttl, rename, renamenx, copy, type, keys, scan, randomkey, objectencoding, objectfreq,
   objectidletime, memoryusage,
   eval, evalsha, scriptload, scriptexists, scriptflush, scriptkill,
   auth, hello, ping, echo, select, reset, quit, clientid, clientgetname, clientsetname,
   clientinfo, clientlist, clientkill, clientpause, clientunpause,
   multi, discard, watch, unwatch, exec, command, publish,
   subscribe,
   flushall, dbsize, lastsave, info, time, bgsave, bgrewriteaof, configget, configset,
   configrewrite, configresetstat, slowlogget, slowloglen, slowlogreset}

=============================================================================
