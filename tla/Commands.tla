------------------------------ MODULE Commands ------------------------------
(***************************************************************************)
(* The command layer: one call of any wrapper at a time, on a connection   *)
(* that speaks RESP2 or RESP3 and may be inside MULTI.  What the server    *)
(* may answer to each command is external; what the wrappers make of the   *)
(* answer is the program (Replies and the tables of wrappers).             *)
(***************************************************************************)
EXTENDS ServerCommands, FiniteSets

CONSTANT MaxItems  \* bound on the elements of a list

Wrappers == StringWrappers \cup CollectionWrappers \cup SortedSetWrappers \cup ServerWrappers

-----------------------------------------------------------------------------
(* The server's answers, apart from errors.                                *)

UpTo(kinds) == UNION {[1..n -> kinds] : n \in 0..MaxItems}
Lists(kinds) == {Many("array", s) : s \in UpTo(kinds)}
Pairs(kind, of) == {Many(kind, <<>>)} \cup {Many(kind, of)}
To(name, commands, replies) == IF name \in commands \cup {"ANY"} THEN replies ELSE {}
Ok  == Plain("ok")
Nil == Plain("nil")
Text1 == Plain("string")
Ints  == {Plain(k) : k \in Numbers}

\* Replies without elements ...
Simple(name) ==
  To(name, {"MSET", "HMSET", "PSETEX", "LSET", "LTRIM", "PFMERGE", "RENAME",
            "SCRIPT FLUSH", "SCRIPT KILL", "AUTH", "SELECT", "QUIT", "CLIENT SETNAME",
            "CLIENT PAUSE", "CLIENT UNPAUSE", "MULTI", "DISCARD", "WATCH", "UNWATCH",
            "FLUSHALL", "CONFIG SET", "CONFIG REWRITE", "CONFIG RESETSTAT",
            "SLOWLOG RESET", "XGROUP", "SET"}, {Ok})
  \cup To(name, {"SET", "GET", "GETDEL", "GETEX", "GETSET", "HGET", "LINDEX", "LMOVE",
                 "RPOPLPUSH", "BLMOVE", "BRPOPLPUSH", "ZSCORE", "GEODIST", "RANDOMKEY",
                 "OBJECT ENCODING", "CLIENT GETNAME", "LPOP", "RPOP", "SPOP",
                 "SRANDMEMBER", "HRANDFIELD", "ZRANDMEMBER", "EVAL", "EVALSHA", "LPOS",
                 "ZRANK", "ZREVRANK", "OBJECT FREQ", "OBJECT IDLETIME", "MEMORY USAGE",
                 "LMPOP", "BLMPOP", "BLPOP", "BRPOP", "BZPOPMIN", "BZPOPMAX", "XREAD",
                 "XREADGROUP", "EXEC"}, {Nil})
  \cup To(name, {"GET", "GETDEL", "GETEX", "GETSET", "HGET", "LINDEX", "LMOVE",
                 "RPOPLPUSH", "BLMOVE", "BRPOPLPUSH", "ZSCORE", "GEODIST", "RANDOMKEY",
                 "OBJECT ENCODING", "CLIENT GETNAME", "LPOP", "RPOP", "SPOP",
                 "SRANDMEMBER", "HRANDFIELD", "ZRANDMEMBER", "EVAL", "EVALSHA",
                 "GETRANGE", "INCRBYFLOAT", "HINCRBYFLOAT", "XADD", "ECHO",
                 "SCRIPT LOAD", "PING", "INFO", "CLIENT LIST", "CLIENT INFO", "ZINCRBY",
                 "LCS"}, {Text1})
  \cup To(name, {"TYPE", "BGSAVE", "BGREWRITEAOF", "EVAL", "EVALSHA"}, {Plain("status")})
  \cup To(name, {"RESET"}, {Plain("reset")})

\* ... numbers ...
Counts(name) ==
  To(name, {"SETNX", "SETRANGE", "APPEND", "STRLEN", "MSETNX", "INCR", "INCRBY", "DECR",
            "DECRBY", "GETBIT", "SETBIT", "BITCOUNT", "BITOP", "BITPOS", "PFADD",
            "PFCOUNT", "LCS", "HSET", "HSETNX", "HDEL", "HEXISTS", "HLEN", "HSTRLEN",
            "HINCRBY", "LPUSH", "LPUSHX", "RPUSH", "RPUSHX", "LLEN", "LINSERT", "LREM",
            "LPOS", "SADD", "SREM", "SCARD", "SISMEMBER", "SMOVE", "SDIFFSTORE",
            "SINTERSTORE", "SUNIONSTORE", "SINTERCARD", "ZADD", "ZCARD", "ZCOUNT",
            "ZLEXCOUNT", "ZRANK", "ZREVRANK", "ZRANGESTORE", "ZREM", "ZREMRANGEBYLEX",
            "ZREMRANGEBYRANK", "ZREMRANGEBYSCORE", "ZDIFFSTORE", "ZINTERSTORE",
            "ZUNIONSTORE", "ZINTERCARD", "GEOADD", "GEOSEARCHSTORE", "XLEN", "XDEL",
            "XTRIM", "XACK", "DEL", "UNLINK", "TOUCH", "EXISTS", "EXPIRE", "EXPIREAT",
            "PEXPIRE", "PEXPIREAT", "EXPIRETIME", "PERSIST", "TTL", "PTTL", "RENAMENX",
            "COPY", "OBJECT FREQ", "OBJECT IDLETIME", "MEMORY USAGE", "PUBLISH",
            "DBSIZE", "LASTSAVE", "SLOWLOG LEN", "CLIENT ID", "CLIENT KILL", "EVAL",
            "EVALSHA"}, Ints)

\* ... and lists.
Compound(name) ==
  To(name, {"KEYS", "HKEYS", "HVALS", "LRANGE", "ZRANGE", "ZREVRANGE", "ZRANGEBYLEX",
            "ZREVRANGEBYLEX", "ZRANGEBYSCORE", "ZREVRANGEBYSCORE", "ZDIFF", "ZINTER",
            "ZUNION", "GEOSEARCH", "LPOP", "RPOP", "SRANDMEMBER", "HRANDFIELD",
            "ZRANDMEMBER", "EVAL", "EVALSHA"}, Lists({"string"}))
  \cup To(name, {"MGET", "HMGET", "GEOHASH"}, Lists({"string", "nil"}))
  \cup To(name, {"SMISMEMBER", "SCRIPT EXISTS", "LPOS"}, Lists(Numbers))
  \cup To(name, {"XRANGE", "SLOWLOG GET"}, Lists({"array"}))
  \cup To(name, {"HSCAN", "SSCAN", "ZSCAN", "SCAN", "LMPOP", "BLMPOP"},
                {Many("array", <<"string", "array">>)})
  \cup To(name, {"BLPOP", "BRPOP", "TIME"}, {Many("array", <<"string", "string">>)})
  \cup To(name, {"EXEC"}, Lists({"string", "ok", "integer", "nil", "error", "array"}))

Resp2(name) ==
  To(name, {"HGETALL", "CONFIG GET"}, Pairs("array", <<"string", "string">>))
  \cup To(name, {"HELLO"}, {Many("array", <<"string", "integer">>)})
  \cup To(name, {"XREAD", "XREADGROUP"}, {Many("array", <<"array">>)})
  \cup To(name, {"LCS"}, {Many("array", <<"string", "array">>)})
  \cup To(name, {"SMEMBERS", "SDIFF", "SINTER", "SUNION", "SPOP", "ZPOPMIN", "ZPOPMAX"},
                Lists({"string"}))
  \cup To(name, {"ZMSCORE"}, Lists({"string", "nil"}))
  \cup To(name, {"GEOPOS"}, Lists({"array", "nil"}))
  \cup To(name, {"BZPOPMIN", "BZPOPMAX"},
                {Many("array", <<"string", "string", "string">>)})
  \cup To(name, {"SUBSCRIBE"}, {Many("array", <<"string", "string", "integer">>)})

\* RESP3 has maps, sets, doubles and verbatim texts, and pairs members with
\* their scores and values.  (A subscription is confirmed out of band.)
Resp3(name) ==
  To(name, {"HGETALL", "CONFIG GET"}, Pairs("map", <<"string", "string">>))
  \cup To(name, {"HELLO"}, {Many("map", <<"string", "integer">>)})
  \cup To(name, {"XREAD", "XREADGROUP"}, {Many("map", <<"string", "array">>)})
  \cup To(name, {"LCS"}, {Many("map", <<"string", "array">>)})
  \cup To(name, {"SMEMBERS", "SDIFF", "SINTER", "SUNION", "SPOP"},
                {Many("set", s) : s \in UpTo({"string"})})
  \cup To(name, {"ZSCORE", "ZINCRBY"}, {Plain("double")})
  \cup To(name, {"ZMSCORE"}, Lists({"double", "nil"}))
  \cup To(name, {"GEOPOS"}, Lists({"doubles", "nil"}))
  \cup To(name, {"ZPOPMIN", "ZPOPMAX"}, {Many("array", <<"string", "double">>)})
  \cup To(name, {"ZPOPMIN", "ZPOPMAX", "ZREVRANGE", "ZRANGEBYSCORE", "ZREVRANGEBYSCORE",
                 "ZDIFF", "ZINTER", "ZUNION", "HRANDFIELD", "ZRANDMEMBER"},
                Lists({"array"}))
  \cup To(name, {"BZPOPMIN", "BZPOPMAX"},
                {Many("array", <<"string", "string", "double">>)})
  \cup To(name, {"INFO", "CLIENT LIST", "CLIENT INFO"}, {Plain("verb")})

\* What RESP3 answers with another kind it does not answer with the old one.
Superseded == {"ZSCORE", "ZINCRBY", "INFO", "CLIENT LIST", "CLIENT INFO"}
Answers(p, name) ==
  (Simple(name) \cup Counts(name) \cup Compound(name)
     \cup (IF p = 2 THEN Resp2(name) ELSE Resp3(name)))
  \ (IF p = 3 /\ name \in Superseded THEN {Text1} ELSE {})

\* Every command that a wrapper sends has answers in the catalogue.
ASSUME CatalogueIsComplete == \A w \in Wrappers : Answers(2, w.sends) # {}

-----------------------------------------------------------------------------
VARIABLES
  proto,     \* the protocol the connection speaks
  queueing,  \* the connection is inside MULTI
  asked,     \* the wrapper whose call is in progress, or NoCall
  got        \* how the last call ended, or NoAnswer

vars == <<proto, queueing, asked, got>>

NoCall   == [sends |-> "nothing"]
NoReply  == Plain("no reply")
NoAnswer == [to |-> NoCall, proto |-> 2, reply |-> NoReply, is |-> "none", items |-> <<>>]

Init == proto = 2 /\ queueing = FALSE /\ asked = NoCall /\ got = NoAnswer

\* [every wrapper] its arguments are sent
Ask(w) ==
  /\ asked = NoCall
  /\ ~(w = subscribe /\ proto = 3)
  /\ asked' = w /\ got' = NoAnswer
  /\ UNCHANGED <<proto, queueing>>

\* [wrappers of lists, flushall, command] there is nothing to send
Refuse(w) ==
  /\ asked = NoCall /\ w.none # "sent"
  /\ got' = [NoAnswer EXCEPT !.to = w, !.is = w.none]
  /\ UNCHANGED <<proto, queueing, asked>>

\* [parse_command_args] A line for command that ends in a blank or in a quoted
\* word runs off the end of the function: argv is not handed over, and the count
\* that the caller reads is undefined.  It finds no words (Refuse), the words
\* are sent all the same, where the build merges the two ends (Ask), or it takes
\* words out of a NULL pointer: the program dies, and another one connects.
RunsOffTheEnd ==
  /\ asked = NoCall
  /\ got' = NoAnswer /\ proto' = 2 /\ queueing' = FALSE
  /\ UNCHANGED asked

\* [redisCommand returns NULL] the connection failed; a new one follows
Fail ==
  /\ asked # NoCall
  /\ got' = [NoAnswer EXCEPT !.to = asked, !.is = IF asked = quit THEN "value" ELSE NullReply]
  /\ asked' = NoCall /\ proto' = 2 /\ queueing' = FALSE

Return(r, p) ==
  LET result == Result(asked, r)
  IN /\ got' = [to |-> asked, proto |-> p, reply |-> r, is |-> result.is, items |-> result.items]
     /\ asked' = NoCall

AnswerError ==
  /\ asked # NoCall
  /\ \E k \in Errors : Return(Plain(k), proto)
  /\ UNCHANGED <<proto, queueing>>

AtOnce == {"EXEC", "DISCARD", "RESET", "QUIT", "MULTI", "WATCH"}

\* Inside MULTI a command is queued; MULTI and WATCH are errors.
AnswerQueued ==
  /\ asked # NoCall /\ queueing /\ asked.sends \notin AtOnce
  /\ Return(Plain("queued"), proto)
  /\ UNCHANGED <<proto, queueing>>

\* The answer to HELLO is in the protocol it chooses; RESET chooses RESP2.
Answer ==
  /\ asked # NoCall
  /\ queueing => asked.sends \in {"EXEC", "DISCARD", "RESET", "QUIT"}
  /\ asked.sends \in {"EXEC", "DISCARD"} => queueing
  /\ \E p \in (IF asked.sends = "HELLO" THEN {2, 3} ELSE IF asked.sends = "RESET" THEN {2} ELSE {proto}) :
       \E r \in Answers(p, asked.sends) : Return(r, p) /\ proto' = p
  /\ queueing' = (asked.sends = "MULTI")

Next == (\E w \in Wrappers : Ask(w) \/ Refuse(w)) \/ RunsOffTheEnd \/ Fail \/ AnswerError \/ AnswerQueued \/ Answer

Spec == Init /\ [][Next]_vars

-----------------------------------------------------------------------------
\* No wrapper turns an error reply into a result, in either protocol.
ErrorsAreReported == got.reply.kind \in Errors => got.is \in Failures

\* What the wrappers may say to a reply that is neither an error nor QUEUED.
Expected(kind) ==
  IF kind = "nil" THEN {"none", "value", KeyNotFound, NullReply}
  ELSE IF kind \in {"minus1", "minus2"} THEN {"value", NoExpiry, KeyNotFound}
  ELSE {"value"}

\* Wrappers that do not return everything the server may send them: a text
\* stands for it, only the first position is kept, scripts may return tables,
\* and an element of EXEC or of a raw command may be an error or a list.
Partial == {hello, slowlogget, xrange, lcs, lpos, eval, evalsha, exec, command}

\* In RESP2 every wrapper understands every reply the server may send to its
\* command, and returns all of it.
AnswersUnderstood ==
  got.reply # NoReply /\ got.proto = 2 /\ got.to \notin Partial
    /\ got.reply.kind \notin Errors \cup {"queued"}
  => /\ got.is \in Expected(got.reply.kind)
     /\ got.is = "value" => Complete(got.to, got.reply)

\* Wrappers that lose scores, values or positions in RESP3 without saying so.
LosesInResp3 ==
  {zpopmin, zpopmax, zrevrange, zrangebyscore, zrevrangebyscore, zdiff, zinter, zunion,
   hrandfield, zrandmember, zmscore, geopos}

\* In RESP3 a wrapper that returns a value returns all of the reply, apart from
\* those; the others meet the new kinds with an error.
NothingSilentlyLost ==
  got.is = "value" /\ got.reply # NoReply /\ got.to \notin Partial
  => Complete(got.to, got.reply) \/ (got.proto = 3 /\ got.to \in LosesInResp3)

\* Wrappers that take the QUEUED of a transaction for the command's result.
TakesQueued ==
  {get, hget, psetex, mset, hmset, lset, ltrim, rename, type, eval, evalsha, bgsave,
   bgrewriteaof, xack, xgroup_create, command}

\* Inside MULTI no other wrapper returns a result that the server has not
\* computed.
QueuedIsNoResult == got.reply.kind = "queued" => (got.is = "value" <=> got.to \in TakesQueued)

=============================================================================
