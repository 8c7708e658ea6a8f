------------------------------- MODULE Replies ------------------------------
(***************************************************************************)
(* What the wrappers of src/hiredis make of a reply.                       *)
(*                                                                         *)
(* A reply is its kind and, for an aggregate, the kinds of its elements.   *)
(* Kinds are the REDIS_REPLY_* types, told apart further where a wrapper   *)
(* looks at the content: a status may be OK, QUEUED or RESET, an error may *)
(* contain WRONGTYPE, an integer may be -1 or -2, an array may hold        *)
(* doubles only.                                                           *)
(*                                                                         *)
(* A wrapper is a record:                                                  *)
(*   sends    the command it sends                                         *)
(*   none     its answer to arguments it does not send, or "sent"          *)
(*   reads    its result for each kind of reply                            *)
(*   items    what becomes of each kind of element                         *)
(*   atLeast  the number of elements it insists on                         *)
(*   looksAt  all of the elements or the first of them                      *)
(***************************************************************************)
EXTENDS Naturals, Sequences

Statuses == {"ok", "queued", "reset", "status"}
Numbers  == {"integer", "minus1", "minus2"}
Errors   == {"error", "wrongtype"}
Kinds    == Statuses \cup Numbers \cup Errors \cup
            {"string", "nil", "array", "doubles", "map", "set", "push", "double", "bool", "verb", "bignum"}
Aggregates == {"array", "map", "set", "push"}

Plain(kind) == [kind |-> kind, items |-> <<>>]
Many(kind, items) == [kind |-> kind, items |-> items]

-----------------------------------------------------------------------------
(* The constructors of errors.c: how a call ends that returns no value.    *)

ConnectIO       == "connectError io"
ConnectEOF      == "connectError eof"
ConnectProtocol == "connectError protocol"
ConnectOther    == "connectError other"
NullReply       == "nullReplyError"
ReplyError      == "replyError"
UnexpectedType  == "unexpectedReplyTypeError"
KeyNotFound     == "keyNotFoundError"
NoExpiry        == "noExpiryDefinedError"

\* mk_redis_error_from_context, for each value of c->err.
FromContext(err) ==
  [io |-> ConnectIO, eof |-> ConnectEOF, protocol |-> ConnectProtocol,
   other |-> ConnectOther, none |-> ConnectOther][err]

ConnectErrors == {ConnectIO, ConnectEOF, ConnectProtocol, ConnectOther}
Failures == ConnectErrors \cup {NullReply, ReplyError, UnexpectedType, KeyNotFound, NoExpiry}

-----------------------------------------------------------------------------
(* The chains of tests on r->type that the wrappers end in.                *)

\* value, ERROR -> replyError, else unexpectedReplyTypeError
Reads(kinds) == [k \in Kinds |-> IF k \in kinds THEN "value"
                                 ELSE IF k \in Errors THEN ReplyError ELSE UnexpectedType]
\* value, ERROR -> replyError, else nullReplyError
ReadsElseNull(kinds) == [k \in Kinds |-> IF k \in kinds THEN "value"
                                         ELSE IF k \in Errors THEN ReplyError ELSE NullReply]
\* value, else nullReplyError, error replies included
ReadsOrNull(kinds) == [k \in Kinds |-> IF k \in kinds THEN "value" ELSE NullReply]
\* Mutant: the error reply is not told apart.
ReadsErrorsToo == [k \in Kinds |-> "value"]
\* any reply but an error
ReadsAny == [k \in Kinds |-> IF k \in Errors THEN ReplyError ELSE "value"]

On(kind, result, reads) == [reads EXCEPT ![kind] = result]
OnNil(result, reads) == On("nil", result, reads)
\* a fixed text stands for whatever the reply contained
Shows(kinds, reads) == [k \in Kinds |-> IF k \in kinds THEN "placeholder" ELSE reads[k]]
\* strstr(r->str, "WRONGTYPE") comes before the other errors
OnWrongType(reads) == On("wrongtype", NullReply, reads)

\* What becomes of the elements: kept, or else. An element that voids or fails
\* decides the whole answer.
Each(kinds, else) == [k \in Kinds |-> IF k \in kinds THEN "kept" ELSE else]
Strings   == Each({"string"}, "dropped")
AllStrings == Each({"string"}, "fails")
\* Mutant: a nil has no place in the list.
OptionsDropped == Each({"string"}, "dropped")
Options   == Each({"string"}, "none")
Flags     == Each(Numbers, "false")
Whatever  == Each(Kinds, "kept")

Call(command, reads) ==
  [sends |-> command, none |-> "sent", reads |-> reads, items |-> Whatever,
   atLeast |-> 0, looksAt |-> "all"]
ListCall(command, reads, items) == [Call(command, reads) EXCEPT !.items = items]
OnEmpty(result, wrapper) == [wrapper EXCEPT !.none = result]
AtLeast(n, wrapper) == [wrapper EXCEPT !.atLeast = n]
OnlyFirst(wrapper) == [wrapper EXCEPT !.looksAt = "first"]

\* The last else of the chain: nothing reads a big number.
Otherwise(w) == w.reads["bignum"]

\* How wrapper w ends on reply r, and what becomes of each element that it looks
\* at; a value has no place for those that are dropped.
Result(w, r) ==
  LET seen  == IF w.looksAt = "first" /\ r.items # <<>> THEN <<Head(r.items)>> ELSE r.items
      fates == [i \in DOMAIN seen |-> w.items[seen[i]]]
      read  == IF r.kind = "array" /\ Len(r.items) < w.atLeast THEN Otherwise(w) ELSE w.reads[r.kind]
      meets(fate) == read = "value" /\ \E i \in DOMAIN fates : fates[i] = fate
      is    == IF meets("fails") THEN NullReply ELSE IF meets("voids") THEN "none" ELSE read
  IN [is |-> is, items |-> IF is = "value" THEN fates ELSE <<>>]

\* The value has a place for every element, and only a nil leaves it empty.
Complete(w, r) ==
  LET items == Result(w, r).items
  IN /\ Len(items) = Len(r.items)
     /\ \A i \in DOMAIN items : items[i] # "kept" => items[i] # "dropped" /\ r.items[i] = "nil"

=============================================================================
