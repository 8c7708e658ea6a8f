------------------------------- MODULE Session ------------------------------
(***************************************************************************)
(* One connection of src/hiredis from connect to free, as the calls of one *)
(* program, the server and the network see it.                             *)
(*                                                                         *)
(* A command travels from the output buffer of the context (obuf) to the   *)
(* server (todo); its reply waits in the socket (ans), then in the reader  *)
(* of the context (inbuf), until a call takes it.  Nothing but this order  *)
(* ties a reply to a command: commands are numbered here so that           *)
(* properties can tell whose reply a call returns.                         *)
(***************************************************************************)
EXTENDS Replies

CONSTANTS
  MaxCommands,   \* commands that the program sends on one link
  MaxLinks,      \* connections made, reconnections included
  MaxMessages    \* messages published to a subscriber

ASSUME BoundsAssumption == MaxCommands \in Nat /\ MaxLinks \in Nat /\ MaxMessages \in Nat

VARIABLES
  pc,         \* idle, or the step that the call in progress takes next
  call,       \* the call in progress
  made,       \* what has been allocated and not freed: ssl, redis, wrapper
  handle,     \* the program has the connection
  blocking,   \* REDIS_BLOCK is set in c->flags
  err,        \* c->err
  obuf, todo, ans, inbuf,
  linked,     \* the socket is connected to the server
  listening,  \* the server has a subscription of this connection
  issued,     \* commands numbered on this link
  links, messages,
  owed,       \* replies that the program knows it has to fetch
  adrift,     \* a call has left a reply behind that the program does not expect
  out         \* the last answer of a call: for which command, and of which

life    == <<made, handle>>
stream  == <<obuf, todo, ans, inbuf>>
history == <<issued, links, messages, owed, adrift, out>>
vars == <<pc, call, life, blocking, err, stream, linked, listening, history>>

\* The connect functions differ in three points: TLS, a context that blocks,
\* and whether a context with an IO error is good enough.
Variant(tls, block, lenient) == [tls |-> tls, block |-> block, lenient |-> lenient]
ConnectPlain           == Variant(FALSE, TRUE, FALSE)
ConnectWithTimeout     == Variant(FALSE, TRUE, FALSE)
ConnectUnix            == Variant(FALSE, TRUE, FALSE)
ConnectUnixWithTimeout == Variant(FALSE, TRUE, FALSE)
ConnectUnixNonblock    == Variant(FALSE, FALSE, FALSE)
ConnectNonblock        == Variant(FALSE, FALSE, TRUE)
ConnectSsl             == Variant(TRUE, TRUE, FALSE)
Variants == {ConnectPlain, ConnectWithTimeout, ConnectUnix, ConnectUnixWithTimeout,
             ConnectUnixNonblock, ConnectNonblock, ConnectSsl}

NoCall   == [kind |-> "none", id |-> 0, left |-> 0, how |-> ConnectPlain]
NoAnswer == [asked |-> 0, gotten |-> 0, sure |-> FALSE]
Outstanding == inbuf \o ans \o todo \o obuf

ConnectSteps == {"createSsl", "dial", "handshake", "wrap"}

Init ==
  /\ pc = "idle" /\ call = NoCall /\ made = {} /\ handle = FALSE
  /\ blocking = TRUE /\ err = "none"
  /\ obuf = <<>> /\ todo = <<>> /\ ans = <<>> /\ inbuf = <<>>
  /\ linked = FALSE /\ listening = FALSE
  /\ issued = 0 /\ links = 0 /\ messages = 0 /\ owed = 0 /\ adrift = FALSE /\ out = NoAnswer

Idle == pc = "idle" /\ handle
EndCall == pc' = "idle" /\ call' = NoCall

-----------------------------------------------------------------------------
(* Connecting and freeing.                                                 *)

NewStream ==
  /\ obuf' = <<>> /\ todo' = <<>> /\ ans' = <<>> /\ inbuf' = <<>>
  /\ listening' = FALSE /\ owed' = 0 /\ adrift' = FALSE /\ issued' = 0 /\ out' = NoAnswer

\* [the entry of every connect function]
Connect(variant) ==
  /\ pc = "idle" /\ ~handle /\ links < MaxLinks
  /\ call' = [NoCall EXCEPT !.how = variant]
  /\ pc' = IF variant.tls THEN "createSsl" ELSE "dial"
  /\ links' = links + 1
  /\ UNCHANGED <<life, blocking, err, stream, linked, listening, issued, messages, owed, adrift, out>>

\* [l_hiredis_connect_ssl] redisCreateSSLContext
CreateSslContext ==
  /\ pc = "createSsl"
  /\ \/ made' = made \cup {"ssl"} /\ pc' = "dial" /\ UNCHANGED call
     \/ EndCall /\ UNCHANGED made
  /\ UNCHANGED <<handle, blocking, err, stream, linked, listening, history>>

\* What a failing step of a connect function frees before it returns.
GiveUp(freed) == made' = made \ freed /\ EndCall

\* [every connect function] redisConnect...; connect_nonblock goes on with a
\* context that has an IO error
Dial ==
  /\ pc = "dial"
  /\ \/ /\ GiveUp({"redis", "ssl"})
        /\ UNCHANGED <<blocking, err, stream, linked, listening, issued, owed, adrift, out>>
     \/ /\ made' = made \cup {"redis"}
        /\ blocking' = call.how.block
        /\ \/ err' = "none" /\ linked' = TRUE
           \/ call.how.lenient /\ err' = "io" /\ linked' = FALSE
        /\ pc' = IF call.how.tls THEN "handshake" ELSE "wrap"
        /\ NewStream
        /\ UNCHANGED call
  /\ UNCHANGED <<handle, links, messages>>

\* Mutant: the SSL context is not freed.
HandshakeLeaks ==
  /\ pc = "handshake"
  /\ \/ pc' = "wrap" /\ UNCHANGED <<made, call>>
     \/ GiveUp({"redis"})
  /\ UNCHANGED <<handle, blocking, err, stream, linked, listening, history>>

\* [l_hiredis_connect_ssl] redisInitiateSSLWithContext
Handshake ==
  /\ pc = "handshake"
  /\ \/ pc' = "wrap" /\ UNCHANGED <<made, call>>
     \/ GiveUp({"redis", "ssl"})
  /\ UNCHANGED <<handle, blocking, err, stream, linked, listening, history>>

\* [create_redis_connection] the wrapper, if there is memory for it
Wrap ==
  /\ pc = "wrap"
  /\ \/ made' = made \cup {"wrapper"} /\ handle' = TRUE /\ EndCall
     \/ GiveUp({"redis", "ssl"}) /\ UNCHANGED handle
  /\ UNCHANGED <<blocking, err, stream, linked, listening, history>>

\* [l_hiredis_free] the program keeps no handle that it has freed
Free ==
  /\ Idle
  /\ made' = {} /\ handle' = FALSE /\ linked' = FALSE
  /\ UNCHANGED <<pc, call, blocking, err, stream, listening, history>>

\* Mutant: the error is cleared and the buffers are kept.
ReconnectKeepsBuffers ==
  /\ Idle /\ "ssl" \notin made /\ links < MaxLinks
  /\ links' = links + 1 /\ err' = "none" /\ linked' = TRUE
  /\ owed' = 0 /\ adrift' = FALSE /\ out' = NoAnswer
  /\ UNCHANGED <<pc, call, life, blocking, stream, listening, issued, messages>>

\* [l_hiredis_reconnect] redisReconnect drops both buffers and the error, and
\* dials again with the parameters it has (plain connections)
Reconnect ==
  /\ Idle /\ "ssl" \notin made /\ links < MaxLinks
  /\ links' = links + 1 /\ NewStream
  /\ \/ err' = "none" /\ linked' = TRUE
     \/ err' = "io" /\ linked' = FALSE
  /\ UNCHANGED <<pc, call, life, blocking, messages>>

\* [l_hiredis_clear_error] err, and nothing else
ClearError ==
  /\ Idle /\ err # "none"
  /\ err' = "none" /\ adrift' = TRUE
  /\ UNCHANGED <<pc, call, life, blocking, stream, linked, listening, issued, links, messages, owed, out>>

\* [l_hiredis_set_nonblock] the flag is set for TRUE and cleared for FALSE
SetNonblock(nonblock) ==
  /\ Idle
  /\ blocking' = nonblock
  /\ UNCHANGED <<pc, call, life, err, stream, linked, listening, history>>

-----------------------------------------------------------------------------
(* The server and the network.                                             *)

\* The server answers in order, with a result or an error.
Serve ==
  /\ linked /\ todo # <<>>
  /\ \E kind \in (IF Head(todo).junk THEN {"error"} ELSE {"string", "error"}) :
       ans' = Append(ans, [id |-> Head(todo).id, junk |-> kind = "error"])
  /\ todo' = Tail(todo)
  /\ UNCHANGED <<pc, call, life, blocking, err, obuf, inbuf, linked, listening, history>>

\* A message for a subscriber arrives among the replies.
Publish ==
  /\ linked /\ listening /\ messages < MaxMessages
  /\ ans' = Append(ans, [id |-> 0, junk |-> FALSE])
  /\ messages' = messages + 1
  /\ UNCHANGED <<pc, call, life, blocking, err, obuf, todo, inbuf, linked, listening,
                 issued, links, owed, adrift, out>>

\* The link goes down; what has arrived can still be read.
LinkLost ==
  /\ linked
  /\ linked' = FALSE /\ listening' = FALSE /\ todo' = <<>>
  /\ UNCHANGED <<pc, call, life, blocking, err, obuf, ans, inbuf, history>>

-----------------------------------------------------------------------------
(* Sending and receiving (hiredis).                                        *)

\* redisBufferWrite: n commands leave the buffer.  It fails with an error set;
\* on a lost link it fails, or the kernel takes what nobody will receive.
Written(n) ==
  /\ err = "none"
  /\ todo' = IF linked THEN todo \o SubSeq(obuf, 1, n) ELSE todo
  /\ obuf' = SubSeq(obuf, n + 1, Len(obuf))
  /\ UNCHANGED <<err, ans, inbuf>>
WriteFails ==
  \/ err # "none" /\ UNCHANGED <<err, stream>>
  \/ err = "none" /\ ~linked /\ obuf # <<>> /\ err' = "io" /\ UNCHANGED stream

\* redisBufferRead: n replies enter the reader.
ReadIn(n) ==
  /\ err = "none"
  /\ inbuf' = inbuf \o SubSeq(ans, 1, n)
  /\ ans' = SubSeq(ans, n + 1, Len(ans))
  /\ UNCHANGED <<err, obuf, todo>>
ReadFails ==
  \/ err # "none" /\ UNCHANGED <<err, stream>>
  \/ err = "none" /\ ~linked /\ ans = <<>> /\ err' = "eof" /\ UNCHANGED stream

\* A number for each command, and the commands at the end of obuf.
Put(n, junk) ==
  /\ issued + n <= MaxCommands
  /\ issued' = issued + n
  /\ obuf' = obuf \o [i \in 1..n |-> [id |-> issued + i, junk |-> junk]]
  /\ UNCHANGED <<todo, ans, inbuf>>

-----------------------------------------------------------------------------
(* The calls.                                                              *)

\* [every wrapper of a command] redisCommand appends the command, and returns
\* NULL when the context does not block
Sync ==
  /\ Idle /\ Put(1, FALSE)
  /\ \/ /\ blocking
        /\ \E kind \in {"sync", "subscribe"} : call' = [NoCall EXCEPT !.kind = kind, !.id = issued + 1, !.left = 1]
        /\ pc' = "getReply"
        /\ UNCHANGED adrift
     \/ ~blocking /\ adrift' = TRUE /\ UNCHANGED <<pc, call>>
  /\ out' = NoAnswer
  /\ UNCHANGED <<life, blocking, err, linked, listening, links, messages, owed>>

\* [l_hiredis_append_command_argv, l_hiredis_append_command] the latter sends
\* its text as one word, which only a command without arguments survives
AppendCommand ==
  /\ Idle
  /\ \E junk \in BOOLEAN : Put(1, junk)
  /\ owed' = owed + 1
  /\ UNCHANGED <<pc, call, life, blocking, err, linked, listening, links, messages, adrift, out>>

\* [l_hiredis_get_reply]
GetReply ==
  /\ Idle
  /\ call' = [NoCall EXCEPT !.kind = "getReply", !.left = 1] /\ pc' = "getReply" /\ out' = NoAnswer
  /\ UNCHANGED <<life, blocking, err, stream, linked, listening, issued, links, messages, owed, adrift>>

\* Mutant: the loop reads one reply more than there are commands.
PipelineReadsOneMore ==
  /\ Idle
  /\ \E junk \in BOOLEAN : Put(2, junk)
  /\ call' = [NoCall EXCEPT !.kind = "pipeline", !.id = issued + 1, !.left = 3]
  /\ pc' = "flush" /\ out' = NoAnswer
  /\ UNCHANGED <<life, blocking, err, linked, listening, links, messages, owed, adrift>>

\* [executePipeline] two commands appended, then flushed and their replies read
ExecutePipeline ==
  /\ Idle
  /\ \E junk \in BOOLEAN : Put(2, junk)
  /\ call' = [NoCall EXCEPT !.kind = "pipeline", !.id = issued + 1, !.left = 2] /\ pc' = "flush" /\ out' = NoAnswer
  /\ UNCHANGED <<life, blocking, err, linked, listening, links, messages, owed, adrift>>

\* The call ends without the replies it was made for.
Fail ==
  /\ EndCall
  /\ adrift' = (adrift \/ call.kind = "pipeline")
  /\ UNCHANGED <<owed, out, listening>>

\* [redisGetReply] a reply that is in the reader is returned at once
TakeReply ==
  /\ pc = "getReply" /\ inbuf # <<>>
  /\ LET reply == Head(inbuf)
         last  == call.left = 1 \/ (call.kind = "pipeline" /\ reply.junk)
     IN /\ inbuf' = Tail(inbuf)
        /\ out' = [asked |-> call.id, gotten |-> reply.id, sure |-> ~adrift /\ owed = 0]
        /\ IF last THEN EndCall
           ELSE call' = [call EXCEPT !.id = @ + 1, !.left = @ - 1] /\ UNCHANGED pc
        /\ owed' = IF call.kind = "getReply" /\ owed > 0 THEN owed - 1 ELSE owed
        /\ listening' = (listening \/ (call.kind = "subscribe" /\ linked /\ ~reply.junk))
        /\ adrift' = (adrift \/ (call.kind = "subscribe" /\ ~reply.junk) \/ (last /\ call.left > 1))
  /\ UNCHANGED <<life, blocking, err, obuf, todo, ans, linked, issued, links, messages>>

\* [redisGetReply] else a context that does not block has no reply to give
NoReplyYet ==
  /\ pc = "getReply" /\ inbuf = <<>> /\ ~blocking /\ Fail
  /\ UNCHANGED <<life, blocking, err, stream, linked, issued, links, messages>>

\* [redisGetReply] else everything in obuf is written first
WriteOut ==
  /\ pc = "getReply" /\ inbuf = <<>> /\ blocking
  /\ \/ Written(Len(obuf)) /\ pc' = "await" /\ UNCHANGED <<call, adrift, owed, out, listening>>
     \/ WriteFails /\ Fail
  /\ UNCHANGED <<life, blocking, linked, issued, links, messages>>

\* [redisGetReply] and the socket is read until there is a reply
Await ==
  /\ pc = "await"
  /\ \/ /\ \E n \in 1..Len(ans) : ReadIn(n)
        /\ pc' = "getReply" /\ UNCHANGED <<call, adrift, owed, out, listening>>
     \/ ReadFails /\ Fail
  /\ UNCHANGED <<life, blocking, linked, issued, links, messages>>

\* [l_hiredis_set_timeout] the read gives up; the reply may still come
Timeout ==
  /\ pc = "await" /\ ans = <<>> /\ linked
  /\ err' = "io" /\ Fail
  /\ UNCHANGED <<life, blocking, stream, linked, issued, links, messages>>

\* [l_hiredis_flush_pipeline] in a pipeline; an error is thrown out of it
Flush ==
  /\ pc = "flush"
  /\ \/ Written(Len(obuf)) /\ pc' = "getReply" /\ UNCHANGED <<call, adrift, owed, out, listening>>
     \/ WriteFails /\ Fail
  /\ UNCHANGED <<life, blocking, linked, issued, links, messages>>

\* [l_hiredis_flush_pipeline, l_hiredis_buffer_write] on their own
BufferWrite ==
  /\ Idle
  /\ (\E n \in 0..Len(obuf) : Written(n)) \/ WriteFails
  /\ UNCHANGED <<pc, call, life, blocking, linked, listening, history>>

\* [l_hiredis_buffer_read]
BufferRead ==
  /\ Idle
  /\ (\E n \in 1..Len(ans) : ReadIn(n)) \/ ReadFails
  /\ UNCHANGED <<pc, call, life, blocking, linked, listening, history>>

\* [l_hiredis_get_reply_nonblock] what is in the reader, or none
GetReplyNonblock ==
  /\ Idle /\ inbuf # <<>>
  /\ inbuf' = Tail(inbuf)
  /\ owed' = IF owed > 0 THEN owed - 1 ELSE 0
  /\ UNCHANGED <<pc, call, life, blocking, err, obuf, todo, ans, linked, listening,
                 issued, links, messages, adrift, out>>

-----------------------------------------------------------------------------
Connecting == CreateSslContext \/ Dial \/ Handshake \/ Wrap
Exchanging == TakeReply \/ NoReplyYet \/ WriteOut \/ Await \/ Flush
Calls == Sync \/ AppendCommand \/ GetReply \/ ExecutePipeline \/ BufferWrite \/ BufferRead
           \/ GetReplyNonblock \/ Reconnect \/ ClearError \/ Free
           \/ (\E v \in Variants : Connect(v)) \/ (\E b \in BOOLEAN : SetNonblock(b))

Next == Connecting \/ Exchanging \/ Calls \/ Serve \/ Publish \/ LinkLost \/ Timeout

Spec == Init /\ [][Next]_vars
FairSpec == Spec /\ WF_vars(Connecting) /\ WF_vars(Exchanging) /\ WF_vars(Serve)

-----------------------------------------------------------------------------
TypeOK ==
  /\ pc \in {"idle", "getReply", "await", "flush"} \cup ConnectSteps
  /\ made \subseteq {"ssl", "redis", "wrapper"} /\ handle \in BOOLEAN
  /\ blocking \in BOOLEAN /\ err \in {"none", "io", "eof"}
  /\ linked \in BOOLEAN /\ listening \in BOOLEAN /\ adrift \in BOOLEAN
  /\ issued \in 0..MaxCommands /\ owed \in 0..MaxCommands /\ links \in 0..MaxLinks
  /\ messages \in 0..MaxMessages
  /\ call.left \in 0..2

\* Whatever step of connecting fails, and whenever the program has no handle,
\* nothing that C allocated is left; while it has one, all of it is there.
NothingLeaks ==
  pc = "idle" => IF handle THEN {"redis", "wrapper"} \subseteq made ELSE made = {}

\* A wrapper returns the reply to its own command, on every connection on
\* which no reply is owed to commands that the program appended itself, no
\* error has been cleared, no call was made without blocking, no subscription
\* is active and no pipeline was abandoned: a timeout alone does no harm, and
\* reconnecting repairs all of these.
OwnAnswer == out.sure /\ out.asked # 0 => out.gotten = out.asked

\* The calls that send the commands themselves whose replies they take, and the
\* replies that the program and the call in progress have still to take.
Serving == {"sync", "subscribe", "pipeline"}
Pending == IF call.kind \in Serving THEN call.left ELSE 0
Due == owed + Pending

\* On a link that works exactly the replies are outstanding that somebody is
\* going to take: no call waits for a reply that nobody will send, and none
\* is left in a buffer for the next call, unless the stream is adrift.
RepliesAccounted == linked /\ err = "none" /\ ~adrift => Len(Outstanding) = Due

\* A call for which a reply is outstanding ends, with the reply or an error.
CallsEnd ==
  (pc # "idle" /\ (pc \in ConnectSteps \/ Outstanding # <<>>)) ~> pc = "idle"

-----------------------------------------------------------------------------
(* What an abandoned pipeline does to the calls after it.                  *)

VARIABLES
  strays,  \* replies that pipelines abandoned and nobody has taken since
  loose    \* replies are left behind, or come, for another reason

tvars == <<vars, strays, loose>>

Renewed == pc = "dial" \/ (handle /\ links' # links)
Taken   == inbuf # <<>> /\ inbuf' = Tail(inbuf)

\* An error reply ends a pipeline before its other replies are read; a reply
\* that the program fetches without owing one takes a stray.
CountStrays ==
  /\ loose' = (~blocking' \/ listening' \/ (~Renewed /\ (loose \/ (err # "none" /\ err' = "none"))))
  /\ strays' = IF loose' \/ Renewed THEN 0
               ELSE IF ~Taken THEN strays
               ELSE IF call.kind = "pipeline" /\ pc' = "idle" THEN strays + call.left - 1
               ELSE IF call.kind \notin Serving /\ owed = 0 THEN strays - 1
               ELSE strays

TracedInit == Init /\ strays = 0 /\ loose = FALSE
TracedNext == Next /\ CountStrays
TracedSpec == /\ TracedInit /\ [][TracedNext]_tvars
              /\ WF_vars(Connecting) /\ WF_vars(Exchanging) /\ WF_vars(Serve)

\* executePipeline throws at the first error reply and leaves the rest of the
\* replies unread.  Every later call then returns the reply to the command as
\* many commands before its own as replies were left, neither more nor fewer,
\* through any number of further calls and pipelines, until the program takes
\* the strays or reconnects.
AnswersLag ==
  [][TakeReply /\ call.kind \in Serving /\ owed = 0 /\ ~loose
       => out'.gotten = out'.asked - strays]_tvars

=============================================================================
