---------------------------- MODULE SessionProofs ---------------------------
(***************************************************************************)
(* Proofs about Session for every number of commands, links and messages.  *)
(***************************************************************************)
EXTENDS Session, Integers, TLAPS

Entry == [id : Nat, junk : BOOLEAN]

\* The call in progress, and that the program owes itself no more replies than
\* it has appended commands.
CallKinds == {"none", "sync", "subscribe", "getReply", "pipeline"}
Calling == [kind : CallKinds, id : Nat, left : 0..2, how : Variants]
CallShape ==
  /\ call \in Calling
  /\ pc \in {"getReply", "await", "flush"} => call.left \in 1..2 /\ call.kind # "none"
  /\ pc = "flush" => call.kind = "pipeline"
  /\ pc \in {"idle"} \cup ConnectSteps => call.kind = "none"
  /\ owed <= issued
Buffers ==
  /\ obuf \in Seq(Entry) /\ todo \in Seq(Entry) /\ ans \in Seq(Entry) /\ inbuf \in Seq(Entry)
Base == TypeOK /\ CallShape /\ Buffers
          /\ out \in [asked : Nat, gotten : Nat, sure : BOOLEAN]

\* What has been allocated at every step of connecting.
Allocated ==
  /\ NothingLeaks
  /\ pc = "createSsl" => made = {} /\ call.how.tls
  /\ pc = "dial" => made = IF call.how.tls THEN {"ssl"} ELSE {}
  /\ pc = "handshake" => made = {"ssl", "redis"}
  /\ pc = "wrap" => "redis" \in made /\ "wrapper" \notin made
  /\ pc \in ConnectSteps => ~handle
  /\ pc \notin {"idle"} \cup ConnectSteps => handle /\ {"redis", "wrapper"} \subseteq made

LEMMA Concat ==
  ASSUME NEW s \in Seq(Entry), NEW t \in Seq(Entry)
  PROVE  s \o t \in Seq(Entry)
OBVIOUS

LEMMA Part ==
  ASSUME NEW s \in Seq(Entry), NEW n \in 0..Len(s)
  PROVE  SubSeq(s, 1, n) \in Seq(Entry) /\ SubSeq(s, n + 1, Len(s)) \in Seq(Entry)
OBVIOUS

LEMMA Fresh ==
  ASSUME NEW n \in Nat, NEW k \in Nat, NEW junk \in BOOLEAN
  PROVE  [i \in 1..n |-> [id |-> k + i, junk |-> junk]] \in Seq(Entry)
BY DEF Entry

LEMMA Rest ==
  ASSUME NEW s \in Seq(Entry), s # <<>>
  PROVE  Head(s) \in Entry /\ Tail(s) \in Seq(Entry)
OBVIOUS

-----------------------------------------------------------------------------
(* What a step may do to the bytes between client and server.              *)

Took == inbuf # <<>> /\ inbuf' = Tail(inbuf) /\ UNCHANGED <<obuf, todo, ans>>

Moves ==
  \/ UNCHANGED stream
  \/ \E n \in 0..Len(obuf) : Written(n)
  \/ \E n \in 0..Len(ans) : ReadIn(n)
  \/ \E n \in 1..2, junk \in BOOLEAN : Put(n, junk)
  \/ NewStream
  \/ Took
  \/ LinkLost
  \/ Serve
  \/ Publish

LEMMA StepsMove ==
  ASSUME Base, [Next]_vars
  PROVE  Moves
<1> USE DEF Moves, stream
<1>0. Len(obuf) \in 0..Len(obuf) /\ \A n \in 1..Len(ans) : n \in 0..Len(ans)
  BY DEF Base, Buffers
<1>1. CASE Connecting
  BY <1>1 DEF Connecting, CreateSslContext, Dial, Handshake, Wrap
<1>2. CASE Exchanging
  <2>1. CASE TakeReply
    BY <2>1 DEF TakeReply, Took
  <2>2. CASE NoReplyYet
    BY <2>2 DEF NoReplyYet
  <2>3. CASE WriteOut \/ Flush
    BY <2>3, <1>0 DEF WriteOut, Flush, WriteFails
  <2>4. CASE Await
    BY <2>4, <1>0 DEF Await, ReadFails
  <2> QED BY <1>2, <2>1, <2>2, <2>3, <2>4 DEF Exchanging
<1>3. CASE Calls
  <2>1. CASE Sync
    <3>1. Put(1, FALSE)
      BY <2>1 DEF Sync
    <3>2. \E junk \in BOOLEAN : Put(1, junk)
      BY <3>1, Zenon
    <3> QED BY <3>2
  <2>2. CASE AppendCommand
    BY <2>2 DEF AppendCommand
  <2>3. CASE ExecutePipeline
    BY <2>3 DEF ExecutePipeline
  <2>4. CASE BufferWrite
    BY <2>4 DEF BufferWrite, WriteFails
  <2>5. CASE BufferRead
    BY <2>5, <1>0 DEF BufferRead, ReadFails
  <2>6. CASE GetReplyNonblock
    BY <2>6 DEF GetReplyNonblock, Took
  <2>7. CASE Reconnect
    BY <2>7 DEF Reconnect
  <2>8. CASE GetReply \/ ClearError \/ Free
    BY <2>8 DEF GetReply, ClearError, Free
  <2>9. CASE \E v \in Variants : Connect(v)
    BY <2>9 DEF Connect
  <2>10. CASE \E b \in BOOLEAN : SetNonblock(b)
    BY <2>10 DEF SetNonblock
  <2> QED BY <1>3, <2>1, <2>2, <2>3, <2>4, <2>5, <2>6, <2>7, <2>8, <2>9, <2>10 DEF Calls
<1>4. CASE Timeout
  BY <1>4 DEF Timeout
<1>5. CASE UNCHANGED vars
  BY <1>5 DEF vars
<1> QED
  BY <1>1, <1>2, <1>3, <1>4, <1>5 DEF Next

LEMMA BuffersStep ==
  ASSUME Base, Moves
  PROVE  Buffers'
<1> USE DEF Base, TypeOK, Buffers
<1>1. ASSUME NEW n \in 0..Len(obuf), Written(n) PROVE Buffers'
  BY <1>1, Part, Concat DEF Written
<1>2. ASSUME NEW n \in 0..Len(ans), ReadIn(n) PROVE Buffers'
  BY <1>2, Part, Concat DEF ReadIn
<1>3. ASSUME NEW n \in 1..2, NEW junk \in BOOLEAN, Put(n, junk) PROVE Buffers'
  <2>1. [i \in 1..n |-> [id |-> issued + i, junk |-> junk]] \in Seq(Entry)
    <3>1. issued \in Nat /\ n \in Nat
      BY BoundsAssumption
    <3> HIDE DEF Base, TypeOK, Buffers
    <3> QED BY <3>1, Fresh
  <2>2. obuf \o [i \in 1..n |-> [id |-> issued + i, junk |-> junk]] \in Seq(Entry)
    BY <2>1, Concat
  <2> QED BY <1>3, <2>2 DEF Put
<1>4. CASE Serve
  <2>1. PICK kind \in {"string", "error"} :
          ans' = Append(ans, [id |-> Head(todo).id, junk |-> kind = "error"])
    BY <1>4 DEF Serve
  <2>2. Head(todo) \in Entry /\ Tail(todo) \in Seq(Entry)
    BY <1>4, Rest DEF Serve
  <2>3. [id |-> Head(todo).id, junk |-> kind = "error"] \in Entry
    BY <2>2 DEF Entry
  <2> QED BY <1>4, <2>1, <2>2, <2>3 DEF Serve
<1>5. CASE Publish
  <2>1. [id |-> 0, junk |-> FALSE] \in Entry
    BY DEF Entry
  <2> QED BY <1>5, <2>1 DEF Publish
<1>6. CASE NewStream
  BY <1>6 DEF NewStream
<1>7. CASE Took
  BY <1>7, Rest DEF Took
<1>8. CASE LinkLost
  BY <1>8 DEF LinkLost
<1>9. CASE UNCHANGED stream
  BY <1>9 DEF stream
<1> QED
  BY <1>1, <1>2, <1>3, <1>4, <1>5, <1>6, <1>7, <1>8, <1>9 DEF Moves

-----------------------------------------------------------------------------
(* Types.                                                                  *)

LEMMA Blocks ==
  \A v \in Variants : v.block \in BOOLEAN
<1>1. ConnectPlain.block \in BOOLEAN /\ ConnectSsl.block \in BOOLEAN
  BY DEF ConnectPlain, ConnectSsl, Variant
<1>2. ConnectWithTimeout.block \in BOOLEAN /\ ConnectNonblock.block \in BOOLEAN
  BY DEF ConnectWithTimeout, ConnectNonblock, Variant
<1>3. ConnectUnix.block \in BOOLEAN /\ ConnectUnixWithTimeout.block \in BOOLEAN
        /\ ConnectUnixNonblock.block \in BOOLEAN
  BY DEF ConnectUnix, ConnectUnixWithTimeout, ConnectUnixNonblock, Variant
<1> QED BY <1>1, <1>2, <1>3 DEF Variants

Status ==
  /\ made \subseteq {"ssl", "redis", "wrapper"} /\ handle \in BOOLEAN
  /\ blocking \in BOOLEAN /\ err \in {"none", "io", "eof"}
  /\ linked \in BOOLEAN /\ listening \in BOOLEAN /\ adrift \in BOOLEAN

LEMMA StatusStep ==
  ASSUME Base, [Next]_vars
  PROVE  Status'
<1> USE DEF Base, TypeOK, Status, life, history, stream
<1>1. CASE CreateSslContext
  BY <1>1 DEF CreateSslContext
<1>2. CASE Dial
  <2>1. call.how.block \in BOOLEAN
    BY Blocks DEF CallShape, Calling
  <2> QED BY <1>2, <2>1 DEF Dial, GiveUp, NewStream
<1>3. CASE Handshake
  BY <1>3 DEF Handshake, GiveUp
<1>4. CASE Wrap
  BY <1>4 DEF Wrap, GiveUp
<1>5. CASE TakeReply
  BY <1>5 DEF TakeReply
<1>6. CASE NoReplyYet
  BY <1>6 DEF NoReplyYet, Fail
<1>7. CASE WriteOut
  BY <1>7 DEF WriteOut, Fail, Written, WriteFails
<1>8. CASE Await
  BY <1>8 DEF Await, Fail, ReadIn, ReadFails
<1>9. CASE Flush
  BY <1>9 DEF Flush, Fail, Written, WriteFails
<1>10. CASE Sync \/ AppendCommand \/ GetReply \/ ExecutePipeline
  BY <1>10 DEF Sync, AppendCommand, GetReply, ExecutePipeline, Idle
<1>11. CASE BufferWrite \/ BufferRead \/ GetReplyNonblock
  BY <1>11 DEF BufferWrite, BufferRead, GetReplyNonblock, Written, WriteFails, ReadIn, ReadFails
<1>12. CASE Reconnect \/ ClearError \/ Free
  BY <1>12 DEF Reconnect, ClearError, Free, NewStream
<1>13. ASSUME NEW v \in Variants, Connect(v) PROVE Status'
  BY <1>13 DEF Connect
<1>14. ASSUME NEW b \in BOOLEAN, SetNonblock(b) PROVE Status'
  BY <1>14 DEF SetNonblock
<1>15. CASE Serve \/ Publish \/ LinkLost
  BY <1>15 DEF Serve, Publish, LinkLost
<1>16. CASE Timeout
  BY <1>16 DEF Timeout, Fail
<1>17. CASE UNCHANGED vars
  BY <1>17 DEF vars
<1> QED
  BY <1>1, <1>2, <1>3, <1>4, <1>5, <1>6, <1>7, <1>8, <1>9, <1>10, <1>11, <1>12, <1>13, <1>14,
     <1>15, <1>16, <1>17
  DEF Next, Connecting, Exchanging, Calls

Counts ==
  /\ issued \in 0..MaxCommands /\ owed \in 0..MaxCommands /\ owed <= issued
  /\ links \in 0..MaxLinks /\ messages \in 0..MaxMessages

LEMMA CountsStep ==
  ASSUME Base, [Next]_vars
  PROVE  Counts'
<1> USE BoundsAssumption DEF Base, TypeOK, CallShape, Counts, life, history, stream
<1>1. CASE CreateSslContext
  BY <1>1 DEF CreateSslContext
<1>2. CASE Dial
  BY <1>2 DEF Dial, GiveUp, NewStream
<1>3. CASE Handshake
  BY <1>3 DEF Handshake
<1>4. CASE Wrap
  BY <1>4 DEF Wrap
<1>5. CASE TakeReply
  BY <1>5 DEF TakeReply
<1>6. CASE NoReplyYet
  BY <1>6 DEF NoReplyYet, Fail
<1>7. CASE WriteOut
  BY <1>7 DEF WriteOut, Fail
<1>8. CASE Await
  BY <1>8 DEF Await, Fail
<1>9. CASE Flush
  BY <1>9 DEF Flush, Fail
<1>10. CASE Sync \/ AppendCommand \/ GetReply \/ ExecutePipeline
  <2>1. CASE Sync
    BY <2>1 DEF Sync, Put
  <2>2. CASE AppendCommand
    BY <2>2 DEF AppendCommand, Put
  <2>3. CASE GetReply
    BY <2>3 DEF GetReply
  <2>4. CASE ExecutePipeline
    BY <2>4 DEF ExecutePipeline, Put
  <2> QED BY <1>10, <2>1, <2>2, <2>3, <2>4
<1>11. CASE BufferWrite \/ BufferRead \/ GetReplyNonblock
  BY <1>11 DEF BufferWrite, BufferRead, GetReplyNonblock
<1>12. CASE Reconnect \/ ClearError \/ Free
  BY <1>12 DEF Reconnect, ClearError, Free, NewStream
<1>13. ASSUME NEW v \in Variants, Connect(v) PROVE Counts'
  BY <1>13 DEF Connect
<1>14. ASSUME NEW b \in BOOLEAN, SetNonblock(b) PROVE Counts'
  BY <1>14 DEF SetNonblock
<1>15. CASE Serve \/ Publish \/ LinkLost
  BY <1>15 DEF Serve, Publish, LinkLost
<1>16. CASE Timeout
  BY <1>16 DEF Timeout, Fail
<1>17. CASE UNCHANGED vars
  BY <1>17 DEF vars
<1> QED
  BY <1>1, <1>2, <1>3, <1>4, <1>5, <1>6, <1>7, <1>8, <1>9, <1>10, <1>11, <1>12, <1>13, <1>14,
     <1>15, <1>16, <1>17
  DEF Next, Connecting, Exchanging, Calls

Steps == {"idle", "getReply", "await", "flush"} \cup ConnectSteps
Answers == [asked : Nat, gotten : Nat, sure : BOOLEAN]
CallAndAnswer ==
  /\ pc \in Steps /\ call \in Calling
  /\ pc \in {"getReply", "await", "flush"} => call.left \in 1..2 /\ call.kind # "none"
  /\ pc = "flush" => call.kind = "pipeline"
  /\ pc \in {"idle"} \cup ConnectSteps => call.kind = "none"
  /\ out \in Answers

LEMMA NoCallShape ==
  NoCall \in Calling /\ NoCall.kind = "none" /\ NoAnswer \in Answers
BY DEF NoCall, NoAnswer, Calling, CallKinds, Variants, Answers

LEMMA NewCall ==
  ASSUME NEW how \in Variants, NEW kind \in CallKinds, NEW n \in Nat, NEW left \in 0..2
  PROVE  [kind |-> kind, id |-> n, left |-> left, how |-> how] \in Calling
BY DEF Calling

LEMMA PlainVariant ==
  ConnectPlain \in Variants
BY DEF Variants

LEMMA CallsStep ==
  ASSUME Base, [Next]_vars
  PROVE  CallAndAnswer'
<1> USE NoCallShape, BoundsAssumption DEF CallAndAnswer, Steps, ConnectSteps, life, history, stream
<1>0. CallAndAnswer /\ issued \in Nat /\ owed \in Nat /\ adrift \in BOOLEAN
  BY DEF Base, TypeOK, CallShape, Answers
<1>1. CASE CreateSslContext
  BY <1>0, <1>1 DEF CreateSslContext, EndCall
<1>2. CASE Dial
  BY <1>0, <1>2 DEF Dial, GiveUp, NewStream, EndCall
<1>3. CASE Handshake
  BY <1>0, <1>3 DEF Handshake, GiveUp, EndCall
<1>4. CASE Wrap
  BY <1>0, <1>4 DEF Wrap, GiveUp, EndCall
<1>5. CASE TakeReply
  <2>1. Head(inbuf).id \in Nat
    BY <1>5, Rest DEF Base, Buffers, TakeReply, Entry
  <2>2. out' \in Answers
    BY <1>0, <1>5, <2>1 DEF TakeReply, Calling, Answers
  <2>3. CASE call.left = 1 \/ (call.kind = "pipeline" /\ Head(inbuf).junk)
    BY <1>5, <2>2, <2>3 DEF TakeReply, EndCall
  <2>4. CASE ~(call.left = 1 \/ (call.kind = "pipeline" /\ Head(inbuf).junk))
    <3>1. call' = [call EXCEPT !.id = @ + 1, !.left = @ - 1] /\ pc' = pc /\ pc = "getReply"
      BY <1>5, <2>4 DEF TakeReply
    <3>2. call.left = 2
      BY <1>0, <2>4, <3>1
    <3>3. call' \in Calling /\ call'.left = 1 /\ call'.kind = call.kind
      <4>1. call \in Calling /\ call.id + 1 \in Nat /\ call.left - 1 = 1 /\ 1 \in 0..2 /\ call.kind \in CallKinds
        BY <1>0, <3>2 DEF Calling
      <4>2. call' = [kind |-> call.kind, id |-> call.id + 1, left |-> 1, how |-> call.how]
              /\ call.how \in Variants
        BY <3>1, <4>1 DEF Calling
      <4> QED BY <4>1, <4>2, NewCall
    <3> QED BY <1>0, <2>2, <3>1, <3>3
  <2> QED BY <2>3, <2>4
<1>6. CASE NoReplyYet
  BY <1>0, <1>6 DEF NoReplyYet, Fail, EndCall
<1>7. CASE WriteOut
  BY <1>0, <1>7 DEF WriteOut, Fail, EndCall
<1>8. CASE Await
  BY <1>0, <1>8 DEF Await, Fail, EndCall
<1>9. CASE Flush
  BY <1>0, <1>9 DEF Flush, Fail, EndCall
<1>10. CASE Sync
  <2>1. CASE blocking
    <3>1. PICK kind \in {"sync", "subscribe"} :
            call' = [NoCall EXCEPT !.kind = kind, !.id = issued + 1, !.left = 1]
      BY <1>10, <2>1 DEF Sync
    <3>2. call' \in Calling /\ call'.kind = kind /\ call'.left = 1
      <4>1. issued + 1 \in Nat /\ 1 \in 0..2 /\ kind \in CallKinds
        BY <1>0 DEF CallKinds
      <4>2. call' = [kind |-> kind, id |-> issued + 1, left |-> 1, how |-> ConnectPlain]
        BY <3>1 DEF NoCall
      <4> QED BY <4>1, <4>2, NewCall, PlainVariant
    <3> QED BY <1>10, <2>1, <3>2 DEF Sync
  <2>2. CASE ~blocking
    BY <1>0, <1>10, <2>2 DEF Sync
  <2> QED BY <2>1, <2>2
<1>11. CASE GetReply
  <2>1. call' \in Calling /\ call'.kind = "getReply" /\ call'.left = 1
    <3>1. 0 \in Nat /\ 1 \in 0..2 /\ "getReply" \in CallKinds
      BY DEF CallKinds
    <3>2. call' = [kind |-> "getReply", id |-> 0, left |-> 1, how |-> ConnectPlain]
      BY <1>11 DEF GetReply, NoCall
    <3> QED BY <3>1, <3>2, NewCall, PlainVariant
  <2> QED BY <1>11, <2>1 DEF GetReply
<1>12. CASE ExecutePipeline
  <2>1. call' \in Calling /\ call'.kind = "pipeline" /\ call'.left = 2
    <3>1. issued + 1 \in Nat /\ 2 \in 0..2 /\ "pipeline" \in CallKinds
      BY <1>0 DEF CallKinds
    <3>2. call' = [kind |-> "pipeline", id |-> issued + 1, left |-> 2, how |-> ConnectPlain]
      BY <1>12 DEF ExecutePipeline, NoCall
    <3> QED BY <3>1, <3>2, NewCall, PlainVariant
  <2> QED BY <1>12, <2>1 DEF ExecutePipeline
<1>13. CASE AppendCommand \/ BufferWrite \/ BufferRead \/ GetReplyNonblock
  BY <1>0, <1>13 DEF AppendCommand, BufferWrite, BufferRead, GetReplyNonblock
<1>14. CASE Reconnect \/ ClearError \/ Free
  BY <1>0, <1>14 DEF Reconnect, ClearError, Free, NewStream
<1>15. ASSUME NEW v \in Variants, Connect(v) PROVE CallAndAnswer'
  <2>1. call' \in Calling /\ call'.kind = "none"
    BY <1>15 DEF Connect, NoCall, Calling, CallKinds
  <2> QED BY <1>0, <1>15, <2>1 DEF Connect
<1>16. ASSUME NEW b \in BOOLEAN, SetNonblock(b) PROVE CallAndAnswer'
  BY <1>0, <1>16 DEF SetNonblock
<1>17. CASE Serve \/ Publish \/ LinkLost
  BY <1>0, <1>17 DEF Serve, Publish, LinkLost
<1>18. CASE Timeout
  BY <1>0, <1>18 DEF Timeout, Fail, EndCall
<1>19. CASE UNCHANGED vars
  BY <1>0, <1>19 DEF vars
<1> QED
  BY <1>1, <1>2, <1>3, <1>4, <1>5, <1>6, <1>7, <1>8, <1>9, <1>10, <1>11, <1>12, <1>13, <1>14,
     <1>15, <1>16, <1>17, <1>18, <1>19
  DEF Next, Connecting, Exchanging, Calls

LEMMA BaseInit ==
  Init => Base
<1> SUFFICES ASSUME Init PROVE Base
  OBVIOUS
<1> USE DEF Init
<1>1. TypeOK
  <2>1. call.left = 0
    BY DEF NoCall
  <2>2. 0 \in 0..MaxCommands /\ 0 \in 0..MaxLinks /\ 0 \in 0..MaxMessages /\ 0 \in 0..2
    BY BoundsAssumption
  <2> QED BY <2>1, <2>2 DEF TypeOK
<1>2. CallShape
  BY NoCallShape DEF CallShape, ConnectSteps
<1>3. Buffers
  BY DEF Buffers
<1> QED BY <1>1, <1>2, <1>3, NoCallShape DEF Base, Answers

LEMMA BaseStep ==
  ASSUME Base, [Next]_vars
  PROVE  Base'
<1>1. Buffers'
  BY StepsMove, BuffersStep
<1>2. Status' /\ Counts' /\ CallAndAnswer'
  BY StatusStep, CountsStep, CallsStep
<1>3. TypeOK'
  BY <1>2 DEF Status, Counts, CallAndAnswer, TypeOK, Steps, Calling
<1>4. CallShape'
  BY <1>2 DEF CallShape, CallAndAnswer, Counts
<1> QED BY <1>1, <1>2, <1>3, <1>4 DEF Base, CallAndAnswer, Answers

LEMMA BaseHolds ==
  Spec => []Base
<1>1. Base /\ [Next]_vars => Base'
  BY BaseStep
<1> QED BY <1>1, BaseInit, PTL DEF Spec

\* The variables keep their types, whatever fails: no count passes its bound,
\* and no call has more than two replies to fetch.
THEOREM TypeCorrect == Spec => []TypeOK
<1>1. Base => TypeOK
  BY DEF Base
<1> QED BY <1>1, BaseHolds, PTL

-----------------------------------------------------------------------------
(* Memory.                                                                 *)

LEMMA AllocatedStep ==
  ASSUME Base, Allocated, [Next]_vars
  PROVE  Allocated'
<1> USE DEF Allocated, NothingLeaks, ConnectSteps, EndCall, life
<1>1. CASE CreateSslContext
  BY <1>1 DEF CreateSslContext
<1>2. CASE Dial
  <2>1. CASE GiveUp({"redis", "ssl"})
    <3>1. made' = {}
      BY <1>2, <2>1 DEF Dial, GiveUp
    <3> QED BY <1>2, <2>1, <3>1 DEF Dial, GiveUp
  <2>2. CASE made' = made \cup {"redis"} /\ pc' = IF call.how.tls THEN "handshake" ELSE "wrap"
    <3>1. call.how.tls => made' = {"ssl", "redis"}
      BY <1>2, <2>2 DEF Dial
    <3>2. ~call.how.tls => made' = {"redis"}
      BY <1>2, <2>2 DEF Dial
    <3> QED BY <1>2, <2>2, <3>1, <3>2 DEF Dial
  <2> QED BY <1>2, <2>1, <2>2 DEF Dial
<1>3. CASE Handshake
  BY <1>3 DEF Handshake, GiveUp
<1>4. CASE Wrap
  <2>1. made \subseteq {"ssl", "redis", "wrapper"}
    BY DEF Base, TypeOK
  <2>2. CASE GiveUp({"redis", "ssl"}) /\ UNCHANGED handle
    <3>1. made' = {}
      BY <1>4, <2>1, <2>2 DEF Wrap, GiveUp
    <3> QED BY <1>4, <2>2, <3>1 DEF Wrap, GiveUp
  <2>3. CASE made' = made \cup {"wrapper"} /\ handle' = TRUE /\ EndCall
    BY <1>4, <2>3 DEF Wrap
  <2> QED BY <1>4, <2>2, <2>3 DEF Wrap
<1>5. CASE TakeReply
  BY <1>5 DEF TakeReply
<1>6. CASE NoReplyYet
  BY <1>6 DEF NoReplyYet, Fail
<1>7. CASE WriteOut
  BY <1>7 DEF WriteOut, Fail
<1>8. CASE Await
  BY <1>8 DEF Await, Fail
<1>9. CASE Flush
  BY <1>9 DEF Flush, Fail
<1>10. CASE Sync \/ AppendCommand \/ GetReply \/ ExecutePipeline
  BY <1>10 DEF Sync, AppendCommand, GetReply, ExecutePipeline, Idle
<1>11. CASE BufferWrite \/ BufferRead \/ GetReplyNonblock
  BY <1>11 DEF BufferWrite, BufferRead, GetReplyNonblock
<1>12. CASE Reconnect \/ ClearError
  BY <1>12 DEF Reconnect, ClearError
<1>13. CASE Free
  BY <1>13 DEF Free, Idle
<1>14. ASSUME NEW v \in Variants, Connect(v) PROVE Allocated'
  BY <1>14 DEF Connect
<1>15. ASSUME NEW b \in BOOLEAN, SetNonblock(b) PROVE Allocated'
  BY <1>15 DEF SetNonblock
<1>16. CASE Serve \/ Publish \/ LinkLost
  BY <1>16 DEF Serve, Publish, LinkLost
<1>17. CASE Timeout
  BY <1>17 DEF Timeout, Fail
<1>18. CASE UNCHANGED vars
  BY <1>18 DEF vars
<1> QED
  BY <1>1, <1>2, <1>3, <1>4, <1>5, <1>6, <1>7, <1>8, <1>9, <1>10, <1>11, <1>12, <1>13, <1>14,
     <1>15, <1>16, <1>17, <1>18
  DEF Next, Connecting, Exchanging, Calls

\* Whichever step of connecting fails, all that was allocated before it is
\* freed, and a program that holds a handle has the objects behind it.
THEOREM NothingIsLeaked == Spec => []NothingLeaks
<1>1. Init => Allocated
  BY DEF Init, Allocated, NothingLeaks, ConnectSteps
<1>2. Base /\ Allocated /\ [Next]_vars => Allocated'
  BY AllocatedStep
<1>3. Allocated => NothingLeaks
  BY DEF Allocated
<1> QED BY <1>1, <1>2, <1>3, BaseHolds, PTL DEF Spec

-----------------------------------------------------------------------------
(* A call returns its own answer, and the replies outstanding are those    *)
(* that somebody is going to take.                                         *)

\* The entries of s are those of consecutive commands, the first from + 1.
Counted(s, from) == \A i \in DOMAIN s : s[i].id = from + i

LEMMA CountedEmpty ==
  ASSUME NEW from
  PROVE  Counted(<<>>, from)
BY DEF Counted

LEMMA CountedHead ==
  ASSUME NEW s \in Seq(Entry), NEW from \in Int, s # <<>>, Counted(s, from)
  PROVE  /\ Head(s).id = from + 1
         /\ Counted(Tail(s), from + 1)
         /\ Len(Tail(s)) = Len(s) - 1
<1>1. Head(s) = s[1] /\ 1 \in DOMAIN s
  OBVIOUS
<1>2. Len(Tail(s)) = Len(s) - 1 /\ \A i \in 1..Len(s) - 1 : Tail(s)[i] = s[i + 1]
  OBVIOUS
<1>3. DOMAIN Tail(s) = 1..Len(s) - 1
  OBVIOUS
<1>4. ASSUME NEW i \in DOMAIN Tail(s) PROVE Tail(s)[i].id = from + 1 + i
  <2>1. i \in 1..Len(s) - 1 /\ i + 1 \in DOMAIN s
    BY <1>3
  <2>2. s[i + 1].id = from + (i + 1)
    BY <2>1 DEF Counted
  <2> QED BY <1>2, <2>1, <2>2
<1> QED BY <1>1, <1>2, <1>4 DEF Counted

LEMMA CountedPart ==
  ASSUME NEW s \in Seq(Entry), NEW from \in Int, NEW n \in 0..Len(s), Counted(s, from)
  PROVE  /\ Counted(SubSeq(s, 1, n), from)
         /\ Counted(SubSeq(s, n + 1, Len(s)), from + n)
         /\ Len(SubSeq(s, 1, n)) = n
         /\ Len(SubSeq(s, n + 1, Len(s))) = Len(s) - n
<1>1. /\ Len(SubSeq(s, 1, n)) = n /\ DOMAIN SubSeq(s, 1, n) = 1..n
      /\ \A i \in 1..n : SubSeq(s, 1, n)[i] = s[i]
  OBVIOUS
<1>2. /\ Len(SubSeq(s, n + 1, Len(s))) = Len(s) - n
      /\ DOMAIN SubSeq(s, n + 1, Len(s)) = 1..Len(s) - n
      /\ \A i \in 1..Len(s) - n : SubSeq(s, n + 1, Len(s))[i] = s[n + i]
  OBVIOUS
<1>3. Counted(SubSeq(s, 1, n), from)
  BY <1>1 DEF Counted
<1>4. Counted(SubSeq(s, n + 1, Len(s)), from + n)
  BY <1>2 DEF Counted
<1> QED BY <1>1, <1>2, <1>3, <1>4

LEMMA CountedConcat ==
  ASSUME NEW s \in Seq(Entry), NEW t \in Seq(Entry), NEW from \in Int,
         Counted(s, from), Counted(t, from + Len(s))
  PROVE  Counted(s \o t, from) /\ Len(s \o t) = Len(s) + Len(t)
<1>1. /\ Len(s \o t) = Len(s) + Len(t) /\ DOMAIN (s \o t) = 1..Len(s) + Len(t)
      /\ \A i \in 1..Len(s) + Len(t) : (s \o t)[i] = IF i <= Len(s) THEN s[i] ELSE t[i - Len(s)]
  OBVIOUS
<1>2. ASSUME NEW i \in DOMAIN (s \o t) PROVE (s \o t)[i].id = from + i
  <2>1. CASE i <= Len(s)
    BY <1>1, <2>1 DEF Counted
  <2>2. CASE ~(i <= Len(s))
    <3>1. i - Len(s) \in DOMAIN t
      BY <1>1, <2>2
    <3> QED BY <1>1, <2>2, <3>1 DEF Counted
  <2> QED BY <2>1, <2>2
<1> QED BY <1>1, <1>2 DEF Counted

LEMMA CountedAppend ==
  ASSUME NEW s \in Seq(Entry), NEW e \in Entry, NEW from \in Int,
         Counted(s, from), e.id = from + Len(s) + 1
  PROVE  Counted(Append(s, e), from) /\ Len(Append(s, e)) = Len(s) + 1
<1>1. /\ Len(Append(s, e)) = Len(s) + 1 /\ DOMAIN Append(s, e) = 1..Len(s) + 1
      /\ \A i \in 1..Len(s) : Append(s, e)[i] = s[i]
      /\ Append(s, e)[Len(s) + 1] = e
  OBVIOUS
<1>2. ASSUME NEW i \in DOMAIN Append(s, e) PROVE Append(s, e)[i].id = from + i
  <2>1. CASE i \in 1..Len(s)
    BY <1>1, <2>1 DEF Counted
  <2>2. CASE i = Len(s) + 1
    BY <1>1, <2>2
  <2> QED BY <1>1, <2>1, <2>2
<1> QED BY <1>1, <1>2 DEF Counted

LEMMA CountedFresh ==
  ASSUME NEW n \in Nat, NEW k \in Nat, NEW junk \in BOOLEAN
  PROVE  /\ Counted([i \in 1..n |-> [id |-> k + i, junk |-> junk]], k)
         /\ Len([i \in 1..n |-> [id |-> k + i, junk |-> junk]]) = n
<1>1. [i \in 1..n |-> [id |-> k + i, junk |-> junk]] \in Seq(Entry)
  BY Fresh
<1>2. Counted([i \in 1..n |-> [id |-> k + i, junk |-> junk]], k)
  BY DEF Counted
<1> QED BY <1>1, <1>2

-----------------------------------------------------------------------------
(* A call returns its own answer.                                          *)

\* The number of the last command whose reply was taken.
From == issued - Due

\* Replies are taken in the order of commands, and none is skipped: at most Due
\* are on their way, all of them while the link is up.
Reader == From >= 0 /\ Counted(inbuf, From) /\ Len(inbuf) <= Due
Socket == Counted(ans, From + Len(inbuf)) /\ Len(inbuf) + Len(ans) <= Due
Wire ==
  /\ Counted(todo, From + Len(inbuf) + Len(ans))
  /\ Counted(obuf, From + Len(inbuf) + Len(ans) + Len(todo))
  /\ Len(inbuf) + Len(ans) + Len(todo) + Len(obuf) = Due
Aligned ==
  /\ Reader
  /\ err = "none" => Socket
  /\ err = "none" /\ linked => Wire
CallAligned ==
  /\ listening => adrift
  /\ call.kind \in Serving => call.id + call.left = issued + 1
  /\ call.kind \notin Serving => call.id = 0
  /\ call.kind \in {"sync", "subscribe"} => blocking
  /\ call.kind \in {"sync", "subscribe", "getReply"} => call.left = 1
  /\ pc = "await" => err = "none" /\ inbuf = <<>>

LEMMA CountsTyped ==
  ASSUME Base
  PROVE  /\ issued \in Nat /\ owed \in Nat /\ Pending \in Nat /\ Due \in Nat /\ From \in Int
         /\ Len(inbuf) \in Nat /\ Len(ans) \in Nat /\ Len(todo) \in Nat /\ Len(obuf) \in Nat
<1>1. issued \in Nat /\ owed \in Nat
  BY BoundsAssumption DEF Base, TypeOK
<1>2. Pending \in Nat
  BY DEF Base, TypeOK, Pending
<1>3. Len(inbuf) \in Nat /\ Len(ans) \in Nat /\ Len(todo) \in Nat /\ Len(obuf) \in Nat
  BY DEF Base, Buffers
<1> QED BY <1>1, <1>2, <1>3 DEF Due, From

LEMMA StreamStays ==
  ASSUME Base, Aligned, UNCHANGED stream, issued' = issued, Due' = Due,
         err' = "none" => err = "none",
         err' = "none" /\ linked' => linked
  PROVE  Aligned'
<1>1. From' = From
  BY DEF From
<1> HIDE DEF Due, From
<1> QED BY <1>1 DEF Aligned, Reader, Socket, Wire, stream

LEMMA TakenFirst ==
  ASSUME Base, Aligned, Took, issued' = issued, Due' = Due - 1,
         UNCHANGED <<err, linked>>
  PROVE  Aligned' /\ Head(inbuf).id = From + 1
<1>1. From' = From + 1
  BY CountsTyped DEF From
<1>2. inbuf \in Seq(Entry) /\ inbuf # <<>> /\ Counted(inbuf, From)
  BY DEF Base, Buffers, Took, Aligned, Reader
<1>3. /\ Head(inbuf).id = From + 1 /\ Counted(inbuf', From + 1)
      /\ Len(inbuf') = Len(inbuf) - 1
  BY <1>2, CountsTyped, CountedHead DEF Took
<1>4. From' + Len(inbuf') = From + Len(inbuf)
  BY <1>1, <1>3, CountsTyped
<1>5. Reader'
  BY <1>1, <1>3, CountsTyped DEF Aligned, Reader
<1>6. Socket => Socket'
  BY <1>3, <1>4, CountsTyped DEF Socket, Took
<1>7. Wire => Wire'
  BY <1>3, <1>4, CountsTyped DEF Wire, Took
<1> QED BY <1>3, <1>5, <1>6, <1>7 DEF Aligned

LEMMA WrittenOn ==
  ASSUME Base, Aligned, NEW n \in 0..Len(obuf), Written(n), issued' = issued, Due' = Due,
         linked' = linked
  PROVE  Aligned'
<1>1. From' = From
  BY DEF From
<1>2. Reader' /\ Socket'
  BY <1>1 DEF Aligned, Reader, Socket, Written
<1>3. CASE linked
  <2>1. Wire
    BY <1>3 DEF Aligned, Written
  <2>2. obuf \in Seq(Entry) /\ todo \in Seq(Entry)
    BY DEF Base, Buffers
  <2> DEFINE front == SubSeq(obuf, 1, n)
             back == SubSeq(obuf, n + 1, Len(obuf))
             k == From + Len(inbuf) + Len(ans)
  <2>3. k \in Int /\ k + Len(todo) \in Int
    BY CountsTyped
  <2>4. /\ Counted(front, k + Len(todo)) /\ Counted(back, k + Len(todo) + n)
        /\ Len(front) = n /\ Len(back) = Len(obuf) - n
    BY <2>1, <2>2, <2>3, CountedPart DEF Wire
  <2>5. front \in Seq(Entry)
    BY <2>2, Part
  <2>6. Counted(todo \o front, k) /\ Len(todo \o front) = Len(todo) + n
    <3> HIDE DEF k, front
    <3> QED BY <2>1, <2>2, <2>3, <2>4, <2>5, CountedConcat DEF Wire, k
  <2>7. todo' = todo \o front /\ obuf' = back /\ UNCHANGED <<inbuf, ans>>
    BY <1>3 DEF Written
  <2>8. k + Len(todo') = k + Len(todo) + n /\ k' = k
    BY <1>1, <2>3, <2>6, <2>7, CountsTyped
  <2>9. Counted(todo', k') /\ Counted(obuf', k' + Len(todo'))
    <3> HIDE DEF k, front, back
    <3> QED BY <2>4, <2>6, <2>7, <2>8
  <2>10. Len(inbuf') + Len(ans') + Len(todo') + Len(obuf') = Due'
    <3> HIDE DEF k, front, back
    <3>1. Len(inbuf) + Len(ans) + Len(todo) + Len(obuf) = Due
      BY <2>1 DEF Wire
    <3>2. /\ Len(todo') = Len(todo) + n /\ Len(obuf') = Len(obuf) - n
          /\ Len(inbuf') = Len(inbuf) /\ Len(ans') = Len(ans)
      BY <2>4, <2>6, <2>7
    <3> HIDE DEF Due
    <3> QED BY <3>1, <3>2, CountsTyped
  <2>11. Wire'
    BY <2>9, <2>10 DEF Wire
  <2> QED BY <1>2, <2>11 DEF Aligned
<1> QED BY <1>2, <1>3 DEF Aligned

LEMMA ReadOn ==
  ASSUME Base, Aligned, NEW n \in 0..Len(ans), ReadIn(n), issued' = issued, Due' = Due,
         linked' = linked
  PROVE  Aligned'
<1>1. From' = From
  BY DEF From
<1>2. inbuf \in Seq(Entry) /\ ans \in Seq(Entry)
  BY DEF Base, Buffers
<1>3. Reader /\ Socket
  BY DEF Aligned, ReadIn
<1> DEFINE front == SubSeq(ans, 1, n)
           back == SubSeq(ans, n + 1, Len(ans))
<1>4. /\ Counted(front, From + Len(inbuf)) /\ Counted(back, From + Len(inbuf) + n)
      /\ Len(front) = n /\ Len(back) = Len(ans) - n
  BY <1>2, <1>3, CountsTyped, CountedPart DEF Socket
<1>5. front \in Seq(Entry)
  BY <1>2, Part
<1> HIDE DEF front, back
<1>6. Counted(inbuf \o front, From) /\ Len(inbuf \o front) = Len(inbuf) + n
  BY <1>2, <1>3, <1>4, <1>5, CountsTyped, CountedConcat DEF Reader
<1>7. inbuf' = inbuf \o front /\ ans' = back /\ UNCHANGED <<err, obuf, todo>>
  BY DEF ReadIn, front, back
<1>8. Len(inbuf') = Len(inbuf) + n /\ Len(ans') = Len(ans) - n
  BY <1>4, <1>6, <1>7
<1>9. Len(inbuf') + Len(ans') = Len(inbuf) + Len(ans)
        /\ From' + Len(inbuf') = From + Len(inbuf) + n
        /\ From' + Len(inbuf') + Len(ans') = From + Len(inbuf) + Len(ans)
        /\ Len(inbuf') <= Len(inbuf) + Len(ans)
  BY <1>1, <1>8, CountsTyped
<1>10. Reader'
  BY <1>1, <1>3, <1>6, <1>7, <1>9, CountsTyped DEF Reader, Socket
<1>11. Socket'
  BY <1>3, <1>4, <1>7, <1>9 DEF Socket
<1>12. Wire => Wire'
  BY <1>7, <1>9 DEF Wire
<1> QED BY <1>7, <1>10, <1>11, <1>12 DEF Aligned

LEMMA PutOn ==
  ASSUME Base, Aligned, NEW n \in 1..2, NEW junk \in BOOLEAN, Put(n, junk), Due' = Due + n,
         UNCHANGED <<err, linked>>
  PROVE  Aligned'
<1>1. n \in Nat /\ issued' = issued + n /\ UNCHANGED <<todo, ans, inbuf>>
  BY DEF Put
<1>2. From' = From
  BY <1>1, CountsTyped DEF From
<1> DEFINE new == [i \in 1..n |-> [id |-> issued + i, junk |-> junk]]
<1>3. obuf' = obuf \o new
  BY DEF Put
<1>4. new \in Seq(Entry)
  BY <1>1, CountsTyped, Fresh
<1>5. Counted(new, issued) /\ Len(new) = n
  BY <1>1, CountsTyped, CountedFresh, SMTT(30)
<1> HIDE DEF new
<1>6. Reader => Reader'
  BY <1>1, <1>2, CountsTyped DEF Reader
<1>7. Socket => Socket'
  BY <1>1, <1>2, CountsTyped DEF Socket
<1>8. ASSUME Wire PROVE Wire'
  <2> DEFINE k == From + Len(inbuf) + Len(ans) + Len(todo)
  <2>1. Len(inbuf) + Len(ans) + Len(todo) + Len(obuf) = Due
    BY <1>8 DEF Wire
  <2>2. k \in Int /\ k + Len(obuf) = issued
    <3>1. From + Due = issued
      BY CountsTyped DEF From
    <3> QED BY <2>1, <3>1, CountsTyped, SMTT(30)
  <2>3. Counted(obuf, k) /\ obuf \in Seq(Entry)
    BY <1>8 DEF Wire, Base, Buffers
  <2>4. Counted(obuf \o new, k) /\ Len(obuf \o new) = Len(obuf) + n
    <3> HIDE DEF k
    <3> QED BY <1>4, <1>5, <2>2, <2>3, CountedConcat
  <2>5. Len(inbuf') + Len(ans') + Len(todo') + Len(obuf') = Due'
    BY <1>1, <1>3, <2>1, <2>4, CountsTyped
  <2> QED BY <1>1, <1>2, <1>3, <1>8, <2>4, <2>5 DEF Wire
<1> QED BY <1>6, <1>7, <1>8 DEF Aligned

LEMMA NewlyAligned ==
  ASSUME NewStream, Due' = 0
  PROVE  Aligned'
<1>1. From' = 0
  BY DEF NewStream, From
<1>2. /\ Len(inbuf') = 0 /\ Len(ans') = 0 /\ Len(todo') = 0 /\ Len(obuf') = 0
      /\ inbuf' = <<>> /\ ans' = <<>> /\ todo' = <<>> /\ obuf' = <<>>
  BY DEF NewStream
<1>3. Reader' /\ Socket' /\ Wire'
  BY <1>1, <1>2, CountedEmpty DEF Reader, Socket, Wire
<1> QED BY <1>3 DEF Aligned

LEMMA GivenUp ==
  ASSUME Base, Aligned, inbuf' = <<>>, From' >= 0, Due' >= 0, err' # "none"
  PROVE  Aligned'
<1>1. Len(inbuf') = 0
  OBVIOUS
<1> QED BY <1>1, CountedEmpty DEF Aligned, Reader

LEMMA Served ==
  ASSUME Base, Aligned, Serve, issued' = issued, Due' = Due
  PROVE  Aligned'
<1>1. From' = From
  BY DEF From
<1>2. UNCHANGED <<inbuf, obuf, err, linked>> /\ linked
  BY DEF Serve
<1>3. Reader'
  BY <1>1, <1>2 DEF Aligned, Reader
<1>4. ASSUME err = "none" PROVE Socket' /\ Wire'
  <2>1. Socket /\ Wire
    BY <1>2, <1>4 DEF Aligned
  <2>2. PICK junk : ans' = Append(ans, [id |-> Head(todo).id, junk |-> junk]) /\ junk \in BOOLEAN
    BY DEF Serve
  <2> DEFINE e == [id |-> Head(todo).id, junk |-> junk]
             k == From + Len(inbuf)
  <2>3. todo \in Seq(Entry) /\ ans \in Seq(Entry) /\ todo # <<>> /\ todo' = Tail(todo)
    BY DEF Serve, Base, Buffers
  <2>4. e \in Entry /\ e.id = Head(todo).id
    BY <2>2, <2>3, Rest DEF Entry
  <2>5. k \in Int /\ k + Len(ans) \in Int /\ k' = k
    BY <1>1, <1>2, CountsTyped
  <2> HIDE DEF e, k
  <2>6. /\ Head(todo).id = k + Len(ans) + 1
        /\ Counted(Tail(todo), k + Len(ans) + 1)
        /\ Len(Tail(todo)) = Len(todo) - 1
    BY <2>1, <2>3, <2>5, CountedHead DEF Wire, k
  <2>7. Counted(ans', k) /\ Len(ans') = Len(ans) + 1
    BY <2>1, <2>2, <2>3, <2>4, <2>5, <2>6, CountedAppend DEF Socket, e, k
  <2>8. Len(inbuf') + Len(ans') <= Due'
    BY <1>2, <2>1, <2>7, CountsTyped, <2>3 DEF Wire
  <2>9. k' + Len(ans') = k + Len(ans) + 1
    BY <2>5, <2>7, CountsTyped
  <2>10. Counted(todo', k' + Len(ans'))
    BY <2>3, <2>6, <2>9
  <2>11. k' + Len(ans') + Len(todo') = k + Len(ans) + Len(todo)
    <3>1. Len(todo') = Len(todo) - 1
      BY <2>3, <2>6
    <3>2. /\ k \in Int /\ Len(ans) \in Int /\ Len(todo) \in Int
          /\ k' + Len(ans') = k + Len(ans) + 1
      BY <2>5, <2>9, CountsTyped
    <3> QED BY <3>1, <3>2
  <2>12. Counted(obuf', k' + Len(ans') + Len(todo'))
    BY <1>2, <2>1, <2>11 DEF Wire, k
  <2>13. Len(inbuf') + Len(ans') + Len(todo') + Len(obuf') = Due'
    BY <1>2, <2>1, <2>3, <2>6, <2>7, CountsTyped DEF Wire
  <2>14. Socket'
    BY <2>5, <2>7, <2>8 DEF Socket, k
  <2>15. Wire'
    BY <2>10, <2>12, <2>13 DEF Wire, k
  <2> QED BY <2>14, <2>15
<1> QED BY <1>2, <1>3, <1>4 DEF Aligned

\* A step that starts no call and ends none.
LEMMA CallStays ==
  ASSUME CallAligned, UNCHANGED <<call, issued>>, pc' = pc, blocking' = blocking,
         err' = err, pc = "await" => inbuf' = inbuf, listening' => adrift'
  PROVE  CallAligned'
BY DEF CallAligned, Serving

\* A step after which no call is in progress.
LEMMA CallOver ==
  ASSUME call' = NoCall, pc' # "await", listening' => adrift'
  PROVE  CallAligned' /\ Pending' = 0
BY DEF CallAligned, Serving, NoCall, Pending

LEMMA CallAlignedStep ==
  ASSUME Base, CallAligned, [Next]_vars
  PROVE  CallAligned'
<1> USE DEF CallAligned, Serving, life, history
<1>0. issued \in Nat /\ call.id \in Nat /\ call.left \in 0..2
  BY BoundsAssumption DEF Base, TypeOK, CallShape, Calling
<1>00. pc \in {"idle"} \cup ConnectSteps => call.kind = "none"
  BY DEF Base, CallShape
<1>1. CASE Connecting
  <2>1. listening' => adrift'
    BY <1>1, <1>00 DEF Connecting, CreateSslContext, Dial, Handshake, Wrap, ConnectSteps, NewStream,
       GiveUp
  <2>2. call' = call \/ call' = NoCall
    BY <1>1 DEF Connecting, CreateSslContext, Dial, Handshake, Wrap, GiveUp, EndCall
  <2>3. pc' # "await"
    BY <1>1 DEF Connecting, CreateSslContext, Dial, Handshake, Wrap, GiveUp, EndCall
  <2>4. CASE call' = NoCall
    BY <2>1, <2>3, <2>4 DEF NoCall
  <2>5. CASE call' = call
    <3>1. call.kind = "none"
      BY <1>1, <1>00 DEF Connecting, CreateSslContext, Dial, Handshake, Wrap, ConnectSteps
    <3> QED BY <2>1, <2>3, <2>5, <3>1
  <2> QED BY <2>2, <2>4, <2>5
<1>2. ASSUME Fail, listening => adrift PROVE CallAligned'
  BY <1>2, CallOver DEF Fail, EndCall
<1>3. CASE TakeReply
  <2>1. listening' => adrift'
    BY <1>3 DEF TakeReply
  <2>2. CASE EndCall
    BY <2>1, <2>2, CallOver DEF EndCall
  <2>3. CASE ~EndCall
    <3>1. /\ call' = [call EXCEPT !.id = @ + 1, !.left = @ - 1] /\ pc' = "getReply"
          /\ call.left # 1 /\ pc = "getReply" /\ issued' = issued /\ blocking' = blocking
      BY <1>3, <2>3 DEF TakeReply
    <3>2. call.left = 2 /\ call \in Calling /\ call.kind # "none"
      BY <3>1 DEF Base, CallShape
    <3>3. call.kind = "pipeline"
      BY <3>2 DEF Calling, CallKinds
    <3>4. call'.kind = "pipeline" /\ call'.id = call.id + 1 /\ call'.left = 1
      BY <3>1, <3>2, <3>3 DEF Calling
    <3>5. call'.id + call'.left = issued' + 1
      BY <1>0, <3>1, <3>2, <3>3, <3>4
    <3> QED BY <2>1, <3>1, <3>4, <3>5
  <2> QED BY <2>2, <2>3
<1>4. CASE NoReplyYet
  BY <1>2, <1>4 DEF NoReplyYet
<1>5. CASE WriteOut
  <2>1. CASE Fail
    BY <1>2, <2>1
  <2>2. CASE Written(Len(obuf)) /\ pc' = "await" /\ UNCHANGED <<call, adrift, owed, out, listening>>
    BY <1>5, <2>2 DEF WriteOut, Written
  <2> QED BY <1>5, <2>1, <2>2 DEF WriteOut
<1>6. CASE Await
  <2>1. CASE Fail
    BY <1>2, <2>1
  <2>2. CASE pc' = "getReply" /\ UNCHANGED <<call, adrift, owed, out, listening>>
    BY <1>6, <2>2 DEF Await
  <2> QED BY <1>6, <2>1, <2>2 DEF Await
<1>7. CASE Flush
  <2>1. CASE Fail
    BY <1>2, <2>1
  <2>2. CASE pc' = "getReply" /\ UNCHANGED <<call, adrift, owed, out, listening>>
    BY <1>7, <2>2 DEF Flush
  <2> QED BY <1>7, <2>1, <2>2 DEF Flush
<1>8. CASE Timeout
  BY <1>2, <1>8 DEF Timeout
<1>9. CASE Sync
  <2>1. CASE blocking
    <3>1. PICK kind \in {"sync", "subscribe"} :
            call' = [NoCall EXCEPT !.kind = kind, !.id = issued + 1, !.left = 1]
      BY <1>9, <2>1 DEF Sync
    <3>2. call'.kind = kind /\ call'.id = issued + 1 /\ call'.left = 1
      BY <3>1 DEF NoCall
    <3>3. issued' = issued + 1 /\ pc' = "getReply" /\ blocking' = blocking
            /\ listening' = listening /\ adrift' = adrift
      BY <1>9, <2>1 DEF Sync, Put
    <3>4. call'.id + call'.left = issued' + 1
      BY <1>0, <3>2, <3>3
    <3> QED BY <2>1, <3>2, <3>3, <3>4
  <2>2. CASE ~blocking
    BY <1>00, <1>9, <2>2 DEF Sync, Idle
  <2> QED BY <2>1, <2>2
<1>10. CASE GetReply
  <2>1. call'.kind = "getReply" /\ call'.id = 0 /\ call'.left = 1
    BY <1>10 DEF GetReply, NoCall
  <2> QED BY <1>10, <2>1 DEF GetReply
<1>11. CASE ExecutePipeline
  <2>1. call'.kind = "pipeline" /\ call'.id = issued + 1 /\ call'.left = 2
    BY <1>11 DEF ExecutePipeline, NoCall
  <2>2. issued' = issued + 2
    BY <1>11 DEF ExecutePipeline, Put
  <2>3. call'.id + call'.left = issued' + 1
    BY <1>0, <2>1, <2>2
  <2> QED BY <1>11, <2>1, <2>3 DEF ExecutePipeline
<1>12. CASE AppendCommand \/ BufferWrite \/ BufferRead \/ GetReplyNonblock
  <2>1. pc = "idle" /\ pc' = pc /\ call' = call /\ listening' = listening /\ adrift' = adrift
    BY <1>12 DEF AppendCommand, BufferWrite, BufferRead, GetReplyNonblock, Idle
  <2> QED BY <1>00, <2>1
<1>13. CASE Reconnect \/ ClearError \/ Free
  <2>1. pc = "idle" /\ pc' = pc /\ call' = call /\ (listening' => adrift')
    BY <1>13 DEF Reconnect, ClearError, Free, Idle, NewStream
  <2> QED BY <1>00, <2>1
<1>14. ASSUME NEW v \in Variants, Connect(v) PROVE CallAligned'
  <2>1. call'.kind = "none" /\ call'.id = 0 /\ pc' # "await"
    BY <1>14 DEF Connect, NoCall
  <2> QED BY <1>14, <2>1 DEF Connect
<1>15. ASSUME NEW b \in BOOLEAN, SetNonblock(b) PROVE CallAligned'
  <2>1. pc = "idle" /\ pc' = pc /\ call' = call /\ listening' = listening /\ adrift' = adrift
    BY <1>15 DEF SetNonblock, Idle
  <2> QED BY <1>00, <2>1
<1>16. CASE Serve \/ Publish \/ LinkLost
  BY <1>16 DEF Serve, Publish, LinkLost
<1>17. CASE UNCHANGED vars
  BY <1>17 DEF vars, stream
<1> QED
  BY <1>1, <1>3, <1>4, <1>5, <1>6, <1>7, <1>8, <1>9, <1>10, <1>11, <1>12, <1>13, <1>14,
     <1>15, <1>16, <1>17
  DEF Next, Exchanging, Calls

LEMMA AlignedStep ==
  ASSUME Base, Base', CallAligned, CallAligned', ~adrift => Aligned, [Next]_vars, ~adrift'
  PROVE  Aligned'
<1> USE DEF life, history
<1>1. /\ issued \in Nat /\ owed \in Nat /\ Pending \in Nat /\ Due \in Nat /\ From \in Int
      /\ owed <= issued /\ Due = owed + Pending
  BY CountsTyped DEF Base, CallShape, Due
<1>2. /\ pc \in {"idle"} \cup ConnectSteps => Pending = 0
      /\ pc' \in {"idle"} \cup ConnectSteps => Pending' = 0
  BY DEF Base, CallShape, Pending, Serving
<1>3. ASSUME call' = call, owed' = owed PROVE Due' = Due
  BY <1>3 DEF Due, Pending
<1>4. ASSUME Fail, ~adrift, inbuf' = <<>>, err' # "none", issued' = issued
      PROVE  Aligned'
  <2>1. owed' = owed /\ issued' = issued /\ Pending' = 0
    BY <1>4, CallOver DEF Fail, EndCall, Pending, Serving, NoCall
  <2>2. From' >= 0 /\ Due' >= 0
    BY <1>1, <2>1 DEF From, Due
  <2> QED BY <1>4, <2>2, GivenUp
<1>5. ASSUME pc \in ConnectSteps, UNCHANGED <<err, stream, linked, issued, owed, adrift>>,
             Pending' = 0
      PROVE  Aligned'
  <2>1. Due' = Due
    BY <1>1, <1>2, <1>5 DEF Due
  <2> QED BY <1>5, <2>1, StreamStays
<1>6. CASE CreateSslContext
  <2>1. Pending' = 0
    BY <1>2, <1>6 DEF CreateSslContext, EndCall, ConnectSteps
  <2> QED BY <1>5, <1>6, <2>1 DEF CreateSslContext, ConnectSteps
<1>7. CASE Dial
  <2>1. Pending' = 0
    BY <1>2, <1>7 DEF Dial, GiveUp, EndCall, ConnectSteps
  <2>2. CASE NewStream
    <3>1. Due' = 0
      BY <2>1, <2>2 DEF NewStream, Due
    <3> QED BY <2>2, <3>1, NewlyAligned
  <2>3. CASE ~NewStream
    BY <1>5, <1>7, <2>1, <2>3 DEF Dial, ConnectSteps
  <2> QED BY <2>2, <2>3
<1>8. CASE Handshake
  <2>1. Pending' = 0
    BY <1>2, <1>8 DEF Handshake, GiveUp, EndCall, ConnectSteps
  <2> QED BY <1>5, <1>8, <2>1 DEF Handshake, ConnectSteps
<1>9. CASE Wrap
  <2>1. Pending' = 0
    BY <1>2, <1>9 DEF Wrap, GiveUp, EndCall, ConnectSteps
  <2> QED BY <1>5, <1>9, <2>1 DEF Wrap, ConnectSteps
<1>10. CASE TakeReply
  <2>1. ~adrift /\ Aligned /\ Took /\ issued' = issued /\ UNCHANGED <<err, linked>>
    BY <1>10 DEF TakeReply, Took
  <2>2. call.left \in 1..2 /\ call.kind \in CallKinds \ {"none"} /\ pc = "getReply"
    BY <1>10 DEF TakeReply, Base, CallShape, Calling
  <2>3. Due' = Due - 1
    <3>1. CASE call.kind = "getReply"
      <4>1. Pending = 0
        BY <3>1 DEF Pending, Serving
      <4>2. call.left = 1
        BY <3>1 DEF CallAligned
      <4>3. EndCall
        BY <1>10, <4>2 DEF TakeReply
      <4>4. Pending' = 0
        BY <1>2, <4>3 DEF EndCall
      <4>5. owed > 0
        <5>1. Len(inbuf) <= owed /\ inbuf # <<>> /\ inbuf \in Seq(Entry)
          BY <1>1, <2>1, <4>1 DEF Aligned, Reader, Took, Base, Buffers
        <5>2. Len(inbuf) > 0
          BY <5>1
        <5> QED BY <1>1, <5>1, <5>2, CountsTyped
      <4>6. owed' = owed - 1
        BY <1>10, <3>1, <4>5 DEF TakeReply
      <4> QED BY <1>1, <4>1, <4>4, <4>6 DEF Due
    <3>2. CASE call.kind \in Serving
      <4>1. Pending = call.left /\ owed' = owed
        BY <1>10, <3>2 DEF Pending, Serving, TakeReply
      <4>2. CASE EndCall
        <5>1. Pending' = 0
          BY <1>2, <4>2 DEF EndCall
        <5>2. call.left = 1
          <6>1. CASE call.kind = "pipeline"
            <7>1. call.left > 1 => adrift'
              <8>1. CASE Head(inbuf).junk
                BY <1>10, <6>1, <8>1 DEF TakeReply
              <8>2. CASE ~Head(inbuf).junk
                BY <1>10, <2>2, <4>2, <8>2 DEF TakeReply, EndCall
              <8> QED BY <8>1, <8>2
            <7> QED BY <2>2, <7>1
          <6>2. CASE call.kind \in {"sync", "subscribe"}
            BY <6>2 DEF CallAligned
          <6> QED BY <3>2, <6>1, <6>2 DEF Serving
        <5> QED BY <1>1, <4>1, <5>1, <5>2 DEF Due
      <4>3. CASE ~EndCall
        <5>1. call' = [call EXCEPT !.id = @ + 1, !.left = @ - 1] /\ call \in Calling
          BY <1>10, <4>3 DEF TakeReply, Base, CallShape
        <5>2. call'.kind = call.kind /\ call'.left = call.left - 1
          BY <5>1 DEF Calling
        <5>3. Pending' = call.left - 1
          BY <3>2, <5>2 DEF Pending
        <5> QED BY <1>1, <2>2, <4>1, <5>3 DEF Due
      <4> QED BY <4>2, <4>3
    <3> QED BY <2>2, <3>1, <3>2 DEF CallKinds, Serving
  <2> QED BY <2>1, <2>3, TakenFirst
<1>11. CASE NoReplyYet
  <2>1. call.kind \notin {"sync", "subscribe", "pipeline"} /\ ~adrift
    BY <1>11 DEF NoReplyYet, Fail, CallAligned
  <2>2. Pending = 0 /\ Pending' = 0
    BY <1>2, <1>11, <2>1 DEF Pending, Serving, NoReplyYet, Fail, EndCall
  <2>3. Due' = Due
    BY <1>11, <2>2 DEF Due, NoReplyYet, Fail
  <2> QED BY <1>11, <2>1, <2>3, StreamStays DEF NoReplyYet
<1>12. ASSUME Written(Len(obuf)), UNCHANGED <<call, adrift, owed, issued, linked>>
       PROVE  Aligned'
  <2>1. Len(obuf) \in 0..Len(obuf)
    BY CountsTyped
  <2> QED BY <1>3, <1>12, <2>1, WrittenOn
<1>13. CASE WriteOut
  <2>1. CASE Written(Len(obuf)) /\ UNCHANGED <<call, adrift, owed, out, listening>>
    BY <1>12, <1>13, <2>1 DEF WriteOut
  <2>2. CASE WriteFails /\ Fail
    <3>1. err' # "none" /\ inbuf' = <<>> /\ issued' = issued
      BY <1>13, <2>2 DEF WriteOut, WriteFails, stream
    <3> QED BY <1>4, <2>2, <3>1 DEF Fail
  <2> QED BY <1>13, <2>1, <2>2 DEF WriteOut
<1>14. CASE Await
  <2>1. ASSUME NEW n \in 1..Len(ans), ReadIn(n), UNCHANGED <<call, adrift, owed, issued, linked>>
        PROVE  Aligned'
    <3>1. n \in 0..Len(ans)
      BY CountsTyped
    <3> QED BY <1>3, <2>1, <3>1, ReadOn
  <2>2. CASE ReadFails /\ Fail
    <3>1. err' # "none" /\ inbuf' = <<>> /\ issued' = issued
      BY <1>14, <2>2 DEF Await, ReadFails, CallAligned, stream
    <3> QED BY <1>4, <2>2, <3>1 DEF Fail
  <2> QED BY <1>14, <2>1, <2>2 DEF Await
<1>15. CASE Timeout
  <2>1. err' # "none" /\ inbuf' = <<>> /\ issued' = issued /\ Fail
    BY <1>15 DEF Timeout, CallAligned, stream
  <2> QED BY <1>4, <2>1 DEF Fail
<1>16. CASE Flush
  <2>1. CASE Written(Len(obuf)) /\ UNCHANGED <<call, adrift, owed, out, listening>>
    BY <1>12, <1>16, <2>1 DEF Flush
  <2>2. CASE WriteFails /\ Fail
    <3>1. call.kind = "pipeline"
      BY <1>16 DEF Flush, Base, CallShape
    <3> QED BY <2>2, <3>1 DEF Fail
  <2> QED BY <1>16, <2>1, <2>2 DEF Flush
<1>17. CASE Sync
  <2>1. blocking /\ ~adrift
    BY <1>17 DEF Sync
  <2>2. Put(1, FALSE) /\ owed' = owed /\ UNCHANGED <<err, linked>> /\ pc = "idle"
    BY <1>17 DEF Sync, Idle
  <2>3. Pending' = 1
    <3>1. PICK kind \in {"sync", "subscribe"} :
            call' = [NoCall EXCEPT !.kind = kind, !.id = issued + 1, !.left = 1]
      BY <1>17, <2>1 DEF Sync
    <3> QED BY <3>1 DEF NoCall, Pending, Serving
  <2>4. Due' = Due + 1
    BY <1>1, <1>2, <2>2, <2>3 DEF Due
  <2>5. PICK junk \in BOOLEAN : Put(1, junk)
    BY <2>2, Zenon
  <2> QED BY <2>1, <2>2, <2>4, <2>5, PutOn
<1>18. CASE AppendCommand
  <2>1. PICK junk \in BOOLEAN : Put(1, junk)
    BY <1>18 DEF AppendCommand
  <2>2. Due' = Due + 1
    BY <1>1, <1>18 DEF AppendCommand, Due, Pending
  <2> QED BY <1>18, <2>1, <2>2, PutOn DEF AppendCommand
<1>19. CASE GetReply
  <2>1. Pending = 0 /\ Pending' = 0
    BY <1>2, <1>19 DEF GetReply, Idle, Pending, Serving, NoCall
  <2>2. Due' = Due
    BY <1>19, <2>1 DEF Due, GetReply
  <2> QED BY <1>19, <2>2, StreamStays DEF GetReply
<1>20. CASE ExecutePipeline
  <2>1. PICK junk \in BOOLEAN : Put(2, junk)
    BY <1>20 DEF ExecutePipeline
  <2>2. Pending = 0 /\ Pending' = 2
    BY <1>2, <1>20 DEF ExecutePipeline, Idle, Pending, Serving, NoCall
  <2>3. Due' = Due + 2
    BY <1>1, <1>20, <2>2 DEF ExecutePipeline, Due
  <2> QED BY <1>20, <2>1, <2>3, PutOn DEF ExecutePipeline
<1>21. CASE BufferWrite
  <2>1. CASE WriteFails
    BY <1>3, <1>21, <2>1, StreamStays DEF BufferWrite, WriteFails
  <2>2. CASE \E n \in 0..Len(obuf) : Written(n)
    BY <1>3, <1>21, <2>2, WrittenOn DEF BufferWrite
  <2> QED BY <1>21, <2>1, <2>2 DEF BufferWrite
<1>22. CASE BufferRead
  <2>1. CASE ReadFails
    BY <1>3, <1>22, <2>1, StreamStays DEF BufferRead, ReadFails
  <2>2. ASSUME NEW n \in 1..Len(ans), ReadIn(n) PROVE Aligned'
    <3>1. n \in 0..Len(ans)
      BY CountsTyped
    <3> QED BY <1>3, <1>22, <2>2, <3>1, ReadOn DEF BufferRead
  <2> QED BY <1>22, <2>1, <2>2 DEF BufferRead
<1>23. CASE GetReplyNonblock
  <2>1. Pending = 0 /\ Pending' = 0 /\ Took /\ ~adrift
    BY <1>2, <1>23 DEF GetReplyNonblock, Idle, Pending, Took
  <2>2. owed > 0
    <3>1. Len(inbuf) <= owed /\ inbuf # <<>> /\ inbuf \in Seq(Entry)
      BY <1>1, <2>1 DEF Aligned, Reader, Took, Base, Buffers
    <3>2. Len(inbuf) > 0
      BY <3>1
    <3> QED BY <1>1, <3>1, <3>2, CountsTyped
  <2>3. Due' = Due - 1
    BY <1>1, <1>23, <2>1, <2>2 DEF GetReplyNonblock, Due
  <2> QED BY <1>23, <2>1, <2>3, TakenFirst DEF GetReplyNonblock
<1>24. CASE Reconnect
  <2>1. Pending' = 0
    BY <1>2, <1>24 DEF Reconnect, Idle
  <2>2. Due' = 0
    BY <1>24, <2>1 DEF Reconnect, NewStream, Due
  <2> QED BY <1>24, <2>2, NewlyAligned DEF Reconnect
<1>25. CASE Free
  BY <1>3, <1>25, StreamStays DEF Free
<1>26. CASE ClearError
  BY <1>26 DEF ClearError
<1>27. ASSUME NEW v \in Variants, Connect(v) PROVE Aligned'
  <2>1. Pending = 0 /\ Pending' = 0
    BY <1>2, <1>27 DEF Connect, ConnectSteps
  <2>2. Due' = Due
    BY <1>27, <2>1 DEF Connect, Due
  <2> QED BY <1>27, <2>2, StreamStays DEF Connect
<1>28. ASSUME NEW b \in BOOLEAN, SetNonblock(b) PROVE Aligned'
  BY <1>3, <1>28, StreamStays DEF SetNonblock
<1>29. CASE Serve
  BY <1>3, <1>29, Served DEF Serve
<1>30. CASE Publish
  BY <1>30 DEF Publish, CallAligned
<1>31. CASE LinkLost
  <2>1. From' = From /\ Due' = Due
    BY <1>3, <1>31 DEF LinkLost, From
  <2>2. UNCHANGED <<inbuf, ans, err>> /\ ~linked' /\ Aligned
    BY <1>31 DEF LinkLost
  <2> QED BY <2>1, <2>2 DEF Aligned, Reader, Socket
<1>32. CASE UNCHANGED vars
  BY <1>3, <1>32, StreamStays DEF vars
<1> QED
  BY <1>6, <1>7, <1>8, <1>9, <1>10, <1>11, <1>13, <1>14, <1>15, <1>16, <1>17, <1>18, <1>19,
     <1>20, <1>21, <1>22, <1>23, <1>24, <1>25, <1>26, <1>27, <1>28, <1>29, <1>30, <1>31, <1>32
  DEF Next, Connecting, Exchanging, Calls

LEMMA OwnAnswerStep ==
  ASSUME Base, CallAligned, ~adrift => Aligned, OwnAnswer, [Next]_vars
  PROVE  OwnAnswer'
<1> USE DEF OwnAnswer, life, history
<1>1. CASE TakeReply
  <2>1. ASSUME ~adrift, owed = 0, call.id # 0
        PROVE  Head(inbuf).id = call.id
    <3>1. call.kind \in Serving /\ call.id + call.left = issued + 1
      BY <2>1 DEF CallAligned
    <3>2. inbuf \in Seq(Entry) /\ inbuf # <<>> /\ Counted(inbuf, From)
      BY <1>1, <2>1 DEF TakeReply, Aligned, Reader, Base, Buffers
    <3>3. Head(inbuf).id = From + 1
      BY <3>2, CountedHead, CountsTyped
    <3>4. From = issued - call.left
      BY <2>1, <3>1, CountsTyped DEF From, Due, Pending
    <3>5. call.id \in Nat /\ call.left \in Nat /\ issued \in Nat
      BY CountsTyped DEF Base, CallShape, Calling
    <3> QED BY <3>1, <3>3, <3>4, <3>5
  <2>2. out' = [asked |-> call.id, gotten |-> Head(inbuf).id, sure |-> ~adrift /\ owed = 0]
    BY <1>1 DEF TakeReply
  <2> QED BY <2>1, <2>2
<1>2. CASE out' = NoAnswer
  BY <1>2 DEF NoAnswer
<1>3. CASE out' = out
  BY <1>3
<1>4. CASE UNCHANGED vars
  BY <1>4 DEF vars
<1>5. ASSUME Next, ~TakeReply PROVE out' = NoAnswer \/ out' = out
  <2>1. CASE Connecting
    BY <2>1 DEF Connecting, CreateSslContext, Dial, Handshake, Wrap, NewStream
  <2>2. CASE Exchanging
    BY <1>5, <2>2 DEF Exchanging, NoReplyYet, WriteOut, Await, Flush, Fail
  <2>3. CASE Calls
    BY <2>3 DEF Calls, Sync, AppendCommand, GetReply, ExecutePipeline, BufferWrite, BufferRead,
                GetReplyNonblock, Reconnect, ClearError, Free, Connect, SetNonblock, NewStream
  <2>4. CASE Serve \/ Publish \/ LinkLost \/ Timeout
    BY <2>4 DEF Serve, Publish, LinkLost, Timeout, Fail
  <2> QED BY <1>5, <2>1, <2>2, <2>3, <2>4 DEF Next
<1> QED BY <1>1, <1>2, <1>3, <1>4, <1>5

\* Positions in the stream are known while it is not adrift, and with them whose
\* reply a call takes.
Positions == CallAligned /\ (~adrift => Aligned) /\ OwnAnswer

LEMMA PositionsKnown == Spec => [](Base /\ Positions)
<1>1. Init => Positions
  <2> SUFFICES ASSUME Init PROVE Positions
    OBVIOUS
  <2>1. CallAligned
    BY DEF Init, CallAligned, Serving, NoCall
  <2>2. Pending = 0
    BY DEF Init, Pending, Serving, NoCall
  <2>3. From = 0 /\ Due = 0
    BY <2>2 DEF Init, From, Due
  <2>4. Aligned
    BY <2>3, CountedEmpty DEF Init, Aligned, Reader, Socket, Wire
  <2> QED BY <2>1, <2>4 DEF Init, OwnAnswer, NoAnswer, Positions
<1>2. Base /\ Positions /\ [Next]_vars => Positions'
  BY BaseStep, CallAlignedStep, AlignedStep, OwnAnswerStep DEF Positions
<1> QED BY <1>1, <1>2, BaseHolds, PTL DEF Spec

\* A call returns the reply to its own command, however many commands, links
\* and failures there were, unless the program has a reply of its own to
\* fetch or has left one behind.
THEOREM AnswersAreOwn == Spec => []OwnAnswer
<1>1. Positions => OwnAnswer
  BY DEF Positions
<1> QED BY <1>1, PositionsKnown, PTL

\* On a link that works, exactly the replies are outstanding that the program
\* counts on: a call never waits for a reply that nobody will send.
THEOREM RepliesAreAccounted == Spec => []RepliesAccounted
<1>1. Base /\ Positions => RepliesAccounted
  <2> SUFFICES ASSUME Base, Positions, linked, err = "none", ~adrift
               PROVE  Len(Outstanding) = Due
    BY DEF RepliesAccounted
  <2>1. Len(inbuf) + Len(ans) + Len(todo) + Len(obuf) = Due
    BY DEF Positions, Aligned, Wire
  <2>2. Len(Outstanding) = Len(inbuf) + Len(ans) + Len(todo) + Len(obuf)
    <3>1. obuf \in Seq(Entry) /\ todo \in Seq(Entry) /\ ans \in Seq(Entry) /\ inbuf \in Seq(Entry)
      BY DEF Base, Buffers
    <3>2. inbuf \o ans \in Seq(Entry) /\ Len(inbuf \o ans) = Len(inbuf) + Len(ans)
      BY <3>1
    <3>3. /\ (inbuf \o ans) \o todo \in Seq(Entry)
          /\ Len((inbuf \o ans) \o todo) = Len(inbuf \o ans) + Len(todo)
      BY <3>1, <3>2
    <3>4. Len(Outstanding) = Len((inbuf \o ans) \o todo) + Len(obuf)
      BY <3>1, <3>3 DEF Outstanding
    <3> QED BY <3>2, <3>3, <3>4
  <2> QED BY <2>1, <2>2
<1> QED BY <1>1, PositionsKnown, PTL

=============================================================================
