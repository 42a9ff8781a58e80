----------------------- MODULE TcpConnectionHistoryProofs -----------------------
(****************************************************************************)
(* Proofs about module TcpConnectionHistory, for every set of messages,     *)
(* every way write() may split them and every high water mark: messages     *)
(* leave in the order of the sends of a thread, none is lost while the      *)
(* connection is up, the callbacks let a user throttle itself, and the      *)
(* functors go through a queue as module TaskQueue describes it.            *)
(****************************************************************************)
EXTENDS TcpConnectionHistory, TcpConnectionProofs

Functor == Owning \union Raw

(* What a connection queues in one step: at most one functor.               *)
AtMostOne(S) == {<<>>} \union {<<f>> : f \in S}

(* A forwarded sendInLoop.                                                  *)
Send(m) == <<"send", m>>

-----------------------------------------------------------------------------
(* The functors the loop has still to call.                                 *)

(* sendInLoop of a message is no other functor.                             *)
LEMMA SendsApart ==
  /\ \A m \in Msg : Send(m) \in Functor /\ Send(m) \notin Owning \union {<<"shutdown">>}
  /\ \A m, n \in Msg : Send(m) = Send(n) => m = n
  /\ \A m : Send(m) # <<"idle">>
  /\ \A m \in Msg, c \in {<<"shutdown", "set">>, <<"shutdown", "queue">>} : Send(m) # c
<1>1. \A m : Send(m)[1] = "send" /\ Send(m)[2] = m
  BY DEF Send
<1>2. \A f \in Owning \union {<<"shutdown">>, <<"idle">>, <<"shutdown", "set">>, <<"shutdown", "queue">>} :
        f[1] # "send"
  BY DEF Owning
<1>3. \A m \in Msg : Send(m) \in Functor
  BY DEF Send, Functor, Raw
<1> QED
  BY <1>1, <1>2, <1>3

LEMMA QueueParts ==
  ASSUME TypeOK
  PROVE  /\ batch \in Seq(Functor) /\ pending \in Seq(Functor) /\ ran \in 0..Len(batch)
         /\ Len(batch) \in Nat /\ ran \in Nat /\ Len(pending) \in Nat
         /\ SubSeq(batch, ran + 1, Len(batch)) \in Seq(Functor)
         /\ Queue \in Seq(Functor)
<1>1. batch \in Seq(Functor) /\ pending \in Seq(Functor) /\ ran \in 0..Len(batch)
  BY DEF TypeOK, Functor
<1>2. Len(batch) \in Nat /\ ran \in Nat /\ Len(pending) \in Nat
  BY <1>1, LenProperties
<1>3. \A i \in ran + 1..Len(batch) : batch[i] \in Functor
  BY <1>1, <1>2, ElementOfSeq
<1>4. SubSeq(batch, ran + 1, Len(batch)) \in Seq(Functor)
  BY <1>2, <1>3, SubSeqProperties
<1> QED
  BY <1>1, <1>2, <1>4, ConcatProperties DEF Queue

LEMMA Associative == \A p, q, r \in Seq(Functor) : (p \o q) \o r = p \o (q \o r)
BY ConcatAssociative

(* queueInLoop puts a functor at the end of the queue.                      *)
LEMMA QueueGrows ==
  ASSUME TypeOK, NEW q \in Seq(Functor), pending' = pending \o q, UNCHANGED <<batch, ran>>
  PROVE  Queue' = Queue \o q /\ ran' # ran + 1 /\ UNCHANGED Called
<1> DEFINE rest == SubSeq(batch, ran + 1, Len(batch))
<1>1. Queue' = rest \o (pending \o q) /\ Queue = rest \o pending
  BY DEF Queue
<1>3. rest \in Seq(Functor) /\ pending \in Seq(Functor)
  BY QueueParts
<1> HIDE DEF rest
<1>2. Queue' = Queue \o q
  BY <1>1, <1>3, Associative
<1> QED
  BY <1>2, QueueParts DEF Called

(* doPendingFunctors takes the functor at the head of the queue; what that  *)
(* one queues goes to the end.                                              *)
LEMMA QueueRuns ==
  ASSUME TypeOK, NEW f, Runs(f), NEW q \in Seq(Functor), pending' = pending \o q
  PROVE  /\ Queue # <<>> /\ Head(Queue) = f /\ f \in Functor /\ Tail(Queue) \in Seq(Functor)
         /\ Queue' = Tail(Queue) \o q
         /\ ran' = ran + 1 /\ NextFunctor = f /\ Called' = f
<1> DEFINE rest == SubSeq(batch, ran + 2, Len(batch))
<1>1. ran < Len(batch) /\ batch[ran + 1] = f /\ ran' = ran + 1 /\ UNCHANGED batch
  BY DEF Runs, NextFunctor
<1>2. ran + 1 \in 1..Len(batch) /\ Len(batch) \in ran + 1..Len(batch) /\ ran + 2 \in Int
      /\ (ran + 1) + 1 = ran + 2
  BY <1>1, QueueParts
<1>3. SubSeq(batch, ran + 1, Len(batch)) = <<f>> \o rest
  BY <1>1, <1>2, QueueParts, SubSeqRecursiveFirst
<1>4. f \in Functor /\ \A i \in ran + 2..Len(batch) : batch[i] \in Functor
  BY <1>1, <1>2, QueueParts, ElementOfSeq
<1>5. rest \in Seq(Functor)
  BY <1>2, <1>4, QueueParts, SubSeqProperties
<1>6. Queue' = rest \o (pending \o q)
  BY <1>1, <1>2 DEF Queue
<1> HIDE DEF rest
<1>7. <<f>> \in Seq(Functor)
  BY <1>4
<1>a. pending \in Seq(Functor) /\ rest \o pending \in Seq(Functor)
  BY <1>5, QueueParts, ConcatProperties
<1>b. Queue = (<<f>> \o rest) \o pending
  BY <1>3 DEF Queue
<1>8. Queue = <<f>> \o (rest \o pending)
  BY <1>5, <1>7, <1>a, <1>b, Associative
<1>9. /\ Queue # <<>> /\ Head(Queue) = f /\ Tail(Queue) = rest \o pending
  BY <1>4, <1>8, <1>a
<1>10. Queue' = Tail(Queue) \o q
  <2>1. (rest \o pending) \o q = rest \o (pending \o q)
    BY <1>5, <1>a, Associative
  <2>2. Tail(Queue) = rest \o pending
    BY <1>9
  <2>3. Tail(Queue) \o q = (rest \o pending) \o q
    BY ONLY <2>2
  <2> QED
    BY ONLY <1>6, <2>1, <2>3
<1>11. Called' = f
  BY <1>1, <1>2, QueueParts DEF Called
<1> QED
  BY <1>1, <1>4, <1>9, <1>10, <1>11, <1>a DEF NextFunctor

(* Taking the functors over and throwing away the vector changes nothing.   *)
LEMMA QueueSwaps ==
  ASSUME TypeOK, DoPendingFunctors \/ BatchDone
  PROVE  UNCHANGED Queue /\ ran' # ran + 1 /\ Called' = NoFunctor
<1>1. CASE DoPendingFunctors
  <2>1. batch = <<>> /\ batch' = pending /\ pending' = <<>> /\ ran' = 0
    BY <1>1 DEF DoPendingFunctors
  <2>2. ran = 0 /\ Len(batch) = 0
    BY <2>1, QueueParts
  <2>3. SubSeq(batch, ran + 1, Len(batch)) = <<>>
    BY <2>2, SubSeqEmpty
  <2>4. SubSeq(batch', ran' + 1, Len(batch')) = pending
    BY <2>1, QueueParts, SubSeqFull
  <2>5. Queue = pending /\ Queue' = pending
    BY <2>1, <2>3, <2>4, QueueParts, ConcatEmptySeq DEF Queue
  <2> QED
    BY <2>1, <2>2, <2>5 DEF Called
<1>2. CASE BatchDone
  <2>1. ran = Len(batch) /\ batch' = <<>> /\ ran' = 0 /\ UNCHANGED pending
    BY <1>2 DEF BatchDone
  <2>2. SubSeq(batch, ran + 1, Len(batch)) = <<>>
    BY <2>1, QueueParts, SubSeqEmpty
  <2>3. SubSeq(batch', ran' + 1, Len(batch')) = <<>>
    BY <2>1, SubSeqEmpty
  <2>4. Queue' = Queue
    BY <2>1, <2>2, <2>3 DEF Queue
  <2> QED
    BY <2>1, <2>4, QueueParts DEF Called
<1> QED
  BY <1>1, <1>2

-----------------------------------------------------------------------------
(* What a step of the connection is to its queue, to what it has taken on   *)
(* and to the threads that send.                                            *)

(* sendInLoop takes the message on, or gives it up; the latter not while    *)
(* the connection is up and the socket can be written to.                   *)
Takes(m) == \/ UNCHANGED stream /\ (state = "disconnecting" \/ Broken)
            \/ stream' = stream \o Parts(m)

(* A step that has nothing to do with a message.                            *)
Bystander ==
  /\ \/ /\ \E q \in AtMostOne(Owning \union {<<"shutdown">>}) : Queue' = Queue \o q
        /\ UNCHANGED Called
     \/ UNCHANGED Queue /\ Called' = NoFunctor
  /\ ran' # ran + 1
  /\ UNCHANGED <<stream, unsent>>
  /\ \A m \in Msg : caller' = Send(m) <=> caller = Send(m)

(* The loop calls a functor.                                                *)
Call ==
  /\ Queue # <<>> /\ ran' = ran + 1 /\ NextFunctor = Head(Queue)
  /\ Called' = Head(Queue)
  /\ \E q \in AtMostOne(Owning) : Queue' = Tail(Queue) \o q
  /\ UNCHANGED <<unsent, caller>>
  /\ \/ \E m \in Msg : Head(Queue) = Send(m) /\ Takes(m)
     \/ UNCHANGED stream /\ \A m \in Msg : Head(Queue) # Send(m)

(* User code on the loop's thread sends a message.                          *)
Direct(m) ==
  /\ \E q \in AtMostOne(Owning) : Queue' = Queue \o q
  /\ ran' # ran + 1 /\ UNCHANGED Called
  /\ m \in unsent /\ unsent' = unsent \ {m}
  /\ state = "connected" /\ Takes(m)
  /\ UNCHANGED caller

(* Another thread calls send().                                             *)
Begin(m) ==
  /\ UNCHANGED <<Queue, Called, ran, stream>>
  /\ m \in unsent /\ unsent' = unsent \ {m}
  /\ caller = <<"idle">> /\ caller' = Send(m)

(* And queues the functor.                                                  *)
Forward(m) ==
  /\ Queue' = Queue \o <<Send(m)>>
  /\ UNCHANGED <<Called, ran, stream, unsent>>
  /\ caller = Send(m) /\ caller' = <<"idle">>

(* What sendInLoop does, as far as its users can tell.                      *)
LEMMA SendKinds ==
  ASSUME NEW m \in Msg, SendInLoop(m)
  PROVE  /\ \/ /\ UNCHANGED <<events, output, pending, stream>>
               /\ state = "disconnecting" \/ Broken
            \/ \E n \in 0..MsgSize : /\ TakeMessage(m, n)
                                     /\ n # 0 => output = <<>>
         /\ \E q \in AtMostOne(Owning) : pending' = pending \o q \/ UNCHANGED pending
         /\ Takes(m)
<1>1. \/ /\ UNCHANGED <<events, output, pending, stream>>
         /\ state = "disconnecting" \/ Broken
      \/ \E n \in 0..MsgSize : /\ TakeMessage(m, n)
                               /\ n # 0 => output = <<>>
  <2>1. 0 \in 0..MsgSize
    BY ConnectionAssumption
  <2>2. CASE TakeMessage(m, 0)
    BY <2>1, <2>2
  <2>3. CASE ~TakeMessage(m, 0)
    BY <2>3 DEF SendInLoop, SendInLoopAs, history
  <2> QED
    BY <2>2, <2>3
<1>2. ASSUME NEW n \in 0..MsgSize, TakeMessage(m, n)
      PROVE  /\ \E q \in AtMostOne(Owning) : pending' = pending \o q
             /\ stream' = stream \o Parts(m)
  BY <1>2 DEF TakeMessage, SendFunctors, AtMostOne, Owning
<1> QED
  BY <1>1, <1>2 DEF Takes, AtMostOne

LEMMA AtMostOneType ==
  ASSUME NEW S \in SUBSET Functor
  PROVE  AtMostOne(S) \subseteq Seq(Functor) /\ <<>> \in AtMostOne(S)
<1>1. \A f \in S : <<f>> \in Seq(Functor)
  OBVIOUS
<1>2. <<>> \in Seq(Functor)
  OBVIOUS
<1> QED
  BY <1>1, <1>2 DEF AtMostOne

(* At most one functor is queued.                                           *)
LEMMA QueueOne ==
  ASSUME TypeOK, UNCHANGED <<batch, ran>>, NEW S \in SUBSET Functor,
         NEW q \in AtMostOne(S), pending' = pending \o q \/ UNCHANGED pending
  PROVE  /\ \E r \in AtMostOne(S) : Queue' = Queue \o r
         /\ ran' # ran + 1 /\ UNCHANGED Called
<1>1. AtMostOne(S) \subseteq Seq(Functor) /\ <<>> \in AtMostOne(S)
  BY AtMostOneType
<1>2. pending = pending \o <<>>
  BY QueueParts, ConcatEmptySeq
<1>3. PICK r \in AtMostOne(S) : pending' = pending \o r
  BY <1>1, <1>2
<1> QED
  BY <1>1, <1>3, QueueGrows

LEMMA CallOne ==
  ASSUME TypeOK, NEW f, Runs(f), NEW q \in AtMostOne(Owning),
         pending' = pending \o q \/ UNCHANGED pending
  PROVE  /\ Queue # <<>> /\ Head(Queue) = f
         /\ ran' = ran + 1 /\ NextFunctor = Head(Queue) /\ Called' = Head(Queue)
         /\ \E r \in AtMostOne(Owning) : Queue' = Tail(Queue) \o r
         /\ UNCHANGED <<unsent, caller>>
<1>1. AtMostOne(Owning) \subseteq Seq(Functor) /\ <<>> \in AtMostOne(Owning)
  BY AtMostOneType DEF Functor
<1>2. pending = pending \o <<>>
  BY QueueParts, ConcatEmptySeq
<1>3. PICK r \in AtMostOne(Owning) : pending' = pending \o r
  BY <1>1, <1>2
<1> QED
  BY <1>1, <1>3, QueueRuns DEF Runs

LEMMA StepShapes ==
  ASSUME TypeOK, [Next]_vars
  PROVE  \/ Bystander \/ Call
         \/ \E m \in Msg : Direct(m) \/ Begin(m) \/ Forward(m)
<1> USE DEF loop, server, socket, history
<1>a. Owning \subseteq Functor /\ Owning \union {<<"shutdown">>} \subseteq Functor
  BY DEF Functor, Raw
<1>b. <<>> \in AtMostOne(Owning)
      /\ << <<"destroyed">> >> \in AtMostOne(Owning \union {<<"shutdown">>})
      /\ << <<"writeComplete">> >> \in AtMostOne(Owning \union {<<"shutdown">>})
      /\ << <<"shutdown">> >> \in AtMostOne(Owning \union {<<"shutdown">>})
      /\ <<>> \in AtMostOne(Owning \union {<<"shutdown">>})
  BY DEF AtMostOne, Owning
<1>c. ASSUME UNCHANGED <<pending, batch, ran, stream, unsent>>,
             \A m \in Msg : caller' = Send(m) <=> caller = Send(m)
      PROVE  Bystander
  BY <1>a, <1>b, <1>c, QueueOne DEF Bystander
<1>d. ASSUME NEW f \in Owning \union {<<"shutdown">>},
             Runs(f), UNCHANGED <<pending, stream>>
      PROVE  Call
  <2>1. /\ Queue # <<>> /\ Head(Queue) = f
        /\ ran' = ran + 1 /\ NextFunctor = Head(Queue) /\ Called' = Head(Queue)
        /\ \E r \in AtMostOne(Owning) : Queue' = Tail(Queue) \o r
        /\ UNCHANGED <<unsent, caller>>
    BY <1>b, <1>d, CallOne
  <2>2. \A m \in Msg : f # Send(m)
    BY SendsApart
  <2> QED
    BY <1>d, <2>1, <2>2 DEF Call
<1>e. ASSUME NEW f, pending' = Append(pending, f), f \in Functor
      PROVE  pending' = pending \o <<f>>
  BY <1>e, QueueParts, AppendIsConcat
<1>1. CASE DoPendingFunctors \/ BatchDone
  <2>1. UNCHANGED <<stream, unsent, caller>>
    BY <1>1 DEF DoPendingFunctors, BatchDone
  <2>2. UNCHANGED Queue /\ ran' # ran + 1 /\ Called' = NoFunctor
    BY <1>1, QueueSwaps
  <2> QED
    BY <2>1, <2>2 DEF Bystander
<1>2. CASE ConnectEstablished \/ ConnectDestroyed \/ RunUserCallback \/ RunShutdown
  <2>1. UNCHANGED <<pending, stream>>
    BY <1>2 DEF ConnectEstablished, ConnectDestroyed, RunUserCallback, RunShutdown
  <2>2. \E f \in Owning \union {<<"shutdown">>} : Runs(f)
    BY <1>2 DEF ConnectEstablished, ConnectDestroyed, RunUserCallback, RunShutdown, Owning
  <2> QED
    BY <1>d, <2>1, <2>2
<1>3. ASSUME NEW m \in Msg, RunSend(m)
      PROVE  Call
  <2>1. Runs(Send(m)) /\ SendInLoop(m)
    BY <1>3 DEF RunSend, Send
  <2>2. PICK q \in AtMostOne(Owning) : pending' = pending \o q \/ UNCHANGED pending
    BY <2>1, SendKinds
  <2>3. /\ Queue # <<>> /\ Head(Queue) = Send(m)
        /\ ran' = ran + 1 /\ NextFunctor = Head(Queue) /\ Called' = Head(Queue)
        /\ \E r \in AtMostOne(Owning) : Queue' = Tail(Queue) \o r
        /\ UNCHANGED <<unsent, caller>>
    BY <2>1, <2>2, CallOne
  <2>4. Takes(m)
    BY <2>1, SendKinds
  <2> QED
    BY <2>3, <2>4 DEF Call
<1>4. CASE CloseCallback \/ HandleRead \/ HandleError \/ RemoveConnection \/ CallbackReturns
  <2>1. UNCHANGED <<pending, batch, ran, stream, unsent, caller>>
    BY <1>4 DEF CloseCallback, HandleRead, HandleClose, HandleError, RemoveConnection,
                CallbackReturns, Does
  <2> QED
    BY <1>c, <2>1
<1>5. CASE \/ \E writable \in BOOLEAN : HandleEvent(writable)
           \/ PeerDoes(PeerSends) \/ PeerDoes(PeerCloses) \/ PeerDoes(PeerResets)
           \/ ShutdownOnLoop \/ KeepPointer \/ DropPointer
           \/ UNCHANGED vars
  <2>1. UNCHANGED <<pending, batch, ran, stream, unsent, caller>>
    BY <1>5 DEF HandleEvent, PeerDoes, ShutdownOnLoop, KeepPointer, DropPointer, vars
  <2> QED
    BY <1>c, <2>1
<1>6. CASE BeginShutdown \/ SetDisconnecting
  <2>1. /\ UNCHANGED <<pending, batch, ran, stream, unsent>>
        /\ caller' \in {<<"shutdown", "set">>, <<"shutdown", "queue">>}
        /\ caller \in {<<"idle">>, <<"shutdown", "set">>}
    BY <1>6 DEF BeginShutdown, SetDisconnecting, TestState
  <2>2. \A m \in Msg : caller' # Send(m) /\ caller # Send(m)
    BY <2>1, SendsApart
  <2> QED
    BY <1>c, <2>1, <2>2
<1>7. CASE HandleWrite
  <2>1. UNCHANGED <<batch, ran, stream, unsent, caller>>
    BY <1>7 DEF HandleWrite, Does
  <2>2. UNCHANGED pending \/ pending' = Append(pending, <<"writeComplete">>)
    BY <1>7 DEF HandleWrite
  <2>3. <<"writeComplete">> \in Functor
    BY DEF Functor, Owning
  <2> QED
    BY <1>a, <1>b, <1>e, <2>1, <2>2, <2>3, QueueOne DEF Bystander
<1>8. CASE RemoveConnectionInLoop
  <2>1. UNCHANGED <<batch, ran, stream, unsent, caller>>
        /\ pending' = Append(pending, <<"destroyed">>)
    BY <1>8 DEF RemoveConnectionInLoop
  <2>2. <<"destroyed">> \in Functor
    BY DEF Functor, Owning
  <2> QED
    BY <1>a, <1>b, <1>e, <2>1, <2>2, QueueOne DEF Bystander
<1>9. CASE QueueFunctor
  <2>1. UNCHANGED <<batch, ran, stream, unsent>> /\ caller' = <<"idle">>
    BY <1>9 DEF QueueFunctor
  <2>2. CASE caller = <<"shutdown", "queue">> /\ pending' = Append(pending, <<"shutdown">>)
    <3>1. \A m \in Msg : caller' # Send(m) /\ caller # Send(m)
      BY <2>1, <2>2, SendsApart
    <3>2. <<"shutdown">> \in Functor
      BY DEF Functor, Raw
    <3> QED
      BY <1>a, <1>b, <1>e, <2>1, <2>2, <3>1, <3>2, QueueOne DEF Bystander
  <2>3. CASE caller[1] = "send" /\ pending' = Append(pending, caller)
    <3>1. PICK m \in Msg : caller = Send(m)
      BY <2>3 DEF TypeOK, Send
    <3>2. Send(m) \in Functor
      BY SendsApart
    <3>3. pending' = pending \o <<Send(m)>> /\ <<Send(m)>> \in Seq(Functor)
      BY <1>e, <2>3, <3>1, <3>2
    <3>4. Queue' = Queue \o <<Send(m)>> /\ UNCHANGED Called
      BY <2>1, <3>3, QueueGrows
    <3> QED
      BY <2>1, <3>1, <3>4 DEF Forward
  <2> QED
    BY <1>9, <2>2, <2>3 DEF QueueFunctor
<1>10. ASSUME NEW m \in Msg, SendOnLoop(m)
       PROVE  Direct(m)
  <2>1. /\ SendInLoop(m) /\ state = "connected" /\ m \in unsent /\ unsent' = unsent \ {m}
        /\ UNCHANGED <<batch, ran, caller>>
    BY <1>10 DEF SendOnLoop
  <2>2. PICK q \in AtMostOne(Owning) : pending' = pending \o q \/ UNCHANGED pending
    BY <2>1, SendKinds
  <2>3. (\E r \in AtMostOne(Owning) : Queue' = Queue \o r) /\ ran' # ran + 1 /\ UNCHANGED Called
    BY <1>a, <2>1, <2>2, QueueOne
  <2>4. Takes(m)
    BY <2>1, SendKinds
  <2> QED
    BY <2>1, <2>3, <2>4 DEF Direct
<1>11. ASSUME NEW m \in Msg, BeginSend(m)
       PROVE  Begin(m)
  <2>1. UNCHANGED <<pending, batch, ran, stream>> /\ caller' = Send(m)
        /\ caller = <<"idle">> /\ m \in unsent /\ unsent' = unsent \ {m}
    BY <1>11 DEF BeginSend, TestState, Send
  <2>2. UNCHANGED <<Queue, Called>>
    BY <2>1 DEF Queue, Called
  <2> QED
    BY <2>1, <2>2 DEF Begin
<1> QED
  BY <1>1, <1>2, <1>3, <1>4, <1>5, <1>6, <1>7, <1>8, <1>9, <1>10, <1>11 DEF Next, LoopStep, UserStep

(* What the history variables remember of a step.                           *)
LEMMA Recorded ==
  ASSUME TypeOK, TypeOK', [HNext]_hvars
  PROVE  /\ [Next]_vars /\ Remember
         /\ Bystander => UNCHANGED waiting
         /\ Call => \/ waiting' = Tail(waiting) /\ \E m \in Msg : Head(Queue) = Send(m)
                    \/ UNCHANGED waiting /\ \A m \in Msg : Head(Queue) # Send(m)
         /\ \A m \in Msg : Direct(m) \/ Forward(m) => UNCHANGED waiting
         /\ \A m \in Msg : Begin(m) => waiting' = Append(waiting, m)
<1>1. [Next]_vars /\ Remember
  <2>1. CASE UNCHANGED hvars
    <3>1. UNCHANGED <<vars, pending, ran, caller, waiting, told>>
      BY <2>1 DEF hvars, vars, loop
    <3>2. NewFunctors = {} /\ ran' # ran + 1
      BY <3>1, QueueParts DEF NewFunctors
    <3>3. ~(caller = <<"idle">> /\ caller'[1] = "send")
      BY <3>1
    <3> QED
      BY <3>1, <3>2, <3>3 DEF Remember
  <2>2. CASE HNext
    BY <2>2 DEF HNext
  <2> QED
    BY <2>1, <2>2
<1>2. ASSUME caller # <<"idle">> \/ \A m \in Msg : caller' # Send(m)
      PROVE  waiting' = IF ran' = ran + 1 /\ NextFunctor \in Sends THEN Tail(waiting) ELSE waiting
  <2>1. ~(caller = <<"idle">> /\ caller'[1] = "send")
    BY <1>2 DEF TypeOK, Send
  <2> QED
    BY <1>1, <2>1 DEF Remember
<1>3. Bystander => UNCHANGED waiting
  BY <1>2, SendsApart DEF Bystander
<1>4. Call => \/ waiting' = Tail(waiting) /\ \E m \in Msg : Head(Queue) = Send(m)
              \/ UNCHANGED waiting /\ \A m \in Msg : Head(Queue) # Send(m)
  <2>1. \A f : f \in Sends <=> \E m \in Msg : f = Send(m)
    BY DEF Sends, Send
  <2> QED
    BY <1>2, <2>1, SendsApart DEF Call
<1>5. \A m \in Msg : Direct(m) \/ Forward(m) => UNCHANGED waiting
  <2>1. ASSUME NEW m \in Msg, Direct(m)
        PROVE  UNCHANGED waiting
    BY <1>2, <2>1, SendsApart DEF Direct
  <2>2. ASSUME NEW m \in Msg, Forward(m)
        PROVE  UNCHANGED waiting
    BY <1>2, <2>2, SendsApart, QueueParts DEF Forward
  <2> QED
    BY <2>1, <2>2
<1>6. ASSUME NEW m \in Msg, Begin(m)
      PROVE  waiting' = Append(waiting, m)
  <2>1. caller = <<"idle">> /\ caller'[1] = "send" /\ caller'[2] = m
    BY <1>6 DEF Begin, Send
  <2> QED
    BY <1>1, <2>1 DEF Remember
<1> QED
  BY <1>1, <1>3, <1>4, <1>5, <1>6

(* The types of the connection's own variables.                             *)
LEMMA ConnTyped ==
  ASSUME ConnInv, [HNext]_hvars
  PROVE  TypeOK /\ TypeOK' /\ ConnInv'
<1>1. [Next]_vars
  BY DEF HNext, hvars, vars
<1> QED
  BY <1>1, ConnInductive DEF ConnInv

-----------------------------------------------------------------------------
(* The order of the messages.                                               *)

InStream(m) == \E i \in DOMAIN stream : stream[i][1] = m

At(j, m) == j \in DOMAIN Queue /\ Queue[j] = Send(m)

Near(m) == caller = Send(m) \/ \E j \in Nat : At(j, m)

Waits(m) == \E a \in DOMAIN waiting : waiting[a] = m

(* The other thread sent m before n, and sendInLoop has neither.            *)
Before(m, n) == \E a, b \in DOMAIN waiting : a < b /\ waiting[a] = m /\ waiting[b] = n

Behind(n, m) == n = m \/ Before(n, m)

(* A message that was not sent yet is nowhere.                              *)
Fresh == \A m \in unsent : ~InStream(m) /\ ~Waits(m)

(* The messages that wait are those in the queue and in the call of the     *)
(* other thread, none of them has reached the stream, and whatever is in    *)
(* front of one was sent before it; no message is anywhere twice.           *)
Turn ==
  /\ \A m \in Msg : Waits(m) <=> Near(m)
  /\ \A m \in Msg : Waits(m) => ~InStream(m)
  /\ \A m, n \in Msg, i, j \in Nat : i < j /\ At(i, m) /\ At(j, n) => ~Behind(n, m)
  /\ \A m, n \in Msg, j \in Nat : caller = Send(n) /\ At(j, m) => ~Behind(n, m)
  /\ \A m \in Msg : ~Before(m, m)

(* The parts of a message leave in their order, and none of them twice.     *)
PartsInOrder ==
  \A i, j \in DOMAIN stream :
    i < j /\ stream[i][1] = stream[j][1] => stream[i][2] < stream[j][2]

OrderInv == HTypeOK /\ ConnInv /\ Fresh /\ Turn /\ PartsInOrder

(* The message at the head of the queue is the one that waited longest.     *)
LEMMA HeadWaitsLongest ==
  ASSUME TypeOK, waiting \in Seq(Msg), Turn, NEW m \in Msg, At(1, m)
  PROVE  waiting # <<>> /\ Head(waiting) = m
<1>0. 1 \in Nat
  OBVIOUS
<1>1. Len(waiting) \in Nat /\ DOMAIN waiting = 1..Len(waiting)
      /\ \A a \in DOMAIN waiting : waiting[a] \in Msg
  BY LenProperties, ElementOfSeq
<1>2. PICK b \in DOMAIN waiting : waiting[b] = m
  BY <1>0 DEF Turn, Near, Waits
<1>3. waiting # <<>> /\ Head(waiting) = waiting[1] /\ 1 \in DOMAIN waiting
  BY <1>1, <1>2
<1>4. PICK h \in Msg : h = waiting[1]
  BY <1>1, <1>3
<1>5. SUFFICES ASSUME h # m
               PROVE  FALSE
  BY <1>3, <1>4
<1>6. Before(h, m)
  <2>1. 1 < b
    BY <1>1, <1>2, <1>4, <1>5
  <2> QED
    BY <1>2, <1>3, <1>4, <2>1 DEF Before
<1>7. Near(h)
  BY <1>3, <1>4 DEF Turn, Waits
<1>8. CASE caller = Send(h)
  BY <1>0, <1>6, <1>8 DEF Turn, Behind
<1>9. ASSUME NEW j \in Nat, At(j, h)
      PROVE  FALSE
  <2>1. j # 1
    BY <1>5, <1>9, SendsApart DEF At
  <2>2. 1 < j
    <3>1. DOMAIN Queue = 1..Len(Queue) /\ Len(Queue) \in Nat
      BY QueueParts, LenProperties
    <3> QED
      BY <1>9, <2>1, <3>1 DEF At
  <2> QED
    BY <1>0, <1>6, <1>9, <2>2 DEF Turn, Behind
<1> QED
  BY <1>7, <1>8, <1>9 DEF Near

(* Functors that are not sends, at the end of the queue, move no send.      *)
LEMMA SendsStay ==
  ASSUME TypeOK, NEW q \in AtMostOne(Owning \union {<<"shutdown">>}), Queue' = Queue \o q
  PROVE  \A j \in Nat, m \in Msg : At(j, m)' <=> At(j, m)
<1>1. Queue \in Seq(Functor) /\ q \in Seq(Functor)
  <2>1. Owning \union {<<"shutdown">>} \subseteq Functor
    BY DEF Functor, Raw
  <2> QED
    BY <2>1, QueueParts, AtMostOneType
<1>2. \A i \in DOMAIN q, m \in Msg : q[i] # Send(m)
  BY SendsApart DEF AtMostOne
<1>3. Len(Queue) \in Nat /\ DOMAIN Queue = 1..Len(Queue) /\ Len(q) \in Nat /\ DOMAIN q = 1..Len(q)
  BY <1>1, LenProperties
<1>4. /\ Queue \o q \in Seq(Functor) /\ Len(Queue \o q) = Len(Queue) + Len(q)
      /\ \A i \in 1..Len(Queue) + Len(q) :
           (Queue \o q)[i] = IF i <= Len(Queue) THEN Queue[i] ELSE q[i - Len(Queue)]
  BY <1>1, ConcatProperties
<1>5. DOMAIN (Queue \o q) = 1..Len(Queue) + Len(q)
  BY <1>4, LenProperties
<1> SUFFICES ASSUME NEW j \in Nat, NEW m \in Msg
             PROVE  At(j, m)' <=> At(j, m)
  OBVIOUS
<1>6. At(j, m)' <=> j \in DOMAIN (Queue \o q) /\ (Queue \o q)[j] = Send(m)
  BY DEF At, Send
<1>7. CASE j \in 1..Len(Queue)
  BY <1>3, <1>4, <1>5, <1>6, <1>7 DEF At
<1>8. CASE j \in Len(Queue) + 1..Len(Queue) + Len(q)
  <2>1. j - Len(Queue) \in DOMAIN q
    BY <1>3, <1>8
  <2>2. (Queue \o q)[j] = q[j - Len(Queue)] /\ j \notin DOMAIN Queue
    BY <1>3, <1>4, <1>8
  <2> QED
    BY <1>2, <1>6, <2>1, <2>2 DEF At
<1>9. CASE j \notin 1..Len(Queue) + Len(q)
  BY <1>3, <1>5, <1>6, <1>9 DEF At
<1> QED
  BY <1>3, <1>7, <1>8, <1>9

LEMMA BystanderStays ==
  ASSUME TypeOK, Bystander
  PROVE  \A j \in Nat, m \in Msg : At(j, m)' <=> At(j, m)
<1>1. CASE UNCHANGED Queue
  BY <1>1 DEF At, Send
<1>2. ASSUME NEW q \in AtMostOne(Owning \union {<<"shutdown">>}), Queue' = Queue \o q
      PROVE  \A j \in Nat, m \in Msg : At(j, m)' <=> At(j, m)
  BY <1>2, SendsStay
<1> QED
  BY <1>1, <1>2 DEF Bystander

(* When a functor is called, those behind it move up by one.                *)
LEMMA SendsMoveUp ==
  ASSUME TypeOK, NEW q \in AtMostOne(Owning), Queue # <<>>, Queue' = Tail(Queue) \o q
  PROVE  /\ \A j \in Nat, m \in Msg : At(j, m)' => At(j + 1, m) /\ 1 < j + 1
         /\ \A j \in Nat, m \in Msg : At(j, m) => j = 1 \/ (At(j - 1, m)' /\ j - 1 \in Nat)
         /\ \A m \in Msg : Head(Queue) = Send(m) <=> At(1, m)
<1>1. Queue \in Seq(Functor) /\ q \in Seq(Functor)
  BY QueueParts, AtMostOneType DEF Functor
<1>2. \A i \in DOMAIN q, m \in Msg : q[i] # Send(m)
  BY SendsApart DEF AtMostOne
<1>3. /\ Len(Queue) \in Nat \ {0} /\ DOMAIN Queue = 1..Len(Queue)
      /\ Len(q) \in Nat /\ DOMAIN q = 1..Len(q)
  BY <1>1, LenProperties, EmptySeq
<1> DEFINE rest == Tail(Queue)
<1>4. rest \in Seq(Functor) /\ Len(rest) = Len(Queue) - 1
      /\ \A i \in 1..Len(Queue) - 1 : rest[i] = Queue[i + 1]
  BY <1>1, HeadTailProperties
<1>a. Head(Queue) = Queue[1]
  BY <1>1
<1> HIDE DEF rest
<1>5. /\ rest \o q \in Seq(Functor) /\ Len(rest \o q) = Len(rest) + Len(q)
      /\ \A i \in 1..Len(rest) + Len(q) :
           (rest \o q)[i] = IF i <= Len(rest) THEN rest[i] ELSE q[i - Len(rest)]
  BY <1>1, <1>4, ConcatProperties
<1>6. DOMAIN (rest \o q) = 1..Len(Queue) - 1 + Len(q)
  BY <1>4, <1>5, LenProperties
<1>7. \A j, m : At(j, m)' <=> j \in DOMAIN (rest \o q) /\ (rest \o q)[j] = Send(m)
  BY DEF At, Send, rest
<1>8. ASSUME NEW j \in Nat, NEW m \in Msg, At(j, m)'
      PROVE  At(j + 1, m) /\ 1 < j + 1
  <2>1. j \in 1..Len(Queue) - 1 + Len(q) /\ (rest \o q)[j] = Send(m)
    BY <1>6, <1>7, <1>8
  <2>2. CASE j <= Len(Queue) - 1
    <3>1. (rest \o q)[j] = Queue[j + 1]
      BY <1>3, <1>4, <1>5, <2>1, <2>2
    <3> QED
      BY <1>3, <2>1, <2>2, <3>1 DEF At
  <2>3. CASE j > Len(Queue) - 1
    <3>1. j - Len(rest) \in DOMAIN q /\ (rest \o q)[j] = q[j - Len(rest)]
      BY <1>3, <1>4, <1>5, <2>1, <2>3
    <3> QED
      BY <1>2, <2>1, <3>1
  <2> QED
    BY <1>3, <2>1, <2>2, <2>3
<1>9. ASSUME NEW j \in Nat, NEW m \in Msg, At(j, m), j # 1
      PROVE  At(j - 1, m)' /\ j - 1 \in Nat
  <2>1. j \in 2..Len(Queue) /\ Queue[j] = Send(m)
    BY <1>3, <1>9 DEF At
  <2>2. j - 1 \in 1..Len(Queue) - 1 /\ (j - 1) + 1 = j
    BY <1>3, <2>1
  <2>3. (rest \o q)[j - 1] = Queue[j]
    <3>1. (rest \o q)[j - 1] = rest[j - 1]
      BY <1>3, <1>4, <1>5, <2>2
    <3> QED
      BY <1>4, <2>2, <3>1
  <2> QED
    <3>1. At(j - 1, m)' <=> j - 1 \in DOMAIN (rest \o q) /\ (rest \o q)[j - 1] = Send(m)
      BY <1>7
    <3>2. j - 1 \in DOMAIN (rest \o q)
      BY <1>3, <1>6, <2>2
    <3>3. (rest \o q)[j - 1] = Send(m)
      BY <2>1, <2>3
    <3> QED
      BY <2>2, <3>1, <3>2, <3>3
<1> QED
  BY <1>3, <1>8, <1>9, <1>a DEF At

(* A message that is taken on comes after all that was.                     *)
LEMMA StreamGrows ==
  ASSUME TypeOK, NEW m \in Msg, stream' = stream \o Parts(m)
  PROVE  /\ Len(stream) \in Nat /\ DOMAIN stream = 1..Len(stream)
         /\ DOMAIN stream' = 1..Len(stream) + MsgSize
         /\ \A i \in 1..Len(stream) : stream'[i] = stream[i] /\ stream[i][1] \in Msg
         /\ \A i \in Len(stream) + 1..Len(stream) + MsgSize : stream'[i] = <<m, i - Len(stream)>>
         /\ \A x : InStream(x)' <=> InStream(x) \/ x = m
<1>1. stream \in Seq(Part) /\ MsgSize \in Nat \ {0}
  BY ConnectionAssumption DEF TypeOK, Part
<1>2. Parts(m) \in Seq(Part)
  <2>1. 0 \in 0..MsgSize
    BY <1>1
  <2> QED
    BY <2>1, SplitMessage
<1>3. Len(Parts(m)) = MsgSize /\ \A k \in 1..MsgSize : Parts(m)[k] = <<m, k>>
  BY <1>1, <1>2 DEF Parts
<1>4. Len(stream) \in Nat /\ DOMAIN stream = 1..Len(stream)
  BY <1>1, LenProperties
<1>5. /\ stream' \in Seq(Part) /\ Len(stream') = Len(stream) + MsgSize
      /\ \A i \in 1..Len(stream) + MsgSize :
           stream'[i] = IF i <= Len(stream) THEN stream[i] ELSE Parts(m)[i - Len(stream)]
  BY <1>1, <1>2, <1>3, ConcatProperties
<1>6. DOMAIN stream' = 1..Len(stream) + MsgSize
  BY <1>5, LenProperties
<1>7. \A i \in 1..Len(stream) : stream'[i] = stream[i] /\ stream[i][1] \in Msg
  <2> SUFFICES ASSUME NEW i \in 1..Len(stream)
               PROVE  stream'[i] = stream[i] /\ stream[i][1] \in Msg
    OBVIOUS
  <2>1. stream[i] \in Part
    BY <1>1, ElementOfSeq
  <2> QED
    BY <1>1, <1>4, <1>5, <2>1 DEF Part
<1>8. \A i \in Len(stream) + 1..Len(stream) + MsgSize : stream'[i] = <<m, i - Len(stream)>>
  BY <1>1, <1>3, <1>4, <1>5
<1>9. \A x : InStream(x)' <=> InStream(x) \/ x = m
  <2> SUFFICES ASSUME NEW x
               PROVE  InStream(x)' <=> InStream(x) \/ x = m
    OBVIOUS
  <2>1. Len(stream) + 1 \in DOMAIN stream' /\ stream'[Len(stream) + 1][1] = m
    <3>1. Len(stream) + 1 \in Len(stream) + 1..Len(stream) + MsgSize
      BY <1>1, <1>4
    <3>a. \A k \in Len(stream) + 1..Len(stream) + MsgSize : stream'[k][1] = m
      <4> SUFFICES ASSUME NEW k \in Len(stream) + 1..Len(stream) + MsgSize
                   PROVE  stream'[k][1] = m
        OBVIOUS
      <4>1. stream'[k] = <<m, k - Len(stream)>>
        BY <1>8
      <4> QED
        BY <4>1
    <3>2. stream'[Len(stream) + 1][1] = m
      BY <3>1, <3>a
    <3> QED
      BY <1>1, <1>4, <1>6, <3>2
  <2>2. InStream(x) => InStream(x)'
    BY <1>1, <1>4, <1>6, <1>7 DEF InStream
  <2>3. x = m => InStream(x)'
    BY <2>1 DEF InStream
  <2>4. InStream(x)' => InStream(x) \/ x = m
    <3> SUFFICES ASSUME NEW i \in 1..Len(stream) + MsgSize, stream'[i][1] = x
                 PROVE  InStream(x) \/ x = m
      BY <1>6 DEF InStream
    <3>1. CASE i <= Len(stream)
      BY <1>4, <1>7, <3>1 DEF InStream
    <3>2. CASE i > Len(stream)
      <4>a. i \in Len(stream) + 1..Len(stream) + MsgSize
        BY <1>1, <1>4, <3>2
      <4>1. stream'[i] = <<m, i - Len(stream)>>
        BY <1>8, <4>a
      <4> QED
        BY <4>1
    <3> QED
      BY <1>1, <1>4, <3>1, <3>2
  <2> QED
    BY <2>2, <2>3, <2>4
<1> QED
  BY <1>4, <1>6, <1>7, <1>8, <1>9

(* A message that was not in the stream is taken on.                        *)
LEMMA TakenInOrder ==
  ASSUME TypeOK, PartsInOrder,
         NEW m \in Msg, stream' = stream \o Parts(m), ~InStream(m)
  PROVE  PartsInOrder'
<1> SUFFICES ASSUME NEW i \in DOMAIN stream', NEW j \in DOMAIN stream', i < j,
                    stream'[i][1] = stream'[j][1]
             PROVE  stream'[i][2] < stream'[j][2]
  BY DEF PartsInOrder
<1>1. Len(stream) \in Nat /\ MsgSize \in Nat
  BY StreamGrows, ConnectionAssumption
<1>2. i \in 1..Len(stream) + MsgSize /\ j \in 1..Len(stream) + MsgSize
  BY StreamGrows
<1>3. CASE j <= Len(stream)
  <2>1. i \in DOMAIN stream /\ j \in DOMAIN stream /\ stream'[i] = stream[i] /\ stream'[j] = stream[j]
    BY <1>1, <1>2, <1>3, StreamGrows
  <2> QED
    BY <2>1 DEF PartsInOrder
<1>4. CASE i <= Len(stream) /\ j > Len(stream)
  <2>a. i \in 1..Len(stream) /\ j \in Len(stream) + 1..Len(stream) + MsgSize
    BY <1>1, <1>2, <1>4
  <2>1. /\ i \in DOMAIN stream /\ stream'[i] = stream[i]
        /\ stream'[j] = <<m, j - Len(stream)>>
    BY <2>a, StreamGrows
  <2> QED
    BY <2>1 DEF InStream
<1>5. CASE i > Len(stream)
  <2>a. /\ i \in Len(stream) + 1..Len(stream) + MsgSize
        /\ j \in Len(stream) + 1..Len(stream) + MsgSize
    BY <1>1, <1>2, <1>5
  <2>1. stream'[i] = <<m, i - Len(stream)>> /\ stream'[j] = <<m, j - Len(stream)>>
    BY <2>a, StreamGrows
  <2>2. i - Len(stream) < j - Len(stream)
    BY <1>1, <1>2
  <2> QED
    BY <2>1, <2>2
<1> QED
  BY <1>1, <1>2, <1>3, <1>4, <1>5

(* Another message waits.                                                   *)
LEMMA OneMoreWaits ==
  ASSUME waiting \in Seq(Msg), NEW m \in Msg, waiting' = Append(waiting, m)
  PROVE  /\ waiting' \in Seq(Msg)
         /\ \A x : Waits(x)' <=> Waits(x) \/ x = m
         /\ \A x, y : Before(x, y)' => Before(x, y) \/ (y = m /\ Waits(x))
<1>1. /\ Len(waiting) \in Nat /\ DOMAIN waiting = 1..Len(waiting)
      /\ DOMAIN waiting' = 1..Len(waiting) + 1
      /\ \A a \in 1..Len(waiting) : waiting'[a] = waiting[a]
      /\ waiting'[Len(waiting) + 1] = m
      /\ waiting' \in Seq(Msg)
  <2>1. Append(waiting, m) \in Seq(Msg) /\ Len(Append(waiting, m)) = Len(waiting) + 1
    BY AppendProperties
  <2>2. DOMAIN Append(waiting, m) = 1..Len(waiting) + 1
    BY <2>1, LenProperties
  <2> QED
    BY <2>1, <2>2, LenProperties, AppendProperties
<1>2. \A x : Waits(x)' <=> Waits(x) \/ x = m
  <2>1. Waits(m)'
    <3>1. Len(waiting) + 1 \in DOMAIN waiting'
      BY <1>1
    <3> QED
      BY <1>1, <3>1 DEF Waits
  <2>2. \A x : Waits(x) => Waits(x)'
    <3>1. \A a \in DOMAIN waiting : a \in DOMAIN waiting' /\ waiting'[a] = waiting[a]
      BY <1>1
    <3> QED
      BY <3>1 DEF Waits
  <2>3. \A x : Waits(x)' => Waits(x) \/ x = m
    <3>1. \A a \in DOMAIN waiting' :
            (a \in DOMAIN waiting /\ waiting'[a] = waiting[a]) \/ waiting'[a] = m
      BY <1>1
    <3> QED
      BY <3>1 DEF Waits
  <2> QED
    BY <2>1, <2>2, <2>3
<1>3. ASSUME NEW x, NEW y, Before(x, y)'
      PROVE  Before(x, y) \/ (y = m /\ Waits(x))
  <2>1. PICK a \in DOMAIN waiting', b \in DOMAIN waiting' :
          a < b /\ waiting'[a] = x /\ waiting'[b] = y
    BY <1>3 DEF Before
  <2>2. a \in DOMAIN waiting /\ waiting[a] = x
    BY <1>1, <2>1
  <2>3. (b \in DOMAIN waiting /\ waiting[b] = y) \/ y = m
    BY <1>1, <2>1
  <2> QED
    BY <2>1, <2>2, <2>3 DEF Before, Waits
<1> QED
  BY <1>1, <1>2, <1>3

(* The message that waited longest does not wait any more.                  *)
LEMMA OneLessWaits ==
  ASSUME waiting \in Seq(Msg), waiting # <<>>, waiting' = Tail(waiting),
         \A x \in Msg : ~Before(x, x)
  PROVE  /\ waiting' \in Seq(Msg)
         /\ \A x : Waits(x)' <=> Waits(x) /\ x # Head(waiting)
         /\ \A x, y : Before(x, y)' => Before(x, y)
<1>1. /\ Len(waiting) \in Nat \ {0} /\ DOMAIN waiting = 1..Len(waiting)
      /\ DOMAIN waiting' = 1..Len(waiting) - 1
      /\ \A a \in 1..Len(waiting) - 1 : waiting'[a] = waiting[a + 1]
      /\ waiting' \in Seq(Msg) /\ Head(waiting) = waiting[1]
      /\ \A a \in DOMAIN waiting : waiting[a] \in Msg
  <2>1. /\ waiting' \in Seq(Msg) /\ Len(waiting') = Len(waiting) - 1
        /\ \A a \in 1..Len(waiting) - 1 : waiting'[a] = waiting[a + 1]
    BY HeadTailProperties
  <2>2. DOMAIN waiting' = 1..Len(waiting) - 1 /\ Len(waiting) \in Nat \ {0}
        /\ DOMAIN waiting = 1..Len(waiting)
    BY <2>1, LenProperties, EmptySeq
  <2> QED
    BY <2>1, <2>2, ElementOfSeq
<1>2. \A a \in DOMAIN waiting' : a \in Nat /\ 0 < a /\ a + 1 \in DOMAIN waiting /\ waiting'[a] = waiting[a + 1]
  BY <1>1
<1>3. ASSUME NEW x, Waits(x)'
      PROVE  Waits(x) /\ x # Head(waiting)
  <2>1. PICK a \in DOMAIN waiting' : waiting'[a] = x
    BY <1>3 DEF Waits
  <2>2. PICK b \in DOMAIN waiting : b = a + 1 /\ waiting[b] = x
    BY <1>2, <2>1
  <2>3. 1 \in DOMAIN waiting /\ 1 < b
    BY <1>1, <1>2, <2>1, <2>2
  <2>4. waiting[1] # x
    BY <1>1, <2>2, <2>3 DEF Before
  <2> QED
    BY <1>1, <2>2, <2>4 DEF Waits
<1>4. ASSUME NEW x, Waits(x), x # Head(waiting)
      PROVE  Waits(x)'
  <2>1. PICK b \in DOMAIN waiting : waiting[b] = x
    BY <1>4 DEF Waits
  <2>2. b # 1
    BY <1>1, <1>4, <2>1
  <2>3. b - 1 \in DOMAIN waiting' /\ waiting'[b - 1] = x
    <3>1. b - 1 \in 1..Len(waiting) - 1 /\ (b - 1) + 1 = b
      BY <1>1, <2>2
    <3> QED
      BY <1>1, <2>1, <3>1
  <2> QED
    BY <2>3 DEF Waits
<1>5. ASSUME NEW x, NEW y, Before(x, y)'
      PROVE  Before(x, y)
  <2>1. PICK a \in DOMAIN waiting', b \in DOMAIN waiting' :
          a < b /\ waiting'[a] = x /\ waiting'[b] = y
    BY <1>5 DEF Before
  <2>2. a + 1 < b + 1
    BY <1>2, <2>1
  <2> QED
    BY <1>2, <2>1, <2>2 DEF Before
<1> QED
  BY <1>1, <1>3, <1>4, <1>5

(* A step after which every message is where it was.                        *)
LEMMA OrderStays ==
  ASSUME Fresh, Turn, PartsInOrder, UNCHANGED <<waiting, unsent, stream>>,
         \A m \in Msg : caller' = Send(m) <=> caller = Send(m),
         \A j \in Nat, m \in Msg : At(j, m)' <=> At(j, m)
  PROVE  Fresh' /\ Turn' /\ PartsInOrder'
<1>1. \A m, n : /\ Behind(m, n)' <=> Behind(m, n)
                /\ Before(m, n)' <=> Before(m, n)
                /\ Waits(m)' <=> Waits(m)
                /\ InStream(m)' <=> InStream(m)
  BY DEF Behind, Before, Waits, InStream
<1>2. \A m \in Msg : Near(m)' <=> Near(m)
  BY DEF Near, Send
<1>3. Fresh'
  BY <1>1 DEF Fresh
<1>4. Turn'
  BY <1>1, <1>2 DEF Turn, Send
<1>5. PartsInOrder'
  BY DEF PartsInOrder
<1> QED
  BY <1>3, <1>4, <1>5

LEMMA OrderInit == HInit => OrderInv
<1> SUFFICES ASSUME HInit
             PROVE  OrderInv
  OBVIOUS
<1>1. /\ stream = <<>> /\ caller = <<"idle">> /\ waiting = <<>> /\ told = "nothing"
  BY DEF HInit, Init
<1>2. ConnInv /\ HTypeOK
  <2>1. ConnInv
    BY ConnInit DEF HInit
  <2> QED
    BY <1>1, <2>1 DEF HTypeOK, ConnInv
<1>3. Queue = << <<"established">> >>
  <2>1. batch = <<>> /\ pending = << <<"established">> >> /\ ran = 0
    BY DEF HInit, Init
  <2>2. SubSeq(batch, ran + 1, Len(batch)) = <<>>
    BY <2>1, SubSeqEmpty
  <2>3. << <<"established">> >> \in Seq(Functor)
    BY DEF Functor, Owning
  <2>4. Queue = <<>> \o << <<"established">> >>
    BY <2>1, <2>2 DEF Queue
  <2> QED
    BY <2>3, <2>4, ConcatEmptySeq
<1>4. \A j \in Nat, m \in Msg : ~At(j, m)
  BY <1>3, SendsApart DEF At, Owning
<1>5. /\ \A m : ~InStream(m) /\ caller # Send(m) /\ ~Waits(m)
      /\ \A m, n : ~Before(m, n)
  BY <1>1, SendsApart DEF InStream, Before, Waits
<1>6. Fresh /\ Turn /\ PartsInOrder
  BY <1>1, <1>4, <1>5 DEF Fresh, Turn, PartsInOrder, Near
<1> QED
  BY <1>2, <1>6 DEF OrderInv

LEMMA OrderInductive ==
  ASSUME OrderInv, [HNext]_hvars
  PROVE  OrderInv'
<1>0. TypeOK /\ HTypeOK /\ ConnInv /\ Fresh /\ Turn /\ PartsInOrder /\ waiting \in Seq(Msg)
  BY DEF OrderInv, HTypeOK
<1>a. ConnInv' /\ TypeOK'
  BY <1>0, ConnTyped
<1>b. unsent \subseteq Msg
  BY <1>0 DEF TypeOK
<1>c. [Next]_vars /\ told' \in {"nothing", "highWater", "writeComplete"}
  BY <1>0, <1>a, Recorded DEF Remember, HTypeOK
<1>d. waiting' \in Seq(Msg) /\ Fresh' /\ Turn' /\ PartsInOrder' => OrderInv'
  BY <1>a, <1>c DEF OrderInv, HTypeOK
<1>e. ASSUME UNCHANGED waiting
      PROVE  \A m, n : /\ Behind(m, n)' <=> Behind(m, n)
                       /\ Before(m, n)' <=> Before(m, n)
                       /\ Waits(m)' <=> Waits(m)
  BY <1>e DEF Behind, Before, Waits
<1>f. ASSUME UNCHANGED stream
      PROVE  PartsInOrder' /\ \A m : InStream(m)' <=> InStream(m)
  BY <1>0, <1>f DEF PartsInOrder, InStream
<1>1. CASE Bystander
  <2>1. UNCHANGED <<stream, unsent, waiting>> /\ \A m \in Msg : caller' = Send(m) <=> caller = Send(m)
    BY <1>0, <1>1, <1>a, Recorded DEF Bystander
  <2>2. \A j \in Nat, m \in Msg : At(j, m)' <=> At(j, m)
    BY <1>0, <1>1, BystanderStays
  <2> QED
    BY <1>0, <1>d, <2>1, <2>2, OrderStays
<1>2. CASE Call
  <2>1. UNCHANGED <<unsent, caller>>
    BY <1>2 DEF Call
  <2>2. /\ \A j \in Nat, m \in Msg : At(j, m)' => At(j + 1, m) /\ 1 < j + 1
        /\ \A j \in Nat, m \in Msg : At(j, m) => j = 1 \/ (At(j - 1, m)' /\ j - 1 \in Nat)
        /\ \A m \in Msg : Head(Queue) = Send(m) <=> At(1, m)
    BY <1>0, <1>2, SendsMoveUp DEF Call
  <2>3. 1 \in Nat /\ \A j \in Nat : j + 1 \in Nat
    OBVIOUS
  (* Whatever is called, the order of those that still wait is the order of *)
  (* those that waited.                                                     *)
  <2>4. ASSUME \A m, n : Before(m, n)' => Before(m, n)
        PROVE  /\ \A m, n \in Msg, i, j \in Nat : i < j /\ At(i, m)' /\ At(j, n)' => ~Behind(n, m)'
               /\ \A m, n \in Msg, j \in Nat : caller' = Send(n) /\ At(j, m)' => ~Behind(n, m)'
               /\ \A m \in Msg : ~Before(m, m)'
    <3>1. \A m, n : ~Behind(n, m) => ~Behind(n, m)'
      BY <2>4 DEF Behind
    <3>2. ASSUME NEW m \in Msg, NEW n \in Msg, NEW i \in Nat, NEW j \in Nat,
                 i < j, At(i, m)', At(j, n)'
          PROVE  ~Behind(n, m)'
      <4>1. At(i + 1, m) /\ At(j + 1, n) /\ i + 1 < j + 1 /\ i + 1 \in Nat /\ j + 1 \in Nat
        BY <2>2, <3>2
      <4>2. ~Behind(n, m)
        BY <1>0, <4>1 DEF Turn
      <4> QED
        BY <3>1, <4>2
    <3>3. ASSUME NEW m \in Msg, NEW n \in Msg, NEW j \in Nat, caller = Send(n), At(j, m)'
          PROVE  ~Behind(n, m)'
      <4>1. ~Behind(n, m)
        BY <1>0, <2>2, <2>3, <3>3 DEF Turn
      <4> QED
        BY <3>1, <4>1
    <3>4. \A m \in Msg : ~Before(m, m)'
      BY <1>0, <2>4 DEF Turn
    <3> QED
      BY <2>1, <3>2, <3>3, <3>4
  <2>5. ASSUME NEW m \in Msg, Head(Queue) = Send(m)
        PROVE  waiting' \in Seq(Msg) /\ Fresh' /\ Turn' /\ PartsInOrder'
    <3>1. At(1, m) /\ waiting' = Tail(waiting)
      BY <1>0, <1>2, <1>a, <2>2, <2>5, Recorded
    <3>2. waiting # <<>> /\ Head(waiting) = m
      BY <1>0, <3>1, HeadWaitsLongest
    <3>3. /\ waiting' \in Seq(Msg)
          /\ \A x : Waits(x)' <=> Waits(x) /\ x # m
          /\ \A x, y : Before(x, y)' => Before(x, y)
      BY <1>0, <3>1, <3>2, OneLessWaits DEF Turn
    <3>4. UNCHANGED stream \/ stream' = stream \o Parts(m)
      BY <1>2, <2>5, SendsApart DEF Call, Takes
    <3>5. Waits(m) /\ ~InStream(m)
      BY <1>0, <2>3, <3>1 DEF Turn, Near
    <3>6. \A x : InStream(x)' => InStream(x) \/ x = m
      BY <1>0, <1>f, <3>4, StreamGrows
    <3>7. PartsInOrder'
      BY <1>0, <1>f, <3>4, <3>5, TakenInOrder
    <3>8. Fresh'
      BY <1>0, <2>1, <3>3, <3>5, <3>6 DEF Fresh
    <3>9. \A x \in Msg : Near(x)' <=> Near(x) /\ x # m
      <4>1. ~Behind(m, m) => FALSE
        BY DEF Behind
      <4>2. ASSUME NEW x \in Msg, Near(x)'
            PROVE  Near(x) /\ x # m
        <5>1. CASE caller = Send(x)
          BY <1>0, <2>3, <3>1, <4>1, <5>1 DEF Turn, Near
        <5>2. ASSUME NEW j \in Nat, At(j, x)'
              PROVE  Near(x) /\ x # m
          <6>1. At(j + 1, x) /\ 1 < j + 1
            BY <2>2, <5>2
          <6> QED
            BY <1>0, <2>3, <3>1, <4>1, <6>1 DEF Turn, Near
        <5> QED
          BY <2>1, <4>2, <5>1, <5>2 DEF Near, Send
      <4>3. ASSUME NEW x \in Msg, Near(x), x # m
            PROVE  Near(x)'
        <5>1. ~At(1, x)
          BY <2>2, <2>5, <4>3, SendsApart
        <5> QED
          BY <2>1, <2>2, <4>3, <5>1 DEF Near, Send
      <4> QED
        BY <4>2, <4>3
    <3>10. Turn'
      <4>1. \A x \in Msg : Waits(x)' <=> Near(x)'
        BY <1>0, <3>3, <3>9 DEF Turn
      <4>2. \A x \in Msg : Waits(x)' => ~InStream(x)'
        BY <1>0, <3>3, <3>6 DEF Turn
      <4> QED
        BY <2>4, <3>3, <4>1, <4>2 DEF Turn, Send
    <3> QED
      BY <3>3, <3>7, <3>8, <3>10
  <2>6. ASSUME \A m \in Msg : Head(Queue) # Send(m)
        PROVE  waiting' \in Seq(Msg) /\ Fresh' /\ Turn' /\ PartsInOrder'
    <3>1. UNCHANGED <<waiting, stream>> /\ \A m \in Msg : ~At(1, m)
      BY <1>0, <1>2, <1>a, <2>2, <2>6, Recorded DEF Call
    <3>2. \A m \in Msg : Near(m)' <=> Near(m)
      BY <2>1, <2>2, <2>3, <3>1 DEF Near, Send
    <3>3. Fresh'
      BY <1>0, <1>e, <1>f, <2>1, <3>1 DEF Fresh
    <3>4. Turn'
      BY <1>0, <1>e, <1>f, <2>4, <3>1, <3>2 DEF Turn, Send
    <3> QED
      BY <1>0, <1>f, <3>1, <3>3, <3>4
  <2> QED
    BY <1>d, <2>5, <2>6
<1>3. ASSUME NEW m \in Msg, Direct(m)
      PROVE  OrderInv'
  <2>1. /\ UNCHANGED <<caller, waiting>> /\ m \in unsent /\ unsent' = unsent \ {m}
        /\ UNCHANGED stream \/ stream' = stream \o Parts(m)
    BY <1>0, <1>3, <1>a, Recorded DEF Direct, Takes
  <2>2. \A j \in Nat, x \in Msg : At(j, x)' <=> At(j, x)
    <3>1. AtMostOne(Owning) \subseteq AtMostOne(Owning \union {<<"shutdown">>})
      BY DEF AtMostOne
    <3> QED
      BY <1>0, <1>3, <3>1, SendsStay DEF Direct
  <2>3. ~InStream(m) /\ ~Waits(m)
    BY <1>0, <2>1 DEF Fresh
  <2>4. \A x : InStream(x)' => InStream(x) \/ x = m
    BY <1>0, <1>f, <2>1, StreamGrows
  <2>5. \A x \in Msg : Near(x)' <=> Near(x)
    BY <2>1, <2>2 DEF Near, Send
  <2>6. Fresh'
    BY <1>0, <1>e, <2>1, <2>4 DEF Fresh
  <2>7. Turn'
    <3>1. \A x \in Msg : Waits(x)' => ~InStream(x)'
      BY <1>0, <1>e, <2>1, <2>3, <2>4 DEF Turn
    <3> QED
      BY <1>0, <1>e, <2>1, <2>2, <2>5, <3>1 DEF Turn, Send
  <2>8. PartsInOrder'
    BY <1>0, <1>f, <2>1, <2>3, TakenInOrder
  <2> QED
    BY <1>0, <1>d, <2>1, <2>6, <2>7, <2>8
<1>4. ASSUME NEW m \in Msg, Begin(m)
      PROVE  OrderInv'
  <2>1. /\ UNCHANGED <<Queue, stream>> /\ caller = <<"idle">> /\ caller' = Send(m)
        /\ waiting' = Append(waiting, m)
        /\ m \in unsent /\ unsent' = unsent \ {m}
    BY <1>0, <1>4, <1>a, Recorded DEF Begin
  <2>2. \A j, x : At(j, x)' <=> At(j, x)
    BY <2>1 DEF At, Send
  <2>3. ~InStream(m) /\ ~Waits(m)
    BY <1>0, <2>1 DEF Fresh
  <2>4. /\ waiting' \in Seq(Msg)
        /\ \A x : Waits(x)' <=> Waits(x) \/ x = m
        /\ \A x, y : Before(x, y)' => Before(x, y) \/ (y = m /\ Waits(x))
    BY <1>0, <2>1, OneMoreWaits
  <2>5. \A x : ~Before(m, x)
    BY <2>3 DEF Before, Waits
  <2>6. ~Near(m) /\ \A j \in Nat : ~At(j, m)
    BY <1>0, <2>3 DEF Turn, Near
  <2>7. \A x \in Msg : Near(x)' <=> Near(x) \/ x = m
    BY <2>1, <2>2, SendsApart DEF Near, Send
  <2>8. Fresh'
    BY <1>0, <1>f, <2>1, <2>4 DEF Fresh
  <2>9. Turn'
    <3>1. \A x \in Msg : Waits(x)' <=> Near(x)'
      BY <1>0, <2>4, <2>7 DEF Turn
    <3>2. \A x \in Msg : Waits(x)' => ~InStream(x)'
      BY <1>0, <1>f, <2>1, <2>3, <2>4 DEF Turn
    <3>3. \A x, n \in Msg, i, j \in Nat : i < j /\ At(i, x)' /\ At(j, n)' => ~Behind(n, x)'
      <4>1. \A x, n : x # m /\ ~Behind(n, x) => ~Behind(n, x)'
        BY <2>4 DEF Behind
      <4> QED
        BY <1>0, <2>2, <2>6, <4>1 DEF Turn
    <3>4. \A x, n \in Msg, j \in Nat : caller' = Send(n) /\ At(j, x)' => ~Behind(n, x)'
      <4>1. \A x : x # m => ~Behind(m, x)'
        BY <2>4, <2>5 DEF Behind
      <4> QED
        BY <2>1, <2>2, <2>6, <4>1, SendsApart
    <3>5. \A x \in Msg : ~Before(x, x)'
      BY <1>0, <2>3, <2>4 DEF Turn
    <3> QED
      BY <3>1, <3>2, <3>3, <3>4, <3>5 DEF Turn, Send
  <2> QED
    BY <1>d, <1>f, <2>1, <2>4, <2>8, <2>9
<1>5. ASSUME NEW m \in Msg, Forward(m)
      PROVE  OrderInv'
  <2>1. /\ UNCHANGED <<stream, unsent, waiting>> /\ caller = Send(m) /\ caller' = <<"idle">>
        /\ Queue' = Append(Queue, Send(m))
    <3>1. Queue \in Seq(Functor) /\ Send(m) \in Functor
      BY <1>0, QueueParts, SendsApart
    <3>2. Append(Queue, Send(m)) = Queue \o <<Send(m)>>
      BY <3>1, AppendIsConcat
    <3> QED
      BY <1>0, <1>5, <1>a, <3>2, Recorded DEF Forward
  <2>2. \A x \in Msg : caller' # Send(x)
    BY <2>1, SendsApart
  <2> DEFINE l == Len(Queue) + 1
  <2>3. l \in Nat \ {0} /\ DOMAIN Queue = 1..l - 1 /\ DOMAIN Queue' = 1..l /\ Queue'[l] = Send(m)
        /\ \A i \in 1..l - 1 : Queue'[i] = Queue[i]
    <3>1. Queue \in Seq(Functor) /\ Send(m) \in Functor
      BY <1>0, QueueParts, SendsApart
    <3>2. Append(Queue, Send(m)) \in Seq(Functor) /\ Len(Append(Queue, Send(m))) = l
      BY <3>1, AppendProperties
    <3>3. DOMAIN Append(Queue, Send(m)) = 1..l /\ Len(Queue) \in Nat /\ DOMAIN Queue = 1..Len(Queue)
      BY <3>1, <3>2, LenProperties
    <3> QED
      BY <2>1, <3>1, <3>3, AppendProperties
  <2>a. PICK k \in Nat : k = l
    BY <2>3
  <2> HIDE DEF l
  <2>4. \A j \in Nat, x \in Msg : At(j, x)' => (At(j, x) /\ j < l) \/ (x = m /\ j = l)
    <3> SUFFICES ASSUME NEW j \in Nat, NEW x \in Msg, At(j, x)'
                 PROVE  (At(j, x) /\ j < l) \/ (x = m /\ j = l)
      OBVIOUS
    <3>1. j \in 1..l /\ Queue'[j] = Send(x)
      BY <2>3 DEF At, Send
    <3>2. CASE j = l
      BY <2>3, <3>1, <3>2, SendsApart
    <3>3. CASE j # l
      BY <2>3, <3>1, <3>3 DEF At
    <3> QED
      BY <3>2, <3>3
  <2>5. At(k, m)' /\ \A j \in Nat, x \in Msg : At(j, x) => At(j, x)'
    BY <2>3, <2>a DEF At, Send
  <2>6. \A x \in Msg : Near(x)' <=> Near(x)
    <3>1. ASSUME NEW x \in Msg, Near(x)'
          PROVE  Near(x)
      BY <2>1, <2>2, <2>4, <3>1 DEF Near, Send
    <3>2. ASSUME NEW x \in Msg, Near(x)
          PROVE  Near(x)'
      <4>1. caller = Send(x) => x = m
        BY <2>1, SendsApart
      <4> QED
        BY <2>5, <3>2, <4>1 DEF Near, Send
    <3> QED
      BY <3>1, <3>2
  <2>7. Fresh'
    BY <1>0, <1>e, <1>f, <2>1 DEF Fresh
  <2>8. Turn'
    <3>1. \A x, n \in Msg, i, j \in Nat : i < j /\ At(i, x)' /\ At(j, n)' => ~Behind(n, x)
      <4> SUFFICES ASSUME NEW x \in Msg, NEW n \in Msg, NEW i \in Nat, NEW j \in Nat,
                          i < j, At(i, x)', At(j, n)'
                   PROVE  ~Behind(n, x)
        OBVIOUS
      <4>a. (At(j, n) /\ j < l) \/ (n = m /\ j = l)
        BY <2>4
      <4>b. i # l
        BY <2>3, <4>a
      <4>1. At(i, x) /\ (At(j, n) \/ n = m)
        BY <2>4, <4>a, <4>b
      <4> QED
        BY <1>0, <2>1, <4>1 DEF Turn
    <3> QED
      BY <1>0, <1>e, <1>f, <2>1, <2>2, <2>6, <3>1 DEF Turn, Send
  <2> QED
    BY <1>0, <1>d, <1>f, <2>1, <2>7, <2>8
<1> QED
  BY <1>0, <1>1, <1>2, <1>3, <1>4, <1>5, <1>c, StepShapes

-----------------------------------------------------------------------------
(* No message is lost while the connection is up.                           *)

(* The write half of a connection that is up is not shut down; and before   *)
(* it came up nobody could send.                                            *)
Open == /\ state = "connected" \/ ups = 0 => ~shutWr
        /\ ups = 0 => unsent = Msg

(* The connection comes up once, its write half is shut down only as it     *)
(* leaves kConnected, and a peer that reset it does not come back.          *)
LEMMA StateSteps ==
  ASSUME ConnInv, [Next]_vars
  PROVE  /\ \/ UNCHANGED <<state, shutWr, ups>>
            \/ state' # "connected" /\ ups = 1 /\ ups' = 1
            \/ ups = 0 /\ ups' = 1 /\ UNCHANGED <<shutWr, unsent>>
         /\ unsent' = unsent \/ ups = 1
         /\ peer' # "reset" => peer # "reset"
<1> USE DEF loop, server, socket, history
<1>0. TypeOK
  BY DEF ConnInv
<1>a. ups \in {0, 1} /\ ups' \in {0, 1}
  BY ConnInductive, <1>0 DEF ConnInv, TypeOK
<1>1. CASE ConnectEstablished
  <2>1. ups' = ups + 1 /\ UNCHANGED <<shutWr, peer, unsent>>
    BY <1>1 DEF ConnectEstablished, Runs
  <2> QED
    BY <1>a, <2>1
<1>2. CASE ConnectDestroyed \/ RunShutdown
  <2>1. \E f \in Later : Runs(f)
    BY <1>2, LaterFunctors DEF ConnectDestroyed, RunShutdown
  <2>2. ups = 1
    BY <2>1, OnlyWhenUp
  <2>3. UNCHANGED <<unsent, peer, ups>>
    BY <1>2 DEF ConnectDestroyed, RunShutdown, Runs
  <2>4. UNCHANGED <<state, shutWr>> \/ state' # "connected"
    BY <1>2 DEF ConnectDestroyed, RunShutdown, ShutdownInLoop
  <2> QED
    BY <2>2, <2>3, <2>4
<1>3. CASE CloseCallback \/ HandleRead \/ HandleWrite
  <2>1. todo # <<>> /\ UNCHANGED <<unsent, peer>>
    BY <1>3 DEF CloseCallback, HandleRead, HandleWrite, Does, BrokenWrite
  <2>2. ups = 1
    BY <2>1, OnlyWhenUp
  <2>3. UNCHANGED ups
    BY <1>3 DEF CloseCallback, HandleRead, HandleWrite, HandleClose
  <2>4. UNCHANGED <<state, shutWr>> \/ state' # "connected"
    BY <1>3 DEF CloseCallback, HandleRead, HandleWrite, HandleClose, DelayedShutdown, BrokenWrite
  <2> QED
    BY <2>1, <2>2, <2>3, <2>4
<1>4. ASSUME NEW m \in Msg, SendOnLoop(m) \/ RunSend(m)
      PROVE  /\ UNCHANGED <<state, shutWr, ups, peer>>
             /\ unsent' = unsent \/ ups = 1
  <2>1. SendInLoop(m) /\ UNCHANGED state /\ (unsent' = unsent \/ state = "connected")
    BY <1>4 DEF SendOnLoop, RunSend, Runs
  <2> QED
    BY <1>0, <2>1, SendEffect, OnlyWhenUp
<1>5. CASE ShutdownOnLoop \/ SetDisconnecting
  <2>1. state = "connected" \/ caller # <<"idle">>
    BY <1>5 DEF ShutdownOnLoop, SetDisconnecting
  <2>2. UNCHANGED <<ups, unsent, peer>> /\ state' # "connected"
    BY <1>5 DEF ShutdownOnLoop, SetDisconnecting, ShutdownInLoop
  <2> QED
    BY <2>1, <2>2, OnlyWhenUp
<1>6. ASSUME NEW m \in Msg, BeginSend(m)
      PROVE  UNCHANGED <<state, shutWr, ups, peer>> /\ ups = 1
  BY <1>6, OnlyWhenUp DEF BeginSend, TestState
<1>7. CASE \/ DoPendingFunctors \/ BatchDone \/ RunUserCallback
           \/ HandleError \/ RemoveConnection \/ CallbackReturns
  BY <1>7 DEF DoPendingFunctors, BatchDone, RunUserCallback, HandleError, RemoveConnection,
              CallbackReturns, Runs
<1>8. CASE \/ BeginShutdown \/ KeepPointer \/ DropPointer \/ QueueFunctor
           \/ \E writable \in BOOLEAN : HandleEvent(writable)
           \/ RemoveConnectionInLoop
  BY <1>8 DEF BeginShutdown, KeepPointer, DropPointer, QueueFunctor, HandleEvent,
              RemoveConnectionInLoop
<1>9. CASE PeerDoes(PeerSends) \/ PeerDoes(PeerCloses) \/ PeerDoes(PeerResets)
  BY <1>9 DEF PeerDoes, PeerSends, PeerCloses, PeerResets
<1>10. CASE UNCHANGED vars
  BY <1>10 DEF vars
<1> QED
  BY <1>1, <1>2, <1>3, <1>4, <1>5, <1>6, <1>7, <1>8, <1>9, <1>10 DEF Next, LoopStep, UserStep

LEMMA OpenKeeps ==
  ASSUME ConnInv, Open, [Next]_vars
  PROVE  Open'
<1>1. ups \in {0, 1}
  BY DEF ConnInv, TypeOK
<1> QED
  BY <1>1, StateSteps DEF Open

(* What was taken on stays taken on.                                        *)
LEMMA TakenStays ==
  ASSUME TypeOK, NEW m \in Msg, stream' = stream \o Parts(m)
  PROVE  Taken(m)' /\ \A x : Taken(x) => Taken(x)'
<1>1. Len(stream) \in Nat /\ MsgSize \in Nat
  BY StreamGrows, ConnectionAssumption
<1>2. ToSet(stream) \subseteq ToSet(stream')
  <2>1. \A i \in DOMAIN stream : i \in DOMAIN stream' /\ stream'[i] = stream[i]
    BY <1>1, StreamGrows
  <2> QED
    BY <2>1 DEF ToSet
<1>3. ASSUME NEW k \in 1..MsgSize
      PROVE  <<m, k>> \in ToSet(stream')
  <2>1. Len(stream) + k \in Len(stream) + 1..Len(stream) + MsgSize
        /\ (Len(stream) + k) - Len(stream) = k
    BY <1>1
  <2>2. Len(stream) + k \in DOMAIN stream'
    BY <1>1, StreamGrows
  <2>3. stream'[Len(stream) + k] = <<m, (Len(stream) + k) - Len(stream)>>
    BY <2>1, StreamGrows
  <2> QED
    BY <2>1, <2>2, <2>3 DEF ToSet
<1>4. Taken(m)'
  BY <1>3 DEF Taken
<1>5. \A x : Taken(x) => Taken(x)'
  BY <1>2 DEF Taken
<1> QED
  BY <1>4, <1>5

LEMMA WayAt ==
  /\ TypeOK => \A m : OnItsWay(m) => caller = Send(m) \/ \E j \in Nat : At(j, m)
  /\ \A m : (caller' = Send(m) \/ \E j \in Nat : At(j, m)') => OnItsWay(m)'
<1>1. ASSUME TypeOK
      PROVE  DOMAIN Queue \subseteq Nat
  <2>1. DOMAIN Queue = 1..Len(Queue)
    BY <1>1, QueueParts, LenProperties
  <2> QED
    BY <2>1
<1>2. ASSUME TypeOK, NEW m, OnItsWay(m)
      PROVE  caller = Send(m) \/ \E j \in Nat : At(j, m)
  BY <1>1, <1>2 DEF OnItsWay, Send, At, ToSet
<1>3. ASSUME NEW m, caller' = Send(m) \/ \E j \in Nat : At(j, m)'
      PROVE  OnItsWay(m)'
  BY <1>3 DEF OnItsWay, Send, At, ToSet
<1> QED
  BY <1>2, <1>3

LostInv == ConnInv /\ Open /\ NothingLostWhileUp

LEMMA LostInit == HInit => LostInv
<1> SUFFICES ASSUME HInit
             PROVE  LostInv
  OBVIOUS
<1>1. state = "disconnected" /\ shutWr = FALSE /\ unsent = Msg
  BY DEF HInit, Init
<1> QED
  BY <1>1, ConnInit DEF HInit, LostInv, Open, NothingLostWhileUp

LEMMA LostInductive ==
  ASSUME LostInv, [HNext]_hvars
  PROVE  LostInv'
<1>0. ConnInv /\ Open /\ NothingLostWhileUp /\ TypeOK
  BY DEF LostInv, ConnInv
<1>1. ConnInv' /\ TypeOK'
  BY <1>0, ConnTyped
<1>2. [Next]_vars
  BY <1>0, <1>1, Recorded
<1>3. Open'
  BY <1>0, <1>2, OpenKeeps
<1>4. NothingLostWhileUp'
  <2> SUFFICES ASSUME state' = "connected", peer' # "reset", NEW m \in Msg, m \notin unsent'
               PROVE  Taken(m)' \/ OnItsWay(m)'
    BY DEF NothingLostWhileUp
  <2>0. MsgSize \in Nat
    BY ConnectionAssumption
  <2>1. ups \in {0, 1}
    BY <1>0 DEF TypeOK
  <2>2. ups = 1
    <3>1. ASSUME ups = 0
          PROVE  m \in unsent'
      BY <1>0, <1>2, <3>1, StateSteps DEF Open
    <3> QED
      BY <2>1, <3>1
  <2>3. state = "connected" /\ peer # "reset" /\ ~shutWr
    BY <1>0, <1>2, <2>2, StateSteps DEF Open
  <2>4. ~Broken /\ \A x \in Msg : Takes(x) => stream' = stream \o Parts(x)
    BY <2>3 DEF Broken, Takes
  <2>5. m \notin unsent => Taken(m) \/ caller = Send(m) \/ \E j \in Nat : At(j, m)
    BY <1>0, <2>3, WayAt DEF NothingLostWhileUp
  <2>6. UNCHANGED stream => (Taken(m) => Taken(m)')
    BY DEF Taken
  <2>7. CASE Bystander
    <3>1. \A j \in Nat : At(j, m) => At(j, m)'
      BY <1>0, <2>7, BystanderStays
    <3> QED
      BY <2>5, <2>6, <2>7, <3>1, WayAt DEF Bystander
  <2>8. CASE Call
    <3>1. m \notin unsent /\ UNCHANGED caller
      BY <2>8 DEF Call
    <3>2. /\ \A j \in Nat : At(j, m) => j = 1 \/ (At(j - 1, m)' /\ j - 1 \in Nat)
          /\ \A x \in Msg : Head(Queue) = Send(x) <=> At(1, x)
      BY <1>0, <2>8, SendsMoveUp DEF Call
    <3>3. \/ UNCHANGED stream /\ ~At(1, m)
          \/ \E x \in Msg : /\ Head(Queue) = Send(x) /\ stream' = stream \o Parts(x)
      BY <2>4, <2>8, <3>2 DEF Call
    <3>4. Taken(m) => Taken(m)'
      BY <1>0, <2>6, <3>3, TakenStays
    <3>5. At(1, m) => Taken(m)'
      <4> SUFFICES ASSUME At(1, m)
                   PROVE  Taken(m)'
        OBVIOUS
      <4>1. PICK x \in Msg : Head(Queue) = Send(x) /\ stream' = stream \o Parts(x)
        BY <3>3
      <4>2. x = m
        BY <3>2, <4>1, SendsApart
      <4> QED
        BY <1>0, <4>1, <4>2, TakenStays
    <3> QED
      BY <2>5, <3>1, <3>2, <3>4, <3>5, WayAt
  <2>9. ASSUME NEW x \in Msg, Direct(x)
        PROVE  Taken(m)' \/ OnItsWay(m)'
    <3>1. stream' = stream \o Parts(x) /\ UNCHANGED caller /\ (m \notin unsent \/ m = x)
      BY <2>4, <2>9 DEF Direct
    <3>2. AtMostOne(Owning) \subseteq AtMostOne(Owning \union {<<"shutdown">>})
      BY DEF AtMostOne
    <3>3. \A j \in Nat : At(j, m) => At(j, m)'
      BY <1>0, <2>9, <3>2, SendsStay DEF Direct
    <3> QED
      BY <1>0, <2>5, <3>1, <3>3, TakenStays, WayAt
  <2>10. ASSUME NEW x \in Msg, Begin(x)
         PROVE  Taken(m)' \/ OnItsWay(m)'
    <3>1. /\ UNCHANGED <<Queue, stream>> /\ caller = <<"idle">> /\ caller' = Send(x)
          /\ m \notin unsent \/ m = x
      BY <2>10 DEF Begin
    <3>2. caller # Send(m) /\ \A j \in Nat : At(j, m) => At(j, m)'
      BY <3>1, SendsApart DEF At, Send
    <3> QED
      BY <2>5, <2>6, <3>1, <3>2, WayAt
  <2>11. ASSUME NEW x \in Msg, Forward(x)
         PROVE  Taken(m)' \/ OnItsWay(m)'
    <3>1. UNCHANGED <<stream, unsent>> /\ caller = Send(x) /\ Queue' = Queue \o <<Send(x)>>
      BY <2>11 DEF Forward
    <3>2. Queue \in Seq(Functor) /\ Send(x) \in Functor
      BY <1>0, QueueParts, SendsApart
    <3>3. Queue' = Append(Queue, Send(x))
      BY <3>1, <3>2, AppendIsConcat
    <3>4. /\ Len(Queue) \in Nat /\ DOMAIN Queue = 1..Len(Queue)
          /\ DOMAIN Queue' = 1..Len(Queue) + 1 /\ Queue'[Len(Queue) + 1] = Send(x)
          /\ \A i \in 1..Len(Queue) : Queue'[i] = Queue[i]
      <4>1. Append(Queue, Send(x)) \in Seq(Functor)
            /\ Len(Append(Queue, Send(x))) = Len(Queue) + 1
        BY <3>2, AppendProperties
      <4>2. DOMAIN Append(Queue, Send(x)) = 1..Len(Queue) + 1
            /\ Len(Queue) \in Nat /\ DOMAIN Queue = 1..Len(Queue)
        BY <3>2, <4>1, LenProperties
      <4> QED
        BY <3>2, <3>3, <4>2, AppendProperties
    <3>5. PICK l \in Nat : l = Len(Queue) + 1
      BY <3>4
    <3>6. (\A j \in Nat : At(j, m) => At(j, m)') /\ At(l, x)'
      BY <3>4, <3>5 DEF At, Send
    <3>7. caller = Send(m) => x = m
      BY <3>1, SendsApart
    <3> QED
      BY <2>5, <2>6, <3>1, <3>5, <3>6, <3>7, WayAt
  <2> QED
    BY <1>0, <1>2, <2>7, <2>8, <2>9, <2>10, <2>11, StepShapes
<1> QED
  BY <1>1, <1>3, <1>4 DEF LostInv

-----------------------------------------------------------------------------
(* What the user is told of the buffer.                                     *)

(* The three things a step does to the buffer, and what it queues then.     *)
LEMMA OutputSteps ==
  ASSUME TypeOK, [Next]_vars
  PROVE  \/ /\ UNCHANGED output
            /\ \/ pending' \in {pending, <<>>}
               \/ \E f \in Functor \ {<<"highWater">>, <<"writeComplete">>} :
                    pending' = Append(pending, f)
         \/ \E m \in Msg, n \in 0..MsgSize : TakeMessage(m, n) /\ (n # 0 => output = <<>>)
         \/ \E n \in 1..Len(output) :
              /\ output' = SubSeq(output, n + 1, Len(output))
              /\ IF n = Len(output) THEN pending' = Append(pending, <<"writeComplete">>)
                                    ELSE UNCHANGED pending
<1> USE DEF loop, server, socket, history
<1>1. ASSUME NEW m \in Msg, SendOnLoop(m) \/ RunSend(m)
      PROVE  \/ UNCHANGED <<output, pending>>
             \/ \E n \in 0..MsgSize : TakeMessage(m, n) /\ (n # 0 => output = <<>>)
  <2>1. SendInLoop(m)
    BY <1>1 DEF SendOnLoop, RunSend
  <2> QED
    BY <2>1, SendKinds
<1>2. CASE HandleWrite
  BY <1>2 DEF HandleWrite
<1>3. CASE RemoveConnectionInLoop \/ QueueFunctor
  <2>1. <<"destroyed">> \in Functor \ {<<"highWater">>, <<"writeComplete">>}
        /\ <<"shutdown">> \in Functor \ {<<"highWater">>, <<"writeComplete">>}
    BY DEF Functor, Owning, Raw
  <2>2. caller[1] = "send" => caller \in Functor \ {<<"highWater">>, <<"writeComplete">>}
    <3>1. <<"highWater">>[1] # "send" /\ <<"writeComplete">>[1] # "send"
      OBVIOUS
    <3>2. caller[1] = "send" => caller \in Functor
      BY DEF TypeOK, Functor, Raw
    <3> QED
      BY <3>1, <3>2
  <2> QED
    BY <1>3, <2>1, <2>2 DEF RemoveConnectionInLoop, QueueFunctor
<1>4. CASE \/ DoPendingFunctors \/ BatchDone \/ ConnectEstablished \/ ConnectDestroyed
           \/ RunUserCallback \/ RunShutdown
  <2>1. UNCHANGED output /\ pending' \in {pending, <<>>}
    BY <1>4 DEF DoPendingFunctors, BatchDone, ConnectEstablished, ConnectDestroyed,
                RunUserCallback, RunShutdown
  <2> QED
    BY <2>1
<1>5. CASE CloseCallback \/ HandleRead \/ HandleError \/ RemoveConnection \/ CallbackReturns
  <2>1. UNCHANGED <<output, pending>>
    BY <1>5 DEF CloseCallback, HandleRead, HandleClose, HandleError, RemoveConnection,
                CallbackReturns
  <2> QED
    BY <2>1
<1>6. CASE \/ \E m \in Msg : BeginSend(m)
           \/ BeginShutdown \/ KeepPointer \/ DropPointer \/ SetDisconnecting \/ ShutdownOnLoop
  <2>1. UNCHANGED <<output, pending>>
    BY <1>6 DEF BeginSend, BeginShutdown, KeepPointer, DropPointer, SetDisconnecting, ShutdownOnLoop
  <2> QED
    BY <2>1
<1>7. CASE \/ \E writable \in BOOLEAN : HandleEvent(writable)
           \/ PeerDoes(PeerSends) \/ PeerDoes(PeerCloses) \/ PeerDoes(PeerResets)
           \/ UNCHANGED vars
  <2>1. UNCHANGED <<output, pending>>
    BY <1>7 DEF HandleEvent, PeerDoes, vars
  <2> QED
    BY <2>1
<1> QED
  BY <1>1, <1>2, <1>3, <1>4, <1>5, <1>6, <1>7 DEF Next, LoopStep, UserStep

LEMMA NewOnes ==
  ASSUME TypeOK
  PROVE  /\ pending' \in {pending, <<>>} => NewFunctors = {}
         /\ \A f \in Functor : pending' = Append(pending, f) => NewFunctors = {f}
<1>1. pending \in Seq(Functor) /\ Len(pending) \in Nat
  BY QueueParts
<1>2. ASSUME pending' \in {pending, <<>>}
      PROVE  NewFunctors = {}
  BY <1>1, <1>2 DEF NewFunctors
<1>3. ASSUME NEW f \in Functor, pending' = Append(pending, f)
      PROVE  NewFunctors = {f}
  <2>1. Len(pending') = Len(pending) + 1 /\ pending'[Len(pending) + 1] = f
    BY <1>1, <1>3, AppendProperties
  <2>2. Len(pending) + 1..Len(pending') = {Len(pending) + 1}
    BY <1>1, <2>1
  <2> QED
    BY <2>1, <2>2 DEF NewFunctors
<1> QED
  BY <1>2, <1>3

TellInv == ConnInv /\ BackpressureTold

LEMMA TellInit == HInit => TellInv
<1> SUFFICES ASSUME HInit
             PROVE  TellInv
  OBVIOUS
<1>1. output = <<>> /\ told = "nothing"
  BY DEF HInit, Init
<1>2. BackpressureTold
  BY <1>1, ConnectionAssumption DEF BackpressureTold
<1> QED
  BY <1>2, ConnInit DEF HInit, TellInv

LEMMA TellInductive ==
  ASSUME TellInv, [HNext]_hvars
  PROVE  TellInv'
<1>0. ConnInv /\ BackpressureTold /\ TypeOK
  BY DEF TellInv, ConnInv
<1>1. ConnInv' /\ TypeOK'
  BY <1>0, ConnTyped
<1>2. [Next]_vars /\ Remember
  BY <1>0, <1>1, Recorded
<1>3. /\ <<"highWater">> \in NewFunctors => told' = "highWater"
      /\ <<"highWater">> \notin NewFunctors /\ <<"writeComplete">> \in NewFunctors
           => told' = "writeComplete"
      /\ <<"highWater">> \notin NewFunctors /\ <<"writeComplete">> \notin NewFunctors
           => UNCHANGED told
  BY <1>2 DEF Remember
<1>4. <<"highWater">> # <<"writeComplete">>
      /\ <<"highWater">> \in Functor /\ <<"writeComplete">> \in Functor
  BY DEF Functor, Owning
<1>5. /\ output \in Seq(Part) /\ Len(output) \in Nat
      /\ pending \in Seq(Functor) /\ HighWaterMark \in Nat /\ MsgSize \in Nat \ {0}
  BY <1>0, QueueParts, LenProperties, ConnectionAssumption DEF TypeOK, Part
<1>6. ASSUME UNCHANGED output,
             \/ pending' \in {pending, <<>>}
             \/ \E f \in Functor \ {<<"highWater">>, <<"writeComplete">>} :
                  pending' = Append(pending, f)
      PROVE  BackpressureTold'
  <2>1. <<"highWater">> \notin NewFunctors /\ <<"writeComplete">> \notin NewFunctors
    BY <1>0, <1>6, NewOnes
  <2> QED
    BY <1>0, <1>3, <1>6, <2>1 DEF BackpressureTold
<1>7. ASSUME NEW n \in 1..Len(output), output' = SubSeq(output, n + 1, Len(output)),
             IF n = Len(output) THEN pending' = Append(pending, <<"writeComplete">>)
                                ELSE UNCHANGED pending
      PROVE  BackpressureTold'
  <2>1. /\ n + 1 \in Int /\ Len(output) \in Int
        /\ \A i \in n + 1..Len(output) : output[i] \in Part
    BY <1>5, ElementOfSeq
  <2>2. Len(output') = IF n + 1 <= Len(output) THEN Len(output) - (n + 1) + 1 ELSE 0
    BY <1>7, <2>1, SubSeqProperties
  <2>3. CASE n = Len(output)
    <3>1. NewFunctors = {<<"writeComplete">>}
      BY <1>0, <1>4, <1>7, <2>3, NewOnes
    <3>2. told' = "writeComplete" /\ Len(output') = 0
      BY <1>3, <1>4, <1>5, <2>2, <2>3, <3>1
    <3> QED
      BY <1>5, <3>2 DEF BackpressureTold
  <2>4. CASE n < Len(output)
    <3>1. NewFunctors = {}
      BY <1>0, <1>5, <1>7, <2>4, NewOnes
    <3>2. UNCHANGED told
      BY <1>3, <3>1
    <3>3. Len(output') \in Nat /\ Len(output') > 0 /\ Len(output') < Len(output)
      BY <1>5, <2>2, <2>4
    <3>4. output' # <<>>
      BY <3>3
    <3> QED
      BY <1>0, <1>5, <3>2, <3>3, <3>4 DEF BackpressureTold
  <2> QED
    BY <1>5, <2>3, <2>4
<1>8. ASSUME NEW m \in Msg, NEW n \in 0..MsgSize, TakeMessage(m, n), n # 0 => output = <<>>
      PROVE  BackpressureTold'
  <2> DEFINE left == SubSeq(Parts(m), n + 1, MsgSize)
  <2>1. output' = output \o left /\ pending' = pending \o SendFunctors(n)
    BY <1>8 DEF TakeMessage
  <2>2. left \in Seq(Part) /\ Len(left) = MsgSize - n
    BY SplitMessage
  <2> HIDE DEF left
  <2>3. Len(output') = Len(output) + (MsgSize - n)
    BY <1>5, <2>1, <2>2, ConcatProperties
  <2>4. \A f \in Functor : SendFunctors(n) = <<f>> => NewFunctors = {f}
    <3> SUFFICES ASSUME NEW f \in Functor, SendFunctors(n) = <<f>>
                 PROVE  NewFunctors = {f}
      OBVIOUS
    <3>1. pending' = Append(pending, f)
      BY <1>5, <2>1, AppendIsConcat
    <3> QED
      BY <1>0, <3>1, NewOnes
  <2>5. SendFunctors(n) = <<>> => NewFunctors = {}
    <3>1. pending \o <<>> = pending
      BY <1>5, ConcatEmptySeq
    <3> QED
      BY <1>0, <2>1, <3>1, NewOnes
  <2>6. CASE n = MsgSize
    <3>1. SendFunctors(n) = << <<"writeComplete">> >>
      BY <1>5, <2>6 DEF SendFunctors
    <3>2. told' = "writeComplete"
      BY <1>3, <1>4, <2>4, <3>1
    <3>3. Len(output') = 0
      BY <1>5, <1>8, <2>3, <2>6
    <3> QED
      BY <1>5, <3>2, <3>3 DEF BackpressureTold
  <2>7. CASE n # MsgSize
    <3>0. Len(output') \in Nat /\ Len(output') > 0
      BY <1>5, <2>3, <2>7
    <3>1. output' # <<>>
      BY <3>0
    <3>2. CASE Len(output) + (MsgSize - n) >= HighWaterMark /\ Len(output) < HighWaterMark
      <4>1. SendFunctors(n) = << <<"highWater">> >>
        BY <1>5, <2>7, <3>2 DEF SendFunctors
      <4>2. told' = "highWater"
        BY <1>3, <1>4, <2>4, <4>1
      <4> QED
        BY <3>1, <4>2 DEF BackpressureTold
    <3>3. CASE ~(Len(output) + (MsgSize - n) >= HighWaterMark /\ Len(output) < HighWaterMark)
      <4>1. SendFunctors(n) = <<>>
        BY <1>5, <2>7, <3>3 DEF SendFunctors
      <4>2. UNCHANGED told
        BY <1>3, <2>5, <4>1
      <4>3. HighWaterMark > 0 /\ Len(output') >= HighWaterMark => Len(output) >= HighWaterMark
        BY <1>5, <2>3, <3>3
      <4> QED
        BY <1>0, <3>1, <4>2, <4>3 DEF BackpressureTold
    <3> QED
      BY <3>2, <3>3
  <2> QED
    BY <2>6, <2>7
<1>9. BackpressureTold'
  BY <1>0, <1>2, <1>6, <1>7, <1>8, OutputSteps
<1> QED
  BY <1>1, <1>9 DEF TellInv

-----------------------------------------------------------------------------
(* The queue.                                                               *)

LEMMA QueueInit == HInit => Tasks!CoarseInit
<1> SUFFICES ASSUME HInit
             PROVE  Tasks!CoarseInit
  OBVIOUS
<1>1. TypeOK
  BY ConnInit DEF HInit, ConnInv
<1>2. Called = NoFunctor
  BY DEF HInit, Init, Called
<1> QED
  BY <1>1, <1>2, QueueParts DEF Tasks!CoarseInit, Functor

LEMMA QueueStep ==
  ASSUME ConnInv, [Next]_vars
  PROVE  [Tasks!Next \/ Tasks!ExecuteAndSubmit \/ Tasks!Forget]_(Tasks!vars)
<1>0. TypeOK
  BY DEF ConnInv
<1>2. Queue \in Seq(Functor) /\ Owning \union {<<"shutdown">>} \subseteq Functor
  BY <1>0, QueueParts DEF Functor, Raw
<1>3. ASSUME NEW q \in AtMostOne(Owning \union {<<"shutdown">>}), Queue' = Queue \o q,
             UNCHANGED Called
      PROVE  [Tasks!Next]_(Tasks!vars)
  <2>1. CASE q = <<>>
    <3>1. UNCHANGED Queue
      BY <1>2, <1>3, <2>1, ConcatEmptySeq
    <3> QED
      BY <1>3, <3>1 DEF Tasks!vars
  <2>2. ASSUME NEW f \in Functor, q = <<f>>
        PROVE  Tasks!Next
    <3>1. Queue' = Append(Queue, f)
      BY <1>2, <1>3, <2>2, AppendIsConcat
    <3> QED
      BY <1>3, <3>1 DEF Tasks!Next, Tasks!Submit, Functor
  <2> QED
    BY <1>2, <2>1, <2>2 DEF AtMostOne
<1>4. CASE Bystander
  BY <1>3, <1>4 DEF Bystander, Tasks!Forget
<1>5. CASE Call
  <2>1. Called' = Head(Queue) /\ Queue # <<>>
    BY <1>5 DEF Call
  <2>2. PICK q \in AtMostOne(Owning) : Queue' = Tail(Queue) \o q
    BY <1>5 DEF Call
  <2>3. q \in Seq(Functor) /\ Tail(Queue) \in Seq(Functor)
    BY <1>2, <2>1, HeadTailProperties, AtMostOneType DEF Functor
  <2> DEFINE rest == Tail(Queue)
  <2>4. rest \in Seq(Functor) /\ Queue' = rest \o q
    BY <2>2, <2>3
  <2> HIDE DEF rest
  <2>5. rest \o q \in Seq(Functor) /\ IsPrefix(rest, rest \o q)
    <3>1. /\ rest \o q \in Seq(Functor) /\ Len(rest \o q) = Len(rest) + Len(q)
          /\ \A i \in 1..Len(rest) + Len(q) :
               (rest \o q)[i] = IF i <= Len(rest) THEN rest[i] ELSE q[i - Len(rest)]
      BY <2>3, <2>4, ConcatProperties
    <3>2. Len(rest) \in Nat /\ Len(q) \in Nat
      BY <2>3, <2>4, LenProperties
    <3>3. \A i \in 1..Len(rest) : rest[i] = (rest \o q)[i] /\ rest[i] \in Functor
      BY <2>4, <3>1, <3>2, ElementOfSeq
    <3>4. /\ SubSeq(rest \o q, 1, Len(rest)) \in Seq(Functor)
          /\ Len(SubSeq(rest \o q, 1, Len(rest))) = Len(rest)
          /\ \A i \in 1..Len(rest) : SubSeq(rest \o q, 1, Len(rest))[i] = (rest \o q)[i]
      <4>1. 1 \in Int /\ Len(rest) \in Int /\ Len(rest) - 1 + 1 = Len(rest)
            /\ \A i \in 1..Len(rest) : (rest \o q)[i] \in Functor
        BY <3>2, <3>3
      <4>2. /\ SubSeq(rest \o q, 1, Len(rest)) \in Seq(Functor)
            /\ Len(SubSeq(rest \o q, 1, Len(rest))) = IF 1 <= Len(rest) THEN Len(rest) - 1 + 1 ELSE 0
            /\ \A i \in 1..Len(rest) - 1 + 1 :
                 SubSeq(rest \o q, 1, Len(rest))[i] = (rest \o q)[1 + i - 1]
        BY <4>1, SubSeqProperties
      <4> QED
        BY <3>2, <4>2
    <3>5. SubSeq(rest \o q, 1, Len(rest)) = rest
      BY <2>4, <3>3, <3>4, SeqEqual
    <3>6. SubSeq(rest, 1, Len(rest)) = rest
      BY <2>4, SubSeqFull
    <3> QED
      BY <3>1, <3>2, <3>5, <3>6 DEF IsPrefix
  <2> QED
    BY <2>1, <2>4, <2>5 DEF Tasks!ExecuteAndSubmit, Tasks!IsPrefix, IsPrefix, Functor, rest
<1>6. ASSUME NEW m \in Msg, Direct(m)
      PROVE  [Tasks!Next]_(Tasks!vars)
  <2>1. AtMostOne(Owning) \subseteq AtMostOne(Owning \union {<<"shutdown">>})
    BY DEF AtMostOne
  <2> QED
    BY <1>3, <1>6, <2>1 DEF Direct
<1>7. ASSUME NEW m \in Msg, Begin(m)
      PROVE  UNCHANGED Tasks!vars
  BY <1>7 DEF Begin, Tasks!vars
<1>8. ASSUME NEW m \in Msg, Forward(m)
      PROVE  Tasks!Next
  <2>1. Queue' = Append(Queue, Send(m)) /\ Send(m) \in Functor
    BY <1>2, <1>8, SendsApart, AppendIsConcat DEF Forward
  <2> QED
    BY <1>8, <2>1 DEF Forward, Tasks!Next, Tasks!Submit, Functor
<1> QED
  BY <1>0, <1>4, <1>5, <1>6, <1>7, <1>8, StepShapes

-----------------------------------------------------------------------------
(* The theorems.                                                            *)

(* A step of the connection with its memory is a step of the connection:    *)
(* what module TcpConnectionProofs proves of Spec holds here too.           *)
LEMMA HistoryHidden == HSpec => Spec
<1>1. HInit => Init
  BY DEF HInit
<1>2. [HNext]_hvars => [Next]_vars
  BY DEF HNext, hvars, vars
<1> QED
  BY <1>1, <1>2, PTL DEF HSpec, Spec

LEMMA OrderAlways == HSpec => []OrderInv
<1>1. OrderInv /\ [HNext]_hvars => OrderInv'
  BY OrderInductive
<1> QED
  BY <1>1, OrderInit, PTL DEF HSpec

(* Every variable keeps its type, those that remember with them.            *)
THEOREM HistoryTyped == HSpec => []HTypeOK
<1>1. OrderInv => HTypeOK
  BY DEF OrderInv
<1> QED
  BY <1>1, OrderAlways, PTL

(* Messages go to the peer once and whole, and those that another thread    *)
(* sent in the order of its calls, past whatever buffer they are sent       *)
(* (TcpConnection::send and sendInLoop, queueInLoop).                       *)
THEOREM MessagesStayInOrder == HSpec => []SentInOrder
<1>1. OrderInv => SentInOrder
  <2> SUFFICES ASSUME OrderInv
               PROVE  SentInOrder
    OBVIOUS
  <2>1. TypeOK /\ waiting \in Seq(Msg) /\ Turn /\ PartsInOrder
    BY DEF OrderInv, HTypeOK
  <2>2. ASSUME NEW m \in Msg, Queue # <<>>, Head(Queue) = Send(m)
        PROVE  waiting # <<>> /\ Head(waiting) = m
    <3>1. At(1, m)
      <4>1. Len(Queue) \in Nat /\ DOMAIN Queue = 1..Len(Queue) /\ Len(Queue) # 0 /\ Head(Queue) = Queue[1]
        BY <2>1, <2>2, QueueParts, LenProperties, EmptySeq
      <4> QED
        BY <2>2, <4>1 DEF At
    <3> QED
      BY <2>1, <3>1, HeadWaitsLongest
  <2> QED
    BY <2>1, <2>2 DEF SentInOrder, PartsInOrder, Send
<1> QED
  BY <1>1, OrderAlways, PTL

(* While the connection is up and the peer has not reset it, no message is  *)
(* lost between send() on any thread and sendInLoop.                        *)
THEOREM NoMessageLostWhileUp == HSpec => []NothingLostWhileUp
<1>1. LostInv /\ [HNext]_hvars => LostInv'
  BY LostInductive
<1>2. LostInv => NothingLostWhileUp
  BY DEF LostInv
<1> QED
  BY <1>1, <1>2, LostInit, PTL DEF HSpec

(* Who stops sending at highWaterMarkCallback_ and goes on at               *)
(* writeCompleteCallback_ neither misses the first while the buffer is full *)
(* nor waits for the second with an empty one.                              *)
THEOREM UserCanThrottle == HSpec => []BackpressureTold
<1>1. TellInv /\ [HNext]_hvars => TellInv'
  BY TellInductive
<1>2. TellInv => BackpressureTold
  BY DEF TellInv
<1> QED
  BY <1>1, <1>2, TellInit, PTL DEF HSpec

(* The functors of a connection go through one first-in first-out queue:    *)
(* what module EventLoop promises is all the connection needs of its loop.  *)
THEOREM ConnectionUsesTaskQueue == HSpec => UsesTaskQueue
<1>1. OrderInv /\ [HNext]_hvars
        => [Tasks!Next \/ Tasks!ExecuteAndSubmit \/ Tasks!Forget]_(Tasks!vars)
  <2>1. OrderInv /\ [HNext]_hvars => ConnInv /\ [Next]_vars
    BY DEF OrderInv, HNext, hvars, vars
  <2> QED
    BY <2>1, QueueStep
<1> QED
  BY <1>1, OrderAlways, QueueInit, PTL DEF HSpec, UsesTaskQueue, Tasks!CoarseSpec
=============================================================================
