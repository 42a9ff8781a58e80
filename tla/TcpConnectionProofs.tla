-------------------------- MODULE TcpConnectionProofs --------------------------
(****************************************************************************)
(* Proofs about module TcpConnection, for every set of messages, every way  *)
(* write() may split them and every high water mark: the types, that no     *)
(* data is lost or reordered, when the channel waits for room to write,     *)
(* when the socket is shut down, what the user is told and in which order.  *)
(****************************************************************************)
EXTENDS TcpConnection, SequenceTheorems, TLAPS

Part == Msg \X (1..MsgSize)
Established == <<"established">>

(* What can be queued once the connection is up.                            *)
Later == (Owning \ {Established}) \union Raw

(* What handleEventWithGuard or user code may do that does not end the      *)
(* connection.                                                              *)
Calm == Frame \ {"close", "read"}

-----------------------------------------------------------------------------
(* The sending side.                                                        *)

(* No functor that binds this can be taken for connectEstablished.          *)
LEMMA LaterFunctors ==
  /\ <<"destroyed">> \in Later /\ <<"writeComplete">> \in Later /\ <<"highWater">> \in Later
  /\ <<"shutdown">> \in Later
  /\ \A m \in Msg : <<"send", m>> \in Later
  /\ Established \notin Later
  /\ Later \subseteq Owning \union Raw
<1>1. \A m \in Msg : <<"send", m>> # Established
  <2> SUFFICES ASSUME NEW m \in Msg, <<"send", m>> = Established
               PROVE  FALSE
    OBVIOUS
  <2>1. <<"send", m>>[1] = Established[1]
    OBVIOUS
  <2> QED
    BY <2>1 DEF Established
<1>2. \A f : f \in {"send"} \X Msg => \E m \in Msg : f = <<"send", m>>
  OBVIOUS
<1>3. Established \notin {"send"} \X Msg
  BY <1>1, <1>2
<1> QED
  BY <1>1, <1>3 DEF Later, Owning, Raw, Established

(* A message is the part write() took and the part it left.                 *)
LEMMA SplitMessage ==
  ASSUME NEW m \in Msg, NEW n \in 0..MsgSize
  PROVE  /\ Parts(m) \in Seq(Part)
         /\ SubSeq(Parts(m), 1, n) \in Seq(Part)
         /\ SubSeq(Parts(m), n + 1, MsgSize) \in Seq(Part)
         /\ Len(SubSeq(Parts(m), n + 1, MsgSize)) = MsgSize - n
         /\ SubSeq(Parts(m), 1, n) \o SubSeq(Parts(m), n + 1, MsgSize) = Parts(m)
         /\ n = 0 => SubSeq(Parts(m), 1, n) = <<>>
<1> USE ConnectionAssumption
<1>1. Parts(m) \in Seq(Part) /\ Len(Parts(m)) = MsgSize
  <2> DEFINE e(i) == <<m, i>>
  <2>1. \A i \in 1..MsgSize : e(i) \in Part
    BY DEF Part
  <2>2. MsgSize \in Nat
    OBVIOUS
  <2>3. [i \in 1..MsgSize |-> e(i)] \in Seq(Part)
    <3> HIDE DEF e
    <3> QED
      BY <2>1, <2>2, IsASeq
  <2>4. Parts(m) \in Seq(Part)
    BY <2>3 DEF Parts
  <2> QED
    BY <2>4 DEF Parts
<1>2. \A i \in 1..MsgSize : Parts(m)[i] \in Part
  BY <1>1, ElementOfSeq
<1>3. SubSeq(Parts(m), 1, n) \in Seq(Part)
  BY <1>2, SubSeqProperties
<1>4. SubSeq(Parts(m), n + 1, MsgSize) \in Seq(Part)
      /\ Len(SubSeq(Parts(m), n + 1, MsgSize)) = MsgSize - n
  BY <1>2, SubSeqProperties
<1>5. n = 0 => SubSeq(Parts(m), 1, n) = <<>>
  BY SubSeqEmpty
<1>6. SubSeq(Parts(m), 1, MsgSize) = Parts(m)
  BY <1>1, SubSeqFull
<1>7. SubSeq(Parts(m), 1, n) \o SubSeq(Parts(m), n + 1, MsgSize) = Parts(m)
  BY <1>1, <1>6, ConcatAdjacentSubSeq
<1> QED
  BY <1>1, <1>3, <1>4, <1>5, <1>7

(* sendInLoop tells the loop of at most one thing, and it is a thing for    *)
(* later (TcpConnection::sendInLoop).                                       *)
LEMMA SendFunctorsLater ==
  ASSUME NEW n \in 0..MsgSize
  PROVE  SendFunctors(n) \in Seq(Later)
<1>1. << <<"writeComplete">> >> \in Seq(Later) /\ << <<"highWater">> >> \in Seq(Later)
      /\ <<>> \in Seq(Later)
  BY LaterFunctors
<1> QED
  BY <1>1 DEF SendFunctors

(* What sendInLoop does to the connection, on whatever thread the call      *)
(* began: the data and the functors it adds, that it asks for EPOLLOUT      *)
(* exactly if it leaves something in the buffer, and that it brings back    *)
(* the channel of a closed connection only together with reopened.          *)
LEMMA SendEffect ==
  ASSUME TypeOK, NEW m \in Msg, SendInLoop(m)
  PROVE  /\ stream' \in Seq(Part) /\ wire' \in Seq(Part) /\ output' \in Seq(Part)
         /\ events' \subseteq {"in", "out"}
         /\ {input, sockErr, shutWr, killed, reopened}' \subseteq BOOLEAN
         /\ \E q \in Seq(Later) : pending' = pending \o q
         /\ UNCHANGED <<ups, downs, peer, shutWr>>
         /\ InOrder => InOrder'
         /\ WritingIffBuffered => WritingIffBuffered'
         /\ reopened => reopened'
         /\ downs > 0 => reopened' \/ events' = events
<1>0. /\ output \in Seq(Part) /\ stream \in Seq(Part) /\ wire \in Seq(Part) /\ downs \in Nat
      /\ events \subseteq {"in", "out"}
      /\ {input, sockErr, shutWr, killed, reopened} \subseteq BOOLEAN
  BY DEF TypeOK, Part
<1>1. <<>> \in Seq(Later) /\ pending = pending \o <<>>
  BY ConcatEmptySeq DEF TypeOK
<1>2. ASSUME NEW n \in 0..MsgSize, TakeMessage(m, n),
             n # 0 => "out" \notin events /\ output = <<>>
      PROVE  /\ stream' \in Seq(Part) /\ wire' \in Seq(Part) /\ output' \in Seq(Part)
             /\ events' \subseteq {"in", "out"} /\ reopened' \in BOOLEAN
             /\ \E q \in Seq(Later) : pending' = pending \o q
             /\ UNCHANGED <<ups, downs>>
             /\ InOrder => InOrder'
             /\ WritingIffBuffered => WritingIffBuffered'
             /\ reopened => reopened'
             /\ downs > 0 => reopened' \/ events' = events
  <2> DEFINE taken == SubSeq(Parts(m), 1, n)
             left == SubSeq(Parts(m), n + 1, MsgSize)
  <2>1. /\ stream' = stream \o Parts(m) /\ wire' = wire \o taken /\ output' = output \o left
        /\ events' = EventsAfterSend(n) /\ reopened' = (reopened \/ (n < MsgSize /\ downs > 0))
        /\ pending' = pending \o SendFunctors(n) /\ UNCHANGED <<ups, downs>>
    BY <1>2 DEF TakeMessage
  <2>2. /\ Parts(m) \in Seq(Part) /\ taken \in Seq(Part) /\ left \in Seq(Part)
        /\ Len(left) = MsgSize - n /\ taken \o left = Parts(m) /\ (n = 0 => taken = <<>>)
    BY SplitMessage
  <2> HIDE DEF taken, left
  <2>3. stream' \in Seq(Part) /\ wire' \in Seq(Part) /\ output' \in Seq(Part)
    BY <1>0, <2>1, <2>2, ConcatProperties
  <2>4. events' \subseteq {"in", "out"} /\ reopened' \in BOOLEAN
    BY <1>0, <2>1 DEF EventsAfterSend
  <2>5. \E q \in Seq(Later) : pending' = pending \o q
    BY <2>1, SendFunctorsLater
  <2>6. InOrder => InOrder'
    <3>1. wire' \o output' = (wire \o taken) \o (output \o left)
      BY <2>1
    <3>a. \A p, q, r \in Seq(Part) : (p \o q) \o r = p \o (q \o r)
      BY ConcatAssociative
    <3>2. CASE n = 0
      <4>1. taken = <<>> /\ left = Parts(m)
        BY <2>2, <3>2, ConcatEmptySeq
      <4>2. wire' \o output' = wire \o (output \o Parts(m))
        BY <1>0, <3>1, <4>1, ConcatEmptySeq
      <4>3. wire \o (output \o Parts(m)) = (wire \o output) \o Parts(m)
        BY <1>0, <2>2, <3>a
      <4> QED
        BY <2>1, <4>2, <4>3 DEF InOrder
    <3>3. CASE n # 0
      <4>1. output = <<>>
        BY <1>2, <3>3
      <4>2. wire' \o output' = (wire \o taken) \o left /\ wire \o output = wire
        BY <1>0, <2>2, <3>1, <4>1, ConcatEmptySeq
      <4>3. (wire \o taken) \o left = wire \o (taken \o left)
        BY <1>0, <2>2, <3>a
      <4> QED
        BY <2>1, <2>2, <4>2, <4>3 DEF InOrder
    <3> QED
      BY <3>2, <3>3
  <2>7. WritingIffBuffered => WritingIffBuffered'
    <3>1. CASE n < MsgSize
      <4>1. output' # <<>>
        <5>1. Len(output') = Len(output) + (MsgSize - n) /\ Len(output) \in Nat
          BY <1>0, <2>1, <2>2, ConcatProperties, LenProperties
        <5>2. Len(output') # 0
          BY <3>1, <5>1, ConnectionAssumption
        <5> QED
          BY <5>2
      <4> QED
        BY <2>1, <3>1, <4>1 DEF WritingIffBuffered, EventsAfterSend
    <3>2. CASE n = MsgSize
      <4>1. n # 0 /\ output = <<>> /\ "out" \notin events
        BY <1>2, <3>2, ConnectionAssumption
      <4>2. left = <<>>
        BY <2>2, <3>2, EmptySeq, ConnectionAssumption
      <4>3. output' = <<>> /\ events' = events
        BY <1>0, <2>1, <3>2, <4>1, <4>2, ConcatEmptySeq DEF EventsAfterSend
      <4> QED
        BY <4>1, <4>3 DEF WritingIffBuffered
    <3> QED
      BY <3>1, <3>2, ConnectionAssumption
  <2>8. (reopened => reopened') /\ (downs > 0 => reopened' \/ events' = events)
    BY <2>1 DEF EventsAfterSend
  <2> QED
    BY <2>1, <2>3, <2>4, <2>5, <2>6, <2>7, <2>8
<1>3. CASE UNCHANGED <<events, output, pending, history>> /\ (UNCHANGED socket \/ BrokenWrite)
  <2>1. UNCHANGED <<events, output, pending, stream, wire, ups, downs, reopened, peer, input, shutWr>>
    BY <1>3 DEF history, socket, BrokenWrite
  <2>2. killed' \in BOOLEAN /\ sockErr' \in BOOLEAN
    BY <1>0, <1>3 DEF socket, BrokenWrite
  <2> QED
    BY <1>0, <1>1, <2>1, <2>2 DEF InOrder, WritingIffBuffered
<1>4. CASE TakeMessage(m, 0) /\ (UNCHANGED socket \/ BrokenWrite)
  <2>1. UNCHANGED <<peer, input, shutWr>> /\ killed' \in BOOLEAN /\ sockErr' \in BOOLEAN
    BY <1>0, <1>4 DEF socket, BrokenWrite
  <2>2. 0 \in 0..MsgSize
    BY ConnectionAssumption
  <2> QED
    BY <1>0, <1>2, <1>4, <2>1, <2>2
<1>5. ASSUME NEW n \in 0..MsgSize, "out" \notin events /\ output = <<>>, TakeMessage(m, n),
             UNCHANGED socket
      PROVE  /\ stream' \in Seq(Part) /\ wire' \in Seq(Part) /\ output' \in Seq(Part)
             /\ events' \subseteq {"in", "out"}
             /\ {input, sockErr, shutWr, killed, reopened}' \subseteq BOOLEAN
             /\ \E q \in Seq(Later) : pending' = pending \o q
             /\ UNCHANGED <<ups, downs, peer, shutWr>>
             /\ InOrder => InOrder'
             /\ WritingIffBuffered => WritingIffBuffered'
             /\ reopened => reopened'
             /\ downs > 0 => reopened' \/ events' = events
  <2>1. UNCHANGED <<peer, input, sockErr, shutWr, killed>>
    BY <1>5 DEF socket
  <2> QED
    BY <1>0, <1>2, <1>5, <2>1
<1> QED
  BY <1>3, <1>4, <1>5 DEF SendInLoop, SendInLoopAs
-----------------------------------------------------------------------------
(* The invariant.  Before connectEstablished has run there is nothing but   *)
(* its functor: nobody can reach the connection, and no other functor of    *)
(* that name ever follows.                                                  *)
BeforeUp ==
  ups = 0 =>
    /\ state = "disconnected" /\ holds = FALSE /\ caller = <<"idle">>
    /\ todo = <<>> /\ events = {} /\ downs = 0
    /\ \/ pending = <<Established>> /\ batch = <<>>
       \/ pending = <<>> /\ batch = <<Established>> /\ ran = 0

AfterUp == ups = 1 => /\ pending \in Seq(Later)
                      /\ \A i \in ran + 1..Len(batch) : batch[i] \in Later

(* handleClose is in the stack of handlers once at most, at its head, and   *)
(* the server hears of it only after the user did.                          *)
Stack == /\ todo # <<>> => Tail(todo) \in Seq(Calm)
         /\ downs = 0 => /\ todo \in Seq(Frame \ {"remove"})
                         /\ removals = 0 /\ inMap = TRUE

(* Once down, the connection never counts as connected again, and as long   *)
(* as no late send brings its channel back there is nothing that could end  *)
(* it a second time.                                                        *)
Told == /\ downs > 0 => state # "connected"
        /\ downs > 0 /\ ~reopened => events = {} /\ todo \in Seq(Calm)
        /\ DownOnce

Data == InOrder /\ WritingIffBuffered

ConnInv == TypeOK /\ BeforeUp /\ AfterUp /\ Stack /\ Told /\ Data

LEMMA ConnInit == Init => ConnInv
<1> SUFFICES ASSUME Init
             PROVE  ConnInv
  OBVIOUS
<1>1. TypeOK
  <2>1. << <<"established">> >> \in Seq(Owning \union Raw) /\ <<>> \in Seq(Owning \union Raw)
    BY DEF Owning
  <2>2. output \in Seq(Msg \X (1..MsgSize)) /\ stream \in Seq(Msg \X (1..MsgSize))
        /\ wire \in Seq(Msg \X (1..MsgSize)) /\ todo \in Seq(Frame)
    BY DEF Init
  <2>3. ran \in 0..Len(batch)
    BY DEF Init
  <2>4. pending \in Seq(Owning \union Raw) /\ batch \in Seq(Owning \union Raw)
    BY <2>1 DEF Init
  <2>5. {input, sockErr, shutWr, killed, reopened} \subseteq BOOLEAN
    <3>1. /\ input = FALSE /\ sockErr = FALSE /\ shutWr = FALSE /\ killed = FALSE
          /\ reopened = FALSE
      BY DEF Init
    <3> QED
      BY <3>1
  <2>6. /\ state \in {"connected", "disconnecting", "disconnected"} /\ events \subseteq {"in", "out"}
        /\ removals \in Nat /\ unsent \subseteq Msg
        /\ peer \in {"open", "eof", "reset"} /\ ups \in 0..1 /\ downs \in Nat
    BY DEF Init
  <2>8. holds \in BOOLEAN /\ inMap \in BOOLEAN
    BY DEF Init
  <2>7. caller = <<"idle">>
    BY DEF Init
  <2> QED
    BY <2>2, <2>3, <2>4, <2>5, <2>6, <2>7, <2>8 DEF TypeOK
<1>2. BeforeUp /\ AfterUp
  BY DEF Init, BeforeUp, AfterUp, Established
<1>3. Stack /\ Told
  BY DEF Init, Stack, Told, DownOnce
<1>4. Data
  BY DEF Init, Data, InOrder, WritingIffBuffered
<1> QED
  BY <1>1, <1>2, <1>3, <1>4 DEF ConnInv

(* Whoever has something to do with the connection finds it established.    *)
LEMMA OnlyWhenUp ==
  ASSUME ConnInv
  PROVE  /\ todo # <<>> => ups = 1
         /\ state = "connected" \/ holds \/ events # {} \/ caller # <<"idle">> => ups = 1
         /\ downs > 0 \/ removals > 0 => ups = 1
         /\ \A f \in Later : Runs(f) => ups = 1
<1>1. ups \in {0, 1} /\ downs \in Nat /\ removals \in Nat
  BY DEF ConnInv, TypeOK
<1>2. ASSUME NEW f \in Later, Runs(f), ups = 0
      PROVE  FALSE
  <2>1. ran < Len(batch) /\ batch[ran + 1] = f
    BY <1>2 DEF Runs, NextFunctor
  <2>2. ran \in 0..Len(batch)
    BY DEF ConnInv, TypeOK
  <2>3. batch = <<Established>> /\ ran = 0
    BY <1>2, <2>1, <2>2 DEF ConnInv, BeforeUp
  <2>4. batch[ran + 1] = Established
    BY <2>3
  <2> QED
    BY <2>1, <2>4, LaterFunctors
<1> QED
  BY <1>1, <1>2 DEF ConnInv, BeforeUp, Stack

(* Functors that are queued from then on come later.                        *)
LEMMA QueueLater ==
  ASSUME ConnInv, ups = 1, NEW q \in Seq(Later), pending' = pending \o q
  PROVE  pending' \in Seq(Owning \union Raw) /\ pending' \in Seq(Later)
<1>1. pending \in Seq(Later)
  BY DEF ConnInv, AfterUp
<1>2. pending' \in Seq(Later)
  BY <1>1, ConcatProperties
<1> QED
  BY <1>2, LaterFunctors, SeqMonotonic

LEMMA AppendLater ==
  ASSUME ConnInv, ups = 1, NEW f \in Later, pending' = Append(pending, f)
  PROVE  pending' \in Seq(Owning \union Raw) /\ pending' \in Seq(Later)
<1>1. pending \in Seq(Later)
  BY DEF ConnInv, AfterUp
<1>2. pending' \in Seq(Later)
  BY <1>1, AppendProperties
<1> QED
  BY <1>2, LaterFunctors, SeqMonotonic

(* The stack after handleClose: connectionCallback_, closeCallback_ and     *)
(* what the channel had still to do, none of which can end the connection.  *)
LEMMA StackOfClose ==
  ASSUME NEW then \in Seq(Calm)
  PROVE  /\ <<"user", "remove">> \o then \in Seq(Frame)
         /\ <<"user", "remove">> \o then \in Seq(Calm)
         /\ Tail(<<"user", "remove">> \o then) \in Seq(Calm)
<1>1. <<"user", "remove">> \in Seq(Calm)
  BY DEF Calm, Frame
<1>2. <<"user", "remove">> \o then \in Seq(Calm) /\ Len(<<"user", "remove">> \o then) = 2 + Len(then)
  BY <1>1, ConcatProperties
<1>3. <<"user", "remove">> \o then # <<>>
  BY <1>2, LenProperties
<1>4. Calm \subseteq Frame
  BY DEF Calm
<1> QED
  BY <1>2, <1>3, <1>4, SeqMonotonic, HeadTailProperties

(* A step that goes on with the rest of the stack.                          *)
LEMMA StackPops ==
  ASSUME ConnInv, todo # <<>>
  PROVE  /\ Tail(todo) \in Seq(Frame) /\ Tail(todo) \in Seq(Calm)
         /\ Tail(todo) # <<>> => Tail(Tail(todo)) \in Seq(Calm)
         /\ downs = 0 => Tail(todo) \in Seq(Frame \ {"remove"})
<1>1. Tail(todo) \in Seq(Frame)
  BY HeadTailProperties DEF ConnInv, TypeOK
<1>2. Tail(todo) \in Seq(Calm)
  BY DEF ConnInv, Stack
<1>3. Tail(todo) # <<>> => Tail(Tail(todo)) \in Seq(Calm)
  BY <1>2, HeadTailProperties
<1>4. downs = 0 => Tail(todo) \in Seq(Frame \ {"remove"})
  BY HeadTailProperties DEF ConnInv, Stack
<1> QED
  BY <1>1, <1>2, <1>3, <1>4
-----------------------------------------------------------------------------
(* The steps.                                                               *)

(* Steps that only concern user code, another thread or the peer: they keep *)
(* the invariant if they keep the types and begin with a connection that is *)
(* up.                                                                      *)
LEMMA OutsideKeeps ==
  ASSUME ConnInv, TypeOK',
         UNCHANGED <<events, output, batch, ran, todo, removals, inMap, history>>,
         \/ UNCHANGED <<state, pending, holds, caller>>
         \/ /\ ups = 1
            /\ state' = "connected" => state = "connected"
            /\ \/ UNCHANGED pending
               \/ \E f \in Later : pending' = Append(pending, f)
  PROVE  ConnInv'
<1> USE DEF ConnInv, history
<1>1. BeforeUp' /\ AfterUp'
  <2>1. CASE UNCHANGED <<state, pending, holds, caller>>
    BY <2>1 DEF BeforeUp, AfterUp
  <2>2. CASE ups = 1 /\ UNCHANGED pending
    BY <2>2 DEF BeforeUp, AfterUp
  <2>3. CASE ups = 1 /\ \E f \in Later : pending' = Append(pending, f)
    <3>1. pending' \in Seq(Later)
      BY <2>3, AppendLater
    <3> QED
      BY <2>3, <3>1 DEF BeforeUp, AfterUp
  <2> QED
    BY <2>1, <2>2, <2>3
<1>2. Stack' /\ Told' /\ Data'
  BY DEF Stack, Told, Data, DownOnce, InOrder, WritingIffBuffered
<1> QED
  BY <1>1, <1>2

(* User code and other threads (TcpConnection::send, shutdown).             *)
LEMMA UserSteps ==
  ASSUME ConnInv,
         \/ \E m \in Msg : BeginSend(m)
         \/ BeginShutdown \/ KeepPointer \/ DropPointer \/ SetDisconnecting \/ QueueFunctor
         \/ ShutdownOnLoop
         \/ PeerDoes(PeerSends) \/ PeerDoes(PeerCloses) \/ PeerDoes(PeerResets)
  PROVE  ConnInv'
<1> USE DEF loop, server, socket, history
<1>0. TypeOK
  BY DEF ConnInv
<1>1. ASSUME NEW m \in Msg, BeginSend(m)
      PROVE  ConnInv'
  <2>1. TypeOK'
    BY <1>0, <1>1 DEF TypeOK, BeginSend, TestState
  <2>2. ups = 1
    BY <1>1, OnlyWhenUp DEF BeginSend, TestState
  <2> QED
    BY <1>1, <2>1, <2>2, OutsideKeeps DEF BeginSend
<1>2. CASE BeginShutdown
  <2>1. TypeOK'
    BY <1>0, <1>2 DEF TypeOK, BeginShutdown, TestState
  <2>2. ups = 1
    BY <1>2, OnlyWhenUp DEF BeginShutdown, TestState
  <2> QED
    BY <1>2, <2>1, <2>2, OutsideKeeps DEF BeginShutdown
<1>3. CASE KeepPointer
  <2>1. TypeOK'
    BY <1>0, <1>3 DEF TypeOK, KeepPointer
  <2>2. ups = 1
    BY <1>3, OnlyWhenUp DEF KeepPointer
  <2> QED
    BY <1>3, <2>1, <2>2, OutsideKeeps DEF KeepPointer
<1>4. CASE DropPointer
  <2>1. TypeOK'
    BY <1>0, <1>4 DEF TypeOK, DropPointer
  <2>2. ups = 1
    BY <1>4, OnlyWhenUp DEF DropPointer
  <2> QED
    BY <1>4, <2>1, <2>2, OutsideKeeps DEF DropPointer
<1>5. CASE SetDisconnecting
  <2>1. TypeOK'
    BY <1>0, <1>5 DEF TypeOK, SetDisconnecting
  <2>2. caller # <<"idle">>
    <3>1. Len(<<"idle">>) = 1 /\ Len(<<"shutdown", "set">>) = 2
      OBVIOUS
    <3> QED
      BY <1>5, <3>1 DEF SetDisconnecting
  <2>3. ups = 1
    BY <2>2, OnlyWhenUp
  <2> QED
    BY <1>5, <2>1, <2>3, OutsideKeeps DEF SetDisconnecting
<1>6. CASE QueueFunctor
  <2>1. \E f \in Later : pending' = Append(pending, f)
    <3>1. CASE caller[1] = "send" /\ pending' = Append(pending, caller)
      <4>1. caller \in {"send"} \X Msg
        <5>1. <<"idle">>[1] = "idle" /\ <<"shutdown", "set">>[1] = "shutdown"
              /\ <<"shutdown", "queue">>[1] = "shutdown"
          OBVIOUS
        <5>2. caller \in {<<"idle">>, <<"shutdown", "set">>, <<"shutdown", "queue">>}
                           \union ({"send"} \X Msg)
          BY <1>0 DEF TypeOK
        <5> QED
          BY <3>1, <5>1, <5>2
      <4>2. PICK m \in Msg : caller = <<"send", m>>
        BY <4>1
      <4> QED
        BY <3>1, <4>2, LaterFunctors
    <3>2. CASE pending' = Append(pending, <<"shutdown">>)
      BY <3>2, LaterFunctors
    <3> QED
      BY <1>6, <3>1, <3>2 DEF QueueFunctor
  <2>2. caller # <<"idle">>
    <3>1. <<"idle">>[1] # "send" /\ Len(<<"idle">>) = 1 /\ Len(<<"shutdown", "queue">>) = 2
      OBVIOUS
    <3> QED
      BY <1>6, <3>1 DEF QueueFunctor
  <2>3. ups = 1
    BY <2>2, OnlyWhenUp
  <2>4. pending' \in Seq(Owning \union Raw)
    BY <2>1, <2>3, AppendLater
  <2>5. TypeOK'
    BY <1>0, <1>6, <2>4 DEF TypeOK, QueueFunctor
  <2> QED
    BY <1>6, <2>1, <2>3, <2>5, OutsideKeeps DEF QueueFunctor
<1>7. CASE ShutdownOnLoop
  <2>1. state' \in {"disconnected", "disconnecting"} /\ shutWr' \in {shutWr, TRUE}
        /\ UNCHANGED <<events, output, pending, batch, ran, todo, caller, holds, inMap, removals,
                       unsent, peer, input, sockErr, killed, history>>
    BY <1>7 DEF ShutdownOnLoop, ShutdownInLoop
  <2>2. TypeOK'
    BY <1>0, <2>1 DEF TypeOK
  <2>3. ups = 1
    BY <1>7, OnlyWhenUp DEF ShutdownOnLoop
  <2> QED
    BY <2>1, <2>2, <2>3, OutsideKeeps
<1>8. CASE PeerDoes(PeerSends) \/ PeerDoes(PeerCloses) \/ PeerDoes(PeerResets)
  <2>1. UNCHANGED <<state, events, output, pending, batch, ran, todo, caller, holds, inMap,
                    removals, unsent, shutWr, killed, history>>
    BY <1>8 DEF PeerDoes
  <2>2. peer' \in {"open", "eof", "reset"} /\ input' \in BOOLEAN /\ sockErr' \in BOOLEAN
    BY <1>0, <1>8 DEF PeerDoes, PeerSends, PeerCloses, PeerResets, TypeOK
  <2>3. TypeOK'
    BY <1>0, <2>1, <2>2 DEF TypeOK
  <2> QED
    BY <2>1, <2>3, OutsideKeeps
<1> QED
  BY <1>1, <1>2, <1>3, <1>4, <1>5, <1>6, <1>7, <1>8

(* doPendingFunctors and the functors it calls.                             *)
LEMMA FunctorSteps ==
  ASSUME ConnInv,
         \/ DoPendingFunctors \/ BatchDone
         \/ ConnectEstablished \/ ConnectDestroyed \/ RunUserCallback
         \/ (\E m \in Msg : RunSend(m)) \/ RunShutdown
  PROVE  ConnInv'
<1> USE DEF loop, server, socket, history
<1>0. TypeOK /\ BeforeUp /\ AfterUp /\ Stack /\ Told /\ Data
  BY DEF ConnInv
<1>a. ups \in {0, 1} /\ downs \in Nat /\ ran \in 0..Len(batch) /\ Len(batch) \in Nat
  BY <1>0, LenProperties DEF TypeOK
<1>b. <<"user">> \in Seq(Frame) /\ <<"user">> \in Seq(Frame \ {"remove"}) /\ <<"user">> \in Seq(Calm)
      /\ Tail(<<"user">>) = <<>> /\ <<>> \in Seq(Calm)
  BY DEF Frame, Calm
<1>1. CASE DoPendingFunctors
  <2>1. /\ batch = <<>> /\ pending # <<>> /\ batch' = pending /\ pending' = <<>> /\ ran' = 0
        /\ UNCHANGED <<state, events, output, todo, caller, holds, inMap, removals, unsent, peer,
                       input, sockErr, shutWr, killed, stream, wire, ups, downs, reopened>>
    BY <1>1 DEF DoPendingFunctors
  <2>2. TypeOK'
    <3>1. pending' \in Seq(Owning \union Raw) /\ batch' \in Seq(Owning \union Raw) /\ ran' \in 0..Len(batch')
      BY <1>0, <2>1, LenProperties DEF TypeOK
    <3> QED
      BY <1>0, <2>1, <3>1 DEF TypeOK
  <2>3. BeforeUp'
    BY <1>0, <2>1 DEF BeforeUp
  <2>4. AfterUp'
    <3> SUFFICES ASSUME ups = 1
                 PROVE  pending' \in Seq(Later) /\ \A i \in ran' + 1..Len(batch') : batch'[i] \in Later
      BY <2>1 DEF AfterUp
    <3>1. pending \in Seq(Later)
      BY <1>0 DEF AfterUp
    <3> QED
      BY <2>1, <3>1, ElementOfSeq
  <2>5. Stack' /\ Told' /\ Data'
    BY <1>0, <2>1 DEF Stack, Told, Data, DownOnce, InOrder, WritingIffBuffered
  <2> QED
    BY <2>2, <2>3, <2>4, <2>5 DEF ConnInv
<1>2. CASE BatchDone
  <2>1. /\ batch # <<>> /\ ran = Len(batch) /\ batch' = <<>> /\ ran' = 0
        /\ UNCHANGED <<state, events, output, pending, todo, caller, holds, inMap, removals, unsent,
                       peer, input, sockErr, shutWr, killed, stream, wire, ups, downs, reopened>>
    BY <1>2 DEF BatchDone
  <2>2. TypeOK'
    <3>1. batch' \in Seq(Owning \union Raw) /\ ran' \in 0..Len(batch')
      BY <2>1
    <3> QED
      BY <1>0, <2>1, <3>1 DEF TypeOK
  <2>3. ups = 1
    <3>1. Len(<<Established>>) = 1
      OBVIOUS
    <3> QED
      BY <1>0, <1>a, <2>1, <3>1 DEF BeforeUp
  <2>4. BeforeUp' /\ AfterUp'
    BY <1>0, <2>1, <2>3 DEF BeforeUp, AfterUp
  <2>5. Stack' /\ Told' /\ Data'
    BY <1>0, <2>1 DEF Stack, Told, Data, DownOnce, InOrder, WritingIffBuffered
  <2> QED
    BY <2>2, <2>4, <2>5 DEF ConnInv
<1>c. ASSUME NEW f, Runs(f), f # Established => ups = 1
      PROVE  /\ todo = <<>> /\ ran < Len(batch) /\ batch[ran + 1] = f /\ ran' = ran + 1
             /\ ran' \in 0..Len(batch)
             /\ UNCHANGED <<batch, caller, holds, inMap, removals, unsent>>
             /\ ups = 1 => f \in Later
             /\ ups = 1 => \A i \in ran' + 1..Len(batch) : batch[i] \in Later
  <2>1. /\ todo = <<>> /\ ran < Len(batch) /\ batch[ran + 1] = f /\ ran' = ran + 1
        /\ UNCHANGED <<batch, caller, holds, inMap, removals, unsent>>
    BY <1>c DEF Runs, NextFunctor
  <2> QED
    BY <1>0, <1>a, <2>1 DEF AfterUp
<1>d. ASSUME ups' = 1, pending' \in Seq(Later), UNCHANGED batch,
             \A i \in ran' + 1..Len(batch) : batch[i] \in Later
      PROVE  BeforeUp' /\ AfterUp'
  <2>1. BeforeUp'
    BY <1>d DEF BeforeUp
  <2>2. Len(batch') = Len(batch) /\ \A i \in ran' + 1..Len(batch') : batch'[i] \in Later
    BY <1>d
  <2> QED
    BY <1>d, <2>1, <2>2 DEF AfterUp
<1>e. ups = 1 => pending \in Seq(Later)
  BY <1>0 DEF AfterUp
<1>3. CASE ConnectEstablished
  <2>1. Runs(Established)
    BY <1>3 DEF ConnectEstablished, Established
  <2>2. ups = 0
    BY <1>a, <1>c, <2>1, LaterFunctors
  <2>3. /\ state = "disconnected" /\ downs = 0 /\ pending = <<>> /\ Len(batch) = 1 /\ ran = 0
        /\ events = {} /\ todo = <<>>
    <3>1. ran < Len(batch)
      BY <1>c, <2>1
    <3>2. Len(<<Established>>) = 1 /\ Len(<<>>) = 0
      OBVIOUS
    <3> QED
      BY <1>0, <1>a, <2>2, <3>1, <3>2 DEF BeforeUp
  <2>4. /\ state' = "connected" /\ events' = {"in"} /\ ups' = 1 /\ todo' = <<"user">> /\ ran' = 1
        /\ UNCHANGED <<output, pending, batch, caller, holds, inMap, removals, unsent, peer, input,
                       sockErr, shutWr, killed, stream, wire, downs, reopened>>
    BY <1>3, <1>c, <2>1, <2>2, <2>3 DEF ConnectEstablished
  <2>5. TypeOK'
    <3>1. todo' \in Seq(Frame) /\ ups' \in 0..1
      BY <1>b, <2>4
    <3>2. ran' \in 0..Len(batch')
      BY <2>3, <2>4
    <3> QED
      BY <1>0, <2>4, <3>1, <3>2 DEF TypeOK
  <2>6. BeforeUp' /\ AfterUp'
    <3>1. pending' \in Seq(Later) /\ \A i \in ran' + 1..Len(batch) : batch[i] \in Later
      BY <2>3, <2>4
    <3> QED
      BY <1>d, <2>4, <3>1
  <2>7. Stack' /\ Told'
    BY <1>0, <1>b, <2>3, <2>4 DEF Stack, Told, DownOnce
  <2>8. Data'
    BY <1>0, <2>3, <2>4 DEF Data, InOrder, WritingIffBuffered
  <2> QED
    BY <2>5, <2>6, <2>7, <2>8 DEF ConnInv
<1>4. CASE ConnectDestroyed
  <2>1. ups = 1 /\ Runs(<<"destroyed">>)
    BY <1>4, LaterFunctors, OnlyWhenUp DEF ConnectDestroyed
  <2>2. /\ todo = <<>> /\ ran' \in 0..Len(batch)
        /\ UNCHANGED <<batch, caller, holds, inMap, removals, unsent>>
        /\ \A i \in ran' + 1..Len(batch) : batch[i] \in Later
    BY <1>c, <2>1
  <2>3. UNCHANGED <<output, pending, peer, input, sockErr, shutWr, killed, stream, wire, ups, reopened>>
    BY <1>4 DEF ConnectDestroyed
  <2>4. CASE state = "connected"
    <3>1. state' = "disconnected" /\ events' = {} /\ downs' = downs + 1 /\ todo' = <<"user">>
      BY <1>4, <2>4 DEF ConnectDestroyed
    <3>2. downs = 0
      BY <1>0, <1>a, <2>4 DEF Told
    <3>3. TypeOK'
      BY <1>0, <1>b, <2>2, <2>3, <3>1, <3>2 DEF TypeOK
    <3>4. BeforeUp' /\ AfterUp'
      BY <1>d, <1>e, <2>1, <2>2, <2>3
    <3>5. Stack' /\ Told'
      BY <1>0, <1>b, <2>2, <2>3, <3>1, <3>2 DEF Stack, Told, DownOnce
    <3>6. Data'
      BY <1>0, <2>3, <3>1, <3>2 DEF Data, InOrder, WritingIffBuffered
    <3> QED
      BY <3>3, <3>4, <3>5, <3>6 DEF ConnInv
  <2>5. CASE state # "connected"
    <3>1. UNCHANGED <<state, events, downs, todo>>
      BY <1>4, <2>5 DEF ConnectDestroyed
    <3>2. TypeOK'
      BY <1>0, <2>2, <2>3, <3>1 DEF TypeOK
    <3>3. BeforeUp' /\ AfterUp'
      BY <1>d, <1>e, <2>1, <2>2, <2>3
    <3>4. Stack' /\ Told' /\ Data'
      BY <1>0, <2>2, <2>3, <3>1 DEF Stack, Told, DownOnce, Data, InOrder, WritingIffBuffered
    <3> QED
      BY <3>2, <3>3, <3>4 DEF ConnInv
  <2> QED
    BY <2>4, <2>5
<1>5. CASE RunUserCallback
  <2>1. PICK f \in Later : Runs(f)
    BY <1>5, LaterFunctors DEF RunUserCallback
  <2>2. ups = 1
    BY <2>1, OnlyWhenUp
  <2>3. /\ todo = <<>> /\ ran' \in 0..Len(batch)
        /\ UNCHANGED <<batch, caller, holds, inMap, removals, unsent>>
        /\ \A i \in ran' + 1..Len(batch) : batch[i] \in Later
    BY <1>c, <2>1, <2>2
  <2>4. /\ todo' = <<"user">>
        /\ UNCHANGED <<state, events, output, pending, peer, input, sockErr, shutWr, killed, stream,
                       wire, ups, downs, reopened>>
    BY <1>5 DEF RunUserCallback
  <2>5. TypeOK'
    BY <1>0, <1>b, <2>3, <2>4 DEF TypeOK
  <2>6. BeforeUp' /\ AfterUp'
    BY <1>d, <1>e, <2>2, <2>3, <2>4
  <2>7. Stack' /\ Told' /\ Data'
    BY <1>0, <1>b, <2>3, <2>4 DEF Stack, Told, DownOnce, Data, InOrder, WritingIffBuffered
  <2> QED
    BY <2>5, <2>6, <2>7 DEF ConnInv
<1>6. ASSUME NEW m \in Msg, RunSend(m)
      PROVE  ConnInv'
  <2>1. Runs(<<"send", m>>) /\ SendInLoop(m) /\ UNCHANGED <<state, todo>>
    BY <1>6 DEF RunSend
  <2>2. ups = 1
    BY <2>1, LaterFunctors, OnlyWhenUp
  <2>3. /\ todo = <<>> /\ ran' \in 0..Len(batch)
        /\ UNCHANGED <<batch, caller, holds, inMap, removals, unsent>>
        /\ \A i \in ran' + 1..Len(batch) : batch[i] \in Later
    BY <1>c, <2>1, <2>2
  <2>4. pending' \in Seq(Owning \union Raw) /\ pending' \in Seq(Later)
    BY <1>0, <2>1, <2>2, SendEffect, QueueLater
  <2>5. TypeOK'
    BY <1>0, <2>1, <2>3, <2>4, SendEffect DEF TypeOK, Part
  <2>6. BeforeUp' /\ AfterUp'
    <3>1. ups' = 1
      BY <1>0, <2>1, <2>2, SendEffect
    <3> QED
      BY <1>d, <2>3, <2>4, <3>1
  <2>7. Stack'
    BY <1>0, <2>1, <2>3, SendEffect DEF Stack
  <2>8. Told'
    BY <1>0, <2>1, SendEffect DEF Told, DownOnce
  <2>9. Data'
    BY <1>0, <2>1, SendEffect DEF Data
  <2> QED
    BY <2>5, <2>6, <2>7, <2>8, <2>9 DEF ConnInv
<1>7. CASE RunShutdown
  <2>1. /\ Runs(<<"shutdown">>) /\ state' \in {state, "disconnected"} /\ shutWr' \in {shutWr, TRUE}
        /\ UNCHANGED <<events, output, pending, todo, peer, input, sockErr, killed, stream, wire,
                       ups, downs, reopened>>
    BY <1>7 DEF RunShutdown, ShutdownInLoop
  <2>2. ups = 1
    BY <2>1, LaterFunctors, OnlyWhenUp
  <2>3. /\ ran' \in 0..Len(batch) /\ UNCHANGED <<batch, caller, holds, inMap, removals, unsent>>
        /\ \A i \in ran' + 1..Len(batch) : batch[i] \in Later
    BY <1>c, <2>1, <2>2
  <2>4. TypeOK'
    BY <1>0, <2>1, <2>3 DEF TypeOK
  <2>5. BeforeUp' /\ AfterUp'
    BY <1>d, <1>e, <2>1, <2>2, <2>3
  <2>6. Stack' /\ Told' /\ Data'
    BY <1>0, <2>1, <2>3 DEF Stack, Told, DownOnce, Data, InOrder, WritingIffBuffered
  <2> QED
    BY <2>4, <2>5, <2>6 DEF ConnInv
<1> QED
  BY <1>1, <1>2, <1>3, <1>4, <1>5, <1>6, <1>7

(* Steps of a connection that is up leave no trace of connectEstablished.   *)
LEMMA UpKeeps ==
  ASSUME ConnInv, ups = 1, UNCHANGED <<batch, ran, ups>>,
         UNCHANGED pending \/ pending' \in Seq(Later)
  PROVE  BeforeUp' /\ AfterUp'
<1>1. pending' \in Seq(Later)
  BY DEF ConnInv, AfterUp
<1>2. \A i \in ran + 1..Len(batch) : batch[i] \in Later
  BY DEF ConnInv, AfterUp
<1>3. \A i \in ran' + 1..Len(batch') : batch'[i] \in Later
  BY <1>2
<1> QED
  BY <1>1, <1>3 DEF BeforeUp, AfterUp

(* handleClose: the user is told, for the first time unless the channel     *)
(* came back, and whatever the channel has still to do is calm.             *)
LEMMA CloseKeeps ==
  ASSUME ConnInv, todo # <<>>, Head(todo) \in {"close", "read"}, HandleClose(Tail(todo)),
         UNCHANGED <<batch, ran, caller, holds, inMap, removals, unsent, socket>>
  PROVE  ConnInv'
<1>0. TypeOK /\ Stack /\ Told /\ Data /\ downs \in Nat
  BY DEF ConnInv, TypeOK
<1>1. /\ state' = "disconnected" /\ events' = {} /\ downs' = downs + 1
      /\ todo' = <<"user", "remove">> \o Tail(todo)
      /\ UNCHANGED <<output, pending, stream, wire, ups, reopened, peer, input, sockErr, shutWr,
                     killed>>
  BY DEF HandleClose, socket
<1>2. todo' \in Seq(Frame) /\ todo' \in Seq(Calm) /\ Tail(todo') \in Seq(Calm)
  BY <1>1, StackPops, StackOfClose
<1>3. downs > 0 => reopened = TRUE
  <2>1. todo \in Seq(Calm) => Head(todo) \in Calm
    BY HeadTailProperties
  <2>2. Head(todo) \notin Calm
    BY DEF Calm
  <2> QED
    BY <1>0, <2>1, <2>2 DEF Told, TypeOK
<1>4. TypeOK'
  BY <1>0, <1>1, <1>2 DEF TypeOK
<1>5. BeforeUp' /\ AfterUp'
  BY <1>1, OnlyWhenUp, UpKeeps
<1>6. Stack'
  BY <1>0, <1>1, <1>2 DEF Stack
<1>7. Told'
  BY <1>0, <1>1, <1>2, <1>3 DEF Told, DownOnce
<1>8. Data'
  BY <1>0, <1>1 DEF Data, InOrder, WritingIffBuffered
<1> QED
  BY <1>4, <1>5, <1>6, <1>7, <1>8 DEF ConnInv

(* A handler that goes on with the stack as it was, perhaps after a         *)
(* callback, and touches neither the channel nor the data.                  *)
LEMMA PopKeeps ==
  ASSUME ConnInv, todo # <<>>, TypeOK',
         todo' = Tail(todo) \/ todo' = <<"user">> \o Tail(todo),
         UNCHANGED <<state, events, output, pending, batch, ran, caller, holds, inMap, history>>,
         UNCHANGED removals \/ downs > 0
  PROVE  ConnInv'
<1> USE DEF history
<1>0. Stack /\ Told /\ Data /\ downs \in Nat
  BY DEF ConnInv, TypeOK
<1>1. BeforeUp' /\ AfterUp'
  BY OnlyWhenUp, UpKeeps
<1>2. todo' \in Seq(Calm) /\ (todo' # <<>> => Tail(todo') \in Seq(Calm))
      /\ (downs = 0 => todo' \in Seq(Frame \ {"remove"}))
  <2>1. CASE todo' = Tail(todo)
    BY <2>1, StackPops
  <2>2. CASE todo' = <<"user">> \o Tail(todo)
    <3>1. <<"user">> \in Seq(Calm) /\ <<"user">> \in Seq(Frame \ {"remove"}) /\ Len(<<"user">>) = 1
      BY DEF Calm, Frame
    <3>2. todo' \in Seq(Calm) /\ todo' # <<>>
      <4>1. todo' \in Seq(Calm) /\ Len(todo') = 1 + Len(Tail(todo))
        BY <2>2, <3>1, StackPops, ConcatProperties
      <4> QED
        BY <4>1, StackPops, LenProperties
    <3>3. downs = 0 => todo' \in Seq(Frame \ {"remove"})
      BY <2>2, <3>1, StackPops, ConcatProperties
    <3> QED
      BY <3>2, <3>3, HeadTailProperties
  <2> QED
    BY <2>1, <2>2
<1>3. Stack'
  BY <1>0, <1>2 DEF Stack
<1>4. Told' /\ Data'
  BY <1>0, <1>2 DEF Told, DownOnce, Data, InOrder, WritingIffBuffered
<1> QED
  BY <1>1, <1>3, <1>4 DEF ConnInv

(* handleWrite writes from the front of the buffer, and is done with        *)
(* EPOLLOUT when that is empty.                                             *)
LEMMA WriteKeepsData ==
  ASSUME TypeOK, Data, NEW n \in 1..Len(output),
         wire' = wire \o SubSeq(output, 1, n), output' = SubSeq(output, n + 1, Len(output)),
         events' = EventsAfterWrite(n), "out" \in events, UNCHANGED <<stream, downs>>
  PROVE  /\ Data' /\ wire' \in Seq(Part) /\ output' \in Seq(Part)
         /\ n = Len(output) => output' = <<>>
<1>1. output \in Seq(Part) /\ wire \in Seq(Part) /\ Len(output) \in Nat
  BY LenProperties DEF TypeOK, Part
<1>2. \A i \in 1..Len(output) : output[i] \in Part
  BY <1>1, ElementOfSeq
<1>3. SubSeq(output, 1, n) \in Seq(Part)
  BY <1>1, <1>2, SubSeqProperties
<1>4. output' \in Seq(Part) /\ Len(output') = Len(output) - n
  BY <1>1, <1>2, SubSeqProperties
<1>5. wire' \in Seq(Part)
  BY <1>1, <1>3, ConcatProperties
<1>6. wire' \o output' = wire \o (SubSeq(output, 1, n) \o output')
  <2>1. \A p, q, r \in Seq(Part) : (p \o q) \o r = p \o (q \o r)
    BY ConcatAssociative
  <2> QED
    BY <1>1, <1>3, <1>4, <2>1
<1>7. SubSeq(output, 1, n) \o output' = output
  BY <1>1, ConcatAdjacentSubSeq, SubSeqFull
<1>8. output' = <<>> <=> n = Len(output)
  <2>1. Len(output') = 0 <=> n = Len(output)
    BY <1>1, <1>4
  <2>2. Len(output') = 0 <=> output' = <<>>
    BY <1>4, EmptySeq
  <2> QED
    BY <2>1, <2>2
<1>9. "out" \in events' <=> output' # <<>>
  BY <1>8 DEF EventsAfterWrite
<1> QED
  BY <1>4, <1>5, <1>6, <1>7, <1>8, <1>9 DEF Data, InOrder, WritingIffBuffered

(* What epoll reports, and the callbacks of the channel and the server.     *)
LEMMA EventSteps ==
  ASSUME ConnInv,
         \/ \E writable \in BOOLEAN : HandleEvent(writable)
         \/ CloseCallback \/ HandleRead \/ HandleWrite \/ HandleError
         \/ RemoveConnection \/ CallbackReturns \/ RemoveConnectionInLoop
         \/ \E m \in Msg : SendOnLoop(m)
  PROVE  ConnInv'
<1> USE DEF loop, server, socket, history
<1>0. TypeOK /\ BeforeUp /\ AfterUp /\ Stack /\ Told /\ Data
  BY DEF ConnInv
<1>a. downs \in Nat /\ removals \in Nat
  BY <1>0 DEF TypeOK
<1>b. todo # <<>> => Tail(todo) \in Seq(Frame)
  BY StackPops
<1>1. ASSUME NEW writable \in BOOLEAN, HandleEvent(writable)
      PROVE  ConnInv'
  <2>1. /\ todo' = Callbacks(writable) /\ events # {}
        /\ UNCHANGED <<state, events, output, pending, batch, ran, caller, holds, inMap, removals,
                       unsent, peer, input, sockErr, shutWr, killed, stream, wire, ups, downs,
                       reopened>>
    BY <1>1 DEF HandleEvent
  <2>2. todo' \in Seq(Frame \ {"remove"}) /\ Tail(todo') \in Seq(Calm)
    <3>1. PICK first \in {<<>>, <<"close">>, <<"read">>}, write \in {<<>>, <<"write">>} :
               todo' = first \o write \o <<"error">>
      <4>1. <<>> \o <<>> = <<>> /\ <<"close">> \o <<>> = <<"close">> /\ <<>> \o <<"read">> = <<"read">>
        OBVIOUS
      <4>2. todo' = (IF HungUp /\ ~Readable THEN <<"close">> ELSE <<>>)
                    \o (IF Readable THEN <<"read">> ELSE <<>>)
                    \o (IF writable THEN <<"write">> ELSE <<>>) \o <<"error">>
        BY <2>1 DEF Callbacks
      <4> QED
        BY <4>1, <4>2
    <3> DEFINE F == Frame \ {"remove"}
               rest == write \o <<"error">>
    <3>a. {"close", "read", "write", "error"} \subseteq F /\ {"write", "error"} \subseteq Calm
      BY DEF Frame, Calm
    <3> HIDE DEF F
    <3>b. \A S : /\ <<>> \in Seq(S) /\ Len(<<>>) = 0
                 /\ \A x \in S : <<x>> \in Seq(S) /\ Len(<<x>>) = 1
      OBVIOUS
    <3>2. first \in Seq(F) /\ Len(first) \in 0..1
      <4>1. CASE first = <<>>
        BY <4>1, <3>b
      <4>2. CASE first = <<"close">>
        BY <4>2, <3>a, <3>b
      <4>3. CASE first = <<"read">>
        BY <4>3, <3>a, <3>b
      <4> QED
        BY <4>1, <4>2, <4>3
    <3>3. /\ write \in Seq(F) /\ write \in Seq(Calm)
          /\ <<"error">> \in Seq(F) /\ <<"error">> \in Seq(Calm) /\ Len(<<"error">>) = 1
      <4>1. <<"error">> \in Seq(F) /\ <<"error">> \in Seq(Calm) /\ Len(<<"error">>) = 1
        BY <3>a, <3>b
      <4>2. <<"write">> \in Seq(F) /\ <<"write">> \in Seq(Calm)
        BY <3>a, <3>b
      <4>3. <<>> \in Seq(F) /\ <<>> \in Seq(Calm)
        BY <3>b
      <4> QED
        BY <4>1, <4>2, <4>3
    <3>4. todo' = first \o rest
      <4>1. \A p, q, r \in Seq(F) : (p \o q) \o r = p \o (q \o r)
        BY ConcatAssociative
      <4> QED
        BY <3>1, <3>2, <3>3, <4>1
    <3>5. rest \in Seq(F) /\ rest \in Seq(Calm) /\ Len(rest) = Len(write) + 1
      BY <3>3, ConcatProperties
    <3> HIDE DEF rest
    <3>6. /\ todo' \in Seq(F) /\ Len(todo') = Len(first) + Len(rest)
          /\ \A i \in 1..Len(first) + Len(rest) :
               todo'[i] = IF i <= Len(first) THEN first[i] ELSE rest[i - Len(first)]
      BY <3>2, <3>4, <3>5, ConcatProperties
    <3>7. \A i \in 1..Len(rest) : rest[i] \in Calm
      BY <3>5, ElementOfSeq
    <3>8. Len(rest) \in Nat /\ Len(todo') \in Nat
      BY <3>5, <3>6, LenProperties
    <3>9. \A i \in 2..Len(todo') : todo'[i] \in Calm
      BY <3>2, <3>6, <3>7, <3>8
    <3>10. SubSeq(todo', 2, Len(todo')) \in Seq(Calm)
      BY <3>8, <3>9, SubSeqProperties
    <3>11. todo' # <<>>
      <4>1. Len(write) \in Nat
        BY <3>3, LenProperties
      <4>2. Len(todo') # 0
        BY <3>2, <3>5, <3>6, <4>1
      <4> QED
        BY <4>2
    <3>12. Tail(todo') = SubSeq(todo', 2, Len(todo'))
      BY <3>6, <3>11, TailIsSubSeq
    <3> QED
      BY <3>6, <3>10, <3>12 DEF F
  <2>3. todo' \in Seq(Frame)
    <3>1. Frame \ {"remove"} \subseteq Frame
      OBVIOUS
    <3> QED
      BY <2>2, <3>1, SeqMonotonic
  <2>4. TypeOK'
    BY <1>0, <2>1, <2>3 DEF TypeOK
  <2>5. BeforeUp' /\ AfterUp'
    BY <2>1, OnlyWhenUp, UpKeeps
  <2>6. Stack' /\ Told' /\ Data'
    BY <1>0, <2>1, <2>2 DEF Stack, Told, DownOnce, Data, InOrder, WritingIffBuffered
  <2> QED
    BY <2>4, <2>5, <2>6 DEF ConnInv
<1>2. CASE CloseCallback
  BY <1>2, CloseKeeps DEF CloseCallback, Does
<1>3. CASE HandleRead
  <2>1. /\ todo # <<>> /\ Head(todo) = "read"
        /\ UNCHANGED <<batch, ran, caller, holds, inMap, removals, unsent, peer, shutWr, killed>>
    BY <1>3 DEF HandleRead, Does
  <2>2. CASE HandleClose(Tail(todo)) /\ UNCHANGED <<input, sockErr>>
    BY <2>1, <2>2, CloseKeeps
  <2>3. CASE /\ todo' \in {Tail(todo), <<"user">> \o Tail(todo)}
             /\ UNCHANGED <<state, events, output, pending, stream, wire, ups, downs, reopened>>
             /\ input' \in {input, FALSE} /\ sockErr' \in {sockErr, FALSE}
    <3>1. <<"user">> \in Seq(Frame)
      BY DEF Frame
    <3>2. todo' \in Seq(Frame)
      BY <1>b, <2>1, <2>3, <3>1, ConcatProperties
    <3>3. TypeOK'
      BY <1>0, <2>1, <2>3, <3>2 DEF TypeOK
    <3> QED
      BY <2>1, <2>3, <3>3, PopKeeps
  <2> QED
    BY <1>3, <2>2, <2>3 DEF HandleRead
<1>4. CASE HandleWrite
  <2>1. /\ todo # <<>> /\ todo' = Tail(todo)
        /\ UNCHANGED <<batch, ran, caller, holds, inMap, removals, unsent>>
    BY <1>4 DEF HandleWrite, Does
  <2>2. CASE /\ UNCHANGED <<state, events, output, pending, stream, wire, ups, downs, reopened,
                            peer, input, shutWr>>
             /\ UNCHANGED <<killed, sockErr>> \/ (killed' \in {TRUE, ~sockErr} /\ sockErr' = FALSE)
    <3>1. TypeOK'
      BY <1>0, <1>b, <2>1, <2>2 DEF TypeOK
    <3> QED
      BY <2>1, <2>2, <3>1, PopKeeps
  <2>3. ASSUME NEW n \in 1..Len(output), "out" \in events,
               wire' = wire \o SubSeq(output, 1, n),
               output' = SubSeq(output, n + 1, Len(output)),
               events' = EventsAfterWrite(n),
               IF n = Len(output)
                 THEN pending' = Append(pending, <<"writeComplete">>) /\ DelayedShutdown
                 ELSE UNCHANGED <<pending, state, shutWr>>,
               UNCHANGED <<peer, input, sockErr, killed, stream, ups, downs, reopened>>
        PROVE  ConnInv'
    <3>1. Data' /\ wire' \in Seq(Part) /\ output' \in Seq(Part)
      BY <1>0, <2>3, WriteKeepsData
    <3>2. /\ UNCHANGED pending \/ pending' = Append(pending, <<"writeComplete">>)
          /\ state' \in {state, "disconnected"} /\ shutWr' \in {shutWr, TRUE}
      BY <2>3 DEF DelayedShutdown
    <3>3. ups = 1
      BY <2>1, OnlyWhenUp
    <3>4. UNCHANGED pending \/ (pending' \in Seq(Owning \union Raw) /\ pending' \in Seq(Later))
      BY <3>2, <3>3, LaterFunctors, AppendLater
    <3>5. BeforeUp' /\ AfterUp'
      BY <2>1, <2>3, <3>3, <3>4, UpKeeps
    <3>6. events' \subseteq events
      BY <2>3 DEF EventsAfterWrite
    <3>7. TypeOK'
      BY <1>0, <1>b, <2>1, <2>3, <3>1, <3>2, <3>4, <3>6 DEF TypeOK, Part
    <3>8. Stack'
      BY <1>0, <2>1, <2>3, StackPops DEF Stack
    <3>9. Told'
      BY <1>0, <2>1, <2>3, <3>2, <3>6, StackPops DEF Told, DownOnce
    <3> QED
      BY <3>1, <3>5, <3>7, <3>8, <3>9 DEF ConnInv
  <2> QED
    BY <1>4, <2>2, <2>3 DEF HandleWrite, BrokenWrite
<1>5. CASE HandleError
  <2>1. TypeOK'
    BY <1>0, <1>5, <1>b DEF HandleError, Does, TypeOK
  <2> QED
    BY <1>5, <2>1, PopKeeps DEF HandleError, Does
<1>6. CASE RemoveConnection
  <2>1. /\ todo # <<>> /\ Head(todo) = "remove" /\ todo' = Tail(todo) /\ removals' = removals + 1
        /\ UNCHANGED <<state, events, output, pending, batch, ran, caller, holds, inMap, unsent,
                       peer, input, sockErr, shutWr, killed, stream, wire, ups, downs, reopened>>
    BY <1>6 DEF RemoveConnection, Does
  <2>2. downs > 0
    <3>1. downs = 0 => Head(todo) # "remove"
      BY <1>0, <2>1, HeadTailProperties DEF Stack
    <3> QED
      BY <1>a, <2>1, <3>1
  <2>3. TypeOK'
    BY <1>0, <1>a, <1>b, <2>1 DEF TypeOK
  <2> QED
    BY <2>1, <2>2, <2>3, PopKeeps
<1>7. CASE CallbackReturns
  <2>1. TypeOK'
    BY <1>0, <1>7, <1>b DEF CallbackReturns, TypeOK
  <2> QED
    BY <1>7, <2>1, PopKeeps DEF CallbackReturns
<1>8. CASE RemoveConnectionInLoop
  <2>1. /\ removals > 0 /\ removals' = removals - 1 /\ inMap' = FALSE
        /\ pending' = Append(pending, <<"destroyed">>)
        /\ UNCHANGED <<state, events, output, batch, ran, todo, caller, holds, unsent, peer, input,
                       sockErr, shutWr, killed, stream, wire, ups, downs, reopened>>
    BY <1>8 DEF RemoveConnectionInLoop
  <2>2. downs > 0 /\ ups = 1
    BY <1>0, <1>a, <2>1, OnlyWhenUp DEF Stack
  <2>3. pending' \in Seq(Owning \union Raw) /\ pending' \in Seq(Later)
    BY <2>1, <2>2, LaterFunctors, AppendLater
  <2>4. TypeOK'
    <3>1. removals' \in Nat
      BY <1>a, <2>1
    <3>2. inMap' \in BOOLEAN
      BY <2>1
    <3> QED
      BY <1>0, <2>1, <2>3, <3>1, <3>2 DEF TypeOK
  <2>5. BeforeUp' /\ AfterUp'
    BY <2>1, <2>2, <2>3, UpKeeps
  <2>6. Stack' /\ Told' /\ Data'
    BY <1>0, <1>a, <2>1, <2>2 DEF Stack, Told, DownOnce, Data, InOrder, WritingIffBuffered
  <2> QED
    BY <2>4, <2>5, <2>6 DEF ConnInv
<1>9. ASSUME NEW m \in Msg, SendOnLoop(m)
      PROVE  ConnInv'
  <2>1. /\ SendInLoop(m) /\ state = "connected" /\ unsent' = unsent \ {m}
        /\ UNCHANGED <<state, batch, ran, todo, caller, holds, inMap, removals>>
    BY <1>9 DEF SendOnLoop
  <2>2. ups = 1
    BY <2>1, OnlyWhenUp
  <2>3. pending' \in Seq(Owning \union Raw) /\ pending' \in Seq(Later)
    BY <1>0, <2>1, <2>2, SendEffect, QueueLater
  <2>4. TypeOK'
    BY <1>0, <2>1, <2>3, SendEffect DEF TypeOK, Part
  <2>5. BeforeUp' /\ AfterUp'
    BY <1>0, <2>1, <2>2, <2>3, SendEffect, UpKeeps
  <2>6. Stack'
    BY <1>0, <2>1, SendEffect DEF Stack
  <2>7. Told'
    BY <1>0, <2>1, SendEffect DEF Told, DownOnce
  <2>8. Data'
    BY <1>0, <2>1, SendEffect DEF Data
  <2> QED
    BY <2>4, <2>5, <2>6, <2>7, <2>8 DEF ConnInv
<1> QED
  BY <1>1, <1>2, <1>3, <1>4, <1>5, <1>6, <1>7, <1>8, <1>9

(* Every step keeps the invariant.                                          *)
LEMMA ConnInductive == ConnInv /\ [Next]_vars => ConnInv'
<1> SUFFICES ASSUME ConnInv, [Next]_vars
             PROVE  ConnInv'
  OBVIOUS
<1>1. CASE UNCHANGED vars
  <2>1. UNCHANGED <<state, events, output, pending, batch, ran, todo, caller, holds, inMap, removals,
                    unsent, peer, input, sockErr, shutWr, killed, stream, wire, ups, downs, reopened>>
    BY <1>1 DEF vars, loop, server, socket, history
  <2>2. TypeOK'
    BY <2>1 DEF ConnInv, TypeOK
  <2> QED
    BY <2>1, <2>2, OutsideKeeps DEF history
<1> QED
  BY <1>1, UserSteps, FunctorSteps, EventSteps DEF Next, LoopStep, UserStep

LEMMA ConnAlways == Spec => []ConnInv
BY ConnInit, ConnInductive, PTL DEF Spec

(* Every variable keeps its type; connectEstablished runs once.             *)
THEOREM TypeCorrect == Spec => []TypeOK
<1>1. ConnInv => TypeOK
  BY DEF ConnInv
<1> QED
  BY <1>1, ConnAlways, PTL

(* What write() has taken and what the buffer holds is, in order, what      *)
(* sendInLoop took on (TcpConnection::sendInLoop and handleWrite).          *)
THEOREM NothingReordered == Spec => []InOrder
<1>1. ConnInv => InOrder
  BY DEF ConnInv, Data
<1> QED
  BY <1>1, ConnAlways, PTL

(* As long as the connection is not closed, its channel asks for EPOLLOUT   *)
(* exactly while the buffer holds something.                                *)
THEOREM WritesWhileBuffered == Spec => []WritingIffBuffered
<1>1. ConnInv => WritingIffBuffered
  BY DEF ConnInv, Data
<1> QED
  BY <1>1, ConnAlways, PTL

(* The user hears of the end once, if no send arrives after it              *)
(* (TcpConnection::handleClose and connectDestroyed).                       *)
THEOREM ToldDownOnce == Spec => []DownOnce
<1>1. ConnInv => DownOnce
  BY DEF ConnInv, Told
<1> QED
  BY <1>1, ConnAlways, PTL
-----------------------------------------------------------------------------
(* The steps that shut down the write half do it with an empty buffer.      *)
LEMMA ShutdownStep ==
  ASSUME ConnInv, [Next]_vars, ~shutWr, shutWr', downs = 0
  PROVE  output' = <<>>
<1> USE DEF loop, server, socket, history
<1>0. TypeOK /\ Data /\ ("out" \notin events => output = <<>>)
  BY DEF ConnInv, Data, WritingIffBuffered
<1>1. CASE HandleWrite
  <2>1. PICK n \in 1..Len(output) :
          /\ "out" \in events
          /\ wire' = wire \o SubSeq(output, 1, n)
          /\ output' = SubSeq(output, n + 1, Len(output))
          /\ events' = EventsAfterWrite(n)
          /\ n = Len(output) \/ UNCHANGED shutWr
          /\ UNCHANGED <<stream, downs>>
    BY <1>1 DEF HandleWrite, BrokenWrite
  <2> QED
    BY <1>0, <2>1, WriteKeepsData
<1>2. CASE ShutdownOnLoop \/ RunShutdown
  BY <1>0, <1>2 DEF ShutdownOnLoop, RunShutdown, ShutdownInLoop
<1>3. ASSUME NEW m \in Msg, SendOnLoop(m) \/ RunSend(m)
      PROVE  UNCHANGED shutWr
  BY <1>0, <1>3, SendEffect DEF SendOnLoop, RunSend
<1>4. CASE DoPendingFunctors \/ BatchDone \/ ConnectEstablished \/ ConnectDestroyed \/ RunUserCallback
  BY <1>4 DEF DoPendingFunctors, BatchDone, ConnectEstablished, ConnectDestroyed, RunUserCallback
<1>5. CASE CloseCallback \/ HandleRead \/ HandleError \/ RemoveConnection \/ CallbackReturns
  BY <1>5 DEF CloseCallback, HandleRead, HandleError, RemoveConnection, CallbackReturns
<1>6. CASE \/ \E m \in Msg : BeginSend(m)
           \/ BeginShutdown \/ KeepPointer \/ DropPointer \/ SetDisconnecting \/ QueueFunctor
  BY <1>6 DEF BeginSend, BeginShutdown, KeepPointer, DropPointer, SetDisconnecting, QueueFunctor
<1>7. CASE \/ \E writable \in BOOLEAN : HandleEvent(writable)
           \/ RemoveConnectionInLoop
           \/ PeerDoes(PeerSends) \/ PeerDoes(PeerCloses) \/ PeerDoes(PeerResets)
  BY <1>7 DEF HandleEvent, RemoveConnectionInLoop, PeerDoes
<1>8. CASE UNCHANGED vars
  BY <1>8 DEF vars
<1> QED
  BY <1>1, <1>2, <1>3, <1>4, <1>5, <1>6, <1>7, <1>8 DEF Next, LoopStep, UserStep

(* No shutdown cuts off data the buffer holds, on whatever thread it was    *)
(* called (TcpConnection::shutdownInLoop and handleWrite).                  *)
THEOREM ShutdownIsPolite == Spec => ShutdownFlushes
<1>1. ConnInv /\ [Next]_vars => [~shutWr /\ shutWr' /\ downs = 0 => output' = <<>>]_vars
  BY ShutdownStep
<1> QED
  BY <1>1, ConnAlways, PTL DEF Spec, ShutdownFlushes
-----------------------------------------------------------------------------
(* The connection implements ConnectionLife.                                *)

(* Only four things happen to what the server and the user know.            *)
LEMMA StepKinds ==
  ASSUME ConnInv, [Next]_vars
  PROVE  \/ UNCHANGED <<ups, downs, inMap>>
         \/ ups = 0 /\ ups' = 1 /\ UNCHANGED <<downs, inMap>>
         \/ ups = 1 /\ downs' = downs + 1 /\ UNCHANGED <<ups, inMap>>
         \/ removals > 0 /\ inMap' = FALSE /\ UNCHANGED <<ups, downs>>
<1> USE DEF loop, server, socket, history
<1>0. TypeOK
  BY DEF ConnInv
<1>1. CASE ConnectEstablished
  <2>1. Runs(Established) /\ ups' = ups + 1 /\ UNCHANGED <<downs, inMap>>
    BY <1>1 DEF ConnectEstablished, Established, Runs
  <2>2. ups' \in 0..1 /\ ups \in 0..1
    BY ConnInductive, <1>0 DEF ConnInv, TypeOK
  <2> QED
    BY <2>1, <2>2
<1>2. CASE ConnectDestroyed
  <2>1. Runs(<<"destroyed">>)
    BY <1>2 DEF ConnectDestroyed
  <2>2. ups = 1
    BY <2>1, LaterFunctors, OnlyWhenUp
  <2> QED
    BY <1>2, <2>2 DEF ConnectDestroyed, Runs
<1>3. CASE CloseCallback \/ HandleRead
  <2>1. todo # <<>> /\ UNCHANGED inMap
    BY <1>3 DEF CloseCallback, HandleRead, Does
  <2>2. UNCHANGED <<ups, downs>> \/ (downs' = downs + 1 /\ UNCHANGED ups)
    BY <1>3 DEF CloseCallback, HandleRead, HandleClose
  <2> QED
    BY <2>1, <2>2, OnlyWhenUp
<1>4. CASE RemoveConnectionInLoop
  BY <1>4 DEF RemoveConnectionInLoop
<1>5. ASSUME NEW m \in Msg, SendOnLoop(m) \/ RunSend(m)
      PROVE  UNCHANGED <<ups, downs, inMap>>
  BY <1>0, <1>5, SendEffect DEF SendOnLoop, RunSend, Runs
<1>6. CASE DoPendingFunctors \/ BatchDone \/ RunUserCallback \/ RunShutdown
  BY <1>6 DEF DoPendingFunctors, BatchDone, RunUserCallback, RunShutdown, Runs
<1>7. CASE HandleWrite \/ HandleError \/ RemoveConnection \/ CallbackReturns
  BY <1>7 DEF HandleWrite, HandleError, RemoveConnection, CallbackReturns
<1>8. CASE \/ \E m \in Msg : BeginSend(m)
           \/ BeginShutdown \/ KeepPointer \/ DropPointer \/ SetDisconnecting \/ QueueFunctor
           \/ ShutdownOnLoop
  BY <1>8 DEF BeginSend, BeginShutdown, KeepPointer, DropPointer, SetDisconnecting, QueueFunctor,
              ShutdownOnLoop
<1>9. CASE \/ \E writable \in BOOLEAN : HandleEvent(writable)
           \/ PeerDoes(PeerSends) \/ PeerDoes(PeerCloses) \/ PeerDoes(PeerResets)
  BY <1>9 DEF HandleEvent, PeerDoes
<1>10. CASE UNCHANGED vars
  BY <1>10 DEF vars
<1> QED
  BY <1>1, <1>2, <1>3, <1>4, <1>5, <1>6, <1>7, <1>8, <1>9, <1>10 DEF Next, LoopStep, UserStep

(* The connection comes up, goes down after that and is forgotten last, for *)
(* any messages, any write() and any number of late sends: the promise that *)
(* TcpServer makes for all of its connections.                              *)
THEOREM ConnectionImplementsLife == Spec => ImplementsLife
<1>1. Init => Life!Init
  BY DEF Init, Life!Init, Phase
<1>2. ConnInv /\ [Next]_vars => [Life!Next]_(Life!vars)
  <2> SUFFICES ASSUME ConnInv, [Next]_vars
               PROVE  [Life!Next]_(Life!vars)
    OBVIOUS
  <2> DEFINE phase == [c \in {"this"} |-> Phase]
             kept == IF inMap THEN {"this"} ELSE {}
  <2>0. ups \in 0..1 /\ downs \in Nat /\ removals \in Nat
    BY DEF ConnInv, TypeOK
  <2>1. CASE UNCHANGED <<ups, downs, inMap>>
    BY <2>1 DEF Life!vars, Phase
  <2>2. CASE ups = 0 /\ ups' = 1 /\ UNCHANGED <<downs, inMap>>
    <3>1. downs = 0
      BY <2>2 DEF ConnInv, BeforeUp
    <3>2. Phase = "made" /\ Phase' = "up"
      BY <2>2, <3>1 DEF Phase
    <3>3. phase["this"] = "made" /\ phase' = [phase EXCEPT !["this"] = "up"] /\ UNCHANGED kept
      BY <2>2, <3>2
    <3> QED
      BY <3>3 DEF Life!Next, Life!Raise, Life!Turn
  <2>3. CASE ups = 1 /\ downs' = downs + 1 /\ UNCHANGED <<ups, inMap>>
    <3>1. CASE downs = 0
      <4>1. Phase = "up" /\ Phase' = "down"
        BY <2>0, <2>3, <3>1 DEF Phase
      <4>2. phase["this"] = "up" /\ phase' = [phase EXCEPT !["this"] = "down"] /\ UNCHANGED kept
        BY <2>3, <4>1
      <4> QED
        BY <4>2 DEF Life!Next, Life!Lower, Life!Turn
    <3>2. CASE downs > 0
      BY <2>0, <2>3, <3>2 DEF Life!vars, Phase
    <3> QED
      BY <2>0, <3>1, <3>2
  <2>4. CASE removals > 0 /\ inMap' = FALSE /\ UNCHANGED <<ups, downs>>
    <3>1. downs > 0
      BY <2>0, <2>4 DEF ConnInv, Stack
    <3>2. Phase = "down" /\ Phase' = "down"
      BY <2>4, <3>1 DEF Phase
    <3>3. phase["this"] = "down" /\ UNCHANGED phase /\ kept' = kept \ {"this"}
      BY <2>4, <3>2
    <3> QED
      BY <3>3 DEF Life!Next, Life!Forget
  <2> QED
    BY <2>1, <2>2, <2>3, <2>4, StepKinds
<1> QED
  BY <1>1, <1>2, ConnAlways, PTL DEF Spec, ImplementsLife, Life!Spec
=============================================================================
