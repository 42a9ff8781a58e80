---------------------------- MODULE TcpConnection ----------------------------
(****************************************************************************)
(* One TcpConnection (TcpConnection.cc) with its Channel, on the thread of  *)
(* its EventLoop; the other threads that call send() and shutdown() on it;  *)
(* the TcpServer that owns it; and the socket it sits on.                   *)
(*                                                                          *)
(* state_ is read and written by every thread, the rest belongs to the loop *)
(* thread.  Work gets there as functors, of which some own the connection   *)
(* (they bind a shared_ptr) and some do not (they bind this): the object is *)
(* destroyed when nobody owns it, whatever is still queued.                 *)
(*                                                                          *)
(* The loop is the one of module EventLoop, reduced to what a connection    *)
(* can tell: channel events, and batches of functors in the order queued.   *)
(* todo is the loop thread's stack, what is left of the handlers it is in.  *)
(****************************************************************************)
EXTENDS Integers, Sequences, SequencesExt

CONSTANTS Msg,            \* BOUND: what is sent, each at most once
          MsgSize,        \* write() may stop after each of so many parts of a message
          HighWaterMark   \* highWaterMark_, in parts

ASSUME ConnectionAssumption == MsgSize \in Nat \ {0} /\ HighWaterMark \in Nat

VARIABLES
  state,      \* state_
  events,     \* events_ of the channel, which is in epoll when there is one
  output,     \* outputBuffer_
  pending,    \* pendingFunctors_ of the loop
  batch,      \* the functors doPendingFunctors is calling, their shared_ptrs with them
  ran,        \* how many of them it has called
  todo,       \* what the loop thread has still to do in the handler it is in
  caller,     \* where the other thread is: what is left of its send or shutdown
  holds,      \* does user code keep a TcpConnectionPtr?
  inMap,      \* is the connection in connections_ of the server?
  removals,   \* removeConnectionInLoop functors in the base loop
  unsent,     \* the messages not passed to send() yet
  peer,       \* "open", "eof" when the peer closed, "reset" when it reset or is gone
  input,      \* does the socket hold data to read?
  sockErr,    \* does the socket hold an error for SO_ERROR?
  shutWr,     \* was shutdown(SHUT_WR) called?
  killed,     \* did SIGPIPE kill the process?
  stream,     \* history: what sendInLoop has taken on, in order
  wire,       \* history: what write() has taken, in order
  ups, downs, \* history: calls of connectionCallback_ for an up, for a down connection
  reopened    \* history: did the channel come back after connectionCallback_ said down?

server == <<inMap, removals>>
socket == <<peer, input, sockErr, shutWr, killed>>
loop == <<pending, batch, ran>>
history == <<stream, wire, ups, downs, reopened>>
vars == <<state, events, output, loop, todo, caller, holds, server, unsent, socket, history>>

Parts(m) == [i \in 1..MsgSize |-> <<m, i>>]

Owning == {<<"established">>, <<"destroyed">>, <<"writeComplete">>, <<"highWater">>}
Raw == {<<"shutdown">>} \union ({"send"} \X Msg)

(* A shared_ptr to the connection exists: in the server, in user code, in a *)
(* functor, or on the loop thread's stack.                                  *)
Owned ==
  \/ inMap \/ holds \/ removals > 0
  \/ todo # <<>>
  \/ (ToSet(pending) \union ToSet(batch)) \intersect Owning # {}

Frame == {"user", "close", "read", "write", "error", "remove"}

TypeOK ==
  /\ state \in {"connected", "disconnecting", "disconnected"}
  /\ events \subseteq {"in", "out"}
  /\ output \in Seq(Msg \X (1..MsgSize))
  /\ pending \in Seq(Owning \union Raw)
  /\ batch \in Seq(Owning \union Raw)
  /\ ran \in 0..Len(batch)
  /\ todo \in Seq(Frame)
  /\ caller \in {<<"idle">>, <<"shutdown", "set">>, <<"shutdown", "queue">>} \union ({"send"} \X Msg)
  /\ holds \in BOOLEAN /\ inMap \in BOOLEAN /\ removals \in Nat
  /\ unsent \subseteq Msg
  /\ peer \in {"open", "eof", "reset"}
  /\ {input, sockErr, shutWr, killed, reopened} \subseteq BOOLEAN
  /\ stream \in Seq(Msg \X (1..MsgSize)) /\ wire \in Seq(Msg \X (1..MsgSize))
  /\ ups \in 0..1 /\ downs \in Nat

\* As TcpServer::newConnection leaves it.
Init ==
  /\ state = "disconnected"
  /\ events = {}
  /\ output = <<>>
  /\ pending = << <<"established">> >> /\ batch = <<>> /\ ran = 0
  /\ todo = <<>>
  /\ caller = <<"idle">>
  /\ holds = FALSE
  /\ inMap = TRUE /\ removals = 0
  /\ unsent = Msg
  /\ peer = "open" /\ input = FALSE
  /\ sockErr = FALSE /\ shutWr = FALSE /\ killed = FALSE
  /\ stream = <<>> /\ wire = <<>>
  /\ ups = 0 /\ downs = 0 /\ reopened = FALSE

-----------------------------------------------------------------------------
(* The handlers, as far as they run without a callback in between.          *)

(* write() on a socket that was shut down or reset: an error the socket     *)
(* holds is returned, else (or if that is the error) it is EPIPE, and       *)
(* nobody ignores SIGPIPE.                                                  *)
Broken == shutWr \/ peer = "reset"

BrokenWrite == /\ killed' \in {TRUE, ~sockErr}
               /\ sockErr' = FALSE
               /\ UNCHANGED <<peer, input, shutWr>>

\* MUTANT: calls highWaterMarkCallback_ only above the mark.
SendFunctorsAboveMark(n) ==
  LET left == MsgSize - n
  IN  IF left = 0 THEN << <<"writeComplete">> >>
      ELSE IF Len(output) + left > HighWaterMark /\ Len(output) <= HighWaterMark
           THEN << <<"highWater">> >> ELSE <<>>

\* The functors a sendInLoop queues when write() took n parts of a message.
SendFunctors(n) ==
  LET left == MsgSize - n
  IN  IF left = 0 THEN << <<"writeComplete">> >>
      ELSE IF Len(output) + left >= HighWaterMark /\ Len(output) < HighWaterMark
           THEN << <<"highWater">> >> ELSE <<>>

\* MUTANT: buffers the rest of a message without asking for EPOLLOUT.
EventsUnchanged(n) == events

\* The channel's events after sendInLoop wrote n parts of a message.
EventsAfterSend(n) == IF n < MsgSize THEN events \union {"out"} ELSE events

\* write() took n parts of m, the rest goes to the buffer.
TakeMessage(m, n) ==
  /\ stream' = stream \o Parts(m)
  /\ wire' = wire \o SubSeq(Parts(m), 1, n)
  /\ output' = output \o SubSeq(Parts(m), n + 1, MsgSize)
  /\ events' = EventsAfterSend(n)
  /\ reopened' = (reopened \/ (n < MsgSize /\ downs > 0))
  /\ pending' = pending \o SendFunctors(n)
  /\ UNCHANGED <<ups, downs>>

(* sendInLoop, when directly says whether it tries write() at once.  EAGAIN *)
(* is a write() of no parts.  An error the socket held makes it give up if  *)
(* it is ECONNRESET; any other one, say of the keepalive timer, does not.   *)
SendInLoopAs(m, directly) ==
  \/ /\ state = "disconnecting"
     /\ UNCHANGED <<events, output, pending, socket, history>>
  \/ /\ state # "disconnecting"
     /\ ~directly
     /\ TakeMessage(m, 0)
     /\ UNCHANGED socket
  \/ /\ state # "disconnecting"
     /\ directly /\ ~Broken
     /\ \E n \in 0..MsgSize : TakeMessage(m, n)
     /\ UNCHANGED socket
  \/ /\ state # "disconnecting"
     /\ directly /\ Broken
     /\ BrokenWrite
     /\ \/ UNCHANGED <<events, output, pending, history>>
        \/ sockErr /\ TakeMessage(m, 0)

\* MUTANT: tries write() although earlier data waits in the buffer.
SendInLoopOvertaking(m) == SendInLoopAs(m, TRUE)

SendInLoop(m) == SendInLoopAs(m, "out" \notin events /\ output = <<>>)

\* MUTANT: shuts down although data waits in the buffer.
ShutdownInLoopAtOnce(next) == state' = "disconnected" /\ shutWr' = TRUE

\* shutdownInLoop; next is state_ if it does nothing.
ShutdownInLoop(next) ==
  IF "out" \in events
  THEN state' = next /\ UNCHANGED shutWr
  ELSE state' = "disconnected" /\ shutWr' = TRUE

\* MUTANT: calls connectionCallback_ only for a connection that is still up.
HandleCloseQuietly(then) ==
  /\ state' = "disconnected"
  /\ events' = {}
  /\ downs' = IF state = "connected" THEN downs + 1 ELSE downs
  /\ todo' = <<"user", "remove">> \o then
  /\ UNCHANGED <<output, pending, stream, wire, ups, reopened>>

\* MUTANT: forgets setState(kDisconnected).
HandleCloseStillUp(then) ==
  /\ events' = {}
  /\ downs' = downs + 1
  /\ todo' = <<"user", "remove">> \o then
  /\ UNCHANGED <<state, output, pending, stream, wire, ups, reopened>>

\* handleClose up to connectionCallback_; then is the loop thread's work after it.
HandleClose(then) ==
  /\ state' = "disconnected"
  /\ events' = {}
  /\ downs' = downs + 1
  /\ todo' = <<"user", "remove">> \o then
  /\ UNCHANGED <<output, pending, stream, wire, ups, reopened>>

-----------------------------------------------------------------------------
(* Functors.                                                                *)

\* MUTANT: copies pendingFunctors_ instead of swapping it out.
DoPendingFunctorsCopies ==
  /\ todo = <<>> /\ batch = <<>> /\ pending # <<>>
  /\ batch' = pending /\ ran' = 0
  /\ UNCHANGED <<state, events, output, pending, todo, caller, holds, server, unsent, socket,
                 history>>

DoPendingFunctors ==
  /\ todo = <<>> /\ batch = <<>> /\ pending # <<>>
  /\ batch' = pending /\ pending' = <<>> /\ ran' = 0
  /\ UNCHANGED <<state, events, output, todo, caller, holds, server, unsent, socket, history>>

NextFunctor == batch[ran + 1]

Runs(f) == /\ todo = <<>> /\ ran < Len(batch) /\ NextFunctor = f
           /\ ran' = ran + 1
           /\ UNCHANGED <<batch, caller, holds, server, unsent>>

\* MUTANT: clears pendingFunctors_ when the batch is done.
BatchDoneClearsPending ==
  /\ todo = <<>> /\ batch # <<>> /\ ran = Len(batch)
  /\ batch' = <<>> /\ pending' = <<>> /\ ran' = 0
  /\ UNCHANGED <<state, events, output, todo, caller, holds, server, unsent, socket, history>>

\* The vector of functors is destroyed, and what they own with them.
BatchDone ==
  /\ todo = <<>> /\ batch # <<>> /\ ran = Len(batch)
  /\ batch' = <<>> /\ ran' = 0
  /\ UNCHANGED <<state, events, output, pending, todo, caller, holds, server, unsent,
                 socket, history>>

\* MUTANT: does not enable reading.
ConnectEstablishedDeaf ==
  /\ Runs(<<"established">>)
  /\ state' = "connected"
  /\ ups' = ups + 1
  /\ todo' = <<"user">>
  /\ UNCHANGED <<events, output, pending, socket, stream, wire, downs, reopened>>

ConnectEstablished ==
  /\ Runs(<<"established">>)
  /\ state' = "connected"
  /\ events' = events \union {"in"}
  /\ ups' = ups + 1
  /\ todo' = <<"user">>
  /\ UNCHANGED <<output, pending, socket, stream, wire, downs, reopened>>

ConnectDestroyed ==
  /\ Runs(<<"destroyed">>)
  /\ IF state = "connected"
     THEN /\ state' = "disconnected"
          /\ events' = {}
          /\ downs' = downs + 1
          /\ todo' = <<"user">>
     ELSE UNCHANGED <<state, events, downs, todo>>
  /\ UNCHANGED <<output, pending, socket, stream, wire, ups, reopened>>

\* writeCompleteCallback_ or highWaterMarkCallback_.
RunUserCallback ==
  /\ Runs(<<"writeComplete">>) \/ Runs(<<"highWater">>)
  /\ todo' = <<"user">>
  /\ UNCHANGED <<state, events, output, pending, socket, history>>

\* A functor without a shared_ptr; on a destroyed connection all bets are off.
RunSend(m) ==
  /\ Owned
  /\ Runs(<<"send", m>>)
  /\ SendInLoop(m)
  /\ UNCHANGED <<state, todo>>

RunShutdown ==
  /\ Owned
  /\ Runs(<<"shutdown">>)
  /\ ShutdownInLoop(state)
  /\ UNCHANGED <<events, output, pending, todo, peer, input, sockErr, killed, history>>

-----------------------------------------------------------------------------
(* Channel events.                                                          *)

Idle == todo = <<>> /\ batch = <<>>

Readable == "in" \in events /\ (input \/ peer # "open")
HungUp == peer = "reset" \/ (peer = "eof" /\ shutWr)

\* Channel::handleEventWithGuard: the callbacks it will make, the error callback always.
Callbacks(writable) ==
  (IF HungUp /\ ~Readable THEN <<"close">> ELSE <<>>)
  \o (IF Readable THEN <<"read">> ELSE <<>>)
  \o (IF writable THEN <<"write">> ELSE <<>>)
  \o <<"error">>

\* epoll reports HUP and ERR for any channel it has, the rest when asked for; it has the
\* channel while that is on and, since ~TcpConnection closes the socket, the connection exists.
HandleEvent(writable) ==
  /\ Idle
  /\ Owned /\ events # {}
  /\ writable => "out" \in events
  /\ writable \/ Readable \/ HungUp \/ sockErr
  /\ todo' = Callbacks(writable)
  /\ UNCHANGED <<state, events, output, loop, caller, holds, server, unsent, socket, history>>

Does(frame) == /\ todo # <<>> /\ Head(todo) = frame
               /\ UNCHANGED <<batch, ran, caller, holds>>

CloseCallback ==
  /\ Does("close")
  /\ HandleClose(Tail(todo))
  /\ UNCHANGED <<server, unsent, socket>>

(* handleRead: data, an error the socket holds, or the end of the stream.   *)
HandleRead ==
  /\ Does("read")
  /\ \/ /\ input
        /\ input' = FALSE
        /\ todo' = <<"user">> \o Tail(todo)
        /\ UNCHANGED <<state, events, output, pending, history, sockErr>>
     \/ /\ ~input /\ sockErr
        /\ sockErr' = FALSE
        /\ todo' = Tail(todo)
        /\ UNCHANGED <<state, events, output, pending, history, input>>
     \/ /\ ~input /\ ~sockErr
        /\ HandleClose(Tail(todo))
        /\ UNCHANGED <<input, sockErr>>
  /\ UNCHANGED <<server, unsent, peer, shutWr, killed>>

\* MUTANT: writes on once the buffer is empty.
StillWriting(n) == events

\* The channel's events after n parts of the output were written.
EventsAfterWrite(n) == IF n = Len(output) THEN events \ {"out"} ELSE events

\* MUTANT: handleWrite does not look at state_ when the buffer is empty.
DoNotShutdown == UNCHANGED <<state, shutWr>>

\* A shutdown() that came while there was output is carried out now.
DelayedShutdown ==
  IF state = "disconnecting"
  THEN state' = "disconnected" /\ shutWr' = TRUE
  ELSE UNCHANGED <<state, shutWr>>

(* handleWrite.  The socket is writable: write() takes something, all of it *)
(* perhaps, and then a shutdown that waited for that is carried out.        *)
HandleWrite ==
  /\ Does("write")
  /\ todo' = Tail(todo)
  /\ \/ /\ "out" \notin events
        /\ UNCHANGED <<state, events, output, pending, socket, history>>
     \/ /\ "out" \in events /\ Broken
        /\ BrokenWrite
        /\ UNCHANGED <<state, events, output, pending, history>>
     \/ /\ "out" \in events /\ ~Broken
        /\ \E n \in 1..Len(output) :
             /\ wire' = wire \o SubSeq(output, 1, n)
             /\ output' = SubSeq(output, n + 1, Len(output))
             /\ events' = EventsAfterWrite(n)
             /\ IF n = Len(output)
                THEN /\ pending' = Append(pending, <<"writeComplete">>)
                     /\ DelayedShutdown
                ELSE UNCHANGED <<pending, state, shutWr>>
        /\ UNCHANGED <<peer, input, sockErr, killed, stream, ups, downs, reopened>>
  /\ UNCHANGED <<server, unsent>>

\* handleError: getsockopt takes the error from the socket.
HandleError ==
  /\ Does("error")
  /\ sockErr' = FALSE
  /\ todo' = Tail(todo)
  /\ UNCHANGED <<state, events, output, pending, server, unsent, peer, input, shutWr,
                 killed, history>>

\* closeCallback_, which is TcpServer::removeConnection.
RemoveConnection ==
  /\ Does("remove")
  /\ removals' = removals + 1
  /\ todo' = Tail(todo)
  /\ UNCHANGED <<state, events, output, pending, inMap, unsent, socket, history>>

(* TcpServer::removeConnectionInLoop on the base loop's thread, which may   *)
(* be this loop's too.                                                      *)
RemoveConnectionInLoop ==
  /\ removals > 0
  /\ removals' = removals - 1
  /\ inMap' = FALSE
  /\ pending' = Append(pending, <<"destroyed">>)
  /\ UNCHANGED <<state, events, output, batch, ran, todo, caller, holds, unsent, socket, history>>

-----------------------------------------------------------------------------
(* User code on the loop thread: in a callback of this connection, or, when *)
(* it keeps a pointer, in one of another channel of the same loop.          *)
OnLoopThread == IF todo = <<>> THEN batch = <<>> /\ holds ELSE Head(todo) = "user"

SendOnLoop(m) ==
  /\ OnLoopThread
  /\ state = "connected" /\ m \in unsent
  /\ unsent' = unsent \ {m}
  /\ SendInLoop(m)
  /\ UNCHANGED <<state, batch, ran, todo, caller, holds, server>>

\* shutdown() and, in the same call, shutdownInLoop().
ShutdownOnLoop ==
  /\ OnLoopThread
  /\ state = "connected"
  /\ ShutdownInLoop("disconnecting")
  /\ UNCHANGED <<events, output, loop, todo, caller, holds, server, unsent, peer, input,
                 sockErr, killed, history>>

KeepPointer ==
  /\ todo # <<>> /\ Head(todo) = "user"
  /\ holds' = TRUE
  /\ UNCHANGED <<state, events, output, loop, todo, caller, server, unsent, socket, history>>

CallbackReturns ==
  /\ todo # <<>> /\ Head(todo) = "user"
  /\ todo' = Tail(todo)
  /\ UNCHANGED <<state, events, output, loop, caller, holds, server, unsent, socket, history>>

-----------------------------------------------------------------------------
(* User code on another thread, with a pointer it may drop between calls.   *)

DropPointer ==
  /\ holds /\ caller = <<"idle">>
  /\ holds' = FALSE
  /\ UNCHANGED <<state, events, output, loop, todo, caller, server, unsent, socket, history>>

\* The tests of state_ in send and shutdown.
TestState(then) ==
  /\ holds /\ caller = <<"idle">>
  /\ state = "connected"
  /\ caller' = then

BeginSend(m) ==
  /\ TestState(<<"send", m>>)
  /\ m \in unsent
  /\ unsent' = unsent \ {m}
  /\ UNCHANGED <<state, events, output, loop, todo, holds, server, socket, history>>

BeginShutdown ==
  /\ TestState(<<"shutdown", "set">>)
  /\ UNCHANGED <<state, events, output, loop, todo, holds, server, unsent, socket, history>>

SetDisconnecting ==
  /\ caller = <<"shutdown", "set">>
  /\ state' = "disconnecting"
  /\ caller' = <<"shutdown", "queue">>
  /\ UNCHANGED <<events, output, loop, todo, holds, server, unsent, socket, history>>

\* MUTANT: puts the functor in front of those that wait.
QueueFunctorInFront ==
  /\ \/ caller[1] = "send" /\ pending' = <<caller>> \o pending
     \/ caller = <<"shutdown", "queue">> /\ pending' = << <<"shutdown">> >> \o pending
  /\ caller' = <<"idle">>
  /\ UNCHANGED <<state, events, output, batch, ran, todo, holds, server, unsent, socket, history>>

\* runInLoop, from another thread, queues.
QueueFunctor ==
  /\ \/ caller[1] = "send" /\ pending' = Append(pending, caller)
     \/ caller = <<"shutdown", "queue">> /\ pending' = Append(pending, <<"shutdown">>)
  /\ caller' = <<"idle">>
  /\ UNCHANGED <<state, events, output, batch, ran, todo, holds, server, unsent, socket, history>>

-----------------------------------------------------------------------------
(* The peer.                                                                *)

PeerDoes(what) ==
  /\ what
  /\ UNCHANGED <<state, events, output, loop, todo, caller, holds, server, unsent, shutWr,
                 killed, history>>

PeerSends == peer = "open" /\ input' = TRUE /\ UNCHANGED <<peer, sockErr>>
PeerCloses == peer = "open" /\ peer' = "eof" /\ UNCHANGED <<input, sockErr>>
PeerResets == peer # "reset" /\ peer' = "reset" /\ sockErr' = TRUE /\ UNCHANGED input

-----------------------------------------------------------------------------
LoopStep ==
  \/ DoPendingFunctors \/ BatchDone
  \/ ConnectEstablished \/ ConnectDestroyed \/ RunUserCallback
  \/ (\E m \in Msg : RunSend(m)) \/ RunShutdown
  \/ CloseCallback \/ HandleRead \/ HandleWrite \/ HandleError
  \/ RemoveConnection \/ CallbackReturns

UserStep ==
  \/ (\E m \in Msg : SendOnLoop(m) \/ BeginSend(m))
  \/ ShutdownOnLoop \/ BeginShutdown
  \/ KeepPointer \/ DropPointer

Next ==
  /\ ~killed
  /\ \/ LoopStep \/ UserStep
     \/ (\E writable \in BOOLEAN : HandleEvent(writable))
     \/ RemoveConnectionInLoop
     \/ SetDisconnecting \/ QueueFunctor
     \/ PeerDoes(PeerSends) \/ PeerDoes(PeerCloses) \/ PeerDoes(PeerResets)

Spec == Init /\ [][Next]_vars

(* The threads are scheduled and callbacks return; every iteration of the   *)
(* loop ends with the functors, however many events there are.  epoll       *)
(* reports what is there to be read; and, as long as the peer reads, room   *)
(* to write.                                                                *)
Fairness ==
  /\ WF_vars(~killed /\ LoopStep)
  /\ SF_vars(~killed /\ DoPendingFunctors)
  /\ WF_vars(~killed /\ RemoveConnectionInLoop)
  /\ WF_vars(~killed /\ (SetDisconnecting \/ QueueFunctor))
  /\ SF_vars(~killed /\ (Readable \/ HungUp) /\ \E w \in BOOLEAN : HandleEvent(w))
  /\ SF_vars(~killed /\ HandleEvent(TRUE))

-----------------------------------------------------------------------------
(* Nothing that sendInLoop took on is lost, duplicated or reordered between *)
(* the direct write() and the buffer, whichever of the two a message takes. *)
InOrder == wire \o output = stream

(* The channel waits for room to write exactly while there is something to  *)
(* write: it neither spins on EPOLLOUT nor forgets a buffer.  On a closed   *)
(* connection nobody cares any more.                                        *)
WritingIffBuffered ==
  downs = 0 => ("out" \in events <=> output # <<>>)

(* The write half is never shut down over data the buffer holds, as long   *)
(* as the connection is not closed.                                         *)
ShutdownFlushes ==
  [][~shutWr /\ shutWr' /\ downs = 0 => output' = <<>>]_vars

(* The connection keeps the promise TcpServer relies on and gives its user: *)
(* it comes up, goes down after that, and is forgotten last, whatever other *)
(* threads and late sends do in between.                                    *)
Phase == IF downs > 0 THEN "down" ELSE IF ups > 0 THEN "up" ELSE "made"
Life == INSTANCE ConnectionLife WITH
          Conn <- {"this"}, phase <- [c \in {"this"} |-> Phase],
          kept <- IF inMap THEN {"this"} ELSE {}, serving <- TRUE
ImplementsLife == Life!Spec

(* The user is told once that a connection is down -- except when a send    *)
(* from another thread arrives after that and brings the channel back.      *)
DownOnce == downs > 1 => reopened

(* What is buffered is written, as long as the peer reads, or the user is   *)
(* told that the connection is down.                                        *)
EventuallyFlushed == (output # <<>>) ~> (output = <<>> \/ downs > 0 \/ killed)

(* A shutdown is carried out in the end, or the connection is closed.       *)
EventuallyShutdown == (state = "disconnecting") ~> (shutWr \/ downs > 0 \/ killed)

(* When the peer closes or resets, the user is told in the end.             *)
EventuallyDown == (peer # "open" /\ ups > 0) ~> (downs > 0 \/ killed)

(* sendInLoop gives a message up with the words "disconnected, give up      *)
(* writing!": it does so when the connection is disconnected, for then the  *)
(* message reaches neither write() nor the buffer; and it does not when a   *)
(* shutdown() is still to come that another thread called after this send,  *)
(* unless the socket is broken.                                             *)
GivesUpIffDisconnected ==
  [][(\E m \in Msg : RunSend(m))
     => /\ state = "disconnected" => UNCHANGED <<events, output, wire, killed>>
        /\ state = "disconnecting" /\ ~Broken => stream' # stream]_vars

(* send() forwards sendInLoop to the I/O thread to be carried out there: it *)
(* finds the connection it is for.                                          *)
FunctorsFindConnection ==
  ran < Len(batch) /\ NextFunctor \in Raw => Owned
=============================================================================
