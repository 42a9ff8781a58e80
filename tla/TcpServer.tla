------------------------------ MODULE TcpServer ------------------------------
(****************************************************************************)
(* A TcpServer (TcpServer.cc) with its Acceptor (Acceptor.cc), all of its   *)
(* connections, the base loop and the loops of its pool.                    *)
(*                                                                          *)
(* connections_ belongs to the base loop's thread, everything else about a  *)
(* connection to the thread of the loop it was dealt.  Making a connection  *)
(* takes a functor from the one to the other, closing one takes a functor   *)
(* each way, and who holds a shared_ptr in the meantime decides how long    *)
(* the connection lives.  With no threads in the pool all of this is nested *)
(* calls on one thread, in the middle of which user code may destroy the    *)
(* server.                                                                  *)
(*                                                                          *)
(* A connection is here what the server can tell of it: whether state_ is   *)
(* kConnected, whether its channel is on, and its callbacks; what happens   *)
(* to its data is in module TcpConnection.  The loops are those of module   *)
(* EventLoop.                                                               *)
(****************************************************************************)
EXTENDS Integers, Sequences, FiniteSets, SequencesExt

CONSTANTS MaxConn,      \* BOUND: clients that ever connect
          MaxThreads    \* BOUND: threads in the pool

ASSUME ServerAssumption == MaxConn \in Nat \ {0} /\ MaxThreads \in Nat

Conn == 1..MaxConn      \* in the order in which they are accepted
NoConn == 0
Listener == 0           \* the Acceptor's channel, among those a loop reports
Base == 0
Loop == Base..MaxThreads

VARIABLES
  server,       \* "constructed", "listening", "gone"
  numThreads,   \* what setThreadNum set
  maxOpen,      \* how many connections the limit of descriptors leaves room for
  nextConnId,   \* nextConnId_
  name,         \* name_ of each connection, as far as it tells connections apart
  connections,  \* connections_, by name
  connected,    \* connections whose state_ is kConnected
  registered,   \* connections whose channel is in the epoll set of its loop
  pending,      \* pendingFunctors_ of each loop
  batch, ran,   \* the functors each loop is calling, how many of them it has called
  active,       \* activeChannels_ of each loop, not yet handled
  todo,         \* what each loop's thread has still to do in the handler it is in
  holds,        \* connections of which user code keeps a TcpConnectionPtr
  arrived,      \* how many clients have connected
  accepted,     \* how many of them were accepted
  hungUp,       \* connections that the client closed
  ups, downs    \* history: calls of connectionCallback_ for up and for down

conns == <<name, connected, registered, ups, downs>>
loops == <<pending, batch, ran, active, todo>>
clients == <<arrived, accepted, hungUp>>
vars == <<server, numThreads, maxOpen, nextConnId, connections, conns, loops, holds, clients>>

Functor == {"established", "destroyed", "remove"} \X Conn
Frame == {"user", "close", "destroy", "acceptor"} \X Conn

TypeOK ==
  /\ server \in {"constructed", "listening", "gone"}
  /\ numThreads \in 0..MaxThreads
  /\ maxOpen \in Conn
  /\ nextConnId \in 1..MaxConn + 1
  /\ name \in [Conn -> Conn \union {NoConn}]
  /\ connections \in [Conn -> Conn \union {NoConn}]
  /\ connected \subseteq Conn /\ registered \subseteq Conn
  /\ pending \in [Loop -> Seq(Functor)] /\ batch \in [Loop -> Seq(Functor)]
  /\ ran \in [Loop -> Nat] /\ \A l \in Loop : ran[l] <= Len(batch[l])
  /\ active \in [Loop -> SUBSET (Conn \union {Listener})]
  /\ todo \in [Loop -> Seq(Frame)]
  /\ holds \subseteq Conn
  /\ arrived \in 0..MaxConn /\ accepted \in 0..arrived
  /\ hungUp \subseteq Conn
  /\ ups \in [Conn -> Nat] /\ downs \in [Conn -> Nat]

Init ==
  /\ server = "constructed"
  /\ numThreads \in 0..MaxThreads
  /\ maxOpen \in Conn
  /\ nextConnId = 1
  /\ name = [c \in Conn |-> NoConn]
  /\ connections = [n \in Conn |-> NoConn]
  /\ connected = {} /\ registered = {}
  /\ pending = [l \in Loop |-> <<>>] /\ batch = [l \in Loop |-> <<>>]
  /\ ran = [l \in Loop |-> 0]
  /\ active = [l \in Loop |-> {}]
  /\ todo = [l \in Loop |-> <<>>]
  /\ holds = {}
  /\ arrived = 0 /\ accepted = 0 /\ hungUp = {}
  /\ ups = [c \in Conn |-> 0] /\ downs = [c \in Conn |-> 0]

-----------------------------------------------------------------------------
\* getNextLoop: in turn, or the base loop if there are no others.
LoopOf(c) == IF numThreads = 0 THEN Base ELSE ((c - 1) % numThreads) + 1

Kept == {connections[n] : n \in Conn} \ {NoConn}

\* The connections of which a shared_ptr is in a queue, or on a thread's stack.
InTransit ==
  UNION {{s[i][2] : i \in 1..Len(s)} :
           s \in UNION {{pending[l], batch[l], todo[l]} : l \in Loop}}

\* The connections that exist; each has a descriptor.
Owned == Kept \union holds \union InTransit

AtLimit == Cardinality(Owned) >= maxOpen

Does(l, frame) == todo[l] # <<>> /\ Head(todo[l]) = frame

\* Loop l's thread is outside of the handlers, where its user may have it do something.
Idle(l) == todo[l] = <<>> /\ batch[l] = <<>> /\ active[l] = {}

\* Loop l's thread goes on with frames instead of the one it is at.
Becomes(l, frames) == todo' = [todo EXCEPT ![l] = frames \o Tail(@)]

\* MUTANT: the functor goes to the server's loop_ instead of the connection's.
QueuedOnBase(q, l, functor) == [q EXCEPT ![Base] = Append(@, functor)]

\* queueInLoop; q is what is pending already.
Queued(q, l, functor) == [q EXCEPT ![l] = Append(@, functor)]

-----------------------------------------------------------------------------
(* What happens to a connection on its loop's thread.                       *)

\* MUTANT: connectEstablished does not call connectionCallback_.
RaiseUntold(c) ==
  /\ connected' = connected \union {c}
  /\ registered' = registered \union {c}
  /\ UNCHANGED <<ups, downs>>

Raise(c) ==
  /\ connected' = connected \union {c}
  /\ registered' = registered \union {c}
  /\ ups' = [ups EXCEPT ![c] = @ + 1]
  /\ UNCHANGED downs

(* disableAll.  updateChannel adds to the epoll set whatever is not in it,  *)
(* also a channel that wants no events; that is a connection ~TcpServer     *)
(* took leave of, whose thread does not get back to epoll_wait (SaidAgain). *)
DisableAll(c) ==
  registered' = IF c \in registered THEN registered \ {c} ELSE registered \union {c}

Lower(c) ==
  /\ connected' = connected \ {c}
  /\ DisableAll(c)
  /\ downs' = [downs EXCEPT ![c] = @ + 1]
  /\ UNCHANGED ups

\* MUTANT: connectDestroyed does not look at state_.
AlwaysToldDown(c) == TRUE

\* Does connectDestroyed tell the user that c is down?
ToldDown(c) == c \in connected

\* connectDestroyed up to connectionCallback_; the frames that stand for it.
ConnectDestroyed(c) ==
  IF ToldDown(c) THEN Lower(c) ELSE UNCHANGED <<connected, registered, ups, downs>>
DestroyedFrames(c) == IF ToldDown(c) THEN << <<"user", c>> >> ELSE <<>>

\* MUTANT: tells the connection's loop but keeps the connection.
RemoveInLoopKeeps(c) ==
  /\ pending' = Queued(pending, LoopOf(c), <<"destroyed", c>>)
  /\ UNCHANGED connections

RemoveConnectionInLoop(c) ==
  /\ connections' = [connections EXCEPT ![name[c]] = NoConn]
  /\ pending' = Queued(pending, LoopOf(c), <<"destroyed", c>>)

-----------------------------------------------------------------------------
(* The base loop: start(), the Acceptor, ~TcpServer.                        *)

\* start, on the base loop's thread: the pool's threads, then listen().
Start ==
  /\ server = "constructed"
  /\ server' = "listening"
  /\ UNCHANGED <<numThreads, maxOpen, nextConnId, connections, conns, loops, holds, clients>>

Reports(l, ch) == todo[l] = <<>> /\ ch \in active[l]
Handled(l, ch) == active' = [active EXCEPT ![l] = @ \ {ch}]

\* MUTANT: does not count nextConnId_.
IdStays == nextConnId

\* MUTANT: counts it twice.
IdTwice == nextConnId + 2

IdAfter == nextConnId + 1

\* Acceptor::handleRead and TcpServer::newConnection.
NewConnection ==
  LET c == accepted + 1
      io == LoopOf(c)
  IN  /\ server = "listening"
      /\ Reports(Base, Listener) /\ Handled(Base, Listener)
      /\ accepted < arrived /\ ~AtLimit
      /\ accepted' = c
      /\ nextConnId' = IdAfter
      /\ name' = [name EXCEPT ![c] = nextConnId]
      /\ connections' = [connections EXCEPT ![nextConnId] = c]
      /\ \/ /\ io = Base
            /\ Raise(c)
            /\ todo' = [todo EXCEPT ![Base] = << <<"user", c>>, <<"acceptor", c>> >>]
            /\ UNCHANGED pending
         \/ /\ io # Base
            /\ pending' = Queued(pending, io, <<"established", c>>)
            /\ UNCHANGED <<connected, registered, ups, downs, todo>>
      /\ UNCHANGED <<server, numThreads, maxOpen, batch, ran, holds, arrived, hungUp>>

(* handleEventWithGuard of the Acceptor's channel goes on, if user code did *)
(* not destroy the channel with the server; nothing ties it.                *)
AcceptorReturns(c) ==
  /\ Does(Base, <<"acceptor", c>>)
  /\ server # "gone"
  /\ Becomes(Base, <<>>)
  /\ UNCHANGED <<server, numThreads, maxOpen, nextConnId, connections, conns, pending, batch, ran,
                 active, holds, clients>>

\* accept fails with EMFILE; the client stays in the backlog.
AcceptFails ==
  /\ server = "listening"
  /\ Reports(Base, Listener) /\ Handled(Base, Listener)
  /\ AtLimit
  /\ UNCHANGED <<server, numThreads, maxOpen, nextConnId, connections, conns, pending, batch,
                 ran, todo, holds, clients>>

\* MUTANT: lets the connections go without connectDestroyed.
DestroyFramesNone == {<<>>}

\* The connections ~TcpServer takes leave of, in the order of an unordered_map.
DestroyFrames ==
  {[i \in DOMAIN s |-> <<"destroy", s[i]>>] : s \in SetToSeqs(Kept)}

(* ~TcpServer on the base loop's thread, in a callback of one of the        *)
(* connections or outside of them.  Only without threads in the pool: with  *)
(* them it ends in std::terminate, which module EventLoopThreadPool shows.  *)
DestroyServer ==
  /\ server = "listening" /\ numThreads = 0
  /\ \/ Idle(Base)
     \/ \E c \in Conn : Does(Base, <<"user", c>>)
  /\ server' = "gone"
  /\ connections' = [n \in Conn |-> NoConn]
  /\ \E frames \in DestroyFrames : todo' = [todo EXCEPT ![Base] = frames \o @]
  /\ UNCHANGED <<numThreads, maxOpen, nextConnId, conns, pending, batch, ran, active, holds,
                 clients>>

\* One round of its loop: runInLoop calls connectDestroyed on the spot.
DestroyConnection(c) ==
  /\ Does(Base, <<"destroy", c>>)
  /\ ConnectDestroyed(c)
  /\ Becomes(Base, DestroyedFrames(c))
  /\ UNCHANGED <<server, numThreads, maxOpen, nextConnId, connections, name, pending, batch, ran,
                 active, holds, clients>>

-----------------------------------------------------------------------------
(* Any loop.                                                                *)

\* What epoll has to report, level triggered.
MustReport(l) ==
  {c \in registered \intersect hungUp \intersect Owned : LoopOf(c) = l}
  \union (IF l = Base /\ server = "listening" /\ accepted < arrived THEN {Listener} ELSE {})

\* What it also reports when there is a message.
MayReport(l) == {c \in registered \intersect Owned : LoopOf(c) = l}

Poll(l) ==
  /\ Idle(l)
  /\ \E messages \in SUBSET MayReport(l) :
       /\ messages \union MustReport(l) # {}
       /\ active' = [active EXCEPT ![l] = messages \union MustReport(l)]
  /\ UNCHANGED <<server, numThreads, maxOpen, nextConnId, connections, conns, pending, batch, ran,
                 todo, holds, clients>>

(* handleEvent of a connection: messageCallback_, or handleClose up to      *)
(* connectionCallback_, which does not ask whether the user was told of a   *)
(* down already: ~TcpServer may have done so since the event was reported.  *)
(* An event for a connection that is no longer there is not followed.       *)
HandleEvent(l, c) ==
  /\ Reports(l, c) /\ Handled(l, c)
  /\ c \in Owned
  /\ \/ /\ c \notin hungUp
        /\ todo' = [todo EXCEPT ![l] = << <<"user", c>> >>]
        /\ UNCHANGED <<connected, registered, ups, downs>>
     \/ /\ c \in hungUp
        /\ Lower(c)
        /\ todo' = [todo EXCEPT ![l] = << <<"user", c>>, <<"close", c>> >>]
  /\ UNCHANGED <<server, numThreads, maxOpen, nextConnId, connections, name, pending, batch, ran,
                 holds, clients>>

\* MUTANT: queueInLoop where the code says runInLoop.
RemoveConnectionLater(l, c) ==
  /\ Does(l, <<"close", c>>)
  /\ server # "gone"
  /\ Becomes(l, <<>>)
  /\ pending' = Queued(pending, Base, <<"remove", c>>)
  /\ UNCHANGED <<server, numThreads, maxOpen, nextConnId, connections, conns, batch, ran, active,
                 holds, clients>>

\* closeCallback_, which is TcpServer::removeConnection; it uses the server.
RemoveConnection(l, c) ==
  /\ Does(l, <<"close", c>>)
  /\ server # "gone"
  /\ Becomes(l, <<>>)
  /\ \/ l = Base /\ RemoveConnectionInLoop(c)
     \/ l # Base /\ pending' = Queued(pending, Base, <<"remove", c>>) /\ UNCHANGED connections
  /\ UNCHANGED <<server, numThreads, maxOpen, nextConnId, conns, batch, ran, active, holds,
                 clients>>

DoPendingFunctors(l) ==
  /\ Idle(l)
  /\ pending[l] # <<>>
  /\ batch' = [batch EXCEPT ![l] = pending[l]]
  /\ pending' = [pending EXCEPT ![l] = <<>>]
  /\ UNCHANGED <<server, numThreads, maxOpen, nextConnId, connections, conns, ran, active, todo,
                 holds, clients>>

Runs(l, functor) ==
  /\ todo[l] = <<>> /\ ran[l] < Len(batch[l]) /\ batch[l][ran[l] + 1] = functor
  /\ ran' = [ran EXCEPT ![l] = @ + 1]
  /\ UNCHANGED <<server, numThreads, maxOpen, nextConnId, name, batch, active, holds, clients>>

RunEstablished(l, c) ==
  /\ Runs(l, <<"established", c>>)
  /\ Raise(c)
  /\ todo' = [todo EXCEPT ![l] = << <<"user", c>> >>]
  /\ UNCHANGED <<connections, pending>>

RunDestroyed(l, c) ==
  /\ Runs(l, <<"destroyed", c>>)
  /\ ConnectDestroyed(c)
  /\ todo' = [todo EXCEPT ![l] = DestroyedFrames(c)]
  /\ UNCHANGED <<connections, pending>>

RunRemove(l, c) ==
  /\ Runs(l, <<"remove", c>>)
  /\ server # "gone"
  /\ RemoveConnectionInLoop(c)
  /\ UNCHANGED <<connected, registered, ups, downs, todo>>

\* The functors are destroyed, and their shared_ptrs with them.
BatchDone(l) ==
  /\ todo[l] = <<>> /\ batch[l] # <<>> /\ ran[l] = Len(batch[l])
  /\ batch' = [batch EXCEPT ![l] = <<>>]
  /\ ran' = [ran EXCEPT ![l] = 0]
  /\ UNCHANGED <<server, numThreads, maxOpen, nextConnId, connections, conns, pending, active,
                 todo, holds, clients>>

-----------------------------------------------------------------------------
(* User code.                                                               *)

CallbackReturns(l, c) ==
  /\ Does(l, <<"user", c>>)
  /\ Becomes(l, <<>>)
  /\ UNCHANGED <<server, numThreads, maxOpen, nextConnId, connections, conns, pending, batch, ran,
                 active, holds, clients>>

KeepPointer(l, c) ==
  /\ Does(l, <<"user", c>>)
  /\ holds' = holds \union {c}
  /\ UNCHANGED <<server, numThreads, maxOpen, nextConnId, connections, conns, loops, clients>>

DropPointer(c) ==
  /\ c \in holds
  /\ holds' = holds \ {c}
  /\ UNCHANGED <<server, numThreads, maxOpen, nextConnId, connections, conns, loops, clients>>

\* shutdown() on any thread: state_ is kDisconnecting or kDisconnected after it.
Shutdown(c) ==
  /\ c \in connected
  /\ c \in holds \/ \E l \in Loop : Does(l, <<"user", c>>)
  /\ connected' = connected \ {c}
  /\ UNCHANGED <<server, numThreads, maxOpen, nextConnId, connections, name, registered, ups,
                 downs, loops, holds, clients>>

-----------------------------------------------------------------------------
(* The clients.                                                             *)

ClientConnects ==
  /\ server = "listening" /\ arrived < MaxConn
  /\ arrived' = arrived + 1
  /\ UNCHANGED <<server, numThreads, maxOpen, nextConnId, connections, conns, loops, holds,
                 accepted, hungUp>>

ClientCloses(c) ==
  /\ c <= arrived /\ c \notin hungUp
  /\ hungUp' = hungUp \union {c}
  /\ UNCHANGED <<server, numThreads, maxOpen, nextConnId, connections, conns, loops, holds,
                 arrived, accepted>>

-----------------------------------------------------------------------------
\* What the thread of loop l does in the handler or the batch it is in.
Works(l) ==
  \/ l = Base /\ (NewConnection \/ AcceptFails)
  \/ \E c \in Conn : \/ HandleEvent(l, c) \/ RemoveConnection(l, c)
                     \/ RunEstablished(l, c) \/ RunDestroyed(l, c) \/ RunRemove(l, c)
                     \/ CallbackReturns(l, c)
                     \/ l = Base /\ (DestroyConnection(c) \/ AcceptorReturns(c))
  \/ BatchDone(l)

Next ==
  \/ \E l \in Loop : Works(l) \/ Poll(l) \/ DoPendingFunctors(l)
  \/ \E c \in Conn : \/ \E l \in Loop : KeepPointer(l, c)
                     \/ DropPointer(c) \/ Shutdown(c) \/ ClientCloses(c)
  \/ Start \/ DestroyServer \/ ClientConnects

Spec == Init /\ [][Next]_vars

(* The threads are scheduled and callbacks return; poll and                 *)
(* doPendingFunctors alternate, so neither keeps the other waiting.         *)
FairSpec ==
  /\ Spec
  /\ \A l \in Loop : /\ WF_vars(Works(l))
                     /\ SF_vars(MustReport(l) # {} /\ Poll(l))
                     /\ SF_vars(DoPendingFunctors(l))

-----------------------------------------------------------------------------
(* The server keeps its promise to the user of every connection, whatever   *)
(* thread each half of making and closing it runs on.                       *)
Phase == [c \in Conn |-> IF downs[c] > 0 THEN "down"
                         ELSE IF ups[c] > 0 THEN "up"
                         ELSE IF c <= accepted THEN "made" ELSE "idle"]
Life == INSTANCE ConnectionLife WITH phase <- Phase, kept <- Kept, serving <- server # "gone"
ImplementsLife == Life!Spec

(* The close of an event that was reported before ~TcpServer told the user  *)
(* of a down, and handled after it: handleClose has said down again and is  *)
(* about to call closeCallback_ of the destroyed server.                    *)
SaidAgain(c) ==
  server = "gone" /\ downs[c] = ups[c] + 1 /\ <<"close", c>> \in ToSet(todo[Base])

(* connectionCallback_ says up once and down once, although handleClose and *)
(* connectDestroyed both say down, on either side of the removal.  Only a   *)
(* server destroyed in a callback, between the report and the handling of   *)
(* another connection's end, has the user told twice.                       *)
ToldOnce ==
  \A c \in Conn : ups[c] <= 1 /\ (downs[c] <= ups[c] \/ SaidAgain(c))

(* A connection is destroyed only after the user was told it is down and    *)
(* its channel was taken off the loop -- except by ~TcpServer, which says   *)
(* nothing of one that was shut down on this side and not yet on the other. *)
DestroyedAfterDown ==
  \A c \in 1..accepted :
    c \notin Owned => \/ downs[c] > 0 /\ c \notin registered
                      \/ server = "gone" /\ c \notin connected

(* One loop per thread, and what that is for: only the base loop's thread   *)
(* touches connections_ and nextConnId_, which nothing locks; a connection  *)
(* is brought up, taken down and put in or out of epoll by the thread of    *)
(* the loop it was dealt, and its callbacks run there and nowhere else.     *)
Stack(l) == <<batch[l], ran[l], active[l], todo[l]>>
OneLoopPerThread ==
  [][\A l \in Loop : Stack(l)' # Stack(l) =>
       /\ l # Base => UNCHANGED <<server, connections, nextConnId, name>>
       /\ \A c \in Conn : LoopOf(c) # l =>
            /\ ups'[c] = ups[c] /\ downs'[c] = downs[c]
            /\ c \in registered' <=> c \in registered
            /\ ~Does(l, <<"user", c>>)']_vars

(* A functor of removeConnection binds the server itself: none is left to   *)
(* run when the server is gone, since on the base loop it is called at once *)
(* and a server with other loops does not get to the end of ~TcpServer.     *)
RemovalsFindServer ==
  server = "gone" =>
    \A l \in Loop, c \in Conn : <<"remove", c>> \notin ToSet(pending[l]) \union ToSet(batch[l])

(* A client that connects is served, unless descriptors run out, which they *)
(* also do when it takes the last one itself.                               *)
EventuallyServed ==
  \A c \in Conn : c <= arrived ~> ups[c] > 0 \/ server = "gone" \/ AtLimit

(* The connection of a client that is gone is destroyed and its descriptor  *)
(* free again, unless user code keeps it.                                   *)
EventuallyReleased ==
  \A c \in Conn : c \in hungUp /\ ups[c] > 0
                    ~> c \notin Owned \/ c \in holds \/ server = "gone"

(* tie_ is there so that no event is handled for a TcpConnection that is    *)
(* destroyed: one that was reported and is still to be handled exists.      *)
ReportedExist == \A l \in Loop : active[l] \ {Listener} \subseteq Owned
=============================================================================
