----------------------------- MODULE EpollPoller -----------------------------
(****************************************************************************)
(* The EpollPoller of one loop (EpollPoller.cc) and the Channels on it      *)
(* (Channel.cc), over the kernel's epoll set, on the loop's thread.         *)
(*                                                                          *)
(* Three records of the same thing have to agree: events_ and index_ in the *)
(* channel, channels_ in the poller, and what the kernel watches.  They are *)
(* changed one by one, a failed epoll_ctl is only logged, the kernel        *)
(* forgets a descriptor by itself when it is closed, and the descriptor     *)
(* comes back with another channel.                                         *)
(*                                                                          *)
(* Channels come with two sorts of owners.  Those that remove their channel *)
(* from the poller in their destructor: the Acceptor, and the EventLoop     *)
(* with its wakeupChannel_.  And TcpConnection, which never does: its       *)
(* pointer stays in channels_, and if the connection was half-closed when   *)
(* its server went away the channel even goes with its events on.           *)
(****************************************************************************)
EXTENDS Integers, FiniteSets

CONSTANTS ConnChannel,        \* BOUND: the channels of connections; each lives once
          KeptChannel,        \* BOUND: those of an Acceptor or a loop
          Fd,                 \* BOUND: descriptors
          NoFd, NoChannel,
          InitEventListSize   \* kInitEventListSize

Channel == ConnChannel \union KeptChannel

ASSUME PollerAssumption ==
          /\ ConnChannel \intersect KeptChannel = {}
          /\ NoFd \notin Fd /\ IsFiniteSet(Fd)
          /\ NoChannel \notin Channel
          /\ InitEventListSize \in Nat \ {0}

Event == {"in", "out"}      \* kReadEvent, kWriteEvent
Always == {"hup"}           \* EPOLLHUP and EPOLLERR

VARIABLES
  life,       \* of each Channel object: "none", "alive", "destructor", "dead"
  fd,         \* fd_
  events,     \* events_
  index,      \* index_
  channels,   \* channels_, NoChannel where it has no entry
  size,       \* events_.size() of the poller
  active,     \* activeChannels_ of this iteration with their revents_, not yet handled
  kernel,     \* the epoll set: entries of a descriptor, the pointer and the events
  ready       \* the descriptors on which something it can report is the case

channel == <<life, fd, events, index>>
vars == <<channel, channels, size, active, kernel, ready>>

Entry == [fd : Fd, channel : Channel, events : SUBSET Event]
Report == [channel : Channel, revents : SUBSET (Event \union Always)]

TypeOK ==
  /\ life \in [Channel -> {"none", "alive", "destructor", "dead"}]
  /\ fd \in [Channel -> Fd \union {NoFd}]
  /\ events \in [Channel -> SUBSET Event]
  /\ index \in [Channel -> {"kNew", "kAdded", "kDeleted"}]
  /\ channels \in [Fd -> Channel \union {NoChannel}]
  /\ size \in Nat \ {0}
  /\ active \subseteq Report
  /\ kernel \subseteq Entry
  /\ ready \subseteq Fd

Init ==
  /\ life = [ch \in Channel |-> "none"]
  /\ fd = [ch \in Channel |-> NoFd]
  /\ events = [ch \in Channel |-> {}]
  /\ index = [ch \in Channel |-> "kNew"]
  /\ channels = [f \in Fd |-> NoChannel]
  /\ size = InitEventListSize
  /\ active = {}
  /\ kernel = {}
  /\ ready = {}

Exists(ch) == life[ch] \in {"alive", "destructor"}
Open(f) == \E ch \in Channel : Exists(ch) /\ fd[ch] = f

-----------------------------------------------------------------------------
(* epoll_ctl: what the set is after it; where it fails it leaves the set.   *)

EntriesOf(f) == {e \in kernel : e.fd = f}
Registration(ch, wanted) == [fd |-> fd[ch], channel |-> ch, events |-> wanted]

Added(ch, wanted) ==
  IF EntriesOf(fd[ch]) = {} THEN kernel \union {Registration(ch, wanted)} ELSE kernel

Modified(ch, wanted) ==
  IF EntriesOf(fd[ch]) # {}
  THEN (kernel \ EntriesOf(fd[ch])) \union {Registration(ch, wanted)} ELSE kernel

Dropped(ch) == kernel \ EntriesOf(fd[ch])

-----------------------------------------------------------------------------
(* EpollPoller::updateChannel and removeChannel.                            *)

\* MUTANT: leaves kDeleted as it is after the descriptor was put back.
AddChannelUnmarked(ch, wanted) ==
  /\ index[ch] \in {"kNew", "kDeleted"}
  /\ channels' = IF index[ch] = "kNew" THEN [channels EXCEPT ![fd[ch]] = ch] ELSE channels
  /\ index' = IF index[ch] = "kNew" THEN [index EXCEPT ![ch] = "kAdded"] ELSE index
  /\ kernel' = Added(ch, wanted)

\* MUTANT: enters only channels that come back into channels_.
AddChannelUnlisted(ch, wanted) ==
  /\ index[ch] \in {"kNew", "kDeleted"}
  /\ channels' = IF index[ch] = "kDeleted" THEN [channels EXCEPT ![fd[ch]] = ch] ELSE channels
  /\ index' = [index EXCEPT ![ch] = "kAdded"]
  /\ kernel' = Added(ch, wanted)

AddChannel(ch, wanted) ==
  /\ index[ch] \in {"kNew", "kDeleted"}
  /\ channels' = IF index[ch] = "kNew" THEN [channels EXCEPT ![fd[ch]] = ch] ELSE channels
  /\ index' = [index EXCEPT ![ch] = "kAdded"]
  /\ kernel' = Added(ch, wanted)

\* MUTANT: notes that the channel is deleted and leaves it in the kernel.
DeleteChannelKeeps(ch) ==
  /\ index[ch] = "kAdded"
  /\ index' = [index EXCEPT ![ch] = "kDeleted"]
  /\ UNCHANGED <<channels, kernel>>

DeleteChannel(ch) ==
  /\ index[ch] = "kAdded"
  /\ index' = [index EXCEPT ![ch] = "kDeleted"]
  /\ kernel' = Dropped(ch)
  /\ UNCHANGED channels

ModifyChannel(ch, wanted) ==
  /\ index[ch] = "kAdded"
  /\ kernel' = Modified(ch, wanted)
  /\ UNCHANGED <<channels, index>>

\* Channel::update after events_ was set to wanted.
UpdateChannel(ch, wanted) ==
  /\ events' = [events EXCEPT ![ch] = wanted]
  /\ \/ AddChannel(ch, wanted)
     \/ wanted = {} /\ DeleteChannel(ch)
     \/ wanted # {} /\ ModifyChannel(ch, wanted)

RemoveChannel(ch) ==
  /\ channels' = [channels EXCEPT ![fd[ch]] = NoChannel]
  /\ kernel' = IF index[ch] = "kAdded" THEN Dropped(ch) ELSE kernel
  /\ index' = [index EXCEPT ![ch] = "kNew"]

HasChannel(ch) == channels[fd[ch]] = ch

-----------------------------------------------------------------------------
(* The channels' owners, on the loop's thread.  A destructor is two steps   *)
(* here, and nothing else happens on the thread in between.                 *)

OutsideDestructor == \A ch \in Channel : life[ch] # "destructor"

\* MUTANT: leaves fd_ as it was.
ConstructUnset(ch, f) ==
  /\ OutsideDestructor
  /\ life[ch] = "none" /\ ~Open(f)
  /\ life' = [life EXCEPT ![ch] = "alive"]
  /\ ready' = ready \ {f}
  /\ UNCHANGED <<fd, events, index, channels, size, active, kernel>>

\* Acceptor, EventLoop and TcpConnection construct a channel on a new descriptor.
Construct(ch, f) ==
  /\ OutsideDestructor
  /\ life[ch] = "none" /\ ~Open(f)
  /\ life' = [life EXCEPT ![ch] = "alive"]
  /\ fd' = [fd EXCEPT ![ch] = f]
  /\ ready' = ready \ {f}
  /\ UNCHANGED <<events, index, channels, size, active, kernel>>

Alive(ch) == OutsideDestructor /\ life[ch] = "alive"
Rest == <<life, fd, size, active, ready>>

EnableReading(ch) ==
  /\ Alive(ch)
  /\ UpdateChannel(ch, events[ch] \union {"in"})
  /\ UNCHANGED Rest

\* sendInLoop, which asks isWriting() first.
EnableWriting(ch) ==
  /\ Alive(ch) /\ ch \in ConnChannel
  /\ "out" \notin events[ch]
  /\ UpdateChannel(ch, events[ch] \union {"out"})
  /\ UNCHANGED Rest

\* handleWrite, which asks isWriting() first.
DisableWriting(ch) ==
  /\ Alive(ch)
  /\ "out" \in events[ch]
  /\ UpdateChannel(ch, events[ch] \ {"out"})
  /\ UNCHANGED Rest

\* handleClose and connectDestroyed, of a channel that has not been disabled.
DisableAll(ch) ==
  /\ Alive(ch) /\ ch \in ConnChannel
  /\ events[ch] # {}
  /\ UpdateChannel(ch, {})
  /\ UNCHANGED Rest

\* The descriptor of ch is closed; the kernel drops it from every epoll set.
CloseFd(ch) ==
  /\ life' = [life EXCEPT ![ch] = "dead"]
  /\ ready' = ready \ {fd[ch]}

Reported(ch) == \E r \in active : r.channel = ch

(* ~TcpConnection, whatever the state of its channel.  What is not allowed  *)
(* is a connection destroyed by the callback of another channel that was    *)
(* reported before it: module TcpServer shows what can do that.             *)
DestroyConnection(ch) ==
  /\ Alive(ch) /\ ch \in ConnChannel
  /\ ~Reported(ch)
  /\ CloseFd(ch)
  /\ kernel' = Dropped(ch)
  /\ UNCHANGED <<fd, events, index, channels, size, active>>

\* The first call of ~Acceptor and ~EventLoop: also of an Acceptor that never listened.
BeginDestructor(ch) ==
  /\ Alive(ch) /\ ch \in KeptChannel
  /\ ~Reported(ch)
  /\ life' = [life EXCEPT ![ch] = "destructor"]
  /\ UpdateChannel(ch, {})
  /\ UNCHANGED <<fd, size, active, ready>>

\* The second one, and the close that follows.
EndDestructor(ch) ==
  /\ life[ch] = "destructor"
  /\ RemoveChannel(ch)
  /\ CloseFd(ch)
  /\ UNCHANGED <<fd, events, size, active>>

-----------------------------------------------------------------------------
(* The loop.                                                                *)

\* MUTANT: never makes room for more events.
SizeStays(n) == size

\* The size of the event list after epoll_wait filled in n.
SizeAfter(n) == IF n = size THEN 2 * size ELSE size

ReadyEntries == {e \in kernel : e.fd \in ready}

\* poll: what is ready, in any order; if there is no room for all, as many as there is for.
Poll ==
  /\ OutsideDestructor /\ active = {}
  /\ \E some \in (SUBSET ReadyEntries) \ {{}} :
     \E revents \in [some -> (SUBSET (Event \union Always)) \ {{}}] :
       /\ some = ReadyEntries \/ Cardinality(some) = size
       /\ Cardinality(some) <= size
       /\ \A e \in some : revents[e] \subseteq e.events \union Always
       /\ active' = {[channel |-> e.channel, revents |-> revents[e]] : e \in some}
       /\ size' = SizeAfter(Cardinality(some))
  /\ UNCHANGED <<channel, channels, kernel, ready>>

\* handleEvent; what its callbacks do is the owners' actions.
HandleEvent(r) ==
  /\ OutsideDestructor
  /\ r \in active
  /\ active' = active \ {r}
  /\ UNCHANGED <<channel, channels, size, kernel, ready>>

\* The environment: something happens on a descriptor, or is over.
FdChanges(f) ==
  /\ Open(f)
  /\ ready' \in {ready \union {f}, ready \ {f}}
  /\ UNCHANGED <<channel, channels, size, active, kernel>>

-----------------------------------------------------------------------------
Next ==
  \/ \E ch \in Channel :
       \/ \E f \in Fd : Construct(ch, f)
       \/ EnableReading(ch) \/ EnableWriting(ch) \/ DisableWriting(ch) \/ DisableAll(ch)
       \/ DestroyConnection(ch) \/ BeginDestructor(ch) \/ EndDestructor(ch)
  \/ Poll
  \/ \E r \in active : HandleEvent(r)
  \/ \E f \in Fd : FdChanges(f)

Spec == Init /\ [][Next]_vars

\* The loop polls again once the active channels are handled, and handles each.
FairSpec ==
  /\ Spec
  /\ WF_vars(Poll)
  /\ WF_vars(\E r \in active : HandleEvent(r))
  /\ WF_vars(\E ch \in Channel : EndDestructor(ch))

-----------------------------------------------------------------------------
(* index_ and events_ say of every channel what the kernel has, and it has  *)
(* nothing else: no epoll_ctl fails and no event comes with the pointer of  *)
(* a channel that is gone, however often the descriptor was used before.    *)
KernelAgrees ==
  kernel = {Registration(ch, events[ch]) :
              ch \in {c \in Channel : Exists(c) /\ index[c] = "kAdded"}}

(* hasChannel() tells the truth about every channel that exists, although   *)
(* those of destroyed connections stay in channels_.                        *)
MapAgrees ==
  \A ch \in Channel : Exists(ch) => (HasChannel(ch) <=> index[ch] # "kNew")

(* The list of events never gets longer than twice the descriptors there    *)
(* can be, however often the loop polls and descriptors are used again:     *)
(* epoll_wait fills it only with channels of different descriptors.         *)
BoundedList == size <= InitEventListSize \/ size <= 2 * Cardinality(Fd)

(* The poller, its cache and the kernel together are a Demultiplexer.       *)
Interest == [ch \in Channel |-> IF Exists(ch) THEN events[ch] ELSE {}]
Promise == INSTANCE Demultiplexer WITH interest <- Interest, reported <- active
ImplementsDemultiplexer == Promise!Spec

(* A channel that stays ready is reported again and again, although one     *)
(* epoll_wait may return fewer channels than are ready and the kernel is    *)
(* free in its choice: the list of events grows until all of them fit.      *)
NoChannelStarves ==
  \A ch \in Channel :
    []<>(Reported(ch) \/ \A e \in kernel : e.channel = ch => e.fd \notin ready)
=============================================================================
