--------------------------- MODULE EpollPollerProofs ---------------------------
(****************************************************************************)
(* Proofs about module EpollPoller, for every set of channels and of        *)
(* descriptors and every initial size of the event list: the types, that    *)
(* the kernel and channels_ agree with the channels, how long the list of   *)
(* events gets, and that the poller implements Demultiplexer.               *)
(****************************************************************************)
EXTENDS EpollPoller, FiniteSetTheorems, TLAPS

USE DEF HasChannel

(* Why the three records agree.  A descriptor belongs to one channel that   *)
(* exists, and nothing is left of a channel before it was constructed.  A   *)
(* channel that is not in the epoll set wants no events, and one that is    *)
(* wants some, but for the moment in a destructor between disableAll and    *)
(* remove -- so update() is never called without something to do.           *)
OwnFd == /\ \A ch \in Channel : Exists(ch) => fd[ch] \in Fd
         /\ \A ch, c \in Channel : Exists(ch) /\ Exists(c) /\ fd[ch] = fd[c] => ch = c

Fresh == \A ch \in Channel : life[ch] = "none" =>
            /\ index[ch] = "kNew" /\ events[ch] = {}
            /\ \A f \in Fd : channels[f] # ch

AddedIffWanting == \A ch \in Channel :
                     /\ Exists(ch) /\ index[ch] # "kAdded" => events[ch] = {}
                     /\ life[ch] = "alive" /\ index[ch] = "kAdded" => events[ch] # {}

PollerInv == TypeOK /\ OwnFd /\ Fresh /\ AddedIffWanting /\ KernelAgrees /\ MapAgrees

Watched(ch) == Exists(ch) /\ index[ch] = "kAdded"

(* KernelAgrees, entry by entry.                                            *)
LEMMA KernelEntries ==
  KernelAgrees <=> \A e : e \in kernel <=> \E c \in Channel : Watched(c)
                                              /\ e = Registration(c, events[c])
BY DEF KernelAgrees, Watched

(* What the kernel has under the descriptor of a channel is that channel's  *)
(* registration, or nothing (EpollPoller::update).                          *)
LEMMA EntriesOfOwn ==
  ASSUME PollerInv, NEW ch \in Channel, Exists(ch)
  PROVE  EntriesOf(fd[ch]) = IF index[ch] = "kAdded" THEN {Registration(ch, events[ch])} ELSE {}
<1>1. ASSUME NEW e \in kernel, e.fd = fd[ch]
      PROVE  index[ch] = "kAdded" /\ e = Registration(ch, events[ch])
  <2>1. PICK c \in Channel : Watched(c) /\ e = Registration(c, events[c])
    BY KernelEntries DEF PollerInv
  <2>2. fd[c] = fd[ch]
    BY <1>1, <2>1 DEF Registration
  <2>3. c = ch
    BY <2>1, <2>2 DEF PollerInv, OwnFd, Watched
  <2> QED
    BY <2>1, <2>3 DEF Watched
<1>2. index[ch] = "kAdded" => Registration(ch, events[ch]) \in kernel
  BY KernelEntries DEF PollerInv, Watched
<1>3. Registration(ch, events[ch]).fd = fd[ch]
  BY DEF Registration
<1> QED
  BY <1>1, <1>2, <1>3 DEF EntriesOf

(* update() keeps the kernel and channels_ in step with the channel         *)
(* (EpollPoller::updateChannel), and is left with a channel in the epoll    *)
(* set exactly if it wants events, unless it never was in it.               *)
LEMMA UpdateAgrees ==
  ASSUME PollerInv, NEW ch \in Channel, Exists(ch), NEW wanted \in SUBSET Event,
         UpdateChannel(ch, wanted), UNCHANGED fd,
         NEW stage \in {"alive", "destructor"}, life' = [life EXCEPT ![ch] = stage]
  PROVE  KernelAgrees' /\ MapAgrees'
<1> USE DEF PollerInv
<1>0. life \in [Channel -> {"none", "alive", "destructor", "dead"}] /\ index \in [Channel -> {"kNew", "kAdded", "kDeleted"}]
      /\ events \in [Channel -> SUBSET Event] /\ channels \in [Fd -> Channel \union {NoChannel}]
  BY DEF TypeOK
<1>1. \A c \in Channel : Exists(c)' <=> Exists(c)
  BY <1>0 DEF Exists
<1>2. events' = [events EXCEPT ![ch] = wanted]
  BY DEF UpdateChannel
<1>3. \A c \in Channel : c # ch => events'[c] = events[c]
  BY <1>0, <1>2
<1>4. events'[ch] = wanted
  BY <1>0, <1>2
<1>6. \A c \in Channel : c # ch => (Watched(c)' <=> Watched(c))
  BY <1>0, <1>1 DEF Watched, UpdateChannel, AddChannel, DeleteChannel, ModifyChannel
<1>7. \A e : e \in kernel <=> \E c \in Channel : Watched(c) /\ e = Registration(c, events[c])
  BY KernelEntries
<1>8. kernel' = (kernel \ EntriesOf(fd[ch]))
                 \union (IF index'[ch] = "kAdded" THEN {Registration(ch, wanted)} ELSE {})
  <2>1. CASE AddChannel(ch, wanted)
    <3>1. EntriesOf(fd[ch]) = {}
      BY <2>1, EntriesOfOwn DEF AddChannel
    <3>2. index'[ch] = "kAdded"
      BY <2>1, <1>0 DEF AddChannel
    <3> QED
      BY <2>1, <3>1, <3>2 DEF AddChannel, Added
  <2>2. CASE DeleteChannel(ch)
    <3>1. index'[ch] = "kDeleted"
      BY <2>2, <1>0 DEF DeleteChannel
    <3> QED
      BY <2>2, <3>1 DEF DeleteChannel, Dropped
  <2>3. CASE ModifyChannel(ch, wanted)
    <3>1. EntriesOf(fd[ch]) # {}
      BY <2>3, EntriesOfOwn DEF ModifyChannel
    <3> QED
      BY <2>3, <3>1 DEF ModifyChannel, Modified
  <2> QED
    BY <2>1, <2>2, <2>3 DEF UpdateChannel
<1>9. Watched(ch)' <=> index'[ch] = "kAdded"
  BY <1>1 DEF Watched
<1>10. \A e : e \in kernel \ EntriesOf(fd[ch])
               <=> \E c \in Channel : c # ch /\ Watched(c) /\ e = Registration(c, events[c])
  <2>1. ASSUME NEW e, e \in kernel, e \notin EntriesOf(fd[ch])
        PROVE  \E c \in Channel : c # ch /\ Watched(c) /\ e = Registration(c, events[c])
    <3>1. PICK c \in Channel : Watched(c) /\ e = Registration(c, events[c])
      BY <2>1, <1>7
    <3>2. c # ch
      BY <2>1, <3>1, EntriesOfOwn DEF Watched
    <3> QED
      BY <3>1, <3>2
  <2>2. ASSUME NEW c \in Channel, c # ch, Watched(c)
        PROVE  Registration(c, events[c]) \in kernel \ EntriesOf(fd[ch])
    <3>1. Registration(c, events[c]) \in kernel
      BY <2>2, <1>7
    <3>2. fd[c] # fd[ch]
      BY <2>2 DEF OwnFd, Watched
    <3>3. Registration(c, events[c]).fd = fd[c]
      BY DEF Registration
    <3> QED
      BY <3>1, <3>2, <3>3 DEF EntriesOf
  <2> QED
    BY <2>1, <2>2
<1>11. \A e : e \in kernel' <=> \E c \in Channel : Watched(c)' /\ e = Registration(c, events'[c])
  <2>1. ASSUME NEW e, e \in kernel'
        PROVE  \E c \in Channel : Watched(c)' /\ e = Registration(c, events'[c])
    <3>1. CASE e \in kernel \ EntriesOf(fd[ch])
      BY <3>1, <1>10, <1>3, <1>6
    <3>2. CASE index'[ch] = "kAdded" /\ e = Registration(ch, wanted)
      BY <3>2, <1>4, <1>9
    <3> QED
      BY <2>1, <1>8, <3>1, <3>2
  <2>2. ASSUME NEW c \in Channel, Watched(c)'
        PROVE  Registration(c, events'[c]) \in kernel'
    <3>1. CASE c # ch
      BY <3>1, <2>2, <1>3, <1>6, <1>8, <1>10
    <3>2. CASE c = ch
      BY <3>2, <2>2, <1>4, <1>8, <1>9
    <3> QED
      BY <3>1, <3>2
  <2> QED
    BY <2>1, <2>2
<1>12. \A c \in Channel : Registration(c, events[c])' = Registration(c, events'[c])
  BY DEF Registration
<1>13. KernelAgrees'
  <2>1. kernel' = {Registration(c, events'[c]) : c \in {x \in Channel : Watched(x)'}}
    BY <1>11
  <2> QED
    BY <2>1, <1>12 DEF KernelAgrees, Watched
<1>14. MapAgrees'
  <2> SUFFICES ASSUME NEW c \in Channel, Exists(c)'
               PROVE  channels'[fd[c]] = c <=> index'[c] # "kNew"
    BY DEF MapAgrees
  <2>1. Exists(c) /\ fd[c] \in Fd /\ fd[ch] \in Fd
    BY <1>1 DEF OwnFd
  <2>2. channels[fd[c]] = c <=> index[c] # "kNew"
    BY <2>1 DEF MapAgrees
  <2>3. c # ch => fd[c] # fd[ch]
    BY <2>1 DEF OwnFd
  <2>4. CASE AddChannel(ch, wanted)
    BY <1>0, <2>1, <2>2, <2>3, <2>4 DEF AddChannel
  <2>5. CASE DeleteChannel(ch)
    BY <1>0, <2>1, <2>2, <2>3, <2>5 DEF DeleteChannel
  <2>6. CASE ModifyChannel(ch, wanted)
    BY <2>2, <2>6 DEF ModifyChannel
  <2> QED
    BY <2>4, <2>5, <2>6 DEF UpdateChannel
<1> QED
  BY <1>13, <1>14

(* update() stores what the variables may hold (EpollPoller::updateChannel).*)
LEMMA UpdateTypes ==
  ASSUME PollerInv, NEW ch \in Channel, Exists(ch), NEW wanted \in SUBSET Event,
         UpdateChannel(ch, wanted)
  PROVE  /\ events' \in [Channel -> SUBSET Event]
         /\ index' \in [Channel -> {"kNew", "kAdded", "kDeleted"}]
         /\ channels' \in [Fd -> Channel \union {NoChannel}]
         /\ kernel' \subseteq Entry
         /\ \A c \in Channel : c # ch => index'[c] = index[c] /\ events'[c] = events[c]
         /\ events'[ch] = wanted
         /\ index'[ch] # "kNew"
         /\ index'[ch] = "kDeleted" => wanted = {}
         /\ \A c \in Channel, f \in Fd : channels'[f] = c => channels[f] = c \/ c = ch
<1> USE DEF PollerInv, TypeOK
<1>1. events' = [events EXCEPT ![ch] = wanted] /\ fd[ch] \in Fd
  BY DEF UpdateChannel, OwnFd
<1>2. Registration(ch, wanted) \in Entry
  BY <1>1 DEF Registration, Entry
<1>3. CASE AddChannel(ch, wanted)
  BY <1>1, <1>2, <1>3 DEF AddChannel, Added
<1>4. CASE wanted = {} /\ DeleteChannel(ch)
  BY <1>1, <1>4 DEF DeleteChannel, Dropped
<1>5. CASE ModifyChannel(ch, wanted)
  BY <1>1, <1>2, <1>5 DEF ModifyChannel, Modified, EntriesOf
<1> QED
  BY <1>3, <1>4, <1>5 DEF UpdateChannel

(* A channel's owner that asks for events (Channel::enableReading,          *)
(* enableWriting, disableWriting, disableAll): the channel stays, and wants *)
(* some exactly if it is in the epoll set after it.                         *)
LEMMA AskKeepsInv ==
  ASSUME PollerInv, NEW ch \in Channel, Alive(ch), NEW wanted \in SUBSET Event,
         UpdateChannel(ch, wanted), UNCHANGED Rest,
         wanted = {} => index[ch] = "kAdded"
  PROVE  PollerInv'
<1>1. Exists(ch) /\ life' = [life EXCEPT ![ch] = "alive"]
  BY DEF Alive, Exists, Rest, PollerInv, TypeOK
<1>2. KernelAgrees' /\ MapAgrees'
  BY <1>1, UpdateAgrees DEF Rest
<1>3. TypeOK'
  BY <1>1, UpdateTypes DEF PollerInv, TypeOK, Rest
<1>4. OwnFd'
  BY DEF PollerInv, OwnFd, Exists, Rest
<1>5. Fresh'
  BY <1>1, UpdateTypes DEF PollerInv, Fresh, Rest, Exists
<1>6. wanted = {} => index'[ch] = "kDeleted"
  BY DEF UpdateChannel, AddChannel, ModifyChannel, DeleteChannel, PollerInv, TypeOK
<1>7. AddedIffWanting'
  BY <1>1, <1>6, UpdateTypes DEF PollerInv, AddedIffWanting, Rest, Exists, TypeOK
<1> QED
  BY <1>2, <1>3, <1>4, <1>5, <1>7 DEF PollerInv

(* A channel that goes takes its entry with it: the kernel has what is left *)
(* (close, and the epoll_ctl of removeChannel).                             *)
LEMMA DropAgrees ==
  ASSUME PollerInv, NEW ch \in Channel, Exists(ch),
         kernel' = IF index[ch] = "kAdded" THEN Dropped(ch) ELSE kernel,
         UNCHANGED <<fd, events>>, life' = [life EXCEPT ![ch] = "dead"],
         \A c \in Channel : c # ch => index'[c] = index[c]
  PROVE  KernelAgrees'
<1> USE DEF PollerInv
<1>1. \A c \in Channel : Watched(c)' <=> c # ch /\ Watched(c)
  BY DEF Watched, Exists, TypeOK
<1>2. \A e : e \in kernel <=> \E c \in Channel : Watched(c) /\ e = Registration(c, events[c])
  BY KernelEntries
<1>3. kernel' = kernel \ EntriesOf(fd[ch])
  BY EntriesOfOwn DEF Dropped
<1>4. \A e : e \in kernel' <=> \E c \in Channel : Watched(c)' /\ e = Registration(c, events[c])
  <2>1. ASSUME NEW e, e \in kernel'
        PROVE  \E c \in Channel : Watched(c)' /\ e = Registration(c, events[c])
    <3>1. PICK c \in Channel : Watched(c) /\ e = Registration(c, events[c])
      BY <2>1, <1>2, <1>3
    <3>2. c # ch
      BY <2>1, <1>3, <3>1, EntriesOfOwn DEF Watched
    <3> QED
      BY <1>1, <3>1, <3>2
  <2>2. ASSUME NEW c \in Channel, Watched(c)'
        PROVE  Registration(c, events[c]) \in kernel'
    <3>1. c # ch /\ Watched(c)
      BY <2>2, <1>1
    <3>2. Registration(c, events[c]).fd = fd[c] /\ fd[c] # fd[ch]
      BY <3>1 DEF OwnFd, Watched, Registration
    <3> QED
      BY <1>2, <1>3, <3>1, <3>2 DEF EntriesOf
  <2> QED
    BY <2>1, <2>2
<1>5. \A c \in Channel : Registration(c, events[c])' = Registration(c, events[c])
  BY DEF Registration
<1>6. kernel' = {Registration(c, events[c]) : c \in {x \in Channel : Watched(x)'}}
  BY <1>4
<1> QED
  BY <1>5, <1>6 DEF KernelAgrees, Watched

(* At the start there is no channel and no entry.                           *)
LEMMA PollerInit == Init => PollerInv
<1> SUFFICES ASSUME Init
             PROVE  PollerInv
  OBVIOUS
<1>1. \A ch \in Channel : ~Exists(ch) /\ life[ch] = "none"
  BY DEF Init, Exists
<1>2. TypeOK
  BY PollerAssumption DEF Init, TypeOK
<1>3. OwnFd /\ AddedIffWanting /\ MapAgrees
  BY <1>1 DEF OwnFd, AddedIffWanting, MapAgrees
<1>4. Fresh
  BY PollerAssumption DEF Init, Fresh
<1>5. KernelAgrees
  BY <1>1 DEF Init, KernelAgrees
<1> QED
  BY <1>2, <1>3, <1>4, <1>5 DEF PollerInv

(* The three records stay in agreement whatever the owners, the loop and    *)
(* the descriptors do.                                                      *)
LEMMA PollerInductive == PollerInv /\ [Next]_vars => PollerInv'
<1> SUFFICES ASSUME PollerInv, [Next]_vars
             PROVE  PollerInv'
  OBVIOUS
<1> USE DEF PollerInv
<1>1. ASSUME NEW ch \in Channel, NEW f \in Fd, Construct(ch, f)
      PROVE  PollerInv'
  <2>1. TypeOK'
    BY <1>1 DEF Construct, TypeOK
  <2>2. \A c \in Channel : c # ch => fd'[c] = fd[c] /\ (Exists(c)' <=> Exists(c))
    BY <1>1 DEF Construct, TypeOK, Exists
  <2>3. /\ life[ch] = "none" /\ ~Exists(ch) /\ index[ch] = "kNew" /\ events[ch] = {}
        /\ \A g \in Fd : channels[g] # ch
        /\ \A c \in Channel : Exists(c) => fd[c] # f
    BY <1>1 DEF Construct, Exists, Open, Fresh
  <2>4. fd'[ch] = f /\ life'[ch] = "alive" /\ UNCHANGED <<index, events, channels, kernel>>
    BY <1>1 DEF Construct, TypeOK
  <2>5. OwnFd'
    BY <2>2, <2>3, <2>4 DEF OwnFd
  <2>6. Fresh' /\ AddedIffWanting' /\ MapAgrees'
    <3>1. \A c \in Channel : c # ch => life'[c] = life[c]
      BY <1>1 DEF Construct, TypeOK
    <3> QED
      BY <3>1, <2>2, <2>3, <2>4 DEF Fresh, AddedIffWanting, MapAgrees
  <2>7. KernelAgrees'
    <3>1. {c \in Channel : Exists(c)' /\ index'[c] = "kAdded"}
            = {c \in Channel : Exists(c) /\ index[c] = "kAdded"}
      BY <2>2, <2>3, <2>4
    <3>2. \A c \in Channel : Exists(c) => Registration(c, events[c])' = Registration(c, events[c])
      BY <2>2, <2>3, <2>4 DEF Registration
    <3> QED
      BY <3>1, <3>2, <2>4 DEF KernelAgrees
  <2> QED
    BY <2>1, <2>5, <2>6, <2>7
<1>2. ASSUME NEW ch \in Channel, EnableReading(ch)
      PROVE  PollerInv'
  <2>1. events[ch] \union {"in"} \in SUBSET Event /\ events[ch] \union {"in"} # {}
    BY DEF TypeOK, Event
  <2> QED
    BY <1>2, <2>1, AskKeepsInv DEF EnableReading
<1>3. ASSUME NEW ch \in Channel, EnableWriting(ch)
      PROVE  PollerInv'
  <2>1. events[ch] \union {"out"} \in SUBSET Event /\ events[ch] \union {"out"} # {}
    BY DEF TypeOK, Event
  <2> QED
    BY <1>3, <2>1, AskKeepsInv DEF EnableWriting
<1>4. ASSUME NEW ch \in Channel, DisableWriting(ch)
      PROVE  PollerInv'
  <2>1. events[ch] \ {"out"} \in SUBSET Event
    BY DEF TypeOK
  <2>2. index[ch] = "kAdded"
    BY <1>4 DEF DisableWriting, Alive, Exists, AddedIffWanting
  <2> QED
    BY <1>4, <2>1, <2>2, AskKeepsInv DEF DisableWriting
<1>5. ASSUME NEW ch \in Channel, DisableAll(ch)
      PROVE  PollerInv'
  <2>1. index[ch] = "kAdded"
    BY <1>5 DEF DisableAll, Alive, Exists, AddedIffWanting
  <2> QED
    BY <1>5, <2>1, AskKeepsInv DEF DisableAll
<1>6. ASSUME NEW ch \in Channel, DestroyConnection(ch)
      PROVE  PollerInv'
  <2>1. Exists(ch) /\ life' = [life EXCEPT ![ch] = "dead"]
    BY <1>6 DEF DestroyConnection, CloseFd, Alive, Exists
  <2>2. TypeOK'
    BY <1>6 DEF DestroyConnection, CloseFd, TypeOK, Dropped
  <2>3. KernelAgrees'
    <3>1. kernel' = IF index[ch] = "kAdded" THEN Dropped(ch) ELSE kernel
      BY <1>6, <2>1, EntriesOfOwn DEF DestroyConnection, Dropped
    <3> QED
      BY <1>6, <2>1, <3>1, DropAgrees DEF DestroyConnection
  <2>4. OwnFd' /\ Fresh' /\ AddedIffWanting' /\ MapAgrees'
    BY <1>6, <2>1 DEF DestroyConnection, TypeOK, OwnFd, Fresh, AddedIffWanting, MapAgrees, Exists
  <2> QED
    BY <2>2, <2>3, <2>4
<1>7. ASSUME NEW ch \in Channel, BeginDestructor(ch)
      PROVE  PollerInv'
  <2>1. Exists(ch) /\ life' = [life EXCEPT ![ch] = "destructor"] /\ UNCHANGED <<fd, size, active, ready>>
    BY <1>7 DEF BeginDestructor, Alive, Exists
  <2>2. KernelAgrees' /\ MapAgrees'
    BY <1>7, <2>1, UpdateAgrees DEF BeginDestructor
  <2>3. TypeOK'
    BY <1>7, <2>1, UpdateTypes DEF BeginDestructor, TypeOK
  <2>4. OwnFd' /\ Fresh'
    BY <1>7, <2>1, UpdateTypes DEF BeginDestructor, TypeOK, OwnFd, Fresh, Exists
  <2>5. AddedIffWanting'
    BY <1>7, <2>1, UpdateTypes DEF BeginDestructor, TypeOK, AddedIffWanting, Exists
  <2> QED
    BY <2>2, <2>3, <2>4, <2>5
<1>8. ASSUME NEW ch \in Channel, EndDestructor(ch)
      PROVE  PollerInv'
  <2>1. Exists(ch) /\ life' = [life EXCEPT ![ch] = "dead"]
    BY <1>8 DEF EndDestructor, CloseFd, Exists
  <2>2. TypeOK'
    BY <1>8 DEF EndDestructor, RemoveChannel, CloseFd, TypeOK, Dropped
  <2>3. \A c \in Channel : c # ch => index'[c] = index[c] /\ life'[c] = life[c]
    BY <1>8, <2>1 DEF EndDestructor, RemoveChannel, TypeOK
  <2>4. KernelAgrees'
    BY <1>8, <2>1, <2>3, DropAgrees DEF EndDestructor, RemoveChannel
  <2>5. OwnFd' /\ AddedIffWanting'
    BY <1>8, <2>1, <2>3 DEF EndDestructor, TypeOK, OwnFd, AddedIffWanting, Exists
  <2>6. channels' = [channels EXCEPT ![fd[ch]] = NoChannel] /\ life'[ch] = "dead"
    BY <1>8, <2>1 DEF EndDestructor, RemoveChannel, TypeOK
  <2>7. Fresh'
    BY <1>8, <2>1, <2>3, <2>6, PollerAssumption DEF EndDestructor, TypeOK, Fresh
  <2>8. MapAgrees'
    BY <1>8, <2>1, <2>3, <2>6 DEF EndDestructor, TypeOK, OwnFd, MapAgrees, Exists
  <2> QED
    BY <2>2, <2>4, <2>5, <2>7, <2>8
<1>9. CASE Poll
  <2>1. size' \in Nat \ {0} /\ active' \subseteq Report
    <3>1. PICK some \in (SUBSET ReadyEntries) \ {{}} :
               \E revents \in [some -> (SUBSET (Event \union Always)) \ {{}}] :
                 /\ active' = {[channel |-> e.channel, revents |-> revents[e]] : e \in some}
                 /\ size' = SizeAfter(Cardinality(some))
      BY <1>9 DEF Poll
    <3>2. \A e \in some : e.channel \in Channel
      BY DEF ReadyEntries, TypeOK, Entry
    <3> QED
      BY <3>1, <3>2 DEF SizeAfter, TypeOK, Report
  <2>2. TypeOK'
    BY <1>9, <2>1 DEF Poll, TypeOK, channel
  <2> QED
    BY <1>9, <2>2 DEF Poll, channel, OwnFd, Fresh, AddedIffWanting, KernelAgrees, MapAgrees,
                      Exists, Registration
<1>10. ASSUME NEW r \in active, HandleEvent(r)
       PROVE  PollerInv'
  BY <1>10 DEF HandleEvent, channel, TypeOK, OwnFd, Fresh, AddedIffWanting, KernelAgrees,
               MapAgrees, Exists, Registration
<1>11. ASSUME NEW f \in Fd, FdChanges(f)
       PROVE  PollerInv'
  BY <1>11 DEF FdChanges, channel, TypeOK, OwnFd, Fresh, AddedIffWanting, KernelAgrees,
               MapAgrees, Exists, Registration
<1>12. CASE UNCHANGED vars
  BY <1>12 DEF vars, channel, TypeOK, OwnFd, Fresh, AddedIffWanting, KernelAgrees, MapAgrees,
               Exists, Registration
<1> QED
  BY <1>1, <1>2, <1>3, <1>4, <1>5, <1>6, <1>7, <1>8, <1>9, <1>10, <1>11, <1>12 DEF Next

LEMMA PollerAlways == Spec => []PollerInv
BY PollerInit, PollerInductive, PTL DEF Spec

(* Every variable keeps its type: every entry of the kernel and every       *)
(* report names a channel that there is.                                    *)
THEOREM TypeCorrect == Spec => []TypeOK
<1>1. PollerInv => TypeOK
  BY DEF PollerInv
<1> QED
  BY <1>1, PollerAlways, PTL

(* The kernel holds what index_ and events_ say, however many channels      *)
(* share however many descriptors over time (EpollPoller::updateChannel,    *)
(* removeChannel and update, Channel.cc).                                   *)
THEOREM KernelAgreement == Spec => []KernelAgrees
<1>1. PollerInv => KernelAgrees
  BY DEF PollerInv
<1> QED
  BY <1>1, PollerAlways, PTL

(* channels_ tells the truth about every channel that exists, although no   *)
(* destroyed connection was ever taken from it (Poller::hasChannel).        *)
THEOREM MapAgreement == Spec => []MapAgrees
<1>1. PollerInv => MapAgrees
  BY DEF PollerInv
<1> QED
  BY <1>1, PollerAlways, PTL
-----------------------------------------------------------------------------
(* The list of events.                                                      *)

(* Whatever part of the epoll set is reported, there are no more entries    *)
(* in it than descriptors.                                                  *)
LEMMA OneEntryPerFd ==
  ASSUME PollerInv, NEW some \in SUBSET kernel
  PROVE  Cardinality(some) \in Nat /\ Cardinality(Fd) \in Nat /\ Cardinality(some) <= Cardinality(Fd)
<1> DEFINE of == [e \in some |-> e.fd]
<1>1. of \in [some -> Fd]
  BY DEF PollerInv, TypeOK, Entry
<1>2. ASSUME NEW e \in some, NEW g \in some, e.fd = g.fd
      PROVE  e = g
  <2>1. PICK c \in Channel : Watched(c) /\ e = Registration(c, events[c])
    BY KernelEntries DEF PollerInv
  <2>2. PICK d \in Channel : Watched(d) /\ g = Registration(d, events[d])
    BY KernelEntries DEF PollerInv
  <2>3. fd[c] = fd[d]
    BY <1>2, <2>1, <2>2 DEF Registration
  <2>4. c = d
    BY <2>1, <2>2, <2>3 DEF PollerInv, OwnFd, Watched
  <2> QED
    BY <2>1, <2>2, <2>4
<1>3. IsInjective(of)
  BY <1>2 DEF IsInjective
<1>4. of \in Injection(some, Fd)
  BY <1>1, <1>3 DEF Injection
<1>5. IsFiniteSet(Fd)
  BY PollerAssumption
<1>6. IsFiniteSet(some) /\ Cardinality(some) <= Cardinality(Fd)
  BY <1>4, <1>5, FS_Injection
<1> QED
  BY <1>5, <1>6, FS_CardinalityType

LEMMA ListInductive == PollerInv /\ BoundedList /\ [Next]_vars => BoundedList'
<1> SUFFICES ASSUME PollerInv, BoundedList, [Next]_vars
             PROVE  BoundedList'
  OBVIOUS
<1>1. CASE Poll
  <2>1. PICK some \in SUBSET ReadyEntries : size' = SizeAfter(Cardinality(some))
    BY <1>1 DEF Poll
  <2>2. Cardinality(some) \in Nat /\ Cardinality(Fd) \in Nat /\ Cardinality(some) <= Cardinality(Fd)
    BY OneEntryPerFd DEF ReadyEntries
  <2>3. size \in Nat
    BY DEF PollerInv, TypeOK
  <2> QED
    BY <2>1, <2>2, <2>3 DEF SizeAfter, BoundedList
<1>2. CASE UNCHANGED size
  BY <1>2 DEF BoundedList
<1>3. ~Poll => UNCHANGED size
  BY DEF Next, vars, Construct, EnableReading, EnableWriting, DisableWriting, DisableAll, Rest,
         DestroyConnection, BeginDestructor, EndDestructor, HandleEvent, FdChanges
<1> QED
  BY <1>1, <1>2, <1>3

(* The list of events stays bounded by the descriptors, whatever size it    *)
(* starts with and however often the loop polls (EpollPoller::poll).        *)
THEOREM ListStaysShort == Spec => []BoundedList
<1>1. Init => BoundedList
  BY PollerAssumption DEF Init, BoundedList
<1> QED
  BY <1>1, PollerAlways, ListInductive, PTL DEF Spec
-----------------------------------------------------------------------------
(* The poller implements Demultiplexer.                                     *)

(* What a channel's owner does is asking, and disturbs nobody else.         *)
LEMMA AskIsAsk ==
  ASSUME PollerInv, NEW ch \in Channel, NEW wanted \in SUBSET Event,
         UNCHANGED active,
         \A c \in Channel : Interest'[c] = IF c = ch THEN wanted ELSE Interest[c]
  PROVE  Promise!Next
<1>1. Interest' = [Interest EXCEPT ![ch] = wanted]
  BY DEF Interest
<1> QED
  BY <1>1 DEF Promise!Next, Promise!Ask

(* A step of the poller, of a channel's owner or of the kernel is one of    *)
(* Demultiplexer or stutters: reports come from the epoll set, and that is  *)
(* what the channels want (EpollPoller::poll, fillActiveChannels).          *)
LEMMA StepImplements == PollerInv /\ [Next]_vars => [Promise!Next]_(Promise!vars)
<1> SUFFICES ASSUME PollerInv, [Next]_vars
             PROVE  [Promise!Next]_(Promise!vars)
  OBVIOUS
<1>a. TypeOK /\ OwnFd /\ Fresh /\ AddedIffWanting /\ KernelAgrees
  BY DEF PollerInv
<1>b. \A c \in Channel : Interest[c] = IF Exists(c) THEN events[c] ELSE {}
  BY DEF Interest
<1>c. \A c \in Channel : Interest'[c] = IF Exists(c)' THEN events'[c] ELSE {}
  BY DEF Interest
<1>1. ASSUME NEW ch \in Channel, NEW f \in Fd, Construct(ch, f)
      PROVE  UNCHANGED Promise!vars
  <2>1. \A c \in Channel : c # ch => (Exists(c)' <=> Exists(c))
    BY <1>1, <1>a DEF Construct, TypeOK, Exists
  <2>2. events[ch] = {} /\ UNCHANGED <<events, active>>
    BY <1>1, <1>a DEF Construct, Fresh
  <2>3. Interest' = Interest
    BY <2>1, <2>2 DEF Interest
  <2> QED
    BY <2>2, <2>3 DEF Promise!vars
<1>2. ASSUME NEW ch \in Channel, Alive(ch), NEW wanted \in SUBSET Event,
             UpdateChannel(ch, wanted), UNCHANGED <<fd, active>>,
             life' = life \/ life' = [life EXCEPT ![ch] = "destructor"]
      PROVE  Promise!Next
  <2>1. Exists(ch) /\ \A c \in Channel : Exists(c)' <=> Exists(c)
    BY <1>2, <1>a DEF TypeOK, Alive, Exists
  <2>2. events'[ch] = wanted /\ \A c \in Channel : c # ch => events'[c] = events[c]
    BY <1>2, <2>1, UpdateTypes
  <2> QED
    BY <1>b, <1>c, <1>2, <2>1, <2>2, AskIsAsk
<1>3. ASSUME NEW ch \in Channel, EnableReading(ch)
      PROVE  Promise!Next
  <2>1. events[ch] \union {"in"} \in SUBSET Event
    BY <1>a DEF TypeOK, Event
  <2> QED
    BY <1>2, <1>3, <2>1 DEF EnableReading, Rest
<1>4. ASSUME NEW ch \in Channel, EnableWriting(ch)
      PROVE  Promise!Next
  <2>1. events[ch] \union {"out"} \in SUBSET Event
    BY <1>a DEF TypeOK, Event
  <2> QED
    BY <1>2, <1>4, <2>1 DEF EnableWriting, Rest
<1>5. ASSUME NEW ch \in Channel, DisableWriting(ch)
      PROVE  Promise!Next
  <2>1. events[ch] \ {"out"} \in SUBSET Event
    BY <1>a DEF TypeOK
  <2> QED
    BY <1>2, <1>5, <2>1 DEF DisableWriting, Rest
<1>6. ASSUME NEW ch \in Channel, DisableAll(ch)
      PROVE  Promise!Next
  BY <1>2, <1>6 DEF DisableAll, Rest
<1>7. ASSUME NEW ch \in Channel, BeginDestructor(ch)
      PROVE  Promise!Next
  BY <1>2, <1>7 DEF BeginDestructor
<1>8. ASSUME NEW ch \in Channel, DestroyConnection(ch) \/ EndDestructor(ch)
      PROVE  Promise!Next
  <2>1. life' = [life EXCEPT ![ch] = "dead"] /\ UNCHANGED <<events, active>>
    BY <1>8 DEF DestroyConnection, EndDestructor, CloseFd
  <2>2. ~Exists(ch)' /\ \A c \in Channel : c # ch => (Exists(c)' <=> Exists(c))
    BY <2>1, <1>a DEF TypeOK, Exists
  <2>3. {} \in SUBSET Event
    OBVIOUS
  <2> QED
    BY <1>b, <1>c, <2>1, <2>2, <2>3, AskIsAsk
<1>9. CASE Poll
  <2>1. active = {} /\ UNCHANGED <<life, fd, events, index, kernel>>
    BY <1>9 DEF Poll, channel
  <2>2. Interest' = Interest
    BY <2>1 DEF Interest, Exists
  <2>3. PICK some \in (SUBSET ReadyEntries) \ {{}} :
             \E revents \in [some -> (SUBSET (Event \union Always)) \ {{}}] :
               /\ \A e \in some : revents[e] \subseteq e.events \union Always
               /\ active' = {[channel |-> e.channel, revents |-> revents[e]] : e \in some}
    BY <1>9 DEF Poll
  <2>4. PICK revents \in [some -> (SUBSET (Event \union Always)) \ {{}}] :
               /\ \A e \in some : revents[e] \subseteq e.events \union Always
               /\ active' = {[channel |-> e.channel, revents |-> revents[e]] : e \in some}
    BY <2>3
  <2>5. \A e \in some : \E c \in Channel : /\ Watched(c) /\ e = Registration(c, events[c])
                                           /\ e.channel = c /\ e.events = events[c]
    <3>1. some \subseteq kernel
      BY DEF ReadyEntries
    <3> QED
      BY <3>1, <1>a, KernelEntries DEF Registration
  <2>6. \A e \in some : Interest[e.channel] = e.events /\ e.events # {}
    <3>1. ASSUME NEW e \in some
          PROVE  Interest[e.channel] = e.events /\ e.events # {}
      <4>1. PICK c \in Channel : Watched(c) /\ e.channel = c /\ e.events = events[c]
        BY <2>5
      <4>2. life[c] = "alive" /\ index[c] = "kAdded"
        BY <1>9, <4>1 DEF Poll, OutsideDestructor, Watched, Exists
      <4> QED
        BY <1>a, <1>b, <4>1, <4>2 DEF AddedIffWanting, Watched
    <3> QED
      BY <3>1
  <2>7. \A e, d \in some : e.channel = d.channel => e = d
    <3>1. ASSUME NEW e \in some, NEW d \in some, e.channel = d.channel
          PROVE  e = d
      <4>1. PICK c \in Channel : e = Registration(c, events[c]) /\ e.channel = c
        BY <2>5
      <4>2. PICK b \in Channel : d = Registration(b, events[b]) /\ d.channel = b
        BY <2>5
      <4> QED
        BY <3>1, <4>1, <4>2
    <3> QED
      BY <3>1
  <2>8. \A r \in active' : \E e \in some : r.channel = e.channel /\ r.revents = revents[e]
    BY <2>4
  <2>9. \A r \in active' : /\ Interest[r.channel] # {}
                           /\ r.revents # {}
                           /\ r.revents \subseteq Interest[r.channel] \union Always
    <3>1. ASSUME NEW r \in active'
          PROVE  /\ Interest[r.channel] # {}
                 /\ r.revents # {}
                 /\ r.revents \subseteq Interest[r.channel] \union Always
      <4>1. PICK e \in some : r.channel = e.channel /\ r.revents = revents[e]
        BY <2>8
      <4>2. revents[e] \subseteq e.events \union Always
        BY <2>4
      <4>3. revents[e] \in (SUBSET (Event \union Always)) \ {{}}
        OBVIOUS
      <4>4. Interest[r.channel] = e.events /\ e.events # {}
        BY <2>6, <4>1
      <4> QED
        BY <4>1, <4>2, <4>3, <4>4
    <3> QED
      BY <3>1
  <2>10. \A r, s \in active' : r.channel = s.channel => r = s
    BY <2>4, <2>7
  <2> QED
    BY <2>1, <2>2, <2>9, <2>10 DEF Promise!Next, Promise!Report
<1>10. ASSUME NEW r \in active, HandleEvent(r)
       PROVE  Promise!Next
  <2>1. Interest' = Interest
    BY <1>10 DEF HandleEvent, channel, Interest, Exists
  <2> QED
    BY <1>10, <2>1 DEF HandleEvent, Promise!Next, Promise!Deliver
<1>11. ASSUME NEW f \in Fd, FdChanges(f)
       PROVE  UNCHANGED Promise!vars
  BY <1>11 DEF FdChanges, channel, Interest, Exists, Promise!vars
<1>12. CASE UNCHANGED vars
  BY <1>12 DEF vars, channel, Interest, Exists, Promise!vars
<1> QED
  BY <1>1, <1>3, <1>4, <1>5, <1>6, <1>7, <1>8, <1>9, <1>10, <1>11, <1>12 DEF Next

(* No epoll_ctl that fails, no reuse of a descriptor and no stale entry of  *)
(* channels_ shows through: reports go to channels that exist and want the  *)
(* event, and each is handled before the next poll.                         *)
THEOREM PollerImplements == Spec => ImplementsDemultiplexer
<1>1. Init => Promise!Init
  BY DEF Init, Promise!Init, Interest, Exists
<1> QED
  BY <1>1, PollerAlways, StepImplements, PTL DEF Spec, ImplementsDemultiplexer, Promise!Spec
=============================================================================
