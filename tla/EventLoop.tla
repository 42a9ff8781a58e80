------------------------------ MODULE EventLoop ------------------------------
(****************************************************************************)
(* One EventLoop object (EventLoop.cc) with the thread that owns it and the *)
(* other threads that call queueInLoop, runInLoop and quit on it.           *)
(*                                                                          *)
(* The owner alternates between epoll_wait, the callbacks of the channels   *)
(* epoll_wait reported, and the functors other threads queued.  What is     *)
(* hard here is the handshake: the vector of functors is protected by a     *)
(* mutex, the flag quit_ is an atomic, the eventfd that wakes the owner is  *)
(* written AFTER either of them was changed and outside of the mutex, and   *)
(* the owner decides whether to block without looking at the vector at all. *)
(*                                                                          *)
(* A step is as large as the code's own synchronisation allows: the body of *)
(* a critical section, one atomic access, one system call.  The owner's own *)
(* queueInLoop is one step, because nobody but the owner reads what it      *)
(* touches between the unlock and the write to the eventfd.                 *)
(****************************************************************************)
EXTENDS Integers, Sequences, SequencesExt

CONSTANTS Functor,      \* the functors that get queued or run
          NoFunctor,    \* "no functor has run yet"
          Thread,       \* the threads other than the owner
          Channel,      \* the channels of the poller besides wakeupChannel_
          WakeupChannel,
          EventfdMax    \* largest value the kernel keeps in an eventfd, 2^64 - 2

ASSUME EventLoopAssumption ==
          /\ NoFunctor \notin Functor
          /\ WakeupChannel \notin Channel
          /\ EventfdMax \in Nat \ {0}

VARIABLES
  pendingFunctors,         \* pendingFunctors_, filled under mutex_ by any thread
  functors,                \* the vector doPendingFunctors swapped out, what is left of it
  callingPendingFunctors,  \* callingPendingFunctors_
  looping,                 \* looping_
  quit,                    \* quit_
  wakeupFd,                \* the counter of the eventfd
  activeChannels,          \* activeChannels_ of this iteration, not yet handled
  pc,                      \* where the owner thread is
  caller,                  \* where each other thread is inside queueInLoop or quit
  ran,                     \* history: the functor executed last
  early                    \* history: how many of pendingFunctors the owner queued before loop()

vars == <<pendingFunctors, functors, callingPendingFunctors, looping, quit,
          wakeupFd, activeChannels, pc, caller, ran, early>>

(****************************************************************************)
(* "constructed" before loop(), "starting" between its first two stores,    *)
(* "while" at the loop condition, "poll" in epoll_wait, "dispatch" between  *)
(* two channels of the active list, "callback" inside a channel's callback, *)
(* "batch" between two functors, "functor" inside a functor, "stopped"      *)
(* after loop() returned.                                                   *)
(****************************************************************************)
OwnerPC == {"constructed", "starting", "while", "poll", "dispatch", "callback",
            "batch", "functor", "stopped"}

\* The points at which user code runs on the owner thread.
UserCode == {"constructed", "callback", "functor"}

Queued == ToSet(pendingFunctors) \union ToSet(functors)

\* BOUND: a functor waits at most once at a time; Functor is the pool they come from.
Fresh(f) == f \in Functor \ Queued

TypeOK ==
  /\ pendingFunctors \in Seq(Functor)
  /\ functors \in Seq(Functor)
  /\ callingPendingFunctors \in BOOLEAN
  /\ looping \in BOOLEAN
  /\ quit \in BOOLEAN
  /\ wakeupFd \in 0..EventfdMax
  /\ activeChannels \subseteq Channel \union {WakeupChannel}
  /\ pc \in OwnerPC
  /\ caller \in [Thread -> {"idle", "wakeup"}]
  /\ ran \in Functor \union {NoFunctor}
  /\ early \in Nat

(* The constructor leaves callingPendingFunctors_ out of its initialiser    *)
(* list, so until doPendingFunctors first assigns it, it holds whatever the *)
(* memory held.                                                             *)
Init ==
  /\ pendingFunctors = <<>>
  /\ functors = <<>>
  /\ callingPendingFunctors \in BOOLEAN
  /\ looping = FALSE
  /\ quit = FALSE
  /\ wakeupFd = 0
  /\ activeChannels = {}
  /\ pc = "constructed"
  /\ caller = [t \in Thread |-> "idle"]
  /\ ran = NoFunctor
  /\ early = 0

-----------------------------------------------------------------------------
(* The eventfd.  A write that would overflow the counter fails with EAGAIN  *)
(* (EFD_NONBLOCK): wakeup() logs it and goes on.                            *)
Wakeup(counter) == IF counter < EventfdMax THEN counter + 1 ELSE counter

-----------------------------------------------------------------------------
(* The other threads.                                                       *)

\* queueInLoop, its critical section.  runInLoop from a foreign thread is this too.
QueueInLoop(t, f) ==
  /\ caller[t] = "idle"
  /\ Fresh(f)
  /\ pendingFunctors' = Append(pendingFunctors, f)
  /\ caller' = [caller EXCEPT ![t] = "wakeup"]
  /\ UNCHANGED <<functors, callingPendingFunctors, looping, quit, wakeupFd,
                 activeChannels, pc, ran, early>>

\* quit() from a foreign thread, up to the assignment of quit_; next says what is left of it.
RaiseQuit(t, next) ==
  /\ caller[t] = "idle"
  /\ quit' = TRUE
  /\ caller' = [caller EXCEPT ![t] = next]
  /\ UNCHANGED <<pendingFunctors, functors, callingPendingFunctors, looping,
                 wakeupFd, activeChannels, pc, ran, early>>

\* MUTANT: quit() does not call wakeup().
QuitQuietly(t) == RaiseQuit(t, "idle")

Quit(t) == RaiseQuit(t, "wakeup")

\* The write to the eventfd that ends queueInLoop and quit.
WakeupOwner(t) ==
  /\ caller[t] = "wakeup"
  /\ wakeupFd' = Wakeup(wakeupFd)
  /\ caller' = [caller EXCEPT ![t] = "idle"]
  /\ UNCHANGED <<pendingFunctors, functors, callingPendingFunctors, looping,
                 quit, activeChannels, pc, ran, early>>

-----------------------------------------------------------------------------
(* User code on the owner thread: a channel callback, a functor, or what    *)
(* the thread does before it calls loop().                                  *)

\* queueInLoop on the owner thread; it writes the eventfd only if wakes.
QueueBehindMyself(f, wakes) ==
  /\ pc \in UserCode
  /\ Fresh(f)
  /\ pendingFunctors' = Append(pendingFunctors, f)
  /\ wakeupFd' = IF wakes THEN Wakeup(wakeupFd) ELSE wakeupFd
  /\ early' = IF pc = "constructed" THEN early + 1 ELSE early
  /\ UNCHANGED <<functors, callingPendingFunctors, looping, quit,
                 activeChannels, pc, caller, ran>>

\* MUTANT: queueInLoop wakes for a foreign thread only.
QueueFromOwnerQuietly(f) == QueueBehindMyself(f, FALSE)

\* MUTANT: doPendingFunctors iterates the shared vector instead of a batch.
QueueIntoBatch(f) ==
  /\ pc \in UserCode
  /\ Fresh(f)
  /\ functors' = Append(functors, f)
  /\ UNCHANGED <<pendingFunctors, callingPendingFunctors, looping, quit,
                 wakeupFd, activeChannels, pc, caller, ran, early>>

QueueFromOwner(f) == QueueBehindMyself(f, callingPendingFunctors)

\* runInLoop on the owner thread calls the functor on the spot.
RunFromOwner(f) ==
  /\ pc \in UserCode
  /\ ran' = f
  /\ UNCHANGED <<pendingFunctors, functors, callingPendingFunctors, looping,
                 quit, wakeupFd, activeChannels, pc, caller, early>>

QuitFromOwner ==
  /\ pc \in UserCode
  /\ quit' = TRUE
  /\ UNCHANGED <<pendingFunctors, functors, callingPendingFunctors, looping,
                 wakeupFd, activeChannels, pc, caller, ran, early>>

-----------------------------------------------------------------------------
(* loop(), statement by statement.                                          *)

Loop ==
  /\ pc = "constructed"
  /\ looping' = TRUE
  /\ pc' = "starting"
  /\ UNCHANGED <<pendingFunctors, functors, callingPendingFunctors, quit,
                 wakeupFd, activeChannels, caller, ran, early>>

\* Whatever quit() came before, also of a thread that saw looping_ set, is erased.
ResetQuit ==
  /\ pc = "starting"
  /\ quit' = FALSE
  /\ pc' = "while"
  /\ UNCHANGED <<pendingFunctors, functors, callingPendingFunctors, looping,
                 wakeupFd, activeChannels, caller, ran, early>>

EnterPoll ==
  /\ pc = "while"
  /\ ~quit
  /\ activeChannels' = {}
  /\ pc' = "poll"
  /\ UNCHANGED <<pendingFunctors, functors, callingPendingFunctors, looping,
                 quit, wakeupFd, caller, ran, early>>

LeaveLoop ==
  /\ pc = "while"
  /\ quit
  /\ looping' = FALSE
  /\ pc' = "stopped"
  /\ UNCHANGED <<pendingFunctors, functors, callingPendingFunctors, quit,
                 wakeupFd, activeChannels, caller, ran, early>>

(* epoll_wait returns at least one ready channel and perhaps not all of     *)
(* them, when more are ready than events_ has room for.  Whether another    *)
(* channel is ready is up to its peer; the eventfd is when it is not zero.  *)
PollReturns(active) ==
  /\ pc = "poll"
  /\ active # {}
  /\ WakeupChannel \in active => wakeupFd > 0
  /\ activeChannels' = active
  /\ pc' = "dispatch"
  /\ UNCHANGED <<pendingFunctors, functors, callingPendingFunctors, looping,
                 quit, wakeupFd, caller, ran, early>>

\* kPollTimeMs went by, or a signal interrupted epoll_wait: nothing is active.
PollTimeout ==
  /\ pc = "poll"
  /\ activeChannels' = {}
  /\ pc' = "dispatch"
  /\ UNCHANGED <<pendingFunctors, functors, callingPendingFunctors, looping,
                 quit, wakeupFd, caller, ran, early>>

\* EventLoop::handleRead, the callback of wakeupChannel_: read() takes the whole count.
HandleRead ==
  /\ pc = "dispatch"
  /\ WakeupChannel \in activeChannels
  /\ wakeupFd' = 0
  /\ activeChannels' = activeChannels \ {WakeupChannel}
  /\ UNCHANGED <<pendingFunctors, functors, callingPendingFunctors, looping,
                 quit, pc, caller, ran, early>>

HandleEvent(c) ==
  /\ pc = "dispatch"
  /\ c \in activeChannels \ {WakeupChannel}
  /\ activeChannels' = activeChannels \ {c}
  /\ pc' = "callback"
  /\ UNCHANGED <<pendingFunctors, functors, callingPendingFunctors, looping,
                 quit, wakeupFd, caller, ran, early>>

\* The swap, which leaves left in the shared vector.
OpenBatch(left) ==
  /\ pc = "dispatch"
  /\ activeChannels = {}
  /\ callingPendingFunctors' = TRUE
  /\ functors' = pendingFunctors
  /\ pendingFunctors' = left
  /\ early' = 0
  /\ pc' = "batch"
  /\ UNCHANGED <<looping, quit, wakeupFd, activeChannels, caller, ran>>

\* MUTANT: the vector is copied, not swapped.
DoPendingFunctorsCopies == OpenBatch(pendingFunctors)

DoPendingFunctors == OpenBatch(<<>>)

RunFunctor ==
  /\ pc = "batch"
  /\ functors # <<>>
  /\ ran' = Head(functors)
  /\ functors' = Tail(functors)
  /\ pc' = "functor"
  /\ UNCHANGED <<pendingFunctors, callingPendingFunctors, looping, quit,
                 wakeupFd, activeChannels, caller, early>>

\* A callback or a functor returns to the loop that called it.
UserCodeReturns ==
  /\ \/ pc = "callback" /\ pc' = "dispatch"
     \/ pc = "functor" /\ pc' = "batch"
  /\ UNCHANGED <<pendingFunctors, functors, callingPendingFunctors, looping,
                 quit, wakeupFd, activeChannels, caller, ran, early>>

\* doPendingFunctors returns; callingPendingFunctors_ stays true.
BatchDone ==
  /\ pc = "batch"
  /\ functors = <<>>
  /\ pc' = "while"
  /\ UNCHANGED <<pendingFunctors, functors, callingPendingFunctors, looping,
                 quit, wakeupFd, activeChannels, caller, ran, early>>

-----------------------------------------------------------------------------
OtherThread(t) ==
  \/ \E f \in Functor : QueueInLoop(t, f)
  \/ Quit(t)
  \/ WakeupOwner(t)

UserCall ==
  \/ \E f \in Functor : QueueFromOwner(f) \/ RunFromOwner(f)
  \/ QuitFromOwner

\* What the loop does by itself once it is woken, no timeout needed.
LoopStep ==
  \/ ResetQuit
  \/ EnterPoll
  \/ LeaveLoop
  \/ wakeupFd > 0 /\ \E active \in SUBSET (Channel \union {WakeupChannel}) :
                        PollReturns(active)
  \/ HandleRead
  \/ \E c \in Channel : HandleEvent(c)
  \/ DoPendingFunctors
  \/ RunFunctor
  \/ UserCodeReturns
  \/ BatchDone

Next ==
  \/ \E t \in Thread : OtherThread(t)
  \/ UserCall
  \/ Loop
  \/ LoopStep
  \/ \E active \in SUBSET (Channel \union {WakeupChannel}) : PollReturns(active)
  \/ PollTimeout

Spec == Init /\ [][Next]_vars

(* The owner thread is scheduled and user code returns; a thread that has   *)
(* begun queueInLoop or quit gets to its write.  Nothing is assumed of the  *)
(* poll timeout, of the channels' peers, or of anybody calling anything.    *)
FairSpec ==
  /\ Spec
  /\ WF_vars(LoopStep)
  /\ \A t \in Thread : WF_vars(WakeupOwner(t))

-----------------------------------------------------------------------------
(* Properties.                                                              *)

WakeupOnItsWay == wakeupFd > 0 \/ \E t \in Thread : caller[t] = "wakeup"

(* No lost wakeup: while the owner is in epoll_wait, functors it has not    *)
(* been told about do not sit in pendingFunctors_.  Either the eventfd is   *)
(* readable or some thread is about to write it.  Functors the owner itself *)
(* queued before loop() are not counted: for those nobody wakes it up.      *)
NoLostWakeup ==
  pc = "poll" /\ Len(pendingFunctors) > early => WakeupOnItsWay

(* No lost quit: an owner in epoll_wait with quit_ set will be woken.       *)
QuitWakesOwner == pc = "poll" /\ quit => WakeupOnItsWay

(* A queued functor is executed because of a wakeup, not only because       *)
(* epoll_wait timed out or a peer sent something -- unless the loop stops.  *)
FunctorEventuallyRuns ==
  \A f \in Functor :
    (looping /\ f \in Queued /\ early = 0) ~> (f \notin Queued \/ pc = "stopped")

(* quit() makes loop() return, however many functors and events keep        *)
(* coming, once loop() has assigned quit_ itself.  That looping_ is set is  *)
(* not enough: loop() erases a quit() that comes between its two stores, as *)
(* it does one that comes before it.                                        *)
QuitEventuallyStops ==
  (pc \notin {"constructed", "starting"} /\ quit) ~> (pc = "stopped")

(* Functors that queue functors for ever do not keep the loop from its      *)
(* channels: a batch ends, and the owner gets back to epoll_wait.           *)
BatchesEnd == (pc = "batch") ~> (pc \in {"poll", "stopped"})

(* The loop implements the promise of TaskQueue: what is left of the batch, *)
(* followed by the shared vector, is its queue.                             *)
TQ == INSTANCE TaskQueue WITH Task <- Functor, NoTask <- NoFunctor,
                              queue <- functors \o pendingFunctors, last <- ran

ImplementsTaskQueue == TQ!Spec
=============================================================================
