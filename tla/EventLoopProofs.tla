--------------------------- MODULE EventLoopProofs ---------------------------
(****************************************************************************)
(* Proofs about module EventLoop, for every set of functors, of threads and *)
(* of channels and every capacity of the eventfd: the types, the two        *)
(* invariants of the wakeup handshake, and that the loop implements         *)
(* TaskQueue.                                                               *)
(****************************************************************************)
EXTENDS EventLoop, SequenceTheorems, TLAPS

(* A write to the eventfd keeps its counter in range and leaves it          *)
(* readable: wakeup() works even when the counter is full                   *)
(* (EventLoop::wakeup).                                                     *)
LEMMA WakeupReadable ==
  ASSUME NEW n \in 0..EventfdMax
  PROVE  Wakeup(n) \in 1..EventfdMax
BY EventLoopAssumption DEF Wakeup

(* Every variable keeps its type.                                           *)
LEMMA TypeCorrect == Spec => []TypeOK
<1>1. Init => TypeOK
  <2> SUFFICES ASSUME Init
               PROVE  TypeOK
    OBVIOUS
  <2>1. pendingFunctors \in Seq(Functor) /\ functors \in Seq(Functor)
    BY DEF Init
  <2>2. wakeupFd \in 0..EventfdMax
    BY EventLoopAssumption DEF Init
  <2>3. caller \in [Thread -> {"idle", "wakeup"}]
    BY DEF Init
  <2>4. callingPendingFunctors \in BOOLEAN
    BY DEF Init
  <2> QED
    BY <2>1, <2>2, <2>3, <2>4 DEF Init, TypeOK, OwnerPC
<1>2. TypeOK /\ [Next]_vars => TypeOK'
  <2> SUFFICES ASSUME TypeOK, [Next]_vars
               PROVE  TypeOK'
    OBVIOUS
  <2> USE EventLoopAssumption DEF TypeOK, OwnerPC
  <2>1. ASSUME NEW t \in Thread, NEW f \in Functor, QueueInLoop(t, f)
        PROVE  TypeOK'
    <3>1. pendingFunctors' \in Seq(Functor)
      BY <2>1, AppendProperties DEF QueueInLoop
    <3>2. QED
      BY <2>1, <3>1 DEF QueueInLoop
  <2>2. ASSUME NEW t \in Thread, Quit(t)
        PROVE  TypeOK'
    BY <2>2 DEF Quit, RaiseQuit
  <2>3. ASSUME NEW t \in Thread, WakeupOwner(t)
        PROVE  TypeOK'
    <3>1. wakeupFd' \in 0..EventfdMax
      BY <2>3, WakeupReadable DEF WakeupOwner
    <3>2. QED
      BY <2>3, <3>1 DEF WakeupOwner
  <2>4. ASSUME NEW f \in Functor, QueueFromOwner(f)
        PROVE  TypeOK'
    <3>1. pendingFunctors' \in Seq(Functor)
      BY <2>4, AppendProperties DEF QueueFromOwner, QueueBehindMyself
    <3>2. wakeupFd' \in 0..EventfdMax
      <4>1. Wakeup(wakeupFd) \in 0..EventfdMax
        BY WakeupReadable
      <4> QED
        BY <2>4, <4>1 DEF QueueFromOwner, QueueBehindMyself
    <3>3. early' \in Nat
      BY <2>4 DEF QueueFromOwner, QueueBehindMyself
    <3> QED
      BY <2>4, <3>1, <3>2, <3>3 DEF QueueFromOwner, QueueBehindMyself
  <2>5. ASSUME NEW f \in Functor, RunFromOwner(f)
        PROVE  TypeOK'
    BY <2>5 DEF RunFromOwner
  <2>6. CASE QuitFromOwner
    BY <2>6 DEF QuitFromOwner
  <2>7. CASE Loop \/ ResetQuit
    BY <2>7 DEF Loop, ResetQuit
  <2>8. CASE EnterPoll
    BY <2>8 DEF EnterPoll
  <2>9. CASE LeaveLoop
    BY <2>9 DEF LeaveLoop
  <2>10. ASSUME NEW active \in SUBSET (Channel \union {WakeupChannel}),
                PollReturns(active)
         PROVE  TypeOK'
    BY <2>10 DEF PollReturns
  <2>11. CASE PollTimeout
    BY <2>11 DEF PollTimeout
  <2>12. CASE HandleRead
    BY <2>12 DEF HandleRead
  <2>13. ASSUME NEW c \in Channel, HandleEvent(c)
         PROVE  TypeOK'
    BY <2>13 DEF HandleEvent
  <2>14. CASE DoPendingFunctors
    BY <2>14 DEF DoPendingFunctors, OpenBatch
  <2>15. CASE RunFunctor
    <3>1. functors' \in Seq(Functor) /\ ran' \in Functor
      BY <2>15, HeadTailProperties DEF RunFunctor
    <3>2. QED
      BY <2>15, <3>1 DEF RunFunctor
  <2>16. CASE UserCodeReturns
    BY <2>16 DEF UserCodeReturns
  <2>17. CASE BatchDone
    BY <2>17 DEF BatchDone
  <2>18. CASE UNCHANGED vars
    BY <2>18 DEF vars
  <2> QED
    BY <2>1, <2>2, <2>3, <2>4, <2>5, <2>6, <2>7, <2>8, <2>9, <2>10, <2>11,
       <2>12, <2>13, <2>14, <2>15, <2>16, <2>17, <2>18
       DEF Next, OtherThread, UserCall, LoopStep
<1> QED
  BY <1>1, <1>2, PTL DEF Spec
-----------------------------------------------------------------------------
(****************************************************************************)
(* The wakeup handshake.  NoLostWakeup speaks of an owner in epoll_wait     *)
(* only; what carries it there is that the same holds wherever the owner is *)
(* on its way to epoll_wait, from the swap of the vector on.  Between the   *)
(* read of the eventfd and the swap it does not hold, and need not.         *)
(****************************************************************************)
BeforePoll == {"constructed", "starting", "while", "poll", "batch", "functor"}

(* A functor that came after loop() began, or a quit_ the owner can no      *)
(* longer see before it blocks, has a wakeup on its way.  A functor that    *)
(* queues a functor is announced because callingPendingFunctors_ is true    *)
(* whenever functors run, whatever its memory held before.                  *)
HandshakeInv ==
  /\ TypeOK
  /\ pc \in BeforePoll /\ Len(pendingFunctors) > early => WakeupOnItsWay
  /\ QuitWakesOwner
  /\ pc \in {"batch", "functor"} => callingPendingFunctors

(* The strengthened invariant of the handshake between queueInLoop, quit    *)
(* and the owner's epoll_wait is inductive.                                 *)
LEMMA HandshakeInductive == HandshakeInv /\ TypeOK' /\ [Next]_vars => HandshakeInv'
<1> SUFFICES ASSUME HandshakeInv, TypeOK', [Next]_vars
             PROVE  HandshakeInv'
  OBVIOUS
<1> USE DEF HandshakeInv, BeforePoll, WakeupOnItsWay, QuitWakesOwner
<1>1. ASSUME NEW t \in Thread, NEW f \in Functor, QueueInLoop(t, f)
      PROVE  HandshakeInv'
  <2>1. caller'[t] = "wakeup"
    BY <1>1 DEF QueueInLoop, TypeOK
  <2> QED
    BY <1>1, <2>1 DEF QueueInLoop
<1>2. ASSUME NEW t \in Thread, Quit(t)
      PROVE  HandshakeInv'
  <2>1. caller'[t] = "wakeup"
    BY <1>2 DEF Quit, RaiseQuit, TypeOK
  <2> QED
    BY <1>2, <2>1 DEF Quit, RaiseQuit
<1>3. ASSUME NEW t \in Thread, WakeupOwner(t)
      PROVE  HandshakeInv'
  <2>1. wakeupFd' > 0
    BY <1>3, WakeupReadable, EventLoopAssumption DEF WakeupOwner, TypeOK
  <2> QED
    BY <1>3, <2>1 DEF WakeupOwner
<1>4. ASSUME NEW f \in Functor, QueueFromOwner(f)
      PROVE  HandshakeInv'
  <2>1. Len(pendingFunctors') = Len(pendingFunctors) + 1
    BY <1>4, AppendProperties DEF QueueFromOwner, QueueBehindMyself, TypeOK
  <2>2. Len(pendingFunctors) \in Nat /\ early \in Nat
    BY LenProperties DEF TypeOK
  <2>3. CASE callingPendingFunctors
    <3>1. wakeupFd' > 0
      BY <1>4, <2>3, WakeupReadable, EventLoopAssumption
         DEF QueueFromOwner, QueueBehindMyself, TypeOK
    <3> QED
      BY <1>4, <3>1 DEF QueueFromOwner, QueueBehindMyself, UserCode
  <2>4. CASE ~callingPendingFunctors
    <3>1. UNCHANGED <<wakeupFd, callingPendingFunctors, caller, pc, quit>>
      BY <1>4, <2>4 DEF QueueFromOwner, QueueBehindMyself
    <3>2. pc \in {"constructed", "callback"}
      BY <1>4, <2>4 DEF QueueFromOwner, QueueBehindMyself, UserCode
    <3>3. pc = "constructed" => early' = early + 1
      BY <1>4 DEF QueueFromOwner, QueueBehindMyself
    <3> QED
      BY <2>1, <2>2, <3>1, <3>2, <3>3
  <2> QED
    BY <2>3, <2>4
<1>5. ASSUME NEW f \in Functor, RunFromOwner(f)
      PROVE  HandshakeInv'
  BY <1>5 DEF RunFromOwner
<1>6. CASE QuitFromOwner
  BY <1>6 DEF QuitFromOwner, UserCode
<1>7. CASE Loop \/ ResetQuit
  BY <1>7 DEF Loop, ResetQuit
<1>8. CASE EnterPoll
  BY <1>8 DEF EnterPoll
<1>9. CASE LeaveLoop
  BY <1>9 DEF LeaveLoop
<1>10. ASSUME NEW active \in SUBSET (Channel \union {WakeupChannel}),
              PollReturns(active)
       PROVE  HandshakeInv'
  BY <1>10 DEF PollReturns
<1>11. CASE PollTimeout
  BY <1>11 DEF PollTimeout
<1>12. CASE HandleRead
  BY <1>12 DEF HandleRead
<1>13. ASSUME NEW c \in Channel, HandleEvent(c)
       PROVE  HandshakeInv'
  BY <1>13 DEF HandleEvent
<1>14. CASE DoPendingFunctors
  <2>1. Len(pendingFunctors') = 0 /\ early' = 0
    BY <1>14 DEF DoPendingFunctors, OpenBatch
  <2> QED
    BY <1>14, <2>1 DEF DoPendingFunctors, OpenBatch
<1>15. CASE RunFunctor
  BY <1>15 DEF RunFunctor
<1>16. CASE UserCodeReturns
  BY <1>16 DEF UserCodeReturns
<1>17. CASE BatchDone
  BY <1>17 DEF BatchDone
<1>18. CASE UNCHANGED vars
  BY <1>18 DEF vars
<1> QED
  BY <1>1, <1>2, <1>3, <1>4, <1>5, <1>6, <1>7, <1>8, <1>9, <1>10, <1>11,
     <1>12, <1>13, <1>14, <1>15, <1>16, <1>17, <1>18
     DEF Next, OtherThread, UserCall, LoopStep

(* Every reachable state satisfies the strengthened invariant.              *)
LEMMA HandshakeInvariant == Spec => []HandshakeInv
<1>1. Init /\ TypeOK => HandshakeInv
  <2> SUFFICES ASSUME Init, TypeOK
               PROVE  HandshakeInv
    OBVIOUS
  <2>1. Len(pendingFunctors) = 0 /\ early = 0 /\ pc = "constructed"
    BY DEF Init
  <2> QED
    BY <2>1 DEF HandshakeInv, QuitWakesOwner
<1> QED
  BY <1>1, HandshakeInductive, TypeCorrect, PTL DEF Spec

(* No lost wakeup: the owner of a loop never sits in epoll_wait over a      *)
(* functor that a wakeup was due for, with neither the eventfd readable nor *)
(* a thread about to write it (EventLoop::queueInLoop, ::doPendingFunctors).*)
THEOREM NoLostWakeupHolds == Spec => []NoLostWakeup
<1>1. HandshakeInv => NoLostWakeup
  BY DEF HandshakeInv, BeforePoll, NoLostWakeup
<1> QED
  BY <1>1, HandshakeInvariant, PTL

(* No lost quit: an owner in epoll_wait with quit_ set has a wakeup coming  *)
(* (EventLoop::quit, ::loop).                                               *)
THEOREM QuitWakesOwnerHolds == Spec => []QuitWakesOwner
<1>1. HandshakeInv => QuitWakesOwner
  BY DEF HandshakeInv
<1> QED
  BY <1>1, HandshakeInvariant, PTL

-----------------------------------------------------------------------------
(****************************************************************************)
(* The loop implements TaskQueue.  Its queue is the rest of the batch       *)
(* followed by the shared vector; the swap of doPendingFunctors moves every *)
(* functor from one to the other and must leave the queue as it is, which   *)
(* it does because no batch is open then.                                   *)
(****************************************************************************)
BatchInv ==
  /\ TypeOK
  /\ pc \notin {"batch", "functor"} => functors = <<>>

(* A functor appended to the shared vector is appended to the whole queue.  *)
LEMMA AppendToQueue ==
  ASSUME NEW s \in Seq(Functor), NEW r \in Seq(Functor), NEW f \in Functor
  PROVE  r \o Append(s, f) = Append(r \o s, f)
<1>1. Append(s, f) = s \o <<f>> /\ <<f>> \in Seq(Functor)
  BY AppendIsConcat
<1>2. r \o s \in Seq(Functor)
  BY ConcatProperties
<1>3. Append(r \o s, f) = (r \o s) \o <<f>>
  BY <1>2, AppendIsConcat
<1> QED
  BY <1>1, <1>3, ConcatAssociative

(* The head of the batch is the head of the whole queue.                    *)
LEMMA HeadOfQueue ==
  ASSUME NEW s \in Seq(Functor), NEW r \in Seq(Functor), r # <<>>
  PROVE  /\ r \o s # <<>>
         /\ Head(r \o s) = Head(r)
         /\ Tail(r \o s) = Tail(r) \o s
<1>1. r \o s \in Seq(Functor) /\ Len(r \o s) = Len(r) + Len(s)
  BY ConcatProperties
<1>2. Len(r) \in Nat \ {0} /\ Len(s) \in Nat
  BY EmptySeq, LenProperties
<1>3. r \o s # <<>>
  BY <1>1, <1>2
<1>4. Head(r \o s) = Head(r)
  BY <1>1, <1>2, ConcatProperties
<1>5. Tail(r \o s) = Tail(r) \o s
  <2>1. Tail(r \o s) \in Seq(Functor) /\ Len(Tail(r \o s)) = Len(r) + Len(s) - 1
    BY <1>1, <1>3, HeadTailProperties
  <2>2. Tail(r) \in Seq(Functor) /\ Len(Tail(r)) = Len(r) - 1
    BY HeadTailProperties
  <2>3. /\ Tail(r) \o s \in Seq(Functor)
        /\ Len(Tail(r) \o s) = Len(r) + Len(s) - 1
    BY <1>2, <2>2, ConcatProperties
  <2>4. ASSUME NEW i \in 1..(Len(r) + Len(s) - 1)
        PROVE  Tail(r \o s)[i] = (Tail(r) \o s)[i]
    <3>1. Tail(r \o s)[i] = (r \o s)[i + 1]
      BY <1>1, <1>3, <2>1, HeadTailProperties
    <3>2. (r \o s)[i + 1] = IF i + 1 <= Len(r) THEN r[i + 1] ELSE s[i + 1 - Len(r)]
      BY <1>2, ConcatProperties
    <3>3. (Tail(r) \o s)[i] = IF i <= Len(r) - 1 THEN Tail(r)[i] ELSE s[i - (Len(r) - 1)]
      BY <1>2, <2>2, ConcatProperties
    <3>4. i <= Len(r) - 1 => Tail(r)[i] = r[i + 1]
      BY <1>2, <2>2, HeadTailProperties
    <3> QED
      BY <1>2, <3>1, <3>2, <3>3, <3>4
  <2> QED
    BY <2>1, <2>2, <2>3, <2>4, SeqEqual
<1> QED
  BY <1>3, <1>4, <1>5

(* Outside of doPendingFunctors no batch is open.                           *)
LEMMA BatchInvariant == Spec => []BatchInv
<1>1. Init /\ TypeOK => BatchInv
  BY DEF Init, BatchInv
<1>2. BatchInv /\ TypeOK' /\ [Next]_vars => BatchInv'
  <2> SUFFICES ASSUME BatchInv, TypeOK', [Next]_vars
               PROVE  BatchInv'
    OBVIOUS
  <2> USE DEF BatchInv
  <2>1. CASE \E t \in Thread : OtherThread(t)
    BY <2>1 DEF OtherThread, QueueInLoop, Quit, RaiseQuit, WakeupOwner
  <2>2. CASE UserCall
    BY <2>2 DEF UserCall, QueueFromOwner, QueueBehindMyself, RunFromOwner, QuitFromOwner
  <2>3. CASE Loop \/ ResetQuit \/ EnterPoll \/ LeaveLoop \/ PollTimeout \/ HandleRead
    BY <2>3 DEF Loop, ResetQuit, EnterPoll, LeaveLoop, PollTimeout, HandleRead
  <2>4. ASSUME NEW active \in SUBSET (Channel \union {WakeupChannel}),
               PollReturns(active)
        PROVE  BatchInv'
    BY <2>4 DEF PollReturns
  <2>5. ASSUME NEW c \in Channel, HandleEvent(c)
        PROVE  BatchInv'
    BY <2>5 DEF HandleEvent
  <2>6. CASE DoPendingFunctors \/ RunFunctor \/ UserCodeReturns \/ BatchDone
    BY <2>6 DEF DoPendingFunctors, OpenBatch, RunFunctor, UserCodeReturns, BatchDone
  <2>7. CASE UNCHANGED vars
    BY <2>7 DEF vars
  <2> QED
    BY <2>1, <2>2, <2>3, <2>4, <2>5, <2>6, <2>7 DEF Next, LoopStep
<1> QED
  BY <1>1, <1>2, TypeCorrect, PTL DEF Spec

(* Functors queued from any thread are executed in the order they entered   *)
(* the vector, each once per time it was queued and none lost or overtaken, *)
(* although they pass through two vectors (EventLoop::queueInLoop,          *)
(* ::runInLoop, ::doPendingFunctors).                                       *)
THEOREM LoopImplementsTaskQueue == Spec => ImplementsTaskQueue
<1>1. Init => TQ!Init
  <2> SUFFICES ASSUME Init
               PROVE  TQ!Init
    OBVIOUS
  <2>1. functors \o pendingFunctors = <<>>
    BY DEF Init
  <2> QED
    BY <2>1 DEF Init, TQ!Init
<1>2. BatchInv /\ [Next]_vars => [TQ!Next]_TQ!vars
  <2> SUFFICES ASSUME BatchInv, [Next]_vars
               PROVE  [TQ!Next]_TQ!vars
    OBVIOUS
  <2> USE DEF TQ!vars
  <2>0. pendingFunctors \in Seq(Functor) /\ functors \in Seq(Functor)
    BY DEF BatchInv, TypeOK
  <2>1. ASSUME NEW f \in Functor,
               UNCHANGED <<functors, ran>>,
               pendingFunctors' = Append(pendingFunctors, f)
        PROVE  TQ!Next
    <3>1. (functors \o pendingFunctors)' = Append(functors \o pendingFunctors, f)
      BY <2>0, <2>1, AppendToQueue
    <3>2. TQ!Submit(f)
      BY <2>1, <3>1 DEF TQ!Submit
    <3> QED
      BY <3>2 DEF TQ!Next
  <2>2. ASSUME NEW f \in Functor, RunFromOwner(f)
        PROVE  TQ!Next
    <3>1. TQ!ExecuteNow(f)
      BY <2>2 DEF RunFromOwner, TQ!ExecuteNow
    <3> QED
      BY <3>1 DEF TQ!Next
  <2>3. CASE DoPendingFunctors
    <3>1. functors = <<>> /\ functors' = pendingFunctors /\ pendingFunctors' = <<>>
      BY <2>3 DEF DoPendingFunctors, OpenBatch, BatchInv
    <3>2. functors \o pendingFunctors = pendingFunctors
      BY <2>0, <3>1, ConcatEmptySeq
    <3>3. functors' \o pendingFunctors' = pendingFunctors
      BY <2>0, <3>1, ConcatEmptySeq
    <3> QED
      BY <2>3, <3>2, <3>3 DEF DoPendingFunctors, OpenBatch
  <2>4. CASE RunFunctor
    <3>1. /\ functors \o pendingFunctors # <<>>
          /\ Head(functors \o pendingFunctors) = Head(functors)
          /\ Tail(functors \o pendingFunctors) = Tail(functors) \o pendingFunctors
      BY <2>0, <2>4, HeadOfQueue DEF RunFunctor
    <3>2. TQ!Execute
      BY <2>4, <3>1 DEF RunFunctor, TQ!Execute
    <3> QED
      BY <3>2 DEF TQ!Next
  <2>5. ASSUME UNCHANGED <<functors, pendingFunctors, ran>>
        PROVE  UNCHANGED TQ!vars
    BY <2>5
  <2>6. CASE \E t \in Thread : OtherThread(t)
    BY <2>1, <2>5, <2>6 DEF OtherThread, QueueInLoop, Quit, RaiseQuit, WakeupOwner
  <2>7. CASE UserCall
    BY <2>1, <2>2, <2>5, <2>7 DEF UserCall, QueueFromOwner, QueueBehindMyself, QuitFromOwner
  <2>8. CASE Loop \/ ResetQuit \/ EnterPoll \/ LeaveLoop \/ PollTimeout \/ HandleRead
             \/ UserCodeReturns \/ BatchDone
    BY <2>5, <2>8 DEF Loop, ResetQuit, EnterPoll, LeaveLoop, PollTimeout, HandleRead,
                      UserCodeReturns, BatchDone
  <2>9. ASSUME NEW active \in SUBSET (Channel \union {WakeupChannel}),
               PollReturns(active)
        PROVE  UNCHANGED TQ!vars
    BY <2>5, <2>9 DEF PollReturns
  <2>10. ASSUME NEW c \in Channel, HandleEvent(c)
         PROVE  UNCHANGED TQ!vars
    BY <2>5, <2>10 DEF HandleEvent
  <2>11. CASE UNCHANGED vars
    BY <2>5, <2>11 DEF vars
  <2> QED
    BY <2>3, <2>4, <2>6, <2>7, <2>8, <2>9, <2>10, <2>11 DEF Next, LoopStep
<1> QED
  BY <1>1, <1>2, BatchInvariant, PTL DEF Spec, ImplementsTaskQueue, TQ!Spec
=============================================================================
