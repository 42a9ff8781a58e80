---------------------- MODULE EventLoopThreadPoolProofs ----------------------
(****************************************************************************)
(* The safety properties of EventLoopThreadPool, for any number of threads. *)
(* Typing needs to know how cur and pushed go together, what the loops are  *)
(* doing depends on how far start() is, and the turns of getNextLoop are    *)
(* counted from next_.                                                      *)
(****************************************************************************)
EXTENDS EventLoopThreadPool, TLAPS

Starting == {"new", "sem", "lock", "waiting"}

AwaitingOne == {"sem", "lock", "waiting"}

Destroying == {"dtor", "quit", "wakeup", "join"}

\* start() pushes one loop per turn; a destructor comes no further than to the first thread.
CountInv ==
  /\ base \in Starting => pushed = cur - 1 /\ next = 0
  /\ base \in AwaitingOne => cur <= NumThreads
  /\ base \notin Starting => cur = 1 /\ pushed = NumThreads
  /\ base \in Destroying => NumThreads > 0

(* A pool as its constructor leaves it is well typed and counts nothing.    *)
LEMMA CountInit == Init => TypeOK /\ CountInv
  BY PoolAssumption DEF Init, TypeOK, CountInv, BasePC, ChildPC, Worker, Starting, AwaitingOne,
     Destroying

(* Each action keeps the types and the counts.                              *)
LEMMA CountStep == TypeOK /\ CountInv /\ [Next]_vars => TypeOK' /\ CountInv'
<1> SUFFICES ASSUME TypeOK, CountInv, [Next]_vars
             PROVE  TypeOK' /\ CountInv'
  OBVIOUS
<1> USE PoolAssumption DEF TypeOK, CountInv, BasePC, ChildPC, Worker, Starting, AwaitingOne,
        Destroying
<1>0. base = "new" => /\ base \notin AwaitingOne /\ base \notin Destroying
                      /\ pushed = cur - 1 /\ next = 0
  OBVIOUS
<1>1. CASE StartThread
  <2>1. CASE cur <= NumThreads
    <3>1. child' = [child EXCEPT ![cur] = "spawned"] /\ base' = "sem"
      BY <1>1, <2>1 DEF StartThread
    <3>2. child' \in [Worker -> ChildPC]
      BY <3>1
    <3>3. UNCHANGED <<cur, pushed, next, published, notified, quit, wakeup, given>>
      BY <1>1, <2>1 DEF StartThread
    <3> QED BY <1>1, <1>0, <2>1, <3>1, <3>2, <3>3 DEF StartThread
  <2>2. CASE ~(cur <= NumThreads)
    <3>1. base' = "serving" /\ cur' = 1 /\ base = "new"
      BY <1>1, <2>2 DEF StartThread
    <3>2. UNCHANGED <<child, pushed, next, published, notified, quit, wakeup, given>>
      BY <1>1, <2>2 DEF StartThread
    <3>3. cur = NumThreads + 1
      BY <2>2
    <3>4. pushed = NumThreads
      BY <1>0, <3>1, <3>3
    <3> QED BY <3>1, <3>2, <3>3, <3>4
  <2> QED BY <2>1, <2>2
<1>2. CASE SemWait
  BY <1>2 DEF SemWait
<1>3. CASE LockForLoop \/ WakeForLoop
  <2>1. base \in AwaitingOne /\ AwaitLoop(published[cur])
    BY <1>3 DEF LockForLoop, WakeForLoop
  <2>2. cur \in Worker /\ pushed = cur - 1 /\ next = 0
    BY <2>1
  <2>3. UNCHANGED <<next, child, published, quit, wakeup, given>>
    BY <2>1 DEF AwaitLoop
  <2>4. CASE published[cur]
    <3>1. GotLoop
      BY <2>1, <2>4 DEF AwaitLoop
    <3> QED BY <2>2, <2>3, <3>1 DEF GotLoop
  <2>5. CASE ~published[cur]
    <3>1. StartWaiting
      BY <2>1, <2>5 DEF AwaitLoop
    <3> QED BY <2>2, <2>3, <3>1 DEF StartWaiting
  <2> QED BY <2>4, <2>5
<1>5. CASE GetNextLoop
  BY <1>5 DEF GetNextLoop, Wrap
<1>6. CASE DestroyPool
  BY <1>6 DEF DestroyPool
<1>7. CASE DestroyStep
  BY <1>7 DEF DestroyStep, ReadLoop, SetQuit, Wakeup, Join
<1>8. ASSUME NEW i \in Worker, ThreadStep(i) \/ PollReturns(i) \/ UserQuit(i)
      PROVE  TypeOK' /\ CountInv'
  <2>1. UNCHANGED <<base, cur, pushed, next, given>>
    BY <1>8 DEF ThreadStep, Moves, BuildLoop, PublishLoop, EnterLoop, TestQuit, CallbacksReturn,
       UnpublishLoop, DestroyLoop, PollReturns, UserQuit
  <2>2. /\ child' \in [Worker -> ChildPC]
        /\ published' \in [Worker -> BOOLEAN]
        /\ notified' \in [Worker -> BOOLEAN]
        /\ quit' \in [Worker -> BOOLEAN]
        /\ wakeup' \in [Worker -> BOOLEAN]
    <3>1. CASE BuildLoop(i) \/ CallbacksReturn(i) \/ DestroyLoop(i)
      BY <3>1 DEF BuildLoop, CallbacksReturn, DestroyLoop, Moves
    <3>2. CASE PublishLoop(i) \/ UnpublishLoop(i)
      BY <3>2 DEF PublishLoop, UnpublishLoop, Moves
    <3>3. CASE EnterLoop(i) \/ TestQuit(i)
      BY <3>3 DEF EnterLoop, TestQuit, Moves
    <3>4. CASE PollReturns(i) \/ UserQuit(i)
      BY <3>4 DEF PollReturns, UserQuit, Moves
    <3> QED BY <1>8, <3>1, <3>2, <3>3, <3>4 DEF ThreadStep
  <2> QED BY <2>1, <2>2
<1>9. CASE UNCHANGED vars
  BY <1>9 DEF vars
<1> QED
  BY <1>1, <1>2, <1>3, <1>5, <1>6, <1>7, <1>8, <1>9 DEF Next, StartStep

(* Types and counts hold in every reachable state.                          *)
LEMMA CountInvariant == Spec => [](TypeOK /\ CountInv)
  BY CountInit, CountStep, PTL DEF Spec

(* The types of EventLoopThreadPool hold, for any number of threads: among  *)
(* them that next_ stays inside loops_ (EventLoopThreadPool::getNextLoop).  *)
THEOREM PoolTypeCorrect == Spec => []TypeOK
  BY CountInvariant, PTL

-----------------------------------------------------------------------------
(* Each action keeps the promise of a notification.                         *)
LEMMA NotificationStep ==
  TypeOK /\ CountInv /\ NoLostNotification /\ [Next]_vars => NoLostNotification'
<1> SUFFICES ASSUME TypeOK, CountInv, NoLostNotification, [Next]_vars
             PROVE  NoLostNotification'
  OBVIOUS
<1> USE PoolAssumption DEF NoLostNotification
<1>1. CASE LockForLoop \/ WakeForLoop
  <2>1. AwaitLoop(published[cur])
    BY <1>1 DEF LockForLoop, WakeForLoop
  <2>2. CASE published[cur]
    BY <2>1, <2>2 DEF AwaitLoop, GotLoop
  <2>3. CASE ~published[cur]
    BY <2>1, <2>3 DEF AwaitLoop, StartWaiting
  <2> QED BY <2>2, <2>3
<1>2. CASE StartThread \/ SemWait \/ GetNextLoop \/ DestroyPool \/ DestroyStep
  BY <1>2 DEF StartThread, SemWait, GetNextLoop, DestroyPool, DestroyStep, ReadLoop, SetQuit,
     Wakeup, Join
<1>3. ASSUME NEW i \in Worker, PublishLoop(i)
      PROVE  NoLostNotification'
  <2>1. base' = base /\ cur' = cur
    BY <1>3 DEF PublishLoop
  <2> SUFFICES ASSUME base = "waiting", published'[cur]
               PROVE  notified'[cur]
    BY <2>1
  <2>2. cur \in Worker
    BY DEF CountInv, TypeOK, AwaitingOne, Worker
  <2>3. CASE cur = i
    BY <1>3, <2>2, <2>3 DEF PublishLoop, TypeOK
  <2>4. CASE cur # i
    BY <1>3, <2>2, <2>4 DEF PublishLoop, TypeOK
  <2> QED BY <2>3, <2>4
<1>4. ASSUME NEW i \in Worker, UnpublishLoop(i)
      PROVE  NoLostNotification'
  <2>1. UNCHANGED <<base, cur, notified>> /\ published' = [published EXCEPT ![i] = FALSE]
    BY <1>4 DEF UnpublishLoop
  <2>2. base = "waiting" => cur \in Worker
    BY DEF CountInv, TypeOK, AwaitingOne, Worker
  <2> QED BY <2>1, <2>2 DEF TypeOK
<1>5. ASSUME NEW i \in Worker,
             \/ BuildLoop(i) \/ EnterLoop(i) \/ TestQuit(i) \/ CallbacksReturn(i)
             \/ DestroyLoop(i) \/ PollReturns(i) \/ UserQuit(i)
      PROVE  NoLostNotification'
  BY <1>5 DEF BuildLoop, EnterLoop, TestQuit, CallbacksReturn, DestroyLoop, PollReturns, UserQuit
<1>6. CASE UNCHANGED vars
  BY <1>6 DEF vars
<1> QED
  BY <1>1, <1>2, <1>3, <1>4, <1>5, <1>6 DEF Next, StartStep, ThreadStep

(* While startLoop sleeps on cond_ the loop is not there yet or its         *)
(* notification is on its way: startLoop looks at loop_ under the mutex     *)
(* right before it sleeps (EventLoopThread::startLoop, threadFunc).         *)
THEOREM NoLostNotificationHolds == Spec => []NoLostNotification
<1>1. Init => NoLostNotification
  BY DEF Init, NoLostNotification
<1> QED
  BY <1>1, CountInvariant, NotificationStep, PTL DEF Spec

-----------------------------------------------------------------------------
(* Where a loop's thread is, against loop_, quit_ and how far start() is.   *)

PublishedPC == {"published", "while", "poll", "dispatch", "left"}

ThreadInv ==
  \A i \in Worker :
    /\ published[i] <=> child[i] \in PublishedPC
    /\ child[i] \in {"left", "unpublished", "finished"} => quit[i]
    /\ i <= pushed => child[i] \notin {"none", "spawned", "init"}
    /\ base = "new" /\ i >= cur => child[i] = "none"
    /\ base \in AwaitingOne /\ i > cur => child[i] = "none"

(* Before start() no thread is there and no loop is published.              *)
LEMMA ThreadInit == Init => ThreadInv
  BY PoolAssumption DEF Init, ThreadInv, PublishedPC, Worker, AwaitingOne

(* Each action keeps every thread's place in agreement with loop_, quit_    *)
(* and the progress of start().                                             *)
LEMMA ThreadStepKeeps ==
  TypeOK /\ CountInv /\ TypeOK' /\ CountInv' /\ ThreadInv /\ [Next]_vars => ThreadInv'
<1> SUFFICES ASSUME TypeOK, CountInv, TypeOK', CountInv', ThreadInv, [Next]_vars,
                    NEW j \in Worker
             PROVE  ThreadInv!(j)'
  BY DEF ThreadInv
<1>0. ThreadInv!(j)
  BY DEF ThreadInv
<1> USE PoolAssumption DEF PublishedPC, AwaitingOne
<1>t. /\ cur \in 1..(NumThreads + 1) /\ pushed \in 0..NumThreads
      /\ child \in [Worker -> ChildPC] /\ published \in [Worker -> BOOLEAN]
      /\ quit \in [Worker -> BOOLEAN] /\ j \in 1..NumThreads
  BY DEF TypeOK, Worker
<1>c. /\ base \in {"new", "sem", "lock", "waiting"} => pushed = cur - 1
      /\ base \in {"sem", "lock", "waiting"} => cur <= NumThreads
  BY DEF CountInv, Starting
<1>1. CASE StartThread
  <2>1. base = "new" /\ UNCHANGED <<pushed, published, quit>>
    BY <1>1 DEF StartThread
  <2>2. CASE cur <= NumThreads
    <3>1. base' = "sem" /\ cur' = cur /\ child' = [child EXCEPT ![cur] = "spawned"]
      BY <1>1, <2>2 DEF StartThread
    <3> QED BY <1>0, <1>t, <1>c, <2>1, <2>2, <3>1
  <2>3. CASE ~(cur <= NumThreads)
    <3>1. base' = "serving" /\ child' = child
      BY <1>1, <2>3 DEF StartThread
    <3> QED BY <1>0, <2>1, <3>1
  <2> QED BY <2>2, <2>3
<1>2. CASE SemWait
  BY <1>2, <1>0, <1>t, <1>c DEF SemWait
<1>3. CASE LockForLoop \/ WakeForLoop
  <2>1. base \in AwaitingOne /\ AwaitLoop(published[cur])
    BY <1>3 DEF LockForLoop, WakeForLoop
  <2>2. UNCHANGED <<child, published, quit>> /\ cur \in Worker
    BY <2>1, <1>t, <1>c DEF AwaitLoop, Worker
  <2>3. CASE published[cur]
    <3>1. pushed' = pushed + 1 /\ cur' = cur + 1 /\ base' = "new"
      BY <2>1, <2>3 DEF AwaitLoop, GotLoop
    <3>2. child[cur] \in PublishedPC
      BY <2>2, <2>3 DEF ThreadInv
    <3> QED BY <1>0, <1>t, <1>c, <2>1, <2>2, <3>1, <3>2
  <2>4. CASE ~published[cur]
    <3>1. UNCHANGED <<pushed, cur>> /\ base' = "waiting"
      BY <2>1, <2>4 DEF AwaitLoop, StartWaiting
    <3> QED BY <1>0, <2>1, <2>2, <3>1
  <2> QED BY <2>3, <2>4
<1>4. CASE GetNextLoop \/ DestroyPool \/ ReadLoop \/ Wakeup \/ Join
  <2>1. UNCHANGED <<child, published, quit, pushed, cur>>
    BY <1>4 DEF GetNextLoop, DestroyPool, ReadLoop, Wakeup, Join
  <2>2. base' \notin {"new", "sem", "lock", "waiting"}
    BY <1>4 DEF GetNextLoop, DestroyPool, ReadLoop, Wakeup, Join
  <2> QED BY <1>0, <2>1, <2>2
<1>5. CASE SetQuit
  <2>1. /\ UNCHANGED <<child, published, pushed, cur>> /\ base' = "wakeup"
        /\ quit' = [quit EXCEPT ![cur] = @ \/ LoopAlive(cur)]
    BY <1>5 DEF SetQuit
  <2>2. quit[j] => quit'[j]
    BY <2>1, <1>t DEF Worker
  <2> QED BY <1>0, <2>1, <2>2
<1>6. ASSUME NEW i \in Worker, ThreadStep(i) \/ PollReturns(i) \/ UserQuit(i)
      PROVE  ThreadInv!(j)'
  <2>1. UNCHANGED <<base, cur, pushed>>
    BY <1>6 DEF ThreadStep, Moves, BuildLoop, PublishLoop, EnterLoop, TestQuit, CallbacksReturn,
       UnpublishLoop, DestroyLoop, PollReturns, UserQuit
  <2>2. CASE i # j
    <3>1. child'[j] = child[j] /\ published'[j] = published[j] /\ quit'[j] = quit[j]
      BY <1>6, <1>t, <2>2 DEF ThreadStep, Moves, BuildLoop, PublishLoop, EnterLoop, TestQuit,
         CallbacksReturn, UnpublishLoop, DestroyLoop, PollReturns, UserQuit
    <3> QED BY <1>0, <2>1, <3>1
  <2>3. CASE i = j
    <3>1. CASE BuildLoop(i) \/ CallbacksReturn(i) \/ DestroyLoop(i) \/ PollReturns(i)
      BY <3>1, <1>0, <1>t, <2>1, <2>3 DEF BuildLoop, CallbacksReturn, DestroyLoop, PollReturns,
         Moves
    <3>2. CASE PublishLoop(i) \/ UnpublishLoop(i)
      BY <3>2, <1>0, <1>t, <2>1, <2>3 DEF PublishLoop, UnpublishLoop, Moves
    <3>3. CASE EnterLoop(i) \/ TestQuit(i)
      BY <3>3, <1>0, <1>t, <2>1, <2>3 DEF EnterLoop, TestQuit, Moves
    <3>4. CASE UserQuit(i)
      BY <3>4, <1>0, <1>t, <2>1, <2>3 DEF UserQuit
    <3> QED BY <1>6, <3>1, <3>2, <3>3, <3>4 DEF ThreadStep
  <2> QED BY <2>2, <2>3
<1>7. CASE UNCHANGED vars
  BY <1>7, <1>0 DEF vars
<1> QED
  BY <1>1, <1>2, <1>3, <1>4, <1>5, <1>6, <1>7 DEF Next, StartStep, DestroyStep

(* getNextLoop hands out a loop that is built and not gone, unless it was   *)
(* told to quit (EventLoopThreadPool::getNextLoop, threadFunc).             *)
THEOREM LoopsAreAliveHolds == Spec => []LoopsAreAlive
<1>1. ThreadInv /\ TypeOK => LoopsAreAlive
  BY PoolAssumption DEF ThreadInv, TypeOK, LoopsAreAlive, LoopAlive, Worker, ChildPC, PublishedPC
<1> QED
  BY <1>1, ThreadInit, ThreadStepKeeps, CountInvariant, PTL DEF Spec

-----------------------------------------------------------------------------
(* The loops before next_ have had one turn more than those behind it.      *)

Turn(i) == IF i <= next THEN 1 ELSE 0

TurnInv ==
  /\ base \in Starting => \A i \in Worker : given[i] = 0
  /\ \A i, j \in 1..pushed : given[i] - given[j] = Turn(i) - Turn(j)

(* Each action keeps the turns: only getNextLoop changes them.              *)
LEMMA TurnStep ==
  TypeOK /\ CountInv /\ TypeOK' /\ CountInv' /\ TurnInv /\ [Next]_vars => TurnInv'
<1> SUFFICES ASSUME TypeOK, CountInv, TypeOK', CountInv', TurnInv, [Next]_vars
             PROVE  TurnInv'
  OBVIOUS
<1>t. /\ pushed \in 0..NumThreads /\ pushed' \in 0..NumThreads
      /\ given \in [0..NumThreads -> Nat]
      /\ next \in 0..NumThreads /\ (pushed > 0 => next < pushed)
  BY DEF TypeOK
<1>1. CASE UNCHANGED <<next, given>> /\ base \in Starting
  <2>1. next = 0 /\ next' = 0
    BY <1>1 DEF CountInv
  <2>2. \A i \in Worker : given'[i] = 0
    BY <1>1 DEF TurnInv
  <2>3. \A i \in 1..pushed' : i \in Worker /\ ~(i <= next')
    BY <1>t, <2>1, PoolAssumption DEF Worker
  <2> QED BY <2>2, <2>3 DEF TurnInv, Turn
<1>2. CASE UNCHANGED <<next, given, pushed>> /\ (base' \in Starting => base \in Starting)
  BY <1>2 DEF TurnInv, Turn
<1>3. CASE GetNextLoop
  <2>1. base' \notin Starting /\ pushed' = pushed
    BY <1>3 DEF GetNextLoop, Starting
  <2>2. CASE pushed = 0
    BY <2>1, <2>2 DEF TurnInv
  <2>3. CASE pushed > 0
    <3>1. given' = [given EXCEPT ![next + 1] = @ + 1] /\ next' = Wrap(next + 1)
      <4>1. pushed # 0
        BY <1>t, <2>3, PoolAssumption
      <4> QED BY <1>3, <4>1 DEF GetNextLoop
    <3>2. SUFFICES ASSUME NEW i \in 1..pushed, NEW j \in 1..pushed
                   PROVE  given'[i] - given'[j] = Turn(i)' - Turn(j)'
      BY <2>1 DEF TurnInv
    <3>3. given[i] \in Nat /\ given[j] \in Nat /\ given[i] - given[j] = Turn(i) - Turn(j)
      BY <1>t, PoolAssumption DEF TurnInv
    <3>4. /\ given'[i] = given[i] + (IF i = next + 1 THEN 1 ELSE 0)
          /\ given'[j] = given[j] + (IF j = next + 1 THEN 1 ELSE 0)
      BY <1>t, <3>1, PoolAssumption
    <3>5. next' = IF next + 1 = pushed THEN 0 ELSE next + 1
      BY <1>t, <2>3, <3>1, PoolAssumption DEF Wrap
    <3>6. i \in Nat /\ j \in Nat /\ next \in Nat /\ pushed \in Nat
          /\ 1 <= i /\ i <= pushed /\ 1 <= j /\ j <= pushed
      BY <1>t, PoolAssumption
    <3>7. given'[i] - given'[j] = (IF i <= next + 1 THEN 1 ELSE 0)
                                  - (IF j <= next + 1 THEN 1 ELSE 0)
      BY <3>3, <3>4, <3>6 DEF Turn
    <3>8. CASE next + 1 = pushed
      BY <3>5, <3>6, <3>7, <3>8 DEF Turn
    <3>9. CASE next + 1 # pushed
      BY <3>5, <3>6, <3>7, <3>9 DEF Turn
    <3> QED BY <3>8, <3>9
  <2> QED BY <1>t, <2>2, <2>3, PoolAssumption
<1>4. CASE StartStep \/ WakeForLoop
  <2>1. UNCHANGED <<next, given>> /\ base \in Starting
    BY <1>4 DEF StartStep, StartThread, SemWait, LockForLoop, WakeForLoop, AwaitLoop, Starting
  <2> QED BY <2>1, <1>1
<1>5. CASE DestroyPool \/ DestroyStep
  BY <1>5, <1>2 DEF DestroyPool, DestroyStep, ReadLoop, SetQuit, Wakeup, Join, Starting
<1>6. ASSUME NEW i \in Worker, ThreadStep(i) \/ PollReturns(i) \/ UserQuit(i)
      PROVE  TurnInv'
  BY <1>6, <1>2 DEF ThreadStep, Moves, BuildLoop, PublishLoop, EnterLoop, TestQuit,
     CallbacksReturn, UnpublishLoop, DestroyLoop, PollReturns, UserQuit
<1>7. CASE UNCHANGED vars
  BY <1>7, <1>2 DEF vars
<1> QED
  BY <1>3, <1>4, <1>5, <1>6, <1>7 DEF Next

(* getNextLoop deals the loops out in turn, none is ever two behind, for    *)
(* any number of threads (EventLoopThreadPool::getNextLoop).                *)
THEOREM RoundRobinHolds == Spec => []RoundRobin
<1>1. Init => TurnInv
  BY PoolAssumption DEF Init, TurnInv, Turn, Worker, Starting
<1>2. TurnInv /\ TypeOK => RoundRobin
  <2> SUFFICES ASSUME TurnInv, TypeOK, NEW i \in 1..pushed, NEW j \in 1..pushed, i <= j
               PROVE  given[i] - given[j] \in {0, 1}
    BY DEF RoundRobin
  <2>1. given[i] - given[j] = Turn(i) - Turn(j)
    BY DEF TurnInv
  <2>2. next \in Nat /\ i \in Nat /\ j \in Nat
    BY PoolAssumption DEF TypeOK
  <2> QED BY <2>1, <2>2 DEF Turn
<1> QED
  BY <1>1, <1>2, TurnStep, CountInvariant, PTL DEF Spec
=============================================================================
