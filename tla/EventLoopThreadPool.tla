------------------------- MODULE EventLoopThreadPool -------------------------
(****************************************************************************)
(* An EventLoopThreadPool with its EventLoopThreads and their Threads       *)
(* (EventLoopThreadPool.cc, EventLoopThread.cc, Thread.cc).  The base       *)
(* thread starts the pool, asks it for loops and at last destroys it; every *)
(* other thread builds an EventLoop on its own stack, publishes its address *)
(* in loop_, runs it and takes the address back.                            *)
(*                                                                          *)
(* The bodies under mutex_ are one step each.  What is NOT under it is what *)
(* is hard: the destructor reads loop_ and calls quit() on a loop whose     *)
(* thread may be anywhere, before loop() and behind it included.            *)
(****************************************************************************)
EXTENDS Integers

CONSTANTS NumThreads,      \* numThreads_
          UserCodeQuits,   \* may callbacks on a loop's thread call quit() on it?
          MaxGets          \* BOUND: calls of getNextLoop

ASSUME PoolAssumption == /\ NumThreads \in Nat
                         /\ UserCodeQuits \in BOOLEAN
                         /\ MaxGets \in Nat

VARIABLES
  base,       \* where the base thread is
  cur,        \* the EventLoopThread it starts or destroys
  pushed,     \* how many loops are in loops_
  next,       \* next_
  child,      \* where each other thread is in threadFunc
  published,  \* is loop_ of the EventLoopThread non-null?
  notified,   \* has cond_ of the EventLoopThread been notified while waited for?
  quit,       \* quit_ of the loop
  wakeup,     \* is the eventfd of the loop readable?
  given       \* history: how often getNextLoop returned each loop, 0 for baseloop_

vars == <<base, cur, pushed, next, child, published, notified, quit, wakeup, given>>

Worker == 1..NumThreads

(****************************************************************************)
(* "sem" in Thread::start, "lock" before and "waiting" in the critical      *)
(* section of startLoop, "serving" with the pool started, "dtor" before the *)
(* read of loop_, "quit" and "wakeup" before the two halves of quit(),      *)
(* "join" in it, "terminated" after std::terminate.                         *)
(****************************************************************************)
BasePC == {"new", "sem", "lock", "waiting", "serving", "dtor", "quit", "wakeup",
           "join", "terminated"}

\* "init" until loop_ is published, "published" until loop(), "left" after loop(),
\* "unpublished" until ~EventLoop.
ChildPC == {"none", "spawned", "init", "published", "while", "poll", "dispatch",
            "left", "unpublished", "finished"}

LoopAlive(i) == child[i] \notin {"none", "spawned", "finished"}

TypeOK ==
  /\ base \in BasePC
  /\ cur \in 1..(NumThreads + 1)
  /\ pushed \in 0..NumThreads
  /\ next \in 0..NumThreads /\ (pushed > 0 => next < pushed)
  /\ child \in [Worker -> ChildPC]
  /\ published \in [Worker -> BOOLEAN]
  /\ notified \in [Worker -> BOOLEAN]
  /\ quit \in [Worker -> BOOLEAN]
  /\ wakeup \in [Worker -> BOOLEAN]
  /\ given \in [0..NumThreads -> Nat]

Init ==
  /\ base = "new"
  /\ cur = 1
  /\ pushed = 0
  /\ next = 0
  /\ child = [i \in Worker |-> "none"]
  /\ published = [i \in Worker |-> FALSE]
  /\ notified = [i \in Worker |-> FALSE]
  /\ quit = [i \in Worker |-> FALSE]
  /\ wakeup = [i \in Worker |-> FALSE]
  /\ given = [i \in 0..NumThreads |-> 0]

-----------------------------------------------------------------------------
(* The base thread: EventLoopThreadPool::start.                             *)

\* The next turn of the loop in start(): startLoop, up to the sem_wait, or done.
StartThread ==
  /\ base = "new"
  /\ IF cur <= NumThreads
     THEN /\ base' = "sem"
          /\ child' = [child EXCEPT ![cur] = "spawned"]
          /\ UNCHANGED cur
     ELSE /\ base' = "serving"
          /\ cur' = 1
          /\ UNCHANGED child
  /\ UNCHANGED <<pushed, next, published, notified, quit, wakeup, given>>

SemWait ==
  /\ base = "sem"
  /\ child[cur] # "spawned"
  /\ base' = "lock"
  /\ UNCHANGED <<cur, pushed, next, child, published, notified, quit, wakeup, given>>

\* The loop of startLoop is there: into loops_ with it.
GotLoop ==
  /\ pushed' = pushed + 1
  /\ cur' = cur + 1
  /\ base' = "new"
  /\ UNCHANGED notified

StartWaiting ==
  /\ base' = "waiting"
  /\ notified' = [notified EXCEPT ![cur] = FALSE]
  /\ UNCHANGED <<pushed, cur>>

\* One evaluation of the condition of startLoop's wait, when the base thread has the mutex.
AwaitLoop(arrived) ==
  /\ IF arrived THEN GotLoop ELSE StartWaiting
  /\ UNCHANGED <<next, child, published, quit, wakeup, given>>

\* MUTANT: startLoop waits before it looks.
LockForLoopBlindly == base = "lock" /\ AwaitLoop(FALSE)

LockForLoop == base = "lock" /\ AwaitLoop(published[cur])

\* MUTANT: if instead of while around cond_.wait.
WakeForLoopOnce == base = "waiting" /\ AwaitLoop(TRUE)

\* cond_.wait returns, notified or spuriously.
WakeForLoop == base = "waiting" /\ AwaitLoop(published[cur])

\* MUTANT: off by one at the end of loops_.
WrapTooLate(n) == IF n > pushed THEN 0 ELSE n

\* MUTANT: starts over behind the first loop.
WrapToSecond(n) == IF n >= pushed THEN pushed - 1 ELSE n

Wrap(n) == IF n >= pushed THEN 0 ELSE n

GetNextLoop ==
  /\ base = "serving"
  /\ LET loop == IF pushed = 0 THEN 0 ELSE next + 1
     IN  /\ given[loop] < MaxGets
         /\ given' = [given EXCEPT ![loop] = @ + 1]
         /\ next' = IF pushed = 0 THEN next ELSE Wrap(next + 1)
  /\ UNCHANGED <<base, cur, pushed, child, published, notified, quit, wakeup>>

-----------------------------------------------------------------------------
(* The base thread: the destructors of the pool, of the EventLoopThreads,   *)
(* of the Threads.                                                          *)

DestroyPool ==
  /\ base = "serving"
  /\ NumThreads > 0
  /\ base' = "dtor"
  /\ UNCHANGED <<cur, pushed, next, child, published, notified, quit, wakeup, given>>

\* ~EventLoopThread reads loop_ without the mutex.  When it is null the thread is not
\* joined, and ~Thread destroys a joinable std::thread.
ReadLoop ==
  /\ base = "dtor"
  /\ base' = IF published[cur] THEN "quit" ELSE "terminated"
  /\ UNCHANGED <<cur, pushed, next, child, published, notified, quit, wakeup, given>>

\* quit() is called on the loop; on a destroyed one nothing happens, at best.
SetQuit ==
  /\ base = "quit"
  /\ quit' = [quit EXCEPT ![cur] = @ \/ LoopAlive(cur)]
  /\ base' = "wakeup"
  /\ UNCHANGED <<cur, pushed, next, child, published, notified, wakeup, given>>

Wakeup ==
  /\ base = "wakeup"
  /\ wakeup' = [wakeup EXCEPT ![cur] = @ \/ LoopAlive(cur)]
  /\ base' = "join"
  /\ UNCHANGED <<cur, pushed, next, child, published, notified, quit, given>>

\* join() returns; ~Thread, as started_ and joined_ hold, calls detach() on the joined
\* std::thread, and the std::system_error that throws leaves a destructor.
Join ==
  /\ base = "join"
  /\ child[cur] = "finished"
  /\ base' = "terminated"
  /\ UNCHANGED <<cur, pushed, next, child, published, notified, quit, wakeup, given>>

-----------------------------------------------------------------------------
(* The other threads.  Nothing runs after std::terminate.                   *)

Moves(i, from, to) ==
  /\ base # "terminated"
  /\ child[i] = from
  /\ child' = [child EXCEPT ![i] = to]

\* sem_post, then threadFunc up to the critical section: EventLoop loop; callback_(&loop).
BuildLoop(i) ==
  /\ Moves(i, "spawned", "init")
  /\ UNCHANGED <<base, cur, pushed, next, published, notified, quit, wakeup, given>>

\* loop_ = &loop and notify_one.
PublishLoop(i) ==
  /\ Moves(i, "init", "published")
  /\ published' = [published EXCEPT ![i] = TRUE]
  /\ notified' = [notified EXCEPT ![i] = base = "waiting" /\ cur = i]
  /\ UNCHANGED <<base, cur, pushed, next, quit, wakeup, given>>

EnterLoop(i) ==
  /\ Moves(i, "published", "while")
  /\ quit' = [quit EXCEPT ![i] = FALSE]
  /\ UNCHANGED <<base, cur, pushed, next, published, notified, wakeup, given>>

TestQuit(i) ==
  /\ Moves(i, "while", IF quit[i] THEN "left" ELSE "poll")
  /\ UNCHANGED <<base, cur, pushed, next, published, notified, quit, wakeup, given>>

\* epoll_wait returns: for the wakeup, for I/O, or for nothing after kPollTimeMs.
PollReturns(i) ==
  /\ Moves(i, "poll", "dispatch")
  /\ wakeup' = [wakeup EXCEPT ![i] = FALSE]
  /\ UNCHANGED <<base, cur, pushed, next, published, notified, quit, given>>

CallbacksReturn(i) ==
  /\ Moves(i, "dispatch", "while")
  /\ UNCHANGED <<base, cur, pushed, next, published, notified, quit, wakeup, given>>

UserQuit(i) ==
  /\ UserCodeQuits
  /\ child[i] \in {"init", "dispatch"}
  /\ base # "terminated"
  /\ quit' = [quit EXCEPT ![i] = TRUE]
  /\ UNCHANGED <<base, cur, pushed, next, child, published, notified, wakeup, given>>

UnpublishLoop(i) ==
  /\ Moves(i, "left", "unpublished")
  /\ published' = [published EXCEPT ![i] = FALSE]
  /\ UNCHANGED <<base, cur, pushed, next, notified, quit, wakeup, given>>

\* ~EventLoop, as threadFunc returns.
DestroyLoop(i) ==
  /\ Moves(i, "unpublished", "finished")
  /\ UNCHANGED <<base, cur, pushed, next, published, notified, quit, wakeup, given>>

-----------------------------------------------------------------------------
StartStep == StartThread \/ SemWait \/ LockForLoop

DestroyStep == ReadLoop \/ SetQuit \/ Wakeup \/ Join

ThreadStep(i) ==
  \/ BuildLoop(i) \/ PublishLoop(i)
  \/ EnterLoop(i) \/ TestQuit(i) \/ CallbacksReturn(i)
  \/ UnpublishLoop(i) \/ DestroyLoop(i)

Next ==
  \/ StartStep \/ WakeForLoop \/ GetNextLoop
  \/ DestroyPool \/ DestroyStep
  \/ \E i \in Worker : ThreadStep(i) \/ PollReturns(i) \/ UserQuit(i)

Spec == Init /\ [][Next]_vars

(* All threads are scheduled.  cond_.wait returns when it was notified, not *)
(* spuriously; epoll_wait when the eventfd is readable, not by its timeout. *)
FairSpec ==
  /\ Spec
  /\ WF_vars(StartStep)
  /\ WF_vars(WakeForLoop /\ notified[cur])
  /\ WF_vars(DestroyStep)
  /\ \A i \in Worker : WF_vars(ThreadStep(i)) /\ WF_vars(PollReturns(i) /\ wakeup[i])

-----------------------------------------------------------------------------
(* No lost notification: while startLoop sleeps on cond_ the loop is not    *)
(* there yet, or its notification is on its way.                            *)
NoLostNotification ==
  base = "waiting" /\ published[cur] => notified[cur]

(* getNextLoop never hands out a loop that is not built yet or is gone,     *)
(* unless user code called quit() on it: the pool does not learn of that.   *)
LoopsAreAlive ==
  base = "serving" =>
    \A i \in 1..pushed : quit[i] \/ (LoopAlive(i) /\ published[i])

(* getNextLoop deals the loops out in turn: none is ever two behind.        *)
RoundRobin ==
  \A i, j \in 1..pushed : i <= j => given[i] - given[j] \in {0, 1}

(* start() returns, whatever the order in which the new threads publish     *)
(* their loops and the base thread looks for them -- unless a loop quits    *)
(* before the base thread has seen it.                                      *)
StartReturns ==
  (base \in {"sem", "lock", "waiting"}) ~>
     (base = "serving" \/ \E i \in Worker : quit[i])

(* EventLoop.hh says of quit() that it makes the loop quit; the destructor  *)
(* relies on that to be able to join the thread.                            *)
QuitIsObeyed == (base = "join") ~> (base = "terminated")

(* EventLoop.cc provides for quit() to be called by another thread than the *)
(* loop's: then the loop is still there while quit() runs.                  *)
QuitTouchesLiveLoop == base \in {"quit", "wakeup"} => LoopAlive(cur)

(* noncopyable.hh says that the classes derived from it can be destroyed.   *)
DestructorsReturn == base # "terminated"
=============================================================================
