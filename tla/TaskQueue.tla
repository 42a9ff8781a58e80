------------------------------ MODULE TaskQueue ------------------------------
(****************************************************************************)
(* What an event loop promises to whoever hands it a functor, with nothing  *)
(* of how it does it: the functors queued by any thread form ONE first-in   *)
(* first-out queue, each of them is executed once per time it was queued,   *)
(* none is dropped or overtaken by another queued one.  A functor that the  *)
(* owner thread passes to runInLoop is executed on the spot instead.        *)
(*                                                                          *)
(* Module EventLoop implements this specification although it has no such   *)
(* queue: it has a shared vector, a private batch swapped out of it, an     *)
(* eventfd and a poller.                                                    *)
(****************************************************************************)
EXTENDS Sequences, SequencesExt

CONSTANTS Task,     \* the functors
          NoTask    \* "nothing has been executed yet"

VARIABLES queue,    \* functors that were queued and not yet executed
          last      \* the functor executed last

vars == <<queue, last>>

Init == /\ queue = <<>>
        /\ last = NoTask

Submit(t) == /\ queue' = Append(queue, t)
             /\ UNCHANGED last

Execute == /\ queue # <<>>
           /\ last' = Head(queue)
           /\ queue' = Tail(queue)

ExecuteNow(t) == /\ last' = t
                 /\ UNCHANGED queue

Next == \/ \E t \in Task : Submit(t) \/ ExecuteNow(t)
        \/ Execute

Spec == Init /\ [][Next]_vars

-----------------------------------------------------------------------------
(* The same queue for one who does not see a functor begin: what it submits *)
(* while it executes comes with the execution in one step, what it was is   *)
(* forgotten some time later, and when one starts to look there may be      *)
(* functors in the queue.                                                   *)

ExecuteAndSubmit ==
  /\ queue # <<>>
  /\ last' = Head(queue)
  /\ queue' \in Seq(Task)
  /\ IsPrefix(Tail(queue), queue')

Forget == /\ last' = NoTask
          /\ UNCHANGED queue

CoarseInit == /\ queue \in Seq(Task)
              /\ last = NoTask

CoarseSpec == CoarseInit /\ [][Next \/ ExecuteAndSubmit \/ Forget]_vars
=============================================================================
