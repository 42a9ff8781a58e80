------------------------- MODULE TcpConnectionHistory -------------------------
(****************************************************************************)
(* TcpConnection with a memory of what its users did and were told, for     *)
(* what they rely on over many calls: in which order messages leave that    *)
(* another thread sent, that none of them is lost while the connection is   *)
(* up, and whether a user who stops sending at highWaterMarkCallback_ and   *)
(* goes on at writeCompleteCallback_ keeps the buffer short and never stops *)
(* for ever.                                                                *)
(****************************************************************************)
EXTENDS TcpConnection

VARIABLES
  waiting,  \* history: the messages of the other thread, in the order in which it sent
            \* them, that sendInLoop was not called with yet
  told      \* history: which of the two callbacks was queued last

hvars == <<vars, waiting, told>>

HTypeOK ==
  /\ TypeOK
  /\ waiting \in Seq(Msg)
  /\ told \in {"nothing", "highWater", "writeComplete"}

HInit ==
  /\ Init
  /\ waiting = <<>>
  /\ told = "nothing"

Sends == {<<"send", m>> : m \in Msg}

\* What a step added to pendingFunctors_.
NewFunctors == {pending'[i] : i \in Len(pending) + 1..Len(pending')}

Remember ==
  /\ waiting' = IF caller = <<"idle">> /\ caller'[1] = "send" THEN Append(waiting, caller'[2])
                ELSE IF ran' = ran + 1 /\ NextFunctor \in Sends THEN Tail(waiting)
                ELSE waiting
  /\ told' = IF <<"highWater">> \in NewFunctors THEN "highWater"
             ELSE IF <<"writeComplete">> \in NewFunctors THEN "writeComplete" ELSE told

HNext == Next /\ Remember

HSpec == HInit /\ [][HNext]_hvars

FairSpec == HSpec /\ Fairness

-----------------------------------------------------------------------------
\* The functors the loop has still to call.
Queue == SubSeq(batch, ran + 1, Len(batch)) \o pending

(* What goes to the peer are messages as they were sent, each once, and     *)
(* those of another thread in the order of its calls of send(), although    *)
(* each of them waits as a functor: the one whose turn it is to be sent is  *)
(* the one that waited longest.                                             *)
SentInOrder ==
  /\ \A i, j \in DOMAIN stream :
       i < j /\ stream[i][1] = stream[j][1] => stream[i][2] < stream[j][2]
  /\ \A m \in Msg : Queue # <<>> /\ Head(Queue) = <<"send", m>>
                      => waiting # <<>> /\ Head(waiting) = m

Taken(m) == \A i \in 1..MsgSize : <<m, i>> \in ToSet(stream)

OnItsWay(m) == caller = <<"send", m>> \/ <<"send", m>> \in ToSet(Queue)

(* As long as nobody shut the connection down and the peer did not reset    *)
(* it, every message passed to send() on whatever thread was taken on by    *)
(* sendInLoop or is on its way there.                                       *)
NothingLostWhileUp ==
  state = "connected" /\ peer # "reset" => \A m \in Msg \ unsent : Taken(m) \/ OnItsWay(m)

(* While the buffer is at the mark or above it, the last the user heard was *)
(* highWaterMarkCallback_: who stops there does not miss it.  And as long   *)
(* as that is the last the user heard there is something in the buffer, so  *)
(* writeCompleteCallback_ is still to come: who stopped will go on.         *)
BackpressureTold ==
  /\ HighWaterMark > 0 /\ Len(output) >= HighWaterMark => told = "highWater"
  /\ told = "highWater" => output # <<>>

(* The queue and the batch the connection works with are what a loop        *)
(* promises, and what module EventLoop was shown to implement.              *)
NoFunctor == <<"none">>
Called == IF ran = 0 THEN NoFunctor ELSE batch[ran]
Tasks == INSTANCE TaskQueue WITH Task <- Owning \union Raw, NoTask <- NoFunctor,
                                 queue <- Queue, last <- Called
UsesTaskQueue == Tasks!CoarseSpec
=============================================================================
