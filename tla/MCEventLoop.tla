----------------------------- MODULE MCEventLoop -----------------------------
(* EventLoop on a small instance.                                           *)
EXTENDS EventLoop

CONSTANTS f1, f2, t1, t2, io

(* One functor can run while the other one is queued, and each can be       *)
(* queued again and again.                                                  *)
MCFunctor == {f1, f2}

(* One thread may be between its change and its write to the eventfd while  *)
(* the other goes through both.                                             *)
MCThread == {t1, t2}

OneThread == {t1}

MCChannel == {io}

(* Two threads' writes and one of the owner reach the limit of the counter. *)
MCEventfdMax == 2
=============================================================================
