------------------------ MODULE MCEventLoopThreadPool ------------------------
(* EventLoopThreadPool on small instances.                                  *)
EXTENDS EventLoopThreadPool

(* With two threads one of them runs its loop while the other one is        *)
(* started, and getNextLoop has a turn to get wrong.                        *)
MCNumThreads == 2

(* BOUND: every loop is handed out twice, so that next_ wraps.              *)
MCMaxGets == 2
=============================================================================
