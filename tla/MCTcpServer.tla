----------------------------- MODULE MCTcpServer -----------------------------
(* TcpServer on small instances.                                            *)
EXTENDS TcpServer

(* Two connections can be on one loop or on two; the limit of descriptors,  *)
(* chosen in Init, leaves room for one of them or both.                     *)
MCMaxConn == 2

(* No thread but the base loop's, one more, or two more.                    *)
MCMaxThreads == 2
=============================================================================
