---------------------------- MODULE MCEpollPoller ----------------------------
(* EpollPoller on a small instance.                                         *)
EXTENDS EpollPoller

CONSTANTS c1, c2, k1, fd1, fd2

(* Two connections and an acceptor on two descriptors: each descriptor is   *)
(* used again, by either sort of owner after either sort.                   *)
MCConnChannel == {c1, c2}
MCKeptChannel == {k1}
MCFd == {fd1, fd2}

(* Less room than ready channels, so that it has to grow.                   *)
MCInitEventListSize == 1
=============================================================================
