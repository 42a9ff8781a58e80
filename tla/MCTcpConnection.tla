--------------------------- MODULE MCTcpConnection ---------------------------
(* TcpConnection, with its memory, on small instances.                      *)
EXTENDS TcpConnectionHistory

CONSTANTS m1, m2

(* Two messages, so that one can overtake the other.                        *)
TwoMessages == {m1, m2}

(* One message is enough to be given up, or to find its target gone.       *)
OneMessage == {m1}

(* A message in two parts: write() may take none, some or all of it.        *)
TwoParts == 2
=============================================================================
