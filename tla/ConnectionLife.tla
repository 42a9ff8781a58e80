---------------------------- MODULE ConnectionLife ----------------------------
(****************************************************************************)
(* What a TcpServer promises about its connections to the user who gave it  *)
(* a connectionCallback_: each comes up once, goes down after that, and     *)
(* until it went down the server keeps it.  Only when the server is closed  *)
(* are connections let go, whatever state they are in.                      *)
(*                                                                          *)
(* TcpConnection implements this for one connection, TcpServer for all of   *)
(* them, over several threads: it is what the two modules have in common.   *)
(****************************************************************************)
CONSTANT Conn

VARIABLES phase,      \* of each connection
          kept,       \* those the server knows
          serving     \* is the server there?

vars == <<phase, kept, serving>>

Init == /\ phase \in [Conn -> {"idle", "made"}]
        /\ kept = {c \in Conn : phase[c] = "made"}
        /\ serving = TRUE

Turn(c, from, to) == /\ phase[c] = from
                     /\ phase' = [phase EXCEPT ![c] = to]

Make(c) == /\ serving
           /\ Turn(c, "idle", "made")
           /\ kept' = kept \union {c}
           /\ UNCHANGED serving

\* A connection may come up on its loop's thread right when it is made.
MakeAndRaise(c) == /\ serving
                   /\ Turn(c, "idle", "up")
                   /\ kept' = kept \union {c}
                   /\ UNCHANGED serving

Raise(c) == Turn(c, "made", "up") /\ UNCHANGED <<kept, serving>>

Lower(c) == Turn(c, "up", "down") /\ UNCHANGED <<kept, serving>>

Forget(c) == /\ phase[c] = "down"
             /\ kept' = kept \ {c}
             /\ UNCHANGED <<phase, serving>>

Close == /\ serving
         /\ serving' = FALSE
         /\ kept' = {}
         /\ UNCHANGED phase

Next == \/ \E c \in Conn : Make(c) \/ MakeAndRaise(c) \/ Raise(c) \/ Lower(c) \/ Forget(c)
        \/ Close

Spec == Init /\ [][Next]_vars
=============================================================================
