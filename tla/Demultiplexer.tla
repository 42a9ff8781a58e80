---------------------------- MODULE Demultiplexer ----------------------------
(****************************************************************************)
(* What a poller promises to the channels of its loop, with nothing of how  *)
(* it does it.  A channel says which events it wants; each report names a   *)
(* channel that wants something, once, with events it wants or ones that    *)
(* nobody can decline; what was reported is delivered, in any order, before *)
(* there is another report.                                                 *)
(*                                                                          *)
(* Module EpollPoller implements this with an epoll descriptor that knows   *)
(* file descriptors and pointers only, a cache of what that holds in each   *)
(* channel, and file descriptors that are used again.                       *)
(****************************************************************************)
CONSTANTS Channel,      \* the channels there may be
          Event,        \* what a channel may ask for
          Always        \* what is reported unasked

VARIABLES interest,     \* what each channel asks for
          reported      \* what is reported and not yet delivered

vars == <<interest, reported>>

Init == /\ interest = [ch \in Channel |-> {}]
        /\ reported = {}

Ask(ch, wanted) == /\ interest' = [interest EXCEPT ![ch] = wanted]
                   /\ UNCHANGED reported

Report == /\ reported = {}
          /\ \A r \in reported' : /\ interest[r.channel] # {}
                                  /\ r.revents # {}
                                  /\ r.revents \subseteq interest[r.channel] \union Always
          /\ \A r, s \in reported' : r.channel = s.channel => r = s
          /\ UNCHANGED interest

Deliver(r) == /\ r \in reported
              /\ reported' = reported \ {r}
              /\ UNCHANGED interest

Next == \/ \E ch \in Channel : \E wanted \in SUBSET Event : Ask(ch, wanted)
        \/ Report
        \/ \E r \in reported : Deliver(r)

Spec == Init /\ [][Next]_vars
=============================================================================
