------------------------------ MODULE ByteQueue ------------------------------
(****************************************************************************)
(* What a Buffer promises to whoever puts bytes into it and takes bytes out *)
(* of it: an unbounded first-in first-out queue of bytes.  No byte is lost, *)
(* duplicated, reordered or made up, however the bytes are moved about in   *)
(* the vector behind it.  Module Buffer implements this specification.      *)
(****************************************************************************)
EXTENDS Integers, Sequences

CONSTANT Data       \* the blocks of bytes that are put into the queue at once

VARIABLES bytes,    \* the bytes that were put in and not yet taken
          moved     \* the bytes that went in, were shown or went out last

vars == <<bytes, moved>>

Init == bytes = <<>> /\ moved = <<>>

Put(d) == /\ bytes' = bytes \o d
          /\ moved' = d

\* The first n bytes are shown and stay where they are.
Show(n) == /\ moved' = SubSeq(bytes, 1, n)
           /\ UNCHANGED bytes

Take(n) == /\ moved' = SubSeq(bytes, 1, n)
           /\ bytes' = SubSeq(bytes, n + 1, Len(bytes))

Next == \/ \E d \in Data : Put(d)
        \/ \E n \in 0..Len(bytes) : Show(n) \/ Take(n)

Spec == Init /\ [][Next]_vars
=============================================================================
