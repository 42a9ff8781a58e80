------------------------------ MODULE MCBuffer ------------------------------
(* Buffer on a small instance.                                              *)
EXTENDS Buffer

(* Two values tell a byte that is kept from one that is overwritten.        *)
MCByte == {0, 1}

(* BOUND: at most so many bytes are readable: more than the vector starts   *)
(* with, so that every way makeSpace has is taken.                          *)
MCMaxReadable == 4
=============================================================================
