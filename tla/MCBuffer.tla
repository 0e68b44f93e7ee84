------------------------------ MODULE MCBuffer ------------------------------
(* Small instances of Buffer for TLC. *)
EXTENDS Buffer, TLC

CONSTANTS x, y, b1, b2

TwoBytes == {x, y}
TwoBufs  == {b1, b2}

\* Objects are interchangeable, and so are byte values.
BufferSymmetry == Permutations(Buf) \cup Permutations(Byte)
=============================================================================
