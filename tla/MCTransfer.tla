------------------------------- MODULE MCTransfer -------------------------------
(* Instances of Transfer for TLC. *)
EXTENDS Transfer

\* Blocks of 4 bytes: no, one and more names; names below, at and above a block of
\* a string (3 bytes).
MCListings == {<<>>, <<1>>, <<2, 1>>, <<2, 2, 1>>, <<3>>, <<2, 3, 1>>, <<1, 4, 2>>, <<7>>}

\* Files of no byte, below, at and above one and two blocks.
MCLengths == 0..9

\* What is not a number: atoi may make anything of it.
MCGarbage == {-1, 0, 1}

\* Pieces of no byte: the second part of a name of one block, and the block of a file
\* without bytes.
EmptyPieceListings == {<<3>>}
EmptyPieceLengths  == {0}
================================================================================
