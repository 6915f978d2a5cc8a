----------------------------- MODULE MCMirrorServer -----------------------------
(***************************************************************************)
(* Small instances of MirrorServer for TLC.                                *)
(***************************************************************************)
EXTENDS MirrorServer

CONSTANT f1   \* a short file; the others are as long as an int can say

MCSizeOf == [f \in Files |-> IF f = f1 THEN 1 ELSE IntMax]

\* The two lengths that the loop of _fetch can stop at: -1 at once if the junk
\* length is negative, else the largest int, after it has wrapped.
MCJunk == {-1, IntMax}
================================================================================
