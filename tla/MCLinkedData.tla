------------------------------ MODULE MCLinkedData ------------------------------
(* Instances of LinkedData for TLC. *)
EXTENDS LinkedData

\* Digits, of which the int is too narrow for more than a few: one hash is the least
\* int, and the three others share a bucket.
MCIds == {<<48>>, <<49>>, <<52>>, <<48, 49>>}
================================================================================
