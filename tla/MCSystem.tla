-------------------------------- MODULE MCSystem --------------------------------
(* Instances of System for TLC. *)
EXTENDS System, TLC

CONSTANTS f1, f2, f3, f4

MCDirectory == <<f1, f2, f3, f4>>
MCSizeOf == [f \in Files |-> 1]
================================================================================
