--------------------------- MODULE MCInitiatorSession ---------------------------
(***************************************************************************)
(* Small instances of InitiatorSession for TLC.  One Initiator names two   *)
(* content servers that are down and one that is not.  Another has an      *)
(* empty string in its request, and the last one a string that the         *)
(* server's buffer has no room for.                                        *)
(***************************************************************************)
EXTENDS InitiatorSession

CONSTANTS i1, i2, i3, s1, s2, s3, s4, s5

ThreeRequests == [c \in Initiators |-> CASE c = i1 -> <<s1, s2>>
                                         [] c = i2 -> <<s4>>
                                         [] OTHER  -> <<s3, s5>>]
OneRequest == [c \in Initiators |-> <<s1, s2>>]

AllFit         == [t \in Texts |-> 1]
BlankAndLonger == [AllFit EXCEPT ![<<s4, 2>>] = 0, ![<<s5, 1>>] = 3]
================================================================================
