----------------------------- MODULE MCContentServer -----------------------------
(***************************************************************************)
(* The instance of ContentServer for TLC: its constants are model values,  *)
(* which ContentPool.cfg names.                                            *)
(***************************************************************************)
EXTENDS ContentServer
================================================================================
