------------------------------- MODULE MCAgent -------------------------------
(***************************************************************************)
(* Two runs of the exchange agent for TLC.                                 *)
(***************************************************************************)
EXTENDS Agent
=============================================================================
