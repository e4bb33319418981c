------------------------------ MODULE MCRunner ------------------------------
(***************************************************************************)
(* The runner for TLC: transaction hashes are interchangeable.       *)
(***************************************************************************)
EXTENDS Runner, TLC

Interchangeable == Permutations(Hash)
=============================================================================
