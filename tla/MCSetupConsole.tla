--------------------------- MODULE MCSetupConsole ---------------------------
(***************************************************************************)
(* The setup console for TLC: tabs are interchangeable.                    *)
(***************************************************************************)
EXTENDS SetupConsole, TLC

Interchangeable == Permutations(Tabs)
=============================================================================
