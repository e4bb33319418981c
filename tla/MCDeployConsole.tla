--------------------------- MODULE MCDeployConsole ---------------------------
(***************************************************************************)
(* The deployment console for TLC: one tab with reloads.  The page takes   *)
(* no lock across tabs, so its marker protects one tab only.               *)
(***************************************************************************)
EXTENDS DeployConsole
=============================================================================
