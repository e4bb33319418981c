--------------------------- MODULE MCWalletSession ---------------------------
(***************************************************************************)
(* A page, its wallet and the service's sessions for TLC.                  *)
(***************************************************************************)
EXTENDS WalletSession
=============================================================================
