---------------------------- MODULE MCJournalLock ---------------------------
(* JournalLock for TLC: the processes are interchangeable.                 *)
EXTENDS JournalRefinement, TLC

Interchangeable == Permutations(Proc)
=============================================================================
