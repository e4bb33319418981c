-------------------------- MODULE JournalRefinement -------------------------
(***************************************************************************)
(* The lock file, the copies in memory and the rename of JournalLock,      *)
(* seen through what is on disk and who owns it, are an atomic journal.    *)
(***************************************************************************)
EXTENDS JournalLock

Atomic == INSTANCE AtomicJournal
            WITH contents <- Loaded(disk), owners <- Owners, Change <- 1 .. MaxWrites

\* Through crashes, restarts, failed writes and operators, JournalLock does
\* nothing to the journal but add, one at a time, changes of its only owner
\* (claimJournal, JobStore.load and JobStore.change implement AtomicJournal).
ImplementsJournal == Atomic!Spec
=============================================================================
