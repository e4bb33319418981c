---------------------------- MODULE AtomicJournal ---------------------------
(***************************************************************************)
(* What JobStore (src/src/bsc/store.ts) promises to the service, under the *)
(* claim of journal-lock.ts: one owner at a time, and a journal to which   *)
(* its owner adds one change in one step.  There are no files, no copies   *)
(* in memory, no half-written state and no crash that shows.               *)
(***************************************************************************)
CONSTANTS
    Proc,        \* service processes
    Change       \* the changes that may be journaled

VARIABLES
    contents,    \* the changes the journal holds
    owners       \* the processes that have it claimed

vars == <<contents, owners>>

Init == contents = {} /\ owners = {}

\* claimJournal succeeds only when nobody has the journal.
Acquire(p) ==
    /\ owners = {}
    /\ owners' = {p}
    /\ UNCHANGED contents

\* A release, a failed start or the death of the owner.
Release(p) ==
    /\ owners = {p}
    /\ owners' = {}
    /\ UNCHANGED contents

\* JobStore.change, as its caller sees it: exactly this change is new.
Commit(c) ==
    /\ owners # {} /\ c \notin contents
    /\ contents' = contents \cup {c}
    /\ UNCHANGED owners

Next ==
    \/ \E p \in Proc : Acquire(p) \/ Release(p)
    \/ \E c \in Change : Commit(c)

Spec == Init /\ [][Next]_vars
=============================================================================
