----------------------------- MODULE JournalLock -----------------------------
(***************************************************************************)
(* One process per journal: the lock file (src/src/bsc/journal-lock.ts)    *)
(* that a service process (server.ts) claims before it loads the journal   *)
(* and releases when it closes, and the journal's write to a temporary     *)
(* file and rename (store.ts).  Processes are started, closed and killed   *)
(* in any order; a lock left by a crash stays until an operator removes it.*)
(*                                                                         *)
(* Two awaits are two steps: creating the lock and writing its token, and  *)
(* reading the token back and unlinking the file.                          *)
(***************************************************************************)
EXTENDS Integers

CONSTANTS
    Proc,                      \* service processes; each lock token is unique
    Free, Empty, Operator,     \* no lock file; one without token; an operator's
    NoFile,                    \* no journal, no temporary file
    MaxWrites                  \* bound of the model: journal changes

ASSUME NamesAssumption ==
    /\ Free # Empty /\ Free # Operator /\ Empty # Operator
    /\ {Free, Empty, Operator} \cap Proc = {}
    /\ \A changes \in SUBSET (1 .. MaxWrites) : NoFile # changes
ASSUME BoundsAssumption == MaxWrites \in Nat

VARIABLES
    lock,        \* the lock file: Free, Empty, or whose token it holds
    pc,          \* how far each process has come
    disk,        \* the journal file: the changes it holds, or NoFile
    memory,      \* memory[p]: JobStore.data
    staged,      \* staged[p]: the temporary file of a change under way
    writes       \* changes begun so far

vars == <<lock, pc, disk, memory, staged, writes>>

Steps == {"down", "created", "locked", "open", "closing", "checked", "released"}

Goto(p, from, to) == pc[p] = from /\ pc' = [pc EXCEPT ![p] = to]

-----------------------------------------------------------------------------
\* Faulty variant: open(path, "w") overwrites a lock that is there.
AnyPath(file) == TRUE

Available(file) == file = Free

\* open(lockPath, "wx"): fails at once when the file exists.
Claim(p) ==
    /\ Goto(p, "down", "created")
    /\ Available(lock)
    /\ lock' = Empty
    /\ UNCHANGED <<disk, memory, staged, writes>>

\* The token is written, or the file is unlinked again.
WriteToken(p, succeeds) ==
    /\ Goto(p, "created", IF succeeds THEN "locked" ELSE "down")
    /\ lock' = IF succeeds THEN p ELSE Free
    /\ UNCHANGED <<disk, memory, staged, writes>>

\* Faulty variant: a missing journal is not replaced by an empty one.
LoadedRaw(file) == file

Loaded(file) == IF file = NoFile THEN {} ELSE file

\* JobStore.load; startup that fails from here on releases the lock.
Load(p, succeeds) ==
    /\ Goto(p, "locked", IF succeeds THEN "open" ELSE "closing")
    /\ memory' = [memory EXCEPT ![p] = IF succeeds THEN Loaded(disk) ELSE @]
    /\ UNCHANGED <<lock, disk, staged, writes>>

\* JobStore.change, one at a time: a copy of the data goes to a new file ...
Stage(p) ==
    /\ pc[p] = "open" /\ staged[p] = NoFile
    /\ writes < MaxWrites
    /\ writes' = writes + 1
    /\ staged' = [staged EXCEPT ![p] = memory[p] \cup {writes + 1}]
    /\ UNCHANGED <<lock, pc, disk, memory>>

\* ... which is renamed over the journal, unless the write or the rename fails.
Rename(p, succeeds) ==
    /\ pc[p] # "down" /\ staged[p] # NoFile
    /\ IF succeeds
         THEN disk' = staged[p] /\ memory' = [memory EXCEPT ![p] = staged[p]]
         ELSE UNCHANGED <<disk, memory>>
    /\ staged' = [staged EXCEPT ![p] = NoFile]
    /\ UNCHANGED <<lock, pc, writes>>

\* Faulty variant: close does not wait for the queue.
DrainedAlways(p) == TRUE

Drained(p) == staged[p] = NoFile

\* close: no new request, then the queue, then the lock.
Close(p) ==
    /\ Goto(p, "open", "closing")
    /\ Drained(p)
    /\ UNCHANGED <<lock, disk, memory, staged, writes>>

\* release: the token is read; another token ends the process with an error ...
CheckToken(p) ==
    /\ Goto(p, "closing", IF lock = p THEN "checked" ELSE "released")
    /\ UNCHANGED <<lock, disk, memory, staged, writes>>

\* ... and the file at that path is unlinked.
Unlink(p) ==
    /\ Goto(p, "checked", "released")
    /\ lock' = Free
    /\ UNCHANGED <<disk, memory, staged, writes>>

\* The process exits after its release, or dies anywhere.
Exit(p) ==
    /\ pc[p] # "down"
    /\ pc' = [pc EXCEPT ![p] = "down"]
    /\ memory' = [memory EXCEPT ![p] = {}]
    /\ staged' = [staged EXCEPT ![p] = NoFile]
    /\ UNCHANGED <<lock, disk, writes>>

-----------------------------------------------------------------------------
(* The operator, outside the program. *)

\* Takes the lock over from a process, running or not.
Replace ==
    /\ lock \in Proc
    /\ lock' = Operator
    /\ UNCHANGED <<pc, disk, memory, staged, writes>>

\* Removes a lock only after checking that the service is stopped.
Remove ==
    /\ lock # Free
    /\ \A p \in Proc : pc[p] = "down"
    /\ lock' = Free
    /\ UNCHANGED <<pc, disk, memory, staged, writes>>

-----------------------------------------------------------------------------
Init ==
    /\ lock = Free
    /\ pc = [p \in Proc |-> "down"]
    /\ disk = NoFile
    /\ memory = [p \in Proc |-> {}]
    /\ staged = [p \in Proc |-> NoFile]
    /\ writes = 0

Step(p) ==
    \/ Claim(p)
    \/ \E succeeds \in BOOLEAN :
          WriteToken(p, succeeds) \/ Load(p, succeeds) \/ Rename(p, succeeds)
    \/ Stage(p)
    \/ Close(p) \/ CheckToken(p) \/ Unlink(p)
    \/ Exit(p)

Next == (\E p \in Proc : Step(p)) \/ Replace \/ Remove

Spec == Init /\ [][Next]_vars

-----------------------------------------------------------------------------
\* The type invariant of the lock and the journal (journal-lock.ts, store.ts).
TypeOK ==
    /\ lock \in {Free, Empty, Operator} \cup Proc
    /\ pc \in [Proc -> Steps]
    /\ disk \in (SUBSET Nat) \cup {NoFile}
    /\ \A p \in Proc : memory[p] # NoFile
    /\ memory \in [Proc -> SUBSET Nat]
    /\ staged \in [Proc -> (SUBSET Nat) \cup {NoFile}]
    /\ writes \in Nat

Owners == {p \in Proc : pc[p] \notin {"down", "released"}}

\* Two processes never have one journal open, through claims that fail half
\* way, crashes, restarts, late releases and an operator's intervention.
SingleWriter == \A p, q \in Owners : p = q

\* A change that reached the journal is never undone by a process that writes
\* back a copy it read before.
NoLostWrite ==
    [][disk # NoFile => disk' # NoFile /\ disk \subseteq disk']_vars

\* The comment in "release" (journal-lock.ts:15): a lock that an operator
\* replaced while the process ran is not removed by that process.
ReplacedLockKept ==
    [][(lock = Operator /\ Owners # {}) => lock' = Operator]_vars
=============================================================================
