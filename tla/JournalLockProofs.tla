------------------------- MODULE JournalLockProofs -------------------------
(***************************************************************************)
(* One writer per journal, for any number of processes.  "SingleWriter" is *)
(* inductive together with "a process that owns the journal has a lock     *)
(* file standing": only then does a claim find no owner.  That no write is *)
(* lost needs in addition that an owner's copy contains what is on disk,   *)
(* and that nothing is staged outside the open state.                      *)
(*                                                                         *)
(* The second part: JournalLock implements AtomicJournal.  What a step     *)
(* does to the journal needs in addition that the owner's copy is exactly  *)
(* the journal, and that a staged file is the journal and one change that  *)
(* was never there.                                                        *)
(***************************************************************************)
EXTENDS JournalRefinement, TLAPS

\* While some process owns the journal, the lock file exists.
LockStands == Owners # {} => lock # Free

\* An open process has read all that is on disk, and writes back no less.
CopiesCurrent ==
    \A p \in Proc :
        /\ pc[p] = "open" => Loaded(disk) \subseteq memory[p]
        /\ staged[p] # NoFile => pc[p] = "open" /\ memory[p] \subseteq staged[p]

LockInv == TypeOK /\ SingleWriter /\ LockStands

\* A process that changes only its own step stays or leaves the owners, unless
\* it claims.
LEMMA OwnersShrink ==
    ASSUME TypeOK, NEW p \in Proc, pc[p] # "down", pc[p] # "released",
           NEW to \in Steps, pc' = [pc EXCEPT ![p] = to]
    PROVE  Owners' \subseteq Owners
BY DEF Owners, TypeOK

\* Every step of a process or of the operator keeps the types.
LEMMA TypeStep ==
    ASSUME TypeOK, [Next]_vars
    PROVE  TypeOK'
<1> USE DEF TypeOK, Goto, Steps
<1>0. NoFile # {}
  BY NamesAssumption
<1>1. ASSUME NEW p \in Proc, Claim(p) PROVE TypeOK'
  BY <1>1 DEF Claim
<1>2. ASSUME NEW p \in Proc, NEW ok \in BOOLEAN, WriteToken(p, ok) PROVE TypeOK'
  BY <1>2 DEF WriteToken
<1>3. ASSUME NEW p \in Proc, NEW ok \in BOOLEAN, Load(p, ok) PROVE TypeOK'
  <2>1. Loaded(disk) \in SUBSET Nat /\ Loaded(disk) # NoFile
    BY <1>0 DEF Loaded
  <2> QED BY <1>3, <2>1 DEF Load
<1>4. ASSUME NEW p \in Proc, NEW ok \in BOOLEAN, Rename(p, ok) PROVE TypeOK'
  BY <1>4 DEF Rename
<1>5. ASSUME NEW p \in Proc, Stage(p) PROVE TypeOK'
  <2>1. memory[p] \cup {writes + 1} \in SUBSET Nat
    OBVIOUS
  <2> QED BY <1>5, <2>1 DEF Stage
<1>6. ASSUME NEW p \in Proc, Close(p) PROVE TypeOK'
  BY <1>6 DEF Close
<1>7. ASSUME NEW p \in Proc, CheckToken(p) PROVE TypeOK'
  BY <1>7 DEF CheckToken
<1>8. ASSUME NEW p \in Proc, Unlink(p) PROVE TypeOK'
  BY <1>8 DEF Unlink
<1>9. ASSUME NEW p \in Proc, Exit(p) PROVE TypeOK'
  BY <1>0, <1>9 DEF Exit
<1>10. CASE Replace \/ Remove
  BY <1>10 DEF Replace, Remove
<1>11. CASE UNCHANGED vars
  BY <1>11 DEF vars
<1> QED BY <1>1, <1>2, <1>3, <1>4, <1>5, <1>6, <1>7, <1>8, <1>9, <1>10, <1>11 DEF Next, Step

\* A step that only lets owners leave, and leaves a lock file for those who stay,
\* keeps the journal with one writer.
LEMMA FewerOwners ==
    ASSUME SingleWriter, Owners' \subseteq Owners, Owners' # {} => lock' # Free
    PROVE  SingleWriter' /\ LockStands'
BY DEF SingleWriter, LockStands

\* Every step keeps one writer: a claim needs a free path, and a free path means
\* that no process owns the journal.
LEMMA WriterStep ==
    ASSUME LockInv, [Next]_vars
    PROVE  SingleWriter' /\ LockStands'
<1> USE NamesAssumption DEF LockInv
<1>1. ASSUME NEW p \in Proc, Claim(p) PROVE SingleWriter' /\ LockStands'
  <2>1. Owners = {}
    BY <1>1 DEF Claim, Available, LockStands
  <2>2. Owners' \subseteq {p}
    BY <1>1, <2>1 DEF Claim, Goto, Owners, TypeOK
  <2>3. lock' # Free
    BY <1>1 DEF Claim
  <2> QED BY <2>2, <2>3 DEF SingleWriter, LockStands
<1>2. ASSUME NEW p \in Proc, NEW ok \in BOOLEAN, WriteToken(p, ok)
      PROVE  SingleWriter' /\ LockStands'
  <2>1. Owners' \subseteq Owners
    BY <1>2, OwnersShrink DEF WriteToken, Goto, Steps
  <2>2. CASE ok
    BY <1>2, <2>1, <2>2, FewerOwners DEF WriteToken
  <2>3. CASE ~ok
    <3>1. Owners \subseteq {p} /\ p \notin Owners'
      BY <1>2, <2>3 DEF WriteToken, Goto, Owners, SingleWriter, TypeOK
    <3> QED BY <2>1, <3>1, FewerOwners
  <2> QED BY <2>2, <2>3
<1>3. ASSUME NEW p \in Proc, NEW ok \in BOOLEAN, Load(p, ok)
      PROVE  SingleWriter' /\ LockStands'
  <2>1. Owners' \subseteq Owners
    BY <1>3, OwnersShrink DEF Load, Goto, Steps
  <2> QED BY <1>3, <2>1, FewerOwners DEF Load, LockStands
<1>4. ASSUME NEW p \in Proc, Close(p) \/ CheckToken(p)
      PROVE  SingleWriter' /\ LockStands'
  <2>1. Owners' \subseteq Owners /\ lock' = lock
    BY <1>4, OwnersShrink DEF Close, CheckToken, Goto, Steps
  <2> QED BY <2>1, FewerOwners DEF LockStands
<1>5. ASSUME NEW p \in Proc, Unlink(p) PROVE SingleWriter' /\ LockStands'
  <2>1. Owners' \subseteq Owners
    BY <1>5, OwnersShrink DEF Unlink, Goto, Steps
  <2>2. Owners \subseteq {p} /\ p \notin Owners'
    BY <1>5 DEF Unlink, Goto, Owners, SingleWriter, TypeOK
  <2> QED BY <2>1, <2>2, FewerOwners
<1>6. ASSUME NEW p \in Proc, Exit(p) PROVE SingleWriter' /\ LockStands'
  <2>1. Owners' \subseteq Owners /\ lock' = lock
    BY <1>6 DEF Exit, Owners, TypeOK
  <2> QED BY <2>1, FewerOwners DEF LockStands
<1>7. ASSUME NEW p \in Proc, Stage(p) \/ \E ok \in BOOLEAN : Rename(p, ok)
      PROVE  SingleWriter' /\ LockStands'
  <2>1. Owners' = Owners /\ lock' = lock
    BY <1>7 DEF Stage, Rename, Owners
  <2> QED BY <2>1, FewerOwners DEF LockStands
<1>8. CASE Replace
  <2>1. Owners' = Owners /\ lock' # Free
    BY <1>8 DEF Replace, Owners
  <2> QED BY <2>1, FewerOwners
<1>9. CASE Remove
  <2>1. Owners = {} /\ Owners' = Owners
    BY <1>9 DEF Remove, Owners
  <2> QED BY <2>1, FewerOwners
<1>10. CASE UNCHANGED vars
  <2>1. Owners' = Owners /\ lock' = lock
    BY <1>10 DEF vars, Owners
  <2> QED BY <2>1, FewerOwners DEF LockStands
<1> QED
  BY <1>1, <1>2, <1>3, <1>4, <1>5, <1>6, <1>7, <1>8, <1>9, <1>10 DEF Next, Step

\* Copies stay current: only the single writer changes the disk, and it stages
\* and renames nothing less than it read.
LEMMA CopiesStep ==
    ASSUME LockInv, CopiesCurrent, [Next]_vars
    PROVE  CopiesCurrent'
<1> USE DEF CopiesCurrent
<1> TypeOK
  BY DEF LockInv
<1>1. ASSUME NEW p \in Proc, Claim(p) PROVE CopiesCurrent'
  BY <1>1 DEF Claim, Goto, TypeOK
<1>2. ASSUME NEW p \in Proc, NEW ok \in BOOLEAN, WriteToken(p, ok) PROVE CopiesCurrent'
  BY <1>2 DEF WriteToken, Goto, TypeOK
<1>3. ASSUME NEW p \in Proc, NEW ok \in BOOLEAN, Load(p, ok) PROVE CopiesCurrent'
  BY <1>3 DEF Load, Goto, TypeOK
<1>4. ASSUME NEW p \in Proc, Stage(p) PROVE CopiesCurrent'
  BY <1>4 DEF Stage, TypeOK
<1>5. ASSUME NEW p \in Proc, NEW ok \in BOOLEAN, Rename(p, ok) PROVE CopiesCurrent'
  <2>1. CASE ~ok
    BY <1>5, <2>1 DEF Rename, TypeOK
  <2>2. CASE ok
    <3>1. pc[p] = "open" /\ staged[p] # NoFile /\ disk' = staged[p]
      BY <1>5, <2>2 DEF Rename
    <3>2. \A q \in Proc : pc[q] = "open" => q = p
      BY <3>1 DEF LockInv, SingleWriter, Owners
    <3>3. Loaded(disk') = staged[p]
      BY <3>1 DEF Loaded
    <3> QED BY <1>5, <2>2, <3>1, <3>2, <3>3 DEF Rename, TypeOK
  <2> QED BY <2>1, <2>2
<1>6. ASSUME NEW p \in Proc, Close(p) PROVE CopiesCurrent'
  BY <1>6 DEF Close, Drained, Goto, TypeOK
<1>7. ASSUME NEW p \in Proc, CheckToken(p) \/ Unlink(p) PROVE CopiesCurrent'
  BY <1>7 DEF CheckToken, Unlink, Goto, TypeOK
<1>8. ASSUME NEW p \in Proc, Exit(p) PROVE CopiesCurrent'
  BY <1>8 DEF Exit, TypeOK
<1>9. CASE Replace \/ Remove
  BY <1>9 DEF Replace, Remove
<1>10. CASE UNCHANGED vars
  BY <1>10 DEF vars
<1> QED
  BY <1>1, <1>2, <1>3, <1>4, <1>5, <1>6, <1>7, <1>8, <1>9, <1>10 DEF Next, Step

\* At the start no process runs and there is neither lock nor journal.
LEMMA LockInit == Init => LockInv /\ CopiesCurrent
<1> SUFFICES ASSUME Init PROVE LockInv /\ CopiesCurrent
  OBVIOUS
<1>1. Owners = {}
  BY DEF Init, Owners
<1>2. NoFile # {}
  BY NamesAssumption
<1> QED
  BY <1>1, <1>2 DEF Init, LockInv, TypeOK, Steps, SingleWriter, LockStands, CopiesCurrent

\* The inductive invariant of claim, load, change and release.
THEOREM JournalInvariant == Spec => [](LockInv /\ CopiesCurrent)
<1>1. LockInv /\ CopiesCurrent /\ [Next]_vars => (LockInv /\ CopiesCurrent)'
  BY TypeStep, WriterStep, CopiesStep DEF LockInv
<1> QED BY LockInit, <1>1, PTL DEF Spec

\* The lock, the steps and the journal stay well formed (journal-lock.ts).
THEOREM JournalTypeCorrect == Spec => []TypeOK
<1>1. LockInv => TypeOK
  BY DEF LockInv
<1> QED BY JournalInvariant, <1>1, PTL

\* However many processes are started, closed and killed, no two of them have
\* the journal open (claimJournal and its release).
THEOREM JournalSingleWriter == Spec => []SingleWriter
<1>1. LockInv => SingleWriter
  BY DEF LockInv
<1> QED BY JournalInvariant, <1>1, PTL

\* A change that reached the journal stays there, whatever process writes next
\* (JobStore.change under the lock).
THEOREM JournalNoLostWrite == Spec => NoLostWrite
<1> DEFINE Kept == disk # NoFile => disk' # NoFile /\ disk \subseteq disk'
<1>1. ASSUME LockInv, CopiesCurrent, [Next]_vars PROVE [Kept]_vars
  <2>1. ASSUME NEW p \in Proc, Rename(p, TRUE) PROVE Kept
    BY <1>1, <2>1 DEF Rename, CopiesCurrent, Loaded
  <2>2. ASSUME NEW p \in Proc, Rename(p, FALSE) PROVE Kept
    BY <2>2 DEF Rename
  <2>3. CASE disk' = disk
    BY <2>3
  <2> QED
    BY <1>1, <2>1, <2>2, <2>3
       DEF Next, Step, Claim, WriteToken, Load, Stage, Close, CheckToken, Unlink, Exit,
           Replace, Remove, vars
<1> QED BY JournalInvariant, <1>1, PTL DEF Spec, NoLostWrite
-----------------------------------------------------------------------------
(* The refinement of AtomicJournal. *)

\* A staged file adds one change, begun already, to what is on disk.
AddsOne(file) ==
    \E n \in 1 .. writes : n \notin Loaded(disk) /\ file = Loaded(disk) \cup {n}

\* What the owner holds, in memory and in the temporary file.
CopiesExact ==
    \A p \in Proc :
        /\ pc[p] = "open" => memory[p] = Loaded(disk)
        /\ staged[p] # NoFile => pc[p] = "open"
        /\ staged[p] # NoFile => AddsOne(staged[p])

\* Changes are numbered as they are begun.
ChangesNumbered == writes \in 0 .. MaxWrites /\ Loaded(disk) \subseteq 1 .. writes

RefineInv == LockInv /\ CopiesExact /\ ChangesNumbered

\* An open process is the only one.
LEMMA OpenAlone ==
    ASSUME SingleWriter, NEW p \in Proc, pc[p] = "open", NEW q \in Proc, pc[q] = "open"
    PROVE  q = p
BY DEF SingleWriter, Owners

\* A step that leaves the journal, the copies and the files alone, and opens no
\* process, keeps the invariant.
LEMMA QuietStep ==
    ASSUME RefineInv, UNCHANGED <<disk, memory, staged, writes>>,
           \A p \in Proc : pc'[p] = "open" => pc[p] = "open",
           \A p \in Proc : staged[p] # NoFile => pc'[p] = pc[p]
    PROVE  CopiesExact' /\ ChangesNumbered'
<1>1. Loaded(disk)' = Loaded(disk)
  BY DEF Loaded
<1>2. \A p \in Proc : AddsOne(staged[p]) => AddsOne(staged[p])'
  BY <1>1 DEF AddsOne
<1> QED BY <1>1, <1>2 DEF RefineInv, CopiesExact, ChangesNumbered

\* A process opens the journal with what it reads from the disk.
LEMMA LoadExact ==
    ASSUME RefineInv, NEW p \in Proc, NEW ok \in BOOLEAN, Load(p, ok)
    PROVE  CopiesExact' /\ ChangesNumbered'
<1>1. Loaded(disk)' = Loaded(disk) /\ staged' = staged /\ writes' = writes
  BY DEF Load, Loaded
<1>2. \A q \in Proc : AddsOne(staged[q]) => AddsOne(staged[q])'
  BY <1>1 DEF AddsOne
<1>3. TypeOK /\ CopiesExact /\ ChangesNumbered
  BY DEF RefineInv, LockInv
<1>4. pc[p] = "locked" /\ pc' = [pc EXCEPT ![p] = IF ok THEN "open" ELSE "closing"]
  BY DEF Load, Goto
<1>5. memory' = [memory EXCEPT ![p] = IF ok THEN Loaded(disk) ELSE @]
  BY DEF Load
<1>6. ASSUME NEW q \in Proc
      PROVE  /\ pc'[q] = "open" => memory'[q] = Loaded(disk)'
             /\ staged'[q] # NoFile => pc'[q] = "open"
             /\ staged'[q] # NoFile => AddsOne(staged[q])'
  <2>1. CASE q = p
    BY <1>1, <1>2, <1>3, <1>4, <1>5, <2>1 DEF TypeOK, CopiesExact
  <2>2. CASE q # p
    BY <1>1, <1>2, <1>3, <1>4, <1>5, <2>2 DEF TypeOK, CopiesExact
  <2> QED BY <2>1, <2>2
<1>7. ChangesNumbered'
  BY <1>1, <1>3 DEF ChangesNumbered
<1> QED BY <1>6, <1>7 DEF CopiesExact

\* The owner stages its copy and one change that is new.
LEMMA StageExact ==
    ASSUME RefineInv, NEW p \in Proc, Stage(p)
    PROVE  CopiesExact' /\ ChangesNumbered'
<1> USE BoundsAssumption
<1>1. TypeOK /\ CopiesExact /\ ChangesNumbered
  BY DEF RefineInv, LockInv
<1>2. Loaded(disk)' = Loaded(disk) /\ pc' = pc /\ memory' = memory
  BY DEF Stage, Loaded
<1>3. writes \in Nat /\ writes' = writes + 1 /\ writes < MaxWrites
  BY <1>1 DEF Stage, ChangesNumbered
<1>4. writes + 1 \notin Loaded(disk)
  BY <1>1, <1>3 DEF ChangesNumbered
<1>5. staged' = [staged EXCEPT ![p] = Loaded(disk) \cup {writes + 1}]
  BY <1>1 DEF Stage, CopiesExact
<1>6. ASSUME NEW q \in Proc, staged'[q] # NoFile
      PROVE  pc[q] = "open" /\ AddsOne(staged[q])'
  <2>1. CASE q = p
    <3>1. staged'[q] = Loaded(disk) \cup {writes + 1} /\ writes + 1 \in 1 .. writes'
      BY <1>1, <1>3, <1>5, <2>1 DEF TypeOK
    <3> QED BY <1>2, <1>4, <2>1, <3>1 DEF AddsOne, Stage
  <2>2. CASE q # p
    <3>1. staged'[q] = staged[q]
      BY <1>1, <1>5, <2>2 DEF TypeOK
    <3>2. pc[q] = "open" /\ AddsOne(staged[q])
      BY <1>1, <1>6, <3>1 DEF CopiesExact
    <3>3. 1 .. writes \subseteq 1 .. writes'
      BY <1>3
    <3> QED BY <1>2, <3>1, <3>2, <3>3 DEF AddsOne
  <2> QED BY <2>1, <2>2
<1>7. ChangesNumbered'
  BY <1>1, <1>2, <1>3 DEF ChangesNumbered
<1> QED BY <1>1, <1>2, <1>6, <1>7 DEF CopiesExact

\* The rename replaces the journal by the owner's file: one more change.
LEMMA RenameExact ==
    ASSUME RefineInv, NEW p \in Proc, Rename(p, TRUE)
    PROVE  /\ CopiesExact' /\ ChangesNumbered'
           /\ \E n \in 1 .. MaxWrites : Atomic!Commit(n)
<1>1. TypeOK /\ CopiesExact /\ ChangesNumbered /\ SingleWriter
  BY DEF RefineInv, LockInv
<1>2. pc[p] = "open" /\ staged[p] # NoFile /\ AddsOne(staged[p])
  BY <1>1 DEF Rename, CopiesExact
<1>3. disk' = staged[p] /\ pc' = pc /\ writes' = writes
  BY DEF Rename
<1>4. Loaded(disk)' = staged[p]
  BY <1>2, <1>3 DEF Loaded
<1>5. PICK n \in 1 .. writes : n \notin Loaded(disk) /\ staged[p] = Loaded(disk) \cup {n}
  BY <1>2 DEF AddsOne
<1>6. ASSUME NEW q \in Proc
      PROVE  /\ pc'[q] = "open" => memory'[q] = Loaded(disk)'
             /\ staged'[q] = NoFile
  <2>1. CASE q = p
    BY <1>1, <1>4, <2>1 DEF Rename, TypeOK
  <2>2. CASE q # p
    <3>1. pc[q] # "open"
      BY <1>1, <1>2, <2>2, OpenAlone
    <3> QED BY <1>1, <1>3, <2>2, <3>1 DEF Rename, TypeOK, CopiesExact
  <2> QED BY <2>1, <2>2
<1>7. ChangesNumbered'
  BY <1>1, <1>3, <1>4, <1>5 DEF ChangesNumbered
<1>8. n \in 1 .. MaxWrites
  BY <1>1, BoundsAssumption DEF ChangesNumbered
<1>9. Owners' = Owners /\ Owners # {}
  BY <1>2, <1>3 DEF Owners
<1>10. Atomic!Commit(n)
  BY <1>4, <1>5, <1>9 DEF Atomic!Commit
<1> QED BY <1>6, <1>7, <1>8, <1>10 DEF CopiesExact

\* A file that could not be written or renamed is gone; nothing else changes.
LEMMA FilesGone ==
    ASSUME RefineInv, NEW p \in Proc,
           Exit(p) \/ Rename(p, FALSE)
    PROVE  CopiesExact' /\ ChangesNumbered'
<1>1. TypeOK /\ CopiesExact /\ ChangesNumbered
  BY DEF RefineInv, LockInv
<1>2. Loaded(disk)' = Loaded(disk) /\ writes' = writes
  BY DEF Exit, Rename, Loaded
<1>3. staged' = [staged EXCEPT ![p] = NoFile]
  BY DEF Exit, Rename
<1>4. ASSUME NEW q \in Proc
      PROVE  /\ pc'[q] = "open" => memory'[q] = Loaded(disk)'
             /\ staged'[q] # NoFile => pc'[q] = "open"
             /\ staged'[q] # NoFile => AddsOne(staged[q])'
  <2>1. CASE q = p
    BY <1>1, <1>2, <1>3, <2>1 DEF Exit, Rename, TypeOK, CopiesExact
  <2>2. CASE q # p
    <3>1. staged'[q] = staged[q] /\ pc'[q] = pc[q] /\ memory'[q] = memory[q]
      BY <1>1, <1>3, <2>2 DEF Exit, Rename, TypeOK
    <3>2. AddsOne(staged[q]) => AddsOne(staged[q])'
      BY <1>2, <3>1 DEF AddsOne
    <3> QED BY <1>1, <1>2, <3>1, <3>2 DEF CopiesExact
  <2> QED BY <2>1, <2>2
<1>5. ChangesNumbered'
  BY <1>1, <1>2 DEF ChangesNumbered
<1> QED BY <1>4, <1>5 DEF CopiesExact

\* Every step keeps the copies exact.
LEMMA ExactStep ==
    ASSUME RefineInv, [Next]_vars
    PROVE  CopiesExact' /\ ChangesNumbered'
<1> DEFINE Goal == CopiesExact' /\ ChangesNumbered'
<1> USE DEF RefineInv, LockInv
<1>1. ASSUME NEW p \in Proc, Claim(p) PROVE Goal
  BY <1>1, QuietStep DEF Claim, Goto, TypeOK, CopiesExact
<1>2. ASSUME NEW p \in Proc, NEW ok \in BOOLEAN, WriteToken(p, ok) PROVE Goal
  BY <1>2, QuietStep DEF WriteToken, Goto, TypeOK, CopiesExact
<1>3. ASSUME NEW p \in Proc, NEW ok \in BOOLEAN, Load(p, ok) PROVE Goal
  BY <1>3, LoadExact
<1>4. ASSUME NEW p \in Proc, Stage(p) PROVE Goal
  BY <1>4, StageExact
<1>5. ASSUME NEW p \in Proc, NEW ok \in BOOLEAN, Rename(p, ok) PROVE Goal
  BY <1>5, RenameExact, FilesGone
<1>6. ASSUME NEW p \in Proc, Close(p) PROVE Goal
  BY <1>6, QuietStep DEF Close, Drained, Goto, TypeOK, CopiesExact
<1>7. ASSUME NEW p \in Proc, CheckToken(p) \/ Unlink(p) PROVE Goal
  BY <1>7, QuietStep DEF CheckToken, Unlink, Goto, TypeOK, CopiesExact
<1>8. ASSUME NEW p \in Proc, Exit(p) PROVE Goal
  BY <1>8, FilesGone
<1>9. CASE Replace \/ Remove
  BY <1>9, QuietStep DEF Replace, Remove
<1>10. CASE UNCHANGED vars
  BY <1>10, QuietStep DEF vars
<1> QED
  BY <1>1, <1>2, <1>3, <1>4, <1>5, <1>6, <1>7, <1>8, <1>9, <1>10 DEF Next, Step

\* The invariant the refinement needs.
LEMMA RefineInvariant == Spec => []RefineInv
<1>1. Init => RefineInv
  <2> SUFFICES ASSUME Init PROVE RefineInv
    OBVIOUS
  <2>1. LockInv
    BY LockInit
  <2>2. CopiesExact /\ ChangesNumbered
    BY BoundsAssumption DEF Init, CopiesExact, ChangesNumbered, Loaded
  <2> QED BY <2>1, <2>2 DEF RefineInv
<1>2. LockInv /\ LockInv' /\ RefineInv /\ [Next]_vars => RefineInv'
  BY ExactStep DEF RefineInv
<1>3. Spec => []LockInv
  BY JournalInvariant, PTL
<1> QED BY <1>1, <1>2, <1>3, PTL DEF Spec

\* The only owner leaves, or stays: owners change one at a time.
LEMMA OwnersStep ==
    ASSUME TypeOK, SingleWriter, NEW p \in Proc, p \in Owners, Owners' \subseteq Owners
    PROVE  (Owners = {p} /\ Owners' = {}) \/ Owners' = Owners
<1>1. Owners = {p}
  BY DEF SingleWriter
<1> QED BY <1>1

\* Each step of the lock and the files is a step of the atomic journal, or none.
LEMMA StepImplements ==
    ASSUME RefineInv, [Next]_vars
    PROVE  [Atomic!Next]_<<Loaded(disk), Owners>>
<1> DEFINE Goal == [Atomic!Next]_<<Loaded(disk), Owners>>
<1> TypeOK /\ SingleWriter /\ LockStands
  BY DEF RefineInv, LockInv
<1>1. ASSUME NEW p \in Proc, p \in Owners, Owners' \subseteq Owners, disk' = disk PROVE Goal
  BY <1>1, OwnersStep DEF Atomic!Next, Atomic!Release, Loaded
<1>2. ASSUME disk' = disk, Owners' = Owners PROVE Goal
  BY <1>2 DEF Loaded
<1>3. ASSUME NEW p \in Proc, Claim(p) PROVE Goal
  <2>1. Owners = {}
    BY <1>3 DEF Claim, Available, LockStands
  <2>2. Owners' = {p}
    BY <1>3, <2>1 DEF Claim, Goto, Owners, TypeOK
  <2> QED BY <1>3, <2>1, <2>2 DEF Claim, Atomic!Next, Atomic!Acquire, Loaded
<1>4. ASSUME NEW p \in Proc, NEW ok \in BOOLEAN,
             WriteToken(p, ok) \/ Load(p, ok) \/ Close(p) \/ CheckToken(p) \/ Unlink(p)
      PROVE  Goal
  <2>1. Owners' \subseteq Owners /\ p \in Owners /\ disk' = disk
    BY <1>4, OwnersShrink
       DEF WriteToken, Load, Close, CheckToken, Unlink, Goto, Steps, Owners
  <2> QED BY <1>1, <2>1
<1>5. ASSUME NEW p \in Proc, Exit(p) PROVE Goal
  <2>1. Owners' \subseteq Owners /\ disk' = disk
    BY <1>5 DEF Exit, Owners, TypeOK
  <2>2. CASE p \in Owners
    BY <1>1, <2>1, <2>2
  <2>3. CASE p \notin Owners
    <3>1. Owners' = Owners
      BY <1>5, <2>3 DEF Exit, Owners, TypeOK
    <3> QED BY <1>2, <2>1, <3>1
  <2> QED BY <2>2, <2>3
<1>6. ASSUME NEW p \in Proc, Stage(p) \/ Rename(p, FALSE) PROVE Goal
  <2>1. Owners' = Owners /\ disk' = disk
    BY <1>6 DEF Stage, Rename, Owners
  <2> QED BY <1>2, <2>1
<1>7. ASSUME NEW p \in Proc, Rename(p, TRUE) PROVE Goal
  <2>1. \E n \in 1 .. MaxWrites : Atomic!Commit(n)
    BY <1>7, RenameExact
  <2> QED BY <2>1 DEF Atomic!Next
<1>8. CASE Replace \/ Remove \/ UNCHANGED vars
  <2>1. Owners' = Owners /\ disk' = disk
    BY <1>8 DEF Replace, Remove, vars, Owners
  <2> QED BY <1>2, <2>1
<1> QED
  BY <1>3, <1>4, <1>5, <1>6, <1>7, <1>8 DEF Next, Step

\* claimJournal, JobStore.load and JobStore.change under the lock behave, through
\* any crashes and interventions, as one journal whose only owner adds one change
\* at a time.
THEOREM JournalImplementsAtomic == Spec => ImplementsJournal
<1>1. Init => Atomic!Init
  BY DEF Init, Atomic!Init, Loaded, Owners
<1>2. RefineInv /\ [Next]_vars => [Atomic!Next]_(Atomic!vars)
  BY StepImplements DEF Atomic!vars
<1> QED BY RefineInvariant, <1>1, <1>2, PTL DEF Spec, ImplementsJournal, Atomic!Spec
=============================================================================
