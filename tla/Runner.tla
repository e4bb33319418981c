------------------------------- MODULE Runner -------------------------------
(***************************************************************************)
(* The testnet runner (src/src/bsc/server.ts) with its journal (store.ts)  *)
(* and its monitor (operations.ts), beside the chain they watch.  The      *)
(* runner never broadcasts: a wallet outside it signs the plan of a job,   *)
(* and the runner binds the transaction's hash to the job, waits for two   *)
(* confirmations on an independent RPC and stores a proof.                 *)
(*                                                                         *)
(* An HTTP request or a monitor pass runs as a task of a few steps, one    *)
(* between two awaits that matter: chain reads and journal writes.  A      *)
(* journal write is atomic on disk (a rename), so "journal" is both the    *)
(* file and the copy in memory, and a crash keeps it and loses the rest.   *)
(***************************************************************************)
EXTENDS Integers, Sequences, FiniteSets

CONSTANTS
    Hash, NoHash,        \* transaction hashes
    Slot,                \* HTTP requests that can be in flight
    Monitor,             \* the reconciliation worker
    JournalCapacity,     \* 500 jobs
    DeadlineBlocks,      \* a plan's 90 seconds, in blocks
    MaxHeight            \* bound of the model: blocks

Worker == Slot \cup {Monitor}
Foreign == 0             \* the plan of a transaction that carries none

Block == [nonce: Nat, paused: BOOLEAN]
Receipt == {"none", "VERIFIED", "FROZEN"}
JobId == [plan: Nat, retry: Nat]
Job == [id: JobId, state: {"AWAITING_SIGNATURE", "VERIFYING", "VERIFIED", "FROZEN"},
        hash: Hash \cup {NoHash}, receipt: Receipt]
TxType == [sent: BOOLEAN, plan: Nat, block: Nat, ok: BOOLEAN]
Steps == {"idle", "plan", "bind", "confirm", "finish", "clear"}

ASSUME NamesAssumption == NoHash \notin Hash /\ Monitor \notin Slot
ASSUME BoundsAssumption ==
    /\ JournalCapacity \in Nat \ {0}
    /\ DeadlineBlocks \in Nat /\ MaxHeight \in Nat \ {0}

VARIABLES
    chain,      \* blocks: the vault's executionNonce and pause after each
    tx,         \* what the network knows of each hash
    seen,       \* the head the verifier RPC serves
    up,         \* the runner process is running
    journal,    \* [frozen, jobs]
    task,       \* what each worker is doing
    round,      \* jobs the monitor's pass has still to verify
    acked       \* history: failed jobs a recovery acknowledged

chainVars == <<chain, tx, seen>>
serviceVars == <<up, journal, task, round, acked>>
vars == <<chainVars, serviceVars>>

Height == Len(chain)
Tip == chain[Height]
jobs == journal.jobs

IdleTask == [step |-> "idle", id |-> [plan |-> 0, retry |-> 0], hash |-> NoHash,
             block |-> 0, proof |-> "none", ack |-> {}]

-----------------------------------------------------------------------------
(* The journal. *)

Ids == {jobs[i].id : i \in 1 .. Len(jobs)}

\* jobs.find(j => j.id === id); the first is the only one (JobsDistinct).
Find(id) == CHOOSE i \in 1 .. Len(jobs) : jobs[i].id = id

JobOf(id) == jobs[Find(id)]

Matching(plan) == {i \in 1 .. Len(jobs) : jobs[i].id.plan = plan}

Failed == {jobs[i].id : i \in {k \in 1 .. Len(jobs) : jobs[k].state = "FROZEN"}}

\* Faulty variant: a job without a hash counts as pending.
IsPendingUnsigned(job) == job.receipt = "none"

IsPending(job) ==
    job.state = "VERIFYING" /\ job.receipt = "none" /\ job.hash # NoHash

Pending == {i \in 1 .. Len(jobs) : IsPending(jobs[i])}

WithJob(id, job) == [jobs EXCEPT ![Find(id)] = job]

-----------------------------------------------------------------------------
(* The chain and the wallet, outside the runner. *)

Executable(plan) ==
    /\ plan # Foreign
    /\ chain[plan].nonce = Tip.nonce
    /\ ~Tip.paused
    /\ Height + 1 <= plan + DeadlineBlocks

\* A wallet signs the plan of a job, or some unrelated transaction.
Sign(h) ==
    /\ ~tx[h].sent
    /\ \E plan \in {id.plan : id \in Ids} \cup {Foreign} :
          tx' = [tx EXCEPT ![h].sent = TRUE, ![h].plan = plan]
    /\ UNCHANGED <<chain, seen, serviceVars>>

Grow(block) ==
    /\ Height < MaxHeight
    /\ chain' = Append(chain, block)

\* A rebalance executes at most once per nonce and may revert for reasons of its
\* own: slippage, a stale oracle, the cooldown (Vault).
Mine(h) ==
    /\ tx[h].sent /\ tx[h].block = 0
    /\ \E ok \in IF tx[h].plan = Foreign THEN {TRUE} ELSE {FALSE, Executable(tx[h].plan)} :
          /\ Grow([Tip EXCEPT !.nonce = IF ok /\ tx[h].plan # Foreign THEN @ + 1 ELSE @])
          /\ tx' = [tx EXCEPT ![h].block = Height + 1, ![h].ok = ok]
    /\ UNCHANGED <<seen, serviceVars>>

\* The owner pauses or resumes the vault; when nothing changes, an empty block.
SetPaused(next) ==
    /\ Grow([Tip EXCEPT !.paused = next])
    /\ UNCHANGED <<tx, seen, serviceVars>>

\* The verifier RPC lags behind the chain and never goes back.
VerifierAdvances ==
    /\ seen < Height
    /\ seen' = seen + 1
    /\ UNCHANGED <<chain, tx, serviceVars>>

-----------------------------------------------------------------------------
(* Tasks.  "serialized" chains every task behind the one before. *)

\* Faulty variant: tasks interleave at their awaits.
Unserialized == up

Serialized == up /\ \A w \in Worker : task[w].step = "idle"

At(w, step) == up /\ task[w].step = step

Continue(w, t) ==
    /\ task' = [task EXCEPT ![w] = t]
    /\ UNCHANGED <<chainVars, up, round>>

\* A step that awaits the chain and writes nothing.
ReadStep(w, t) == Continue(w, t) /\ UNCHANGED <<journal, acked>>

\* Faulty variant: a full journal refuses every write, not only a new job.
ChangeUnlessFull(next) ==
    journal' = IF Len(jobs) < JournalCapacity THEN next ELSE journal

\* JobStore.change: the new journal is renamed into place, unless it holds too
\* many jobs.
Change(next) ==
    journal' = IF Len(next.jobs) <= JournalCapacity THEN next ELSE journal

\* POST /plans: the frozen check, then the snapshot of some block b.
PlanStart(w, b) ==
    /\ Serialized /\ task[w].step = "idle"
    /\ ~journal.frozen
    /\ ~chain[b].paused
    /\ ReadStep(w, [IdleTask EXCEPT !.step = "plan", !.id = [plan |-> b, retry |-> 0]])

\* Faulty variant: only an unsigned proposal counts as the plan's live job.
LiveUnsigned(plan) == {i \in Matching(plan) : jobs[i].state = "AWAITING_SIGNATURE"}

Live(plan) == {i \in Matching(plan) : jobs[i].state # "FROZEN"}

Retry(plan) == Cardinality(Matching(plan))

\* A live job for the same plan is returned as it is, else a job is appended.
PlanSave(w) ==
    LET plan == task[w].id.plan
        job == [id |-> [plan |-> plan, retry |-> Retry(plan)],
                state |-> "AWAITING_SIGNATURE", hash |-> NoHash, receipt |-> "none"]
    IN  /\ At(w, "plan")
        /\ IF Live(plan) # {}
             THEN UNCHANGED journal
             ELSE Change([journal EXCEPT !.jobs = Append(@, job)])
        /\ Continue(w, IdleTask)
        /\ UNCHANGED acked

\* verifySaved: refused unless the job has no receipt and no other hash, and
\* the verifier RPC knows the transaction.
\* Faulty variant: the hash already bound is not compared.
CanVerifyAnyHash(id, h) == id \in Ids /\ JobOf(id).receipt = "none" /\ tx[h].sent

CanVerify(id, h) ==
    /\ id \in Ids
    /\ JobOf(id).receipt = "none"
    /\ JobOf(id).hash \in {NoHash, h}
    /\ tx[h].sent

VerifyTask(id, h) ==
    [IdleTask EXCEPT !.step = "bind", !.id = id, !.hash = h,
                     !.block = IF tx[h].block <= seen THEN tx[h].block ELSE 0]

\* POST /verify, refused while the runner is frozen.
RequestVerify(w, id, h) ==
    /\ Serialized /\ task[w].step = "idle"
    /\ ~journal.frozen
    /\ CanVerify(id, h)
    /\ ReadStep(w, VerifyTask(id, h))

\* The hash is journaled before any proof is read.
VerifyBind(w) ==
    LET t == task[w] IN
    /\ At(w, "bind")
    /\ Change([journal EXCEPT !.jobs =
          WithJob(t.id, [JobOf(t.id) EXCEPT !.hash = t.hash, !.state = "VERIFYING"])])
    /\ Continue(w, IF t.block = 0 THEN IdleTask ELSE [t EXCEPT !.step = "confirm"])
    /\ UNCHANGED acked

\* Two confirmations: the block and one after it.
Confirmed(block) == seen >= block + 1

\* verifyExecution: VERIFIED needs the plan's own calldata, executed; a pruned
\* snapshot or any mismatch is FROZEN.
\* Faulty variant: the receipt's success is taken as proof.
ProofsSucceeded(plan, h) ==
    IF tx[h].ok /\ Confirmed(tx[h].block) THEN {"VERIFIED", "FROZEN"} ELSE {"FROZEN"}

Proofs(plan, h) ==
    IF tx[h].ok /\ tx[h].plan = plan /\ Confirmed(tx[h].block)
      THEN {"VERIFIED", "FROZEN"} ELSE {"FROZEN"}

VerifyProve(w) ==
    LET t == task[w] IN
    /\ At(w, "confirm")
    /\ IF Confirmed(t.block)
         THEN \E proof \in Proofs(t.id.plan, t.hash) :
                 ReadStep(w, [t EXCEPT !.step = "finish", !.proof = proof])
         ELSE ReadStep(w, IdleTask)

\* finish: receipt, state and freeze are one journal write.
VerifyFinish(w) ==
    LET t == task[w]
        job == [JobOf(t.id) EXCEPT !.receipt = t.proof, !.hash = t.hash, !.state = t.proof]
    IN  /\ At(w, "finish")
        /\ Change([frozen |-> journal.frozen \/ t.proof = "FROZEN", jobs |-> WithJob(t.id, job)])
        /\ Continue(w, IdleTask)
        /\ UNCHANGED acked

\* POST /recover, owner only: the verifier must see the vault paused.
RecoverCheck(w) ==
    /\ Serialized /\ task[w].step = "idle"
    /\ chain[seen].paused
    /\ ReadStep(w, [IdleTask EXCEPT !.step = "clear", !.ack = Failed])

RecoverClear(w) ==
    /\ At(w, "clear")
    /\ Change([journal EXCEPT !.frozen = FALSE])
    /\ acked' = acked \cup task[w].ack
    /\ Continue(w, IdleTask)

\* An RPC read fails or times out, or a journal write fails: the task ends.
TaskFails(w) ==
    /\ task[w].step # "idle"
    /\ task' = [task EXCEPT ![w] = IdleTask]
    /\ UNCHANGED <<chainVars, up, journal, round, acked>>

-----------------------------------------------------------------------------
(* The monitor: one pass at a time over the jobs pending when it began, in  *)
(* the journal's order. *)

MonitorBegin ==
    /\ up
    /\ round = {} /\ task[Monitor].step = "idle"
    /\ Pending # {}
    /\ round' = {[id |-> jobs[i].id, hash |-> jobs[i].hash] : i \in Pending}
    /\ UNCHANGED <<chainVars, up, journal, task, acked>>

\* The monitor's verify goes through the same queue, frozen or not.
MonitorVerify ==
    /\ Serialized /\ task[Monitor].step = "idle"
    /\ \E next \in round :
          /\ \A other \in round : Find(next.id) <= Find(other.id)
          /\ round' = round \ {next}
          /\ task' = [task EXCEPT ![Monitor] =
                IF CanVerify(next.id, next.hash) THEN VerifyTask(next.id, next.hash)
                ELSE IdleTask]
    /\ UNCHANGED <<chainVars, up, journal, acked>>

Crash ==
    /\ up
    /\ up' = FALSE
    /\ task' = [w \in Worker |-> IdleTask]
    /\ round' = {}
    /\ UNCHANGED <<chainVars, journal, acked>>

\* load reads the journal the last rename left.
Restart ==
    /\ ~up
    /\ up' = TRUE
    /\ UNCHANGED <<chainVars, journal, task, round, acked>>

-----------------------------------------------------------------------------
Init ==
    /\ chain = <<[nonce |-> 0, paused |-> FALSE]>>
    /\ tx = [h \in Hash |-> [sent |-> FALSE, plan |-> Foreign, block |-> 0, ok |-> FALSE]]
    /\ seen = 1
    /\ up = TRUE
    /\ journal = [frozen |-> FALSE, jobs |-> <<>>]
    /\ task = [w \in Worker |-> IdleTask]
    /\ round = {}
    /\ acked = {}

TaskStep(w) ==
    PlanSave(w) \/ VerifyBind(w) \/ VerifyProve(w) \/ VerifyFinish(w) \/ RecoverClear(w)

Request(w) ==
    \/ \E b \in 1 .. Height : PlanStart(w, b)
    \/ \E id \in Ids, h \in Hash : RequestVerify(w, id, h)
    \/ RecoverCheck(w)

ChainStep ==
    \/ \E h \in Hash : Sign(h) \/ Mine(h)
    \/ \E next \in BOOLEAN : SetPaused(next)
    \/ VerifierAdvances

Next ==
    \/ ChainStep
    \/ \E w \in Slot : Request(w)
    \/ \E w \in Worker : TaskStep(w) \/ TaskFails(w)
    \/ MonitorBegin \/ MonitorVerify
    \/ Crash \/ Restart

Spec == Init /\ [][Next]_vars

\* The event loop runs every started task on and the timer starts every pass.
\* The queue is first come, first served, so the monitor's turn comes even when
\* requests keep arriving: strong fairness.  Failures and crashes may recur, but
\* not at the same step of every attempt: strong fairness of the monitor's own
\* steps.  The verifier RPC catches up.
Fairness ==
    /\ \A w \in Worker : WF_vars(TaskStep(w))
    /\ WF_vars(VerifierAdvances)
    /\ SF_vars(MonitorBegin) /\ SF_vars(MonitorVerify)
    /\ SF_vars(VerifyBind(Monitor)) /\ SF_vars(VerifyProve(Monitor))
    /\ SF_vars(VerifyFinish(Monitor))

FairSpec == Spec /\ Fairness

-----------------------------------------------------------------------------
TaskType == [step: Steps, id: JobId, hash: Hash \cup {NoHash}, block: Nat,
             proof: Receipt, ack: SUBSET JobId]

\* The type invariant of the chain, the journal and the tasks (server.ts, store.ts).
TypeOK ==
    /\ chain \in Seq(Block) /\ Height \in 1 .. MaxHeight
    /\ tx \in [Hash -> TxType]
    /\ seen \in 1 .. Height
    /\ up \in BOOLEAN
    /\ journal \in [frozen: BOOLEAN, jobs: Seq(Job)]
    /\ task \in [Worker -> TaskType]
    /\ round \subseteq [id: JobId, hash: Hash]
    /\ acked \subseteq JobId

\* A job id names one job, and a plan has at most one job that has not failed,
\* however often it failed and was planned again after a recovery.
JobsDistinct ==
    \A i, k \in 1 .. Len(jobs) : i # k =>
        /\ jobs[i].id # jobs[k].id
        /\ jobs[i].id.plan = jobs[k].id.plan =>
              "FROZEN" \in {jobs[i].state, jobs[k].state}

\* The journal is evidence: a job is never dropped, a hash once bound is never
\* replaced and a proof once stored never changes, even when two requests and
\* the monitor verify the same job and the process crashes in between.
JournalIsEvidence ==
    [][\A i \in 1 .. Len(jobs) :
          /\ i <= Len(journal'.jobs)
          /\ journal'.jobs[i].id = jobs[i].id
          /\ jobs[i].hash # NoHash => journal'.jobs[i].hash = jobs[i].hash
          /\ jobs[i].receipt # "none" => journal'.jobs[i].receipt = jobs[i].receipt]_vars

\* The runner is frozen exactly while some failed proof has not been
\* acknowledged by a recovery, across crashes, failed writes and proofs that
\* fail while a recovery is under way.
FrozenUntilAcknowledged == journal.frozen <=> ~(Failed \subseteq acked)

\* No plan is issued while a failed proof is unacknowledged, not even by a
\* request that passed the frozen check before the proof failed.
NoPlanAfterFailure ==
    [][Len(journal'.jobs) > Len(jobs) => Failed \subseteq acked]_vars

\* A VERIFIED job's plan was executed by its own transaction, before the plan's
\* deadline, at the nonce the plan was made for; and no two VERIFIED jobs share
\* that nonce, so one on-chain rebalance is never counted as two.
VerifiedMeansExecuted ==
    LET verified == {i \in 1 .. Len(jobs) : jobs[i].state = "VERIFIED"}
        nonce(i) == chain[jobs[i].id.plan].nonce
        mined(i) == tx[jobs[i].hash].block
    IN  /\ \A i \in verified :
              /\ mined(i) # 0 /\ mined(i) <= jobs[i].id.plan + DeadlineBlocks
              /\ chain[mined(i) - 1].nonce = nonce(i) /\ chain[mined(i)].nonce = nonce(i) + 1
        /\ \A i, k \in verified : i # k => nonce(i) # nonce(k)

\* If the process stops crashing, a job whose bound transaction has its
\* confirmations is eventually proved, one way or the other, whatever requests,
\* earlier crashes, RPC faults, a freeze or a full journal do meanwhile.
BoundJobsProved ==
    <>[]up =>
        \A plan \in 1 .. MaxHeight, retry \in 0 .. JournalCapacity :
            LET id == [plan |-> plan, retry |-> retry]
                waiting == /\ id \in Ids
                           /\ IsPending(JobOf(id))
                           /\ tx[JobOf(id).hash].block \in 1 .. Height - 1
            IN  waiting ~> (id \in Ids /\ JobOf(id).receipt # "none")
=============================================================================
