---------------------------- MODULE RunnerProofs ----------------------------
(***************************************************************************)
(* The runner's promises for any number of requests, transactions and      *)
(* blocks.  The argument: the queue lets one task at a time leave idle     *)
(* ("Alone"), so what a task has read of the journal still holds when it   *)
(* writes ("TasksGood"); a write then replaces one job that has no proof,  *)
(* appends one with a fresh id, or thaws ("JournalGood").  What a VERIFIED  *)
(* proof says of the chain rests on nonces that only rise and on successes *)
(* that are never undone ("ChainGood").                                    *)
(***************************************************************************)
EXTENDS Runner, SequenceTheorems, FiniteSetTheorems, TLAPS

\* A job's state tells its receipt.
Consistent(job) ==
    /\ job.receipt = "FROZEN" <=> job.state = "FROZEN"
    /\ job.receipt = "VERIFIED" <=> job.state = "VERIFIED"

\* The retry number of a job counts jobs of its plan that came before it.
RetriesCounted ==
    \A i \in 1 .. Len(jobs) : jobs[i].id.retry < Cardinality(Matching(jobs[i].id.plan))

JournalGood ==
    /\ Len(jobs) <= JournalCapacity
    /\ \A i \in 1 .. Len(jobs) : Consistent(jobs[i]) /\ jobs[i].id.plan \in 1 .. Height
    /\ JobsDistinct
    /\ RetriesCounted
    /\ acked \subseteq Failed
    /\ FrozenUntilAcknowledged

\* The queue runs one task at a time.
Alone ==
    \A v, w \in Worker : task[v].step # "idle" /\ task[w].step # "idle" => v = w

\* The job a verification is about: no proof, no other hash.
Verifiable(t, i) ==
    /\ jobs[i].id = t.id
    /\ jobs[i].receipt = "none"
    /\ jobs[i].hash \in {NoHash, t.hash}

\* What a task knows of the journal at each of its steps.
TaskGood(t) ==
    /\ t.step = "plan" => ~journal.frozen /\ t.id.plan \in 1 .. Height
    /\ t.step \in {"bind", "confirm", "finish"} =>
          t.hash \in Hash /\ \E i \in 1 .. Len(jobs) : Verifiable(t, i)
    /\ t.step = "finish" => t.proof \in {"VERIFIED", "FROZEN"}
    /\ t.step = "clear" => t.ack = Failed

TasksGood == \A w \in Worker : TaskGood(task[w])

RunnerInv == TypeOK /\ JournalGood /\ Alone /\ TasksGood

-----------------------------------------------------------------------------
(* The journal. *)

\* Every job of a journal is well formed (Job of store.ts).
LEMMA JobType ==
    ASSUME TypeOK
    PROVE  /\ jobs \in Seq(Job) /\ Len(jobs) \in Nat
           /\ \A i \in 1 .. Len(jobs) : jobs[i] \in Job /\ jobs[i].id \in JobId
<1>1. jobs \in Seq(Job)
  BY DEF TypeOK, jobs
<1>2. Len(jobs) \in Nat
  BY <1>1, LenProperties
<1>3. ASSUME NEW i \in 1 .. Len(jobs) PROVE jobs[i] \in Job /\ jobs[i].id \in JobId
  <2>1. jobs[i] \in Job
    BY <1>1, ElementOfSeq
  <2> QED BY <2>1 DEF Job
<1> QED BY <1>1, <1>2, <1>3

\* A lookup by id finds the job that has it (jobs.find).
LEMMA FindJob ==
    ASSUME JobsDistinct, NEW i \in 1 .. Len(jobs)
    PROVE  Find(jobs[i].id) = i /\ JobOf(jobs[i].id) = jobs[i]
<1>1. \E k \in 1 .. Len(jobs) : jobs[k].id = jobs[i].id
  OBVIOUS
<1>2. Find(jobs[i].id) \in 1 .. Len(jobs) /\ jobs[Find(jobs[i].id)].id = jobs[i].id
  BY <1>1 DEF Find
<1>3. Find(jobs[i].id) = i
  BY <1>2 DEF JobsDistinct
<1> QED BY <1>3 DEF JobOf

\* The jobs of a plan are finitely many (the filter of plans).
LEMMA MatchingFinite ==
    ASSUME TypeOK, NEW plan
    PROVE  IsFiniteSet(Matching(plan)) /\ Retry(plan) \in Nat
<1>1. Len(jobs) \in Int
  BY JobType
<1>2. IsFiniteSet(1 .. Len(jobs)) /\ Matching(plan) \in SUBSET (1 .. Len(jobs))
  BY <1>1, FS_Interval DEF Matching
<1>3. IsFiniteSet(Matching(plan))
  BY <1>2, FS_Subset
<1> QED BY <1>3, FS_CardinalityType DEF Retry

\* A journal that does not change stays good, while the chain only grows.
LEMMA JournalKept ==
    ASSUME TypeOK, JournalGood, UNCHANGED <<journal, acked>>,
           Height' \in Nat, Height <= Height'
    PROVE  JournalGood'
<1>1. jobs' = jobs
  BY DEF jobs
<1>2. Failed' = Failed /\ \A plan : Matching(plan)' = Matching(plan)
  BY <1>1 DEF Failed, Matching
<1>3. Height \in Nat
  BY DEF TypeOK
<1>4. \A i \in 1 .. Len(jobs) : jobs[i].id.plan \in 1 .. Height'
  BY <1>3 DEF JournalGood
<1>5. RetriesCounted'
  BY <1>1, <1>2 DEF JournalGood, RetriesCounted
<1>6. JobsDistinct' /\ FrozenUntilAcknowledged' /\ acked' \subseteq Failed'
  BY <1>1, <1>2 DEF JournalGood, JobsDistinct, FrozenUntilAcknowledged
<1> QED
  BY <1>1, <1>4, <1>5, <1>6 DEF JournalGood, Consistent

\* Replacing a job that has no proof keeps the journal good, if a failed proof
\* freezes it in the same write (verifySaved and finish).
LEMMA JournalReplaces ==
    ASSUME TypeOK, JournalGood, UNCHANGED <<acked, chainVars>>,
           NEW i \in 1 .. Len(jobs), jobs[i].receipt = "none",
           NEW job \in Job, job.id = jobs[i].id, Consistent(job),
           journal'.jobs = [jobs EXCEPT ![i] = job],
           journal'.frozen = (journal.frozen \/ job.state = "FROZEN")
    PROVE  JournalGood'
<1>1. /\ Len(jobs') = Len(jobs)
      /\ \A k \in 1 .. Len(jobs) : jobs'[k] = IF k = i THEN job ELSE jobs[k]
  BY JobType, ExceptSeq DEF jobs
<1>2. jobs[i].state # "FROZEN"
  BY DEF JournalGood, Consistent
<1>3. Height' = Height
  BY DEF Height, chainVars
<1>4. \A k \in 1 .. Len(jobs) : jobs'[k].id = jobs[k].id
  BY <1>1
<1>5. \A plan : Matching(plan)' = Matching(plan)
  BY <1>1, <1>4 DEF Matching
<1>6. RetriesCounted'
  BY <1>1, <1>4, <1>5 DEF JournalGood, RetriesCounted
<1>7. JobsDistinct'
  BY <1>1, <1>2, <1>4 DEF JournalGood, JobsDistinct
<1>8. Failed' = IF job.state = "FROZEN" THEN Failed \cup {job.id} ELSE Failed
  BY <1>1, <1>2, <1>4 DEF Failed
<1>9. job.id \notin Failed
  BY <1>2 DEF Failed, JournalGood, JobsDistinct
<1>10. acked' \subseteq Failed' /\ FrozenUntilAcknowledged'
  BY <1>8, <1>9 DEF JournalGood, FrozenUntilAcknowledged
<1>11. \A k \in 1 .. Len(jobs') : Consistent(jobs'[k]) /\ jobs'[k].id.plan \in 1 .. Height
  BY <1>1, <1>4 DEF JournalGood
<1> QED
  BY <1>1, <1>3, <1>6, <1>7, <1>10, <1>11 DEF JournalGood, Consistent

\* Appending an unsigned job for a plan without a live one keeps the journal
\* good (plans).
LEMMA JournalAppends ==
    ASSUME TypeOK, JournalGood, UNCHANGED <<acked, chainVars>>,
           Len(jobs) + 1 <= JournalCapacity,
           NEW plan \in 1 .. Height, Live(plan) = {},
           NEW job \in Job, job.id = [plan |-> plan, retry |-> Retry(plan)],
           job.state = "AWAITING_SIGNATURE", job.receipt = "none",
           journal'.jobs = Append(jobs, job), journal'.frozen = journal.frozen
    PROVE  JournalGood'
<1> DEFINE n == Len(jobs) + 1
<1>1. /\ Len(jobs') = n /\ Len(jobs) \in Nat
      /\ \A k \in 1 .. Len(jobs) : jobs'[k] = jobs[k]
      /\ jobs'[n] = job
  BY JobType, AppendProperties DEF jobs
<1>2. Height' = Height
  BY DEF Height, chainVars
<1>3. \A k \in Matching(plan) : jobs[k].state = "FROZEN"
  BY DEF Live
<1>4. \A k \in 1 .. Len(jobs) : jobs[k].id.plan = plan => jobs[k].id.retry < Retry(plan)
  BY DEF JournalGood, RetriesCounted, Retry
<1>5. \A k \in 1 .. Len(jobs) : jobs[k].id \in JobId
  BY JobType
<1>6. \A k \in 1 .. Len(jobs) : jobs[k].id # job.id
  BY <1>4, <1>5, MatchingFinite DEF JobId
<1>7. JobsDistinct'
  <2>1. ASSUME NEW k \in 1 .. Len(jobs), jobs[k].id.plan = plan
        PROVE  jobs[k].state = "FROZEN"
    BY <1>3, <2>1 DEF Matching
  <2>2. ASSUME NEW i \in 1 .. Len(jobs'), NEW k \in 1 .. Len(jobs'), i # k
        PROVE  /\ jobs'[i].id # jobs'[k].id
               /\ jobs'[i].id.plan = jobs'[k].id.plan =>
                     "FROZEN" \in {jobs'[i].state, jobs'[k].state}
    <3>1. CASE i # n /\ k # n
      BY <1>1, <2>2, <3>1 DEF JournalGood, JobsDistinct
    <3>2. CASE i = n
      BY <1>1, <1>6, <2>1, <2>2, <3>2
    <3>3. CASE k = n
      BY <1>1, <1>6, <2>1, <2>2, <3>3
    <3> QED BY <3>1, <3>2, <3>3
  <2> QED BY <2>2 DEF JobsDistinct
<1>8. RetriesCounted'
  <2> DEFINE After(other) == {k \in 1 .. Len(jobs') : jobs'[k].id.plan = other}
  <2>1. After(plan) = Matching(plan) \cup {n} /\ n \notin Matching(plan)
    BY <1>1 DEF Matching
  <2>2. Cardinality(After(plan)) = Retry(plan) + 1
    BY <2>1, MatchingFinite, FS_AddElement DEF Retry
  <2>3. ASSUME NEW other, other # plan PROVE After(other) = Matching(other)
    BY <1>1, <2>3 DEF Matching
  <2>4. ASSUME NEW k \in 1 .. Len(jobs')
        PROVE  jobs'[k].id.retry < Cardinality(After(jobs'[k].id.plan))
    <3>1. CASE k = n
      <4>1. jobs'[k].id.retry = Retry(plan) /\ jobs'[k].id.plan = plan
        BY <1>1, <3>1
      <4>2. Retry(plan) \in Nat
        BY MatchingFinite
      <4> HIDE DEF After
      <4> QED BY <2>2, <4>1, <4>2
    <3>2. CASE k # n /\ jobs[k].id.plan = plan
      <4>1. k \in 1 .. Len(jobs) /\ jobs'[k] = jobs[k]
        BY <1>1, <3>2
      <4>2. jobs[k].id.retry \in Nat /\ Retry(plan) \in Nat
        BY <1>5, <4>1, MatchingFinite DEF JobId
      <4> HIDE DEF After
      <4> QED BY <1>4, <2>2, <3>2, <4>1, <4>2
    <3>3. CASE k # n /\ jobs[k].id.plan # plan
      <4>1. k \in 1 .. Len(jobs) /\ jobs'[k] = jobs[k]
        BY <1>1, <3>3
      <4>2. After(jobs[k].id.plan) = Matching(jobs[k].id.plan)
        BY <2>3, <3>3
      <4> HIDE DEF After
      <4> QED BY <4>1, <4>2 DEF JournalGood, RetriesCounted
    <3> QED BY <3>1, <3>2, <3>3
  <2> QED BY <2>4 DEF RetriesCounted, Matching
<1>9. Failed' = Failed
  BY <1>1 DEF Failed
<1>10. acked' \subseteq Failed' /\ FrozenUntilAcknowledged'
  BY <1>9 DEF JournalGood, FrozenUntilAcknowledged
<1>11. \A k \in 1 .. Len(jobs') : Consistent(jobs'[k]) /\ jobs'[k].id.plan \in 1 .. Height
  BY <1>1 DEF JournalGood, Consistent
<1> QED
  BY <1>1, <1>2, <1>7, <1>8, <1>10, <1>11 DEF JournalGood, Consistent

-----------------------------------------------------------------------------
(* The tasks. *)

\* The jobs of the journal that failed have well-formed ids.
LEMMA FailedType ==
    ASSUME TypeOK
    PROVE  Failed \subseteq JobId
BY JobType DEF Failed

\* What the tasks know stays true while the journal stands and the chain grows.
LEMMA TasksKept ==
    ASSUME TypeOK, TasksGood, UNCHANGED <<journal, task>>, Height' \in Nat, Height <= Height'
    PROVE  TasksGood'
<1>1. jobs' = jobs
  BY DEF jobs
<1>2. Failed' = Failed
  BY <1>1 DEF Failed
<1>3. Height \in Nat
  BY DEF TypeOK
<1>4. \A w \in Worker : task[w].step = "plan" =>
          ~journal'.frozen /\ task[w].id.plan \in 1 .. Height'
  BY <1>3 DEF TasksGood, TaskGood
<1> QED
  BY <1>1, <1>2, <1>4 DEF TasksGood, TaskGood, Verifiable

\* An idle task knows nothing (IdleTask).
LEMMA IdleGood == IdleTask \in TaskType /\ TaskGood(IdleTask) /\ IdleTask.step = "idle"
BY DEF IdleTask, TaskType, TaskGood, Steps, JobId, Receipt

\* Steps of the chain, the wallet and the verifier RPC.
LEMMA ChainMoves ==
    ASSUME RunnerInv, UNCHANGED serviceVars,
           chain' \in Seq(Block), Height <= Height', Height' <= MaxHeight,
           tx' \in [Hash -> TxType], seen' \in 1 .. Height'
    PROVE  RunnerInv'
<1>1. Height \in Nat /\ Height' \in Nat
  BY LenProperties DEF RunnerInv, TypeOK, Height
<1>2. TypeOK'
  BY <1>1 DEF RunnerInv, TypeOK, serviceVars
<1>3. JournalGood'
  BY <1>1, JournalKept DEF RunnerInv, serviceVars
<1>4. TasksGood'
  BY <1>1, TasksKept DEF RunnerInv, serviceVars
<1>5. Alone'
  BY DEF RunnerInv, Alone, serviceVars
<1> QED BY <1>2, <1>3, <1>4, <1>5 DEF RunnerInv

\* One task moves while the others are idle; it may write the journal if it is
\* right about it afterwards.
LEMMA OneMoves ==
    ASSUME RunnerInv, UNCHANGED <<chainVars, up>>,
           NEW w \in Worker, \A v \in Worker : v # w => task[v].step = "idle",
           NEW t \in TaskType, task' = [task EXCEPT ![w] = t],
           journal' \in [frozen: BOOLEAN, jobs: Seq(Job)], acked' \subseteq JobId,
           round' \subseteq [id: JobId, hash: Hash],
           JournalGood', TaskGood(task[w])'
    PROVE  RunnerInv'
<1>1. TypeOK'
  BY DEF RunnerInv, TypeOK, chainVars, Height
<1>2. \A v \in Worker : v # w => task'[v].step = "idle"
  BY DEF RunnerInv, TypeOK
<1>3. Alone'
  BY <1>2 DEF Alone
<1>4. task'[w] = t
  BY DEF RunnerInv, TypeOK
<1>5. TasksGood'
  BY <1>2, <1>4 DEF TasksGood, TaskGood
<1> QED BY <1>1, <1>3, <1>5 DEF RunnerInv

\* A task may end with a write.
LEMMA OneEnds ==
    ASSUME RunnerInv, UNCHANGED <<chainVars, up>>,
           NEW w \in Worker, \A v \in Worker : v # w => task[v].step = "idle",
           task' = [task EXCEPT ![w] = IdleTask],
           journal' \in [frozen: BOOLEAN, jobs: Seq(Job)], acked' \subseteq JobId,
           round' \subseteq [id: JobId, hash: Hash], JournalGood'
    PROVE  RunnerInv'
<1>1. task'[w] = IdleTask
  BY DEF RunnerInv, TypeOK
<1>2. TaskGood(task[w])'
  BY <1>1, IdleGood DEF TaskGood
<1> QED BY <1>2, IdleGood, OneMoves

\* A task that writes nothing moves with what it knows.
LEMMA OneReads ==
    ASSUME RunnerInv, UNCHANGED <<chainVars, up, journal, acked>>,
           NEW w \in Worker, \A v \in Worker : v # w => task[v].step = "idle",
           NEW t \in TaskType, task' = [task EXCEPT ![w] = t], TaskGood(t),
           round' \subseteq [id: JobId, hash: Hash]
    PROVE  RunnerInv'
<1>1. Height' = Height /\ Height \in Nat /\ jobs' = jobs /\ Failed' = Failed
  BY DEF RunnerInv, TypeOK, chainVars, Height, jobs, Failed
<1>2. JournalGood'
  BY <1>1, JournalKept DEF RunnerInv
<1>3. task'[w] = t
  BY DEF RunnerInv, TypeOK
<1>4. TaskGood(task[w])'
  BY <1>1, <1>3 DEF TaskGood, Verifiable
<1> QED BY <1>2, <1>4, OneMoves DEF RunnerInv, TypeOK

\* The other tasks are idle while one is under way, and when the queue is empty.
LEMMA OthersIdle ==
    ASSUME RunnerInv, NEW w \in Worker, task[w].step # "idle" \/ Serialized
    PROVE  \A v \in Worker : v # w => task[v].step = "idle"
BY DEF RunnerInv, Alone, Serialized

-----------------------------------------------------------------------------
(* The steps. *)

\* A job that may be verified is one of the journal's, without a proof.
LEMMA VerifyStarts ==
    ASSUME RunnerInv, NEW id, NEW h \in Hash, CanVerify(id, h)
    PROVE  VerifyTask(id, h) \in TaskType /\ TaskGood(VerifyTask(id, h))
<1>1. PICK i \in 1 .. Len(jobs) : jobs[i].id = id
  BY DEF CanVerify, Ids
<1>2. JobOf(id) = jobs[i] /\ id \in JobId
  BY <1>1, FindJob, JobType DEF RunnerInv, JournalGood
<1>3. tx[h].block \in Nat
  BY DEF RunnerInv, TypeOK, TxType
<1>4. VerifyTask(id, h) \in TaskType
  BY <1>2, <1>3, IdleGood DEF VerifyTask, TaskType, Steps
<1>5. Verifiable(VerifyTask(id, h), i)
  BY <1>1, <1>2, IdleGood DEF CanVerify, VerifyTask, Verifiable, TaskType
<1>6. VerifyTask(id, h).step = "bind" /\ VerifyTask(id, h).hash = h
  BY IdleGood DEF VerifyTask, TaskType
<1> QED BY <1>4, <1>5, <1>6 DEF TaskGood

\* A request or a monitor pass that enters the queue keeps the invariant.
LEMMA StartStep ==
    ASSUME RunnerInv, NEW w \in Worker,
           \/ \E b \in 1 .. Height : PlanStart(w, b)
           \/ \E id \in Ids, h \in Hash : RequestVerify(w, id, h)
           \/ RecoverCheck(w)
           \/ w = Monitor /\ MonitorVerify
    PROVE  RunnerInv'
<1>0. round \subseteq [id: JobId, hash: Hash]
  BY DEF RunnerInv, TypeOK
<1>1. ASSUME NEW b \in 1 .. Height, PlanStart(w, b) PROVE RunnerInv'
  <2> DEFINE id == [plan |-> b, retry |-> 0]
             t == [IdleTask EXCEPT !.step = "plan", !.id = id]
  <2>1. id \in JobId /\ id.plan = b
    BY DEF JobId, RunnerInv, TypeOK
  <2>2. t \in TaskType /\ t.step = "plan" /\ t.id = id
    BY <2>1, IdleGood DEF TaskType, Steps
  <2>3. TaskGood(t)
    BY <1>1, <2>1, <2>2 DEF TaskGood, PlanStart
  <2> HIDE DEF t
  <2> QED BY <1>0, <1>1, <2>2, <2>3, OthersIdle, OneReads DEF PlanStart, ReadStep, Continue, t
<1>2. ASSUME NEW id \in Ids, NEW h \in Hash, RequestVerify(w, id, h) PROVE RunnerInv'
  BY <1>0, <1>2, VerifyStarts, OthersIdle, OneReads DEF RequestVerify, ReadStep, Continue
<1>3. CASE RecoverCheck(w)
  <2> DEFINE t == [IdleTask EXCEPT !.step = "clear", !.ack = Failed]
  <2>1. t \in TaskType /\ t.step = "clear" /\ t.ack = Failed
    BY IdleGood, FailedType DEF TaskType, Steps, RunnerInv
  <2>2. TaskGood(t)
    BY <2>1 DEF TaskGood
  <2> HIDE DEF t
  <2> QED BY <1>0, <1>3, <2>1, <2>2, OthersIdle, OneReads DEF RecoverCheck, ReadStep, Continue, t
<1>4. CASE w = Monitor /\ MonitorVerify
  <2>1. PICK next \in round :
          /\ round' = round \ {next}
          /\ task' = [task EXCEPT ![Monitor] =
                IF CanVerify(next.id, next.hash) THEN VerifyTask(next.id, next.hash)
                ELSE IdleTask]
    BY <1>4 DEF MonitorVerify
  <2>2. next.hash \in Hash /\ round' \subseteq [id: JobId, hash: Hash]
    BY <1>0, <2>1
  <2> DEFINE t == IF CanVerify(next.id, next.hash) THEN VerifyTask(next.id, next.hash)
                  ELSE IdleTask
  <2>3. t \in TaskType /\ TaskGood(t)
    BY <2>2, VerifyStarts, IdleGood
  <2>4. task' = [task EXCEPT ![w] = t]
    BY <1>4, <2>1
  <2> HIDE DEF t
  <2> QED BY <1>4, <2>2, <2>3, <2>4, OthersIdle, OneReads DEF MonitorVerify, chainVars
<1> QED BY <1>1, <1>2, <1>3, <1>4

\* Writing a plan's job keeps the invariant (plans).
LEMMA PlanSaveStep ==
    ASSUME RunnerInv, NEW w \in Worker, PlanSave(w)
    PROVE  RunnerInv'
<1> DEFINE plan == task[w].id.plan
           job == [id |-> [plan |-> plan, retry |-> Retry(plan)],
                   state |-> "AWAITING_SIGNATURE", hash |-> NoHash, receipt |-> "none"]
<1>1. /\ task[w].step = "plan" /\ task' = [task EXCEPT ![w] = IdleTask]
      /\ UNCHANGED <<chainVars, up, round, acked>>
  BY DEF PlanSave, At, Continue
<1>2. plan \in 1 .. Height
  BY <1>1 DEF RunnerInv, TasksGood, TaskGood
<1>3. Retry(plan) \in Nat
  BY MatchingFinite DEF RunnerInv
<1>4. job \in Job /\ journal \in [frozen: BOOLEAN, jobs: Seq(Job)]
  BY <1>2, <1>3 DEF Job, JobId, Receipt, RunnerInv, TypeOK
<1>5. \A v \in Worker : v # w => task[v].step = "idle"
  BY <1>1, OthersIdle
<1>6. round' \subseteq [id: JobId, hash: Hash] /\ acked' \subseteq JobId
  BY <1>1 DEF RunnerInv, TypeOK
<1>7. CASE UNCHANGED journal
  BY <1>1, <1>5, <1>6, <1>7, IdleGood, OneReads
<1>8. CASE /\ Live(plan) = {} /\ Len(jobs) + 1 <= JournalCapacity
           /\ journal' = [journal EXCEPT !.jobs = Append(jobs, job)]
  <2>1. /\ Append(jobs, job) \in Seq(Job)
        /\ journal'.jobs = Append(jobs, job) /\ journal'.frozen = journal.frozen
    BY <1>4, <1>8 DEF jobs
  <2>2. journal' \in [frozen: BOOLEAN, jobs: Seq(Job)]
    BY <1>4, <1>8, <2>1
  <2>3. JournalGood'
    BY <1>1, <1>2, <1>4, <1>8, <2>1, JournalAppends DEF RunnerInv
  <2> HIDE DEF job
  <2> QED BY <1>1, <1>5, <1>6, <2>2, <2>3, OneEnds
<1>9. \/ UNCHANGED journal
      \/ Live(plan) = {} /\ Change([journal EXCEPT !.jobs = Append(@, job)])
  BY DEF PlanSave
<1>10. Len([journal EXCEPT !.jobs = Append(@, job)].jobs) = Len(jobs) + 1
  <2>1. [journal EXCEPT !.jobs = Append(@, job)].jobs = Append(jobs, job) /\ jobs \in Seq(Job)
    BY <1>4 DEF jobs
  <2> QED BY <1>4, <2>1, AppendProperties
<1> QED BY <1>7, <1>8, <1>9, <1>10 DEF Change, jobs

\* A write that replaces job i, which a verification is about, by "job".
Replaces(w, i, job) ==
    /\ Verifiable(task[w], i)
    /\ job.id = jobs[i].id /\ job.hash = task[w].hash /\ Consistent(job)
    /\ journal' \in [frozen: BOOLEAN, jobs: Seq(Job)]
    /\ journal'.jobs = [jobs EXCEPT ![i] = job]
    /\ journal'.frozen = (journal.frozen \/ job.state = "FROZEN")

\* The job a verification is about is found by its id.
LEMMA TaskJob ==
    ASSUME RunnerInv, NEW w \in Worker, task[w].step \in {"bind", "confirm", "finish"}
    PROVE  /\ task[w] \in TaskType /\ task[w].hash \in Hash
           /\ \E i \in 1 .. Len(jobs) :
                 /\ Verifiable(task[w], i)
                 /\ Find(task[w].id) = i /\ JobOf(task[w].id) = jobs[i] /\ jobs[i] \in Job
<1>1. task[w] \in TaskType /\ TaskGood(task[w])
  BY DEF RunnerInv, TypeOK, TasksGood
<1>2. PICK i \in 1 .. Len(jobs) : Verifiable(task[w], i)
  BY <1>1 DEF TaskGood
<1>3. Find(task[w].id) = i /\ JobOf(task[w].id) = jobs[i] /\ jobs[i] \in Job
  BY <1>2, FindJob, JobType DEF Verifiable, RunnerInv, JournalGood
<1> QED BY <1>1, <1>2, <1>3 DEF TaskGood

\* The capacity never refuses a replacement: it adds no job (JobStore.change).
LEMMA ReplacementFits ==
    ASSUME RunnerInv, NEW i \in 1 .. Len(jobs), NEW job \in Job
    PROVE  /\ [jobs EXCEPT ![i] = job] \in Seq(Job)
           /\ [jobs EXCEPT ![i] = job][i] = job
           /\ Len([jobs EXCEPT ![i] = job]) <= JournalCapacity
BY JobType, ExceptSeq DEF RunnerInv, JournalGood

\* Binding writes the hash into the job and leaves it without proof.
LEMMA BindReplaces ==
    ASSUME RunnerInv, NEW w \in Worker, VerifyBind(w)
    PROVE  \E i \in 1 .. Len(jobs), job \in Job :
              Replaces(w, i, job) /\ job.state = "VERIFYING" /\ job.receipt = "none"
<1>1. task[w].step = "bind"
  BY DEF VerifyBind, At
<1>2. PICK i \in 1 .. Len(jobs) :
         /\ Verifiable(task[w], i)
         /\ Find(task[w].id) = i /\ JobOf(task[w].id) = jobs[i] /\ jobs[i] \in Job
  BY <1>1, TaskJob
<1> DEFINE job == [jobs[i] EXCEPT !.hash = task[w].hash, !.state = "VERIFYING"]
<1>3. /\ job \in Job /\ job.id = jobs[i].id /\ job.receipt = "none"
      /\ job.state = "VERIFYING" /\ job.hash = task[w].hash
  BY <1>1, <1>2, TaskJob DEF Job, Verifiable
<1>4. Change([journal EXCEPT !.jobs = [jobs EXCEPT ![i] = job]])
  BY <1>2 DEF VerifyBind, WithJob
<1> HIDE DEF job
<1>5. journal' = [journal EXCEPT !.jobs = [jobs EXCEPT ![i] = job]]
  BY <1>3, <1>4, ReplacementFits DEF Change, RunnerInv, TypeOK
<1>6. Replaces(w, i, job)
  BY <1>2, <1>3, <1>5, ReplacementFits DEF Replaces, Consistent, RunnerInv, TypeOK
<1> QED BY <1>3, <1>6

\* Finishing writes the proof into the job and freezes if it failed.
LEMMA FinishReplaces ==
    ASSUME RunnerInv, NEW w \in Worker, VerifyFinish(w)
    PROVE  \E i \in 1 .. Len(jobs), job \in Job :
              Replaces(w, i, job) /\ job.state = task[w].proof
<1>1. task[w].step = "finish" /\ task[w].proof \in {"VERIFIED", "FROZEN"}
  BY DEF VerifyFinish, At, RunnerInv, TasksGood, TaskGood
<1>2. PICK i \in 1 .. Len(jobs) :
         /\ Verifiable(task[w], i)
         /\ Find(task[w].id) = i /\ JobOf(task[w].id) = jobs[i] /\ jobs[i] \in Job
  BY <1>1, TaskJob
<1> DEFINE proof == task[w].proof
           job == [jobs[i] EXCEPT !.receipt = proof, !.hash = task[w].hash, !.state = proof]
<1>3. /\ job \in Job /\ job.id = jobs[i].id /\ Consistent(job)
      /\ job.state = proof /\ job.hash = task[w].hash
  BY <1>1, <1>2, TaskJob DEF Job, Receipt, Consistent
<1>4. Change([frozen |-> journal.frozen \/ proof = "FROZEN", jobs |-> [jobs EXCEPT ![i] = job]])
  BY <1>2 DEF VerifyFinish, WithJob
<1> HIDE DEF job
<1>5. journal' = [frozen |-> journal.frozen \/ proof = "FROZEN",
                  jobs |-> [jobs EXCEPT ![i] = job]]
  BY <1>3, <1>4, ReplacementFits DEF Change
<1>6. Replaces(w, i, job)
  BY <1>2, <1>3, <1>5, ReplacementFits DEF Replaces, RunnerInv, TypeOK
<1> QED BY <1>3, <1>6

\* Binding a hash before any proof keeps the invariant (verifySaved).
LEMMA VerifyBindStep ==
    ASSUME RunnerInv, NEW w \in Worker, VerifyBind(w)
    PROVE  RunnerInv'
<1> DEFINE t == task[w]
           next == IF t.block = 0 THEN IdleTask ELSE [t EXCEPT !.step = "confirm"]
<1>1. /\ t.step = "bind" /\ t \in TaskType /\ t.hash \in Hash
      /\ task' = [task EXCEPT ![w] = next]
      /\ UNCHANGED <<chainVars, up, round, acked>>
  BY TaskJob DEF VerifyBind, At, Continue
<1>2. PICK i \in 1 .. Len(jobs), job \in Job : Replaces(w, i, job) /\ job.receipt = "none"
  BY BindReplaces
<1>3. JournalGood'
  BY <1>1, <1>2, JournalReplaces DEF RunnerInv, Replaces, Verifiable
<1>4. next \in TaskType
  BY <1>1, IdleGood DEF TaskType, Steps
<1>5. TaskGood(task[w])'
  <2>1. CASE next = IdleTask
    <3>1. task'[w] = IdleTask
      BY <1>1, <2>1 DEF RunnerInv, TypeOK
    <3> QED BY <3>1, IdleGood DEF TaskGood
  <2>2. CASE next = [t EXCEPT !.step = "confirm"]
    <3>1. task'[w].step = "confirm" /\ task'[w].id = t.id /\ task'[w].hash = t.hash
      BY <1>1, <2>2 DEF RunnerInv, TypeOK, TaskType
    <3>2. i \in 1 .. Len(jobs') /\ jobs'[i] = job
      BY <1>2, JobType, ExceptSeq DEF Replaces, jobs, RunnerInv
    <3> QED BY <1>1, <1>2, <3>1, <3>2 DEF TaskGood, Verifiable, Replaces
  <2> QED BY <2>1, <2>2
<1>6. round' \subseteq [id: JobId, hash: Hash] /\ acked' \subseteq JobId
  BY <1>1 DEF RunnerInv, TypeOK
<1> HIDE DEF next
<1> QED
  BY <1>1, <1>2, <1>3, <1>4, <1>5, <1>6, OthersIdle, OneMoves DEF Replaces

\* Reading a proof keeps the invariant (verifySaved).
LEMMA VerifyProveStep ==
    ASSUME RunnerInv, NEW w \in Worker, VerifyProve(w)
    PROVE  RunnerInv'
<1>1. /\ task[w].step = "confirm" /\ task[w] \in TaskType /\ TaskGood(task[w])
      /\ round \subseteq [id: JobId, hash: Hash]
  BY DEF VerifyProve, At, RunnerInv, TypeOK, TasksGood
<1>2. ASSUME NEW proof \in {"VERIFIED", "FROZEN"},
             ReadStep(w, [task[w] EXCEPT !.step = "finish", !.proof = proof])
      PROVE  RunnerInv'
  <2> DEFINE t == [task[w] EXCEPT !.step = "finish", !.proof = proof]
  <2>1. /\ t \in TaskType /\ t.step = "finish" /\ t.proof = proof
        /\ t.id = task[w].id /\ t.hash = task[w].hash
    BY <1>1 DEF TaskType, Steps, Receipt
  <2>2. TaskGood(t)
    BY <1>1, <2>1 DEF TaskGood, Verifiable
  <2> HIDE DEF t
  <2>3. task' = [task EXCEPT ![w] = t] /\ UNCHANGED <<chainVars, up, journal, acked, round>>
    BY <1>2 DEF ReadStep, Continue, t
  <2> QED BY <1>1, <2>1, <2>2, <2>3, OthersIdle, OneReads
<1>3. CASE ReadStep(w, IdleTask)
  BY <1>1, <1>3, IdleGood, OthersIdle, OneReads DEF ReadStep, Continue
<1> QED BY <1>2, <1>3 DEF VerifyProve, Proofs

\* Storing a proof, and freezing if it failed, keeps the invariant (finish).
LEMMA VerifyFinishStep ==
    ASSUME RunnerInv, NEW w \in Worker, VerifyFinish(w)
    PROVE  RunnerInv'
<1>1. /\ task[w].step = "finish" /\ task' = [task EXCEPT ![w] = IdleTask]
      /\ UNCHANGED <<chainVars, up, round, acked>>
  BY DEF VerifyFinish, At, Continue
<1>2. PICK i \in 1 .. Len(jobs), job \in Job : Replaces(w, i, job)
  BY FinishReplaces
<1>3. JournalGood'
  BY <1>1, <1>2, JournalReplaces DEF RunnerInv, Replaces, Verifiable
<1>4. round' \subseteq [id: JobId, hash: Hash] /\ acked' \subseteq JobId
  BY <1>1 DEF RunnerInv, TypeOK
<1> QED
  BY <1>1, <1>2, <1>3, <1>4, OthersIdle, OneEnds DEF Replaces

\* Thawing after the recovery has read the paused vault keeps the invariant
\* (recover): what it acknowledges is every failed job there is.
LEMMA RecoverClearStep ==
    ASSUME RunnerInv, NEW w \in Worker, RecoverClear(w)
    PROVE  RunnerInv'
<1>1. /\ task[w].step = "clear" /\ task[w].ack = Failed
      /\ task' = [task EXCEPT ![w] = IdleTask]
      /\ UNCHANGED <<chainVars, up, round>> /\ acked' = acked \cup Failed
  BY DEF RecoverClear, At, Continue, RunnerInv, TasksGood, TaskGood
<1>2. journal' = [journal EXCEPT !.frozen = FALSE]
  BY DEF RecoverClear, Change, RunnerInv, TypeOK, JournalGood, jobs
<1>3. /\ journal' \in [frozen: BOOLEAN, jobs: Seq(Job)]
      /\ journal'.frozen = FALSE /\ jobs' = jobs
  BY <1>2 DEF RunnerInv, TypeOK, jobs
<1>4. Failed' = Failed /\ acked' = Failed /\ acked' \subseteq JobId
  BY <1>1, <1>3, FailedType DEF Failed, RunnerInv, JournalGood
<1>5. JournalGood'
  <2>1. Height' = Height
    BY <1>1 DEF chainVars, Height
  <2>2. RetriesCounted' /\ JobsDistinct'
    BY <1>3 DEF RunnerInv, JournalGood, RetriesCounted, Matching, JobsDistinct
  <2>3. FrozenUntilAcknowledged'
    BY <1>3, <1>4 DEF FrozenUntilAcknowledged
  <2> QED
    BY <1>3, <1>4, <2>1, <2>2, <2>3 DEF RunnerInv, JournalGood, Consistent
<1>6. round' \subseteq [id: JobId, hash: Hash]
  BY <1>1 DEF RunnerInv, TypeOK
<1> QED
  BY <1>1, <1>3, <1>4, <1>5, <1>6, OthersIdle, OneEnds

\* A task that fails ends and writes nothing.
LEMMA TaskFailsStep ==
    ASSUME RunnerInv, NEW w \in Worker, TaskFails(w)
    PROVE  RunnerInv'
<1>1. round' \subseteq [id: JobId, hash: Hash]
  BY DEF TaskFails, RunnerInv, TypeOK
<1> QED BY <1>1, IdleGood, OthersIdle, OneReads DEF TaskFails

\* The chain, the wallet and the verifier keep the invariant.
LEMMA ChainKeeps ==
    ASSUME RunnerInv, ChainStep
    PROVE  RunnerInv'
<1>1. /\ chain \in Seq(Block) /\ Height \in 1 .. MaxHeight /\ Height \in Nat
      /\ tx \in [Hash -> TxType] /\ seen \in 1 .. Height /\ MaxHeight \in Nat
  BY BoundsAssumption DEF RunnerInv, TypeOK
<1>2. ASSUME NEW h \in Hash, Sign(h) PROVE RunnerInv'
  <2>1. PICK plan \in {id.plan : id \in Ids} \cup {Foreign} :
           tx' = [tx EXCEPT ![h].sent = TRUE, ![h].plan = plan]
    BY <1>2 DEF Sign
  <2>2. plan \in Nat
    BY JobType DEF RunnerInv, Ids, JobId, Foreign
  <2>3. tx' \in [Hash -> TxType]
    BY <1>1, <2>1, <2>2 DEF TxType
  <2> QED BY <1>1, <1>2, <2>3, ChainMoves DEF Sign, Height
<1>3. ASSUME NEW block \in Block, Grow(block)
      PROVE  /\ chain' \in Seq(Block) /\ Height' = Height + 1 /\ Height' <= MaxHeight
             /\ seen \in 1 .. Height'
  <2>1. chain' \in Seq(Block) /\ Len(chain') = Len(chain) + 1
    BY <1>1, <1>3, AppendProperties DEF Grow
  <2> QED BY <1>1, <1>3, <2>1 DEF Grow, Height
<1>4. Tip \in Block
  BY <1>1, ElementOfSeq DEF Tip, Height
<1>5. ASSUME NEW h \in Hash, Mine(h) PROVE RunnerInv'
  <2>1. PICK ok \in IF tx[h].plan = Foreign THEN {TRUE} ELSE {FALSE, Executable(tx[h].plan)} :
          /\ Grow([Tip EXCEPT !.nonce = IF ok /\ tx[h].plan # Foreign THEN @ + 1 ELSE @])
          /\ tx' = [tx EXCEPT ![h].block = Height + 1, ![h].ok = ok]
    BY <1>5 DEF Mine
  <2>2. ok \in BOOLEAN
    BY <2>1 DEF Executable
  <2> DEFINE block == [Tip EXCEPT !.nonce = IF ok /\ tx[h].plan # Foreign THEN @ + 1 ELSE @]
  <2>3. block \in Block
    <3>1. Tip.nonce \in Nat
      BY <1>4 DEF Block
    <3> DEFINE nonce == IF ok /\ tx[h].plan # Foreign THEN Tip.nonce + 1 ELSE Tip.nonce
    <3>2. nonce \in Nat
      BY <3>1
    <3> HIDE DEF nonce
    <3>3. [Tip EXCEPT !.nonce = nonce] \in Block
      BY <1>4, <3>2 DEF Block
    <3> QED BY <3>3 DEF nonce
  <2>4. tx' \in [Hash -> TxType]
    <3>1. Height + 1 \in Nat
      BY <1>1
    <3>2. CASE ok = TRUE
      BY <1>1, <2>1, <3>1, <3>2 DEF TxType
    <3>3. CASE ok = FALSE
      BY <1>1, <2>1, <3>1, <3>3 DEF TxType
    <3> QED BY <2>2, <3>2, <3>3
  <2> HIDE DEF block
  <2>5. Grow(block)
    BY <2>1 DEF block
  <2> QED BY <1>1, <1>3, <1>5, <2>3, <2>4, <2>5, ChainMoves DEF Mine
<1>6. ASSUME NEW next \in BOOLEAN, SetPaused(next) PROVE RunnerInv'
  <2>1. [Tip EXCEPT !.paused = next] \in Block
    BY <1>4 DEF Block
  <2> QED BY <1>1, <1>3, <1>6, <2>1, ChainMoves DEF SetPaused
<1>7. CASE VerifierAdvances
  BY <1>1, <1>7, ChainMoves DEF VerifierAdvances, Height
<1> QED BY <1>2, <1>5, <1>6, <1>7 DEF ChainStep

\* A crash, a restart and the start of a pass keep the invariant.
LEMMA ProcessKeeps ==
    ASSUME RunnerInv, Crash \/ Restart \/ MonitorBegin
    PROVE  RunnerInv'
<1>1. /\ UNCHANGED <<chainVars, journal, acked>> /\ up' \in BOOLEAN
  BY DEF Crash, Restart, MonitorBegin, RunnerInv, TypeOK
<1>2. Height' = Height /\ Height \in Nat
  BY <1>1 DEF chainVars, Height, RunnerInv, TypeOK
<1>3. JournalGood'
  BY <1>1, <1>2, JournalKept DEF RunnerInv
<1>4. task' \in [Worker -> TaskType] /\ Alone' /\ TasksGood'
  <2>1. CASE Crash
    <3>1. \A w \in Worker : task'[w] = IdleTask
      BY <2>1 DEF Crash
    <3> QED BY <2>1, <3>1, IdleGood DEF Crash, Alone, TasksGood, TaskGood
  <2>2. CASE task' = task
    BY <1>1, <1>2, <2>2, TasksKept DEF RunnerInv, TypeOK, Alone
  <2> QED BY <2>1, <2>2 DEF Restart, MonitorBegin
<1>5. round' \subseteq [id: JobId, hash: Hash]
  <2>1. CASE MonitorBegin
    <3>1. ASSUME NEW i \in Pending
          PROVE  [id |-> jobs[i].id, hash |-> jobs[i].hash] \in [id: JobId, hash: Hash]
      BY JobType DEF Pending, IsPending, Job, RunnerInv
    <3> QED BY <2>1, <3>1 DEF MonitorBegin
  <2>2. CASE Crash \/ Restart
    BY <2>2 DEF Crash, Restart, RunnerInv, TypeOK
  <2> QED BY <2>1, <2>2
<1>6. TypeOK'
  BY <1>1, <1>2, <1>4, <1>5 DEF RunnerInv, TypeOK, chainVars
<1> QED BY <1>3, <1>4, <1>6 DEF RunnerInv

-----------------------------------------------------------------------------
\* At the start there is no job and no task.
LEMMA RunnerInit == Init => RunnerInv
<1> SUFFICES ASSUME Init PROVE RunnerInv
  OBVIOUS
<1>1. jobs = <<>> /\ Len(jobs) = 0
  BY DEF Init, jobs
<1>2. Height = 1
  BY DEF Init, Height
<1>3. Failed = {}
  BY <1>1 DEF Failed
<1>4. JournalGood
  <2>1. 1 .. Len(jobs) = {}
    BY <1>1
  <2>2. JobsDistinct /\ RetriesCounted
    BY <2>1 DEF JobsDistinct, RetriesCounted
  <2>3. FrozenUntilAcknowledged /\ acked \subseteq Failed
    BY <1>3 DEF Init, FrozenUntilAcknowledged
  <2>4. Len(jobs) <= JournalCapacity
    BY <1>1, BoundsAssumption
  <2> QED BY <1>3, <2>1, <2>2, <2>3, <2>4 DEF JournalGood
<1>5. Alone /\ TasksGood /\ task \in [Worker -> TaskType]
  BY IdleGood DEF Init, Alone, TasksGood
<1>6. chain \in Seq(Block) /\ journal \in [frozen: BOOLEAN, jobs: Seq(Job)]
  BY DEF Init, Block
<1>7. tx \in [Hash -> TxType]
  BY DEF Init, TxType, Foreign
<1>8. TypeOK
  <2>1. Height \in 1 .. MaxHeight /\ seen \in 1 .. Height
    BY <1>2, BoundsAssumption DEF Init
  <2>2. /\ up \in BOOLEAN /\ acked \subseteq JobId
        /\ round \subseteq [id: JobId, hash: Hash]
    BY DEF Init
  <2> QED BY <1>5, <1>6, <1>7, <2>1, <2>2 DEF TypeOK
<1> QED BY <1>4, <1>5, <1>8 DEF RunnerInv

\* The invariant is inductive.
LEMMA RunnerStep == RunnerInv /\ [Next]_vars => RunnerInv'
<1> SUFFICES ASSUME RunnerInv, [Next]_vars PROVE RunnerInv'
  OBVIOUS
<1>1. CASE ChainStep
  BY <1>1, ChainKeeps
<1>2. ASSUME NEW w \in Worker, TaskStep(w) PROVE RunnerInv'
  BY <1>2, PlanSaveStep, VerifyBindStep, VerifyProveStep, VerifyFinishStep, RecoverClearStep
     DEF TaskStep
<1>3. ASSUME NEW w \in Slot, Request(w) PROVE RunnerInv'
  BY <1>3, StartStep DEF Request, Worker
<1>4. CASE MonitorVerify
  BY <1>4, StartStep DEF Worker
<1>5. ASSUME NEW w \in Worker, TaskFails(w) PROVE RunnerInv'
  BY <1>5, TaskFailsStep
<1>6. CASE Crash \/ Restart \/ MonitorBegin
  BY <1>6, ProcessKeeps
<1>7. CASE UNCHANGED vars
  <2>1. UNCHANGED <<chainVars, up, journal, task, round, acked>>
    BY <1>7 DEF vars, chainVars, serviceVars
  <2>2. Height' = Height /\ Height \in Nat
    BY <2>1 DEF chainVars, Height, RunnerInv, TypeOK
  <2>3. JournalGood' /\ TasksGood'
    BY <2>1, <2>2, JournalKept, TasksKept DEF RunnerInv
  <2> QED BY <2>1, <2>2, <2>3 DEF RunnerInv, TypeOK, Alone, chainVars
<1> QED BY <1>1, <1>2, <1>3, <1>4, <1>5, <1>6, <1>7 DEF Next

\* The inductive invariant of the queue, the journal and the tasks.
THEOREM RunnerInvariant == Spec => []RunnerInv
<1> QED BY RunnerInit, RunnerStep, PTL DEF Spec

\* The chain, the journal and every task stay well formed (server.ts, store.ts).
THEOREM RunnerTypeCorrect == Spec => []TypeOK
<1>1. RunnerInv => TypeOK
  BY DEF RunnerInv
<1> QED BY RunnerInvariant, <1>1, PTL

\* Jobs have distinct ids and a plan has one live job at most, for any number of
\* requests, failures and recoveries (plans of server.ts).
THEOREM RunnerJobsDistinct == Spec => []JobsDistinct
<1>1. RunnerInv => JobsDistinct
  BY DEF RunnerInv, JournalGood
<1> QED BY RunnerInvariant, <1>1, PTL

\* The runner is frozen exactly while a failed proof is unacknowledged (finish
\* and recover of server.ts).
THEOREM RunnerFrozenUntilAcknowledged == Spec => []FrozenUntilAcknowledged
<1>1. RunnerInv => FrozenUntilAcknowledged
  BY DEF RunnerInv, JournalGood
<1> QED BY RunnerInvariant, <1>1, PTL
-----------------------------------------------------------------------------
(* What a step may do to the journal. *)

\* A step leaves the jobs alone, appends one while nothing is frozen, or
\* replaces one that has no proof (plans, verifySaved and finish).
LEMMA JournalWrites ==
    ASSUME RunnerInv, [Next]_vars
    PROVE  \/ journal'.jobs = jobs
           \/ /\ ~journal.frozen
              /\ \E job \in Job : journal'.jobs = Append(jobs, job)
           \/ \E w \in Worker, i \in 1 .. Len(jobs), job \in Job : Replaces(w, i, job)
<1>1. CASE UNCHANGED journal
  BY <1>1 DEF jobs
<1>2. ASSUME NEW w \in Worker, PlanSave(w)
      PROVE  \/ journal'.jobs = jobs
             \/ ~journal.frozen /\ \E job \in Job : journal'.jobs = Append(jobs, job)
  <2> DEFINE plan == task[w].id.plan
             job == [id |-> [plan |-> plan, retry |-> Retry(plan)],
                     state |-> "AWAITING_SIGNATURE", hash |-> NoHash, receipt |-> "none"]
  <2>1. ~journal.frozen /\ plan \in 1 .. Height
    BY <1>2 DEF PlanSave, At, RunnerInv, TasksGood, TaskGood
  <2>2. job \in Job
    BY <2>1, MatchingFinite DEF Job, JobId, Receipt, RunnerInv, TypeOK
  <2>3. \/ UNCHANGED journal
        \/ journal' = [journal EXCEPT !.jobs = Append(@, job)]
    BY <1>2 DEF PlanSave, Change
  <2> HIDE DEF job
  <2>4. UNCHANGED journal \/ journal'.jobs = Append(jobs, job)
    BY <2>3 DEF RunnerInv, TypeOK, jobs
  <2> QED BY <2>1, <2>2, <2>4 DEF jobs
<1>3. ASSUME NEW w \in Worker, VerifyBind(w) \/ VerifyFinish(w)
      PROVE  \E i \in 1 .. Len(jobs), job \in Job : Replaces(w, i, job)
  BY <1>3, BindReplaces, FinishReplaces
<1>4. ASSUME NEW w \in Worker, RecoverClear(w) PROVE journal'.jobs = jobs
  BY <1>4 DEF RecoverClear, Change, RunnerInv, TypeOK, jobs
<1>5. CASE ChainStep
  BY <1>1, <1>5 DEF ChainStep, Sign, Mine, SetPaused, VerifierAdvances, serviceVars
<1>6. ASSUME NEW w \in Slot, Request(w) PROVE UNCHANGED journal
  BY <1>6 DEF Request, PlanStart, RequestVerify, RecoverCheck, ReadStep
<1>7. ASSUME NEW w \in Worker, VerifyProve(w) \/ TaskFails(w) PROVE UNCHANGED journal
  BY <1>7 DEF VerifyProve, TaskFails, ReadStep
<1>8. CASE MonitorBegin \/ MonitorVerify \/ Crash \/ Restart \/ UNCHANGED vars
  BY <1>1, <1>8 DEF MonitorBegin, MonitorVerify, Crash, Restart, vars, serviceVars
<1> QED BY <1>1, <1>2, <1>3, <1>4, <1>5, <1>6, <1>7, <1>8 DEF Next, TaskStep

\* No job is dropped, no bound hash replaced and no stored proof changed, for
\* any number of requests and crashes (JobStore and verifySaved).
THEOREM RunnerJournalIsEvidence == Spec => JournalIsEvidence
<1> DEFINE Kept == \A i \in 1 .. Len(jobs) :
                      /\ i <= Len(journal'.jobs)
                      /\ journal'.jobs[i].id = jobs[i].id
                      /\ jobs[i].hash # NoHash => journal'.jobs[i].hash = jobs[i].hash
                      /\ jobs[i].receipt # "none" => journal'.jobs[i].receipt = jobs[i].receipt
<1>1. ASSUME RunnerInv, [Next]_vars PROVE Kept
  <2>1. jobs \in Seq(Job) /\ Len(jobs) \in Nat
    BY <1>1, JobType DEF RunnerInv
  <2>2. CASE journal'.jobs = jobs
    BY <2>1, <2>2
  <2>3. ASSUME NEW job \in Job, journal'.jobs = Append(jobs, job) PROVE Kept
    <3>1. /\ Len(journal'.jobs) = Len(jobs) + 1
          /\ \A i \in 1 .. Len(jobs) : journal'.jobs[i] = jobs[i]
      BY <2>1, <2>3, AppendProperties
    <3> QED BY <2>1, <3>1
  <2>4. ASSUME NEW w \in Worker, NEW k \in 1 .. Len(jobs), NEW job \in Job, Replaces(w, k, job)
        PROVE  Kept
    <3>1. /\ Len(journal'.jobs) = Len(jobs)
          /\ \A i \in 1 .. Len(jobs) : journal'.jobs[i] = IF i = k THEN job ELSE jobs[i]
      BY <2>1, <2>4, ExceptSeq DEF Replaces
    <3>2. /\ jobs[k].hash # NoHash => job.hash = jobs[k].hash
          /\ jobs[k].receipt = "none" /\ job.id = jobs[k].id
      BY <2>4 DEF Replaces, Verifiable
    <3> QED BY <2>1, <3>1, <3>2
  <2> QED BY <1>1, <2>2, <2>3, <2>4, JournalWrites
<1>2. RunnerInv /\ [Next]_vars => [Kept]_vars
  BY <1>1
<1> QED BY <1>2, RunnerInvariant, PTL DEF Spec, JournalIsEvidence

\* No plan is issued while a failed proof is unacknowledged, by no request, no
\* matter when it passed the frozen check (plans).
THEOREM RunnerNoPlanAfterFailure == Spec => NoPlanAfterFailure
<1> DEFINE Allowed == Len(journal'.jobs) > Len(jobs) => Failed \subseteq acked
<1>1. ASSUME RunnerInv, [Next]_vars PROVE Allowed
  <2>1. jobs \in Seq(Job) /\ Len(jobs) \in Nat
    BY <1>1, JobType DEF RunnerInv
  <2>2. CASE journal'.jobs = jobs
    BY <2>1, <2>2
  <2>3. CASE ~journal.frozen
    BY <1>1, <2>3 DEF RunnerInv, JournalGood, FrozenUntilAcknowledged
  <2>4. ASSUME NEW w \in Worker, NEW k \in 1 .. Len(jobs), NEW job \in Job, Replaces(w, k, job)
        PROVE  Allowed
    <3>1. Len(journal'.jobs) = Len(jobs)
      BY <2>1, <2>4, ExceptSeq DEF Replaces
    <3> QED BY <2>1, <3>1
  <2> QED BY <1>1, <2>2, <2>3, <2>4, JournalWrites
<1>2. RunnerInv /\ [Next]_vars => [Allowed]_vars
  BY <1>1
<1> QED BY <1>2, RunnerInvariant, PTL DEF Spec, NoPlanAfterFailure
-----------------------------------------------------------------------------
(* What a VERIFIED proof says of the chain. *)

\* Nonces never go back, a block holds one transaction of the model, and a
\* rebalance that succeeded raised the nonce its plan was made for, in time.
NoncesRise == \A a, b \in 1 .. Height : a <= b => chain[a].nonce <= chain[b].nonce

Executed(plan, block) ==
    /\ plan \in 1 .. Height /\ block \in 2 .. Height
    /\ block <= plan + DeadlineBlocks
    /\ chain[block - 1].nonce = chain[plan].nonce
    /\ chain[block].nonce = chain[plan].nonce + 1

TxGood(h) ==
    /\ tx[h].plan \in 0 .. Height /\ tx[h].block \in 0 .. Height
    /\ tx[h].block # 0 => tx[h].sent
    /\ tx[h].ok => tx[h].block # 0
    /\ tx[h].ok /\ tx[h].plan # Foreign => Executed(tx[h].plan, tx[h].block)

ChainGood ==
    /\ NoncesRise
    /\ \A h \in Hash : TxGood(h)
    /\ \A g, h \in Hash : tx[g].block = tx[h].block /\ tx[h].block # 0 => g = h

ProofTrue(plan, h) == h \in Hash /\ tx[h].ok /\ tx[h].plan = plan

ProofsTrue ==
    /\ \A i \in 1 .. Len(jobs) :
          jobs[i].state = "VERIFIED" => ProofTrue(jobs[i].id.plan, jobs[i].hash)
    /\ \A w \in Worker : task[w].step = "finish" /\ task[w].proof = "VERIFIED" =>
          ProofTrue(task[w].id.plan, task[w].hash)

VerifiedInv == RunnerInv /\ ChainGood /\ ProofsTrue

\* Blocks and transactions are well formed (Block, TxType).
LEMMA ChainType ==
    ASSUME RunnerInv
    PROVE  /\ chain \in Seq(Block) /\ Height \in Nat \ {0} /\ Height = Len(chain)
           /\ \A b \in 1 .. Height : chain[b].nonce \in Nat
           /\ \A h \in Hash : tx[h] \in TxType
<1>1. chain \in Seq(Block) /\ Height \in Nat \ {0} /\ Height = Len(chain)
  BY DEF RunnerInv, TypeOK, Height
<1>2. ASSUME NEW b \in 1 .. Height PROVE chain[b].nonce \in Nat
  <2>1. chain[b] \in Block
    BY <1>1, ElementOfSeq
  <2> QED BY <2>1 DEF Block
<1> QED BY <1>1, <1>2 DEF RunnerInv, TypeOK

\* A new block keeps the blocks before it.
LEMMA Grows ==
    ASSUME RunnerInv, NEW block \in Block, Grow(block)
    PROVE  /\ Height' = Height + 1 /\ chain'[Height + 1] = block
           /\ \A b \in 1 .. Height : chain'[b] = chain[b]
BY ChainType, AppendProperties DEF Grow, Height

\* A block whose nonce is not below the tip's keeps the nonces rising.
LEMMA RiseKept ==
    ASSUME RunnerInv, NoncesRise, NEW block \in Block, Grow(block),
           Tip.nonce <= block.nonce
    PROVE  NoncesRise'
<1>1. \A b \in 1 .. Height : chain[b].nonce \in Nat /\ chain[b].nonce <= Tip.nonce
  BY ChainType DEF NoncesRise, Tip
<1>2. block.nonce \in Nat /\ Tip.nonce \in Nat
  BY ChainType DEF Block, Tip
<1>3. \A b \in 1 .. Height : chain[b].nonce <= block.nonce
  BY <1>1, <1>2
<1>4. ASSUME NEW a \in 1 .. Height + 1, NEW b \in 1 .. Height + 1, a <= b
      PROVE  chain'[a].nonce <= chain'[b].nonce
  <2>1. CASE b \in 1 .. Height
    <3>1. a \in 1 .. Height
      BY <1>4, <2>1, ChainType
    <3> QED BY <1>4, <2>1, <3>1, Grows DEF NoncesRise
  <2>2. CASE b = Height + 1 /\ a \in 1 .. Height
    BY <1>3, <2>2, Grows
  <2>3. CASE b = Height + 1 /\ a = Height + 1
    BY <1>2, <2>3, Grows
  <2> QED BY <1>4, <2>1, <2>2, <2>3, ChainType
<1> QED BY <1>4, Grows DEF NoncesRise

\* A transaction whose fate is unchanged stays good in a longer chain.
LEMMA TxKept ==
    ASSUME RunnerInv, NEW h \in Hash, TxGood(h), tx'[h] = tx[h],
           NEW n \in Nat, Height' = Height + n,
           \A b \in 1 .. Height : chain'[b] = chain[b]
    PROVE  TxGood(h)'
<1>1. Height \in Nat /\ tx[h].plan \in 0 .. Height' /\ tx[h].block \in 0 .. Height'
  BY ChainType DEF TxGood
<1>2. ASSUME tx[h].ok, tx[h].plan # Foreign
      PROVE  Executed(tx[h].plan, tx[h].block)'
  <2> DEFINE plan == tx[h].plan
             block == tx[h].block
  <2>1. Executed(plan, block)
    BY <1>2 DEF TxGood
  <2>2. /\ plan \in 1 .. Height /\ block \in 1 .. Height /\ block - 1 \in 1 .. Height
        /\ plan \in 1 .. Height' /\ block \in 2 .. Height'
    BY <1>1, <2>1 DEF Executed
  <2>3. /\ chain'[plan] = chain[plan] /\ chain'[block] = chain[block]
        /\ chain'[block - 1] = chain[block - 1]
    BY <2>2
  <2> QED BY <2>1, <2>2, <2>3 DEF Executed
<1> QED BY <1>1, <1>2 DEF TxGood

\* A block with a transaction keeps what the chain promises (executeRebalance).
LEMMA MineKeeps ==
    ASSUME RunnerInv, ChainGood, NEW h \in Hash, Mine(h)
    PROVE  ChainGood' /\ \A g \in Hash : tx[g].ok => tx'[g] = tx[g]
<1>1. PICK ok \in IF tx[h].plan = Foreign THEN {TRUE} ELSE {FALSE, Executable(tx[h].plan)} :
         /\ Grow([Tip EXCEPT !.nonce = IF ok /\ tx[h].plan # Foreign THEN @ + 1 ELSE @])
         /\ tx' = [tx EXCEPT ![h].block = Height + 1, ![h].ok = ok]
  BY DEF Mine
<1> DEFINE nonce == IF ok /\ tx[h].plan # Foreign THEN Tip.nonce + 1 ELSE Tip.nonce
           block == [Tip EXCEPT !.nonce = nonce]
<1>2. Tip \in Block /\ Tip.nonce \in Nat
  <2>1. Tip \in Block
    BY ChainType, ElementOfSeq DEF Tip
  <2> QED BY <2>1 DEF Block
<1>3. nonce \in Nat /\ Tip.nonce <= nonce
  BY <1>2
<1>4. Grow(block)
  BY <1>1
<1>5. block \in Block /\ block.nonce = nonce
  <2> HIDE DEF nonce
  <2> QED BY <1>2, <1>3 DEF Block
<1>6. /\ tx[h] \in TxType /\ Height \in Nat \ {0} /\ tx[h].sent /\ tx[h].block = 0
      /\ TxGood(h) /\ ~tx[h].ok
  BY ChainType DEF Mine, ChainGood, TxGood
<1>7. /\ \A g \in Hash : g # h => tx'[g] = tx[g]
      /\ tx'[h].block = Height + 1 /\ tx'[h].ok = ok
      /\ tx'[h].plan = tx[h].plan /\ tx'[h].sent = tx[h].sent
  BY <1>1, <1>6 DEF RunnerInv, TypeOK, TxType
<1>8. /\ Height' = Height + 1 /\ chain'[Height + 1] = block
      /\ \A b \in 1 .. Height : chain'[b] = chain[b]
  <2> HIDE DEF block
  <2> QED BY <1>4, <1>5, Grows
<1>9. NoncesRise'
  <2> HIDE DEF block, nonce
  <2> QED BY <1>3, <1>4, <1>5, RiseKept DEF ChainGood
<1>10. ASSUME ok, NEW plan \in Nat, plan = tx[h].plan, plan # Foreign,
              NEW top \in Nat, top = Height + 1
       PROVE  Executed(plan, top)'
  <2>1. Executable(plan)
    <3>1. ok = Executable(plan)
      BY <1>1, <1>10
    <3> QED BY <1>10, <3>1
  <2>2. plan \in 1 .. Height
    BY <1>6, <1>10 DEF TxGood, Foreign
  <2>3. /\ chain[plan].nonce = Tip.nonce /\ top <= plan + DeadlineBlocks
        /\ nonce = Tip.nonce + 1
    BY <1>10, <2>1 DEF Executable
  <2>4. /\ chain'[plan] = chain[plan] /\ chain'[top - 1] = Tip
        /\ chain'[top].nonce = Tip.nonce + 1
    <3>1. top - 1 = Height /\ Height \in 1 .. Height
      BY <1>6, <1>10
    <3> HIDE DEF block, nonce
    <3> QED BY <1>5, <1>8, <1>10, <2>2, <2>3, <3>1 DEF Tip
  <2>5. plan \in 1 .. Height' /\ top \in 2 .. Height'
    BY <1>6, <1>8, <1>10, <2>2
  <2> QED BY <2>3, <2>4, <2>5 DEF Executed
<1>11. ASSUME NEW g \in Hash PROVE TxGood(g)'
  <2>1. CASE g # h
    BY <1>7, <1>8, <2>1, TxKept DEF ChainGood
  <2>2. CASE g = h
    <3>1. tx'[h].plan \in 0 .. Height' /\ tx'[h].block \in 0 .. Height'
      BY <1>6, <1>7, <1>8 DEF TxGood
    <3>2. tx'[h].block # 0 /\ tx'[h].sent
      BY <1>6, <1>7
    <3>3. ASSUME tx'[h].ok, tx'[h].plan # Foreign
          PROVE  Executed(tx[h].plan, tx[h].block)'
      <4>1. ok /\ tx[h].plan \in Nat /\ tx[h].plan # Foreign /\ Height + 1 \in Nat
        BY <1>6, <1>7, <3>3 DEF TxType
      <4>2. tx'[h].block = Height + 1 /\ tx'[h].plan = tx[h].plan
        BY <1>7
      <4> QED BY <1>10, <4>1, <4>2
    <3> QED BY <2>2, <3>1, <3>2, <3>3 DEF TxGood
  <2> QED BY <2>1, <2>2
<1>12. ASSUME NEW f \in Hash, NEW g \in Hash, tx'[f].block = tx'[g].block, tx'[g].block # 0
       PROVE  f = g
  <2>1. \A e \in Hash : tx[e].block \in 0 .. Height
    BY DEF ChainGood, TxGood
  <2> QED BY <1>6, <1>7, <1>12, <2>1 DEF ChainGood
<1> QED BY <1>6, <1>7, <1>9, <1>11, <1>12 DEF ChainGood
\* The chain keeps its promises and never undoes a success, whatever the wallet,
\* the vault's owner and the verifier do.
LEMMA ChainKeepsGood ==
    ASSUME RunnerInv, ChainGood, [Next]_vars
    PROVE  ChainGood' /\ \A g \in Hash : tx[g].ok => tx'[g] = tx[g]
<1>1. CASE UNCHANGED <<chain, tx>>
  <2>1. Height' = Height + 0
    BY <1>1, ChainType DEF Height
  <2>2. \A h \in Hash : TxGood(h)'
    BY <1>1, <2>1, TxKept DEF ChainGood
  <2>3. NoncesRise'
    BY <1>1 DEF ChainGood, NoncesRise, Height
  <2> QED BY <1>1, <2>2, <2>3 DEF ChainGood
<1>2. ASSUME NEW h \in Hash, Sign(h)
      PROVE  ChainGood' /\ \A g \in Hash : tx[g].ok => tx'[g] = tx[g]
  <2>1. PICK plan \in {id.plan : id \in Ids} \cup {Foreign} :
           tx' = [tx EXCEPT ![h].sent = TRUE, ![h].plan = plan]
    BY <1>2 DEF Sign
  <2>2. plan \in 0 .. Height
    BY ChainType DEF RunnerInv, JournalGood, Ids, Foreign
  <2>3. /\ tx[h] \in TxType /\ Height \in Nat /\ TxGood(h)
        /\ tx[h].block = 0 /\ ~tx[h].ok
    BY <1>2, ChainType DEF Sign, ChainGood, TxGood
  <2>4. /\ \A g \in Hash : g # h => tx'[g] = tx[g]
        /\ tx'[h].plan = plan /\ tx'[h].block = tx[h].block /\ tx'[h].ok = tx[h].ok
    BY <2>1, <2>3 DEF RunnerInv, TypeOK, TxType
  <2>5. Height' = Height + 0 /\ chain' = chain
    BY <1>2, <2>3 DEF Sign, Height
  <2>6. \A g \in Hash : g # h => TxGood(g)'
    BY <2>4, <2>5, TxKept DEF ChainGood
  <2>7. TxGood(h)'
    BY <2>2, <2>3, <2>4, <2>5 DEF TxGood
  <2>8. NoncesRise'
    BY <2>5 DEF ChainGood, NoncesRise, Height
  <2> QED BY <2>3, <2>4, <2>6, <2>7, <2>8 DEF ChainGood
<1>3. ASSUME NEW next \in BOOLEAN, SetPaused(next)
      PROVE  ChainGood' /\ \A g \in Hash : tx[g].ok => tx'[g] = tx[g]
  <2> DEFINE block == [Tip EXCEPT !.paused = next]
  <2>1. Tip \in Block
    BY ChainType, ElementOfSeq DEF Tip
  <2>2. block \in Block /\ block.nonce = Tip.nonce /\ Tip.nonce \in Nat
    BY <2>1 DEF Block
  <2>3. Grow(block) /\ tx' = tx
    BY <1>3 DEF SetPaused
  <2> HIDE DEF block
  <2>4. NoncesRise'
    BY <2>2, <2>3, RiseKept DEF ChainGood
  <2>5. \A h \in Hash : TxGood(h)'
    BY <2>2, <2>3, Grows, TxKept DEF ChainGood
  <2> QED BY <2>3, <2>4, <2>5 DEF ChainGood
<1>4. CASE ChainStep
  BY <1>1, <1>2, <1>3, <1>4, MineKeeps DEF ChainStep, VerifierAdvances
<1>5. ASSUME NEW w \in Worker, TaskStep(w) \/ TaskFails(w) PROVE UNCHANGED <<chain, tx>>
  BY <1>5 DEF TaskStep, PlanSave, VerifyBind, VerifyProve, VerifyFinish, RecoverClear,
              TaskFails, ReadStep, Continue, chainVars
<1>6. ASSUME NEW w \in Slot, Request(w) PROVE UNCHANGED <<chain, tx>>
  BY <1>6 DEF Request, PlanStart, RequestVerify, RecoverCheck, ReadStep, Continue, chainVars
<1>7. CASE MonitorBegin \/ MonitorVerify \/ Crash \/ Restart \/ UNCHANGED vars
  BY <1>1, <1>7 DEF MonitorBegin, MonitorVerify, Crash, Restart, vars, chainVars
<1> QED BY <1>1, <1>4, <1>5, <1>6, <1>7 DEF Next

\* A proof that a task holds is true when a task starts or goes on with it.
LEMMA TaskProofs ==
    ASSUME VerifiedInv, [Next]_vars, NEW w \in Worker,
           task'[w].step = "finish", task'[w].proof = "VERIFIED"
    PROVE  ProofTrue(task'[w].id.plan, task'[w].hash)
<1>1. CASE task'[w] = task[w]
  BY <1>1 DEF VerifiedInv, ProofsTrue
<1>2. task \in [Worker -> TaskType]
  BY DEF VerifiedInv, RunnerInv, TypeOK
<1>3. ASSUME NEW v \in Worker, NEW t, task' = [task EXCEPT ![v] = t], t.step # "finish"
      PROVE  task'[w] = task[w]
  BY <1>2, <1>3
<1>4. IdleTask.step # "finish" /\ \A id, h : VerifyTask(id, h).step # "finish"
  BY DEF IdleTask, VerifyTask
<1>5. ASSUME NEW v \in Worker, PlanSave(v) \/ VerifyFinish(v) \/ RecoverClear(v) \/ TaskFails(v)
      PROVE  task'[w] = task[w]
  BY <1>3, <1>4, <1>5 DEF PlanSave, VerifyFinish, RecoverClear, TaskFails, Continue
<1>6. ASSUME NEW v \in Worker, VerifyBind(v) PROVE task'[w] = task[w]
  <2>1. [task[v] EXCEPT !.step = "confirm"].step # "finish"
    BY <1>2 DEF TaskType
  <2> QED BY <1>3, <1>4, <1>6, <2>1 DEF VerifyBind, Continue
<1>7. ASSUME NEW v \in Worker, VerifyProve(v)
      PROVE  ProofTrue(task'[w].id.plan, task'[w].hash)
  <2>1. /\ task[v] \in TaskType /\ task[v].hash \in Hash
        /\ task[v].step = "confirm"
    BY <1>7, TaskJob DEF VerifyProve, At, VerifiedInv
  <2>2. CASE ReadStep(v, IdleTask)
    BY <1>1, <1>3, <1>4, <2>2 DEF ReadStep, Continue
  <2>3. ASSUME NEW proof \in Proofs(task[v].id.plan, task[v].hash),
               ReadStep(v, [task[v] EXCEPT !.step = "finish", !.proof = proof])
        PROVE  ProofTrue(task'[w].id.plan, task'[w].hash)
    <3>1. CASE w # v
      <4>1. task'[w] = task[w]
        BY <1>2, <2>3, <3>1 DEF ReadStep, Continue
      <4> QED BY <1>1, <4>1
    <3>2. CASE w = v
      <4>1. /\ task'[w].proof = proof /\ task'[w].id = task[v].id
            /\ task'[w].hash = task[v].hash
        BY <1>2, <2>1, <2>3, <3>2 DEF ReadStep, Continue, TaskType
      <4>2. tx[task[v].hash].ok /\ tx[task[v].hash].plan = task[v].id.plan
        BY <2>3, <4>1 DEF Proofs
      <4> QED BY <2>1, <4>1, <4>2 DEF ProofTrue
    <3> QED BY <3>1, <3>2
  <2> QED BY <1>7, <2>2, <2>3 DEF VerifyProve
<1>8. ASSUME NEW v \in Slot, Request(v) PROVE task'[w] = task[w]
  <2>1. CASE \E b \in 1 .. Height : PlanStart(v, b)
    <3>1. PICK b \in 1 .. Height : PlanStart(v, b)
      BY <2>1
    <3>2. [IdleTask EXCEPT !.step = "plan", !.id = [plan |-> b, retry |-> 0]].step # "finish"
      BY DEF IdleTask
    <3> QED BY <1>3, <3>1, <3>2 DEF PlanStart, ReadStep, Continue, Worker
  <2>2. CASE \E id \in Ids, h \in Hash : RequestVerify(v, id, h)
    BY <1>3, <1>4, <2>2 DEF RequestVerify, ReadStep, Continue, Worker
  <2>3. CASE RecoverCheck(v)
    <3>1. [IdleTask EXCEPT !.step = "clear", !.ack = Failed].step # "finish"
      BY DEF IdleTask
    <3> QED BY <1>3, <2>3, <3>1 DEF RecoverCheck, ReadStep, Continue, Worker
  <2> QED BY <1>8, <2>1, <2>2, <2>3 DEF Request
<1>9. CASE MonitorVerify
  BY <1>1, <1>3, <1>4, <1>9 DEF MonitorVerify, Worker
<1>10. CASE Crash
  BY <1>4, <1>10 DEF Crash
<1>11. CASE ChainStep \/ MonitorBegin \/ Restart \/ UNCHANGED vars
  BY <1>1, <1>11 DEF ChainStep, Sign, Mine, SetPaused, VerifierAdvances, MonitorBegin,
                     Restart, vars, serviceVars
<1> QED
  BY <1>1, <1>5, <1>6, <1>7, <1>8, <1>9, <1>10, <1>11 DEF Next, TaskStep

\* A job becomes VERIFIED by a task's true proof and keeps its plan and hash.
LEMMA JobProofs ==
    ASSUME VerifiedInv, [Next]_vars, NEW i \in 1 .. Len(jobs'), jobs'[i].state = "VERIFIED"
    PROVE  ProofTrue(jobs'[i].id.plan, jobs'[i].hash)
<1>1. jobs \in Seq(Job) /\ Len(jobs) \in Nat
  BY JobType DEF VerifiedInv, RunnerInv
<1>2. CASE i \in 1 .. Len(jobs) /\ jobs'[i] = jobs[i]
  BY <1>2 DEF VerifiedInv, ProofsTrue
<1>3. CASE journal'.jobs = jobs
  BY <1>2, <1>3 DEF jobs
<1>4. ASSUME NEW w \in Worker, PlanSave(w)
      PROVE  ProofTrue(jobs'[i].id.plan, jobs'[i].hash)
  <2> DEFINE plan == task[w].id.plan
             job == [id |-> [plan |-> plan, retry |-> Retry(plan)],
                     state |-> "AWAITING_SIGNATURE", hash |-> NoHash, receipt |-> "none"]
  <2>1. plan \in 1 .. Height
    BY <1>4 DEF PlanSave, At, VerifiedInv, RunnerInv, TasksGood, TaskGood
  <2>2. job \in Job /\ job.state # "VERIFIED"
    BY <2>1, MatchingFinite DEF Job, JobId, Receipt, VerifiedInv, RunnerInv, TypeOK
  <2>3. UNCHANGED journal \/ journal' = [journal EXCEPT !.jobs = Append(@, job)]
    BY <1>4 DEF PlanSave, Change
  <2> HIDE DEF job
  <2>4. CASE UNCHANGED journal
    BY <1>3, <2>4 DEF jobs
  <2>5. CASE jobs' = Append(jobs, job)
    BY <1>1, <1>2, <2>2, <2>5, AppendProperties
  <2> QED BY <2>3, <2>4, <2>5 DEF jobs, VerifiedInv, RunnerInv, TypeOK
<1>5. ASSUME NEW w \in Worker, NEW k \in 1 .. Len(jobs), NEW job \in Job, Replaces(w, k, job)
      PROVE  IF i = k THEN jobs'[i] = job ELSE i \in 1 .. Len(jobs) /\ jobs'[i] = jobs[i]
  BY <1>1, <1>5, ExceptSeq DEF Replaces, jobs
<1>6. ASSUME NEW w \in Worker, VerifyBind(w)
      PROVE  ProofTrue(jobs'[i].id.plan, jobs'[i].hash)
  <2>1. PICK k \in 1 .. Len(jobs), job \in Job : Replaces(w, k, job) /\ job.state = "VERIFYING"
    BY <1>6, BindReplaces DEF VerifiedInv
  <2>2. i # k
    BY <1>5, <2>1
  <2> QED BY <1>2, <1>5, <2>1, <2>2
<1>7. ASSUME NEW w \in Worker, VerifyFinish(w)
      PROVE  ProofTrue(jobs'[i].id.plan, jobs'[i].hash)
  <2>1. PICK k \in 1 .. Len(jobs), job \in Job : Replaces(w, k, job) /\ job.state = task[w].proof
    BY <1>7, FinishReplaces DEF VerifiedInv
  <2>2. CASE i = k
    <3>1. task[w].step = "finish" /\ task[w].proof = "VERIFIED"
      BY <1>5, <1>7, <2>1, <2>2 DEF VerifyFinish, At
    <3>2. job.id = task[w].id /\ job.hash = task[w].hash
      BY <2>1 DEF Replaces, Verifiable
    <3> QED BY <1>5, <2>1, <2>2, <3>1, <3>2 DEF VerifiedInv, ProofsTrue
  <2> QED BY <1>2, <1>5, <2>1, <2>2
<1>8. ASSUME NEW w \in Worker, RecoverClear(w) PROVE journal'.jobs = jobs
  BY <1>8 DEF RecoverClear, Change, VerifiedInv, RunnerInv, TypeOK, jobs
<1>9. CASE UNCHANGED journal
  BY <1>3, <1>9 DEF jobs
<1>10. CASE ChainStep
  BY <1>9, <1>10 DEF ChainStep, Sign, Mine, SetPaused, VerifierAdvances, serviceVars
<1>11. ASSUME NEW w \in Slot, Request(w) PROVE UNCHANGED journal
  BY <1>11 DEF Request, PlanStart, RequestVerify, RecoverCheck, ReadStep
<1>12. ASSUME NEW w \in Worker, VerifyProve(w) \/ TaskFails(w) PROVE UNCHANGED journal
  BY <1>12 DEF VerifyProve, TaskFails, ReadStep
<1>13. CASE MonitorBegin \/ MonitorVerify \/ Crash \/ Restart \/ UNCHANGED vars
  BY <1>9, <1>13 DEF MonitorBegin, MonitorVerify, Crash, Restart, vars, serviceVars
<1> QED
  BY <1>3, <1>4, <1>6, <1>7, <1>8, <1>9, <1>10, <1>11, <1>12, <1>13 DEF Next, TaskStep

\* At the start the chain is one block and nothing is proved.
LEMMA VerifiedInit == Init => VerifiedInv
<1> SUFFICES ASSUME Init PROVE VerifiedInv
  OBVIOUS
<1>1. Height = 1 /\ chain[1].nonce = 0
  BY DEF Init, Height
<1>2. NoncesRise
  BY <1>1 DEF NoncesRise
<1>3. \A h \in Hash : TxGood(h) /\ tx[h].block = 0
  BY <1>1 DEF Init, TxGood, Foreign
<1>4. 1 .. Len(jobs) = {}
  BY DEF Init, jobs
<1>5. \A w \in Worker : task[w].step # "finish"
  BY DEF Init, IdleTask
<1> QED
  BY <1>2, <1>3, <1>4, <1>5, RunnerInit DEF VerifiedInv, ChainGood, ProofsTrue

\* True proofs stay true: the chain never undoes what succeeded.
LEMMA VerifiedStep == VerifiedInv /\ [Next]_vars => VerifiedInv'
<1> SUFFICES ASSUME VerifiedInv, [Next]_vars PROVE VerifiedInv'
  OBVIOUS
<1>1. ChainGood' /\ \A g \in Hash : tx[g].ok => tx'[g] = tx[g]
  BY ChainKeepsGood DEF VerifiedInv
<1>2. ProofsTrue'
  <2>1. ASSUME NEW i \in 1 .. Len(jobs'), jobs'[i].state = "VERIFIED"
        PROVE  /\ tx'[jobs'[i].hash].ok /\ tx'[jobs'[i].hash].plan = jobs'[i].id.plan
               /\ jobs'[i].hash \in Hash
    BY <1>1, <2>1, JobProofs DEF ProofTrue
  <2>2. ASSUME NEW w \in Worker, task'[w].step = "finish", task'[w].proof = "VERIFIED"
        PROVE  /\ tx'[task'[w].hash].ok /\ tx'[task'[w].hash].plan = task'[w].id.plan
               /\ task'[w].hash \in Hash
    BY <1>1, <2>2, TaskProofs DEF ProofTrue
  <2> QED BY <2>1, <2>2 DEF ProofsTrue, ProofTrue
<1> QED BY <1>1, <1>2, RunnerStep DEF VerifiedInv
\* A success raised one nonce in one block, so two of them at the same nonce are
\* the same transaction.
LEMMA OneSuccessPerNonce ==
    ASSUME VerifiedInv, NEW g \in Hash, NEW h \in Hash,
           Executed(tx[g].plan, tx[g].block), Executed(tx[h].plan, tx[h].block),
           chain[tx[g].plan].nonce = chain[tx[h].plan].nonce
    PROVE  g = h
<1> DEFINE a == tx[g].block
           b == tx[h].block
           n == chain[tx[g].plan].nonce
<1>1. /\ a \in 2 .. Height /\ b \in 2 .. Height /\ Height \in Nat
      /\ n \in Nat /\ chain[a - 1].nonce = n /\ chain[a].nonce = n + 1
      /\ chain[b - 1].nonce = n /\ chain[b].nonce = n + 1
  BY ChainType DEF Executed, VerifiedInv
<1>2. \A c, d \in 1 .. Height : c <= d => chain[c].nonce <= chain[d].nonce
  BY DEF VerifiedInv, ChainGood, NoncesRise
<1>3. ~(a < b)
  <2>1. SUFFICES ASSUME a < b PROVE FALSE
    OBVIOUS
  <2>2. a \in 1 .. Height /\ b - 1 \in 1 .. Height /\ a <= b - 1
    BY <1>1, <2>1
  <2>3. n + 1 <= n
    BY <1>1, <1>2, <2>2
  <2> QED BY <1>1, <2>3
<1>4. ~(b < a)
  <2>1. SUFFICES ASSUME b < a PROVE FALSE
    OBVIOUS
  <2>2. b \in 1 .. Height /\ a - 1 \in 1 .. Height /\ b <= a - 1
    BY <1>1, <2>1
  <2>3. n + 1 <= n
    BY <1>1, <1>2, <2>2
  <2> QED BY <1>1, <2>3
<1>5. a = b /\ b # 0
  BY <1>1, <1>3, <1>4
<1> QED BY <1>5 DEF VerifiedInv, ChainGood

\* A VERIFIED job's plan was executed by its transaction, in time, at its own
\* nonce, and by no other VERIFIED job (verifyExecution and executeRebalance).
THEOREM RunnerVerifiedMeansExecuted == Spec => []VerifiedMeansExecuted
<1>1. ASSUME VerifiedInv PROVE VerifiedMeansExecuted
  <2> DEFINE verified == {i \in 1 .. Len(jobs) : jobs[i].state = "VERIFIED"}
  <2>1. ASSUME NEW i \in verified
        PROVE  /\ jobs[i].hash \in Hash /\ tx[jobs[i].hash].plan = jobs[i].id.plan
               /\ Executed(tx[jobs[i].hash].plan, tx[jobs[i].hash].block)
    <3>1. ProofTrue(jobs[i].id.plan, jobs[i].hash)
      BY <1>1, <2>1 DEF VerifiedInv, ProofsTrue
    <3>2. jobs[i].id.plan # Foreign
      BY <1>1, <2>1 DEF VerifiedInv, RunnerInv, JournalGood, Foreign
    <3> QED BY <1>1, <3>1, <3>2 DEF ProofTrue, VerifiedInv, ChainGood, TxGood
  <2>2. ASSUME NEW i \in verified, NEW k \in verified, i # k,
               chain[jobs[i].id.plan].nonce = chain[jobs[k].id.plan].nonce
        PROVE  FALSE
    <3>1. jobs[i].hash = jobs[k].hash
      BY <1>1, <2>1, <2>2, OneSuccessPerNonce
    <3>2. jobs[i].id.plan = jobs[k].id.plan
      BY <2>1, <2>2, <3>1
    <3> QED BY <1>1, <2>2, <3>2 DEF VerifiedInv, RunnerInv, JournalGood, JobsDistinct
  <2>3. ASSUME NEW i \in verified
        PROVE  LET mined == tx[jobs[i].hash].block
                   nonce == chain[jobs[i].id.plan].nonce
               IN  /\ mined # 0 /\ mined <= jobs[i].id.plan + DeadlineBlocks
                   /\ chain[mined - 1].nonce = nonce /\ chain[mined].nonce = nonce + 1
    BY <2>1, <2>3 DEF Executed
  <2> QED BY <2>2, <2>3 DEF VerifiedMeansExecuted
<1> QED BY <1>1, VerifiedInit, VerifiedStep, PTL DEF Spec
=============================================================================
