# AgentGuard: specifications, model checking and proofs

AgentGuard keeps two tokens in a vault contract on BSC, lets an off-chain agent
propose bounded rebalances and lets the owner's wallet sign them. This directory
specifies the parts of that system whose correctness depends on the order in
which things happen. Every definition was written from the source; `PROJECT.json`
names, for each one, the file and lines it stands for.

Contents: [Inventory](#inventory) · [Modules](#modules) · [Runs](#runs) ·
[Fairness](#fairness) · [Proofs](#proofs) · [Disagreements](#disagreements-with-the-repositorys-own-words) ·
[Not modelled](#not-modelled) · [Plan](#plan)

## Inventory

Paths are below `src/` of the repository.

| Component | State | Operations | Talks to | Hard because | Correct when |
|---|---|---|---|---|---|
| **Vault contract** `contracts/AgentGuardVault.sol` | policy, pause, daily ledger (two words), cooldown, nonce, balances | `setPolicy`, `setPaused`, `deposit`, `withdraw`, `rebalance` | tokens, two price feeds, router | lazily reset counter, roundings, arbitrary router and feeds | a day never sells more than the limit in force; the operator costs the owner at most the slippage allowance |
| **Runner** `src/bsc/server.ts` | task queue, readiness cache, rate counters, journal | HTTP plans / verify / recover / action, local endpoints, close | chain RPC, verifier RPC, journal, monitor, sessions | every handler awaits the chain between its checks and its write; crash at any point | evidence is never rewritten; failed proofs freeze; VERIFIED is true |
| **Journal store** `src/bsc/store.ts` | file, copy in memory | `load`, `change` | file system | write and rename are two steps; capacity 500 | atomic, never loses a change |
| **Journal lock** `src/bsc/journal-lock.ts` | lock file with token | claim, release | file system, operator | each operation is two awaits; crashes leave the file | one process per journal |
| **Pending monitor** `src/bsc/operations.ts` | pass under way, first-seen times, error count | `run`, `summary` | runner queue | works on jobs read when the pass began | every bound transaction is proved in the end |
| **Planner and verifier** `src/bsc/rebalancer.ts` | none | `proposeRebalance`, `verifyExecution` | RPC | prices, roundings and budget computed twice; many reads of one moving chain | a READY plan is accepted by the vault; a proof is of one canonical chain |
| **Wallet sessions** `src/bsc/auth.ts` | challenges, sessions | challenge, exchange, address, revoke | runner | exchange awaits the signature check; limits of 100 | a challenge is used once; a session ends |
| **Submission guard** `site/bsc/submission.js` | marker in localStorage, copy per tab, Web Lock | `submit`, `rememberHash`, `acceptProof`, `releaseExpired` | wallet, runner, other tabs | tabs close, storage fails, wallets answer late or never | never two requests that can both trade |
| **Operations console** `site/bsc/app.js` | current job, guard | buttons | runner, guard, wallet session | stale job after a change of chain | sends what was reviewed |
| **Wallet session (console)** `site/bsc/wallet-session.js` | provider, account, token | connect, disconnect, switch, send | wallet, runner | account or network changes during any await | no request for another account; no token forgotten |
| **Deployment console** `site/bsc/deploy/app.js` | attempt markers, proofs shown | deploy, register, verify, readiness | wallet, deployment service | no lock between tabs; storage fails after the broadcast; conditions change | no duplicate deployment; asked for only when ready |
| **Setup console** `site/bsc/setup/app.js` | record of the deployment, one of each feed's refresh, Web Lock | deploy, retry at the same nonce, verify, export, refresh | wallet, setup service, other tabs | replaced transactions, verification outside the lock | one environment; no open request forgotten |
| **Controlled setup** `src/bsc/controlled*.ts` | the last proof | prepare, prepare-retry, verify, config, refresh, verify-refresh | two RPCs | one RPC may lie; one proof for all tabs | only what the chain holds is attested; only what is payable is offered |
| **Deployment service** `src/bsc/deployment*.ts`, `preflight.ts`, `identity.ts` | none between requests | preflight, verify deployment, verify registration | two RPCs | one RPC may lie | only the reviewed bytecode is attested |
| **Dependency scanner** `src/bsc/dependency-*.ts` | scan under way, report file | start, summary, close | probe, file | abort against save | an old report is never shown as new |
| **Exchange agent** `src/core.ts`, `agent.ts`, `live-runner.ts`, `scripts/*.mjs` | run, lines under way, receipts | plan, gate, order, verify | planner process, bridge process, exchange | answers matched by order, timers in two processes, processes that outlive their timer | orders within policy and consent; receipts true; every run ends |
| Evidence and tooling, static site, test contracts | none that outlives a run | – | – | – | – |

The hazards, each at the line where it bites, are listed in `PROJECT.json` under
`hazards`; the properties below were chosen from that list.

How the parts meet: the runner reads a snapshot of the vault and journals a plan
bound to its nonce and a 90 second deadline; the console asks the wallet to sign
it under the submission guard; the vault executes it or reverts; the console
sends the hash back; the runner binds it, waits for two confirmations and stores
a proof, which the monitor does instead when the console is gone; the proof lets
the guard forget its marker.

## Modules

| Module | Models | Checked by | Proved in |
|---|---|---|---|
| `Vault` | the contract | `MCVault` | `VaultProofs` |
| `Planner` (extends `Vault`) | the planner's arithmetic beside the contract | `MCVault` | `VaultProofs` |
| `Runner` | server, journal, monitor, beside the chain and wallets | `MCRunner` | `RunnerProofs` |
| `SubmissionGuard` | tabs, guard, wallet, plans and the vault's nonce | `MCSubmission` | `SubmissionProofs` |
| `JournalLock` | lock file, processes, temporary file and rename | `MCJournalLock` | `JournalLockProofs` |
| `AtomicJournal` | what the journal promises: one owner, one change at a time | through `JournalRefinement` | `JournalLockProofs` |
| `JournalRefinement` | the refinement mapping from `JournalLock` to `AtomicJournal` | `MCJournalLock` | `JournalLockProofs` |
| `SetupConsole` | setup console in several tabs, setup service, two RPCs, wallet | `MCSetupConsole` | `SetupProofs` |
| `DeployConsole` | deployment console, deployment service, two RPCs, wallet | `MCDeployConsole` | `DeployProofs` |
| `WalletSession` | a page's wallet connection and the service's sessions | `MCWalletSession` | `WalletProofs` |
| `Agent` | a live run with planner, bridge and exchange | `MCAgent` | `AgentProofs` |

Definitions called "Faulty variant" in a comment are the bugs the properties must
detect; no specification uses them. `PROJECT.json` pairs each with the definition
it replaces and the property it breaks.

### Vault

One action per external function; a transaction whose guard fails reverts, so it
is no step. `Rebalance` is the whole function: guards in the code's order, then
the router's effect, then the checks of the balances it left (`Settled`). The
router takes any part of its approval and pays any amount of `Outputs`; only the
final checks decide. `nonReentrant` makes that one step. Feeds report anything in
`Reports` at any time, including rounds that were never started, lie in the future
or were carried over. USD amounts are integers scaled by `UsdUnit` (1e18 in the
code) and all three roundings are kept, since the loss bound is about them. Token
amounts are unbounded integers: Solidity 0.8 reverts on overflow, which is no
step. `soldOn` is a history variable: what rebalances sold on each day. `planId`
appears only in an event and a non-zero check and is left out.

### Planner

`proposeRebalance` is a pure function of a block's snapshot and the router's quote.
Prices and valuation are written twice in the source, once in Solidity and once in
TypeScript; the two agree line by line, so `Planner` uses the contract's operators
for both and adds what is the planner's own: which token is sold, how much of the
excess the two budgets leave (`NotionalCap`), the call it asks for (`Plan`) and the
conditions under which it is READY. `ReadyPlansExecute` relates the two at every
reachable state of the vault: what the planner calls READY the contract executes,
at every second of the plan's 90, across a change of day, at the floor or at a quote no better than the oracle's
prices. The restriction on quotes is real: a router that pays several times the
oracle's price can overshoot the target so far that the contract reverts with
`DriftNotImproved`, since the planner computes the drift at the floor only. Nothing
is lost by it but the gas.

### Runner

A handler or a monitor pass is a task of a few steps, cut at the awaits that
matter: chain reads and journal writes. `Serialized` is the promise queue.
`journal` is both the file and the copy in memory (JournalLock justifies this:
the rename is the only visible change). A plan is identified by the block it was
made from, whose nonce and deadline it is bound to (`DeadlineBlocks` stands for the 90
seconds); a block holds the vault's nonce and pause. Any RPC read or journal
write may fail (`TaskFails`), any task may be lost in a crash; the verifier RPC
lags behind the chain (`seen`). `Proofs` says what `verifyExecution` may answer:
VERIFIED only for the plan's own executed transaction, FROZEN on anything else,
and FROZEN also for a good one, since a provider may have pruned the snapshot.
`acked` is a history variable: the failed jobs that existed when a recovery read
the paused vault.

### SubmissionGuard

What JavaScript runs between two awaits is one step. `stored` is the localStorage
record of one vault, `memory[t]` the tab's closure variable, `awaits[t]` the wallet
request whose answer tab `t` awaits, which it does exactly while holding the Web
Lock. A storage write may fail after the tab's copy has changed (`persists`); the
session check before the wallet opens may throw (`opens`). A request stays
decidable in the wallet after its tab is gone. A transaction hash is the number
of the request it came from, or `Elsewhere` for one the browser did not send.
`rememberHash` and `acceptProof` take no lock, as in the code. They are disabled
in a tab that awaits the wallet because the page's buttons are.

### JournalLock

Creating the lock file and writing its token are two steps, as are checking the
token and unlinking. A process may die anywhere, startup may fail after the claim,
and the operator may replace the lock file (restoring a backup, moving the
service) or remove it, the latter only when every process is down, as the comment
at `journal-lock.ts:5` demands. `disk`, `memory` and `staged` are sets of changes:
enough to tell whether a write undoes another.

`AtomicJournal` is what the rest of the service may assume: nobody but the owner
changes the journal, each change appears whole, and no file, copy or crash shows.
`JournalRefinement` maps a missing file to the empty journal (`Loaded(disk)`) and the
processes past their claim and before their release to the owner; every step of
`JournalLock` is then a step of `AtomicJournal` or none. `NoLostWrite` says the
part of it that is about the file alone, and is proved; the run checks the
refinement, which implies it.

### SetupConsole

`record` and `refreshed` are the localStorage records, `tab[t]` what a page holds in
variables, `txs` every request the wallet has seen; the transaction's hash is its
place there. A tab takes the Web Lock when it starts a deployment, a retry or a
refresh and gives it up with the answer; verification takes no lock and writes
what it has put together from what it read before its await, as in the code.
`Outcomes` says whether each of a step's writes and its last look at the wallet
succeed. The two RPCs are asked as the service asks them: `Faulty` names the one
that may answer anything, the other one may lag. An environment counts as
verified with two confirmations and is then final. Startup states include records of older builds
and an environment that another browser deployed.

### DeployConsole

Same shape, with one marker per kind of request and without a lock. Readiness
(`preflight`) is asked for at a press of a button and once more before the wallet
opens (`Rechecked`); `broken` is which of the conditions fail on the chain at the
moment, and it changes at any time. `sound` and `ready` remember whether an
endpoint that tells the truth was asked since the click.

### WalletSession

One page, in either of its two uses (`login`): the console, which exchanges a signed
challenge for a session, and the setup page, which only binds its requests. `wallet` is what the user
has chosen there; its events and answers reach the page in the order they were
sent (`inbox`), while the service answers independently. `job` is the one handler the
page's `busy` flag admits, at the await it has reached. The service's maps and
limits are `challenges` and `sessions`; `exchanges` are those that await
`verifyMessage` between looking a challenge up and taking it. A request or a reply
may be lost, also while the signature is still being verified, another client may log in, everything may expire at any time.

### Agent

A run of the live runner, step by step; `pending` and `lines` are the requests
without an answer and the lines under way, which the runner matches by order
alone. `children` are the bridge's processes: one that its timer has killed may still
act on the exchange for a while (`dying`). The exchange may fill an order in part, at
another price, or twice the amount, and a query may name any order of the
account. The planner process may return any intent that is well formed.
The quote is asked for once more, after the gate, if the first one names another symbol
(`Requoted`), and a placement may be answered by words of the model that called no tool
(`binance-codex-bridge.mjs:60-67`): the query that follows decides.

What is assumed of the model behind the bridge and of the deployment, because
the code does not enforce it:

- a process calls the tool once at most. The bridge asks for that in its prompt only
  (`binance-codex-bridge.mjs:69-72`) and takes the last of several calls (line 50). That an order is
  the only one of its task (`OrdersAuthorized`) rests on this;
- a query is answered with an order of the account. `ReceiptsTrue` could not hold of
  an answer that the model makes up, which the fallback of lines 60-67 would accept;
- the order tool is `spot.newOrder`, the default. A tool set by
  `BINANCE_MCP_ORDER_TOOL` is not in `WRITE_TOOLS` (line 6) and skips the bridge's opt-in;
- no two runs start in the same second: task ids have that granularity
  (`live-runner.ts:135`), and the model's are distinct.

## Runs

All runs use small sets; the bounds are named constants.

| Run | Module, cfg | Shows |
|---|---|---|
| `vault` | `MCVault` | `LedgerFaithful`: the two words of the ledger summarise the whole history. `DailyBudget`: no day sells more than the limit in force. `OperatorConfined`: without the owner, the policy stands, value leaves only by rebalances, and each costs at most the slippage allowance plus rounding, at prices of rounds that are not stale. `ReadyPlansExecute`: the contract accepts what the planner offers |
| `runner` | `MCRunner` | `JobsDistinct`, `JournalIsEvidence`, `FrozenUntilAcknowledged`, `NoPlanAfterFailure`, `VerifiedMeansExecuted` |
| `runner_live` | `MCRunner`, `MCRunnerLive.cfg` | `BoundJobsProved`: confirmed bound transactions are proved in the end |
| `submission` | `MCSubmission` | `NoSecondLiveRequest`, `LiveRequestIsMarked`; `MarkersResolve`: no marker blocks the vault for ever |
| `submission_hash` | `MCSubmission`, `MCSubmissionHash.cfg` | a violation, see below |
| `journal_lock` | `MCJournalLock` | `SingleWriter`; `ImplementsJournal`: the refinement of `AtomicJournal` |
| `journal_lock_replaced` | `MCJournalLock`, `MCJournalLockReplaced.cfg` | a violation, see below |
| `setup` | `MCSetupConsole` | `OneDeployment`, `DeploymentLocked`, `RefreshLocked`: no second deployment, no second refresh of a feed, no open request forgotten. `EvidenceIsReal`, `Affordable`: one lying RPC proves nothing and sells nothing. `ConfigIsReviewed`: what is saved is what the tab shows |
| `setup_nonce` | `MCSetupConsole`, `MCSetupNonce.cfg` | a violation, see below |
| `deploy` | `MCDeployConsole` | `UncertainStaysLocked`, `OneRequestOut`, `AskedWhenReady`, `ProofIsReal` |
| `wallet` | `MCWalletSession` | `OneSessionPerChallenge`, `NoForgottenToken`, `AskedOfConnectedWallet` |
| `agent` | `MCAgent` | `LinesMatch`: no answer is taken for another's. `OrdersAuthorized`, `ReceiptsTrue`; `RunsEnd`: whoever fails to answer |

Each passing run also checks its module's `TypeOK`.

Why the bounds are enough to be interesting:

- **vault**: two executions, two days of two seconds, so that two trades fall on one
  day or on two; a sale of 200 with a 5 % allowance of 10 units, told apart from
  rounding; three policies of which one is invalid; two prices for token 0. Each
  guard is met from both sides (wrong deadline, nonce, sender, pause, stale round).
  The planner's window is one second, so that a plan may be executed on the next day.
- **runner**: two hashes, one request slot and the monitor, four blocks, a journal
  of two jobs. One slot suffices for interleaving since the monitor is the second
  actor and the queue admits no more than one task anyway; with the queue removed
  (a faulty variant) the properties fail at these bounds. Four blocks hold a plan,
  its execution and the confirmation, and a second plan after a failure.
- **runner_live**: one hash, three blocks; the capacity still lets the journal be full.
- **submission**: two tabs, two requests, two nonces, four seconds and plans of one
  second: two plans that overlap in time, one that expires while the other lives.
- **journal_lock**: three processes, so that a third may claim while one closes and
  one has crashed; four changes.
- **setup**: two tabs, three requests and three nonces: a deployment, its replacement
  at the same nonce and a refresh, or the nonce consumed elsewhere in between. The primary RPC
  is the liar since the service prefers its answers.
- **deploy**: one tab that may reload at any time, three requests (one of each kind and
  one after a rejection). The page has no lock, and it promises nothing about a
  second tab: with two, `UncertainStaysLocked` and `OneRequestOut` fail, because the
  rejection in one tab removes the marker of the other.
- **wallet**: two changes in the wallet (to another account or network and back), two
  challenges, limits of two challenges and one session, so that another client can
  take the last place between a check and its use. The wallet starts with the owner's account.
- **agent**: two runs, so that an answer, a process or an order of the first can meet
  the second; a budget of 5 and an amount and a deviation on each side of the limit.

Symmetry is used for hashes (`runner`), processes and the setup console's tabs, in runs without
liveness properties only. Deadlock is checked in `vault`, `runner`, `runner_live`, `wallet` and the
journal runs; in the submission, setup, deploy and agent runs it is not, because there the number of
requests, runs or seconds is bounded and a state in which all are used up is the
bound's doing.

## Fairness

- **Runner**: the event loop continues every started task and the timer starts
  every pass (weak fairness of task steps). The queue is first come, first served,
  so the monitor's turn comes although requests keep arriving, and an attempt that
  fails is repeated with the next pass (strong fairness of the monitor's steps): a
  fault may recur for ever, but not at the same step of every attempt. The verifier
  RPC catches up. Nothing is assumed of users or wallets, nor that anyone restarts
  the process: a crash leaves the lock file, which an operator has to remove
  first. The property itself assumes that the process stays up from some time on.
- **SubmissionGuard**: time passes, a wallet dialog is answered or its tab closed,
  and some user keeps pressing "release". Nothing is assumed of the wallet's kind
  of answer, of storage or of the chain's execution of the plan.

- **Agent**: the runner and the bridge continue, `planTradeGoal` returns, and the planner
  process and each process of the bridge have timers, which run out (`PlannerFails`,
  `Breaks`). That a planner or an exchange process ever answers is not assumed.
- `SetupConsole`, `DeployConsole` and `WalletSession` have safety properties only: what ends
  a pending request there is a decision of the user.

## Proofs

The theorems hold for every value of the constants under the named assumptions of
the modules (units positive, model names distinct, bounds natural).

- **VaultProofs**. `VaultTypeCorrect`, `VaultLedgerFaithful`, `VaultDailyBudget`. The
  inductive invariant is `TypeOK /\ LedgerFaithful`: the counter of an old day may
  be dropped only because no later day has sold anything yet and days only grow,
  which is what `LedgerFaithful` adds. `DailyBudget` then follows step by step: a
  rebalance adds `Notional`, which `WithinBudget` compared with the history's total
  of today, whichever day the counter was of. `VaultOperatorConfined`: a sale lowers
  the value of the token sold by its notional and at most one unit; what is paid is
  worth the notional less the slippage, one unit and one base unit of the output
  (`FloorKeepsValue`, which multiplies the three roundings out), so the loss is within
  `TradeAllowance` for any scales and prices. That neither price is stale follows from what
  `_price` asks of a round (`FreshIsCurrent`). `PlannerReadyPlansExecute`: the plan
  sells no more than the excess, so up to one unit per token the vault stays on its side of the
  target (`ExcessIs`, `SaleIs`, `AfterIs`); what it may overshoot by then is less than the
  drift before (`OvershootDown`, `OvershootUp`), and as long as it does not overshoot,
  more output only lowers the drift (`ShareFalls`, `ShareRises`). The hypothesis
  `AboveDust` keeps that one unit from deciding: the sale is worth three units of 1e-18 USD, and the
  drift, less one basis point, as much of the whole vault, which a drift of two basis
  points is in any vault of 3e-14 USD. Left out are such dust, where a READY plan may revert,
  and a drift of a single basis point (`minimumDriftBps` is 100 by default and may be 1),
  which the rounding of shares is as large as. The run reaches READY plans of both
  directions that satisfy the hypothesis, and some that do not.
- **RunnerProofs**. `RunnerTypeCorrect`, `RunnerJobsDistinct`,
  `RunnerJournalIsEvidence`, `RunnerFrozenUntilAcknowledged`,
  `RunnerNoPlanAfterFailure`, `RunnerVerifiedMeansExecuted`: every safety property
  of the module. `RunnerInv` says that one task at a time is not idle (`Alone`),
  so what it has read still holds when it writes (`TasksGood`: a planning task
  has seen an unfrozen journal and nobody can have frozen it since; a verifying
  task's job exists, has no proof and no other hash; a recovery acknowledges
  exactly the jobs that failed), and what a write then preserves (`JournalGood`:
  each retry number is below the number of jobs of its plan, so the next one is
  fresh; nothing is acknowledged that has not failed; states agree with receipts).
  `VerifiedInv` adds the chain: nonces only rise, a success raised the nonce of
  its own plan (`ChainGood`), and a proof that a job or a task holds names such a
  success (`ProofsTrue`), which a chain that only grows cannot undo. Two VERIFIED
  jobs at one nonce would then share a block, a transaction and a plan.
- **SubmissionProofs**. `GuardTypeCorrect`, `GuardNoSecondLiveRequest`,
  `GuardLiveRequestIsMarked`. The two promises are not inductive as they stand.
  `GuardInv` adds that plans are never ahead of the nonce (a dead request cannot
  revive), that executed plans have consumed their nonce (so a proof is an end),
  that one tab holds the lock, and that while a tab awaits the wallet no other
  request can trade (so its late answer may overwrite the marker).
- **JournalLockProofs**. `JournalTypeCorrect`, `JournalSingleWriter`,
  `JournalNoLostWrite`. `LockInv` adds that an owner always has a lock file
  standing; `CopiesCurrent` that an open process has read all that is on disk and
  that nothing is staged outside the open state. The operator's replacement does
  not endanger them: a replaced lock still stands. `JournalImplementsAtomic`: for any
  number of processes and changes `JournalLock` implements `AtomicJournal`. Beyond
  `LockInv` and `CopiesCurrent` a commit has to be exactly one new change: `CopiesExact`
  says that the owner's memory is the file's contents and a staged copy holds one
  change more, `ChangesNumbered` that what is on disk was begun before. Initial
  states and each action are then mapped one by one.
- **DeployProofs**. For any number of tabs, `DeployTypeCorrect`, `DeployAskedWhenReady`
  and `DeployProofIsReal` follow from `ReadyInv`: a tab about to deploy has a true answer
  to the check of its own click (`TabSound`, `AllSound`), and a proof names an executed
  request. `DeployUncertainStaysLocked` and `DeployOneRequestOut` hold for one tab (the
  named hypothesis `OneTab`) and any number of requests and reloads: the deployment
  page takes no lock, so with two tabs they are false, and the run has one tab too.
  `LockInv` adds what that tab knows (`TabKnows`): a page that can read its storage offers
  a button only without a marker, and while it has a request out all others of that
  kind are rejected.
- **SetupProofs**. Every invariant of `SetupConsole` and its action property, for any
  number of tabs, feeds and requests, from one inductive invariant, `SetupInv`. Each
  tab's memory is in a relation to storage and requests (`TabOK`): only the tab that
  holds the lock has read the record that still stands and adds a request, and while it waits for
  the wallet every other open request is at its own nonce. Verification takes no lock and
  writes a record made from an old one, which is harmless for another reason: a nonce that
  the honest endpoint confirms is one of a mined deployment, and no deployment from
  elsewhere has a nonce that this browser has read (`OldOnes`). `TxsOK` says that a mined
  request has used its nonce up, `RecordOK` ties the record to the open requests,
  `EvidenceOK` the service's proof and the saved configuration to the chain. Assumed: at
  least one feed and at least one request.
- **AgentProofs**. `AgentTypeCorrect`, `AgentLinesMatch`, `AgentOrdersAuthorized`,
  `AgentReceiptsTrue`, for any number of runs, any lists of symbols and amounts. The
  runner has one unanswered request at a time (`Waits`), which makes arrival order
  enough. The processes of the exchange outlive their timers: `ChildrenOK` says of each,
  whichever run it belongs to, that it carries an intent its run was allowed to place
  and that no order of that run exists before it acts (`PlaceOK`); `OrdersOK` and
  `ReceiptsOK` carry that over to runs that have ended.
- **WalletProofs**. Every invariant of `WalletSession` and its action property, for any
  number of changes in the wallet, challenges and sessions, from `WalletInv`. On the service's side
  `OnePlace`: a challenge is outstanding, or in one exchange, or redeemed by one
  token, which the lookup before the await and the removal after it must keep; a token
  is therefore one of at most as many as there were challenges. On the page's side `HandlerOK`: an
  exchange for the page has the page's handler waiting for it and there is one, so
  its token reaches that handler or is lost on the way, and the page holds no other token that it
  could drop. `AnswersOK` says that a wallet's answer under way is to the question which the
  handler awaits, `ToldOK` that the connected account is the one the wallet told of last
  (and, from the check of the chain until the wallet is asked, the network), and `OwnOK`
  that what the service keeps for the page is of that account: the challenge it awaits, its
  exchange and its session.

Only model-checked: liveness (`BoundJobsProved`, `MarkersResolve`, `RunsEnd`), which is out of the
prover's reach with its fairness and ENABLED, and `ReadyPlansExecute` outside
`AboveDust`, where it holds in the run's states but not for every scale.

## Disagreements with the repository's own words

- `ReplacedLockKept` (run `journal_lock_replaced`). `journal-lock.ts:15` says "Do not remove a lock that an
  operator replaced while this process ran". The release reads the token (line 16) and unlinks the path (line 17) in two
  awaits; a lock put there in between is removed. The window is short, and
  `SingleWriter` survives it as long as the operator's own lock guards nothing that
  runs.
- `SavedHashKept` (run `submission_hash`). The test at `test/bsc-submission.test.mjs:53` says that
  recovered hashes "never silently switch transactions". `read` (line 24) prefers
  the tab's own copy whenever that has a hash for the plan, so `rememberHash`
  compares with that copy and overwrites a different hash another tab has saved.
  The two safety promises do not depend on the hash and still hold.

- `UncertainKeepsNonce` (run `setup_nonce`). `README.md:118` says that "An uncertain wallet
  response keeps its exact hash/nonce recovery lock across reloads". Verification
  in the setup console takes no lock and, at `setup/app.js:222`, writes a record made
  from what it read before its await. When another tab asks the wallet in between,
  the record of that request loses its nonce, and after a reload the same-nonce retry is no
  longer offered. The button stays locked all the same (`DeploymentLocked` holds).
- Not a run, because the code holds nothing it could be checked against:
  `docs/live-runner.md:95` names a policy of "5 USDT per day". `evaluatePolicy` compares
  a `dailySpend` with it that no run passes on, so the limit is one per run; `Agent`
  models `dailySpend = 0`.

## Not modelled

- Rate limits, header and origin checks, calldata construction, formatting and HTML.
- The local fixture's endpoints (reset, outage, execute, fault): local, sequential calls
  against a development chain.
- Reorganisations. `Runner` and `SubmissionGuard` let the chain only grow, so what
  `verifyExecution` does about a reorganisation is not examined, nor is a release of a marker
  on a nonce that a reorganisation takes back. The verifier RPC lags but never
  goes back. `SetupConsole` and `DeployConsole` take two confirmations to be final.
- `verifyExecution`'s single reads are one step, and its arithmetic is left out.
- ERC-20 tokens that take fees or call back: reverts, or excluded by `nonReentrant`.
- Dust: a plan whose value rounds to zero on the USD scale (1e-18) may be READY and
  revert; what the plans of the run sell is worth more than that.
- `SetupConsole`: refresh records of older builds; an unreadable record behaves as
  an old request's. `DeployConsole`: the preparation of the two transactions, once at startup;
  a browser denies storage to a page or grants it, so whether storage works does not change while
  a page is loaded; a read that failed once, before a write that works, would leave an earlier
  request unlocked (`deploy/app.js:204` ignores the failure). `WalletSession`: the choice among
  providers, parsing of network numbers, and reloads of the page, which end its connection. `Agent`: the
  bridge process itself stays alive; the simulated gateway and the wording of goals.
- The dependency scanner: one process, one button, a report nobody acts on without
  another check. One race is known from reading: a summary that began to read the old report
  before a scan failed is answered with that report beside the state FAILED (`dependency-scan.ts:62`).
- A second `close` of one process (SIGINT and then SIGTERM, `server.ts:320`): `JournalLock` closes
  each process once. By reading, two releases that have both read the token unlink
  twice, and the second unlink may hit the lock of a process that has claimed the
  journal in between.
- Command-line tools run once and keep nothing.

## Plan

What is left, most important first:

1. `verifyExecution` over a chain that reorganises; abstract specification: one
   read of one canonical chain.
2. The local fixture's endpoints with partial failures, the dependency scanner, and the
   service's close with two signals.
