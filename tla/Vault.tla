------------------------------- MODULE Vault -------------------------------
(***************************************************************************)
(* The AgentGuardVault contract (src/contracts/AgentGuardVault.sol): one   *)
(* owner's two-token vault whose operator may only rebalance through a     *)
(* router, inside a policy.  Each action is one successful transaction: a  *)
(* transaction whose guard fails reverts and changes nothing.  The guard   *)
(* of ReentrancyGuard makes the router call part of the same step.         *)
(*                                                                         *)
(* The tokens, the feeds and the router are outside the contract: a feed   *)
(* may report anything in Reports at any time, and the router may take any *)
(* part of its approval and pay back anything in Outputs.                  *)
(***************************************************************************)
EXTENDS Integers

CONSTANTS
    Owner, Operator,   \* the immutable roles; they may be the same account
    Accounts,          \* every account that can send a transaction
    Unit,              \* base units of a whole token, 10 ** decimals
    FeedUnit,          \* units of a feed's answer, 10 ** decimals
    UsdUnit,           \* the scale of every USD amount (1e18 in the source)
    SecondsPerDay,     \* 1 days
    DeadlineWindow,    \* 120 seconds
    Policies,          \* policies the owner may submit, valid or not
    Reports,           \* what each feed may report
    Lots,              \* amounts deposited or withdrawn at once, for each token
    Amounts,           \* amounts a caller may name in a sale, for each token
    MinOutputs,        \* output floors a caller may name
    Outputs,           \* amounts the router may pay, for each token
    MaxTime, MaxBalance, MaxExecutions   \* bounds of the model

BPS == 10000
MaxSlippage == 500

Token == {0, 1}
Other(t) == 1 - t

PolicyType == [maxActionUsd: Nat, maxDailyUsd: Nat, targetToken0Bps: Nat,
               maxSlippageBps: Nat, cooldownSeconds: Nat, maxOracleAge: Nat]

ReportType == [answer: Int, stamp: {"never", "now", "ahead"}, carried: BOOLEAN]

ASSUME RolesAssumption == {Owner, Operator} \subseteq Accounts
ASSUME ScaleAssumption ==
    /\ Unit \in [Token -> Nat \ {0}]
    /\ FeedUnit \in [Token -> Nat \ {0}]
    /\ UsdUnit \in Nat \ {0}
    /\ SecondsPerDay \in Nat \ {0}
    /\ DeadlineWindow \in Nat
ASSUME InputsAssumption ==
    /\ Policies \subseteq PolicyType
    /\ Reports \in [Token -> SUBSET ReportType]
    /\ Lots \in [Token -> SUBSET Nat]
    /\ Amounts \in [Token -> SUBSET Nat]
    /\ MinOutputs \subseteq Nat
    /\ Outputs \in [Token -> SUBSET Nat]
ASSUME BoundsAssumption ==
    /\ MaxTime \in Nat \ {0}
    /\ MaxBalance \in [Token -> Nat]
    /\ MaxExecutions \in Nat

VARIABLES
    now,               \* block.timestamp
    bal,               \* the vault's balance of each token
    feed,              \* the last round of each price feed
    policy, paused,
    spentTodayUsd, spendDay, lastExecutionAt, executionNonce,
    sender,            \* msg.sender of the last transaction
    soldOn             \* history: USD value that rebalances sold, by day

ledgerVars == <<spentTodayUsd, spendDay, lastExecutionAt, executionNonce, soldOn>>
vars == <<now, bal, feed, policy, paused, ledgerVars, sender>>

Day(t) == t \div SecondsPerDay
Today == Day(now)
Days == {Day(t) : t \in 0 .. MaxTime}

CeilDiv(n, d) == (n + d - 1) \div d

-----------------------------------------------------------------------------
(* Prices and valuation. *)

Price(t) == (feed[t].answer * UsdUnit) \div FeedUnit[t]

\* Faulty variant: a round is good however old it is.
FreshAnyAge(t) ==
    /\ feed[t].answer > 0
    /\ feed[t].updatedAt # 0 /\ feed[t].updatedAt <= now
    /\ ~feed[t].carried
    /\ Price(t) # 0

Fresh(t) ==
    /\ feed[t].answer > 0
    /\ feed[t].updatedAt # 0
    /\ feed[t].updatedAt <= now
    /\ now - feed[t].updatedAt <= policy.maxOracleAge
    /\ ~feed[t].carried
    /\ Price(t) # 0

Value(t, amount) == (amount * Price(t)) \div Unit[t]

Total(b) == Value(0, b[0]) + Value(1, b[1])

Share(b) == (Value(0, b[0]) * BPS) \div Total(b)

Drift(b) ==
    IF Share(b) > policy.targetToken0Bps
      THEN Share(b) - policy.targetToken0Bps
      ELSE policy.targetToken0Bps - Share(b)

ValidPolicy(p) ==
    /\ p.maxActionUsd # 0
    /\ p.maxDailyUsd >= p.maxActionUsd
    /\ p.targetToken0Bps # 0 /\ p.targetToken0Bps < BPS
    /\ p.maxSlippageBps <= MaxSlippage
    /\ p.maxOracleAge # 0

-----------------------------------------------------------------------------
Round(r) ==
    [answer |-> r.answer,
     updatedAt |-> IF r.stamp = "never" THEN 0
                   ELSE IF r.stamp = "ahead" THEN now + 1 ELSE now,
     carried |-> r.carried]

Init ==
    /\ now = 1
    /\ bal = [t \in Token |-> 0]
    /\ feed = [t \in Token |-> [answer |-> 0, updatedAt |-> 0, carried |-> FALSE]]
    /\ policy \in {p \in Policies : ValidPolicy(p)}
    /\ paused = FALSE
    /\ spentTodayUsd = 0 /\ spendDay = 0
    /\ lastExecutionAt = 0 /\ executionNonce = 0
    /\ sender = Owner
    /\ soldOn = [d \in Days |-> 0]

\* Faulty variant: the update path forgets the constructor's validation.
SetPolicyUnvalidated(caller, p) ==
    /\ caller = Owner
    /\ policy' = p
    /\ sender' = caller
    /\ UNCHANGED <<now, bal, feed, paused, ledgerVars>>

SetPolicy(caller, p) ==
    /\ caller = Owner
    /\ ValidPolicy(p)
    /\ policy' = p
    /\ sender' = caller
    /\ UNCHANGED <<now, bal, feed, paused, ledgerVars>>

SetPaused(caller, next) ==
    /\ caller = Owner
    /\ paused' = next
    /\ sender' = caller
    /\ UNCHANGED <<now, bal, feed, policy, ledgerVars>>

Deposit(caller, t, amount) ==
    /\ amount # 0
    /\ bal[t] + amount <= MaxBalance[t]
    /\ bal' = [bal EXCEPT ![t] = @ + amount]
    /\ sender' = caller
    /\ UNCHANGED <<now, feed, policy, paused, ledgerVars>>

\* Neither the pause nor the oracle guards the owner's exit.
Withdraw(caller, t, amount) ==
    /\ caller = Owner
    /\ amount <= bal[t]
    /\ bal' = [bal EXCEPT ![t] = @ - amount]
    /\ sender' = caller
    /\ UNCHANGED <<now, feed, policy, paused, ledgerVars>>

\* Faulty variant: the counter is not reset when the day changes.
AlreadySpentNoRollover == spentTodayUsd

AlreadySpent == IF spendDay = Today THEN spentTodayUsd ELSE 0

Notional(c) == Value(c.tokenIn, c.amountIn)

\* Faulty variant: the slippage allowance is applied twice.
OracleFloorTwice(c) ==
    LET out == Other(c.tokenIn)
        fairOut == (Notional(c) * Unit[out]) \div Price(out)
    IN  CeilDiv(fairOut * (BPS - 2 * policy.maxSlippageBps), BPS)

\* The least output the policy accepts at the oracle prices.
OracleFloor(c) ==
    LET out == Other(c.tokenIn)
        fairOut == (Notional(c) * Unit[out]) \div Price(out)
    IN  CeilDiv(fairOut * (BPS - policy.maxSlippageBps), BPS)

Authorized(c) ==
    /\ c.sender \in {Owner, Operator}
    /\ ~paused
    /\ c.amountIn # 0 /\ c.minAmountOut # 0
    /\ c.expectedNonce = executionNonce
    /\ c.deadline >= now /\ c.deadline <= now + DeadlineWindow

CooledDown == lastExecutionAt # 0 => now >= lastExecutionAt + policy.cooldownSeconds

TowardTarget(c) ==
    /\ Total(bal) # 0
    /\ IF c.tokenIn = 0 THEN Share(bal) > policy.targetToken0Bps
                        ELSE Share(bal) < policy.targetToken0Bps

\* Faulty variant: each trade is compared with the daily limit on its own.
WithinBudgetPerTrade(c) ==
    /\ Notional(c) # 0
    /\ Notional(c) <= policy.maxActionUsd
    /\ Notional(c) <= policy.maxDailyUsd

WithinBudget(c) ==
    /\ Notional(c) # 0
    /\ Notional(c) <= policy.maxActionUsd
    /\ AlreadySpent + Notional(c) <= policy.maxDailyUsd

\* What the contract requires of the balances the router leaves.
Settled(c, taken, paid) ==
    LET after == [bal EXCEPT ![c.tokenIn] = @ - taken, ![Other(c.tokenIn)] = @ + paid]
    IN  /\ taken = c.amountIn
        /\ paid >= c.minAmountOut
        /\ Total(after) # 0
        /\ Drift(after) < Drift(bal)

\* The router takes part of the approved input and pays what it likes; the
\* transaction stands only if the balances it leaves are settled.
Rebalance(c) ==
    /\ executionNonce < MaxExecutions
    /\ Authorized(c)
    /\ CooledDown
    /\ \A t \in Token : Fresh(t)
    /\ TowardTarget(c)
    /\ WithinBudget(c)
    /\ c.minAmountOut >= OracleFloor(c)
    /\ \E taken \in Amounts[c.tokenIn], paid \in Outputs[Other(c.tokenIn)] :
          /\ taken <= c.amountIn /\ taken <= bal[c.tokenIn]
          /\ Settled(c, taken, paid)
          /\ bal' = [bal EXCEPT ![c.tokenIn] = @ - taken, ![Other(c.tokenIn)] = @ + paid]
          /\ soldOn' = [soldOn EXCEPT ![Today] = @ + Value(c.tokenIn, taken)]
    /\ spentTodayUsd' = AlreadySpent + Notional(c)
    /\ spendDay' = Today
    /\ lastExecutionAt' = now
    /\ executionNonce' = executionNonce + 1
    /\ sender' = c.sender
    /\ UNCHANGED <<now, feed, policy, paused>>

\* A feed answers a new round; the contract only reads it.
FeedReport(t, r) ==
    /\ feed' = [feed EXCEPT ![t] = Round(r)]
    /\ UNCHANGED <<now, bal, policy, paused, ledgerVars, sender>>

Tick ==
    /\ now < MaxTime
    /\ now' = now + 1
    /\ UNCHANGED <<bal, feed, policy, paused, ledgerVars, sender>>

\* Calls a caller may send: any arguments, on either side of every guard.
Calls ==
    UNION {[sender: Accounts, tokenIn: {t}, amountIn: Amounts[t], minAmountOut: MinOutputs,
            deadline: {now + DeadlineWindow, now + DeadlineWindow + 1},
            expectedNonce: {executionNonce, executionNonce + 1}] : t \in Token}

Next ==
    \/ Tick
    \/ \E t \in Token : \E r \in Reports[t] : FeedReport(t, r)
    \/ \E caller \in Accounts, p \in Policies : SetPolicy(caller, p)
    \/ \E caller \in Accounts, next \in BOOLEAN : SetPaused(caller, next)
    \/ \E caller \in Accounts, t \in Token : \E amount \in Lots[t] :
          Deposit(caller, t, amount) \/ Withdraw(caller, t, amount)
    \/ \E c \in Calls : Rebalance(c)

Spec == Init /\ [][Next]_vars

-----------------------------------------------------------------------------
FeedType == [answer: Int, updatedAt: Nat, carried: BOOLEAN]

\* The type invariant of the contract's storage (AgentGuardVault.sol).
TypeOK ==
    /\ now \in 1 .. MaxTime
    /\ bal \in [Token -> Nat]
    /\ feed \in [Token -> FeedType]
    /\ policy \in PolicyType /\ ValidPolicy(policy)
    /\ paused \in BOOLEAN
    /\ spentTodayUsd \in Nat /\ spendDay \in Nat
    /\ lastExecutionAt \in 0 .. MaxTime
    /\ executionNonce \in 0 .. MaxExecutions
    /\ sender \in Accounts
    /\ soldOn \in [Days -> Nat]

\* The two-word ledger (spentTodayUsd, spendDay) is a faithful summary of the
\* whole trading history: it holds exactly what was sold on its day, and no day
\* after it has sold anything, across day changes, pauses and policy changes.
LedgerFaithful ==
    /\ spendDay \in Days /\ spendDay <= Today
    /\ soldOn[spendDay] = spentTodayUsd
    /\ \A d \in Days : d > spendDay => soldOn[d] = 0

\* The value that left the vault in rebalances of one calendar day never passes
\* the maxDailyUsd in force when it leaves, nor one trade its maxActionUsd, in
\* whatever order trades, day changes and policy updates come.
DailyBudget ==
    [][soldOn' # soldOn =>
          /\ soldOn'[Today] <= policy.maxDailyUsd
          /\ soldOn'[Today] - soldOn[Today] <= policy.maxActionUsd]_vars

\* What one sale may cost: the slippage allowance of the value sold, and less
\* than one base unit of the output (and two of the USD scale) to rounding.
TradeAllowance(t, sold) ==
    sold * policy.maxSlippageBps + BPS * (2 + CeilDiv(Price(Other(t)), Unit[Other(t)]))

\* A round from which a price may be taken: answered for itself, not from the
\* future, and no older than the policy in force allows.
Current(round) ==
    ~round.carried /\ round.updatedAt \in (now - policy.maxOracleAge) .. now

\* The operator (or anyone who is not the owner) cannot change the policy or
\* the pause, takes value out only by a rebalance, and each rebalance costs the
\* vault at most the slippage allowance at the oracle prices, whatever the
\* router pays back.  Neither of these prices is stale, that of the token
\* bought included.
OperatorConfined ==
    [][sender' # Owner =>
          /\ policy' = policy /\ paused' = paused
          /\ \A t \in Token : bal'[t] < bal[t] =>
                /\ executionNonce' = executionNonce + 1
                /\ \A i \in Token : Current(feed[i])
                /\ BPS * (Total(bal) - Total(bal'))
                     <= TradeAllowance(t, soldOn'[Today] - soldOn[Today])]_vars
=============================================================================
