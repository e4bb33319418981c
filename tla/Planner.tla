------------------------------- MODULE Planner -------------------------------
(***************************************************************************)
(* The deterministic planner (proposeRebalance in src/bsc/rebalancer.ts)   *)
(* beside the contract it plans for: a plan is computed from one block's   *)
(* snapshot of the vault and from the router's quote in it.  Prices and    *)
(* valuation are written twice in the source, in Solidity and in           *)
(* TypeScript; the two agree, so the contract's operators serve both.      *)
(***************************************************************************)
EXTENDS Vault, FiniteSetsExt

CONSTANTS
    MinimumDrift,   \* minimumDriftBps
    PlanWindow      \* 90 seconds

ASSUME PlannerAssumption ==
    /\ MinimumDrift \in 1 .. BPS
    /\ PlanWindow \in Nat /\ PlanWindow <= DeadlineWindow

\* The snapshot is read only with prices the contract accepts itself.
Plannable ==
    /\ \A t \in Token : Fresh(t)
    /\ ~paused
    /\ Total(bal) # 0
    /\ Drift(bal) >= MinimumDrift
    /\ policy.maxDailyUsd > AlreadySpent
    /\ CooledDown

TokenIn == IF Share(bal) > policy.targetToken0Bps THEN 0 ELSE 1

\* The value that token 0 holds above its target, or lacks.
Excess ==
    LET target0 == (Total(bal) * policy.targetToken0Bps) \div BPS
    IN  IF TokenIn = 0 THEN Value(0, bal[0]) - target0 ELSE target0 - Value(0, bal[0])

\* Faulty variant: what today's trades have sold already is left out.
CapAllDay == Min({Excess, policy.maxDailyUsd, policy.maxActionUsd})

NotionalCap == Min({Excess, policy.maxDailyUsd - AlreadySpent, policy.maxActionUsd})

\* The call that a plan asks the wallet for.  Its floor is the policy's share
\* of the oracle's price or of the quote, whichever is higher.
Plan(caller, quote) ==
    LET sale == [sender |-> caller, tokenIn |-> TokenIn,
                 amountIn |-> (NotionalCap * Unit[TokenIn]) \div Price(TokenIn),
                 minAmountOut |-> 0, deadline |-> now + PlanWindow,
                 expectedNonce |-> executionNonce]
        quoteFloor == (quote * (BPS - policy.maxSlippageBps)) \div BPS
    IN  [sale EXCEPT !.minAmountOut = Max({OracleFloor(sale), quoteFloor})]

Ready(plan, quote) ==
    /\ plan.amountIn # 0
    /\ plan.minAmountOut > 0 /\ quote >= plan.minAmountOut
    /\ Drift([bal EXCEPT ![plan.tokenIn] = @ - plan.amountIn,
                         ![Other(plan.tokenIn)] = @ + plan.minAmountOut]) < Drift(bal)

\* The vault some seconds later, if nothing but the time has changed.
Later(seconds) == INSTANCE Vault WITH now <- now + seconds

\* What the planner calls READY the contract executes: with its floor paid, or
\* a quote that is no better than the oracle's prices (paying several times
\* those may overshoot the target, and reverts), by the owner or the operator,
\* at any second up to the deadline at which the prices are still fresh, across
\* a change of day as well.
ReadyPlansExecute ==
    Plannable => \A caller \in {Owner, Operator} : \A quote \in Outputs[Other(TokenIn)] :
        LET plan == Plan(caller, quote)
        IN  Ready(plan, quote) =>
                /\ plan.amountIn <= bal[plan.tokenIn]
                /\ Settled(plan, plan.amountIn, plan.minAmountOut)
                /\ Value(Other(plan.tokenIn), quote) <= Notional(plan) =>
                      Settled(plan, plan.amountIn, quote)
                /\ TowardTarget(plan)
                /\ plan.minAmountOut >= OracleFloor(plan)
                /\ \A seconds \in 0 .. PlanWindow :
                      (\A t \in Token : Later(seconds)!Fresh(t)) =>
                          /\ Later(seconds)!Authorized(plan)
                          /\ Later(seconds)!CooledDown
                          /\ Later(seconds)!WithinBudget(plan)
=============================================================================
