-------------------------------- MODULE Agent --------------------------------
(***************************************************************************)
(* The exchange agent: a run of live-runner.ts takes a goal, has it        *)
(* planned (agent.ts, or the planner process), gates the intent by policy  *)
(* (core.ts), places an order through the bridge process                   *)
(* (scripts/binance-codex-bridge.mjs) and seals a receipt.  The bridge     *)
(* starts one process per request; it answers lines in the order in which  *)
(* these end, and the runner matches lines to requests by order alone.     *)
(* A process that timed out may still act on the exchange.                 *)
(*                                                                         *)
(* Runs follow each other.  The account holds other orders too, and the    *)
(* answer to a query may name any of its orders (Foreign is one that no    *)
(* run asked for).                                                         *)
(*                                                                         *)
(* Assumed of what is behind the bridge, for the code does not enforce it: *)
(*   - a process calls the tool once at most, as its prompt asks (the      *)
(*     bridge would take the last of several calls);                       *)
(*   - a query is answered with an order of the account, not with one that *)
(*     the model behind the process makes up;                              *)
(*   - the order tool is the one that the bridge knows for a write         *)
(*     (BINANCE_MCP_ORDER_TOOL is not set to another);                     *)
(*   - no two runs start in the same second, which their ids come from.    *)
(***************************************************************************)
EXTENDS Integers, Sequences, FiniteSets

CONSTANTS
    Budget,       \* policy.maxNotionalQuote = policy.maxDailyNotionalQuote
    Slippage,     \* policy.maxSlippageBps
    MaxRuns       \* bound of the model: runs

ASSUME PolicyAssumption == Budget \in Nat \ {0} /\ Slippage \in Nat /\ MaxRuns \in Nat

VARIABLES
    run,          \* the run of live-runner.ts that is in progress, or the last one
    pending,      \* tools of the requests that no line has answered yet
    children,     \* the requests at the bridge, with the process it starts for each
    lines,        \* lines of the bridge under way to the runner
    orders,       \* orders of the account
    receipts      \* receipts printed

vars == <<run, pending, children, lines, orders, receipts>>

Tasks == 1 .. MaxRuns       \* taskId, which orders carry as clientOrderId
Foreign == 0
Symbols == {"BNBUSDT", "BTCUSDT"}
AllowedSymbols == {"BNBUSDT"}
Amounts == {Budget, Budget + 1}
Deviations == {Slippage, Slippage + 1}   \* bps between an order's price and the quote

Intent == [task : Tasks \cup {Foreign}, symbol : Symbols, notional : Amounts, slippage : Deviations]

\* consent (history): the run was confirmed and its bridge allowed writes.
Order == [task : Tasks \cup {Foreign}, symbol : Symbols, deviation : Deviations,
          quoteQty : Amounts \cup {2 * a : a \in Amounts},
          status : {"FILLED", "PARTIALLY_FILLED", "REJECTED"}, consent : BOOLEAN]
\* "requote" is the quote tool once more, see Gate.
Tools == {"account", "quote", "requote", "place", "order"}
Failed == "error"

NoIntent == [task |-> Foreign, symbol |-> "BNBUSDT", notional |-> Budget, slippage |-> Slippage]

\* The steps of a run; "planning" waits for the planner process.
Steps == {"ended", "account", "planning", "quote", "gate", "requote", "place", "order"}

-----------------------------------------------------------------------------
\* The runner.

\* Without a valid confirmation, write mode is refused.
Mode(write, confirm) ==
    IF ~write THEN "read-only" ELSE IF confirm THEN "write" ELSE "refused"

\* A request is one line to the bridge; the runner awaits its answer.
Request(tool, of) ==
    [tool |-> tool, task |-> of.task, intent |-> of.intent, state |-> "new",
     consent |-> of.mode = "write" /\ of.allowWrite]

Call(answered, tool) ==
    /\ pending' = Append(answered, tool)
    /\ children' = children \cup {Request(tool, run')}

\* A run starts; its first request reads the account.
Start(write, confirm, allowWrite) ==
    /\ run.step = "ended" /\ run.task < MaxRuns
    /\ run' = [task |-> run.task + 1, mode |-> Mode(write, confirm), allowWrite |-> allowWrite,
               step |-> IF Mode(write, confirm) = "refused" THEN "ended" ELSE "account",
               planner |-> "none", intent |-> NoIntent]
    /\ IF run'.step = "ended" THEN UNCHANGED <<pending, children>> ELSE Call(<<>>, "account")
    /\ lines' = <<>>
    /\ UNCHANGED <<orders, receipts>>

\* The error path: finally closes the bridge and no receipt is printed.
\* Processes that the bridge has started live on.
Fail ==
    /\ run' = [run EXCEPT !.step = "ended", !.planner = "none"]
    /\ pending' = <<>> /\ UNCHANGED <<children, receipts>>

\* A line answers the oldest request.
Line(step) ==
    /\ run.step = step /\ lines # <<>> /\ pending # <<>>
    /\ lines' = Tail(lines)
    /\ UNCHANGED orders

Answered == pending' = Tail(pending) /\ UNCHANGED children

AccountRead(usesPlanner) ==
    /\ Line("account")
    /\ IF Head(lines).value = Failed THEN Fail
       ELSE /\ run' = [run EXCEPT !.step = "planning",
                         !.planner = IF usesPlanner THEN "process" ELSE "planTradeGoal"]
            /\ Answered /\ UNCHANGED receipts

\* Faulty variant: the planner's word is taken for the task's identity.
ValidatePlanTrusting(intent) == TRUE

\* validatePlan: side, assets and numbers are well formed here; the identity is checked.
ValidatePlan(intent) == intent.task = run.task

\* The plan: an intent of the goal (planTradeGoal), or any that the planner's model returns.
Planned(intent) ==
    /\ run.step = "planning"
    /\ run.planner = "planTradeGoal" => intent.task = run.task /\ intent.slippage = Slippage
    /\ IF ValidatePlan(intent)
       THEN /\ run' = [run EXCEPT !.step = "quote", !.intent = intent, !.planner = "none"]
            /\ Call(pending, "quote") /\ UNCHANGED receipts
       ELSE Fail
    /\ UNCHANGED <<lines, orders>>

\* Faulty variant: the planner is waited for without a timer.
Patient == FALSE

\* The planner process fails, prints nothing, or its timer runs out; what it
\* prints later is ignored (settled).
PlannerTimer == run.planner = "process"

PlannerFails ==
    /\ run.step = "planning" /\ PlannerTimer
    /\ Fail /\ UNCHANGED <<lines, orders>>

QuoteRead ==
    /\ Line("quote")
    /\ IF Head(lines).value = Failed THEN Fail
       ELSE run' = [run EXCEPT !.step = "gate"] /\ Answered /\ UNCHANGED receipts

\* Faulty variant: the symbol that the planner chose is not looked at.
EvaluatePolicyLax(intent) == intent.notional <= Budget /\ intent.slippage <= Slippage

\* evaluatePolicy: no run is given what earlier runs spent (dailySpend = 0).
EvaluatePolicy(intent) ==
    /\ intent.symbol \in AllowedSymbols
    /\ intent.notional <= Budget
    /\ intent.slippage <= Slippage

\* Faulty variant: write mode is all the confirmation there is.
ConfirmedAnyhow == TRUE

Confirmed == run.mode = "write"

Seal(state) == receipts' = Append(receipts, [task |-> run.intent.task, state |-> state])

\* runAgentTask: the gate, then the order, at the quote that was read before;
\* if that quote is of another symbol, the exchange is asked once more.
Gate ==
    /\ run.step = "gate"
    /\ IF EvaluatePolicy(run.intent) /\ Confirmed
       THEN \E step \in {"place", "requote"} :
               run' = [run EXCEPT !.step = step] /\ Call(pending, step) /\ UNCHANGED receipts
       ELSE /\ run' = [run EXCEPT !.step = "ended"]
            /\ Seal("BLOCKED") /\ UNCHANGED <<pending, children>>
    /\ UNCHANGED <<lines, orders>>

Requoted ==
    /\ Line("requote")
    /\ IF Head(lines).value = Failed THEN Fail
       ELSE /\ run' = [run EXCEPT !.step = "place"]
            /\ Call(Tail(pending), "place") /\ UNCHANGED receipts

Placed ==
    /\ Line("place")
    /\ IF Head(lines).value = Failed THEN Fail
       ELSE /\ run' = [run EXCEPT !.step = "order"]
            /\ Call(Tail(pending), "order") /\ UNCHANGED receipts

\* Faulty variant: whatever order the query names is taken for the task's.
VerifyOrderUnbound(o) ==
    o.status = "FILLED" /\ o.quoteQty <= Budget /\ o.deviation <= Slippage

\* verifyOrder: the order that the exchange reports, not the one it was sent.
VerifyOrder(o) ==
    /\ o.status = "FILLED"
    /\ o.task = run.intent.task /\ o.symbol = run.intent.symbol
    /\ o.quoteQty <= Budget
    /\ o.deviation <= Slippage

OrderRead ==
    /\ Line("order")
    /\ IF Head(lines).value = Failed THEN Fail
       ELSE /\ run' = [run EXCEPT !.step = "ended"]
            /\ Seal(IF VerifyOrder(Head(lines).order) THEN "VERIFIED" ELSE "FROZEN")
            /\ Answered

-----------------------------------------------------------------------------
\* The bridge and the exchange.

\* Faulty variant: the opt-in of the bridge is not looked at.
AllowedAnyhow(c) == TRUE

Allows(c) == c.tool = "place" => run.allowWrite

Becomes(c, state) == children' = (children \ {c}) \cup {[c EXCEPT !.state = state]}

\* A line reaches the runner while its run goes on.
Emit(c, value, order) ==
    lines' = IF c.task = run.task /\ run.step # "ended"
             THEN Append(lines, [tool |-> c.tool, value |-> value, order |-> order]) ELSE lines

NoOrder == [task |-> Foreign, symbol |-> "BNBUSDT", deviation |-> Slippage, quoteQty |-> Budget,
            status |-> "REJECTED", consent |-> FALSE]

Error(c) == Emit(c, Failed, NoOrder)

\* runCodex: a write that is not allowed is refused, any other request gets a process.
Serve(c) ==
    /\ c.state = "new"
    /\ IF Allows(c) THEN Becomes(c, "running") /\ UNCHANGED lines
       ELSE Becomes(c, "ended") /\ Error(c)
    /\ UNCHANGED <<run, pending, orders, receipts>>

\* The tool call places the order: it fills in part, or not at all, or is
\* twice what was asked for.
Act(c) ==
    /\ c.tool = "place" /\ c.state \in {"running", "dying"}
    /\ \E qty \in {c.intent.notional, 2 * c.intent.notional}, deviation \in Deviations,
          status \in {"FILLED", "PARTIALLY_FILLED", "REJECTED"} :
          orders' = Append(orders, [task |-> c.intent.task, symbol |-> c.intent.symbol, quoteQty |-> qty,
                                    deviation |-> deviation, status |-> status, consent |-> c.consent])
    /\ Becomes(c, IF c.state = "running" THEN "acted" ELSE "ended")
    /\ UNCHANGED <<run, pending, lines, receipts>>

\* Faulty variant: a process that has timed out is answered for once more.
AnswersTwice(c) == {"running", "acted", "dying"}

\* One promise, one answer.
Answers(c) == {"running", "acted"}

\* The process ends with a result: a query's is one of the account's orders.  A
\* placement's may be words of the model alone, without a call of the tool.
Ends(c) ==
    /\ c.state \in Answers(c)
    /\ IF c.tool = "order"
       THEN \E i \in DOMAIN orders : orders[i].symbol = c.intent.symbol /\ Emit(c, "result", orders[i])
       ELSE Emit(c, "result", NoOrder)
    /\ Becomes(c, "ended")
    /\ UNCHANGED <<run, pending, orders, receipts>>

\* It fails, or the bridge's timer kills it, which it may survive for a while.
Breaks(c) ==
    /\ c.state \in {"running", "acted"}
    /\ Error(c)
    /\ Becomes(c, IF c.state = "running" THEN "dying" ELSE "ended")
    /\ UNCHANGED <<run, pending, orders, receipts>>

-----------------------------------------------------------------------------
Init ==
    /\ run = [task |-> 0, mode |-> "read-only", allowWrite |-> FALSE, step |-> "ended",
              planner |-> "none", intent |-> NoIntent]
    /\ pending = <<>> /\ children = {} /\ lines = <<>> /\ receipts = <<>>
    /\ orders \in {<<>>, <<[NoOrder EXCEPT !.status = "FILLED"]>>}

Read ==
    \/ \E usesPlanner \in BOOLEAN : AccountRead(usesPlanner)
    \/ QuoteRead \/ Requoted \/ Placed \/ OrderRead

Next ==
    \/ \E write, confirm, allowWrite \in BOOLEAN : Start(write, confirm, allowWrite)
    \/ Read \/ Gate \/ PlannerFails
    \/ \E intent \in Intent : Planned(intent)
    \/ \E c \in children : Serve(c) \/ Act(c) \/ Ends(c) \/ Breaks(c)

Spec == Init /\ [][Next]_vars

\* The runner and the bridge keep running, planTradeGoal returns, and both
\* processes have timers; that a process ever answers is not assumed.
Fairness ==
    /\ WF_vars(Read) /\ WF_vars(Gate) /\ WF_vars(PlannerFails)
    /\ WF_vars(run.planner = "planTradeGoal" /\ \E intent \in Intent : Planned(intent))
    /\ WF_vars(\E c \in children : Serve(c))
    /\ WF_vars(\E c \in children : c.task = run.task /\ Breaks(c))

FairSpec == Spec /\ Fairness

-----------------------------------------------------------------------------
Child == [tool : Tools, task : Tasks, intent : Intent, consent : BOOLEAN,
          state : {"new", "running", "acted", "dying", "ended"}]

\* Every variable keeps its type, and an intent that is acted on is this run's.
TypeOK ==
    /\ run \in [task : 0 .. MaxRuns, mode : {"read-only", "write", "refused"}, allowWrite : BOOLEAN,
                step : Steps, planner : {"none", "planTradeGoal", "process"}, intent : Intent]
    /\ pending \in Seq(Tools) /\ children \subseteq Child /\ orders \in Seq(Order)
    /\ lines \in Seq([tool : Tools, value : {"result", Failed}, order : Order])
    /\ receipts \in Seq([task : Tasks, state : {"VERIFIED", "BLOCKED", "FROZEN"}])
    /\ run.step \in {"quote", "gate", "requote", "place", "order"} => run.intent.task = run.task

\* The runner matches lines to requests by their order alone: each line under
\* way answers the request that it will be taken for, although a timeout and
\* the end of the process it killed both have something to say.
LinesMatch ==
    run.step # "ended" =>
        \A i \in DOMAIN lines : i <= Len(pending) /\ lines[i].tool = pending[i]

\* "Write mode requires both flags": whatever the planner returns, and whichever
\* processes outlive their timers, an order was confirmed and allowed, asked for
\* no more than policy allows (the exchange may double it), and is the only one
\* of its task, as long as a process calls the tool once.
OrdersAuthorized ==
    \A i \in DOMAIN orders :
        orders[i].task # Foreign =>
            /\ orders[i].consent
            /\ orders[i].symbol \in AllowedSymbols
            /\ orders[i].quoteQty \in {Budget, 2 * Budget}
            /\ \A k \in DOMAIN orders : orders[k].task = orders[i].task => k = i

\* A VERIFIED receipt is of an order of its own task that is filled within
\* policy, whatever order the exchange's answer names; after BLOCKED there is none.
ReceiptsTrue ==
    \A r \in DOMAIN receipts :
        LET own == {i \in DOMAIN orders : orders[i].task = receipts[r].task}
        IN  /\ receipts[r].state = "VERIFIED" =>
                  \E i \in own : /\ orders[i].status = "FILLED" /\ orders[i].quoteQty <= Budget
                                 /\ orders[i].deviation <= Slippage
            /\ receipts[r].state = "BLOCKED" => own = {}

\* Every run ends, with a receipt or an error, even if the planner or the
\* processes of the bridge never answer.
RunsEnd == run.step # "ended" ~> run.step = "ended"
=============================================================================
