---------------------------- MODULE AgentProofs ----------------------------
(***************************************************************************)
(* The exchange agent's promises for any policy and any number of runs.    *)
(*                                                                         *)
(* AgentInv is inductive because the runner waits: a run has at most one   *)
(* request that is not answered, it is the one of its step, and no run     *)
(* ends before its last request is answered (ChildOK).  So a line under    *)
(* way is the answer to the one pending request, and a process that        *)
(* outlives its timer belongs to a request whose policy check, consent and *)
(* lack of an order of its task were settled when it was asked.            *)
(***************************************************************************)
EXTENDS Agent, SequenceTheorems, TLAPS

RunRecord == [task : 0 .. MaxRuns, mode : {"read-only", "write", "refused"},
              allowWrite : BOOLEAN, step : Steps,
              planner : {"none", "planTradeGoal", "process"}, intent : Intent]
LineRecord == [tool : Tools, value : {"result", Failed}, order : Order]
Receipt == [task : Tasks, state : {"VERIFIED", "BLOCKED", "FROZEN"}]

Unanswered(c) == c.state \in {"new", "running", "acted"}

\* A run asks for each tool once, in order.
InOrder(c) ==
    /\ run.step \in {"account", "planning"} => c.tool = "account"
    /\ run.step \in {"quote", "gate"} => c.tool \in {"account", "quote"}
    /\ run.step = "requote" => c.tool \in {"account", "quote", "requote"}
    /\ run.step = "place" => c.tool # "order"

NoOrderOf(task) == \A i \in DOMAIN orders : orders[i].task # task

\* What was settled when an order was asked for.
PlaceOK(c) ==
    /\ c.intent.task = c.task /\ EvaluatePolicy(c.intent)
    /\ c.state = "new" /\ run.allowWrite => c.consent
    /\ c.state \in {"running", "dying"} => c.consent
    /\ c.state \in {"new", "running", "dying"} => NoOrderOf(c.task)

ChildOK(c) ==
    /\ c.task <= run.task
    /\ Unanswered(c) => c.task = run.task /\ c.tool = run.step /\ lines = <<>>
    /\ c.task = run.task => InOrder(c)
    /\ c.tool = "place" => PlaceOK(c)

ChildrenOK ==
    /\ \A c \in children : ChildOK(c)
    /\ \A c, d \in children : (c.task = d.task /\ c.tool = d.tool) => c = d

\* The runner waits for one answer at a time.
Waits ==
    run.step # "ended" =>
        /\ run.task \in Tasks
        /\ run.step \in Tools => pending = <<run.step>>
        /\ run.step \notin Tools => pending = <<>> /\ lines = <<>>
        /\ lines # <<>> =>
              /\ Len(lines) = 1 /\ lines[1].tool = run.step
              /\ (run.step = "order" /\ lines[1].value # Failed) =>
                    \E i \in DOMAIN orders : orders[i] = lines[1].order
        /\ run.step = "requote" => EvaluatePolicy(run.intent) /\ run.mode = "write"

Asked(task) == \E c \in children : c.tool = "place" /\ c.task = task

OrdersOK ==
    /\ OrdersAuthorized
    /\ \A i \in DOMAIN orders : orders[i].task # Foreign => Asked(orders[i].task)

Verified(task) ==
    \E i \in DOMAIN orders :
        /\ orders[i].task = task /\ orders[i].status = "FILLED"
        /\ orders[i].quoteQty <= Budget /\ orders[i].deviation <= Slippage

ReceiptOK(r) ==
    /\ r.task <= run.task
    /\ r.state = "VERIFIED" => Verified(r.task)
    /\ r.state = "BLOCKED" => ~Asked(r.task) /\ (r.task = run.task => run.step = "ended")

ReceiptsOK == \A r \in DOMAIN receipts : ReceiptOK(receipts[r])

AgentInv == TypeOK /\ ChildrenOK /\ Waits /\ OrdersOK /\ ReceiptsOK

-----------------------------------------------------------------------------
\* What the invariant says of one request or one line.

LEMMA TailOfOne ==
    ASSUME NEW S, NEW s \in Seq(S), Len(s) = 1
    PROVE  Tail(s) = <<>> /\ Head(s) = s[1] /\ s[1] \in S
<1>1. Tail(s) \in Seq(S) /\ Len(Tail(s)) = 0
  BY HeadTailProperties, EmptySeq
<1>2. Tail(s) = <<>>
  BY <1>1, EmptySeq
<1>3. 1 \in DOMAIN s
  OBVIOUS
<1>4. s[1] \in S
  BY <1>3
<1> QED BY <1>2, <1>4

\* The unanswered request is the one that the runner waits for.
LEMMA WaitedFor ==
    ASSUME AgentInv, NEW c \in children, Unanswered(c)
    PROVE  /\ c \in Child /\ c.task = run.task /\ c.tool = run.step /\ run.step # "ended"
           /\ lines = <<>>
           /\ \A d \in children : Unanswered(d) => d = c
<1>1. c \in Child /\ c.task = run.task /\ c.tool = run.step /\ lines = <<>>
  BY DEF AgentInv, TypeOK, ChildrenOK, ChildOK
<1>2. c.tool # "ended"
  BY <1>1 DEF Child, Tools
<1>3. ASSUME NEW d \in children, Unanswered(d) PROVE d = c
  <2>1. d.task = run.task /\ d.tool = run.step
    BY <1>3 DEF AgentInv, ChildrenOK, ChildOK
  <2> QED BY <1>1, <2>1 DEF AgentInv, ChildrenOK
<1> QED BY <1>1, <1>2, <1>3

\* A line is the answer to the runner's request, and nothing else is open.
LEMMA LineIs ==
    ASSUME AgentInv, NEW step \in Tools, Line(step)
    PROVE  /\ run.step = step /\ run.task \in Tasks /\ Tail(pending) = <<>> /\ lines' = <<>>
           /\ Head(lines) \in LineRecord /\ UNCHANGED orders
           /\ \A c \in children : ~Unanswered(c)
           /\ (step = "order" /\ Head(lines).value # Failed) =>
                 \E i \in DOMAIN orders : orders[i] = Head(lines).order
<1>1. /\ run.step = step /\ lines # <<>> /\ UNCHANGED orders /\ lines' = Tail(lines)
      /\ step # "ended" /\ lines \in Seq(LineRecord)
  BY DEF AgentInv, TypeOK, Line, Tools, LineRecord
<1>2. /\ run.task \in Tasks /\ pending = <<step>> /\ Len(lines) = 1
      /\ (step = "order" /\ lines[1].value # Failed) =>
             \E i \in DOMAIN orders : orders[i] = lines[1].order
  BY <1>1 DEF AgentInv, Waits
<1>3. Tail(lines) = <<>> /\ Head(lines) = lines[1] /\ lines[1] \in LineRecord
  BY <1>1, <1>2, TailOfOne, Zenon
<1>4. Tail(pending) = <<>>
  <2>1. pending \in Seq(Tools) /\ Len(pending) = 1
    BY <1>2
  <2> QED BY <2>1, TailOfOne, Zenon
<1>5. \A c \in children : ~Unanswered(c)
  BY <1>1 DEF AgentInv, ChildrenOK, ChildOK
<1>6. (step = "order" /\ Head(lines).value # Failed) =>
         \E i \in DOMAIN orders : orders[i] = Head(lines).order
  BY <1>2, <1>3
<1>7. lines' = <<>>
  BY <1>1, <1>3
<1> QED BY <1>1, <1>2, <1>3, <1>4, <1>5, <1>6, <1>7, Zenon

\* While the planner is at work, no request is open.
LEMMA NothingOpen ==
    ASSUME AgentInv, run.step \in {"planning", "gate"}
    PROVE  /\ pending = <<>> /\ lines = <<>> /\ run.task \in Tasks
           /\ \A c \in children : ~Unanswered(c)
<1>1. run.step # "ended" /\ run.step \notin Tools
  BY DEF Tools
<1>2. \A c \in children : c.tool \in Tools
  BY DEF AgentInv, TypeOK, Child
<1> QED BY <1>1, <1>2 DEF AgentInv, Waits, ChildrenOK, ChildOK

-----------------------------------------------------------------------------
\* Steps of the runner.

\* A step that asks nothing: the run plans, gates or ends.
LEMMA QuietStep ==
    ASSUME AgentInv, NEW s \in RunRecord, run' = s, UNCHANGED <<children, orders>>,
           \A c \in children : ~Unanswered(c), lines' = <<>>, pending' \in Seq(Tools),
           s.task = run.task, s.step \in {"planning", "gate", "ended"},
           s.step # "ended" => s.task \in Tasks /\ pending' = <<>>,
           s.step = "planning" => run.step = "account",
           s.step = "gate" => run.step = "quote" /\ s.intent.task = s.task,
           receipts' \in Seq(Receipt), ReceiptsOK'
    PROVE  AgentInv'
<1>1. TypeOK /\ ChildrenOK /\ OrdersOK
  BY DEF AgentInv
<1>2. TypeOK'
  BY <1>1 DEF TypeOK, RunRecord, LineRecord, Receipt, Steps
<1>3. ChildrenOK'
  <2>1. ASSUME NEW c \in children PROVE ChildOK(c)'
    <3>1. ChildOK(c) /\ ~Unanswered(c)
      BY <1>1 DEF ChildrenOK
    <3>2. c.task = s.task => InOrder(c)'
      BY <3>1 DEF ChildOK, InOrder
    <3>3. c.tool = "place" => PlaceOK(c)'
      BY <3>1 DEF ChildOK, PlaceOK, NoOrderOf, Unanswered, EvaluatePolicy
    <3> QED BY <3>1, <3>2, <3>3 DEF ChildOK, Unanswered
  <2> QED BY <1>1, <2>1 DEF ChildrenOK
<1>4. Waits'
  BY DEF Waits, Tools
<1>5. OrdersOK'
  BY <1>1 DEF OrdersOK, OrdersAuthorized, Asked
<1> QED BY <1>2, <1>3, <1>4, <1>5 DEF AgentInv

\* Receipts say no more than before while orders stay and requests grow no order.
LEMMA ReceiptsStay ==
    ASSUME AgentInv, UNCHANGED <<receipts, orders, children>>, run'.task = run.task,
           run'.step = "ended" \/ run.step # "ended"
    PROVE  ReceiptsOK'
<1>1. ASSUME NEW r \in DOMAIN receipts PROVE ReceiptOK(receipts[r])'
  <2>1. ReceiptOK(receipts[r])
    BY DEF AgentInv, ReceiptsOK
  <2> QED BY <2>1 DEF ReceiptOK, Verified, Asked
<1> QED BY <1>1 DEF ReceiptsOK

\* The error path: nothing is open that could still be answered.
LEMMA FailStep ==
    ASSUME AgentInv, Fail, lines' = <<>>, UNCHANGED orders,
           \A c \in children : ~Unanswered(c)
    PROVE  AgentInv'
<1> DEFINE s == [run EXCEPT !.step = "ended", !.planner = "none"]
<1>1. run \in RunRecord
  BY DEF AgentInv, TypeOK, RunRecord
<1>2. s \in RunRecord /\ s.step = "ended" /\ s.task = run.task
  BY <1>1 DEF RunRecord, Steps
<1>3. run' = s /\ pending' = <<>> /\ UNCHANGED <<children, receipts>>
  BY DEF Fail
<1> HIDE DEF s
<1>4. ReceiptsOK'
  BY <1>2, <1>3, ReceiptsStay
<1>5. pending' \in Seq(Tools) /\ receipts' \in Seq(Receipt)
  BY <1>3 DEF AgentInv, TypeOK, Receipt
<1> QED BY <1>2, <1>3, <1>4, <1>5, QuietStep

LEMMA RequestIs ==
    ASSUME NEW s \in RunRecord, s.task \in Tasks, NEW tool \in Tools
    PROVE  LET c == Request(tool, s)
           IN  /\ c \in Child /\ c.tool = tool /\ c.task = s.task /\ c.intent = s.intent
               /\ c.state = "new"
               /\ (s.mode = "write" /\ s.allowWrite) => c.consent
<1> DEFINE consent == s.mode = "write" /\ s.allowWrite
<1>1. consent \in BOOLEAN /\ ((s.mode = "write" /\ s.allowWrite) => consent)
  OBVIOUS
<1>2. Request(tool, s) = [tool |-> tool, task |-> s.task, intent |-> s.intent, state |-> "new",
                          consent |-> consent]
  BY DEF Request
<1> HIDE DEF consent
<1> QED BY <1>1, <1>2 DEF RunRecord, Child

\* A step that asks: of a run's requests this is the next one.
LEMMA RequestStep ==
    ASSUME AgentInv, NEW s \in RunRecord, run' = s, s.task \in Tasks, s.step \in Tools,
           \/ s.task = run.task /\ run.step # "ended"
           \/ s.task = run.task + 1,
           s.step # "account" => s.intent.task = s.task,
           s.step \in {"requote", "place"} => EvaluatePolicy(s.intent) /\ s.mode = "write",
           children' = children \cup {Request(s.step, s)}, pending' = <<s.step>>, lines' = <<>>,
           UNCHANGED <<orders, receipts>>,
           \A c \in children : ~Unanswered(c),
           \A c \in children : c.task = s.task =>
               /\ s.step # "account"
               /\ s.step = "quote" => c.tool = "account"
               /\ s.step = "requote" => c.tool \in {"account", "quote"}
               /\ s.step = "place" => c.tool \in {"account", "quote", "requote"}
               /\ s.step = "order" => c.tool # "order"
    PROVE  AgentInv'
<1> DEFINE new == Request(s.step, s)
<1>1. TypeOK /\ ChildrenOK /\ OrdersOK /\ ReceiptsOK /\ run.task \in Int /\ run.task <= s.task
  <2>1. run.task \in Int /\ s.task \in Int
    BY PolicyAssumption DEF AgentInv, TypeOK, Tasks
  <2> QED BY <2>1 DEF AgentInv
<1>2. /\ new \in Child /\ new.tool = s.step /\ new.task = s.task /\ new.intent = s.intent
      /\ new.state = "new"
      /\ (s.mode = "write" /\ s.allowWrite) => new.consent
  BY RequestIs
<1>3. children' = children \cup {new}
  OBVIOUS
<1> HIDE DEF new
<1>4. s.step # "ended" /\ s.step \notin {"planning", "gate"}
  BY DEF Tools
<1>5. TypeOK'
  <2>1. pending' \in Seq(Tools) /\ children' \subseteq Child /\ lines' \in Seq(LineRecord)
    BY <1>1, <1>2, <1>3 DEF TypeOK
  <2>2. s.step \in {"quote", "gate", "requote", "place", "order"} => s.intent.task = s.task
    BY DEF Tools
  <2> QED BY <1>1, <2>1, <2>2 DEF TypeOK, RunRecord, LineRecord
<1>6. ASSUME NEW c \in children PROVE ChildOK(c)'
  <2>1. ChildOK(c) /\ ~Unanswered(c) /\ c \in Child
    BY <1>1 DEF ChildrenOK, TypeOK
  <2>2. c.task <= s.task
    BY <1>1, <2>1, PolicyAssumption DEF ChildOK, Child, Tasks
  <2>3. c.task = s.task => InOrder(c)'
    BY <1>4 DEF InOrder
  <2>4. c.tool = "place" => PlaceOK(c)'
    BY <2>1 DEF ChildOK, PlaceOK, NoOrderOf, Unanswered, EvaluatePolicy
  <2> QED BY <2>1, <2>2, <2>3, <2>4 DEF ChildOK, Unanswered
<1>7. ChildOK(new)'
  <2>1. new.task <= s.task
    BY <1>2, PolicyAssumption DEF Tasks
  <2>2. InOrder(new)'
    BY <1>2, <1>4 DEF InOrder
  <2>3. new.tool = "place" => PlaceOK(new)'
    <3>1. SUFFICES ASSUME s.step = "place" PROVE PlaceOK(new)'
      BY <1>2
    <3>2. ASSUME NEW i \in DOMAIN orders PROVE orders[i].task # s.task
      <4>1. s.task # Foreign
        BY DEF Tasks, Foreign
      <4>2. ~Asked(s.task)
        BY <3>1 DEF Asked
      <4> QED BY <1>1, <4>1, <4>2 DEF OrdersOK
    <3>3. NoOrderOf(new.task)'
      BY <1>2, <3>2 DEF NoOrderOf
    <3>4. EvaluatePolicy(new.intent)' /\ new.intent.task = new.task
      BY <1>2, <3>1 DEF EvaluatePolicy
    <3> QED BY <1>2, <3>1, <3>3, <3>4 DEF PlaceOK
  <2> QED BY <1>2, <2>1, <2>2, <2>3 DEF ChildOK
<1>8. ChildrenOK'
  <2>1. ASSUME NEW c \in children, c.task = new.task, c.tool = new.tool PROVE FALSE
    BY <1>2, <2>1 DEF Tools
  <2> QED BY <1>1, <1>3, <1>6, <1>7, <2>1 DEF ChildrenOK
<1>9. Waits'
  BY <1>4 DEF Waits, EvaluatePolicy
<1>10. OrdersOK'
  BY <1>1, <1>3 DEF OrdersOK, OrdersAuthorized, Asked
<1>11. ReceiptsOK'
  <2>1. ASSUME NEW r \in DOMAIN receipts PROVE ReceiptOK(receipts[r])'
    <3> DEFINE t == receipts[r].task
    <3>1. ReceiptOK(receipts[r]) /\ t \in Tasks /\ t \in Int
      <4>1. receipts \in Seq(Receipt) /\ r \in 1 .. Len(receipts)
        BY <1>1 DEF TypeOK, Receipt
      <4>2. receipts[r] \in Receipt
        BY <4>1
      <4> QED BY <1>1, <4>2 DEF ReceiptsOK, Receipt, Tasks
    <3>2. t <= s.task
      BY <1>1, <3>1, PolicyAssumption DEF ReceiptOK, Tasks
    <3>3. receipts[r].state = "BLOCKED" => t # s.task
      BY <1>1, <3>1, PolicyAssumption DEF ReceiptOK, Tasks
    <3>4. receipts[r].state = "BLOCKED" => ~Asked(t)'
      BY <1>2, <1>3, <3>1, <3>3 DEF ReceiptOK, Asked
    <3>5. receipts[r].state = "VERIFIED" => Verified(t)'
      BY <3>1 DEF ReceiptOK, Verified
    <3> QED BY <3>2, <3>3, <3>4, <3>5 DEF ReceiptOK, Verified, Asked
  <2> QED BY <2>1 DEF ReceiptsOK
<1> QED BY <1>5, <1>8, <1>9, <1>10, <1>11 DEF AgentInv

-----------------------------------------------------------------------------
\* The runner, step by step.

LEMMA StartStep ==
    ASSUME AgentInv, NEW write \in BOOLEAN, NEW confirm \in BOOLEAN, NEW allowWrite \in BOOLEAN,
           Start(write, confirm, allowWrite)
    PROVE  AgentInv'
<1>1. /\ TypeOK /\ ChildrenOK /\ run \in RunRecord /\ run.step = "ended" /\ run.task < MaxRuns
      /\ lines' = <<>> /\ UNCHANGED <<orders, receipts>>
  BY DEF AgentInv, TypeOK, RunRecord, Start
<1>2. run.task + 1 \in Tasks /\ run.task + 1 \in 0 .. MaxRuns /\ run.task \in Int
  BY <1>1, PolicyAssumption DEF RunRecord, Tasks
<1>3. \A c \in children : ~Unanswered(c) /\ c.task # run.task + 1
  BY <1>1, <1>2, WaitedFor, PolicyAssumption DEF ChildrenOK, ChildOK, TypeOK, Child, Tasks
<1>4. Mode(write, confirm) \in {"read-only", "write", "refused"} /\ NoIntent \in Intent
  BY PolicyAssumption DEF Mode, NoIntent, Intent, Symbols, Amounts, Deviations
<1>5. CASE Mode(write, confirm) # "refused"
  <2> DEFINE s == [task |-> run.task + 1, mode |-> Mode(write, confirm), allowWrite |-> allowWrite,
                   step |-> "account", planner |-> "none", intent |-> NoIntent]
  <2>1. run' = s /\ pending' = <<"account">> /\ children' = children \cup {Request("account", s)}
    BY <1>5 DEF Start, Call
  <2>2. s \in RunRecord /\ s.task = run.task + 1 /\ s.step = "account"
    BY <1>2, <1>4 DEF RunRecord, Steps
  <2> HIDE DEF s
  <2>3. s.step \in Tools
    BY <2>2 DEF Tools
  <2> QED BY <1>1, <1>2, <1>3, <2>1, <2>2, <2>3, RequestStep
<1>6. CASE Mode(write, confirm) = "refused"
  <2> DEFINE s == [task |-> run.task + 1, mode |-> Mode(write, confirm), allowWrite |-> allowWrite,
                   step |-> "ended", planner |-> "none", intent |-> NoIntent]
  <2>1. run' = s /\ UNCHANGED <<pending, children>>
    BY <1>6 DEF Start
  <2>2. s \in RunRecord /\ s.task = run.task + 1 /\ s.step = "ended"
    BY <1>2, <1>4 DEF RunRecord, Steps
  <2> HIDE DEF s
  <2>3. TypeOK'
    BY <1>1, <2>1, <2>2 DEF TypeOK, RunRecord, LineRecord
  <2>4. ChildrenOK'
    <3>1. ASSUME NEW c \in children PROVE ChildOK(c)'
      <4>1. ChildOK(c) /\ ~Unanswered(c) /\ c.task # s.task /\ c.task <= s.task
        BY <1>1, <1>2, <1>3, <2>2, PolicyAssumption DEF ChildrenOK, ChildOK, TypeOK, Child, Tasks
      <4>2. c.tool = "place" => PlaceOK(c)'
        BY <1>1, <4>1 DEF ChildOK, PlaceOK, NoOrderOf, Unanswered, EvaluatePolicy
      <4> QED BY <2>1, <4>1, <4>2 DEF ChildOK, Unanswered
    <3> QED BY <1>1, <2>1, <3>1 DEF ChildrenOK
  <2>5. Waits' /\ OrdersOK'
    BY <1>1, <2>1, <2>2 DEF AgentInv, Waits, OrdersOK, OrdersAuthorized, Asked
  <2>6. ReceiptsOK'
    <3>1. ASSUME NEW r \in DOMAIN receipts PROVE ReceiptOK(receipts[r])'
      <4>1. receipts \in Seq(Receipt) /\ r \in 1 .. Len(receipts) /\ ReceiptOK(receipts[r])
        BY <1>1 DEF AgentInv, TypeOK, Receipt, ReceiptsOK
      <4>2. receipts[r] \in Receipt
        BY <4>1
      <4>3. receipts[r].task <= s.task
        BY <1>2, <2>2, <4>1, <4>2, PolicyAssumption DEF ReceiptOK, Receipt, Tasks
      <4> QED BY <1>1, <2>1, <2>2, <4>1, <4>3 DEF ReceiptOK, Verified, Asked
    <3> QED BY <1>1, <3>1 DEF ReceiptsOK
  <2> QED BY <2>3, <2>4, <2>5, <2>6 DEF AgentInv
<1> QED BY <1>5, <1>6

LEMMA AccountReadStep ==
    ASSUME AgentInv, NEW usesPlanner \in BOOLEAN, AccountRead(usesPlanner)
    PROVE  AgentInv'
<1>1. /\ run.step = "account" /\ run.task \in Tasks /\ Tail(pending) = <<>> /\ lines' = <<>>
      /\ UNCHANGED orders /\ \A c \in children : ~Unanswered(c)
  BY LineIs DEF AccountRead, Tools
<1>2. CASE Head(lines).value = Failed
  BY <1>1, <1>2, FailStep DEF AccountRead
<1>3. CASE Head(lines).value # Failed
  <2> DEFINE kind == IF usesPlanner THEN "process" ELSE "planTradeGoal"
             s == [run EXCEPT !.step = "planning", !.planner = kind]
  <2>1. run' = s /\ pending' = <<>> /\ UNCHANGED <<children, receipts>>
    BY <1>1, <1>3 DEF AccountRead, Answered
  <2>2. run \in RunRecord /\ receipts \in Seq(Receipt)
    BY DEF AgentInv, TypeOK, RunRecord, Receipt
  <2>3. s \in RunRecord /\ s.step = "planning" /\ s.task = run.task
    BY <2>2 DEF RunRecord, Steps
  <2> HIDE DEF s
  <2>4. ReceiptsOK'
    BY <1>1, <2>1, <2>3, ReceiptsStay
  <2> QED BY <1>1, <2>1, <2>2, <2>3, <2>4, QuietStep
<1> QED BY <1>2, <1>3

LEMMA PlannedStep ==
    ASSUME AgentInv, NEW intent \in Intent, Planned(intent)
    PROVE  AgentInv'
<1>1. /\ run.step = "planning" /\ run.task \in Tasks /\ pending = <<>> /\ lines = <<>>
      /\ UNCHANGED <<lines, orders>> /\ \A c \in children : ~Unanswered(c)
  BY NothingOpen DEF Planned
<1>2. CASE ~ValidatePlan(intent)
  BY <1>1, <1>2, FailStep DEF Planned
<1>3. CASE ValidatePlan(intent)
  <2> DEFINE s == [run EXCEPT !.step = "quote", !.intent = intent, !.planner = "none"]
  <2>1. /\ run' = s /\ pending' = <<"quote">> /\ UNCHANGED receipts
        /\ children' = children \cup {Request("quote", s)}
    BY <1>1, <1>3 DEF Planned, Call
  <2>2. run \in RunRecord /\ \A c \in children : c.task = run.task => c.tool = "account"
    BY <1>1 DEF AgentInv, TypeOK, RunRecord, ChildrenOK, ChildOK, InOrder
  <2>3. s \in RunRecord /\ s.step = "quote" /\ s.task = run.task /\ s.intent = intent
    BY <2>2 DEF RunRecord, Steps
  <2> HIDE DEF s
  <2>4. s.step \in Tools /\ intent.task = s.task
    BY <1>3, <2>3 DEF Tools, ValidatePlan
  <2> QED BY <1>1, <2>1, <2>2, <2>3, <2>4, RequestStep
<1> QED BY <1>2, <1>3

LEMMA PlannerFailsStep ==
    ASSUME AgentInv, PlannerFails
    PROVE  AgentInv'
<1>1. /\ run.step = "planning" /\ lines = <<>> /\ UNCHANGED <<lines, orders>> /\ Fail
      /\ \A c \in children : ~Unanswered(c)
  BY NothingOpen DEF PlannerFails
<1> QED BY <1>1, FailStep

LEMMA QuoteReadStep ==
    ASSUME AgentInv, QuoteRead
    PROVE  AgentInv'
<1>1. /\ run.step = "quote" /\ run.task \in Tasks /\ Tail(pending) = <<>> /\ lines' = <<>>
      /\ UNCHANGED orders /\ \A c \in children : ~Unanswered(c)
  BY LineIs DEF QuoteRead, Tools
<1>2. CASE Head(lines).value = Failed
  BY <1>1, <1>2, FailStep DEF QuoteRead
<1>3. CASE Head(lines).value # Failed
  <2> DEFINE s == [run EXCEPT !.step = "gate"]
  <2>1. run' = s /\ pending' = <<>> /\ UNCHANGED <<children, receipts>>
    BY <1>1, <1>3 DEF QuoteRead, Answered
  <2>2. run \in RunRecord /\ receipts \in Seq(Receipt) /\ run.intent.task = run.task
    BY <1>1 DEF AgentInv, TypeOK, RunRecord, Receipt
  <2>3. s \in RunRecord /\ s.step = "gate" /\ s.task = run.task /\ s.intent = run.intent
    BY <2>2 DEF RunRecord, Steps
  <2> HIDE DEF s
  <2>4. ReceiptsOK'
    BY <1>1, <2>1, <2>3, ReceiptsStay
  <2> QED BY <1>1, <2>1, <2>2, <2>3, <2>4, QuietStep
<1> QED BY <1>2, <1>3

\* A run ends with a receipt that is true.
LEMMA SealIs ==
    ASSUME AgentInv, NEW x \in Receipt, receipts' = Append(receipts, x),
           run'.task = run.task, run'.step = "ended", UNCHANGED <<orders, children>>,
           x.task = run.task, x.state = "VERIFIED" => Verified(x.task),
           x.state = "BLOCKED" => ~Asked(x.task)
    PROVE  receipts' \in Seq(Receipt) /\ ReceiptsOK'
<1> DEFINE n == Len(receipts) + 1
<1>1. receipts \in Seq(Receipt)
  BY DEF AgentInv, TypeOK, Receipt
<1>2. /\ receipts' \in Seq(Receipt) /\ DOMAIN receipts' = DOMAIN receipts \cup {n}
      /\ receipts'[n] = x /\ \A r \in DOMAIN receipts : receipts'[r] = receipts[r]
  BY <1>1
<1> HIDE DEF n
<1>3. ASSUME NEW r \in DOMAIN receipts PROVE ReceiptOK(receipts[r])'
  <2>1. ReceiptOK(receipts[r]) /\ receipts'[r] = receipts[r]
    BY <1>2 DEF AgentInv, ReceiptsOK
  <2> QED BY <2>1 DEF ReceiptOK, Verified, Asked
<1>4. x.task <= run.task
  BY PolicyAssumption DEF Receipt, Tasks
<1>5. ASSUME NEW r \in DOMAIN receipts', r = n PROVE ReceiptOK(receipts[r])'
  BY <1>2, <1>4, <1>5 DEF ReceiptOK, Verified, Asked
<1> QED BY <1>2, <1>3, <1>5 DEF ReceiptsOK

LEMMA GateStep ==
    ASSUME AgentInv, Gate
    PROVE  AgentInv'
<1>1. /\ run.step = "gate" /\ run.task \in Tasks /\ pending = <<>> /\ lines = <<>>
      /\ UNCHANGED <<lines, orders>> /\ \A c \in children : ~Unanswered(c)
  BY NothingOpen DEF Gate
<1>2. /\ run \in RunRecord /\ run.intent.task = run.task
      /\ \A c \in children : c.task = run.task => c.tool \in {"account", "quote"}
  BY <1>1 DEF AgentInv, TypeOK, RunRecord, ChildrenOK, ChildOK, InOrder
<1>3. CASE EvaluatePolicy(run.intent) /\ Confirmed
  <2>1. PICK step \in {"place", "requote"} :
               run' = [run EXCEPT !.step = step] /\ Call(pending, step) /\ UNCHANGED receipts
    BY <1>3 DEF Gate
  <2> DEFINE s == [run EXCEPT !.step = step]
  <2>2. /\ run' = s /\ pending' = <<step>> /\ UNCHANGED receipts
        /\ children' = children \cup {Request(step, s)}
    BY <1>1, <2>1 DEF Call
  <2>3. s \in RunRecord /\ s.step = step /\ s.task = run.task /\ s.intent = run.intent
        /\ s.mode = "write"
    BY <1>2, <1>3 DEF RunRecord, Steps, Confirmed
  <2> HIDE DEF s
  <2>4. s.step \in Tools
    BY <2>3 DEF Tools
  <2>5. EvaluatePolicy(s.intent)
    BY <1>3, <2>3
  <2> QED BY <1>1, <1>2, <2>2, <2>3, <2>4, <2>5, RequestStep
<1>4. CASE ~(EvaluatePolicy(run.intent) /\ Confirmed)
  <2> DEFINE s == [run EXCEPT !.step = "ended"]
             x == [task |-> run.intent.task, state |-> "BLOCKED"]
  <2>1. run' = s /\ receipts' = Append(receipts, x) /\ UNCHANGED <<pending, children>>
    BY <1>4 DEF Gate, Seal
  <2>2. s \in RunRecord /\ s.step = "ended" /\ s.task = run.task
    BY <1>2 DEF RunRecord, Steps
  <2>3. x \in Receipt /\ x.task = run.task /\ x.state = "BLOCKED" /\ ~Asked(run.task)
    BY <1>1, <1>2 DEF Receipt, Asked
  <2> HIDE DEF s, x
  <2>4. receipts' \in Seq(Receipt) /\ ReceiptsOK'
    BY <1>1, <2>1, <2>2, <2>3, SealIs
  <2> QED BY <1>1, <2>1, <2>2, <2>4, QuietStep
<1> QED BY <1>3, <1>4

\* The second quote changes nothing of what the gate let pass.
LEMMA RequotedStep ==
    ASSUME AgentInv, Requoted
    PROVE  AgentInv'
<1>1. /\ run.step = "requote" /\ run.task \in Tasks /\ Tail(pending) = <<>> /\ lines' = <<>>
      /\ UNCHANGED orders /\ \A c \in children : ~Unanswered(c)
  BY LineIs DEF Requoted, Tools
<1>2. CASE Head(lines).value = Failed
  BY <1>1, <1>2, FailStep DEF Requoted
<1>3. CASE Head(lines).value # Failed
  <2> DEFINE s == [run EXCEPT !.step = "place"]
  <2>1. /\ run' = s /\ pending' = <<"place">> /\ UNCHANGED receipts
        /\ children' = children \cup {Request("place", s)}
    BY <1>1, <1>3 DEF Requoted, Call
  <2>2. /\ run \in RunRecord /\ run.intent.task = run.task
        /\ \A c \in children : c.task = run.task => c.tool \in {"account", "quote", "requote"}
        /\ EvaluatePolicy(run.intent) /\ run.mode = "write"
    BY <1>1 DEF AgentInv, TypeOK, RunRecord, ChildrenOK, ChildOK, InOrder, Waits
  <2>3. /\ s \in RunRecord /\ s.step = "place" /\ s.task = run.task /\ s.intent = run.intent
        /\ s.mode = "write"
    BY <2>2 DEF RunRecord, Steps
  <2> HIDE DEF s
  <2>4. s.step \in Tools /\ EvaluatePolicy(s.intent)
    BY <2>2, <2>3 DEF Tools
  <2> QED BY <1>1, <2>1, <2>2, <2>3, <2>4, RequestStep
<1> QED BY <1>2, <1>3

LEMMA PlacedStep ==
    ASSUME AgentInv, Placed
    PROVE  AgentInv'
<1>1. /\ run.step = "place" /\ run.task \in Tasks /\ Tail(pending) = <<>> /\ lines' = <<>>
      /\ UNCHANGED orders /\ \A c \in children : ~Unanswered(c)
  BY LineIs DEF Placed, Tools
<1>2. CASE Head(lines).value = Failed
  BY <1>1, <1>2, FailStep DEF Placed
<1>3. CASE Head(lines).value # Failed
  <2> DEFINE s == [run EXCEPT !.step = "order"]
  <2>1. /\ run' = s /\ pending' = <<"order">> /\ UNCHANGED receipts
        /\ children' = children \cup {Request("order", s)}
    BY <1>1, <1>3 DEF Placed, Call
  <2>2. /\ run \in RunRecord /\ run.intent.task = run.task
        /\ \A c \in children : c.task = run.task => c.tool # "order"
    BY <1>1 DEF AgentInv, TypeOK, RunRecord, ChildrenOK, ChildOK, InOrder
  <2>3. s \in RunRecord /\ s.step = "order" /\ s.task = run.task /\ s.intent = run.intent
    BY <2>2 DEF RunRecord, Steps
  <2> HIDE DEF s
  <2>4. s.step \in Tools
    BY <2>3 DEF Tools
  <2> QED BY <1>1, <2>1, <2>2, <2>3, <2>4, RequestStep
<1> QED BY <1>2, <1>3

\* The receipt is of the order that the exchange's answer names.
LEMMA OrderReadStep ==
    ASSUME AgentInv, OrderRead
    PROVE  AgentInv'
<1>1. /\ run.step = "order" /\ run.task \in Tasks /\ Tail(pending) = <<>> /\ lines' = <<>>
      /\ UNCHANGED orders /\ \A c \in children : ~Unanswered(c)
      /\ Head(lines).value # Failed => \E i \in DOMAIN orders : orders[i] = Head(lines).order
  BY LineIs DEF OrderRead, Tools
<1>2. CASE Head(lines).value = Failed
  BY <1>1, <1>2, FailStep DEF OrderRead
<1>3. CASE Head(lines).value # Failed
  <2> DEFINE s == [run EXCEPT !.step = "ended"]
             state == IF VerifyOrder(Head(lines).order) THEN "VERIFIED" ELSE "FROZEN"
             x == [task |-> run.intent.task, state |-> state]
  <2>1. run' = s /\ receipts' = Append(receipts, x) /\ pending' = <<>> /\ UNCHANGED children
    BY <1>1, <1>3 DEF OrderRead, Seal, Answered
  <2>2. run \in RunRecord /\ run.intent.task = run.task
    BY <1>1 DEF AgentInv, TypeOK, RunRecord
  <2>3. s \in RunRecord /\ s.step = "ended" /\ s.task = run.task
    BY <2>2 DEF RunRecord, Steps
  <2>4. state \in {"VERIFIED", "FROZEN"}
    OBVIOUS
  <2>5. state = "VERIFIED" => Verified(run.task)
    BY <1>1, <1>3, <2>2 DEF VerifyOrder, Verified
  <2> HIDE DEF s, state
  <2>6. x \in Receipt /\ x.task = run.task /\ x.state = state
    BY <1>1, <2>2, <2>4 DEF Receipt
  <2> HIDE DEF x
  <2>7. receipts' \in Seq(Receipt) /\ ReceiptsOK'
    BY <1>1, <2>1, <2>3, <2>4, <2>5, <2>6, SealIs
  <2> QED BY <1>1, <2>1, <2>3, <2>7, QuietStep
<1> QED BY <1>2, <1>3

-----------------------------------------------------------------------------
\* The bridge and the exchange, step by step.

LEMMA BecomesIs ==
    ASSUME AgentInv, NEW c \in children,
           NEW state \in {"new", "running", "acted", "dying", "ended"}
    PROVE  LET d == [c EXCEPT !.state = state]
           IN  /\ c \in Child /\ d \in Child /\ d.tool = c.tool /\ d.task = c.task
               /\ d.intent = c.intent /\ d.consent = c.consent /\ d.state = state
<1>1. c \in Child
  BY DEF AgentInv, TypeOK
<1> QED BY <1>1 DEF Child

\* A request's process moves on, and orders are at most added.
LEMMA ChildStep ==
    ASSUME AgentInv, NEW c \in children, NEW d \in Child,
           d.tool = c.tool, d.task = c.task, d.intent = c.intent, d.consent = c.consent,
           children' = (children \ {c}) \cup {d}, UNCHANGED <<run, pending, receipts>>,
           lines' \in Seq(LineRecord), Waits', orders' \in Seq(Order), OrdersAuthorized',
           \A i \in DOMAIN orders : i \in DOMAIN orders' /\ orders'[i] = orders[i],
           \A i \in DOMAIN orders' : i \in DOMAIN orders \/ orders'[i].task = c.task,
           orders' = orders \/ c.tool = "place",
           \A e \in children : (e # c /\ Unanswered(e)) => lines' = <<>>,
           Unanswered(d) => Unanswered(c) /\ lines' = <<>>,
           c.tool = "place" => PlaceOK(d)'
    PROVE  AgentInv'
<1>1. TypeOK /\ ChildrenOK /\ OrdersOK /\ ReceiptsOK
  BY DEF AgentInv
<1>2. TypeOK'
  BY <1>1 DEF TypeOK, LineRecord
<1>3. ASSUME NEW e \in children, e # c PROVE ChildOK(e)'
  <2>1. ChildOK(e)
    BY <1>1 DEF ChildrenOK
  <2>2. ASSUME e.tool = "place" PROVE PlaceOK(e)'
    <3>1. PlaceOK(e)
      BY <2>1, <2>2 DEF ChildOK
    <3>2. c.tool = "place" => c.task # e.task
      BY <1>1, <1>3, <2>2 DEF ChildrenOK
    <3>3. NoOrderOf(e.task) => NoOrderOf(e.task)'
      BY <3>2 DEF NoOrderOf
    <3> QED BY <3>1, <3>3 DEF PlaceOK, NoOrderOf, EvaluatePolicy
  <2> QED BY <1>3, <2>1, <2>2 DEF ChildOK, Unanswered, InOrder
<1>4. ChildOK(d)'
  <2>1. ChildOK(c)
    BY <1>1 DEF ChildrenOK
  <2> QED BY <2>1 DEF ChildOK, Unanswered, InOrder
<1>5. ChildrenOK'
  BY <1>1, <1>3, <1>4 DEF ChildrenOK
<1>6. \A task : Asked(task)' <=> Asked(task)
  BY DEF Asked
<1>7. OrdersOK'
  <2>1. ASSUME NEW i \in DOMAIN orders', orders'[i].task # Foreign
        PROVE  \E e \in children' : e.tool = "place" /\ e.task = orders'[i].task
    <3>1. \E e \in children : e.tool = "place" /\ e.task = orders'[i].task
      <4>1. CASE i \in DOMAIN orders
        BY <1>1, <2>1, <4>1 DEF OrdersOK, Asked
      <4>2. CASE i \notin DOMAIN orders
        BY <4>2
      <4> QED BY <4>1, <4>2
    <3> QED BY <3>1
  <2> QED BY <2>1 DEF OrdersOK, Asked
<1>8. ReceiptsOK'
  <2>1. ASSUME NEW r \in DOMAIN receipts PROVE ReceiptOK(receipts[r])'
    <3>1. ReceiptOK(receipts[r])
      BY <1>1 DEF ReceiptsOK
    <3>2. Verified(receipts[r].task) => Verified(receipts[r].task)'
      BY DEF Verified
    <3>3. Asked(receipts[r].task)' => Asked(receipts[r].task)
      BY <1>6 DEF Asked
    <3> QED BY <3>1, <3>2, <3>3 DEF ReceiptOK, Verified, Asked
  <2> QED BY <2>1 DEF ReceiptsOK
<1> QED BY <1>2, <1>5, <1>7, <1>8 DEF AgentInv

\* The one open request is answered by the one line under way.
LEMMA AnsweredStep ==
    ASSUME AgentInv, NEW c \in children, Unanswered(c), NEW state \in {"dying", "ended"},
           state = "dying" => c.state = "running", Becomes(c, state),
           NEW value \in {"result", Failed}, NEW order \in Order, Emit(c, value, order),
           (c.tool = "order" /\ value # Failed) => \E i \in DOMAIN orders : orders[i] = order,
           UNCHANGED <<run, pending, orders, receipts>>
    PROVE  AgentInv'
<1> DEFINE d == [c EXCEPT !.state = state]
           line == [tool |-> c.tool, value |-> value, order |-> order]
<1>1. /\ c.task = run.task /\ c.tool = run.step /\ run.step # "ended" /\ lines = <<>>
      /\ \A e \in children : Unanswered(e) => e = c
  BY WaitedFor
<1>2. /\ c \in Child /\ d \in Child /\ d.tool = c.tool /\ d.task = c.task
      /\ d.intent = c.intent /\ d.consent = c.consent /\ d.state = state
  <2>1. state \in {"new", "running", "acted", "dying", "ended"}
    OBVIOUS
  <2> QED BY <2>1, BecomesIs
<1>3. children' = (children \ {c}) \cup {d}
  BY DEF Becomes
<1>4. line \in LineRecord /\ line.tool = c.tool /\ line.value = value /\ line.order = order
  BY <1>2 DEF LineRecord, Child
<1>5. lines' = Append(<<>>, line)
  BY <1>1 DEF Emit
<1> HIDE DEF d, line
<1>6. lines' \in Seq(LineRecord) /\ Len(lines') = 1 /\ lines'[1] = line
  BY <1>4, <1>5
<1>7. Waits /\ OrdersAuthorized /\ orders \in Seq(Order) /\ run.step \in Tools
  BY <1>1, <1>2 DEF AgentInv, OrdersOK, TypeOK, Child
<1>8. Waits'
  BY <1>1, <1>4, <1>6, <1>7 DEF Waits
<1>9. OrdersAuthorized'
  BY <1>7 DEF OrdersAuthorized
<1>10. c.tool = "place" => PlaceOK(d)'
  <2>1. c.tool = "place" => PlaceOK(c)
    BY DEF AgentInv, ChildrenOK, ChildOK
  <2> QED BY <1>2, <2>1 DEF PlaceOK, NoOrderOf, EvaluatePolicy
<1>11. ~Unanswered(d)
  BY <1>2 DEF Unanswered
<1> QED BY <1>1, <1>2, <1>3, <1>6, <1>7, <1>8, <1>9, <1>10, <1>11, ChildStep

LEMMA NoOrderIs == NoOrder \in Order
BY PolicyAssumption DEF NoOrder, Order, Foreign, Symbols, Deviations, Amounts

\* A write is served only with the bridge's own opt-in.
LEMMA ServeStep ==
    ASSUME AgentInv, NEW c \in children, Serve(c)
    PROVE  AgentInv'
<1>1. Unanswered(c) /\ c.state = "new" /\ UNCHANGED <<run, pending, orders, receipts>>
  BY DEF Serve, Unanswered
<1>2. CASE ~Allows(c)
  <2>1. Becomes(c, "ended") /\ Emit(c, Failed, NoOrder)
    BY <1>2 DEF Serve, Error
  <2> QED BY <1>1, <2>1, NoOrderIs, AnsweredStep
<1>3. CASE Allows(c)
  <2> DEFINE d == [c EXCEPT !.state = "running"]
  <2>1. /\ c \in Child /\ d \in Child /\ d.tool = c.tool /\ d.task = c.task
        /\ d.intent = c.intent /\ d.consent = c.consent /\ d.state = "running"
    BY BecomesIs
  <2>2. children' = (children \ {c}) \cup {d} /\ UNCHANGED lines
    BY <1>3 DEF Serve, Becomes
  <2> HIDE DEF d
  <2>3. lines = <<>> /\ Waits /\ OrdersAuthorized /\ orders \in Seq(Order) /\ lines \in Seq(LineRecord)
    BY <1>1, WaitedFor DEF AgentInv, OrdersOK, TypeOK, LineRecord
  <2>4. Waits' /\ OrdersAuthorized'
    BY <1>1, <2>2, <2>3 DEF Waits, OrdersAuthorized
  <2>5. c.tool = "place" => PlaceOK(d)'
    <3>1. c.tool = "place" => PlaceOK(c) /\ run.allowWrite
      BY <1>3 DEF AgentInv, ChildrenOK, ChildOK, Allows
    <3> QED BY <1>1, <2>1, <3>1 DEF PlaceOK, NoOrderOf, EvaluatePolicy
  <2> QED BY <1>1, <2>1, <2>2, <2>3, <2>4, <2>5, ChildStep
<1> QED BY <1>2, <1>3

LEMMA EndsStep ==
    ASSUME AgentInv, NEW c \in children, Ends(c)
    PROVE  AgentInv'
<1>1. Unanswered(c) /\ Becomes(c, "ended") /\ UNCHANGED <<run, pending, orders, receipts>>
  BY DEF Ends, Answers, Unanswered
<1>2. ASSUME c.tool = "order", NEW i \in DOMAIN orders, Emit(c, "result", orders[i])
      PROVE  AgentInv'
  <2>1. orders \in Seq(Order)
    BY DEF AgentInv, TypeOK
  <2>2. orders[i] \in Order
    BY <2>1
  <2> QED BY <1>1, <1>2, <2>2, AnsweredStep DEF Failed
<1>3. ASSUME c.tool # "order", Emit(c, "result", NoOrder) PROVE AgentInv'
  BY <1>1, <1>3, NoOrderIs, AnsweredStep
<1> QED BY <1>2, <1>3 DEF Ends

LEMMA BreaksStep ==
    ASSUME AgentInv, NEW c \in children, Breaks(c)
    PROVE  AgentInv'
<1> DEFINE state == IF c.state = "running" THEN "dying" ELSE "ended"
<1>1. /\ Unanswered(c) /\ Becomes(c, state) /\ Emit(c, Failed, NoOrder)
      /\ UNCHANGED <<run, pending, orders, receipts>>
  BY DEF Breaks, Unanswered, Error
<1>2. state \in {"dying", "ended"} /\ (state = "dying" => c.state = "running")
  OBVIOUS
<1> HIDE DEF state
<1> QED BY <1>1, <1>2, NoOrderIs, AnsweredStep

\* An order is placed once per task: a process that was killed too late acts
\* on what was settled before.
LEMMA ActStep ==
    ASSUME AgentInv, NEW c \in children, Act(c)
    PROVE  AgentInv'
<1>1. /\ c.tool = "place" /\ c.state \in {"running", "dying"} /\ c \in Child
      /\ UNCHANGED <<run, pending, lines, receipts>>
      /\ TypeOK /\ ChildrenOK /\ Waits /\ OrdersAuthorized /\ PlaceOK(c)
  BY DEF Act, AgentInv, TypeOK, ChildrenOK, ChildOK, OrdersOK
<1>2. PICK qty \in {c.intent.notional, 2 * c.intent.notional}, deviation \in Deviations,
           status \in {"FILLED", "PARTIALLY_FILLED", "REJECTED"} :
          orders' = Append(orders, [task |-> c.intent.task, symbol |-> c.intent.symbol,
                                    quoteQty |-> qty, deviation |-> deviation,
                                    status |-> status, consent |-> c.consent])
  BY DEF Act
<1> DEFINE o == [task |-> c.intent.task, symbol |-> c.intent.symbol, quoteQty |-> qty,
                 deviation |-> deviation, status |-> status, consent |-> c.consent]
           n == Len(orders) + 1
           state == IF c.state = "running" THEN "acted" ELSE "ended"
           d == [c EXCEPT !.state = state]
<1>3. /\ c.intent \in Intent /\ c.intent.task = c.task /\ c.consent = TRUE
      /\ c.intent.symbol \in AllowedSymbols /\ NoOrderOf(c.task)
  BY <1>1 DEF Child, PlaceOK, EvaluatePolicy
<1>4. c.intent.notional = Budget /\ qty \in {Budget, 2 * Budget}
  <2>1. c.intent.notional \in {Budget, Budget + 1} /\ c.intent.notional <= Budget
    BY <1>1, <1>3 DEF Intent, Amounts, PlaceOK, EvaluatePolicy
  <2>2. c.intent.notional = Budget
    BY <2>1, PolicyAssumption
  <2> QED BY <2>2
<1>5. /\ o \in Order /\ o.task = c.task /\ o.symbol \in AllowedSymbols
      /\ o.quoteQty \in {Budget, 2 * Budget} /\ o.consent
  BY <1>1, <1>3, <1>4 DEF Order, Intent, Amounts
<1>6. orders \in Seq(Order) /\ orders' = Append(orders, o)
  BY <1>1, <1>2 DEF TypeOK
<1> HIDE DEF o
<1>7. /\ orders' \in Seq(Order) /\ DOMAIN orders' = DOMAIN orders \cup {n} /\ orders'[n] = o
      /\ \A i \in DOMAIN orders : orders'[i] = orders[i]
  BY <1>5, <1>6
<1> HIDE DEF n
<1>8. state \in {"new", "running", "acted", "dying", "ended"}
  OBVIOUS
<1>9. /\ d \in Child /\ d.tool = c.tool /\ d.task = c.task
      /\ d.intent = c.intent /\ d.consent = c.consent /\ d.state = state
  <2> HIDE DEF state
  <2> QED BY <1>8, BecomesIs
<1>10. children' = (children \ {c}) \cup {d}
  BY DEF Act, Becomes
<1>11. Unanswered(d) => Unanswered(c)
  BY <1>9 DEF Unanswered
<1>12. d.state \in {"acted", "ended"}
  BY <1>1, <1>9
<1> HIDE DEF d, state
<1>13. OrdersAuthorized'
  <2>1. ASSUME NEW i \in DOMAIN orders, orders[i].task # Foreign
        PROVE  /\ orders[i].consent /\ orders[i].symbol \in AllowedSymbols
               /\ orders[i].quoteQty \in {Budget, 2 * Budget}
               /\ \A k \in DOMAIN orders : orders[k].task = orders[i].task => k = i
               /\ orders[i].task # o.task
    BY <1>1, <1>3, <1>5, <2>1 DEF OrdersAuthorized, NoOrderOf
  <2>2. \A k \in DOMAIN orders : orders[k].task # o.task
    BY <1>3, <1>5 DEF NoOrderOf
  <2> QED BY <1>5, <1>7, <2>1, <2>2 DEF OrdersAuthorized
<1>14. Waits'
  BY <1>1, <1>7 DEF Waits
<1>15. PlaceOK(d)'
  BY <1>1, <1>9, <1>12 DEF PlaceOK, EvaluatePolicy
<1>16. /\ \A e \in children : (e # c /\ Unanswered(e)) => lines' = <<>>
       /\ Unanswered(d) => lines' = <<>>
  BY <1>1, <1>11, WaitedFor
<1>17. lines' \in Seq(LineRecord)
  BY <1>1 DEF TypeOK, LineRecord
<1>18. /\ \A i \in DOMAIN orders : i \in DOMAIN orders' /\ orders'[i] = orders[i]
       /\ \A i \in DOMAIN orders' : i \in DOMAIN orders \/ orders'[i].task = c.task
  BY <1>5, <1>7
<1> QED BY <1>1, <1>7, <1>9, <1>10, <1>11, <1>13, <1>14, <1>15, <1>16, <1>17, <1>18, ChildStep

-----------------------------------------------------------------------------
\* The invariant and what it means.

LEMMA AgentInit == Init => AgentInv
<1> SUFFICES ASSUME Init PROVE AgentInv
  OBVIOUS
<1>1. /\ run.step = "ended" /\ pending = <<>> /\ children = {} /\ lines = <<>> /\ receipts = <<>>
      /\ run \in RunRecord
  <2>1. NoIntent \in Intent
    BY PolicyAssumption DEF NoIntent, Intent, Foreign, Symbols, Amounts, Deviations
  <2> QED BY <2>1, PolicyAssumption DEF Init, RunRecord, Steps
<1>2. orders \in Seq(Order) /\ \A i \in DOMAIN orders : orders[i].task = Foreign
  <2> DEFINE other == [NoOrder EXCEPT !.status = "FILLED"]
  <2>1. other \in Order /\ other.task = Foreign
    BY NoOrderIs DEF NoOrder, Order
  <2>2. orders \in {<<>>, <<other>>}
    BY DEF Init
  <2> HIDE DEF other
  <2>3. CASE orders = <<>>
    BY <2>3
  <2>4. CASE orders = <<other>>
    <3>1. orders \in Seq(Order) /\ DOMAIN orders = {1} /\ orders[1] = other
      BY <2>1, <2>4
    <3> QED BY <2>1, <3>1
  <2> QED BY <2>2, <2>3, <2>4
<1>3. TypeOK
  BY <1>1, <1>2 DEF TypeOK, RunRecord
<1> QED BY <1>1, <1>2, <1>3 DEF AgentInv, ChildrenOK, Waits, OrdersOK, OrdersAuthorized, ReceiptsOK

LEMMA AgentStep == AgentInv /\ [Next]_vars => AgentInv'
<1> SUFFICES ASSUME AgentInv, [Next]_vars PROVE AgentInv'
  OBVIOUS
<1>1. ASSUME NEW write \in BOOLEAN, NEW confirm \in BOOLEAN, NEW allowWrite \in BOOLEAN,
             Start(write, confirm, allowWrite)
      PROVE  AgentInv'
  BY <1>1, StartStep
<1>2. ASSUME NEW usesPlanner \in BOOLEAN, AccountRead(usesPlanner) PROVE AgentInv'
  BY <1>2, AccountReadStep
<1>3. CASE QuoteRead
  BY <1>3, QuoteReadStep
<1>4. CASE Requoted
  BY <1>4, RequotedStep
<1>5. CASE Placed
  BY <1>5, PlacedStep
<1>6. CASE OrderRead
  BY <1>6, OrderReadStep
<1>7. CASE Gate
  BY <1>7, GateStep
<1>8. CASE PlannerFails
  BY <1>8, PlannerFailsStep
<1>9. ASSUME NEW intent \in Intent, Planned(intent) PROVE AgentInv'
  BY <1>9, PlannedStep
<1>10. ASSUME NEW c \in children, Serve(c) PROVE AgentInv'
  BY <1>10, ServeStep
<1>11. ASSUME NEW c \in children, Act(c) PROVE AgentInv'
  BY <1>11, ActStep
<1>12. ASSUME NEW c \in children, Ends(c) PROVE AgentInv'
  BY <1>12, EndsStep
<1>13. ASSUME NEW c \in children, Breaks(c) PROVE AgentInv'
  BY <1>13, BreaksStep
<1>14. CASE UNCHANGED vars
  BY <1>14 DEF vars, AgentInv, TypeOK, ChildrenOK, ChildOK, Unanswered, InOrder, PlaceOK, NoOrderOf,
               EvaluatePolicy, Waits, OrdersOK, OrdersAuthorized, Asked, ReceiptsOK, ReceiptOK, Verified
<1> QED BY <1>1, <1>2, <1>3, <1>4, <1>5, <1>6, <1>7, <1>8, <1>9, <1>10, <1>11, <1>12, <1>13, <1>14
        DEF Next, Read

\* The inductive invariant holds in every reachable state.
THEOREM AgentInvariant == Spec => []AgentInv
BY AgentInit, AgentStep, PTL DEF Spec

\* Every variable keeps its type, and an intent acted on is of its own run.
THEOREM AgentTypeCorrect == Spec => []TypeOK
<1>1. AgentInv => TypeOK
  BY DEF AgentInv
<1> QED BY <1>1, AgentInvariant, PTL

\* Lines are matched to requests by their order alone, and rightly so: while a
\* run goes on there is one line at most, and it answers the pending request.
THEOREM AgentLinesMatch == Spec => []LinesMatch
<1>1. AgentInv => LinesMatch
  <2> SUFFICES ASSUME AgentInv, run.step # "ended", NEW i \in DOMAIN lines
               PROVE  i <= Len(pending) /\ lines[i].tool = pending[i]
    BY DEF LinesMatch
  <2>1. lines # <<>> /\ DOMAIN lines = 1 .. Len(lines)
    BY DEF AgentInv, TypeOK
  <2>2. run.step \in Tools /\ Len(lines) = 1 /\ lines[1].tool = run.step
    BY <2>1 DEF AgentInv, Waits
  <2>3. pending = <<run.step>>
    BY <2>2 DEF AgentInv, Waits
  <2> QED BY <2>1, <2>2, <2>3
<1> QED BY <1>1, AgentInvariant, PTL

\* For every policy, and with processes that act after they timed out, an order
\* of a run was confirmed, allowed and within the policy's limits when it was
\* asked for, and a run has at most one.
THEOREM AgentOrdersAuthorized == Spec => []OrdersAuthorized
<1>1. AgentInv => OrdersAuthorized
  BY DEF AgentInv, OrdersOK
<1> QED BY <1>1, AgentInvariant, PTL

\* A VERIFIED receipt names a task with an order that is filled within policy,
\* and no order of a BLOCKED task ever reaches the exchange, in this run or later.
THEOREM AgentReceiptsTrue == Spec => []ReceiptsTrue
<1>1. AgentInv => ReceiptsTrue
  <2> SUFFICES ASSUME AgentInv, NEW r \in DOMAIN receipts
               PROVE  LET own == {i \in DOMAIN orders : orders[i].task = receipts[r].task}
                      IN  /\ receipts[r].state = "VERIFIED" =>
                                \E i \in own : /\ orders[i].status = "FILLED"
                                               /\ orders[i].quoteQty <= Budget
                                               /\ orders[i].deviation <= Slippage
                          /\ receipts[r].state = "BLOCKED" => own = {}
    BY DEF ReceiptsTrue
  <2>1. ReceiptOK(receipts[r])
    BY DEF AgentInv, ReceiptsOK
  <2>2. receipts[r].task # Foreign
    <3>1. receipts \in Seq(Receipt) /\ r \in 1 .. Len(receipts)
      BY DEF AgentInv, TypeOK, Receipt
    <3>2. receipts[r] \in Receipt
      BY <3>1
    <3> QED BY <3>2 DEF Receipt, Tasks, Foreign
  <2>3. receipts[r].state = "BLOCKED" =>
            \A i \in DOMAIN orders : orders[i].task # receipts[r].task
    BY <2>1, <2>2 DEF ReceiptOK, AgentInv, OrdersOK
  <2> QED BY <2>1, <2>3 DEF ReceiptOK, Verified
<1> QED BY <1>1, AgentInvariant, PTL
=============================================================================
