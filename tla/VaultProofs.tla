---------------------------- MODULE VaultProofs ----------------------------
(***************************************************************************)
(* Theorems about the vault and its planner for every value of the         *)
(* constants.  The inductive invariant is TypeOK /\ LedgerFaithful: the    *)
(* counter summarises the history only because no later day has sold       *)
(* anything and days only grow.  What one rebalance costs, and whether the *)
(* contract takes what the planner calls READY, is arithmetic over the     *)
(* roundings of one state; lemmas about quotients carry it.                *)
(***************************************************************************)
EXTENDS Planner, TLAPS

\* Days are numbered by naturals and grow with time (block.timestamp / 1 days).
LEMMA DayMonotonic ==
    ASSUME NEW a \in Nat, NEW b \in Nat, a <= b
    PROVE  Day(a) \in Nat /\ Day(b) \in Nat /\ Day(a) <= Day(b)
BY ScaleAssumption, SMT DEF Day

\* The current day is one of the days the history is kept for.
LEMMA TodayIsADay ==
    ASSUME TypeOK
    PROVE  Today \in Days /\ Today \in Nat /\ 0 \in Days
<1>1. now \in 0 .. MaxTime
  BY BoundsAssumption DEF TypeOK
<1>2. Today \in Days
  BY <1>1 DEF Today, Days
<1>3. Day(0) = 0
  BY ScaleAssumption, SMT DEF Day
<1>4. 0 \in Days
  <2>1. Day(0) \in Days
    BY BoundsAssumption DEF Days
  <2> QED BY <2>1, <1>3
<1>5. Today \in Nat
  BY <1>1, DayMonotonic DEF Today
<1> QED BY <1>2, <1>4, <1>5

\* A fresh feed gives a positive price (_price).
LEMMA FreshPrice ==
    ASSUME TypeOK, NEW t \in Token, Fresh(t)
    PROVE  Price(t) \in Nat \ {0}
<1>1. feed[t].answer \in Nat
  BY DEF TypeOK, FeedType, Fresh
<1>2. FeedUnit[t] \in Nat \ {0} /\ UsdUnit \in Nat
  BY ScaleAssumption
<1>3. feed[t].answer * UsdUnit \in Nat
  BY <1>1, <1>2
<1>4. Price(t) \in Nat
  BY <1>2, <1>3 DEF Price
<1> QED BY <1>4 DEF Fresh

\* A round that _price accepts is of the time that the policy in force allows.
LEMMA FreshIsCurrent ==
    ASSUME TypeOK, NEW t \in Token, Fresh(t)
    PROVE  Current(feed[t])
<1>1. now \in Int /\ feed[t].updatedAt \in Int
  BY BoundsAssumption DEF TypeOK, FeedType
<1>2. policy.maxOracleAge \in Int
  BY DEF TypeOK, PolicyType
<1> QED BY <1>1, <1>2 DEF Current, Fresh

\* An amount of a token with a price has a natural value (mulDiv).
LEMMA ValueIsNat ==
    ASSUME NEW t \in Token, Price(t) \in Nat, NEW amount \in Nat
    PROVE  Value(t, amount) \in Nat
<1>1. Unit[t] \in Nat \ {0}
  BY ScaleAssumption
<1>2. amount * Price(t) \in Nat
  OBVIOUS
<1> QED BY <1>1, <1>2 DEF Value

\* The arguments of a call are typed as the contract's ABI types them.
LEMMA CallType ==
    ASSUME NEW c \in Calls
    PROVE  /\ c.tokenIn \in Token /\ c.sender \in Accounts
           /\ c.amountIn \in Nat /\ c.minAmountOut \in Nat
<1>1. PICK t \in Token :
        c \in [sender: Accounts, tokenIn: {t}, amountIn: Amounts[t], minAmountOut: MinOutputs,
               deadline: {now + DeadlineWindow, now + DeadlineWindow + 1},
               expectedNonce: {executionNonce, executionNonce + 1}]
  BY DEF Calls
<1>2. Amounts[t] \subseteq Nat /\ MinOutputs \subseteq Nat
  BY InputsAssumption
<1> QED BY <1>1, <1>2

\* What a successful rebalance does to the ledger: the sale is charged to
\* today, within both limits of the policy (rebalance, the budget lines).
LEMMA RebalanceLedger ==
    ASSUME TypeOK, LedgerFaithful, NEW c \in Calls, Rebalance(c)
    PROVE  /\ Notional(c) \in Nat
           /\ soldOn' = [soldOn EXCEPT ![Today] = @ + Notional(c)]
           /\ AlreadySpent = soldOn[Today]
           /\ spentTodayUsd' = AlreadySpent + Notional(c)
           /\ Notional(c) <= policy.maxActionUsd
           /\ AlreadySpent + Notional(c) <= policy.maxDailyUsd
<1> USE CallType
<1>1. Notional(c) \in Nat
  <2>1. Price(c.tokenIn) \in Nat
    BY FreshPrice DEF Rebalance
  <2> QED BY <2>1, ValueIsNat DEF Notional
<1>2. soldOn' = [soldOn EXCEPT ![Today] = @ + Notional(c)]
  BY DEF Rebalance, Settled, Notional
<1>3. AlreadySpent = soldOn[Today]
  <2>1. CASE spendDay = Today
    BY <2>1 DEF LedgerFaithful, AlreadySpent
  <2>2. CASE spendDay # Today
    BY <2>2, TodayIsADay DEF LedgerFaithful, AlreadySpent, TypeOK
  <2> QED BY <2>1, <2>2
<1> QED BY <1>1, <1>2, <1>3 DEF Rebalance, WithinBudget

-----------------------------------------------------------------------------
\* Balances keep their type through a rebalance: the router takes no more than
\* the vault holds.
LEMMA RebalanceBalances ==
    ASSUME TypeOK, NEW c \in Calls, Rebalance(c)
    PROVE  bal' \in [Token -> Nat]
<1> USE CallType
<1>1. PICK taken \in Amounts[c.tokenIn], paid \in Outputs[Other(c.tokenIn)] :
        /\ taken <= bal[c.tokenIn]
        /\ bal' = [bal EXCEPT ![c.tokenIn] = @ - taken, ![Other(c.tokenIn)] = @ + paid]
  BY DEF Rebalance
<1>2. Other(c.tokenIn) \in Token
  BY DEF Other, Token
<1>3. taken \in Nat /\ paid \in Nat
  BY <1>2, InputsAssumption
<1>4. bal[c.tokenIn] - taken \in Nat
  BY <1>1, <1>3 DEF TypeOK
<1>5. bal[Other(c.tokenIn)] + paid \in Nat
  BY <1>2, <1>3 DEF TypeOK
<1>6. c.tokenIn # Other(c.tokenIn)
  BY DEF Other, Token
<1> QED BY <1>1, <1>2, <1>4, <1>5, <1>6 DEF TypeOK

\* A feed's round is typed as the aggregator interface types it.
LEMMA RoundType ==
    ASSUME TypeOK, NEW r \in ReportType
    PROVE  Round(r) \in FeedType
<1>1. now \in Nat
  BY BoundsAssumption DEF TypeOK
<1> QED BY <1>1 DEF Round, ReportType, FeedType

-----------------------------------------------------------------------------
(* Integer arithmetic of the three roundings: the value of an amount and the *)
(* fair output round down, the output's floor rounds up.                     *)

\* Integer division (mulDiv): a quotient's distance from the exact one.
LEMMA DivBounds ==
    ASSUME NEW n \in Nat, NEW d \in Nat \ {0}
    PROVE  /\ n \div d \in Nat
           /\ (n \div d) * d <= n
           /\ n < (n \div d) * d + d
BY SMT

LEMMA CeilDivBounds ==
    ASSUME NEW n \in Nat, NEW d \in Nat \ {0}
    PROVE  CeilDiv(n, d) \in Nat /\ n <= CeilDiv(n, d) * d
<1>1. n + d - 1 \in Nat
  OBVIOUS
<1> QED BY <1>1, DivBounds DEF CeilDiv

LEMMA TimesMonotonic ==
    ASSUME NEW a \in Int, NEW b \in Int, a <= b, NEW c \in Nat
    PROVE  a * c <= b * c
BY SMT

LEMMA TimesCancel ==
    ASSUME NEW a \in Int, NEW b \in Int, NEW c \in Nat \ {0}, a * c < b * c
    PROVE  a < b
BY SMT

LEMMA TimesAssoc ==
    ASSUME NEW a \in Int, NEW b \in Int, NEW c \in Int
    PROVE  /\ a * b \in Int /\ a * b = b * a
           /\ (a * b) * c = a * (b * c)
           /\ (a + b) * c = a * c + b * c
BY SMT

LEMMA NatTimes ==
    ASSUME NEW a \in Nat, NEW b \in Nat
    PROVE  a * b \in Nat
BY SMT

\* Rounding down loses less than one unit when a sum is split, and nothing
\* when two parts are put together.
LEMMA DivSplits ==
    ASSUME NEW m \in Nat, NEW n \in Nat, NEW d \in Nat \ {0}
    PROVE  /\ (m \div d) + (n \div d) <= (m + n) \div d
           /\ (m + n) \div d <= (m \div d) + (n \div d) + 1
<1> DEFINE a == m \div d  b == n \div d  c == (m + n) \div d
<1>1. a \in Nat /\ a * d <= m /\ m < a * d + d
  BY DivBounds
<1>2. b \in Nat /\ b * d <= n /\ n < b * d + d
  BY DivBounds
<1>3. c \in Nat /\ c * d <= m + n /\ m + n < c * d + d
  <2>1. m + n \in Nat
    OBVIOUS
  <2> QED BY <2>1, DivBounds
<1> HIDE DEF a, b, c
<1>4. (a + b) * d = a * d + b * d /\ (c + 1) * d = c * d + d
      /\ (a + b + 2) * d = a * d + b * d + 2 * d
  <2>1. a * d \in Int /\ b * d \in Int /\ c * d \in Int
    BY <1>1, <1>2, <1>3
  <2> QED BY <1>1, <1>2, <1>3, <2>1, TimesAssoc
<1>5. a + b < c + 1
  <2>1. (a + b) * d < (c + 1) * d
    BY <1>1, <1>2, <1>3, <1>4
  <2> QED BY <1>1, <1>2, <1>3, <2>1, TimesCancel
<1>6. c < a + b + 2
  <2>1. c * d < (a + b + 2) * d
    BY <1>1, <1>2, <1>3, <1>4
  <2> QED BY <1>1, <1>2, <1>3, <2>1, TimesCancel
<1> QED BY <1>1, <1>2, <1>3, <1>5, <1>6 DEF a, b, c

\* What is paid for a value, at least its floor, is worth that value less the
\* slippage allowance, one unit of value, and one base unit of the output.
LEMMA FloorKeepsValue ==
    ASSUME NEW value \in Nat, NEW slippage \in 0 .. BPS, NEW price \in Nat \ {0},
           NEW unit \in Nat \ {0}, NEW paid \in Nat,
           paid >= CeilDiv(((value * unit) \div price) * (BPS - slippage), BPS)
    PROVE  BPS * (value - (paid * price) \div unit)
               <= value * slippage + BPS * (1 + CeilDiv(price, unit))
<1> DEFINE kept == BPS - slippage
           fair == (value * unit) \div price
           got  == (paid * price) \div unit
           base == CeilDiv(price, unit)
<1>1. kept \in Nat /\ kept <= BPS /\ BPS \in Nat \ {0}
  BY DEF BPS
<1>2. fair \in Nat /\ value * unit < fair * price + price
  <2>1. value * unit \in Nat
    BY NatTimes
  <2> QED BY <2>1, DivBounds
<1>3. got \in Nat /\ paid * price < got * unit + unit
  <2>1. paid * price \in Nat
    BY NatTimes
  <2> QED BY <2>1, DivBounds
<1>4. base \in Nat /\ price <= base * unit
  BY CeilDivBounds
<1>5. fair * kept <= paid * BPS
  <2>1. fair * kept \in Nat
    BY <1>1, <1>2, NatTimes
  <2>2. CeilDiv(fair * kept, BPS) \in Nat /\ fair * kept <= CeilDiv(fair * kept, BPS) * BPS
    BY <1>1, <2>1, CeilDivBounds
  <2>3. CeilDiv(fair * kept, BPS) * BPS <= paid * BPS
    BY <1>1, <2>2, TimesMonotonic
  <2> HIDE DEF kept, fair
  <2> QED BY <1>1, <2>1, <2>2, <2>3
<1>k. kept = BPS - slippage
  OBVIOUS
<1> HIDE DEF kept, fair, got, base
\* Every term below is scaled by kept, BPS, price and unit.
<1>6. (kept * value) * unit <= (fair * kept) * price + kept * price
  <2>1. (value * unit) * kept <= (fair * price + price) * kept
    BY <1>1, <1>2, TimesMonotonic
  <2>2. (fair * price + price) * kept = (fair * kept) * price + kept * price
    BY <1>1, <1>2, SMT
  <2>3. (value * unit) * kept = (kept * value) * unit
    BY <1>1, SMT
  <2> QED BY <2>1, <2>2, <2>3
<1>7. (fair * kept) * price <= (paid * BPS) * price
  <2>1. fair * kept \in Int /\ paid * BPS \in Int
    BY <1>1, <1>2
  <2> QED BY <2>1, <1>5, TimesMonotonic
<1>8. (paid * BPS) * price <= (got * unit + unit) * BPS
  <2>1. (paid * price) * BPS <= (got * unit + unit) * BPS
    BY <1>1, <1>3, TimesMonotonic
  <2>2. (paid * price) * BPS = (paid * BPS) * price
    BY <1>1, SMT
  <2> QED BY <2>1, <2>2
<1>9. kept * price <= (base * unit) * BPS
  <2>1. kept * price <= BPS * price
    BY <1>1, TimesMonotonic
  <2>2. price * BPS <= (base * unit) * BPS
    BY <1>1, <1>4, TimesMonotonic
  <2>3. BPS * price = price * BPS /\ kept * price \in Int /\ price * BPS \in Int
        /\ (base * unit) * BPS \in Int
    BY <1>1, <1>4, TimesAssoc
  <2> QED BY <2>1, <2>2, <2>3
<1>10. kept * value <= (got + 1 + base) * BPS
  <2>1. (kept * value) * unit <= (got * unit + unit) * BPS + (base * unit) * BPS
    <3>1. /\ (kept * value) * unit \in Int /\ (fair * kept) * price \in Int
          /\ kept * price \in Int /\ (paid * BPS) * price \in Int
          /\ (got * unit + unit) * BPS \in Int /\ (base * unit) * BPS \in Int
      BY <1>1, <1>2, <1>3, <1>4
    <3> QED BY <1>6, <1>7, <1>8, <1>9, <3>1
  <2>2. (got * unit + unit) * BPS + (base * unit) * BPS = ((got + 1 + base) * BPS) * unit
    BY <1>1, <1>3, <1>4, SMT
  <2>3. (got + 1 + base) * BPS \in Int /\ kept * value \in Int
    BY <1>1, <1>3, <1>4
  <2>4. ((got + 1 + base) * BPS) * unit < ((got + 1 + base) * BPS + 1) * unit
    <3>1. ((got + 1 + base) * BPS + 1) * unit = ((got + 1 + base) * BPS) * unit + 1 * unit
      BY <2>3, TimesAssoc
    <3> QED BY <2>3, <3>1
  <2>5. (kept * value) * unit < ((got + 1 + base) * BPS + 1) * unit
    BY <2>1, <2>2, <2>3, <2>4
  <2>6. kept * value < (got + 1 + base) * BPS + 1
    BY <2>3, <2>5, TimesCancel
  <2> QED BY <2>3, <2>6
<1>11. kept * value = BPS * value - value * slippage
  BY <1>1, <1>k, SMT
<1>12. BPS * (value - got) <= value * slippage + BPS * (1 + base)
  <2>1. value * slippage \in Int
    BY <1>1
  <2> QED BY <1>3, <1>4, <1>10, <1>11, <2>1, SMT DEF BPS
<1> QED BY <1>12 DEF got, base

-----------------------------------------------------------------------------
\* Valuing two amounts apart loses at most one unit (_valueUsd).
LEMMA ValueSplits ==
    ASSUME NEW t \in Token, Price(t) \in Nat \ {0}, NEW m \in Nat, NEW n \in Nat
    PROVE  /\ Value(t, m) \in Nat /\ Value(t, n) \in Nat /\ Value(t, m + n) \in Nat
           /\ Value(t, m) + Value(t, n) <= Value(t, m + n)
           /\ Value(t, m + n) <= Value(t, m) + Value(t, n) + 1
<1>1. m * Price(t) \in Nat /\ n * Price(t) \in Nat
  BY NatTimes
<1>2. (m + n) * Price(t) = m * Price(t) + n * Price(t)
  BY TimesAssoc
<1>3. Unit[t] \in Nat \ {0}
  BY ScaleAssumption
<1>4. m + n \in Nat
  OBVIOUS
<1> QED BY <1>1, <1>2, <1>3, <1>4, ValueIsNat, DivSplits DEF Value

\* What a rebalance takes from the vault at the prices it trades at: it lowers
\* the balance of the token it sells only, and what it costs is within the
\* slippage allowance of the value it charges (rebalance, from the budget to
\* the minimum output and the balances the router leaves).
LEMMA RebalanceCost ==
    ASSUME TypeOK, NEW c \in Calls, Rebalance(c)
    PROVE  /\ bal'[c.tokenIn] <= bal[c.tokenIn]
           /\ bal'[Other(c.tokenIn)] >= bal[Other(c.tokenIn)]
           /\ BPS * (Total(bal) - Total(bal')) <= TradeAllowance(c.tokenIn, Notional(c))
<1> DEFINE t == c.tokenIn
           o == Other(c.tokenIn)
<1>1. t \in Token /\ c.amountIn \in Nat /\ c.minAmountOut \in Nat
  BY CallType
<1>2. o \in Token /\ t # o /\ Token = {t, o}
  BY <1>1 DEF Other, Token
<1>3. PICK taken \in Amounts[t], paid \in Outputs[o] :
        /\ taken = c.amountIn /\ taken <= bal[t] /\ paid >= c.minAmountOut
        /\ bal' = [bal EXCEPT ![t] = @ - taken, ![o] = @ + paid]
  BY DEF Rebalance, Settled
<1>4. taken \in Nat /\ paid \in Nat
  BY <1>1, <1>2, <1>3, InputsAssumption
<1>5. bal[t] \in Nat /\ bal[o] \in Nat
  BY <1>1, <1>2 DEF TypeOK
<1>6. bal'[t] = bal[t] - taken /\ bal'[o] = bal[o] + paid
  BY <1>1, <1>2, <1>3 DEF TypeOK
<1>7. bal'[t] \in Nat /\ bal'[o] \in Nat
  BY <1>3, <1>4, <1>5, <1>6
<1>8. Price(t) \in Nat \ {0} /\ Price(o) \in Nat \ {0}
  BY <1>1, <1>2, FreshPrice DEF Rebalance
<1>9. Unit[t] \in Nat \ {0} /\ Unit[o] \in Nat \ {0}
  BY <1>1, <1>2, ScaleAssumption
<1>10. /\ Total(bal) = Value(t, bal[t]) + Value(o, bal[o])
       /\ Total(bal') = Value(t, bal'[t]) + Value(o, bal'[o])
  <2>1. \A n \in Nat : Value(t, n) \in Nat /\ Value(o, n) \in Nat
    BY <1>1, <1>2, <1>8, ValueIsNat
  <2>2. CASE t = 0 /\ o = 1
    BY <2>2 DEF Total
  <2>3. CASE t = 1 /\ o = 0
    BY <1>5, <1>7, <2>1, <2>3 DEF Total
  <2> QED BY <1>1, <2>2, <2>3 DEF Token, Other
<1>11. Notional(c) = Value(t, taken) /\ Notional(c) \in Nat
  BY <1>1, <1>3, <1>4, <1>8, ValueIsNat DEF Notional
\* Selling takes the sale's value and at most one unit of rounding.
<1>12. Value(t, bal[t]) <= Value(t, bal'[t]) + Notional(c) + 1
  <2>1. bal[t] = bal'[t] + taken
    BY <1>4, <1>5, <1>6
  <2> QED BY <1>1, <1>4, <1>7, <1>8, <1>11, <2>1, ValueSplits
\* What is paid adds at least its own value.
<1>13. Value(o, bal'[o]) >= Value(o, bal[o]) + Value(o, paid)
  BY <1>2, <1>4, <1>5, <1>6, <1>8, ValueSplits
<1>14. BPS * (Notional(c) - Value(o, paid))
          <= Notional(c) * policy.maxSlippageBps + BPS * (1 + CeilDiv(Price(o), Unit[o]))
  <2>1. policy.maxSlippageBps \in Int /\ 0 <= policy.maxSlippageBps
        /\ policy.maxSlippageBps <= BPS
    BY DEF TypeOK, PolicyType, ValidPolicy, MaxSlippage, BPS
  <2>2. paid >= OracleFloor(c)
    <3>1. c.minAmountOut >= OracleFloor(c)
      BY DEF Rebalance
    <3>2. OracleFloor(c) \in Nat
      <4>1. Notional(c) * Unit[o] \in Nat
        BY <1>9, <1>11, NatTimes
      <4>2. (Notional(c) * Unit[o]) \div Price(o) \in Nat
        BY <1>8, <4>1, DivBounds
      <4>3. BPS - policy.maxSlippageBps \in Nat /\ BPS \in Nat \ {0}
        BY <2>1 DEF BPS
      <4>4. ((Notional(c) * Unit[o]) \div Price(o)) * (BPS - policy.maxSlippageBps) \in Nat
        BY <4>2, <4>3, NatTimes
      <4> QED BY <4>3, <4>4, CeilDivBounds DEF OracleFloor
    <3> QED BY <1>1, <1>3, <1>4, <3>1, <3>2
  <2>3. paid >= CeilDiv(((Notional(c) * Unit[o]) \div Price(o))
                          * (BPS - policy.maxSlippageBps), BPS)
    BY <2>2 DEF OracleFloor
  <2>4. policy.maxSlippageBps \in 0 .. BPS
    <3>1. \A n \in Int : 0 <= n /\ n <= BPS => n \in 0 .. BPS
      BY DEF BPS
    <3> QED BY <2>1, <3>1
  <2> QED BY <1>4, <1>8, <1>9, <1>11, <2>3, <2>4, FloorKeepsValue DEF Value
<1>15. /\ Value(t, bal[t]) \in Nat /\ Value(t, bal'[t]) \in Nat /\ Value(o, paid) \in Nat
       /\ Value(o, bal[o]) \in Nat /\ Value(o, bal'[o]) \in Nat
       /\ CeilDiv(Price(o), Unit[o]) \in Nat
       /\ Notional(c) * policy.maxSlippageBps \in Int
  <2>1. Notional(c) * policy.maxSlippageBps \in Int
    BY <1>11, NatTimes DEF TypeOK, PolicyType
  <2>2. CeilDiv(Price(o), Unit[o]) \in Nat
    BY <1>8, <1>9, CeilDivBounds
  <2> QED BY <1>1, <1>2, <1>4, <1>5, <1>7, <1>8, <2>1, <2>2, ValueIsNat
<1>16. BPS * (Total(bal) - Total(bal')) <= TradeAllowance(t, Notional(c))
  <2>1. Total(bal) - Total(bal') <= Notional(c) + 1 - Value(o, paid)
    BY <1>10, <1>11, <1>12, <1>13, <1>15
  <2>2. Total(bal) \in Int /\ Total(bal') \in Int
    BY <1>10, <1>15
  <2> QED BY <1>11, <1>14, <1>15, <2>1, <2>2, SMT DEF TradeAllowance, BPS
<1> QED BY <1>3, <1>4, <1>5, <1>6, <1>16

-----------------------------------------------------------------------------
\* The invariant the proofs of the vault rest on.
VaultInv == TypeOK /\ LedgerFaithful

LEMMA VaultInit == Init => VaultInv
<1> SUFFICES ASSUME Init PROVE VaultInv
  OBVIOUS
<1>1. TypeOK
  <2>1. now \in 1 .. MaxTime
    BY BoundsAssumption DEF Init
  <2>2. policy \in PolicyType /\ ValidPolicy(policy)
    BY InputsAssumption DEF Init
  <2>3. sender \in Accounts
    BY RolesAssumption DEF Init
  <2>4. feed \in [Token -> FeedType]
    <3>1. [answer |-> 0, updatedAt |-> 0, carried |-> FALSE] \in FeedType
      BY DEF FeedType
    <3> QED BY <3>1 DEF Init
  <2>5. bal \in [Token -> Nat] /\ soldOn \in [Days -> Nat]
    BY DEF Init
  <2>6. lastExecutionAt \in 0 .. MaxTime /\ executionNonce \in 0 .. MaxExecutions
    BY BoundsAssumption DEF Init
  <2> QED BY <2>1, <2>2, <2>3, <2>4, <2>5, <2>6 DEF Init, TypeOK
<1>2. LedgerFaithful
  BY <1>1, TodayIsADay DEF Init, LedgerFaithful
<1> QED BY <1>1, <1>2 DEF VaultInv

LEMMA VaultStep == VaultInv /\ [Next]_vars => VaultInv'
<1> SUFFICES ASSUME TypeOK, LedgerFaithful, [Next]_vars
             PROVE  TypeOK' /\ LedgerFaithful'
  BY DEF VaultInv
<1> USE DEF ledgerVars
<1>1. CASE Tick
  <2>1. TypeOK'
    BY <1>1, BoundsAssumption DEF Tick, TypeOK, ValidPolicy
  <2>2. now \in Nat /\ now' \in Nat /\ now <= now'
    BY <1>1, BoundsAssumption DEF Tick, TypeOK
  <2>3. Today <= Today' /\ Today \in Nat /\ Today' \in Nat
    BY <2>2, DayMonotonic DEF Today
  <2>4. spendDay \in Nat /\ spendDay' = spendDay
    BY <1>1 DEF Tick, TypeOK
  <2>5. spendDay' <= Today'
    BY <2>3, <2>4 DEF LedgerFaithful
  <2> QED BY <1>1, <2>1, <2>5 DEF Tick, LedgerFaithful
<1>2. ASSUME NEW t \in Token, NEW r \in Reports[t], FeedReport(t, r)
      PROVE  TypeOK' /\ LedgerFaithful'
  <2>1. Round(r) \in FeedType
    BY RoundType, InputsAssumption
  <2>2. TypeOK'
    BY <1>2, <2>1 DEF FeedReport, TypeOK, ValidPolicy
  <2> QED BY <1>2, <2>2 DEF FeedReport, LedgerFaithful, Today
<1>3. ASSUME NEW caller \in Accounts, NEW p \in Policies, SetPolicy(caller, p)
      PROVE  TypeOK' /\ LedgerFaithful'
  <2>1. p \in PolicyType /\ (ValidPolicy(policy))'
    BY <1>3, InputsAssumption DEF SetPolicy, ValidPolicy
  <2>2. TypeOK'
    BY <1>3, <2>1 DEF SetPolicy, TypeOK
  <2> QED BY <1>3, <2>2 DEF SetPolicy, LedgerFaithful, Today
<1>4. ASSUME NEW caller \in Accounts, NEW next \in BOOLEAN, SetPaused(caller, next)
      PROVE  TypeOK' /\ LedgerFaithful'
  BY <1>4 DEF SetPaused, TypeOK, LedgerFaithful, Today, ValidPolicy
<1>5. ASSUME NEW caller \in Accounts, NEW t \in Token, NEW amount \in Lots[t],
             Deposit(caller, t, amount) \/ Withdraw(caller, t, amount)
      PROVE  TypeOK' /\ LedgerFaithful'
  <2>1. amount \in Nat
    BY InputsAssumption
  <2>2. bal' \in [Token -> Nat]
    BY <1>5, <2>1 DEF Deposit, Withdraw, TypeOK
  <2>3. UNCHANGED <<now, feed, policy, paused, ledgerVars>> /\ sender' = caller
    BY <1>5 DEF Deposit, Withdraw
  <2> QED BY <2>2, <2>3 DEF TypeOK, LedgerFaithful, Today, ValidPolicy
<1>6. ASSUME NEW c \in Calls, Rebalance(c)
      PROVE  TypeOK' /\ LedgerFaithful'
  <2>1. Today \in Days /\ Today \in Nat /\ Today' = Today
    BY <1>6, TodayIsADay DEF Rebalance, Today
  <2>2. /\ Notional(c) \in Nat
        /\ soldOn' = [soldOn EXCEPT ![Today] = @ + Notional(c)]
        /\ AlreadySpent = soldOn[Today]
        /\ spentTodayUsd' = AlreadySpent + Notional(c)
    BY <1>6, RebalanceLedger
  <2>3. bal' \in [Token -> Nat]
    BY <1>6, RebalanceBalances
  <2>4. spentTodayUsd' \in Nat /\ soldOn' \in [Days -> Nat]
    BY <2>1, <2>2 DEF TypeOK
  <2>5. executionNonce' \in 0 .. MaxExecutions
    BY <1>6, BoundsAssumption DEF Rebalance, TypeOK
  <2>6. spendDay' = Today /\ lastExecutionAt' \in 0 .. MaxTime /\ sender' \in Accounts
    BY <1>6, CallType DEF Rebalance, TypeOK
  <2>7. TypeOK'
    BY <1>6, <2>1, <2>3, <2>4, <2>5, <2>6 DEF Rebalance, TypeOK, ValidPolicy
  <2>8. soldOn'[spendDay'] = spentTodayUsd'
    BY <2>1, <2>2, <2>6 DEF TypeOK
  <2>9. \A d \in Days : d > spendDay' => soldOn'[d] = 0
    BY <2>1, <2>2, <2>6 DEF TypeOK, LedgerFaithful
  <2> QED BY <2>1, <2>6, <2>7, <2>8, <2>9 DEF LedgerFaithful
<1>7. CASE UNCHANGED vars
  BY <1>7 DEF vars, TypeOK, LedgerFaithful, Today, ValidPolicy
<1> QED BY <1>1, <1>2, <1>3, <1>4, <1>5, <1>6, <1>7 DEF Next

\* Every reachable storage of the contract is well typed and its policy valid.
THEOREM VaultTypeCorrect == Spec => []TypeOK
<1>1. VaultInv => TypeOK
  BY DEF VaultInv
<1> QED BY <1>1, VaultInit, VaultStep, PTL DEF Spec

\* The counter (spentTodayUsd, spendDay) never disagrees with the history of
\* sales, so the budget check of rebalance reads what was really sold today.
THEOREM VaultLedgerFaithful == Spec => []LedgerFaithful
<1>1. VaultInv => LedgerFaithful
  BY DEF VaultInv
<1> QED BY <1>1, VaultInit, VaultStep, PTL DEF Spec

\* No day's sales pass the daily limit, and no sale the action limit, for any
\* prices, amounts, policies and lengths of history.
THEOREM VaultDailyBudget == Spec => DailyBudget
<1> DEFINE Step == soldOn' # soldOn =>
              /\ soldOn'[Today] <= policy.maxDailyUsd
              /\ soldOn'[Today] - soldOn[Today] <= policy.maxActionUsd
<1>1. VaultInv /\ [Next]_vars => [Step]_vars
  <2> SUFFICES ASSUME TypeOK, LedgerFaithful, Next, soldOn' # soldOn
               PROVE  /\ soldOn'[Today] <= policy.maxDailyUsd
                      /\ soldOn'[Today] - soldOn[Today] <= policy.maxActionUsd
    BY DEF VaultInv
  <2>1. PICK c \in Calls : Rebalance(c)
    BY DEF Next, Tick, FeedReport, SetPolicy, SetPaused, Deposit, Withdraw, ledgerVars
  <2>2. Today \in Days
    BY TodayIsADay
  <2>3. soldOn[Today] \in Nat /\ soldOn'[Today] = soldOn[Today] + Notional(c)
    BY <2>1, <2>2, RebalanceLedger DEF TypeOK
  <2> QED BY <2>1, <2>3, RebalanceLedger
<1>2. VaultInv /\ [Next]_vars => VaultInv'
  BY VaultStep
<1> QED BY <1>1, <1>2, VaultInit, PTL DEF Spec, DailyBudget

\* Whoever is not the owner takes value out by a rebalance only, and each one
\* costs at most the slippage allowance and rounding at oracle prices that are
\* not stale, for any prices, scales, amounts and answers of the router.
THEOREM VaultOperatorConfined == Spec => OperatorConfined
<1> DEFINE Step == sender' # Owner =>
              /\ policy' = policy /\ paused' = paused
              /\ \A t \in Token : bal'[t] < bal[t] =>
                    /\ executionNonce' = executionNonce + 1
                    /\ \A i \in Token : Current(feed[i])
                    /\ BPS * (Total(bal) - Total(bal'))
                         <= TradeAllowance(t, soldOn'[Today] - soldOn[Today])
<1>1. VaultInv /\ [Next]_vars => [Step]_vars
  <2> SUFFICES ASSUME TypeOK, LedgerFaithful, Next, sender' # Owner
               PROVE  Step
    BY DEF VaultInv
  <2>1. CASE Tick
    BY <2>1 DEF Tick, TypeOK
  <2>2. ASSUME NEW t \in Token, NEW r \in Reports[t], FeedReport(t, r)
        PROVE  Step
    BY <2>2 DEF FeedReport, TypeOK
  <2>3. ASSUME NEW caller \in Accounts, NEW p \in Policies, SetPolicy(caller, p)
        PROVE  Step
    BY <2>3 DEF SetPolicy
  <2>4. ASSUME NEW caller \in Accounts, NEW next \in BOOLEAN, SetPaused(caller, next)
        PROVE  Step
    BY <2>4 DEF SetPaused
  <2>5. ASSUME NEW caller \in Accounts, NEW t \in Token, NEW amount \in Lots[t],
               Deposit(caller, t, amount)
        PROVE  Step
    <3>1. amount \in Nat /\ bal \in [Token -> Nat]
      BY InputsAssumption DEF TypeOK
    <3>2. bal' = [bal EXCEPT ![t] = @ + amount] /\ policy' = policy /\ paused' = paused
      BY <2>5 DEF Deposit
    <3>3. ASSUME NEW i \in Token
          PROVE  ~(bal'[i] < bal[i])
      BY <3>1, <3>2
    <3> QED BY <3>2, <3>3
  <2>6. ASSUME NEW caller \in Accounts, NEW t \in Token, NEW amount \in Lots[t],
               Withdraw(caller, t, amount)
        PROVE  Step
    BY <2>6 DEF Withdraw
  <2>7. ASSUME NEW c \in Calls, Rebalance(c)
        PROVE  Step
    <3>1. c.tokenIn \in Token /\ Other(c.tokenIn) \in Token
          /\ Token = {c.tokenIn, Other(c.tokenIn)}
      BY CallType DEF Other, Token
    <3>2. bal \in [Token -> Nat] /\ bal' \in [Token -> Nat]
      BY <2>7, RebalanceBalances DEF TypeOK
    <3>3. \A t \in Token : bal'[t] < bal[t] => t = c.tokenIn
      BY <2>7, <3>1, <3>2, RebalanceCost
    <3>4. soldOn'[Today] - soldOn[Today] = Notional(c)
      <4>1. Today \in Days
        BY TodayIsADay
      <4>2. soldOn[Today] \in Nat /\ soldOn'[Today] = soldOn[Today] + Notional(c)
            /\ Notional(c) \in Nat
        BY <2>7, <4>1, RebalanceLedger DEF TypeOK
      <4> QED BY <4>2
    <3>5. policy' = policy /\ paused' = paused /\ executionNonce' = executionNonce + 1
      BY <2>7 DEF Rebalance
    <3>6. \A i \in Token : Current(feed[i])
      BY <2>7, FreshIsCurrent DEF Rebalance
    <3> QED BY <2>7, <3>3, <3>4, <3>5, <3>6, RebalanceCost
  <2> QED BY <2>1, <2>2, <2>3, <2>4, <2>5, <2>6, <2>7 DEF Next
<1>2. VaultInv /\ [Next]_vars => VaultInv'
  BY VaultStep
<1> QED BY <1>1, <1>2, VaultInit, PTL DEF Spec, OperatorConfined

-----------------------------------------------------------------------------
(* The planner beside the contract: quotients, what a plan is, and that the *)
(* contract executes it.                                                   *)

\* Dividing by more gives no more; a quotient is bounded by its product.
LEMMA DivUpper ==
    ASSUME NEW n \in Nat, NEW d \in Nat \ {0}, NEW k \in Int, n < (k + 1) * d
    PROVE  n \div d <= k
<1>1. n \div d \in Nat /\ (n \div d) * d <= n
  BY DivBounds
<1>2. (n \div d) * d < (k + 1) * d
  <2>1. (n \div d) * d \in Int /\ (k + 1) * d \in Int
    BY <1>1
  <2> QED BY <1>1, <2>1
<1>3. n \div d < k + 1
  BY <1>1, <1>2, TimesCancel
<1> QED BY <1>1, <1>3

LEMMA DivLower ==
    ASSUME NEW n \in Nat, NEW d \in Nat \ {0}, NEW k \in Int, k * d <= n
    PROVE  k <= n \div d
<1>1. n \div d \in Nat /\ n < (n \div d) * d + d
  BY DivBounds
<1>2. (n \div d + 1) * d = (n \div d) * d + d
  <2>1. 1 * d = d
    OBVIOUS
  <2> QED BY <1>1, <2>1, TimesAssoc
<1>3. k * d < (n \div d + 1) * d
  <2>1. k * d \in Int /\ (n \div d) * d \in Int
    BY <1>1
  <2> QED BY <1>1, <1>2, <2>1
<1>4. k < n \div d + 1
  BY <1>1, <1>3, TimesCancel
<1> QED BY <1>1, <1>4

\* A plan that sells token 0 down to its target, within two roundings, misses
\* it by less than the drift before, if that is not as small as they are.
LEMMA OvershootDown ==
    ASSUME NEW x \in Nat, NEW total \in Nat \ {0}, NEW before \in Nat,
           NEW goal \in 1 .. BPS - 1, NEW least \in Nat \ {0}, NEW aim \in Nat,
           before * goal < aim * BPS + BPS, aim - 1 <= x, total <= before + 1,
           (least - 1) * before >= 3 * BPS
    PROVE  goal - (x * BPS) \div total < least
<1> DEFINE s == (x * BPS) \div total
<1>1. x * BPS \in Nat
  BY NatTimes DEF BPS
<1>2. s \in Nat /\ x * BPS < s * total + total
  BY <1>1, DivBounds
<1> HIDE DEF s
<1>3. goal - s < least
  <2> SUFFICES ASSUME s + 1 <= goal - least + 1
               PROVE  FALSE
    BY <1>2
  <2> DEFINE g == goal - least + 1
  <2>1. g \in Nat /\ s + 1 \in Nat /\ s + 1 <= g
    BY <1>2 DEF BPS
  <2>2. (s + 1) * total <= g * total
    BY <2>1, TimesMonotonic
  <2>3. total * g <= (before + 1) * g
    BY <2>1, TimesMonotonic
  <2>4. (before + 1) * g = before * goal - (least - 1) * before + g
    BY <2>1, SMT
  <2>5. s * total + total = (s + 1) * total /\ g * total = total * g
    BY <1>2, <2>1, SMT
  <2>6. s * total \in Int /\ before * goal \in Int /\ (least - 1) * before \in Int
        /\ g * total \in Int
    BY <1>2, <2>1
  <2>7. g <= BPS
    BY DEF BPS
  <2> HIDE DEF g
  <2>8. x * BPS < before * goal - 3 * BPS + BPS
    <3>1. x * BPS < before * goal - (least - 1) * before + g
      BY <1>1, <1>2, <2>1, <2>2, <2>3, <2>4, <2>5, <2>6
    <3> QED BY <1>1, <2>1, <2>6, <2>7, <3>1 DEF BPS
  <2>9. before * goal < x * BPS + 2 * BPS
    BY <1>1, <2>6 DEF BPS
  <2> QED BY <1>1, <2>6, <2>8, <2>9 DEF BPS
<1> QED BY <1>3 DEF s

\* The same of a plan that buys token 0 up to its target.
LEMMA OvershootUp ==
    ASSUME NEW x \in Nat, NEW y \in Nat, x + y # 0, NEW before \in Nat,
           NEW goal \in 1 .. BPS - 1, NEW least \in Nat \ {0}, NEW aim \in Nat,
           aim * BPS <= before * goal, x <= aim + 1, before - aim - 1 <= y,
           (least - 1) * before >= 3 * BPS
    PROVE  (x * BPS) \div (x + y) - goal < least
<1> DEFINE s == (x * BPS) \div (x + y)
           k == goal + least
<1>1. x * BPS \in Nat /\ x + y \in Nat \ {0}
  BY NatTimes DEF BPS
<1>2. s \in Nat /\ s * (x + y) <= x * BPS
  BY <1>1, DivBounds
<1>3. k \in Nat /\ BPS \in Nat
  BY DEF BPS
<1>4. s <= BPS
  <2>1. x * BPS < (BPS + 1) * (x + y)
    <3>1. (BPS + 1) * (x + y) = x * BPS + y * BPS + (x + y)
      BY <1>3, SMT
    <3>2. y * BPS \in Nat
      BY <1>3, NatTimes
    <3> QED BY <1>1, <3>1, <3>2
  <2> QED BY <1>1, <1>3, <2>1, DivUpper
<1> HIDE DEF s
<1>5. s - goal < least
  <2> SUFFICES ASSUME k <= s
               PROVE  FALSE
    BY <1>2
  <2>1. BPS - k \in Nat
    BY <1>2, <1>3, <1>4
  <2> HIDE DEF k
  <2>2. k * (x + y) <= s * (x + y)
    BY <1>1, <1>2, <1>3, TimesMonotonic
  <2>3. x * (BPS - k) <= (aim + 1) * (BPS - k)
    BY <2>1, TimesMonotonic
  <2>4. (before - aim - 1) * k <= y * k
    BY <1>3, TimesMonotonic
  <2>5. /\ k * (x + y) = x * k + y * k
        /\ x * (BPS - k) = x * BPS - x * k
        /\ (aim + 1) * (BPS - k) = aim * BPS + BPS - aim * k - k
        /\ (before - aim - 1) * k = before * k - aim * k - k
    BY <1>3, SMT
  <2>6. /\ x * k \in Int /\ y * k \in Int /\ x * BPS \in Int /\ aim * BPS \in Int
        /\ aim * k \in Int /\ before * k \in Int /\ before * goal \in Int
        /\ k * (x + y) \in Int /\ s * (x + y) \in Int
    BY <1>2, <1>3
  <2>7. before * k <= before * goal + BPS
    BY <1>1, <1>2, <1>3, <2>2, <2>3, <2>4, <2>5, <2>6
  <2>8. before * k = before * goal + (least - 1) * before + before
    BY SMT DEF k
  <2>9. (least - 1) * before \in Int
    OBVIOUS
  <2> QED BY <2>6, <2>7, <2>8, <2>9 DEF BPS
<1> QED BY <1>5 DEF s

\* More of token 1 lowers the share of token 0, more of token 0 raises it.
LEMMA ShareFalls ==
    ASSUME NEW x \in Nat, NEW y \in Nat, NEW z \in Nat, y <= z, x + y # 0
    PROVE  (x * BPS) \div (x + z) <= (x * BPS) \div (x + y)
<1> DEFINE s == (x * BPS) \div (x + y)
<1>1. x * BPS \in Nat /\ x + y \in Nat \ {0} /\ x + z \in Nat \ {0}
  BY NatTimes DEF BPS
<1>2. s \in Nat /\ x * BPS < s * (x + y) + (x + y)
  BY <1>1, DivBounds
<1> HIDE DEF s
<1>3. (x + y) * (s + 1) <= (x + z) * (s + 1)
  BY <1>1, <1>2, TimesMonotonic
<1>4. s * (x + y) + (x + y) = (x + y) * (s + 1) /\ (x + z) * (s + 1) = (s + 1) * (x + z)
  BY <1>2, SMT
<1>5. x * BPS < (s + 1) * (x + z)
  <2>1. (x + y) * (s + 1) \in Int /\ (s + 1) * (x + z) \in Int
    BY <1>2
  <2> QED BY <1>1, <1>2, <1>3, <1>4, <2>1
<1>6. (x * BPS) \div (x + z) <= s
  BY <1>1, <1>2, <1>5, DivUpper
<1> QED BY <1>6 DEF s

LEMMA ShareRises ==
    ASSUME NEW x \in Nat, NEW y \in Nat, NEW z \in Nat, x <= z, x + y # 0
    PROVE  (x * BPS) \div (x + y) <= (z * BPS) \div (z + y)
<1> DEFINE s == (x * BPS) \div (x + y)
<1>1. /\ x * BPS \in Nat /\ z * BPS \in Nat
      /\ x + y \in Nat \ {0} /\ z + y \in Nat \ {0} /\ BPS \in Nat
  BY NatTimes DEF BPS
<1>2. s \in Nat /\ s * (x + y) <= x * BPS
  BY <1>1, DivBounds
<1>3. s <= BPS
  <2>1. x * BPS < (BPS + 1) * (x + y)
    <3>1. (BPS + 1) * (x + y) = x * BPS + y * BPS + (x + y)
      BY <1>1, SMT
    <3>2. y * BPS \in Nat
      BY <1>1, NatTimes
    <3> QED BY <1>1, <3>1, <3>2
  <2> QED BY <1>1, <2>1, DivUpper
<1> HIDE DEF s
<1>4. s * (z + y) = s * (x + y) + s * (z - x) /\ z * BPS = x * BPS + BPS * (z - x)
  BY <1>1, <1>2, SMT
<1>5. s * (z - x) <= BPS * (z - x)
  BY <1>1, <1>2, <1>3, TimesMonotonic
<1>6. s * (z + y) <= z * BPS
  <2>1. s * (x + y) \in Int /\ s * (z - x) \in Int /\ BPS * (z - x) \in Int
    BY <1>1, <1>2
  <2> QED BY <1>1, <1>2, <1>4, <1>5, <2>1
<1>7. s <= (z * BPS) \div (z + y)
  BY <1>1, <1>2, <1>6, DivLower
<1> QED BY <1>7 DEF s

\* Min and Max of what the planner compares.
LEMMA MinOfThree ==
    ASSUME NEW a \in Int, NEW b \in Int, NEW c \in Int
    PROVE  /\ Min({a, b, c}) \in {a, b, c}
           /\ Min({a, b, c}) <= a /\ Min({a, b, c}) <= b /\ Min({a, b, c}) <= c
<1>1. \E x \in {a, b, c} : \A y \in {a, b, c} : x <= y
  OBVIOUS
<1> QED BY <1>1 DEF Min

LEMMA MaxOfTwo ==
    ASSUME NEW a \in Int, NEW b \in Int
    PROVE  Max({a, b}) \in {a, b} /\ Max({a, b}) >= a /\ Max({a, b}) >= b
<1>1. \E x \in {a, b} : \A y \in {a, b} : x >= y
  OBVIOUS
<1> QED BY <1>1 DEF Max

-----------------------------------------------------------------------------
(* A plan. *)

\* What the planner sells, and the balances after it.
Sold == (NotionalCap * Unit[TokenIn]) \div Price(TokenIn)
After(paid) == [bal EXCEPT ![TokenIn] = @ - Sold, ![Other(TokenIn)] = @ + paid]

Aim == (Total(bal) * policy.targetToken0Bps) \div BPS

LEMMA PlannableValues ==
    ASSUME TypeOK, Plannable
    PROVE  /\ TokenIn \in Token /\ Other(TokenIn) \in Token /\ TokenIn # Other(TokenIn)
           /\ \A t \in Token : Price(t) \in Nat \ {0} /\ Unit[t] \in Nat \ {0} /\ bal[t] \in Nat
                               /\ Value(t, bal[t]) \in Nat
           /\ Total(bal) \in Nat \ {0}
           /\ Total(bal) = Value(0, bal[0]) + Value(1, bal[1])
           /\ policy.targetToken0Bps \in 1 .. BPS - 1
           /\ AlreadySpent \in Nat /\ policy.maxDailyUsd \in Nat /\ policy.maxActionUsd \in Nat
<1>1. TokenIn \in Token /\ Other(TokenIn) \in Token /\ TokenIn # Other(TokenIn)
  BY DEF TokenIn, Other, Token
<1>2. ASSUME NEW t \in Token
      PROVE  Price(t) \in Nat \ {0} /\ Unit[t] \in Nat \ {0} /\ bal[t] \in Nat
             /\ Value(t, bal[t]) \in Nat
  <2>1. Price(t) \in Nat \ {0}
    BY FreshPrice DEF Plannable
  <2>2. bal[t] \in Nat
    BY DEF TypeOK
  <2> QED BY <2>1, <2>2, ScaleAssumption, ValueIsNat
<1>3. Total(bal) = Value(0, bal[0]) + Value(1, bal[1])
  BY DEF Total
<1>4. Total(bal) \in Nat \ {0}
  <2>1. Value(0, bal[0]) \in Nat /\ Value(1, bal[1]) \in Nat
    BY <1>2 DEF Token
  <2> QED BY <1>3, <2>1 DEF Plannable
<1>5. policy.targetToken0Bps \in 1 .. BPS - 1
  <2>1. /\ policy.targetToken0Bps \in Nat
        /\ policy.targetToken0Bps # 0 /\ policy.targetToken0Bps < BPS
    BY DEF TypeOK, ValidPolicy, PolicyType
  <2>2. \A n \in Nat : n # 0 /\ n < BPS => n \in 1 .. BPS - 1
    BY DEF BPS
  <2> QED BY <2>1, <2>2
<1>6. AlreadySpent \in Nat /\ policy.maxDailyUsd \in Nat /\ policy.maxActionUsd \in Nat
  BY DEF TypeOK, PolicyType, AlreadySpent
<1> QED BY <1>1, <1>2, <1>3, <1>4, <1>5, <1>6

\* The excess of a plannable vault is part of what it holds of the token it
\* sells, and the target is what the sale of all of it would leave.
LEMMA ExcessIs ==
    ASSUME TypeOK, Plannable
    PROVE  /\ Excess \in Nat /\ Aim \in Nat
           /\ Excess <= Value(TokenIn, bal[TokenIn])
           /\ Aim * BPS <= Total(bal) * policy.targetToken0Bps
           /\ Total(bal) * policy.targetToken0Bps < Aim * BPS + BPS
           /\ TokenIn = 0 => /\ Value(0, bal[0]) = Aim + Excess
                             /\ Share(bal) > policy.targetToken0Bps
           /\ TokenIn = 1 => /\ Aim = Value(0, bal[0]) + Excess
                             /\ Share(bal) < policy.targetToken0Bps
<1> DEFINE T == Total(bal)
           goal == policy.targetToken0Bps
           v == Value(0, bal[0])
           w == Value(1, bal[1])
           share == Share(bal)
<1>1. /\ T \in Nat \ {0} /\ T = v + w /\ goal \in 1 .. BPS - 1
      /\ v \in Nat /\ w \in Nat /\ goal \in Nat
  BY PlannableValues DEF Token
<1>2. T * goal \in Nat /\ v * BPS \in Nat /\ BPS \in Nat \ {0}
  BY <1>1, NatTimes DEF BPS
<1>3. Aim \in Nat /\ Aim * BPS <= T * goal /\ T * goal < Aim * BPS + BPS
  BY <1>2, DivBounds DEF Aim
<1>4. share \in Nat /\ share * T <= v * BPS /\ v * BPS < share * T + T
  BY <1>1, <1>2, DivBounds DEF Share
<1>5. TokenIn = 0 <=> share > goal
  BY DEF TokenIn
<1>6. TokenIn # 0 => TokenIn = 1 /\ share < goal
  <2>1. Drift(bal) >= 1
    <3>1. MinimumDrift \in Int /\ MinimumDrift >= 1
      BY PlannerAssumption DEF BPS
    <3>2. Drift(bal) >= MinimumDrift
      BY DEF Plannable
    <3>3. Drift(bal) \in Int
      BY <1>1, <1>4 DEF Drift
    <3> QED BY <3>1, <3>2, <3>3
  <2> QED BY <1>1, <1>4, <2>1 DEF Drift, TokenIn
<1>7. Excess = IF TokenIn = 0 THEN v - Aim ELSE Aim - v
  BY DEF Excess, Aim
<1> HIDE DEF T, goal, v, w, share
<1>8. CASE TokenIn = 0
  <2>1. goal + 1 <= share
    BY <1>1, <1>4, <1>5, <1>8
  <2>2. (goal + 1) * T <= share * T
    BY <1>1, <1>4, <2>1, TimesMonotonic
  <2>3. (goal + 1) * T = T * goal + T /\ share * T \in Int
    BY <1>1, <1>4, SMT
  <2>4. Aim * BPS < v * BPS
    BY <1>1, <1>2, <1>3, <1>4, <2>2, <2>3
  <2>5. Aim < v
    BY <1>1, <1>2, <1>3, <2>4, TimesCancel
  <2> QED BY <1>1, <1>3, <1>5, <1>7, <1>8, <2>5 DEF T, goal, v, w, share
<1>9. CASE TokenIn # 0
  <2>1. share + 1 <= goal
    BY <1>1, <1>4, <1>6, <1>9
  <2>2. (share + 1) * T <= goal * T
    BY <1>1, <1>4, <2>1, TimesMonotonic
  <2>3. (share + 1) * T = share * T + T /\ goal * T = T * goal /\ share * T \in Int
    BY <1>1, <1>4, SMT
  <2>4. v * BPS < (Aim + 1) * BPS
    <3>1. (Aim + 1) * BPS = Aim * BPS + BPS /\ Aim * BPS \in Int
      BY <1>2, <1>3, SMT
    <3> QED BY <1>1, <1>2, <1>3, <1>4, <2>2, <2>3, <3>1
  <2>5. v < Aim + 1
    BY <1>1, <1>2, <1>3, <2>4, TimesCancel
  <2>6. Aim <= T
    <3>1. goal * T <= BPS * T
      <4>1. goal \in Int /\ goal <= BPS /\ BPS \in Int
        BY <1>1 DEF BPS
      <4> QED BY <1>1, <4>1, TimesMonotonic
    <3>2. BPS * T < (T + 1) * BPS
      BY <1>1 DEF BPS
    <3>3. Aim * BPS < (T + 1) * BPS
      <4>1. BPS * T \in Int /\ (T + 1) * BPS \in Int /\ Aim * BPS \in Int
        BY <1>1, <1>2, <1>3
      <4> QED BY <1>2, <1>3, <2>3, <3>1, <3>2, <4>1
    <3>4. Aim < T + 1
      BY <1>1, <1>2, <1>3, <3>3, TimesCancel
    <3> QED BY <1>1, <1>3, <3>4
  <2> QED BY <1>1, <1>3, <1>6, <1>7, <1>9, <2>5, <2>6 DEF T, goal, v, w, share
<1> QED BY <1>8, <1>9

\* The sale is within the excess and the limits, and within the balance.
LEMMA SaleIs ==
    ASSUME TypeOK, Plannable
    PROVE  /\ NotionalCap \in Nat /\ NotionalCap <= Excess
           /\ NotionalCap <= policy.maxDailyUsd - AlreadySpent
           /\ NotionalCap <= policy.maxActionUsd
           /\ Sold \in Nat /\ Sold <= bal[TokenIn]
           /\ Value(TokenIn, Sold) \in Nat /\ Value(TokenIn, Sold) <= NotionalCap
<1> DEFINE t == TokenIn
           price == Price(t)
           unit == Unit[t]
<1>1. t \in Token /\ price \in Nat \ {0} /\ unit \in Nat \ {0} /\ bal[t] \in Nat
      /\ AlreadySpent \in Nat /\ policy.maxDailyUsd \in Nat /\ policy.maxActionUsd \in Nat
  BY PlannableValues
<1>2. Excess \in Nat /\ Excess <= Value(t, bal[t]) /\ Value(t, bal[t]) \in Nat
  BY <1>1, ExcessIs, PlannableValues
<1>3. /\ NotionalCap \in {Excess, policy.maxDailyUsd - AlreadySpent, policy.maxActionUsd}
      /\ NotionalCap <= Excess
      /\ NotionalCap <= policy.maxDailyUsd - AlreadySpent
      /\ NotionalCap <= policy.maxActionUsd
  <2>1. policy.maxDailyUsd - AlreadySpent \in Int /\ policy.maxActionUsd \in Int /\ Excess \in Int
    BY <1>1, <1>2
  <2> QED BY <2>1, MinOfThree DEF NotionalCap
<1>4. NotionalCap \in Nat
  BY <1>1, <1>2, <1>3 DEF Plannable
<1>5. NotionalCap * unit \in Nat /\ bal[t] * price \in Nat
  BY <1>1, <1>4, NatTimes
<1>6. Sold \in Nat /\ Sold * price <= NotionalCap * unit
  BY <1>1, <1>5, DivBounds DEF Sold
<1>7. Sold * price \in Nat
  BY <1>1, <1>6, NatTimes
<1>8. Value(t, Sold) \in Nat /\ Value(t, Sold) <= NotionalCap
  <2>1. (NotionalCap + 1) * unit = NotionalCap * unit + unit
    <3>1. unit \in Int /\ NotionalCap \in Int /\ 1 * unit = unit
      BY <1>1, <1>4
    <3> QED BY <3>1, TimesAssoc
  <2>2. Sold * price < (NotionalCap + 1) * unit
    BY <1>1, <1>5, <1>6, <1>7, <2>1
  <2> QED BY <1>1, <1>4, <1>7, <2>2, DivBounds, DivUpper DEF Value
<1>9. Sold <= bal[t]
  <2>1. NotionalCap * unit <= Value(t, bal[t]) * unit
    BY <1>1, <1>2, <1>3, <1>4, TimesMonotonic
  <2>2. Value(t, bal[t]) * unit <= bal[t] * price
    BY <1>1, <1>5, DivBounds DEF Value
  <2>3. (bal[t] + 1) * price = bal[t] * price + price
    BY <1>1, SMT
  <2>4. Value(t, bal[t]) * unit \in Int
    BY <1>1, <1>2
  <2>5. Sold * price < (bal[t] + 1) * price
    BY <1>1, <1>5, <1>6, <1>7, <2>1, <2>2, <2>3, <2>4
  <2>6. Sold < bal[t] + 1
    BY <1>1, <1>6, <2>5, TimesCancel
  <2> QED BY <1>1, <1>6, <2>6
<1> QED BY <1>3, <1>4, <1>6, <1>8, <1>9

\* Three units on the USD scale (1e-18 of a dollar each): what the plan sells is
\* worth as much, and so is the drift, less one basis point, of the whole vault.
AboveDust ==
    /\ Value(TokenIn, Sold) >= 3
    /\ (Drift(bal) - 1) * Total(bal) >= 3 * BPS

FloorOf(value, t) ==
    CeilDiv(((value * Unit[t]) \div Price(t)) * (BPS - policy.maxSlippageBps), BPS)

\* The fields of a plan (proposeRebalance); its floor is no lower than the
\* contract's own.
LEMMA PlanIs ==
    ASSUME TypeOK, Plannable, NEW caller, NEW quote \in Nat
    PROVE  LET plan == Plan(caller, quote)
           IN  /\ plan.sender = caller /\ plan.tokenIn = TokenIn /\ plan.amountIn = Sold
               /\ plan.deadline = now + PlanWindow /\ plan.expectedNonce = executionNonce
               /\ Notional(plan) = Value(TokenIn, Sold)
               /\ OracleFloor(plan) = FloorOf(Value(TokenIn, Sold), Other(TokenIn))
               /\ OracleFloor(plan) \in Nat
               /\ plan.minAmountOut \in Nat /\ plan.minAmountOut >= OracleFloor(plan)
<1> DEFINE o == Other(TokenIn)
           floor == FloorOf(Value(TokenIn, Sold), o)
           sale == [sender |-> caller, tokenIn |-> TokenIn, amountIn |-> Sold,
                    minAmountOut |-> 0, deadline |-> now + PlanWindow,
                    expectedNonce |-> executionNonce]
           quoteFloor == (quote * (BPS - policy.maxSlippageBps)) \div BPS
           plan == [sale EXCEPT !.minAmountOut = Max({OracleFloor(sale), quoteFloor})]
<1>1. Plan(caller, quote) = plan
  BY DEF Plan, Sold
<1>2. OracleFloor(sale) = floor
  BY DEF OracleFloor, Notional, FloorOf
<1>3. BPS - policy.maxSlippageBps \in Nat /\ BPS \in Nat \ {0}
  <2>1. policy.maxSlippageBps \in Nat /\ policy.maxSlippageBps <= MaxSlippage
    BY DEF TypeOK, PolicyType, ValidPolicy
  <2>2. \A n \in Nat : n <= MaxSlippage => BPS - n \in Nat
    BY DEF BPS, MaxSlippage
  <2> QED BY <2>1, <2>2 DEF BPS
<1>4. floor \in Nat
  <2>1. Value(TokenIn, Sold) \in Nat /\ Unit[o] \in Nat \ {0} /\ Price(o) \in Nat \ {0}
    BY SaleIs, PlannableValues
  <2>2. Value(TokenIn, Sold) * Unit[o] \in Nat
    BY <2>1, NatTimes
  <2>3. (Value(TokenIn, Sold) * Unit[o]) \div Price(o) \in Nat
    BY <2>1, <2>2, DivBounds
  <2>4. ((Value(TokenIn, Sold) * Unit[o]) \div Price(o)) * (BPS - policy.maxSlippageBps) \in Nat
    BY <1>3, <2>3, NatTimes
  <2> QED BY <1>3, <2>4, CeilDivBounds DEF FloorOf
<1>5. quoteFloor \in Nat
  <2>1. quote * (BPS - policy.maxSlippageBps) \in Nat
    BY <1>3, NatTimes
  <2> QED BY <1>3, <2>1, DivBounds
<1> HIDE DEF floor, quoteFloor
<1>6. Max({OracleFloor(sale), quoteFloor}) \in Nat
      /\ Max({OracleFloor(sale), quoteFloor}) >= floor
  <2>1. floor \in Int /\ quoteFloor \in Int
    BY <1>4, <1>5
  <2> HIDE DEF sale
  <2>2. Max({floor, quoteFloor}) \in {floor, quoteFloor} /\ Max({floor, quoteFloor}) >= floor
    BY <2>1, MaxOfTwo
  <2> QED BY <1>2, <1>4, <1>5, <2>2
<1> HIDE DEF sale
<1>7. /\ plan.sender = caller /\ plan.tokenIn = TokenIn /\ plan.amountIn = Sold
      /\ plan.deadline = now + PlanWindow /\ plan.expectedNonce = executionNonce
      /\ plan.minAmountOut = Max({OracleFloor(sale), quoteFloor})
  BY DEF sale
<1> HIDE DEF plan
<1>8. Notional(plan) = Value(TokenIn, Sold)
  BY <1>7 DEF Notional
<1>9. OracleFloor(plan) = floor
  BY <1>7, <1>8 DEF OracleFloor, FloorOf, floor
<1>10. OracleFloor(plan) \in Nat /\ plan.minAmountOut \in Nat
       /\ plan.minAmountOut >= OracleFloor(plan)
  BY <1>4, <1>6, <1>7, <1>9
<1> QED BY <1>1, <1>7, <1>8, <1>9, <1>10 DEF floor

\* The balances after the sale and their values, up to one unit each.
LEMMA AfterIs ==
    ASSUME TypeOK, Plannable, NEW paid \in Nat
    PROVE  LET t == TokenIn
               o == Other(TokenIn)
               after == After(paid)
           IN  /\ \A i \in Token : Value(i, after[i]) \in Nat
               /\ Total(after) = Value(0, after[0]) + Value(1, after[1])
               /\ Value(t, after[t]) + Value(t, Sold) <= Value(t, bal[t])
               /\ Value(t, bal[t]) <= Value(t, after[t]) + Value(t, Sold) + 1
               /\ Value(o, paid) \in Nat
               /\ Value(o, bal[o]) + Value(o, paid) <= Value(o, after[o])
               /\ Value(o, after[o]) <= Value(o, bal[o]) + Value(o, paid) + 1
<1> DEFINE t == TokenIn
           o == Other(TokenIn)
           after == After(paid)
<1>1. t \in Token /\ o \in Token /\ t # o /\ bal \in [Token -> Nat]
  BY PlannableValues DEF TypeOK
<1>2. Sold \in Nat /\ Sold <= bal[t]
  BY SaleIs
<1>3. after[t] = bal[t] - Sold /\ after[o] = bal[o] + paid
  BY <1>1 DEF After
<1>4. bal[t] \in Nat /\ bal[o] \in Nat /\ after[t] \in Nat /\ after[o] \in Nat
      /\ bal[t] = after[t] + Sold
  BY <1>1, <1>2, <1>3
<1>5. Price(t) \in Nat \ {0} /\ Price(o) \in Nat \ {0}
  BY <1>1, PlannableValues
<1> HIDE DEF after
<1>6. /\ Value(t, after[t]) \in Nat
      /\ Value(t, after[t]) + Value(t, Sold) <= Value(t, bal[t])
      /\ Value(t, bal[t]) <= Value(t, after[t]) + Value(t, Sold) + 1
  BY <1>1, <1>2, <1>4, <1>5, ValueSplits
<1>7. /\ Value(o, paid) \in Nat /\ Value(o, after[o]) \in Nat
      /\ Value(o, bal[o]) + Value(o, paid) <= Value(o, after[o])
      /\ Value(o, after[o]) <= Value(o, bal[o]) + Value(o, paid) + 1
  BY <1>1, <1>3, <1>4, <1>5, ValueSplits
<1>8. \A i \in Token : i = t \/ i = o
  BY <1>1 DEF Token
<1>9. Total(after) = Value(0, after[0]) + Value(1, after[1])
  BY DEF Total
<1> QED BY <1>6, <1>7, <1>8, <1>9 DEF after

\* What is paid for a plan is worth something.
LEMMA PaidIsWorth ==
    ASSUME TypeOK, Plannable, AboveDust, NEW paid \in Nat \ {0},
           paid >= FloorOf(Value(TokenIn, Sold), Other(TokenIn))
    PROVE  Value(Other(TokenIn), paid) >= 1
<1> DEFINE o == Other(TokenIn)
           sold == Value(TokenIn, Sold)
           got == Value(o, paid)
           price == Price(o)
           unit == Unit[o]
           slip == policy.maxSlippageBps
<1>1. price \in Nat \ {0} /\ unit \in Nat \ {0}
  BY PlannableValues
<1>2. sold \in Nat /\ sold >= 3
  BY SaleIs DEF AboveDust
<1>3. slip \in Nat /\ slip <= 500
  BY DEF TypeOK, PolicyType, ValidPolicy, MaxSlippage
<1>4. paid * price \in Nat /\ got = (paid * price) \div unit
  BY <1>1, NatTimes DEF Value
<1>5. got \in Nat
  BY <1>1, <1>4, DivBounds
<1>6. BPS * (sold - got) <= sold * slip + BPS * (1 + CeilDiv(price, unit))
  <2>1. \A n \in Nat : n <= 500 => n \in 0 .. BPS
    BY DEF BPS
  <2> HIDE DEF sold
  <2>2. slip \in 0 .. BPS
    BY <1>3, <2>1
  <2>3. paid >= CeilDiv(((sold * unit) \div price) * (BPS - slip), BPS)
    BY DEF FloorOf, sold
  <2> QED BY <1>1, <1>2, <1>4, <2>2, <2>3, FloorKeepsValue
<1> HIDE DEF o, sold, got, price, unit, slip
<1>7. CASE unit <= price
  <2>1. price <= paid * price
    <3>1. 1 * price <= paid * price
      BY <1>1, TimesMonotonic
    <3> QED BY <1>1, <3>1
  <2>2. 1 * unit <= paid * price
    BY <1>1, <1>4, <1>7, <2>1
  <2>3. 1 <= got
    BY <1>1, <1>4, <2>2, DivLower
  <2> QED BY <2>3 DEF got, o
<1>8. CASE price < unit
  <2>1. CeilDiv(price, unit) <= 1
    <3>1. price + unit - 1 \in Nat /\ price + unit - 1 < (1 + 1) * unit
      BY <1>1, <1>8
    <3> QED BY <1>1, <3>1, DivUpper DEF CeilDiv
  <2>2. CeilDiv(price, unit) \in Nat
    BY <1>1, CeilDivBounds
  <2>3. slip * sold <= 500 * sold
    BY <1>2, <1>3, TimesMonotonic
  <2>4. slip * sold = sold * slip /\ sold * slip \in Int
    BY <1>2, <1>3
  <2>5. 1 <= got
    BY <1>2, <1>5, <1>6, <2>1, <2>2, <2>3, <2>4 DEF BPS
  <2> QED BY <2>5 DEF got, o
<1> QED BY <1>1, <1>7, <1>8

-----------------------------------------------------------------------------
\* The drift by the side of the target that the share is on (driftBps).
LEMMA DriftIs ==
    ASSUME NEW b
    PROVE  /\ Share(b) > policy.targetToken0Bps =>
                 Drift(b) = Share(b) - policy.targetToken0Bps
           /\ ~(Share(b) > policy.targetToken0Bps) =>
                 Drift(b) = policy.targetToken0Bps - Share(b)
BY DEF Drift

\* Whatever between the floor and the oracle's price is paid for a plan whose
\* floor lowers the drift, the drift falls.
LEMMA DriftFalls ==
    ASSUME TypeOK, Plannable, AboveDust, NEW floor \in Nat \ {0}, NEW paid \in Nat \ {0},
           floor <= paid, Total(After(floor)) # 0,
           Drift(After(floor)) < Drift(bal),
           Value(Other(TokenIn), paid) <= Value(TokenIn, Sold)
    PROVE  Drift(After(paid)) < Drift(bal)
<1> DEFINE goal == policy.targetToken0Bps
           x == Value(0, After(paid)[0])
           y == Value(1, After(paid)[1])
           lowX == Value(0, After(floor)[0])
           lowY == Value(1, After(floor)[1])
           share == (x * BPS) \div (x + y)
           lowShare == (lowX * BPS) \div (lowX + lowY)
           before == Share(bal)
           T == Total(bal)
           drift == Drift(bal)
<1>1. /\ x \in Nat /\ y \in Nat /\ lowX \in Nat /\ lowY \in Nat
      /\ Total(After(paid)) = x + y /\ Total(After(floor)) = lowX + lowY
  BY AfterIs DEF Token
<1>2. /\ Share(After(paid)) = share /\ Share(After(floor)) = lowShare
  BY <1>1 DEF Share
<1>3. lowX + lowY # 0
  BY <1>1
<1>4. /\ goal \in 1 .. BPS - 1 /\ goal \in Nat /\ T \in Nat \ {0}
      /\ T = Value(0, bal[0]) + Value(1, bal[1])
      /\ Value(0, bal[0]) \in Nat /\ Value(1, bal[1]) \in Nat
  BY PlannableValues DEF Token
<1>5. (drift - 1) * T >= 3 * BPS
  BY DEF AboveDust
<1>6. before \in Nat
  <2>1. Value(0, bal[0]) * BPS \in Nat
    BY <1>4, NatTimes DEF BPS
  <2> QED BY <1>4, <2>1, DivBounds DEF Share
<1>7. /\ Excess \in Nat /\ Aim \in Nat
      /\ Aim * BPS <= T * goal /\ T * goal < Aim * BPS + BPS
  BY ExcessIs
<1>8. Value(TokenIn, Sold) \in Nat /\ Value(TokenIn, Sold) <= Excess
  <2>1. /\ Value(TokenIn, Sold) \in Nat /\ Value(TokenIn, Sold) <= NotionalCap
        /\ NotionalCap \in Nat /\ NotionalCap <= Excess
    BY SaleIs
  <2> QED BY <1>7, <2>1
<1>9. /\ share > goal => Drift(After(paid)) = share - goal
      /\ ~(share > goal) => Drift(After(paid)) = goal - share
      /\ lowShare > goal => Drift(After(floor)) = lowShare - goal
      /\ ~(lowShare > goal) => Drift(After(floor)) = goal - lowShare
      /\ before > goal => drift = before - goal
      /\ ~(before > goal) => drift = goal - before
  <2> HIDE DEF share, lowShare
  <2> QED BY <1>2, DriftIs
<1>10. drift \in Nat \ {0}
  <2>1. drift \in Nat
    BY <1>4, <1>6, <1>9
  <2>2. MinimumDrift \in Int /\ MinimumDrift >= 1 /\ drift >= MinimumDrift
    BY PlannerAssumption DEF BPS, Plannable
  <2> QED BY <2>1, <2>2
<1>11. lowShare \in Nat
  <2>1. lowX * BPS \in Nat /\ lowX + lowY \in Nat \ {0}
    BY <1>1, <1>3, NatTimes DEF BPS
  <2> QED BY <2>1, DivBounds
<1>12. x + y # 0 => share \in Nat
  <2>1. x * BPS \in Nat /\ x + y \in Nat
    BY <1>1, NatTimes DEF BPS
  <2> QED BY <2>1, DivBounds
<1>13. CASE TokenIn = 0
  <2>1. Other(TokenIn) = 1
    BY <1>13 DEF Other
  <2>2. bal \in [Token -> Nat] /\ Sold \in Nat
    BY SaleIs DEF TypeOK
  <2>3. lowX = x
    <3>1. After(paid)[0] = bal[0] - Sold /\ After(floor)[0] = bal[0] - Sold
      BY <1>13, <2>1, <2>2 DEF After, Token
    <3> QED BY <3>1
  <2>4. lowY <= y
    <3>1. After(paid)[1] = After(floor)[1] + (paid - floor) /\ After(floor)[1] \in Nat
          /\ paid - floor \in Nat
      BY <1>13, <2>1, <2>2 DEF After, Token
    <3>2. Price(1) \in Nat \ {0} /\ 1 \in Token
      BY PlannableValues DEF Token
    <3>3. /\ lowY + Value(1, paid - floor) <= y /\ Value(1, paid - floor) \in Nat
      BY <3>1, <3>2, ValueSplits
    <3> QED BY <1>1, <3>3
  <2>5. share <= lowShare /\ share \in Nat
    <3>1. x + lowY # 0 /\ x + y # 0
      BY <1>1, <1>3, <2>3, <2>4
    <3>2. share \in Nat
      BY <1>12, <3>1
    <3> HIDE DEF x, y, lowX, lowY
    <3>3. (x * BPS) \div (x + y) <= (x * BPS) \div (x + lowY)
      BY <1>1, <2>4, <3>1, ShareFalls
    <3> QED BY <2>3, <3>2, <3>3
  <2>6. goal - share < drift
    <3>1. Aim - 1 <= x /\ x + y <= T + 1 /\ x + y \in Nat \ {0}
      <4>1. /\ x + Value(0, Sold) <= Value(0, bal[0])
            /\ Value(0, bal[0]) <= x + Value(0, Sold) + 1
            /\ y <= Value(1, bal[1]) + Value(1, paid) + 1
            /\ Value(1, paid) \in Nat /\ Value(1, paid) <= Value(0, Sold)
        BY <1>13, <2>1, AfterIs
      <4>2. Value(0, bal[0]) = Aim + Excess
        BY <1>13, ExcessIs
      <4>3. x + y # 0
        BY <1>1, <1>3, <2>3, <2>4
      <4> HIDE DEF x, y, T
      <4> QED BY <1>1, <1>4, <1>7, <1>8, <1>13, <4>1, <4>2, <4>3
    <3> HIDE DEF x, y, T, goal, drift
    <3> QED BY <1>1, <1>4, <1>10, <1>5, <1>7, <3>1, OvershootDown
  <2>7. before > goal
    BY <1>13, ExcessIs
  <2>8. Drift(After(floor)) < drift
    OBVIOUS
  <2> HIDE DEF share, lowShare, before, goal, drift
  <2>9. Drift(After(paid)) < drift
    BY <1>4, <1>6, <1>9, <1>10, <1>11, <2>5, <2>6, <2>7, <2>8
  <2> QED BY <2>9 DEF drift
<1>14. CASE TokenIn = 1
  <2>1. Other(TokenIn) = 0
    BY <1>14 DEF Other
  <2>2. bal \in [Token -> Nat] /\ Sold \in Nat
    BY SaleIs DEF TypeOK
  <2>3. lowY = y
    <3>1. After(paid)[1] = bal[1] - Sold /\ After(floor)[1] = bal[1] - Sold
      BY <1>14, <2>1, <2>2 DEF After, Token
    <3> QED BY <3>1
  <2>4. lowX <= x
    <3>1. After(paid)[0] = After(floor)[0] + (paid - floor) /\ After(floor)[0] \in Nat
          /\ paid - floor \in Nat
      BY <1>14, <2>1, <2>2 DEF After, Token
    <3>2. Price(0) \in Nat \ {0} /\ 0 \in Token
      BY PlannableValues DEF Token
    <3>3. /\ lowX + Value(0, paid - floor) <= x /\ Value(0, paid - floor) \in Nat
      BY <3>1, <3>2, ValueSplits
    <3> QED BY <1>1, <3>3
  <2>5. x + y # 0
    BY <1>1, <1>3, <2>3, <2>4
  <2>6. lowShare <= share /\ share \in Nat
    <3>1. share \in Nat
      BY <1>12, <2>5
    <3> HIDE DEF x, y, lowX, lowY
    <3>2. (lowX * BPS) \div (lowX + y) <= (x * BPS) \div (x + y)
      BY <1>1, <1>3, <2>3, <2>4, ShareRises
    <3> QED BY <2>3, <3>1, <3>2
  <2>7. share - goal < drift
    <3>1. x <= Aim + 1 /\ T - Aim - 1 <= y
      <4>1. /\ Value(1, bal[1]) <= y + Value(1, Sold) + 1
            /\ x <= Value(0, bal[0]) + Value(0, paid) + 1
            /\ Value(0, paid) \in Nat /\ Value(0, paid) <= Value(1, Sold)
        BY <1>14, <2>1, AfterIs
      <4>2. Aim = Value(0, bal[0]) + Excess
        BY <1>14, ExcessIs
      <4> HIDE DEF x, y, T
      <4> QED BY <1>1, <1>4, <1>7, <1>8, <1>14, <4>1, <4>2
    <3> HIDE DEF x, y, T, goal, drift
    <3> QED BY <1>1, <1>4, <1>10, <1>5, <1>7, <2>5, <3>1, OvershootUp
  <2>8. before < goal
    BY <1>14, ExcessIs
  <2>9. Drift(After(floor)) < drift
    OBVIOUS
  <2> HIDE DEF share, lowShare, before, goal, drift
  <2>10. Drift(After(paid)) < drift
    BY <1>4, <1>6, <1>9, <1>10, <1>11, <2>6, <2>7, <2>8, <2>9
  <2> QED BY <2>10 DEF drift
<1> QED BY <1>13, <1>14, PlannableValues DEF Token

\* The contract settles a plan at its floor, and at its quote when that is no
\* better than the oracle's price.
LEMMA PlanSettles ==
    ASSUME TypeOK, Plannable, AboveDust, NEW caller, NEW quote \in Nat,
           Ready(Plan(caller, quote), quote)
    PROVE  LET plan == Plan(caller, quote)
           IN  /\ Settled(plan, plan.amountIn, plan.minAmountOut)
               /\ Value(Other(plan.tokenIn), quote) <= Notional(plan) =>
                     Settled(plan, plan.amountIn, quote)
<1> DEFINE plan == Plan(caller, quote)
           floor == plan.minAmountOut
<1>1. /\ plan.tokenIn = TokenIn /\ plan.amountIn = Sold
      /\ Notional(plan) = Value(TokenIn, Sold)
      /\ OracleFloor(plan) = FloorOf(Value(TokenIn, Sold), Other(TokenIn))
      /\ OracleFloor(plan) \in Nat /\ floor \in Nat /\ floor >= OracleFloor(plan)
  BY PlanIs
<1> HIDE DEF plan
<1>2. floor \in Nat \ {0} /\ floor <= quote /\ quote \in Nat \ {0}
  BY <1>1 DEF Ready, plan
<1>3. Drift(After(floor)) < Drift(bal)
  BY <1>1 DEF Ready, After, plan
<1>4. ASSUME NEW paid \in Nat \ {0}, floor <= paid
      PROVE  Total(After(paid)) # 0
  <2>1. paid >= FloorOf(Value(TokenIn, Sold), Other(TokenIn))
    BY <1>1, <1>4
  <2>2. Value(Other(TokenIn), paid) >= 1
    BY <2>1, PaidIsWorth
  <2>3. /\ Other(TokenIn) \in Token /\ Value(Other(TokenIn), bal[Other(TokenIn)]) \in Nat
    BY PlannableValues
  <2>4. /\ \A i \in Token : Value(i, After(paid)[i]) \in Nat
        /\ Total(After(paid)) = Value(0, After(paid)[0]) + Value(1, After(paid)[1])
        /\ Value(Other(TokenIn), paid) \in Nat
        /\ Value(Other(TokenIn), bal[Other(TokenIn)]) + Value(Other(TokenIn), paid)
             <= Value(Other(TokenIn), After(paid)[Other(TokenIn)])
    BY AfterIs
  <2>5. Value(Other(TokenIn), After(paid)[Other(TokenIn)]) >= 1
    BY <2>2, <2>3, <2>4
  <2>6. Other(TokenIn) = 0 \/ Other(TokenIn) = 1
    BY <2>3 DEF Token
  <2>7. Value(0, After(paid)[0]) \in Nat /\ Value(1, After(paid)[1]) \in Nat
    BY <2>4 DEF Token
  <2> QED BY <2>4, <2>5, <2>6, <2>7
<1>5. Settled(plan, plan.amountIn, floor)
  <2>1. Total(After(floor)) # 0
    BY <1>2, <1>4
  <2> QED BY <1>1, <1>2, <1>3, <2>1 DEF Settled, After
<1>6. ASSUME Value(Other(TokenIn), quote) <= Value(TokenIn, Sold)
      PROVE  Settled(plan, plan.amountIn, quote)
  <2>1. Total(After(quote)) # 0 /\ Total(After(floor)) # 0
    BY <1>2, <1>4
  <2>2. Drift(After(quote)) < Drift(bal)
    BY <1>2, <1>3, <1>6, <2>1, DriftFalls
  <2> QED BY <1>1, <1>2, <2>1, <2>2 DEF Settled, After
<1> QED BY <1>1, <1>5, <1>6 DEF plan

\* A plan is still authorized, cooled down and within the budget at any second
\* up to its deadline, on the same day or a later one.
LEMMA PlanStillAllowed ==
    ASSUME VaultInv, Plannable, AboveDust, NEW caller \in {Owner, Operator}, NEW quote \in Nat,
           Ready(Plan(caller, quote), quote), NEW seconds \in 0 .. PlanWindow
    PROVE  LET plan == Plan(caller, quote)
           IN  /\ Later(seconds)!Authorized(plan)
               /\ Later(seconds)!CooledDown
               /\ Later(seconds)!WithinBudget(plan)
<1> DEFINE plan == Plan(caller, quote)
<1>0. TypeOK /\ LedgerFaithful
  BY DEF VaultInv
<1>1. /\ plan.sender = caller /\ plan.tokenIn = TokenIn /\ plan.amountIn = Sold
      /\ plan.deadline = now + PlanWindow /\ plan.expectedNonce = executionNonce
      /\ Notional(plan) = Value(TokenIn, Sold)
  BY <1>0, PlanIs
<1>2. plan.amountIn # 0 /\ plan.minAmountOut # 0
  <2>1. plan.amountIn # 0 /\ plan.minAmountOut > 0 /\ plan.minAmountOut \in Nat
    BY <1>0, PlanIs DEF Ready
  <2> QED BY <2>1
<1> HIDE DEF plan
<1>3. /\ now \in Nat /\ seconds \in Nat /\ seconds <= PlanWindow /\ PlanWindow \in Nat
      /\ DeadlineWindow \in Nat /\ PlanWindow <= DeadlineWindow
  BY <1>0, BoundsAssumption, ScaleAssumption, PlannerAssumption DEF TypeOK
<1>4. Later(seconds)!Authorized(plan)
  <2>1. plan.deadline >= now + seconds /\ plan.deadline <= now + seconds + DeadlineWindow
    BY <1>1, <1>3
  <2>2. ~paused
    BY DEF Plannable
  <2> QED BY <1>1, <1>2, <2>1, <2>2 DEF Later!Authorized
<1>5. Later(seconds)!CooledDown
  <2>1. lastExecutionAt \in Nat /\ policy.cooldownSeconds \in Nat
    BY <1>0, BoundsAssumption DEF TypeOK, PolicyType
  <2>2. lastExecutionAt # 0 => now >= lastExecutionAt + policy.cooldownSeconds
    BY DEF Plannable, CooledDown
  <2> QED BY <1>3, <2>1, <2>2 DEF Later!CooledDown
<1>6. Later(seconds)!WithinBudget(plan)
  <2>1. Later(seconds)!Notional(plan) = Notional(plan)
    BY DEF Later!Notional, Later!Value, Later!Price, Notional, Value, Price
  <2>2. /\ Notional(plan) \in Nat /\ Notional(plan) # 0
        /\ Notional(plan) <= policy.maxActionUsd
        /\ Notional(plan) <= policy.maxDailyUsd - AlreadySpent
    <3>1. /\ Value(TokenIn, Sold) \in Nat /\ Value(TokenIn, Sold) <= NotionalCap
          /\ NotionalCap \in Nat /\ NotionalCap <= policy.maxActionUsd
          /\ NotionalCap <= policy.maxDailyUsd - AlreadySpent
      BY <1>0, SaleIs
    <3>2. Value(TokenIn, Sold) >= 3
      BY DEF AboveDust
    <3>3. AlreadySpent \in Nat /\ policy.maxDailyUsd \in Nat /\ policy.maxActionUsd \in Nat
      BY <1>0, PlannableValues
    <3> QED BY <1>1, <3>1, <3>2, <3>3
  <2>3. Later(seconds)!AlreadySpent \in Nat /\ Later(seconds)!AlreadySpent <= AlreadySpent
    <3>1. Later(seconds)!Today = Day(now + seconds)
      BY DEF Later!Today, Later!Day, Day
    <3>2. Day(now) \in Nat /\ Day(now + seconds) \in Nat /\ Day(now) <= Day(now + seconds)
      BY <1>3, DayMonotonic
    <3>3. spendDay \in Nat /\ spendDay <= Day(now) /\ spentTodayUsd \in Nat
      BY <1>0 DEF TypeOK, LedgerFaithful, Today
    <3>4. CASE spendDay = Day(now + seconds)
      <4>1. spendDay = Day(now)
        BY <3>2, <3>3, <3>4
      <4> QED BY <3>1, <3>3, <3>4, <4>1 DEF Later!AlreadySpent, AlreadySpent, Today
    <3>5. CASE spendDay # Day(now + seconds)
      BY <1>0, <3>1, <3>5, PlannableValues DEF Later!AlreadySpent
    <3> QED BY <3>4, <3>5
  <2>4. AlreadySpent \in Nat /\ policy.maxDailyUsd \in Nat
    BY <1>0, PlannableValues
  <2>5. Later(seconds)!AlreadySpent + Notional(plan) <= policy.maxDailyUsd
    BY <2>2, <2>3, <2>4
  <2> QED BY <2>1, <2>2, <2>5 DEF Later!WithinBudget
<1> QED BY <1>4, <1>5, <1>6 DEF plan

\* What the planner calls READY the contract executes, for any prices, scales,
\* balances and policies, except where what is sold, or the drift, is worth as
\* little as the roundings themselves (proposeRebalance, rebalance).
THEOREM PlannerReadyPlansExecute == Spec => [](AboveDust => ReadyPlansExecute)
<1>1. VaultInv => (AboveDust => ReadyPlansExecute)
  <2> SUFFICES ASSUME VaultInv, AboveDust, Plannable, NEW caller \in {Owner, Operator},
                      NEW quote \in Outputs[Other(TokenIn)], Ready(Plan(caller, quote), quote)
               PROVE  LET plan == Plan(caller, quote)
                      IN  /\ plan.amountIn <= bal[plan.tokenIn]
                          /\ Settled(plan, plan.amountIn, plan.minAmountOut)
                          /\ Value(Other(plan.tokenIn), quote) <= Notional(plan) =>
                                Settled(plan, plan.amountIn, quote)
                          /\ TowardTarget(plan)
                          /\ plan.minAmountOut >= OracleFloor(plan)
                          /\ \A seconds \in 0 .. PlanWindow :
                                (\A t \in Token : Later(seconds)!Fresh(t)) =>
                                    /\ Later(seconds)!Authorized(plan)
                                    /\ Later(seconds)!CooledDown
                                    /\ Later(seconds)!WithinBudget(plan)
    BY DEF ReadyPlansExecute
  <2> DEFINE plan == Plan(caller, quote)
  <2>1. TypeOK
    BY DEF VaultInv
  <2>2. quote \in Nat
    BY <2>1, PlannableValues, InputsAssumption
  <2>3. /\ plan.tokenIn = TokenIn /\ plan.amountIn = Sold
        /\ plan.minAmountOut >= OracleFloor(plan)
    BY <2>1, <2>2, PlanIs
  <2>4. Sold <= bal[TokenIn]
    BY <2>1, SaleIs
  <2>5. TowardTarget(plan)
    <3>1. TokenIn = 0 \/ TokenIn = 1
      BY DEF TokenIn
    <3>2. /\ TokenIn = 0 => Share(bal) > policy.targetToken0Bps
          /\ TokenIn = 1 => Share(bal) < policy.targetToken0Bps
      BY <2>1, ExcessIs
    <3> QED BY <2>3, <3>1, <3>2 DEF TowardTarget, Plannable
  <2>6. /\ Settled(plan, plan.amountIn, plan.minAmountOut)
        /\ Value(Other(plan.tokenIn), quote) <= Notional(plan) =>
              Settled(plan, plan.amountIn, quote)
    BY <2>1, <2>2, PlanSettles
  <2>7. \A seconds \in 0 .. PlanWindow : /\ Later(seconds)!Authorized(plan)
                                         /\ Later(seconds)!CooledDown
                                         /\ Later(seconds)!WithinBudget(plan)
    BY <2>2, PlanStillAllowed
  <2> HIDE DEF plan
  <2>8. plan.amountIn <= bal[plan.tokenIn]
    BY <2>3, <2>4
  <2> QED BY <2>3, <2>5, <2>6, <2>7, <2>8 DEF plan
<1> QED BY <1>1, VaultInit, VaultStep, PTL DEF Spec
=============================================================================
