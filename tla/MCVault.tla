------------------------------ MODULE MCVault ------------------------------
(***************************************************************************)
(* A small vault and its planner for TLC.  Token 0 has no decimals and is  *)
(* worth 100 or 50 USD units; a base unit of token 1 is worth 1.  A sale   *)
(* of 2 token 0 is worth 200, so 5 per cent of slippage is 10 and can be   *)
(* told from rounding.                                                     *)
(***************************************************************************)
EXTENDS Planner, TLC

MCUnit == 0 :> 1 @@ 1 :> 10
MCFeedUnit == 0 :> 1 @@ 1 :> 10

Good(answer) == [answer |-> answer, stamp |-> "now", carried |-> FALSE]
MCReports ==
    0 :> {Good(10), Good(5)} @@
    1 :> {Good(10), [Good(10) EXCEPT !.stamp = "ahead", !.carried = TRUE]}

\* Two policies in force at different times and one the contract rejects.
Trading ==
    [maxActionUsd |-> 200, maxDailyUsd |-> 300, targetToken0Bps |-> 5000,
     maxSlippageBps |-> 500, cooldownSeconds |-> 0, maxOracleAge |-> 1]
MCPolicies ==
    {Trading,
     [Trading EXCEPT !.maxDailyUsd = 200, !.targetToken0Bps = 7000,
                     !.cooldownSeconds = 1, !.maxSlippageBps = 0],
     [Trading EXCEPT !.maxDailyUsd = 100]}

MCLots == 0 :> {8} @@ 1 :> {200}
MCMaxBalance == 0 :> 8 @@ 1 :> 400
MCAmounts == 0 :> {0, 1, 2} @@ 1 :> {100, 200}
MCMinOutputs == {0, 1, 95, 180, 190, 200}
MCOutputs == 0 :> {0, 1, 2} @@ 1 :> {0, 95, 180, 190, 200}
=============================================================================
