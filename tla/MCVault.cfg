SPECIFICATION Spec
CONSTANTS
    Owner = owner
    Operator = operator
    Accounts = {owner, operator}
    Unit <- MCUnit
    FeedUnit <- MCFeedUnit
    UsdUnit = 10
    SecondsPerDay = 2
    DeadlineWindow = 1
    PlanWindow = 1
    MinimumDrift = 100
    Policies <- MCPolicies
    Reports <- MCReports
    Lots <- MCLots
    Amounts <- MCAmounts
    MinOutputs <- MCMinOutputs
    Outputs <- MCOutputs
    MaxTime = 3
    MaxBalance <- MCMaxBalance
    MaxExecutions = 2
INVARIANTS TypeOK LedgerFaithful ReadyPlansExecute
PROPERTIES DailyBudget OperatorConfined
