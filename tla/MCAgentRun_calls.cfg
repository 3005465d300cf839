\* A run with every call and write failing or not, drained or streamed.
CONSTANTS
  MaxBudget = 3
  Costs <- MCCosts
  MaxRetries = 1
  MaxPlan = 2
SPECIFICATION FairSpec
INVARIANTS
  TypeOK
  BudgetKept
  UnaccountedCallFails
  TotalsExplained
  CompletedIsRecorded
  ToolRunsBounded
PROPERTIES
  ToolsOnlyWhenClear
  NodesAsAbstracted
  RunEnds
CHECK_DEADLOCK FALSE
