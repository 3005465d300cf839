\* README: execution is bounded by budget.
CONSTANTS
  MaxBudget = 3
  Costs <- MCCosts
  MaxRetries = 1
  MaxPlan = 2
SPECIFICATION Spec
INVARIANTS
  BudgetBoundsRun
CHECK_DEADLOCK FALSE
