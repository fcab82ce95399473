\* Every request option, budget and engine pace within the bounds; the client stops
\* in the end, and the model with it.
SPECIFICATION FairSpec
CHECK_DEADLOCK FALSE
CONSTANTS
  MaxBudget = 6
  MaxBuild = 2
  Timeout = 3
INVARIANTS
  BudgetKept
PROPERTIES
  ClientReturns
