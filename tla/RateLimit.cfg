CONSTANTS
  Users = {a, b}
  Actions = {submit_poi}
  MaxCalls <- Limits
  Window = 2
  SecondTicks = 2
  MaxNow = 7
SPECIFICATION Spec
INVARIANTS
  WindowBudget
PROPERTIES
  RefusedOnlyWhenSpent
  BackoffPlusOneSuffices
