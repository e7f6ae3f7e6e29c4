SPECIFICATION LimitsSpec
CONSTANTS
  a1 = a1
  a2 = a2
  Addresses <- TwoAddresses
  Nonces = {1}
  MaxCode = 3
  MaxIps = 1
  MaxFailures = 2
  Window = 2
  CodeBudget = 2
  BudgetWindow = 3
  MaxTime = 4
SYMMETRY Symmetry
INVARIANTS
  BudgetHolds
PROPERTIES
  BanHolds
