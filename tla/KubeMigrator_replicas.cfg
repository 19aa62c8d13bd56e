CONSTANTS
  Names = {n1}
  Migrators = {r1, r2}
  Steps = 3
  MaxPages = 1
  EnvBudget = 0
SPECIFICATION Spec
PROPERTY CompletedIsFinal
