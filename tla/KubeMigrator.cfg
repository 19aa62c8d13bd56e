CONSTANTS
  Names = {n1, n2}
  Migrators = {r1}
  Steps = 3
  MaxPages = 1
  EnvBudget = 3
SPECIFICATION Spec
INVARIANTS TypeOK OutcomeIsOwn CountedOnce
PROPERTIES Lifecycle NothingTakenBack MigrationsComplete
