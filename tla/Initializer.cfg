CONSTANTS
  Resources = {r1, r2}
  BackoffLimit = 4
  EnvBudget = 6
SPECIFICATION Spec
INVARIANTS TypeOK OneMigrationEach FailuresBounded
PROPERTY JobCompletes
