CONSTANTS
  NumKeys = 5
  ChunkLimit = 2
  Workers = {w1}
  Latest = Latest
  EnvBudget = 3
SPECIFICATION Spec
INVARIANTS TypeOK SucceededMeansMigrated SavedTokenSound
PROPERTIES NoLostUpdate KeepsPromise RunReturns
