CONSTANTS
  NumKeys = 2
  ChunkLimit = 1
  Workers = {w1}
  Latest = Latest
  EnvBudget = 1
SPECIFICATION Spec
PROPERTIES DeletionEndsRun
