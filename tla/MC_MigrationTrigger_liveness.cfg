CONSTANTS
  Versions = {v1, v2}
  MaxMigrations = 3
  EnvBudget = 2
  DeletesReliable = FALSE
  ChangesObserved = FALSE
  CacheTimely = FALSE
  Overlap = TRUE
SPECIFICATION Spec
PROPERTIES Converges
