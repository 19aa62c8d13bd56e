CONSTANTS
  Versions = {v1, v2}
  MaxMigrations = 3
  EnvBudget = 2
  DeletesReliable = FALSE
  ChangesObserved = TRUE
  CacheTimely = TRUE
  Overlap = FALSE
SPECIFICATION Spec
SYMMETRY VersionSymmetry
INVARIANTS PersistedSound
