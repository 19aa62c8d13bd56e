CONSTANTS
  Versions = {v1, v2}
  MaxMigrations = 3
  EnvBudget = 3
  DeletesReliable = TRUE
  ChangesObserved = TRUE
  CacheTimely = TRUE
  Overlap = FALSE
SPECIFICATION Spec
SYMMETRY VersionSymmetry
INVARIANTS TypeOK PersistedSound
