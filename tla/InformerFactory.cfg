CONSTANTS
  Types = {t1, t2}
  Callers = {c1, c2}
  Channels = {ch1, ch2}
SPECIFICATION Spec
INVARIANTS TypeOK RunsOnce NothingRunsAfterShutdown SyncReported
PROPERTY ShutdownTerminates
