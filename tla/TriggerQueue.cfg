CONSTANTS
  Items = {i1, i2, i3, i4}
  Failing = {i1, i2}
  NoItem = NoItem
SPECIFICATION Spec
INVARIANTS TypeOK QueueSound NothingLost
PROPERTIES EventsReachRun
