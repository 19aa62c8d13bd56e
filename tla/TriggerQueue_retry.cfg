CONSTANTS
  Items = {i1, i2}
  Failing = {i1}
  NoItem = NoItem
SPECIFICATION Spec
PROPERTIES FailedItemsAreRetried
