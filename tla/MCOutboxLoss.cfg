CONSTANTS
  MaxResults = 2
  MaxOutboxItems = 2
  MaxStops = 0
SPECIFICATION Spec
PROPERTIES PersistedUntilDelivered
