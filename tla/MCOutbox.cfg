CONSTANTS
  MaxResults = 3
  MaxOutboxItems = 2
  MaxStops = 2
SPECIFICATION FairSpec
INVARIANTS TypeOK OutboxBounded StoredInOrder
PROPERTIES StoredUntilAccepted ImplementsDelivery StoredEventuallyLeaves
