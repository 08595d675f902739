SPECIFICATION OutboxFairSpec
CONSTANTS
  NumDispatches = 2
  Pumps = {p1, p2}
  MaxAttempts = 2
  Batch = 2
  Healthy = {2}
  MaxFaults = 1
  NoRow = NoRow
INVARIANTS DeliveriesAreTrue
PROPERTIES EveryIntentSettles HealthyIntentsFlow
