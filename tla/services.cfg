SPECIFICATION MCSpec
CONSTANTS
  Event = {e1}
  Owner = {pa, pb}
  Call = {d1, d2}
  NoOwner = noOwner
  NoEvent = noEvent
  Chain <- MCChain
  Limit <- MCLimit
  Window = 2
  MaxBuckets = 2
  MaxWorkers = 1
  MaxQueue = 1
  MaxRequests = 3
  MaxStops = 1
  Horizon = 2
CHECK_DEADLOCK FALSE
INVARIANTS OutboxTypeOK DeliveredWasFlushed OneExportUnlessDisturbed
INVARIANTS RequestTypeOK WindowExact EvictionNeedsManyKeys PermitsAccountedFor
PROPERTIES DeliveredIsFinal EveryViolationDelivered AdmittedOperationRuns
