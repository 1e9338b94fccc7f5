\* Three deliveries, two of them with tasks, for a guard and a queue of two; one connection and both signals.
CONSTANTS
  DeliveryId = {d1, d2, d3}
  Reviewable = {d1, d2}
  Ttl = 2
  ReplayCapacity = 2
  QueueCapacity = 2
  Concurrency = 1
  MaxTime = 2
  Connection = {c1}
  Signal = {"SIGINT", "SIGTERM"}
SPECIFICATION ServiceSpec
INVARIANTS StoreClosedLast
PROPERTIES AcceptedOncePerTtl AcceptedIsReviewed ShutdownEnds
