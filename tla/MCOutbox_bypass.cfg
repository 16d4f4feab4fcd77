SPECIFICATION FairSpec
CONSTANTS
  Events = {1, 2, 3}
  Readable = {1, 2, 3}
  Workers = {w1, w2}
  Limit = 2
  MaxAttempts = 2
  MaxCrashes = 1
INVARIANTS DeliveryBound
PROPERTIES KeepsPromise EventuallySettled
