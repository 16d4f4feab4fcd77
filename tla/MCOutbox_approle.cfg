SPECIFICATION FairSpec
CONSTANTS
  Events = {1, 2}
  Readable = {}
  Workers = {w1, w2}
  Limit = 2
  MaxAttempts = 2
  MaxCrashes = 1
PROPERTY EventuallySettled
