\* Two workers racing, the ceiling lowered from 4 units (two connections) to 3.
SPECIFICATION FairBucket
CONSTANTS
  Workers = {w1, w2}
  OneToken = 2
  RateNum = 3
  RateDen = 2
  Bursts = {3, 4}
  InitBurst = 4
  MaxTime = 3
  MaxCalls = 4
INVARIANT BucketSound
PROPERTY CallsReturn
CHECK_DEADLOCK FALSE
