\* Two requests, one place, a queue of one: the case of limiter_test.go.
SPECIFICATION FairSpec
CONSTANTS
  Requests = {r1, r2}
  Keys = {kGlobal}
  Global = kGlobal
  Blank = kBlank
  MaxConcurrent = 1
  MaxQueued = 1
PROPERTY QueuedAcquireReturns
CHECK_DEADLOCK FALSE
