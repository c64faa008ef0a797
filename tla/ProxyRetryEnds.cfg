SPECIFICATION FairSpec
CONSTANTS
  Requests = {r1, r2}
  CountTokens = {}
  Targets = {t1}
  Flaky = {t1}
  Keys = {k1}
  NoKey = NoKey
  NoTarget = NoTarget
  PreKey <- GlobalBefore
  PostKey <- NoneAfter
  MaxConcurrent = 1
  MaxQueued = 1
  WaitCapacity = 1
CHECK_DEADLOCK FALSE
PROPERTY EveryRequestAnswered
