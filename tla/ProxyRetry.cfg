SPECIFICATION Spec
CONSTANTS
  Requests = {r1, r2}
  CountTokens = {r2}
  Targets = {t1, t2}
  Flaky = {t1, t2}
  Keys = {k1}
  NoKey = NoKey
  NoTarget = NoTarget
  PreKey <- NoneBefore
  PostKey <- ChannelAfter
  MaxConcurrent = 2
  MaxQueued = 1
  WaitCapacity = 1
CHECK_DEADLOCK FALSE
SYMMETRY Perms
INVARIANTS TypeOK SelectionsSettled LeasesReturned SlotsExact
