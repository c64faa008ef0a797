SPECIFICATION Spec
CONSTANTS
  FailureThreshold = 2
  Requests = {r1, r2}
  Targets = {t1, t2}
  Models = {}
  NoModel = NoModel
  Serves <- ServesAll
  Keys = {k1}
  NoKey = NoKey
  NoTarget = NoTarget
  Refreshes = 1
SYMMETRY Perms
CHECK_DEADLOCK FALSE
INVARIANTS
  TypeOK
  InflightExact
  TriedNotReselected
