SPECIFICATION FairSpec
CONSTANTS
  FailureThreshold = 2
  Requests = {r1, r2}
  Targets = {t1}
  Models = {m1, m2}
  NoModel = NoModel
  Serves <- ServesAll
  Keys = {}
  NoKey = NoKey
  NoTarget = NoTarget
  Refreshes = 2
CHECK_DEADLOCK FALSE
INVARIANTS
  ModelFailuresStayInModel
  FailuresBelowThreshold
PROPERTY
  OpenTargetRecovers
