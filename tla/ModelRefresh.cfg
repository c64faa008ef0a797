SPECIFICATION FairSpec
CONSTANTS
  NumTargets = 2
  Lists = {l1, l2}
  Torn = torn
  Proxies = {p1, p2}
  Background = loop
  Nobody = Nobody
  MaxReloads = 1
CHECK_DEADLOCK FALSE
INVARIANT
  CatalogAgrees
PROPERTY
  RefreshNowReturns
