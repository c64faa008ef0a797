SPECIFICATION RefreshFairSpec
CONSTANTS
  Admins = {a1, a2}
  Refreshers = {f1, f2}
  Targets = {t1, t2}
  Nobody = Nobody
  MaxRevision = 3
  MaxCrashes = 1
INVARIANTS
  TypeOK
  SnapshotIsCommitted
PROPERTIES
  NoResurrectedRow
  RefreshNeverStalls
  ChangesEnd
