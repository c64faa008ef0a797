SPECIFICATION FairSpec
CONSTANTS
  Fingerprints = {e1, e2}
  Publishers = {p1, p2}
  Background = {p2}
  Streams = {s1, s2}
  Buffer = 1
  DatabaseFails = TRUE
CHECK_DEADLOCK FALSE
INVARIANTS
  TypeOK
  StaleStreamIsTold
PROPERTY
  StreamsCatchUp
