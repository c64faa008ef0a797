SPECIFICATION FairSpec
CONSTANTS
  r1 = r1
  r2 = r2
  Requests = {r1, r2}
  Shapes <- ShapesOf
  Earlier = 1
  MaxToolIterations = 1
  MaxCalls = 2
  MaxMishaps = 1
CHECK_DEADLOCK FALSE
INVARIANTS
  TypeOK
  OutcomesAgree
  NothingForgotten
  StreamCloses
PROPERTIES
  RequestsEnd
  ImplementsTree
