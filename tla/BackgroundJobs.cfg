SPECIFICATION FairSpec
CONSTANTS
  NumTraces = 1
  Parsable = {1}
  Handlers = {h1}
  Worker = worker
  Requests <- EveryKind
  BatchSize = 2
  MaxAsks = 1
  MaxMishaps = 1
CHECK_DEADLOCK FALSE
INVARIANTS
  TypeOK
  NoOrphans
  CompletedLeavesResults
  FailedIsReported
  RunsAtMostOnceEach
  ParsableTracesParse
PROPERTIES
  EndedStaysEnded
  JobsEnd
