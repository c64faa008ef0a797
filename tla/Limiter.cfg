\* Four requests over two keys, one place and a queue of two.
SPECIFICATION Spec
CONSTANTS
  Requests = {r1, r2, r3, r4}
  Keys = {kGlobal, kChannel}
  Global = kGlobal
  Blank = kBlank
  MaxConcurrent = 1
  MaxQueued = 2
SYMMETRY Perms
INVARIANTS TypeOK CountersExact EntryWhileUsed
PROPERTIES ReleaseWakesEverySleeper ImplementsAdmission
CHECK_DEADLOCK FALSE
