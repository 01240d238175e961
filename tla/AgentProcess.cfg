SPECIFICATION LiveSpec
CONSTANTS
  Names = {n1, n2}
  Contents = {c1, c2}
  None = None
  MaxDisturb = 3
INVARIANTS TypeOK ReadyMeansUp RegistersFirst FailureReported ServesCurrentTRCs PathCacheFollows
PROPERTIES ShutdownCompletes NeverWedged
