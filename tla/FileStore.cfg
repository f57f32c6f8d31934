SPECIFICATION Spec
CONSTANTS
  Threads = {t1, t2}
  Names = {f}
  Chars = {"d", "x"}
  Growers = {"d"}
  ReadSize = 2
  Data <- MCData
  DiskSize = 2
  Descriptors = 1
  Absent = Absent
  Nobody = Nobody
INVARIANT TypeOK
INVARIANT CountMeansStored
INVARIANT OverrunNeedsLongRun
PROPERTY Atomic
PROPERTY OperationsReturn
