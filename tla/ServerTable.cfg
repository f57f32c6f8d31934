SPECIFICATION FairSpec
CHECK_DEADLOCK FALSE
CONSTANTS
  NoThread = NoThread
  Threads = {main, admin}
  Ids <- Ids2
  Indexes <- Indexes2
INVARIANT TypeOK
INVARIANT MutualExclusion
INVARIANT CountConsistent
INVARIANT ForEachSnapshot
INVARIANT CallbackInTable
PROPERTY Linearizable
PROPERTY CallsReturn
