SPECIFICATION Spec
CONSTANTS
  Near = near
  Far = far
  Bytes = {0, 4}
  Pad = 4
  Overhead = 1
  ChunkSizes = {1, 3}
  Messages <- ShortMessages
  Null = Null
  MaxCalls <- CallsOfEnds
  MaxSends <- SendsOfEnds
INVARIANT TypeOK
INVARIANT StreamHoldsMessages
INVARIANT ReceivedAsWritten
INVARIANT FailureHasMessage
 
CHECK_DEADLOCK FALSE
