SPECIFICATION Spec
CONSTANTS
  Threads = {main, admin}
  ping = ping
  registered = registered
  Messages <- TwoMessages
  NoMessage = NoMessage
INVARIANT PrintsItsMessage
CHECK_DEADLOCK FALSE
