\* No boot node answers: every boot dial fails with OutgoingConnectionError.
\* run() would end in "done" or "error": terminal states are not deadlocks.
CONSTANTS
  BootNodes = {b1, b2}
  Others = {x}
  Reachable = {}
  Relay = TRUE
  RelayAddr = NoRelay
  NoRelay = NoRelay
  MaxIncoming = 1
  b1 = b1
  b2 = b2
  x = x
SPECIFICATION Spec

PROPERTY RunReturns
CHECK_DEADLOCK FALSE
