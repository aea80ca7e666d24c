\* Two boot nodes of which b1 answers, relay enabled with no relay address
\* (so the relay is a random boot node, possibly the unreachable one), and
\* one other peer that may connect in.  run() ends in "done" or "error",
\* after which the eventloop takes over: terminal states are not deadlocks.
CONSTANTS
  BootNodes = {b1, b2}
  Others = {x}
  Reachable = {b1}
  Relay = TRUE
  RelayAddr = NoRelay
  NoRelay = NoRelay
  MaxIncoming = 1
  b1 = b1
  b2 = b2
  x = x
SPECIFICATION Spec
PROPERTY RunReturns
CHECK_DEADLOCK FALSE
