\* One remote peer opening four connections, nothing else: is the surplus
\* over MAX_CONNS_PER_PEER always being closed?
CONSTANTS
  p1 = p1
  p2 = p2
  w1 = w1
  w2 = w2
  m1 = m1
  m2 = m2
  Peers = {p1}
  BootNodes = {}
  Waiters = {}
  Msgs = {}
  DialTo <- MCDialTo
  MsgTo <- MCMsgTo
  Broadcast = Broadcast
  NoDest = NoDest
  NoResult = NoResult
  MAX_CONNS_PER_PEER = 2
  BootstrapEnabled = FALSE
  MaxOtherConns = 4
  MaxQuerySteps = 1
  MaxTicks = 0
  MaxConnId = 4
  MaxQueryId = 0

SPECIFICATION Spec
INVARIANT ConnCap
CHECK_DEADLOCK FALSE
