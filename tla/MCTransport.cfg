\* The eventloop with a boot node: dials, lookups, pending messages,
\* identify, connection churn and the bootstrap timer.
CONSTANTS
  p1 = p1
  p2 = p2
  w1 = w1
  w2 = w2
  m1 = m1
  m2 = m2
  Peers = {p1, p2}
  BootNodes = {p1}
  Waiters = {w1}
  Msgs = {m1, m2}
  DialTo <- MCDialTo
  MsgTo <- MCMsgTo
  Broadcast = Broadcast
  NoDest = NoDest
  NoResult = NoResult
  MAX_CONNS_PER_PEER = 2
  BootstrapEnabled = TRUE
  MaxOtherConns = 1
  MaxQuerySteps = 2
  MaxTicks = 1
  MaxConnId = 6
  MaxQueryId = 4

SPECIFICATION Spec
INVARIANT TypeOK
INVARIANT LookupCoversPending
PROPERTY TrueMeansConnected
PROPERTY ImplementsService
\* Once the bounded callers, peers and timer are spent the loop waits in
\* select! forever; that idle state is not a deadlock of the code.
CHECK_DEADLOCK FALSE
