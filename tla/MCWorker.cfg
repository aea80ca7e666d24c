\* Two gateways sharing one query id, over both request paths, with the
\* scheduler and the logs collector (and gateways impersonating them), a
\* one-slot event queue and result queue so that drops happen.
CONSTANTS
  Gateways = {g1, g2}
  QueryIds = {q1}
  Scheduler = sched
  LogsCollector = lc
  Legacy = Legacy
  NoQuery = NoQuery
  EventsCap = 1
  ResultsCap = 1
  MaxArrivals = 3
  MaxControl = 2
  MaxStray = 1
  PingsCap = 1
  LogsCap = 1
  LogsClientCap = 1
  MaxOutbound = 2
  g1 = g1
  g2 = g2
  q1 = q1
  q2 = q2
  sched = sched
  lc = lc
SPECIFICATION Spec
SYMMETRY GatewaySymmetry
INVARIANT TypeOK
INVARIANT DedupWhileOutstanding
INVARIANT ResultToOriginalSender
\* The loop idles in select! once its bounded inputs are spent.
CHECK_DEADLOCK FALSE
