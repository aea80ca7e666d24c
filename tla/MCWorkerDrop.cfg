\* A one-slot event queue: a query accepted while the queue is full is
\* never seen by the application and never answered.
CONSTANTS
  Gateways = {g1, g2}
  QueryIds = {q1, q2}
  Scheduler = sched
  LogsCollector = lc
  Legacy = Legacy
  NoQuery = NoQuery
  EventsCap = 1
  ResultsCap = 3
  MaxArrivals = 3
  MaxControl = 0
  MaxStray = 1
  PingsCap = 1
  LogsCap = 1
  LogsClientCap = 1
  MaxOutbound = 0
  g1 = g1
  g2 = g2
  q1 = q1
  q2 = q2
  sched = sched
  lc = lc
SPECIFICATION Spec
\* The loop idles in select! once its bounded inputs are spent.
PROPERTY QueryEventuallyAnswered
CHECK_DEADLOCK FALSE
