\* An event queue large enough for every input and a one-slot result
\* queue the application retries on: each accepted
\* query is answered, under the fairness the loop and the application give.
CONSTANTS
  Gateways = {g1, g2}
  QueryIds = {q1, q2}
  Scheduler = sched
  LogsCollector = lc
  Legacy = Legacy
  NoQuery = NoQuery
  EventsCap = 3
  ResultsCap = 1
  MaxArrivals = 3
  MaxControl = 0
  MaxStray = 1
  PingsCap = 1
  LogsCap = 1
  LogsClientCap = 1
  MaxOutbound = 0
  g1 = g1
  g2 = g2
  q1 = q1
  q2 = q2
  sched = sched
  lc = lc
SPECIFICATION Spec
\* The loop idles in select! once its bounded inputs are spent.
PROPERTY QueryEventuallyAnswered
CHECK_DEADLOCK FALSE
