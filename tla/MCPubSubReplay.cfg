\* One topic, one publisher (and anonymous messages), sequence numbers 0..2,
\* a one-slot inbound channel: subscribe, unsubscribe and resubscribe
\* around gossip in every order, with the channel full or closed.
CONSTANTS
  Topics = {t1}
  Sources = {s1}
  Anonymous = Anonymous
  NoSeq = NoSeq
  NoTopic = NoTopic
  MaxSeq = 2
  InboundCap = 1
  MaxSubCmds = 3
  MaxGossip = 3
  MaxRequests = 1
  t1 = t1
  t2 = t2
  s1 = s1
  s2 = s2
SPECIFICATION Spec

INVARIANT OrderedAccept
\* The loop idles in select! once its bounded inputs are spent.
CHECK_DEADLOCK FALSE
