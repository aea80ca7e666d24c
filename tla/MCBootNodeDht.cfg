\* The boot list holds the node itself and one other boot node; two remote
\* peers and the other boot node identify with public, private and LAN
\* addresses.  The boot node serves forever once its inputs are spent, so
\* the resting state is not a deadlock.
CONSTANTS
  Self = s
  BootList = {s, b}
  Remotes = {r, r2}
  Addrs = {pub, priv, lan}
  ReachableAddrs = {pub}
  BootAddr = pub
  MaxIdentify = 3
  s = s
  b = b
  r = r
  r2 = r2
  pub = pub
  priv = priv
  lan = lan
SPECIFICATION Spec
INVARIANT DhtOnlyReachable
CHECK_DEADLOCK FALSE
