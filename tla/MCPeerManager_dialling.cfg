\* Three peers, one of which also calls in, a cap of two, three tasks.
CONSTANTS
  a = a
  b = b
  x = x
  t1 = t1
  t2 = t2
  t3 = t3
  Peers = {a, b, x}
  Callers = {a}
  Tasks = {t1, t2, t3}
  MaxPeers = 2
  ChannelSize = 1
  NoPeer = NoPeer
SPECIFICATION FairSpec
CHECK_DEADLOCK FALSE
INVARIANTS
  EachPeerInOnePlace
  ActiveIsExact
PROPERTIES
  EveryPeerIsDialled
  NewsIsTakenIn
