SPECIFICATION FairSpec
CONSTANTS
  t1 = t1
  t2 = t2
  q1 = q1
  q2 = q2
  m1 = m1
  m2 = m2
  m3 = m3
  b1 = b1
  b2 = b2
  b3 = b3
  small = small
  big = big
  s1 = s1
  s2 = s2
  l1 = l1
  Empty = Empty
  Junk = Junk
  None = None
  Tasks = {t1, t2}
  Queues = {q1, q2}
  Reader <- OneReader
  Cap <- CapTwoOne
  OsMsgs = 2
  Msgs = {m1, m2, m3}
  Bufs = {b1, b2, b3}
  Pools = {small, big}
  PoolOf <- MCPoolOf
  Payloads = {s1, l1}
  PoolFor <- MCPoolFor
INVARIANTS TypeOK OneOwner
PROPERTIES ImplementsMailbox Received
