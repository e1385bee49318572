CONSTANTS
  v1 = v1  v2 = v2  q1 = q1  q2 = q2  g1 = g1  g2 = g2
  c1 = c1  s1 = s1  s2 = s2
  bad = bad
  Servers = {v1, v2}
  Queues = {q1, q2}
  Groups = {g1, g2}
  QueueOf <- QueueOfDef
  GrpOf <- GrpOfDef
  Clients = {c1}
  Services = {s1, s2}
  Withdrawn = {s1}
  MaxAdv = 2
  MaxOps = 3
SPECIFICATION FairSpec
INVARIANTS TableMatchesServers Coherent
PROPERTIES CachedRouteIsReal EveryQueueServes
