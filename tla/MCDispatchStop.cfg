\* Two servers on one queue, nothing else goes wrong.
CONSTANTS
  v1 = v1  v2 = v2  t1 = t1  t2 = t2  c1 = c1  c2 = c2  s1 = s1  s2 = s2
  none = none
  Servers = {v1, v2}
  Threads = {t1, t2}
  SrvOf <- TwoServers
  Clients = {c1, c2}
  Services = {s1}
  Cds = {1}
  MaxType = 3
  Period = 2
  QueueCap = 2
  MayCrash = FALSE
  MayWithdraw = FALSE
SPECIFICATION Spec
PROPERTY HandedOn
