\* Two threads of one server; forwarded requests have types 1 to 3.
CONSTANTS
  v1 = v1  v2 = v2  t1 = t1  t2 = t2  c1 = c1  c2 = c2  s1 = s1  s2 = s2
  none = none
  Servers = {v1}
  Threads = {t1, t2}
  SrvOf <- OneServer
  Clients = {c1, c2}
  Services = {s1}
  Cds = {1, 3}
  MaxType = 3
  Period = 2
  QueueCap = 3
  MayCrash = FALSE
  MayWithdraw = FALSE
SPECIFICATION FairSpec
INVARIANT OneAnswer
PROPERTIES NotStarved StopEnds
\* The servers may all be gone.
CHECK_DEADLOCK FALSE
