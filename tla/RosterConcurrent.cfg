\* Every handler, two requests in progress at any time.
SPECIFICATION Spec
CONSTANTS
  Machines = {m1, m2}
  Owners = {u1}
  Keys = {k1, k2}
  Endpoints = {e1}
  Workers = {w1, w2}
  Addrs = {1, 2}
  n1 = n1
  n2 = n2
  Nets <- MCNets
  AllowedLists <- MCOneList
  None = None
  Handlers = {"add", "enroll", "edit", "delete", "create", "update", "enable", "disable", "adopt", "link", "sweep", "expire", "endpoint"}
  MaxPendingPerUser = 1
  Retention = 0
  MaxTime = 0
SYMMETRY Symmetry
VIEW WithoutHistory
INVARIANT TypeOK
INVARIANT PeersSound
PROPERTY KeyChangeLeavesService
CHECK_DEADLOCK FALSE
