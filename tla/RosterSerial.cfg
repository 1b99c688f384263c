\* Every handler, one at a time: two machines, two endpoints with overlapping lists, a queue of
\* one, and time for a pending machine to expire.
SPECIFICATION SerialSpec
CONSTANTS
  Machines = {m1, m2}
  Owners = {u1}
  Keys = {k1, k2}
  Endpoints = {e1, e2}
  Workers = {w1}
  Addrs = {1}
  n1 = n1
  n2 = n2
  Nets <- MCNets
  AllowedLists <- MCAllowedLists
  None = None
  Handlers = {"add", "enroll", "edit", "delete", "create", "update", "enable", "disable", "adopt", "link", "sweep", "expire", "endpoint"}
  MaxPendingPerUser = 1
  Retention = 1
  MaxTime = 2
SYMMETRY Symmetry
VIEW ClockView
INVARIANT NoOverlap
 
PROPERTY ActivatesKeyItSaw
PROPERTY DisabledStaysOut
PROPERTY ExpiryGivesFullWindow
CHECK_DEADLOCK FALSE
