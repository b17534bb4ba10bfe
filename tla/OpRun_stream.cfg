\* One subscription with a channel of two and a client that may leave.
CONSTANTS
  o1 = o1
  o2 = o2
  k1 = k1
  k2 = k2
  r1 = r1
  r2 = r2
  v1 = v1
  v2 = v2
  None = None
  Keys = {k1}
  Owners = {o1, o2}
  OwnerOf <- KeyOwners
  Runs = {r1}
  UserOf <- AllByO1
  Versions = {v1}
  SeederVersions = {}
  Destructive = {FALSE}
  TTL = 0
  Cap = 2
  MaxLines = 2
  MaxPlans = 2
  MaxTime = 0
  Env = {"pat", "db"}
SPECIFICATION FairSpec
INVARIANTS StreamIsComplete
PROPERTIES OperationFreesAssignment
