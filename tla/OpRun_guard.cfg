\* Two subscriptions of one owner on one assignment, plans of two owners and two configurations.
CONSTANTS
  o1 = o1
  o2 = o2
  k1 = k1
  k2 = k2
  r1 = r1
  r2 = r2
  v1 = v1
  v2 = v2
  None = None
  Keys = {k1, k2}
  Owners = {o1, o2}
  OwnerOf <- KeyOwners
  Runs = {r1, r2}
  UserOf <- AllByO1
  Versions = {v1, v2}
  SeederVersions = {v2}
  Destructive = {TRUE}
  TTL = 0
  Cap = 1
  MaxLines = 0
  MaxPlans = 1
  MaxTime = 1
  Env = {"edit", "crash", "db"}
SPECIFICATION Spec
SYMMETRY Symmetry
VIEW View
INVARIANTS GuardMatchesRuns RunsThePlan
