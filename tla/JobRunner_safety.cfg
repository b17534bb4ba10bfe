\* Two instances, one job, every fault.
CONSTANTS
  j1 = j1
  j2 = j2
  w1 = w1
  w2 = w2
  o1 = o1
  o2 = o2
  v1 = v1
  v2 = v2
  None = None
  Jobs = {j1}
  Workers = {w1, w2}
  Owners = {o1}
  Versions = {v1, v2}
  SeederVersions = {v2}
  Graces <- ClientGraces
  DefaultGrace = 1
  Retention = 0
  ReapInterval = 1
  MaxTime = 1
  MaxMails = 2
  Mailer = TRUE
  Faults = {"crash", "db", "lostReply", "smtp"}
SPECIFICATION Spec
SYMMETRY Symmetry
INVARIANTS StatusTellsWhetherItRan RanAsPlanned Punctual JournalAgrees NotifiedMeansMailed
PROPERTIES ImplementsLifecycle
