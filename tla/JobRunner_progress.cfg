\* One instance, two jobs, transient faults.
CONSTANTS
  j1 = j1
  j2 = j2
  w1 = w1
  w2 = w2
  o1 = o1
  o2 = o2
  v1 = v1
  v2 = v2
  None = None
  Jobs = {j1, j2}
  Workers = {w1}
  Owners = {o1}
  Versions = {v1}
  SeederVersions = {}
  Graces = {0}
  DefaultGrace = 0
  Retention = 1
  ReapInterval = 1
  MaxTime = 0
  MaxMails = 1
  Mailer = TRUE
  Faults = {"crash", "db", "smtp"}
SPECIFICATION FairSpec
PROPERTIES NoMailAfterMark DueJobLeavesPending OutcomeIsMailed
