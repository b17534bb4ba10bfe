\* Two tabs of one person (a configured administrator, in preview mode or not) against an administrator.
CONSTANTS
  u1 = u1
  t1 = t1
  t2 = t2
  d1 = d1
  d2 = d2
  None = None
  Users = {u1}
  Admins = {u1}
  Tabs = {t1, t2}
  UserOf <- OneUser
  Deciders = {d1}
  Outcomes = {"approved"}
  TTL = 0
  MaxTime = 1
  MaxResets = 1
  Faults = {"db", "lostReply", "byHand"}
SPECIFICATION Spec
SYMMETRY Symmetry
INVARIANTS OneAdminMailPerRequest LetInOnlyIfRecentlyApproved MailedDecisionWasStored
PROPERTIES ImplementsAccessRow
