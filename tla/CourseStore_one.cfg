\* One request at a time, three names, every fault.
CONSTANTS
  None = None
  r1 = r1
  r2 = r2
  n1 = n1
  n2 = n2
  n3 = n3
  settings = settings
  assignments = assignments
  Names = {n1, n2, n3}
  Requests = {r1}
  Parts = {settings, assignments}
  Values = {0, 1}
  Texts <- MCTexts
  Decode <- MCDecode
  Encode <- MCEncode
  Blank = 0
  BlockPart = assignments
  MaxIds = 3
  Faults = {"crash", "db", "lost"}
SPECIFICATION Spec
SYMMETRY Symmetry
CHECK_DEADLOCK FALSE
INVARIANTS NoCourseIsLost RawMatchesRow
