CONSTANTS
  I1 = i1
  I2 = i2
  I3 = i3
  I4 = i4
  First = i1
  ClosedIssues = {i2, i3}
  None = None
  MaxResends = 1
  MaxFaults = 3
  MaxEdits = 1
  Issues <- MCIssues
  Metadata <- MCMetadata
  Forests <- MCForests
  Numbers <- MCNumbers
SPECIFICATION Spec
CHECK_DEADLOCK FALSE
INVARIANTS CopiedOnce ChildBelowItsParent QuietCopiesAll
