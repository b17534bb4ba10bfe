\* One instance, two recipients, two events, three nights, with or without a marker; what may fail does.
CONSTANTS
  i1 = i1
  e1 = e1
  e2 = e2
  None = None
  Instances = {i1}
  Events = {e1, e2}
  Recipients = 2
  Day = 3
  Hour = 1
  Shift = 0
  ShiftAt = 0
  FirstMarkers = {0, None}
  MaxTime = 7
  Faults = {"crash", "state", "events", "marker", "smtp"}
SPECIFICATION Spec
SYMMETRY Symmetry
CHECK_DEADLOCK FALSE
INVARIANTS NothingIsSkipped OncePerNight
