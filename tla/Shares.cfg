SPECIFICATION Spec
CONSTANTS
  Tasks = {t1, t2}
  Volumes = {v1, v2}
  Flags = {f1, f2}
  None = None
SYMMETRY Symmetry
INVARIANTS TypeOK
PROPERTIES RailHolds CreateKeepsOrMakes
CHECK_DEADLOCK FALSE
