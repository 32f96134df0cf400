SPECIFICATION Spec
CONSTANTS
  Volumes = {v1, v2}
  None = None
  Tasks = {t1, t2}
  Users = {u1}
  Visible = {u1}
SYMMETRY Symmetry
INVARIANTS TypeOK
PROPERTIES EnableMeansOn RollbackRestores RailHolds
CHECK_DEADLOCK FALSE
