SPECIFICATION Spec
CONSTANTS
  Tasks = {t1, t2}
  Ports = {22, 1024}
  ConfigPort = 22
  MaxOthers = 2
  None = None
  Bare = Bare
SYMMETRY Symmetry
INVARIANTS TypeOK TakenRefused AnsweredHolds
PROPERTIES SettingsKept
CHECK_DEADLOCK FALSE
