SPECIFICATION NetworkSpec
CONSTANTS
  Nics = {eth0, eth1}
  Speeds = {fast, slow}
  Negative = Negative
  Absent = Absent
  MaxFlips = 1
SYMMETRY Symmetry
INVARIANT NullIfDown
CHECK_DEADLOCK FALSE
