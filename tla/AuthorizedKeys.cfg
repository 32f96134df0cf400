SPECIFICATION Spec
CONSTANTS
  k1 = k1
  k2 = k2
  hash = hash
  junk = junk
  Tasks = {t1, t2}
  Keys = {k1, k2}
  Comments = {hash}
  Garbage = {junk}
  InitialFiles <- MCInitialFiles
  None = None
  Overlap = FALSE
INVARIANTS NoTornWrites
PROPERTIES LinesKept OrderKept SuccessIsTrue ImplementsKeyFile
CHECK_DEADLOCK FALSE
