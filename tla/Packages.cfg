SPECIFICATION MCSpec
CONSTANTS
  t1 = t1
  t2 = t2
  v1 = v1
  v2 = v2
  Tasks = {t1, t2}
  Versions = {v1, v2}
  Protected = TRUE
  MaxPolls = 2
  None = None
PROPERTIES NothingReplaced PinHonoured CallsReturn ImplementsPackageJobs
CHECK_DEADLOCK FALSE
