SPECIFICATION FairSpec
CONSTANTS
  Tasks = {t1, t2}
  Sids = {s1, s2, s3}
  NoSid = NoSid
PROPERTIES DeadSessionInvalidated
CHECK_DEADLOCK FALSE
