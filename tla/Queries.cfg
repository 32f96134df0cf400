SPECIFICATION Spec
CONSTANTS
  Words <- MCWords
  Hosts <- MCHosts
  Environs <- MCEnvirons
  Files <- MCFiles
  Devices <- MCDevices
  DiskNames <- MCDiskNames
  Levels <- MCLevels
  Listings <- MCListings
  Nics = {eth0, eth1}
  Speeds = {fast, slow}
  Negative = Negative
  Absent = Absent
  MaxFlips = 1
  Plans = {p1, p2}
  Shares = {s1, s2}
  NoShare = NoShare
  Replicas = {r1, r2}
  Limits = {1, 3}
  MaxChanges = 2
SYMMETRY Symmetry
INVARIANTS ArraysReported Layered LinkTrue MismatchTold AnswersTrue AnswersComplete NotFoundIsTrue
CHECK_DEADLOCK FALSE
