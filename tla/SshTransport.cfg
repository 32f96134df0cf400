SPECIFICATION FairSpec
CONSTANTS
  Callers = {c1, c2}
  Conns = {x1, x2, x3}
  NoConn = NoConn
  MaxFaults = 2
INVARIANTS CacheNotClosed QuietWithoutFaults
PROPERTIES StaleClientHarmless ImplementsRemoteExec EveryCallReturns
