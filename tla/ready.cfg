SPECIFICATION Spec
CONSTANTS
  Me = me
  Peer = {p, q}
  Registry <- Listed
  Addrs <- ThreeAddrs
  MaxAddrs = 3
  Tables = 2
  Interval = 3
  ConnectLimit = 1
  RequestLimit = 1
  BeatLimit = 1
  OfflineAfter = 60
  MaxFailures = 5
  Steady = {p}
  Faults = {}
INVARIANT HealthyMeansSynced
