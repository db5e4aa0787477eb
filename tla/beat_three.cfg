SPECIFICATION Spec
CONSTANTS
  Me = me
  Peer = {p, q, r}
  Registry <- Unlisted
  Addrs <- ThreeAddrs
  MaxAddrs = 3
  Tables = 11
  Interval = 3
  ConnectLimit = 1
  RequestLimit = 1
  BeatLimit = 1
  OfflineAfter = 60
  MaxFailures = 0
  Steady = {p, q, r}
  Faults = {}
INVARIANT ShownOnline
