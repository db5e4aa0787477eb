SPECIFICATION FairSpec
CONSTANTS
  Me = me
  Peer = {p, q}
  Registry <- Listed
  Addrs <- ThreeAddrs
  MaxAddrs = 3
  Tables = 2
  Interval = 3
  ConnectLimit = 1
  RequestLimit = 1
  BeatLimit = 1
  OfflineAfter = 34
  MaxFailures = 0
  Steady = {p}
  Faults = {"crash", "busy", "tailscale"}
INVARIANT TypeOK
INVARIANT BeatInTime
INVARIANT ShownOnline
PROPERTY HeardAgain
