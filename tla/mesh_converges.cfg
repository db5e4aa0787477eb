SPECIFICATION FairSpec
CONSTANTS
  Node = {a, b}
  Row = {r}
  Nobody = Nobody
  Addr <- TwoAtOne
  Host <- AtNode
  Peers <- FullMesh
  Skew <- NoSkew
  Writers = {a, b}
  MaxTime = 2
  PostId = {p}
  Hazards = {"net"}
INVARIANT NoOwnWriteSkipped
INVARIANT QuietAgrees
PROPERTY ImplementsLww
PROPERTY EventuallyAgree
