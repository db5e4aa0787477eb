SPECIFICATION Spec
CONSTANTS
  Node = {a, b}
  Row = {r, s}
  Nobody = Nobody
  Addr <- OneEach
  Host <- AtNode
  Peers <- FullMesh
  Skew <- NoSkew
  Writers = {a, b}
  MaxTime = 2
  PostId = {p}
  Hazards = {"net"}
SYMMETRY FullSymmetry
INVARIANT OwnWritesKept
INVARIANT NoOwnWriteSkipped
INVARIANT QuietAgrees
