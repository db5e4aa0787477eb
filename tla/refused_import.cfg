SPECIFICATION Spec
CONSTANTS
  Node = {a, b}
  Row = {r}
  Nobody = Nobody
  Addr <- OneEach
  Host <- AtNode
  Peers <- FullMesh
  Skew <- NoSkew
  Writers = {a, b}
  MaxTime = 2
  PostId = {p}
  Hazards = {"refused"}
SYMMETRY RowPostSymmetry
INVARIANT NoOwnWriteSkipped
