SPECIFICATION Spec
CONSTANTS
  Node = {a, b, c}
  Row = {r}
  Nobody = Nobody
  Addr <- OneEach
  Host <- AtNode
  Peers <- Hub
  Skew <- OneAhead
  Writers = {b}
  MaxTime = 2
  PostId = {p, q}
  Hazards = {"net", "crash", "busy"}
SYMMETRY RowPostSymmetry
INVARIANT NoOwnWriteSkipped
INVARIANT IInv
PROPERTY CursorNeverBack
PROPERTY OverwritesOnlyOlder
