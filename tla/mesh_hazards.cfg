SPECIFICATION Spec
CONSTANTS
  Node = {a, b}
  Row = {r}
  Nobody = Nobody
  Addr <- OneEach
  Host <- AtNode
  Peers <- SelfListed
  Skew <- OneAhead
  Writers = {a}
  MaxTime = 2
  PostId = {p}
  Hazards = {"net", "crash", "busy", "unchecked", "refused", "reject", "interleave", "tailscale", "sameSecond"}
SYMMETRY RowPostSymmetry
INVARIANT TypeOK
INVARIANT CursorNotAhead
INVARIANT CursorFromRowData
