SPECIFICATION Spec
CONSTANTS
  Host = {h, k}
  Role = {w, c}
  Key = {k1}
  Sections <- PlainSections
  Newcomers <- Canonical
  MaxSections = 2
INVARIANT TypeOK
INVARIANT RoundTrip
INVARIANT OneIdentity
INVARIANT NamesFound
INVARIANT OneSecret
