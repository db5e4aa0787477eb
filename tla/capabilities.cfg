SPECIFICATION Spec
CONSTANTS
  Peer = {p, q}
  Cap = {a, b}
  Tag = {gpu, voice}
  a = a
  b = b
  gpu = gpu
  voice = voice
  Version = {1, 2}
  Lists <- SomeLists
  Queries <- SomeQueries
  NoRow = NoRow
  Call = {c, d, e}
  NoCall = NoCall
SYMMETRY Alike
INVARIANT TypeOK
INVARIANT AnsweredInEffect
INVARIANT CoverageFirst
PROPERTY KeepsPromise
