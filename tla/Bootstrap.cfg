SPECIFICATION FetchSpec
CONSTANTS
  n1 = n1
  c1 = c1
  Names = {n1, n2, n3}
  Contents = {c1, c2}
  Topologies = {t1, t2}
  Pins <- MCPins
  MaxBases = 2
  None = None
SYMMETRY Symmetry
INVARIANTS PinnedStays TRCsInPlace
