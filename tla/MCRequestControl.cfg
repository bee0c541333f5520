CONSTANTS
  Requests = {r1, r2}
  Sockets = {s1}
  MaxLookups = 1
  MaxExchanges = 2
  None = None
SPECIFICATION FairSpec
INVARIANTS OnlyOwnCut NobodyUnwatched CutsAreReported
CHECK_DEADLOCK FALSE
PROPERTIES RequestsEnd
