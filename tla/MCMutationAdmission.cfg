CONSTANTS
  m1 = m1 m2 = m2 m3 = m3 r1 = r1
  Requests = {m1, m2, m3, r1}
  Mutations = {m1, m2, m3}
  MaxWorkers = 3
  MaxMutations = 2
  None = None
SPECIFICATION FairSpec
INVARIANTS DrainedIsQuiet PermitsAreShared
PROPERTIES RequestsEnd DrainEnds
CHECK_DEADLOCK FALSE
