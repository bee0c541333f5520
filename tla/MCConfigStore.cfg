CONSTANTS
  t1 = t1 t2 = t2 t3 = t3 p1 = p1 p2 = p2 o1 = o1 o2 = o2 v0 = v0 v1 = v1
  Threads <- MCThreads
  Procs = {p1, p2}
  Objs = {o1, o2}
  ProcOf <- MCProcOf
  OwnerOf <- MCOwnerOf
  Values = {v0, v1}
  Default = v0
  Missing = Missing
  Torn = Torn
  None = None
  MaxCommits = 1
SPECIFICATION FairSpec
INVARIANTS OutcomeIsTruthful AckedSurvives
PROPERTIES ImplementsRegister CallsReturn
