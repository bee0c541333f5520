CONSTANTS
  t1 = t1 t2 = t2
  Callers = {ui}
  Tokens = {t1, t2}
  MaxStarts = 2
  MaxChanges = 1
  NoGeneration = NoGeneration
  Idle = Idle
SPECIFICATION FairStreamSpec
INVARIANTS ConnectedIsTrue StopReaches
PROPERTIES StopEnds SubscriptionsConverge
CHECK_DEADLOCK FALSE
