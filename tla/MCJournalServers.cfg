CONSTANTS
  k1 = k1 k2 = k2 s1 = s1 s2 = s2 live = live live2 = live2 loc = loc
  Keys = {k1}
  Reqs = {live, live2, loc}
  LiveReqs = {live, live2}
  PollReqs = {}
  MaxEntries = 1
  Servers = {s1, s2}
  Truthful = FALSE
  MaxBarriers = 3
  MaxEffects = 1
SPECIFICATION Spec
SYMMETRY ServerSymmetry
INVARIANTS DispatchesAreFresh AnswersAreDurable RunsOnce
PROPERTIES ImplementsLedger
