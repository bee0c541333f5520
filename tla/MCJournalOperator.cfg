CONSTANTS
  k1 = k1 k2 = k2 s1 = s1 s2 = s2 live = live live2 = live2 loc = loc
  Keys = {k1, k2}
  Reqs = {live, loc}
  LiveReqs = {live}
  PollReqs = {}
  MaxEntries = 1
  Servers = {s1}
  Truthful = TRUE
  MaxBarriers = 3
  MaxEffects = 1
SPECIFICATION Spec
SYMMETRY KeySymmetry
INVARIANTS JournalMatchesVenue
PROPERTIES UnresolvedIsKept
