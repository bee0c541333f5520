CONSTANTS
  Acts <- MCThree
  Ts <- MCTs
  Legacy = {1}
  Limit = 1
  Toggles = TRUE
  MaxQueue = 2
SPECIFICATION FairHistorySpec
INVARIANTS NothingSkipped MemoryIsDurable SettledOnceIfKeptOn
PROPERTIES EventuallySettled
