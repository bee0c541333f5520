CONSTANTS
  a1 = a1 a2 = a2 c1 = c1
  Alerts = {a1, a2}
  ContractOf <- MCContractOf
  Threshold <- MCThreshold
  Above = {a1}
  Kept = {a2}
  Once = {}
  Prices = {0, 1}
  Refreshers = {p1}
  Capacity = 1
  MaxEdits = 1
  MaxInflight = 1
  None = None
SPECIFICATION FairSpec
PROPERTIES NoticedTogether OncePerArming UnreadIsKept EventuallyNoticed
