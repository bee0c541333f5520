CONSTANTS
  k1 = k1 k2 = k2 k3 = k3 s1 = s1 s2 = s2 c1 = c1 c2 = c2 w1 = w1 w2 = w2
  Keys = {k1, k2}
  Poll = poll Other = other
  Reqs = {poll, other}
  LiveReqs = {}
  PollReqs = {poll}
  poll = poll other = other
  MaxEntries = 1
  Servers = {s1}
  Clients = {c1}
  Wallets = {w1, w2}
  Events <- MCEvents
  WalletOf <- MCWalletOf
  Ts <- MCTs
  Filtered <- MCFiltered
  BatchItems = 2
  MaxReceipts = 1
  TabsClose = FALSE
  NoKey = NoKey
SPECIFICATION FairSpec
PROPERTIES EventuallyReceived
