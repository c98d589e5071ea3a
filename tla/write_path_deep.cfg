\* Three calls: appends and transactions before and after a removal.
CONSTANTS
  h1 = h1
  h2 = h2
  c1 = c1
  c2 = c2
  c3 = c3
  s1 = s1
  s2 = s2
  k1 = k1
  k2 = k2
  None = None
  Streams = {s1, s2}
  Kinds = {k1, k2}
  Times = {0}
  Consumers = {}
  Handles = {h1, h2}
  Clients = {c1, c2}
  HandleOf <- OwnHandle
  Requests <- FewRequests
  Detachable <- TwoEach
  MaxBusyRetries = 1
  MaxCalls = 3
  SwallowErrors = FALSE
SYMMETRY Swap
SPECIFICATION Spec
INVARIANTS
  HistoryDense
PROPERTIES
  AppendsAtTheEnd
