\* A narrow consumer that may tail or replay.
CONSTANTS
  h1 = h1
  r1 = r1
  s1 = s1
  s2 = s2
  k1 = k1
  k2 = k2
  Streams = {s1, s2}
  Kinds = {k1, k2}
  Times = {0}
  Consumers = {}
  Handles = {h1}
  Publishers = {h1}
  Appends <- SomeAppends
  Removals <- SomeRemovals
  MaxEvents = 3
  Readers = {r1}
  HandleAt <- OneLog
  FilterOf <- Narrow
  Origins = {0, 1}
  Batch = 2
SPECIFICATION FairSpec
INVARIANTS
  TypeOK
  InOrderOnce
  NothingSkipped
  NoLostWake
  ReplayIsWhole
PROPERTIES
  EventuallyHanded
