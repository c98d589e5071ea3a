\* A strict and a tolerant projection that follow one log, under fairness.
CONSTANTS
  h1 = h1
  h2 = h2
  strict = strict
  loose = loose
  r1 = r1
  r2 = r2
  s1 = s1
  s2 = s2
  k1 = k1
  k2 = k2
  Nobody = Nobody
  Streams = {s1, s2}
  Kinds = {k1, k2}
  Times = {0}
  Consumers = {strict, loose}
  Handles = {h1}
  Publishers = {}
  Appends <- SomeAppends
  Removals <- ForcedRemoval
  MaxEvents = 3
  Runners = {r1, r2}
  NameOf <- TwoNames
  HandleAt <- OneLog
  VerbsOf <- Followers
  KindsOf <- Kinds1
  Tolerant = {loose}
  Batch = 1
  MaxQueue = 1
SPECIFICATION FairSpec
PROPERTIES
  EventuallyFolded
