\* Two logs that run one projection, with guarded and forced removals.
CONSTANTS
  h1 = h1
  h2 = h2
  strict = strict
  loose = loose
  r1 = r1
  r2 = r2
  s1 = s1
  s2 = s2
  k1 = k1
  k2 = k2
  Nobody = Nobody
  Streams = {s1, s2}
  Kinds = {k1, k2}
  Times = {0}
  Consumers = {strict}
  Handles = {h1, h2}
  Publishers = {h1}
  Appends <- SomeAppends
  Removals <- SomeRemovals
  MaxEvents = 3
  Runners = {r1, r2}
  NameOf <- SameName
  HandleAt <- TwoLogs
  VerbsOf <- FirstRebuilds
  KindsOf <- KindsStrict
  Tolerant = {}
  Batch = 1
  MaxQueue = 2
SPECIFICATION Spec
INVARIANTS
  TypeOK
  ExactlyOnce
  FollowIsCurrent
PROPERTIES
  OnlyForceStrands
