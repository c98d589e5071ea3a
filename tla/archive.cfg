\* Two tasks, or one and a power loss, with two calls at most.
CONSTANTS
  a1 = a1
  a2 = a2
  s1 = s1
  s2 = s2
  k1 = k1
  k2 = k2
  NoPlan = NoPlan
  Streams = {s1, s2}
  Kinds = {k1, k2}
  Times = {0}
  Consumers = {}
  Appends <- SomeAppends
  Removals <- SomeRemovals
  MaxEvents = 3
  Archivers = {a1, a2}
  LogSinks = {a1}
  SyncSinks = {a2}
  Plans <- SomePlans
  Exports <- SomeExports
  PageSize = 1
  Bounds <- SomeBounds
SPECIFICATION FairSpec
INVARIANTS
  TypeOK
  GoneIsArchived
  ChainIsHeld
  WalkFindsTheEnd
  ReportIsTruth
PROPERTIES
  ArchiveEnds
\* The system may stop: every call of the bound made, every event appended.
CHECK_DEADLOCK FALSE
