\* An event with a time beyond the column, and a removal by age.
CONSTANTS
  Streams <- SomeStreams
  Kinds <- SomeKinds
  Times <- LateTimes
  Consumers <- SomeConsumers
  Appends <- LateAppends
  Removals <- LateRemovals
  MaxEvents = 3
  MaxStored = 7
  Decisions <- None
  Reads <- SomeReads
  Shapeless = Shapeless
  Chain <- SomeChain
  LastScalar = 3
  BeforeGap = 1
  AfterGap = 3
  Listings <- None
  Pages <- None
  Saves <- None
  MaxWrites = 4
SPECIFICATION CatalogSpec
PROPERTIES
  OlderIsOlder
\* The log may be full, and nobody has to list it.
CHECK_DEADLOCK FALSE
