\* One caller that lists, over up to three events and four writes.
CONSTANTS
  Streams <- SomeStreams
  Kinds <- SomeKinds
  Times = {0, 1}
  Consumers <- SomeConsumers
  Appends <- SomeAppends
  Removals <- SomeRemovals
  MaxEvents = 3
  MaxStored = 7
  Decisions <- SomeDecisions
  Reads <- SomeReads
  Shapeless = Shapeless
  Chain <- SomeChain
  LastScalar = 3
  BeforeGap = 1
  AfterGap = 3
  Listings <- SomeListings
  Pages <- SomePages
  Saves <- SomeSaves
  MaxWrites = 4
SPECIFICATION CatalogSpec
INVARIANTS
  MemAgrees
  ListingIsTrue
\* The log may be full, and nobody has to list it.
CHECK_DEADLOCK FALSE
