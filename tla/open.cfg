\* Opens of two builds, backups that race, and a lock held from outside.
CONSTANTS
  live = live
  spare = spare
  older = older
  newer = newer
  b1 = b1
  b2 = b2
  Paths = {live, spare}
  Openers = {older, newer}
  TargetOf <- Builds
  Creates <- TwoSteps
  UserTables = {"exports"}
  OldFiles <- AtStart
  MaxEvents = 1
  Backups = {b1, b2}
SPECIFICATION FairSpec
INVARIANTS
  TypeOK
  FilesAreWhole
  OpenIsReady
PROPERTIES
  RefusedForCause
  BackupIsWhole
  NewerIsRefused
  NothingLost
  OpensEnd
CHECK_DEADLOCK FALSE
