\* A log on a file or in memory, two jobs, four statements of caller code.
CONSTANTS
  Writer = w
  Readers = {r}
  Statements <- SomeStatements
  Queries <- Asked
  MaxJobs = 2
  MaxSteps = 4
SPECIFICATION Spec
INVARIANTS
  TypeOK
  OnlyTheCrateWritesTheLog
  NothingOutlivesAJob
  AllOrNothing
PROPERTIES
  QueriesOnlyRead
\* Callers may stop calling.
CHECK_DEADLOCK FALSE
