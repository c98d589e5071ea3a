\* A closure that runs COMMIT as a statement of its own.
CONSTANTS
  Writer = w
  Readers = {r}
  Statements <- WithCommit
  Queries <- NoQueries
  MaxJobs = 2
  MaxSteps = 3
SPECIFICATION Spec
INVARIANTS
  AllOrNothing
CHECK_DEADLOCK FALSE
