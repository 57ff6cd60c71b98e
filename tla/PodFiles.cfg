SPECIFICATION Spec
CONSTANTS
  Commits = {a, b}
  NoCommit = NoCommit
  Files = {report}
  MaxJobs = 2
  MaxFetches = 2
INVARIANTS
  TypeOK
  LocalFinishedIsWhole
  NothingLost
  ReadyIsWhole
PROPERTIES
  JobUndisturbed
CHECK_DEADLOCK FALSE
