SPECIFICATION Spec
CONSTANTS
  Models = 1
  Cases = 1
  Commits = {k1, k2}
  NoCommit = NoCommit
  Mixed = Mixed
  Absent = Absent
  MaxJobs = 2
INVARIANT
  KnownCommit
