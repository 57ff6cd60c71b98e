SPECIFICATION Spec
CONSTANTS
  Models = 2
  Cases = 2
  Commits = {k1, k2}
  NoCommit = NoCommit
  Mixed = Mixed
  Absent = Absent
  MaxJobs = 2
INVARIANTS
  TypeOK
  FinishedIsWhole
  SuccessIsOfThisCommit
  NoServerLeft
  OneServerServes
PROPERTY
  EvidenceKept
