SPECIFICATION Spec
CONSTANTS
  Absent = Absent
  Null = Null
  Unknown = Unknown
  Malformed = Malformed
  ShardMissing = ShardMissing
  Pending = Pending
  Error = Error
  Traceback = Traceback
  GIB <- MCGib
  Repositories <- MCRepositories
  Requests <- MCRequests
INVARIANTS
  TypeOK
  HeaderCountIsReference
  FitsIsSound
  UnknownHasCause
  FailureIsNoEvidence
PROPERTY
  ImplementsAtomicInspection
