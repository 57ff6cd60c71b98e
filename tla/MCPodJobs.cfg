SPECIFICATION Spec
CONSTANTS
  Clients = {c1, c2}
  Modes = {full, boundary}
  NoMode = NoMode
  MaxJobs = 2
  MaxLines = 1
  MaxReboots = 1
  FailureLimit = 1
SYMMETRY ClientSymmetry
INVARIANTS
  TypeOK
  OneJobAtATime
  WriterOwnsFiles
  FreshVerdict
  WholeLogShown
PROPERTY
  ImplementsGpuSlot
