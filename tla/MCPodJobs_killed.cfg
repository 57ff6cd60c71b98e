SPECIFICATION FairSpec
CONSTANTS
  Clients = {c1, c2}
  Modes = {full}
  NoMode = NoMode
  MaxJobs = 2
  MaxLines = 0
  MaxReboots = 0
  FailureLimit = 1
PROPERTIES
  KilledIsReported
