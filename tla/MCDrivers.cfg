SPECIFICATION FairSpec
CONSTANTS
  BytesPerBlock = 10
  NoReport = NoReport
  Cases = {1, 2, 3}
  Warmups = {1}
  Measured <- MCMeasured
  Strays <- MCStrays
  MaxPreemptions = 1
  MaxFaults = 2
  RunTable <- MCRunTable
  MaxRuns = 2
  Launches <- MCLaunches
  Pools <- MCPools
  Layouts <- MCLayouts
INVARIANTS
  TypeOK
  DeltaIsOwn
  LaunchesAlone
  ManifestAccounts
  SuccessStandsReview
  FinishedIsSaved
  SamplersStop
PROPERTIES
  RecordedIsFinal
  DriversEnd
CHECK_DEADLOCK FALSE
