SPECIFICATION FairSpec
CONSTANTS
  N = 2
  Batch = 1
  MaxWrites = 2
  MaxFailedCalls = 0
  MaxCrashes = 0
PROPERTY InSync
