SPECIFICATION AccountSpec
CONSTANTS
  f1 = f1
  f2 = f2
  f3 = f3
  b1 = b1
  b2 = b2
  b3 = b3
  Flow <- MCFlow
  Bucket <- MCBucket
  Dispatch <- MCDispatch
  Hash <- MCHash
  NumStages = 1
  FilterOversampling = 1
  OctetMod = 8
  Absent = Absent
  FlowMem = 2
  FirstThreshold = 4
  ResultSizes = {0, 1, 2}
  NumWorkers = 2
  Octets = {2, 6}
  QueueCap = 1
  MaxPackets <- OneAndThree
  MaxIntervals = 1
SYMMETRY Alike
INVARIANTS
  FarmTypeOK LocksHeld DecisionsStand FlowAffinity FiltersAgree NothingLost
  FarmDrains NoUseAfterEnd FinalCoverage ReportsKept
  ReportsTrue LoneHeavyReported EntriesPreserved
