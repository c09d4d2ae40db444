SPECIFICATION Spec
CONSTANTS
  f1 = f1
  f2 = f2
  Flow <- MCFlow
  Dispatch <- MCDispatch
  Hash <- MCHash
  NumStages = 1
  Bucket = {1}
  FilterOversampling = 1
  OctetMod = 8
  Absent = Absent
  FlowMem = 2
  FirstThreshold = 4
  ResultSizes = {0, 1, 2}
  NumWorkers = 2
  Octets = {2, 6}
  QueueCap = 1
  MaxPackets <- OneAndThree
  MaxIntervals = 1
PROPERTY ImplementsFlowMeter
