SPECIFICATION Spec
CONSTANTS
  f1 = f1
  f2 = f2
  f3 = f3
  f4 = f4
  Flow <- MCFlow
  Hash <- MCHash
  NumStages = 3
  Bucket = {1, 2, 3}
  FilterOversampling = 100
  Octets = {0, 40, 60}
  TableThresholds = {1}
  FirstThreshold = 1
  MaxDropped = 120
INVARIANTS TypeOK CountersBounded LoneFlowExact
 
