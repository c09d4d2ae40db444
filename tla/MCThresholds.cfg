SPECIFICATION FairThresholdSpec
CONSTANTS
  FlowMem = 3
  FirstThreshold = 40
  ResultSizes = {0, 2, 3, 6}
INVARIANTS ThresholdTypeOK 
PROPERTIES DecreasePaced PressureNeverLowers AdaptsDown AdaptsUp
