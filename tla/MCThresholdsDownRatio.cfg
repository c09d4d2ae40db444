SPECIFICATION ThresholdSpec
CONSTANTS
  FlowMem = 3
  FirstThreshold = 40
  ResultSizes = {0, 2, 3, 6}
PROPERTY DecreaseByRatio
