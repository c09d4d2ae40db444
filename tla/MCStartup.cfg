\* From the first statement to the running farm, and packets through it
CONSTANTS
  WordMod = 32
  ShortMod = 4
  KeySize = 2
  ByteMax = 1
  PortBytes <- MCPortBytes
  Seed <- MCSeed
  CommandLines <- MCCommandLines
SPECIFICATION Spec
INVARIANTS
  PathTypeOK
  SizePrime
  AssertionSound
  MemoryCoversFlows
  ThresholdAsAsked
  
  AccessesInBounds
  
