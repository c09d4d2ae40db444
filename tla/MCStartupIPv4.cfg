\* The comment of the constructor on the packets that are accepted
CONSTANTS
  WordMod = 32
  ShortMod = 4
  KeySize = 2
  ByteMax = 1
  PortBytes <- MCPortBytes
  Seed <- MCSeed
  CommandLines <- MCCommandLines
SPECIFICATION Spec
INVARIANTS
  OnlyIPv4
