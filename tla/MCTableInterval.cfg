SPECIFICATION Spec
CONSTANTS
  Flow = {f1, f2}
  OctetMod = 8
  Absent = Absent
  Octets = {0, 3}
  RThresholds = {0, 3}
  TThresholds = {2, 4}
  MaxPkts = 6
  MaxCycles = 3
INVARIANTS TypeOK CountsExact SecondChanceOnce
PROPERTIES IdleRemoved ReportExact
