SPECIFICATION Spec
CONSTANTS
  Cpu = Cpu
  Mem = Mem
  Low = Low
  High = High
  Fields = {Cpu, Mem}
  Values = {Low, High}
  Instances = {i1, i2}
  None = None
  NoSample = NoSample
  NoRow = NoRow
  Reports <- FewReports
  Bucket = 2
  MaxTime = 2
INVARIANTS
  TypeOK
  RollupsAgree
  WindowExact
PROPERTIES
  ShowsHistory
SYMMETRY Symmetry
CHECK_DEADLOCK FALSE
