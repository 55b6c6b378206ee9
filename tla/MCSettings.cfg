SPECIFICATION FairSpec
CONSTANTS
  Threads = {t1, t2}
  Configs = {default, c1, c2}
  Default = default
  Unset = {default}
  Absent = Absent
  Broken = Broken
  NoTest = NoTest
  MaxSlots = 1
  MaxEdits = 2
INVARIANTS
  TypeOK
  ShownResultIsOfShownConfig
  SlotsConserved
PROPERTIES
  ReplacesWhatItChecked
  RequestsEnd
CHECK_DEADLOCK FALSE
