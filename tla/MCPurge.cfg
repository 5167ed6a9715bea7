SPECIFICATION PurgeSpec
CONSTANTS
  Absent = absent
  Putters = {}
  Bodies = {}
  RowEdits <- MCRowEdits
  Defaults <- MCDefaults
  EnvDefaults <- MCDefaults
  MinDays = 1
  MaxDays = 3
  CeilingDays = 3
  MaxChanges = 1
  Events = {1, 2}
  KeyOf <- MCKeyOf
  DayLen = 2
  ScrubDays = 1
  MaxPastDays = 1
  PageSize = 1
  Tickers = {t}
  Manuals = {m}
  MaxTime = 7
  MaxFailures = 1
INVARIANTS
  RolledUpOnce
PROPERTIES
  WindowsEnforced
CHECK_DEADLOCK FALSE
