SPECIFICATION StatsSpec
CONSTANTS
  Absent = absent
  Putters = {p}
  Bodies <- MCBodies
  RowEdits <- MCRowEdits
  Defaults <- MCDefaults
  EnvDefaults <- MCEnvDefaults
  MinDays = 1
  MaxDays = 4
  CeilingDays = 3
  MaxChanges = 1
  Events = {1, 2}
  KeyOf <- MCKeyOf
  DayLen = 2
  ScrubDays = 1
  MaxPastDays = 2
  PageSize = 1
  Tickers = {t}
  Manuals = {}
  MaxTime = 5
  MaxFailures = 1
  SinceDays = {3, absent}
  DefaultSinceDays = 4
INVARIANTS
  RollupsOutliveRaw
  NeverOvercounts
  StatsComplete
PROPERTIES
  NothingLost
CHECK_DEADLOCK FALSE
