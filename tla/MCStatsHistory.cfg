SPECIFICATION StatsSpec
CONSTANTS
  Absent = absent
  Putters = {}
  Bodies <- MCBodies
  RowEdits = {}
  Defaults <- MCDefaults
  EnvDefaults <- MCEnvDefaults
  MinDays = 1
  MaxDays = 4
  CeilingDays = 3
  MaxChanges = 0
  Events = {1}
  KeyOf <- MCKeyOf
  DayLen = 2
  ScrubDays = 1
  MaxPastDays = 2
  PageSize = 1
  Tickers = {t}
  Manuals = {}
  MaxTime = 5
  MaxFailures = 0
  SinceDays = {3}
  DefaultSinceDays = 4
INVARIANTS
  HistoryExactlyOnce
CHECK_DEADLOCK FALSE
