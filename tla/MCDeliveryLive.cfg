SPECIFICATION Spec
CONSTANTS
  startup = startup  restart = restart  drain = drain  live = live  none = none
  Entries = {1, 2}
  LiveEntries = {2}
  BestEffort = {}
  Reported = {}
  Startup = {startup}
  Drains = {drain}
  Live = live
  MaxRetries = 1
  BudgetMayExpire = TRUE
  IOErrors = TRUE
  MaxCrashes = 1
  NoTmp = none
INVARIANT TypeOK
INVARIANT NeverLost
