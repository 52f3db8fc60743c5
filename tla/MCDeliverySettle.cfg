SPECIFICATION FairSpec
CONSTANTS
  startup = startup  restart = restart  drain = drain  live = live  none = none
  Entries = {1, 2}
  LiveEntries = {}
  BestEffort = {}
  Reported = {}
  Startup = {startup}
  Drains = {}
  Live = live
  MaxRetries = 2
  BudgetMayExpire = TRUE
  IOErrors = FALSE
  MaxCrashes = 1
  NoTmp = none
PROPERTY EventuallySettled
