SPECIFICATION Spec
CONSTANTS
  startup = startup  restart = restart  drain = drain  live = live  none = none
  Entries = {1, 2}
  LiveEntries = {}
  BestEffort = {2}
  Reported = {}
  Startup = {startup, restart}
  Drains = {drain}
  Live = live
  MaxRetries = 2
  BudgetMayExpire = FALSE
  IOErrors = TRUE
  MaxCrashes = 1
  NoTmp = none
SYMMETRY MCSymmetry
INVARIANT OneRecoveryPerEntry
PROPERTY NoResendAfterAck
