SPECIFICATION FairSpec
CONSTANTS
  Targets = {main, ops}
  Delays = {0, 1}
  Coalesce = 1
  RetryDelay = 2
  Priorities = {1, 3}
  MaxHandlers = 2
  MaxRequests = 3
  MaxRefusals = 2
CHECK_DEADLOCK FALSE
INVARIANT TypeOK
INVARIANT PendingIsScheduled
PROPERTY NoWakeLost
PROPERTY WakesHandled
