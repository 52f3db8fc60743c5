SPECIFICATION FairSpec
CONSTANTS
  chat = chat  job = job  none = none
  Runs = {chat, job}
  CronRuns = {job}
  SessionKeyOf <- MCSessionKeyOf
  LaneParamOf <- MCLaneParamOf
  ConcurrencyInputs = {1}
  MaxGeneration = 1
  NoCommand = none
INVARIANT OneTurnPerSession
PROPERTY EveryRunSettles
