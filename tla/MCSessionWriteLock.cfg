SPECIFICATION FairSpec
CONSTANTS
  gateway = gateway  cli = cli
  turn = turn  registry = registry  command = command
  Procs = {gateway, cli}
  Tasks = {turn, registry, command}
  ProcOf <- MCProcOf
  Reentrant = {turn, command}
  Crashable = {gateway}
  Signalled = {gateway}
  Cleaners = {gateway}
  NoLock = NoLock
CHECK_DEADLOCK FALSE
INVARIANT TypeOK
INVARIANT HeldOnDisk
INVARIANT CountsHolders
PROPERTY FreshLocksSurvive
PROPERTY EveryContenderSettles
