SPECIFICATION FairSpec
CONSTANTS
  daily = daily  once = once
  JobOrder <- MCJobOrder
  OneShots = {once}
  SlotOf <- MCSlotOf
  DeleteAfterRun = {}
  InitialJobs = {daily, once}
  Period = 2
  Backoff = 1
  MaxAttempts = 1
  MaxMissed = 1
  Stagger = 1
  Manuals = {"manual", "manual2"}
  Requests <- MCRequests
  MaxNow = 2
  MaxRequests = 2
  MaxCrashes = 1
  NoJob = NoJob
CHECK_DEADLOCK FALSE
INVARIANT TypeOK
INVARIANT OneRunAtATime
INVARIANT SchedulerAwake
PROPERTY DueSlotWaitsForARun
PROPERTY DoneOneShotStaysDone
PROPERTY DueJobsRun
