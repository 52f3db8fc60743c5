SPECIFICATION Spec
CONSTANTS
  daily = daily  once = once
  JobOrder <- MCJobOrder
  OneShots = {once}
  SlotOf <- MCSlotOf
  DeleteAfterRun = {}
  InitialJobs = {daily, once}
  Period = 2
  Backoff = 1
  MaxAttempts = 1
  MaxMissed = 1
  Stagger = 1
  Manuals = {"manual"}
  Requests <- MCRequests
  MaxNow = 2
  MaxRequests = 2
  MaxCrashes = 1
  NoJob = NoJob
CHECK_DEADLOCK FALSE
PROPERTY InterruptedOneShotsStayDown
