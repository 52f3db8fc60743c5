SPECIFICATION FairSpec
CONSTANTS
  RespawnModes = {"spawned", "disabled"}
INVARIANT TypeOK
INVARIANT OneServer
INVARIANT QuietCooldown
PROPERTY CleanExit
PROPERTY ShutdownEnds
PROPERTY ScheduledRestartHappens
PROPERTY RestartWakesLoop
