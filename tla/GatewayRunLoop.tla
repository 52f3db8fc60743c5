--------------------------- MODULE GatewayRunLoop ---------------------------
(***************************************************************************)
(* The gateway's run loop and its restart scheduler                        *)
(* (src/cli/gateway-cli/run-loop.ts, src/infra/restart.ts,                 *)
(* src/infra/process-respawn.ts, requestGatewayRestart in                  *)
(* src/gateway/server-reload-handlers.ts).                                 *)
(*                                                                         *)
(* Two asynchronous activities share the variables of runGatewayLoop: the  *)
(* loop, which starts a server and then sleeps on restartResolver, and a   *)
(* request (SIGTERM, SIGUSR1), which drains, closes the server, releases   *)
(* the lock and either exits or wakes the loop.  A restart is emitted from *)
(* inside the process: emitGatewayRestart calls the SIGUSR1 listener       *)
(* synchronously, so its tokens and its authorization are consumed before  *)
(* anything else runs and need no variables here.                          *)
(***************************************************************************)
EXTENDS Naturals

CONSTANTS
  RespawnModes  \* answers restartGatewayProcessWithFreshPid may give

ASSUME GatewayRunLoopAssumption ==
  RespawnModes \subseteq {"spawned", "supervised", "disabled", "failed"}

VARIABLES
  \* runGatewayLoop
  loop,            \* where the loop is: its await, or "dead" with exitCode;
                   \* restartResolver wakes it only while it is "waiting"
  exitCode,
  firstStart,      \* isFirstStart
  lock,            \* the loop holds a handle of the gateway lock
  server,          \* the loop's reference to a started server
  shuttingDown,
  request,         \* where the request is: its await
  action,          \* "stop" or "restart"
  \* infra/restart.ts and server-reload-handlers.ts
  timer,           \* pendingRestartTimer: none, waiting for the cooldown, or due
  cooling,         \* less than RESTART_COOLDOWN_MS since the last emission
  polls,           \* activeDeferralPolls, by who started them
  restartPending,
  \* what they act on
  listening,       \* a server of this process is listening
  lockFile,        \* who the lock file names
  gatewayDraining, \* the command queue refuses commands
  active,          \* there are tasks, runs or replies in progress
  midStart         \* history: a request was accepted while the loop was not asleep

loopVars == <<loop, exitCode, firstStart>>
requestVars == <<shuttingDown, request, action>>
lockVars == <<lock, lockFile>>
restartVars == <<timer, cooling, polls, restartPending>>
serverVars == <<server, listening>>
workVars == <<gatewayDraining, active>>
vars == <<loopVars, requestVars, lockVars, restartVars, serverVars, workVars, midStart>>

Alive == loop # "dead"
Listening == loop \notin {"acquiring", "dead"}  \* signal listeners are installed

TypeOK ==
  /\ loop \in {"acquiring", "starting", "releasing", "waiting", "dead"}
  /\ exitCode \in {0, 1}
  /\ request \in {"none", "draining", "closing", "releasing", "reacquiring"}
  /\ shuttingDown <=> request # "none"
  /\ server => listening
  /\ action \in {"stop", "restart"}
  /\ timer \in {"none", "cooling", "due"}
  /\ polls \subseteq {"scheduler", "reload"}
  /\ lockFile \in {"none", "self", "dead", "other"}
  /\ {firstStart, lock, server, shuttingDown, cooling, restartPending,
      listening, gatewayDraining, active, midStart} \subseteq BOOLEAN

-----------------------------------------------------------------------------
(* Helpers.                                                                *)

\* exitProcess: nothing of this process is left but its lock file.
Exit(code) ==
  /\ loop' = "dead"
  /\ exitCode' = code
  /\ listening' = FALSE
  /\ server' = FALSE
  /\ shuttingDown' = FALSE
  /\ request' = "none"
  /\ timer' = "none"
  /\ polls' = {}
  /\ active' = FALSE
  /\ midStart' = FALSE

\* A request that is past server.close: the references are dropped and the
\* lock, if held, is about to be released.
Closed ==
  /\ server' = FALSE
  /\ listening' = FALSE
  /\ request' = "releasing"

\* server?.close of nothing does not wait.
ToClosing == IF server THEN request' = "closing" /\ UNCHANGED serverVars ELSE Closed

\* request(action): ignored when one is in progress.
Request(a) ==
  IF shuttingDown
  THEN UNCHANGED <<requestVars, serverVars, gatewayDraining, midStart>>
  ELSE /\ shuttingDown' = TRUE
       /\ midStart' = (midStart \/ loop # "waiting")
       /\ action' = a
       /\ IF a = "restart" THEN gatewayDraining' = TRUE ELSE UNCHANGED gatewayDraining
       /\ IF a = "restart" /\ active
          THEN request' = "draining" /\ UNCHANGED serverVars
          ELSE ToClosing

\* Mutant: an emission leaves the pending timer alone.
EmitGatewayRestart_KeepTimer ==
  /\ polls' = {}
  /\ timer' = timer
  /\ cooling' = TRUE
  /\ Request("restart")

\* emitGatewayRestart, with the SIGUSR1 listener it calls.  The timers and
\* polls cleared include the one that is firing.
EmitGatewayRestart ==
  /\ polls' = {}
  /\ timer' = "none"
  /\ cooling' = TRUE
  /\ Request("restart")

\* acquireGatewayLock: a lock file is taken over when its owner does not
\* listen on the port, which includes this process before a server starts.
MayTakeLock == lockFile # "other"

-----------------------------------------------------------------------------
Init ==
  /\ loop = "acquiring" /\ exitCode = 0 /\ firstStart = TRUE
  /\ shuttingDown = FALSE /\ request = "none" /\ action = "stop"
  /\ lock = FALSE /\ lockFile = "none"
  /\ timer = "none" /\ cooling = FALSE /\ polls = {} /\ restartPending = FALSE
  /\ server = FALSE /\ listening = FALSE
  /\ gatewayDraining = FALSE /\ active = FALSE /\ midStart = FALSE

-----------------------------------------------------------------------------
(* The loop.                                                               *)

AcquireLock ==
  /\ loop = "acquiring"
  /\ MayTakeLock
  /\ lock' = TRUE /\ lockFile' = "self"
  /\ loop' = "starting"
  /\ UNCHANGED <<exitCode, firstStart, requestVars, restartVars,
                 serverVars, workVars, midStart>>

\* GatewayLockError leaves runGatewayLoop before anything was set up.
AcquireLockFails ==
  /\ loop = "acquiring"
  /\ lockFile = "other"
  /\ Exit(1)
  /\ UNCHANGED <<firstStart, action, lockVars, cooling,
                 restartPending, gatewayDraining>>

\* start() resolves; the loop sleeps on a new promise.
StartOk ==
  /\ loop = "starting"
  /\ ~listening
  /\ server' = TRUE /\ listening' = TRUE
  /\ firstStart' = FALSE
  /\ loop' = "waiting"
  /\ restartPending' = FALSE
  /\ UNCHANGED <<exitCode, requestVars, lockVars, timer, cooling, polls, workVars, midStart>>

\* The first start failing ends the process, after the lock is released.
FirstStartFails ==
  /\ loop = "starting"
  /\ firstStart
  /\ Exit(1)
  /\ lock' = FALSE
  /\ lockFile' = IF lock THEN "none" ELSE lockFile
  /\ UNCHANGED <<firstStart, action, cooling, restartPending,
                 gatewayDraining>>

\* A later start failing keeps the process and releases the lock.
StartFails ==
  /\ loop = "starting"
  /\ ~firstStart
  /\ IF lock
     THEN loop' = "releasing"
     ELSE loop' = "waiting"
  /\ server' = FALSE
  /\ UNCHANGED <<exitCode, firstStart, requestVars, lockVars, restartVars,
                 listening, workVars, midStart>>

\* The release after a failed start: the file is removed by name and the
\* handle dropped, whatever the request has done meanwhile.
ReleaseAfterFailure ==
  /\ loop = "releasing"
  /\ lock' = FALSE /\ lockFile' = "none"
  /\ loop' = "waiting"
  /\ UNCHANGED <<exitCode, firstStart, requestVars, restartVars, serverVars, workVars, midStart>>

-----------------------------------------------------------------------------
(* A request.                                                              *)

\* onSigterm, onSigint.
Sigterm ==
  /\ Listening
  /\ Request("stop")
  /\ UNCHANGED <<loopVars, lockVars, restartVars, active>>

\* The active work is done, or the drain timeout is over and it is aborted.
DrainEnds ==
  /\ request = "draining"
  /\ ToClosing
  /\ UNCHANGED <<loopVars, shuttingDown, action, lockVars, restartVars,
                 workVars, midStart>>

\* Mutant: the request does not wait for server.close.
ServerClosed_NotAwaited ==
  /\ request = "closing"
  /\ server' = FALSE /\ request' = "releasing"
  /\ UNCHANGED <<loopVars, shuttingDown, action, lockVars, restartVars,
                 listening, workVars, midStart>>

\* server.close returns or throws; an error is only logged.
ServerClosed ==
  /\ request = "closing"
  /\ Closed
  /\ UNCHANGED <<loopVars, shuttingDown, action, lockVars, restartVars,
                 workVars, midStart>>

\* Mutant: the timer is cleared once the drain is over.
ForceExit_DrainOnly ==
  /\ request = "draining"
  /\ Exit(1)
  /\ lockFile' = IF lockFile = "self" THEN "dead" ELSE lockFile
  /\ UNCHANGED <<firstStart, action, lock, cooling,
                 restartPending, gatewayDraining>>

\* forceExitTimer; the lock file of the dead process stays behind.
ForceExit ==
  /\ request \in {"draining", "closing"}
  /\ Exit(1)
  /\ lockFile' = IF lockFile = "self" THEN "dead" ELSE lockFile
  /\ UNCHANGED <<firstStart, action, lock, cooling,
                 restartPending, gatewayDraining>>

\* Mutant: a stop leaves the lock to the exit of the process.
AfterStop_KeepLock ==
  /\ request = "releasing" /\ action = "stop"
  /\ Exit(0)
  /\ lock' = FALSE
  /\ lockFile' = IF lockFile = "self" THEN "dead" ELSE lockFile
  /\ UNCHANGED <<firstStart, action, cooling, restartPending,
                 gatewayDraining>>

\* releaseLockIfHeld
Released ==
  /\ lock' = FALSE
  /\ lockFile' = IF lock THEN "none" ELSE lockFile

\* handleStopAfterServerClose
AfterStop ==
  /\ request = "releasing" /\ action = "stop"
  /\ Released
  /\ Exit(0)
  /\ UNCHANGED <<firstStart, action, cooling, restartPending,
                 gatewayDraining>>

\* handleRestartAfterServerClose, another process takes over.
AfterRestartRespawn ==
  /\ request = "releasing" /\ action = "restart"
  /\ RespawnModes \cap {"spawned", "supervised"} # {}
  /\ Released
  /\ Exit(0)
  /\ UNCHANGED <<firstStart, action, cooling, restartPending,
                 gatewayDraining>>

\* Mutant: the loop is woken only by a restart that held the lock.
WakeLoop_IfLocked ==
  /\ request' = "none"
  /\ shuttingDown' = FALSE
  /\ IF loop = "waiting" /\ request = "reacquiring"
     THEN loop' = "starting" /\ gatewayDraining' = FALSE /\ active' \in {FALSE, active}
     ELSE UNCHANGED <<loop, workVars>>

\* Mutant: the flag is cleared only with the start of a new server.
WakeLoop_KeepFlag ==
  /\ request' = "none"
  /\ shuttingDown' = (loop # "waiting")
  /\ IF loop = "waiting"
     THEN loop' = "starting" /\ gatewayDraining' = FALSE /\ active' \in {FALSE, active}
     ELSE UNCHANGED <<loop, workVars>>

\* shuttingDown = false; restartResolver?.().  The loop goes on at once with
\* onIteration, whose resetAllLanes may pump entries that were waiting, and
\* start(); if it was not asleep nothing remembers the call.
WakeLoop ==
  /\ request' = "none"
  /\ shuttingDown' = FALSE
  /\ IF loop = "waiting"
     THEN loop' = "starting" /\ gatewayDraining' = FALSE /\ active' \in {FALSE, active}
     ELSE UNCHANGED <<loop, workVars>>

\* handleRestartAfterServerClose, restart in process.
AfterRestartInProcess ==
  /\ request = "releasing" /\ action = "restart"
  /\ RespawnModes \cap {"disabled", "failed"} # {}
  /\ Released
  /\ IF lock
     THEN request' = "reacquiring" /\ UNCHANGED <<loop, shuttingDown, workVars>>
     ELSE WakeLoop
  /\ UNCHANGED <<exitCode, firstStart, action, restartVars, serverVars, midStart>>

\* reacquireLockForInProcessRestart
Reacquire ==
  /\ request = "reacquiring"
  /\ MayTakeLock
  /\ lock' = TRUE /\ lockFile' = "self"
  /\ WakeLoop
  /\ UNCHANGED <<exitCode, firstStart, action, restartVars,
                 serverVars, midStart>>

ReacquireFails ==
  /\ request = "reacquiring"
  /\ lockFile = "other"
  /\ Exit(1)
  /\ UNCHANGED <<firstStart, action, lockVars, cooling,
                 restartPending, gatewayDraining>>

-----------------------------------------------------------------------------
(* Restarts.                                                               *)

\* scheduleGatewaySigusr1Restart, called by request handlers, tools and an
\* external SIGUSR1.  A restart that is already scheduled absorbs the call or
\* is moved forward, but never into the cooldown.
ScheduleRestart ==
  /\ Listening
  /\ timer = "none"
  /\ timer' = IF cooling THEN "cooling" ELSE "due"
  /\ UNCHANGED <<loopVars, requestVars, lockVars, cooling, polls, restartPending,
                 serverVars, workVars, midStart>>

CooldownEnds ==
  /\ Alive
  /\ cooling
  /\ cooling' = FALSE
  /\ timer' = IF timer = "cooling" THEN "due" ELSE timer
  /\ UNCHANGED <<loopVars, requestVars, lockVars, polls, restartPending,
                 serverVars, workVars, midStart>>

\* The timer fires; deferGatewayRestartUntilIdle polls while work is active.
TimerFires ==
  /\ Alive
  /\ timer = "due"
  /\ IF active
     THEN /\ timer' = "none"
          /\ polls' = polls \cup {"scheduler"}
          /\ UNCHANGED <<cooling, requestVars, serverVars, gatewayDraining, midStart>>
     ELSE EmitGatewayRestart
  /\ UNCHANGED <<loopVars, lockVars, restartPending, active>>

\* Mutant: a poll waits for the work however long it takes.
PollEnds_NoMaxWait(p) ==
  /\ Alive
  /\ p \in polls
  /\ ~active
  /\ EmitGatewayRestart
  /\ restartPending' = (restartPending /\ p # "reload")
  /\ UNCHANGED <<loopVars, lockVars, active>>

\* A poll finds no work left, or has waited for maxWaitMs.
PollEnds(p) ==
  /\ Alive
  /\ p \in polls
  /\ EmitGatewayRestart
  /\ restartPending' = (restartPending /\ p # "reload")
  /\ UNCHANGED <<loopVars, lockVars, active>>

\* requestGatewayRestart: the configuration was changed on disk.
ReloadRequiresRestart ==
  /\ Listening
  /\ listening
  /\ IF active
     THEN /\ ~restartPending
          /\ restartPending' = TRUE
          /\ polls' = polls \cup {"reload"}
          /\ UNCHANGED <<timer, cooling, requestVars, serverVars, gatewayDraining, midStart>>
     ELSE EmitGatewayRestart /\ UNCHANGED restartPending
  /\ UNCHANGED <<loopVars, lockVars, active>>

-----------------------------------------------------------------------------
(* The environment.                                                        *)

WorkStarts ==
  /\ listening /\ ~gatewayDraining /\ ~active
  /\ active' = TRUE
  /\ UNCHANGED <<loopVars, requestVars, lockVars, restartVars, serverVars, gatewayDraining, midStart>>

WorkEnds ==
  /\ active
  /\ active' = FALSE
  /\ UNCHANGED <<loopVars, requestVars, lockVars, restartVars, serverVars, gatewayDraining, midStart>>

\* Another gateway takes the lock when it may: nobody holds it, its owner is
\* dead, or its owner does not listen.
OtherTakesLock ==
  /\ lockFile \in {"none", "dead"} \/ (lockFile = "self" /\ ~listening)
  /\ lockFile' = "other"
  /\ UNCHANGED <<loopVars, requestVars, lock, restartVars, serverVars, workVars, midStart>>

OtherReleasesLock ==
  /\ lockFile = "other"
  /\ lockFile' \in {"none", "dead"}
  /\ UNCHANGED <<loopVars, requestVars, lock, restartVars, serverVars, workVars, midStart>>

\* A supervisor, the spawned child or an operator starts the gateway again.
Relaunch ==
  /\ loop = "dead"
  /\ loop' = "acquiring" /\ exitCode' = 0 /\ firstStart' = TRUE
  /\ action' = "stop" /\ lock' = FALSE
  /\ cooling' = FALSE /\ restartPending' = FALSE /\ gatewayDraining' = FALSE
  /\ UNCHANGED <<shuttingDown, request, lockFile, timer, polls, serverVars, active, midStart>>

LoopStep == AcquireLock \/ AcquireLockFails \/ ReleaseAfterFailure

RequestStep ==
  \/ DrainEnds \/ ForceExit \/ AfterStop
  \/ AfterRestartRespawn \/ AfterRestartInProcess
  \/ Reacquire \/ ReacquireFails

RestartStep == CooldownEnds \/ TimerFires \/ \E p \in polls : PollEnds(p)

Next ==
  \/ LoopStep
  \/ StartOk \/ FirstStartFails \/ StartFails
  \/ RequestStep
  \/ Sigterm \/ ServerClosed
  \/ RestartStep
  \/ ScheduleRestart \/ ReloadRequiresRestart
  \/ WorkStarts \/ WorkEnds
  \/ OtherTakesLock \/ OtherReleasesLock
  \/ Relaunch

Spec == Init /\ [][Next]_vars

\* Timers fire and awaits on the lock file return; nothing is assumed of
\* start(), server.close(), the active work or the other gateway.
FairSpec ==
  /\ Spec
  /\ WF_vars(LoopStep) /\ WF_vars(RequestStep)
  /\ WF_vars(CooldownEnds) /\ WF_vars(TimerFires)
  /\ \A p \in {"scheduler", "reload"} : WF_vars(PollEnds(p))

-----------------------------------------------------------------------------
(* Properties.                                                             *)

\* A server is never started while another of this process still listens on
\* the port, whatever requests, lost wake-ups and failed starts came before
\* (the loop is woken only after server.close).
OneServer == loop = "starting" /\ ~midStart => ~listening

\* Within the cooldown after an emission nothing that could restart the gateway
\* again is due: requests made meanwhile wait for its end, and those made
\* before were absorbed by the emission (emitGatewayRestart clears them).
QuietCooldown == cooling => timer # "due" /\ "scheduler" \notin polls

\* A process that ends as asked leaves no lock file of its own behind, so that
\* the one it spawned can take the lock at once ("Release the lock BEFORE
\* spawning"), even when its last start is failing at the same time.
CleanExit ==
  [][Alive /\ loop' = "dead" /\ exitCode' = 0 =>
       \/ lockFile' \in {"none", "other"}
       \/ lockFile = "dead"]_vars

\* No shutdown hangs: if the drain or server.close never ends, the process exits.
ShutdownEnds == shuttingDown ~> ~shuttingDown

\* A restart that was scheduled or deferred is never dropped or postponed for
\* ever, however often others are requested and even if the work never ends.
ScheduledRestartHappens ==
  timer # "none" \/ polls # {} ~> shuttingDown \/ ~Alive

\* A restart requested while the loop sleeps wakes it, or the process exits.
RestartWakesLoop ==
  (shuttingDown /\ action = "restart" /\ loop = "waiting")
    ~> (loop = "starting" \/ ~Alive)

\* Commands are refused only while a restart drains ("during the drain window",
\* run-loop.ts): a gateway that serves accepts work.  The code does not have
\* this property, and no run checks it: README, section 4.
AcceptsWorkWhenServing ==
  listening /\ loop = "waiting" /\ ~shuttingDown
    => ~gatewayDraining
=============================================================================
