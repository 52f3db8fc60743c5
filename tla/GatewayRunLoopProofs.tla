------------------------- MODULE GatewayRunLoopProofs -------------------------
(***************************************************************************)
(* Theorems about the gateway's run loop: two servers never meet, a        *)
(* restart never falls into the cooldown, and a process that ends as asked *)
(* leaves no lock file behind.                                             *)
(***************************************************************************)
EXTENDS GatewayRunLoop, TLAPS

\* Before the signal listeners are installed and after the process has ended,
\* nothing of it is under way.
NothingUnderWay ==
  loop \in {"acquiring", "dead"} =>
    /\ ~listening /\ ~midStart
    /\ request = "none" /\ timer = "none" /\ polls = {}

\* A request that found the loop asleep keeps it asleep, and once it is past
\* server.close nothing listens.
RequestHoldsLoop ==
  request # "none" /\ ~midStart =>
    /\ loop = "waiting"
    /\ request \in {"releasing", "reacquiring"} => ~listening

\* The lock file never names a living process whose loop has no handle of it,
\* and no process that has ended.
LockKnown ==
  lockFile = "self" => lock /\ loop # "dead"

IInv == /\ TypeOK /\ NothingUnderWay /\ RequestHoldsLoop
        /\ OneServer /\ QuietCooldown /\ LockKnown

-----------------------------------------------------------------------------
(* The invariant.                                                          *)

LEMMA InitInv == Init => IInv
  BY DEF Init, IInv, TypeOK, NothingUnderWay, RequestHoldsLoop, OneServer,
         QuietCooldown, LockKnown

\* A request leaves a consistent request behind, its own or the one in progress.
LEMMA RequestFacts ==
  ASSUME IInv, loop \notin {"acquiring", "dead"},
         NEW a \in {"stop", "restart"}, Request(a)
  PROVE  /\ shuttingDown' = TRUE
         /\ request' \in {"draining", "closing", "releasing", "reacquiring"}
         /\ action' \in {"stop", "restart"}
         /\ server' \in BOOLEAN /\ listening' \in BOOLEAN
         /\ gatewayDraining' \in BOOLEAN /\ midStart' \in BOOLEAN
         /\ server' => listening'
         /\ listening' => listening
         /\ ~midStart' =>
              /\ loop = "waiting"
              /\ request' \in {"releasing", "reacquiring"} => ~listening'
  <1> USE DEF IInv, TypeOK, RequestHoldsLoop
  <1>1. CASE shuttingDown
    BY <1>1 DEF Request, requestVars, serverVars
  <1>2. CASE ~shuttingDown /\ a = "restart" /\ active
    BY <1>2 DEF Request, serverVars
  <1>3. CASE ~shuttingDown /\ ~(a = "restart" /\ active)
    <2>1. /\ shuttingDown' = TRUE /\ action' = a /\ ToClosing
          /\ midStart' = (midStart \/ loop # "waiting")
          /\ gatewayDraining' \in BOOLEAN
      BY <1>3 DEF Request
    <2> QED
      BY <2>1, <1>3 DEF ToClosing, Closed, serverVars
  <1> QED
    BY <1>1, <1>2, <1>3

LEMMA EmitInv ==
  ASSUME IInv, loop \notin {"acquiring", "dead"}, EmitGatewayRestart,
         restartPending' \in BOOLEAN, UNCHANGED <<loopVars, lockVars, active>>
  PROVE  IInv'
  <1>1. /\ polls' = {} /\ timer' = "none" /\ cooling' = TRUE
        /\ Request("restart")
    BY DEF EmitGatewayRestart
  <1>2. TypeOK'
    BY <1>1, RequestFacts DEF IInv, TypeOK, loopVars, lockVars
  <1>3. NothingUnderWay' /\ LockKnown'
    BY DEF IInv, NothingUnderWay, LockKnown, loopVars, lockVars
  <1>4. RequestHoldsLoop' /\ OneServer'
    BY <1>1, RequestFacts DEF IInv, RequestHoldsLoop, OneServer, loopVars
  <1>5. QuietCooldown'
    BY <1>1 DEF QuietCooldown
  <1> QED
    BY <1>2, <1>3, <1>4, <1>5 DEF IInv

LEMMA StepInv == IInv /\ [Next]_vars => IInv'
  <1> SUFFICES ASSUME IInv, [Next]_vars
               PROVE  IInv'
    OBVIOUS
  <1> USE DEF IInv, TypeOK, NothingUnderWay, RequestHoldsLoop, OneServer,
              QuietCooldown, LockKnown, loopVars, requestVars, lockVars,
              restartVars, serverVars, workVars
  <1>1. CASE AcquireLock
    BY <1>1 DEF AcquireLock
  <1>2. CASE AcquireLockFails
    BY <1>2 DEF AcquireLockFails, Exit
  <1>3. CASE ReleaseAfterFailure
    BY <1>3 DEF ReleaseAfterFailure
  <1>4. CASE StartOk
    BY <1>4 DEF StartOk
  <1>5. CASE FirstStartFails
    BY <1>5 DEF FirstStartFails, Exit
  <1>6. CASE StartFails
    BY <1>6 DEF StartFails
  <1>7. CASE DrainEnds
    BY <1>7 DEF DrainEnds, ToClosing, Closed
  <1>8. CASE ForceExit
    BY <1>8 DEF ForceExit, Exit
  <1>9. CASE AfterStop
    BY <1>9 DEF AfterStop, Released, Exit
  <1>10. CASE AfterRestartRespawn
    BY <1>10 DEF AfterRestartRespawn, Released, Exit
  <1>11. CASE AfterRestartInProcess
    BY <1>11 DEF AfterRestartInProcess, Released, WakeLoop
  <1>12. CASE Reacquire
    BY <1>12 DEF Reacquire, WakeLoop
  <1>13. CASE ReacquireFails
    BY <1>13 DEF ReacquireFails, Exit
  <1>14. CASE Sigterm
    BY <1>14, RequestFacts DEF Sigterm, Listening
  <1>15. CASE ServerClosed
    BY <1>15 DEF ServerClosed, Closed
  <1>16. CASE CooldownEnds
    BY <1>16 DEF CooldownEnds, Alive
  <1>17. CASE TimerFires
    <2>1. loop \notin {"acquiring", "dead"}
      BY <1>17 DEF TimerFires
    <2>2. CASE active
      BY <1>17, <2>2 DEF TimerFires, Alive
    <2>3. CASE ~active
      <3> HIDE DEF IInv
      <3> QED
        BY <1>17, <2>1, <2>3, EmitInv DEF TimerFires, IInv, TypeOK
    <2> QED
      BY <2>2, <2>3
  <1>18. CASE \E p \in polls : PollEnds(p)
    <2>1. loop \notin {"acquiring", "dead"}
      BY <1>18 DEF PollEnds
    <2>2. /\ EmitGatewayRestart /\ restartPending' \in BOOLEAN
          /\ UNCHANGED <<loopVars, lockVars, active>>
      BY <1>18 DEF PollEnds
    <2> QED
      BY <2>1, <2>2, EmitInv
  <1>19. CASE ScheduleRestart
    BY <1>19 DEF ScheduleRestart, Listening
  <1>20. CASE ReloadRequiresRestart
    <2>1. loop \notin {"acquiring", "dead"}
      BY <1>20 DEF ReloadRequiresRestart, Listening
    <2>2. CASE active
      <3>1. /\ restartPending' = TRUE /\ polls' = polls \cup {"reload"}
            /\ UNCHANGED <<timer, cooling, requestVars, serverVars, gatewayDraining,
                           midStart, loopVars, lockVars, active>>
        BY <1>20, <2>2 DEF ReloadRequiresRestart
      <3>2. TypeOK'
        BY <3>1
      <3>3. NothingUnderWay' /\ RequestHoldsLoop' /\ OneServer' /\ QuietCooldown'
            /\ LockKnown'
        BY <2>1, <3>1
      <3> QED
        BY <3>2, <3>3
    <2>3. CASE ~active
      BY <1>20, <2>1, <2>3, EmitInv DEF ReloadRequiresRestart
    <2> QED
      BY <2>2, <2>3
  <1>21. CASE WorkStarts
    BY <1>21 DEF WorkStarts
  <1>22. CASE WorkEnds
    <2>1. /\ active' = FALSE
          /\ UNCHANGED <<loopVars, requestVars, lockVars, restartVars, serverVars,
                         gatewayDraining, midStart>>
      BY <1>22 DEF WorkEnds
    <2>2. TypeOK'
      BY <2>1
    <2>3. NothingUnderWay' /\ RequestHoldsLoop' /\ OneServer' /\ QuietCooldown' /\ LockKnown'
      BY <2>1
    <2> QED
      BY <2>2, <2>3
  <1>23. CASE OtherTakesLock
    BY <1>23 DEF OtherTakesLock
  <1>24. CASE OtherReleasesLock
    BY <1>24 DEF OtherReleasesLock
  <1>25. CASE Relaunch
    BY <1>25 DEF Relaunch
  <1>26. CASE UNCHANGED vars
    BY <1>26 DEF vars
  <1> QED
    BY <1>1, <1>2, <1>3, <1>4, <1>5, <1>6, <1>7, <1>8, <1>9, <1>10,
       <1>11, <1>12, <1>13, <1>14, <1>15, <1>16, <1>17, <1>18, <1>19, <1>20,
       <1>21, <1>22, <1>23, <1>24, <1>25, <1>26
       DEF Next, LoopStep, RequestStep, RestartStep

LEMMA Invariance == Spec => []IInv
  BY InitInv, StepInv, PTL DEF Spec

-----------------------------------------------------------------------------
(* Theorems.                                                               *)

\* Every variable of the loop, of a request and of the restart scheduler keeps
\* its type; a server referred to is listening.
THEOREM TypeCorrect == Spec => []TypeOK
  <1>1. IInv => TypeOK
    BY DEF IInv
  <1> QED
    BY <1>1, Invariance, PTL

\* A server is never started while another of this process still listens
\* (run-loop.ts wakes the loop only after server.close), whatever requests,
\* lost wake-ups, failed starts and relaunches came before.
THEOREM NeverTwoServers == Spec => []OneServer
  <1>1. IInv => OneServer
    BY DEF IInv
  <1> QED
    BY <1>1, Invariance, PTL

\* Nothing that could restart the gateway again is due within the cooldown
\* after an emission (restart.ts, emitGatewayRestart clears what was pending).
THEOREM CooldownIsQuiet == Spec => []QuietCooldown
  <1>1. IInv => QuietCooldown
    BY DEF IInv
  <1> QED
    BY <1>1, Invariance, PTL

\* A process that ends as asked leaves no lock file of its own behind
\* (run-loop.ts releases the lock before it spawns or exits).
THEOREM ExitsClean == Spec => CleanExit
  <1>1. ASSUME IInv, [Next]_vars, Alive, loop' = "dead", exitCode' = 0
        PROVE  lockFile' \in {"none", "other"} \/ lockFile = "dead"
    <2>1. AfterStop \/ AfterRestartRespawn
      BY <1>1 DEF Next, vars, loopVars, Alive, LoopStep, RequestStep, RestartStep,
           AcquireLock, AcquireLockFails, ReleaseAfterFailure, StartOk,
           FirstStartFails, StartFails, DrainEnds, ForceExit, AfterRestartInProcess,
           WakeLoop, Reacquire, ReacquireFails, Sigterm, ServerClosed, CooldownEnds,
           TimerFires, PollEnds, ScheduleRestart, ReloadRequiresRestart, WorkStarts,
           WorkEnds, OtherTakesLock, OtherReleasesLock, Relaunch, Exit
    <2> QED
      BY <1>1, <2>1 DEF AfterStop, AfterRestartRespawn, Released, IInv, LockKnown, TypeOK
  <1>2. IInv /\ [Next]_vars =>
          [Alive /\ loop' = "dead" /\ exitCode' = 0 =>
             lockFile' \in {"none", "other"} \/ lockFile = "dead"]_vars
    BY <1>1
  <1> QED
    BY <1>2, Invariance, PTL DEF Spec, CleanExit
=============================================================================
