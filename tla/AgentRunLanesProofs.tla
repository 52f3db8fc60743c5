------------------------- MODULE AgentRunLanesProofs -------------------------
(***************************************************************************)
(* Theorems about agent runs on the command queue, from what is proved of  *)
(* the queue itself: a run is one way to use it, and the turns of a        *)
(* session follow one another.                                             *)
(***************************************************************************)
EXTENDS AgentRunLanes, TLAPS

P == INSTANCE CommandQueueProofs WITH Waiters <- {}

-----------------------------------------------------------------------------
(* Commands and lanes.                                                     *)

LEMMA CommandFacts ==
  ASSUME NEW r \in Runs
  PROVE  /\ SessionCommand(r) \in Commands /\ AgentCommand(r) \in Commands
         /\ r \in CronRuns => JobCommand(r) \in Commands
         /\ LaneOf[SessionCommand(r)] = SessionLaneOf(r)
         /\ SessionLaneOf(r) \in Lanes \ ConfiguredLanes
  <1>1. /\ SessionCommand(r) \in Commands /\ AgentCommand(r) \in Commands
        /\ r \in CronRuns => JobCommand(r) \in Commands
    BY DEF Commands
  <1>2. LaneOf[SessionCommand(r)] = SessionLaneOf(r)
    BY <1>1 DEF LaneOf, CommandLaneOf, SessionCommand
  <1>3. SessionLaneOf(r) \in Lanes
    BY DEF Lanes, SessionLanes
  <1>4. SessionLaneOf(r) \notin ConfiguredLanes
    BY DEF SessionLaneOf, resolveSessionLane, ConfiguredLanes
  <1> QED
    BY <1>1, <1>2, <1>3, <1>4

\* A command's kind and run.
LEMMA CommandKind ==
  ASSUME NEW c \in Commands
  PROVE  \/ c[2] = "cron" /\ c[1] \in CronRuns /\ c = JobCommand(c[1])
         \/ c[2] = "session" /\ c[1] \in Runs /\ c = SessionCommand(c[1])
         \/ c[2] = "agent" /\ c[1] \in Runs /\ c = AgentCommand(c[1])
  BY DEF Commands, JobCommand, SessionCommand, AgentCommand

LEMMA GlobalLane ==
  ASSUME NEW r \in Runs
  PROVE  GlobalLaneOf(r) \in Lanes
  <1>1. ASSUME NEW n \in GlobalLaneNames
        PROVE  <<"global", n>> \in Lanes
    BY DEF Lanes, GlobalLanes
  <1>2. LaneParamOf[r] \in GlobalLaneNames \cup {""}
    BY AgentRunLanesAssumption
  <1>3. \A n \in GlobalLaneNames \cup {""} : resolveGlobalLane(n) \in Lanes
    BY <1>1 DEF resolveGlobalLane, GlobalLaneNames
  <1>4. \A n \in GlobalLaneNames \cup {""} :
          resolveNestedAgentLane(n) \in GlobalLaneNames \cup {""}
    BY DEF resolveNestedAgentLane, GlobalLaneNames
  <1> QED
    BY <1>2, <1>3, <1>4 DEF GlobalLaneOf

\* What the queue assumes of its constants holds of the commands of runs.
LEMMA QueueConstants == P!CommandQueueAssumption
  <1>1. ASSUME NEW c \in Commands
        PROVE  CommandLaneOf(c) \in Lanes
    <2>1. CASE c[2] = "cron"
      BY <2>1 DEF CommandLaneOf, Lanes, GlobalLanes, GlobalLaneNames
    <2>2. CASE c[2] = "session" /\ c[1] \in Runs
      BY <2>2 DEF CommandLaneOf, Lanes, SessionLanes
    <2>3. CASE c[2] = "agent" /\ c[1] \in Runs
      BY <2>3, GlobalLane DEF CommandLaneOf
    <2> QED
      BY <2>1, <2>2, <2>3, CommandKind
  <1>2. ConfiguredLanes \subseteq Lanes
    BY DEF ConfiguredLanes, Lanes, GlobalLanes, GlobalLaneNames
  <1> QED
    BY <1>1, <1>2, QueueAssumption DEF LaneOf, P!CommandQueueAssumption

-----------------------------------------------------------------------------
(* The operations of the queue, by either name.                            *)

LEMMA SameQueue ==
  /\ \A c \in Commands : Q!Enqueue(c) => P!Enqueue(c)
  /\ \A c \in Commands, o \in Q!Settled : Q!TaskSettle(c, o) => P!TaskSettle(c, o)
  /\ Q!PumpStart => P!PumpStart
  /\ Q!PumpEnd => P!PumpEnd
  /\ Q!TaskYield => P!TaskYield
  /\ Q!TaskThrow => P!TaskThrow
  /\ \A l \in Lanes : Q!ResetDrain(l) => P!ResetDrain(l)
  /\ Q!ResetEnd => P!ResetEnd
  /\ \A l \in Lanes : Q!ClearCommandLane(l) => P!ClearCommandLane(l)
  /\ \A l \in ConfiguredLanes, n \in ConcurrencyInputs :
       Q!SetCommandLaneConcurrency(l, n) => P!SetCommandLaneConcurrency(l, n)
  /\ Q!MarkGatewayDraining => P!MarkGatewayDraining
  /\ Q!ResetAllLanes => P!ResetAllLanes
  <1>1. \A c \in Commands : Q!Enqueue(c) => P!Enqueue(c)
    BY DEF Q!Enqueue, P!Enqueue, Q!Idle, P!Idle, Q!InTask, P!InTask, Q!Top,
           P!Top, Q!drainLane, P!drainLane, Q!PumpFrame, P!PumpFrame
  <1>2. \A c \in Commands, o \in Q!Settled : Q!TaskSettle(c, o) => P!TaskSettle(c, o)
    BY DEF Q!TaskSettle, P!TaskSettle, Q!Idle, P!Idle, Q!FinishTask,
           P!FinishTask, Q!completeTask, P!completeTask, Q!IsCurrent,
           P!IsCurrent, Q!notifyActiveTaskWaiters, P!notifyActiveTaskWaiters,
           Q!ActiveIds, P!ActiveIds, Q!PumpFrame, P!PumpFrame
  <1>3. Q!PumpStart => P!PumpStart
    BY DEF Q!PumpStart, P!PumpStart, Q!InPump, P!InPump, Q!Top, P!Top, Q!Below,
           P!Below, Q!HasRoom, P!HasRoom, Q!Cardinality, P!Cardinality
  <1>4. Q!PumpEnd => P!PumpEnd
    BY DEF Q!PumpEnd, P!PumpEnd, Q!InPump, P!InPump, Q!Top, P!Top, Q!Below,
           P!Below, Q!HasRoom, P!HasRoom, Q!Cardinality, P!Cardinality, Q!taskVars, P!taskVars
  <1>5. Q!TaskYield => P!TaskYield
    BY DEF Q!TaskYield, P!TaskYield, Q!InTask, P!InTask, Q!Top, P!Top, Q!Below,
           P!Below, Q!PumpFrame, P!PumpFrame, Q!laneVars, P!laneVars,
           Q!taskVars, P!taskVars
  <1>6. Q!TaskThrow => P!TaskThrow
    BY DEF Q!TaskThrow, P!TaskThrow, Q!InTask, P!InTask, Q!Top, P!Top, Q!Below,
           P!Below, Q!PumpFrame, P!PumpFrame, Q!FinishTask, P!FinishTask,
           Q!completeTask, P!completeTask, Q!IsCurrent, P!IsCurrent,
           Q!notifyActiveTaskWaiters, P!notifyActiveTaskWaiters, Q!ActiveIds,
           P!ActiveIds
  <1>7. \A l \in Lanes : Q!ResetDrain(l) => P!ResetDrain(l)
    BY DEF Q!ResetDrain, P!ResetDrain, Q!drainLane, P!drainLane, Q!PumpFrame,
           P!PumpFrame, Q!taskVars, P!taskVars
  <1>8. Q!ResetEnd => P!ResetEnd
    BY DEF Q!ResetEnd, P!ResetEnd, Q!notifyActiveTaskWaiters,
           P!notifyActiveTaskWaiters, Q!ActiveIds, P!ActiveIds, Q!laneVars,
           P!laneVars, Q!taskVars, P!taskVars
  <1>9. \A l \in Lanes : Q!ClearCommandLane(l) => P!ClearCommandLane(l)
    BY DEF Q!ClearCommandLane, P!ClearCommandLane, Q!Idle, P!Idle
  <1>10. \A l \in ConfiguredLanes, n \in ConcurrencyInputs :
           Q!SetCommandLaneConcurrency(l, n) => P!SetCommandLaneConcurrency(l, n)
    BY DEF Q!SetCommandLaneConcurrency, P!SetCommandLaneConcurrency, Q!Idle,
           P!Idle, Q!drainLane, P!drainLane, Q!PumpFrame, P!PumpFrame,
           Q!taskVars, P!taskVars
  <1>11. Q!MarkGatewayDraining => P!MarkGatewayDraining
    BY DEF Q!MarkGatewayDraining, P!MarkGatewayDraining, Q!Idle, P!Idle,
           Q!laneVars, P!laneVars, Q!taskVars, P!taskVars
  <1>12. Q!ResetAllLanes => P!ResetAllLanes
    BY DEF Q!ResetAllLanes, P!ResetAllLanes, Q!Idle, P!Idle, Q!taskVars,
           P!taskVars
  <1> QED
    BY <1>1, <1>2, <1>3, <1>4, <1>5, <1>6, <1>7, <1>8, <1>9, <1>10, <1>11, <1>12

-----------------------------------------------------------------------------
(* Runs use the queue as it may be used.                                   *)

\* The task on the top of the stack is a command that runs.
LEMMA TopRuns ==
  ASSUME P!TaskInv, Q!InTask
  PROVE  TopTask \in Commands /\ status[TopTask] = "running"
  <1>1. P!TypeOK /\ P!StackWell /\ callStack # <<>> /\ P!Top.task # NoCommand
    BY DEF P!TaskInv, Q!InTask, Q!Top, P!Top
  <1>2. TopTask = P!Top.task
    BY DEF TopTask, Q!Top, P!Top
  <1> QED
    BY <1>1, <1>2, QueueConstants, P!TopTask DEF P!TopTask

LEMMA InitUses == Init => P!Init
  BY DEF Init, Q!Init, P!Init

\* Every step of a run is a step of the queue.
LEMMA StepUses == P!TaskInv /\ [Next]_vars => [Q!Next]_(Q!vars)
  <1> SUFFICES ASSUME P!TaskInv, [Next]_vars
               PROVE  Q!Next \/ UNCHANGED Q!vars
    OBVIOUS
  <1>1. ASSUME EnqueueGlobal
        PROVE  Q!Next
    <2>1. Q!InTask /\ TopTask[2] = "session" /\ Q!Enqueue(AgentCommand(TopTask[1]))
      BY <1>1 DEF EnqueueGlobal
    <2>2. AgentCommand(TopTask[1]) \in Commands
      BY <2>1, TopRuns, CommandKind, CommandFacts
    <2> QED
      BY <2>1, <2>2 DEF Q!Next
  <1>2. ASSUME Synchronous, ~EnqueueGlobal
        PROVE  Q!Next
    BY <1>2 DEF Synchronous, TaskReturns, TaskAborted, Q!Next, Q!Synchronous
  <1>3. ASSUME NEW r \in Runs, StartRun(r) \/ EnqueueRun(r)
        PROVE  Q!Next
    <2>1. PICK c \in Commands : Q!Enqueue(c)
      BY <1>3, CommandFacts DEF StartRun, EnqueueRun
    <2> QED
      BY <2>1 DEF Q!Next
  <1>4. ASSUME NEW r \in Runs,
               AgentEnds(r) \/ SessionEnds(r) \/ JobEnds(r) \/ JobTimesOut(r)
        PROVE  Q!Next
    <2>1. PICK c \in Commands, o \in {"resolved", "rejected"} : Q!TaskSettle(c, o)
      BY <1>4, CommandFacts
         DEF AgentEnds, SessionEnds, JobEnds, JobTimesOut, Outcome
    <2> QED
      BY <2>1 DEF Q!Next, Q!Completion
  <1>5. ASSUME NEW l \in SessionLanes, Q!ClearCommandLane(l)
        PROVE  Q!Next
    BY <1>5 DEF Q!Next, Lanes
  <1>6. ASSUME NEW l \in ConfiguredLanes, NEW n \in ConcurrencyInputs,
               Q!SetCommandLaneConcurrency(l, n)
        PROVE  Q!Next
    BY <1>6 DEF Q!Next
  <1>7. CASE Q!MarkGatewayDraining \/ Q!ResetAllLanes
    BY <1>7 DEF Q!Next
  <1>8. CASE UNCHANGED vars
    BY <1>8 DEF vars
  <1> QED
    BY <1>1, <1>2, <1>3, <1>4, <1>5, <1>6, <1>7, <1>8 DEF Next

\* What is proved of the queue's steps applies to them.
LEMMA SameNext == [Q!Next]_(Q!vars) => [P!Next]_(P!vars)
  <1>1. ASSUME NEW c \in Commands, Q!Enqueue(c) \/ Q!Completion(c)
        PROVE  P!Enqueue(c) \/ P!Completion(c)
    BY <1>1, SameQueue DEF Q!Completion, P!Completion, Q!Settled
  <1>2. Q!Synchronous => P!Synchronous
    BY SameQueue DEF Q!Synchronous, P!Synchronous
  <1>3. Q!Next => P!Next
    BY <1>1, <1>2, SameQueue DEF Q!Next, P!Next
  <1>4. UNCHANGED Q!vars => UNCHANGED P!vars
    BY DEF Q!vars, P!vars, Q!laneVars, P!laneVars, Q!taskVars, P!taskVars
  <1> QED
    BY <1>3, <1>4

LEMMA QueueStep ==
  ASSUME P!TaskInv, P!SerialInv, [Next]_vars
  PROVE  P!TaskInv' /\ P!SerialInv'
  BY StepUses, SameNext, QueueConstants, P!TaskStep, P!SerialStep DEF P!TaskStep, P!SerialStep

-----------------------------------------------------------------------------
(* Turns of a session.                                                     *)

\* While the agent command of a run waits or runs, the session command that
\* returned its promise keeps its slot.
SlotHeld ==
  \A r \in Runs :
    status[AgentCommand(r)] \in {"queued", "running"}
    => status[SessionCommand(r)] = "running"

RunInv == P!TaskInv /\ P!SerialInv /\ SlotHeld

\* Commands of different kinds or runs differ.
LEMMA CommandsDiffer ==
  ASSUME NEW r \in Runs, NEW s \in Runs
  PROVE  /\ SessionCommand(r) # AgentCommand(s)
         /\ JobCommand(r) # AgentCommand(s)
         /\ JobCommand(r) # SessionCommand(s)
         /\ SessionCommand(r) = SessionCommand(s) => r = s
         /\ AgentCommand(r) = AgentCommand(s) => r = s
  BY DEF SessionCommand, AgentCommand, JobCommand

LEMMA StatusType ==
  ASSUME P!TaskInv
  PROVE  status \in [Commands -> {"none", "queued", "running"} \cup Q!Settled]
  BY DEF P!TaskInv, P!TypeOK, Q!Settled, P!Settled, Q!Refusals, P!Refusals

\* One command changes its status: an agent command comes alive only under a
\* running session command, and a session command stops running only when its
\* agent command is not alive.
LEMMA OneChanges ==
  ASSUME RunInv, NEW c \in Commands, NEW v, status' = [status EXCEPT ![c] = v],
         \A r \in Runs :
           /\ c = AgentCommand(r) =>
                v \notin {"queued", "running"} \/ status[SessionCommand(r)] = "running"
           /\ c = SessionCommand(r) =>
                v = "running" \/ status[AgentCommand(r)] \notin {"queued", "running"}
  PROVE  SlotHeld'
  <1> SUFFICES ASSUME NEW r \in Runs, status'[AgentCommand(r)] \in {"queued", "running"}
               PROVE  status'[SessionCommand(r)] = "running"
    BY DEF SlotHeld
  <1>1. /\ AgentCommand(r) \in Commands /\ SessionCommand(r) \in Commands
        /\ AgentCommand(r) # SessionCommand(r)
    BY CommandFacts, CommandsDiffer
  <1>2. /\ status'[c] = v
        /\ \A d \in Commands \ {c} : status'[d] = status[d]
    BY StatusType DEF RunInv
  <1>3. CASE c = AgentCommand(r)
    BY <1>1, <1>2, <1>3
  <1>4. CASE c = SessionCommand(r)
    BY <1>1, <1>2, <1>4 DEF RunInv, SlotHeld
  <1>5. CASE c # AgentCommand(r) /\ c # SessionCommand(r)
    BY <1>1, <1>2, <1>5 DEF RunInv, SlotHeld
  <1> QED
    BY <1>3, <1>4, <1>5

LEMMA SlotStep == RunInv /\ [Next]_vars => SlotHeld'
  <1> SUFFICES ASSUME RunInv, [Next]_vars
               PROVE  SlotHeld'
    OBVIOUS
  <1>0. P!TaskInv
    BY DEF RunInv
  <1>1. CASE Q!PumpStart
    <2>1. PICK c \in Commands : /\ status[c] = "queued"
                                /\ status' = [status EXCEPT ![c] = "running"]
      <3>1. P!PumpStart /\ P!TypeOK /\ P!QueuedWell /\ P!StackWell
        BY <1>0, <1>1, SameQueue DEF P!TaskInv
      <3>2. P!Top.lane = Q!Top.lane
        BY DEF P!Top, Q!Top
      <3> QED
        BY <1>1, <3>1, <3>2, QueueConstants, P!StartedEntry
           DEF P!StartedEntry, Q!PumpStart
    <2> QED
      BY <2>1, OneChanges DEF RunInv, SlotHeld
  <1>2. CASE EnqueueGlobal
    <2>1. /\ Q!InTask /\ TopTask[2] = "session"
          /\ Q!Enqueue(AgentCommand(TopTask[1]))
      BY <1>2 DEF EnqueueGlobal
    <2>2. PICK r \in Runs : TopTask = SessionCommand(r) /\ TopTask[1] = r
      BY <1>0, <2>1, TopRuns, CommandKind
    <2>3. status[SessionCommand(r)] = "running"
      BY <1>0, <2>1, <2>2, TopRuns
    <2>4. PICK v : status' = [status EXCEPT ![AgentCommand(r)] = v]
      BY <2>1, <2>2 DEF Q!Enqueue
    <2>5. \A q \in Runs : /\ AgentCommand(r) = AgentCommand(q) => q = r
                        /\ AgentCommand(r) # SessionCommand(q)
      BY CommandsDiffer
    <2> QED
      BY <2>3, <2>4, <2>5, OneChanges, CommandFacts
  <1>3. CASE TaskAborted
    <2>1. /\ Q!InTask /\ TopTask[2] = "session" /\ Q!TaskThrow
          /\ status[AgentCommand(TopTask[1])] = "none"
      BY <1>3 DEF TaskAborted
    <2>2. PICK r \in Runs : TopTask = SessionCommand(r) /\ TopTask[1] = r
      BY <1>0, <2>1, TopRuns, CommandKind
    <2>3. status' = [status EXCEPT ![SessionCommand(r)] = "rejected"]
      BY <2>1, <2>2 DEF Q!TaskThrow, TopTask
    <2> QED
      BY <2>1, <2>2, <2>3, OneChanges, CommandFacts, CommandsDiffer
  <1>4. ASSUME NEW r \in Runs, StartRun(r) \/ EnqueueRun(r)
        PROVE  SlotHeld'
    <2>1. PICK c \in Commands :
            /\ Q!Enqueue(c)
            /\ c = SessionCommand(r) \/ c = JobCommand(r)
      BY <1>4, CommandFacts DEF StartRun, EnqueueRun
    <2>2. PICK v : status[c] = "none" /\ status' = [status EXCEPT ![c] = v]
      BY <2>1 DEF Q!Enqueue
    <2>3. \A s \in Runs :
            /\ c # AgentCommand(s)
            /\ c = SessionCommand(s) => status[AgentCommand(s)] \notin {"queued", "running"}
      BY <2>1, <2>2, CommandsDiffer DEF RunInv, SlotHeld
    <2> QED
      BY <2>2, <2>3, OneChanges
  <1>5. ASSUME NEW r \in Runs, AgentEnds(r)
        PROVE  SlotHeld'
    <2>1. PICK o \in {"resolved", "rejected"} :
            status' = [status EXCEPT ![AgentCommand(r)] = o]
      BY <1>5 DEF AgentEnds, Q!TaskSettle
    <2>2. \A q \in Runs : AgentCommand(r) # SessionCommand(q)
      BY CommandsDiffer
    <2> QED
      BY <2>1, <2>2, OneChanges, CommandFacts
  <1>6. ASSUME NEW r \in Runs, SessionEnds(r)
        PROVE  SlotHeld'
    <2>1. PICK v : status' = [status EXCEPT ![SessionCommand(r)] = v]
      BY <1>6 DEF SessionEnds, Q!TaskSettle
    <2>2. status[AgentCommand(r)] \notin {"queued", "running"}
      BY <1>6 DEF SessionEnds, Q!Settled, Q!Refusals
    <2>3. \A q \in Runs : /\ SessionCommand(r) = SessionCommand(q) => q = r
                        /\ SessionCommand(r) # AgentCommand(q)
      BY CommandsDiffer
    <2> QED
      BY <2>1, <2>2, <2>3, OneChanges, CommandFacts
  <1>7. ASSUME NEW r \in Runs, JobEnds(r) \/ JobTimesOut(r)
        PROVE  SlotHeld'
    <2>1. /\ JobCommand(r) \in Commands
          /\ status' = [status EXCEPT ![JobCommand(r)] = "resolved"]
      BY <1>7, CommandFacts DEF JobEnds, JobTimesOut, Q!TaskSettle
    <2> QED
      BY <2>1, OneChanges, CommandsDiffer
  <1>8. ASSUME NEW l \in SessionLanes, Q!ClearCommandLane(l)
        PROVE  SlotHeld'
    <2>1. \A i \in DOMAIN queue[l] : status[queue[l][i]] = "queued"
      BY <1>0 DEF P!TaskInv, P!QueuedWell, P!TypeOK, Lanes
    <2>2. \A c \in Commands :
            /\ status[c] = "running" => status'[c] = "running"
            /\ status'[c] \in {"queued", "running"} => status[c] = status'[c]
      BY <1>8, <2>1 DEF Q!ClearCommandLane
    <2> QED
      BY <2>2, CommandFacts DEF RunInv, SlotHeld
  <1>9. CASE UNCHANGED status
    BY <1>9 DEF RunInv, SlotHeld
  <1> QED
    BY <1>1, <1>2, <1>3, <1>4, <1>5, <1>6, <1>7, <1>8, <1>9
       DEF Next, Synchronous, TaskReturns, Q!PumpEnd, Q!TaskYield, Q!ResetDrain,
           Q!ResetEnd, Q!SetCommandLaneConcurrency, Q!MarkGatewayDraining,
           Q!ResetAllLanes, Q!taskVars, vars, Q!vars

LEMMA RunStep == RunInv /\ [Next]_vars => RunInv'
  BY QueueStep, SlotStep DEF RunInv

LEMMA RunInit == Init => RunInv
  <1> SUFFICES ASSUME Init
               PROVE  RunInv
    OBVIOUS
  <1>1. P!TaskInv /\ P!SerialInv
    BY InitUses, QueueConstants, P!InitTasks, P!InitSerial DEF P!InitTasks, P!InitSerial
  <1>2. SlotHeld
    BY CommandFacts DEF SlotHeld, Init, Q!Init
  <1> QED
    BY <1>1, <1>2 DEF RunInv

LEMMA RunInvariance == Spec => []RunInv
  BY RunInit, RunStep, PTL DEF Spec

-----------------------------------------------------------------------------
(* Theorems.                                                               *)

\* Runs nested over session and global lanes are one way to use the command queue:
\* every behaviour of them is one of CommandQueue, so that what is proved of the
\* queue for any commands holds of them.
THEOREM UsesTheQueue == Spec => Q!Spec
  <1>1. Init => Q!Init
    BY DEF Init
  <1>2. RunInv /\ [Next]_vars => [Q!Next]_(Q!vars)
    BY StepUses DEF RunInv
  <1> QED
    BY <1>1, <1>2, RunInvariance, PTL DEF Spec, Q!Spec

\* Two agent turns of one session never run together, unless resetAllLanes made the
\* queue forget the slot of the older one (run.ts): the run of a cron job waits
\* like any other for the session it runs in.
THEOREM TurnsFollowEachOther == Spec => []OneTurnPerSession
  <1>1. ASSUME RunInv, NEW r \in Runs, NEW s \in Runs,
               SessionKeyOf[r] = SessionKeyOf[s],
               status[AgentCommand(r)] = "running", status[AgentCommand(s)] = "running",
               taskGeneration[SessionCommand(r)] = taskGeneration[SessionCommand(s)]
        PROVE  r = s
    <2>1. /\ status[SessionCommand(r)] = "running"
          /\ status[SessionCommand(s)] = "running"
      BY <1>1 DEF RunInv, SlotHeld
    <2>2. LaneOf[SessionCommand(r)] = LaneOf[SessionCommand(s)]
      BY <1>1, CommandFacts DEF SessionLaneOf
    <2>3. SessionCommand(r) = SessionCommand(s)
      BY <1>1, <2>1, <2>2, CommandFacts
         DEF RunInv, P!SerialInv, P!SessionLaneSerial, P!Running
    <2> QED
      BY <2>3, CommandsDiffer
  <1>2. RunInv => OneTurnPerSession
    BY <1>1 DEF OneTurnPerSession
  <1> QED
    BY <1>2, RunInvariance, PTL
=============================================================================
