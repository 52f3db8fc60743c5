---------------------------- MODULE CommandQueue ----------------------------
(***************************************************************************)
(* The gateway's in-process command queue (src/process/command-queue.ts).  *)
(* Commands are enqueued on named lanes; each lane runs at most            *)
(* maxConcurrent of them at once and keeps the others in FIFO order.       *)
(*                                                                         *)
(* The program is single-threaded: a JavaScript callback runs to           *)
(* completion, but the synchronous prefix of a command's task runs inside  *)
(* the pump loop that started it and may itself call the queue.  callStack *)
(* is that stack of nested pump loops, so that re-entrancy is explored;    *)
(* everything else (completions, timers, other callers) happens only when  *)
(* the stack is empty.                                                     *)
(***************************************************************************)
EXTENDS Naturals, Sequences, FiniteSets

CONSTANTS
  Lanes,              \* names of lanes
  Commands,           \* the commands callers may enqueue, each once
  LaneOf,             \* the lane a command is enqueued on
  ConfiguredLanes,    \* lanes given a limit (main, cron, subagent); a session
                      \* lane is never one of them and keeps the limit 1
  ConcurrencyInputs,  \* arguments given to setCommandLaneConcurrency
  Waiters,            \* calls of waitForActiveTasks
  MaxGeneration,      \* bound on the number of resetAllLanes calls
  NoCommand           \* "no task's synchronous prefix is running"

ASSUME CommandQueueAssumption ==
  /\ LaneOf \in [Commands -> Lanes]
  /\ ConfiguredLanes \subseteq Lanes
  /\ ConcurrencyInputs \subseteq Nat
  /\ MaxGeneration \in Nat
  /\ NoCommand \notin Commands

VARIABLES
  queue,              \* per lane: entries waiting, oldest first
  activeTaskIds,      \* per lane: ids of the tasks counted as executing
  maxConcurrent,      \* per lane: concurrency limit
  draining,           \* per lane: a drainLane call is pumping it
  generation,         \* per lane: number of resets
  gatewayDraining,    \* new enqueues are refused
  nextTaskId,         \* next id to hand out
  waiters,            \* per waitForActiveTasks call: its state and task ids
  status,             \* per command: where its promise is
  taskId,             \* per command: the id it was started under
  taskGeneration,     \* per command: the lane generation it was started in
  callStack,          \* nested pump loops, innermost last
  resetting,          \* resetAllLanes is on the stack
  lanesToDrain        \* lanes that call has still to drain

laneVars == <<queue, activeTaskIds, maxConcurrent, draining, generation>>
taskVars == <<status, taskId, taskGeneration>>
vars == <<laneVars, taskVars, gatewayDraining, nextTaskId, waiters,
          callStack, resetting, lanesToDrain>>

Refusals == {"refused", "cleared"}
Settled == Refusals \cup {"resolved", "rejected"}
Frame == [lane : Lanes, task : Commands \cup {NoCommand}]

TypeOK ==
  /\ queue \in [Lanes -> Seq(Commands)]
  /\ activeTaskIds \in [Lanes -> SUBSET Nat]
  /\ maxConcurrent \in [Lanes -> Nat \ {0}]
  /\ draining \in [Lanes -> BOOLEAN]
  /\ generation \in [Lanes -> Nat]
  /\ gatewayDraining \in BOOLEAN
  /\ nextTaskId \in Nat \ {0}
  /\ waiters \in [Waiters -> [state : {"none", "waiting", "drained", "timedOut"},
                              ids : SUBSET Nat]]
  /\ status \in [Commands -> {"none", "queued", "running"} \cup Settled]
  /\ taskId \in [Commands -> Nat]
  /\ taskGeneration \in [Commands -> Nat]
  /\ callStack \in Seq(Frame)
  /\ resetting \in BOOLEAN
  /\ lanesToDrain \in SUBSET Lanes

-----------------------------------------------------------------------------
(* Control: who may run.                                                   *)

Idle == callStack = <<>> /\ ~resetting

Top == callStack[Len(callStack)]

InPump == callStack # <<>> /\ Top.task = NoCommand

InTask == callStack # <<>> /\ Top.task # NoCommand

Below == SubSeq(callStack, 1, Len(callStack) - 1)

PumpFrame(l) == [lane |-> l, task |-> NoCommand]

-----------------------------------------------------------------------------
(* Helpers of the source.                                                  *)

ActiveIds(active) == UNION {active[l] : l \in Lanes}

\* hasPendingActiveTasks, and notifyActiveTaskWaiters with it.
notifyActiveTaskWaiters(ws, active) ==
  [w \in Waiters |->
     IF ws[w].state = "waiting" /\ ws[w].ids \cap ActiveIds(active) = {}
     THEN [state |-> "drained", ids |-> ws[w].ids]
     ELSE ws[w]]

\* drainLane returns early when the lane is already being pumped by a
\* drainLane call further down the stack.
drainLane(l) ==
  IF draining[l]
  THEN UNCHANGED <<draining, callStack>>
  ELSE /\ draining' = [draining EXCEPT ![l] = TRUE]
       /\ callStack' = Append(callStack, PumpFrame(l))

\* completeTask: a task of an earlier generation is no longer counted.
IsCurrent(c) == taskGeneration[c] = generation[LaneOf[c]]

completeTask(c) ==
  activeTaskIds' = IF IsCurrent(c)
                   THEN [activeTaskIds EXCEPT ![LaneOf[c]] = @ \ {taskId[c]}]
                   ELSE activeTaskIds

\* Mutant: a finished task does not pump its lane again.
FinishTask_NoPump(c, stack) ==
  /\ completeTask(c)
  /\ waiters' = notifyActiveTaskWaiters(waiters, activeTaskIds')
  /\ callStack' = stack

\* What a finished task does before its promise settles: leave the lane,
\* wake the waiters and pump the lane again (without marking it draining).
FinishTask(c, stack) ==
  /\ completeTask(c)
  /\ waiters' = IF IsCurrent(c)
                THEN notifyActiveTaskWaiters(waiters, activeTaskIds')
                ELSE waiters
  /\ callStack' = IF IsCurrent(c)
                  THEN Append(stack, PumpFrame(LaneOf[c]))
                  ELSE stack

-----------------------------------------------------------------------------
Init ==
  /\ queue = [l \in Lanes |-> <<>>]
  /\ activeTaskIds = [l \in Lanes |-> {}]
  /\ maxConcurrent = [l \in Lanes |-> 1]
  /\ draining = [l \in Lanes |-> FALSE]
  /\ generation = [l \in Lanes |-> 0]
  /\ gatewayDraining = FALSE
  /\ nextTaskId = 1
  /\ waiters = [w \in Waiters |-> [state |-> "none", ids |-> {}]]
  /\ status = [c \in Commands |-> "none"]
  /\ taskId = [c \in Commands |-> 0]
  /\ taskGeneration = [c \in Commands |-> 0]
  /\ callStack = <<>>
  /\ resetting = FALSE
  /\ lanesToDrain = {}

\* enqueueCommandInLane, called from the event loop or from the synchronous
\* prefix of a task that a pump loop is starting.
Enqueue(c) ==
  /\ Idle \/ InTask
  /\ status[c] = "none"
  /\ IF gatewayDraining
     THEN /\ status' = [status EXCEPT ![c] = "refused"]
          /\ UNCHANGED <<queue, draining, callStack>>
     ELSE /\ status' = [status EXCEPT ![c] = "queued"]
          /\ queue' = [queue EXCEPT ![LaneOf[c]] = Append(@, c)]
          /\ drainLane(LaneOf[c])
  /\ UNCHANGED <<activeTaskIds, maxConcurrent, generation, taskId,
                 taskGeneration, gatewayDraining, nextTaskId, waiters,
                 resetting, lanesToDrain>>

\* Mutant: the loop condition is off by one.
HasRoom_OffByOne(l) == Cardinality(activeTaskIds[l]) <= maxConcurrent[l]

HasRoom(l) == Cardinality(activeTaskIds[l]) < maxConcurrent[l]

\* One iteration of the pump loop: shift the oldest entry, give it an id and
\* enter the synchronous prefix of its task.
PumpStart ==
  /\ InPump
  /\ LET l == Top.lane
         c == Head(queue[l])
     IN /\ HasRoom(l)
        /\ queue[l] # <<>>
        /\ queue' = [queue EXCEPT ![l] = Tail(@)]
        /\ activeTaskIds' = [activeTaskIds EXCEPT ![l] = @ \cup {nextTaskId}]
        /\ nextTaskId' = nextTaskId + 1
        /\ status' = [status EXCEPT ![c] = "running"]
        /\ taskId' = [taskId EXCEPT ![c] = nextTaskId]
        /\ taskGeneration' = [taskGeneration EXCEPT ![c] = generation[l]]
        /\ callStack' = Append(Below, [lane |-> l, task |-> c])
  /\ UNCHANGED <<maxConcurrent, draining, generation, gatewayDraining,
                 waiters, resetting, lanesToDrain>>

\* The loop condition fails: the finally block clears draining.
PumpEnd ==
  /\ InPump
  /\ LET l == Top.lane
     IN /\ ~(HasRoom(l) /\ queue[l] # <<>>)
        /\ draining' = [draining EXCEPT ![l] = FALSE]
  /\ callStack' = Below
  /\ UNCHANGED <<queue, activeTaskIds, maxConcurrent, generation, taskVars,
                 gatewayDraining, nextTaskId, waiters, resetting, lanesToDrain>>

\* The task reaches its first await: control returns to the pump loop.
TaskYield ==
  /\ InTask
  /\ callStack' = Append(Below, PumpFrame(Top.lane))
  /\ UNCHANGED <<laneVars, taskVars, gatewayDraining, nextTaskId, waiters,
                 resetting, lanesToDrain>>

\* The task throws before its first await: the catch block runs inside the
\* pump loop and pumps the lane again from there.
TaskThrow ==
  /\ InTask
  /\ LET c == Top.task
     IN /\ FinishTask(c, Append(Below, PumpFrame(Top.lane)))
        /\ status' = [status EXCEPT ![c] = "rejected"]
  /\ UNCHANGED <<queue, maxConcurrent, draining, generation, taskId,
                 taskGeneration, gatewayDraining, nextTaskId, resetting,
                 lanesToDrain>>

\* The promise of a task that has yielded settles.
TaskSettle(c, outcome) ==
  /\ Idle
  /\ status[c] = "running"
  /\ FinishTask(c, callStack)
  /\ status' = [status EXCEPT ![c] = outcome]
  /\ UNCHANGED <<queue, maxConcurrent, draining, generation, taskId,
                 taskGeneration, gatewayDraining, nextTaskId, resetting,
                 lanesToDrain>>

\* Mutant: the limit is taken as given.
SetCommandLaneConcurrency_NoFloor(l, n) ==
  /\ Idle
  /\ maxConcurrent' = [maxConcurrent EXCEPT ![l] = n]
  /\ drainLane(l)
  /\ UNCHANGED <<queue, activeTaskIds, generation, taskVars, gatewayDraining,
                 nextTaskId, waiters, resetting, lanesToDrain>>

\* setCommandLaneConcurrency: Math.max(1, Math.floor(n)).
SetCommandLaneConcurrency(l, n) ==
  /\ Idle
  /\ maxConcurrent' = [maxConcurrent EXCEPT ![l] = IF n < 1 THEN 1 ELSE n]
  /\ drainLane(l)
  /\ UNCHANGED <<queue, activeTaskIds, generation, taskVars, gatewayDraining,
                 nextTaskId, waiters, resetting, lanesToDrain>>

\* clearCommandLane: every waiting entry is rejected, none is started.
ClearCommandLane(l) ==
  /\ Idle
  /\ queue[l] # <<>>
  /\ queue' = [queue EXCEPT ![l] = <<>>]
  /\ status' = [c \in Commands |->
                  IF \E i \in DOMAIN queue[l] : queue[l][i] = c
                  THEN "cleared" ELSE status[c]]
  /\ UNCHANGED <<activeTaskIds, maxConcurrent, draining, generation, taskId,
                 taskGeneration, gatewayDraining, nextTaskId, waiters,
                 callStack, resetting, lanesToDrain>>

MarkGatewayDraining ==
  /\ Idle
  /\ ~gatewayDraining
  /\ gatewayDraining' = TRUE
  /\ UNCHANGED <<laneVars, taskVars, nextTaskId, waiters, callStack,
                 resetting, lanesToDrain>>

\* Mutants of resetAllLanes: the active ids survive, the ids restart.
ResetWith(active, id, queues, lanes) ==
  /\ Idle
  /\ \A l \in Lanes : generation[l] < MaxGeneration
  /\ gatewayDraining' = FALSE
  /\ generation' = [l \in Lanes |-> generation[l] + 1]
  /\ activeTaskIds' = active
  /\ nextTaskId' = id
  /\ queue' = queues
  /\ draining' = [l \in Lanes |-> FALSE]
  /\ lanesToDrain' = lanes
  /\ resetting' = TRUE
  /\ UNCHANGED <<maxConcurrent, taskVars, waiters, callStack>>
NoneActive == [l \in Lanes |-> {}]
WithQueued == {l \in Lanes : queue[l] # <<>>}
ResetAllLanes_KeepActive == ResetWith(activeTaskIds, nextTaskId, queue, WithQueued)
ResetAllLanes_RestartIds == ResetWith(NoneActive, 1, queue, WithQueued)

\* resetAllLanes, the pass over the lanes.
ResetAllLanes ==
  /\ Idle
  /\ \A l \in Lanes : generation[l] < MaxGeneration
  /\ gatewayDraining' = FALSE
  /\ generation' = [l \in Lanes |-> generation[l] + 1]
  /\ activeTaskIds' = [l \in Lanes |-> {}]
  /\ draining' = [l \in Lanes |-> FALSE]
  /\ lanesToDrain' = {l \in Lanes : queue[l] # <<>>}
  /\ resetting' = TRUE
  /\ UNCHANGED <<queue, maxConcurrent, taskVars, nextTaskId, waiters, callStack>>

\* resetAllLanes, the loop that drains the lanes that kept queued entries.
ResetDrain(l) ==
  /\ callStack = <<>>
  /\ resetting
  /\ l \in lanesToDrain
  /\ lanesToDrain' = lanesToDrain \ {l}
  /\ drainLane(l)
  /\ UNCHANGED <<queue, activeTaskIds, maxConcurrent, generation, taskVars,
                 gatewayDraining, nextTaskId, waiters, resetting>>

\* Mutant: the waiters are not told that the reset discarded their tasks.
ResetEnd_NoNotify ==
  /\ callStack = <<>>
  /\ resetting
  /\ lanesToDrain = {}
  /\ resetting' = FALSE
  /\ UNCHANGED <<laneVars, taskVars, gatewayDraining, nextTaskId, waiters,
                 callStack, lanesToDrain>>

\* resetAllLanes, the final notifyActiveTaskWaiters.
ResetEnd ==
  /\ callStack = <<>>
  /\ resetting
  /\ lanesToDrain = {}
  /\ waiters' = notifyActiveTaskWaiters(waiters, activeTaskIds)
  /\ resetting' = FALSE
  /\ UNCHANGED <<laneVars, taskVars, gatewayDraining, nextTaskId, callStack,
                 lanesToDrain>>

\* waitForActiveTasks: resolved at once when nothing is active, or with
\* drained = false when the timeout is not positive; otherwise a waiter on
\* the ids active now.
WaitForActiveTasks(w, hasTimeout) ==
  /\ Idle
  /\ waiters[w].state = "none"
  /\ LET ids == ActiveIds(activeTaskIds)
         state == IF ids = {} THEN "drained"
                  ELSE IF hasTimeout THEN "waiting" ELSE "timedOut"
         added == [waiters EXCEPT ![w] = [state |-> state, ids |-> ids]]
     IN waiters' = IF state = "waiting"
                   THEN notifyActiveTaskWaiters(added, activeTaskIds)
                   ELSE added
  /\ UNCHANGED <<laneVars, taskVars, gatewayDraining, nextTaskId, callStack,
                 resetting, lanesToDrain>>

\* The timer of a waiter fires: resolveActiveTaskWaiter(drained: false).
WaiterTimeout(w) ==
  /\ Idle
  /\ waiters[w].state = "waiting"
  /\ waiters' = [waiters EXCEPT ![w] = [state |-> "timedOut", ids |-> @.ids]]
  /\ UNCHANGED <<laneVars, taskVars, gatewayDraining, nextTaskId, callStack,
                 resetting, lanesToDrain>>

\* Steps of the callback that is running now.
Synchronous ==
  \/ PumpStart
  \/ PumpEnd
  \/ TaskYield
  \/ TaskThrow
  \/ \E l \in Lanes : ResetDrain(l)
  \/ ResetEnd

Completion(c) == \E outcome \in {"resolved", "rejected"} : TaskSettle(c, outcome)

Next ==
  \/ Synchronous
  \/ \E c \in Commands : Enqueue(c) \/ Completion(c)
  \/ \E l \in Lanes : ClearCommandLane(l)
  \/ \E l \in ConfiguredLanes, n \in ConcurrencyInputs :
       SetCommandLaneConcurrency(l, n)
  \/ \E w \in Waiters, t \in BOOLEAN : WaitForActiveTasks(w, t)
  \/ \E w \in Waiters : WaiterTimeout(w)
  \/ MarkGatewayDraining
  \/ ResetAllLanes

Spec == Init /\ [][Next]_vars

-----------------------------------------------------------------------------
(* Properties.                                                             *)

Running(c) == status[c] = "running"

\* No lane is stuck: whenever control is back in the event loop, a lane with
\* waiting entries is using its whole limit, whatever re-entrant enqueues,
\* synchronous throws, limit changes and resets happened (drainLane, pump).
NoStuckLane ==
  Idle => \A l \in Lanes : queue[l] = <<>> \/ ~HasRoom(l)

\* activeTaskIds counts exactly the tasks of the current generation that have
\* been started and have not finished (completeTask, resetAllLanes).
ActiveAreRunning ==
  \A l \in Lanes :
    activeTaskIds[l] =
      {taskId[c] : c \in {d \in Commands : Running(d) /\ LaneOf[d] = l /\ IsCurrent(d)}}

\* A waiter of waitForActiveTasks is never left waiting for tasks that are
\* all gone (notifyActiveTaskWaiters is called wherever ids leave a lane).
NoForgottenWaiter ==
  ~resetting => \A w \in Waiters :
    waiters[w].state = "waiting" => waiters[w].ids \cap ActiveIds(activeTaskIds) # {}

\* A waiter told drained = true waited for tasks that have all finished or
\* belong to a generation discarded by resetAllLanes, for good: no later task
\* is mistaken for one of them.
DrainedMeansFinished ==
  \A w \in Waiters, c \in Commands :
    /\ waiters[w].state = "drained"
    /\ Running(c) /\ taskId[c] \in waiters[w].ids
    => ~IsCurrent(c)

\* The commands that use a slot of a lane.
Counted == [l \in Lanes |->
              {c \in Commands : Running(c) /\ LaneOf[c] = l /\ IsCurrent(c)}]

Abstract == INSTANCE LaneScheduler
            WITH waiting <- queue, running <- Counted, limit <- maxConcurrent,
                 accepting <- ~gatewayDraining, outcome <- status

\* The queue implements LaneScheduler: whatever re-entrant calls, synchronous
\* throws, late completions and resets happen, a caller sees commands started
\* in FIFO order, within the limit, and each ended once.
ImplementsLaneScheduler == Abstract!Spec
=============================================================================
