--------------------------- MODULE AgentRunLanes ---------------------------
(***************************************************************************)
(* Agent runs on the command queue (src/agents/pi-embedded-runner/run.ts,  *)
(* compact.ts, lanes.ts; src/agents/lanes.ts; src/cron/service/ops.ts).    *)
(*                                                                         *)
(* A run is a command on its session's lane whose task enqueues a second   *)
(* command on a global lane and returns its promise: it holds the slot of  *)
(* the session lane while it waits for one of the global lane.  A cron job *)
(* started by hand is a third command around these, on the cron lane.      *)
(* What the queue itself does is module CommandQueue, instantiated here    *)
(* with the commands and lanes of the runs.                                *)
(***************************************************************************)
EXTENDS Naturals, Sequences, FiniteSets

CONSTANTS
  Runs,               \* agent runs and compactions
  CronRuns,           \* those of cron jobs started with cron.run (enqueueRun)
  SessionKeyOf,       \* per run: its session key
  LaneParamOf,        \* per run: the lane its caller asks for, "" for none
  ConcurrencyInputs,  \* configured limits of the main, cron, subagent lanes
  MaxGeneration,      \* bound on the number of restarts in process
  NoCommand

GlobalLaneNames == {"main", "cron", "subagent", "nested"}

ASSUME AgentRunLanesAssumption ==
  /\ CronRuns \subseteq Runs
  /\ SessionKeyOf \in [Runs -> STRING]
  /\ LaneParamOf \in [Runs -> GlobalLaneNames \cup {""}]
  /\ \A r \in CronRuns : LaneParamOf[r] = "cron"

VARIABLES
  queue, activeTaskIds, maxConcurrent, draining, generation, gatewayDraining,
  nextTaskId, waiters, status, taskId, taskGeneration, callStack, resetting,
  lanesToDrain

-----------------------------------------------------------------------------
(* Lanes.                                                                  *)

resolveSessionLane(key) == <<"session", IF key = "" THEN "main" ELSE key>>

\* Inner work never inherits the cron lane, whose slot the job holds.
resolveNestedAgentLane(lane) == IF lane \in {"", "cron"} THEN "nested" ELSE lane

resolveGlobalLane(lane) ==
  <<"global", CASE lane = "cron" -> "nested"
                [] lane = "" -> "main"
                [] OTHER -> lane>>

\* Mutant: the run of a cron job inherits the cron lane.
GlobalLaneOf_Inherit(r) ==
  <<"global", IF LaneParamOf[r] = "" THEN "main" ELSE LaneParamOf[r]>>

\* The lane of the inner command; a cron job passes resolveNestedAgentLane's
\* answer to runEmbeddedPiAgent, which resolves it again.
GlobalLaneOf(r) ==
  resolveGlobalLane(IF r \in CronRuns THEN resolveNestedAgentLane(LaneParamOf[r])
                    ELSE LaneParamOf[r])

SessionLaneOf(r) == resolveSessionLane(SessionKeyOf[r])

\* The command of a run on each of the lanes it goes through.
JobCommand(r) == <<r, "cron">>
SessionCommand(r) == <<r, "session">>
AgentCommand(r) == <<r, "agent">>

Commands == {JobCommand(r) : r \in CronRuns}
            \cup {SessionCommand(r) : r \in Runs}
            \cup {AgentCommand(r) : r \in Runs}

CommandLaneOf(c) ==
  CASE c[2] = "cron" -> <<"global", "cron">>
    [] c[2] = "session" -> SessionLaneOf(c[1])
    [] c[2] = "agent" -> GlobalLaneOf(c[1])

LaneOf == [c \in Commands |-> CommandLaneOf(c)]

SessionLanes == {SessionLaneOf(r) : r \in Runs}
GlobalLanes == {<<"global", n>> : n \in GlobalLaneNames}
Lanes == SessionLanes \cup GlobalLanes
ConfiguredLanes == {<<"global", n>> : n \in {"main", "cron", "subagent"}}

ASSUME QueueAssumption ==
  /\ ConcurrencyInputs \subseteq Nat /\ MaxGeneration \in Nat
  /\ NoCommand \notin Commands

Q == INSTANCE CommandQueue WITH Waiters <- {}

vars == Q!vars
Init == Q!Init

-----------------------------------------------------------------------------
(* The tasks of the commands.                                              *)

TopTask == Q!Top.task

\* runEmbeddedPiAgent or compactEmbeddedPiSession is called from the event
\* loop, or by the job of a cron run that holds its slot.
StartRun(r) ==
  /\ Q!Idle
  /\ r \in CronRuns => status[JobCommand(r)] = "running"
  /\ Q!Enqueue(SessionCommand(r))

\* cron.run: the job waits for a slot of the cron lane.
EnqueueRun(r) ==
  /\ Q!Idle
  /\ r \in CronRuns
  /\ Q!Enqueue(JobCommand(r))

\* The task of the session command enqueues the agent command before it
\* returns.
EnqueueGlobal ==
  /\ Q!InTask
  /\ TopTask[2] = "session"
  /\ Q!Enqueue(AgentCommand(TopTask[1]))

\* The session command's task returns the promise of the agent command; the
\* other tasks are asynchronous functions and return at their first await.
TaskReturns ==
  /\ Q!InTask
  /\ TopTask[2] = "session" => status[AgentCommand(TopTask[1])] # "none"
  /\ Q!TaskYield

\* throwIfAborted in the session command's task.
TaskAborted ==
  /\ Q!InTask
  /\ TopTask[2] = "session"
  /\ status[AgentCommand(TopTask[1])] = "none"
  /\ Q!TaskThrow

\* The agent's turn ends.
AgentEnds(r) ==
  \E outcome \in {"resolved", "rejected"} : Q!TaskSettle(AgentCommand(r), outcome)

Outcome(s) == IF s = "resolved" THEN "resolved" ELSE "rejected"

\* Mutant: the session slot is given back as soon as the agent command is queued.
SessionEnds_Early(r) ==
  Q!TaskSettle(SessionCommand(r), "resolved")

\* The session command settles with the agent command it returned.
SessionEnds(r) ==
  /\ status[AgentCommand(r)] \in Q!Settled
  /\ Q!TaskSettle(SessionCommand(r), Outcome(status[AgentCommand(r)]))

\* A cron job that is not due, runs no agent or is running already ends on its
\* own; otherwise it ends with its run.
JobEnds(r) ==
  /\ r \in CronRuns
  /\ status[SessionCommand(r)] \in Q!Settled \cup {"none"}
  /\ Q!TaskSettle(JobCommand(r), "resolved")

\* The job's timeout, when it has one, gives its slot back while the run goes on.
JobTimesOut(r) ==
  /\ r \in CronRuns
  /\ status[SessionCommand(r)] \notin Q!Settled \cup {"none"}
  /\ Q!TaskSettle(JobCommand(r), "resolved")

Synchronous ==
  \/ Q!PumpStart
  \/ Q!PumpEnd
  \/ EnqueueGlobal
  \/ TaskReturns
  \/ TaskAborted
  \/ \E l \in Lanes : Q!ResetDrain(l)
  \/ Q!ResetEnd

Next ==
  \/ Synchronous
  \/ \E r \in Runs : StartRun(r) \/ EnqueueRun(r)
  \/ \E r \in Runs : AgentEnds(r) \/ SessionEnds(r) \/ JobEnds(r) \/ JobTimesOut(r)
  \/ \E l \in SessionLanes : Q!ClearCommandLane(l)
  \/ \E l \in ConfiguredLanes, n \in ConcurrencyInputs :
       Q!SetCommandLaneConcurrency(l, n)
  \/ Q!MarkGatewayDraining
  \/ Q!ResetAllLanes

Spec == Init /\ [][Next]_vars

\* Callbacks run to completion, agent turns end (they have a timeout), and a
\* promise that has settled reaches the task that returned it.  Nothing is
\* assumed of restarts, clears or the timeouts of cron jobs, which may be off.
FairSpec ==
  /\ Spec
  /\ WF_vars(Synchronous)
  /\ \A r \in Runs : SF_vars(AgentEnds(r)) /\ SF_vars(SessionEnds(r)) /\ SF_vars(JobEnds(r))

-----------------------------------------------------------------------------
(* Properties.                                                             *)

\* Nested lanes do not deadlock: a run that holds a slot of the cron or of its
\* session lane gets one of its global lane, so that every command that was
\* accepted settles, whatever the limits and even across a restart in process.
EveryRunSettles ==
  \A c \in Commands : status[c] = "queued" ~> status[c] \in Q!Settled

\* Two agent turns of one session overlap only when a restart in process made
\* the queue forget the session slot of the older one (run.ts, resetAllLanes).
OneTurnPerSession ==
  \A r, s \in Runs :
    /\ r # s /\ SessionKeyOf[r] = SessionKeyOf[s]
    /\ status[AgentCommand(r)] = "running" /\ status[AgentCommand(s)] = "running"
    => taskGeneration[SessionCommand(r)] # taskGeneration[SessionCommand(s)]
=============================================================================
