# Formal models of the gateway's queues, locks and schedulers

The repository is a gateway that connects chat channels (Telegram, WhatsApp,
Slack and many more) to AI agents. It is one Node.js process. Nearly everything
that is hard about it lies in a few small pieces of shared state that many
asynchronous callers touch: queues, locks, registries and restart logic. This
directory models those pieces in TLA+, checks them with TLC on small instances
and proves the most important facts with TLAPS for every instance.

Paths below are relative to the repository; `src/...` there is the program's
source directory.

## 1. The system and its parts

| Part | State | Operations | Talks to |
| --- | --- | --- | --- |
| Command queue, `src/process/command-queue.ts` | lanes: queue, active task ids, limit, draining flag, generation; waiters; draining-for-restart flag | enqueue, pump, complete, clear, set limit, mark draining, reset, wait for active tasks | agent runs, cron, run loop |
| Outbound delivery queue, `src/infra/outbound/delivery-queue-*.ts`, `deliver.ts` | one JSON file per message, markers, `failed/`; claimed entries | enqueue, ack, fail, move to failed, startup recovery, reconnect drain | channel adapters, gateway start |
| Followup queue, `src/auto-reply/reply/queue/`, `src/utils/queue-helpers.ts` | per session: queued messages, drop count and summary lines, draining flag; dedupe cache | enqueue with drop policy, drain (followup / collect), clear | reply agent runner, agent runs |
| Run loop and restart, `src/cli/gateway-cli/run-loop.ts`, `src/infra/restart.ts`, `src/infra/process-respawn.ts` | lock handle, server, shutting-down flag, restart timer, cooldown, deferral polls | start, stop, restart in process or by respawn, forced exit, schedule or defer a restart | command queue (drain, reset), gateway lock, configuration reload |
| Agent run lanes, `src/agents/lanes.ts`, `src/agents/pi-embedded-runner/` | none of its own | run = enqueue on the session lane, then inside on a global lane; a cron job around both | command queue, cron |
| Session write lock, `src/agents/session-write-lock.ts` | lock file per session; per process the held locks with a count, a watchdog | acquire (re-entrant or not), release, force out, reclaim a stale lock, sweep at start | agent runs, command line, sandbox registry |
| Gateway lock, `src/infra/gateway-lock.ts` | one lock file | acquire, take over, release | run loop |
| Cron service, `src/cron/service/` | jobs with next slot, running marker, last result; timer; chain of locked sections | timer tick, manual run, catch-up of a start, add, update, remove, list | command queue, heartbeat, agent runs |
| Heartbeat wake, `src/infra/heartbeat-wake.ts` | pending wake per target, one timer, handler and its generation | request, fire, set and dispose of the handler | heartbeat runner, cron, run loop |
| Subagent announce queue, `src/agents/subagent-announce-queue.ts` | queued announcements, failure count | enqueue, drain with backoff | subagent registry |
| Registries: exec approvals, process supervisor, tasks and flows, ACP sessions, subagents, active runs, nodes, pairing, channels | maps of pending or running things, timers | register, resolve, expire, abort | gateway server |
| Everything else: agents, tools, providers, plugins, channels, media, CLI, UI | little shared state | | |

How they interact. A message that finds its session busy is put on the
*followup queue*; the run it finally starts is a task on the *command queue*,
first on the session's lane, then on a global lane. What the agent answers is
written to the *delivery queue* and sent. A restart in process stops accepting
commands, waits for the active ones, closes the server and resets the lanes; the
next start recovers the delivery queue, catches up on cron jobs and registers a
new heartbeat handler. A turn holds the *write lock* of its session's transcript,
which other processes of the same installation may want too.

What is hard. The process has one thread, so a callback is atomic up to its next
`await`, and everything that can go wrong goes wrong across awaits, timers,
re-entrant calls, restarts and crashes. `PROJECT.json` lists the hazards with
the line where each one bites and the property that watches it.

What makes each part correct:

- command queue: limits are respected, no lane with waiting work stops, every
  promise settles exactly once, a restart neither loses queued work nor lets a
  late completion disturb new work, waiters are told the truth and are told;
- delivery queue: nothing persisted disappears unsent, recoveries do not
  duplicate each other's work, an acked message is not sent again, everything is
  settled eventually;
- followup queue: accepted messages are run once, in order, and answered to the
  right chat, or are accounted for (summarised, cleared); the queue is never left
  idle with work in it;
- agent run lanes: no two turns of one session at a time, and nested lanes do not
  deadlock;
- run loop: no shutdown hangs, a restart that was asked for happens, once, and
  leaves a server and a lock behind, or neither;
- session write lock: one holder, counted right; a lock is reclaimed when its
  owner died or outstayed and not before; nobody waits for ever;
- cron: a due job runs, once at a time; nobody moves its slot without running it;
  the timer is armed whenever there is something to wait for;
- heartbeat wake: a wake is not lost, whichever handler comes or goes or throws.

## 2. Modules

| Module | Models | Lines it follows |
| --- | --- | --- |
| `CommandQueue` | the command queue | `src/process/command-queue.ts` |
| `LaneScheduler` | what it promises its callers (abstract) | |
| `CommandQueueProofs` | theorems about its pump loops, tasks and waiters, and the refinement of `LaneScheduler` | |
| `AgentRunLanes` | runs and cron jobs nested over its lanes; instantiates `CommandQueue` | `src/agents/pi-embedded-runner/`, `src/cron/service/ops.ts` |
| `AgentRunLanesProofs` | theorems about it: it refines `CommandQueue`, and turns of a session follow each other | |
| `DeliveryQueue` | storage, recovery and write-ahead wrapper of outbound messages | `src/infra/outbound/` |
| `DeliveryQueueProofs` | theorems about it | |
| `FollowupQueue` | the followup queue of one session | `src/auto-reply/reply/queue/`, `src/utils/queue-helpers.ts` |
| `FollowupQueueProofs` | theorems about it | |
| `GatewayRunLoop` | the run loop, its requests and the restart scheduler | `src/cli/gateway-cli/run-loop.ts`, `src/infra/restart.ts` |
| `GatewayRunLoopProofs` | theorems about it | |
| `SessionWriteLock` | the lock of one session file between processes | `src/agents/session-write-lock.ts` |
| `SessionWriteLockProofs` | theorems about it | |
| `CronService` | the cron scheduler over its job store | `src/cron/service/` |
| `CronServiceProofs` | theorems about it | |
| `HeartbeatWake` | the wake-up queue of the heartbeat | `src/infra/heartbeat-wake.ts` |
| `HeartbeatWakeProofs` | theorems about it | |
| `MCCommandQueue`, `MCAgentRunLanes`, `MCDeliveryQueue`, `MCFollowupQueue`, `MCSessionWriteLock`, `MCCronService` | instances for TLC | |

`PROJECT.json` ("map") gives the source lines of every definition. Definitions
whose names end in `_Something` are mutants: a plausible mistake in the
definition of the same name, used to show that the property it is listed with
would notice.

### CommandQueue

The state is that of `getQueueState()`: per lane `queue`, `activeTaskIds`,
`maxConcurrent`, `draining`, `generation`; global `gatewayDraining`,
`nextTaskId`, `waiters`. Per command the model keeps the state of its promise
(`status`) and the id and generation it was started under, which the source
keeps in the closure of the running task.

The source is synchronous but re-entrant: `pump` starts a task, and the
synchronous prefix of the task may enqueue on the same or another lane, or
throw, which runs the catch block, and so another `pump`, inside the first one.
`callStack` holds the nested pump loops; a frame is either between two
iterations or inside the synchronous prefix of a task. `Idle` means that the
stack is empty: control is back in the event loop. Completions, timers, clears,
limit changes, resets and the calls of other code happen there. `resetAllLanes`
drains lanes in a loop in the middle of which tasks run, so it is three actions
(`ResetAllLanes`, `ResetDrain`, `ResetEnd`) that nothing but those tasks can
interrupt.

Abstractions: a command is enqueued once and is just a name; the `onWait`
callback and logging are left out; lanes exist from the start (the source
creates them on first use with the same values); the promise of a finished task
settles in the step that finishes it rather than after the pump it triggers
(nobody can observe the difference, continuations of promises run later).
`clearCommandLane` and `setCommandLaneConcurrency` are called from the event
loop only; the source's callers are request handlers and the configuration
reload.

### DeliveryQueue

`pending`, `retryCount`, `tmp`, `marker` and `failed` are the files of the queue
directory; `claimed` is `entriesInProgress`. Owners of an entry are the original
sender and the recovery runs; `phase[o][e]` is the file system call or send that
owner is about to make for that entry, so that every `await` is a point where
the others may move. `run` and `todo` are the loop of a recovery run over its
snapshot. `Crash` keeps the files and forgets the rest. `persisted`,
`delivered`, `aborted`, `acked` are history variables for the properties.

Abstractions: of the contents of an entry only `retryCount` matters; counts from
`MaxRetries` on are equal to the code; backoff is a choice (an entry that was
tried before may or may not be due), except that an entry never tried is always
due, as in `isEntryEligibleForRecoveryRetry`. The snapshot of
`loadPendingDeliveries` is one step: it is re-read before use, so reading it file
by file adds nothing but an older snapshot. How channels send is the outcome of
an attempt: everything sent, a payload failed in best-effort mode, thrown,
permanently refused, aborted.

### FollowupQueue

One session key. A drain is an async loop that captured its queue *object*,
whereas clearing and ending a drain work on the *registry*; the model therefore
numbers the objects, and `current` is the registered one. `pc[o]` is the await
at which the drain of object `o` stands: the debounce, the step between the
cross-channel check and the snapshot of a batch, or a run of the agent.
`batch`, `taking` and `summary` are the drain's local variables during a run.
`busy` is an agent run of the session that `runReplyAgent` started without the queue,
and `finalizing` the gap between its end and its `finalizeWithFollowup`. `external` is
a run that `agentCommand` started for the session (the `agent` method of the gateway,
the announcement of a subagent): `isEmbeddedPiRunActive` counts it, so messages are
queued during it, but no drain follows its end.

`handled` records the messages whose run came to its end: the promise of
`runFollowup` resolved and the items left the queue. That is not the same as an
answer. `createFollowupRunner` catches the error of an agent that failed and returns
(`RunEnds`, without an answer); and it rejects when a reply cannot be sent to the end,
after a part of it went out (`RunThrows`, with a repetition). The properties are
therefore about runs, and section 4 says what follows for answers.

Abstractions: a message is its provider id and its route; prompts are the list
of messages in them; the drop policy and cap do not change during a run of the
model (a setting change between two messages is possible for the mode only);
entries of the dedupe cache do not expire. `refreshQueuedFollowupSession`, which
rewrites model and session of queued items in place, and `restartIfIdle = true`,
which only tests use, are left out.

### LaneScheduler

The command queue as its callers see it: per lane a FIFO of waiting commands, the
commands that use a slot, a limit; per command where it is. No pump loops, ids,
generations or re-entrancy. `CommandQueue!ImplementsLaneScheduler` maps `running`
to the commands of the current generation that have not finished, `accepting` to
`~gatewayDraining`, and `outcome` to the promises. A pump loop and a callback are
stutters except where a command is accepted, started or ended; a reset is
`Restart` and then one `Start` per entry it pumps. The abstract specification
says in one formula what used to be four invariants: FIFO, the limit, one
settlement per command, nothing lost by a clear or a reset.

### AgentRunLanes

A run is two commands, one on its session's lane and one on a global lane; the
task of the first enqueues the second in its synchronous prefix and returns its
promise. A cron job started by `cron.run` is a third command around these. The
queue is `CommandQueue` itself, instantiated with these commands and lanes, so
that restarts, clears and limit changes come with it; the module adds when the
task of each command enqueues, returns and settles (`EnqueueGlobal`,
`TaskReturns`, `SessionEnds`, `JobEnds`). `GlobalLaneOf` is the choice of lane,
in which a cron job must not ask for the lane whose slot it holds. What a turn
does with its two slots is one step (`AgentEnds`).

### GatewayRunLoop

`loop` is the await at which `runGatewayLoop` stands, `request` that of the
`request` function a signal started; both share `lock`, `server` and
`shuttingDown`. `timer`, `cooling` and `polls` are the restart scheduler.
`lockFile` says whom the lock file names, with another gateway on the same
configuration as an adversary. `midStart` is a history variable: a request was
accepted while the loop was not asleep.

Abstractions: the SIGUSR1 tokens and authorisation are consumed synchronously by
the listener that an emission calls and need no variable; a scheduled restart
that is moved forward is one that is due already; polls of the same kind are one;
how a respawn is done is its answer (`RespawnModes`); `active` stands for
commands, runs and replies in progress. `WakeLoop` includes what the loop does
before its next await: `onIteration`, with `resetAllLanes`, and the call of
`start`. A lock file is taken over when its owner is dead or does not listen on
the port, as `acquireGatewayLock` decides (`MayTakeLock`).

### SessionWriteLock

One session file. `pc` is the await at which each call of
`acquireSessionWriteLock` stands, `held`, `count` and `watchdog` are the process
state, `file`, `written` and `old` the lock file: whose it is, whether its
payload is there, whether it is older than `staleMs`. A lock has the name of the
task that created its file, which is the object identity `releaseHeldLock`
compares. Reading a lock file, deciding, and removing the path are separate steps
(`JudgeStale`, `JudgeUnreadable`, `Stat`, `Reclaim`; the sweep likewise), so that the
file may change in between; `robbed` records locks whose file somebody else removed.
A payload may be unreadable although it is written (`readLockPayload` answers null to
any error), and `fs.stat` may fail, after which the file is removed at any age
(`StatFails`).

Abstractions: the platform knows process start times, so the orphan-of-itself
rule never applies and a recycled pid counts as a dead owner; age is a flag that
time sets; retry delays are steps.

### CronService

The source runs every operation on the store in a `locked` section, in the order
of the calls. `chain` is that order, and a section is one action
(`Section(kind, more)`), including its recompute, its save and its `armTimer`;
what its caller asks for next goes to the end of the chain. Runs of jobs happen
outside and interleave freely: `runner["tick"]`, `runner["boot"]` and the manual
runs hold the jobs still to run, the one running and the results to apply. Time
is a small clock; a cron job has a slot at every multiple of `Period`, a one-shot
job one slot. A crash keeps `jobs`. Where the source sorts jobs, by their place in
the store or by their slot (`InStoreOrder`, `BySlot`), the model takes any sequence
in that order. A batch has at most one outcome per job, so `applyOutcomes` gives
every job its own at once, which is what the loop of the source amounts to.

Abstractions: one tick runs its jobs one after the other (the default of
`maxConcurrentRuns`); backoff is one constant; an error of a one-shot job is
transient. `outOfService` is a history variable for the jobs that were disabled or
removed at some time between the start of a run and the end of its bookkeeping,
which takes the running marker away; `staggered` is one for the one-shot jobs that
a start gave another slot although a run had served them.

### HeartbeatWake

`pending` is `pendingWakes` reduced to priorities, `timer` its due time, delay and
kind, `runs` the batches being worked off: usually one, more when the handler was
replaced while a run of the old one goes on. `handler` and `registered` are the
handler and its generation. `Elapse` is the clock. A handler call ends in one of
three ways, `CallRan`, `CallRefused` (requests in flight) and `CallThrows`; each
includes the rest of the timer callback up to the next call or the end of the
`finally` block.

## 3. Runs

| Run | Instance | Shows |
| --- | --- | --- |
| `command_queue` | 2 lanes (a session lane with limit 1; main, whose limit is set to 0 or 2), 4 commands, 1 waiter, 1 reset | the safety properties and the refinement of `LaneScheduler` |
| `agent_run_lanes` | a chat run and a cron job of the same session, 1 restart in process | `OneTurnPerSession`, `EveryRunSettles` |
| `delivery_recovery` | 2 entries, overlapping startup and restart recoveries and a drain, storage errors, a crash | `OneRecoveryPerEntry`, `NoResendAfterAck` |
| `delivery_live` | an old and a new entry, live sender, startup recovery with budget, drain, storage errors, a crash | `NeverLost` |
| `delivery_settle` | 2 entries, repeated starts that may run out of budget, a crash | `EventuallySettled` |
| `followup_order` | 3 messages of 2 chats, both modes, policy "new", cap 2, failing runs, runs of `agentCommand` beside | `HandledInOrder`, `OwedMessagesHandled` |
| `followup_drop` | 4 messages, cap 2, policy "summarize", clears, 2 queue objects | `HandledOnce`, `ClearedStaysCleared` |
| `gateway_run_loop` | respawn or restart in process, another gateway, relaunches without bound | no shutdown hangs, restarts happen and wake the loop, clean exits, one server |
| `session_write_lock` | a gateway with two calls (one not re-entrant), a command line process, a kill, a signal, failing writes, reads and stats, the sweep | `HeldOnDisk`, `CountsHolders`, `FreshLocksSurvive`, `EveryContenderSettles` |
| `cron_service` | a recurring and a one-shot job, 2 manual runners, 2 user requests, a crash, clock 0..2 | `OneRunAtATime`, `SchedulerAwake`, `DueSlotWaitsForARun`, `DoneOneShotStaysDone`, `DueJobsRun` |
| `heartbeat_wake` | 2 targets, 2 handlers, 3 requests, 2 refused or throwing calls | `PendingIsScheduled`, `NoWakeLost`, `WakesHandled` |
| `cron_one_shot` | as `cron_service` | a disagreement between the code and what it says of itself, see 4 |

Why these bounds are enough to be interesting. Two commands per lane fill a
session lane and leave one waiting; two lanes allow a task of one to enqueue on
the other from inside its pump loop; one reset separates two generations, which
is all the code compares. A chat run and a cron job of one session use every
kind of lane and compete for the session lane and for a global one; with limit 1
any circular wait between lanes shows. Two entries let a run hold one in its
snapshot while it handles the other; three owners let two interfere while a
third acts. `MaxRetries` is 5 in the source; 1 or 2 keep the cases first try,
retry, exhausted. A cap of 2 lets an overflow happen while one message is
running and another waits. Two tasks of one process and one of another give
re-entrancy, contention in the process and between processes; a lock is robbed
with two of them. In the cron run, the clock passes a slot of the recurring job
and that of the one-shot job, a backoff and a stagger; `MaxMissed = 1` makes the
catch-up both run a job and defer one. Two handlers are enough for a run of the
old one to end in the lifecycle of the new one. `GatewayRunLoop` needs no bound:
its state is finite. Bounds are named: `MaxGeneration`, `MaxCrashes`,
`MaxQueues`, `Cap`, `MaxNow`, `MaxRequests`, `MaxHandlers`, `MaxRefusals`, and
the finite sets.

Fairness. `AgentRunLanes!FairSpec`: a running callback runs to completion (weak
fairness of the synchronous steps, Node.js never suspends it), turns end (they have
a timeout), and a promise that settled reaches the task that returned it (strong
fairness, because other callbacks keep interrupting). `DeliveryQueue!FairSpec`:
recovery runs are started again and again, make progress, and an entry looked at
again and again is at some point past its backoff; success of a send is not assumed.
`FollowupQueue!FairSpec`: debounce timers fire, runs end, and a run that is tried
again and again does not fail for ever (strong fairness of `RunEnds`), without which
a message could never be handled by any code; runs of `agentCommand` end too.
`GatewayRunLoop!FairSpec`: timers fire and the awaits on the lock file return;
nothing is assumed of `start()`, `server.close()`, the active work or the other
gateway. `SessionWriteLock!FairSpec`: continuations run and time passes; a holder
need never release. `CronService!FairSpec`: timers fire, sections run, saves
succeed, every run of a job ends, a supervisor starts the gateway again. A job
without a timeout (`timeoutSeconds` of 0 or less) may run for ever, and then its
tick does not end: `DueJobsRun` says nothing of that. `HeartbeatWake!FairSpec`: time
passes, timers fire, and every heartbeat turn ends, also that of a replaced handler.
This leaves out the run of an old lifecycle that hangs for good, which is what the
reset of `running` in `heartbeat-wake.ts:217` is for: the wakes of such a batch are
lost with it. That the later ones still have their timer is the safety property
`PendingIsScheduled`.

Deadlock is checked where the system never stops. It is switched off in
`session_write_lock`, `cron_service`, `cron_one_shot` and `heartbeat_wake`, where
a behaviour ends when every call, request and tick of the clock the bounds allow
has been used.

## 4. Disagreements found

The run `cron_one_shot` checks a sentence of the repository that the code
contradicts; `PROJECT.json` quotes it. `start()` remembers which one-shot jobs a
crash interrupted and leaves them out of its catch-up ("One-shot jobs are not
retried after interruption"). The job itself keeps its past slot and stays
enabled, so the first timer tick after the start runs it again.

Further properties that one would expect and that the code does not have. They are
stated in the modules or follow from the instances named here, and TLC shows each
in seconds; the passing runs check what holds around them.

- *Budget* (`MCDeliveryRecovery.cfg` with `BudgetMayExpire = TRUE` violates
  `NoResendAfterAck`): a startup recovery that runs out of time rewrites the files
  of all remaining entries without claiming them. A reconnect drain that acks one
  of them between the read and the rename sees it reappear, and a later run sends
  it again.
- *Best effort* (`MCDeliveryLive.cfg` with `BestEffort = {1}` violates
  `NeverLost`): recovery replays a best-effort entry without an `onError`, so a
  failing payload goes unnoticed and the entry is acked.
- *Overflow* (`FollowupQueue!NoSilentLoss` in the instance of `followup_drop`):
  after an overflow the summary is run *instead of* the next queued message, which
  is then removed; and a drain that outlives a clear unregisters the queue object
  created since, whose messages are never run.
- *Stranded message* (`FollowupQueue!OwedMessagesHandled` without its condition, in
  the instance of `followup_order`): a message that comes during a run of
  `agentCommand` is queued without starting a drain
  (`src/auto-reply/reply/agent-runner.ts:247`, `restartIfIdle` is false), and the end
  of that run starts none either. The message waits until another message of the
  session comes and its run, or its enqueue on an idle session, starts a drain.
- *Failed run* (`FollowupQueue!RunEnds`): when the agent fails in a followup run the
  runner logs the error and returns
  (`src/auto-reply/reply/followup-runner.ts:282`); the messages leave the queue
  unanswered, and their sender is not told.
- *Reply sent again* (`FollowupQueue!RunThrows`): when a followup run rejects after it
  sent a part of its reply (`src/auto-reply/reply/followup-runner.ts:389`), the drain
  keeps the items and runs them again, and the reply goes out a second time.
- *Spin* (`FollowupQueue!OverflowReported` in the instance of `followup_drop`
  under `FairSpec`): if an overflow drops the message being run, the drain removes
  the newer one instead, and with an empty queue and a non-zero drop count it
  reschedules itself for ever.
- *Restart during a start* (`GatewayRunLoop!AcceptsWorkWhenServing`): a restart
  accepted while `start()` is still pending resolves a promise nobody waits for.
  The loop does not iterate, `resetAllLanes` is not called, and the gateway serves
  with a command queue that refuses commands. `OneServer` makes its exception
  (`midStart`) for the same reason: such a restart closes no server, and the next
  one finds the one that has just been started.
- *Unwatched lock* (`SessionWriteLock!HeldLocksAreWatched`): the last release of a
  process stops the watchdog; an acquire that checked the watchdog before and
  registers its lock after leaves it unwatched. Other processes still reclaim it
  by its age.
- *Robbed lock* (`SessionWriteLock!HeldOnDisk` without its exception): a contender
  removes the path it judged stale after an await, when the file may be another's.
- *Fresh lock removed* (`SessionWriteLock!FreshLocksSurvive` without
  `MisledContender`): a contender that finds no readable payload looks at the file's
  age, and if `fs.stat` fails with another error than ENOENT it removes the file
  whatever its age (`src/agents/session-write-lock.ts:383`).
- *Second run after a disable* (`CronService!OneRunAtATime` without its
  exception): a job that is not enabled loses its running marker. Disabling and
  enabling a job during a run takes the marker away
  (`src/cron/service/ops.ts:329`), and the next tick runs the job beside the first
  run. No edit during the run is needed: a *forced* run of a job that is disabled
  already loses its marker to the next maintenance (`src/cron/service/jobs.ts:367`),
  which the preflight of a second manual run brings about itself
  (`src/cron/service/ops.ts:531`), and the second run starts beside the first. The
  exception, `outOfService`, names exactly these jobs: those disabled or removed at
  some time of a run. A run that takes longer than `STUCK_RUN_MS`, two hours, loses
  its marker in the same way; the model leaves that out.
- *Staggered one-shot* (`CronService!DoneOneShotStaysDone` without its exception for
  `staggered`): a start that found too many missed jobs gives the deferred ones
  another slot in its last section, if they are still enabled
  (`src/cron/service/timer.ts:1074`). A one-shot job that was run by hand during the
  catch-up and enabled again is, although it has been served, and runs once more.
- *Skipped slots* (`CronService!DueSlotWaitsForARun` without its exceptions): `add`
  and the last section of a start recompute every slot, and so skip one that came
  due in the meantime.

## 5. What is proved

`CommandQueueProofs` proves, for every value of the constants that satisfies
`CommandQueueAssumption` (any lanes and commands, `LaneOf` a function from
commands to lanes, limits natural numbers):

- `TypeCorrect`: `Spec => []TypeOK`. Inductive as it stands. Besides the types it
  says that no limit is ever 0.
- `NeverStuck`: `Spec => []NoStuckLane`. Whenever control is in the event loop,
  a lane with waiting entries is running as many tasks as its limit allows.

`NoStuckLane` says nothing about the states in the middle of nested pump loops,
so it is not inductive. The invariant that is (`PumpInv`) adds

- `Covered`: a lane that has waiting entries and room is either on the call
  stack, so that a pump loop will look at it again before the stack empties, or
  still to be drained by the reset in progress;
- `DrainingOnStack`: `draining[l]` is only set while a pump loop of `l` is on
  the stack; without it an enqueue that returns early from `drainLane` would be
  covered by nobody;
- `DrainsInReset`: lanes are left to drain only while a reset is in progress.

The converse of `DrainingOnStack` is false, and that is the delicate point of the
source: an inner `pump` clears the flag while an outer one is still running. The
proof shows that this is harmless, because a pump loop tests its condition again
after everything it started. The lemmas on frames (`FramesAppend`,
`FramesBelow`, `ReplaceTop`, ...) say which lanes are on the stack after a push,
a pop or a change of the top frame; `DrainLaneCovers` and `FinishTaskCovers`
lift them to the source's operations; `CoveredStep` and `PumpStep` have one step
per action.

### Tasks, waiters and the refinement

The same module proves, from the same assumption,

- `ActiveIsRight`: `Spec => []ActiveAreRunning`. The ids a lane counts are those of
  the commands running in it under its current generation.
- `DrainedIsTrue`: `Spec => []DrainedMeansFinished`, and `NoneForgotten`:
  `Spec => []NoForgottenWaiter`. Both directions of `waitForActiveTasks`.
- `Implements`: `Spec => ImplementsLaneScheduler`. Every step of the command queue is a
  step of the abstract scheduler, or changes nothing it can see.
- `SessionLanesAreSerial`: a lane to which nobody gives another limit than 1, such as
  a session lane, never runs two commands of one generation. The lanes of agent runs
  rest on it.

The invariant (`TaskInv`) is `TypeOK` with `ActiveAreRunning`,
`DrainedMeansFinished` and three parts that make them inductive:

- `QueuedWell`: a command is queued once, on its own lane, and only while its
  promise is pending and it has not started; without it a started entry could be
  one that already runs;
- `StackWell`: the task whose synchronous prefix is on the stack is running;
- `IdsWell`: ids, also those a waiter waits for, are below `nextTaskId`; a command's
  generation is at most its lane's; different commands that run have different ids;
  a lane's ids are finitely many.

The refinement needs one more step, `SlotsCounted`: the lane has as many active ids
as there are commands using its slots, since `taskId` is a bijection between them.
So `HasRoom`, which counts ids, is the abstract condition, which counts commands.

### Agent run lanes

`AgentRunLanesProofs`, from `AgentRunLanesAssumption` and `QueueAssumption` (any runs,
sessions, cron jobs and limits of the global lanes), which imply the assumption of the
command queue (`QueueConstants`), so that its theorems can be used:

- `UsesTheQueue`: `Spec => Q!Spec`. The composition adds constraints on when a task
  enqueues and returns, and no step the command queue could not take by itself. All
  theorems about the queue therefore hold of it.
- `TurnsFollowEachOther`: `Spec => []OneTurnPerSession`.

The invariant is `SlotHeld`: a run's agent command is queued or running only under its
session command, which is running. Two turns of a session would so be two running
commands of its lane, which `SessionLanesAreSerial` excludes for one generation.

### The delivery queue

`DeliveryQueueProofs`, from `DeliveryQueueAssumption` (entries numbered by natural
numbers, any recovery runs and drains, any retry limit and number of crashes):

- `TypeCorrect`: `Spec => []TypeOK`. Needs that a non-empty snapshot has an oldest
  entry (`OldestIsElement`, from the well-foundedness of the natural numbers).
- `OneRecovery`: `Spec => []OneRecoveryPerEntry`. The invariant `Claims` adds that
  what a loop works on is claimed, that it works on one entry at a time (so a run
  that throws leaves nothing behind), and that a run outside its loop only defers.
- `OnlyBestEffortLost`: a message that is not best effort leaves the queue only when
  it was sent, aborted or moved to `failed/`; with `BestEffort = {}` this is
  `NotLost`: `Spec => []NeverLost`. The invariant is that an owner comes to the ack
  of such an entry only by sending all of it or by an abort.
- `NoOldResend`: if `~BudgetMayExpire`, no loop sends an entry it found on disk after
  its ack; with `LiveEntries = {}` this is `NoResend`: `Spec => NoResendAfterAck`.
  The two conditions are necessary: a run that exceeds its budget defers entries
  it never claimed and may write back one that was acked meanwhile, and the
  original sender of a new message claims nothing either (section 4). TLC finds
  the second send as soon as either condition is dropped.

### The followup queue

`FollowupQueueProofs`, from `FollowupQueueAssumption` (any messages and routes,
any policy and cap, clears or not):

- `TypeCorrect`: `Spec => []TypeOK`;
- `NeverTwice`: `Spec => []HandledOnce`;
- `ClearedForGood`: `Spec => ClearedStaysCleared`;
- `FirstComeFirst`: if `Policy = "new"` and `MayClear = FALSE`,
  `Spec => []HandledInOrder`.

`NeverTwice` and `ClearedForGood` rest on one invariant (`OnceInv`): a message is in
one object, there once, and not among the handled ones (`Apart`, `NoRepeats`); what
is queued was neither cleared nor dropped (`StillWanted`); the dedupe cache knows
every message (`Known`); and, the delicate one, what is left in the queue of the
messages given to the agent is at its head, within the number of items the end of
the run takes out (`AtHead`). Items are removed by position after an `await` during
which an overflow may have removed others, also from the head: so nothing that was
handled stays. The converse fails, which is the loss described in section 4. The
proof treats the dedupe cache as never expiring, as the model does.

`FirstComeFirst` has an invariant of its own (`OrderInv`): there is one queue object;
the messages a drain has given to the agent are the head of its queue; and what was
accepted is what was handled followed by what waits. Its two hypotheses are
necessary. The other policies drop accepted messages, also the one being run, and a
clear discards them and makes a second object; with either, section 4 shows how
messages are lost.

### The gateway run loop

`GatewayRunLoopProofs`, for any choice of `RespawnModes`. The state is finite for each;
what the proofs add to the run is the reason:

- `TypeCorrect`: `Spec => []TypeOK`;
- `NeverTwoServers`: `Spec => []OneServer`;
- `CooldownIsQuiet`: `Spec => []QuietCooldown`;
- `ExitsClean`: `Spec => CleanExit`.

The invariant adds `RequestHoldsLoop`: a request that found the loop asleep keeps it
asleep, and past `server.close` nothing listens, so the loop that is woken starts the
next server alone; `NothingUnderWay`: before the lock is acquired and after the end no
request, timer or poll exists; and `LockKnown`: the lock file never names this process
without the process holding a handle of it.

### The cron service

`CronServiceProofs`, from `JobsAssumption`, `BoundsAssumption` and
`ManualsAssumption` (any jobs, slots, period, backoff, stagger, number of missed jobs
and of manual runs, any number of crashes):

- `TypeCorrect`: `Spec => []TypeOK`;
- `RunsOnce`: `Spec => []OneRunAtATime`;
- `NeverAsleep`: `Spec => []SchedulerAwake`;
- `DueSlotsWait`: `Spec => DueSlotWaitsForARun`;
- `DoneIsDone`: `Spec => DoneOneShotStaysDone`.

Nothing in these properties is inductive without the others' strengthening:

- `Calls`, `RunsAJob`, `OneCall`: whose section each entry of the chain is and for
  which job; a runner has a section in the chain exactly while it waits for one, and
  then one. So a runner's state does not change between its call and its section.
- `Exclusive`, `Marked`, `ClearFirst`: a job that stays enabled is held (run, about to
  be, or waiting for its bookkeeping) in one place; it carries its marker as long; and a
  start clears the markers of the last process before anything runs.
- `Quiet`: a runner that runs nothing has nothing on its list, so that `outOfService`
  forgets a job when the last run of it is over.
- `Sound`, `Timed`: an enabled job has no slot only if it is a one-shot job that was
  served, and a slot no later than its last run only while it is to be tried again; no
  run ended after now or before it started. It follows that the repairs of
  maintenance (`RepairsNothing`) leave every enabled job of a reachable store as it
  is, which is what keeps a due slot in its place.
- `DoneInv`: a one-shot job that was served has no slot, and neither the tick nor the
  catch-up is about to run it.

### The heartbeat wake queue

`HeartbeatWakeProofs`, for any targets, priorities and delays
(`DelayAssumption`, `PriorityAssumption`, `BoundAssumption`):

- `TypeCorrect`: `Spec => []TypeOK`;
- `NeverStranded`: `Spec => []PendingIsScheduled`;
- `NoneLost`: `Spec => NoWakeLost`.

`TypeOK` is not inductive by itself: a timer that fires needs a number for its batch.
`RunsWellFormed` and `RunBound` show that there is one: there are at most as many
batches in flight as there were registrations, and one more while a run goes on.

### The session write lock

`SessionWriteLockProofs`, for any processes and lock names and finitely many tasks
(`ProcOfAssumption`, `NoLockAssumption`, `TasksAssumption`):

- `TypeCorrect`: `Spec => []TypeOK`;
- `HeldIsOnDisk`: `Spec => []HeldOnDisk`; the lock a process believes it holds is the
  one on disk, unless somebody took the file away;
- `CountIsRight`: `Spec => []CountsHolders`, by counting the holders before and after
  each acquire and release;
- `FreshLocksAreKept`: `Spec => FreshLocksSurvive`, by going through every step that
  removes a file.

The invariant adds two parts. `Provenance`: a lock that is on disk, judged by a
contender, held or being released has been created, so nobody creates a lock of that
name again; what a process holds is a lock of one of its own tasks, and its count is 0
while it holds none. `OnDisk`: a task that has created its file finds it on disk until
it registers, and written when it registers, unless it was robbed.

### Only model-checked

Every safety invariant and every action property of the passing runs is stated by a
theorem. What stays with TLC is liveness under fairness, which is out of the
prover's reach: `EveryRunSettles`, `EventuallySettled`, `OwedMessagesHandled`,
`ShutdownEnds`, `ScheduledRestartHappens`, `RestartWakesLoop`, `EveryContenderSettles`,
`DueJobsRun`, `WakesHandled`; and `InterruptedOneShotsStayDown`, which is violated. Where
a theorem has a hypothesis the run has too (`NotLost`, `NoResend`, `FirstComeFirst`), the
text above says why it is needed.

## 6. Not modelled

Everything listed as `not_modelled` in `PROJECT.json`, with the reason, and within
the modelled parts what their notes say. Most of the source is prompt building,
provider clients, channel adapters, plugins, formatting and user interface, which
has little state of its own. Of the rest the next candidates are

1. `AnnounceQueue` (subagent announcements, same helpers as the followup queue,
   with a backoff);
2. the registries with timers and late answers: exec approvals, process
   supervisor, inbound debounce, node registry, embedded run registry;
3. the state machines that are persisted: subagent registry, task registry and
   flows, ACP sessions;
4. in `CronService`: "every" schedules, permanent errors and skipped runs,
   `STUCK_RUN_MS`, and a reload that replaces the service while a tick of the old
   one is running.

Theorems left: abstract specifications like `LaneScheduler` for the delivery queue and
the write lock, with the refinement proved; and the conditions under which a
followup queue that drops or clears still accounts for every message
(`NoSilentLoss`).
