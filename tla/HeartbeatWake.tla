----------------------------- MODULE HeartbeatWake -----------------------------
(***************************************************************************)
(* The wake-up queue of the heartbeat (infra/heartbeat-wake.ts), which the *)
(* cron jobs and events of the main session ask for a turn through: one     *)
(* pending wake per target, one coalescing timer, and a handler that a     *)
(* restart inside the process replaces while a run of the old one may      *)
(* still be going on.  Time is relative: the timer counts down.            *)
(***************************************************************************)
EXTENDS Integers, FiniteSets

CONSTANTS
  Targets,      \* agent and session of a wake
  Delays,       \* the coalescing delays of the requests
  Coalesce,     \* DEFAULT_COALESCE_MS
  RetryDelay,   \* DEFAULT_RETRY_MS
  Priorities,   \* the priorities of the requests' reasons
  MaxHandlers,  \* bounds: registrations,
  MaxRequests,  \* requests,
  MaxRefusals   \* calls the main lane refuses or that throw

ASSUME DelayAssumption ==
  Delays \subseteq Nat /\ Coalesce \in Nat /\ RetryDelay \in Nat \ {0}
ASSUME PriorityAssumption == Priorities \subseteq Nat
ASSUME BoundAssumption ==
  MaxHandlers \in Nat /\ MaxRequests \in Nat /\ MaxRefusals \in Nat

None == -1

VARIABLES
  handler,     \* the registration in force, None without one
  registered,  \* registrations so far
  pending,     \* pendingWakes: the priority of each target's wake
  timer,       \* timer, timerDueAt and timerKind; armed, or not
  scheduled, running,
  runs,        \* the batches being worked off; the old handler's may be one
  requests, refusals

vars == <<handler, registered, pending, timer, scheduled, running, runs,
          requests, refusals>>

(* One run per registration, and one more that an old run's end lets in.    *)
RunIds == 1..(MaxHandlers + 1)

Wakes == Priorities \cup {None}

NoWakes == [k \in Targets |-> None]

NoTimer == [armed |-> FALSE, due |-> 0, delay |-> 0, kind |-> "normal"]

NoRun == [active |-> FALSE, batch |-> NoWakes, todo |-> {}, call |-> {}, delay |-> 0]

Init ==
  /\ handler = None /\ registered = 0
  /\ pending = NoWakes
  /\ timer = NoTimer
  /\ scheduled = FALSE /\ running = FALSE
  /\ runs = [i \in RunIds |-> NoRun]
  /\ requests = 0 /\ refusals = 0

HasPending(p) == \E k \in Targets : p[k] # None

(* queuePendingWakeReason: a wake is replaced by one of at least its        *)
(* priority.                                                                *)
Queue(p, k, priority) == [p EXCEPT ![k] = IF priority >= @ THEN priority ELSE @]

(* The wakes of a batch go back, each merged with what was asked meanwhile. *)
Requeue(p, batch) ==
  [k \in Targets |-> IF batch[k] >= p[k] THEN batch[k] ELSE p[k]]

Armed(delay, kind) == [armed |-> TRUE, due |-> delay, delay |-> delay, kind |-> kind]

(* schedule: a retry cooldown stays, and so does a timer that fires sooner. *)
schedule(t, delay, kind) ==
  IF t.armed /\ (t.kind = "retry" \/ t.due <= delay) THEN t ELSE Armed(delay, kind)

requestHeartbeatNow(k, priority, delay) ==
  /\ requests < MaxRequests
  /\ requests' = requests + 1
  /\ pending' = Queue(pending, k, priority)
  /\ timer' = schedule(timer, delay, "normal")
  /\ UNCHANGED <<handler, registered, scheduled, running, runs, refusals>>

\* Mutant: pending wakes wait for the next request.
setHeartbeatWakeHandler_NotScheduled ==
  /\ registered < MaxHandlers
  /\ registered' = registered + 1
  /\ handler' = registered + 1
  /\ timer' = NoTimer
  /\ scheduled' = FALSE /\ running' = FALSE
  /\ UNCHANGED <<pending, runs, requests, refusals>>

(* A new handler starts a new lifecycle: no timer, no run in progress.      *)
setHeartbeatWakeHandler ==
  /\ registered < MaxHandlers
  /\ registered' = registered + 1
  /\ handler' = registered + 1
  /\ timer' = IF HasPending(pending) THEN Armed(Coalesce, "normal") ELSE NoTimer
  /\ scheduled' = FALSE /\ running' = FALSE
  /\ UNCHANGED <<pending, runs, requests, refusals>>

\* Mutant: disposing of a registration brings back the one before.
Dispose_Previous ==
  /\ handler # None
  /\ handler' = handler - 1
  /\ UNCHANGED <<registered, pending, timer, scheduled, running, runs,
                 requests, refusals>>

(* The disposer of the registration in force; those of older ones do         *)
(* nothing.                                                                 *)
Dispose ==
  /\ handler # None
  /\ handler' = None
  /\ UNCHANGED <<registered, pending, timer, scheduled, running, runs,
                 requests, refusals>>

-----------------------------------------------------------------------------
Due == timer.armed /\ timer.due = 0

Elapse ==
  /\ timer.armed /\ timer.due > 0
  /\ timer' = [timer EXCEPT !.due = @ - 1]
  /\ UNCHANGED <<handler, registered, pending, scheduled, running, runs,
                 requests, refusals>>

(* Nobody to wake: the wakes stay pending for the next handler.             *)
FireWithoutHandler ==
  /\ Due /\ handler = None
  /\ timer' = NoTimer /\ scheduled' = FALSE
  /\ UNCHANGED <<handler, registered, pending, running, runs, requests, refusals>>

FireWhileRunning ==
  /\ Due /\ handler # None /\ running
  /\ scheduled' = TRUE
  /\ timer' = Armed(timer.delay, timer.kind)
  /\ UNCHANGED <<handler, registered, pending, running, runs, requests, refusals>>

(* The handler is called for one target after the other.                    *)
Fire ==
  /\ Due /\ handler # None /\ ~running
  /\ scheduled' = FALSE
  /\ timer' = NoTimer
  /\ pending' = NoWakes
  /\ IF HasPending(pending)
     THEN /\ running' = TRUE
          /\ LET i == CHOOSE i \in RunIds : ~runs[i].active
                 wakes == {k \in Targets : pending[k] # None}
             IN \E k \in wakes :
                  runs' = [runs EXCEPT ![i] =
                    [active |-> TRUE, batch |-> pending, todo |-> wakes \ {k},
                     call |-> {k}, delay |-> timer.delay]]
     ELSE UNCHANGED <<running, runs>>
  /\ UNCHANGED <<handler, registered, requests, refusals>>

(* The finally block.                                                       *)
Reschedule(t, p, delay) ==
  IF HasPending(p) \/ scheduled THEN schedule(t, delay, "normal") ELSE t

(* The run goes on with its next target, or ends.                           *)
Proceed(i, p, t) ==
  /\ pending' = p
  /\ IF runs[i].todo = {}
     THEN /\ runs' = [runs EXCEPT ![i] = NoRun]
          /\ running' = FALSE
          /\ timer' = Reschedule(t, p, runs[i].delay)
     ELSE /\ \E k \in runs[i].todo :
               runs' = [runs EXCEPT ![i].todo = @ \ {k}, ![i].call = {k}]
          /\ timer' = t
          /\ UNCHANGED running
  /\ UNCHANGED <<handler, registered, scheduled, requests>>

CallRan(i) ==
  /\ runs[i].active
  /\ Proceed(i, pending, timer)
  /\ UNCHANGED refusals

(* The main lane is busy: the target is tried again after the cooldown.     *)
CallRefused(i) ==
  /\ runs[i].active /\ refusals < MaxRefusals
  /\ refusals' = refusals + 1
  /\ \E k \in runs[i].call :
       Proceed(i, Queue(pending, k, runs[i].batch[k]),
               schedule(timer, RetryDelay, "retry"))

\* Mutant: only the target of the call that threw is tried again.
Unfinished_OnlyFailed(r) == [k \in Targets |-> IF k \in r.call THEN r.batch[k] ELSE None]

Unfinished(r) == r.batch

\* Mutant: no finally, a failed run counts as going on.
CallThrows_KeepRunning(i) ==
  LET p == Requeue(pending, Unfinished(runs[i])) IN
  /\ runs[i].active /\ refusals < MaxRefusals
  /\ refusals' = refusals + 1
  /\ pending' = p
  /\ runs' = [runs EXCEPT ![i] = NoRun]
  /\ timer' = schedule(timer, RetryDelay, "retry")
  /\ UNCHANGED <<handler, registered, scheduled, running, requests>>

(* The handler throws: the whole batch is tried again.                      *)
CallThrows(i) ==
  LET p == Requeue(pending, Unfinished(runs[i])) IN
  /\ runs[i].active /\ refusals < MaxRefusals
  /\ refusals' = refusals + 1
  /\ pending' = p
  /\ runs' = [runs EXCEPT ![i] = NoRun]
  /\ running' = FALSE
  /\ timer' = Reschedule(schedule(timer, RetryDelay, "retry"), p, runs[i].delay)
  /\ UNCHANGED <<handler, registered, scheduled, requests>>

CallEnds(i) == CallRan(i) \/ CallRefused(i) \/ CallThrows(i)

FireTimer == FireWithoutHandler \/ FireWhileRunning \/ Fire

Next ==
  \/ \E k \in Targets, priority \in Priorities, delay \in Delays :
       requestHeartbeatNow(k, priority, delay)
  \/ setHeartbeatWakeHandler \/ Dispose
  \/ Elapse \/ FireTimer
  \/ \E i \in RunIds : CallEnds(i)

Spec == Init /\ [][Next]_vars

(* Time passes, timers fire and every heartbeat turn ends.                  *)
FairSpec ==
  /\ Spec
  /\ WF_vars(Elapse) /\ WF_vars(FireTimer)
  /\ \A i \in RunIds : WF_vars(CallEnds(i))

-----------------------------------------------------------------------------
(* Every variable has its type.                                             *)
TypeOK ==
  /\ handler \in (1..MaxHandlers) \cup {None} /\ registered \in 0..MaxHandlers
  /\ pending \in [Targets -> Wakes]
  /\ timer \in [armed : BOOLEAN, due : Nat, delay : Nat, kind : {"normal", "retry"}]
  /\ scheduled \in BOOLEAN /\ running \in BOOLEAN
  /\ runs \in [RunIds -> [active : BOOLEAN, batch : [Targets -> Wakes],
                          todo : SUBSET Targets, call : SUBSET Targets, delay : Nat]]

(* Waiting for the handler to be called, in the queue or in a batch.        *)
Waiting(k) == pending[k] # None \/ \E i \in RunIds : k \in runs[i].todo

(* A wake that is pending has a timer, whichever handler came, went or was  *)
(* replaced in the middle of a run, even if that run never ends             *)
(* (heartbeat-wake.ts:188, heartbeat-wake.ts:223).                          *)
PendingIsScheduled ==
  handler # None /\ HasPending(pending) => timer.armed

(* A wake stops waiting only by a call of the handler for it: a run that    *)
(* fails in the middle of its batch loses none (heartbeat-wake.ts:177).      *)
NoWakeLost ==
  [][\A k \in Targets : Waiting(k) /\ ~Waiting(k)'
       => \E i \in RunIds : k \in runs[i].call' \ runs[i].call]_vars

(* Every wake is eventually handed to the handler, as long as there is one,  *)
(* whatever timers replace each other.                                      *)
WakesHandled ==
  \A k \in Targets : Waiting(k) ~> ~Waiting(k) \/ handler = None
=============================================================================
