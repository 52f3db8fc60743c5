------------------------ MODULE HeartbeatWakeProofs ------------------------
(***************************************************************************)
(* Invariance proofs for HeartbeatWake, for any targets, priorities,       *)
(* delays and numbers of registrations, requests and refusals.             *)
(***************************************************************************)
EXTENDS HeartbeatWake, FiniteSetTheorems, TLAPS

Runs == [active : BOOLEAN, batch : [Targets -> Wakes],
         todo : SUBSET Targets, call : SUBSET Targets, delay : Nat]

Timers == [armed : BOOLEAN, due : Nat, delay : Nat, kind : {"normal", "retry"}]

\* What a batch still has to do is disjoint from the call in progress and was
\* pending when it was taken; a run that ended has left nothing behind.
RunsWellFormed ==
  \A i \in RunIds :
    /\ runs[i].todo \cap runs[i].call = {}
    /\ \A k \in runs[i].todo : runs[i].batch[k] # None
    /\ ~runs[i].active => runs[i].todo = {} /\ runs[i].call = {}

ActiveRuns == {i \in RunIds : runs[i].active}

\* Each registration and each end of a run lets in one run more, so there are
\* never more runs than registrations, but for one.
RunBound ==
  Cardinality(ActiveRuns) <= IF running THEN registered + 1 ELSE registered

IInv == TypeOK /\ RunsWellFormed /\ RunBound

-----------------------------------------------------------------------------
(* The operators.                                                          *)

\* schedule always leaves a timer.
LEMMA ScheduleArms ==
  ASSUME NEW t \in Timers, NEW delay \in Nat, NEW kind \in {"normal", "retry"}
  PROVE  schedule(t, delay, kind) \in Timers /\ schedule(t, delay, kind).armed
  BY DEF schedule, Armed, Timers

\* The finally block leaves a timer when something is pending.
LEMMA RescheduleArms ==
  ASSUME NEW t \in Timers, NEW p, NEW delay \in Nat
  PROVE  /\ Reschedule(t, p, delay) \in Timers
         /\ HasPending(p) => Reschedule(t, p, delay).armed
  BY ScheduleArms DEF Reschedule

\* No wake is a priority below all others.
LEMMA WakesOrdered ==
  /\ Wakes \subseteq Int /\ None \in Wakes
  /\ \A v, w \in Wakes : (w # None /\ v >= w => v # None) /\ (~(v >= w) => w # None)
  BY PriorityAssumption DEF Wakes, None

\* Queueing a wake loses none.
LEMMA QueueKeeps ==
  ASSUME NEW p \in [Targets -> Wakes], NEW k \in Targets, NEW priority \in Wakes
  PROVE  /\ Queue(p, k, priority) \in [Targets -> Wakes]
         /\ \A j \in Targets : p[j] # None => Queue(p, k, priority)[j] # None
  <1>1. ASSUME NEW j \in Targets
        PROVE  /\ Queue(p, k, priority)[j] \in Wakes
               /\ p[j] # None => Queue(p, k, priority)[j] # None
    BY WakesOrdered DEF Queue
  <1> QED
    BY <1>1 DEF Queue

\* Putting a batch back loses none of its wakes and none asked for meanwhile.
LEMMA RequeueKeeps ==
  ASSUME NEW p \in [Targets -> Wakes], NEW batch \in [Targets -> Wakes]
  PROVE  /\ Requeue(p, batch) \in [Targets -> Wakes]
         /\ \A k \in Targets : p[k] # None \/ batch[k] # None => Requeue(p, batch)[k] # None
  BY WakesOrdered DEF Requeue

\* The initial values have their types, and the runs are numbered 1 to MaxHandlers + 1.
LEMMA Constants ==
  /\ NoWakes \in [Targets -> Wakes] /\ NoTimer \in Timers /\ NoRun \in Runs
  /\ Armed(Coalesce, "normal") \in Timers
  /\ IsFiniteSet(RunIds) /\ Cardinality(RunIds) = MaxHandlers + 1
  <1>1. /\ NoWakes \in [Targets -> Wakes] /\ NoTimer \in Timers /\ NoRun \in Runs
        /\ Armed(Coalesce, "normal") \in Timers
    BY DelayAssumption DEF NoWakes, NoTimer, NoRun, Wakes, Timers, Runs, Armed
  <1>2. IsFiniteSet(RunIds) /\ Cardinality(RunIds) = MaxHandlers + 1
    BY FS_Interval, BoundAssumption DEF RunIds
  <1> QED
    BY <1>1, <1>2

\* There is always room for the batch of a timer that fires.
LEMMA RunAvailable ==
  ASSUME IInv, ~running
  PROVE  \E i \in RunIds : ~runs[i].active
  <1> SUFFICES ASSUME \A i \in RunIds : runs[i].active
               PROVE  FALSE
    OBVIOUS
  <1>1. ActiveRuns = RunIds
    BY DEF ActiveRuns
  <1>2. Cardinality(RunIds) <= registered
    BY <1>1 DEF IInv, RunBound
  <1> QED
    BY <1>2, Constants, BoundAssumption DEF IInv, TypeOK

-----------------------------------------------------------------------------
(* The steps.                                                              *)

\* The part of TypeOK that concerns the timer, the wakes and the runs.
WakeTypes ==
  /\ pending \in [Targets -> Wakes]
  /\ timer \in Timers
  /\ running \in BOOLEAN
  /\ runs \in [RunIds -> Runs]

\* TypeOK in two parts, so that steps need not expand the records.
LEMMA TypeParts ==
  TypeOK <=> /\ WakeTypes
             /\ scheduled \in BOOLEAN
             /\ handler \in (1..MaxHandlers) \cup {None}
             /\ registered \in 0..MaxHandlers
  BY DEF TypeOK, WakeTypes, Timers, Runs

\* The active runs can be counted.
LEMMA ActiveFinite ==
  ASSUME TypeOK
  PROVE  IsFiniteSet(ActiveRuns) /\ Cardinality(ActiveRuns) \in Nat
  <1>1. ActiveRuns \in SUBSET RunIds
    BY DEF ActiveRuns
  <1> QED
    BY <1>1, Constants, FS_Subset, FS_CardinalityType

\* A run that ends gives back its place.
LEMMA EndOfRun ==
  ASSUME IInv, NEW i \in RunIds, runs[i].active,
         runs' = [runs EXCEPT ![i] = NoRun], running' = FALSE, registered' = registered
  PROVE  runs' \in [RunIds -> Runs] /\ RunsWellFormed' /\ RunBound'
  <1>1. runs \in [RunIds -> Runs] /\ registered \in Nat /\ running \in BOOLEAN
    BY TypeParts, BoundAssumption DEF IInv, WakeTypes
  <1>2. runs' \in [RunIds -> Runs] /\ RunsWellFormed'
    BY <1>1, Constants DEF IInv, RunsWellFormed, NoRun
  <1>3. ActiveRuns' = ActiveRuns \ {i} /\ i \in ActiveRuns
    BY <1>1 DEF ActiveRuns, NoRun
  <1>4. Cardinality(ActiveRuns') = Cardinality(ActiveRuns) - 1
    BY <1>3, ActiveFinite, FS_RemoveElement DEF IInv
  <1> QED
    BY <1>1, <1>2, <1>4, ActiveFinite DEF IInv, RunBound

\* The rest of the callback after a call of the handler.
LEMMA ProceedKeeps ==
  ASSUME IInv, NEW i \in RunIds, runs[i].active,
         NEW p \in [Targets -> Wakes], NEW t \in Timers,
         Proceed(i, p, t)
  PROVE  IInv'
  <1>1. TypeOK /\ RunsWellFormed /\ RunBound /\ runs \in [RunIds -> Runs]
    BY TypeParts DEF IInv, WakeTypes
  <1>2. /\ handler' = handler /\ registered' = registered /\ scheduled' = scheduled
        /\ pending' = p
    BY DEF Proceed
  <1>3. CASE runs[i].todo = {}
    <2>1. /\ runs' = [runs EXCEPT ![i] = NoRun] /\ running' = FALSE
          /\ timer' = Reschedule(t, p, runs[i].delay)
      BY <1>3 DEF Proceed
    <2>2. timer' \in Timers
      BY <1>1, <2>1, RescheduleArms DEF Runs
    <2>3. runs' \in [RunIds -> Runs] /\ RunsWellFormed' /\ RunBound'
      BY <1>2, <2>1, EndOfRun
    <2> QED
      BY <1>1, <1>2, <2>1, <2>2, <2>3, TypeParts DEF IInv, TypeOK, Timers, Runs
  <1>4. CASE runs[i].todo # {}
    <2>1. PICK k \in runs[i].todo :
            runs' = [runs EXCEPT ![i].todo = @ \ {k}, ![i].call = {k}]
      BY <1>4 DEF Proceed
    <2>2. timer' = t /\ running' = running
      BY <1>4 DEF Proceed
    <2>3. runs' \in [RunIds -> Runs] /\ ActiveRuns' = ActiveRuns
      BY <1>1, <2>1 DEF Runs, ActiveRuns
    <2>4. RunsWellFormed'
      BY <1>1, <2>1 DEF RunsWellFormed, Runs
    <2> QED
      BY <1>1, <1>2, <2>2, <2>3, <2>4 DEF IInv, TypeOK, RunBound, Timers, Runs
  <1> QED
    BY <1>3, <1>4

\* The invariant holds at first.
LEMMA InitInvariant == Init => IInv
  <1> SUFFICES ASSUME Init PROVE IInv
    OBVIOUS
  <1>1. TypeOK
    <2>1. WakeTypes
      BY Constants DEF Init, WakeTypes
    <2>2. /\ scheduled \in BOOLEAN
          /\ handler \in (1..MaxHandlers) \cup {None}
          /\ registered \in 0..MaxHandlers
      <3>1. scheduled = FALSE /\ handler = None /\ registered = 0
        BY DEF Init
      <3>2. 0 \in 0..MaxHandlers
        BY BoundAssumption
      <3> QED
        BY <3>1, <3>2, Zenon
    <2> QED
      BY <2>1, <2>2 DEF TypeOK, WakeTypes, Timers, Runs
  <1>2. RunsWellFormed
    BY DEF Init, RunsWellFormed, NoRun
  <1>3. ActiveRuns = {}
    BY DEF Init, ActiveRuns, NoRun
  <1> QED
    BY <1>1, <1>2, <1>3, FS_EmptySet DEF Init, IInv, RunBound

\* A timer that fires.
LEMMA FireKeeps ==
  ASSUME IInv, Fire
  PROVE  IInv'
  <1>1. TypeOK /\ WakeTypes /\ RunsWellFormed /\ RunBound
    BY TypeParts DEF IInv
  <1>2. WakeTypes' /\ RunsWellFormed' /\ RunBound'
    <2>1. CASE ~HasPending(pending)
      <3>1. pending' = NoWakes /\ timer' = NoTimer
            /\ UNCHANGED <<running, runs, registered>>
        BY <2>1 DEF Fire
      <3>2. WakeTypes' /\ RunsWellFormed'
        BY <1>1, <3>1, Constants DEF WakeTypes, RunsWellFormed
      <3>3. ActiveRuns' = ActiveRuns
        BY <3>1 DEF ActiveRuns
      <3> QED
        BY <1>1, <3>1, <3>2, <3>3 DEF RunBound
    <2>2. CASE HasPending(pending)
      <3> DEFINE i == CHOOSE i \in RunIds : ~runs[i].active
                 wakes == {k \in Targets : pending[k] # None}
      <3>1. i \in RunIds /\ ~runs[i].active
        BY RunAvailable DEF Fire
      <3>2. PICK k \in wakes :
              runs' = [runs EXCEPT ![i] =
                [active |-> TRUE, batch |-> pending, todo |-> wakes \ {k},
                 call |-> {k}, delay |-> timer.delay]]
        BY <2>2 DEF Fire
      <3> HIDE DEF i
      <3>3. pending' = NoWakes /\ timer' = NoTimer /\ running' = TRUE /\ ~running
            /\ registered' = registered
        BY <2>2 DEF Fire
      <3>4. WakeTypes'
        BY <1>1, <3>1, <3>2, <3>3, Constants DEF WakeTypes, Runs, Timers
      <3>5. RunsWellFormed'
        BY <1>1, <3>1, <3>2 DEF RunsWellFormed, WakeTypes
      <3>6. ActiveRuns' = ActiveRuns \cup {i} /\ i \notin ActiveRuns
        BY <1>1, <3>1, <3>2 DEF ActiveRuns, WakeTypes
      <3>7. Cardinality(ActiveRuns') = Cardinality(ActiveRuns) + 1
        BY <1>1, <3>6, ActiveFinite, FS_AddElement
      <3>8. Cardinality(ActiveRuns) <= registered /\ registered \in Nat
        BY <1>1, <3>3, BoundAssumption DEF RunBound, TypeOK
      <3>9. RunBound'
        BY <1>1, <3>3, <3>7, <3>8, ActiveFinite DEF RunBound
      <3> QED
        BY <3>4, <3>5, <3>9
    <2> QED
      BY <2>1, <2>2
  <1>3. scheduled' \in BOOLEAN /\ handler' = handler /\ registered' = registered
    BY DEF Fire
  <1> QED
    BY <1>1, <1>2, <1>3, TypeParts DEF IInv, TypeOK, WakeTypes, Timers, Runs

\* A call of the handler that ends in any of its three ways.
LEMMA CallKeeps ==
  ASSUME IInv, NEW i \in RunIds, CallEnds(i)
  PROVE  IInv'
  <1>1. TypeOK /\ WakeTypes /\ RunsWellFormed /\ RunBound
    BY TypeParts DEF IInv
  <1>2. CASE CallRan(i)
    BY <1>1, <1>2, ProceedKeeps DEF CallRan, WakeTypes
  <1>3. CASE CallRefused(i)
    <2>1. PICK k \in runs[i].call :
            Proceed(i, Queue(pending, k, runs[i].batch[k]),
                    schedule(timer, RetryDelay, "retry"))
      BY <1>3 DEF CallRefused
    <2>2. k \in Targets /\ runs[i].batch[k] \in Wakes /\ runs[i].active
      BY <1>1, <1>3 DEF WakeTypes, Runs, CallRefused
    <2>3. Queue(pending, k, runs[i].batch[k]) \in [Targets -> Wakes]
      BY <1>1, <2>2, QueueKeeps DEF WakeTypes
    <2>4. schedule(timer, RetryDelay, "retry") \in Timers
      BY <1>1, DelayAssumption, ScheduleArms DEF WakeTypes
    <2> QED
      BY <2>1, <2>2, <2>3, <2>4, ProceedKeeps
  <1>4. CASE CallThrows(i)
    <2> DEFINE p == Requeue(pending, Unfinished(runs[i]))
               t == schedule(timer, RetryDelay, "retry")
    <2>1. runs[i].active /\ pending' = p /\ running' = FALSE
          /\ runs' = [runs EXCEPT ![i] = NoRun]
          /\ timer' = Reschedule(t, p, runs[i].delay)
          /\ UNCHANGED <<handler, registered, scheduled>>
      BY <1>4 DEF CallThrows
    <2>2. p \in [Targets -> Wakes]
      BY <1>1, RequeueKeeps DEF Unfinished, WakeTypes, Runs
    <2>3. t \in Timers
      BY <1>1, DelayAssumption, ScheduleArms DEF WakeTypes
    <2> HIDE DEF p, t
    <2>4. timer' \in Timers
      BY <1>1, <2>1, <2>3, RescheduleArms DEF WakeTypes, Runs
    <2>5. runs' \in [RunIds -> Runs] /\ RunsWellFormed' /\ RunBound'
      BY <2>1, EndOfRun
    <2>6. WakeTypes'
      BY <2>1, <2>2, <2>4, <2>5 DEF WakeTypes
    <2> QED
      BY <1>1, <2>1, <2>5, <2>6 DEF IInv, TypeOK, WakeTypes, Timers, Runs
  <1> QED
    BY <1>2, <1>3, <1>4 DEF CallEnds

\* The steps that leave the runs alone.
LEMMA QuietKeeps ==
  ASSUME IInv, runs' = runs,
         WakeTypes', scheduled' \in BOOLEAN,
         handler' \in (1..MaxHandlers) \cup {None},
         registered' \in 0..MaxHandlers,
         \/ running' = running /\ registered' = registered
         \/ running' = FALSE /\ registered' = registered + 1
  PROVE  IInv'
  <1>1. ActiveRuns' = ActiveRuns /\ RunsWellFormed'
    BY DEF ActiveRuns, IInv, RunsWellFormed
  <1>2. RunBound'
    BY <1>1, ActiveFinite, BoundAssumption DEF IInv, RunBound, TypeOK
  <1> QED
    BY <1>1, <1>2 DEF IInv, TypeOK, WakeTypes, Timers, Runs

\* Every step keeps the invariant: one case per action.
LEMMA StepInvariant == IInv /\ [Next]_vars => IInv'
  <1> SUFFICES ASSUME IInv, [Next]_vars PROVE IInv'
    OBVIOUS
  <1>1. /\ WakeTypes /\ scheduled \in BOOLEAN
        /\ handler \in (1..MaxHandlers) \cup {None} /\ registered \in 0..MaxHandlers
    BY TypeParts DEF IInv
  <1>2. ASSUME NEW k \in Targets, NEW priority \in Priorities, NEW delay \in Delays,
               requestHeartbeatNow(k, priority, delay)
        PROVE  IInv'
    <2>1. Queue(pending, k, priority) \in [Targets -> Wakes]
      BY <1>1, QueueKeeps DEF WakeTypes, Wakes
    <2>2. schedule(timer, delay, "normal") \in Timers
      BY <1>1, DelayAssumption, ScheduleArms DEF WakeTypes
    <2>3. WakeTypes'
      BY <1>1, <1>2, <2>1, <2>2 DEF requestHeartbeatNow, WakeTypes
    <2> QED
      BY <1>1, <1>2, <2>3, QuietKeeps DEF requestHeartbeatNow
  <1>3. CASE setHeartbeatWakeHandler
    <2>1. WakeTypes'
      BY <1>1, <1>3, Constants DEF setHeartbeatWakeHandler, WakeTypes
    <2>2. /\ registered' \in 0..MaxHandlers /\ handler' \in 1..MaxHandlers
          /\ registered' = registered + 1
      BY <1>1, <1>3, BoundAssumption DEF setHeartbeatWakeHandler
    <2> QED
      BY <1>3, <2>1, <2>2, QuietKeeps DEF setHeartbeatWakeHandler
  <1>4. CASE Dispose
    <2>1. WakeTypes'
      BY <1>1, <1>4 DEF Dispose, WakeTypes
    <2> QED
      BY <1>1, <1>4, <2>1, QuietKeeps DEF Dispose
  <1>5. CASE Elapse
    <2>1. WakeTypes'
      BY <1>1, <1>5 DEF Elapse, WakeTypes, Timers
    <2> QED
      BY <1>1, <1>5, <2>1, QuietKeeps DEF Elapse
  <1>6. CASE FireWithoutHandler
    <2>1. WakeTypes'
      BY <1>1, <1>6, Constants DEF FireWithoutHandler, WakeTypes
    <2> QED
      BY <1>1, <1>6, <2>1, QuietKeeps DEF FireWithoutHandler
  <1>7. CASE FireWhileRunning
    <2>1. WakeTypes'
      BY <1>1, <1>7 DEF FireWhileRunning, WakeTypes, Timers, Armed
    <2> QED
      BY <1>1, <1>7, <2>1, QuietKeeps DEF FireWhileRunning
  <1>8. CASE Fire
    BY <1>8, FireKeeps
  <1>9. ASSUME NEW i \in RunIds, CallEnds(i)
        PROVE  IInv'
    BY <1>9, CallKeeps
  <1>10. CASE UNCHANGED vars
    <2>1. WakeTypes'
      BY <1>1, <1>10 DEF vars, WakeTypes
    <2> QED
      BY <1>1, <1>10, <2>1, QuietKeeps DEF vars
  <1> QED
    BY <1>2, <1>3, <1>4, <1>5, <1>6, <1>7, <1>8, <1>9, <1>10 DEF Next, FireTimer

\* Every variable has its type, and there is always room for another batch.
THEOREM TypeCorrect == Spec => []TypeOK
  <1>1. IInv => TypeOK
    BY DEF IInv
  <1> QED
    BY <1>1, InitInvariant, StepInvariant, PTL DEF Spec

-----------------------------------------------------------------------------
(* A pending wake is scheduled.                                            *)

\* Every step that leaves a wake pending leaves it scheduled.
LEMMA StepScheduled ==
  ASSUME IInv, PendingIsScheduled, [Next]_vars
  PROVE  PendingIsScheduled'
  <1> USE DEF PendingIsScheduled
  <1>1. WakeTypes
    BY TypeParts DEF IInv
  <1>2. ASSUME NEW k \in Targets, NEW priority \in Priorities, NEW delay \in Delays,
               requestHeartbeatNow(k, priority, delay)
        PROVE  timer'.armed
    BY <1>1, <1>2, DelayAssumption, ScheduleArms DEF requestHeartbeatNow, WakeTypes
  <1>3. CASE setHeartbeatWakeHandler
    BY <1>3 DEF setHeartbeatWakeHandler, Armed
  <1>4. CASE Dispose
    BY <1>4 DEF Dispose
  <1>5. CASE Elapse
    BY <1>1, <1>5 DEF Elapse, WakeTypes, Timers
  <1>6. CASE FireWithoutHandler
    BY <1>6 DEF FireWithoutHandler
  <1>7. CASE FireWhileRunning
    BY <1>7 DEF FireWhileRunning, Armed
  <1>8. CASE Fire
    BY <1>8 DEF Fire, HasPending, NoWakes
  <1>9. ASSUME NEW i \in RunIds, CallEnds(i)
        PROVE  PendingIsScheduled'
    <2>1. ASSUME NEW p \in [Targets -> Wakes], NEW t \in Timers, Proceed(i, p, t),
                 handler # None /\ HasPending(p) => t.armed
          PROVE  PendingIsScheduled'
      <3>1. CASE runs[i].todo = {}
        BY <1>1, <2>1, <3>1, RescheduleArms DEF Proceed, WakeTypes, Runs
      <3>2. CASE runs[i].todo # {}
        BY <2>1, <3>2 DEF Proceed
      <3> QED
        BY <3>1, <3>2
    <2>2. CASE CallRan(i)
      BY <1>1, <2>1, <2>2 DEF CallRan, WakeTypes
    <2>3. CASE CallRefused(i)
      <3>1. PICK k \in runs[i].call :
              Proceed(i, Queue(pending, k, runs[i].batch[k]),
                      schedule(timer, RetryDelay, "retry"))
        BY <2>3 DEF CallRefused
      <3>2. k \in Targets /\ runs[i].batch[k] \in Wakes /\ runs[i].active
        BY <1>1, <2>3 DEF WakeTypes, Runs, CallRefused
      <3>3. /\ Queue(pending, k, runs[i].batch[k]) \in [Targets -> Wakes]
            /\ schedule(timer, RetryDelay, "retry") \in Timers
            /\ schedule(timer, RetryDelay, "retry").armed
        BY <1>1, <3>2, QueueKeeps, DelayAssumption, ScheduleArms DEF WakeTypes
      <3> QED
        BY <2>1, <3>1, <3>2, <3>3
    <2>4. CASE CallThrows(i)
      <3>1. schedule(timer, RetryDelay, "retry") \in Timers
        BY <1>1, DelayAssumption, ScheduleArms DEF WakeTypes
      <3> QED
        BY <1>1, <2>4, <3>1, RescheduleArms DEF CallThrows, WakeTypes, Runs
    <2> QED
      BY <1>9, <2>2, <2>3, <2>4 DEF CallEnds
  <1>10. CASE UNCHANGED vars
    BY <1>10 DEF vars
  <1> QED
    BY <1>2, <1>3, <1>4, <1>5, <1>6, <1>7, <1>8, <1>9, <1>10 DEF Next, FireTimer

\* A wake that is pending has a timer, in every lifecycle of the handler, whatever
\* run of it or of an older one is going on (schedule and its finally block).
THEOREM NeverStranded == Spec => []PendingIsScheduled
  <1>1. Init => PendingIsScheduled
    BY DEF Init, PendingIsScheduled
  <1> QED
    BY <1>1, InitInvariant, StepInvariant, StepScheduled, PTL DEF Spec

-----------------------------------------------------------------------------
(* No wake is lost.                                                        *)

Called(k) == \E i \in RunIds : k \in runs[i].call' \ runs[i].call

\* A batch in progress is worked off target by target.
LEMMA ProceedLosesNone ==
  ASSUME IInv, NEW i \in RunIds, NEW p \in [Targets -> Wakes], NEW t,
         \A k \in Targets : pending[k] # None => p[k] # None,
         Proceed(i, p, t),
         NEW k \in Targets, Waiting(k)
  PROVE  Waiting(k)' \/ Called(k)
  <1>1. WakeTypes /\ RunsWellFormed
    BY TypeParts DEF IInv
  <1>2. CASE pending[k] # None
    BY <1>2 DEF Proceed, Waiting
  <1>3. ASSUME NEW j \in RunIds, k \in runs[j].todo
        PROVE  Waiting(k)' \/ Called(k)
    <2>1. CASE j # i
      BY <1>1, <1>3, <2>1 DEF Proceed, Waiting, WakeTypes
    <2>2. CASE j = i
      <3>1. PICK l \in runs[i].todo :
              runs' = [runs EXCEPT ![i].todo = @ \ {l}, ![i].call = {l}]
        BY <1>3, <2>2 DEF Proceed
      <3>2. CASE l = k
        <4>1. k \in runs'[i].call /\ k \notin runs[i].call
          BY <1>1, <3>1, <3>2 DEF WakeTypes, Runs, RunsWellFormed
        <4> QED
          BY <4>1 DEF Called
      <3>3. CASE l # k
        <4>1. k \in runs'[i].todo
          BY <1>1, <1>3, <2>2, <3>1, <3>3 DEF WakeTypes, Runs
        <4> QED
          BY <4>1 DEF Waiting
      <3> QED
        BY <3>2, <3>3
    <2> QED
      BY <2>1, <2>2
  <1> QED
    BY <1>2, <1>3 DEF Waiting

\* A step that ends the waiting of a target calls the handler for it.
LEMMA StepLosesNone ==
  ASSUME IInv, [Next]_vars, NEW k \in Targets, Waiting(k)
  PROVE  Waiting(k)' \/ Called(k)
  <1>1. WakeTypes /\ RunsWellFormed
    BY TypeParts DEF IInv
  <1>2. ASSUME NEW j \in Targets, NEW priority \in Priorities, NEW delay \in Delays,
               requestHeartbeatNow(j, priority, delay)
        PROVE  Waiting(k)'
    BY <1>1, <1>2, QueueKeeps DEF requestHeartbeatNow, Waiting, WakeTypes, Wakes
  <1>3. CASE setHeartbeatWakeHandler \/ Dispose \/ Elapse \/ FireWithoutHandler
             \/ FireWhileRunning \/ UNCHANGED vars
    <2>1. UNCHANGED <<pending, runs>>
      BY <1>3 DEF setHeartbeatWakeHandler, Dispose, Elapse, FireWithoutHandler,
                  FireWhileRunning, vars
    <2> QED
      BY <2>1 DEF Waiting
  <1>4. CASE Fire
    <2>1. CASE ~HasPending(pending)
      <3>1. pending' = NoWakes /\ runs' = runs /\ pending[k] = None
        BY <1>4, <2>1 DEF Fire, HasPending
      <3> QED
        BY <3>1 DEF Waiting
    <2>2. CASE HasPending(pending)
      <3> DEFINE i == CHOOSE i \in RunIds : ~runs[i].active
                 wakes == {j \in Targets : pending[j] # None}
      <3>1. i \in RunIds /\ ~runs[i].active
        BY <1>4, RunAvailable DEF Fire
      <3>2. PICK l \in wakes :
              runs' = [runs EXCEPT ![i] =
                [active |-> TRUE, batch |-> pending, todo |-> wakes \ {l},
                 call |-> {l}, delay |-> timer.delay]]
        BY <1>4, <2>2 DEF Fire
      <3> HIDE DEF i
      <3>3. CASE pending[k] # None
        <4>1. k \in runs'[i].todo \/ (k \in runs'[i].call /\ k \notin runs[i].call)
          BY <1>1, <3>1, <3>2, <3>3 DEF WakeTypes, RunsWellFormed
        <4> QED
          BY <3>1, <4>1 DEF Waiting, Called
      <3>4. ASSUME NEW j \in RunIds, k \in runs[j].todo
            PROVE  Waiting(k)'
        <4>1. j # i
          BY <1>1, <3>1, <3>4 DEF RunsWellFormed
        <4> QED
          BY <1>1, <3>2, <3>4, <4>1 DEF WakeTypes, Waiting
      <3> QED
        BY <3>3, <3>4 DEF Waiting
    <2> QED
      BY <2>1, <2>2
  <1>5. ASSUME NEW i \in RunIds, CallEnds(i)
        PROVE  Waiting(k)' \/ Called(k)
    <2>1. CASE CallRan(i)
      BY <1>1, <2>1, ProceedLosesNone DEF CallRan, WakeTypes
    <2>2. CASE CallRefused(i)
      <3>1. PICK j \in runs[i].call :
              Proceed(i, Queue(pending, j, runs[i].batch[j]),
                      schedule(timer, RetryDelay, "retry"))
        BY <2>2 DEF CallRefused
      <3>2. j \in Targets /\ runs[i].batch[j] \in Wakes
        BY <1>1, <3>1 DEF WakeTypes, Runs
      <3> QED
        BY <1>1, <3>1, <3>2, QueueKeeps, ProceedLosesNone DEF WakeTypes
    <2>3. CASE CallThrows(i)
      <3>1. /\ pending' = Requeue(pending, runs[i].batch)
            /\ runs' = [runs EXCEPT ![i] = NoRun]
        BY <2>3 DEF CallThrows, Unfinished
      <3>2. pending[k] # None \/ k \in runs[i].todo => pending'[k] # None
        BY <1>1, <3>1, RequeueKeeps DEF WakeTypes, Runs, RunsWellFormed
      <3>3. \A j \in RunIds \ {i} : runs'[j] = runs[j]
        BY <1>1, <3>1 DEF WakeTypes
      <3> QED
        BY <3>2, <3>3 DEF Waiting
    <2> QED
      BY <1>5, <2>1, <2>2, <2>3 DEF CallEnds
  <1> QED
    BY <1>2, <1>3, <1>4, <1>5 DEF Next, FireTimer

\* A wake stops waiting only by a call of the handler for it, whatever the
\* handler throws or refuses in the middle of a batch.
THEOREM NoneLost == Spec => NoWakeLost
  <1>1. ASSUME IInv, [Next]_vars
        PROVE  [\A k \in Targets : Waiting(k) /\ ~Waiting(k)'
                 => \E i \in RunIds : k \in runs[i].call' \ runs[i].call]_vars
    BY <1>1, StepLosesNone DEF Called
  <1> QED
    BY <1>1, InitInvariant, StepInvariant, PTL DEF Spec, NoWakeLost
=============================================================================
