------------------------------ MODULE CronService ------------------------------
(***************************************************************************)
(* The cron scheduler of the gateway (cron/service): the timer tick, the   *)
(* catch-up of a start, manual runs and the operations of a user, over one *)
(* job store.                                                              *)
(*                                                                         *)
(* Everything that touches the store runs in a section under locked(), one *)
(* at a time and in the order of the calls; a section is one action here,  *)
(* since nothing else reads the store meanwhile and every section that     *)
(* matters after a crash ends by saving it.  What happens between two      *)
(* sections -- the jobs themselves -- interleaves freely.                  *)
(*                                                                         *)
(* Time is a small clock.  A cron job has a slot at every multiple of      *)
(* Period, a one-shot job (kind "at") has one slot.                        *)
(***************************************************************************)
EXTENDS FiniteSets, Integers, Sequences, SequencesExt

CONSTANTS
  JobOrder,      \* the ids of the jobs, in the order of the store
  OneShots,      \* those of kind "at"; the others are of kind "cron"
  SlotOf,        \* the slot of a one-shot job
  DeleteAfterRun,
  InitialJobs,   \* the jobs in the store at first
  Period,
  Backoff,       \* errorBackoffMs
  MaxAttempts,   \* retries of a one-shot job after transient errors
  MaxMissed,     \* maxMissedJobsPerRestart
  Stagger,       \* missedJobStaggerMs
  Manuals,       \* manual runs that may be in progress together
  Requests,      \* what the user may ask for, as pairs of a kind and a job
  MaxNow,        \* bound of the clock
  MaxRequests,   \* bound of the user's operations
  MaxCrashes,
  NoJob

Jobs == ToSet(JobOrder)
NoTime == -1

ASSUME JobsAssumption ==
  /\ JobOrder \in Seq(Jobs)
  /\ \A i, k \in DOMAIN JobOrder : JobOrder[i] = JobOrder[k] => i = k
  /\ OneShots \subseteq Jobs /\ InitialJobs \subseteq Jobs /\ NoJob \notin Jobs
  /\ SlotOf \in [OneShots -> Nat]
ASSUME BoundsAssumption ==
  /\ Period \in Nat \ {0} /\ Backoff \in Nat \ {0} /\ Stagger \in Nat \ {0}
  /\ MaxMissed \in Nat /\ MaxNow \in Nat /\ MaxRequests \in Nat
ASSUME ManualsAssumption == Manuals \cap {"tick", "boot", "user"} = {}

VARIABLES
  jobs,        \* the store: the persisted state of each job
  now,
  chain,       \* the sections waiting for the lock, first come first served
  timer,       \* state.timer is armed
  runner,      \* the tick, the start and the manual runs
  interrupted, \* interruptedOneShotIds of the start
  up,          \* the gateway process lives
  outOfService, \* history: jobs disabled or removed at some time of a run
  staggered,   \* history: served one-shot jobs that a start gave another slot
  requests, crashes

ctlVars == <<chain, timer, runner, interrupted, up>>
boundVars == <<requests, crashes>>
history == <<outOfService, staggered>>
vars == <<jobs, now, ctlVars, history, boundVars>>

Runners == {"tick", "boot"} \cup Manuals

Fresh(j, t) ==
  [present |-> TRUE, enabled |-> TRUE, next |-> t, running |-> FALSE,
   lastRun |-> NoTime, status |-> "none", errors |-> 0]

Absent == [present |-> FALSE, enabled |-> FALSE, next |-> NoTime, running |-> FALSE,
           lastRun |-> NoTime, status |-> "none", errors |-> 0]

Idle == [at |-> "idle", todo |-> <<>>, job |-> NoJob, started |-> NoTime,
         results |-> {}, deferred |-> <<>>, mode |-> "none"]

-----------------------------------------------------------------------------
(* Schedules.                                                               *)

CronSlotAfter(t) == ((t \div Period) + 1) * Period

CronSlotBefore(t) == IF t = 0 THEN NoTime ELSE ((t - 1) \div Period) * Period

\* Mutant: a one-shot job that succeeded is scheduled again.
computeJobNextRunAtMs_AtAgain(j, s, t) ==
  IF ~s.enabled THEN NoTime ELSE IF j \in OneShots THEN SlotOf[j] ELSE CronSlotAfter(t)

Served(j, s) == s.status = "ok" /\ SlotOf[j] <= s.lastRun

(* A one-shot job stays due until it succeeds, and is due again only when   *)
(* its slot is after its last run.                                          *)
computeJobNextRunAtMs(j, s, t) ==
  IF ~s.enabled THEN NoTime
  ELSE IF j \notin OneShots THEN CronSlotAfter(t)
  ELSE IF Served(j, s) THEN NoTime
  ELSE SlotOf[j]

IsDue(s) == s.enabled /\ s.next # NoTime /\ s.next <= now

\* Mutant: a passed slot is moved whether it was executed or not.
SlotExecuted_Ignored(s) == s.next # NoTime

SlotExecuted(s) == s.lastRun >= s.next

(* recomputeNextRunsForMaintenance: repairs missing values and disabled     *)
(* jobs; a slot that has passed is moved only when it was executed.          *)
MaintainJob(j, s, expired) ==
  IF ~s.present THEN s
  ELSE IF ~s.enabled THEN [s EXCEPT !.next = NoTime, !.running = FALSE]
  ELSE IF s.next = NoTime \/ (expired /\ IsDue(s) /\ ~s.running /\ SlotExecuted(s))
       THEN [s EXCEPT !.next = computeJobNextRunAtMs(j, s, now)]
  ELSE s

recomputeNextRunsForMaintenance(js, expired) ==
  [j \in Jobs |-> MaintainJob(j, js[j], expired)]

(* recomputeNextRuns moves every slot that has passed.                      *)
recomputeNextRuns(js) ==
  [j \in Jobs |->
     LET s == MaintainJob(j, js[j], FALSE) IN
     IF s.present /\ IsDue(s)
     THEN [s EXCEPT !.next = computeJobNextRunAtMs(j, s, now)] ELSE s]

BackoffPending(j, s) ==
  j \notin OneShots /\ s.status = "error" /\ now < s.lastRun + Backoff

(* isRunnableJob, for a tick.                                               *)
Runnable(j) ==
  LET s == jobs[j] IN s.present /\ ~s.running /\ IsDue(s)

(* isRunnableJob, for the catch-up of a start.                              *)
Missed(j) ==
  LET s == jobs[j] IN
  /\ s.present /\ s.enabled /\ ~s.running
  /\ j \notin interrupted
  /\ IF j \in OneShots /\ s.status # "none"
     THEN s.status = "error" /\ s.next > s.lastRun /\ IsDue(s)
     ELSE \/ IsDue(s)
          \/ /\ j \notin OneShots /\ s.lastRun # NoTime
             /\ ~(s.next > now /\ BackoffPending(j, s))
             /\ CronSlotBefore(now) > s.lastRun

LaterOf(a, b) == IF a >= b THEN a ELSE b

(* applyJobResult of a run that started and ended at the given times.       *)
applyJobResult(j, s, res) ==
  LET errors == IF res.status = "error" THEN s.errors + 1 ELSE 0
      r == [s EXCEPT !.running = FALSE, !.lastRun = res.started,
                     !.status = res.status, !.errors = errors]
      off == [r EXCEPT !.enabled = FALSE, !.next = NoTime]
      retry == [r EXCEPT !.next = res.ended + Backoff]
      next == computeJobNextRunAtMs(j, r, res.ended)
  IN IF j \in OneShots
     THEN IF res.status = "ok" THEN IF j \in DeleteAfterRun THEN Absent ELSE off
          ELSE IF errors <= MaxAttempts THEN retry ELSE off
     ELSE IF ~s.enabled THEN off
     ELSE IF res.status = "error"
          THEN [r EXCEPT !.next = LaterOf(next, res.ended + Backoff)]
          ELSE [r EXCEPT !.next = next]

(* applyOutcomeToStoredJob for the outcomes of a batch, at most one per job;  *)
(* the outcome of a removed job is discarded.                               *)
applyOutcomes(js, results) ==
  [j \in Jobs |->
     IF js[j].present /\ \E res \in results : res.job = j
     THEN applyJobResult(j, js[j], CHOOSE res \in results : res.job = j)
     ELSE js[j]]

HasWake(js) == \E j \in Jobs : js[j].present /\ js[j].enabled /\ js[j].next # NoTime

-----------------------------------------------------------------------------
(* Lists of jobs.                                                           *)

Position(j) == CHOOSE i \in DOMAIN JobOrder : JobOrder[i] = j

(* collectRunnableJobs filters the jobs of the store.                        *)
InStoreOrder(S) ==
  {q \in SetToSeqs(S) : \A i, k \in DOMAIN q : i < k => Position(q[i]) < Position(q[k])}

(* Sorted by their next slot; the sort is stable.                           *)
BySlot(S) ==
  {q \in SetToSeqs(S) : \A i, k \in DOMAIN q : i < k =>
     \/ jobs[q[i]].next < jobs[q[k]].next
     \/ jobs[q[i]].next = jobs[q[k]].next /\ Position(q[i]) < Position(q[k])}

-----------------------------------------------------------------------------
Op(kind, who, j) == [kind |-> kind, who |-> who, job |-> j]

Ops == [kind : {"mark", "applyTick", "clear", "plan", "applyBoot", "final",
                "preflight", "reserve", "finish",
                "add", "enable", "disable", "remove", "read"},
        who : Runners \cup {"user"}, job : Jobs \cup {NoJob}]

(* The section at the head of the chain runs; what its caller asks for next *)
(* goes to the end.                                                         *)
Section(kind, more) ==
  /\ up /\ chain # <<>> /\ Head(chain).kind = kind
  /\ chain' = Tail(chain) \o more

Running(r) == {runner[r].job} \ {NoJob}

(* The jobs a runner has marked and whose outcomes are not applied yet.      *)
Holds(r) ==
  Running(r) \cup ToSet(runner[r].todo) \cup {res.job : res \in runner[r].results}

(* What a section leaves disabled or absent while somebody holds it.         *)
Track ==
  outOfService' =
    {j \in Jobs : /\ \E r \in Runners : j \in Holds(r)'
                  /\ j \in outOfService \/ ~(jobs'[j].present /\ jobs'[j].enabled)}

(* A section that leaves the scheduler alone but for the store.             *)
Store(js, arm) ==
  /\ jobs' = js
  /\ timer' = IF arm THEN HasWake(js) ELSE timer

Init ==
  /\ jobs = [j \in Jobs |->
       IF j \in InitialJobs
       THEN Fresh(j, IF j \in OneShots THEN SlotOf[j] ELSE CronSlotAfter(0))
       ELSE Absent]
  /\ now = 0
  /\ chain = <<Op("clear", "boot", NoJob)>>
  /\ timer = FALSE
  /\ runner = [r \in Runners |-> [Idle EXCEPT !.at = IF r = "boot" THEN "locked" ELSE @]]
  /\ interrupted = {}
  /\ up = TRUE
  /\ outOfService = {} /\ staggered = {}
  /\ requests = 0 /\ crashes = 0

-----------------------------------------------------------------------------
(* start: clear stale markers, catch up, recompute and arm.                 *)

\* Mutant: the markers of the last process stay.
StaleMarkers_None == {}

StaleMarkers == {j \in Jobs : jobs[j].running}

\* Mutant: recurring jobs are not caught up either.
InterruptedOneShots_All == StaleMarkers

InterruptedOneShots == StaleMarkers \cap OneShots

ClearStaleMarkers ==
  /\ Section("clear", <<Op("plan", "boot", NoJob)>>)
  /\ interrupted' = InterruptedOneShots
  /\ jobs' = [j \in Jobs |->
       IF j \in StaleMarkers THEN [jobs[j] EXCEPT !.running = FALSE] ELSE jobs[j]]
  /\ UNCHANGED <<now, timer, runner, up, staggered, boundVars>>
  /\ Track

MarkRunning(js, ids) ==
  [j \in Jobs |-> IF j \in ids THEN [js[j] EXCEPT !.running = TRUE] ELSE js[j]]

(* The jobs of a tick or of a catch-up run one after the other; the last one *)
(* hands over to the section that applies the outcomes.                     *)
StartNext(w) ==
  IF w.todo = <<>> THEN [w EXCEPT !.at = "locked", !.job = NoJob]
  ELSE [w EXCEPT !.at = "running", !.job = Head(w.todo), !.todo = Tail(w.todo),
                 !.started = now]

Apply(r) == Op(CASE r = "tick" -> "applyTick" [] r = "boot" -> "applyBoot"
                 [] OTHER -> "finish", r, IF r \in Manuals THEN runner[r].job ELSE NoJob)

planStartupCatchup ==
  /\ chain # <<>> /\ Head(chain).kind = "plan"
  /\ \E missed \in BySlot({j \in Jobs : Missed(j)}) :
       LET first == SubSeq(missed, 1, IF Len(missed) < MaxMissed THEN Len(missed) ELSE MaxMissed)
           w == [runner["boot"] EXCEPT !.todo = first,
                                       !.deferred = SubSeq(missed, Len(first) + 1, Len(missed))]
       IN /\ Section("plan", IF missed = <<>> THEN <<Op("final", "boot", NoJob)>>
                             ELSE IF first = <<>> THEN <<Apply("boot")>> ELSE <<>>)
          /\ jobs' = MarkRunning(jobs, ToSet(first))
          /\ runner' = [runner EXCEPT !["boot"] = IF missed = <<>> THEN @ ELSE StartNext(w)]
          /\ UNCHANGED <<now, timer, interrupted, up, staggered, boundVars>>
          /\ Track

(* The deferred jobs that are still enabled are staggered from now on.       *)
Deferred(js) ==
  LET order == runner["boot"].deferred
      Left(i) == js[order[i]].present /\ js[order[i]].enabled
      Turn(i) == Cardinality({k \in 1..i : Left(k)})
      At(j) == {i \in DOMAIN order : order[i] = j /\ Left(i)}
  IN [j \in Jobs |->
        IF At(j) = {} THEN js[j]
        ELSE [js[j] EXCEPT !.next = now + Stagger * Turn(CHOOSE i \in At(j) : TRUE)]]

applyStartupCatchupOutcomes ==
  LET applied == applyOutcomes(jobs, runner["boot"].results)
      Moved(j) == j \in ToSet(runner["boot"].deferred) /\ Served(j, applied[j])
  IN /\ Section("applyBoot", <<Op("final", "boot", NoJob)>>)
     /\ Store(recomputeNextRunsForMaintenance(Deferred(applied), FALSE), FALSE)
     /\ staggered' = staggered \cup {j \in OneShots : Moved(j)}
     /\ runner' = [runner EXCEPT !["boot"].deferred = <<>>, !["boot"].results = {}]
     /\ UNCHANGED <<now, interrupted, up, boundVars>>
     /\ Track

StartEnds ==
  /\ Section("final", <<>>)
  /\ Store(recomputeNextRuns(jobs), TRUE)
  /\ runner' = [runner EXCEPT !["boot"] = Idle]
  /\ UNCHANGED <<now, interrupted, up, staggered, boundVars>>
  /\ Track

-----------------------------------------------------------------------------
(* onTimer.  A tick that finds another one executing only arms the timer    *)
(* again; the tick itself keeps a recheck timer.                            *)
TimerFires ==
  /\ up /\ timer /\ runner["tick"].at = "idle"
  /\ runner' = [runner EXCEPT !["tick"].at = "locked"]
  /\ chain' = Append(chain, Op("mark", "tick", NoJob))
  /\ UNCHANGED <<jobs, now, timer, interrupted, up, history, boundVars>>

MarkDueJobs ==
  /\ Section("mark", <<>>)
  /\ \E due \in InStoreOrder({j \in Jobs : Runnable(j)}) :
       IF due = <<>>
       THEN /\ Store(recomputeNextRunsForMaintenance(jobs, TRUE), FALSE)
            /\ runner' = [runner EXCEPT !["tick"].at = "ending"]
       ELSE /\ Store(MarkRunning(jobs, ToSet(due)), FALSE)
            /\ runner' = [runner EXCEPT !["tick"] = StartNext([@ EXCEPT !.todo = due])]
  /\ UNCHANGED <<now, interrupted, up, staggered, boundVars>>
  /\ Track

(* executeJobCoreWithTimeout settles, by itself or by the job's timeout.    *)
RunEnds(r, status) ==
  LET w == runner[r]
      res == [job |-> w.job, status |-> status, started |-> w.started, ended |-> now]
  IN /\ up /\ w.at = "running"
     /\ runner' = [runner EXCEPT ![r] = StartNext([w EXCEPT !.results = @ \cup {res}])]
     /\ chain' = IF w.todo = <<>> THEN Append(chain, Apply(r)) ELSE chain
     /\ UNCHANGED <<jobs, now, timer, interrupted, up, history, boundVars>>

ApplyTickOutcomes ==
  /\ Section("applyTick", <<>>)
  /\ Store(recomputeNextRunsForMaintenance(
             applyOutcomes(jobs, runner["tick"].results), FALSE), FALSE)
  /\ runner' = [runner EXCEPT !["tick"].at = "ending", !["tick"].results = {}]
  /\ UNCHANGED <<now, interrupted, up, staggered, boundVars>>
  /\ Track

\* Mutant: the tick does not arm the timer when it ends.
TickEnds_NotArmed ==
  /\ up /\ runner["tick"].at = "ending"
  /\ runner' = [runner EXCEPT !["tick"] = Idle]
  /\ timer' = FALSE
  /\ UNCHANGED <<jobs, now, chain, interrupted, up, history, boundVars>>

(* The finally block, after the session reaper.                             *)
TickEnds ==
  /\ up /\ runner["tick"].at = "ending"
  /\ runner' = [runner EXCEPT !["tick"] = Idle]
  /\ timer' = HasWake(jobs)
  /\ UNCHANGED <<jobs, now, chain, interrupted, up, history, boundVars>>

-----------------------------------------------------------------------------
(* run: preflight and reservation are two sections.                         *)
RequestRun(m, j, mode) ==
  /\ up /\ requests < MaxRequests /\ runner[m].at = "idle"
  /\ <<mode, j>> \in Requests
  /\ requests' = requests + 1
  /\ runner' = [runner EXCEPT ![m].at = "locked", ![m].mode = mode]
  /\ chain' = Append(chain, Op("preflight", m, j))
  /\ UNCHANGED <<jobs, now, timer, interrupted, up, history, crashes>>

\* Mutant: the reservation trusts the preflight.
MayReserve_Trusting(s) == s.present

MayReserve(s) == s.present /\ ~s.running

PreflightRun(m) ==
  LET j == Head(chain).job
      js == recomputeNextRunsForMaintenance(jobs, FALSE)
      runnable == MayReserve(js[j]) /\ (runner[m].mode = "force" \/ IsDue(js[j]))
  IN /\ chain # <<>> /\ Head(chain).who = m
     /\ Section("preflight", IF runnable THEN <<Op("reserve", m, j)>> ELSE <<>>)
     /\ Store(js, FALSE)
     /\ runner' = [runner EXCEPT ![m] = IF runnable THEN [@ EXCEPT !.started = now] ELSE Idle]
     /\ UNCHANGED <<now, interrupted, up, staggered, boundVars>>
     /\ Track

ReserveRun(m) ==
  LET j == Head(chain).job IN
  /\ chain # <<>> /\ Head(chain).who = m
  /\ Section("reserve", <<>>)
  /\ IF MayReserve(jobs[j])
     THEN /\ Store(MarkRunning(jobs, {j}), FALSE)
          /\ runner' = [runner EXCEPT ![m].at = "running", ![m].job = j]
     ELSE /\ runner' = [runner EXCEPT ![m] = Idle]
          /\ UNCHANGED <<jobs, timer>>
  /\ UNCHANGED <<now, interrupted, up, staggered, boundVars>>
  /\ Track

FinishRun(m) ==
  LET applied == applyOutcomes(jobs, runner[m].results)
      j == Head(chain).job
  IN /\ chain # <<>> /\ Head(chain).who = m
     /\ Section("finish", <<>>)
     /\ IF jobs[j].present
        THEN Store(recomputeNextRunsForMaintenance(applied, TRUE), TRUE)
        ELSE UNCHANGED <<jobs, timer>>
     /\ runner' = [runner EXCEPT ![m] = Idle]
     /\ UNCHANGED <<now, interrupted, up, staggered, boundVars>>
     /\ Track

-----------------------------------------------------------------------------
(* What a user may ask for.                                                 *)
UserOps == {"add", "enable", "disable", "remove", "read"}

RequestOp(kind, j) ==
  /\ up /\ requests < MaxRequests
  /\ <<kind, j>> \in Requests
  /\ kind = "add" => ~jobs[j].present
  /\ requests' = requests + 1
  /\ chain' = Append(chain, Op(kind, "user", j))
  /\ UNCHANGED <<jobs, now, timer, runner, interrupted, up, history, crashes>>

UserSection(kind, js, arm) ==
  /\ Section(kind, <<>>)
  /\ Store(js, arm)
  /\ UNCHANGED <<now, runner, interrupted, up, staggered, boundVars>>
  /\ Track

Asked == Head(chain).job

add ==
  LET s == Fresh(Asked, NoTime) IN
  UserSection("add", recomputeNextRuns(
    IF jobs[Asked].present THEN jobs
    ELSE [jobs EXCEPT ![Asked] = [s EXCEPT !.next = computeJobNextRunAtMs(Asked, s, now)]]),
    TRUE)

(* update with a patch of enabled; an unknown job is refused.                *)
enable ==
  UserSection("enable",
    IF ~jobs[Asked].present THEN jobs
    ELSE LET s == [jobs[Asked] EXCEPT !.enabled = TRUE] IN
         [jobs EXCEPT ![Asked] = [s EXCEPT !.next = computeJobNextRunAtMs(Asked, s, now)]],
    jobs[Asked].present)

disable ==
  UserSection("disable",
    IF ~jobs[Asked].present THEN jobs
    ELSE [jobs EXCEPT ![Asked].enabled = FALSE, ![Asked].next = NoTime,
                      ![Asked].running = FALSE],
    jobs[Asked].present)

remove == UserSection("remove", [jobs EXCEPT ![Asked] = Absent], TRUE)

(* list and status.                                                         *)
ensureLoadedForRead ==
  UserSection("read", recomputeNextRunsForMaintenance(jobs, FALSE), FALSE)

-----------------------------------------------------------------------------
Crash ==
  /\ up /\ crashes < MaxCrashes
  /\ crashes' = crashes + 1
  /\ up' = FALSE /\ timer' = FALSE /\ chain' = <<>>
  /\ runner' = [r \in Runners |-> Idle]
  /\ interrupted' = {} /\ outOfService' = {}
  /\ UNCHANGED <<jobs, now, staggered, requests>>

Restart ==
  /\ ~up
  /\ up' = TRUE
  /\ chain' = <<Op("clear", "boot", NoJob)>>
  /\ runner' = [runner EXCEPT !["boot"].at = "locked"]
  /\ UNCHANGED <<jobs, now, timer, interrupted, history, boundVars>>

Pass ==
  /\ now < MaxNow
  /\ now' = now + 1
  /\ UNCHANGED <<jobs, ctlVars, history, boundVars>>

SomeSection ==
  \/ ClearStaleMarkers \/ planStartupCatchup \/ applyStartupCatchupOutcomes \/ StartEnds
  \/ MarkDueJobs \/ ApplyTickOutcomes
  \/ \E m \in Manuals : PreflightRun(m) \/ ReserveRun(m) \/ FinishRun(m)
  \/ chain # <<>> /\ (add \/ enable \/ disable \/ remove \/ ensureLoadedForRead)

Next ==
  \/ SomeSection \/ TimerFires \/ TickEnds
  \/ \E r \in Runners, status \in {"ok", "error"} : RunEnds(r, status)
  \/ \E m \in Manuals, j \in Jobs, mode \in {"due", "force"} : RequestRun(m, j, mode)
  \/ \E kind \in UserOps, j \in Jobs : RequestOp(kind, j)
  \/ Crash \/ Restart \/ Pass

Spec == Init /\ [][Next]_vars

(* Timers fire, sections run, and every job ends, by its timeout at the     *)
(* latest; a supervisor starts the gateway again.                           *)
FairSpec ==
  /\ Spec
  /\ WF_vars(SomeSection) /\ WF_vars(TimerFires) /\ WF_vars(TickEnds) /\ WF_vars(Restart)
  /\ \A r \in Runners : WF_vars(\E status \in {"ok", "error"} : RunEnds(r, status))

-----------------------------------------------------------------------------
(* Every variable has its type.                                             *)
Moments == Nat \cup {NoTime}

JobStates == [present : BOOLEAN, enabled : BOOLEAN, next : Moments, running : BOOLEAN,
              lastRun : Moments, status : {"none", "ok", "error"}, errors : Nat]

Results == [job : Jobs, status : {"ok", "error"}, started : Moments, ended : Nat]

RunnerStates == [at : {"idle", "locked", "running", "ending"}, todo : Seq(Jobs),
                 job : Jobs \cup {NoJob}, started : Moments, results : SUBSET Results,
                 deferred : Seq(Jobs), mode : {"none", "due", "force"}]

TypeOK ==
  /\ jobs \in [Jobs -> JobStates]
  /\ now \in Nat
  /\ chain \in Seq(Ops)
  /\ timer \in BOOLEAN /\ up \in BOOLEAN
  /\ runner \in [Runners -> RunnerStates]
  /\ interrupted \subseteq OneShots /\ outOfService \subseteq Jobs /\ staggered \subseteq OneShots
  /\ requests \in Nat /\ crashes \in Nat

(* The running marker keeps ticks, the catch-up and manual runs from running *)
(* a job that is already running (ops.ts:586), as long as the job is enabled *)
(* from the start of a run to the end of its bookkeeping.  A job that is     *)
(* disabled loses the marker, to the user's edit (ops.ts:329) or to the next *)
(* maintenance (jobs.ts:367), even when a forced run of it goes on.          *)
OneRunAtATime ==
  \A j \in Jobs \ outOfService : \A r, q \in Runners :
    j \in Running(r) \cap Running(q) => r = q

(* While the scheduler serves, some timer is armed whenever a job is         *)
(* scheduled: the early return of a tick, a manual run or an edit never      *)
(* leaves it without one (timer.ts:658).  A tick that has applied its        *)
(* outcomes is about to arm one.                                            *)
SchedulerAwake ==
  /\ up /\ runner["boot"].at = "idle" /\ runner["tick"].at # "ending"
  /\ HasWake(jobs)
  => timer

(* Ticks, reads, manual runs and the catch-up never move the slot of a job  *)
(* that is due without a run of that job (timer.ts:686, timer.ts:780);       *)
(* only adding a job, enabling this one, the last section of a start and    *)
(* the staggering of a start do.                                            *)
DueSlotWaitsForARun ==
  [][\A j \in Jobs :
       /\ jobs[j].present /\ IsDue(jobs[j]) /\ jobs'[j].present /\ jobs'[j].enabled
       /\ jobs'[j].next # jobs[j].next
       => \/ \E r \in Runners : /\ Head(chain).who = r
                              /\ \E res \in runner[r].results : res.job = j
          \/ Head(chain).kind \in {"add", "final"}
          \/ Head(chain).kind = "enable" /\ Asked = j
          \/ j \in ToSet(runner["boot"].deferred)]_vars

(* The scheduler never starts a one-shot job again whose slot was served by  *)
(* a successful run, unless a start deferred the job before that run and    *)
(* gave it another slot after it (timer.ts:1082), or the job was disabled or *)
(* removed while a runner ran it or had it on its list.                     *)
DoneOneShotStaysDone ==
  [][\A r \in {"tick", "boot"} : \A j \in OneShots \ (outOfService \cup staggered) :
       j \in Running(r)' \ Running(r) => ~Served(j, jobs[j])]_vars

(* A job that is due does not stay due for ever: it is run, or its slot      *)
(* moved, whatever crashes and restarts happen.                             *)
DueJobsRun ==
  \A j \in Jobs : jobs[j].present /\ IsDue(jobs[j])
                  ~> ~(jobs[j].present /\ IsDue(jobs[j]))

(* "One-shot jobs are not retried after interruption" (ops.ts:120).          *)
InterruptedOneShotsStayDown ==
  [][\A r \in {"tick", "boot"} : \A j \in interrupted :
       j \notin Running(r)' \ Running(r)]_vars
=============================================================================
