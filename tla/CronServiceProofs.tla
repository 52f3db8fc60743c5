--------------------------- MODULE CronServiceProofs ---------------------------
(***************************************************************************)
(* Theorems about the cron service: a marked job runs once at a time, the  *)
(* scheduler keeps a timer armed, a due slot waits for a run of its job,   *)
(* and a one-shot job that succeeded is not started again by the scheduler.*)
(***************************************************************************)
EXTENDS CronService, FiniteSetTheorems, SequenceTheorems, TLAPS

-----------------------------------------------------------------------------
(* The invariants.                                                         *)

\* An enabled job has no slot only when it is a one-shot job that succeeded, and
\* a slot that a run has already reached only while it is to be tried again.
JobOK(j, s, t) ==
  /\ s \in JobStates /\ s.lastRun <= t
  /\ s.present /\ s.enabled =>
       IF s.next = NoTime
       THEN j \in OneShots /\ Served(j, s)
       ELSE s.next <= s.lastRun
            => j \in OneShots /\ s.next = SlotOf[j] /\ s.status # "ok"

Sound(js) == js \in [Jobs -> JobStates] /\ \A j \in Jobs : JobOK(j, js[j], now)

\* Nothing has started or ended after now, or ended before it started.
Timed ==
  \A r \in Runners :
    /\ runner[r].started <= now
    /\ \A res \in runner[r].results : res.started <= res.ended /\ res.ended <= now

JobsInv == Sound(jobs) /\ Timed

\* Whose section it is, and for which job.
CallOK(o) ==
  /\ o \in Ops
  /\ o.kind \in {"mark", "applyTick"} => o.who = "tick"
  /\ o.kind \in {"clear", "plan", "applyBoot", "final"} => o.who = "boot"
  /\ o.kind \in {"preflight", "reserve", "finish"} => o.who \in Manuals
  /\ o.kind \in UserOps => o.who = "user"
  /\ o.kind \in {"preflight", "reserve", "finish"} \cup UserOps => o.job \in Jobs

Calls == \A i \in DOMAIN chain : CallOK(chain[i])

RunsAJob == \A r \in Runners : runner[r].at = "running" => runner[r].job \in Jobs

TypeInv == TypeOK /\ Calls /\ RunsAJob

\* A runner that waits for the lock has at most one section in the chain, and
\* one that does not wait has none.
OneCall ==
  /\ \A i \in DOMAIN chain :
       chain[i].who \in Runners => runner[chain[i].who].at = "locked"
  /\ \A i, k \in DOMAIN chain :
       chain[i].who \in Runners /\ chain[i].who = chain[k].who => i = k

AwakeInv == OneCall /\ SchedulerAwake

\* The jobs that a runner in state w holds.
Taken(w) == ({w.job} \ {NoJob}) \cup ToSet(w.todo) \cup {res.job : res \in w.results}

\* A job that stays in service is held in one place only.
Exclusive ==
  \A j \in Jobs \ outOfService : \A r, q \in Runners :
    j \in Holds(r) \cap Holds(q) => r = q

InService(s) == s.present /\ s.enabled /\ s.running

\* A job that somebody holds is enabled and marked, or was out of service meanwhile.
Marked == \A r \in Runners : \A j \in Holds(r) : j \in outOfService \/ InService(jobs[j])

NobodyRuns == \A r \in Runners : Holds(r) = {}

\* A runner that runs nothing has nothing left to run, whatever outcomes it holds.
QuietWork(w) == w.at # "running" => w.job = NoJob /\ w.todo = <<>>

Quiet == \A r \in Runners : QuietWork(runner[r])

\* The markers of the last process are cleared before anything runs.
ClearFirst ==
  /\ ~up => NobodyRuns
  /\ \A i \in DOMAIN chain : chain[i].kind = "clear" => i = 1 /\ NobodyRuns

ExclusiveInv == Exclusive /\ Marked /\ ClearFirst /\ Quiet /\ OneCall

\* A one-shot job that succeeded has no slot, and neither the tick nor the
\* catch-up is about to run it.
DoneInv ==
  /\ \A j \in OneShots \ staggered :
       jobs[j].present /\ jobs[j].enabled /\ Served(j, jobs[j]) => jobs[j].next = NoTime
  /\ \A r \in {"tick", "boot"} : \A j \in OneShots \ (outOfService \cup staggered) :
       j \in Holds(r) => ~Served(j, jobs[j])

-----------------------------------------------------------------------------
(* Schedules and the state of one job.                                     *)

\* The slot of a cron job after t is after t.
LEMMA CronSlotLater ==
  ASSUME NEW t \in Nat
  PROVE  CronSlotAfter(t) \in Nat /\ CronSlotAfter(t) > t
  <1> DEFINE q == t \div Period
  <1>1. Period \in Nat \ {0}
    BY BoundsAssumption
  <1>2. q \in Nat /\ t = Period * q + (t % Period) /\ t % Period < Period /\ t % Period \in Nat
    BY <1>1
  <1>3. (q + 1) * Period = Period * q + Period
    BY <1>1, <1>2
  <1>4. Period * q \in Nat
    BY <1>1, <1>2
  <1> HIDE DEF q
  <1>5. CronSlotAfter(t) = (q + 1) * Period
    BY DEF CronSlotAfter, q
  <1>. QED  BY <1>1, <1>2, <1>3, <1>4, <1>5

\* computeJobNextRunAtMs finds a slot unless the job has been served, and the
\* slot is after its last run unless it is a one-shot job still to be served.
LEMMA ComputedSlot ==
  ASSUME NEW j \in Jobs, NEW s \in JobStates, NEW t \in Nat, s.lastRun <= t, s.enabled
  PROVE  LET next == computeJobNextRunAtMs(j, s, t) IN
         /\ next \in Moments
         /\ next = NoTime => j \in OneShots /\ Served(j, s)
         /\ next # NoTime /\ next <= s.lastRun
            => j \in OneShots /\ next = SlotOf[j] /\ s.status # "ok"
         /\ j \in OneShots /\ Served(j, s) => next = NoTime
  <1>1. s.lastRun \in Int
    BY DEF JobStates, Moments, NoTime
  <1>2. CASE j \notin OneShots
    BY <1>1, <1>2, CronSlotLater DEF computeJobNextRunAtMs, Moments, NoTime
  <1>3. CASE j \in OneShots
    BY <1>1, <1>3, JobsAssumption DEF computeJobNextRunAtMs, Moments, NoTime, Served, JobStates
  <1>. QED  BY <1>2, <1>3

\* A job whose slot is computed again is as it should be.
LEMMA RescheduledOK ==
  ASSUME NEW j \in Jobs, NEW s \in JobStates, NEW t \in Nat, s.lastRun <= t, s.enabled,
         NEW u \in Nat, t <= u
  PROVE  JobOK(j, [s EXCEPT !.next = computeJobNextRunAtMs(j, s, t)], u)
  <1> DEFINE r == [s EXCEPT !.next = computeJobNextRunAtMs(j, s, t)]
  <1>1. r \in JobStates /\ r.next = computeJobNextRunAtMs(j, s, t)
        /\ r.lastRun = s.lastRun /\ r.status = s.status
    BY ComputedSlot DEF JobStates
  <1>2. s.lastRun <= u
    BY DEF JobStates, Moments, NoTime
  <1>3. Served(j, r) <=> Served(j, s)
    BY <1>1 DEF Served
  <1> HIDE DEF r
  <1>4. JobOK(j, r, u)
    BY <1>1, <1>2, <1>3, ComputedSlot DEF JobOK
  <1>. QED  BY <1>4 DEF r

\* The repairs of recomputeNextRunsForMaintenance only ever clear a disabled job.
LEMMA MaintainedJob ==
  ASSUME now \in Nat, NEW j \in Jobs, NEW s, JobOK(j, s, now), NEW expired \in BOOLEAN
  PROVE  /\ JobOK(j, MaintainJob(j, s, expired), now)
         /\ s.present /\ s.enabled => MaintainJob(j, s, expired) = s
         /\ MaintainJob(j, s, expired).present = s.present
         /\ MaintainJob(j, s, expired).enabled = s.enabled
         /\ MaintainJob(j, s, expired).lastRun = s.lastRun
         /\ MaintainJob(j, s, expired).status = s.status
         /\ MaintainJob(j, s, expired).running => s.running
  <1>1. s \in JobStates /\ s.lastRun <= now
    BY DEF JobOK
  <1>2. CASE ~s.present
    BY <1>2 DEF MaintainJob
  <1>3. CASE s.present /\ ~s.enabled
    <2>1. MaintainJob(j, s, expired) = [s EXCEPT !.next = NoTime, !.running = FALSE]
      BY <1>3 DEF MaintainJob
    <2>. QED  BY <1>1, <1>3, <2>1 DEF JobOK, JobStates, Moments
  <1>4. CASE s.present /\ s.enabled
    <2> DEFINE next == computeJobNextRunAtMs(j, s, now)
    <2>1. s = [s EXCEPT !.next = s.next] /\ s.next \in Moments /\ s.lastRun \in Moments
      BY <1>1 DEF JobStates
    <2>2. CASE s.next = NoTime
      <3>1. next = s.next
        BY <1>1, <1>4, <2>2, ComputedSlot DEF JobOK
      <3>. QED  BY <1>4, <2>1, <2>2, <3>1 DEF MaintainJob
    <2>3. CASE s.next # NoTime /\ expired /\ IsDue(s) /\ ~s.running /\ SlotExecuted(s)
      <3>1. s.next <= s.lastRun
        BY <2>1, <2>3 DEF SlotExecuted, Moments, NoTime
      <3>2. j \in OneShots /\ s.next = SlotOf[j] /\ s.status # "ok"
        BY <1>4, <2>3, <3>1 DEF JobOK
      <3>3. next = s.next
        BY <1>4, <3>2 DEF computeJobNextRunAtMs, Served
      <3>. QED  BY <1>4, <2>1, <2>3, <3>3 DEF MaintainJob
    <2>4. CASE s.next # NoTime /\ ~(expired /\ IsDue(s) /\ ~s.running /\ SlotExecuted(s))
      BY <1>4, <2>4 DEF MaintainJob
    <2>. QED  BY <2>2, <2>3, <2>4
  <1>. QED  BY <1>2, <1>3, <1>4

LEMMA Maintained ==
  ASSUME now \in Nat, NEW js, Sound(js), NEW expired \in BOOLEAN
  PROVE  Sound(recomputeNextRunsForMaintenance(js, expired))
  BY MaintainedJob DEF Sound, recomputeNextRunsForMaintenance, JobOK

LEMMA Recomputed ==
  ASSUME now \in Nat, NEW js, Sound(js)
  PROVE  Sound(recomputeNextRuns(js))
  <1>1. ASSUME NEW j \in Jobs
        PROVE  JobOK(j, recomputeNextRuns(js)[j], now)
    <2> DEFINE s == MaintainJob(j, js[j], FALSE)
    <2>1. JobOK(j, js[j], now)
      BY DEF Sound
    <2>2. JobOK(j, s, now)
      BY <2>1, MaintainedJob
    <2>3. s \in JobStates /\ s.lastRun <= now
      BY <2>2 DEF JobOK
    <2> DEFINE moved == [s EXCEPT !.next = computeJobNextRunAtMs(j, s, now)]
    <2>4. recomputeNextRuns(js)[j] \in {s, moved}
          /\ (recomputeNextRuns(js)[j] = s \/ s.enabled)
      BY DEF recomputeNextRuns, IsDue
    <2> HIDE DEF s
    <2>5. s.enabled => JobOK(j, moved, now)
      BY <2>3, RescheduledOK
    <2>. QED  BY <2>2, <2>4, <2>5
  <1>. QED  BY <1>1 DEF Sound, recomputeNextRuns, JobOK

\* The outcome of a run leaves a job as it should be.
LEMMA AppliedJob ==
  ASSUME now \in Nat, NEW j \in Jobs, NEW s, JobOK(j, s, now),
         NEW res \in Results, res.started <= res.ended, res.ended <= now
  PROVE  JobOK(j, applyJobResult(j, s, res), now)
  <1> DEFINE errors == IF res.status = "error" THEN s.errors + 1 ELSE 0
             r == [s EXCEPT !.running = FALSE, !.lastRun = res.started,
                            !.status = res.status, !.errors = errors]
             off == [r EXCEPT !.enabled = FALSE, !.next = NoTime]
             retry == [r EXCEPT !.next = res.ended + Backoff]
             next == computeJobNextRunAtMs(j, r, res.ended)
             later == [r EXCEPT !.next = LaterOf(next, res.ended + Backoff)]
             again == [r EXCEPT !.next = next]
  <1>1. s \in JobStates /\ res.started \in Moments /\ res.ended \in Nat
        /\ res.status \in {"ok", "error"} /\ Backoff \in Nat \ {0}
    BY BoundsAssumption DEF JobOK, Results
  <1> HIDE DEF errors
  <1>2. r \in JobStates /\ r.lastRun = res.started /\ r.status = res.status
        /\ r.enabled = s.enabled
    <2>1. errors \in Nat
      BY <1>1 DEF errors, JobStates
    <2>. QED  BY <1>1, <2>1 DEF JobStates
  <1>3. res.started \in Int /\ res.ended + Backoff \in Nat /\ res.started < res.ended + Backoff
        /\ res.started <= now
    BY <1>1 DEF Moments, NoTime
  <1> HIDE DEF r
  <1>4. JobOK(j, off, now)
    BY <1>1, <1>2, <1>3 DEF JobOK, JobStates, Moments
  <1>5. JobOK(j, retry, now)
    BY <1>1, <1>2, <1>3 DEF JobOK, JobStates, Moments, NoTime
  <1>6. JobOK(j, Absent, now)
    BY DEF JobOK, JobStates, Moments, NoTime, Absent
  <1>7. CASE j \notin OneShots /\ s.enabled
    <2>1. next \in Nat /\ next > res.ended
      BY <1>1, <1>2, <1>7, CronSlotLater DEF computeJobNextRunAtMs
    <2> HIDE DEF next
    <2>2. /\ LaterOf(next, res.ended + Backoff) \in Nat
          /\ LaterOf(next, res.ended + Backoff) > res.started
      BY <1>3, <1>1, <2>1 DEF LaterOf
    <2>3. JobOK(j, later, now)
      BY <1>1, <1>2, <1>3, <2>2 DEF JobOK, JobStates, Moments, NoTime
    <2>4. JobOK(j, again, now)
      BY <1>1, <1>2, <1>3, <2>1 DEF JobOK, JobStates, Moments, NoTime
    <2>5. applyJobResult(j, s, res) \in {later, again}
      BY <1>7 DEF applyJobResult, r, errors, next
    <2>. QED  BY <2>3, <2>4, <2>5
  <1>8. CASE j \in OneShots \/ ~s.enabled
    <2>1. applyJobResult(j, s, res) \in {Absent, off, retry}
      BY <1>8 DEF applyJobResult, r, errors
    <2>. QED  BY <1>4, <1>5, <1>6, <2>1
  <1>. QED  BY <1>7, <1>8

LEMMA Applied ==
  ASSUME now \in Nat, NEW js, Sound(js), NEW results \in SUBSET Results,
         \A res \in results : res.started <= res.ended /\ res.ended <= now
  PROVE  Sound(applyOutcomes(js, results))
  <1>1. ASSUME NEW j \in Jobs
        PROVE  JobOK(j, applyOutcomes(js, results)[j], now)
    <2>1. CASE js[j].present /\ \E res \in results : res.job = j
      <3> DEFINE res == CHOOSE res \in results : res.job = j
      <3>1. res \in results
        BY <2>1
      <3>2. applyOutcomes(js, results)[j] = applyJobResult(j, js[j], res)
        BY <2>1 DEF applyOutcomes
      <3> HIDE DEF res
      <3>. QED  BY <3>1, <3>2, AppliedJob DEF Sound
    <2>2. CASE ~(js[j].present /\ \E res \in results : res.job = j)
      BY <2>2 DEF applyOutcomes, Sound
    <2>. QED  BY <2>1, <2>2
  <1>. QED  BY <1>1 DEF Sound, applyOutcomes, JobOK

-----------------------------------------------------------------------------
(* The other stores that sections leave behind, and lists of jobs.         *)

\* The store is finite, and so is every set of its jobs.
LEMMA JobsFinite == \A S \in SUBSET Jobs : IsFiniteSet(S) /\ Cardinality(S) \in Nat
  <1>1. JobOrder \in [1..Len(JobOrder) -> Jobs] /\ Len(JobOrder) \in Nat
        /\ DOMAIN JobOrder = 1..Len(JobOrder)
    BY JobsAssumption, LenProperties
  <1>2. JobOrder \in Surjection(1..Len(JobOrder), Jobs)
    BY <1>1 DEF Surjection, Jobs, ToSet
  <1>3. IsFiniteSet(Jobs)
    BY <1>1, <1>2, FS_Interval, FS_Surjection
  <1>. QED  BY <1>3, FS_Subset, FS_CardinalityType

\* A list of the jobs of a set holds those jobs.
LEMMA ListOfJobs ==
  ASSUME NEW S \in SUBSET Jobs, NEW q \in SetToSeqs(S)
  PROVE  q \in Seq(Jobs) /\ ToSet(q) \subseteq S
  <1>1. Cardinality(S) \in Nat
    BY JobsFinite
  <1>2. q \in [1..Cardinality(S) -> S]
    BY DEF SetToSeqs
  <1>. QED  BY <1>1, <1>2, SeqMonotonic DEF ToSet

LEMMA MarkedStore ==
  ASSUME NEW js, Sound(js), NEW ids
  PROVE  Sound(MarkRunning(js, ids))
  BY DEF Sound, MarkRunning, JobOK, JobStates, Served

\* A staggered slot is after now.
LEMMA DeferredJob ==
  ASSUME TypeOK, NEW js, Sound(js), NEW j \in Jobs
  PROVE  \/ Deferred(js)[j] = js[j]
         \/ /\ j \in ToSet(runner["boot"].deferred) /\ js[j].enabled
            /\ \E t \in Nat : t > now /\ Deferred(js)[j] = [js[j] EXCEPT !.next = t]
  <1> DEFINE order == runner["boot"].deferred
             Left(i) == js[order[i]].present /\ js[order[i]].enabled
             Turn(i) == Cardinality({k \in 1..i : Left(k)})
             At(x) == {i \in DOMAIN order : order[i] = x /\ Left(i)}
  <1>1. Deferred(js)[j] =
          IF At(j) = {} THEN js[j]
          ELSE [js[j] EXCEPT !.next = now + Stagger * Turn(CHOOSE i \in At(j) : TRUE)]
    BY DEF Deferred
  <1>2. SUFFICES ASSUME At(j) # {}
                 PROVE  /\ j \in ToSet(order) /\ js[j].enabled
                        /\ \E t \in Nat : t > now /\ Deferred(js)[j] = [js[j] EXCEPT !.next = t]
    BY <1>1
  <1>3. PICK i \in DOMAIN order : i = (CHOOSE k \in At(j) : TRUE) /\ order[i] = j /\ Left(i)
    BY <1>2
  <1>4. order \in Seq(Jobs)
    BY DEF TypeOK, Runners, RunnerStates
  <1>5. i \in Nat \ {0}
    <2>1. DOMAIN order = 1..Len(order) /\ Len(order) \in Nat
      BY <1>4, LenProperties
    <2> HIDE DEF order
    <2>. QED  BY <2>1, <1>3
  <1>6. Turn(i) \in Nat \ {0}
    <2> DEFINE T == {k \in 1..i : Left(k)}
    <2>1. Left(i)
      BY <1>3
    <2>2. IsFiniteSet(1..i)
      BY <1>5, FS_Interval
    <2> HIDE DEF Left
    <2>3. i \in T /\ T \subseteq 1..i
      BY <1>5, <2>1
    <2>4. IsFiniteSet(T) /\ Cardinality(T) \in Nat
      BY <2>2, <2>3, FS_Subset, FS_CardinalityType
    <2>. QED  BY <2>3, <2>4, FS_EmptySet
  <1>7. j \in ToSet(order) /\ js[j].enabled
    BY <1>3 DEF ToSet
  <1>8. Deferred(js)[j] = [js[j] EXCEPT !.next = now + Stagger * Turn(i)]
    BY <1>1, <1>2, <1>3
  <1>9. \A a, b \in Nat \ {0} : a * b \in Nat \ {0}
    OBVIOUS
  <1> HIDE DEF Turn
  <1>10. now + Stagger * Turn(i) \in Nat /\ now + Stagger * Turn(i) > now
    BY <1>6, <1>9, BoundsAssumption DEF TypeOK
  <1>. QED  BY <1>7, <1>8, <1>10

LEMMA DeferredStore ==
  ASSUME TypeOK, NEW js, Sound(js)
  PROVE  Sound(Deferred(js))
  <1>1. ASSUME NEW j \in Jobs
        PROVE  JobOK(j, Deferred(js)[j], now)
    <2>1. JobOK(j, js[j], now) /\ now \in Nat
      BY DEF Sound, TypeOK
    <2>2. ASSUME NEW t \in Nat, t > now
          PROVE  JobOK(j, [js[j] EXCEPT !.next = t], now)
      BY <2>1, <2>2 DEF JobOK, JobStates, Moments, NoTime
    <2>. QED  BY <2>1, <2>2, DeferredJob
  <1>. QED  BY <1>1 DEF Sound, Deferred, JobOK

-----------------------------------------------------------------------------
(* Sections and runners.                                                   *)

\* What is left in the chain when its first section runs and its caller asks for
\* more.
LEMMA SectionChain ==
  ASSUME TypeInv, NEW kind, NEW more \in Seq(Ops), Section(kind, more),
         \A i \in DOMAIN more : CallOK(more[i])
  PROVE  /\ chain' \in Seq(Ops) /\ Calls'
         /\ up /\ Head(chain) = chain[1] /\ 1 \in DOMAIN chain
         /\ Head(chain).kind = kind /\ CallOK(Head(chain))
         /\ \A i \in DOMAIN chain' :
              \/ i + 1 \in DOMAIN chain /\ i < Len(chain) /\ chain'[i] = chain[i + 1]
              \/ /\ i - Len(chain) + 1 \in DOMAIN more
                 /\ chain'[i] = more[i - Len(chain) + 1]
  <1>1. chain \in Seq(Ops) /\ chain # <<>> /\ chain' = Tail(chain) \o more
        /\ Head(chain).kind = kind /\ up
    BY DEF TypeInv, TypeOK, Section
  <1>2. Len(chain) \in Nat \ {0} /\ DOMAIN chain = 1..Len(chain)
    BY <1>1, EmptySeq, LenProperties
  <1>3. Tail(chain) \in Seq(Ops) /\ Len(Tail(chain)) = Len(chain) - 1
        /\ \A i \in 1..Len(chain) - 1 : Tail(chain)[i] = chain[i + 1]
    BY <1>1, HeadTailProperties
  <1>4. Head(chain) = chain[1] /\ 1 \in DOMAIN chain
    BY <1>1, <1>2
  <1>5. Len(more) \in Nat /\ DOMAIN more = 1..Len(more)
    BY LenProperties
  <1>6. chain' \in Seq(Ops) /\ Len(chain') = Len(chain) - 1 + Len(more)
        /\ \A i \in 1..Len(chain') :
             chain'[i] = IF i <= Len(chain) - 1 THEN Tail(chain)[i]
                         ELSE more[i - (Len(chain) - 1)]
    BY <1>1, <1>3, ConcatProperties
  <1>7. DOMAIN chain' = 1..Len(chain')
    BY <1>6, LenProperties
  <1>8. ASSUME NEW i \in DOMAIN chain'
        PROVE  \/ i + 1 \in DOMAIN chain /\ i < Len(chain) /\ chain'[i] = chain[i + 1]
               \/ /\ i - Len(chain) + 1 \in DOMAIN more
                  /\ chain'[i] = more[i - Len(chain) + 1]
    <2>0. i \in Int /\ 1 <= i /\ i <= Len(chain) - 1 + Len(more)
      BY <1>2, <1>5, <1>6, <1>7
    <2>1. CASE i <= Len(chain) - 1
      <3>1. chain'[i] = chain[i + 1]
        BY <1>2, <1>3, <1>6, <1>7, <2>0, <2>1
      <3>. QED  BY <1>2, <2>0, <2>1, <3>1
    <2>2. CASE ~(i <= Len(chain) - 1)
      <3>1. i - (Len(chain) - 1) = i - Len(chain) + 1
        BY <1>2, <2>0
      <3>2. chain'[i] = more[i - Len(chain) + 1]
        BY <1>6, <1>7, <2>2, <3>1
      <3>. QED  BY <1>2, <1>5, <2>0, <2>2, <3>2
    <2>. QED  BY <2>1, <2>2
  <1>9. Calls'
    BY <1>8 DEF TypeInv, Calls
  <1>. QED  BY <1>1, <1>4, <1>6, <1>8, <1>9 DEF TypeInv, Calls

\* A request goes to the end of the chain.
LEMMA AppendedChain ==
  ASSUME TypeInv, NEW o, CallOK(o), chain' = Append(chain, o)
  PROVE  /\ chain' \in Seq(Ops) /\ Calls'
         /\ \A i \in DOMAIN chain' :
              \/ i \in DOMAIN chain /\ chain'[i] = chain[i]
              \/ i = Len(chain) + 1 /\ i \notin DOMAIN chain /\ chain'[i] = o
  <1>1. chain \in Seq(Ops) /\ o \in Ops
    BY DEF TypeInv, TypeOK, CallOK
  <1>2. chain' \in Seq(Ops) /\ Len(chain') = Len(chain) + 1
        /\ \A i \in 1..Len(chain) : chain'[i] = chain[i]
        /\ chain'[Len(chain) + 1] = o
    BY <1>1, AppendProperties
  <1>3. DOMAIN chain = 1..Len(chain) /\ DOMAIN chain' = 1..Len(chain') /\ Len(chain) \in Nat
    BY <1>1, <1>2, LenProperties
  <1>4. \A i \in DOMAIN chain' :
              \/ i \in DOMAIN chain /\ chain'[i] = chain[i]
              \/ i = Len(chain) + 1 /\ i \notin DOMAIN chain /\ chain'[i] = o
    BY <1>2, <1>3
  <1>. QED  BY <1>2, <1>4 DEF TypeInv, Calls

\* A runner takes the next of its jobs, or waits for the lock.
LEMMA StartedNext ==
  ASSUME now \in Nat, NEW w \in RunnerStates
  PROVE  /\ StartNext(w) \in RunnerStates
         /\ StartNext(w).started \in {w.started, now}
         /\ StartNext(w).results = w.results
         /\ StartNext(w).deferred = w.deferred
         /\ StartNext(w).at = (IF w.todo = <<>> THEN "locked" ELSE "running")
         /\ StartNext(w).at = "running" => StartNext(w).job \in Jobs
         /\ QuietWork(StartNext(w))
         /\ ({StartNext(w).job} \ {NoJob}) \cup ToSet(StartNext(w).todo) \subseteq ToSet(w.todo)
  <1>1. w.todo \in Seq(Jobs)
    BY DEF RunnerStates
  <1>2. CASE w.todo = <<>>
    <2>1. StartNext(w) = [w EXCEPT !.at = "locked", !.job = NoJob]
      BY <1>2 DEF StartNext
    <2>. QED  BY <1>2, <2>1 DEF RunnerStates, QuietWork
  <1>3. CASE w.todo # <<>>
    <2>1. StartNext(w) = [w EXCEPT !.at = "running", !.job = Head(w.todo),
                                   !.todo = Tail(w.todo), !.started = now]
      BY <1>3 DEF StartNext
    <2>2. Head(w.todo) \in Jobs /\ Tail(w.todo) \in Seq(Jobs)
          /\ Head(w.todo) \in ToSet(w.todo) /\ ToSet(Tail(w.todo)) \subseteq ToSet(w.todo)
      <3>1. Len(w.todo) \in Nat \ {0} /\ DOMAIN w.todo = 1..Len(w.todo)
        BY <1>1, <1>3, EmptySeq, LenProperties
      <3>2. Head(w.todo) = w.todo[1] /\ Head(w.todo) \in Jobs
        BY <1>1, <1>3, <3>1, HeadTailProperties
      <3>3. Tail(w.todo) \in Seq(Jobs) /\ Len(Tail(w.todo)) = Len(w.todo) - 1
            /\ \A i \in 1..Len(w.todo) - 1 : Tail(w.todo)[i] = w.todo[i + 1]
        BY <1>1, <1>3, HeadTailProperties
      <3>4. DOMAIN Tail(w.todo) = 1..Len(w.todo) - 1
        BY <3>3, LenProperties
      <3>5. ToSet(Tail(w.todo)) \subseteq ToSet(w.todo)
        BY <3>1, <3>3, <3>4 DEF ToSet
      <3>. QED  BY <3>1, <3>2, <3>3, <3>5 DEF ToSet
    <2>3. now \in Moments
      BY DEF Moments
    <2>4. /\ StartNext(w).at = "running" /\ StartNext(w).job = Head(w.todo)
          /\ StartNext(w).todo = Tail(w.todo) /\ StartNext(w).started = now
          /\ StartNext(w).results = w.results /\ StartNext(w).deferred = w.deferred
          /\ StartNext(w) \in RunnerStates
      BY <2>1, <2>2, <2>3 DEF RunnerStates
    <2>. QED  BY <1>3, <2>2, <2>4 DEF QuietWork
  <1>. QED  BY <1>2, <1>3

\* Every section records what it leaves out of service.
LEMMA SectionsTrack == SomeSection => Track
  BY DEF SomeSection, ClearStaleMarkers, planStartupCatchup, applyStartupCatchupOutcomes,
         StartEnds, MarkDueJobs, ApplyTickOutcomes, PreflightRun, ReserveRun, FinishRun,
         add, enable, disable, remove, ensureLoadedForRead, UserSection

-----------------------------------------------------------------------------
(* The store.                                                              *)

LEMMA InitJobs == Init => JobsInv
  <1> SUFFICES ASSUME Init PROVE JobsInv
    OBVIOUS
  <1>1. CronSlotAfter(0) \in Nat /\ now = 0
    BY CronSlotLater DEF Init
  <1>2. ASSUME NEW j \in Jobs
        PROVE  JobOK(j, jobs[j], now)
    <2>1. CASE j \in InitialJobs
      <3>1. PICK t \in Nat : jobs[j] = Fresh(j, t)
        BY <1>1, <2>1, JobsAssumption DEF Init
      <3>. QED  BY <1>1, <3>1 DEF Fresh, JobOK, JobStates, Moments, NoTime
    <2>2. CASE j \notin InitialJobs
      <3>1. jobs[j] = Absent
        BY <2>2 DEF Init
      <3>. QED  BY <1>1, <3>1 DEF Absent, JobOK, JobStates, Moments, NoTime
    <2>. QED  BY <2>1, <2>2
  <1>3. Sound(jobs)
    <2>1. jobs = [j \in Jobs |-> jobs[j]]
      BY DEF Init
    <2>2. \A j \in Jobs : jobs[j] \in JobStates
      BY <1>2 DEF JobOK
    <2>. QED  BY <1>2, <2>1, <2>2 DEF Sound
  <1>4. Timed
    BY <1>1 DEF Init, Timed, Idle, NoTime
  <1>. QED  BY <1>3, <1>4 DEF JobsInv

\* The store that a section writes is as it should be.
LEMMA StoreStep ==
  ASSUME TypeInv, JobsInv, Next
  PROVE  Sound(jobs)'
  <1>0. now \in Nat /\ Sound(jobs) /\ jobs \in [Jobs -> JobStates]
    BY DEF TypeInv, TypeOK, JobsInv, Sound
  <1> USE <1>0
  <1>1. SUFFICES ASSUME UNCHANGED now
                 PROVE  \E js : Sound(js) /\ jobs' = js
    <2>1. CASE Pass
      BY <2>1 DEF Pass, Sound, JobOK, Moments, NoTime, JobStates
    <2>2. CASE ~Pass
      <3>1. UNCHANGED now
        BY <2>2 DEF Next, SomeSection, ClearStaleMarkers, planStartupCatchup,
             applyStartupCatchupOutcomes, StartEnds, MarkDueJobs, ApplyTickOutcomes,
             PreflightRun, ReserveRun, FinishRun, add, enable, disable, remove,
             ensureLoadedForRead, UserSection, TimerFires, TickEnds, RunEnds, RequestRun,
             RequestOp, Crash, Restart
      <3>. QED  BY <1>1, <3>1 DEF Sound
    <2>. QED  BY <2>1, <2>2
  <1>2. \A r \in Runners : /\ runner[r].results \in SUBSET Results
                           /\ Sound(applyOutcomes(jobs, runner[r].results))
    <2>1. \A r \in Runners : runner[r].results \in SUBSET Results
      BY DEF TypeInv, TypeOK, RunnerStates
    <2>. QED  BY <2>1, Applied DEF JobsInv, Timed
  <1>3. "boot" \in Runners /\ "tick" \in Runners /\ Manuals \subseteq Runners
    BY DEF Runners
  <1>4. CASE ClearStaleMarkers
    BY <1>4 DEF ClearStaleMarkers, Sound, JobOK, JobStates, Served
  <1>5. CASE planStartupCatchup
    BY <1>5, MarkedStore DEF planStartupCatchup
  <1>6. CASE applyStartupCatchupOutcomes
    BY <1>2, <1>3, <1>6, DeferredStore, Maintained
       DEF applyStartupCatchupOutcomes, Store, TypeInv
  <1>7. CASE StartEnds
    BY <1>7, Recomputed DEF StartEnds, Store
  <1>8. CASE MarkDueJobs
    BY <1>8, Maintained, MarkedStore DEF MarkDueJobs, Store
  <1>9. CASE ApplyTickOutcomes
    BY <1>2, <1>3, <1>9, Maintained DEF ApplyTickOutcomes, Store
  <1>10. ASSUME NEW m \in Manuals, PreflightRun(m) \/ ReserveRun(m) \/ FinishRun(m)
         PROVE  \E js : Sound(js) /\ jobs' = js
    <2>1. CASE PreflightRun(m)
      BY <2>1, Maintained DEF PreflightRun, Store
    <2>2. CASE ReserveRun(m)
      BY <2>2, MarkedStore DEF ReserveRun, Store
    <2>3. CASE FinishRun(m)
      BY <1>2, <1>3, <2>3, Maintained DEF FinishRun, Store
    <2>. QED  BY <1>10, <2>1, <2>2, <2>3
  <1>11. CASE chain # <<>> /\ (add \/ enable \/ disable \/ remove \/ ensureLoadedForRead)
    <2> DEFINE j == Asked
    <2>1. CASE add
      <3> DEFINE s == Fresh(j, NoTime)
                 t == [s EXCEPT !.next = computeJobNextRunAtMs(j, s, now)]
                 js == IF jobs[j].present THEN jobs ELSE [jobs EXCEPT ![j] = t]
      <3>1. s \in JobStates /\ s.lastRun <= now /\ s.enabled
        BY DEF Fresh, JobStates, Moments, NoTime
      <3> HIDE DEF s
      <3>2. j \in Jobs => JobOK(j, t, now)
        BY <3>1, RescheduledOK
      <3> HIDE DEF t
      <3>3. Sound(js)
        BY <3>2 DEF Sound, JobOK
      <3>4. jobs' = recomputeNextRuns(js)
        BY <2>1 DEF add, UserSection, Store, js, t, s
      <3>. QED  BY <3>3, <3>4, Recomputed
    <2>2. CASE enable
      <3> DEFINE s == [jobs[j] EXCEPT !.enabled = TRUE]
                 t == [s EXCEPT !.next = computeJobNextRunAtMs(j, s, now)]
                 js == IF ~jobs[j].present THEN jobs ELSE [jobs EXCEPT ![j] = t]
      <3>1. j \in Jobs => s \in JobStates /\ s.lastRun <= now /\ s.enabled
        BY DEF Sound, JobOK, JobStates
      <3>2. jobs' = js
        BY <2>2 DEF enable, UserSection, Store
      <3> HIDE DEF s
      <3>3. j \in Jobs => JobOK(j, t, now)
        BY <3>1, RescheduledOK
      <3> HIDE DEF t
      <3>4. Sound(js)
        BY <3>3 DEF Sound, JobOK
      <3>. QED  BY <3>2, <3>4
    <2>3. CASE disable
      <3> DEFINE t == [jobs[j] EXCEPT !.enabled = FALSE, !.next = NoTime, !.running = FALSE]
      <3>1. jobs' = jobs \/ jobs' = [jobs EXCEPT ![j] = t]
        BY <2>3 DEF disable, UserSection, Store
      <3>2. j \in Jobs => JobOK(j, t, now)
        BY DEF Sound, JobOK, JobStates, Moments
      <3> HIDE DEF t
      <3>3. Sound([jobs EXCEPT ![j] = t])
        BY <3>2 DEF Sound, JobOK
      <3>. QED  BY <3>1, <3>3
    <2>4. CASE remove
      <3>1. JobOK(j, Absent, now)
        BY DEF Absent, JobOK, JobStates, Moments, NoTime
      <3>2. jobs' = [jobs EXCEPT ![j] = Absent]
        BY <2>4 DEF remove, UserSection, Store
      <3>. QED  BY <3>1, <3>2 DEF Sound, JobOK
    <2>5. CASE ensureLoadedForRead
      BY <2>5, Maintained DEF ensureLoadedForRead, UserSection, Store
    <2>. QED  BY <1>11, <2>1, <2>2, <2>3, <2>4, <2>5
  <1>12. CASE UNCHANGED jobs
    BY <1>12
  <1>13. TimerFires \/ TickEnds \/ Crash \/ Restart \/ Pass
         \/ (\E r \in Runners, status \in {"ok", "error"} : RunEnds(r, status))
         \/ (\E m \in Manuals, j \in Jobs, mode \in {"due", "force"} : RequestRun(m, j, mode))
         \/ (\E kind \in UserOps, j \in Jobs : RequestOp(kind, j))
         => UNCHANGED jobs
    BY DEF TimerFires, TickEnds, Crash, Restart, Pass, RunEnds, RequestRun, RequestOp
  <1>. QED  BY <1>4, <1>5, <1>6, <1>7, <1>8, <1>9, <1>10, <1>11, <1>12, <1>13
            DEF Next, SomeSection

-----------------------------------------------------------------------------
(* Types.                                                                  *)

\* A section's caller asks for nothing more, or for one more section.
LEMMA SectionKeepsCalls ==
  ASSUME TypeInv, NEW kind, NEW more, Section(kind, more),
         more = <<>> \/ \E o : CallOK(o) /\ more = <<o>>
  PROVE  chain' \in Seq(Ops) /\ Calls'
  <1>1. more \in Seq(Ops) /\ \A i \in DOMAIN more : CallOK(more[i])
    <2>1. CASE more = <<>>
      BY <2>1
    <2>2. ASSUME NEW o, CallOK(o), more = <<o>>
          PROVE  more \in Seq(Ops) /\ \A i \in DOMAIN more : CallOK(more[i])
      <3>1. o \in Ops
        BY <2>2 DEF CallOK
      <3>2. more \in Seq(Ops) /\ DOMAIN more = 1..1 /\ more[1] = o
        BY <2>2, <3>1
      <3>. QED  BY <2>2, <3>2
    <2>. QED  BY <2>1, <2>2
  <1>. QED  BY <1>1, SectionChain

\* The runners may ask for their sections.
LEMMA CallsOK ==
  /\ CallOK(Op("plan", "boot", NoJob)) /\ CallOK(Op("final", "boot", NoJob))
  /\ CallOK(Op("mark", "tick", NoJob)) /\ CallOK(Op("clear", "boot", NoJob))
  /\ CallOK(Apply("boot")) /\ CallOK(Apply("tick"))
  /\ \A m \in Manuals : runner[m].job \in Jobs => CallOK(Apply(m))
  /\ \A m \in Manuals, j \in Jobs :
       CallOK(Op("preflight", m, j)) /\ CallOK(Op("reserve", m, j))
  /\ \A kind \in UserOps, j \in Jobs : CallOK(Op(kind, "user", j))
  BY ManualsAssumption DEF CallOK, Op, Ops, Apply, Runners, UserOps

LEMMA ChainStep ==
  ASSUME TypeInv, [Next]_vars
  PROVE  chain' \in Seq(Ops) /\ Calls'
  <1>1. ASSUME NEW kind, NEW o, CallOK(o), Section(kind, <<o>>)
        PROVE  chain' \in Seq(Ops) /\ Calls'
    BY <1>1, SectionKeepsCalls
  <1>2. ASSUME NEW kind, Section(kind, <<>>)
        PROVE  chain' \in Seq(Ops) /\ Calls'
    BY <1>2, SectionKeepsCalls
  <1>3. CASE ClearStaleMarkers
    BY <1>1, <1>3, CallsOK DEF ClearStaleMarkers
  <1>4. CASE planStartupCatchup
    BY <1>1, <1>2, <1>4, CallsOK DEF planStartupCatchup
  <1>5. CASE applyStartupCatchupOutcomes
    BY <1>1, <1>5, CallsOK DEF applyStartupCatchupOutcomes
  <1>6. CASE StartEnds \/ MarkDueJobs \/ ApplyTickOutcomes
    BY <1>2, <1>6 DEF StartEnds, MarkDueJobs, ApplyTickOutcomes
  <1>7. ASSUME NEW m \in Manuals, PreflightRun(m) \/ ReserveRun(m) \/ FinishRun(m)
        PROVE  chain' \in Seq(Ops) /\ Calls'
    <2>1. CASE PreflightRun(m)
      <3>1. Head(chain).kind = "preflight" /\ chain # <<>>
        BY <2>1 DEF PreflightRun, Section
      <3>2. CallOK(Head(chain))
        <4>1. chain \in Seq(Ops)
          BY DEF TypeInv, TypeOK
        <4>2. 1 \in DOMAIN chain /\ Head(chain) = chain[1]
          BY <3>1, <4>1, EmptySeq, LenProperties
        <4>. QED  BY <4>2 DEF TypeInv, Calls
      <3>3. CallOK(Op("reserve", m, Head(chain).job))
        BY <3>1, <3>2, CallsOK DEF CallOK
      <3>. QED  BY <1>1, <1>2, <2>1, <3>3 DEF PreflightRun
    <2>2. CASE ReserveRun(m) \/ FinishRun(m)
      BY <1>2, <2>2 DEF ReserveRun, FinishRun
    <2>. QED  BY <1>7, <2>1, <2>2
  <1>8. CASE add \/ enable \/ disable \/ remove \/ ensureLoadedForRead
    BY <1>2, <1>8 DEF add, enable, disable, remove, ensureLoadedForRead, UserSection
  <1>9. CASE TimerFires
    BY <1>9, CallsOK, AppendedChain DEF TimerFires
  <1>10. ASSUME NEW r \in Runners, NEW status \in {"ok", "error"}, RunEnds(r, status)
         PROVE  chain' \in Seq(Ops) /\ Calls'
    <2>1. runner[r].at = "running"
      BY <1>10 DEF RunEnds
    <2>2. CallOK(Apply(r))
      BY <2>1, CallsOK DEF TypeInv, RunsAJob, Runners
    <2>3. chain' = Append(chain, Apply(r)) \/ chain' = chain
      BY <1>10 DEF RunEnds
    <2>. QED  BY <2>2, <2>3, AppendedChain DEF TypeInv, TypeOK, Calls
  <1>11. ASSUME NEW m \in Manuals, NEW j \in Jobs, NEW mode, RequestRun(m, j, mode)
         PROVE  chain' \in Seq(Ops) /\ Calls'
    BY <1>11, CallsOK, AppendedChain DEF RequestRun
  <1>12. ASSUME NEW kind \in UserOps, NEW j \in Jobs, RequestOp(kind, j)
         PROVE  chain' \in Seq(Ops) /\ Calls'
    BY <1>12, CallsOK, AppendedChain DEF RequestOp
  <1>13. CASE Crash
    BY <1>13 DEF Crash, Calls
  <1>14. CASE Restart
    <2>1. Op("clear", "boot", NoJob) \in Ops
      BY CallsOK DEF CallOK
    <2>2. chain' \in Seq(Ops) /\ DOMAIN chain' = 1..1 /\ chain'[1] = Op("clear", "boot", NoJob)
      BY <1>14, <2>1 DEF Restart
    <2>. QED  BY <2>2, CallsOK DEF Calls
  <1>15. CASE TickEnds \/ Pass \/ UNCHANGED vars
    BY <1>15 DEF TickEnds, Pass, vars, ctlVars, TypeInv, TypeOK, Calls
  <1>. QED  BY <1>3, <1>4, <1>5, <1>6, <1>7, <1>8, <1>9, <1>10, <1>11, <1>12, <1>13, <1>14,
               <1>15 DEF Next, SomeSection

\* A start marks the first of the missed jobs and takes them on.
LEMMA PlannedRuns ==
  ASSUME TypeInv, planStartupCatchup
  PROVE  \E w \in RunnerStates, missed \in Seq(Jobs) :
           /\ ToSet(w.todo) \subseteq {j \in Jobs : Missed(j)}
           /\ w.started = runner["boot"].started /\ w.results = runner["boot"].results
           /\ Section("plan", IF missed = <<>> THEN <<Op("final", "boot", NoJob)>>
                              ELSE IF w.todo = <<>> THEN <<Apply("boot")>> ELSE <<>>)
           /\ jobs' = MarkRunning(jobs, ToSet(w.todo))
           /\ runner' = [runner EXCEPT !["boot"] = IF missed = <<>> THEN @ ELSE StartNext(w)]
  <1> DEFINE M == {j \in Jobs : Missed(j)}
  <1>1. PICK missed \in BySlot(M) :
          LET n == IF Len(missed) < MaxMissed THEN Len(missed) ELSE MaxMissed
              first == SubSeq(missed, 1, n)
              w == [runner["boot"] EXCEPT
                      !.todo = first,
                      !.deferred = SubSeq(missed, Len(first) + 1, Len(missed))]
          IN /\ Section("plan", IF missed = <<>> THEN <<Op("final", "boot", NoJob)>>
                                ELSE IF first = <<>> THEN <<Apply("boot")>> ELSE <<>>)
             /\ jobs' = MarkRunning(jobs, ToSet(first))
             /\ runner' = [runner EXCEPT !["boot"] = IF missed = <<>> THEN @ ELSE StartNext(w)]
    BY DEF planStartupCatchup
  <1> DEFINE n == IF Len(missed) < MaxMissed THEN Len(missed) ELSE MaxMissed
             first == SubSeq(missed, 1, n)
             rest == SubSeq(missed, Len(first) + 1, Len(missed))
             w == [runner["boot"] EXCEPT !.todo = first, !.deferred = rest]
  <1>2. missed \in Seq(Jobs) /\ ToSet(missed) \subseteq M
    BY <1>1, ListOfJobs DEF BySlot
  <1>3. Len(missed) \in Nat /\ DOMAIN missed = 1..Len(missed)
        /\ \A i \in 1..Len(missed) : missed[i] \in Jobs
    BY <1>2, LenProperties, ElementOfSeq
  <1>4. n \in Nat /\ n <= Len(missed)
    BY <1>3, BoundsAssumption
  <1>5. first \in Seq(Jobs) /\ ToSet(first) \subseteq ToSet(missed)
    <2> HIDE DEF n
    <2>1. first \in Seq(Jobs) /\ Len(first) = n /\ \A i \in 1..n : first[i] = missed[i]
      BY <1>3, <1>4, SubSeqProperties
    <2>2. DOMAIN first = 1..n
      BY <2>1, LenProperties
    <2> HIDE DEF first
    <2>. QED  BY <1>3, <1>4, <2>1, <2>2 DEF ToSet
  <1>6. rest \in Seq(Jobs)
    <2>1. Len(first) \in Nat
      BY <1>5, LenProperties
    <2> HIDE DEF first
    <2>. QED  BY <1>3, <2>1, SubSeqProperties
  <1>7. runner["boot"] \in RunnerStates
    BY DEF TypeInv, TypeOK, Runners
  <1>8. /\ w.todo = first /\ w \in RunnerStates
        /\ w.started = runner["boot"].started /\ w.results = runner["boot"].results
    <2> HIDE DEF first, rest
    <2>. QED  BY <1>5, <1>6, <1>7 DEF RunnerStates
  <1>9. /\ Section("plan", IF missed = <<>> THEN <<Op("final", "boot", NoJob)>>
                           ELSE IF first = <<>> THEN <<Apply("boot")>> ELSE <<>>)
        /\ jobs' = MarkRunning(jobs, ToSet(first))
        /\ runner' = [runner EXCEPT !["boot"] = IF missed = <<>> THEN @ ELSE StartNext(w)]
    BY <1>1
  <1> HIDE DEF w, first, M
  <1>10. ToSet(w.todo) \subseteq M
    BY <1>2, <1>5, <1>8
  <1>. QED  BY <1>2, <1>8, <1>9, <1>10 DEF M

\* What a runner does, and has done by the time t.
WorkOK(w, t) ==
  /\ w \in RunnerStates
  /\ w.at = "running" => w.job \in Jobs
  /\ w.started <= t
  /\ \A res \in w.results : res.started <= res.ended /\ res.ended <= t

LEMMA IdleOK == \A t \in Nat : WorkOK(Idle, t)
  BY EmptySeq DEF WorkOK, Idle, RunnerStates, Moments, NoTime

LEMMA RunnerStep ==
  ASSUME TypeInv, JobsInv, [Next]_vars
  PROVE  runner' \in [Runners -> RunnerStates] /\ RunsAJob' /\ Timed'
  <1>0. /\ now \in Nat /\ runner \in [Runners -> RunnerStates]
        /\ \A r \in Runners : WorkOK(runner[r], now)
        /\ "boot" \in Runners /\ "tick" \in Runners /\ Manuals \subseteq Runners
    BY DEF TypeInv, TypeOK, JobsInv, Timed, RunsAJob, WorkOK, Runners
  <1>1. SUFFICES \/ UNCHANGED runner /\ now' \in {now, now + 1}
                 \/ /\ now' = now
                    /\ \E r \in Runners : \E w :
                         WorkOK(w, now) /\ runner' = [runner EXCEPT ![r] = w]
                 \/ now' = now /\ runner' = [r \in Runners |-> Idle]
    <2>1. CASE UNCHANGED runner /\ now' \in {now, now + 1}
      <3>1. \A r \in Runners : WorkOK(runner'[r], now')
        BY <1>0, <2>1 DEF WorkOK, RunnerStates, Results, Moments, NoTime
      <3>. QED  BY <1>0, <2>1, <3>1 DEF RunsAJob, Timed, WorkOK
    <2>2. CASE /\ now' = now
               /\ \E r \in Runners : \E w :
                    WorkOK(w, now) /\ runner' = [runner EXCEPT ![r] = w]
      <3>1. \A r \in Runners : WorkOK(runner'[r], now')
        BY <1>0, <2>2
      <3>2. runner' \in [Runners -> RunnerStates]
        BY <1>0, <2>2 DEF WorkOK
      <3>. QED  BY <3>1, <3>2 DEF RunsAJob, Timed, WorkOK
    <2>3. CASE now' = now /\ runner' = [r \in Runners |-> Idle]
      BY <1>0, <2>3, IdleOK DEF RunsAJob, Timed, WorkOK
    <2>. QED  BY <1>1, <2>1, <2>2, <2>3
  <1>2. ASSUME NEW w \in RunnerStates, w.started <= now,
               \A res \in w.results : res.started <= res.ended /\ res.ended <= now
        PROVE  WorkOK(StartNext(w), now)
    BY <1>0, <1>2, StartedNext DEF WorkOK
  <1>3. CASE UNCHANGED <<runner, now>>
    BY <1>3
  <1>4. CASE planStartupCatchup
    <2>1. PICK w \in RunnerStates, missed \in Seq(Jobs) :
            /\ w.started = runner["boot"].started /\ w.results = runner["boot"].results
            /\ runner' = [runner EXCEPT !["boot"] = IF missed = <<>> THEN @ ELSE StartNext(w)]
      BY <1>4, PlannedRuns
    <2>2. WorkOK(StartNext(w), now) /\ now' = now
      BY <1>0, <1>2, <1>4, <2>1 DEF WorkOK, planStartupCatchup
    <2>. QED  BY <1>0, <2>1, <2>2
  <1>5. CASE applyStartupCatchupOutcomes
    <2> DEFINE w == [runner["boot"] EXCEPT !.deferred = <<>>, !.results = {}]
    <2>1. WorkOK(w, now)
      BY <1>0, EmptySeq DEF WorkOK, RunnerStates
    <2>2. runner' = [runner EXCEPT !["boot"] = w] /\ now' = now
      BY <1>0, <1>5 DEF applyStartupCatchupOutcomes
    <2>. QED  BY <1>0, <2>1, <2>2
  <1>6. CASE StartEnds \/ TickEnds
    BY <1>0, <1>6, IdleOK DEF StartEnds, TickEnds
  <1>7. CASE MarkDueJobs
    <2>1. PICK due \in InStoreOrder({j \in Jobs : Runnable(j)}) :
            \/ runner' = [runner EXCEPT !["tick"].at = "ending"]
            \/ runner' = [runner EXCEPT !["tick"] = StartNext([@ EXCEPT !.todo = due])]
      BY <1>7 DEF MarkDueJobs
    <2>2. due \in Seq(Jobs) /\ now' = now
      BY <1>7, <2>1, ListOfJobs DEF InStoreOrder, MarkDueJobs
    <2> DEFINE w == [runner["tick"] EXCEPT !.todo = due]
               v == [runner["tick"] EXCEPT !.at = "ending"]
    <2>3. WorkOK(StartNext(w), now)
      <3>1. w \in RunnerStates /\ w.started = runner["tick"].started
            /\ w.results = runner["tick"].results
        BY <1>0, <2>2 DEF RunnerStates
      <3>. QED  BY <1>0, <1>2, <3>1 DEF WorkOK
    <2>4. WorkOK(v, now)
      BY <1>0 DEF WorkOK, RunnerStates
    <2>. QED  BY <1>0, <2>1, <2>2, <2>3, <2>4
  <1>8. ASSUME NEW r \in Runners, NEW status \in {"ok", "error"}, RunEnds(r, status)
        PROVE  now' = now /\ \E w : WorkOK(w, now) /\ runner' = [runner EXCEPT ![r] = w]
    <2> DEFINE res == [job |-> runner[r].job, status |-> status,
                       started |-> runner[r].started, ended |-> now]
               w == [runner[r] EXCEPT !.results = @ \cup {res}]
    <2>1. runner' = [runner EXCEPT ![r] = StartNext(w)] /\ now' = now /\ runner[r].at = "running"
      BY <1>8 DEF RunEnds
    <2>2. res \in Results /\ res.started <= res.ended /\ res.ended <= now
      BY <1>0, <2>1 DEF Results, RunnerStates, WorkOK, Moments, NoTime
    <2> HIDE DEF res
    <2>3. w \in RunnerStates /\ w.started = runner[r].started
          /\ w.results = runner[r].results \cup {res}
      BY <1>0, <2>2 DEF RunnerStates
    <2>4. WorkOK(StartNext(w), now)
      BY <1>0, <1>2, <2>2, <2>3 DEF WorkOK
    <2>. QED  BY <2>1, <2>4
  <1>9. CASE ApplyTickOutcomes
    <2> DEFINE w == [runner["tick"] EXCEPT !.at = "ending", !.results = {}]
    <2>1. WorkOK(w, now)
      BY <1>0 DEF WorkOK, RunnerStates
    <2>2. runner' = [runner EXCEPT !["tick"] = w] /\ now' = now
      BY <1>0, <1>9 DEF ApplyTickOutcomes
    <2>. QED  BY <1>0, <2>1, <2>2
  <1>10. ASSUME NEW m \in Manuals, NEW j \in Jobs, NEW mode \in {"due", "force"},
                RequestRun(m, j, mode)
         PROVE  now' = now /\ \E w : WorkOK(w, now) /\ runner' = [runner EXCEPT ![m] = w]
    <2> DEFINE w == [runner[m] EXCEPT !.at = "locked", !.mode = mode]
    <2>1. WorkOK(w, now)
      BY <1>0 DEF WorkOK, RunnerStates
    <2>2. runner' = [runner EXCEPT ![m] = w] /\ now' = now
      BY <1>0, <1>10 DEF RequestRun
    <2>. QED  BY <2>1, <2>2
  <1>11. ASSUME NEW m \in Manuals, PreflightRun(m)
         PROVE  now' = now /\ \E w : WorkOK(w, now) /\ runner' = [runner EXCEPT ![m] = w]
    <2> DEFINE w == [runner[m] EXCEPT !.started = now]
    <2>1. WorkOK(w, now)
      <3>1. WorkOK(runner[m], now) /\ now \in Moments /\ now <= now
        BY <1>0 DEF Moments
      <3>2. w \in RunnerStates /\ w.at = runner[m].at /\ w.job = runner[m].job
            /\ w.started = now /\ w.results = runner[m].results
        BY <3>1 DEF WorkOK, RunnerStates
      <3>. QED  BY <3>1, <3>2 DEF WorkOK
    <2>2. /\ now' = now
          /\ \/ runner' = [runner EXCEPT ![m] = w]
             \/ runner' = [runner EXCEPT ![m] = Idle]
      BY <1>0, <1>11 DEF PreflightRun
    <2>. QED  BY <1>0, <2>1, <2>2, IdleOK
  <1>12. ASSUME NEW m \in Manuals, ReserveRun(m)
         PROVE  now' = now /\ \E w : WorkOK(w, now) /\ runner' = [runner EXCEPT ![m] = w]
    <2> DEFINE j == Head(chain).job
               w == [runner[m] EXCEPT !.at = "running", !.job = j]
    <2>1. j \in Jobs
      <3>1. chain \in Seq(Ops) /\ chain # <<>> /\ Head(chain).kind = "reserve"
        BY <1>12 DEF ReserveRun, Section, TypeInv, TypeOK
      <3>2. 1 \in DOMAIN chain /\ Head(chain) = chain[1]
        BY <3>1, EmptySeq, LenProperties
      <3>. QED  BY <3>1, <3>2 DEF TypeInv, Calls, CallOK
    <2> HIDE DEF j
    <2>2. WorkOK(w, now)
      BY <1>0, <2>1 DEF WorkOK, RunnerStates
    <2>3. /\ now' = now
          /\ \/ runner' = [runner EXCEPT ![m] = w]
             \/ runner' = [runner EXCEPT ![m] = Idle]
      BY <1>0, <1>12 DEF ReserveRun, j
    <2>. QED  BY <1>0, <2>2, <2>3, IdleOK
  <1>13. ASSUME NEW m \in Manuals, FinishRun(m)
         PROVE  now' = now /\ runner' = [runner EXCEPT ![m] = Idle]
    BY <1>13 DEF FinishRun
  <1>14. CASE TimerFires
    <2> DEFINE w == [runner["tick"] EXCEPT !.at = "locked"]
    <2>1. WorkOK(w, now)
      BY <1>0 DEF WorkOK, RunnerStates
    <2>2. runner' = [runner EXCEPT !["tick"] = w] /\ now' = now
      BY <1>0, <1>14 DEF TimerFires
    <2>. QED  BY <1>0, <2>1, <2>2
  <1>15. CASE Restart
    <2> DEFINE w == [runner["boot"] EXCEPT !.at = "locked"]
    <2>1. WorkOK(w, now)
      BY <1>0 DEF WorkOK, RunnerStates
    <2>2. runner' = [runner EXCEPT !["boot"] = w] /\ now' = now
      BY <1>0, <1>15 DEF Restart
    <2>. QED  BY <1>0, <2>1, <2>2
  <1>16. CASE Crash
    BY <1>16 DEF Crash
  <1>17. CASE Pass
    BY <1>17 DEF Pass, ctlVars
  <1>18. ClearStaleMarkers \/ add \/ enable \/ disable \/ remove \/ ensureLoadedForRead
         \/ (\E kind \in UserOps, j \in Jobs : RequestOp(kind, j)) \/ UNCHANGED vars
         => UNCHANGED <<runner, now>>
    BY DEF ClearStaleMarkers, add, enable, disable, remove, ensureLoadedForRead, UserSection,
           RequestOp, vars, ctlVars
  <1>. QED  BY <1>0, <1>3, <1>4, <1>5, <1>6, <1>7, <1>8, <1>9, <1>10, <1>11, <1>12, <1>13,
               <1>14, <1>15, <1>16, <1>17, <1>18, IdleOK DEF Next, SomeSection

\* The clock, the flags and the histories.
LEMMA OtherTypes ==
  ASSUME TypeOK, [Next]_vars
  PROVE  /\ now' \in Nat /\ timer' \in BOOLEAN /\ up' \in BOOLEAN
         /\ interrupted' \subseteq OneShots /\ outOfService' \subseteq Jobs
         /\ staggered' \subseteq OneShots /\ requests' \in Nat /\ crashes' \in Nat
  <1> USE DEF TypeOK
  <1>1. \A js : HasWake(js) \in BOOLEAN
    BY DEF HasWake
  <1>2. CASE ClearStaleMarkers
    BY <1>2 DEF ClearStaleMarkers, Section, boundVars, InterruptedOneShots, Track
  <1>3. CASE planStartupCatchup
    BY <1>3 DEF planStartupCatchup, boundVars, Track
  <1>4. CASE applyStartupCatchupOutcomes
    <2>1. UNCHANGED <<now, timer, up, interrupted, requests, crashes>>
      BY <1>4 DEF applyStartupCatchupOutcomes, Store, boundVars
    <2>2. outOfService' \subseteq Jobs
      BY <1>4 DEF applyStartupCatchupOutcomes, Track
    <2>3. staggered' \subseteq OneShots
      BY <1>4 DEF applyStartupCatchupOutcomes
    <2>. QED  BY <2>1, <2>2, <2>3
  <1>5. ASSUME NEW js, NEW arm \in BOOLEAN, Store(js, arm), Track,
               UNCHANGED <<now, interrupted, up, staggered, boundVars>>
        PROVE  /\ now' \in Nat /\ timer' \in BOOLEAN /\ up' \in BOOLEAN
               /\ interrupted' \subseteq OneShots /\ outOfService' \subseteq Jobs
               /\ staggered' \subseteq OneShots /\ requests' \in Nat /\ crashes' \in Nat
    <2>1. outOfService' \subseteq Jobs
      BY <1>5 DEF Track
    <2>2. timer' \in BOOLEAN
      BY <1>1, <1>5 DEF Store
    <2>. QED  BY <1>5, <2>1, <2>2 DEF boundVars
  <1>6. CASE StartEnds
    BY <1>5, <1>6 DEF StartEnds
  <1>7. CASE MarkDueJobs
    BY <1>5, <1>7 DEF MarkDueJobs
  <1>8. CASE ApplyTickOutcomes
    BY <1>5, <1>8 DEF ApplyTickOutcomes
  <1>9. CASE \E m \in Manuals : PreflightRun(m) \/ ReserveRun(m) \/ FinishRun(m)
    <2>1. Track
      BY <1>9 DEF PreflightRun, ReserveRun, FinishRun
    <2>2. outOfService' \subseteq Jobs
      BY <2>1 DEF Track
    <2>. QED  BY <1>5, <1>9, <2>1, <2>2 DEF PreflightRun, ReserveRun, FinishRun, boundVars
  <1>10. CASE add \/ remove \/ ensureLoadedForRead
    BY <1>5, <1>10 DEF add, remove, ensureLoadedForRead, UserSection
  <1>11. CASE enable \/ disable
    BY <1>1, <1>11 DEF enable, disable, UserSection, Store, Track, boundVars
  <1>12. CASE TimerFires \/ TickEnds \/ Restart
    BY <1>1, <1>12 DEF TimerFires, TickEnds, Restart, boundVars, history
  <1>13. CASE Crash \/ Pass
    <2>1. now' \in Nat /\ requests' \in Nat /\ crashes' \in Nat
      BY <1>13 DEF Crash, Pass, boundVars
    <2>2. timer' \in {timer, FALSE} /\ up' \in {up, FALSE} /\ interrupted' \in {interrupted, {}}
          /\ outOfService' \in {outOfService, {}} /\ staggered' = staggered
      BY <1>13 DEF Crash, Pass, history, ctlVars
    <2>. QED  BY <2>1, <2>2
  <1>14. CASE \/ \E r \in Runners, status \in {"ok", "error"} : RunEnds(r, status)
              \/ \E m \in Manuals, j \in Jobs, mode \in {"due", "force"} : RequestRun(m, j, mode)
              \/ \E kind \in UserOps, j \in Jobs : RequestOp(kind, j)
    <2>1. requests' \in {requests, requests + 1} /\ crashes' = crashes
      BY <1>14 DEF RunEnds, RequestRun, RequestOp, boundVars
    <2>2. UNCHANGED <<now, timer, up, interrupted, outOfService, staggered>>
      BY <1>14 DEF RunEnds, RequestRun, RequestOp, history
    <2>3. requests' \in Nat /\ crashes' \in Nat
      BY <2>1
    <2>. QED  BY <2>2, <2>3
  <1>15. CASE UNCHANGED vars
    BY <1>15 DEF vars, boundVars, history, ctlVars
  <1>. QED  BY <1>2, <1>3, <1>4, <1>6, <1>7, <1>8, <1>9, <1>10, <1>11, <1>12, <1>13, <1>14,
               <1>15 DEF Next, SomeSection

LEMMA InitType == Init => TypeInv
  <1> SUFFICES ASSUME Init PROVE TypeInv
    OBVIOUS
  <1>1. jobs \in [Jobs -> JobStates]
    BY InitJobs DEF JobsInv, Sound
  <1>2. Op("clear", "boot", NoJob) \in Ops
    BY CallsOK DEF CallOK
  <1>3. chain \in Seq(Ops) /\ DOMAIN chain = 1..1 /\ chain[1] = Op("clear", "boot", NoJob)
    BY <1>2 DEF Init
  <1>4. Calls
    BY <1>3, CallsOK DEF Calls
  <1>5. Idle \in RunnerStates
    BY IdleOK DEF WorkOK
  <1>6. [Idle EXCEPT !.at = "locked"] \in RunnerStates
        /\ [Idle EXCEPT !.at = "idle"] = Idle /\ Idle.at = "idle"
        /\ [Idle EXCEPT !.at = "locked"].at = "locked"
    BY <1>5 DEF RunnerStates, Idle
  <1>7. runner \in [Runners -> RunnerStates] /\ RunsAJob
    BY <1>5, <1>6 DEF Init, RunsAJob
  <1>. QED  BY <1>1, <1>3, <1>4, <1>7 DEF Init, TypeInv, TypeOK

LEMMA TypeStep == TypeInv /\ JobsInv /\ [Next]_vars => (TypeInv /\ JobsInv)'
  <1> SUFFICES ASSUME TypeInv, JobsInv, [Next]_vars
               PROVE  TypeInv' /\ JobsInv'
    OBVIOUS
  <1>1. Sound(jobs)'
    <2>1. CASE Next
      BY <2>1, StoreStep
    <2>2. CASE UNCHANGED vars
      BY <2>2 DEF JobsInv, Sound, vars, ctlVars
    <2>. QED  BY <2>1, <2>2
  <1>2. JobsInv'
    BY <1>1, RunnerStep DEF JobsInv
  <1>3. TypeInv'
    BY <1>1, ChainStep, RunnerStep, OtherTypes DEF TypeInv, TypeOK, Sound
  <1>. QED  BY <1>2, <1>3

\* Every variable keeps its type.
THEOREM TypeCorrect == Spec => []TypeOK
  <1>1. TypeInv => TypeOK
    BY DEF TypeInv
  <1>. QED  BY <1>1, InitType, InitJobs, TypeStep, PTL DEF Spec

-----------------------------------------------------------------------------
(* One section at a time for each runner.                                  *)

\* The section at the head of the chain: its caller waits for it alone.
LEMMA HeadOfChain ==
  ASSUME TypeInv, NEW kind, NEW more, Section(kind, more)
  PROVE  /\ 1 \in DOMAIN chain /\ Head(chain) = chain[1] /\ CallOK(Head(chain))
         /\ Head(chain).kind = kind
         /\ OneCall /\ Head(chain).who \in Runners => runner[Head(chain).who].at = "locked"
  <1>1. chain \in Seq(Ops) /\ chain # <<>> /\ Head(chain).kind = kind
    BY DEF TypeInv, TypeOK, Section
  <1>2. 1 \in DOMAIN chain /\ Head(chain) = chain[1]
    BY <1>1, EmptySeq, LenProperties
  <1>. QED  BY <1>1, <1>2 DEF TypeInv, Calls, OneCall

\* A section of one runner leaves the sections of the others alone.
LEMMA SectionOneCall ==
  ASSUME TypeInv, OneCall, NEW kind, NEW more, Section(kind, more),
         \/ more = <<>>
         \/ \E o : /\ more = <<o>> /\ CallOK(o) /\ o.who = Head(chain).who
                   /\ o.who \in Runners => runner'[o.who].at = "locked",
         \A q \in Runners \ {Head(chain).who} : runner'[q].at = runner[q].at
  PROVE  OneCall'
  <1> DEFINE r == Head(chain).who
  <1>1. 1 \in DOMAIN chain /\ chain[1].who = r
    BY HeadOfChain
  <1>2. Len(chain) \in Nat /\ DOMAIN chain = 1..Len(chain)
    BY LenProperties DEF TypeInv, TypeOK
  <1>3. CASE more = <<>>
    <2>1. \A i \in DOMAIN chain' : i + 1 \in DOMAIN chain /\ i + 1 # 1 /\ i \in Int
                                   /\ chain'[i] = chain[i + 1]
      <3>1. more \in Seq(Ops) /\ DOMAIN more = {}
        BY <1>3, EmptySeq
      <3>2. \A i \in DOMAIN chain' : i < Len(chain) /\ i + 1 \in DOMAIN chain
                                     /\ chain'[i] = chain[i + 1]
        BY <3>1, SectionChain
      <3>3. chain' \in Seq(Ops)
        BY <3>1, SectionChain
      <3>. QED  BY <3>2, <3>3, LenProperties
    <2>2. \A i \in DOMAIN chain' : chain'[i].who \in Runners => chain'[i].who # r
      BY <1>1, <2>1 DEF OneCall
    <2>3. \A i \in DOMAIN chain' :
            chain'[i].who \in Runners => runner'[chain'[i].who].at = "locked"
      BY <2>1, <2>2 DEF OneCall
    <2>4. \A i, k \in DOMAIN chain' :
            chain'[i].who \in Runners /\ chain'[i].who = chain'[k].who => i = k
      <3>1. \A i, k \in DOMAIN chain' :
              chain'[i].who \in Runners /\ chain'[i].who = chain'[k].who => i + 1 = k + 1
        BY <2>1 DEF OneCall
      <3>. QED  BY <2>1, <3>1
    <2>. QED  BY <2>3, <2>4 DEF OneCall
  <1>4. ASSUME NEW o, more = <<o>>, CallOK(o), o.who = r,
               o.who \in Runners => runner'[o.who].at = "locked"
        PROVE  OneCall'
    <2>1. more \in Seq(Ops) /\ DOMAIN more = {1} /\ more[1] = o
      <3>1. o \in Ops
        BY <1>4 DEF CallOK
      <3>. QED  BY <1>4, <3>1
    <2>2. \A i \in DOMAIN chain' :
            /\ i \in Int
            /\ \/ i + 1 \in DOMAIN chain /\ i + 1 # 1 /\ i < Len(chain) /\ chain'[i] = chain[i + 1]
               \/ i = Len(chain) /\ chain'[i] = o
      <3>1. chain' \in Seq(Ops)
            /\ \A i \in DOMAIN chain' :
                 \/ i + 1 \in DOMAIN chain /\ i < Len(chain) /\ chain'[i] = chain[i + 1]
                 \/ /\ i - Len(chain) + 1 \in DOMAIN more
                    /\ chain'[i] = more[i - Len(chain) + 1]
        BY <1>4, <2>1, SectionChain
      <3>2. \A i \in DOMAIN chain' : i \in Int /\ i # 0
        BY <3>1, LenProperties
      <3>3. \A L \in Nat, i \in Int : i - L + 1 = 1 => i = L
        OBVIOUS
      <3>. QED  BY <1>2, <2>1, <3>1, <3>2, <3>3
    <2>3. \A i \in DOMAIN chain' : i # Len(chain) =>
            (chain'[i].who \in Runners => chain'[i].who # r)
      BY <1>1, <2>2 DEF OneCall
    <2>4. \A i \in DOMAIN chain' :
            chain'[i].who \in Runners => runner'[chain'[i].who].at = "locked"
      BY <1>4, <2>2, <2>3 DEF OneCall
    <2>5. ASSUME NEW i \in DOMAIN chain', NEW k \in DOMAIN chain',
                 chain'[i].who \in Runners, chain'[i].who = chain'[k].who
          PROVE  i = k
      <3>1. CASE i = Len(chain) \/ k = Len(chain)
        <4>1. \A n \in DOMAIN chain' : n = Len(chain) => chain'[n].who = r
          BY <1>2, <1>4, <2>2
        <4>. QED  BY <2>3, <2>5, <3>1, <4>1
      <3>2. CASE i # Len(chain) /\ k # Len(chain)
        <4>1. i + 1 = k + 1
          BY <2>2, <2>5, <3>2 DEF OneCall
        <4>. QED  BY <2>2, <4>1
      <3>. QED  BY <3>1, <3>2
    <2>. QED  BY <2>4, <2>5 DEF OneCall
  <1>. QED  BY <1>3, <1>4

\* A runner that did not wait asks for a section and waits, or a user asks.
LEMMA AppendOneCall ==
  ASSUME TypeInv, OneCall, NEW o, CallOK(o), chain' = Append(chain, o),
         o.who \in Runners => runner[o.who].at # "locked" /\ runner'[o.who].at = "locked",
         \A q \in Runners \ {o.who} : runner'[q].at = runner[q].at
  PROVE  OneCall'
  <1>1. \A i \in DOMAIN chain' :
          \/ i \in DOMAIN chain /\ chain'[i] = chain[i]
          \/ i = Len(chain) + 1 /\ i \notin DOMAIN chain /\ chain'[i] = o
    BY AppendedChain
  <1>2. \A i \in DOMAIN chain : chain[i].who \in Runners => chain[i].who # o.who
    BY DEF OneCall
  <1>. QED  BY <1>1, <1>2 DEF OneCall

LEMMA OneCallStep ==
  ASSUME TypeInv, OneCall, [Next]_vars
  PROVE  OneCall'
  <1>0. /\ runner \in [Runners -> RunnerStates] /\ now \in Nat
        /\ "boot" \in Runners /\ "tick" \in Runners /\ Manuals \subseteq Runners
        /\ "user" \notin Runners
    BY ManualsAssumption DEF TypeInv, TypeOK, Runners
  <1>1. ASSUME NEW kind, Section(kind, <<>>), NEW w,
               \/ UNCHANGED runner
               \/ runner' = [runner EXCEPT ![Head(chain).who] = w]
        PROVE  OneCall'
    BY <1>0, <1>1, SectionOneCall
  <1>2. ASSUME NEW kind, NEW o, Section(kind, <<o>>), CallOK(o),
               NEW r \in Runners, o.who = r, Head(chain).who = r, runner'[r].at = "locked",
               \A q \in Runners \ {r} : runner'[q] = runner[q]
        PROVE  OneCall'
    <2>1. \E x : /\ <<o>> = <<x>> /\ CallOK(x) /\ x.who = Head(chain).who
                 /\ x.who \in Runners => runner'[x.who].at = "locked"
      BY <1>2
    <2>. QED  BY <1>2, <2>1, SectionOneCall
  <1>3. /\ Op("plan", "boot", NoJob).who = "boot" /\ Op("final", "boot", NoJob).who = "boot"
        /\ Apply("boot").who = "boot" /\ Op("mark", "tick", NoJob).who = "tick"
        /\ \A r \in Runners : Apply(r).who = r
        /\ \A kind, who, j : Op(kind, who, j).who = who
    BY DEF Op, Apply
  <1>4. CASE ClearStaleMarkers
    <2>1. Head(chain).who = "boot"
      BY <1>4, HeadOfChain DEF ClearStaleMarkers, CallOK
    <2>2. Section("clear", <<Op("plan", "boot", NoJob)>>) /\ UNCHANGED runner
      BY <1>4 DEF ClearStaleMarkers
    <2>. QED  BY <1>0, <1>2, <1>3, <2>1, <2>2, CallsOK, HeadOfChain
  <1>5. CASE planStartupCatchup
    <2> DEFINE fin == Op("final", "boot", NoJob)
    <2>1. PICK w \in RunnerStates, missed \in Seq(Jobs) :
            /\ Section("plan", IF missed = <<>> THEN <<fin>>
                               ELSE IF w.todo = <<>> THEN <<Apply("boot")>> ELSE <<>>)
            /\ runner' = [runner EXCEPT !["boot"] = IF missed = <<>> THEN @ ELSE StartNext(w)]
      BY <1>5, PlannedRuns
    <2>2. Head(chain).who = "boot"
      BY <2>1, HeadOfChain DEF CallOK
    <2>3. StartNext(w).at = (IF w.todo = <<>> THEN "locked" ELSE "running")
      BY <1>0, <2>1, StartedNext
    <2>4. CASE missed = <<>>
      <3>1. Section("plan", <<fin>>) /\ UNCHANGED runner
        BY <1>0, <2>1, <2>4
      <3>. QED  BY <1>0, <1>2, <1>3, <2>2, <3>1, CallsOK, HeadOfChain
    <2>5. CASE missed # <<>> /\ w.todo = <<>>
      <3>1. Section("plan", <<Apply("boot")>>) /\ runner' = [runner EXCEPT !["boot"] = StartNext(w)]
        BY <2>1, <2>5
      <3>2. runner'["boot"].at = "locked" /\ \A q \in Runners \ {"boot"} : runner'[q] = runner[q]
        BY <1>0, <2>3, <2>5, <3>1
      <3>. QED  BY <1>0, <1>2, <1>3, <2>2, <3>1, <3>2, CallsOK
    <2>6. CASE missed # <<>> /\ w.todo # <<>>
      <3>1. Section("plan", <<>>) /\ runner' = [runner EXCEPT !["boot"] = StartNext(w)]
        BY <2>1, <2>6
      <3>. QED  BY <1>1, <2>2, <3>1
    <2>. QED  BY <2>4, <2>5, <2>6
  <1>6. CASE applyStartupCatchupOutcomes
    <2> DEFINE w == [runner["boot"] EXCEPT !.deferred = <<>>, !.results = {}]
    <2>1. Section("applyBoot", <<Op("final", "boot", NoJob)>>)
          /\ runner' = [runner EXCEPT !["boot"] = w]
      BY <1>0, <1>6 DEF applyStartupCatchupOutcomes
    <2>2. Head(chain).who = "boot"
      BY <2>1, HeadOfChain DEF CallOK
    <2>3. runner["boot"].at = "locked"
      BY <1>0, <2>1, <2>2, HeadOfChain
    <2>4. runner'["boot"].at = "locked" /\ \A q \in Runners \ {"boot"} : runner'[q] = runner[q]
      BY <1>0, <2>1, <2>3 DEF RunnerStates
    <2>. QED  BY <1>0, <1>2, <1>3, <2>1, <2>2, <2>4, CallsOK
  <1>7. CASE StartEnds
    <2>1. Head(chain).who = "boot"
      BY <1>7, HeadOfChain DEF StartEnds, CallOK
    <2>. QED  BY <1>1, <1>7, <2>1 DEF StartEnds
  <1>8. CASE MarkDueJobs \/ ApplyTickOutcomes
    <2>1. \E kind \in {"mark", "applyTick"} : Section(kind, <<>>)
      BY <1>8 DEF MarkDueJobs, ApplyTickOutcomes
    <2>2. Head(chain).who = "tick"
      BY <2>1, HeadOfChain DEF CallOK
    <2>3. \E w : runner' = [runner EXCEPT !["tick"] = w]
      <3>1. CASE ApplyTickOutcomes
        <4>1. runner' = [runner EXCEPT !["tick"] = [@ EXCEPT !.at = "ending", !.results = {}]]
          BY <1>0, <3>1 DEF ApplyTickOutcomes
        <4>. QED  BY <4>1
      <3>2. CASE MarkDueJobs
        <4>1. PICK due : \/ runner' = [runner EXCEPT !["tick"] = [@ EXCEPT !.at = "ending"]]
                         \/ runner' = [runner EXCEPT !["tick"] = StartNext([@ EXCEPT !.todo = due])]
          BY <1>0, <3>2 DEF MarkDueJobs
        <4>. QED  BY <4>1
      <3>. QED  BY <1>8, <3>1, <3>2
    <2>. QED  BY <1>1, <2>1, <2>2, <2>3
  <1>9. ASSUME NEW m \in Manuals, PreflightRun(m)
        PROVE  OneCall'
    <2> DEFINE w == [runner[m] EXCEPT !.started = now]
               o == Op("reserve", m, Head(chain).job)
    <2>1. /\ Head(chain).who = m
          /\ \/ Section("preflight", <<o>>) /\ runner' = [runner EXCEPT ![m] = w]
             \/ Section("preflight", <<>>) /\ runner' = [runner EXCEPT ![m] = Idle]
      BY <1>0, <1>9 DEF PreflightRun
    <2>2. CASE Section("preflight", <<o>>) /\ runner' = [runner EXCEPT ![m] = w]
      <3>1. CallOK(o)
        BY <2>2, HeadOfChain, CallsOK DEF CallOK
      <3>2. runner[m].at = "locked"
        BY <1>0, <2>1, <2>2, HeadOfChain
      <3>3. runner'[m].at = "locked" /\ \A q \in Runners \ {m} : runner'[q] = runner[q]
        BY <1>0, <2>2, <3>2 DEF RunnerStates
      <3>4. o.who = m
        BY <1>3
      <3> HIDE DEF o
      <3>. QED  BY <1>0, <1>2, <2>1, <2>2, <3>1, <3>3, <3>4
    <2>3. CASE Section("preflight", <<>>) /\ runner' = [runner EXCEPT ![m] = Idle]
      BY <1>1, <2>1, <2>3
    <2>. QED  BY <2>1, <2>2, <2>3
  <1>10. ASSUME NEW m \in Manuals, ReserveRun(m) \/ FinishRun(m)
         PROVE  OneCall'
    <2> DEFINE w == [runner[m] EXCEPT !.at = "running", !.job = Head(chain).job]
    <2>1. /\ Head(chain).who = m /\ \E kind : Section(kind, <<>>)
          /\ runner' = [runner EXCEPT ![m] = w] \/ runner' = [runner EXCEPT ![m] = Idle]
      BY <1>0, <1>10 DEF ReserveRun, FinishRun
    <2>. QED  BY <1>1, <2>1
  <1>11. CASE add \/ enable \/ disable \/ remove \/ ensureLoadedForRead
    <2>1. \E kind : Section(kind, <<>>) /\ UNCHANGED runner
      BY <1>11 DEF add, enable, disable, remove, ensureLoadedForRead, UserSection
    <2>. QED  BY <1>1, <2>1
  <1>12. CASE TimerFires
    <2>1. runner["tick"].at = "idle" /\ runner' = [runner EXCEPT !["tick"].at = "locked"]
          /\ chain' = Append(chain, Op("mark", "tick", NoJob))
      BY <1>12 DEF TimerFires
    <2>2. runner'["tick"].at = "locked" /\ \A q \in Runners \ {"tick"} : runner'[q] = runner[q]
      BY <1>0, <2>1 DEF RunnerStates
    <2>. QED  BY <1>3, <2>1, <2>2, CallsOK, AppendOneCall
  <1>13. ASSUME NEW r \in Runners, NEW status, RunEnds(r, status)
         PROVE  OneCall'
    <2> DEFINE w == [runner[r] EXCEPT !.results = @ \cup {[job |-> runner[r].job,
                       status |-> status, started |-> runner[r].started, ended |-> now]}]
    <2>1. /\ runner[r].at = "running"
          /\ runner' = [runner EXCEPT ![r] = StartNext(w)]
          /\ chain' = IF runner[r].todo = <<>> THEN Append(chain, Apply(r)) ELSE chain
      BY <1>13 DEF RunEnds
    <2>2. CallOK(Apply(r))
      BY <2>1, CallsOK DEF TypeInv, RunsAJob, Runners
    <2>3. w.todo = runner[r].todo
      BY <1>0 DEF RunnerStates
    <2>4. runner[r].todo = <<>> => runner'[r].at = "locked"
      <3>1. runner[r].todo = <<>> => StartNext(w).at = "locked"
        <4>1. w.todo = <<>> => StartNext(w) = [w EXCEPT !.at = "locked", !.job = NoJob]
          BY DEF StartNext
        <4>2. [w EXCEPT !.at = "locked", !.job = NoJob].at = "locked"
          BY <1>0 DEF RunnerStates
        <4>. QED  BY <2>3, <4>1, <4>2
      <3>. QED  BY <1>0, <2>1, <3>1
    <2>5. \A q \in Runners \ {r} : runner'[q] = runner[q]
      BY <1>0, <2>1
    <2>6. CASE runner[r].todo = <<>>
      BY <1>3, <2>1, <2>2, <2>4, <2>5, <2>6, AppendOneCall
    <2>7. CASE runner[r].todo # <<>>
      BY <2>1, <2>5, <2>7 DEF OneCall
    <2>. QED  BY <2>6, <2>7
  <1>14. ASSUME NEW m \in Manuals, NEW j \in Jobs, NEW mode, RequestRun(m, j, mode)
         PROVE  OneCall'
    <2>1. runner[m].at = "idle" /\ chain' = Append(chain, Op("preflight", m, j))
          /\ runner' = [runner EXCEPT ![m] = [@ EXCEPT !.at = "locked", !.mode = mode]]
      BY <1>0, <1>14 DEF RequestRun
    <2>2. runner'[m].at = "locked" /\ \A q \in Runners \ {m} : runner'[q] = runner[q]
      BY <1>0, <2>1 DEF RunnerStates
    <2>. QED  BY <1>3, <2>1, <2>2, CallsOK, AppendOneCall
  <1>15. ASSUME NEW kind \in UserOps, NEW j \in Jobs, RequestOp(kind, j)
         PROVE  OneCall'
    BY <1>0, <1>3, <1>15, CallsOK, AppendOneCall DEF RequestOp
  <1>16. CASE TickEnds
    <2>1. runner["tick"].at = "ending" /\ UNCHANGED chain
          /\ \A q \in Runners \ {"tick"} : runner'[q] = runner[q]
      BY <1>0, <1>16 DEF TickEnds
    <2>. QED  BY <2>1 DEF OneCall
  <1>17. CASE Crash
    BY <1>17 DEF Crash, OneCall
  <1>18. CASE Restart
    <2>1. DOMAIN chain' = {1} /\ chain'[1].who = "boot"
      BY <1>3, <1>18 DEF Restart, Op
    <2>2. runner'["boot"].at = "locked"
      BY <1>0, <1>18 DEF Restart, RunnerStates
    <2>. QED  BY <2>1, <2>2 DEF OneCall
  <1>19. CASE Pass \/ UNCHANGED vars
    BY <1>19 DEF Pass, vars, ctlVars, OneCall
  <1>. QED  BY <1>4, <1>5, <1>6, <1>7, <1>8, <1>9, <1>10, <1>11, <1>12, <1>13, <1>14, <1>15,
               <1>16, <1>17, <1>18, <1>19 DEF Next, SomeSection

-----------------------------------------------------------------------------
(* The timer.                                                              *)

LEMMA InitAwake == Init => OneCall /\ SchedulerAwake
  <1> SUFFICES ASSUME Init PROVE OneCall /\ SchedulerAwake
    OBVIOUS
  <1>1. DOMAIN chain = {1} /\ chain[1].who = "boot" /\ "boot" \in Runners
    BY DEF Init, Op, Runners
  <1>2. runner["boot"].at = "locked"
    BY <1>1 DEF Init, Idle
  <1>. QED  BY <1>1, <1>2 DEF OneCall, SchedulerAwake

\* Marking a job, and the repairs, give no job a slot.
LEMMA SlotsKept ==
  ASSUME now \in Nat, NEW js, Sound(js)
  PROVE  /\ \A ids : HasWake(MarkRunning(js, ids)) => HasWake(js)
         /\ \A expired \in BOOLEAN :
              HasWake(recomputeNextRunsForMaintenance(js, expired)) => HasWake(js)
  <1>1. ASSUME NEW ids, HasWake(MarkRunning(js, ids))
        PROVE  HasWake(js)
    BY <1>1 DEF HasWake, MarkRunning, Sound, JobStates
  <1>2. ASSUME NEW expired \in BOOLEAN,
               HasWake(recomputeNextRunsForMaintenance(js, expired))
        PROVE  HasWake(js)
    <2>1. PICK j \in Jobs : LET s == MaintainJob(j, js[j], expired) IN
                            s.present /\ s.enabled /\ s.next # NoTime
      BY <1>2 DEF HasWake, recomputeNextRunsForMaintenance
    <2>2. js[j].present /\ js[j].enabled /\ js[j].next # NoTime
      BY <2>1, MaintainedJob DEF Sound
    <2>. QED  BY <2>2 DEF HasWake
  <1>. QED  BY <1>1, <1>2

\* No step leaves a scheduled job without a timer, unless a start or a tick is
\* still going to arm one.
LEMMA AwakeStep ==
  ASSUME TypeInv, JobsInv, OneCall, SchedulerAwake, [Next]_vars
  PROVE  SchedulerAwake'
  <1>0. /\ runner \in [Runners -> RunnerStates] /\ now \in Nat /\ Sound(jobs)
        /\ "boot" \in Runners /\ "tick" \in Runners /\ Manuals \subseteq Runners
        /\ "boot" \notin Manuals /\ "tick" \notin Manuals
    BY ManualsAssumption DEF TypeInv, TypeOK, Runners, JobsInv
  <1>1. CASE timer' = HasWake(jobs)'
    BY <1>1 DEF SchedulerAwake
  <1>2. CASE runner'["boot"].at # "idle" \/ runner'["tick"].at = "ending" \/ ~up'
    BY <1>2 DEF SchedulerAwake
  <1>3. CASE /\ UNCHANGED <<timer, up>>
             /\ HasWake(jobs)' => HasWake(jobs)
             /\ runner["boot"].at = runner'["boot"].at
             /\ runner["tick"].at # "ending"
    BY <1>3 DEF SchedulerAwake
  <1>4. ASSUME NEW kind \in {"clear", "plan", "applyBoot"}, NEW more, Section(kind, more)
        PROVE  runner["boot"].at = "locked"
    BY <1>0, <1>4, HeadOfChain DEF CallOK
  <1>5. ASSUME NEW js, Store(js, TRUE)
        PROVE  timer' = HasWake(jobs)'
    BY <1>5 DEF Store, HasWake
  <1>6. CASE ClearStaleMarkers
    BY <1>2, <1>4, <1>6 DEF ClearStaleMarkers
  <1>7. CASE planStartupCatchup
    <2>1. PICK w \in RunnerStates, missed \in Seq(Jobs) :
            runner' = [runner EXCEPT !["boot"] = IF missed = <<>> THEN @ ELSE StartNext(w)]
      BY <1>7, PlannedRuns
    <2>2. runner["boot"].at = "locked"
      BY <1>4, <1>7 DEF planStartupCatchup
    <2>3. StartNext(w).at \in {"locked", "running"}
      BY <1>0, StartedNext
    <2>4. runner'["boot"].at # "idle"
      BY <1>0, <2>1, <2>2, <2>3
    <2>. QED  BY <1>2, <2>4
  <1>8. CASE applyStartupCatchupOutcomes
    <2>1. runner["boot"].at = "locked"
      BY <1>4, <1>8 DEF applyStartupCatchupOutcomes
    <2>2. runner'["boot"].at = runner["boot"].at
      BY <1>0, <1>8 DEF applyStartupCatchupOutcomes, RunnerStates
    <2>. QED  BY <1>2, <2>1, <2>2
  <1>9. CASE StartEnds
    BY <1>1, <1>5, <1>9 DEF StartEnds
  <1>10. CASE MarkDueJobs
    <2>1. Head(chain).who = "tick" /\ runner["tick"].at = "locked"
      BY <1>0, <1>10, HeadOfChain DEF MarkDueJobs, CallOK
    <2>2. PICK due : \/ runner' = [runner EXCEPT !["tick"] = [@ EXCEPT !.at = "ending"]]
                     \/ /\ Store(MarkRunning(jobs, ToSet(due)), FALSE)
                        /\ runner' = [runner EXCEPT !["tick"] = StartNext([@ EXCEPT !.todo = due])]
      BY <1>0, <1>10 DEF MarkDueJobs
    <2>3. CASE runner' = [runner EXCEPT !["tick"] = [@ EXCEPT !.at = "ending"]]
      BY <1>0, <1>2, <2>3 DEF RunnerStates
    <2>4. CASE /\ Store(MarkRunning(jobs, ToSet(due)), FALSE)
               /\ runner' = [runner EXCEPT !["tick"] = StartNext([@ EXCEPT !.todo = due])]
      <3>1. jobs' = MarkRunning(jobs, ToSet(due)) /\ UNCHANGED timer
        BY <2>4 DEF Store
      <3>2. UNCHANGED up /\ runner'["boot"] = runner["boot"]
        BY <1>0, <1>10, <2>4 DEF MarkDueJobs
      <3>3. HasWake(jobs)' => HasWake(jobs)
        BY <1>0, <3>1, SlotsKept DEF HasWake
      <3>. QED  BY <1>3, <2>1, <3>1, <3>2, <3>3
    <2>. QED  BY <2>2, <2>3, <2>4
  <1>11. CASE ApplyTickOutcomes
    <2>1. runner'["tick"].at = "ending"
      BY <1>0, <1>11 DEF ApplyTickOutcomes, RunnerStates
    <2>. QED  BY <1>2, <2>1
  <1>12. ASSUME UNCHANGED <<timer, up>>, HasWake(jobs)' => HasWake(jobs),
                runner'["boot"] = runner["boot"], runner'["tick"] = runner["tick"]
         PROVE  SchedulerAwake'
    BY <1>12 DEF SchedulerAwake
  <1>13. ASSUME NEW m \in Manuals, PreflightRun(m) \/ ReserveRun(m) \/ FinishRun(m)
         PROVE  SchedulerAwake'
    <2>1. /\ UNCHANGED up
          /\ runner'["boot"] = runner["boot"] /\ runner'["tick"] = runner["tick"]
      BY <1>0, <1>13 DEF PreflightRun, ReserveRun, FinishRun
    <2>2. CASE PreflightRun(m)
      <3>1. jobs' = recomputeNextRunsForMaintenance(jobs, FALSE) /\ UNCHANGED timer
        BY <2>2 DEF PreflightRun, Store
      <3>2. HasWake(jobs)' => HasWake(jobs)
        BY <1>0, <3>1, SlotsKept DEF HasWake
      <3>. QED  BY <1>12, <2>1, <3>1, <3>2
    <2>3. CASE ReserveRun(m)
      <3>1. UNCHANGED timer /\ (UNCHANGED jobs \/ \E ids : jobs' = MarkRunning(jobs, ids))
        BY <2>3 DEF ReserveRun, Store
      <3>2. HasWake(jobs)' => HasWake(jobs)
        BY <1>0, <3>1, SlotsKept DEF HasWake
      <3>. QED  BY <1>12, <2>1, <3>1, <3>2
    <2>4. CASE FinishRun(m)
      <3>1. UNCHANGED <<jobs, timer>> \/ timer' = HasWake(jobs)'
        BY <1>5, <2>4 DEF FinishRun
      <3>2. UNCHANGED jobs => (HasWake(jobs)' => HasWake(jobs))
        BY DEF HasWake
      <3>. QED  BY <1>1, <1>12, <2>1, <3>1, <3>2
    <2>. QED  BY <1>13, <2>2, <2>3, <2>4
  <1>14. CASE add \/ remove
    BY <1>1, <1>5, <1>14 DEF add, remove, UserSection
  <1>15. CASE enable \/ disable
    <2>1. CASE jobs[Asked].present
      BY <1>1, <1>5, <1>15, <2>1 DEF enable, disable, UserSection, Store, HasWake
    <2>2. CASE ~jobs[Asked].present
      <3>1. UNCHANGED <<jobs, timer, up, runner>>
        BY <1>15, <2>2 DEF enable, disable, UserSection, Store
      <3>2. HasWake(jobs)' => HasWake(jobs)
        BY <3>1 DEF HasWake
      <3>. QED  BY <1>12, <3>1, <3>2
    <2>. QED  BY <2>1, <2>2
  <1>16. CASE ensureLoadedForRead
    <2>1. /\ jobs' = recomputeNextRunsForMaintenance(jobs, FALSE)
          /\ UNCHANGED <<timer, up, runner>>
      BY <1>16 DEF ensureLoadedForRead, UserSection, Store
    <2>2. HasWake(jobs)' => HasWake(jobs)
      BY <1>0, <2>1, SlotsKept DEF HasWake
    <2>. QED  BY <1>12, <2>1, <2>2
  <1>17. CASE TimerFires
    <2>1. /\ UNCHANGED <<jobs, timer, up>> /\ runner["tick"].at = "idle"
          /\ runner'["boot"] = runner["boot"]
      BY <1>0, <1>17 DEF TimerFires
    <2>2. HasWake(jobs)' => HasWake(jobs)
      BY <2>1 DEF HasWake
    <2>. QED  BY <1>3, <2>1, <2>2
  <1>18. CASE TickEnds
    BY <1>1, <1>18 DEF TickEnds, HasWake
  <1>19. ASSUME NEW r \in Runners, NEW status, RunEnds(r, status)
         PROVE  SchedulerAwake'
    <2> DEFINE w == [runner[r] EXCEPT !.results = @ \cup {[job |-> runner[r].job,
                       status |-> status, started |-> runner[r].started, ended |-> now]}]
    <2>1. /\ runner[r].at = "running" /\ runner' = [runner EXCEPT ![r] = StartNext(w)]
          /\ UNCHANGED <<jobs, timer, up>>
      BY <1>19 DEF RunEnds
    <2>2. StartNext(w).at \in {"locked", "running"}
      BY <1>0 DEF StartNext, RunnerStates
    <2>3. HasWake(jobs)' => HasWake(jobs)
      BY <2>1 DEF HasWake
    <2>4. CASE r = "boot"
      <3>1. runner'["boot"].at # "idle"
        BY <1>0, <2>1, <2>2, <2>4
      <3>. QED  BY <1>2, <3>1
    <2>5. CASE r = "tick"
      <3>1. runner'["boot"] = runner["boot"] /\ runner["tick"].at # "ending"
        BY <1>0, <2>1, <2>5
      <3>. QED  BY <1>3, <2>1, <2>3, <3>1
    <2>6. CASE r \in Manuals
      <3>1. runner'["boot"] = runner["boot"] /\ runner'["tick"] = runner["tick"]
        BY <1>0, <2>1, <2>6
      <3>. QED  BY <1>12, <2>1, <2>3, <3>1
    <2>. QED  BY <2>4, <2>5, <2>6 DEF Runners
  <1>20. ASSUME NEW m \in Manuals, NEW j, NEW mode, RequestRun(m, j, mode)
         PROVE  SchedulerAwake'
    <2>1. /\ UNCHANGED <<jobs, timer, up>>
          /\ runner'["boot"] = runner["boot"] /\ runner'["tick"] = runner["tick"]
      BY <1>0, <1>20 DEF RequestRun
    <2>2. HasWake(jobs)' => HasWake(jobs)
      BY <2>1 DEF HasWake
    <2>. QED  BY <1>12, <2>1, <2>2
  <1>21. CASE Pass \/ UNCHANGED vars \/ \E kind \in UserOps, j \in Jobs : RequestOp(kind, j)
    <2>1. UNCHANGED <<jobs, timer, up, runner>>
      BY <1>21 DEF Pass, vars, ctlVars, RequestOp
    <2>2. HasWake(jobs)' => HasWake(jobs)
      BY <2>1 DEF HasWake
    <2>. QED  BY <1>12, <2>1, <2>2
  <1>22. CASE Crash
    BY <1>2, <1>22 DEF Crash
  <1>23. CASE Restart
    <2>1. runner'["boot"].at = "locked"
      BY <1>0, <1>23 DEF Restart, RunnerStates
    <2>. QED  BY <1>2, <2>1
  <1>. QED  BY <1>6, <1>7, <1>8, <1>9, <1>10, <1>11, <1>13, <1>14, <1>15, <1>16, <1>17, <1>18,
               <1>19, <1>20, <1>21, <1>22, <1>23 DEF Next, SomeSection

AllInv == TypeInv /\ JobsInv /\ AwakeInv

\* While the scheduler serves, a timer is armed whenever a job is scheduled.
THEOREM NeverAsleep == Spec => []SchedulerAwake
  <1>1. Init => AllInv
    BY InitType, InitJobs, InitAwake DEF AllInv, AwakeInv
  <1>2. AllInv /\ [Next]_vars => AllInv'
    BY TypeStep, OneCallStep, AwakeStep DEF AllInv, AwakeInv
  <1>3. AllInv => SchedulerAwake
    BY DEF AllInv, AwakeInv
  <1>. QED  BY <1>1, <1>2, <1>3, PTL DEF Spec

-----------------------------------------------------------------------------
(* Running a job in one place only.                                        *)

\* What a runner holds is what its state says.
LEMMA HoldsTaken == \A r : Holds(r) = Taken(runner[r])
  BY DEF Holds, Taken, Running

LEMMA HeldJobs ==
  ASSUME TypeInv, NEW r \in Runners
  PROVE  Holds(r) \subseteq Jobs
  <1>1. /\ runner[r].todo \in Seq(Jobs) /\ runner[r].job \in Jobs \cup {NoJob}
        /\ runner[r].results \in SUBSET Results
    BY DEF TypeInv, TypeOK, RunnerStates
  <1>2. \A q \in Seq(Jobs) : ToSet(q) \subseteq Jobs
    BY LenProperties, ElementOfSeq DEF ToSet
  <1>. QED  BY <1>1, <1>2 DEF Holds, Running, Results

\* A job that is held after a step and not in service then is recorded.
Recorded ==
  \A j \in Jobs :
    /\ \E r \in Runners : j \in Holds(r)'
    /\ j \in outOfService \/ ~InService(jobs'[j])
    => j \in outOfService'

\* A step in which at most one runner takes on jobs, none of them marked before it.
LEMMA EngagementStep ==
  ASSUME TypeInv, Exclusive, Marked, Recorded, NEW n \in Runners, NEW new \in SUBSET Jobs,
         \A r \in Runners \ {n} : Holds(r)' \subseteq Holds(r),
         Holds(n)' \subseteq Holds(n) \cup new,
         \A j \in new : ~jobs[j].running
  PROVE  (Exclusive /\ Marked)'
  <1>1. \A r \in Runners : \A j \in Holds(r)' :
          j \in Jobs /\ ((r = n /\ j \in new) \/ j \in Holds(r))
    BY HeldJobs
  <1>2. Marked'
    BY <1>1 DEF Marked, Recorded, InService
  <1>3. ASSUME NEW j \in Jobs \ outOfService', NEW r \in Runners, NEW q \in Runners,
               j \in Holds(r)' \cap Holds(q)'
        PROVE  r = q
    <2>1. j \notin outOfService
      BY <1>3 DEF Recorded
    <2>2. CASE j \in new
      <3>1. \A x \in Runners : j \notin Holds(x)
        BY <2>1, <2>2 DEF Marked, InService
      <3>. QED  BY <1>1, <1>3, <3>1
    <2>3. CASE j \notin new
      BY <1>1, <1>3, <2>1, <2>3 DEF Exclusive
    <2>. QED  BY <2>2, <2>3
  <1>. QED  BY <1>2, <1>3 DEF Exclusive

\* A step that changes no job and in which no runner takes one on.
LEMMA DisengagementStep ==
  ASSUME TypeInv, Exclusive, Marked, UNCHANGED <<jobs, outOfService>>,
         \A r \in Runners : Holds(r)' \subseteq Holds(r)
  PROVE  (Exclusive /\ Marked)'
  <1>1. Recorded
    BY DEF Recorded, Marked
  <1>2. "boot" \in Runners /\ {} \in SUBSET Jobs
    BY DEF Runners
  <1>. QED  BY <1>1, <1>2, EngagementStep

\* Whose jobs are whose after a change of one runner.
LEMMA EngagedAfter ==
  ASSUME runner \in [Runners -> RunnerStates], NEW r \in Runners, NEW w, NEW new,
         runner' = [runner EXCEPT ![r] = w],
         Taken(w) \subseteq Holds(r) \cup new
  PROVE  /\ Holds(r)' \subseteq Holds(r) \cup new
         /\ \A q \in Runners \ {r} : Holds(q)' = Holds(q)
  <1>1. \A q : Holds(q)' = Taken(runner'[q])
    BY DEF Holds, Taken, Running
  <1>2. runner'[r] = w /\ \A q \in Runners \ {r} : runner'[q] = runner[q]
    OBVIOUS
  <1>. QED  BY <1>1, <1>2, HoldsTaken

LEMMA NoClearLeft ==
  ASSUME TypeInv, ClearFirst, NEW kind, NEW more, Section(kind, more),
         more = <<>> \/ \E o : more = <<o>> /\ CallOK(o) /\ o.kind # "clear"
  PROVE  \A i \in DOMAIN chain' : chain'[i].kind # "clear"
  <1>1. /\ more \in Seq(Ops)
        /\ \A i \in DOMAIN more : CallOK(more[i]) /\ more[i].kind # "clear"
    <2>1. CASE more = <<>>
      BY <2>1
    <2>2. ASSUME NEW o, more = <<o>>, CallOK(o), o.kind # "clear"
          PROVE  /\ more \in Seq(Ops)
                 /\ \A i \in DOMAIN more : CallOK(more[i]) /\ more[i].kind # "clear"
      <3>1. o \in Ops
        BY <2>2 DEF CallOK
      <3>2. more \in Seq(Ops) /\ DOMAIN more = {1} /\ more[1] = o
        BY <2>2, <3>1
      <3>. QED  BY <2>2, <3>2
    <2>. QED  BY <2>1, <2>2
  <1>2. chain' \in Seq(Ops)
        /\ \A i \in DOMAIN chain' :
              \/ i + 1 \in DOMAIN chain /\ i < Len(chain) /\ chain'[i] = chain[i + 1]
              \/ /\ i - Len(chain) + 1 \in DOMAIN more
                 /\ chain'[i] = more[i - Len(chain) + 1]
    BY <1>1, SectionChain
  <1>3. \A i \in DOMAIN chain' : i \in Nat \ {0}
    BY <1>2, LenProperties
  <1>. QED  BY <1>1, <1>2, <1>3 DEF ClearFirst

\* No job is taken on while the markers of the last process are still there.
LEMMA ClearStep ==
  ASSUME TypeInv, ClearFirst, [Next]_vars,
         ~SomeSection => \A r \in Runners : Holds(r)' \subseteq Holds(r)
  PROVE  ClearFirst'
  <1>1. CASE SomeSection
    <2>1. up /\ UNCHANGED up
      BY <1>1 DEF SomeSection, ClearStaleMarkers, planStartupCatchup, applyStartupCatchupOutcomes,
           StartEnds, MarkDueJobs, ApplyTickOutcomes, PreflightRun, ReserveRun, FinishRun,
           add, enable, disable, remove, ensureLoadedForRead, UserSection, Section
    <2> DEFINE Short(more) == more = <<>> \/ \E o : more = <<o>> /\ CallOK(o) /\ o.kind # "clear"
               Goal == \E kind, more : Section(kind, more) /\ Short(more)
    <2>2. Short(<<>>) /\ \A o : CallOK(o) /\ o.kind # "clear" => Short(<<o>>)
      OBVIOUS
    <2> HIDE DEF Short
    <2>3. /\ Short(<<Op("plan", "boot", NoJob)>>) /\ Short(<<Op("final", "boot", NoJob)>>)
          /\ Short(<<Apply("boot")>>)
      <3>1. Op("plan", "boot", NoJob).kind # "clear" /\ Op("final", "boot", NoJob).kind # "clear"
            /\ Apply("boot").kind # "clear"
        BY DEF Op, Apply
      <3>. QED  BY <2>2, <3>1, CallsOK
    <2>10. Goal
      <3>4. CASE ClearStaleMarkers
        BY <2>3, <3>4 DEF ClearStaleMarkers
      <3>5. CASE planStartupCatchup
        <4>1. PICK w \in RunnerStates, missed \in Seq(Jobs) :
                Section("plan", IF missed = <<>> THEN <<Op("final", "boot", NoJob)>>
                                ELSE IF w.todo = <<>> THEN <<Apply("boot")>> ELSE <<>>)
          BY <3>5, PlannedRuns
        <4>. QED  BY <2>2, <2>3, <4>1
      <3>6. CASE applyStartupCatchupOutcomes
        BY <2>3, <3>6 DEF applyStartupCatchupOutcomes
      <3>7. CASE StartEnds \/ MarkDueJobs \/ ApplyTickOutcomes
        BY <2>2, <3>7 DEF StartEnds, MarkDueJobs, ApplyTickOutcomes
      <3>8. ASSUME NEW m \in Manuals, PreflightRun(m) \/ ReserveRun(m) \/ FinishRun(m)
            PROVE  Goal
        <4> DEFINE o == Op("reserve", m, Head(chain).job)
        <4>1. CASE PreflightRun(m)
          <5>1. \E more \in {<<>>, <<o>>} : Section("preflight", more)
            BY <4>1 DEF PreflightRun
          <5>2. Head(chain).job \in Jobs
            BY <5>1, HeadOfChain DEF CallOK
          <5>3. CallOK(o) /\ o.kind # "clear"
            BY <5>2, CallsOK DEF Op
          <5> HIDE DEF o
          <5>. QED  BY <2>2, <5>1, <5>3
        <4>2. CASE ReserveRun(m) \/ FinishRun(m)
          BY <2>2, <4>2 DEF ReserveRun, FinishRun
        <4>. QED  BY <3>8, <4>1, <4>2
      <3>9. CASE add \/ enable \/ disable \/ remove \/ ensureLoadedForRead
        BY <2>2, <3>9 DEF add, enable, disable, remove, ensureLoadedForRead, UserSection
      <3>. QED  BY <1>1, <3>4, <3>5, <3>6, <3>7, <3>8, <3>9 DEF SomeSection
    <2>11. PICK kind, more : Section(kind, more) /\ Short(more)
      BY <2>10
    <2>12. \A i \in DOMAIN chain' : chain'[i].kind # "clear"
      BY <2>11, NoClearLeft DEF Short
    <2>. QED  BY <2>1, <2>12 DEF ClearFirst
  <1>2. CASE ~SomeSection
    <2>1. NobodyRuns => NobodyRuns'
      BY <1>2 DEF NobodyRuns
    <2>2. CASE Restart
      <3>1. DOMAIN chain' = {1} /\ ~up /\ up'
        BY <2>2 DEF Restart
      <3>. QED  BY <2>1, <3>1 DEF ClearFirst
    <2>3. CASE Crash
      <3>1. chain' = <<>> /\ runner' = [r \in Runners |-> Idle]
        BY <2>3 DEF Crash
      <3>2. NobodyRuns'
        BY <3>1 DEF NobodyRuns, Holds, Running, Idle, ToSet
      <3>. QED  BY <3>1, <3>2 DEF ClearFirst
    <2>4. CASE UNCHANGED up /\ UNCHANGED chain
      BY <2>1, <2>4 DEF ClearFirst
    <2>5. ASSUME UNCHANGED up, NEW o, CallOK(o), o.kind # "clear", chain' = Append(chain, o)
          PROVE  ClearFirst'
      <3>1. \A i \in DOMAIN chain' :
              \/ i \in DOMAIN chain /\ chain'[i] = chain[i]
              \/ i = Len(chain) + 1 /\ i \notin DOMAIN chain /\ chain'[i] = o
        BY <2>5, AppendedChain
      <3>. QED  BY <2>1, <2>5, <3>1 DEF ClearFirst
    <2>6. CASE TimerFires
      <3>1. Op("mark", "tick", NoJob).kind # "clear"
        BY DEF Op
      <3>. QED  BY <2>5, <2>6, <3>1, CallsOK DEF TimerFires
    <2>7. ASSUME NEW r \in Runners, NEW status, RunEnds(r, status)
          PROVE  ClearFirst'
      <3>1. runner[r].at = "running" /\ UNCHANGED up
            /\ (chain' = Append(chain, Apply(r)) \/ UNCHANGED chain)
        BY <2>7 DEF RunEnds
      <3>2. CallOK(Apply(r)) /\ Apply(r).kind # "clear"
        BY <3>1, CallsOK DEF TypeInv, RunsAJob, Runners, Apply, Op
      <3>. QED  BY <2>4, <2>5, <3>1, <3>2
    <2>8. ASSUME NEW m \in Manuals, NEW j \in Jobs, NEW mode, RequestRun(m, j, mode)
          PROVE  ClearFirst'
      <3>1. CallOK(Op("preflight", m, j)) /\ Op("preflight", m, j).kind # "clear"
        BY CallsOK DEF Op
      <3>. QED  BY <2>5, <2>8, <3>1 DEF RequestRun
    <2>9. ASSUME NEW kind \in UserOps, NEW j \in Jobs, RequestOp(kind, j)
          PROVE  ClearFirst'
      <3>1. CallOK(Op(kind, "user", j)) /\ Op(kind, "user", j).kind # "clear"
        BY CallsOK DEF Op, UserOps
      <3>. QED  BY <2>5, <2>9, <3>1 DEF RequestOp
    <2>10. TickEnds \/ Pass \/ UNCHANGED vars => UNCHANGED <<up, chain>>
      BY DEF TickEnds, Pass, vars, ctlVars
    <2>. QED  BY <1>2, <2>2, <2>3, <2>4, <2>6, <2>7, <2>8, <2>9, <2>10 DEF Next
  <1>. QED  BY <1>1, <1>2

\* What a section lets the runners do: at most one of them takes on jobs, which
\* it has found due or missed and marks.
Engages(n, new) ==
  /\ \A r \in Runners \ {n} : Holds(r)' \subseteq Holds(r)
  /\ Holds(n)' \subseteq Holds(n) \cup new
  /\ \A j \in new : /\ ~jobs[j].running /\ jobs'[j] = [jobs[j] EXCEPT !.running = TRUE]
                    /\ n = "tick" => Runnable(j)
                    /\ n = "boot" => Missed(j)

LEMMA SectionEngages ==
  ASSUME TypeInv, SomeSection
  PROVE  \E n \in Runners, new \in SUBSET Jobs : Engages(n, new)
  <1>0. /\ runner \in [Runners -> RunnerStates] /\ now \in Nat /\ jobs \in [Jobs -> JobStates]
        /\ "boot" \in Runners /\ "tick" \in Runners /\ Manuals \subseteq Runners
        /\ "boot" \notin Manuals /\ "tick" \notin Manuals
    BY ManualsAssumption DEF TypeInv, TypeOK, Runners
  <1>1. ASSUME NEW r \in Runners, NEW w, runner' = [runner EXCEPT ![r] = w],
               Taken(w) \subseteq Holds(r)
        PROVE  \E n \in Runners, new \in SUBSET Jobs : Engages(n, new)
    <2>1. Engages(r, {})
      BY <1>0, <1>1, EngagedAfter DEF Engages
    <2>. QED  BY <2>1
  <1>2. ASSUME UNCHANGED runner
        PROVE  \E n \in Runners, new \in SUBSET Jobs : Engages(n, new)
    <2>1. Engages("boot", {})
      BY <1>2 DEF Engages, Holds, Running
    <2>. QED  BY <1>0, <2>1
  <1>3. \A r \in Runners : Taken(Idle) \subseteq Holds(r)
    BY DEF Idle, ToSet, Taken
  <1>4. ASSUME NEW ids, NEW j \in Jobs
        PROVE  MarkRunning(jobs, ids)[j]
                 = IF j \in ids THEN [jobs[j] EXCEPT !.running = TRUE] ELSE jobs[j]
    BY DEF MarkRunning
  <1>6. CASE ClearStaleMarkers
    BY <1>2, <1>6 DEF ClearStaleMarkers
  <1>7. CASE planStartupCatchup
    <2>1. PICK w \in RunnerStates, missed \in Seq(Jobs) :
            /\ ToSet(w.todo) \subseteq {j \in Jobs : Missed(j)}
            /\ w.results = runner["boot"].results
            /\ jobs' = MarkRunning(jobs, ToSet(w.todo))
            /\ runner' = [runner EXCEPT !["boot"] = IF missed = <<>> THEN @ ELSE StartNext(w)]
      BY <1>7, PlannedRuns
    <2> DEFINE v == IF missed = <<>> THEN runner["boot"] ELSE StartNext(w)
               new == ToSet(w.todo)
    <2>2. Taken(v) \subseteq Holds("boot") \cup new
      <3>1. /\ ({StartNext(w).job} \ {NoJob}) \cup ToSet(StartNext(w).todo) \subseteq new
            /\ StartNext(w).results = runner["boot"].results
        BY <1>0, <2>1, StartedNext
      <3>. QED  BY <3>1 DEF Holds, Running, Taken
    <2>3. runner' = [runner EXCEPT !["boot"] = v]
      BY <2>1
    <2> HIDE DEF v
    <2>4. /\ Holds("boot")' \subseteq Holds("boot") \cup new
          /\ \A q \in Runners \ {"boot"} : Holds(q)' = Holds(q)
      BY <1>0, <2>2, <2>3, EngagedAfter
    <2>5. /\ new \in SUBSET Jobs
          /\ \A j \in new : /\ ~jobs[j].running /\ jobs'[j] = [jobs[j] EXCEPT !.running = TRUE]
                            /\ Missed(j)
      BY <1>4, <2>1 DEF Missed
    <2> HIDE DEF new
    <2>7. Engages("boot", new)
      BY <1>0, <2>4, <2>5 DEF Engages
    <2>. QED  BY <1>0, <2>5, <2>7
  <1>8. CASE applyStartupCatchupOutcomes
    <2> DEFINE w == [runner["boot"] EXCEPT !.deferred = <<>>, !.results = {}]
    <2>1. runner' = [runner EXCEPT !["boot"] = w]
      BY <1>0, <1>8 DEF applyStartupCatchupOutcomes
    <2>2. w.job = runner["boot"].job /\ w.todo = runner["boot"].todo /\ w.results = {}
      BY <1>0 DEF RunnerStates
    <2> HIDE DEF w
    <2>. QED  BY <1>0, <1>1, <2>1, <2>2 DEF Holds, Running, Taken
  <1>9. CASE StartEnds
    BY <1>0, <1>1, <1>3, <1>9 DEF StartEnds
  <1>10. CASE MarkDueJobs
    <2>1. PICK due \in InStoreOrder({j \in Jobs : Runnable(j)}) :
            \/ runner' = [runner EXCEPT !["tick"] = [@ EXCEPT !.at = "ending"]]
            \/ /\ jobs' = MarkRunning(jobs, ToSet(due))
               /\ runner' = [runner EXCEPT !["tick"] = StartNext([@ EXCEPT !.todo = due])]
      BY <1>0, <1>10 DEF MarkDueJobs, Store
    <2>2. due \in Seq(Jobs) /\ ToSet(due) \subseteq {j \in Jobs : Runnable(j)}
      BY <2>1, ListOfJobs DEF InStoreOrder
    <2> DEFINE w == [runner["tick"] EXCEPT !.todo = due]
               v == [runner["tick"] EXCEPT !.at = "ending"]
               new == ToSet(due)
    <2>3. CASE runner' = [runner EXCEPT !["tick"] = [@ EXCEPT !.at = "ending"]]
      <3>1. v.job = runner["tick"].job /\ v.todo = runner["tick"].todo
            /\ v.results = runner["tick"].results
        BY <1>0 DEF RunnerStates
      <3>2. runner' = [runner EXCEPT !["tick"] = v]
        BY <2>3
      <3> HIDE DEF v
      <3>. QED  BY <1>0, <1>1, <2>3, <3>1, <3>2 DEF Holds, Running, Taken
    <2>4. CASE /\ jobs' = MarkRunning(jobs, ToSet(due))
               /\ runner' = [runner EXCEPT !["tick"] = StartNext([@ EXCEPT !.todo = due])]
      <3>1. w \in RunnerStates /\ w.todo = due /\ w.results = runner["tick"].results
        BY <1>0, <2>2 DEF RunnerStates
      <3>2. runner' = [runner EXCEPT !["tick"] = StartNext(w)]
        BY <2>4
      <3> HIDE DEF w
      <3>3. Taken(StartNext(w)) \subseteq Holds("tick") \cup new
        BY <1>0, <3>1, StartedNext DEF Taken, Holds
      <3>4. /\ Holds("tick")' \subseteq Holds("tick") \cup new
            /\ \A q \in Runners \ {"tick"} : Holds(q)' = Holds(q)
        BY <1>0, <3>2, <3>3, EngagedAfter
      <3>5. /\ new \in SUBSET Jobs
            /\ \A j \in new : /\ ~jobs[j].running /\ jobs'[j] = [jobs[j] EXCEPT !.running = TRUE]
                              /\ Runnable(j)
        BY <1>4, <2>2, <2>4 DEF Runnable
      <3> HIDE DEF new
      <3>6. Engages("tick", new)
        BY <1>0, <2>4, <3>4, <3>5 DEF Engages
      <3>. QED  BY <1>0, <3>5, <3>6
    <2>. QED  BY <2>1, <2>3, <2>4
  <1>11. CASE ApplyTickOutcomes
    <2> DEFINE w == [runner["tick"] EXCEPT !.at = "ending", !.results = {}]
    <2>1. runner' = [runner EXCEPT !["tick"] = w]
      BY <1>0, <1>11 DEF ApplyTickOutcomes
    <2>2. w.job = runner["tick"].job /\ w.todo = runner["tick"].todo /\ w.results = {}
      BY <1>0 DEF RunnerStates
    <2> HIDE DEF w
    <2>. QED  BY <1>0, <1>1, <2>1, <2>2 DEF Holds, Running, Taken
  <1>12. ASSUME NEW m \in Manuals, PreflightRun(m)
         PROVE  \E n \in Runners, new \in SUBSET Jobs : Engages(n, new)
    <2> DEFINE w == [runner[m] EXCEPT !.started = now]
    <2>1. runner' = [runner EXCEPT ![m] = w] \/ runner' = [runner EXCEPT ![m] = Idle]
      BY <1>0, <1>12 DEF PreflightRun
    <2>2. w.job = runner[m].job /\ w.todo = runner[m].todo /\ w.results = runner[m].results
      BY <1>0 DEF RunnerStates
    <2> HIDE DEF w
    <2>. QED  BY <1>0, <1>1, <1>3, <2>1, <2>2 DEF Holds, Running, Taken
  <1>13. ASSUME NEW m \in Manuals, ReserveRun(m)
         PROVE  \E n \in Runners, new \in SUBSET Jobs : Engages(n, new)
    <2> DEFINE j == Head(chain).job
               w == [runner[m] EXCEPT !.at = "running", !.job = j]
    <2>1. \/ /\ MayReserve(jobs[j]) /\ jobs' = MarkRunning(jobs, {j})
             /\ runner' = [runner EXCEPT ![m] = w]
          \/ runner' = [runner EXCEPT ![m] = Idle]
      BY <1>0, <1>13 DEF ReserveRun, Store
    <2>2. j \in Jobs
      BY <1>13, HeadOfChain DEF ReserveRun, CallOK
    <2> HIDE DEF j
    <2>3. CASE runner' = [runner EXCEPT ![m] = Idle]
      BY <1>0, <1>1, <1>3, <2>3
    <2>4. CASE /\ MayReserve(jobs[j]) /\ jobs' = MarkRunning(jobs, {j})
               /\ runner' = [runner EXCEPT ![m] = w]
      <3>1. w.job = j /\ w.todo = runner[m].todo /\ w.results = runner[m].results
        BY <1>0 DEF RunnerStates
      <3>2. runner' = [runner EXCEPT ![m] = w]
        BY <2>4
      <3> HIDE DEF w
      <3>3. Taken(w) \subseteq Holds(m) \cup {j}
        BY <3>1 DEF Holds, Taken
      <3>4. /\ Holds(m)' \subseteq Holds(m) \cup {j}
            /\ \A q \in Runners \ {m} : Holds(q)' = Holds(q)
        BY <1>0, <3>2, <3>3, EngagedAfter
      <3>5. ~jobs[j].running /\ jobs'[j] = [jobs[j] EXCEPT !.running = TRUE]
        BY <1>4, <2>2, <2>4 DEF MayReserve
      <3>6. Engages(m, {j})
        BY <1>0, <2>4, <3>4, <3>5 DEF Engages
      <3>. QED  BY <1>0, <2>2, <3>6
    <2>. QED  BY <2>1, <2>3, <2>4
  <1>14. ASSUME NEW m \in Manuals, FinishRun(m)
         PROVE  \E n \in Runners, new \in SUBSET Jobs : Engages(n, new)
    <2>1. runner' = [runner EXCEPT ![m] = Idle]
      BY <1>0, <1>14 DEF FinishRun
    <2>. QED  BY <1>0, <1>1, <1>3, <2>1
  <1>15. CASE add \/ enable \/ disable \/ remove \/ ensureLoadedForRead
    <2>1. UNCHANGED runner
      BY <1>15 DEF add, enable, disable, remove, ensureLoadedForRead, UserSection
    <2>. QED  BY <1>2, <2>1
  <1>. QED  BY <1>6, <1>7, <1>8, <1>9, <1>10, <1>11, <1>12, <1>13, <1>14, <1>15
            DEF SomeSection

\* Between sections no runner takes on a job.
LEMMA OthersDisengage ==
  ASSUME TypeInv, [Next]_vars, ~SomeSection
  PROVE  /\ UNCHANGED jobs
         /\ \A r \in Runners : Holds(r)' \subseteq Holds(r)
         /\ UNCHANGED outOfService \/ NobodyRuns'
  <1>0. /\ runner \in [Runners -> RunnerStates] /\ now \in Nat
        /\ "boot" \in Runners /\ "tick" \in Runners /\ Manuals \subseteq Runners
    BY DEF TypeInv, TypeOK, Runners
  <1>1. ASSUME NEW r \in Runners, NEW w, runner' = [runner EXCEPT ![r] = w],
               Taken(w) \subseteq Holds(r)
        PROVE  \A q \in Runners : Holds(q)' \subseteq Holds(q)
    <2>1. /\ Holds(r)' \subseteq Holds(r) \cup {}
          /\ \A q \in Runners \ {r} : Holds(q)' = Holds(q)
      BY <1>0, <1>1, EngagedAfter
    <2>. QED  BY <2>1
  <1>2. ASSUME NEW r \in Runners, NEW w, runner' = [runner EXCEPT ![r] = w],
               w.job = runner[r].job, w.todo = runner[r].todo, w.results = runner[r].results
        PROVE  \A q \in Runners : Holds(q)' \subseteq Holds(q)
    BY <1>1, <1>2 DEF Holds, Running, Taken
  <1>3. CASE TimerFires \/ Restart
    <2>1. \E r \in Runners : runner' = [runner EXCEPT ![r] = [@ EXCEPT !.at = "locked"]]
      BY <1>0, <1>3 DEF TimerFires, Restart
    <2>2. \A r \in Runners : LET w == [runner[r] EXCEPT !.at = "locked"] IN
                             /\ w.job = runner[r].job /\ w.todo = runner[r].todo
                             /\ w.results = runner[r].results
      BY <1>0 DEF RunnerStates
    <2>3. \A q \in Runners : Holds(q)' \subseteq Holds(q)
      BY <1>2, <2>1, <2>2
    <2>. QED  BY <1>3, <2>3 DEF TimerFires, Restart, history
  <1>4. CASE TickEnds
    <2>1. Taken(Idle) \subseteq Holds("tick")
      BY DEF Idle, ToSet, Taken
    <2>2. \A q \in Runners : Holds(q)' \subseteq Holds(q)
      BY <1>0, <1>1, <1>4, <2>1 DEF TickEnds
    <2>. QED  BY <1>4, <2>2 DEF TickEnds, history
  <1>5. ASSUME NEW r \in Runners, NEW status \in {"ok", "error"}, RunEnds(r, status)
        PROVE  /\ UNCHANGED <<jobs, outOfService>>
               /\ \A q \in Runners : Holds(q)' \subseteq Holds(q)
    <2> DEFINE res == [job |-> runner[r].job, status |-> status,
                       started |-> runner[r].started, ended |-> now]
               w == [runner[r] EXCEPT !.results = @ \cup {res}]
    <2>1. runner' = [runner EXCEPT ![r] = StartNext(w)] /\ UNCHANGED <<jobs, outOfService>>
          /\ runner[r].at = "running"
      BY <1>5 DEF RunEnds, history
    <2>2. runner[r].started \in Moments /\ runner[r].job \in Jobs
      BY <1>0, <2>1 DEF TypeInv, RunsAJob, RunnerStates
    <2>3. res \in Results /\ res.job \in Running(r)
      BY <1>0, <2>2, JobsAssumption DEF Results, Running
    <2> HIDE DEF res
    <2>4. w \in RunnerStates /\ w.todo = runner[r].todo /\ w.results = runner[r].results \cup {res}
      BY <1>0, <2>3 DEF RunnerStates
    <2> HIDE DEF w
    <2>5. /\ ({StartNext(w).job} \ {NoJob}) \cup ToSet(StartNext(w).todo) \subseteq ToSet(w.todo)
          /\ StartNext(w).results = w.results
      BY <1>0, <2>4, StartedNext
    <2>6. Taken(StartNext(w)) \subseteq Holds(r)
      BY <2>3, <2>4, <2>5 DEF Holds, Taken
    <2>. QED  BY <1>1, <2>1, <2>6
  <1>6. ASSUME NEW m \in Manuals, NEW j \in Jobs, NEW mode, RequestRun(m, j, mode)
        PROVE  /\ UNCHANGED <<jobs, outOfService>>
               /\ \A q \in Runners : Holds(q)' \subseteq Holds(q)
    <2> DEFINE w == [runner[m] EXCEPT !.at = "locked", !.mode = mode]
    <2>1. runner' = [runner EXCEPT ![m] = w] /\ UNCHANGED <<jobs, outOfService>>
      BY <1>0, <1>6 DEF RequestRun, history
    <2>2. w.job = runner[m].job /\ w.todo = runner[m].todo /\ w.results = runner[m].results
      BY <1>0 DEF RunnerStates
    <2> HIDE DEF w
    <2>. QED  BY <1>0, <1>2, <2>1, <2>2
  <1>7. CASE Crash
    <2>1. \A r \in Runners : runner'[r] = Idle
      BY <1>7 DEF Crash
    <2>2. NobodyRuns'
      BY <2>1 DEF NobodyRuns, Holds, Running, Idle, ToSet
    <2>. QED  BY <1>7, <2>2 DEF Crash, NobodyRuns
  <1>8. CASE Pass \/ UNCHANGED vars \/ \E kind \in UserOps, j \in Jobs : RequestOp(kind, j)
    <2>1. UNCHANGED <<jobs, runner, outOfService>>
      BY <1>8 DEF Pass, vars, ctlVars, history, RequestOp
    <2>. QED  BY <2>1 DEF Holds, Running
  <1>. QED  BY <1>3, <1>4, <1>5, <1>6, <1>7, <1>8 DEF Next

LEMMA InitExclusive == Init => ExclusiveInv
  <1> SUFFICES ASSUME Init PROVE ExclusiveInv
    OBVIOUS
  <1>1. \A r \in Runners : /\ runner[r].job = NoJob /\ runner[r].todo = <<>>
                           /\ runner[r].results = {}
    BY DEF Init, Idle
  <1>2. NobodyRuns
    BY <1>1 DEF NobodyRuns, Holds, Running, ToSet
  <1>3. DOMAIN chain = {1}
    BY DEF Init
  <1>. QED  BY <1>1, <1>2, <1>3, InitAwake
            DEF ExclusiveInv, Exclusive, Marked, ClearFirst, NobodyRuns, Quiet, QuietWork

\* A job that nobody has an outcome for keeps its state.
LEMMA Unapplied ==
  ASSUME NEW js, NEW results, NEW j \in Jobs, \A res \in results : res.job # j
  PROVE  applyOutcomes(js, results)[j] = js[j]
  BY DEF applyOutcomes

\* The same state of a job, but for its slot.
Reslotted(s, t) == t = s \/ \E time : t = [s EXCEPT !.next = time]

\* A job in service stays in service when its slot moves.
LEMMA ReslottedServes ==
  ASSUME NEW s \in JobStates, InService(s), NEW t, Reslotted(s, t)
  PROVE  InService(t) /\ \A u : Reslotted(t, u) => Reslotted(s, u)
  <1>1. CASE t = s
    BY <1>1
  <1>2. ASSUME NEW time, t = [s EXCEPT !.next = time]
        PROVE  InService(t) /\ \A u : Reslotted(t, u) => Reslotted(s, u)
    <2>1. InService(t)
      BY <1>2 DEF InService, JobStates
    <2>2. \A later : [t EXCEPT !.next = later] = [s EXCEPT !.next = later]
      BY <1>2 DEF JobStates
    <2>. QED  BY <1>2, <2>1, <2>2 DEF Reslotted
  <1>. QED  BY <1>1, <1>2 DEF Reslotted

\* Maintenance takes nothing but its slot from a job in service.
LEMMA MaintenanceKeepsMarkers ==
  ASSUME NEW js, NEW j \in Jobs, NEW s \in JobStates, InService(s), Reslotted(s, js[j]),
         NEW expired \in BOOLEAN
  PROVE  /\ recomputeNextRunsForMaintenance(js, expired)[j].running
         /\ recomputeNextRuns(js)[j].running
  <1>1. InService(js[j]) /\ \A u : Reslotted(js[j], u) => Reslotted(s, u)
    BY ReslottedServes
  <1>2. ASSUME NEW e \in BOOLEAN
        PROVE  Reslotted(js[j], MaintainJob(j, js[j], e))
    BY <1>1 DEF MaintainJob, InService, Reslotted
  <1>3. ASSUME NEW e \in BOOLEAN
        PROVE  InService(MaintainJob(j, js[j], e))
    BY <1>1, <1>2, <1>3, ReslottedServes
  <1>4. recomputeNextRunsForMaintenance(js, expired)[j].running
    BY <1>3 DEF recomputeNextRunsForMaintenance, InService
  <1> DEFINE t == MaintainJob(j, js[j], FALSE)
  <1>5. Reslotted(t, recomputeNextRuns(js)[j])
    BY DEF recomputeNextRuns, Reslotted
  <1>6. Reslotted(s, t)
    BY <1>1, <1>2
  <1> HIDE DEF t
  <1>7. InService(recomputeNextRuns(js)[j])
    BY <1>5, <1>6, ReslottedServes
  <1>. QED  BY <1>4, <1>7 DEF InService

\* The runner whose outcomes are applied holds nothing afterwards; so the others'
\* jobs in service keep their state.
LEMMA OthersUnapplied ==
  ASSUME Exclusive, NEW n \in Runners, Holds(n)' = {},
         NEW r \in Runners, NEW j \in Jobs \ outOfService, j \in Holds(r), j \in Holds(r)'
  PROVE  \A js : applyOutcomes(js, runner[n].results)[j] = js[j]
  <1>1. r # n
    OBVIOUS
  <1>2. j \notin Holds(n)
    BY <1>1 DEF Exclusive
  <1>3. \A res \in runner[n].results : res.job # j
    BY <1>2 DEF Holds
  <1>. QED  BY <1>3, Unapplied

\* A section takes no marker from a job that somebody goes on holding and that
\* stays enabled.
LEMMA MarkersKept ==
  ASSUME TypeInv, ExclusiveInv, SomeSection,
         NEW r \in Runners, NEW j \in Jobs \ outOfService, j \in Holds(r), j \in Holds(r)',
         jobs'[j].present, jobs'[j].enabled
  PROVE  jobs'[j].running
  <1>0. /\ runner \in [Runners -> RunnerStates] /\ jobs \in [Jobs -> JobStates]
        /\ "boot" \in Runners /\ "tick" \in Runners /\ Manuals \subseteq Runners
        /\ InService(jobs[j]) /\ Exclusive /\ jobs[j] \in JobStates
    BY DEF TypeInv, TypeOK, Runners, ExclusiveInv, Marked
  <1>1. ASSUME NEW ids, jobs' = MarkRunning(jobs, ids)
        PROVE  jobs'[j].running
    BY <1>0, <1>1 DEF MarkRunning, JobStates, InService
  <1>2. ASSUME NEW js, Reslotted(jobs[j], js[j]), NEW expired \in BOOLEAN,
               \/ jobs' = recomputeNextRunsForMaintenance(js, expired)
               \/ jobs' = recomputeNextRuns(js)
        PROVE  jobs'[j].running
    BY <1>0, <1>2, MaintenanceKeepsMarkers
  <1>3. ASSUME jobs'[j] = jobs[j]
        PROVE  jobs'[j].running
    BY <1>0, <1>3 DEF InService
  <1>4. ASSUME NEW n \in Runners, NEW w, runner' = [runner EXCEPT ![n] = w],
               w.job = NoJob, w.todo = <<>>, w.results = {}
        PROVE  \A js : applyOutcomes(js, runner[n].results)[j] = js[j]
    <2>1. runner'[n] = w
      BY <1>0, <1>4
    <2>2. Holds(n)' = {}
      BY <1>4, <2>1 DEF Holds, Running, ToSet
    <2>. QED  BY <1>0, <2>2, OthersUnapplied
  <1>5. CASE ClearStaleMarkers
    <2>1. 1 \in DOMAIN chain /\ chain[1].kind = "clear"
      BY <1>5, HeadOfChain DEF ClearStaleMarkers
    <2>2. Holds(r) = {}
      BY <2>1 DEF ExclusiveInv, ClearFirst, NobodyRuns
    <2>. QED  BY <2>2
  <1>6. CASE planStartupCatchup
    BY <1>1, <1>6 DEF planStartupCatchup
  <1>7. CASE applyStartupCatchupOutcomes
    <2> DEFINE w == [runner["boot"] EXCEPT !.deferred = <<>>, !.results = {}]
               applied == applyOutcomes(jobs, runner["boot"].results)
    <2>1. runner' = [runner EXCEPT !["boot"] = w]
          /\ jobs' = recomputeNextRunsForMaintenance(Deferred(applied), FALSE)
      BY <1>0, <1>7 DEF applyStartupCatchupOutcomes, Store
    <2>2. runner["boot"].at = "locked"
      <3>1. Head(chain).who = "boot"
        BY <1>7, HeadOfChain DEF applyStartupCatchupOutcomes, CallOK
      <3>. QED  BY <1>0, <1>7, <3>1, HeadOfChain DEF applyStartupCatchupOutcomes, ExclusiveInv
    <2>3. w.job = NoJob /\ w.todo = <<>> /\ w.results = {}
      BY <1>0, <2>2 DEF ExclusiveInv, Quiet, QuietWork, RunnerStates
    <2> HIDE DEF w
    <2>4. applied[j] = jobs[j]
      BY <1>0, <1>4, <2>1, <2>3
    <2> HIDE DEF applied
    <2>5. Reslotted(applied[j], Deferred(applied)[j])
      BY DEF Deferred, Reslotted
    <2>. QED  BY <1>2, <2>1, <2>4, <2>5
  <1>8. CASE StartEnds
    BY <1>2, <1>8 DEF StartEnds, Store, Reslotted
  <1>9. CASE MarkDueJobs
    BY <1>1, <1>2, <1>9 DEF MarkDueJobs, Store, Reslotted
  <1>10. CASE ApplyTickOutcomes
    <2> DEFINE w == [runner["tick"] EXCEPT !.at = "ending", !.results = {}]
               applied == applyOutcomes(jobs, runner["tick"].results)
    <2>1. runner' = [runner EXCEPT !["tick"] = w]
          /\ jobs' = recomputeNextRunsForMaintenance(applied, FALSE)
      BY <1>0, <1>10 DEF ApplyTickOutcomes, Store
    <2>2. runner["tick"].at = "locked"
      <3>1. Head(chain).who = "tick"
        BY <1>10, HeadOfChain DEF ApplyTickOutcomes, CallOK
      <3>. QED  BY <1>0, <1>10, <3>1, HeadOfChain DEF ApplyTickOutcomes, ExclusiveInv
    <2>3. w.job = NoJob /\ w.todo = <<>> /\ w.results = {}
      BY <1>0, <2>2 DEF ExclusiveInv, Quiet, QuietWork, RunnerStates
    <2> HIDE DEF w
    <2>4. applied[j] = jobs[j]
      BY <1>0, <1>4, <2>1, <2>3
    <2> HIDE DEF applied
    <2>. QED  BY <1>2, <2>1, <2>4 DEF Reslotted
  <1>11. ASSUME NEW m \in Manuals, PreflightRun(m)
         PROVE  jobs'[j].running
    BY <1>2, <1>11 DEF PreflightRun, Store, Reslotted
  <1>12. ASSUME NEW m \in Manuals, ReserveRun(m)
         PROVE  jobs'[j].running
    BY <1>1, <1>3, <1>12 DEF ReserveRun, Store
  <1>13. ASSUME NEW m \in Manuals, FinishRun(m)
         PROVE  jobs'[j].running
    <2> DEFINE applied == applyOutcomes(jobs, runner[m].results)
    <2>1. /\ runner' = [runner EXCEPT ![m] = Idle]
          /\ jobs' = jobs \/ jobs' = recomputeNextRunsForMaintenance(applied, TRUE)
      BY <1>13 DEF FinishRun, Store
    <2>2. Idle.job = NoJob /\ Idle.todo = <<>> /\ Idle.results = {}
      BY DEF Idle
    <2>3. applied[j] = jobs[j]
      BY <1>0, <1>4, <2>1, <2>2
    <2> HIDE DEF applied
    <2>. QED  BY <1>2, <1>3, <2>1, <2>3 DEF Reslotted
  <1>14. CASE add
    <2> DEFINE s == Fresh(Asked, NoTime)
               t == [s EXCEPT !.next = computeJobNextRunAtMs(Asked, s, now)]
               js == IF jobs[Asked].present THEN jobs ELSE [jobs EXCEPT ![Asked] = t]
    <2>1. jobs' = recomputeNextRuns(js)
      BY <1>14 DEF add, UserSection, Store
    <2> HIDE DEF s, t
    <2>2. js[j] = jobs[j]
      BY <1>0 DEF InService
    <2> HIDE DEF js
    <2>. QED  BY <1>2, <2>1, <2>2 DEF Reslotted
  <1>15. CASE enable
    <2> DEFINE s == [jobs[j] EXCEPT !.enabled = TRUE]
    <2>1. jobs'[j] = jobs[j] \/ \E t : jobs'[j] = [s EXCEPT !.next = t]
      BY <1>0, <1>15 DEF enable, UserSection, Store
    <2>. QED  BY <1>0, <1>3, <2>1 DEF InService, JobStates
  <1>16. CASE disable
    <2>1. jobs'[j] = jobs[j]
          \/ jobs'[j] = [jobs[j] EXCEPT !.enabled = FALSE, !.next = NoTime, !.running = FALSE]
      BY <1>0, <1>16 DEF disable, UserSection, Store
    <2>. QED  BY <1>0, <1>3, <2>1 DEF JobStates
  <1>17. CASE remove
    <2>1. jobs'[j] = jobs[j] \/ jobs'[j] = Absent
      BY <1>0, <1>17 DEF remove, UserSection, Store
    <2>. QED  BY <1>3, <2>1 DEF Absent
  <1>18. CASE ensureLoadedForRead
    BY <1>2, <1>18 DEF ensureLoadedForRead, UserSection, Store, Reslotted
  <1>. QED  BY <1>5, <1>6, <1>7, <1>8, <1>9, <1>10, <1>11, <1>12, <1>13, <1>14, <1>15, <1>16,
               <1>17, <1>18 DEF SomeSection

\* A job that is held and not in service after a section is recorded.
LEMMA LostMarkers ==
  ASSUME TypeInv, ExclusiveInv, SomeSection,
         NEW n \in Runners, NEW new \in SUBSET Jobs, Engages(n, new)
  PROVE  Recorded
  <1>1. SUFFICES ASSUME NEW j \in Jobs \ outOfService', NEW r \in Runners, j \in Holds(r)'
                 PROVE  j \notin outOfService /\ InService(jobs'[j])
    BY DEF Recorded
  <1>2. j \notin outOfService /\ jobs'[j].present /\ jobs'[j].enabled
    BY <1>1, SectionsTrack DEF Track
  <1>3. CASE j \in Holds(r)
    BY <1>1, <1>2, <1>3, MarkersKept DEF InService
  <1>4. CASE j \notin Holds(r)
    <2>1. j \in new /\ jobs[j] \in JobStates
      BY <1>1, <1>4 DEF Engages, TypeInv, TypeOK
    <2>2. jobs'[j].running
      BY <2>1 DEF Engages, JobStates
    <2>. QED  BY <1>2, <2>2 DEF InService
  <1>. QED  BY <1>3, <1>4

\* Every step leaves a runner that runs nothing with nothing left to run.
LEMMA QuietStep ==
  ASSUME TypeInv, ExclusiveInv, [Next]_vars
  PROVE  Quiet'
  <1>0. /\ runner \in [Runners -> RunnerStates] /\ now \in Nat /\ Quiet /\ OneCall /\ ClearFirst
        /\ "boot" \in Runners /\ "tick" \in Runners /\ Manuals \subseteq Runners
    BY DEF TypeInv, TypeOK, Runners, ExclusiveInv
  <1>1. ASSUME NEW r \in Runners, NEW w, runner' = [runner EXCEPT ![r] = w], QuietWork(w)
        PROVE  Quiet'
    BY <1>0, <1>1 DEF Quiet
  <1>2. ASSUME NEW r \in Runners, NEW w, runner' = [runner EXCEPT ![r] = w],
               runner[r].at # "running", w.job = runner[r].job, w.todo = runner[r].todo
        PROVE  Quiet'
    BY <1>0, <1>1, <1>2 DEF Quiet, QuietWork
  <1>3. QuietWork(Idle)
    BY DEF QuietWork, Idle
  <1>4. ASSUME UNCHANGED runner
        PROVE  Quiet'
    BY <1>0, <1>4 DEF Quiet
  <1>5. \A kind, more : Section(kind, more) /\ Head(chain).who \in Runners
                        => runner[Head(chain).who].at = "locked"
    BY <1>0, HeadOfChain
  <1>6. CASE ClearStaleMarkers
    BY <1>4, <1>6 DEF ClearStaleMarkers
  <1>7. CASE planStartupCatchup
    <2>1. PICK w \in RunnerStates, missed \in Seq(Jobs) :
            runner' = [runner EXCEPT !["boot"] = IF missed = <<>> THEN @ ELSE StartNext(w)]
      BY <1>7, PlannedRuns
    <2>2. QuietWork(StartNext(w)) /\ QuietWork(runner["boot"])
      BY <1>0, StartedNext DEF Quiet
    <2>. QED  BY <1>0, <1>1, <2>1, <2>2
  <1>8. CASE applyStartupCatchupOutcomes
    <2> DEFINE w == [runner["boot"] EXCEPT !.deferred = <<>>, !.results = {}]
    <2>1. runner' = [runner EXCEPT !["boot"] = w]
      BY <1>0, <1>8 DEF applyStartupCatchupOutcomes
    <2>2. w.job = runner["boot"].job /\ w.todo = runner["boot"].todo /\ w.at = runner["boot"].at
      BY <1>0 DEF RunnerStates
    <2> HIDE DEF w
    <2>. QED  BY <1>0, <1>1, <2>1, <2>2 DEF Quiet, QuietWork
  <1>9. CASE StartEnds
    BY <1>0, <1>1, <1>3, <1>9 DEF StartEnds
  <1>10. CASE MarkDueJobs
    <2>1. PICK due \in InStoreOrder({j \in Jobs : Runnable(j)}) :
            \/ runner' = [runner EXCEPT !["tick"] = [@ EXCEPT !.at = "ending"]]
            \/ runner' = [runner EXCEPT !["tick"] = StartNext([@ EXCEPT !.todo = due])]
      BY <1>10 DEF MarkDueJobs
    <2> DEFINE w == [runner["tick"] EXCEPT !.todo = due]
               v == [runner["tick"] EXCEPT !.at = "ending"]
    <2>2. due \in Seq(Jobs)
      BY <2>1, ListOfJobs DEF InStoreOrder
    <2>3. w \in RunnerStates
      BY <1>0, <2>2 DEF RunnerStates
    <2>4. v.job = runner["tick"].job /\ v.todo = runner["tick"].todo
      BY <1>0 DEF RunnerStates
    <2>5. runner["tick"].at = "locked"
      <3>1. Section("mark", <<>>)
        BY <1>10 DEF MarkDueJobs
      <3>2. Head(chain).who = "tick"
        BY <3>1, HeadOfChain DEF CallOK
      <3>. QED  BY <1>0, <1>5, <3>1, <3>2
    <2>6. \/ runner' = [runner EXCEPT !["tick"] = v]
          \/ runner' = [runner EXCEPT !["tick"] = StartNext(w)]
      BY <2>1
    <2> HIDE DEF w, v
    <2>7. QuietWork(StartNext(w))
      BY <1>0, <2>3, StartedNext
    <2>. QED  BY <1>0, <1>1, <1>2, <2>4, <2>5, <2>6, <2>7
  <1>11. CASE ApplyTickOutcomes
    <2> DEFINE w == [runner["tick"] EXCEPT !.at = "ending", !.results = {}]
    <2>1. runner' = [runner EXCEPT !["tick"] = w] /\ Section("applyTick", <<>>)
      BY <1>0, <1>11 DEF ApplyTickOutcomes
    <2>2. w.job = runner["tick"].job /\ w.todo = runner["tick"].todo
      BY <1>0 DEF RunnerStates
    <2> HIDE DEF w
    <2>3. runner["tick"].at = "locked"
      <3>1. Head(chain).who = "tick"
        BY <2>1, HeadOfChain DEF CallOK
      <3>. QED  BY <1>0, <1>5, <2>1, <3>1
    <2>. QED  BY <1>0, <1>2, <2>1, <2>2, <2>3
  <1>12. ASSUME NEW m \in Manuals, PreflightRun(m) \/ ReserveRun(m) \/ FinishRun(m)
         PROVE  Quiet'
    <2> DEFINE w == [runner[m] EXCEPT !.started = now]
               v == [runner[m] EXCEPT !.at = "running", !.job = Head(chain).job]
    <2>1. \/ runner' = [runner EXCEPT ![m] = w] \/ runner' = [runner EXCEPT ![m] = v]
          \/ runner' = [runner EXCEPT ![m] = Idle]
      BY <1>12 DEF PreflightRun, ReserveRun, FinishRun
    <2>2. /\ w.job = runner[m].job /\ w.todo = runner[m].todo /\ w.at = runner[m].at
          /\ v.at = "running"
      BY <1>0 DEF RunnerStates
    <2> HIDE DEF w, v
    <2>3. QuietWork(w) /\ QuietWork(v)
      BY <1>0, <2>2 DEF Quiet, QuietWork
    <2>. QED  BY <1>0, <1>1, <1>3, <2>1, <2>3
  <1>13. CASE add \/ enable \/ disable \/ remove \/ ensureLoadedForRead
    BY <1>4, <1>13 DEF add, enable, disable, remove, ensureLoadedForRead, UserSection
  <1>14. CASE TimerFires
    <2> DEFINE w == [runner["tick"] EXCEPT !.at = "locked"]
    <2>1. runner' = [runner EXCEPT !["tick"] = w] /\ runner["tick"].at = "idle"
      BY <1>14 DEF TimerFires
    <2>2. w.job = runner["tick"].job /\ w.todo = runner["tick"].todo
      BY <1>0 DEF RunnerStates
    <2> HIDE DEF w
    <2>. QED  BY <1>0, <1>2, <2>1, <2>2
  <1>15. CASE TickEnds
    BY <1>0, <1>1, <1>3, <1>15 DEF TickEnds
  <1>16. ASSUME NEW r \in Runners, NEW status \in {"ok", "error"}, RunEnds(r, status)
         PROVE  Quiet'
    <2> DEFINE res == [job |-> runner[r].job, status |-> status,
                       started |-> runner[r].started, ended |-> now]
               w == [runner[r] EXCEPT !.results = @ \cup {res}]
    <2>1. runner' = [runner EXCEPT ![r] = StartNext(w)] /\ runner[r].at = "running"
      BY <1>16 DEF RunEnds
    <2>2. res \in Results
      BY <1>0, <2>1 DEF TypeInv, RunsAJob, RunnerStates, Results
    <2> HIDE DEF res
    <2>3. w \in RunnerStates
      BY <1>0, <2>2 DEF RunnerStates
    <2> HIDE DEF w
    <2>. QED  BY <1>0, <1>1, <2>1, <2>3, StartedNext
  <1>17. ASSUME NEW m \in Manuals, NEW j \in Jobs, NEW mode, RequestRun(m, j, mode)
         PROVE  Quiet'
    <2> DEFINE w == [runner[m] EXCEPT !.at = "locked", !.mode = mode]
    <2>1. runner' = [runner EXCEPT ![m] = w] /\ runner[m].at = "idle"
      BY <1>0, <1>17 DEF RequestRun
    <2>2. w.job = runner[m].job /\ w.todo = runner[m].todo
      BY <1>0 DEF RunnerStates
    <2> HIDE DEF w
    <2>. QED  BY <1>0, <1>2, <2>1, <2>2
  <1>18. CASE Crash
    BY <1>3, <1>18 DEF Crash, Quiet
  <1>19. CASE Restart
    <2> DEFINE w == [runner["boot"] EXCEPT !.at = "locked"]
    <2>1. runner' = [runner EXCEPT !["boot"] = w] /\ Holds("boot") = {}
      BY <1>0, <1>19 DEF Restart, ClearFirst, NobodyRuns
    <2>2. w.job = runner["boot"].job /\ w.todo = runner["boot"].todo
          /\ w.todo \in Seq(Jobs)
      BY <1>0 DEF RunnerStates
    <2> HIDE DEF w
    <2>3. w.job = NoJob /\ ToSet(w.todo) = {}
      BY <2>1, <2>2 DEF Holds, Running
    <2>4. w.todo = <<>>
      <3>1. Len(w.todo) = 0
        <4>1. Len(w.todo) \in Nat /\ DOMAIN w.todo = 1..Len(w.todo)
          BY <2>2, LenProperties
        <4>2. \A i \in DOMAIN w.todo : FALSE
          BY <2>3 DEF ToSet
        <4>. QED  BY <4>1, <4>2
      <3>. QED  BY <2>2, <3>1, EmptySeq
    <2>. QED  BY <1>0, <1>1, <2>1, <2>3, <2>4 DEF QuietWork
  <1>20. CASE Pass \/ UNCHANGED vars \/ \E kind \in UserOps, j \in Jobs : RequestOp(kind, j)
    BY <1>4, <1>20 DEF Pass, vars, ctlVars, RequestOp
  <1>. QED  BY <1>6, <1>7, <1>8, <1>9, <1>10, <1>11, <1>12, <1>13, <1>14, <1>15, <1>16, <1>17,
               <1>18, <1>19, <1>20 DEF Next, SomeSection

LEMMA ExclusiveStep ==
  ASSUME TypeInv, ExclusiveInv, [Next]_vars
  PROVE  ExclusiveInv'
  <1>1. ClearFirst' /\ Quiet' /\ OneCall'
    BY ClearStep, OthersDisengage, QuietStep, OneCallStep DEF ExclusiveInv
  <1>2. CASE SomeSection
    <2>1. PICK n \in Runners, new \in SUBSET Jobs : Engages(n, new)
      BY <1>2, SectionEngages
    <2>2. Recorded
      BY <1>2, <2>1, LostMarkers
    <2>3. (Exclusive /\ Marked)'
      BY <2>1, <2>2, EngagementStep DEF Engages, ExclusiveInv
    <2>. QED  BY <1>1, <2>3 DEF ExclusiveInv
  <1>3. CASE ~SomeSection
    <2>1. CASE UNCHANGED outOfService
      <3>1. (Exclusive /\ Marked)'
        BY <1>3, <2>1, OthersDisengage, DisengagementStep DEF ExclusiveInv
      <3>. QED  BY <1>1, <3>1 DEF ExclusiveInv
    <2>2. CASE NobodyRuns'
      BY <1>1, <2>2 DEF ExclusiveInv, Exclusive, Marked, NobodyRuns
    <2>. QED  BY <1>3, <2>1, <2>2, OthersDisengage
  <1>. QED  BY <1>2, <1>3

\* Ticks, the catch-up and manual runs never run a job that is running, as long as
\* it stays enabled until the outcome of its run is in the store.
THEOREM RunsOnce == Spec => []OneRunAtATime
  <1>1. Init => TypeInv /\ JobsInv /\ ExclusiveInv
    BY InitType, InitJobs, InitExclusive
  <1>2. TypeInv /\ JobsInv /\ ExclusiveInv /\ [Next]_vars => (TypeInv /\ JobsInv /\ ExclusiveInv)'
    BY TypeStep, ExclusiveStep
  <1>3. ExclusiveInv => OneRunAtATime
    BY DEF ExclusiveInv, Exclusive, OneRunAtATime, Holds
  <1>. QED  BY <1>1, <1>2, <1>3, PTL DEF Spec

-----------------------------------------------------------------------------
(* Slots that have passed.                                                 *)

\* The repairs leave an enabled job as it is.
LEMMA RepairsNothing ==
  ASSUME now \in Nat, NEW js, Sound(js), NEW expired \in BOOLEAN, NEW j \in Jobs,
         js[j].present, js[j].enabled
  PROVE  recomputeNextRunsForMaintenance(js, expired)[j] = js[j]
  BY MaintainedJob DEF recomputeNextRunsForMaintenance, Sound

\* A step moves the slot of a due job only with the outcome of a run of it, or as
\* one of the exceptions.
LEMMA DueSlotStep ==
  ASSUME TypeInv, JobsInv, [Next]_vars, NEW j \in Jobs,
         jobs[j].present, IsDue(jobs[j]), jobs'[j].present, jobs'[j].enabled,
         jobs'[j].next # jobs[j].next
  PROVE  \/ \E r \in Runners : /\ Head(chain).who = r
                              /\ \E res \in runner[r].results : res.job = j
         \/ Head(chain).kind \in {"add", "final"}
         \/ Head(chain).kind = "enable" /\ Asked = j
         \/ j \in ToSet(runner["boot"].deferred)
  <1>0. /\ runner \in [Runners -> RunnerStates] /\ now \in Nat /\ Sound(jobs) /\ TypeOK
        /\ jobs \in [Jobs -> JobStates]
        /\ "boot" \in Runners /\ "tick" \in Runners /\ Manuals \subseteq Runners
    BY DEF TypeInv, TypeOK, Runners, JobsInv
  <1>1. jobs[j].enabled
    BY DEF IsDue
  <1>2. ASSUME NEW expired \in BOOLEAN
        PROVE  jobs' # recomputeNextRunsForMaintenance(jobs, expired)
    BY <1>0, <1>1, RepairsNothing
  <1>3. ASSUME NEW ids PROVE jobs' # MarkRunning(jobs, ids)
    BY <1>0 DEF MarkRunning, JobStates
  <1>4. ASSUME NEW r \in Runners, Head(chain).who = r,
               ~\E res \in runner[r].results : res.job = j
        PROVE  /\ Sound(applyOutcomes(jobs, runner[r].results))
               /\ applyOutcomes(jobs, runner[r].results)[j] = jobs[j]
    <2>1. runner[r].results \in SUBSET Results
      BY <1>0 DEF RunnerStates
    <2>. QED  BY <1>0, <1>4, <2>1, Applied DEF JobsInv, Timed, applyOutcomes
  <1>5. ASSUME NEW r \in Runners, Head(chain).who = r, NEW expired \in BOOLEAN,
               ~\E res \in runner[r].results : res.job = j
        PROVE  jobs' # recomputeNextRunsForMaintenance(
                         applyOutcomes(jobs, runner[r].results), expired)
    BY <1>0, <1>1, <1>4, <1>5, RepairsNothing
  <1>6. CASE ClearStaleMarkers
    BY <1>0, <1>6 DEF ClearStaleMarkers, JobStates
  <1>7. CASE planStartupCatchup
    BY <1>3, <1>7 DEF planStartupCatchup
  <1>8. CASE applyStartupCatchupOutcomes
    <2> DEFINE applied == applyOutcomes(jobs, runner["boot"].results)
    <2>1. Head(chain).who = "boot"
          /\ jobs' = recomputeNextRunsForMaintenance(Deferred(applied), FALSE)
      BY <1>8, HeadOfChain DEF applyStartupCatchupOutcomes, Store, CallOK
    <2>2. SUFFICES ASSUME ~\E res \in runner["boot"].results : res.job = j,
                          j \notin ToSet(runner["boot"].deferred)
                   PROVE  FALSE
      BY <1>0, <2>1
    <2>3. Sound(applied) /\ applied[j] = jobs[j]
      BY <1>0, <1>4, <2>1, <2>2
    <2> HIDE DEF applied
    <2>4. Sound(Deferred(applied)) /\ Deferred(applied)[j] = jobs[j]
      BY <1>0, <2>2, <2>3, DeferredStore, DeferredJob
    <2>. QED  BY <1>0, <1>1, <2>1, <2>4, RepairsNothing
  <1>9. CASE StartEnds
    BY <1>9, HeadOfChain DEF StartEnds
  <1>10. CASE MarkDueJobs
    BY <1>2, <1>3, <1>10 DEF MarkDueJobs, Store
  <1>11. CASE ApplyTickOutcomes
    <2>1. Head(chain).who = "tick"
      BY <1>11, HeadOfChain DEF ApplyTickOutcomes, CallOK
    <2>. QED  BY <1>0, <1>5, <1>11, <2>1 DEF ApplyTickOutcomes, Store
  <1>12. CASE \E m \in Manuals : PreflightRun(m) \/ ReserveRun(m)
    BY <1>2, <1>3, <1>12 DEF PreflightRun, ReserveRun, Store
  <1>13. ASSUME NEW m \in Manuals, FinishRun(m)
         PROVE  \E r \in Runners : /\ Head(chain).who = r
                                  /\ \E res \in runner[r].results : res.job = j
    BY <1>0, <1>5, <1>13 DEF FinishRun, Store
  <1>14. CASE add
    BY <1>14, HeadOfChain DEF add, UserSection
  <1>15. CASE enable
    <2>1. Head(chain).kind = "enable"
      BY <1>15, HeadOfChain DEF enable, UserSection
    <2>2. CASE Asked # j
      <3>1. jobs'[j] = jobs[j]
        BY <1>0, <1>15, <2>2 DEF enable, UserSection, Store
      <3>. QED  BY <3>1
    <2>. QED  BY <2>1, <2>2
  <1>16. CASE disable
    <2>1. jobs'[j] = jobs[j] \/ jobs'[j].enabled = FALSE
      BY <1>0, <1>16 DEF disable, UserSection, Store, JobStates
    <2>. QED  BY <2>1
  <1>17. CASE remove
    <2>1. jobs'[j] = jobs[j] \/ jobs'[j] = Absent
      BY <1>0, <1>17 DEF remove, UserSection, Store
    <2>. QED  BY <2>1 DEF Absent
  <1>18. CASE ensureLoadedForRead
    BY <1>2, <1>18 DEF ensureLoadedForRead, UserSection, Store
  <1>19. CASE ~SomeSection
    BY <1>19, OthersDisengage
  <1>. QED  BY <1>6, <1>7, <1>8, <1>9, <1>10, <1>11, <1>12, <1>13, <1>14, <1>15, <1>16, <1>17,
               <1>18, <1>19 DEF SomeSection

\* The slot of a job that is due moves only with a run of that job, when the user
\* enables it or adds a job, or at a start.
THEOREM DueSlotsWait == Spec => DueSlotWaitsForARun
  <1>1. Init => TypeInv /\ JobsInv
    BY InitType, InitJobs
  <1>2. TypeInv /\ JobsInv /\ [Next]_vars =>
          [\A j \in Jobs :
             /\ jobs[j].present /\ IsDue(jobs[j]) /\ jobs'[j].present /\ jobs'[j].enabled
             /\ jobs'[j].next # jobs[j].next
             => \/ \E r \in Runners : /\ Head(chain).who = r
                                    /\ \E res \in runner[r].results : res.job = j
                \/ Head(chain).kind \in {"add", "final"}
                \/ Head(chain).kind = "enable" /\ Asked = j
                \/ j \in ToSet(runner["boot"].deferred)]_vars
    BY DueSlotStep
  <1>. QED  BY <1>1, <1>2, TypeStep, PTL DEF Spec, DueSlotWaitsForARun

-----------------------------------------------------------------------------
(* One-shot jobs that succeeded.                                           *)

Settled(j, s) == s.present /\ s.enabled /\ Served(j, s) => s.next = NoTime

\* A job that is marked after a section has been served when it was before it.
Kept(s, t) == t.running => t.status = s.status /\ t.lastRun = s.lastRun

\* The outcome of a run settles a one-shot job, and takes its marker.
LEMMA AppliedOneShot ==
  ASSUME NEW j \in OneShots, NEW s \in JobStates, NEW res \in Results
  PROVE  Settled(j, applyJobResult(j, s, res)) /\ ~applyJobResult(j, s, res).running
  <1> DEFINE errors == IF res.status = "error" THEN s.errors + 1 ELSE 0
             r == [s EXCEPT !.running = FALSE, !.lastRun = res.started,
                            !.status = res.status, !.errors = errors]
             off == [r EXCEPT !.enabled = FALSE, !.next = NoTime]
             retry == [r EXCEPT !.next = res.ended + Backoff]
  <1>1. applyJobResult(j, s, res)
          = IF res.status = "ok" THEN IF j \in DeleteAfterRun THEN Absent ELSE off
            ELSE IF errors <= MaxAttempts THEN retry ELSE off
    BY DEF applyJobResult
  <1> HIDE DEF errors
  <1>2. r.running = FALSE /\ r.status = res.status
        /\ off.running = FALSE /\ off.enabled = FALSE /\ off.next = NoTime
        /\ retry.running = FALSE /\ retry.status = res.status
    BY DEF JobStates
  <1>3. Absent.running = FALSE /\ Absent.present = FALSE
    BY DEF Absent
  <1> HIDE DEF r, off, retry
  <1>. QED  BY <1>1, <1>2, <1>3 DEF Settled, Served

LEMMA AppliedDone ==
  ASSUME NEW js \in [Jobs -> JobStates], NEW results \in SUBSET Results,
         NEW j \in OneShots, Settled(j, js[j])
  PROVE  /\ Settled(j, applyOutcomes(js, results)[j])
         /\ Kept(js[j], applyOutcomes(js, results)[j])
  <1>1. j \in Jobs
    BY JobsAssumption
  <1>2. CASE js[j].present /\ \E res \in results : res.job = j
    <2> DEFINE res == CHOOSE res \in results : res.job = j
    <2>1. res \in Results /\ js[j] \in JobStates
      BY <1>1, <1>2
    <2>2. applyOutcomes(js, results)[j] = applyJobResult(j, js[j], res)
      BY <1>1, <1>2 DEF applyOutcomes
    <2> HIDE DEF res
    <2>. QED  BY <2>1, <2>2, AppliedOneShot DEF Kept
  <1>3. CASE ~(js[j].present /\ \E res \in results : res.job = j)
    <2>1. applyOutcomes(js, results)[j] = js[j]
      BY <1>1, <1>3 DEF applyOutcomes
    <2>. QED  BY <2>1 DEF Kept
  <1>. QED  BY <1>2, <1>3

LEMMA MaintainedDone ==
  ASSUME now \in Nat, NEW js, Sound(js), NEW expired \in BOOLEAN,
         NEW j \in OneShots, Settled(j, js[j])
  PROVE  LET t == recomputeNextRunsForMaintenance(js, expired)[j] IN
         Settled(j, t) /\ Kept(js[j], t) /\ (t.running => js[j].running)
  <1>1. j \in Jobs
    BY JobsAssumption
  <1>2. recomputeNextRunsForMaintenance(js, expired)[j] = MaintainJob(j, js[j], expired)
    BY <1>1 DEF recomputeNextRunsForMaintenance
  <1> DEFINE t == MaintainJob(j, js[j], expired)
  <1>3. JobOK(j, js[j], now)
    BY <1>1 DEF Sound
  <1>4. /\ js[j].present /\ js[j].enabled => t = js[j]
        /\ t.present = js[j].present /\ t.enabled = js[j].enabled
        /\ t.lastRun = js[j].lastRun /\ t.status = js[j].status
        /\ t.running => js[j].running
    BY <1>1, <1>3, MaintainedJob
  <1> HIDE DEF t
  <1>5. Settled(j, t) /\ Kept(js[j], t) /\ (t.running => js[j].running)
    BY <1>4 DEF Settled, Kept
  <1>. QED  BY <1>2, <1>5 DEF t

LEMMA RecomputedDone ==
  ASSUME now \in Nat, NEW js, Sound(js), NEW j \in OneShots, Settled(j, js[j])
  PROVE  LET t == recomputeNextRuns(js)[j] IN
         Settled(j, t) /\ Kept(js[j], t) /\ (t.running => js[j].running)
  <1>1. j \in Jobs /\ JobOK(j, js[j], now)
    BY JobsAssumption DEF Sound
  <1> DEFINE s == MaintainJob(j, js[j], FALSE)
             next == computeJobNextRunAtMs(j, s, now)
             moved == [s EXCEPT !.next = next]
  <1>2. /\ js[j].present /\ js[j].enabled => s = js[j]
        /\ s.present = js[j].present /\ s.enabled = js[j].enabled
        /\ s.lastRun = js[j].lastRun /\ s.status = js[j].status
        /\ s.running => js[j].running
        /\ s \in JobStates /\ s.lastRun <= now
    <2>1. /\ js[j].present /\ js[j].enabled => s = js[j]
          /\ s.present = js[j].present /\ s.enabled = js[j].enabled
          /\ s.lastRun = js[j].lastRun /\ s.status = js[j].status
          /\ s.running => js[j].running
          /\ JobOK(j, s, now)
      <3> DEFINE t(expired) == MaintainJob(j, js[j], expired)
      <3>1. ASSUME NEW expired \in BOOLEAN
            PROVE  /\ js[j].present /\ js[j].enabled => t(expired) = js[j]
                   /\ t(expired).present = js[j].present /\ t(expired).enabled = js[j].enabled
                   /\ t(expired).lastRun = js[j].lastRun /\ t(expired).status = js[j].status
                   /\ t(expired).running => js[j].running
                   /\ JobOK(j, t(expired), now)
        BY <1>1, MaintainedJob
      <3>2. s = t(FALSE)
        OBVIOUS
      <3> HIDE DEF s, t
      <3>. QED  BY <3>1, <3>2
    <2>. QED  BY <2>1 DEF JobOK
  <1>3. recomputeNextRuns(js)[j] = s \/ (recomputeNextRuns(js)[j] = moved /\ s.enabled)
    BY <1>1 DEF recomputeNextRuns, IsDue
  <1> HIDE DEF s
  <1>4. s.enabled /\ Served(j, s) => next = NoTime
    BY <1>1, <1>2, ComputedSlot
  <1> HIDE DEF next
  <1>5. moved.next = next /\ moved.status = s.status /\ moved.lastRun = s.lastRun
        /\ moved.enabled = s.enabled /\ moved.running = s.running
    BY <1>2 DEF JobStates
  <1> HIDE DEF moved
  <1>6. Settled(j, s)
    BY <1>2 DEF Settled
  <1>7. Settled(j, moved)
    BY <1>4, <1>5 DEF Settled, Served
  <1>8. Kept(js[j], s) /\ Kept(js[j], moved)
    BY <1>2, <1>5 DEF Kept
  <1>. QED  BY <1>2, <1>3, <1>5, <1>6, <1>7, <1>8

LEMMA DeferredDone ==
  ASSUME TypeOK, NEW js, Sound(js), NEW j \in OneShots, Settled(j, js[j]),
         j \in ToSet(runner["boot"].deferred) => ~Served(j, js[j])
  PROVE  LET t == Deferred(js)[j] IN
         Settled(j, t) /\ Kept(js[j], t) /\ (t.running => js[j].running)
  <1>1. j \in Jobs
    BY JobsAssumption
  <1>2. js[j] \in JobStates
    BY <1>1 DEF Sound
  <1>3. CASE Deferred(js)[j] = js[j]
    BY <1>3 DEF Kept
  <1>4. ASSUME NEW time \in Nat, ~Served(j, js[j]), Deferred(js)[j] = [js[j] EXCEPT !.next = time]
        PROVE  LET t == Deferred(js)[j] IN
               Settled(j, t) /\ Kept(js[j], t) /\ (t.running => js[j].running)
    BY <1>2, <1>4 DEF Settled, Served, Kept, JobStates
  <1>5. \/ Deferred(js)[j] = js[j]
        \/ /\ j \in ToSet(runner["boot"].deferred)
           /\ \E time \in Nat : Deferred(js)[j] = [js[j] EXCEPT !.next = time]
    BY <1>1, DeferredJob
  <1>. QED  BY <1>3, <1>4, <1>5

\* A section leaves a one-shot job that succeeded without a slot, but for one that
\* a start staggers; a marker that is still there is of the same run.
LEMMA DoneSection ==
  ASSUME TypeInv, JobsInv, SomeSection,
         NEW j \in OneShots, j \notin staggered', Settled(j, jobs[j])
  PROVE  Settled(j, jobs'[j]) /\ Kept(jobs[j], jobs'[j])
  <1>0. /\ runner \in [Runners -> RunnerStates] /\ now \in Nat /\ Sound(jobs) /\ TypeOK
        /\ jobs \in [Jobs -> JobStates] /\ jobs[j] \in JobStates /\ j \in Jobs
        /\ "boot" \in Runners /\ "tick" \in Runners /\ Manuals \subseteq Runners
    BY JobsAssumption DEF TypeInv, TypeOK, Runners, JobsInv
  <1> USE <1>0
  <1>1. ASSUME NEW expired \in BOOLEAN,
               jobs' = recomputeNextRunsForMaintenance(jobs, expired)
        PROVE  Settled(j, jobs'[j]) /\ Kept(jobs[j], jobs'[j])
    BY <1>1, MaintainedDone
  <1>2. ASSUME NEW ids, jobs' = MarkRunning(jobs, ids)
        PROVE  Settled(j, jobs'[j]) /\ Kept(jobs[j], jobs'[j])
    BY <1>2 DEF MarkRunning, Settled, Served, Kept, JobStates
  <1>3. ASSUME jobs'[j] = jobs[j]
        PROVE  Settled(j, jobs'[j]) /\ Kept(jobs[j], jobs'[j])
    BY <1>3 DEF Kept
  <1>4. ASSUME NEW r \in Runners
        PROVE  LET applied == applyOutcomes(jobs, runner[r].results) IN
               Sound(applied) /\ Settled(j, applied[j]) /\ Kept(jobs[j], applied[j])
    <2>1. runner[r].results \in SUBSET Results
      BY DEF RunnerStates
    <2>. QED  BY <2>1, Applied, AppliedDone DEF JobsInv, Timed
  <1>5. ASSUME NEW r \in Runners, NEW expired \in BOOLEAN,
               jobs' = recomputeNextRunsForMaintenance(
                         applyOutcomes(jobs, runner[r].results), expired)
        PROVE  Settled(j, jobs'[j]) /\ Kept(jobs[j], jobs'[j])
    <2> DEFINE applied == applyOutcomes(jobs, runner[r].results)
    <2>1. Sound(applied) /\ Settled(j, applied[j]) /\ Kept(jobs[j], applied[j])
      BY <1>4
    <2>2. jobs' = recomputeNextRunsForMaintenance(applied, expired)
      BY <1>5
    <2> HIDE DEF applied
    <2>. QED  BY <2>1, <2>2, MaintainedDone DEF Kept
  <1>6. CASE ClearStaleMarkers
    <2>1. jobs'[j] = jobs[j] \/ jobs'[j] = [jobs[j] EXCEPT !.running = FALSE]
      BY <1>6 DEF ClearStaleMarkers
    <2>. QED  BY <2>1 DEF Settled, Served, Kept, JobStates
  <1>7. CASE planStartupCatchup
    BY <1>2, <1>7 DEF planStartupCatchup
  <1>8. CASE applyStartupCatchupOutcomes
    <2> DEFINE applied == applyOutcomes(jobs, runner["boot"].results)
               placed == Deferred(applied)
    <2>1. Sound(applied) /\ Settled(j, applied[j]) /\ Kept(jobs[j], applied[j])
      BY <1>4
    <2>2. jobs' = recomputeNextRunsForMaintenance(placed, FALSE)
      BY <1>8 DEF applyStartupCatchupOutcomes, Store
    <2>3. j \in ToSet(runner["boot"].deferred) => ~Served(j, applied[j])
      BY <1>8 DEF applyStartupCatchupOutcomes
    <2> HIDE DEF applied
    <2>4. Sound(placed) /\ Settled(j, placed[j]) /\ Kept(applied[j], placed[j])
          /\ (placed[j].running => applied[j].running)
      BY <2>1, <2>3, DeferredStore, DeferredDone
    <2> HIDE DEF placed
    <2>. QED  BY <2>1, <2>2, <2>4, MaintainedDone DEF Kept
  <1>9. CASE StartEnds
    BY <1>9, RecomputedDone DEF StartEnds, Store
  <1>10. CASE MarkDueJobs
    BY <1>1, <1>2, <1>10 DEF MarkDueJobs, Store
  <1>11. CASE ApplyTickOutcomes
    BY <1>5, <1>11 DEF ApplyTickOutcomes, Store
  <1>12. ASSUME NEW m \in Manuals, PreflightRun(m) \/ ReserveRun(m) \/ FinishRun(m)
         PROVE  Settled(j, jobs'[j]) /\ Kept(jobs[j], jobs'[j])
    <2>1. CASE PreflightRun(m)
      BY <1>1, <2>1 DEF PreflightRun, Store
    <2>2. CASE ReserveRun(m)
      BY <1>2, <1>3, <2>2 DEF ReserveRun, Store
    <2>3. CASE FinishRun(m)
      BY <1>3, <1>5, <2>3 DEF FinishRun, Store
    <2>. QED  BY <1>12, <2>1, <2>2, <2>3
  <1>13. CASE add
    <2> DEFINE s == Fresh(Asked, NoTime)
               t == [s EXCEPT !.next = computeJobNextRunAtMs(Asked, s, now)]
               js == IF jobs[Asked].present THEN jobs ELSE [jobs EXCEPT ![Asked] = t]
    <2>1. s \in JobStates /\ s.lastRun <= now /\ s.enabled /\ ~s.running /\ s.status = "none"
      BY DEF Fresh, JobStates, Moments, NoTime
    <2> HIDE DEF s
    <2>2. ~t.running /\ t.status = "none"
      BY <2>1 DEF JobStates
    <2>3. Asked \in Jobs => JobOK(Asked, t, now)
      BY <2>1, RescheduledOK
    <2> HIDE DEF t
    <2>4. Sound(js)
      BY <2>3 DEF Sound, JobOK
    <2>5. Settled(j, js[j]) /\ (js[j].running => js[j] = jobs[j])
      BY <2>2 DEF Settled, Served
    <2>6. jobs' = recomputeNextRuns(js)
      BY <1>13 DEF add, UserSection, Store, js, t, s
    <2> HIDE DEF js
    <2>. QED  BY <2>4, <2>5, <2>6, RecomputedDone DEF Kept
  <1>14. CASE enable
    <2> DEFINE s == [jobs[j] EXCEPT !.enabled = TRUE]
               next == computeJobNextRunAtMs(j, s, now)
    <2>1. jobs'[j] = jobs[j] \/ jobs'[j] = [s EXCEPT !.next = next]
      BY <1>14 DEF enable, UserSection, Store
    <2>2. s \in JobStates /\ s.lastRun <= now /\ s.enabled /\ s.running = jobs[j].running
          /\ s.status = jobs[j].status /\ s.lastRun = jobs[j].lastRun
      BY DEF Sound, JobOK, JobStates
    <2> HIDE DEF s
    <2>3. Served(j, s) => next = NoTime
      BY <2>2, ComputedSlot
    <2> HIDE DEF next
    <2>. QED  BY <1>3, <2>1, <2>2, <2>3 DEF Settled, Served, Kept, JobStates
  <1>15. CASE disable
    <2>1. jobs'[j] = jobs[j]
          \/ jobs'[j] = [jobs[j] EXCEPT !.enabled = FALSE, !.next = NoTime, !.running = FALSE]
      BY <1>15 DEF disable, UserSection, Store
    <2>. QED  BY <1>3, <2>1 DEF Settled, Kept, JobStates
  <1>16. CASE remove
    <2>1. jobs'[j] = jobs[j] \/ jobs'[j] = Absent
      BY <1>16 DEF remove, UserSection, Store
    <2>. QED  BY <1>3, <2>1 DEF Settled, Kept, Absent
  <1>17. CASE ensureLoadedForRead
    BY <1>1, <1>17 DEF ensureLoadedForRead, UserSection, Store
  <1>. QED  BY <1>6, <1>7, <1>8, <1>9, <1>10, <1>11, <1>12, <1>13, <1>14, <1>15, <1>16, <1>17
            DEF SomeSection

LEMMA InitDone == Init => DoneInv
  <1> SUFFICES ASSUME Init PROVE DoneInv
    OBVIOUS
  <1>1. \A j \in OneShots : jobs[j].status = "none"
    BY JobsAssumption DEF Init, Fresh, Absent
  <1>2. \A r \in {"tick", "boot"} : Holds(r) = {}
    <2>1. \A r \in {"tick", "boot"} : /\ runner[r].job = NoJob /\ runner[r].todo = <<>>
                                     /\ runner[r].results = {}
      BY DEF Init, Idle, Runners
    <2>. QED  BY <2>1 DEF Holds, Running, ToSet
  <1>. QED  BY <1>1, <1>2 DEF DoneInv, Served

LEMMA StaggeredGrows ==
  ASSUME [Next]_vars
  PROVE  staggered \subseteq staggered'
  BY DEF Next, SomeSection, ClearStaleMarkers, planStartupCatchup,
         applyStartupCatchupOutcomes, StartEnds, MarkDueJobs, ApplyTickOutcomes,
         PreflightRun, ReserveRun, FinishRun, add, enable, disable, remove,
         ensureLoadedForRead, UserSection, TimerFires, TickEnds, RunEnds, RequestRun,
         RequestOp, Crash, Restart, Pass, vars, history

\* The tick and the catch-up take on no one-shot job that has been served.
LEMMA ServedIsNotTaken ==
  ASSUME TypeInv, JobsInv, DoneInv,
         NEW r \in {"tick", "boot"}, NEW new \in SUBSET Jobs, Engages(r, new),
         NEW j \in new, j \in OneShots \ staggered
  PROVE  ~Served(j, jobs[j])
  <1>1. jobs[j].status \in {"none", "ok", "error"}
    BY DEF TypeInv, TypeOK, JobStates
  <1>2. CASE r = "tick"
    <2>1. Runnable(j)
      BY <1>2 DEF Engages
    <2>. QED  BY <2>1 DEF Runnable, IsDue, DoneInv
  <1>3. CASE r = "boot"
    <2>1. Missed(j)
      BY <1>3 DEF Engages
    <2>. QED  BY <1>1, <2>1 DEF Missed, Served
  <1>. QED  BY <1>2, <1>3

LEMMA DoneStep ==
  ASSUME TypeInv, JobsInv, ExclusiveInv, DoneInv, [Next]_vars
  PROVE  DoneInv'
  <1>1. staggered \subseteq staggered'
    BY StaggeredGrows
  <1>2. \A j \in OneShots : j \in Jobs
    BY JobsAssumption
  <1>3. CASE SomeSection
    <2>1. ASSUME NEW j \in OneShots \ staggered'
          PROVE  Settled(j, jobs'[j]) /\ Kept(jobs[j], jobs'[j])
      <3>1. Settled(j, jobs[j])
        BY <1>1, <2>1 DEF DoneInv, Settled
      <3>. QED  BY <1>3, <2>1, <3>1, DoneSection
    <2>2. PICK n \in Runners, new \in SUBSET Jobs : Engages(n, new)
      BY <1>3, SectionEngages
    <2>3. Recorded
      BY <1>3, <2>2, LostMarkers
    <2>4. ASSUME NEW r \in {"tick", "boot"}, NEW j \in OneShots \ (outOfService' \cup staggered'),
                 j \in Holds(r)'
          PROVE  ~Served(j, jobs'[j])
      <3>1. r \in Runners /\ j \in Jobs /\ j \notin staggered
        BY <1>1, <1>2, <2>4 DEF Runners
      <3>2. CASE j \in Holds(r)
        <4>2. j \notin outOfService /\ jobs'[j].running
          BY <2>3, <2>4, <3>1 DEF Recorded, InService
        <4>3. ~Served(j, jobs[j])
          BY <2>4, <3>1, <3>2, <4>2 DEF DoneInv
        <4>. QED  BY <2>1, <2>4, <4>2, <4>3 DEF Kept, Served
      <3>3. CASE j \notin Holds(r)
        <4>1. n = r /\ j \in new
          BY <2>2, <2>4, <3>1, <3>3 DEF Engages
        <4>2. ~Served(j, jobs[j])
          BY <2>2, <2>4, <3>1, <4>1, ServedIsNotTaken
        <4>3. jobs[j] \in JobStates /\ jobs'[j] = [jobs[j] EXCEPT !.running = TRUE]
          BY <2>2, <3>1, <4>1 DEF Engages, TypeInv, TypeOK
        <4>. QED  BY <4>2, <4>3 DEF Served, JobStates
      <3>. QED  BY <3>2, <3>3
    <2>. QED  BY <2>1, <2>4 DEF DoneInv, Settled
  <1>4. CASE ~SomeSection
    <2>1. /\ UNCHANGED jobs
          /\ \A r \in Runners : Holds(r)' \subseteq Holds(r)
          /\ UNCHANGED outOfService \/ NobodyRuns'
      BY <1>4, OthersDisengage
    <2>2. \A j \in OneShots \ staggered' :
            jobs'[j].present /\ jobs'[j].enabled /\ Served(j, jobs'[j]) => jobs'[j].next = NoTime
      BY <1>1, <2>1 DEF DoneInv
    <2>3. ASSUME NEW r \in {"tick", "boot"}, NEW j \in OneShots \ (outOfService' \cup staggered'),
                 j \in Holds(r)'
          PROVE  ~Served(j, jobs'[j])
      <3>1. r \in Runners
        BY DEF Runners
      <3>2. UNCHANGED outOfService /\ j \in Holds(r)
        BY <2>1, <2>3, <3>1 DEF NobodyRuns
      <3>. QED  BY <1>1, <2>1, <2>3, <3>2 DEF DoneInv
    <2>. QED  BY <2>2, <2>3 DEF DoneInv
  <1>. QED  BY <1>3, <1>4

\* The tick and the catch-up start no one-shot job that a run has served, unless
\* it was out of service while a runner held it or was staggered by a start.
THEOREM DoneIsDone == Spec => DoneOneShotStaysDone
  <1> DEFINE Inv == TypeInv /\ JobsInv /\ ExclusiveInv /\ DoneInv
  <1>1. Init => Inv
    BY InitType, InitJobs, InitExclusive, InitDone
  <1>2. Inv /\ [Next]_vars => Inv'
    BY TypeStep, ExclusiveStep, DoneStep
  <1>3. ASSUME Inv, [Next]_vars, NEW r \in {"tick", "boot"},
               NEW j \in OneShots \ (outOfService \cup staggered), j \in Running(r)' \ Running(r)
        PROVE  ~Served(j, jobs[j])
    <2>1. r \in Runners /\ j \in Holds(r)'
      BY <1>3 DEF Runners, Holds
    <2>2. CASE j \in Holds(r)
      BY <1>3, <2>2 DEF DoneInv
    <2>3. CASE j \notin Holds(r)
      <3>1. SomeSection
        BY <1>3, <2>1, <2>3, OthersDisengage
      <3>2. PICK n \in Runners, new \in SUBSET Jobs : Engages(n, new)
        BY <1>3, <3>1, SectionEngages
      <3>3. n = r /\ j \in new
        BY <2>1, <2>3, <3>2 DEF Engages
      <3>. QED  BY <1>3, <3>2, <3>3, ServedIsNotTaken
    <2>. QED  BY <2>2, <2>3
  <1>4. Inv /\ [Next]_vars =>
          [\A r \in {"tick", "boot"} : \A j \in OneShots \ (outOfService \cup staggered) :
             j \in Running(r)' \ Running(r) => ~Served(j, jobs[j])]_vars
    BY <1>3
  <1>. QED  BY <1>1, <1>2, <1>4, PTL DEF Spec, DoneOneShotStaysDone
=============================================================================
