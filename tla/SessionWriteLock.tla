--------------------------- MODULE SessionWriteLock ---------------------------
(***************************************************************************)
(* The write lock of one session file (agents/session-write-lock.ts): a    *)
(* lock file created exclusively by one of several processes, and in each  *)
(* process the map HELD_LOCKS, which lets the calls of that process share  *)
(* the lock by counting.  Every await between reading the lock file and    *)
(* acting on it is a step of its own.  A lock is named by the task that    *)
(* created its file.                                                       *)
(*                                                                         *)
(* The model is of a platform with process start times (Linux): the lock   *)
(* file of a process is then never taken for an orphan of itself, and a    *)
(* recycled pid is a dead owner.  Whether the file is older than staleMs   *)
(* is the flag old, whether its payload has been written the flag written. *)
(***************************************************************************)
EXTENDS FiniteSets, Integers

CONSTANTS
  Procs,       \* the processes that share the session directory
  Tasks,       \* the calls of acquireSessionWriteLock, one acquisition each
  ProcOf,      \* the process a task runs in
  Reentrant,   \* the tasks that pass allowReentrant (all but the sandbox registry)
  Crashable,   \* the processes that may be killed
  Signalled,   \* the processes that may get a termination signal
  Cleaners,    \* the processes whose startup sweeps stale lock files
  NoLock

ASSUME ProcOfAssumption == ProcOf \in [Tasks -> Procs]
ASSUME NoLockAssumption == NoLock \notin Tasks
ASSUME TasksAssumption == IsFiniteSet(Tasks)

VARIABLES
  pc,          \* where each task is
  hold,        \* the registration a task's release() refers to
  seen,        \* the lock a contender judged before it decided to remove it,
               \* NoLock if it judged none because its stat failed
  file,        \* the lock whose file is on disk
  written,     \* its payload is complete
  old,         \* it is older than staleMs
  held,        \* HELD_LOCKS of each process
  count,       \* HeldLock.count
  releasing,   \* locks taken out of HELD_LOCKS whose file is about to be removed
  watchdog,    \* the process has a watchdog timer
  alive,       \* the process lives
  sweep,       \* cleanStaleLockFiles of each process
  robbed       \* history: locks whose file somebody else removed

fileVars == <<file, written, old>>
procVars == <<held, count, releasing, watchdog, alive>>
vars == <<pc, hold, seen, fileVars, procVars, sweep, robbed>>

Contending == {"entering", "opening", "writing", "registering", "inspecting",
               "stating", "removing", "waiting"}

Locks == Tasks \cup {NoLock}

Init ==
  /\ pc = [t \in Tasks |-> "idle"]
  /\ hold = [t \in Tasks |-> NoLock]
  /\ seen = [t \in Tasks |-> NoLock]
  /\ file = NoLock /\ written = FALSE /\ old = FALSE
  /\ held = [p \in Procs |-> NoLock]
  /\ count = [p \in Procs |-> 0]
  /\ releasing = {}
  /\ watchdog = [p \in Procs |-> FALSE]
  /\ alive = [p \in Procs |-> TRUE]
  /\ sweep = [p \in Procs |-> IF p \in Cleaners THEN "due" ELSE "done"]
  /\ robbed = {}

Goto(t, from, to) ==
  /\ pc[t] = from
  /\ alive[ProcOf[t]]
  /\ pc' = [pc EXCEPT ![t] = to]

(* fs.rm removes whatever is at the path; by is the lock the caller means.  *)
RemovePath(by) ==
  /\ file' = NoLock /\ written' = FALSE /\ old' = FALSE
  /\ robbed' = robbed \cup ({file} \ {by, NoLock})

Dead(l) == ~alive[ProcOf[l]]

\* Mutant: no "too-old".
Stale_NoAge == Dead(file)

(* inspectLockPayload of a payload that was read: dead pid, recycled pid or  *)
(* too old.                                                                 *)
Stale == Dead(file) \/ old

-----------------------------------------------------------------------------
(* acquireSessionWriteLock: handlers and watchdog first, then mkdir and     *)
(* realpath are awaited.                                                    *)
Begin(t) ==
  /\ Goto(t, "idle", "entering")
  /\ watchdog' = [watchdog EXCEPT ![ProcOf[t]] = TRUE]
  /\ UNCHANGED <<hold, seen, fileVars, held, count, releasing, alive, sweep, robbed>>

(* The only look at HELD_LOCKS: a re-entrant call joins the holder.          *)
Join(t) ==
  LET p == ProcOf[t] IN
  /\ t \in Reentrant /\ held[p] # NoLock
  /\ Goto(t, "entering", "holding")
  /\ hold' = [hold EXCEPT ![t] = held[p]]
  /\ count' = [count EXCEPT ![p] = @ + 1]
  /\ UNCHANGED <<seen, fileVars, held, releasing, watchdog, alive, sweep, robbed>>

EnterLoop(t) ==
  /\ t \notin Reentrant \/ held[ProcOf[t]] = NoLock
  /\ Goto(t, "entering", "opening")
  /\ UNCHANGED <<hold, seen, fileVars, procVars, sweep, robbed>>

\* Mutant: open without "wx".
Open_NotExclusive(t) ==
  /\ Goto(t, "opening", "writing")
  /\ file' = t /\ written' = FALSE /\ old' = FALSE
  /\ UNCHANGED <<hold, seen, procVars, sweep, robbed>>

(* open(lockPath, "wx").                                                    *)
Open(t) ==
  /\ Goto(t, "opening", "writing")
  /\ file = NoLock
  /\ file' = t /\ written' = FALSE /\ old' = FALSE
  /\ UNCHANGED <<hold, seen, procVars, sweep, robbed>>

OpenExists(t) ==
  /\ Goto(t, "opening", "inspecting")
  /\ file # NoLock
  /\ UNCHANGED <<hold, seen, fileVars, procVars, sweep, robbed>>

(* writeFile goes to the open handle, whoever owns the path by now.         *)
WritePayload(t) ==
  /\ Goto(t, "writing", "registering")
  /\ written' = (written \/ file = t)
  /\ UNCHANGED <<hold, seen, file, old, procVars, sweep, robbed>>

Register(t) ==
  LET p == ProcOf[t] IN
  /\ Goto(t, "registering", "holding")
  /\ held' = [held EXCEPT ![p] = t]
  /\ count' = [count EXCEPT ![p] = 1]
  /\ hold' = [hold EXCEPT ![t] = t]
  /\ UNCHANGED <<seen, fileVars, releasing, watchdog, alive, sweep, robbed>>

(* writeFile rejects: the handle is closed, then the path removed.          *)
WriteFails(t) ==
  /\ Goto(t, "writing", "unwinding")
  /\ UNCHANGED <<hold, seen, fileVars, procVars, sweep, robbed>>

Unwind(t) ==
  /\ Goto(t, "unwinding", "failed")
  /\ RemovePath(t)
  /\ UNCHANGED <<hold, seen, procVars, sweep>>

(* readLockPayload and inspectLockPayload.                                  *)
JudgeStale(t) ==
  /\ file # NoLock /\ written /\ Stale
  /\ Goto(t, "inspecting", "removing")
  /\ seen' = [seen EXCEPT ![t] = file]
  /\ UNCHANGED <<hold, fileVars, procVars, sweep, robbed>>

JudgeHeld(t) ==
  /\ file # NoLock /\ written /\ ~Stale
  /\ Goto(t, "inspecting", "waiting")
  /\ UNCHANGED <<hold, seen, fileVars, procVars, sweep, robbed>>

(* No payload read: the file is gone, not written yet, or the read failed.   *)
JudgeUnreadable(t) ==
  /\ Goto(t, "inspecting", "stating")
  /\ UNCHANGED <<hold, seen, fileVars, procVars, sweep, robbed>>

\* Mutant: the fallback does not look at the age.
StatDecides_NoAge == file # NoLock

(* The fallback of shouldReclaimContendedLockFile: an unreadable lock is    *)
(* reclaimed by the age of its file alone.                                  *)
StatDecides == file # NoLock /\ old

Stat(t) ==
  /\ Goto(t, "stating", IF StatDecides THEN "removing" ELSE "waiting")
  /\ seen' = [seen EXCEPT ![t] = IF StatDecides THEN file ELSE @]
  /\ UNCHANGED <<hold, fileVars, procVars, sweep, robbed>>

(* fs.stat fails with an error other than ENOENT: reclaimed at any age.      *)
StatFails(t) ==
  /\ Goto(t, "stating", "removing")
  /\ seen' = [seen EXCEPT ![t] = NoLock]
  /\ UNCHANGED <<hold, fileVars, procVars, sweep, robbed>>

Reclaim(t) ==
  /\ Goto(t, "removing", "opening")
  /\ RemovePath(NoLock)
  /\ seen' = [seen EXCEPT ![t] = NoLock]
  /\ UNCHANGED <<hold, procVars, sweep>>

Retry(t) ==
  /\ Goto(t, "waiting", "opening")
  /\ UNCHANGED <<hold, seen, fileVars, procVars, sweep, robbed>>

TimesOut(t) ==
  /\ Goto(t, "opening", "failed")
  /\ UNCHANGED <<hold, seen, fileVars, procVars, sweep, robbed>>

\* Mutant: releaseHeldLock without current !== held.
ReleaseLate_NoIdentityCheck(t) ==
  LET p == ProcOf[t] IN
  /\ hold[t] # held[p]
  /\ Goto(t, "holding", "done")
  /\ count' = [count EXCEPT ![p] = @ - 1]
  /\ UNCHANGED <<hold, seen, fileVars, held, releasing, watchdog, alive, sweep, robbed>>

-----------------------------------------------------------------------------
(* releaseHeldLock.  A registration that is no longer the current one is     *)
(* left alone; otherwise the last release takes it out of the map at once   *)
(* and removes the file after the handle is closed.                         *)
ReleaseLate(t) ==
  /\ hold[t] # held[ProcOf[t]]
  /\ Goto(t, "holding", "done")
  /\ UNCHANGED <<hold, seen, fileVars, procVars, sweep, robbed>>

ReleaseOne(t) ==
  LET p == ProcOf[t] IN
  /\ hold[t] = held[p] /\ count[p] > 1
  /\ Goto(t, "holding", "done")
  /\ count' = [count EXCEPT ![p] = @ - 1]
  /\ UNCHANGED <<hold, seen, fileVars, held, releasing, watchdog, alive, sweep, robbed>>

Deregister(p) ==
  /\ held' = [held EXCEPT ![p] = NoLock]
  /\ count' = [count EXCEPT ![p] = 0]
  /\ releasing' = releasing \cup {held[p]}
  /\ UNCHANGED <<watchdog, alive>>

ReleaseLast(t) ==
  /\ hold[t] = held[ProcOf[t]] /\ count[ProcOf[t]] = 1
  /\ Goto(t, "holding", "closing")
  /\ Deregister(ProcOf[t])
  /\ UNCHANGED <<hold, seen, fileVars, sweep, robbed>>

(* runLockWatchdogCheck forces out a lock held past maxHoldMs.              *)
ForceOut(p) ==
  /\ alive[p] /\ watchdog[p] /\ held[p] # NoLock
  /\ Deregister(p)
  /\ UNCHANGED <<pc, hold, seen, fileVars, sweep, robbed>>

(* The tail of a release: the file goes, and with the last lock of the      *)
(* process its watchdog.                                                    *)
RemoveOwn(l) ==
  LET p == ProcOf[l] IN
  /\ l \in releasing
  /\ RemovePath(l)
  /\ releasing' = releasing \ {l}
  /\ watchdog' = [watchdog EXCEPT ![p] = @ /\ held[p] # NoLock]
  /\ pc' = [t \in Tasks |->
              IF pc[t] = "closing" /\ hold[t] = l THEN "done" ELSE pc[t]]
  /\ UNCHANGED <<hold, seen, held, count, alive, sweep>>

(* releaseAllLocksSync on a signal that the process survives because it     *)
(* has listeners of its own, or from its exit handler.  The first acquire of  *)
(* the process registers both.                                              *)
ReleaseAllSync(p) ==
  /\ p \in Signalled /\ alive[p]
  /\ \E t \in Tasks : ProcOf[t] = p /\ pc[t] # "idle"
  /\ IF held[p] # NoLock THEN RemovePath(held[p]) ELSE UNCHANGED <<fileVars, robbed>>
  /\ held' = [held EXCEPT ![p] = NoLock]
  /\ count' = [count EXCEPT ![p] = 0]
  /\ watchdog' = [watchdog EXCEPT ![p] = FALSE]
  /\ UNCHANGED <<pc, hold, seen, releasing, alive, sweep>>

-----------------------------------------------------------------------------
(* The process is killed: its lock files stay behind.                       *)
Crash(p) ==
  /\ p \in Crashable /\ alive[p]
  /\ alive' = [alive EXCEPT ![p] = FALSE]
  /\ pc' = [t \in Tasks |-> IF ProcOf[t] = p THEN "dead" ELSE pc[t]]
  /\ held' = [held EXCEPT ![p] = NoLock]
  /\ count' = [count EXCEPT ![p] = 0]
  /\ watchdog' = [watchdog EXCEPT ![p] = FALSE]
  /\ releasing' = {l \in releasing : ProcOf[l] # p}
  /\ sweep' = [sweep EXCEPT ![p] = "done"]
  /\ UNCHANGED <<hold, seen, fileVars, robbed>>

Age ==
  /\ file # NoLock /\ ~old
  /\ old' = TRUE
  /\ UNCHANGED <<pc, hold, seen, file, written, procVars, sweep, robbed>>

(* cleanStaleLockFiles at gateway start: list, read, remove.  It has no      *)
(* fallback for a file whose payload it could not read.                     *)
SweepTo(p, from, to) ==
  /\ alive[p] /\ sweep[p] = from
  /\ sweep' = [sweep EXCEPT ![p] = to]

SweepList(p) ==
  /\ SweepTo(p, "due", IF file = NoLock THEN "done" ELSE "listed")
  /\ UNCHANGED <<pc, hold, seen, fileVars, procVars, robbed>>

SweepRead(p) ==
  /\ \/ SweepTo(p, "listed", "removing")
     \/ file # NoLock /\ written /\ ~Stale /\ SweepTo(p, "listed", "done")
  /\ UNCHANGED <<pc, hold, seen, fileVars, procVars, robbed>>

SweepRemove(p) ==
  /\ SweepTo(p, "removing", "done")
  /\ RemovePath(NoLock)
  /\ UNCHANGED <<pc, hold, seen, procVars>>

-----------------------------------------------------------------------------
AcquireStep(t) ==
  \/ Join(t) \/ EnterLoop(t) \/ Open(t) \/ OpenExists(t)
  \/ WritePayload(t) \/ Register(t) \/ Unwind(t)
  \/ JudgeStale(t) \/ JudgeHeld(t) \/ JudgeUnreadable(t)
  \/ Stat(t) \/ StatFails(t) \/ Reclaim(t) \/ Retry(t)

Release(t) == ReleaseLate(t) \/ ReleaseOne(t) \/ ReleaseLast(t)

Sweep(p) == SweepList(p) \/ SweepRead(p) \/ SweepRemove(p)

Next ==
  \/ \E t \in Tasks : Begin(t) \/ AcquireStep(t) \/ WriteFails(t) \/ TimesOut(t)
                      \/ Release(t) \/ RemoveOwn(t)
  \/ \E p \in Procs : ForceOut(p) \/ ReleaseAllSync(p) \/ Crash(p) \/ Sweep(p)
  \/ Age

Spec == Init /\ [][Next]_vars

(* The event loop runs every continuation, and time passes.  A holder need  *)
(* not ever release, a contender may have no timeout.                       *)
FairSpec ==
  /\ Spec
  /\ \A t \in Tasks : WF_vars(AcquireStep(t)) /\ WF_vars(RemoveOwn(t))
  /\ WF_vars(Age)

-----------------------------------------------------------------------------
(* Every variable has its type.                                             *)
TypeOK ==
  /\ pc \in [Tasks -> Contending \cup
               {"idle", "holding", "closing", "unwinding", "done", "failed", "dead"}]
  /\ hold \in [Tasks -> Locks] /\ seen \in [Tasks -> Locks]
  /\ file \in Locks /\ written \in BOOLEAN /\ old \in BOOLEAN
  /\ held \in [Procs -> Locks] /\ count \in [Procs -> 0..Cardinality(Tasks)]
  /\ releasing \subseteq Tasks /\ robbed \subseteq Tasks
  /\ watchdog \in [Procs -> BOOLEAN] /\ alive \in [Procs -> BOOLEAN]
  /\ sweep \in [Procs -> {"due", "listed", "removing", "done"}]

(* The lock a process believes it holds is the one on disk, with its        *)
(* payload, so no other process can hold one too -- unless somebody took     *)
(* the file away from its owner.  Release takes the lock out of HELD_LOCKS  *)
(* before the file goes (session-write-lock.ts:150) for this.               *)
HeldOnDisk ==
  \A p \in Procs :
    held[p] \in Tasks \ robbed => file = held[p] /\ written

(* HeldLock.count counts exactly the callers that still rely on the current *)
(* lock: the release of a holder the watchdog forced out must not touch the *)
(* next holder's count (session-write-lock.ts:131).                         *)
CountsHolders ==
  \A p \in Procs :
    count[p] = Cardinality({t \in Tasks : /\ ProcOf[t] = p /\ pc[t] = "holding"
                                          /\ hold[t] = held[p] /\ hold[t] # NoLock})

\* The steps that remove the file by mistake: a contender that judged another
\* file than l, or none; a sweep; and a process that was robbed of its own lock.
MisledContender(l) ==
  \E t \in Tasks : pc[t] = "removing" /\ pc'[t] = "opening" /\ seen[t] # l

SweptAway == \E p \in Procs : sweep[p] = "removing" /\ sweep'[p] = "done"

RobbedOwner ==
  \E t \in robbed : \/ t \in releasing \ releasing'
                    \/ pc[t] = "unwinding" /\ pc'[t] = "failed"
                    \/ \E p \in Procs : held[p] = t /\ held'[p] = NoLock

(* Only three ways lead to the removal of a fresh lock of a live process by  *)
(* somebody else: the contender had judged an earlier file of that path, or *)
(* none because its stat failed (session-write-lock.ts:383); the sweep of a  *)
(* start, which read an earlier file or no payload; and a process that gives  *)
(* up a lock it was itself robbed of.  In particular a contender never takes *)
(* the lock it looked at for its payload not being written yet, and no       *)
(* release, forced release or signal removes a lock of others.              *)
FreshLocksSurvive ==
  [][\A l \in robbed' \ robbed :
       Dead(l) \/ old \/ MisledContender(l) \/ SweptAway \/ RobbedOwner]_vars

(* A held lock is watched: the watchdog can force it out when its holder     *)
(* hangs.  The code does not have this property, and no run checks it:       *)
(* README, section 4.                                                       *)
HeldLocksAreWatched == \A p \in Procs : held[p] # NoLock => watchdog[p]

(* A contender does not wait for ever, even for a holder that hangs or a    *)
(* process that was killed, and even without a timeout.                     *)
EveryContenderSettles ==
  \A t \in Tasks : pc[t] \in Contending ~> pc[t] \notin Contending
=============================================================================
