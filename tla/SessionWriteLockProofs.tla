------------------------ MODULE SessionWriteLockProofs ------------------------
(***************************************************************************)
(* Invariance proofs for SessionWriteLock, for any processes and any       *)
(* finite set of acquisitions.                                             *)
(***************************************************************************)
EXTENDS SessionWriteLock, FiniteSetTheorems, TLAPS

Stages == Contending \cup
            {"idle", "holding", "closing", "unwinding", "done", "failed", "dead"}

\* Stages of a task that has created its lock file, and that has registered it.
Created == {"writing", "registering", "unwinding", "holding", "closing", "done",
            "failed", "dead"}
Registered == {"holding", "closing", "done", "dead"}

Types ==
  /\ pc \in [Tasks -> Stages]
  /\ hold \in [Tasks -> Locks] /\ seen \in [Tasks -> Locks]
  /\ file \in Locks /\ written \in BOOLEAN /\ old \in BOOLEAN
  /\ held \in [Procs -> Locks] /\ count \in [Procs -> Nat]
  /\ releasing \subseteq Tasks /\ robbed \subseteq Tasks
  /\ watchdog \in [Procs -> BOOLEAN] /\ alive \in [Procs -> BOOLEAN]
  /\ sweep \in [Procs -> {"due", "listed", "removing", "done"}]

\* A lock that is on disk, that a contender judged, or that somebody holds or
\* releases has been created, so that nobody will create a file of its name again.
Provenance ==
  /\ file # NoLock => pc[file] \in Created
  /\ \A t \in Tasks : seen[t] # NoLock => pc[seen[t]] \in Created
  /\ \A t \in Tasks : hold[t] # NoLock => pc[hold[t]] \in Registered
  /\ \A p \in Procs : held[p] # NoLock =>
       pc[held[p]] \in Registered /\ ProcOf[held[p]] = p
  /\ \A p \in Procs : held[p] = NoLock => count[p] = 0
  /\ \A l \in releasing : pc[l] \in Registered /\ \A p \in Procs : held[p] # l

\* A task that has created its file finds it there when it registers, unless it
\* was robbed.
OnDisk ==
  \A t \in Tasks :
    /\ pc[t] \in {"writing", "registering"} => t \in robbed \/ file = t
    /\ pc[t] = "registering" => t \in robbed \/ written

\* A contender that is about to remove the very lock it judged is about to remove
\* a stale one.
JudgedStale ==
  \A t \in Tasks :
    pc[t] = "removing" /\ seen[t] = file /\ file # NoLock => Stale

\* Who is about to remove its own file still finds it there, unless it was robbed.
OwnFile ==
  /\ \A l \in releasing : l \in robbed \/ file = l
  /\ \A t \in Tasks : pc[t] = "unwinding" => t \in robbed \/ file = t

Holders(p) == {t \in Tasks : /\ ProcOf[t] = p /\ pc[t] = "holding"
                             /\ hold[t] = held[p] /\ hold[t] # NoLock}

\* Everything but the count.
Safe == Types /\ Provenance /\ OnDisk /\ HeldOnDisk /\ JudgedStale /\ OwnFile

IInv == Safe /\ CountsHolders

-----------------------------------------------------------------------------
(* The parts of the invariant that do not count.                           *)

\* Whoever removes the file, the file's variables keep their types.
LEMMA RemoveTypes ==
  ASSUME Types, NEW by, RemovePath(by)
  PROVE  /\ file' \in Locks /\ written' \in BOOLEAN /\ old' \in BOOLEAN
         /\ robbed' \subseteq Tasks
  BY DEF Types, Locks, RemovePath

\* A step of an acquisition, from the first look at HELD_LOCKS to the registration
\* of the lock or the removal of the file.
LEMMA AcquireKeepsSafe ==
  ASSUME Safe, NEW t \in Tasks,
         \/ Begin(t) \/ Join(t) \/ EnterLoop(t) \/ Open(t) \/ OpenExists(t)
         \/ WritePayload(t) \/ Register(t) \/ WriteFails(t) \/ Unwind(t)
         \/ JudgeStale(t) \/ JudgeHeld(t) \/ JudgeUnreadable(t) \/ Stat(t)
         \/ StatFails(t) \/ Reclaim(t) \/ Retry(t) \/ TimesOut(t)
  PROVE  Safe'
  <1> USE NoLockAssumption, ProcOfAssumption DEF Safe, Types, Locks, Stages, Contending,
        Provenance, Created, Registered, OnDisk, HeldOnDisk, JudgedStale, OwnFile, Stale, Dead
  <1>1. CASE Begin(t)
    BY <1>1 DEF Begin, Goto, fileVars
  <1>2. CASE Join(t)
    BY <1>2 DEF Join, Goto, fileVars
  <1>3. CASE EnterLoop(t)
    BY <1>3 DEF EnterLoop, Goto, fileVars, procVars
  <1>4. CASE Open(t)
    <2>1. Types'
      BY <1>4 DEF Open, Goto, procVars
    <2>2. Provenance'
      BY <1>4 DEF Open, Goto, procVars
    <2>3. OnDisk'
      BY <1>4 DEF Open, Goto, procVars
    <2>4. HeldOnDisk'
      BY <1>4 DEF Open, Goto, procVars
    <2>5. JudgedStale'
      BY <1>4 DEF Open, Goto, procVars
    <2>6. OwnFile'
      BY <1>4 DEF Open, Goto, procVars
    <2> QED
      BY <2>1, <2>2, <2>3, <2>4, <2>5, <2>6
  <1>5. CASE OpenExists(t)
    BY <1>5 DEF OpenExists, Goto, fileVars, procVars
  <1>6. CASE WritePayload(t)
    BY <1>6 DEF WritePayload, Goto, procVars
  <1>7. CASE Register(t)
    BY <1>7 DEF Register, Goto, fileVars
  <1>8. CASE WriteFails(t)
    BY <1>8 DEF WriteFails, Goto, fileVars, procVars
  <1>9. CASE Unwind(t)
    <2>1. Types'
      BY <1>9 DEF Unwind, Goto, RemovePath, procVars
    <2>2. Provenance'
      BY <1>9 DEF Unwind, Goto, RemovePath, procVars
    <2>3. OnDisk'
      BY <1>9 DEF Unwind, Goto, RemovePath, procVars
    <2>4. HeldOnDisk'
      BY <1>9 DEF Unwind, Goto, RemovePath, procVars
    <2>5. JudgedStale'
      BY <1>9 DEF Unwind, Goto, RemovePath, procVars
    <2>6. OwnFile'
      BY <1>9 DEF Unwind, Goto, RemovePath, procVars
    <2> QED
      BY <2>1, <2>2, <2>3, <2>4, <2>5, <2>6
  <1>10. CASE JudgeStale(t)
    BY <1>10 DEF JudgeStale, Goto, fileVars, procVars
  <1>11. CASE JudgeHeld(t)
    BY <1>11 DEF JudgeHeld, Goto, fileVars, procVars
  <1>12. CASE JudgeUnreadable(t)
    BY <1>12 DEF JudgeUnreadable, Goto, fileVars, procVars
  <1>13. CASE Stat(t)
    BY <1>13 DEF Stat, Goto, StatDecides, fileVars, procVars
  <1>14. CASE Reclaim(t)
    <2>1. Types'
      BY <1>14 DEF Reclaim, Goto, RemovePath, procVars
    <2>2. Provenance'
      BY <1>14 DEF Reclaim, Goto, RemovePath, procVars
    <2>3. OnDisk'
      BY <1>14 DEF Reclaim, Goto, RemovePath, procVars
    <2>4. HeldOnDisk'
      BY <1>14 DEF Reclaim, Goto, RemovePath, procVars
    <2>5. JudgedStale'
      BY <1>14 DEF Reclaim, Goto, RemovePath, procVars
    <2>6. OwnFile'
      BY <1>14 DEF Reclaim, Goto, RemovePath, procVars
    <2> QED
      BY <2>1, <2>2, <2>3, <2>4, <2>5, <2>6
  <1>15. CASE Retry(t)
    BY <1>15 DEF Retry, Goto, fileVars, procVars
  <1>16. CASE TimesOut(t)
    BY <1>16 DEF TimesOut, Goto, fileVars, procVars
  <1>17. CASE StatFails(t)
    BY <1>17 DEF StatFails, Goto, fileVars, procVars
  <1> QED
    BY <1>1, <1>2, <1>3, <1>4, <1>5, <1>6, <1>7, <1>8,
       <1>9, <1>10, <1>11, <1>12, <1>13, <1>14, <1>15, <1>16, <1>17

\* A release, and the removal of the file that ends it.
LEMMA ReleaseKeepsSafe ==
  ASSUME Safe, NEW t \in Tasks,
         ReleaseLate(t) \/ ReleaseOne(t) \/ ReleaseLast(t) \/ RemoveOwn(t)
  PROVE  Safe'
  <1> USE NoLockAssumption, ProcOfAssumption DEF Safe, Types, Locks, Stages, Contending,
        Provenance, Created, Registered, OnDisk, HeldOnDisk, JudgedStale, OwnFile, Stale, Dead
  <1>1. CASE ReleaseLate(t)
    BY <1>1 DEF ReleaseLate, Goto, fileVars, procVars
  <1>2. CASE ReleaseOne(t)
    BY <1>2 DEF ReleaseOne, Goto, fileVars
  <1>3. CASE ReleaseLast(t)
    <2>1. Types'
      BY <1>3 DEF ReleaseLast, Goto, Deregister, fileVars
    <2>2. Provenance'
      BY <1>3 DEF ReleaseLast, Goto, Deregister, fileVars
    <2>3. OnDisk'
      BY <1>3 DEF ReleaseLast, Goto, Deregister, fileVars
    <2>4. HeldOnDisk'
      BY <1>3 DEF ReleaseLast, Goto, Deregister, fileVars
    <2>5. JudgedStale'
      BY <1>3 DEF ReleaseLast, Goto, Deregister, fileVars
    <2>6. OwnFile'
      BY <1>3 DEF ReleaseLast, Goto, Deregister, fileVars
    <2> QED
      BY <2>1, <2>2, <2>3, <2>4, <2>5, <2>6
  <1>4. CASE RemoveOwn(t)
    <2>1. Types'
      <3>1. /\ file' \in Locks /\ written' \in BOOLEAN /\ old' \in BOOLEAN
            /\ robbed' \subseteq Tasks
        BY <1>4 DEF RemoveOwn, RemovePath
      <3>2. pc' \in [Tasks -> Stages]
        BY <1>4 DEF RemoveOwn
      <3>3. watchdog' \in [Procs -> BOOLEAN]
        BY <1>4 DEF RemoveOwn
      <3> QED
        BY <1>4, <3>1, <3>2, <3>3 DEF RemoveOwn
    <2>2. Provenance'
      BY <1>4 DEF RemoveOwn, RemovePath
    <2>3. OnDisk'
      BY <1>4 DEF RemoveOwn, RemovePath
    <2>4. HeldOnDisk'
      BY <1>4 DEF RemoveOwn, RemovePath
    <2>5. JudgedStale'
      BY <1>4 DEF RemoveOwn, RemovePath
    <2>6. OwnFile'
      BY <1>4 DEF RemoveOwn, RemovePath
    <2> QED
      BY <2>1, <2>2, <2>3, <2>4, <2>5, <2>6
  <1> QED
    BY <1>1, <1>2, <1>3, <1>4

\* The watchdog, a signal, a kill, and the sweep of a start.
LEMMA ProcessKeepsSafe ==
  ASSUME Safe, NEW p \in Procs,
         \/ ForceOut(p) \/ ReleaseAllSync(p) \/ Crash(p)
         \/ SweepList(p) \/ SweepRead(p) \/ SweepRemove(p)
  PROVE  Safe'
  <1> USE NoLockAssumption, ProcOfAssumption DEF Safe, Types, Locks, Stages, Contending,
        Provenance, Created, Registered, OnDisk, HeldOnDisk, JudgedStale, OwnFile, Stale, Dead
  <1>1. CASE ForceOut(p)
    BY <1>1 DEF ForceOut, Deregister, fileVars
  <1>2. CASE ReleaseAllSync(p)
    <2>1. Types'
      <3>1. /\ file' \in Locks /\ written' \in BOOLEAN /\ old' \in BOOLEAN
            /\ robbed' \subseteq Tasks
        <4>1. CASE held[p] # NoLock
          <5>1. RemovePath(held[p])
            BY <1>2, <4>1 DEF ReleaseAllSync
          <5> QED
            BY <5>1, RemoveTypes
        <4>2. CASE held[p] = NoLock
          BY <1>2, <4>2 DEF ReleaseAllSync, fileVars
        <4> QED
          BY <4>1, <4>2
      <3> QED
        BY <1>2, <3>1 DEF ReleaseAllSync
    <2>2. Provenance'
      BY <1>2 DEF ReleaseAllSync, RemovePath, fileVars
    <2>3. OnDisk'
      BY <1>2 DEF ReleaseAllSync, RemovePath, fileVars
    <2>4. HeldOnDisk'
      BY <1>2 DEF ReleaseAllSync, RemovePath, fileVars
    <2>5. JudgedStale'
      BY <1>2 DEF ReleaseAllSync, RemovePath, fileVars
    <2>6. OwnFile'
      BY <1>2 DEF ReleaseAllSync, RemovePath, fileVars
    <2> QED
      BY <2>1, <2>2, <2>3, <2>4, <2>5, <2>6
  <1>3. CASE Crash(p)
    BY <1>3 DEF Crash, fileVars
  <1>4. CASE SweepList(p)
    BY <1>4 DEF SweepList, SweepTo, fileVars, procVars
  <1>5. CASE SweepRead(p)
    BY <1>5 DEF SweepRead, SweepTo, fileVars, procVars
  <1>6. CASE SweepRemove(p)
    <2>1. Types'
      BY <1>6 DEF SweepRemove, RemovePath, SweepTo, procVars
    <2>2. Provenance'
      BY <1>6 DEF SweepRemove, RemovePath, SweepTo, procVars
    <2>3. OnDisk'
      BY <1>6 DEF SweepRemove, RemovePath, SweepTo, procVars
    <2>4. HeldOnDisk'
      BY <1>6 DEF SweepRemove, RemovePath, SweepTo, procVars
    <2>5. JudgedStale'
      BY <1>6 DEF SweepRemove, RemovePath, SweepTo, procVars
    <2>6. OwnFile'
      BY <1>6 DEF SweepRemove, RemovePath, SweepTo, procVars
    <2> QED
      BY <2>1, <2>2, <2>3, <2>4, <2>5, <2>6
  <1> QED
    BY <1>1, <1>2, <1>3, <1>4, <1>5, <1>6

\* Every step keeps these parts.
LEMMA SafeStep == Safe /\ [Next]_vars => Safe'
  <1> SUFFICES ASSUME Safe, [Next]_vars PROVE Safe'
    OBVIOUS
  <1>1. ASSUME NEW t \in Tasks,
               Begin(t) \/ AcquireStep(t) \/ WriteFails(t) \/ TimesOut(t)
        PROVE  Safe'
    BY <1>1, AcquireKeepsSafe DEF AcquireStep
  <1>2. ASSUME NEW t \in Tasks, Release(t) \/ RemoveOwn(t)
        PROVE  Safe'
    BY <1>2, ReleaseKeepsSafe DEF Release
  <1>3. ASSUME NEW p \in Procs, ForceOut(p) \/ ReleaseAllSync(p) \/ Crash(p) \/ Sweep(p)
        PROVE  Safe'
    BY <1>3, ProcessKeepsSafe DEF Sweep
  <1>4. CASE Age
    BY <1>4 DEF Age, procVars, Safe, Types, Provenance, OnDisk, HeldOnDisk,
                JudgedStale, OwnFile, Stale, Dead
  <1>5. CASE UNCHANGED vars
    BY <1>5 DEF vars, fileVars, procVars, Safe, Types, Provenance, OnDisk, HeldOnDisk,
                JudgedStale, OwnFile, Stale, Dead
  <1> QED
    BY <1>1, <1>2, <1>3, <1>4, <1>5 DEF Next

-----------------------------------------------------------------------------
(* The count of holders.                                                   *)

\* The holders of a process can be counted.
LEMMA HoldersFinite ==
  ASSUME NEW p \in Procs
  PROVE  IsFiniteSet(Holders(p))
  BY TasksAssumption, FS_Subset DEF Holders

\* A step that changes neither who holds nor the counts.
LEMMA SameHolders ==
  ASSUME CountsHolders, count' = count, \A p \in Procs : Holders(p)' = Holders(p)
  PROVE  CountsHolders'
  BY DEF CountsHolders, Holders

\* A step that takes the lock of a process out of HELD_LOCKS.
LEMMA NoHolders ==
  ASSUME CountsHolders, Types, NEW q \in Procs,
         held' = [held EXCEPT ![q] = NoLock], count' = [count EXCEPT ![q] = 0],
         hold' = hold,
         \A t \in Tasks : ProcOf[t] # q => (pc'[t] = "holding" <=> pc[t] = "holding")
  PROVE  CountsHolders'
  <1> SUFFICES ASSUME NEW p \in Procs
               PROVE  count'[p] = Cardinality(Holders(p)')
    BY DEF CountsHolders, Holders
  <1>1. CASE p = q
    <2>1. Holders(p)' = {}
      BY <1>1 DEF Holders, Types
    <2> QED
      BY <1>1, <2>1, FS_EmptySet DEF Types
  <1>2. CASE p # q
    <2>1. Holders(p)' = Holders(p)
      BY <1>2 DEF Holders, Types
    <2> QED
      BY <1>2, <2>1 DEF Types, CountsHolders, Holders
  <1> QED
    BY <1>1, <1>2

\* Every step keeps the count.
LEMMA CountStep == Safe /\ CountsHolders /\ [Next]_vars => CountsHolders'
  <1> SUFFICES ASSUME Safe, CountsHolders, [Next]_vars PROVE CountsHolders'
    OBVIOUS
  <1>1. Types /\ Provenance /\ \A p \in Procs : count[p] = Cardinality(Holders(p))
    BY DEF Safe, CountsHolders, Holders
  <1>2. ASSUME NEW t \in Tasks, Join(t)
        PROVE  CountsHolders'
    <2> DEFINE q == ProcOf[t]
    <2>1. /\ q \in Procs /\ held[q] # NoLock /\ pc[t] = "entering"
          /\ pc' = [pc EXCEPT ![t] = "holding"] /\ hold' = [hold EXCEPT ![t] = held[q]]
          /\ count' = [count EXCEPT ![q] = @ + 1] /\ held' = held
      BY <1>2, ProcOfAssumption DEF Join, Goto
    <2>2. Holders(q)' = Holders(q) \cup {t} /\ t \notin Holders(q)
      BY <1>1, <2>1 DEF Holders, Types
    <2>3. ASSUME NEW p \in Procs, p # q
          PROVE  Holders(p)' = Holders(p)
      BY <1>1, <2>1, <2>3 DEF Holders, Types
    <2>4. Cardinality(Holders(q)') = Cardinality(Holders(q)) + 1
      BY <2>1, <2>2, HoldersFinite, FS_AddElement
    <2>5. ASSUME NEW p \in Procs
          PROVE  count'[p] = Cardinality(Holders(p)')
      <3>1. CASE p = q
        BY <1>1, <2>1, <2>4, <3>1 DEF Types
      <3>2. CASE p # q
        BY <1>1, <2>1, <2>3, <3>2 DEF Types
      <3> QED
        BY <3>1, <3>2
    <2> QED
      BY <2>5 DEF CountsHolders, Holders
  <1>3. ASSUME NEW t \in Tasks, Register(t)
        PROVE  CountsHolders'
    <2> DEFINE q == ProcOf[t]
    <2>1. /\ q \in Procs /\ pc[t] = "registering" /\ t # NoLock
          /\ pc' = [pc EXCEPT ![t] = "holding"] /\ hold' = [hold EXCEPT ![t] = t]
          /\ count' = [count EXCEPT ![q] = 1] /\ held' = [held EXCEPT ![q] = t]
      BY <1>3, ProcOfAssumption, NoLockAssumption DEF Register, Goto
    <2>2. \A s \in Tasks : hold[s] # t
      BY <1>1, <2>1 DEF Provenance, Registered
    <2>3. Holders(q)' = {t}
      BY <1>1, <2>1, <2>2 DEF Holders, Types
    <2>4. ASSUME NEW p \in Procs, p # q
          PROVE  Holders(p)' = Holders(p)
      BY <1>1, <2>1, <2>4 DEF Holders, Types
    <2>5. ASSUME NEW p \in Procs
          PROVE  count'[p] = Cardinality(Holders(p)')
      <3>1. CASE p = q
        BY <1>1, <2>1, <2>3, <3>1, FS_Singleton DEF Types
      <3>2. CASE p # q
        BY <1>1, <2>1, <2>4, <3>2 DEF Types
      <3> QED
        BY <3>1, <3>2
    <2> QED
      BY <2>5 DEF CountsHolders, Holders
  <1>4. ASSUME NEW t \in Tasks, ReleaseOne(t)
        PROVE  CountsHolders'
    <2> DEFINE q == ProcOf[t]
    <2>1. /\ q \in Procs /\ hold[t] = held[q] /\ held[q] # NoLock /\ pc[t] = "holding"
          /\ pc' = [pc EXCEPT ![t] = "done"]
          /\ count' = [count EXCEPT ![q] = @ - 1] /\ UNCHANGED <<held, hold>>
      BY <1>1, <1>4, ProcOfAssumption DEF ReleaseOne, Goto, Provenance
    <2>2. Holders(q)' = Holders(q) \ {t} /\ t \in Holders(q)
      BY <1>1, <2>1 DEF Holders, Types
    <2>3. ASSUME NEW p \in Procs, p # q
          PROVE  Holders(p)' = Holders(p)
      BY <1>1, <2>1, <2>3 DEF Holders, Types
    <2>4. Cardinality(Holders(q)') = Cardinality(Holders(q)) - 1
      BY <2>1, <2>2, HoldersFinite, FS_RemoveElement
    <2>5. ASSUME NEW p \in Procs
          PROVE  count'[p] = Cardinality(Holders(p)')
      <3>1. CASE p = q
        BY <1>1, <2>1, <2>4, <3>1 DEF Types
      <3>2. CASE p # q
        BY <1>1, <2>1, <2>3, <3>2 DEF Types
      <3> QED
        BY <3>1, <3>2
    <2> QED
      BY <2>5 DEF CountsHolders, Holders
  <1>5. ASSUME NEW t \in Tasks, ReleaseLast(t)
        PROVE  CountsHolders'
    <2>1. /\ ProcOf[t] \in Procs /\ hold' = hold /\ pc' = [pc EXCEPT ![t] = "closing"]
          /\ held' = [held EXCEPT ![ProcOf[t]] = NoLock]
          /\ count' = [count EXCEPT ![ProcOf[t]] = 0]
      BY <1>5, ProcOfAssumption DEF ReleaseLast, Goto, Deregister
    <2> QED
      BY <1>1, <2>1, NoHolders DEF Types
  <1>6. ASSUME NEW p \in Procs, ForceOut(p) \/ ReleaseAllSync(p) \/ Crash(p)
        PROVE  CountsHolders'
    <2>1. /\ hold' = hold /\ held' = [held EXCEPT ![p] = NoLock]
          /\ count' = [count EXCEPT ![p] = 0]
          /\ \A t \in Tasks : ProcOf[t] # p => pc'[t] = pc[t]
      BY <1>6 DEF ForceOut, ReleaseAllSync, Crash, Deregister
    <2> QED
      BY <1>1, <2>1, NoHolders
  <1>7. ASSUME NEW t \in Tasks, ReleaseLate(t)
        PROVE  CountsHolders'
    <2>1. /\ hold[t] # held[ProcOf[t]] /\ pc' = [pc EXCEPT ![t] = "done"]
          /\ UNCHANGED <<hold, held, count>>
      BY <1>7 DEF ReleaseLate, Goto, procVars
    <2>2. \A p \in Procs : Holders(p)' = Holders(p)
      BY <1>1, <2>1 DEF Holders, Types
    <2> QED
      BY <2>1, <2>2, SameHolders
  <1>8. ASSUME UNCHANGED <<hold, held, count>>,
               \A t \in Tasks : pc'[t] = "holding" <=> pc[t] = "holding"
        PROVE  CountsHolders'
    <2>1. \A p \in Procs : Holders(p)' = Holders(p)
      BY <1>8 DEF Holders
    <2> QED
      BY <1>8, <2>1, SameHolders
  <1>9. ASSUME NEW t \in Tasks,
               \/ Begin(t) \/ EnterLoop(t) \/ Open(t) \/ OpenExists(t) \/ WritePayload(t)
               \/ WriteFails(t) \/ Unwind(t) \/ JudgeStale(t) \/ JudgeHeld(t)
               \/ JudgeUnreadable(t) \/ Stat(t) \/ StatFails(t) \/ Reclaim(t) \/ Retry(t)
               \/ TimesOut(t)
        PROVE  CountsHolders'
    <2>1. /\ UNCHANGED <<hold, held, count>>
          /\ \E from \in Stages \ {"holding"}, to \in Stages \ {"holding"} :
               pc[t] = from /\ pc' = [pc EXCEPT ![t] = to]
      BY <1>9 DEF Begin, EnterLoop, Open, OpenExists, WritePayload, WriteFails, Unwind,
                  JudgeStale, JudgeHeld, JudgeUnreadable, Stat, StatFails, Reclaim, Retry,
                  TimesOut, Goto, procVars, Stages, Contending
    <2> QED
      BY <1>1, <1>8, <2>1 DEF Types
  <1>10. ASSUME NEW l \in Tasks, RemoveOwn(l)
         PROVE  CountsHolders'
    BY <1>1, <1>8, <1>10 DEF RemoveOwn, Types
  <1>11. ASSUME NEW p \in Procs, Sweep(p)
         PROVE  CountsHolders'
    BY <1>8, <1>11 DEF Sweep, SweepList, SweepRead, SweepRemove, procVars
  <1>12. CASE Age \/ UNCHANGED vars
    BY <1>8, <1>12 DEF Age, vars, procVars
  <1> QED
    BY <1>2, <1>3, <1>4, <1>5, <1>6, <1>7, <1>9, <1>10, <1>11, <1>12
       DEF Next, AcquireStep, Release

-----------------------------------------------------------------------------
(* The theorems.                                                           *)

\* The invariant holds at first.
LEMMA InitInvariant == Init => IInv
  <1> SUFFICES ASSUME Init PROVE IInv
    OBVIOUS
  <1>1. Safe
    BY NoLockAssumption DEF Init, Safe, Types, Locks, Stages, Provenance, OnDisk, HeldOnDisk,
                            JudgedStale, OwnFile
  <1>2. \A p \in Procs : Holders(p) = {} /\ count[p] = 0
    BY DEF Init, Holders
  <1>3. CountsHolders
    BY <1>2, FS_EmptySet DEF CountsHolders, Holders
  <1> QED
    BY <1>1, <1>3 DEF IInv

\* Every behaviour keeps the invariant.
LEMMA Invariance == Spec => []IInv
  BY InitInvariant, SafeStep, CountStep, PTL DEF Spec, IInv

\* Every variable has its type; in particular no process counts more holders
\* than there are calls.
THEOREM TypeCorrect == Spec => []TypeOK
  <1>1. IInv => TypeOK
    <2> SUFFICES ASSUME IInv PROVE TypeOK
      OBVIOUS
    <2>1. ASSUME NEW p \in Procs
          PROVE  count[p] \in 0..Cardinality(Tasks)
      <3>1. Holders(p) \in SUBSET Tasks
        BY DEF Holders
      <3>2. /\ Cardinality(Holders(p)) <= Cardinality(Tasks)
            /\ Cardinality(Tasks) \in Nat
        BY <3>1, TasksAssumption, FS_Subset, FS_CardinalityType
      <3>3. count[p] = Cardinality(Holders(p)) /\ count[p] \in Nat
        BY DEF IInv, Safe, Types, CountsHolders, Holders
      <3> QED
        BY <3>2, <3>3
    <2> QED
      BY <2>1 DEF IInv, Safe, Types, TypeOK, Stages
  <1> QED
    BY <1>1, Invariance, PTL

\* The lock a process believes it holds is the one on disk, unless it was robbed:
\* no two processes hold it.
THEOREM HeldIsOnDisk == Spec => []HeldOnDisk
  BY Invariance, PTL DEF IInv, Safe

\* HeldLock.count is the number of callers that still rely on the current lock,
\* whatever late releases, forced releases and re-entrant calls happen.
THEOREM CountIsRight == Spec => []CountsHolders
  BY Invariance, PTL DEF IInv

\* Whoever takes a lock file from its owner takes a stale one, or is a contender
\* that judged another file or none, the sweep of a start, or a process that was
\* robbed itself.
LEMMA RobbersAreKnown ==
  ASSUME Safe, [Next]_vars, NEW l \in robbed' \ robbed
  PROVE  Dead(l) \/ old \/ MisledContender(l) \/ SweptAway \/ RobbedOwner
  <1>1. ASSUME NEW t \in Tasks, Unwind(t)
        PROVE  RobbedOwner
    BY <1>1, NoLockAssumption DEF Unwind, RemovePath, Goto, RobbedOwner, Safe, OwnFile, Types
  <1>2. ASSUME NEW t \in Tasks, Reclaim(t)
        PROVE  Dead(l) \/ old \/ MisledContender(l)
    <2>1. /\ l = file /\ file # NoLock
          /\ pc[t] = "removing" /\ pc' = [pc EXCEPT ![t] = "opening"]
      BY <1>2 DEF Reclaim, RemovePath, Goto
    <2>2. CASE seen[t] = l
      BY <2>1, <2>2 DEF Safe, JudgedStale, Stale, Dead
    <2>3. CASE seen[t] # l
      BY <2>1, <2>3 DEF MisledContender, Safe, Types
    <2> QED
      BY <2>2, <2>3
  <1>3. ASSUME NEW t \in Tasks, RemoveOwn(t)
        PROVE  RobbedOwner
    BY <1>3 DEF RemoveOwn, RemovePath, RobbedOwner, Safe, OwnFile, Types
  <1>4. ASSUME NEW p \in Procs, ReleaseAllSync(p)
        PROVE  RobbedOwner
    <2>1. /\ held[p] # NoLock /\ l = file /\ file # held[p]
          /\ held' = [held EXCEPT ![p] = NoLock]
      BY <1>4 DEF ReleaseAllSync, RemovePath
    <2>2. held[p] \in robbed
      BY <2>1 DEF Safe, HeldOnDisk, Types, Locks
    <2> QED
      BY <2>1, <2>2 DEF RobbedOwner, Safe, Types
  <1>5. ASSUME NEW p \in Procs, SweepRemove(p)
        PROVE  SweptAway
    BY <1>5 DEF SweepRemove, SweepTo, SweptAway, Safe, Types
  <1>6. ASSUME robbed' = robbed
        PROVE  FALSE
    BY <1>6
  <1>7. ASSUME NEW t \in Tasks, Begin(t) \/ AcquireStep(t) \/ WriteFails(t) \/ TimesOut(t)
        PROVE  Unwind(t) \/ Reclaim(t)
    BY <1>6, <1>7 DEF AcquireStep, Begin, Join, EnterLoop, Open, OpenExists, WritePayload,
         Register, WriteFails, JudgeStale, JudgeHeld, JudgeUnreadable, Stat, StatFails,
         Retry, TimesOut
  <1>8. ASSUME NEW t \in Tasks, Release(t)
        PROVE  FALSE
    BY <1>6, <1>8 DEF Release, ReleaseLate, ReleaseOne, ReleaseLast
  <1>9. ASSUME NEW p \in Procs, ForceOut(p) \/ Crash(p) \/ Sweep(p)
        PROVE  SweepRemove(p)
    BY <1>6, <1>9 DEF ForceOut, Crash, Sweep, SweepList, SweepRead
  <1>10. CASE Age \/ UNCHANGED vars
    BY <1>6, <1>10 DEF Age, vars
  <1> QED
    BY <1>1, <1>2, <1>3, <1>4, <1>5, <1>7, <1>8, <1>9, <1>10 DEF Next

\* A lock whose owner lives and that is not over age is taken from it only by a
\* contender that looked at an earlier file or whose stat failed, by the sweep of a
\* start, and by a process that was robbed of its own: never by a contender for
\* having no payload yet, never by a release or a signal of an unharmed holder.
THEOREM FreshLocksAreKept == Spec => FreshLocksSurvive
  <1>1. Safe /\ [Next]_vars =>
          [\A l \in robbed' \ robbed :
             Dead(l) \/ old \/ MisledContender(l) \/ SweptAway \/ RobbedOwner]_vars
    BY RobbersAreKnown
  <1> QED
    BY <1>1, Invariance, PTL DEF Spec, IInv, FreshLocksSurvive
=============================================================================
