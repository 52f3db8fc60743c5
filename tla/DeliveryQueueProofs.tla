------------------------ MODULE DeliveryQueueProofs ------------------------
(***************************************************************************)
(* Theorems about the queue of outbound messages, for any entries, owners, *)
(* retry limit and number of crashes:                                      *)
(*                                                                         *)
(*   TypeCorrect         the state is well typed;                          *)
(*   OneRecovery         two recovery loops never work on the same entry;  *)
(*   OnlyBestEffortLost  a message leaves the queue only when it was sent, *)
(*   and NotLost         was aborted or went to failed/, unless it is best *)
(*                       effort;                                           *)
(*   NoOldResend         as long as no run exceeds its budget, none sends  *)
(*   and NoResend        a message found on disk after it was acked.       *)
(***************************************************************************)
EXTENDS DeliveryQueue, WellFoundedInduction, TLAPS

-----------------------------------------------------------------------------
(* The oldest entry.                                                       *)

Below == {p \in Nat \X Nat : p[1] < p[2]}

\* Every set of entries that is not empty has an oldest one, however many
\* entries there are (the entries are numbered by enqueuedAt).
LEMMA OldestIsElement ==
  ASSUME NEW S \in SUBSET Entries, S # {}
  PROVE  Oldest(S) \in S
  <1>1. IsWellFoundedOn(Below, Nat)
    BY NatLessThanWellFounded, Zenon DEF OpToRel, Below
  <1>2. S \in SUBSET Nat
    BY DeliveryQueueAssumption
  <1>3. PICK e \in S : \A d \in S : ~ (<<d, e>> \in Below)
    BY <1>1, <1>2, WFMin
  <1>4. \A d \in S : ~ (d < e)
    BY <1>2, <1>3 DEF Below
  <1>5. \A d \in S : e <= d
    BY <1>2, <1>4
  <1> QED
    BY <1>5, Zenon DEF Oldest

-----------------------------------------------------------------------------
(* What the steps of an owner have in common.                              *)

\* Goto changes the phase of one owner for one entry.
LEMMA GotoFacts ==
  ASSUME TypeOK, NEW o \in Owners, NEW e \in Entries, NEW p \in Phase, Goto(o, e, p)
  PROVE  /\ phase' \in [Owners -> [Entries -> Phase]]
         /\ \A q \in Owners, d \in Entries :
              phase'[q][d] = IF q = o /\ d = e THEN p ELSE phase[q][d]
  BY DEF Goto, TypeOK

\* Finish ends the work of one owner on one entry.
LEMMA FinishFacts ==
  ASSUME TypeOK, NEW o \in Owners, NEW e \in Entries, Finish(o, e)
  PROVE  /\ phase' \in [Owners -> [Entries -> Phase]]
         /\ \A q \in Owners, d \in Entries :
              phase'[q][d] = IF q = o /\ d = e
                             THEN (IF o = Live THEN "done" ELSE "idle")
                             ELSE phase[q][d]
         /\ claimed' \subseteq Entries
  <1> DEFINE p == IF o = Live THEN "done" ELSE "idle"
  <1>1. p \in Phase /\ Goto(o, e, p)
    BY DEF Finish, Phase
  <1> HIDE DEF p
  <1>2. claimed' \subseteq Entries
    BY DEF Finish, Release, TypeOK
  <1> QED
    BY <1>1, <1>2, GotoFacts DEF p

\* The phases of a failDelivery, the only ones of a run that defers entries.
Failing == {"failRead", "failWrite", "failRename"}

\* An owner's step on an entry it works on: it goes on or it is through.  A
\* failDelivery only goes on to its own next call.
Works(o, e) ==
  /\ phase[o][e] # "idle"
  /\ run' = run
  /\ \/ Finish(o, e)
     \/ /\ claimed' = claimed
        /\ \E p \in Phase :
             Goto(o, e, p) /\ (phase[o][e] \in Failing => p \in Failing)

\* A storage call works on one entry.
LEMMA StorageStepWorks ==
  ASSUME NEW o \in Owners, NEW e \in Entries, StorageStep(o, e)
  PROVE  Works(o, e)
  <1>1. CASE SendOk(o, e)
    BY <1>1 DEF SendOk, Works, Phase, Failing
  <1>2. CASE SendPartial(o, e)
    <2> DEFINE p == IF o = Live /\ e \in Reported THEN "failRead" ELSE "ack"
    <2>1. p \in Phase
      BY DEF Phase
    <2> QED
      BY <1>2, <2>1 DEF SendPartial, Works, Failing
  <1>3. CASE SendThrows(o, e)
    BY <1>3 DEF SendThrows, Works, Phase, Failing
  <1>4. CASE AckRename(o, e)
    BY <1>4 DEF AckRename, Works, Phase, Failing
  <1>5. CASE AckError(o, e)
    BY <1>5 DEF AckError, Works, Phase, Failing
  <1>6. CASE AckUnlink(o, e)
    BY <1>6 DEF AckUnlink, Works
  <1>7. CASE FailRead(o, e)
    BY <1>7 DEF FailRead, Works, Phase, Failing
  <1>8. CASE FailWrite(o, e)
    BY <1>8 DEF FailWrite, Works, Phase, Failing
  <1>9. CASE FailRename(o, e)
    BY <1>9 DEF FailRename, Works
  <1>10. CASE FailError(o, e)
    BY <1>10 DEF FailError, Works
  <1> QED
    BY <1>1, <1>2, <1>3, <1>4, <1>5, <1>6, <1>7, <1>8, <1>9, <1>10 DEF StorageStep

\* So does every step of a run on an entry, unless it throws.
LEMMA RecoveryStepWorks ==
  ASSUME NEW r \in Recoverers, NEW e \in Entries, RecoveryStep(r, e), ~RunThrows(r, e)
  PROVE  Works(r, e)
  <1>1. CASE StorageStep(r, e)
    BY <1>1, StorageStepWorks DEF Owners
  <1>2. CASE MoveToFailed(r, e)
    BY <1>2 DEF MoveToFailed, Works
  <1>3. CASE MoveError(r, e)
    BY <1>3 DEF MoveError, Works
  <1>4. CASE Attempt(r, e)
    BY <1>4 DEF Attempt, Works, Phase, Failing
  <1>5. CASE Exhausted(r, e)
    BY <1>5 DEF Exhausted, Works, Phase, Failing
  <1>6. CASE SkipEntry(r, e)
    BY <1>6 DEF SkipEntry, Works
  <1> QED
    BY <1>1, <1>2, <1>3, <1>4, <1>5, <1>6 DEF RecoveryStep

\* A step of the original sender: recovery runs and claims stay as they are.
SenderOnly ==
  /\ \A r \in Recoverers, e \in Entries : phase'[r][e] = phase[r][e]
  /\ claimed' = claimed
  /\ run' = run

\* The original sender claims nothing and touches no run.
LEMMA SenderSteps ==
  ASSUME TypeOK, NEW e \in Entries,
         \/ LiveEnqueue(e) \/ LiveEnqueueFails(e) \/ LiveAborted(e)
         \/ StorageStep(Live, e)
  PROVE  SenderOnly
  <1>1. Live \in Owners /\ Live \notin Recoverers /\ Recoverers \subseteq Owners
    BY DeliveryQueueAssumption DEF Owners
  <1>2. ASSUME NEW p \in Phase, Goto(Live, e, p), claimed' = claimed, run' = run
        PROVE  SenderOnly
    BY <1>1, <1>2, GotoFacts DEF SenderOnly
  <1>3. CASE LiveEnqueue(e)
    BY <1>2, <1>3 DEF LiveEnqueue, Phase
  <1>4. CASE LiveEnqueueFails(e)
    BY <1>2, <1>4 DEF LiveEnqueueFails, Phase
  <1>5. CASE LiveAborted(e)
    BY <1>2, <1>5 DEF LiveAborted, Phase
  <1>6. CASE StorageStep(Live, e)
    <2>1. Works(Live, e)
      BY <1>1, <1>6, StorageStepWorks
    <2>2. CASE Finish(Live, e)
      BY <1>1, <2>1, <2>2, FinishFacts DEF SenderOnly, Finish, Release, Works
    <2> QED
      BY <1>2, <2>1, <2>2 DEF Works
  <1> QED
    BY <1>3, <1>4, <1>5, <1>6

-----------------------------------------------------------------------------
(* Types.                                                                  *)

\* failDelivery keeps the count within its bound.
LEMMA IncrementedType ==
  ASSUME NEW n \in 0..MaxRetries
  PROVE  Incremented(n) \in 0..MaxRetries
  BY DeliveryQueueAssumption DEF Incremented

\* The initial states are well typed.
LEMMA TypeInit ==
  ASSUME Init
  PROVE  TypeOK
  BY DeliveryQueueAssumption DEF Init, TypeOK, Phase, RunState

\* The storage calls keep the types.
LEMMA TypeStorage ==
  ASSUME TypeOK, NEW o \in Owners, NEW e \in Entries, StorageStep(o, e)
  PROVE  TypeOK'
  <1> USE DEF diskVars, historyVars
  <1>1. phase' \in [Owners -> [Entries -> Phase]] /\ claimed' \subseteq Entries
    <2>1. CASE Finish(o, e)
      BY <2>1, FinishFacts
    <2>2. CASE claimed' = claimed /\ \E p \in Phase : Goto(o, e, p)
      BY <2>2, GotoFacts DEF TypeOK
    <2> QED
      BY <2>1, <2>2, StorageStepWorks DEF Works
  <1>2. 0 \in 0..MaxRetries
    BY DeliveryQueueAssumption
  <1>3. CASE SendOk(o, e)
    BY <1>1, <1>3 DEF SendOk, TypeOK
  <1>4. CASE SendPartial(o, e)
    BY <1>1, <1>4 DEF SendPartial, TypeOK
  <1>5. CASE SendThrows(o, e)
    BY <1>1, <1>5 DEF SendThrows, TypeOK
  <1>6. CASE AckRename(o, e)
    <2>1. CASE e \in pending
      BY <1>1, <1>2, <1>6, <2>1 DEF AckRename, TypeOK
    <2>2. CASE e \notin pending
      BY <1>1, <1>6, <2>2 DEF AckRename, TypeOK
    <2> QED
      BY <2>1, <2>2
  <1>7. CASE AckError(o, e)
    BY <1>1, <1>7 DEF AckError, TypeOK
  <1>8. CASE AckUnlink(o, e)
    BY <1>1, <1>8 DEF AckUnlink, TypeOK
  <1>9. CASE FailRead(o, e)
    <2>1. retryCount[e] \in 0..MaxRetries
      BY DEF TypeOK
    <2>2. count' = count \/ count' = [count EXCEPT ![o][e] = retryCount[e]]
      BY <1>9 DEF FailRead
    <2>3. count' \in [Owners -> [Entries -> 0..MaxRetries]]
      <3>1. CASE count' = count
        BY <3>1 DEF TypeOK
      <3>2. CASE count' = [count EXCEPT ![o][e] = retryCount[e]]
        <4> DEFINE n == retryCount[e]
                   T == 0..MaxRetries
        <4>1. n \in T /\ count \in [Owners -> [Entries -> T]]
          BY <2>1 DEF TypeOK
        <4>2. count' = [count EXCEPT ![o][e] = n]
          BY <3>2
        <4> HIDE DEF n, T
        <4>3. count' \in [Owners -> [Entries -> T]]
          BY <4>1, <4>2
        <4> QED
          BY <4>3 DEF T
      <3> QED
        BY <2>2, <3>1, <3>2
    <2> QED
      BY <1>1, <1>9, <2>3 DEF FailRead, TypeOK
  <1>10. CASE FailWrite(o, e)
    <2>1. Incremented(count[o][e]) \in 0..MaxRetries
      BY IncrementedType DEF TypeOK
    <2>2. tmp' \in [Entries -> (0..MaxRetries) \cup {NoTmp}]
      BY <1>10, <2>1 DEF FailWrite, TypeOK
    <2>3. count' \in [Owners -> [Entries -> 0..MaxRetries]]
      BY <1>2, <1>10 DEF FailWrite, TypeOK
    <2> QED
      BY <1>1, <1>10, <2>2, <2>3 DEF FailWrite, TypeOK
  <1>11. CASE FailRename(o, e)
    <2>1. CASE tmp[e] # NoTmp
      <3>1. tmp[e] \in 0..MaxRetries
        BY <2>1 DEF TypeOK
      <3>2. retryCount' \in [Entries -> 0..MaxRetries]
        BY <1>11, <2>1, <3>1 DEF FailRename, TypeOK
      <3>3. tmp' \in [Entries -> (0..MaxRetries) \cup {NoTmp}]
        BY <1>11, <2>1 DEF FailRename, TypeOK
      <3> QED
        BY <1>1, <1>11, <2>1, <3>2, <3>3 DEF FailRename, TypeOK
    <2>2. CASE tmp[e] = NoTmp
      BY <1>1, <1>11, <2>2 DEF FailRename, TypeOK
    <2> QED
      BY <2>1, <2>2
  <1>12. CASE FailError(o, e)
    <2>1. count' \in [Owners -> [Entries -> 0..MaxRetries]]
      BY <1>2, <1>12 DEF FailError, TypeOK
    <2> QED
      BY <1>1, <1>12, <2>1 DEF FailError, TypeOK
  <1> QED
    BY <1>3, <1>4, <1>5, <1>6, <1>7, <1>8, <1>9, <1>10, <1>11, <1>12 DEF StorageStep

\* The steps of a run on an entry keep the types.
LEMMA TypeRecovery ==
  ASSUME TypeOK, NEW r \in Recoverers, NEW e \in Entries, RecoveryStep(r, e)
  PROVE  TypeOK'
  <1> USE DEF diskVars, historyVars
  <1>0. r \in Owners
    BY DEF Owners
  <1>1. CASE StorageStep(r, e)
    BY <1>0, <1>1, TypeStorage
  <1>2. CASE RunThrows(r, e)
    <2>1. phase' \in [Owners -> [Entries -> Phase]] /\ claimed' \subseteq Entries
      BY <1>0, <1>2, FinishFacts DEF RunThrows
    <2> QED
      BY <1>2, <2>1 DEF RunThrows, TypeOK, RunState
  <1>3. CASE ~StorageStep(r, e) /\ ~RunThrows(r, e)
    <2>1. phase' \in [Owners -> [Entries -> Phase]] /\ claimed' \subseteq Entries
      <3>1. CASE Finish(r, e)
        BY <1>0, <3>1, FinishFacts
      <3>2. CASE claimed' = claimed /\ \E p \in Phase : Goto(r, e, p)
        BY <1>0, <3>2, GotoFacts DEF TypeOK
      <3> QED
        BY <1>3, <3>1, <3>2, RecoveryStepWorks DEF Works
    <2>2. CASE MoveToFailed(r, e)
      <3>1. retryCount' \in [Entries -> 0..MaxRetries]
        BY <2>2, DeliveryQueueAssumption DEF MoveToFailed, TypeOK
      <3>2. pending' \subseteq Entries /\ failed' \subseteq Entries
        BY <2>2 DEF MoveToFailed, TypeOK
      <3> QED
        BY <2>1, <2>2, <3>1, <3>2 DEF MoveToFailed, TypeOK
    <2>3. CASE MoveError(r, e)
      BY <2>1, <2>3 DEF MoveError, TypeOK
    <2>4. CASE Attempt(r, e) \/ Exhausted(r, e) \/ SkipEntry(r, e)
      BY <2>1, <2>4 DEF Attempt, Exhausted, SkipEntry, TypeOK
    <2> QED
      BY <1>3, <2>2, <2>3, <2>4 DEF RecoveryStep
  <1> QED
    BY <1>1, <1>2, <1>3

\* The steps of a run as a whole keep the types.
LEMMA TypeRun ==
  ASSUME TypeOK, NEW r \in Recoverers,
         StartRun(r) \/ ClaimNext(r) \/ BudgetExpires(r) \/ EndRun(r)
  PROVE  TypeOK'
  <1> USE DEF diskVars, historyVars
  <1>0. r \in Owners
    BY DEF Owners
  <1>1. CASE StartRun(r)
    <2>1. todo' \in [Recoverers -> SUBSET Entries]
      BY <1>1 DEF StartRun, TypeOK
    <2> QED
      BY <1>1, <2>1 DEF StartRun, TypeOK, RunState
  <1>2. CASE ClaimNext(r)
    <2> DEFINE e == Oldest(todo[r])
    <2>1. e \in Entries
      BY <1>2, OldestIsElement DEF ClaimNext, TypeOK
    <2> HIDE DEF e
    <2>2. todo' \in [Recoverers -> SUBSET Entries]
      BY <1>2 DEF ClaimNext, TypeOK, e
    <2>3. phase' \in [Owners -> [Entries -> Phase]] /\ claimed' \subseteq Entries
      <3>1. CASE e \in claimed
        BY <1>2, <3>1 DEF ClaimNext, TypeOK, e
      <3>2. CASE e \notin claimed
        <4>1. Goto(r, e, "load") /\ claimed' = claimed \cup {e}
          BY <1>2, <3>2 DEF ClaimNext, e
        <4>2. "load" \in Phase
          BY DEF Phase
        <4> QED
          BY <1>0, <2>1, <4>1, <4>2, GotoFacts DEF TypeOK
      <3> QED
        BY <3>1, <3>2
    <2> QED
      BY <1>2, <2>2, <2>3 DEF ClaimNext, TypeOK, RunState
  <1>3. CASE BudgetExpires(r)
    <2>1. phase' \in [Owners -> [Entries -> Phase]]
      BY <1>0, <1>3 DEF BudgetExpires, TypeOK, Phase
    <2> QED
      BY <1>3, <2>1 DEF BudgetExpires, TypeOK, RunState
  <1>4. CASE EndRun(r)
    BY <1>4 DEF EndRun, TypeOK, RunState
  <1> QED
    BY <1>1, <1>2, <1>3, <1>4

\* The other steps of the original sender keep the types.
LEMMA TypeSender ==
  ASSUME TypeOK, NEW e \in Entries,
         LiveEnqueue(e) \/ LiveEnqueueFails(e) \/ LiveAborted(e)
  PROVE  TypeOK'
  <1> USE DEF diskVars, historyVars
  <1>1. Live \in Owners /\ "send" \in Phase /\ "done" \in Phase /\ "ack" \in Phase
    BY DEF Owners, Phase
  <1>2. CASE LiveEnqueue(e)
    <2>1. phase' \in [Owners -> [Entries -> Phase]]
      BY <1>1, <1>2, GotoFacts DEF LiveEnqueue
    <2>2. retryCount' \in [Entries -> 0..MaxRetries]
      BY <1>2, DeliveryQueueAssumption DEF LiveEnqueue, TypeOK
    <2> QED
      BY <1>2, <2>1, <2>2 DEF LiveEnqueue, TypeOK
  <1>3. CASE LiveEnqueueFails(e)
    <2>1. phase' \in [Owners -> [Entries -> Phase]]
      BY <1>1, <1>3, GotoFacts DEF LiveEnqueueFails
    <2> QED
      BY <1>3, <2>1 DEF LiveEnqueueFails, TypeOK
  <1>4. CASE LiveAborted(e)
    <2>1. phase' \in [Owners -> [Entries -> Phase]]
      BY <1>1, <1>4, GotoFacts DEF LiveAborted
    <2> QED
      BY <1>4, <2>1 DEF LiveAborted, TypeOK
  <1> QED
    BY <1>2, <1>3, <1>4

\* A crash keeps the types.
LEMMA TypeCrash ==
  ASSUME TypeOK, Crash
  PROVE  TypeOK'
  <1>1. phase' \in [Owners -> [Entries -> Phase]]
    BY DEF Crash, Phase
  <1>2. count' \in [Owners -> [Entries -> 0..MaxRetries]]
    BY DeliveryQueueAssumption DEF Crash
  <1>3. crashes' \in 0..MaxCrashes
    BY DeliveryQueueAssumption DEF Crash, TypeOK
  <1> QED
    BY <1>1, <1>2, <1>3 DEF Crash, TypeOK, RunState, historyVars

\* Every step keeps the types.
LEMMA TypeStep ==
  ASSUME TypeOK, [Next]_vars
  PROVE  TypeOK'
  <1>1. CASE UNCHANGED vars
    BY <1>1 DEF vars, diskVars, historyVars, TypeOK
  <1>2. CASE \E e \in Entries :
               \/ LiveEnqueue(e) \/ LiveEnqueueFails(e) \/ LiveAborted(e)
               \/ StorageStep(Live, e)
    BY <1>2, TypeSender, TypeStorage DEF Owners
  <1>3. CASE \E r \in Recoverers, e \in Entries : RecoveryStep(r, e)
    BY <1>3, TypeRecovery
  <1>4. CASE \E r \in Recoverers :
               StartRun(r) \/ ClaimNext(r) \/ BudgetExpires(r) \/ EndRun(r)
    BY <1>4, TypeRun
  <1>5. CASE Crash
    BY <1>5, TypeCrash
  <1> QED
    BY <1>1, <1>2, <1>3, <1>4, <1>5 DEF Next

\* The files, the claims, the phases and the histories are well typed in every
\* reachable state, whatever crashes and storage errors happen.
THEOREM TypeCorrect == Spec => []TypeOK
  <1>1. Init => TypeOK
    BY TypeInit
  <1>2. TypeOK /\ [Next]_vars => TypeOK'
    BY TypeStep
  <1> QED
    BY <1>1, <1>2, PTL DEF Spec

-----------------------------------------------------------------------------
(* One recovery loop per entry.                                            *)

\* The loop of r is between claimRecoveryEntry(e) and releaseRecoveryEntry(e).
Working(r, e) == run[r] = "loop" /\ phase[r][e] # "idle"

\* What a loop works on is claimed, ...
WorkIsClaimed ==
  \A r \in Recoverers, e \in Entries : Working(r, e) => e \in claimed

\* ... and it works on one entry at a time, so that ending its run leaves no
\* work behind that another loop could not know of.
OneAtATime ==
  \A r \in Recoverers : \A d, e \in Entries : Working(r, d) /\ Working(r, e) => d = e

\* Outside its loop a run does nothing, except that it may defer entries it
\* never claimed.
OnlyDefers ==
  \A r \in Recoverers, e \in Entries :
    /\ run[r] \in {"off", "first"} => phase[r][e] = "idle"
    /\ run[r] = "deferring" => phase[r][e] \in Failing \cup {"idle"}

Claims == WorkIsClaimed /\ OneAtATime /\ OnlyDefers /\ OneRecoveryPerEntry

\* A step of one loop on an entry it works on.
LEMMA ClaimsWork ==
  ASSUME TypeOK, Claims, NEW r \in Recoverers, NEW e \in Entries, Works(r, e)
  PROVE  Claims'
  <1> USE DEF Working
  <1>0. Recoverers \subseteq Owners /\ r # Live
    BY DeliveryQueueAssumption DEF Owners
  <1>1. run' = run /\ phase[r][e] # "idle"
    BY DEF Works
  <1>2. PICK p \in Phase :
          /\ \A q \in Recoverers, d \in Entries :
               phase'[q][d] = IF q = r /\ d = e THEN p ELSE phase[q][d]
          /\ phase[r][e] \in Failing => p \in Failing \cup {"idle"}
          /\ \/ claimed' = claimed
             \/ p = "idle" /\ run[r] = "loop" /\ claimed' = claimed \ {e}
    <2>1. CASE Finish(r, e)
      <3>1. "idle" \in Phase
        BY DEF Phase
      <3>2. \A q \in Recoverers, d \in Entries :
              phase'[q][d] = IF q = r /\ d = e THEN "idle" ELSE phase[q][d]
        BY <1>0, <2>1, FinishFacts
      <3>3. claimed' = claimed \/ (run[r] = "loop" /\ claimed' = claimed \ {e})
        BY <2>1 DEF Finish, Release
      <3> QED
        BY <3>1, <3>2, <3>3
    <2>2. CASE ~Finish(r, e)
      <3>1. PICK p \in Phase :
              Goto(r, e, p) /\ (phase[r][e] \in Failing => p \in Failing)
        BY <2>2 DEF Works
      <3>2. \A q \in Recoverers, d \in Entries :
              phase'[q][d] = IF q = r /\ d = e THEN p ELSE phase[q][d]
        BY <1>0, <3>1, GotoFacts
      <3>3. claimed' = claimed
        BY <2>2 DEF Works
      <3> QED
        BY <3>1, <3>2, <3>3
    <2> QED
      BY <2>1, <2>2
  <1>3. \A q \in Recoverers, d \in Entries : Working(q, d)' => Working(q, d)
    BY <1>1, <1>2
  <1>4. WorkIsClaimed'
    <2> SUFFICES ASSUME NEW q \in Recoverers, NEW d \in Entries, Working(q, d)'
                 PROVE  d \in claimed'
      BY DEF WorkIsClaimed
    <2>1. d \in claimed
      BY <1>3 DEF Claims, WorkIsClaimed
    <2>2. CASE claimed' = claimed
      BY <2>1, <2>2
    <2>3. CASE p = "idle" /\ run[r] = "loop" /\ claimed' = claimed \ {e}
      <3>1. d = e => q = r
        BY <1>1, <1>3, <2>3 DEF Claims, OneRecoveryPerEntry
      <3> QED
        BY <1>2, <2>1, <2>3, <3>1
    <2> QED
      BY <1>2, <2>2, <2>3
  <1>5. OneAtATime'
    BY <1>3 DEF Claims, OneAtATime
  <1>6. OnlyDefers'
    BY <1>1, <1>2 DEF Claims, OnlyDefers
  <1>7. OneRecoveryPerEntry'
    BY <1>3 DEF Claims, OneRecoveryPerEntry
  <1> QED
    BY <1>4, <1>5, <1>6, <1>7 DEF Claims

\* A step after which nobody works on more than before, and the claims are the
\* same.
LEMMA ClaimsNoMore ==
  ASSUME Claims, OnlyDefers', claimed' = claimed,
         \A q \in Recoverers, d \in Entries : Working(q, d)' => Working(q, d)
  PROVE  Claims'
  <1>1. WorkIsClaimed'
    BY DEF Claims, WorkIsClaimed
  <1>2. OneAtATime'
    BY DEF Claims, OneAtATime
  <1>3. OneRecoveryPerEntry'
    BY DEF Claims, OneRecoveryPerEntry, Working
  <1> QED
    BY <1>1, <1>2, <1>3 DEF Claims

\* A run throws in the middle of its loop.
LEMMA ClaimsThrow ==
  ASSUME TypeOK, Claims, NEW r \in Recoverers, NEW e \in Entries, RunThrows(r, e)
  PROVE  Claims'
  <1> USE DEF Working
  <1>0. Recoverers \subseteq Owners /\ r # Live /\ r \in DOMAIN run
    BY DeliveryQueueAssumption DEF Owners, TypeOK
  <1>1. run[r] = "loop"
    <2>1. phase[r][e] \in {"load", "prune"}
      BY DEF RunThrows
    <2>2. run[r] \in RunState
      BY DEF TypeOK
    <2> QED
      BY <2>1, <2>2 DEF Claims, OnlyDefers, Failing, RunState
  <1>2. \A q \in Recoverers : run'[q] = IF q = r THEN "off" ELSE run[q]
    BY <1>0 DEF RunThrows, TypeOK
  <1>3. \A q \in Recoverers, d \in Entries :
          phase'[q][d] = IF q = r /\ d = e THEN "idle" ELSE phase[q][d]
    BY <1>0, FinishFacts DEF RunThrows
  <1>4. claimed' = claimed \ {e}
    BY <1>1 DEF RunThrows, Finish, Release
  <1>5. phase[r][e] # "idle"
    BY DEF RunThrows
  <1>6. \A q \in Recoverers, d \in Entries : Working(q, d)' => Working(q, d) /\ q # r
    BY <1>2, <1>3
  <1>7. WorkIsClaimed'
    BY <1>1, <1>4, <1>5, <1>6 DEF Claims, WorkIsClaimed, OneRecoveryPerEntry
  <1>8. OneAtATime'
    BY <1>6 DEF Claims, OneAtATime
  <1>9. OnlyDefers'
    BY <1>1, <1>2, <1>3, <1>5 DEF Claims, OnlyDefers, OneAtATime
  <1>10. OneRecoveryPerEntry'
    BY <1>6 DEF Claims, OneRecoveryPerEntry
  <1> QED
    BY <1>7, <1>8, <1>9, <1>10 DEF Claims

\* The loop takes the next entry, or skips one that is claimed.
LEMMA ClaimsNext ==
  ASSUME TypeOK, Claims, NEW r \in Recoverers, ClaimNext(r)
  PROVE  Claims'
  <1> USE DEF Working
  <1> DEFINE e == Oldest(todo[r])
  <1>0. Recoverers \subseteq Owners /\ r # Live
    BY DeliveryQueueAssumption DEF Owners
  <1>1. e \in Entries
    BY OldestIsElement DEF ClaimNext, TypeOK
  <1>2. \A d \in Entries : phase[r][d] = "idle"
    BY DEF ClaimNext, Busy
  <1>3. \A q \in Recoverers : run'[q] = IF q = r THEN "loop" ELSE run[q]
    BY DEF ClaimNext, TypeOK
  <1>4. CASE e \in claimed
    <2>1. claimed' = claimed /\ phase' = phase
      BY <1>4 DEF ClaimNext
    <2> QED
      BY <1>2, <1>3, <2>1, ClaimsNoMore DEF Claims, OnlyDefers
  <1>5. CASE e \notin claimed
    <2>1. claimed' = claimed \cup {e} /\ Goto(r, e, "load") /\ "load" \in Phase
      BY <1>5 DEF ClaimNext, Phase
    <2> HIDE DEF e
    <2>2. \A q \in Recoverers, d \in Entries :
            phase'[q][d] = IF q = r /\ d = e THEN "load" ELSE phase[q][d]
      BY <1>0, <1>1, <2>1, GotoFacts
    <2>3. \A q \in Recoverers, d \in Entries :
            Working(q, d)' => (q = r /\ d = e) \/ (q # r /\ d # e /\ Working(q, d))
      BY <1>2, <1>3, <1>5, <2>2 DEF Claims, WorkIsClaimed
    <2>4. WorkIsClaimed'
      BY <2>1, <2>3 DEF Claims, WorkIsClaimed
    <2>5. OneAtATime'
      BY <2>3 DEF Claims, OneAtATime
    <2>6. OnlyDefers'
      BY <1>3, <2>2 DEF Claims, OnlyDefers
    <2>7. OneRecoveryPerEntry'
      BY <2>3 DEF Claims, OneRecoveryPerEntry
    <2> QED
      BY <2>4, <2>5, <2>6, <2>7 DEF Claims
  <1> QED
    BY <1>4, <1>5

\* A run starts, defers the rest of its entries or ends.
LEMMA ClaimsRun ==
  ASSUME TypeOK, Claims, NEW r \in Recoverers,
         StartRun(r) \/ BudgetExpires(r) \/ EndRun(r)
  PROVE  Claims'
  <1> USE DEF Working
  <1>0. r \in Owners /\ claimed' = claimed
    BY DEF Owners, StartRun, BudgetExpires, EndRun
  <1>1. CASE StartRun(r)
    <2>1. \A q \in Recoverers : run'[q] = IF q = r THEN "first" ELSE run[q]
      BY <1>1 DEF StartRun, TypeOK
    <2>2. phase' = phase /\ run[r] = "off"
      BY <1>1 DEF StartRun
    <2> QED
      BY <1>0, <2>1, <2>2, ClaimsNoMore DEF Claims, OnlyDefers
  <1>2. CASE BudgetExpires(r)
    <2>1. \A q \in Recoverers : run'[q] = IF q = r THEN "deferring" ELSE run[q]
      BY <1>2 DEF BudgetExpires, TypeOK
    <2>2. \A q \in Recoverers, d \in Entries :
            IF q = r THEN phase'[q][d] \in Failing \cup {"idle"}
                     ELSE phase'[q][d] = phase[q][d]
      BY <1>0, <1>2 DEF BudgetExpires, TypeOK, Owners, Failing
    <2> QED
      BY <1>0, <2>1, <2>2, ClaimsNoMore DEF Claims, OnlyDefers
  <1>3. CASE EndRun(r)
    <2>1. \A q \in Recoverers : run'[q] = IF q = r THEN "off" ELSE run[q]
      BY <1>3 DEF EndRun, TypeOK
    <2>2. phase' = phase /\ \A d \in Entries : phase[r][d] = "idle"
      BY <1>3 DEF EndRun, Busy
    <2> QED
      BY <1>0, <2>1, <2>2, ClaimsNoMore DEF Claims, OnlyDefers
  <1> QED
    BY <1>1, <1>2, <1>3

\* Every step keeps the claims right.
LEMMA ClaimsStep ==
  ASSUME TypeOK, Claims, [Next]_vars
  PROVE  Claims'
  <1> USE DEF Working
  <1>1. CASE UNCHANGED vars
    BY <1>1 DEF vars, Claims, WorkIsClaimed, OneAtATime, OnlyDefers,
                OneRecoveryPerEntry
  <1>2. CASE \E e \in Entries :
               \/ LiveEnqueue(e) \/ LiveEnqueueFails(e) \/ LiveAborted(e)
               \/ StorageStep(Live, e)
    <2>1. SenderOnly
      BY <1>2, SenderSteps
    <2>2. OnlyDefers'
      BY <2>1 DEF SenderOnly, Claims, OnlyDefers
    <2> QED
      BY <2>1, <2>2, ClaimsNoMore DEF SenderOnly
  <1>3. CASE \E r \in Recoverers, e \in Entries : RecoveryStep(r, e)
    BY <1>3, RecoveryStepWorks, ClaimsWork, ClaimsThrow
  <1>4. CASE \E r \in Recoverers : ClaimNext(r)
    BY <1>4, ClaimsNext
  <1>5. CASE \E r \in Recoverers : StartRun(r) \/ BudgetExpires(r) \/ EndRun(r)
    BY <1>5, ClaimsRun
  <1>6. CASE Crash
    <2>1. \A r \in Recoverers, e \in Entries : run'[r] = "off" /\ phase'[r][e] = "idle"
      BY <1>6, DeliveryQueueAssumption DEF Crash, Owners
    <2> QED
      BY <2>1 DEF Claims, WorkIsClaimed, OneAtATime, OnlyDefers, OneRecoveryPerEntry
  <1> QED
    BY <1>1, <1>2, <1>3, <1>4, <1>5, <1>6 DEF Next

\* At first nobody works on anything.
LEMMA ClaimsInit ==
  ASSUME Init
  PROVE  Claims
  <1>1. \A r \in Recoverers, e \in Entries : run[r] = "off" /\ phase[r][e] = "idle"
    BY DEF Init, Owners
  <1> QED
    BY <1>1 DEF Claims, WorkIsClaimed, OneAtATime, OnlyDefers, OneRecoveryPerEntry,
                Working

\* Two recovery loops never work on the same entry at the same time, for any
\* number of startup runs, drains and entries (claimRecoveryEntry and
\* releaseRecoveryEntry, also when a run throws).
THEOREM OneRecovery == Spec => []OneRecoveryPerEntry
  <1>1. Init => Claims
    BY ClaimsInit
  <1>2. TypeOK /\ Claims /\ [Next]_vars => Claims'
    BY ClaimsStep
  <1>3. Claims => OneRecoveryPerEntry
    BY DEF Claims
  <1> QED
    BY <1>1, <1>2, <1>3, TypeCorrect, PTL DEF Spec

-----------------------------------------------------------------------------
(* Nothing is lost.                                                        *)

\* An owner acks an entry only after an attempt sent all of it or its sender was
\* aborted, unless the entry is best effort.
AckedWhenDone ==
  \A o \in Owners, e \in Entries \ BestEffort :
    phase[o][e] = "ack" => e \in delivered \cup aborted

Kept ==
  \A e \in persisted \ BestEffort : e \in pending \cup failed \cup delivered \cup aborted

\* What a step may do to the files and their histories: an entry becomes known
\* when it is written, leaves the queue by an ack or to failed/, and an owner
\* comes to ack it only by sending all of it or by an abort.
KeepsEntries ==
  /\ failed \subseteq failed' /\ delivered \subseteq delivered' /\ aborted \subseteq aborted'
  /\ persisted' \subseteq persisted \cup pending'
  /\ \A e \in pending : e \in pending' \cup failed' \/ \E o \in Owners : phase[o][e] = "ack"
  /\ \A o \in Owners, e \in Entries \ BestEffort :
       phase'[o][e] = "ack" => phase[o][e] = "ack" \/ e \in delivered' \cup aborted'

\* The storage calls lose no entry.
LEMMA StorageKeeps ==
  ASSUME TypeOK, NEW o \in Owners, NEW e \in Entries, StorageStep(o, e)
  PROVE  KeepsEntries
  <1> USE DEF diskVars, historyVars
  <1>1. ASSUME NEW p \in Phase, Goto(o, e, p),
               p = "ack" => e \in BestEffort \cup delivered'
        PROVE  \A q \in Owners, d \in Entries \ BestEffort :
                 phase'[q][d] = "ack" => phase[q][d] = "ack" \/ d \in delivered' \cup aborted'
    BY <1>1, GotoFacts
  <1>2. ASSUME Finish(o, e)
        PROVE  \A q \in Owners, d \in Entries \ BestEffort :
                 phase'[q][d] = "ack" => phase[q][d] = "ack" \/ d \in delivered' \cup aborted'
    BY <1>2, FinishFacts
  <1>3. CASE SendOk(o, e)
    BY <1>1, <1>3 DEF SendOk, KeepsEntries, Phase
  <1>4. CASE SendPartial(o, e)
    <2> DEFINE p == IF o = Live /\ e \in Reported THEN "failRead" ELSE "ack"
    <2>1. p \in Phase /\ Goto(o, e, p) /\ e \in BestEffort
      BY <1>4 DEF SendPartial, Phase
    <2> HIDE DEF p
    <2> QED
      BY <1>1, <1>4, <2>1 DEF SendPartial, KeepsEntries
  <1>5. CASE SendThrows(o, e)
    BY <1>1, <1>5 DEF SendThrows, KeepsEntries, Phase
  <1>6. CASE AckRename(o, e)
    <2>1. pending \ {e} \subseteq pending' /\ phase[o][e] = "ack"
      BY <1>6 DEF AckRename
    <2> QED
      BY <1>1, <1>6, <2>1 DEF AckRename, KeepsEntries, Phase
  <1>7. CASE AckError(o, e)
    BY <1>1, <1>2, <1>7 DEF AckError, KeepsEntries, Phase
  <1>8. CASE AckUnlink(o, e)
    BY <1>2, <1>8 DEF AckUnlink, KeepsEntries
  <1>9. CASE FailRead(o, e)
    BY <1>1, <1>2, <1>9 DEF FailRead, KeepsEntries, Phase
  <1>10. CASE FailWrite(o, e)
    BY <1>1, <1>10 DEF FailWrite, KeepsEntries, Phase
  <1>11. CASE FailRename(o, e)
    <2>1. pending \subseteq pending'
      BY <1>11 DEF FailRename
    <2> QED
      BY <1>2, <1>11, <2>1 DEF FailRename, KeepsEntries
  <1>12. CASE FailError(o, e)
    BY <1>2, <1>12 DEF FailError, KeepsEntries
  <1> QED
    BY <1>3, <1>4, <1>5, <1>6, <1>7, <1>8, <1>9, <1>10, <1>11, <1>12 DEF StorageStep

\* The steps of a run on an entry lose none.
LEMMA RecoveryKeeps ==
  ASSUME TypeOK, NEW r \in Recoverers, NEW e \in Entries, RecoveryStep(r, e)
  PROVE  KeepsEntries
  <1> USE DEF diskVars, historyVars
  <1>0. r \in Owners
    BY DEF Owners
  <1>1. ASSUME NEW p \in Phase, Goto(r, e, p), p # "ack"
        PROVE  \A q \in Owners, d \in Entries : phase'[q][d] = "ack" => phase[q][d] = "ack"
    BY <1>0, <1>1, GotoFacts
  <1>2. ASSUME Finish(r, e)
        PROVE  \A q \in Owners, d \in Entries : phase'[q][d] = "ack" => phase[q][d] = "ack"
    BY <1>0, <1>2, FinishFacts
  <1>3. CASE StorageStep(r, e)
    BY <1>0, <1>3, StorageKeeps
  <1>4. CASE MoveToFailed(r, e)
    <2>1. pending \subseteq pending' \cup failed' /\ failed \subseteq failed'
      BY <1>4 DEF MoveToFailed
    <2> QED
      BY <1>2, <1>4, <2>1 DEF MoveToFailed, KeepsEntries
  <1>5. CASE MoveError(r, e) \/ SkipEntry(r, e) \/ RunThrows(r, e)
    BY <1>2, <1>5 DEF MoveError, SkipEntry, RunThrows, KeepsEntries
  <1>6. CASE Attempt(r, e) \/ Exhausted(r, e)
    BY <1>1, <1>6 DEF Attempt, Exhausted, KeepsEntries, Phase
  <1> QED
    BY <1>3, <1>4, <1>5, <1>6 DEF RecoveryStep

\* The steps of a run as a whole lose none.
LEMMA RunKeeps ==
  ASSUME TypeOK, NEW r \in Recoverers,
         StartRun(r) \/ ClaimNext(r) \/ BudgetExpires(r) \/ EndRun(r)
  PROVE  KeepsEntries
  <1> USE DEF diskVars, historyVars
  <1>0. r \in Owners
    BY DEF Owners
  <1>1. CASE StartRun(r) \/ EndRun(r)
    BY <1>1 DEF StartRun, EndRun, KeepsEntries
  <1>2. CASE ClaimNext(r)
    <2> DEFINE e == Oldest(todo[r])
    <2>1. e \in Entries
      BY <1>2, OldestIsElement DEF ClaimNext, TypeOK
    <2>2. phase' = phase \/ Goto(r, e, "load")
      BY <1>2 DEF ClaimNext
    <2>3. "load" \in Phase
      BY DEF Phase
    <2> HIDE DEF e
    <2>4. \A q \in Owners, d \in Entries : phase'[q][d] = "ack" => phase[q][d] = "ack"
      BY <1>0, <2>1, <2>2, <2>3, GotoFacts
    <2> QED
      BY <1>2, <2>4 DEF ClaimNext, KeepsEntries
  <1>3. CASE BudgetExpires(r)
    <2>1. \A q \in Owners, d \in Entries : phase'[q][d] = "ack" => phase[q][d] = "ack"
      BY <1>0, <1>3 DEF BudgetExpires, TypeOK
    <2> QED
      BY <1>3, <2>1 DEF BudgetExpires, KeepsEntries
  <1> QED
    BY <1>1, <1>2, <1>3

\* The other steps of the original sender lose none.
LEMMA SenderKeeps ==
  ASSUME TypeOK, NEW e \in Entries,
         LiveEnqueue(e) \/ LiveEnqueueFails(e) \/ LiveAborted(e)
  PROVE  KeepsEntries
  <1> USE DEF diskVars, historyVars
  <1>1. Live \in Owners /\ "send" \in Phase /\ "done" \in Phase /\ "ack" \in Phase
    BY DEF Owners, Phase
  <1>2. CASE LiveEnqueue(e)
    BY <1>1, <1>2, GotoFacts DEF LiveEnqueue, KeepsEntries
  <1>3. CASE LiveEnqueueFails(e)
    BY <1>1, <1>3, GotoFacts DEF LiveEnqueueFails, KeepsEntries
  <1>4. CASE LiveAborted(e)
    BY <1>1, <1>4, GotoFacts DEF LiveAborted, KeepsEntries
  <1> QED
    BY <1>2, <1>3, <1>4

\* No step loses an entry.
LEMMA NextKeeps ==
  ASSUME TypeOK, [Next]_vars
  PROVE  KeepsEntries
  <1>1. CASE UNCHANGED vars
    BY <1>1 DEF vars, diskVars, historyVars, KeepsEntries
  <1>2. CASE \E e \in Entries :
               \/ LiveEnqueue(e) \/ LiveEnqueueFails(e) \/ LiveAborted(e)
               \/ StorageStep(Live, e)
    BY <1>2, SenderKeeps, StorageKeeps DEF Owners
  <1>3. CASE \E r \in Recoverers, e \in Entries : RecoveryStep(r, e)
    BY <1>3, RecoveryKeeps
  <1>4. CASE \E r \in Recoverers :
               StartRun(r) \/ ClaimNext(r) \/ BudgetExpires(r) \/ EndRun(r)
    BY <1>4, RunKeeps
  <1>5. CASE Crash
    BY <1>5 DEF Crash, KeepsEntries, historyVars
  <1> QED
    BY <1>1, <1>2, <1>3, <1>4, <1>5 DEF Next

\* A message that was written to the queue leaves it only after an attempt sent
\* all of it, after its sender was aborted, or into failed/, unless it is a
\* best-effort message, which is acked after a partial send by design.
THEOREM OnlyBestEffortLost == Spec => []Kept
  <1>1. Init => AckedWhenDone /\ Kept
    BY DEF Init, AckedWhenDone, Kept
  <1>2. TypeOK /\ AckedWhenDone /\ Kept /\ [Next]_vars => (AckedWhenDone /\ Kept)'
    <2> SUFFICES ASSUME TypeOK, AckedWhenDone, Kept, [Next]_vars
                 PROVE  AckedWhenDone' /\ Kept'
      OBVIOUS
    <2>1. KeepsEntries
      BY NextKeeps
    <2>2. AckedWhenDone'
      BY <2>1 DEF AckedWhenDone, KeepsEntries
    <2>3. Kept'
      <3>1. pending \subseteq Entries
        BY DEF TypeOK
      <3> QED
        BY <2>1, <3>1 DEF Kept, AckedWhenDone, KeepsEntries
    <2> QED
      BY <2>2, <2>3
  <1> QED
    BY <1>1, <1>2, TypeCorrect, PTL DEF Spec

\* Where no message is best effort, none is lost, whatever crashes, storage
\* errors and recovery runs happen.
THEOREM NotLost ==
  ASSUME BestEffort = {}
  PROVE  Spec => []NeverLost
  <1>1. Kept => NeverLost
    BY DEF Kept, NeverLost
  <1> QED
    BY <1>1, OnlyBestEffortLost, PTL

-----------------------------------------------------------------------------
(* Nothing is sent again after its ack.                                    *)

\* The entries the original sender never works on: those found on disk.
Old == Entries \ LiveEntries

\* An acked entry is off the disk, ...
AckedIsGone == \A e \in Old : e \in acked => e \notin pending

\* ... and no loop is still about to send it, ack it or write it back.
Trying == Failing \cup {"send", "ack"}

AckedNotTried ==
  \A r \in Recoverers, e \in Old : phase[r][e] \in Trying => e \notin acked

\* Nobody but the loops works on the old entries.
OnlyLoops ==
  /\ \A e \in Old : phase[Live][e] = "idle"
  /\ \A r \in Recoverers : run[r] # "deferring"

ResendInv == AckedIsGone /\ AckedNotTried /\ OnlyLoops

\* What a step of an owner on entry e does to the queue: it acks an entry and
\* goes on to unlink it, writes back one it was counting a failure of, or takes
\* one out.  It comes to try one only from trying it, or by reading it again.
Settles(o, e) ==
  /\ \/ acked' = acked
     \/ /\ phase[o][e] = "ack" /\ acked' = acked \cup {e}
        /\ phase'[o][e] = "unlink" /\ e \notin pending'
  /\ \/ pending' \subseteq pending
     \/ phase[o][e] = "failRename" /\ acked' = acked /\ pending' = pending \cup {e}
  /\ phase'[o][e] \in Trying => phase[o][e] \in Trying \/ e \in pending
  /\ phase[o][e] # "send" /\ phase'[o][e] = "send" => e \in pending

\* The storage calls settle entries.
LEMMA StorageSettles ==
  ASSUME TypeOK, NEW o \in Owners, NEW e \in Entries, StorageStep(o, e)
  PROVE  Settles(o, e)
  <1> USE DEF diskVars, historyVars, Trying, Failing
  <1>1. \A p \in Phase : Goto(o, e, p) => phase'[o][e] = p
    BY GotoFacts
  <1>2. Finish(o, e) => phase'[o][e] \in {"done", "idle"}
    BY FinishFacts
  <1>3. CASE SendOk(o, e) \/ SendThrows(o, e) \/ SendPartial(o, e)
    <2>1. phase'[o][e] \in {"ack", "failRead", "reject"} /\ phase[o][e] = "send"
      BY <1>1, <1>3 DEF SendOk, SendThrows, SendPartial, Phase
    <2> QED
      BY <1>3, <2>1 DEF SendOk, SendThrows, SendPartial, Settles
  <1>4. CASE AckRename(o, e)
    <2>1. phase'[o][e] = "unlink" /\ phase[o][e] = "ack"
      BY <1>1, <1>4 DEF AckRename, Phase
    <2> QED
      BY <1>4, <2>1 DEF AckRename, Settles
  <1>5. CASE AckError(o, e)
    <2>1. phase'[o][e] \in {"done", "idle", "failRead"} /\ phase[o][e] = "ack"
      BY <1>1, <1>2, <1>5 DEF AckError, Phase
    <2> QED
      BY <1>5, <2>1 DEF AckError, Settles
  <1>6. CASE AckUnlink(o, e)
    BY <1>2, <1>6 DEF AckUnlink, Settles
  <1>7. CASE FailRead(o, e)
    <2>1. phase'[o][e] \in {"done", "idle", "failWrite"} /\ phase[o][e] = "failRead"
      BY <1>1, <1>2, <1>7 DEF FailRead, Phase
    <2> QED
      BY <1>7, <2>1 DEF FailRead, Settles
  <1>8. CASE FailWrite(o, e)
    <2>1. phase'[o][e] = "failRename" /\ phase[o][e] = "failWrite"
      BY <1>1, <1>8 DEF FailWrite, Phase
    <2> QED
      BY <1>8, <2>1 DEF FailWrite, Settles
  <1>9. CASE FailRename(o, e)
    BY <1>2, <1>9 DEF FailRename, Settles
  <1>10. CASE FailError(o, e)
    BY <1>2, <1>10 DEF FailError, Settles
  <1> QED
    BY <1>3, <1>4, <1>5, <1>6, <1>7, <1>8, <1>9, <1>10 DEF StorageStep

\* The steps of a run on an entry settle it, and it is sent only after it was
\* read again.
LEMMA RecoverySettles ==
  ASSUME TypeOK, NEW r \in Recoverers, NEW e \in Entries, RecoveryStep(r, e)
  PROVE  Settles(r, e)
  <1> USE DEF diskVars, historyVars, Trying, Failing
  <1>0. r \in Owners
    BY DEF Owners
  <1>1. \A p \in Phase : Goto(r, e, p) => phase'[r][e] = p
    BY <1>0, GotoFacts
  <1>2. Finish(r, e) => phase'[r][e] \in {"done", "idle"}
    BY <1>0, FinishFacts
  <1>3. CASE StorageStep(r, e)
    BY <1>0, <1>3, StorageSettles
  <1>4. CASE MoveToFailed(r, e)
    BY <1>2, <1>4 DEF MoveToFailed, Settles
  <1>5. CASE MoveError(r, e) \/ SkipEntry(r, e) \/ RunThrows(r, e)
    BY <1>2, <1>5 DEF MoveError, SkipEntry, RunThrows, Settles
  <1>6. CASE Attempt(r, e)
    <2>1. phase'[r][e] = "send" /\ e \in pending
      BY <1>1, <1>6 DEF Attempt, Phase
    <2> QED
      BY <1>6, <2>1 DEF Attempt, Settles
  <1>7. CASE Exhausted(r, e)
    <2>1. phase'[r][e] = "prune"
      BY <1>1, <1>7 DEF Exhausted, Phase
    <2> QED
      BY <1>7, <2>1 DEF Exhausted, Settles
  <1> QED
    BY <1>3, <1>4, <1>5, <1>6, <1>7 DEF RecoveryStep

\* A step on an entry changes nobody else's phase.
LEMMA StepIsLocal ==
  ASSUME TypeOK, NEW r \in Recoverers, NEW e \in Entries, RecoveryStep(r, e)
  PROVE  /\ \A q \in Owners, d \in Entries :
              ~(q = r /\ d = e) => phase'[q][d] = phase[q][d]
         /\ phase[r][e] # "idle"
         /\ \A q \in Recoverers : run'[q] \in {run[q], "off"}
  <1>0. r \in Owners
    BY DEF Owners
  <1>1. CASE RunThrows(r, e)
    BY <1>0, <1>1, FinishFacts DEF RunThrows, TypeOK
  <1>2. CASE ~RunThrows(r, e)
    <2>1. Works(r, e)
      BY <1>2, RecoveryStepWorks
    <2>2. CASE Finish(r, e)
      BY <1>0, <2>1, <2>2, FinishFacts DEF Works
    <2>3. CASE ~Finish(r, e)
      BY <1>0, <2>1, <2>3, GotoFacts DEF Works
    <2> QED
      BY <2>2, <2>3
  <1> QED
    BY <1>1, <1>2

\* A step of a loop on entry e.
LEMMA ResendWork ==
  ASSUME TypeOK, Claims, ResendInv, NEW r \in Recoverers, NEW e \in Entries,
         RecoveryStep(r, e)
  PROVE  ResendInv'
  <1>0. Recoverers \subseteq Owners /\ Live \in Owners /\ Live # r /\ Old \subseteq Entries
    BY DeliveryQueueAssumption DEF Owners, Old
  <1>1. Settles(r, e)
    BY RecoverySettles
  <1>2. /\ \A q \in Owners, d \in Entries :
             ~(q = r /\ d = e) => phase'[q][d] = phase[q][d]
        /\ phase[r][e] # "idle"
        /\ \A q \in Recoverers : run'[q] \in {run[q], "off"}
    BY StepIsLocal
  <1>3. \A q \in Recoverers : q # r => phase[q][e] = "idle"
    \* A loop that is busy with e is the only one.
    <2>1. \A q \in Recoverers : run[q] \in {"off", "first", "loop"}
      BY DEF ResendInv, OnlyLoops, TypeOK, RunState
    <2>2. \A q \in Recoverers : phase[q][e] # "idle" => Working(q, e)
      BY <2>1 DEF Claims, OnlyDefers, Working
    <2> QED
      BY <1>2, <2>2 DEF Claims, OneRecoveryPerEntry, Working
  <1>4. AckedIsGone'
    <2> SUFFICES ASSUME NEW d \in Old, d \in acked'
                 PROVE  d \notin pending'
      BY DEF AckedIsGone, Old
    <2>1. CASE d \in acked
      <3>1. phase[r][d] \notin Trying
        BY <2>1 DEF ResendInv, AckedNotTried
      <3>2. d \notin pending
        BY <2>1 DEF ResendInv, AckedIsGone
      <3> QED
        BY <1>1, <3>1, <3>2 DEF Settles, Trying, Failing
    <2>2. CASE d \notin acked
      BY <1>1, <2>2 DEF Settles
    <2> QED
      BY <2>1, <2>2
  <1>5. AckedNotTried'
    <2> SUFFICES ASSUME NEW q \in Recoverers, NEW d \in Old,
                        phase'[q][d] \in Trying, d \in acked'
                 PROVE  FALSE
      BY DEF AckedNotTried, Old, Trying, Failing
    <2>1. CASE q = r /\ d = e
      <3>1. e \notin acked
        BY <1>1, <2>1 DEF Settles, ResendInv, AckedIsGone, AckedNotTried
      <3> QED
        BY <1>1, <2>1, <3>1 DEF Settles, Trying, Failing
    <2>2. CASE ~(q = r /\ d = e)
      <3>1. phase[q][d] \in Trying /\ d \notin acked
        BY <1>0, <1>2, <2>2 DEF ResendInv, AckedNotTried
      <3>2. d = e /\ q # r
        BY <1>1, <2>2, <3>1 DEF Settles
      <3> QED
        BY <1>3, <3>1, <3>2 DEF Trying, Failing
    <2> QED
      BY <2>1, <2>2
  <1>6. OnlyLoops'
    BY <1>0, <1>2 DEF ResendInv, OnlyLoops, Old
  <1> QED
    BY <1>4, <1>5, <1>6 DEF ResendInv

\* A run starts, takes or skips an entry, or ends.
LEMMA ResendRun ==
  ASSUME TypeOK, ResendInv, ~BudgetMayExpire, NEW r \in Recoverers,
         StartRun(r) \/ ClaimNext(r) \/ BudgetExpires(r) \/ EndRun(r)
  PROVE  /\ ResendInv'
         /\ \A q \in Recoverers, d \in Entries :
              phase[q][d] # "send" => phase'[q][d] # "send"
  <1> USE DEF diskVars, historyVars
  <1>0. Recoverers \subseteq Owners /\ Live \in Owners /\ Live # r /\ Old \subseteq Entries
    BY DeliveryQueueAssumption DEF Owners, Old
  <1>1. ~BudgetExpires(r)
    BY DEF BudgetExpires
  <1>2. acked' = acked /\ pending' = pending
    BY <1>1 DEF StartRun, ClaimNext, EndRun
  <1>3. \A q \in Recoverers : run'[q] \in {run[q], "off", "first", "loop"}
    BY <1>1 DEF StartRun, ClaimNext, EndRun, TypeOK
  <1>4. \A q \in Owners, d \in Entries :
          phase'[q][d] = phase[q][d] \/ (q = r /\ phase'[q][d] = "load")
    <2>1. CASE StartRun(r) \/ EndRun(r)
      BY <2>1 DEF StartRun, EndRun
    <2>2. CASE ClaimNext(r)
      <3> DEFINE e == Oldest(todo[r])
      <3>1. e \in Entries
        BY <2>2, OldestIsElement DEF ClaimNext, TypeOK
      <3>2. phase' = phase \/ Goto(r, e, "load")
        BY <2>2 DEF ClaimNext
      <3>3. "load" \in Phase
        BY DEF Phase
      <3> HIDE DEF e
      <3> QED
        BY <1>0, <3>1, <3>2, <3>3, GotoFacts
    <2> QED
      BY <1>1, <2>1, <2>2
  <1>5. AckedIsGone'
    BY <1>2 DEF ResendInv, AckedIsGone, Old
  <1>6. AckedNotTried'
    BY <1>0, <1>2, <1>4 DEF ResendInv, AckedNotTried, Old, Trying, Failing
  <1>7. OnlyLoops'
    BY <1>0, <1>3, <1>4 DEF ResendInv, OnlyLoops, Old
  <1> QED
    BY <1>0, <1>4, <1>5, <1>6, <1>7 DEF ResendInv

\* The original sender works on other entries.
LEMMA ResendSender ==
  ASSUME TypeOK, ResendInv, NEW e \in Entries,
         \/ LiveEnqueue(e) \/ LiveEnqueueFails(e) \/ LiveAborted(e)
         \/ StorageStep(Live, e)
  PROVE  ResendInv'
  <1> USE DEF diskVars, historyVars
  <1>0. Live \in Owners /\ Old \subseteq Entries
    BY DEF Owners, Old
  <1>1. e \notin Old
    <2>1. StorageStep(Live, e) => phase[Live][e] # "idle"
      BY <1>0, StorageStepWorks DEF Works
    <2>2. LiveAborted(e) => phase[Live][e] # "idle"
      BY DEF LiveAborted
    <2>3. LiveEnqueue(e) \/ LiveEnqueueFails(e) => e \in LiveEntries
      BY DEF LiveEnqueue, LiveEnqueueFails
    <2> QED
      BY <2>1, <2>2, <2>3 DEF ResendInv, OnlyLoops, Old
  <1>2. SenderOnly
    BY SenderSteps
  <1>3. acked' \subseteq acked \cup {e} /\ pending' \subseteq pending \cup {e}
    <2>1. CASE StorageStep(Live, e)
      BY <1>0, <2>1, StorageSettles DEF Settles
    <2>2. CASE LiveEnqueue(e) \/ LiveEnqueueFails(e) \/ LiveAborted(e)
      BY <2>2 DEF LiveEnqueue, LiveEnqueueFails, LiveAborted
    <2> QED
      BY <2>1, <2>2
  <1>4. \A d \in Entries : d # e => phase'[Live][d] = phase[Live][d]
    <2>1. \A p \in Phase : Goto(Live, e, p) =>
            \A d \in Entries : d # e => phase'[Live][d] = phase[Live][d]
      BY <1>0, GotoFacts
    <2>2. Finish(Live, e) => \A d \in Entries : d # e => phase'[Live][d] = phase[Live][d]
      BY <1>0, FinishFacts
    <2>3. CASE StorageStep(Live, e)
      BY <1>0, <2>1, <2>2, <2>3, StorageStepWorks DEF Works
    <2>4. CASE LiveEnqueue(e) \/ LiveEnqueueFails(e) \/ LiveAborted(e)
      BY <2>1, <2>4 DEF LiveEnqueue, LiveEnqueueFails, LiveAborted, Phase
    <2> QED
      BY <2>3, <2>4
  <1>5. AckedIsGone'
    BY <1>1, <1>3 DEF ResendInv, AckedIsGone, Old
  <1>6. AckedNotTried'
    BY <1>0, <1>1, <1>2, <1>3 DEF ResendInv, AckedNotTried, SenderOnly, Old, Trying, Failing
  <1>7. OnlyLoops'
    BY <1>0, <1>1, <1>2, <1>4 DEF ResendInv, OnlyLoops, SenderOnly, Old
  <1> QED
    BY <1>5, <1>6, <1>7 DEF ResendInv

\* The entries found on disk are sent again only before their ack.
NoResendOfOld ==
  \A r \in Recoverers, e \in Old :
    phase[r][e] # "send" /\ phase'[r][e] = "send" => e \notin acked

\* Every step keeps the invariant and sends no acked entry.
LEMMA ResendStep ==
  ASSUME TypeOK, Claims, ResendInv, ~BudgetMayExpire, [Next]_vars
  PROVE  ResendInv' /\ NoResendOfOld
  <1>0. Old \subseteq Entries /\ Recoverers \subseteq Owners
    BY DEF Old, Owners
  <1>1. CASE UNCHANGED vars
    BY <1>1 DEF vars, diskVars, historyVars, ResendInv, AckedIsGone, AckedNotTried,
                OnlyLoops, NoResendOfOld, Old
  <1>2. ASSUME NEW e \in Entries,
               \/ LiveEnqueue(e) \/ LiveEnqueueFails(e) \/ LiveAborted(e)
               \/ StorageStep(Live, e)
        PROVE  ResendInv' /\ NoResendOfOld
    BY <1>0, <1>2, ResendSender, SenderSteps DEF SenderOnly, NoResendOfOld
  <1>3. ASSUME NEW r \in Recoverers, NEW e \in Entries, RecoveryStep(r, e)
        PROVE  ResendInv' /\ NoResendOfOld
    <2>1. ResendInv'
      BY <1>3, ResendWork
    <2>2. NoResendOfOld
      <3> SUFFICES ASSUME NEW q \in Recoverers, NEW d \in Old,
                          phase[q][d] # "send", phase'[q][d] = "send"
                   PROVE  d \notin acked
        BY DEF NoResendOfOld
      <3>1. q = r /\ d = e
        BY <1>0, <1>3, StepIsLocal
      <3>2. e \in pending
        BY <1>3, <3>1, RecoverySettles DEF Settles
      <3> QED
        BY <3>1, <3>2 DEF ResendInv, AckedIsGone
    <2> QED
      BY <2>1, <2>2
  <1>4. ASSUME NEW r \in Recoverers,
               StartRun(r) \/ ClaimNext(r) \/ BudgetExpires(r) \/ EndRun(r)
        PROVE  ResendInv' /\ NoResendOfOld
    BY <1>0, <1>4, ResendRun DEF NoResendOfOld
  <1>5. CASE Crash
    <2>1. \A o \in Owners, e \in Entries :
            phase'[o][e] \in {"idle", "done"} /\ (phase[o][e] = "idle" => phase'[o][e] = "idle")
      BY <1>5 DEF Crash
    <2>2. \A r \in Recoverers : run'[r] = "off"
      BY <1>5 DEF Crash
    <2>3. acked' = acked /\ pending' = pending /\ Live \in Owners
      BY <1>5 DEF Crash, historyVars, Owners
    <2> QED
      BY <1>0, <2>1, <2>2, <2>3 DEF ResendInv, AckedIsGone, AckedNotTried, OnlyLoops,
                                   NoResendOfOld, Trying, Failing, Old
  <1> QED
    BY <1>1, <1>2, <1>3, <1>4, <1>5 DEF Next

\* As long as no startup run exceeds its budget, no loop sends an entry it found
\* on disk after its ack, for any crashes, storage errors and number of runs.
THEOREM NoOldResend ==
  ASSUME ~BudgetMayExpire
  PROVE  Spec => [][NoResendOfOld]_vars
  <1>1. Init => ResendInv
    BY DeliveryQueueAssumption DEF Init, ResendInv, AckedIsGone, AckedNotTried,
         OnlyLoops, Owners, Old, Trying, Failing
  <1>2. TypeOK /\ Claims /\ ResendInv /\ [Next]_vars => ResendInv' /\ NoResendOfOld
    BY ResendStep
  <1>3. Init => Claims
    BY ClaimsInit
  <1>4. TypeOK /\ Claims /\ [Next]_vars => Claims'
    BY ClaimsStep
  <1> QED
    BY <1>1, <1>2, <1>3, <1>4, TypeCorrect, PTL DEF Spec

\* After a restart with nothing but old entries, no entry at all is sent after
\* its ack.
THEOREM NoResend ==
  ASSUME ~BudgetMayExpire, LiveEntries = {}
  PROVE  Spec => NoResendAfterAck
  <1>1. NoResendOfOld => \A r \in Recoverers, e \in Entries :
          phase[r][e] # "send" /\ phase'[r][e] = "send" => e \notin acked
    BY DEF NoResendOfOld, Old
  <1> QED
    BY <1>1, NoOldResend, PTL DEF NoResendAfterAck

=============================================================================
