--------------------------- MODULE DeliveryQueue ---------------------------
(***************************************************************************)
(* The write-ahead queue of outbound messages                              *)
(* (src/infra/outbound/delivery-queue-storage.ts, -recovery.ts and the     *)
(* wrapper deliverOutboundPayloads of deliver.ts).                         *)
(*                                                                         *)
(* A message is written to {id}.json before it is sent and acked after.    *)
(* Whatever is left on disk is sent again by recovery runs: one started    *)
(* with every (re)start of the gateway, which has a time budget, and the   *)
(* drains started when a channel reconnects.  Every file system call is    *)
(* awaited, so each one is a step of its own and the owners of an entry    *)
(* (the original sender and the recovery runs) interleave between them.    *)
(* A crash keeps the files and loses everything else.                      *)
(*                                                                         *)
(* Entries are numbered in the order of enqueuedAt.  Only retryCount is    *)
(* kept of an entry's contents; counts from MaxRetries on are treated      *)
(* alike by the code, so they are not told apart here.                     *)
(***************************************************************************)
EXTENDS Naturals, FiniteSets

CONSTANTS
  Entries,         \* ids, numbered by enqueuedAt
  LiveEntries,     \* sent for the first time during the run; the others may
                   \* be on disk from an earlier run
  BestEffort,      \* entries whose failing payloads do not fail the delivery
  Reported,        \* best-effort entries whose sender passes onError
  Startup,         \* recovery runs of (re)starts, with a time budget
  Drains,          \* drain keys of drainPendingDeliveries
  Live,            \* the original sender, as an owner of entries
  MaxRetries,      \* MAX_RETRIES
  BudgetMayExpire, \* a startup run may exceed maxRecoveryMs
  IOErrors,        \* a rename or read may fail for another reason than ENOENT
  MaxCrashes,      \* bound on the number of crashes
  NoTmp            \* there is no {id}.json.{pid}.tmp

Recoverers == Startup \cup Drains
Owners == Recoverers \cup {Live}

ASSUME DeliveryQueueAssumption ==
  /\ Entries \subseteq Nat
  /\ LiveEntries \subseteq Entries
  /\ Reported \subseteq BestEffort
  /\ Live \notin Recoverers
  /\ Startup \cap Drains = {}
  /\ MaxRetries \in Nat \ {0}
  /\ BudgetMayExpire \in BOOLEAN /\ IOErrors \in BOOLEAN
  /\ MaxCrashes \in Nat
  /\ NoTmp \notin Nat

VARIABLES
  pending,      \* disk: entries with an {id}.json
  retryCount,   \* disk: the count in it (0 when there is none)
  tmp,          \* disk: the count in {id}.json.{pid}.tmp, or NoTmp
  marker,       \* disk: entries with an {id}.delivered
  failed,       \* disk: entries in failed/
  claimed,      \* entriesInProgress
  phase,        \* per owner and entry: the call it is about to make
  count,        \* per owner and entry: retryCount as read by failDelivery
  run,          \* per recovery run: whether and how far it is running
  todo,         \* per recovery run: entries of its snapshot still to handle
  persisted,    \* history: entries enqueueDelivery has written
  delivered,    \* history: entries of which an attempt sent every payload
  aborted,      \* history: entries whose sender was aborted
  acked,        \* history: entries ackDelivery has taken out of the queue
  crashes

diskVars == <<pending, retryCount, tmp, marker, failed>>
historyVars == <<persisted, delivered, aborted, acked>>
vars == <<diskVars, claimed, phase, count, run, todo, historyVars, crashes>>

\* The phases of an owner's work on an entry.
Phase == {"idle", "load", "send", "ack", "unlink", "failRead", "failWrite",
          "failRename", "prune", "reject", "done"}
RunState == {"off", "first", "loop", "deferring"}

TypeOK ==
  /\ pending \subseteq Entries /\ marker \subseteq Entries /\ failed \subseteq Entries
  /\ retryCount \in [Entries -> 0..MaxRetries]
  /\ tmp \in [Entries -> (0..MaxRetries) \cup {NoTmp}]
  /\ claimed \subseteq Entries
  /\ phase \in [Owners -> [Entries -> Phase]]
  /\ count \in [Owners -> [Entries -> 0..MaxRetries]]
  /\ run \in [Recoverers -> RunState]
  /\ todo \in [Recoverers -> SUBSET Entries]
  /\ persisted \subseteq Entries /\ delivered \subseteq Entries
  /\ aborted \subseteq Entries /\ acked \subseteq Entries
  /\ crashes \in 0..MaxCrashes

-----------------------------------------------------------------------------
(* Helpers.                                                                *)

Goto(o, e, p) == phase' = [phase EXCEPT ![o][e] = p]

\* releaseRecoveryEntry, in the finally of a recovery loop.  The entries a run
\* defers were never claimed by it.
Release(o, e) ==
  claimed' = IF o \in Recoverers /\ run[o] = "loop" THEN claimed \ {e} ELSE claimed

\* The owner is through with the entry.
Finish(o, e) ==
  /\ Goto(o, e, IF o = Live THEN "done" ELSE "idle")
  /\ Release(o, e)

\* failDelivery's retryCount += 1.
Incremented(n) == IF n < MaxRetries THEN n + 1 ELSE MaxRetries

Oldest(S) == CHOOSE e \in S : \A d \in S : e <= d

Busy(r) == \E e \in Entries : phase[r][e] # "idle"

-----------------------------------------------------------------------------
Init ==
  /\ pending \in SUBSET (Entries \ LiveEntries)
  /\ retryCount \in [Entries -> 0..MaxRetries]
  /\ \A e \in Entries \ pending : retryCount[e] = 0
  /\ tmp = [e \in Entries |-> NoTmp]
  /\ marker = {} /\ failed = {} /\ claimed = {}
  /\ phase = [o \in Owners |-> [e \in Entries |-> "idle"]]
  /\ count = [o \in Owners |-> [e \in Entries |-> 0]]
  /\ run = [r \in Recoverers |-> "off"]
  /\ todo = [r \in Recoverers |-> {}]
  /\ persisted = pending
  /\ delivered = {} /\ aborted = {} /\ acked = {}
  /\ crashes = 0

-----------------------------------------------------------------------------
(* The original sender: deliverOutboundPayloads.                           *)

\* enqueueDelivery writes the entry (nobody else knows the id before the
\* rename) and the send starts.
LiveEnqueue(e) ==
  /\ e \in LiveEntries
  /\ phase[Live][e] = "idle"
  /\ pending' = pending \cup {e}
  /\ retryCount' = [retryCount EXCEPT ![e] = 0]
  /\ persisted' = persisted \cup {e}
  /\ Goto(Live, e, "send")
  /\ UNCHANGED <<tmp, marker, failed, claimed, count, run, todo, delivered,
                 aborted, acked, crashes>>

\* enqueueDelivery fails: the message is sent without a queue entry.
LiveEnqueueFails(e) ==
  /\ IOErrors
  /\ e \in LiveEntries
  /\ phase[Live][e] = "idle"
  /\ Goto(Live, e, "done")
  /\ UNCHANGED <<diskVars, claimed, count, run, todo, historyVars, crashes>>

\* How an attempt ends.  deliverOutboundPayloadsCore catches the error of a
\* payload (an abort too) when the entry is best effort, tells onError if there
\* is one, and returns; otherwise, or when it fails before the first payload,
\* it throws.
SendOk(o, e) ==
  /\ phase[o][e] = "send"
  /\ delivered' = delivered \cup {e}
  /\ Goto(o, e, "ack")
  /\ UNCHANGED <<diskVars, claimed, count, run, todo, persisted, aborted, acked,
                 crashes>>

SendPartial(o, e) ==
  /\ phase[o][e] = "send"
  /\ e \in BestEffort
  /\ Goto(o, e, IF o = Live /\ e \in Reported THEN "failRead" ELSE "ack")
  /\ UNCHANGED <<diskVars, claimed, count, run, todo, historyVars, crashes>>

\* Mutant: a failed attempt is acked like a successful one.
SendThrows_Acked(o, e) ==
  /\ phase[o][e] = "send"
  /\ Goto(o, e, "ack")
  /\ UNCHANGED <<diskVars, claimed, count, run, todo, historyVars, crashes>>

SendThrows(o, e) ==
  /\ phase[o][e] = "send"
  /\ \/ Goto(o, e, "failRead")
     \/ o # Live /\ Goto(o, e, "reject")  \* isPermanentDeliveryError
  /\ UNCHANGED <<diskVars, claimed, count, run, todo, historyVars, crashes>>

\* Only the original sender has an abort signal.
LiveAborted(e) ==
  /\ phase[Live][e] = "send"
  /\ e \notin BestEffort
  /\ aborted' = aborted \cup {e}
  /\ Goto(Live, e, "ack")
  /\ UNCHANGED <<diskVars, claimed, count, run, todo, persisted, delivered,
                 acked, crashes>>

-----------------------------------------------------------------------------
(* The storage calls, for any owner.                                       *)

\* ackDelivery, phase 1: {id}.json becomes {id}.delivered.
AckRename(o, e) ==
  /\ phase[o][e] = "ack"
  /\ IF e \in pending
     THEN /\ pending' = pending \ {e}
          /\ retryCount' = [retryCount EXCEPT ![e] = 0]
          /\ marker' = marker \cup {e}
          /\ acked' = acked \cup {e}
     ELSE UNCHANGED <<pending, retryCount, marker, acked>>
  /\ Goto(o, e, "unlink")
  /\ UNCHANGED <<tmp, failed, claimed, count, run, todo, persisted,
                 delivered, aborted, crashes>>

\* The rename fails: the sender gives up; drainQueuedEntry treats it like a
\* failed attempt.
AckError(o, e) ==
  /\ IOErrors
  /\ phase[o][e] = "ack"
  /\ IF o = Live THEN Finish(o, e)
                 ELSE Goto(o, e, "failRead") /\ UNCHANGED claimed
  /\ UNCHANGED <<diskVars, count, run, todo, historyVars, crashes>>

\* ackDelivery, phase 2 (best effort, also when the json was gone).
AckUnlink(o, e) ==
  /\ phase[o][e] = "unlink"
  /\ marker' = marker \ {e}
  /\ Finish(o, e)
  /\ UNCHANGED <<pending, retryCount, tmp, failed, count, run, todo, historyVars,
                 crashes>>

\* failDelivery: readQueueEntry ...
FailRead(o, e) ==
  /\ phase[o][e] = "failRead"
  /\ IF e \in pending
     THEN /\ count' = [count EXCEPT ![o][e] = retryCount[e]]
          /\ Goto(o, e, "failWrite")
          /\ UNCHANGED claimed
     ELSE Finish(o, e) /\ UNCHANGED count
  /\ UNCHANGED <<diskVars, run, todo, historyVars, crashes>>

\* ... then writeQueueEntry: the file named after the process first ...
FailWrite(o, e) ==
  /\ phase[o][e] = "failWrite"
  /\ tmp' = [tmp EXCEPT ![e] = Incremented(count[o][e])]
  /\ count' = [count EXCEPT ![o][e] = 0]
  /\ Goto(o, e, "failRename")
  /\ UNCHANGED <<pending, retryCount, marker, failed, claimed, run, todo,
                 historyVars, crashes>>

\* Mutant: the tmp file is taken to be the caller's own.
FailRename_Unshared(o, e) ==
  /\ phase[o][e] = "failRename"
  /\ pending' = pending \cup {e}
  /\ retryCount' = [retryCount EXCEPT ![e] = tmp[e]]
  /\ tmp' = [tmp EXCEPT ![e] = NoTmp]
  /\ Finish(o, e)
  /\ UNCHANGED <<marker, failed, count, run, todo, historyVars, crashes>>

\* ... and the rename over {id}.json, which fails if another owner renamed the
\* shared file already.
FailRename(o, e) ==
  /\ phase[o][e] = "failRename"
  /\ IF tmp[e] # NoTmp
     THEN /\ pending' = pending \cup {e}
          /\ retryCount' = [retryCount EXCEPT ![e] = tmp[e]]
          /\ tmp' = [tmp EXCEPT ![e] = NoTmp]
     ELSE UNCHANGED <<pending, retryCount, tmp>>
  /\ Finish(o, e)
  /\ UNCHANGED <<marker, failed, count, run, todo, historyVars, crashes>>

\* A read, write or rename of failDelivery fails: every caller swallows it.
FailError(o, e) ==
  /\ IOErrors
  /\ phase[o][e] \in {"failRead", "failWrite", "failRename"}
  /\ Finish(o, e)
  /\ count' = [count EXCEPT ![o][e] = 0]
  /\ UNCHANGED <<diskVars, run, todo, historyVars, crashes>>

\* moveToFailed, after MAX_RETRIES or a permanent error.
MoveToFailed(r, e) ==
  /\ phase[r][e] \in {"prune", "reject"}
  /\ IF e \in pending
     THEN /\ pending' = pending \ {e}
          /\ retryCount' = [retryCount EXCEPT ![e] = 0]
          /\ failed' = failed \cup {e}
     ELSE UNCHANGED <<pending, retryCount, failed>>
  /\ Finish(r, e)
  /\ UNCHANGED <<tmp, marker, count, run, todo, historyVars, crashes>>

\* moveToFailed fails: logged, except by the pruning of drainPendingDeliveries.
MoveError(r, e) ==
  /\ IOErrors
  /\ phase[r][e] \in {"prune", "reject"}
  /\ r \in Drains => phase[r][e] = "reject"
  /\ Finish(r, e)
  /\ UNCHANGED <<diskVars, count, run, todo, historyVars, crashes>>

-----------------------------------------------------------------------------
(* recoverPendingDeliveries and drainPendingDeliveries.                    *)

\* loadPendingDeliveries: leftover markers go, the entries become the run's
\* snapshot.  A drain selects the entries of its channel and account, and is
\* skipped while one of the same key is in progress.
StartRun(r) ==
  /\ run[r] = "off"
  /\ marker' = {}
  /\ run' = [run EXCEPT ![r] = "first"]
  /\ \E selected \in IF r \in Startup THEN {pending} ELSE SUBSET pending :
       todo' = [todo EXCEPT ![r] = selected]
  /\ UNCHANGED <<pending, retryCount, tmp, failed, claimed, phase, count,
                 historyVars, crashes>>

\* Mutant: the entry is taken without looking whether it is in progress.
ClaimNext_Unchecked(r) ==
  /\ run[r] \in {"first", "loop"}
  /\ ~Busy(r)
  /\ todo[r] # {}
  /\ LET e == Oldest(todo[r])
     IN /\ todo' = [todo EXCEPT ![r] = @ \ {e}]
        /\ claimed' = claimed \cup {e}
        /\ Goto(r, e, "load")
  /\ run' = [run EXCEPT ![r] = "loop"]
  /\ UNCHANGED <<diskVars, count, historyVars, crashes>>

\* The head of the loop: claimRecoveryEntry, or skip the entry.
ClaimNext(r) ==
  /\ run[r] \in {"first", "loop"}
  /\ ~Busy(r)
  /\ todo[r] # {}
  /\ LET e == Oldest(todo[r])
     IN /\ todo' = [todo EXCEPT ![r] = @ \ {e}]
        /\ IF e \in claimed
           THEN UNCHANGED <<claimed, phase>>
           ELSE claimed' = claimed \cup {e} /\ Goto(r, e, "load")
  /\ run' = [run EXCEPT ![r] = "loop"]
  /\ UNCHANGED <<diskVars, count, historyVars, crashes>>

\* Mutant: the budget may be spent before the first entry is handled.
BudgetExpires_First(r) ==
  /\ BudgetMayExpire
  /\ r \in Startup
  /\ run[r] \in {"first", "loop"}
  /\ ~Busy(r)
  /\ todo[r] # {}
  /\ phase' = [phase EXCEPT ![r] =
                 [e \in Entries |-> IF e \in todo[r] THEN "failRead" ELSE "idle"]]
  /\ todo' = [todo EXCEPT ![r] = {}]
  /\ run' = [run EXCEPT ![r] = "deferring"]
  /\ UNCHANGED <<diskVars, claimed, count, historyVars, crashes>>

\* now >= deadline: deferRemainingEntriesForBudget starts a failDelivery for
\* every remaining entry, claimed or not.  The deadline is set after the
\* snapshot, so the first entry is always handled.
BudgetExpires(r) ==
  /\ BudgetMayExpire
  /\ r \in Startup
  /\ run[r] = "loop"
  /\ ~Busy(r)
  /\ todo[r] # {}
  /\ phase' = [phase EXCEPT ![r] =
                 [e \in Entries |-> IF e \in todo[r] THEN "failRead" ELSE "idle"]]
  /\ todo' = [todo EXCEPT ![r] = {}]
  /\ run' = [run EXCEPT ![r] = "deferring"]
  /\ UNCHANGED <<diskVars, claimed, count, historyVars, crashes>>

\* Mutant: the snapshot is trusted, the entry is not read again.
Attempt_Stale(r, e) ==
  /\ phase[r][e] = "load"
  /\ retryCount[e] < MaxRetries
  /\ Goto(r, e, "send")
  /\ UNCHANGED <<diskVars, claimed, count, run, todo, historyVars, crashes>>

\* loadPendingDelivery reads the entry again: it may be sent, ...
Attempt(r, e) ==
  /\ phase[r][e] = "load"
  /\ e \in pending
  /\ retryCount[e] < MaxRetries
  /\ Goto(r, e, "send")
  /\ UNCHANGED <<diskVars, claimed, count, run, todo, historyVars, crashes>>

\* ... has used up its retries, ...
Exhausted(r, e) ==
  /\ phase[r][e] = "load"
  /\ e \in pending
  /\ retryCount[e] >= MaxRetries
  /\ Goto(r, e, "prune")
  /\ UNCHANGED <<diskVars, claimed, count, run, todo, historyVars, crashes>>

\* ... is gone, or was attempted and its backoff has not elapsed.
SkipEntry(r, e) ==
  /\ phase[r][e] = "load"
  /\ e \in pending => retryCount[e] \in 1..(MaxRetries - 1)
  /\ Finish(r, e)
  /\ UNCHANGED <<diskVars, count, run, todo, historyVars, crashes>>

\* An error of loadPendingDelivery, or of a drain's pruning, ends the run.
RunThrows(r, e) ==
  /\ IOErrors
  /\ phase[r][e] = "load" \/ (phase[r][e] = "prune" /\ r \in Drains)
  /\ Finish(r, e)
  /\ todo' = [todo EXCEPT ![r] = {}]
  /\ run' = [run EXCEPT ![r] = "off"]
  /\ UNCHANGED <<diskVars, count, historyVars, crashes>>

EndRun(r) ==
  /\ run[r] # "off"
  /\ ~Busy(r)
  /\ todo[r] = {}
  /\ run' = [run EXCEPT ![r] = "off"]
  /\ UNCHANGED <<diskVars, claimed, phase, count, todo, historyVars, crashes>>

-----------------------------------------------------------------------------
\* The process dies and is started again under another pid.
Crash ==
  /\ crashes < MaxCrashes
  /\ crashes' = crashes + 1
  /\ tmp' = [e \in Entries |-> NoTmp]
  /\ claimed' = {}
  /\ phase' = [o \in Owners |-> [e \in Entries |->
                 IF o = Live /\ phase[o][e] # "idle" THEN "done" ELSE "idle"]]
  /\ count' = [o \in Owners |-> [e \in Entries |-> 0]]
  /\ run' = [r \in Recoverers |-> "off"]
  /\ todo' = [r \in Recoverers |-> {}]
  /\ UNCHANGED <<pending, retryCount, marker, failed, historyVars>>

StorageStep(o, e) ==
  \/ SendOk(o, e) \/ SendPartial(o, e) \/ SendThrows(o, e)
  \/ AckRename(o, e) \/ AckError(o, e) \/ AckUnlink(o, e)
  \/ FailRead(o, e) \/ FailWrite(o, e) \/ FailRename(o, e)
  \/ FailError(o, e)

RecoveryStep(r, e) ==
  \/ StorageStep(r, e)
  \/ MoveToFailed(r, e) \/ MoveError(r, e)
  \/ Attempt(r, e) \/ Exhausted(r, e) \/ SkipEntry(r, e) \/ RunThrows(r, e)

Next ==
  \/ \E e \in Entries :
       \/ LiveEnqueue(e) \/ LiveEnqueueFails(e) \/ LiveAborted(e)
       \/ StorageStep(Live, e)
  \/ \E r \in Recoverers, e \in Entries : RecoveryStep(r, e)
  \/ \E r \in Recoverers : StartRun(r) \/ ClaimNext(r) \/ BudgetExpires(r) \/ EndRun(r)
  \/ Crash

Spec == Init /\ [][Next]_vars

\* Runs make progress, every attempt ends, the gateway is started again and
\* again, and backoff windows elapse: an entry that is looked at again and
\* again is attempted again.
FairSpec ==
  /\ Spec
  /\ \A r \in Recoverers :
       /\ WF_vars(StartRun(r)) /\ WF_vars(ClaimNext(r)) /\ WF_vars(EndRun(r))
       /\ \A e \in Entries : WF_vars(RecoveryStep(r, e)) /\ SF_vars(Attempt(r, e))

-----------------------------------------------------------------------------
(* Properties.                                                             *)

\* Two recovery runs never work on the same entry at the same time, so they
\* never send it twice in parallel (claimRecoveryEntry, releaseRecoveryEntry).
OneRecoveryPerEntry ==
  \A e \in Entries : \A r, s \in Recoverers :
    /\ run[r] = "loop" /\ phase[r][e] # "idle"
    /\ run[s] = "loop" /\ phase[s][e] # "idle"
    => r = s

\* A message that was written to the queue leaves it only after an attempt sent
\* all of it, after its sender was aborted, or into failed/, whatever crashes,
\* storage errors and recovery runs happen ("persist before sending, remove
\* after success").
NeverLost ==
  \A e \in persisted : e \in pending \cup failed \cup delivered \cup aborted

\* No recovery run sends an entry that was already acked, not even from a stale
\* snapshot or after a crash between the two phases of ackDelivery (the
\* re-read after claimRecoveryEntry).
NoResendAfterAck ==
  [][\A r \in Recoverers, e \in Entries :
       phase[r][e] # "send" /\ phase'[r][e] = "send" => e \notin acked]_vars

\* Every entry on disk eventually leaves the queue: it is delivered or moved to
\* failed/, even if every startup defers all entries but the first ("eventually
\* hit MAX_RETRIES and get pruned").
EventuallySettled ==
  \A e \in Entries : e \in pending ~> e \notin pending
=============================================================================
