--------------------------- MODULE FollowupQueue ---------------------------
(***************************************************************************)
(* The queue of messages that arrive for a session while its agent is busy *)
(* (src/auto-reply/reply/queue/, helpers in src/utils/queue-helpers.ts,    *)
(* caller runReplyAgent in src/auto-reply/reply/agent-runner.ts), for one  *)
(* session key.                                                            *)
(*                                                                         *)
(* The registry FOLLOWUP_QUEUES maps the key to a queue object.  A drain   *)
(* is an async loop that captured its object: clearing the queue deletes   *)
(* the registry entry, a later message creates another object, and the old *)
(* drain goes on with the old one.  Objects are numbered in the order they *)
(* are created, 0 stands for "no entry".  Between two awaits the code runs *)
(* without interruption; a drain awaits the debounce, the cross-channel    *)
(* check and every run of the agent.                                       *)
(***************************************************************************)
EXTENDS Naturals, Sequences

CONSTANTS
  Messages,      \* messages, by provider message id; each may be redelivered
  RouteOf,       \* where the answer to a message goes
  Unroutable,    \* a route isRoutableChannel refuses
  Modes,         \* queue modes the settings of an enqueue may carry
  Policy,        \* drop policy: "new", "old" or "summarize"
  Cap,           \* queue cap
  MayClear,      \* whether clearSessionQueues is called
  MaxQueues      \* bound on the number of queue objects

Queues == 1..MaxQueues

ASSUME FollowupQueueAssumption ==
  /\ Modes \subseteq {"collect", "followup"} /\ Modes # {}
  /\ Policy \in {"new", "old", "summarize"}
  /\ Cap \in Nat \ {0}
  /\ MayClear \in BOOLEAN
  /\ MaxQueues \in Nat \ {0}

VARIABLES
  current,       \* the object registered for the key, or 0
  created,       \* number of objects created
  items,         \* per object: queued messages, oldest first
  droppedCount,  \* per object: messages dropped since the last summary
  summaryLines,  \* per object: the messages the next summary names
  mode,          \* per object
  lastRun,       \* per object: whether a run to borrow settings from is known
  draining,      \* per object: a drain loop owns it
  pc,            \* per object: where that loop is
  forceIndividualCollect, \* per object: that loop met a mixed batch
  batch,         \* per object: the messages the agent is running
  taking,        \* per object: how many items to remove at the end of that run
  summary,       \* per object: the messages the prompt given to it summarises
  recent,        \* RECENT_QUEUE_MESSAGE_IDS
  busy,          \* runReplyAgent is running the agent, not for the queue
  finalizing,    \* it has ended, finalizeWithFollowup is still to come
  external,      \* a run of agentCommand for the session is active
  accepted,      \* history: messages pushed, in order
  handled,       \* history: messages whose run came to its end, in order
  summarised,    \* history: messages named in a summary whose run did
  discarded      \* history: messages cleared, or dropped by policy "old"

queueVars == <<items, droppedCount, summaryLines, mode, lastRun>>
runVars == <<batch, taking, summary>>
drainVars == <<draining, pc, forceIndividualCollect, runVars>>
sessionVars == <<busy, finalizing, external>>
historyVars == <<accepted, handled, summarised, discarded>>
vars == <<current, created, queueVars, drainVars, recent, sessionVars, historyVars>>

Elements(s) == {s[i] : i \in 1..Len(s)}

TypeOK ==
  /\ current \in 0..created /\ created \in 0..MaxQueues
  /\ items \in [Queues -> Seq(Messages)]
  /\ droppedCount \in [Queues -> Nat]
  /\ summaryLines \in [Queues -> Seq(Messages)]
  /\ mode \in [Queues -> Modes]
  /\ lastRun \in [Queues -> BOOLEAN]
  /\ draining \in [Queues -> BOOLEAN]
  /\ pc \in [Queues -> {"off", "debounce", "checked", "run"}]
  /\ forceIndividualCollect \in [Queues -> BOOLEAN]
  /\ batch \in [Queues -> Seq(Messages)]
  /\ taking \in [Queues -> Nat]
  /\ summary \in [Queues -> Seq(Messages)]
  /\ recent \subseteq Messages
  /\ busy \in BOOLEAN /\ finalizing \in BOOLEAN /\ external \in BOOLEAN
  /\ accepted \in Seq(Messages) /\ handled \in Seq(Messages)
  /\ summarised \subseteq Messages /\ discarded \subseteq Messages
  /\ \A o \in Queues : draining[o] <=> pc[o] # "off"

-----------------------------------------------------------------------------
(* Helpers.                                                                *)

\* isEmbeddedPiRunActive: the session's agent is running, for whatever reason.
Active == busy \/ external \/ \E o \in Queues : pc[o] = "run"

\* hasCrossChannelItems: some item has no route to answer to, or two differ.
hasCrossChannelItems(s) ==
  \/ \E m \in Elements(s) : RouteOf[m] = Unroutable
  \/ \E m, n \in Elements(s) : RouteOf[m] # RouteOf[n]

Drop(s, n) == SubSeq(s, n + 1, Len(s))

Lesser(a, b) == IF a < b THEN a ELSE b

\* previewQueueSummaryPrompt yields a prompt.
HasSummary(o) == Policy = "summarize" /\ droppedCount[o] > 0

\* scheduleFollowupDrain(key), given the registered object c and the drain
\* flags d and positions p at the time of the call.  A drain of an empty
\* object ends at once.
ScheduleFollowupDrain(c, d, p) ==
  IF c = 0 \/ (c # 0 /\ d[c])
  THEN /\ current' = c /\ draining' = d /\ pc' = p
       /\ UNCHANGED forceIndividualCollect
  ELSE IF items'[c] = <<>> /\ droppedCount'[c] = 0
  THEN /\ current' = 0 /\ draining' = d /\ pc' = p
       /\ UNCHANGED forceIndividualCollect
  ELSE /\ current' = c
       /\ draining' = [d EXCEPT ![c] = TRUE]
       /\ pc' = [p EXCEPT ![c] = "debounce"]
       /\ forceIndividualCollect' = [forceIndividualCollect EXCEPT ![c] = FALSE]

\* Mutants of the finally block: no new drain is scheduled, the draining flag
\* stays.
EndDrain_NoReschedule(o) ==
  /\ current' = IF items'[o] = <<>> /\ droppedCount'[o] = 0 THEN 0 ELSE current
  /\ draining' = [draining EXCEPT ![o] = FALSE]
  /\ pc' = [pc EXCEPT ![o] = "off"]
  /\ UNCHANGED forceIndividualCollect
EndDrain_StillDraining(o) ==
  /\ current' = IF items'[o] = <<>> /\ droppedCount'[o] = 0 THEN 0 ELSE current
  /\ pc' = [pc EXCEPT ![o] = "off"]
  /\ UNCHANGED <<draining, forceIndividualCollect>>

\* The finally block of a drain: it deletes the registry entry of the key, or
\* starts another drain of whatever object is registered.
EndDrain(o) ==
  LET d == [draining EXCEPT ![o] = FALSE]
      p == [pc EXCEPT ![o] = "off"]
  IN IF items'[o] = <<>> /\ droppedCount'[o] = 0
     THEN /\ current' = 0 /\ draining' = d /\ pc' = p
          /\ UNCHANGED forceIndividualCollect
     ELSE ScheduleFollowupDrain(current, d, p)

\* The loop condition, after a run.
NextRound(o) ==
  IF items'[o] = <<>> /\ droppedCount'[o] = 0
  THEN EndDrain(o)
  ELSE /\ pc' = [pc EXCEPT ![o] = "debounce"]
       /\ UNCHANGED <<current, draining, forceIndividualCollect>>

\* Mutant: handled items are left in the queue.
StartRun_KeepItems(o, b, n, s) ==
  /\ batch' = [batch EXCEPT ![o] = b]
  /\ taking' = [taking EXCEPT ![o] = 0]
  /\ summary' = [summary EXCEPT ![o] = s]
  /\ pc' = [pc EXCEPT ![o] = "run"]
  /\ UNCHANGED <<current, draining>>

\* The agent is given the messages b and the summary of the messages s; n items
\* will leave the queue when the run has come to its end.
StartRun(o, b, n, s) ==
  /\ batch' = [batch EXCEPT ![o] = b]
  /\ taking' = [taking EXCEPT ![o] = n]
  /\ summary' = [summary EXCEPT ![o] = s]
  /\ pc' = [pc EXCEPT ![o] = "run"]
  /\ UNCHANGED <<current, draining>>

ClearRun(o) ==
  /\ batch' = [batch EXCEPT ![o] = <<>>]
  /\ taking' = [taking EXCEPT ![o] = 0]
  /\ summary' = [summary EXCEPT ![o] = <<>>]

-----------------------------------------------------------------------------
Init ==
  /\ current = 0 /\ created = 0
  /\ items = [o \in Queues |-> <<>>]
  /\ droppedCount = [o \in Queues |-> 0]
  /\ summaryLines = [o \in Queues |-> <<>>]
  /\ mode = [o \in Queues |-> CHOOSE m \in Modes : TRUE]
  /\ lastRun = [o \in Queues |-> FALSE]
  /\ draining = [o \in Queues |-> FALSE]
  /\ pc = [o \in Queues |-> "off"]
  /\ forceIndividualCollect = [o \in Queues |-> FALSE]
  /\ batch = [o \in Queues |-> <<>>]
  /\ taking = [o \in Queues |-> 0]
  /\ summary = [o \in Queues |-> <<>>]
  /\ recent = {} /\ busy = FALSE /\ finalizing = FALSE /\ external = FALSE
  /\ accepted = <<>> /\ handled = <<>> /\ summarised = {} /\ discarded = {}

\* getFollowupQueue: the registered object, or a new one, with the settings of
\* the caller.
GetFollowupQueue(o, md) ==
  /\ IF current # 0 THEN o = current ELSE o = created + 1 /\ o \in Queues
  /\ created' = IF current # 0 THEN created ELSE o
  /\ mode' = [mode EXCEPT ![o] = md]

\* After enqueueFollowupRun (restartIfIdle = false) runReplyAgent checks whether
\* the run that made it queue the message is still active.
AfterEnqueue(o) ==
  IF Active
  THEN current' = o /\ UNCHANGED <<draining, pc, forceIndividualCollect>>
  ELSE ScheduleFollowupDrain(o, draining, pc)

\* enqueueFollowupRun of a redelivered message.
EnqueueDuplicate(m, o, md) ==
  /\ m \in recent
  /\ GetFollowupQueue(o, md)
  /\ UNCHANGED <<items, droppedCount, summaryLines, lastRun>>
  /\ AfterEnqueue(o)
  /\ UNCHANGED <<runVars, recent, sessionVars, historyVars>>

\* enqueueFollowupRun on a full queue with policy "new".
EnqueueRefused(m, o, md) ==
  /\ m \notin recent
  /\ Policy = "new"
  /\ GetFollowupQueue(o, md)
  /\ Len(items[o]) >= Cap
  /\ lastRun' = [lastRun EXCEPT ![o] = TRUE]
  /\ UNCHANGED <<items, droppedCount, summaryLines>>
  /\ AfterEnqueue(o)
  /\ UNCHANGED <<runVars, recent, sessionVars, historyVars>>

\* enqueueFollowupRun of a new message: applyQueueDropPolicy makes room at the
\* front, then the push.
Enqueue(m, o, md) ==
  /\ m \notin recent
  /\ GetFollowupQueue(o, md)
  /\ Policy = "new" => Len(items[o]) < Cap
  /\ LET excess == IF Len(items[o]) < Cap THEN 0 ELSE Len(items[o]) - Cap + 1
         dropped == SubSeq(items[o], 1, excess)
         lines == summaryLines[o] \o dropped
     IN /\ items' = [items EXCEPT ![o] = Append(Drop(@, excess), m)]
        /\ IF Policy = "summarize"
           THEN /\ droppedCount' = [droppedCount EXCEPT ![o] = @ + excess]
                /\ summaryLines' = [summaryLines EXCEPT ![o] =
                                      Drop(lines, Len(lines) - Lesser(Len(lines), Cap))]
                /\ UNCHANGED discarded
           ELSE /\ discarded' = discarded \cup Elements(dropped)
                /\ UNCHANGED <<droppedCount, summaryLines>>
  /\ lastRun' = [lastRun EXCEPT ![o] = TRUE]
  /\ recent' = recent \cup {m}
  /\ accepted' = Append(accepted, m)
  /\ AfterEnqueue(o)
  /\ UNCHANGED <<runVars, sessionVars, handled, summarised>>

\* waitForQueueDebounce is over in another mode than collect: the next item is
\* run, or, after an overflow, the summary in its place.
WakeFollowup(o) ==
  /\ pc[o] = "debounce"
  /\ mode[o] # "collect"
  /\ IF items[o] = <<>> \/ (HasSummary(o) /\ ~lastRun[o])
     THEN /\ UNCHANGED queueVars
          /\ EndDrain(o)
          /\ UNCHANGED runVars
     ELSE /\ UNCHANGED <<queueVars, forceIndividualCollect>>
          /\ IF HasSummary(o)
             THEN StartRun(o, <<>>, 1, summaryLines[o])
             ELSE StartRun(o, <<Head(items[o])>>, 1, <<>>)
  /\ UNCHANGED <<created, recent, sessionVars, historyVars>>

\* ... in mode collect: a mixed batch is run item by item, for the rest of
\* this drain; otherwise the loop goes on after the await of the check.
WakeCollect(o) ==
  /\ pc[o] = "debounce"
  /\ mode[o] = "collect"
  /\ LET cross == hasCrossChannelItems(items[o])
     IN IF ~cross /\ ~forceIndividualCollect[o]
        THEN /\ pc' = [pc EXCEPT ![o] = "checked"]
             /\ UNCHANGED <<current, draining, forceIndividualCollect, runVars>>
        ELSE IF items[o] = <<>>
        THEN UNCHANGED queueVars /\ EndDrain(o) /\ UNCHANGED runVars
        ELSE /\ StartRun(o, <<Head(items[o])>>, 1, <<>>)
             /\ forceIndividualCollect' = [forceIndividualCollect EXCEPT ![o] = TRUE]
  /\ UNCHANGED <<queueVars, created, recent, sessionVars, historyVars>>

\* The items present after that await become one prompt.
CollectBatch(o) ==
  /\ pc[o] = "checked"
  /\ IF items[o] = <<>> /\ ~lastRun[o]
     THEN UNCHANGED queueVars /\ EndDrain(o) /\ UNCHANGED runVars
     ELSE /\ StartRun(o, items[o], Len(items[o]),
                      IF HasSummary(o) THEN summaryLines[o] ELSE <<>>)
          /\ UNCHANGED <<queueVars, forceIndividualCollect>>
  /\ UNCHANGED <<created, recent, sessionVars, historyVars>>

\* Mutant: the queue is emptied, whatever came during the run.
RunEnds_TakeAll(o) ==
  /\ pc[o] = "run"
  /\ items' = [items EXCEPT ![o] = <<>>]
  /\ droppedCount' = [droppedCount EXCEPT ![o] = 0]
  /\ summaryLines' = [summaryLines EXCEPT ![o] = <<>>]
  /\ handled' = handled \o batch[o]
  /\ summarised' = summarised \cup Elements(summary[o])
  /\ ClearRun(o)
  /\ NextRound(o)
  /\ UNCHANGED <<created, mode, lastRun, recent, sessionVars, accepted, discarded>>

\* runFollowup resolves, with the reply sent, or without one when the agent
\* failed (the error is logged and the items go all the same): items leave the
\* queue by position.
RunEnds(o) ==
  /\ pc[o] = "run"
  /\ items' = [items EXCEPT ![o] = Drop(@, Lesser(taking[o], Len(@)))]
  /\ IF summary[o] # <<>>
     THEN /\ droppedCount' = [droppedCount EXCEPT ![o] = 0]
          /\ summaryLines' = [summaryLines EXCEPT ![o] = <<>>]
     ELSE UNCHANGED <<droppedCount, summaryLines>>
  /\ handled' = handled \o batch[o]
  /\ summarised' = summarised \cup Elements(summary[o])
  /\ ClearRun(o)
  /\ NextRound(o)
  /\ UNCHANGED <<created, mode, lastRun, recent, sessionVars, accepted, discarded>>

\* runFollowup rejects, perhaps with the reply already sent (the items stay, and
\* the next run sends one again): the drain ends, and is started again if
\* anything is left.
RunThrows(o) ==
  /\ pc[o] = "run"
  /\ UNCHANGED queueVars
  /\ ClearRun(o)
  /\ EndDrain(o)
  /\ UNCHANGED <<created, recent, sessionVars, historyVars>>

\* Mutant: the registry entry goes, the items stay with the drain.
ClearFollowupQueue_KeepItems ==
  /\ MayClear
  /\ current # 0
  /\ discarded' = discarded \cup Elements(items[current])
  /\ current' = 0
  /\ UNCHANGED <<queueVars, created, drainVars, recent, sessionVars, accepted,
                 handled, summarised>>

\* clearSessionQueues for the key: the object is emptied and unregistered.
ClearFollowupQueue ==
  /\ MayClear
  /\ current # 0
  /\ discarded' = discarded \cup Elements(items[current]) \cup Elements(summaryLines[current])
  /\ items' = [items EXCEPT ![current] = <<>>]
  /\ droppedCount' = [droppedCount EXCEPT ![current] = 0]
  /\ summaryLines' = [summaryLines EXCEPT ![current] = <<>>]
  /\ lastRun' = [lastRun EXCEPT ![current] = FALSE]
  /\ current' = 0
  /\ UNCHANGED <<created, mode, drainVars, recent, sessionVars, accepted, handled,
                 summarised>>

\* A message finds the session idle and is run at once, not queued.
AgentStarts ==
  /\ ~Active /\ ~finalizing
  /\ busy' = TRUE
  /\ UNCHANGED <<current, created, queueVars, drainVars, recent, finalizing, external,
                 historyVars>>

AgentEnds ==
  /\ busy
  /\ busy' = FALSE
  /\ finalizing' = TRUE
  /\ UNCHANGED <<current, created, queueVars, drainVars, recent, external, historyVars>>

\* finalizeWithFollowup at the end of that run.
FinalizeWithFollowup ==
  /\ finalizing
  /\ finalizing' = FALSE
  /\ UNCHANGED queueVars
  /\ ScheduleFollowupDrain(current, draining, pc)
  /\ UNCHANGED <<created, runVars, recent, busy, external, historyVars>>

\* agentCommand runs the agent for the session (the agent method of the gateway,
\* the announcement of a subagent): the session counts as active, but no drain
\* follows the end of such a run.
ExternalStarts ==
  /\ ~external
  /\ external' = TRUE
  /\ UNCHANGED <<current, created, queueVars, drainVars, recent, busy, finalizing,
                 historyVars>>

ExternalEnds ==
  /\ external
  /\ external' = FALSE
  /\ UNCHANGED <<current, created, queueVars, drainVars, recent, busy, finalizing,
                 historyVars>>

Wake(o) == WakeFollowup(o) \/ WakeCollect(o) \/ CollectBatch(o)

Next ==
  \/ \E m \in Messages, o \in Queues :
       \E md \in Modes :
         Enqueue(m, o, md) \/ EnqueueRefused(m, o, md) \/ EnqueueDuplicate(m, o, md)
  \/ \E o \in Queues : Wake(o) \/ RunEnds(o) \/ RunThrows(o)
  \/ ClearFollowupQueue
  \/ AgentStarts \/ AgentEnds \/ FinalizeWithFollowup
  \/ ExternalStarts \/ ExternalEnds

Spec == Init /\ [][Next]_vars

\* Timers fire, runs of the agent end, and one that is tried again and again
\* does not fail for ever.
FairSpec ==
  /\ Spec
  /\ WF_vars(AgentEnds) /\ WF_vars(FinalizeWithFollowup) /\ WF_vars(ExternalEnds)
  /\ \A o \in Queues : WF_vars(Wake(o)) /\ SF_vars(RunEnds(o))

-----------------------------------------------------------------------------
(* Properties.                                                             *)

\* Once a run of a message has come to its end, the message is not run again,
\* whatever is redelivered, dropped, cleared, collected or tried again meanwhile:
\* only a run that threw is repeated (drainNextQueueItem, items.splice).
HandledOnce ==
  /\ \A i, j \in 1..Len(handled) : handled[i] = handled[j] => i = j
  /\ \A o \in Queues : Elements(batch[o]) \cap Elements(handled) = {}

\* As long as nothing is dropped or cleared, messages are handled completely
\* and in the order in which they came, each once and one drain at a time.
HandledInOrder ==
  /\ Len(handled) <= Len(accepted)
  /\ \A i \in 1..Len(handled) : handled[i] = accepted[i]

\* A message that was cleared is not given to the agent afterwards, not even
\* by the drain that was waiting when the queue was cleared.
ClearedStaysCleared ==
  [][\A o \in Queues : pc[o] # "run" /\ pc'[o] = "run" =>
       Elements(batch'[o]) \cap discarded = {}]_vars

\* A message enqueueFollowupRun accepted is still to be run or summarised by a
\* drain, or has been, unless it was cleared or the policy drops it.  The code
\* does not have this property, and no run checks it: README, section 4.
NoSilentLoss ==
  \A m \in Elements(accepted) :
    \/ m \in Elements(handled) \cup summarised \cup discarded
    \/ \E o \in Queues :
         /\ o = current \/ draining[o]
         /\ m \in Elements(items[o]) \cup Elements(summaryLines[o])
                  \cup Elements(batch[o]) \cup Elements(summary[o])

\* An overflow is reported eventually: the summary of dropped messages is
\* delivered, or the queue is cleared.  The code does not have this property,
\* and no run checks it: README, section 4.
OverflowReported == \A o \in Queues : droppedCount[o] > 0 ~> droppedCount[o] = 0

\* A message in a queue that is being drained, or will be when runReplyAgent is
\* through, is eventually handled, although runs throw and drains end.  The code
\* does not give this to every queued message: README, section 4.
OwedMessagesHandled ==
  \A m \in Messages :
    (\E o \in Queues :
       /\ m \in Elements(items[o])
       /\ draining[o] \/ (o = current /\ (busy \/ finalizing)))
      ~> m \in Elements(handled)
=============================================================================
