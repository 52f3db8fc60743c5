------------------------ MODULE CommandQueueProofs ------------------------
(***************************************************************************)
(* Invariance proofs for CommandQueue, for any lanes, commands, limits and *)
(* number of resets.                                                       *)
(***************************************************************************)
EXTENDS CommandQueue, SequenceTheorems, FiniteSetTheorems, TLAPS

Frames(s) == {s[i] : i \in 1..Len(s)}

\* Pushing a frame adds it to the frames of the stack and puts it on top.
LEMMA FramesAppend ==
  ASSUME NEW s \in Seq(Frame), NEW f \in Frame
  PROVE  /\ Append(s, f) \in Seq(Frame)
         /\ Append(s, f) # <<>>
         /\ Frames(Append(s, f)) = Frames(s) \cup {f}
  BY DEF Frames

\* Popping a frame leaves the frames below it where they are.
LEMMA BelowElements ==
  ASSUME NEW s \in Seq(Frame), s # <<>>
  PROVE  LET b == SubSeq(s, 1, Len(s) - 1)
         IN /\ b \in Seq(Frame)
            /\ Len(b) = Len(s) - 1
            /\ \A i \in 1..(Len(s) - 1) : b[i] = s[i]
  <1> DEFINE b == SubSeq(s, 1, Len(s) - 1)
  <1>1. Len(s) \in Nat \ {0} /\ \A i \in 1..Len(s) : s[i] \in Frame
    OBVIOUS
  <1>2. /\ 1 \in Int /\ Len(s) - 1 \in Int
        /\ \A i \in 1..(Len(s) - 1) : s[i] \in Frame
    BY <1>1
  <1>3. /\ b \in Seq(Frame)
        /\ Len(b) = IF 1 <= Len(s) - 1 THEN Len(s) - 1 - 1 + 1 ELSE 0
        /\ \A i \in 1..(Len(s) - 1 - 1 + 1) : b[i] = s[1 + i - 1]
    BY <1>2, SubSeqProperties
  <1> HIDE DEF b
  <1>4. Len(b) = Len(s) - 1
    <2>1. \A n \in Nat \ {0} : (IF 1 <= n - 1 THEN n - 1 - 1 + 1 ELSE 0) = n - 1
      OBVIOUS
    <2>2. QED
      BY <1>1, <1>3, <2>1
  <1>5. ASSUME NEW i \in 1..(Len(s) - 1)
        PROVE  b[i] = s[i]
    <2>1. i \in 1..(Len(s) - 1 - 1 + 1) /\ 1 + i - 1 = i
      BY <1>1
    <2>2. QED
      BY <1>3, <2>1
  <1>6. QED
    BY <1>3, <1>4, <1>5 DEF b

\* Popping a frame removes at most the top one.
LEMMA FramesBelow ==
  ASSUME NEW s \in Seq(Frame), s # <<>>
  PROVE  LET b == SubSeq(s, 1, Len(s) - 1)
         IN /\ b \in Seq(Frame)
            /\ Frames(s) = Frames(b) \cup {s[Len(s)]}
            /\ s[Len(s)] \in Frame
  <1> DEFINE b == SubSeq(s, 1, Len(s) - 1)
  <1>1. Len(s) \in Nat \ {0} /\ \A i \in 1..Len(s) : s[i] \in Frame
    OBVIOUS
  <1>2. /\ b \in Seq(Frame)
        /\ Len(b) = Len(s) - 1
        /\ \A i \in 1..(Len(s) - 1) : b[i] = s[i]
    BY BelowElements
  <1> HIDE DEF b
  <1>3. 1..Len(s) = 1..Len(b) \cup {Len(s)}
    BY <1>1, <1>2
  <1>4. Frames(s) = Frames(b) \cup {s[Len(s)]}
    BY <1>1, <1>2, <1>3 DEF Frames
  <1>5. QED
    BY <1>1, <1>2, <1>4 DEF b

\* The empty stack has no frames.
LEMMA FramesEmpty == Frames(<<>>) = {}
  BY DEF Frames

\* What the actions below use about the stack they work on.
LEMMA StackFacts ==
  ASSUME TypeOK, callStack # <<>>
  PROVE  /\ Below \in Seq(Frame)
         /\ Frames(callStack) = Frames(Below) \cup {Top}
         /\ Top \in Frame /\ Top.lane \in Lanes
         /\ Top.task \in Commands \cup {NoCommand}
  <1>1. callStack \in Seq(Frame)
    BY DEF TypeOK
  <1>2. QED
    BY <1>1, FramesBelow DEF Below, Top, Frame

LEMMA PumpFrameType ==
  ASSUME NEW l \in Lanes
  PROVE  PumpFrame(l) \in Frame /\ PumpFrame(l).lane = l /\ PumpFrame(l).task = NoCommand
  BY DEF PumpFrame, Frame

\* drainLane keeps the types and leaves the lane covered by a frame, if a
\* draining lane already was.
LEMMA DrainLaneFacts ==
  ASSUME TypeOK, NEW l \in Lanes, drainLane(l)
  PROVE  /\ draining' \in [Lanes -> BOOLEAN]
         /\ callStack' \in Seq(Frame)
         /\ \/ draining[l] /\ draining' = draining /\ callStack' = callStack
            \/ /\ ~draining[l]
               /\ draining' = [draining EXCEPT ![l] = TRUE]
               /\ callStack' = Append(callStack, PumpFrame(l))
               /\ Frames(callStack') = Frames(callStack) \cup {PumpFrame(l)}
  <1>1. draining \in [Lanes -> BOOLEAN] /\ callStack \in Seq(Frame)
    BY DEF TypeOK
  <1>2. CASE draining[l]
    BY <1>1, <1>2 DEF drainLane
  <1>3. CASE ~draining[l]
    <2>1. /\ draining' = [draining EXCEPT ![l] = TRUE]
          /\ callStack' = Append(callStack, PumpFrame(l))
      BY <1>3 DEF drainLane
    <2>2. /\ callStack' \in Seq(Frame)
          /\ Frames(callStack') = Frames(callStack) \cup {PumpFrame(l)}
      BY <1>1, <2>1, PumpFrameType, FramesAppend
    <2>3. QED
      BY <1>1, <1>3, <2>1, <2>2
  <1>4. QED
    BY <1>2, <1>3

\* Waking waiters keeps their type and their ids.
LEMMA NotifyFacts ==
  ASSUME NEW ws \in [Waiters -> [state : {"none", "waiting", "drained", "timedOut"},
                                 ids : SUBSET Nat]],
         NEW active
  PROVE  LET n == notifyActiveTaskWaiters(ws, active)
         IN /\ n \in [Waiters -> [state : {"none", "waiting", "drained", "timedOut"},
                                  ids : SUBSET Nat]]
            /\ \A w \in Waiters :
                 /\ n[w].ids = ws[w].ids
                 /\ n[w].state = "waiting" =>
                      ws[w].state = "waiting" /\ ws[w].ids \cap ActiveIds(active) # {}
                 /\ n[w].state = "drained" =>
                      \/ ws[w].state = "drained"
                      \/ ws[w].ids \cap ActiveIds(active) = {}
  BY DEF notifyActiveTaskWaiters

-----------------------------------------------------------------------------
(* Type correctness.                                                       *)

\* Finishing a task keeps the types of the variables it writes.
LEMMA FinishTaskType ==
  ASSUME TypeOK, NEW c \in Commands, NEW stack \in Seq(Frame), FinishTask(c, stack)
  PROVE  /\ activeTaskIds' \in [Lanes -> SUBSET Nat]
         /\ waiters' \in [Waiters -> [state : {"none", "waiting", "drained", "timedOut"},
                                      ids : SUBSET Nat]]
         /\ callStack' \in Seq(Frame)
  <1>1. LaneOf[c] \in Lanes
    BY CommandQueueAssumption
  <1>2. activeTaskIds' \in [Lanes -> SUBSET Nat]
    BY <1>1 DEF TypeOK, FinishTask, completeTask
  <1>3. waiters' \in [Waiters -> [state : {"none", "waiting", "drained", "timedOut"},
                                  ids : SUBSET Nat]]
    BY NotifyFacts DEF TypeOK, FinishTask
  <1>4. callStack' \in Seq(Frame)
    BY <1>1, PumpFrameType, FramesAppend DEF FinishTask
  <1>5. QED
    BY <1>2, <1>3, <1>4

\* Every step keeps the types.
LEMMA TypeStep == TypeOK /\ [Next]_vars => TypeOK'
  <1> SUFFICES ASSUME TypeOK, [Next]_vars PROVE TypeOK'
    OBVIOUS
  <1> USE CommandQueueAssumption
  <1>1. ASSUME NEW c \in Commands, Enqueue(c) PROVE TypeOK'
    <2>1. LaneOf[c] \in Lanes
      OBVIOUS
    <2>2. CASE gatewayDraining
      BY <1>1, <2>2 DEF TypeOK, Enqueue, Settled, Refusals
    <2>3. CASE ~gatewayDraining
      <3>1. drainLane(LaneOf[c])
        BY <1>1, <2>3 DEF Enqueue
      <3>2. draining' \in [Lanes -> BOOLEAN] /\ callStack' \in Seq(Frame)
        BY <2>1, <3>1, DrainLaneFacts
      <3>3. queue' \in [Lanes -> Seq(Commands)]
        <4>1. queue \in [Lanes -> Seq(Commands)]
          BY DEF TypeOK
        <4>2. Append(queue[LaneOf[c]], c) \in Seq(Commands)
          BY <2>1, <4>1
        <4>3. queue' = [queue EXCEPT ![LaneOf[c]] = Append(@, c)]
          BY <1>1, <2>3 DEF Enqueue
        <4>4. QED
          BY <2>1, <4>1, <4>2, <4>3
      <3>4. QED
        BY <1>1, <2>3, <3>2, <3>3 DEF TypeOK, Enqueue
    <2>4. QED
      BY <2>2, <2>3
  <1>2. ASSUME PumpStart PROVE TypeOK'
    <2> DEFINE l == Top.lane
               c == Head(queue[l])
    <2>1. /\ Below \in Seq(Frame) /\ l \in Lanes
      BY <1>2, StackFacts DEF PumpStart, InPump
    <2>2. queue[l] \in Seq(Commands) /\ queue[l] # <<>>
      BY <1>2, <2>1 DEF TypeOK, PumpStart
    <2>3. c \in Commands /\ Tail(queue[l]) \in Seq(Commands)
      BY <2>2
    <2>4. callStack' \in Seq(Frame)
      <3>1. [lane |-> l, task |-> c] \in Frame
        BY <2>1, <2>3 DEF Frame
      <3>2. callStack' = Append(Below, [lane |-> l, task |-> c])
        BY <1>2 DEF PumpStart
      <3>3. QED
        BY <2>1, <3>1, <3>2, FramesAppend
    <2>5. queue' \in [Lanes -> Seq(Commands)]
      BY <1>2, <2>1, <2>3 DEF TypeOK, PumpStart
    <2>6. /\ activeTaskIds' \in [Lanes -> SUBSET Nat]
          /\ nextTaskId' \in Nat \ {0}
          /\ taskId' \in [Commands -> Nat]
          /\ taskGeneration' \in [Commands -> Nat]
      <3>1. /\ activeTaskIds' = [activeTaskIds EXCEPT ![l] = @ \cup {nextTaskId}]
            /\ nextTaskId' = nextTaskId + 1
            /\ taskId' = [taskId EXCEPT ![c] = nextTaskId]
            /\ taskGeneration' = [taskGeneration EXCEPT ![c] = generation[l]]
        BY <1>2 DEF PumpStart
      <3> HIDE DEF l, c
      <3>2. activeTaskIds' \in [Lanes -> SUBSET Nat] /\ nextTaskId' \in Nat \ {0}
        BY <2>1, <3>1 DEF TypeOK
      <3>3. taskId' \in [Commands -> Nat] /\ taskGeneration' \in [Commands -> Nat]
        BY <2>1, <2>3, <3>1 DEF TypeOK
      <3>4. QED
        BY <3>2, <3>3
    <2>7. status' \in [Commands -> {"none", "queued", "running"} \cup Settled]
      BY <1>2, <2>3 DEF TypeOK, PumpStart
    <2>8. QED
      BY <1>2, <2>4, <2>5, <2>6, <2>7 DEF TypeOK, PumpStart
  <1>3. ASSUME PumpEnd PROVE TypeOK'
    BY <1>3, StackFacts DEF TypeOK, PumpEnd, InPump, taskVars
  <1>4. ASSUME TaskYield PROVE TypeOK'
    BY <1>4, StackFacts, PumpFrameType, FramesAppend
       DEF TypeOK, TaskYield, InTask, laneVars, taskVars
  <1>5. ASSUME TaskThrow PROVE TypeOK'
    <2> DEFINE c == Top.task
               stack == Append(Below, PumpFrame(Top.lane))
    <2>1. c \in Commands /\ stack \in Seq(Frame)
      BY <1>5, StackFacts, PumpFrameType, FramesAppend DEF TaskThrow, InTask
    <2>2. FinishTask(c, stack) /\ status' = [status EXCEPT ![c] = "rejected"]
      BY <1>5 DEF TaskThrow
    <2> HIDE DEF stack, c
    <2>3. QED
      BY <1>5, <2>1, <2>2, FinishTaskType DEF TypeOK, TaskThrow, Settled
  <1>6. ASSUME NEW c \in Commands, NEW o \in {"resolved", "rejected"}, TaskSettle(c, o)
        PROVE  TypeOK'
    <2>1. FinishTask(c, callStack) /\ callStack \in Seq(Frame)
      BY <1>6 DEF TaskSettle, TypeOK
    <2>2. QED
      BY <1>6, <2>1, FinishTaskType DEF TypeOK, TaskSettle, Settled
  <1>7. ASSUME NEW l \in Lanes, NEW n \in ConcurrencyInputs, SetCommandLaneConcurrency(l, n)
        PROVE  TypeOK'
    <2>1. draining' \in [Lanes -> BOOLEAN] /\ callStack' \in Seq(Frame)
      BY <1>7, DrainLaneFacts DEF SetCommandLaneConcurrency
    <2>2. (IF n < 1 THEN 1 ELSE n) \in Nat \ {0}
      OBVIOUS
    <2>3. QED
      BY <1>7, <2>1, <2>2 DEF TypeOK, SetCommandLaneConcurrency, taskVars
  <1>8. ASSUME NEW l \in Lanes, ClearCommandLane(l) PROVE TypeOK'
    <2>1. queue' \in [Lanes -> Seq(Commands)]
      BY <1>8 DEF TypeOK, ClearCommandLane
    <2>2. status' \in [Commands -> {"none", "queued", "running"} \cup Settled]
      <3>1. "cleared" \in Settled
        BY DEF Settled, Refusals
      <3>2. \A c \in Commands : status[c] \in {"none", "queued", "running"} \cup Settled
        BY DEF TypeOK
      <3>3. QED
        BY <1>8, <3>1, <3>2 DEF ClearCommandLane
    <2>3. UNCHANGED <<activeTaskIds, maxConcurrent, draining, generation, taskId,
                      taskGeneration, gatewayDraining, nextTaskId, waiters,
                      callStack, resetting, lanesToDrain>>
      BY <1>8 DEF ClearCommandLane
    <2>4. QED
      BY <2>1, <2>2, <2>3 DEF TypeOK
  <1>9. ASSUME MarkGatewayDraining PROVE TypeOK'
    BY <1>9 DEF TypeOK, MarkGatewayDraining, laneVars, taskVars
  <1>10. ASSUME ResetAllLanes PROVE TypeOK'
    <2>1. /\ activeTaskIds' \in [Lanes -> SUBSET Nat]
          /\ generation' \in [Lanes -> Nat]
      BY <1>10 DEF TypeOK, ResetAllLanes
    <2>2. /\ draining' \in [Lanes -> BOOLEAN]
          /\ gatewayDraining' \in BOOLEAN
          /\ resetting' \in BOOLEAN
      BY <1>10 DEF ResetAllLanes
    <2>3. lanesToDrain' \in SUBSET Lanes
      BY <1>10 DEF ResetAllLanes
    <2>4. UNCHANGED <<queue, maxConcurrent, status, taskId, taskGeneration,
                      nextTaskId, waiters, callStack>>
      BY <1>10 DEF ResetAllLanes, taskVars
    <2>5. QED
      BY <2>1, <2>2, <2>3, <2>4 DEF TypeOK
  <1>11. ASSUME NEW l \in Lanes, ResetDrain(l) PROVE TypeOK'
    BY <1>11, DrainLaneFacts DEF TypeOK, ResetDrain, taskVars
  <1>12. ASSUME ResetEnd PROVE TypeOK'
    BY <1>12, NotifyFacts DEF TypeOK, ResetEnd, laneVars, taskVars
  <1>13. ASSUME NEW w \in Waiters, NEW t \in BOOLEAN, WaitForActiveTasks(w, t)
         PROVE  TypeOK'
    <2> DEFINE ids == ActiveIds(activeTaskIds)
               state == IF ids = {} THEN "drained"
                        ELSE IF t THEN "waiting" ELSE "timedOut"
               added == [waiters EXCEPT ![w] = [state |-> state, ids |-> ids]]
    <2>1. ids \in SUBSET Nat
      BY DEF TypeOK, ActiveIds
    <2>2. state \in {"drained", "waiting", "timedOut"}
      OBVIOUS
    <2>3. waiters' = IF state = "waiting"
                     THEN notifyActiveTaskWaiters(added, activeTaskIds) ELSE added
      BY <1>13 DEF WaitForActiveTasks
    <2> HIDE DEF ids, state
    <2>4. added \in [Waiters -> [state : {"none", "waiting", "drained", "timedOut"},
                                 ids : SUBSET Nat]]
      BY <2>1, <2>2 DEF TypeOK
    <2> HIDE DEF added
    <2>5. waiters' \in [Waiters -> [state : {"none", "waiting", "drained", "timedOut"},
                                    ids : SUBSET Nat]]
      BY <2>3, <2>4, NotifyFacts
    <2>6. QED
      BY <1>13, <2>5 DEF TypeOK, WaitForActiveTasks, laneVars, taskVars
  <1>14. ASSUME NEW w \in Waiters, WaiterTimeout(w) PROVE TypeOK'
    BY <1>14 DEF TypeOK, WaiterTimeout, laneVars, taskVars
  <1>15. CASE UNCHANGED vars
    BY <1>15 DEF TypeOK, vars, laneVars, taskVars
  <1>16. QED
    BY <1>1, <1>2, <1>3, <1>4, <1>5, <1>6, <1>7, <1>8, <1>9, <1>10, <1>11,
       <1>12, <1>13, <1>14, <1>15 DEF Next, Synchronous, Completion

\* Initially every variable has its type.
LEMMA InitType == Init => TypeOK
  <1> SUFFICES ASSUME Init PROVE TypeOK
    OBVIOUS
  <1>1. queue \in [Lanes -> Seq(Commands)] /\ callStack \in Seq(Frame)
    BY DEF Init
  <1>2. /\ draining \in [Lanes -> BOOLEAN]
        /\ gatewayDraining \in BOOLEAN
        /\ resetting \in BOOLEAN
    BY DEF Init
  <1>3. /\ activeTaskIds \in [Lanes -> SUBSET Nat]
        /\ maxConcurrent \in [Lanes -> Nat \ {0}]
        /\ generation \in [Lanes -> Nat]
        /\ nextTaskId \in Nat \ {0}
        /\ taskId \in [Commands -> Nat]
        /\ taskGeneration \in [Commands -> Nat]
        /\ lanesToDrain \in SUBSET Lanes
    BY DEF Init
  <1>4. waiters \in [Waiters -> [state : {"none", "waiting", "drained", "timedOut"},
                                 ids : SUBSET Nat]]
    BY DEF Init
  <1>5. status \in [Commands -> {"none", "queued", "running"} \cup Settled]
    BY DEF Init
  <1>6. QED
    BY <1>1, <1>2, <1>3, <1>4, <1>5 DEF TypeOK

\* Every reachable state of the queue has the declared types; in particular a
\* lane's limit is never below 1, whatever limit callers ask for.
THEOREM TypeCorrect == Spec => []TypeOK
  BY InitType, TypeStep, PTL DEF Spec

-----------------------------------------------------------------------------
(* No lane gets stuck.  NoStuckLane speaks of idle states only; inductively *)
(* every lane that could start an entry is under a pump loop of the stack,  *)
(* or resetAllLanes has still to drain it, and the draining flag, which     *)
(* makes drainLane return early, is only set under such a loop.             *)

OnStack(l) == \E f \in Frames(callStack) : f.lane = l

Covered == \A l \in Lanes :
  queue[l] # <<>> /\ HasRoom(l) => OnStack(l) \/ l \in lanesToDrain

DrainingOnStack == \A l \in Lanes : draining[l] => OnStack(l)

DrainsInReset == lanesToDrain # {} => resetting

PumpInv == TypeOK /\ Covered /\ DrainingOnStack /\ DrainsInReset

\* drainLane leaves its lane on the stack and takes no lane off it.
LEMMA DrainLaneCovers ==
  ASSUME PumpInv, NEW l \in Lanes, drainLane(l)
  PROVE  /\ OnStack(l)'
         /\ \A k \in Lanes : OnStack(k) => OnStack(k)'
         /\ DrainingOnStack'
  <1>1. TypeOK /\ draining \in [Lanes -> BOOLEAN]
    BY DEF PumpInv, TypeOK
  <1>2. CASE draining[l] /\ draining' = draining /\ callStack' = callStack
    BY <1>2 DEF PumpInv, DrainingOnStack, OnStack
  <1>3. CASE /\ draining' = [draining EXCEPT ![l] = TRUE]
             /\ Frames(callStack') = Frames(callStack) \cup {PumpFrame(l)}
    <2>1. OnStack(l)'
      BY <1>3, PumpFrameType DEF OnStack
    <2>2. \A k \in Lanes : OnStack(k) => OnStack(k)'
      BY <1>3 DEF OnStack
    <2>3. \A k \in Lanes : draining'[k] => k = l \/ draining[k]
      BY <1>1, <1>3
    <2>4. DrainingOnStack'
      BY <2>1, <2>2, <2>3 DEF PumpInv, DrainingOnStack
    <2>5. QED
      BY <2>1, <2>2, <2>4
  <1>4. QED
    BY <1>1, <1>2, <1>3, DrainLaneFacts

\* Replacing the top frame by one of the same lane keeps every lane on the
\* stack, and so does pushing a frame on top of it.
LEMMA ReplaceTop ==
  ASSUME TypeOK, callStack # <<>>, NEW f \in Frame, f.lane = Top.lane
  PROVE  LET s == Append(Below, f)
         IN /\ s \in Seq(Frame)
            /\ \A k \in Lanes : OnStack(k) => \E g \in Frames(s) : g.lane = k
  <1>1. Below \in Seq(Frame) /\ Frames(callStack) = Frames(Below) \cup {Top}
    BY StackFacts
  <1>2. /\ Append(Below, f) \in Seq(Frame)
        /\ Frames(Append(Below, f)) = Frames(Below) \cup {f}
    BY <1>1, FramesAppend
  <1>3. QED
    BY <1>1, <1>2 DEF OnStack

\* Finishing a task keeps every lane of the given stack covered, and covers
\* the lane whose room it may have increased.
LEMMA FinishTaskCovers ==
  ASSUME TypeOK, NEW c \in Commands, NEW stack \in Seq(Frame), FinishTask(c, stack)
  PROVE  /\ \A k \in Lanes : (\E f \in Frames(stack) : f.lane = k) => OnStack(k)'
         /\ \A k \in Lanes : activeTaskIds'[k] = activeTaskIds[k] \/ OnStack(k)'
  <1>1. LaneOf[c] \in Lanes
    BY CommandQueueAssumption
  <1>2. CASE ~IsCurrent(c)
    BY <1>2 DEF FinishTask, completeTask, OnStack
  <1>3. CASE IsCurrent(c)
    <2>1. /\ callStack' = Append(stack, PumpFrame(LaneOf[c]))
          /\ activeTaskIds' = [activeTaskIds EXCEPT ![LaneOf[c]] = @ \ {taskId[c]}]
      BY <1>3 DEF FinishTask, completeTask
    <2>2. Frames(callStack') = Frames(stack) \cup {PumpFrame(LaneOf[c])}
      BY <1>1, <2>1, PumpFrameType, FramesAppend
    <2>3. OnStack(LaneOf[c])'
      BY <1>1, <2>2, PumpFrameType DEF OnStack
    <2>4. \A k \in Lanes : k # LaneOf[c] => activeTaskIds'[k] = activeTaskIds[k]
      BY <1>1, <2>1 DEF TypeOK
    <2>5. QED
      BY <2>2, <2>3, <2>4 DEF OnStack
  <1>4. QED
    BY <1>2, <1>3

\* A step after which each lane is on the stack, still to be drained, or has
\* no more to start than before, and no less cover, keeps Covered.
LEMMA CoveredStep ==
  ASSUME Covered,
         \A l \in Lanes :
           \/ OnStack(l)' \/ (l \in lanesToDrain)'
           \/ ~((queue[l] # <<>> /\ HasRoom(l))')
           \/ /\ queue'[l] # <<>> => queue[l] # <<>>
              /\ HasRoom(l)' => HasRoom(l)
              /\ OnStack(l) => OnStack(l)'
              /\ l \in lanesToDrain => (OnStack(l) \/ l \in lanesToDrain)'
  PROVE  Covered'
  BY DEF Covered

\* Every step preserves the invariant of the pump loops.
LEMMA PumpStep == PumpInv /\ [Next]_vars => PumpInv'
  <1> SUFFICES ASSUME PumpInv, [Next]_vars PROVE PumpInv'
    OBVIOUS
  <1> USE CommandQueueAssumption
  <1>0. /\ TypeOK /\ Covered /\ DrainingOnStack /\ DrainsInReset /\ TypeOK'
    BY TypeStep DEF PumpInv
  <1>1. ASSUME NEW c \in Commands, Enqueue(c) PROVE PumpInv'
    <2>1. LaneOf[c] \in Lanes
      OBVIOUS
    <2>2. CASE gatewayDraining
      BY <1>0, <1>1, <2>2
         DEF PumpInv, Enqueue, Covered, DrainingOnStack, DrainsInReset, OnStack, HasRoom
    <2>3. CASE ~gatewayDraining
      <3>1. drainLane(LaneOf[c])
        BY <1>1, <2>3 DEF Enqueue
      <3>2. /\ OnStack(LaneOf[c])'
            /\ \A k \in Lanes : OnStack(k) => OnStack(k)'
            /\ DrainingOnStack'
        BY <2>1, <3>1, DrainLaneCovers
      <3>3. \A k \in Lanes : k # LaneOf[c] => queue'[k] = queue[k]
        BY <1>0, <1>1, <2>1, <2>3 DEF Enqueue, TypeOK
      <3>4. \A k \in Lanes : HasRoom(k)' => HasRoom(k)
        BY <1>1 DEF Enqueue, HasRoom
      <3>5. lanesToDrain' = lanesToDrain /\ resetting' = resetting
        BY <1>1 DEF Enqueue
      <3>6. Covered'
        BY <1>0, <3>2, <3>3, <3>4, <3>5, CoveredStep
      <3>7. QED
        BY <1>0, <3>2, <3>5, <3>6 DEF PumpInv, DrainsInReset
    <2>4. QED
      BY <2>2, <2>3
  <1>2. ASSUME PumpStart PROVE PumpInv'
    <2> DEFINE l == Top.lane
               c == Head(queue[l])
    <2>1. callStack # <<>> /\ l \in Lanes /\ queue[l] \in Seq(Commands) /\ queue[l] # <<>>
      BY <1>0, <1>2, StackFacts DEF PumpStart, InPump, TypeOK
    <2>2. [lane |-> l, task |-> c] \in Frame /\ [lane |-> l, task |-> c].lane = l
      BY <2>1 DEF Frame
    <2>3. callStack' = Append(Below, [lane |-> l, task |-> c])
      BY <1>2 DEF PumpStart
    <2>4. \A k \in Lanes : OnStack(k) => OnStack(k)'
      BY <1>0, <2>1, <2>2, <2>3, ReplaceTop DEF OnStack
    <2>5. OnStack(l)
      BY <1>0, <2>1, StackFacts DEF OnStack
    <2>6. \A k \in Lanes : k # l =>
            queue'[k] = queue[k] /\ activeTaskIds'[k] = activeTaskIds[k]
      BY <1>0, <1>2, <2>1 DEF PumpStart, TypeOK
    <2>7. UNCHANGED <<maxConcurrent, draining, resetting, lanesToDrain>>
      BY <1>2 DEF PumpStart
    <2> HIDE DEF l, c
    <2>8. Covered'
      BY <1>0, <2>1, <2>4, <2>5, <2>6, <2>7, CoveredStep DEF HasRoom
    <2>9. DrainingOnStack' /\ DrainsInReset'
      BY <1>0, <2>4, <2>7 DEF DrainingOnStack, DrainsInReset
    <2>10. QED
      BY <1>0, <2>8, <2>9 DEF PumpInv
  <1>3. ASSUME PumpEnd PROVE PumpInv'
    <2> DEFINE l == Top.lane
    <2>1. /\ callStack # <<>> /\ l \in Lanes
          /\ Frames(callStack) = Frames(Below) \cup {Top}
      BY <1>0, <1>3, StackFacts DEF PumpEnd, InPump
    <2>2. /\ callStack' = Below
          /\ draining' = [draining EXCEPT ![l] = FALSE]
          /\ ~(HasRoom(l) /\ queue[l] # <<>>)
          /\ UNCHANGED <<queue, activeTaskIds, maxConcurrent, resetting, lanesToDrain>>
      BY <1>3 DEF PumpEnd
    <2>3. \A k \in Lanes : k # l /\ OnStack(k) => OnStack(k)'
      BY <2>1, <2>2 DEF OnStack
    <2>4. \A k \in Lanes : draining'[k] => draining[k] /\ k # l
      BY <1>0, <2>1, <2>2 DEF TypeOK
    <2> HIDE DEF l
    <2>5. \A k \in Lanes : HasRoom(k)' = HasRoom(k)
      BY <2>2 DEF HasRoom
    <2>6. Covered'
      BY <1>0, <2>2, <2>3, <2>5, CoveredStep
    <2>7. DrainingOnStack' /\ DrainsInReset'
      BY <1>0, <2>2, <2>3, <2>4 DEF DrainingOnStack, DrainsInReset
    <2>8. QED
      BY <1>0, <2>6, <2>7 DEF PumpInv
  <1>4. ASSUME TaskYield PROVE PumpInv'
    <2>1. /\ callStack # <<>>
          /\ callStack' = Append(Below, PumpFrame(Top.lane))
          /\ UNCHANGED <<queue, activeTaskIds, maxConcurrent, draining, resetting,
                         lanesToDrain>>
      BY <1>4 DEF TaskYield, InTask, laneVars
    <2>2. \A k \in Lanes : OnStack(k) => OnStack(k)'
      BY <1>0, <2>1, StackFacts, PumpFrameType, ReplaceTop DEF OnStack
    <2>3. QED
      BY <1>0, <2>1, <2>2 DEF PumpInv, Covered, DrainingOnStack, DrainsInReset, HasRoom
  <1>5. ASSUME TaskThrow PROVE PumpInv'
    <2> DEFINE c == Top.task
               stack == Append(Below, PumpFrame(Top.lane))
    <2>1. /\ callStack # <<>> /\ c \in Commands
          /\ FinishTask(c, stack)
          /\ UNCHANGED <<queue, maxConcurrent, draining, resetting, lanesToDrain>>
      BY <1>0, <1>5, StackFacts DEF TaskThrow, InTask
    <2>2. /\ stack \in Seq(Frame)
          /\ \A k \in Lanes : OnStack(k) => \E f \in Frames(stack) : f.lane = k
      BY <1>0, <2>1, StackFacts, PumpFrameType, ReplaceTop
    <2> HIDE DEF c, stack
    <2>3. /\ \A k \in Lanes : OnStack(k) => OnStack(k)'
          /\ \A k \in Lanes : activeTaskIds'[k] = activeTaskIds[k] \/ OnStack(k)'
      BY <1>0, <2>1, <2>2, FinishTaskCovers
    <2>4. Covered'
      BY <1>0, <2>1, <2>3, CoveredStep DEF HasRoom
    <2>5. QED
      BY <1>0, <2>1, <2>3, <2>4 DEF PumpInv, DrainingOnStack, DrainsInReset
  <1>6. ASSUME NEW c \in Commands, NEW o \in {"resolved", "rejected"}, TaskSettle(c, o)
        PROVE  PumpInv'
    <2>1. /\ FinishTask(c, callStack) /\ callStack \in Seq(Frame)
          /\ UNCHANGED <<queue, maxConcurrent, draining, resetting, lanesToDrain>>
      BY <1>0, <1>6 DEF TaskSettle, TypeOK
    <2>2. /\ \A k \in Lanes : OnStack(k) => OnStack(k)'
          /\ \A k \in Lanes : activeTaskIds'[k] = activeTaskIds[k] \/ OnStack(k)'
      BY <1>0, <2>1, FinishTaskCovers DEF OnStack
    <2>3. Covered'
      BY <1>0, <2>1, <2>2, CoveredStep DEF HasRoom
    <2>4. QED
      BY <1>0, <2>1, <2>2, <2>3 DEF PumpInv, DrainingOnStack, DrainsInReset
  <1>7. ASSUME NEW l \in Lanes, NEW n \in ConcurrencyInputs, SetCommandLaneConcurrency(l, n)
        PROVE  PumpInv'
    <2>1. /\ drainLane(l)
          /\ UNCHANGED <<queue, activeTaskIds, resetting, lanesToDrain>>
          /\ \A k \in Lanes : k # l => maxConcurrent'[k] = maxConcurrent[k]
      BY <1>0, <1>7 DEF SetCommandLaneConcurrency, TypeOK
    <2>2. /\ OnStack(l)'
          /\ \A k \in Lanes : OnStack(k) => OnStack(k)'
          /\ DrainingOnStack'
      BY <2>1, DrainLaneCovers
    <2>3. Covered'
      BY <1>0, <2>1, <2>2, CoveredStep DEF HasRoom
    <2>4. QED
      BY <1>0, <2>1, <2>2, <2>3 DEF PumpInv, DrainsInReset
  <1>8. ASSUME NEW l \in Lanes, ClearCommandLane(l) PROVE PumpInv'
    <2>1. /\ UNCHANGED <<activeTaskIds, maxConcurrent, draining, callStack, resetting,
                         lanesToDrain>>
          /\ \A k \in Lanes : queue'[k] # <<>> => queue'[k] = queue[k]
      BY <1>0, <1>8 DEF ClearCommandLane, TypeOK
    <2>2. QED
      BY <1>0, <2>1
         DEF PumpInv, Covered, DrainingOnStack, DrainsInReset, OnStack, HasRoom
  <1>9. ASSUME ResetAllLanes PROVE PumpInv'
    <2>1. /\ \A k \in Lanes : draining'[k] = FALSE
          /\ lanesToDrain' = {k \in Lanes : queue[k] # <<>>}
          /\ queue' = queue /\ resetting'
      BY <1>9 DEF ResetAllLanes
    <2>2. QED
      BY <1>0, <2>1 DEF PumpInv, Covered, DrainingOnStack, DrainsInReset
  <1>10. ASSUME NEW l \in Lanes, ResetDrain(l) PROVE PumpInv'
    <2>1. /\ drainLane(l) /\ resetting /\ resetting'
          /\ lanesToDrain' = lanesToDrain \ {l}
          /\ UNCHANGED <<queue, activeTaskIds, maxConcurrent>>
      BY <1>10 DEF ResetDrain
    <2>2. /\ OnStack(l)'
          /\ \A k \in Lanes : OnStack(k) => OnStack(k)'
          /\ DrainingOnStack'
      BY <2>1, DrainLaneCovers
    <2>3. Covered'
      BY <1>0, <2>1, <2>2, CoveredStep DEF HasRoom
    <2>4. QED
      BY <1>0, <2>1, <2>2, <2>3 DEF PumpInv, DrainsInReset
  <1>11. ASSUME UNCHANGED <<laneVars, callStack, lanesToDrain>>,
                resetting' = resetting \/ lanesToDrain = {}
         PROVE  PumpInv'
    BY <1>0, <1>11
       DEF PumpInv, Covered, DrainingOnStack, DrainsInReset, OnStack, HasRoom, laneVars
  <1>12. QED
    <2>1. ASSUME MarkGatewayDraining PROVE PumpInv'
      BY <2>1, <1>11 DEF MarkGatewayDraining
    <2>2. ASSUME ResetEnd PROVE PumpInv'
      BY <2>2, <1>11 DEF ResetEnd
    <2>3. ASSUME NEW w \in Waiters, NEW t \in BOOLEAN, WaitForActiveTasks(w, t)
          PROVE  PumpInv'
      BY <2>3, <1>11 DEF WaitForActiveTasks
    <2>4. ASSUME NEW w \in Waiters, WaiterTimeout(w) PROVE PumpInv'
      BY <2>4, <1>11 DEF WaiterTimeout
    <2>5. CASE UNCHANGED vars
      BY <2>5, <1>11 DEF vars
    <2>6. QED
      BY <1>1, <1>2, <1>3, <1>4, <1>5, <1>6, <1>7, <1>8, <1>9, <1>10,
         <2>1, <2>2, <2>3, <2>4, <2>5 DEF Next, Synchronous, Completion

\* Whenever control is back in the event loop, a lane with waiting entries
\* uses its whole limit: drainLane's early return never strands work.
THEOREM NeverStuck == Spec => []NoStuckLane
  <1>1. Init => PumpInv
    <2> SUFFICES ASSUME Init PROVE PumpInv
      OBVIOUS
    <2>1. TypeOK
      BY InitType
    <2>2. Covered /\ DrainingOnStack /\ DrainsInReset
      BY DEF Init, Covered, DrainingOnStack, DrainsInReset
    <2>3. QED
      BY <2>1, <2>2 DEF PumpInv
  <1>2. PumpInv => NoStuckLane
    BY FramesEmpty
       DEF PumpInv, Covered, DrainsInReset, NoStuckLane, Idle, OnStack
  <1>3. QED
    BY <1>1, <1>2, PumpStep, PTL DEF Spec

-----------------------------------------------------------------------------
(***************************************************************************)
(* What the queue promises about its tasks: which of them use a slot, whom *)
(* a waiter is told about, and that the queue implements LaneScheduler.    *)
(***************************************************************************)

\* An entry waits on its own lane, once, and has not been started.
QueuedWell ==
  \A l \in Lanes : \A i \in 1..Len(queue[l]) :
    /\ LaneOf[queue[l][i]] = l
    /\ status[queue[l][i]] = "queued"
    /\ \A j \in 1..Len(queue[l]) : queue[l][j] = queue[l][i] => j = i

\* A task on a stack is running, and is there once.
RunningOn(s, st) ==
  \A i \in 1..Len(s) :
    s[i].task # NoCommand =>
      /\ st[s[i].task] = "running"
      /\ \A j \in 1..Len(s) : s[j].task = s[i].task => j = i

StackWell == RunningOn(callStack, status)

\* Every id handed out is older than the next one, and no two running tasks
\* share one.
IdsWell ==
  /\ \A c \in Commands :
       taskId[c] < nextTaskId /\ taskGeneration[c] <= generation[LaneOf[c]]
  /\ \A c, d \in Commands :
       Running(c) /\ Running(d) /\ taskId[c] = taskId[d] => c = d
  /\ \A w \in Waiters : \A id \in waiters[w].ids : id < nextTaskId
  /\ \A l \in Lanes : IsFiniteSet(activeTaskIds[l])

TaskInv == /\ TypeOK /\ QueuedWell /\ StackWell /\ IdsWell
           /\ ActiveAreRunning /\ DrainedMeansFinished

-----------------------------------------------------------------------------
(* The stack.                                                              *)

\* Popping a frame, and what is known of the task it belonged to.
LEMMA RunningBelow ==
  ASSUME NEW s \in Seq(Frame), s # <<>>, NEW st, RunningOn(s, st)
  PROVE  LET b == SubSeq(s, 1, Len(s) - 1)
             c == s[Len(s)].task
         IN /\ b \in Seq(Frame)
            /\ RunningOn(b, st)
            /\ c # NoCommand => /\ st[c] = "running"
                                /\ \A i \in 1..Len(b) : b[i].task # c
  <1> DEFINE b == SubSeq(s, 1, Len(s) - 1)
  <1>1. /\ b \in Seq(Frame) /\ Len(b) = Len(s) - 1
        /\ \A i \in 1..(Len(s) - 1) : b[i] = s[i]
    BY BelowElements
  <1> HIDE DEF b
  <1>2. Len(s) \in Nat \ {0}
    OBVIOUS
  <1>3. \A i \in 1..Len(b) : i \in 1..Len(s) /\ i # Len(s) /\ b[i] = s[i]
    BY <1>1, <1>2
  <1>4. Len(s) \in 1..Len(s)
    BY <1>2
  <1> QED
    BY <1>1, <1>3, <1>4 DEF b, RunningOn

\* Pushing a pump loop, which is in no task yet, or a task that has just started.
LEMMA RunningPush ==
  ASSUME NEW s \in Seq(Frame), NEW f \in Frame, NEW st, RunningOn(s, st),
         f.task # NoCommand =>
           st[f.task] = "running" /\ \A i \in 1..Len(s) : s[i].task # f.task
  PROVE  Append(s, f) \in Seq(Frame) /\ RunningOn(Append(s, f), st)
  <1> DEFINE a == Append(s, f)
  <1>1. /\ a \in Seq(Frame) /\ Len(a) = Len(s) + 1 /\ a[Len(s) + 1] = f
        /\ \A i \in 1..Len(s) : a[i] = s[i]
        /\ Len(s) \in Nat
    OBVIOUS
  <1> HIDE DEF a
  <1>2. \A i \in 1..Len(a) : i = Len(s) + 1 \/ i \in 1..Len(s)
    BY <1>1
  <1> QED
    BY <1>1, <1>2 DEF a, RunningOn

\* Commands that are not on the stack may change their status.
LEMMA RunningStatus ==
  ASSUME NEW s \in Seq(Frame), NEW st, NEW st2, RunningOn(s, st),
         \A i \in 1..Len(s) : s[i].task # NoCommand => st2[s[i].task] = st[s[i].task]
  PROVE  RunningOn(s, st2)
  BY DEF RunningOn

\* The task on the top of the stack.
LEMMA TopTask ==
  ASSUME TypeOK, StackWell, callStack # <<>>
  PROVE  /\ Below \in Seq(Frame) /\ RunningOn(Below, status)
         /\ Top.lane \in Lanes
         /\ Top.task # NoCommand => /\ Top.task \in Commands
                                    /\ status[Top.task] = "running"
                                    /\ \A i \in 1..Len(Below) : Below[i].task # Top.task
  <1>1. callStack \in Seq(Frame)
    BY DEF TypeOK
  <1> QED
    BY <1>1, RunningBelow, StackFacts DEF StackWell, Below, Top

\* Leaving the task on the top for the pump loop that runs it.
LEMMA BackToPump ==
  ASSUME TypeOK, StackWell, callStack # <<>>
  PROVE  LET s == Append(Below, PumpFrame(Top.lane))
         IN /\ s \in Seq(Frame) /\ RunningOn(s, status)
            /\ Top.task # NoCommand => \A i \in 1..Len(s) : s[i].task # Top.task
  <1> DEFINE s == Append(Below, PumpFrame(Top.lane))
  <1>1. /\ PumpFrame(Top.lane) \in Frame /\ PumpFrame(Top.lane).task = NoCommand
        /\ Below \in Seq(Frame) /\ RunningOn(Below, status)
    BY TopTask, PumpFrameType
  <1>2. s \in Seq(Frame) /\ RunningOn(s, status)
    BY <1>1, RunningPush
  <1>3. ASSUME Top.task # NoCommand, NEW i \in 1..Len(s)
        PROVE  s[i].task # Top.task
    <2>1. (i \in 1..Len(Below) /\ s[i] = Below[i]) \/ s[i] = PumpFrame(Top.lane)
      BY <1>1
    <2> QED
      BY <1>1, <1>3, <2>1, TopTask
  <1> QED
    BY <1>2, <1>3

\* drainLane pushes at most a pump loop.
LEMMA DrainLaneStack ==
  ASSUME TypeOK, StackWell, NEW l \in Lanes, drainLane(l)
  PROVE  callStack' \in Seq(Frame) /\ RunningOn(callStack', status)
  <1>1. callStack \in Seq(Frame) /\ RunningOn(callStack, status)
    BY DEF TypeOK, StackWell
  <1>2. callStack' = callStack \/ callStack' = Append(callStack, PumpFrame(l))
    BY DEF drainLane
  <1> QED
    BY <1>1, <1>2, PumpFrameType, RunningPush

\* A finished task leaves at most a new pump loop on the stack.
LEMMA FinishTaskStack ==
  ASSUME NEW c \in Commands, NEW stack \in Seq(Frame), NEW st, RunningOn(stack, st),
         FinishTask(c, stack)
  PROVE  RunningOn(callStack', st)
  <1>1. LaneOf[c] \in Lanes
    BY CommandQueueAssumption
  <1>2. callStack' = stack \/ callStack' = Append(stack, PumpFrame(LaneOf[c]))
    BY DEF FinishTask
  <1> QED
    BY <1>1, <1>2, PumpFrameType, RunningPush

-----------------------------------------------------------------------------
(* The queues and the stack.                                               *)

\* The entry a pump loop starts.
LEMMA StartedEntry ==
  ASSUME TypeOK, QueuedWell, StackWell, PumpStart
  PROVE  LET l == Top.lane
             c == Head(queue[l])
         IN /\ l \in Lanes /\ queue[l] \in Seq(Commands) /\ Len(queue[l]) > 0
            /\ c \in Commands /\ c = queue[l][1]
            /\ LaneOf[c] = l /\ status[c] = "queued"
  <1> DEFINE l == Top.lane
  <1>1. l \in Lanes /\ queue[l] # <<>>
    BY TopTask DEF PumpStart, InPump
  <1>2. queue[l] \in Seq(Commands)
    BY <1>1 DEF TypeOK
  <1> HIDE DEF l
  <1>3. /\ Len(queue[l]) \in Nat /\ Len(queue[l]) > 0 /\ 1 \in 1..Len(queue[l])
        /\ Head(queue[l]) = queue[l][1] /\ queue[l][1] \in Commands
    BY <1>1, <1>2
  <1>4. LaneOf[queue[l][1]] = l /\ status[queue[l][1]] = "queued"
    BY <1>1, <1>3 DEF QueuedWell
  <1> QED
    BY <1>1, <1>2, <1>3, <1>4 DEF l

\* Statuses may change of commands that wait on no lane.
LEMMA SameQueues ==
  ASSUME TypeOK, QueuedWell, queue' = queue,
         \A c \in Commands : status[c] = "queued" => status'[c] = "queued"
  PROVE  QueuedWell'
  BY DEF TypeOK, QueuedWell

\* Every step keeps the queues well formed.
LEMMA QueuedStep ==
  ASSUME TypeOK, QueuedWell, StackWell, [Next]_vars
  PROVE  QueuedWell'
  <1>1. ASSUME NEW c \in Commands, Enqueue(c) PROVE QueuedWell'
    <2>1. CASE gatewayDraining
      <3>1. /\ queue' = queue /\ status[c] = "none"
            /\ status' = [status EXCEPT ![c] = "refused"]
        BY <1>1, <2>1 DEF Enqueue
      <3> QED
        BY <3>1, SameQueues DEF TypeOK
    <2>2. CASE ~gatewayDraining
      <3> DEFINE l == LaneOf[c]
      <3>1. /\ l \in Lanes /\ status[c] = "none"
            /\ queue' = [queue EXCEPT ![l] = Append(@, c)]
            /\ status' = [status EXCEPT ![c] = "queued"]
        BY <1>1, <2>2, CommandQueueAssumption DEF Enqueue
      <3> SUFFICES ASSUME NEW k \in Lanes, NEW i \in 1..Len(queue'[k])
                   PROVE  /\ LaneOf[queue'[k][i]] = k
                          /\ status'[queue'[k][i]] = "queued"
                          /\ \A j \in 1..Len(queue'[k]) :
                               queue'[k][j] = queue'[k][i] => j = i
        BY DEF QueuedWell
      <3>2. queue[k] \in Seq(Commands) /\ Len(queue[k]) \in Nat
        BY DEF TypeOK
      <3>3. ASSUME NEW j \in 1..Len(queue[k])
            PROVE  /\ queue[k][j] \in Commands /\ LaneOf[queue[k][j]] = k
                   /\ queue[k][j] # c /\ status'[queue[k][j]] = "queued"
        <4>1. queue[k][j] \in Commands
          BY <3>2
        <4>2. LaneOf[queue[k][j]] = k /\ status[queue[k][j]] = "queued"
          BY DEF QueuedWell
        <4> QED
          BY <3>1, <4>1, <4>2 DEF TypeOK
      <3>4. status'[c] = "queued"
        BY <3>1 DEF TypeOK
      <3>5. CASE k # l
        <4>1. queue'[k] = queue[k]
          BY <3>1, <3>5 DEF TypeOK
        <4> QED
          BY <3>2, <3>3, <4>1 DEF QueuedWell
      <3>6. CASE k = l
        <4>1. queue'[k] = Append(queue[k], c)
          BY <3>1, <3>6 DEF TypeOK
        <4>2. /\ Len(queue'[k]) = Len(queue[k]) + 1
              /\ \A j \in 1..Len(queue'[k]) :
                   \/ j \in 1..Len(queue[k]) /\ queue'[k][j] = queue[k][j]
                   \/ j = Len(queue[k]) + 1 /\ queue'[k][j] = c
          BY <3>2, <4>1
        <4>3. LaneOf[queue'[k][i]] = k /\ status'[queue'[k][i]] = "queued"
          BY <3>3, <3>4, <3>6, <4>2
        <4>4. ASSUME NEW j \in 1..Len(queue'[k]), queue'[k][j] = queue'[k][i]
              PROVE  j = i
          BY <3>3, <4>2, <4>4 DEF QueuedWell
        <4> QED
          BY <4>3, <4>4
      <3> QED
        BY <3>5, <3>6
    <2> QED
      BY <2>1, <2>2
  <1>2. ASSUME PumpStart PROVE QueuedWell'
    <2> DEFINE l == Top.lane
               c == Head(queue[l])
    <2>1. /\ l \in Lanes /\ queue[l] \in Seq(Commands) /\ Len(queue[l]) > 0
          /\ c \in Commands /\ c = queue[l][1] /\ LaneOf[c] = l
      BY <1>2, StartedEntry
    <2>2. /\ queue' = [queue EXCEPT ![l] = Tail(@)]
          /\ status' = [status EXCEPT ![c] = "running"]
      BY <1>2 DEF PumpStart
    <2> HIDE DEF l, c
    <2> SUFFICES ASSUME NEW k \in Lanes, NEW i \in 1..Len(queue'[k])
                 PROVE  /\ LaneOf[queue'[k][i]] = k
                        /\ status'[queue'[k][i]] = "queued"
                        /\ \A j \in 1..Len(queue'[k]) :
                             queue'[k][j] = queue'[k][i] => j = i
      BY DEF QueuedWell
    <2>3. queue[k] \in Seq(Commands) /\ Len(queue[k]) \in Nat
      BY DEF TypeOK
    <2>4. CASE k # l
      <3>1. queue'[k] = queue[k]
        BY <2>2, <2>4 DEF TypeOK
      <3>2. \A j \in 1..Len(queue[k]) : queue[k][j] \in Commands /\ queue[k][j] # c
        BY <2>1, <2>3, <2>4 DEF QueuedWell
      <3> QED
        BY <2>2, <2>3, <3>1, <3>2 DEF QueuedWell, TypeOK
    <2>5. CASE k = l
      <3>1. queue'[k] = Tail(queue[k])
        BY <2>2, <2>5 DEF TypeOK
      <3>2. /\ Len(queue'[k]) = Len(queue[k]) - 1
            /\ \A j \in 1..Len(queue'[k]) :
                 j + 1 \in 1..Len(queue[k]) /\ queue'[k][j] = queue[k][j + 1]
        BY <2>1, <2>3, <2>5, <3>1
      <3>3. 1 \in 1..Len(queue[k])
        BY <2>1, <2>3, <2>5
      <3>4. \A j \in 1..Len(queue'[k]) :
              queue'[k][j] \in Commands /\ queue'[k][j] # c
        BY <2>1, <2>3, <2>5, <3>2, <3>3 DEF QueuedWell
      <3>5. LaneOf[queue'[k][i]] = k /\ status[queue'[k][i]] = "queued"
        BY <3>2 DEF QueuedWell
      <3>6. status'[queue'[k][i]] = "queued"
        BY <2>2, <3>4, <3>5 DEF TypeOK
      <3>7. ASSUME NEW j \in 1..Len(queue'[k]), queue'[k][j] = queue'[k][i]
            PROVE  j = i
        <4>1. j + 1 = i + 1
          BY <3>2, <3>7 DEF QueuedWell
        <4> QED
          BY <4>1
      <3> QED
        BY <3>5, <3>6, <3>7
    <2> QED
      BY <2>4, <2>5
  <1>3. ASSUME NEW l \in Lanes, ClearCommandLane(l) PROVE QueuedWell'
    <2>1. /\ queue' = [queue EXCEPT ![l] = <<>>]
          /\ status' = [c \in Commands |->
                          IF \E i \in DOMAIN queue[l] : queue[l][i] = c
                          THEN "cleared" ELSE status[c]]
      BY <1>3 DEF ClearCommandLane
    <2> SUFFICES ASSUME NEW k \in Lanes, NEW i \in 1..Len(queue'[k])
                 PROVE  /\ LaneOf[queue'[k][i]] = k
                        /\ status'[queue'[k][i]] = "queued"
                        /\ \A j \in 1..Len(queue'[k]) :
                             queue'[k][j] = queue'[k][i] => j = i
      BY DEF QueuedWell
    <2>2. k # l /\ queue'[k] = queue[k]
      BY <2>1 DEF TypeOK
    <2>3. queue[k] \in Seq(Commands) /\ DOMAIN queue[l] = 1..Len(queue[l])
      BY DEF TypeOK
    <2>4. \A m \in DOMAIN queue[l] : queue[l][m] # queue[k][i]
      BY <2>2, <2>3 DEF QueuedWell
    <2>5. queue[k][i] \in Commands
      BY <2>2, <2>3
    <2> QED
      BY <2>1, <2>2, <2>4, <2>5 DEF QueuedWell
  <1>4. ASSUME NEW c \in Commands, status[c] = "running", NEW o,
               status' = [status EXCEPT ![c] = o], queue' = queue
        PROVE  QueuedWell'
    BY <1>4, SameQueues DEF TypeOK
  <1>5. ASSUME TaskThrow PROVE QueuedWell'
    BY <1>4, <1>5, TopTask DEF TaskThrow, InTask
  <1>6. ASSUME NEW c \in Commands, Completion(c) PROVE QueuedWell'
    BY <1>4, <1>6 DEF Completion, TaskSettle
  <1>7. CASE UNCHANGED <<queue, status>>
    BY <1>7, SameQueues
  <1> QED
    BY <1>1, <1>2, <1>3, <1>5, <1>6, <1>7
       DEF Next, Synchronous, PumpEnd, TaskYield, ResetDrain, ResetEnd, ResetAllLanes,
           SetCommandLaneConcurrency, WaitForActiveTasks, WaiterTimeout,
           MarkGatewayDraining, vars, laneVars, taskVars

\* Every step keeps the stack well formed.
LEMMA StackStep ==
  ASSUME TypeOK, QueuedWell, StackWell, [Next]_vars
  PROVE  StackWell'
  <1>1. ASSUME NEW c \in Commands, Enqueue(c) PROVE StackWell'
    <2>1. callStack \in Seq(Frame) /\ RunningOn(callStack, status)
      BY DEF TypeOK, StackWell
    <2>2. callStack' \in Seq(Frame) /\ RunningOn(callStack', status)
      BY <1>1, <2>1, CommandQueueAssumption, DrainLaneStack DEF Enqueue
    <2>3. status[c] = "none" /\ \A d \in Commands : d # c => status'[d] = status[d]
      BY <1>1 DEF Enqueue, TypeOK
    <2>4. ASSUME NEW i \in 1..Len(callStack'), callStack'[i].task # NoCommand
          PROVE  status'[callStack'[i].task] = status[callStack'[i].task]
      <3>1. callStack'[i] \in Frame
        BY <2>2
      <3>2. callStack'[i].task \in Commands /\ callStack'[i].task # c
        BY <2>2, <2>3, <2>4, <3>1 DEF RunningOn, Frame
      <3> QED
        BY <2>3, <3>2
    <2> QED
      BY <2>2, <2>4, RunningStatus DEF StackWell
  <1>2. ASSUME PumpStart PROVE StackWell'
    <2> DEFINE l == Top.lane
               c == Head(queue[l])
               f == [lane |-> l, task |-> c]
    <2>1. l \in Lanes /\ c \in Commands /\ status[c] = "queued"
      BY <1>2, StartedEntry
    <2>2. Below \in Seq(Frame) /\ RunningOn(Below, status)
      BY <1>2, TopTask DEF PumpStart, InPump
    <2>3. /\ callStack' = Append(Below, f)
          /\ status' = [status EXCEPT ![c] = "running"]
      BY <1>2 DEF PumpStart
    <2>4. f \in Frame /\ f.task = c
      BY <2>1 DEF Frame
    <2> HIDE DEF l, c, f
    <2>5. \A i \in 1..Len(Below) : Below[i].task # c
      BY <2>1, <2>2, CommandQueueAssumption DEF RunningOn
    <2>6. \A i \in 1..Len(Below) : Below[i].task # NoCommand =>
            status'[Below[i].task] = status[Below[i].task]
      BY <2>2, <2>3, <2>5 DEF TypeOK, Frame
    <2>7. RunningOn(Below, status') /\ status'[c] = "running"
      BY <2>1, <2>2, <2>3, <2>6, RunningStatus DEF TypeOK
    <2> QED
      BY <2>2, <2>3, <2>4, <2>5, <2>7, RunningPush DEF StackWell
  <1>3. ASSUME PumpEnd PROVE StackWell'
    BY <1>3, TopTask DEF PumpEnd, InPump, taskVars, StackWell
  <1>4. ASSUME TaskYield PROVE StackWell'
    BY <1>4, BackToPump DEF TaskYield, InTask, taskVars, StackWell
  <1>5. ASSUME TaskThrow PROVE StackWell'
    <2> DEFINE c == Top.task
               s == Append(Below, PumpFrame(Top.lane))
    <2>1. /\ callStack # <<>> /\ c # NoCommand /\ FinishTask(c, s)
          /\ status' = [status EXCEPT ![c] = "rejected"]
      BY <1>5 DEF TaskThrow, InTask
    <2>2. /\ c \in Commands /\ s \in Seq(Frame) /\ RunningOn(s, status)
          /\ \A i \in 1..Len(s) : s[i].task # c
      BY <2>1, TopTask, BackToPump
    <2> HIDE DEF c, s
    <2>3. ASSUME NEW i \in 1..Len(s), s[i].task # NoCommand
          PROVE  status'[s[i].task] = status[s[i].task]
      <3>1. s[i] \in Frame
        BY <2>2
      <3>2. s[i].task \in Commands /\ s[i].task # c
        BY <2>2, <2>3, <3>1 DEF Frame
      <3> QED
        BY <2>1, <3>2 DEF TypeOK
    <2>4. RunningOn(s, status')
      BY <2>2, <2>3, RunningStatus
    <2> QED
      BY <2>1, <2>2, <2>4, FinishTaskStack DEF StackWell
  <1>6. ASSUME NEW c \in Commands, Completion(c) PROVE StackWell'
    <2>1. callStack = <<>> /\ FinishTask(c, callStack)
      BY <1>6 DEF Completion, TaskSettle, Idle
    <2>2. callStack \in Seq(Frame) /\ RunningOn(callStack, status')
      BY <2>1 DEF RunningOn
    <2> QED
      BY <2>1, <2>2, FinishTaskStack DEF StackWell
  <1>7. ASSUME NEW l \in Lanes, drainLane(l), status' = status PROVE StackWell'
    BY <1>7, DrainLaneStack DEF StackWell
  <1>8. ASSUME callStack' = callStack, callStack = <<>> \/ status' = status PROVE StackWell'
    BY <1>8 DEF StackWell, RunningOn
  <1>9. ASSUME NEW l \in ConfiguredLanes, NEW n \in ConcurrencyInputs,
               SetCommandLaneConcurrency(l, n)
        PROVE  StackWell'
    BY <1>7, <1>9, CommandQueueAssumption DEF SetCommandLaneConcurrency, taskVars
  <1>10. ASSUME NEW l \in Lanes, ResetDrain(l) PROVE StackWell'
    BY <1>7, <1>10 DEF ResetDrain, taskVars
  <1> QED
    BY <1>1, <1>2, <1>3, <1>4, <1>5, <1>6, <1>8, <1>9, <1>10
       DEF Next, Synchronous, Idle, ClearCommandLane, ResetEnd, ResetAllLanes,
           WaitForActiveTasks, WaiterTimeout, MarkGatewayDraining, vars, laneVars, taskVars

-----------------------------------------------------------------------------
(* Who uses a slot.                                                        *)

\* A pump loop that starts an entry gives it a slot of its lane.
LEMMA StartCounts ==
  ASSUME TypeOK, QueuedWell, StackWell, PumpStart
  PROVE  Counted' = [Counted EXCEPT ![Top.lane] = @ \cup {Head(queue[Top.lane])}]
  <1> DEFINE l == Top.lane
             c == Head(queue[l])
  <1>1. l \in Lanes /\ c \in Commands /\ LaneOf[c] = l
    BY StartedEntry
  <1>2. /\ status' = [status EXCEPT ![c] = "running"]
        /\ taskGeneration' = [taskGeneration EXCEPT ![c] = generation[l]]
        /\ generation' = generation
    BY DEF PumpStart
  <1> HIDE DEF l, c
  <1>3. \A d \in Commands :
          (Running(d) /\ IsCurrent(d))' <=> d = c \/ (Running(d) /\ IsCurrent(d))
    BY <1>1, <1>2 DEF TypeOK, Running, IsCurrent
  <1>4. ASSUME NEW k \in Lanes
        PROVE  Counted'[k] = IF k = l THEN Counted[k] \cup {c} ELSE Counted[k]
    BY <1>1, <1>3 DEF Counted
  <1> QED
    BY <1>1, <1>4 DEF Counted, l, c

\* A task that finishes gives its slot back, if it still has one.
LEMMA FinishCounts ==
  ASSUME TypeOK, NEW c \in Commands, NEW o \in {"resolved", "rejected"},
         status' = [status EXCEPT ![c] = o],
         UNCHANGED <<taskGeneration, generation>>
  PROVE  Counted' = [Counted EXCEPT ![LaneOf[c]] = @ \ {c}]
  <1>1. LaneOf[c] \in Lanes
    BY CommandQueueAssumption
  <1>2. \A d \in Commands :
          (Running(d) /\ IsCurrent(d))' <=> d # c /\ Running(d) /\ IsCurrent(d)
    BY DEF TypeOK, Running, IsCurrent
  <1>3. ASSUME NEW k \in Lanes
        PROVE  Counted'[k] = IF k = LaneOf[c] THEN Counted[k] \ {c} ELSE Counted[k]
    BY <1>1, <1>2 DEF Counted
  <1> QED
    BY <1>1, <1>3 DEF Counted

\* A step that neither starts nor ends a task.
LEMMA SameCounts ==
  ASSUME UNCHANGED <<taskGeneration, generation>>,
         \A c \in Commands : Running(c)' <=> Running(c)
  PROVE  Counted' = Counted
  BY DEF Counted, IsCurrent

\* resetAllLanes leaves every earlier task in an older generation.
LEMMA ResetStale ==
  ASSUME TypeOK, IdsWell, ResetAllLanes, NEW c \in Commands
  PROVE  ~IsCurrent(c)'
  <1>1. /\ LaneOf[c] \in Lanes /\ generation[LaneOf[c]] \in Nat
        /\ taskGeneration[c] \in Nat /\ taskGeneration[c] <= generation[LaneOf[c]]
    BY CommandQueueAssumption DEF TypeOK, IdsWell
  <1>2. generation'[LaneOf[c]] = generation[LaneOf[c]] + 1 /\ taskGeneration' = taskGeneration
    BY <1>1 DEF ResetAllLanes, taskVars
  <1> QED
    BY <1>1, <1>2 DEF IsCurrent

\* After it nobody has a slot.
LEMMA ResetCounts ==
  ASSUME TypeOK, IdsWell, ResetAllLanes
  PROVE  Counted' = [l \in Lanes |-> {}]
  BY ResetStale DEF Counted

\* What ActiveAreRunning says, with the set of commands by its name.
LEMMA ActiveCounted ==
  ActiveAreRunning <=> \A l \in Lanes : activeTaskIds[l] = {taskId[c] : c \in Counted[l]}
  BY DEF ActiveAreRunning, Counted

\* Finishing a task takes away its id and no other's.
LEMMA FinishActive ==
  ASSUME TypeOK, IdsWell, ActiveAreRunning,
         NEW c \in Commands, Running(c), NEW o \in {"resolved", "rejected"},
         status' = [status EXCEPT ![c] = o], completeTask(c),
         UNCHANGED <<taskId, taskGeneration, generation>>
  PROVE  ActiveAreRunning' /\ \A l \in Lanes : activeTaskIds'[l] \subseteq activeTaskIds[l]
  <1>1. LaneOf[c] \in Lanes
    BY CommandQueueAssumption
  <1>2. \A l \in Lanes : activeTaskIds[l] = {taskId[d] : d \in Counted[l]}
    BY ActiveCounted
  <1>3. \A l \in Lanes : /\ Counted[l] \subseteq Commands
                         /\ \A d \in Counted[l] : Running(d)
                         /\ Counted'[l] = IF l = LaneOf[c] THEN Counted[l] \ {c}
                                          ELSE Counted[l]
    <2>1. Counted' = [Counted EXCEPT ![LaneOf[c]] = @ \ {c}]
      BY FinishCounts
    <2> QED
      BY <1>1, <2>1 DEF Counted
  <1>4. CASE IsCurrent(c)
    <2>1. activeTaskIds' = [activeTaskIds EXCEPT ![LaneOf[c]] = @ \ {taskId[c]}]
      BY <1>4 DEF completeTask
    <2>2. ASSUME NEW l \in Lanes
          PROVE  /\ activeTaskIds'[l] = {taskId[d] : d \in Counted'[l]}
                 /\ activeTaskIds'[l] \subseteq activeTaskIds[l]
      <3>1. CASE l = LaneOf[c]
        <4>1. activeTaskIds'[l] = activeTaskIds[l] \ {taskId[c]}
          BY <1>1, <2>1, <3>1 DEF TypeOK
        <4>2. \A d \in Counted[l] : taskId[d] = taskId[c] => d = c
          BY <1>3 DEF IdsWell
        <4>3. {taskId[d] : d \in Counted[l]} \ {taskId[c]} =
                {taskId[d] : d \in Counted[l] \ {c}}
          BY <4>2
        <4>4. Counted'[l] = Counted[l] \ {c}
          BY <1>3, <3>1
        <4> QED
          BY <1>2, <4>1, <4>3, <4>4
      <3>2. CASE l # LaneOf[c]
        BY <1>1, <1>2, <1>3, <2>1, <3>2 DEF TypeOK
      <3> QED
        BY <3>1, <3>2
    <2> QED
      BY <2>2, ActiveCounted DEF ActiveAreRunning, Counted
  <1>5. CASE ~IsCurrent(c)
    <2>1. activeTaskIds' = activeTaskIds
      BY <1>5 DEF completeTask
    <2>2. \A l \in Lanes : c \notin Counted[l]
      BY <1>5 DEF Counted
    <2>3. \A l \in Lanes : Counted'[l] = Counted[l]
      BY <1>3, <2>2
    <2> QED
      BY <1>2, <2>1, <2>3 DEF ActiveAreRunning, Counted
  <1> QED
    BY <1>4, <1>5

\* Every step keeps the active ids those of the tasks that use a slot.
LEMMA ActiveStep ==
  ASSUME TypeOK, QueuedWell, StackWell, IdsWell, ActiveAreRunning, [Next]_vars
  PROVE  ActiveAreRunning'
  <1>1. ASSUME PumpStart PROVE ActiveAreRunning'
    <2> DEFINE l == Top.lane
               c == Head(queue[l])
    <2>1. l \in Lanes /\ c \in Commands /\ LaneOf[c] = l /\ status[c] = "queued"
      BY <1>1, StartedEntry
    <2>2. /\ Counted' = [Counted EXCEPT ![l] = @ \cup {c}]
          /\ activeTaskIds' = [activeTaskIds EXCEPT ![l] = @ \cup {nextTaskId}]
          /\ taskId' = [taskId EXCEPT ![c] = nextTaskId]
      BY <1>1, StartCounts DEF PumpStart
    <2> HIDE DEF l, c
    <2> SUFFICES ASSUME NEW k \in Lanes
                 PROVE  activeTaskIds'[k] = {taskId'[d] : d \in Counted'[k]}
      BY DEF ActiveAreRunning, Counted
    <2>3. activeTaskIds[k] = {taskId[d] : d \in Counted[k]}
      BY ActiveCounted
    <2>4. \A d \in Counted[k] : d \in Commands /\ d # c
      BY <2>1 DEF Counted, Running
    <2>5. \A d \in Counted[k] : taskId'[d] = taskId[d]
      BY <2>2, <2>4 DEF TypeOK
    <2>6. taskId'[c] = nextTaskId
      BY <2>1, <2>2 DEF TypeOK
    <2>7. CASE k = l
      <3>1. /\ activeTaskIds'[k] = activeTaskIds[k] \cup {nextTaskId}
            /\ Counted'[k] = Counted[k] \cup {c}
        BY <2>1, <2>2, <2>7 DEF TypeOK, Counted
      <3> QED
        BY <2>3, <2>5, <2>6, <3>1
    <2>8. CASE k # l
      <3>1. activeTaskIds'[k] = activeTaskIds[k] /\ Counted'[k] = Counted[k]
        BY <2>1, <2>2, <2>8 DEF TypeOK, Counted
      <3> QED
        BY <2>3, <2>5, <3>1
    <2> QED
      BY <2>7, <2>8
  <1>2. ASSUME TaskThrow PROVE ActiveAreRunning'
    <2> DEFINE c == Top.task
    <2>1. c \in Commands /\ Running(c)
      BY <1>2, TopTask DEF TaskThrow, InTask, Running
    <2>2. /\ completeTask(c) /\ status' = [status EXCEPT ![c] = "rejected"]
          /\ UNCHANGED <<taskId, taskGeneration, generation>>
      BY <1>2 DEF TaskThrow, FinishTask
    <2> QED
      BY <2>1, <2>2, FinishActive
  <1>3. ASSUME NEW c \in Commands, NEW o \in {"resolved", "rejected"}, TaskSettle(c, o)
        PROVE  ActiveAreRunning'
    BY <1>3, FinishActive DEF TaskSettle, FinishTask, Running
  <1>4. ASSUME ResetAllLanes PROVE ActiveAreRunning'
    <2>1. Counted' = [l \in Lanes |-> {}] /\ activeTaskIds' = [l \in Lanes |-> {}]
      BY <1>4, ResetCounts DEF ResetAllLanes
    <2> QED
      BY <2>1 DEF ActiveAreRunning, Counted
  <1>5. ASSUME UNCHANGED <<activeTaskIds, taskId, taskGeneration, generation>>,
               \A c \in Commands : status'[c] = "running" <=> status[c] = "running"
        PROVE  ActiveAreRunning'
    <2>1. Counted' = Counted
      BY <1>5, SameCounts DEF Running
    <2> QED
      BY <1>5, <2>1 DEF ActiveAreRunning, Counted
  <1>6. ASSUME NEW c \in Commands, Enqueue(c) PROVE ActiveAreRunning'
    <2>1. \A d \in Commands : status'[d] = "running" <=> status[d] = "running"
      BY <1>6 DEF Enqueue, TypeOK
    <2> QED
      BY <1>5, <1>6, <2>1 DEF Enqueue
  <1>7. ASSUME NEW l \in Lanes, ClearCommandLane(l) PROVE ActiveAreRunning'
    <2>1. \A i \in DOMAIN queue[l] : status[queue[l][i]] = "queued"
      BY DEF QueuedWell, TypeOK
    <2>2. \A d \in Commands : status'[d] = "running" <=> status[d] = "running"
      BY <1>7, <2>1 DEF ClearCommandLane
    <2> QED
      BY <1>5, <1>7, <2>2 DEF ClearCommandLane
  <1>8. CASE UNCHANGED <<activeTaskIds, generation, taskVars>>
    BY <1>5, <1>8 DEF taskVars
  <1> QED
    BY <1>1, <1>2, <1>3, <1>4, <1>6, <1>7, <1>8
       DEF Next, Synchronous, Completion, PumpEnd, TaskYield, ResetDrain, ResetEnd,
           SetCommandLaneConcurrency, WaitForActiveTasks, WaiterTimeout,
           MarkGatewayDraining, vars, laneVars

-----------------------------------------------------------------------------
(* Ids and waiters.                                                        *)

\* An active id was handed out.
LEMMA ActiveOlder ==
  ASSUME TypeOK, IdsWell, ActiveAreRunning, NEW id \in ActiveIds(activeTaskIds)
  PROVE  id < nextTaskId
  <1>1. PICK l \in Lanes : id \in activeTaskIds[l]
    BY DEF ActiveIds
  <1>2. \E c \in Commands : id = taskId[c]
    BY <1>1 DEF ActiveAreRunning
  <1> QED
    BY <1>2 DEF IdsWell

\* A step hands out no id, starts no generation and no task, and adds to no
\* waiter an id of the future.
LEMMA SameIds ==
  ASSUME IdsWell, UNCHANGED <<taskId, nextTaskId, taskGeneration, generation>>,
         \A c \in Commands : Running(c)' => Running(c),
         \A w \in Waiters : \A id \in waiters'[w].ids : id < nextTaskId,
         \A l \in Lanes : activeTaskIds'[l] \subseteq activeTaskIds[l]
  PROVE  IdsWell'
  <1>1. \A l \in Lanes : IsFiniteSet(activeTaskIds'[l])
    BY FS_Subset DEF IdsWell
  <1> QED
    BY <1>1 DEF IdsWell, Running

\* Every step keeps the ids in order.
LEMMA IdsStep ==
  ASSUME TypeOK, QueuedWell, StackWell, IdsWell, ActiveAreRunning, [Next]_vars
  PROVE  IdsWell'
  <1>0. \A w \in Waiters : \A id \in waiters[w].ids : id < nextTaskId
    BY DEF IdsWell
  <1>1. ASSUME PumpStart PROVE IdsWell'
    <2> DEFINE l == Top.lane
               c == Head(queue[l])
    <2>1. l \in Lanes /\ c \in Commands /\ LaneOf[c] = l
      BY <1>1, StartedEntry
    <2>2. /\ activeTaskIds' = [activeTaskIds EXCEPT ![l] = @ \cup {nextTaskId}]
          /\ nextTaskId' = nextTaskId + 1
          /\ status' = [status EXCEPT ![c] = "running"]
          /\ taskId' = [taskId EXCEPT ![c] = nextTaskId]
          /\ taskGeneration' = [taskGeneration EXCEPT ![c] = generation[l]]
          /\ UNCHANGED <<generation, waiters>>
      BY <1>1 DEF PumpStart
    <2> HIDE DEF l, c
    <2>3. /\ taskId'[c] = nextTaskId /\ taskGeneration'[c] = generation[l]
          /\ \A d \in Commands : d # c =>
               /\ taskId'[d] = taskId[d] /\ taskGeneration'[d] = taskGeneration[d]
               /\ Running(d)' <=> Running(d)
      BY <2>1, <2>2 DEF TypeOK, Running
    <2>4. /\ nextTaskId \in Nat /\ \A d \in Commands : taskId[d] \in Nat
          /\ \A k \in Lanes : generation[k] \in Nat
          /\ \A w \in Waiters : \A id \in waiters[w].ids : id \in Nat
      BY DEF TypeOK
    <2>5. \A d \in Commands :
            taskId'[d] < nextTaskId' /\ taskGeneration'[d] <= generation'[LaneOf[d]]
      BY <2>1, <2>2, <2>3, <2>4 DEF IdsWell
    <2>6. \A d, e \in Commands :
            Running(d)' /\ Running(e)' /\ taskId'[d] = taskId'[e] => d = e
      BY <2>3, <2>4 DEF IdsWell
    <2>7. \A w \in Waiters : \A id \in waiters'[w].ids : id < nextTaskId'
      BY <1>0, <2>2, <2>4
    <2>8. \A k \in Lanes : IsFiniteSet(activeTaskIds'[k])
      BY <2>1, <2>2, FS_AddElement DEF IdsWell, TypeOK
    <2> QED
      BY <2>5, <2>6, <2>7, <2>8 DEF IdsWell
  <1>2. ASSUME NEW c \in Commands, Running(c), NEW stack, FinishTask(c, stack),
               NEW o \in {"resolved", "rejected"}, status' = [status EXCEPT ![c] = o],
               UNCHANGED <<taskId, nextTaskId, taskGeneration, generation>>
        PROVE  IdsWell'
    <2>1. \A l \in Lanes : activeTaskIds'[l] \subseteq activeTaskIds[l]
      BY <1>2, FinishActive DEF FinishTask
    <2>2. \A w \in Waiters : waiters'[w].ids = waiters[w].ids
      BY <1>2 DEF FinishTask, TypeOK, notifyActiveTaskWaiters
    <2>3. \A d \in Commands : Running(d)' => Running(d)
      BY <1>2 DEF TypeOK, Running
    <2> QED
      BY <1>0, <1>2, <2>1, <2>2, <2>3, SameIds
  <1>3. ASSUME TaskThrow PROVE IdsWell'
    BY <1>2, <1>3, TopTask DEF TaskThrow, InTask, Running
  <1>4. ASSUME NEW c \in Commands, Completion(c) PROVE IdsWell'
    BY <1>2, <1>4 DEF Completion, TaskSettle, Running
  <1>5. ASSUME ResetAllLanes PROVE IdsWell'
    <2>1. /\ UNCHANGED <<taskId, status, taskGeneration, nextTaskId, waiters>>
          /\ \A l \in Lanes : generation'[l] = generation[l] + 1 /\ activeTaskIds'[l] = {}
      BY <1>5 DEF ResetAllLanes, taskVars
    <2>2. \A c \in Commands :
            /\ LaneOf[c] \in Lanes /\ generation[LaneOf[c]] \in Nat
            /\ taskGeneration[c] \in Nat
      BY CommandQueueAssumption DEF TypeOK
    <2>3. \A c \in Commands : taskGeneration'[c] <= generation'[LaneOf[c]]
      BY <2>1, <2>2 DEF IdsWell
    <2> QED
      BY <2>1, <2>3, FS_EmptySet DEF IdsWell, Running
  <1>6. ASSUME UNCHANGED <<activeTaskIds, taskId, nextTaskId, taskGeneration, generation>>,
               \A c \in Commands : status'[c] = "running" => status[c] = "running",
               \A w \in Waiters : waiters'[w].ids \subseteq
                                    waiters[w].ids \cup ActiveIds(activeTaskIds)
        PROVE  IdsWell'
    BY <1>0, <1>6, ActiveOlder, SameIds DEF Running
  <1>7. ASSUME NEW c \in Commands, Enqueue(c) PROVE IdsWell'
    <2>1. \A d \in Commands : status'[d] = "running" => status[d] = "running"
      BY <1>7 DEF Enqueue, TypeOK
    <2> QED
      BY <1>6, <1>7, <2>1 DEF Enqueue
  <1>8. ASSUME NEW l \in Lanes, ClearCommandLane(l) PROVE IdsWell'
    BY <1>6, <1>8 DEF ClearCommandLane
  <1>9. ASSUME ResetEnd PROVE IdsWell'
    <2>1. \A w \in Waiters : waiters'[w].ids = waiters[w].ids
      BY <1>9 DEF ResetEnd, TypeOK, notifyActiveTaskWaiters
    <2> QED
      BY <1>6, <1>9, <2>1 DEF ResetEnd, laneVars, taskVars
  <1>10. ASSUME NEW w \in Waiters, NEW t \in BOOLEAN, WaitForActiveTasks(w, t)
         PROVE  IdsWell'
    <2>1. \A v \in Waiters : waiters'[v].ids \in {waiters[v].ids, ActiveIds(activeTaskIds)}
      BY <1>10 DEF WaitForActiveTasks, notifyActiveTaskWaiters, TypeOK
    <2> QED
      BY <1>6, <1>10, <2>1 DEF WaitForActiveTasks, laneVars, taskVars
  <1>11. ASSUME NEW w \in Waiters, WaiterTimeout(w) PROVE IdsWell'
    <2>1. \A v \in Waiters : waiters'[v].ids = waiters[v].ids
      BY <1>11 DEF WaiterTimeout, TypeOK
    <2> QED
      BY <1>6, <1>11, <2>1 DEF WaiterTimeout, laneVars, taskVars
  <1>12. CASE UNCHANGED <<activeTaskIds, generation, taskVars, nextTaskId, waiters>>
    BY <1>6, <1>12 DEF taskVars
  <1> QED
    BY <1>1, <1>3, <1>4, <1>5, <1>7, <1>8, <1>9, <1>10, <1>11, <1>12
       DEF Next, Synchronous, PumpEnd, TaskYield, ResetDrain,
           SetCommandLaneConcurrency, MarkGatewayDraining, vars, laneVars

\* Waking waiters by the active ids of the next state makes no false drained.
LEMMA NotifyDrained ==
  ASSUME TypeOK, DrainedMeansFinished, ActiveAreRunning',
         UNCHANGED <<taskId, taskGeneration, generation>>,
         \A c \in Commands : Running(c)' => Running(c),
         waiters' = notifyActiveTaskWaiters(waiters, activeTaskIds')
  PROVE  DrainedMeansFinished'
  <1> SUFFICES ASSUME NEW w \in Waiters, NEW c \in Commands,
                      waiters'[w].state = "drained", Running(c)',
                      taskId'[c] \in waiters'[w].ids, IsCurrent(c)'
               PROVE  FALSE
    BY DEF DrainedMeansFinished
  <1>1. LaneOf[c] \in Lanes
    BY CommandQueueAssumption
  <1>2. taskId'[c] \in activeTaskIds'[LaneOf[c]]
    BY <1>1 DEF ActiveAreRunning
  <1>3. taskId'[c] \in ActiveIds(activeTaskIds')
    BY <1>1, <1>2 DEF ActiveIds
  <1>4. /\ waiters'[w].ids = waiters[w].ids
        /\ \/ waiters[w].state = "drained"
           \/ waiters[w].ids \cap ActiveIds(activeTaskIds') = {}
    BY DEF notifyActiveTaskWaiters, TypeOK
  <1>5. waiters[w].state = "drained"
    BY <1>3, <1>4
  <1> QED
    BY <1>4, <1>5 DEF DrainedMeansFinished, IsCurrent

\* A step that starts no task and drains no waiter.
LEMMA SameDrained ==
  ASSUME DrainedMeansFinished, UNCHANGED <<taskId, taskGeneration, generation>>,
         \A c \in Commands : Running(c)' => Running(c),
         \A w \in Waiters : waiters'[w].state = "drained" => waiters'[w] = waiters[w]
  PROVE  DrainedMeansFinished'
  BY DEF DrainedMeansFinished, IsCurrent

\* Every step keeps the promise made to the waiters that were told drained.
LEMMA DrainedStep ==
  ASSUME TaskInv, [Next]_vars
  PROVE  DrainedMeansFinished'
  <1>0. /\ TypeOK /\ QueuedWell /\ StackWell /\ IdsWell /\ ActiveAreRunning
        /\ DrainedMeansFinished /\ ActiveAreRunning'
    BY ActiveStep DEF TaskInv
  <1>1. ASSUME PumpStart PROVE DrainedMeansFinished'
    <2> DEFINE l == Top.lane
               c == Head(queue[l])
    <2>1. l \in Lanes /\ c \in Commands
      BY <1>0, <1>1, StartedEntry
    <2>2. /\ status' = [status EXCEPT ![c] = "running"]
          /\ taskId' = [taskId EXCEPT ![c] = nextTaskId]
          /\ taskGeneration' = [taskGeneration EXCEPT ![c] = generation[l]]
          /\ UNCHANGED <<generation, waiters>>
      BY <1>1 DEF PumpStart
    <2> HIDE DEF l, c
    <2>3. \A w \in Waiters : nextTaskId \notin waiters[w].ids
      BY <1>0 DEF IdsWell, TypeOK
    <2>4. /\ taskId'[c] = nextTaskId
          /\ \A d \in Commands : d # c =>
               /\ taskId'[d] = taskId[d] /\ taskGeneration'[d] = taskGeneration[d]
               /\ status'[d] = status[d]
      BY <1>0, <2>1, <2>2 DEF TypeOK
    <2> QED
      BY <1>0, <2>2, <2>3, <2>4 DEF DrainedMeansFinished, Running, IsCurrent
  <1>2. ASSUME NEW c \in Commands, NEW stack, FinishTask(c, stack),
               NEW o \in {"resolved", "rejected"}, status' = [status EXCEPT ![c] = o],
               UNCHANGED <<taskId, taskGeneration, generation>>
        PROVE  DrainedMeansFinished'
    <2>1. \A d \in Commands : Running(d)' => Running(d)
      BY <1>0, <1>2 DEF TypeOK, Running
    <2>2. waiters' = waiters \/ waiters' = notifyActiveTaskWaiters(waiters, activeTaskIds')
      BY <1>2 DEF FinishTask
    <2> QED
      BY <1>0, <1>2, <2>1, <2>2, NotifyDrained, SameDrained
  <1>3. ASSUME TaskThrow PROVE DrainedMeansFinished'
    BY <1>0, <1>2, <1>3, TopTask DEF TaskThrow, InTask
  <1>4. ASSUME NEW c \in Commands, Completion(c) PROVE DrainedMeansFinished'
    BY <1>2, <1>4 DEF Completion, TaskSettle
  <1>5. ASSUME ResetAllLanes PROVE DrainedMeansFinished'
    BY <1>0, <1>5, ResetStale DEF DrainedMeansFinished
  <1>6. ASSUME UNCHANGED <<taskId, taskGeneration, generation>>,
               \A c \in Commands : status'[c] = "running" => status[c] = "running",
               waiters' = waiters
        PROVE  DrainedMeansFinished'
    BY <1>0, <1>6, SameDrained DEF Running
  <1>7. ASSUME NEW c \in Commands, Enqueue(c) PROVE DrainedMeansFinished'
    <2>1. \A d \in Commands : status'[d] = "running" => status[d] = "running"
      BY <1>0, <1>7 DEF Enqueue, TypeOK
    <2> QED
      BY <1>6, <1>7, <2>1 DEF Enqueue
  <1>8. ASSUME NEW l \in Lanes, ClearCommandLane(l) PROVE DrainedMeansFinished'
    BY <1>6, <1>8 DEF ClearCommandLane
  <1>9. ASSUME ResetEnd PROVE DrainedMeansFinished'
    BY <1>0, <1>9, NotifyDrained DEF ResetEnd, laneVars, taskVars, Running
  <1>10. ASSUME NEW w \in Waiters, NEW t \in BOOLEAN, WaitForActiveTasks(w, t)
         PROVE  DrainedMeansFinished'
    <2>1. \A v \in Waiters : waiters'[v].state = "drained" =>
            \/ waiters'[v].ids = {}
            \/ waiters'[v].ids = waiters[v].ids /\ waiters[v].state = "drained"
            \/ waiters'[v].ids \cap ActiveIds(activeTaskIds) = {}
      BY <1>0, <1>10 DEF WaitForActiveTasks, notifyActiveTaskWaiters, TypeOK
    <2>2. UNCHANGED <<activeTaskIds, taskId, taskGeneration, generation, status>>
      BY <1>10 DEF WaitForActiveTasks, laneVars, taskVars
    <2>3. \A c \in Commands :
            Running(c) /\ IsCurrent(c) => taskId[c] \in ActiveIds(activeTaskIds)
      BY <1>0, CommandQueueAssumption DEF ActiveAreRunning, ActiveIds
    <2> QED
      BY <1>0, <2>1, <2>2, <2>3 DEF DrainedMeansFinished, Running, IsCurrent
  <1>11. ASSUME NEW w \in Waiters, WaiterTimeout(w) PROVE DrainedMeansFinished'
    <2>1. \A v \in Waiters : waiters'[v].state = "drained" => waiters'[v] = waiters[v]
      BY <1>0, <1>11 DEF WaiterTimeout, TypeOK
    <2> QED
      BY <1>0, <1>11, <2>1, SameDrained DEF WaiterTimeout, laneVars, taskVars, Running
  <1>12. CASE UNCHANGED <<generation, taskVars, waiters>>
    BY <1>6, <1>12 DEF taskVars
  <1> QED
    BY <1>1, <1>3, <1>4, <1>5, <1>7, <1>8, <1>9, <1>10, <1>11, <1>12
       DEF Next, Synchronous, PumpEnd, TaskYield, ResetDrain,
           SetCommandLaneConcurrency, MarkGatewayDraining, vars, laneVars

\* Every step wakes the waiters whose tasks are all gone.
LEMMA WaiterStep ==
  ASSUME TypeOK, QueuedWell, StackWell, NoForgottenWaiter, [Next]_vars
  PROVE  NoForgottenWaiter'
  <1>1. ASSUME PumpStart PROVE NoForgottenWaiter'
    <2>1. \A l \in Lanes : activeTaskIds[l] \subseteq activeTaskIds'[l]
      BY <1>1, StartedEntry DEF PumpStart, TypeOK
    <2>2. ActiveIds(activeTaskIds) \subseteq ActiveIds(activeTaskIds')
      BY <2>1 DEF ActiveIds
    <2> QED
      BY <1>1, <2>2 DEF PumpStart, NoForgottenWaiter
  <1>2. ASSUME resetting' \/ waiters' = notifyActiveTaskWaiters(waiters, activeTaskIds')
        PROVE  NoForgottenWaiter'
    <2>1. CASE resetting'
      BY <2>1 DEF NoForgottenWaiter
    <2>2. CASE waiters' = notifyActiveTaskWaiters(waiters, activeTaskIds')
      <3>1. \A w \in Waiters : waiters'[w].state = "waiting" =>
              waiters'[w].ids \cap ActiveIds(activeTaskIds') # {}
        BY <2>2 DEF notifyActiveTaskWaiters, TypeOK
      <3> QED
        BY <3>1 DEF NoForgottenWaiter
    <2> QED
      BY <1>2, <2>1, <2>2
  <1>3. ASSUME UNCHANGED <<activeTaskIds, waiters, resetting>> PROVE NoForgottenWaiter'
    BY <1>3 DEF NoForgottenWaiter
  <1>4. ASSUME NEW c, NEW stack, FinishTask(c, stack), resetting' = resetting
        PROVE  NoForgottenWaiter'
    BY <1>2, <1>3, <1>4 DEF FinishTask, completeTask
  <1>5. ASSUME NEW w \in Waiters, NEW t \in BOOLEAN, WaitForActiveTasks(w, t)
        PROVE  NoForgottenWaiter'
    <2>1. UNCHANGED <<activeTaskIds, resetting>>
      BY <1>5 DEF WaitForActiveTasks, laneVars
    <2>2. \A v \in Waiters : waiters'[v].state = "waiting" =>
            \/ waiters'[v].ids \cap ActiveIds(activeTaskIds) # {}
            \/ waiters'[v] = waiters[v]
      BY <1>5 DEF WaitForActiveTasks, notifyActiveTaskWaiters, TypeOK
    <2> QED
      BY <2>1, <2>2 DEF NoForgottenWaiter
  <1>6. ASSUME NEW w \in Waiters, WaiterTimeout(w) PROVE NoForgottenWaiter'
    BY <1>6 DEF WaiterTimeout, laneVars, NoForgottenWaiter, TypeOK
  <1> QED
    BY <1>1, <1>2, <1>3, <1>4, <1>5, <1>6
       DEF Next, Synchronous, Completion, Enqueue, PumpEnd, TaskYield, TaskThrow, TaskSettle,
           ClearCommandLane, ResetAllLanes, ResetDrain, ResetEnd,
           SetCommandLaneConcurrency, MarkGatewayDraining, vars, laneVars

-----------------------------------------------------------------------------
(* The theorems.                                                           *)

\* The invariant holds at first.
LEMMA InitTasks == Init => TaskInv /\ NoForgottenWaiter
  <1> SUFFICES ASSUME Init PROVE TaskInv /\ NoForgottenWaiter
    OBVIOUS
  <1>1. TypeOK
    BY InitType
  <1>2. QueuedWell /\ StackWell
    BY DEF Init, QueuedWell, StackWell, RunningOn
  <1>3. IdsWell
    BY FS_EmptySet, CommandQueueAssumption DEF Init, IdsWell, Running
  <1>4. ActiveAreRunning /\ DrainedMeansFinished /\ NoForgottenWaiter
    BY DEF Init, ActiveAreRunning, DrainedMeansFinished, NoForgottenWaiter, Running
  <1> QED
    BY <1>1, <1>2, <1>3, <1>4 DEF TaskInv

\* Every step keeps it.
LEMMA TaskStep == TaskInv /\ [Next]_vars => TaskInv'
  BY TypeStep, QueuedStep, StackStep, IdsStep, ActiveStep, DrainedStep DEF TaskInv

\* Every behaviour keeps it.
LEMMA TaskInvariance == Spec => [](TaskInv /\ NoForgottenWaiter)
  <1>1. TaskInv /\ NoForgottenWaiter /\ [Next]_vars => TaskInv' /\ NoForgottenWaiter'
    BY TaskStep, WaiterStep DEF TaskInv
  <1> QED
    BY InitTasks, <1>1, PTL DEF Spec

\* activeTaskIds holds the ids of exactly the tasks that were started in the
\* current generation and have not finished: the count against the limit is right.
THEOREM ActiveIsRight == Spec => []ActiveAreRunning
  BY TaskInvariance, PTL DEF TaskInv

\* A waiter is told that its tasks are drained only when all have finished or were
\* discarded by a reset, for good.
THEOREM DrainedIsTrue == Spec => []DrainedMeansFinished
  BY TaskInvariance, PTL DEF TaskInv

\* Outside a reset no waiter is left waiting for tasks that are all gone.
THEOREM NoneForgotten == Spec => []NoForgottenWaiter
  BY TaskInvariance, PTL DEF TaskInv

-----------------------------------------------------------------------------
(* Lanes without a configured limit.                                       *)

\* A session lane keeps the limit 1 it is created with.
SessionLimit == \A l \in Lanes \ ConfiguredLanes : maxConcurrent[l] = 1

\* Two commands started in one generation of a session lane never run together,
\* also after later resets have made the queue forget them.
SessionLaneSerial ==
  \A c, d \in Commands :
    /\ Running(c) /\ Running(d)
    /\ LaneOf[c] = LaneOf[d] /\ LaneOf[c] \notin ConfiguredLanes
    /\ taskGeneration[c] = taskGeneration[d]
    => c = d

SerialInv == SessionLimit /\ SessionLaneSerial

\* Nothing of the lane's current generation runs when a slot of a session lane is
\* free.
LEMMA FreeSlot ==
  ASSUME TaskInv, SessionLimit,
         NEW l \in Lanes \ ConfiguredLanes, HasRoom(l),
         NEW c \in Commands, Running(c), LaneOf[c] = l
  PROVE  taskGeneration[c] # generation[l]
  <1>1. IsFiniteSet(activeTaskIds[l]) /\ Cardinality(activeTaskIds[l]) < 1
    BY DEF TaskInv, IdsWell, SessionLimit, HasRoom
  <1>2. activeTaskIds[l] = {}
    BY <1>1, FS_CardinalityType, FS_EmptySet
  <1> SUFFICES ASSUME taskGeneration[c] = generation[l]
               PROVE  FALSE
    OBVIOUS
  <1>3. taskId[c] \in activeTaskIds[l]
    BY DEF TaskInv, ActiveAreRunning, IsCurrent
  <1> QED
    BY <1>2, <1>3

LEMMA SerialStep == TaskInv /\ SerialInv /\ [Next]_vars => SerialInv'
  <1> SUFFICES ASSUME TaskInv, SerialInv, [Next]_vars
               PROVE  SerialInv'
    OBVIOUS
  <1>1. SessionLimit'
    <2>1. ASSUME NEW l \in ConfiguredLanes, NEW n \in ConcurrencyInputs,
                 SetCommandLaneConcurrency(l, n)
          PROVE  SessionLimit'
      BY <2>1 DEF SetCommandLaneConcurrency, SerialInv, SessionLimit, TaskInv, TypeOK
    <2>2. CASE UNCHANGED maxConcurrent
      BY <2>2 DEF SerialInv, SessionLimit
    <2> QED
      BY <2>1, <2>2
         DEF Next, Synchronous, Completion, PumpStart, PumpEnd, TaskYield, TaskThrow,
             ResetDrain, ResetEnd, Enqueue, TaskSettle, ClearCommandLane,
             WaitForActiveTasks, WaiterTimeout, MarkGatewayDraining, ResetAllLanes,
             vars, laneVars
  <1>2. SessionLaneSerial'
    <2>1. ASSUME UNCHANGED taskGeneration,
                 \A c \in Commands : status'[c] = "running" => status[c] = "running"
          PROVE  SessionLaneSerial'
      BY <2>1 DEF SerialInv, SessionLaneSerial, Running
    <2>2. CASE PumpStart
      <3> DEFINE l == Top.lane
                 c == Head(queue[l])
      <3>1. l \in Lanes /\ c \in Commands /\ LaneOf[c] = l /\ status[c] = "queued"
        BY <2>2, StartedEntry DEF TaskInv
      <3>2. /\ HasRoom(l)
            /\ status' = [status EXCEPT ![c] = "running"]
            /\ taskGeneration' = [taskGeneration EXCEPT ![c] = generation[l]]
        BY <2>2 DEF PumpStart
      <3> HIDE DEF l, c
      <3>3. \A d \in Commands \ {c} : /\ Running(d)' <=> Running(d)
                                      /\ taskGeneration'[d] = taskGeneration[d]
        BY <3>2 DEF Running, TaskInv, TypeOK
      <3>4. taskGeneration'[c] = generation[l]
        BY <3>1, <3>2 DEF TaskInv, TypeOK
      <3>5. \A d \in Commands \ {c} :
              Running(d) /\ LaneOf[d] = l /\ l \notin ConfiguredLanes
              => taskGeneration[d] # generation[l]
        BY <3>1, <3>2, FreeSlot DEF SerialInv
      <3> QED
        BY <3>1, <3>3, <3>4, <3>5 DEF SerialInv, SessionLaneSerial
    <2>3. ASSUME NEW c \in Commands, Enqueue(c)
          PROVE  SessionLaneSerial'
      BY <2>1, <2>3 DEF Enqueue, TaskInv, TypeOK
    <2>4. ASSUME NEW c \in Commands, Completion(c)
          PROVE  SessionLaneSerial'
      BY <2>1, <2>4 DEF Completion, TaskSettle, TaskInv, TypeOK, Settled
    <2>5. ASSUME TaskThrow
          PROVE  SessionLaneSerial'
      BY <2>1, <2>5 DEF TaskThrow, TaskInv, TypeOK
    <2>6. ASSUME NEW l \in Lanes, ClearCommandLane(l)
          PROVE  SessionLaneSerial'
      BY <2>1, <2>6 DEF ClearCommandLane
    <2>7. CASE UNCHANGED taskVars
      BY <2>1, <2>7 DEF taskVars
    <2> QED
      BY <2>2, <2>3, <2>4, <2>5, <2>6, <2>7
         DEF Next, Synchronous, PumpEnd, TaskYield, ResetDrain, ResetEnd,
             SetCommandLaneConcurrency, WaitForActiveTasks, WaiterTimeout,
             MarkGatewayDraining, ResetAllLanes, vars
  <1> QED
    BY <1>1, <1>2 DEF SerialInv

LEMMA InitSerial == Init => SerialInv
  BY DEF Init, SerialInv, SessionLimit, SessionLaneSerial, Running

\* The tasks of a session lane run one at a time, except that a task may outlive
\* the generation it was started in (resetAllLanes).
THEOREM SessionLanesAreSerial == Spec => []SessionLaneSerial
  <1>1. SerialInv => SessionLaneSerial
    BY DEF SerialInv
  <1> QED
    BY <1>1, InitSerial, SerialStep, TaskInvariance, PTL DEF Spec

-----------------------------------------------------------------------------
(* The refinement.                                                         *)

\* A lane has as many active ids as commands that use a slot.
LEMMA SlotsCounted ==
  ASSUME TaskInv, NEW l \in Lanes
  PROVE  Cardinality(Counted[l]) = Cardinality(activeTaskIds[l])
  <1> DEFINE id == [c \in Counted[l] |-> taskId[c]]
  <1>1. activeTaskIds[l] = {taskId[c] : c \in Counted[l]}
    BY ActiveCounted DEF TaskInv
  <1>2. \A c, d \in Counted[l] : taskId[c] = taskId[d] => c = d
    BY DEF TaskInv, IdsWell, Counted
  <1>3. /\ id \in [Counted[l] -> activeTaskIds[l]]
        /\ \A c, d \in Counted[l] : id[c] = id[d] => c = d
        /\ \A i \in activeTaskIds[l] : \E c \in Counted[l] : id[c] = i
    BY <1>1, <1>2
  <1>4. IsFiniteSet(activeTaskIds[l])
    BY DEF TaskInv, IdsWell
  <1> HIDE DEF id
  <1>5. /\ id \in Injection(Counted[l], activeTaskIds[l])
        /\ id \in Surjection(Counted[l], activeTaskIds[l])
    BY <1>3 DEF Injection, Surjection, IsInjective
  <1> QED
    BY <1>4, <1>5, FS_Injection

\* LaneScheduler counts with the same Cardinality.
LEMMA SameCardinality ==
  ASSUME NEW S
  PROVE  Abstract!Cardinality(S) = Cardinality(S)
  BY DEF Cardinality, Abstract!Cardinality, IsFiniteSet, Abstract!IsFiniteSet

\* What happens to a running command that ends.
LEMMA EndRefines ==
  ASSUME TypeOK, NEW c \in Commands, status[c] = "running",
         NEW o \in {"resolved", "rejected"}, status' = [status EXCEPT ![c] = o],
         UNCHANGED <<queue, maxConcurrent, gatewayDraining, taskGeneration, generation>>
  PROVE  Abstract!End(c)
  BY FinishCounts DEF Abstract!End

\* Every step is a step of the abstract scheduler, or none.
LEMMA StepRefines ==
  ASSUME TaskInv, [Next]_vars
  PROVE  [Abstract!Next]_(Abstract!vars)
  <1>0. TypeOK /\ QueuedWell /\ StackWell /\ IdsWell
    BY DEF TaskInv
  <1>1. ASSUME NEW c \in Commands, Enqueue(c) PROVE Abstract!Accept(c) \/ Abstract!Refuse(c)
    <2>1. status[c] = "none" /\ \A d \in Commands : Running(d)' <=> Running(d)
      BY <1>0, <1>1 DEF Enqueue, Running, TypeOK
    <2>2. Counted' = Counted
      BY <1>1, <2>1, SameCounts DEF Enqueue
    <2>3. CASE gatewayDraining
      BY <1>1, <2>1, <2>2, <2>3 DEF Enqueue, Abstract!Refuse
    <2>4. CASE ~gatewayDraining
      BY <1>1, <2>1, <2>2, <2>4 DEF Enqueue, Abstract!Accept
    <2> QED
      BY <2>3, <2>4
  <1>2. ASSUME PumpStart PROVE Abstract!Start(Top.lane)
    <2> DEFINE l == Top.lane
    <2>1. l \in Lanes /\ queue[l] # <<>>
      BY <1>0, <1>2, TopTask DEF PumpStart, InPump
    <2>2. Cardinality(Counted[l]) < maxConcurrent[l]
      BY <1>2, <2>1, SlotsCounted DEF PumpStart, HasRoom
    <2>3. Counted' = [Counted EXCEPT ![l] = @ \cup {Head(queue[l])}]
      BY <1>0, <1>2, StartCounts
    <2>4. /\ queue' = [queue EXCEPT ![l] = Tail(@)]
          /\ status' = [status EXCEPT ![Head(queue[l])] = "running"]
          /\ UNCHANGED <<maxConcurrent, gatewayDraining>>
      BY <1>2 DEF PumpStart
    <2> HIDE DEF l
    <2>5. Abstract!Start(l)
      BY <2>1, <2>2, <2>3, <2>4, SameCardinality DEF Abstract!Start
    <2> QED
      BY <2>5 DEF l
  <1>3. ASSUME TaskThrow PROVE Abstract!End(Top.task)
    <2>1. Top.task \in Commands /\ status[Top.task] = "running"
      BY <1>0, <1>3, TopTask DEF TaskThrow, InTask
    <2> QED
      BY <1>0, <1>3, <2>1, EndRefines DEF TaskThrow
  <1>4. ASSUME NEW c \in Commands, Completion(c) PROVE Abstract!End(c)
    BY <1>0, <1>4, EndRefines DEF Completion, TaskSettle
  <1>5. ASSUME NEW l \in Lanes, ClearCommandLane(l) PROVE Abstract!Clear(l)
    <2>1. \A i \in DOMAIN queue[l] : status[queue[l][i]] = "queued"
      <3>1. queue[l] \in Seq(Commands)
        BY <1>0 DEF TypeOK
      <3> QED
        BY <1>0, <3>1 DEF QueuedWell
    <2>2. \A d \in Commands : Running(d)' <=> Running(d)
      BY <1>5, <2>1 DEF ClearCommandLane, Running
    <2>3. Counted' = Counted
      BY <1>5, <2>2, SameCounts DEF ClearCommandLane
    <2> QED
      BY <1>5, <2>3 DEF ClearCommandLane, Abstract!Clear
  <1>6. ASSUME NEW l \in ConfiguredLanes, NEW n \in ConcurrencyInputs,
               SetCommandLaneConcurrency(l, n)
        PROVE  l \in Lanes /\ Abstract!SetLimit(l)
    <2>1. l \in Lanes /\ n \in Nat
      BY CommandQueueAssumption
    <2>2. /\ maxConcurrent' = [maxConcurrent EXCEPT ![l] = IF n < 1 THEN 1 ELSE n]
          /\ UNCHANGED <<queue, generation, taskVars, gatewayDraining>>
      BY <1>6 DEF SetCommandLaneConcurrency
    <2>3. /\ maxConcurrent'[l] = IF n < 1 THEN 1 ELSE n
          /\ maxConcurrent'[l] \in Nat \ {0}
      BY <1>0, <2>1, <2>2 DEF TypeOK
    <2>4. Counted' = Counted
      BY <2>2, SameCounts DEF taskVars, Running
    <2> QED
      BY <2>1, <2>2, <2>3, <2>4 DEF Abstract!SetLimit, taskVars
  <1>7. ASSUME MarkGatewayDraining PROVE Abstract!Close
    <2>1. Counted' = Counted
      BY <1>7, SameCounts DEF MarkGatewayDraining, laneVars, taskVars, Running
    <2> QED
      BY <1>7, <2>1 DEF MarkGatewayDraining, laneVars, taskVars, Abstract!Close
  <1>8. ASSUME ResetAllLanes PROVE Abstract!Restart
    <2>1. Counted' = [l \in Lanes |-> {}]
      BY <1>0, <1>8, ResetCounts
    <2> QED
      BY <1>8, <2>1 DEF ResetAllLanes, taskVars, Abstract!Restart
  <1>9. ASSUME UNCHANGED <<queue, maxConcurrent, generation, taskVars, gatewayDraining>>
        PROVE  UNCHANGED Abstract!vars
    <2>1. Counted' = Counted
      BY <1>9, SameCounts DEF taskVars, Running
    <2> QED
      BY <1>9, <2>1 DEF taskVars, Abstract!vars
  <1>10. Top.lane \in Lanes \/ ~PumpStart
    BY <1>0, TopTask DEF PumpStart, InPump
  <1>11. Top.task \in Commands \/ ~TaskThrow
    BY <1>0, TopTask DEF TaskThrow, InTask
  <1> QED
    BY <1>1, <1>2, <1>3, <1>4, <1>5, <1>6, <1>7, <1>8, <1>9, <1>10, <1>11
       DEF Next, Synchronous, PumpEnd, TaskYield, ResetDrain, ResetEnd,
           WaitForActiveTasks, WaiterTimeout, vars, laneVars, Abstract!Next

\* The command queue implements the abstract scheduler: for any lanes, commands,
\* limits and resets, commands start in the order in which they were accepted,
\* within the limit of their lane, and each ends once.
THEOREM Implements == Spec => ImplementsLaneScheduler
  <1>1. Init => Abstract!Init
    BY DEF Init, Abstract!Init, Counted, Running
  <1>2. TaskInv /\ [Next]_vars => [Abstract!Next]_(Abstract!vars)
    BY StepRefines
  <1> QED
    BY <1>1, <1>2, TaskInvariance, PTL DEF Spec, ImplementsLaneScheduler, Abstract!Spec
=============================================================================
