------------------------ MODULE FollowupQueueProofs ------------------------
(***************************************************************************)
(* Theorems about the followup queue, for any messages, routes, modes, drop*)
(* policy and cap, with clears or without:                                 *)
(*                                                                         *)
(*   TypeCorrect     the state is well typed;                              *)
(*   NeverTwice      a message is run to its end at most once;             *)
(*   ClearedForGood  a message that was cleared is not run afterwards;     *)
(*   FirstComeFirst  with neither drops of queued messages nor clears,     *)
(*                   messages are handled in the order they came.          *)
(***************************************************************************)
EXTENDS FollowupQueue, SequenceTheorems, TLAPS

-----------------------------------------------------------------------------
(* Sequences of messages.                                                  *)

Injective(s) == \A i, j \in 1..Len(s) : s[i] = s[j] => i = j

\* The items that remain when the first n are taken.
LEMMA DropFacts ==
  ASSUME NEW S, NEW s \in Seq(S), NEW n \in Nat, n <= Len(s)
  PROVE  /\ Drop(s, n) \in Seq(S)
         /\ Len(Drop(s, n)) = Len(s) - n
         /\ \A i \in 1..Len(Drop(s, n)) : i + n \in 1..Len(s) /\ Drop(s, n)[i] = s[i + n]
         /\ Elements(Drop(s, n)) \subseteq Elements(s)
         /\ Injective(s) => Injective(Drop(s, n))
  <1>1. /\ Drop(s, n) \in Seq(S)
        /\ Len(Drop(s, n)) = Len(s) - n
        /\ \A i \in 1..(Len(s) - n) : Drop(s, n)[i] = s[i + n]
    BY DEF Drop
  <1>2. \A i \in 1..(Len(s) - n) : i + n \in 1..Len(s)
    OBVIOUS
  <1>3. Elements(Drop(s, n)) \subseteq Elements(s)
    BY <1>1, <1>2 DEF Elements
  <1>4. Injective(s) => Injective(Drop(s, n))
    BY <1>1, <1>2 DEF Injective
  <1> QED
    BY <1>1, <1>2, <1>3, <1>4

\* The items taken.
LEMMA TakeFacts ==
  ASSUME NEW S, NEW s \in Seq(S), NEW n \in Nat, n <= Len(s)
  PROVE  /\ SubSeq(s, 1, n) \in Seq(S)
         /\ Len(SubSeq(s, 1, n)) = n
         /\ \A i \in 1..n : i \in 1..Len(s) /\ SubSeq(s, 1, n)[i] = s[i]
         /\ Elements(SubSeq(s, 1, n)) \subseteq Elements(s)
  BY DEF Elements

\* A message pushed.
LEMMA AppendFacts ==
  ASSUME NEW S, NEW s \in Seq(S), NEW x \in S
  PROVE  /\ Append(s, x) \in Seq(S)
         /\ Elements(Append(s, x)) = Elements(s) \cup {x}
         /\ \A i \in 1..Len(Append(s, x)) :
              Append(s, x)[i] = IF i <= Len(s) THEN s[i] ELSE x
         /\ Injective(s) /\ x \notin Elements(s) => Injective(Append(s, x))
  <1>1. /\ Append(s, x) \in Seq(S)
        /\ Len(Append(s, x)) = Len(s) + 1
        /\ \A i \in 1..(Len(s) + 1) : Append(s, x)[i] = IF i <= Len(s) THEN s[i] ELSE x
    OBVIOUS
  <1>2. Elements(Append(s, x)) = Elements(s) \cup {x}
    BY <1>1 DEF Elements
  <1>3. Injective(s) /\ x \notin Elements(s) => Injective(Append(s, x))
    BY <1>1 DEF Injective, Elements
  <1> QED
    BY <1>1, <1>2, <1>3

\* A batch put behind what was handled before.
LEMMA ConcatFacts ==
  ASSUME NEW S, NEW s \in Seq(S), NEW t \in Seq(S)
  PROVE  /\ s \o t \in Seq(S)
         /\ Elements(s \o t) = Elements(s) \cup Elements(t)
         /\ Injective(s) /\ Injective(t) /\ Elements(s) \cap Elements(t) = {}
              => Injective(s \o t)
  <1>1. /\ s \o t \in Seq(S)
        /\ Len(s \o t) = Len(s) + Len(t)
        /\ \A i \in 1..(Len(s) + Len(t)) :
             (s \o t)[i] = IF i <= Len(s) THEN s[i] ELSE t[i - Len(s)]
    OBVIOUS
  <1>2. Elements(s \o t) = Elements(s) \cup Elements(t)
    <2>1. Elements(s \o t) \subseteq Elements(s) \cup Elements(t)
      BY <1>1 DEF Elements
    <2>2. ASSUME NEW i \in 1..Len(s)  PROVE s[i] \in Elements(s \o t)
      BY <1>1 DEF Elements
    <2>3. ASSUME NEW i \in 1..Len(t)  PROVE t[i] \in Elements(s \o t)
      <3>1. i + Len(s) \in 1..(Len(s) + Len(t)) /\ (s \o t)[i + Len(s)] = t[i]
        BY <1>1
      <3> QED
        BY <1>1, <3>1 DEF Elements
    <2> QED
      BY <2>1, <2>2, <2>3 DEF Elements
  <1>3. ASSUME Injective(s), Injective(t), Elements(s) \cap Elements(t) = {}
        PROVE  Injective(s \o t)
    <2> SUFFICES ASSUME NEW i \in 1..(Len(s) + Len(t)), NEW j \in 1..(Len(s) + Len(t)),
                        (s \o t)[i] = (s \o t)[j]
                 PROVE  i = j
      BY <1>1 DEF Injective
    <2>1. CASE i <= Len(s) /\ j <= Len(s)
      BY <1>1, <1>3, <2>1 DEF Injective
    <2>2. CASE i > Len(s) /\ j > Len(s)
      <3>1. t[i - Len(s)] = t[j - Len(s)]
        BY <1>1, <2>2
      <3>2. i - Len(s) \in 1..Len(t) /\ j - Len(s) \in 1..Len(t)
        BY <2>2
      <3> QED
        BY <1>3, <3>1, <3>2 DEF Injective
    <2>3. ASSUME NEW k \in 1..(Len(s) + Len(t))
          PROVE  IF k <= Len(s) THEN (s \o t)[k] \in Elements(s)
                                ELSE (s \o t)[k] \in Elements(t)
      <3>1. CASE k <= Len(s)
        BY <1>1, <3>1 DEF Elements
      <3>2. CASE k > Len(s)
        <4>1. k - Len(s) \in 1..Len(t) /\ (s \o t)[k] = t[k - Len(s)]
          BY <1>1, <3>2
        <4> QED
          BY <3>2, <4>1 DEF Elements
      <3> QED
        BY <3>1, <3>2
    <2>4. CASE i <= Len(s) /\ j > Len(s)
      BY <1>3, <2>3, <2>4
    <2>5. CASE i > Len(s) /\ j <= Len(s)
      BY <1>3, <2>3, <2>5
    <2> QED
      BY <2>1, <2>2, <2>4, <2>5
  <1> QED
    BY <1>1, <1>2, <1>3

\* Nothing, and the head of a queue.
LEMMA ShortFacts ==
  /\ Elements(<<>>) = {} /\ Injective(<<>>)
  /\ \A S : \A s \in Seq(S) :
       s # <<>> => /\ <<Head(s)>> \in Seq(S) /\ Elements(<<Head(s)>>) = {s[1]}
                   /\ s[1] \in Elements(s) /\ Injective(<<Head(s)>>)
  <1>1. Elements(<<>>) = {} /\ Injective(<<>>)
    BY DEF Elements, Injective
  <1>2. ASSUME NEW S, NEW s \in Seq(S), s # <<>>
        PROVE  /\ <<Head(s)>> \in Seq(S) /\ Elements(<<Head(s)>>) = {s[1]}
               /\ s[1] \in Elements(s) /\ Injective(<<Head(s)>>)
    <2>1. Head(s) = s[1] /\ Len(s) >= 1 /\ s[1] \in S
      BY <1>2
    <2>2. Len(<<Head(s)>>) = 1 /\ <<Head(s)>>[1] = Head(s) /\ <<Head(s)>> \in Seq(S)
      BY <2>1
    <2> QED
      BY <2>1, <2>2 DEF Elements, Injective
  <1> QED
    BY <1>1, <1>2

-----------------------------------------------------------------------------
(* Drains start and end.                                                   *)

Position == {"off", "debounce", "checked", "run"}

\* The drain flags and positions are well typed and agree.
DrainsTyped ==
  /\ draining \in [Queues -> BOOLEAN]
  /\ pc \in [Queues -> Position]
  /\ forceIndividualCollect \in [Queues -> BOOLEAN]
  /\ \A x \in Queues : draining[x] <=> pc[x] # "off"

\* No drain but o's comes into a run or out of one.
OthersRun(o) ==
  \A x \in Queues \ {o} : pc'[x] = "run" <=> pc[x] = "run"

\* The registered object is one that was created.
LEMMA CountersTyped ==
  ASSUME TypeOK
  PROVE  /\ current \in 0..created /\ created \in 0..MaxQueues /\ MaxQueues \in Nat
         /\ current \in Queues \cup {0}
  <1>1. current \in 0..created /\ created \in 0..MaxQueues
    BY DEF TypeOK
  <1>2. MaxQueues \in Nat
    BY FollowupQueueAssumption
  <1> QED
    BY <1>1, <1>2 DEF Queues

\* The type invariant covers the drains.
LEMMA DrainsAreTyped ==
  ASSUME TypeOK
  PROVE  DrainsTyped
  BY DEF TypeOK, DrainsTyped, Position

\* scheduleFollowupDrain starts the drain of an object nobody drains, if it
\* does anything, and may take the object out of the registry.
LEMMA ScheduleFacts ==
  ASSUME forceIndividualCollect \in [Queues -> BOOLEAN],
         NEW c \in Queues \cup {0},
         NEW d \in [Queues -> BOOLEAN], NEW p \in [Queues -> Position],
         \A x \in Queues : d[x] <=> p[x] # "off",
         ScheduleFollowupDrain(c, d, p)
  PROVE  /\ current' \in {0, c}
         /\ DrainsTyped'
         /\ \A x \in Queues : pc'[x] = p[x] \/ (p[x] = "off" /\ pc'[x] = "debounce")
  <1>1. CASE c = 0 \/ (c # 0 /\ d[c])
    BY <1>1 DEF ScheduleFollowupDrain, DrainsTyped
  <1>2. CASE ~(c = 0 \/ (c # 0 /\ d[c]))
    <2>1. c \in Queues /\ ~d[c] /\ p[c] = "off"
      BY <1>2
    <2>2. CASE items'[c] = <<>> /\ droppedCount'[c] = 0
      BY <1>2, <2>2 DEF ScheduleFollowupDrain, DrainsTyped
    <2>3. CASE ~(items'[c] = <<>> /\ droppedCount'[c] = 0)
      <3>1. /\ current' = c
            /\ draining' = [d EXCEPT ![c] = TRUE]
            /\ pc' = [p EXCEPT ![c] = "debounce"]
            /\ forceIndividualCollect' = [forceIndividualCollect EXCEPT ![c] = FALSE]
        BY <1>2, <2>3 DEF ScheduleFollowupDrain
      <3>2. DrainsTyped'
        BY <2>1, <3>1 DEF DrainsTyped, Position
      <3> QED
        BY <2>1, <3>1, <3>2
    <2> QED
      BY <2>2, <2>3
  <1> QED
    BY <1>1, <1>2

\* What the end of a drain of o, or of a round of it, leaves.
DrainLeft(o) ==
  /\ current' \in {0, current}
  /\ DrainsTyped'
  /\ pc'[o] # "run"
  /\ OthersRun(o)

\* The finally block of a drain ends it, and may start one anew.
LEMMA EndDrainFacts ==
  ASSUME TypeOK, NEW o \in Queues, EndDrain(o)
  PROVE  DrainLeft(o)
  <1> DEFINE d == [draining EXCEPT ![o] = FALSE]
             p == [pc EXCEPT ![o] = "off"]
  <1>1. /\ d \in [Queues -> BOOLEAN] /\ p \in [Queues -> Position]
        /\ \A x \in Queues : d[x] <=> p[x] # "off"
        /\ \A x \in Queues : p[x] = IF x = o THEN "off" ELSE pc[x]
    BY DEF TypeOK, Position
  <1>2. forceIndividualCollect \in [Queues -> BOOLEAN] /\ current \in Queues \cup {0}
    BY CountersTyped, DrainsAreTyped DEF DrainsTyped
  <1>3. CASE items'[o] = <<>> /\ droppedCount'[o] = 0
    <2>1. current' = 0 /\ draining' = d /\ pc' = p
          /\ forceIndividualCollect' = forceIndividualCollect
      BY <1>3 DEF EndDrain
    <2> HIDE DEF d, p
    <2> QED
      BY <1>1, <1>2, <2>1 DEF DrainLeft, DrainsTyped, OthersRun
  <1>4. CASE ~(items'[o] = <<>> /\ droppedCount'[o] = 0)
    <2>1. ScheduleFollowupDrain(current, d, p)
      BY <1>4 DEF EndDrain
    <2> HIDE DEF d, p
    <2>2. /\ current' \in {0, current}
          /\ DrainsTyped'
          /\ \A x \in Queues : pc'[x] = p[x] \/ (p[x] = "off" /\ pc'[x] = "debounce")
      BY <1>1, <1>2, <2>1, ScheduleFacts
    <2> QED
      BY <1>1, <2>2 DEF DrainLeft, OthersRun
  <1> QED
    BY <1>3, <1>4

\* The loop condition ends the drain or waits for the debounce again.
LEMMA NextRoundFacts ==
  ASSUME TypeOK, NEW o \in Queues, pc[o] # "off", NextRound(o)
  PROVE  DrainLeft(o)
  <1>1. CASE items'[o] = <<>> /\ droppedCount'[o] = 0
    BY <1>1, EndDrainFacts DEF NextRound
  <1>2. CASE ~(items'[o] = <<>> /\ droppedCount'[o] = 0)
    <2>1. /\ pc' = [pc EXCEPT ![o] = "debounce"]
          /\ current' = current /\ draining' = draining
          /\ forceIndividualCollect' = forceIndividualCollect
      BY <1>2 DEF NextRound
    <2> QED
      BY <2>1 DEF TypeOK, DrainLeft, DrainsTyped, OthersRun, Position
  <1> QED
    BY <1>1, <1>2

\* A run starts: it is given messages and the number of items to take out after.
LEMMA StartRunFacts ==
  ASSUME TypeOK, NEW o \in Queues, pc[o] # "off",
         NEW b \in Seq(Messages), NEW n \in Nat, NEW s \in Seq(Messages),
         StartRun(o, b, n, s),
         forceIndividualCollect' \in [Queues -> BOOLEAN]
  PROVE  /\ current' = current
         /\ DrainsTyped'
         /\ pc'[o] = "run"
         /\ OthersRun(o)
         /\ batch' \in [Queues -> Seq(Messages)] /\ taking' \in [Queues -> Nat]
         /\ summary' \in [Queues -> Seq(Messages)]
         /\ \A x \in Queues : /\ batch'[x] = IF x = o THEN b ELSE batch[x]
                              /\ taking'[x] = IF x = o THEN n ELSE taking[x]
  <1>1. /\ current' = current /\ draining' = draining
        /\ pc' = [pc EXCEPT ![o] = "run"]
        /\ batch' = [batch EXCEPT ![o] = b]
        /\ taking' = [taking EXCEPT ![o] = n]
        /\ summary' = [summary EXCEPT ![o] = s]
    BY DEF StartRun
  <1>2. DrainsTyped' /\ OthersRun(o) /\ pc'[o] = "run"
    BY <1>1 DEF TypeOK, DrainsTyped, OthersRun, Position
  <1>3. \A x \in Queues : /\ batch'[x] = IF x = o THEN b ELSE batch[x]
                          /\ taking'[x] = IF x = o THEN n ELSE taking[x]
    BY <1>1 DEF TypeOK
  <1>4. /\ batch' \in [Queues -> Seq(Messages)] /\ taking' \in [Queues -> Nat]
        /\ summary' \in [Queues -> Seq(Messages)]
    <2> DEFINE T == Seq(Messages)
    <2>1. batch \in [Queues -> T] /\ summary \in [Queues -> T] /\ taking \in [Queues -> Nat]
          /\ b \in T /\ s \in T
      BY DEF TypeOK
    <2> HIDE DEF T
    <2>2. batch' \in [Queues -> T] /\ taking' \in [Queues -> Nat] /\ summary' \in [Queues -> T]
      BY <1>1, <2>1
    <2> QED
      BY <2>2 DEF T
  <1> QED
    BY <1>1, <1>2, <1>3, <1>4

\* The agent is through with what it was given.
LEMMA ClearRunFacts ==
  ASSUME TypeOK, NEW o \in Queues, ClearRun(o)
  PROVE  /\ batch' \in [Queues -> Seq(Messages)] /\ taking' \in [Queues -> Nat]
         /\ summary' \in [Queues -> Seq(Messages)]
         /\ \A x \in Queues : /\ batch'[x] = IF x = o THEN <<>> ELSE batch[x]
                              /\ taking'[x] = IF x = o THEN 0 ELSE taking[x]
  <1> DEFINE T == Seq(Messages)
             nothing == <<>>
  <1>1. batch \in [Queues -> T] /\ summary \in [Queues -> T] /\ taking \in [Queues -> Nat]
        /\ nothing \in T
    BY DEF TypeOK
  <1>2. /\ batch' = [batch EXCEPT ![o] = nothing]
        /\ taking' = [taking EXCEPT ![o] = 0]
        /\ summary' = [summary EXCEPT ![o] = nothing]
    BY DEF ClearRun
  <1> HIDE DEF T, nothing
  <1>3. batch' \in [Queues -> T] /\ taking' \in [Queues -> Nat] /\ summary' \in [Queues -> T]
    BY <1>1, <1>2
  <1>4. \A x \in Queues : /\ batch'[x] = IF x = o THEN nothing ELSE batch[x]
                          /\ taking'[x] = IF x = o THEN 0 ELSE taking[x]
    BY <1>1, <1>2
  <1> QED
    BY <1>3, <1>4 DEF T, nothing

\* A message comes in: its object is the registered one or a new one, and a
\* drain may start.
LEMMA AfterEnqueueFacts ==
  ASSUME TypeOK, NEW o \in Queues, NEW md \in Modes,
         GetFollowupQueue(o, md), AfterEnqueue(o)
  PROVE  /\ current' \in 0..created' /\ created' \in 0..MaxQueues
         /\ mode' \in [Queues -> Modes]
         /\ DrainsTyped'
         /\ \A x \in Queues : pc'[x] = "run" <=> pc[x] = "run"
         /\ o = current \/ (current = 0 /\ o = created + 1)
  <1>1. /\ created' \in 0..MaxQueues /\ o \in 1..created'
        /\ o = current \/ (current = 0 /\ o = created + 1)
    <2>1. /\ IF current # 0 THEN o = current ELSE o = created + 1 /\ o \in Queues
          /\ created' = IF current # 0 THEN created ELSE o
      BY DEF GetFollowupQueue
    <2> QED
      BY <2>1, CountersTyped DEF Queues
  <1>2. mode' \in [Queues -> Modes]
    BY DEF TypeOK, GetFollowupQueue
  <1>3. /\ current' \in {0, o} /\ DrainsTyped'
        /\ \A x \in Queues : pc'[x] = "run" <=> pc[x] = "run"
    <2>1. CASE Active
      BY <2>1 DEF AfterEnqueue, TypeOK, DrainsTyped, Position
    <2>2. CASE ~Active
      <3>1. ScheduleFollowupDrain(o, draining, pc)
        BY <2>2 DEF AfterEnqueue
      <3>2. /\ current' \in {0, o} /\ DrainsTyped'
            /\ \A x \in Queues : pc'[x] = pc[x] \/ (pc[x] = "off" /\ pc'[x] = "debounce")
        BY <3>1, ScheduleFacts, DrainsAreTyped DEF DrainsTyped
      <3> QED
        BY <3>2
    <2> QED
      BY <2>1, <2>2
  <1> QED
    BY <1>1, <1>2, <1>3

-----------------------------------------------------------------------------
(* What a push, the end of a run and a clear do to the queue.              *)

Dropped(o, k) == SubSeq(items[o], 1, k)

\* enqueueFollowupRun drops some items at the front of the queue, pushes the
\* message, and keeps of the dropped ones at most their lines or their loss.
LEMMA EnqueueFacts ==
  ASSUME TypeOK, NEW m \in Messages, NEW o \in Queues, NEW md \in Modes, Enqueue(m, o, md)
  PROVE  /\ items' \in [Queues -> Seq(Messages)]
         /\ droppedCount' \in [Queues -> Nat]
         /\ summaryLines' \in [Queues -> Seq(Messages)]
         /\ discarded' \subseteq Messages
         /\ \E k \in 0..Len(items[o]) :
              /\ \A x \in Queues :
                   items'[x] = IF x = o THEN Append(Drop(items[o], k), m) ELSE items[x]
              /\ \A x \in Queues :
                   Elements(summaryLines'[x])
                     \subseteq Elements(summaryLines[x]) \cup Elements(Dropped(o, k))
              /\ discarded' \subseteq discarded \cup Elements(Dropped(o, k))
  <1> DEFINE T == Seq(Messages)
             k == IF Len(items[o]) < Cap THEN 0 ELSE Len(items[o]) - Cap + 1
             dropped == SubSeq(items[o], 1, k)
             lines == summaryLines[o] \o dropped
             n == Len(lines) - Lesser(Len(lines), Cap)
             pushed == Append(Drop(items[o], k), m)
             kept == Drop(lines, n)
  <1>1. /\ items \in [Queues -> T] /\ summaryLines \in [Queues -> T]
        /\ droppedCount \in [Queues -> Nat] /\ discarded \subseteq Messages
        /\ items[o] \in T /\ summaryLines[o] \in T /\ Cap \in Nat \ {0}
    BY FollowupQueueAssumption DEF TypeOK
  <1>2. k \in Nat /\ k <= Len(items[o])
    BY <1>1
  <1>3. /\ items' = [items EXCEPT ![o] = pushed]
        /\ \/ /\ droppedCount' = [droppedCount EXCEPT ![o] = @ + k]
              /\ summaryLines' = [summaryLines EXCEPT ![o] = kept]
              /\ discarded' = discarded
           \/ /\ discarded' = discarded \cup Elements(dropped)
              /\ droppedCount' = droppedCount /\ summaryLines' = summaryLines
    BY DEF Enqueue
  <1> HIDE DEF k
  <1>4. dropped \in T /\ Elements(dropped) \subseteq Messages
    <2>1. dropped \in T /\ Elements(dropped) \subseteq Elements(items[o])
      BY <1>1, <1>2, TakeFacts
    <2>2. Elements(items[o]) \subseteq Messages
      BY <1>1 DEF Elements
    <2> QED
      BY <2>1, <2>2
  <1>5. pushed \in T
    BY <1>1, <1>2, DropFacts, AppendFacts
  <1>6. lines \in T /\ Elements(lines) = Elements(summaryLines[o]) \cup Elements(dropped)
    <2> DEFINE S == summaryLines[o]
    <2>1. S \in T /\ dropped \in T
      BY <1>1, <1>4
    <2> HIDE DEF S, dropped
    <2>2. S \o dropped \in T /\ Elements(S \o dropped) = Elements(S) \cup Elements(dropped)
      BY <2>1, ConcatFacts
    <2> QED
      BY <2>2 DEF S
  <1>7. kept \in T /\ Elements(kept) \subseteq Elements(lines)
    <2> HIDE DEF lines
    <2>1. n \in Nat /\ n <= Len(lines)
      BY <1>1, <1>6 DEF Lesser
    <2> QED
      BY <1>6, <2>1, DropFacts
  <1> HIDE DEF T, dropped, lines, n, pushed, kept
  <1>8. items' \in [Queues -> T] /\ summaryLines' \in [Queues -> T]
        /\ droppedCount' \in [Queues -> Nat] /\ discarded' \subseteq Messages
    BY <1>1, <1>2, <1>3, <1>4, <1>5, <1>7
  <1>9. /\ \A x \in Queues : items'[x] = IF x = o THEN pushed ELSE items[x]
        /\ \A x \in Queues :
             Elements(summaryLines'[x])
               \subseteq Elements(summaryLines[x]) \cup Elements(dropped)
        /\ discarded' \subseteq discarded \cup Elements(dropped)
    BY <1>1, <1>3, <1>6, <1>7
  <1>10. k \in 0..Len(items[o])
    BY <1>1, <1>2
  <1> QED
    BY <1>8, <1>9, <1>10 DEF T, pushed, dropped, Dropped

\* At the end of a run, what was taken leaves the queue.
LEMMA RunEndsFacts ==
  ASSUME TypeOK, NEW o \in Queues, RunEnds(o)
  PROVE  /\ items' \in [Queues -> Seq(Messages)]
         /\ droppedCount' \in [Queues -> Nat]
         /\ summaryLines' \in [Queues -> Seq(Messages)]
         /\ handled' \in Seq(Messages) /\ summarised' \subseteq Messages
         /\ \A x \in Queues : Elements(summaryLines'[x]) \subseteq Elements(summaryLines[x])
         /\ \E n \in 0..Len(items[o]) :
              /\ n = taking[o] \/ n = Len(items[o])
              /\ \A x \in Queues :
                   items'[x] = IF x = o THEN Drop(items[o], n) ELSE items[x]
  <1> DEFINE T == Seq(Messages)
             n == Lesser(taking[o], Len(items[o]))
             left == Drop(items[o], n)
             nothing == <<>>
  <1>1. /\ items \in [Queues -> T] /\ summaryLines \in [Queues -> T]
        /\ droppedCount \in [Queues -> Nat] /\ items[o] \in T /\ taking[o] \in Nat
        /\ handled \in T /\ batch[o] \in T /\ summary[o] \in T /\ summarised \subseteq Messages
        /\ nothing \in T
    BY DEF TypeOK
  <1>2. /\ items' = [items EXCEPT ![o] = left]
        /\ \/ /\ droppedCount' = [droppedCount EXCEPT ![o] = 0]
              /\ summaryLines' = [summaryLines EXCEPT ![o] = nothing]
           \/ droppedCount' = droppedCount /\ summaryLines' = summaryLines
        /\ handled' = handled \o batch[o]
        /\ summarised' = summarised \cup Elements(summary[o])
    BY DEF RunEnds
  <1>3. n \in 0..Len(items[o]) /\ (n = taking[o] \/ n = Len(items[o]))
    BY <1>1 DEF Lesser
  <1> HIDE DEF n
  <1>4. left \in T
    BY <1>1, <1>3, DropFacts
  <1>5. handled' \in T
    BY <1>1, <1>2, ConcatFacts
  <1>6. summarised' \subseteq Messages
    BY <1>1, <1>2 DEF Elements
  <1>7. Elements(nothing) = {}
    BY ShortFacts
  <1> HIDE DEF T, left, nothing
  <1>8. items' \in [Queues -> T] /\ summaryLines' \in [Queues -> T]
        /\ droppedCount' \in [Queues -> Nat]
    <2>1. items' \in [Queues -> T]
      BY <1>1, <1>2, <1>4
    <2>2. CASE droppedCount' = droppedCount /\ summaryLines' = summaryLines
      BY <1>1, <2>1, <2>2
    <2>3. CASE /\ droppedCount' = [droppedCount EXCEPT ![o] = 0]
               /\ summaryLines' = [summaryLines EXCEPT ![o] = nothing]
      BY <1>1, <2>1, <2>3
    <2> QED
      BY <1>2, <2>2, <2>3
  <1>9. /\ \A x \in Queues : items'[x] = IF x = o THEN left ELSE items[x]
        /\ \A x \in Queues : Elements(summaryLines'[x]) \subseteq Elements(summaryLines[x])
    BY <1>1, <1>2, <1>7
  <1> QED
    BY <1>3, <1>5, <1>6, <1>8, <1>9 DEF T, left

\* clearSessionQueues empties the registered object.
LEMMA ClearFacts ==
  ASSUME TypeOK, ClearFollowupQueue
  PROVE  /\ current \in Queues
         /\ items' \in [Queues -> Seq(Messages)]
         /\ droppedCount' \in [Queues -> Nat]
         /\ summaryLines' \in [Queues -> Seq(Messages)]
         /\ lastRun' \in [Queues -> BOOLEAN]
         /\ discarded' \subseteq Messages
         /\ discarded' = discarded \cup Elements(items[current])
                                   \cup Elements(summaryLines[current])
         /\ \A x \in Queues : items'[x] = IF x = current THEN <<>> ELSE items[x]
         /\ \A x \in Queues : summaryLines'[x] = IF x = current THEN <<>> ELSE summaryLines[x]
  <1> DEFINE T == Seq(Messages)
             nothing == <<>>
  <1>1. current \in Queues
    BY CountersTyped DEF ClearFollowupQueue
  <1>2. /\ items \in [Queues -> T] /\ summaryLines \in [Queues -> T]
        /\ droppedCount \in [Queues -> Nat] /\ lastRun \in [Queues -> BOOLEAN]
        /\ discarded \subseteq Messages /\ nothing \in T
    BY DEF TypeOK
  <1>3. /\ items' = [items EXCEPT ![current] = nothing]
        /\ summaryLines' = [summaryLines EXCEPT ![current] = nothing]
        /\ droppedCount' = [droppedCount EXCEPT ![current] = 0]
        /\ lastRun' = [lastRun EXCEPT ![current] = FALSE]
        /\ discarded' = discarded \cup Elements(items[current])
                                  \cup Elements(summaryLines[current])
    BY DEF ClearFollowupQueue
  <1>4. Elements(items[current]) \cup Elements(summaryLines[current]) \subseteq Messages
    BY <1>1, <1>2 DEF Elements
  <1> HIDE DEF T, nothing
  <1>5. /\ items' \in [Queues -> T] /\ summaryLines' \in [Queues -> T]
        /\ droppedCount' \in [Queues -> Nat] /\ lastRun' \in [Queues -> BOOLEAN]
    BY <1>1, <1>2, <1>3
  <1>6. /\ \A x \in Queues : items'[x] = IF x = current THEN nothing ELSE items[x]
        /\ \A x \in Queues :
             summaryLines'[x] = IF x = current THEN nothing ELSE summaryLines[x]
    BY <1>2, <1>3
  <1> QED
    BY <1>1, <1>2, <1>3, <1>4, <1>5, <1>6 DEF T, nothing

\* What a drain gives to the agent: nothing but a summary, the head of the queue,
\* or all of it; and how many items the end of the run will take out of the queue.
Takes(o, b, n) ==
  \/ b = <<>> /\ HasSummary(o)
  \/ items[o] # <<>> /\ b = <<Head(items[o])>> /\ n = 1
  \/ b = items[o] /\ n = Len(items[o])

\* A drain that wakes up changes nothing but its own run and the drain flags.
LEMMA WakeFacts ==
  ASSUME TypeOK, NEW o \in Queues, Wake(o)
  PROVE  /\ UNCHANGED <<queueVars, created, recent, sessionVars, historyVars>>
         /\ current' \in {0, current}
         /\ DrainsTyped' /\ OthersRun(o)
         /\ pc[o] # "run"
         /\ batch' \in [Queues -> Seq(Messages)] /\ taking' \in [Queues -> Nat]
         /\ summary' \in [Queues -> Seq(Messages)]
         /\ \/ pc'[o] # "run" /\ batch' = batch /\ taking' = taking
            \/ \E b \in Seq(Messages), n \in Nat :
                 /\ pc'[o] = "run" /\ Takes(o, b, n)
                 /\ \A x \in Queues : /\ batch'[x] = IF x = o THEN b ELSE batch[x]
                                      /\ taking'[x] = IF x = o THEN n ELSE taking[x]
  <1> USE DEF queueVars, runVars, drainVars
  <1>1. /\ batch \in [Queues -> Seq(Messages)] /\ taking \in [Queues -> Nat]
        /\ summary \in [Queues -> Seq(Messages)]
        /\ items[o] \in Seq(Messages) /\ summaryLines[o] \in Seq(Messages)
        /\ <<>> \in Seq(Messages) /\ Len(items[o]) \in Nat
        /\ forceIndividualCollect \in [Queues -> BOOLEAN]
    BY DEF TypeOK
  <1>2. items[o] # <<>> => <<Head(items[o])>> \in Seq(Messages)
    BY <1>1, ShortFacts
  <1>3. /\ UNCHANGED <<queueVars, created, recent, sessionVars, historyVars>>
        /\ pc[o] \in {"debounce", "checked"}
    BY DEF Wake, WakeFollowup, WakeCollect, CollectBatch
  <1>4. CASE EndDrain(o) /\ UNCHANGED runVars
    BY <1>1, <1>3, <1>4, EndDrainFacts DEF DrainLeft
  <1>5. ASSUME NEW b \in Seq(Messages), NEW n \in Nat, NEW s \in Seq(Messages),
               StartRun(o, b, n, s), Takes(o, b, n),
               \/ forceIndividualCollect' = forceIndividualCollect
               \/ forceIndividualCollect' = [forceIndividualCollect EXCEPT ![o] = TRUE]
        PROVE  /\ current' \in {0, current}
               /\ DrainsTyped' /\ OthersRun(o)
               /\ batch' \in [Queues -> Seq(Messages)] /\ taking' \in [Queues -> Nat]
               /\ summary' \in [Queues -> Seq(Messages)]
               /\ \E c \in Seq(Messages), k \in Nat :
                    /\ pc'[o] = "run" /\ Takes(o, c, k)
                    /\ \A x \in Queues : /\ batch'[x] = IF x = o THEN c ELSE batch[x]
                                         /\ taking'[x] = IF x = o THEN k ELSE taking[x]
    <2>1. forceIndividualCollect' \in [Queues -> BOOLEAN] /\ pc[o] # "off"
      BY <1>1, <1>3, <1>5
    <2> QED
      BY <1>5, <2>1, StartRunFacts
  <1>6. CASE WakeFollowup(o)
    <2>1. CASE items[o] = <<>> \/ (HasSummary(o) /\ ~lastRun[o])
      BY <1>4, <1>6, <2>1 DEF WakeFollowup
    <2>2. CASE ~(items[o] = <<>> \/ (HasSummary(o) /\ ~lastRun[o])) /\ HasSummary(o)
      <3>1. StartRun(o, <<>>, 1, summaryLines[o])
            /\ forceIndividualCollect' = forceIndividualCollect
        BY <1>6, <2>2 DEF WakeFollowup
      <3>2. Takes(o, <<>>, 1)
        BY <2>2 DEF Takes
      <3> QED
        BY <1>1, <1>3, <1>5, <3>1, <3>2
    <2>3. CASE items[o] # <<>> /\ ~HasSummary(o)
      <3>1. StartRun(o, <<Head(items[o])>>, 1, <<>>)
            /\ forceIndividualCollect' = forceIndividualCollect
        BY <1>6, <2>3 DEF WakeFollowup
      <3>2. Takes(o, <<Head(items[o])>>, 1)
        BY <2>3 DEF Takes
      <3> QED
        BY <1>1, <1>2, <1>3, <1>5, <2>3, <3>1, <3>2
    <2> QED
      BY <2>1, <2>2, <2>3
  <1>7. CASE WakeCollect(o)
    <2> DEFINE cross == hasCrossChannelItems(items[o])
    <2>1. CASE ~cross /\ ~forceIndividualCollect[o]
      <3>1. /\ pc' = [pc EXCEPT ![o] = "checked"]
            /\ UNCHANGED <<current, draining, forceIndividualCollect, runVars>>
        BY <1>7, <2>1 DEF WakeCollect
      <3>2. DrainsTyped' /\ OthersRun(o) /\ pc'[o] # "run"
        BY <1>3, <3>1 DEF TypeOK, DrainsTyped, OthersRun, Position
      <3> QED
        BY <1>1, <1>3, <3>1, <3>2
    <2>2. CASE ~(~cross /\ ~forceIndividualCollect[o]) /\ items[o] = <<>>
      BY <1>4, <1>7, <2>2 DEF WakeCollect
    <2>3. CASE ~(~cross /\ ~forceIndividualCollect[o]) /\ items[o] # <<>>
      <3>1. /\ StartRun(o, <<Head(items[o])>>, 1, <<>>)
            /\ forceIndividualCollect' = [forceIndividualCollect EXCEPT ![o] = TRUE]
        BY <1>7, <2>3 DEF WakeCollect
      <3>2. Takes(o, <<Head(items[o])>>, 1)
        BY <2>3 DEF Takes
      <3> QED
        BY <1>1, <1>2, <1>3, <1>5, <2>3, <3>1, <3>2
    <2> QED
      BY <2>1, <2>2, <2>3
  <1>8. CASE CollectBatch(o)
    <2>1. CASE items[o] = <<>> /\ ~lastRun[o]
      BY <1>4, <1>8, <2>1 DEF CollectBatch
    <2>2. CASE ~(items[o] = <<>> /\ ~lastRun[o])
      <3> DEFINE s == IF HasSummary(o) THEN summaryLines[o] ELSE <<>>
      <3>1. StartRun(o, items[o], Len(items[o]), s)
            /\ forceIndividualCollect' = forceIndividualCollect
        BY <1>8, <2>2 DEF CollectBatch
      <3>2. Takes(o, items[o], Len(items[o])) /\ s \in Seq(Messages)
        BY <1>1 DEF Takes
      <3> HIDE DEF s
      <3> QED
        BY <1>1, <1>3, <1>5, <3>1, <3>2
    <2> QED
      BY <2>1, <2>2
  <1> QED
    BY <1>6, <1>7, <1>8 DEF Wake

-----------------------------------------------------------------------------
(* Types.                                                                  *)

\* The initial state is well typed.
LEMMA TypeInit ==
  ASSUME Init
  PROVE  TypeOK
  <1>1. (CHOOSE m \in Modes : TRUE) \in Modes
    BY FollowupQueueAssumption
  <1> DEFINE T == Seq(Messages)
             nothing == <<>>
  <1>2. nothing \in T
    OBVIOUS
  <1> HIDE DEF T, nothing
  <1>3. /\ items \in [Queues -> T] /\ summaryLines \in [Queues -> T]
        /\ batch \in [Queues -> T] /\ summary \in [Queues -> T]
        /\ accepted \in T /\ handled \in T
    BY <1>2 DEF Init, nothing
  <1>4. current \in 0..created /\ created \in 0..MaxQueues
    BY FollowupQueueAssumption DEF Init
  <1>5. /\ droppedCount \in [Queues -> Nat] /\ mode \in [Queues -> Modes]
        /\ lastRun \in [Queues -> BOOLEAN] /\ draining \in [Queues -> BOOLEAN]
        /\ pc \in [Queues -> {"off", "debounce", "checked", "run"}]
        /\ forceIndividualCollect \in [Queues -> BOOLEAN]
        /\ taking \in [Queues -> Nat]
        /\ \A o \in Queues : draining[o] <=> pc[o] # "off"
    BY <1>1 DEF Init
  <1>6. /\ recent \subseteq Messages /\ busy \in BOOLEAN /\ finalizing \in BOOLEAN
        /\ external \in BOOLEAN
        /\ summarised \subseteq Messages /\ discarded \subseteq Messages
    BY DEF Init
  <1> QED
    BY <1>3, <1>4, <1>5, <1>6 DEF TypeOK, T

\* Messages that come in keep the types.
LEMMA TypeEnqueue ==
  ASSUME TypeOK, NEW m \in Messages, NEW o \in Queues, NEW md \in Modes,
         Enqueue(m, o, md) \/ EnqueueRefused(m, o, md) \/ EnqueueDuplicate(m, o, md)
  PROVE  TypeOK'
  <1>1. GetFollowupQueue(o, md) /\ AfterEnqueue(o)
    BY DEF Enqueue, EnqueueRefused, EnqueueDuplicate
  <1>2. /\ current' \in 0..created' /\ created' \in 0..MaxQueues
        /\ mode' \in [Queues -> Modes]
        /\ DrainsTyped'
    BY <1>1, AfterEnqueueFacts
  <1>3. lastRun' \in [Queues -> BOOLEAN]
    BY DEF Enqueue, EnqueueRefused, EnqueueDuplicate, TypeOK
  <1>4. CASE Enqueue(m, o, md)
    <2>1. accepted' \in Seq(Messages) /\ recent' \subseteq Messages
      <3>1. accepted \in Seq(Messages) /\ recent \subseteq Messages
        BY DEF TypeOK
      <3> QED
        BY <1>4, <3>1, AppendFacts DEF Enqueue
    <2>2. /\ items' \in [Queues -> Seq(Messages)]
          /\ droppedCount' \in [Queues -> Nat]
          /\ summaryLines' \in [Queues -> Seq(Messages)]
          /\ discarded' \subseteq Messages
      BY <1>4, EnqueueFacts
    <2> QED
      BY <1>2, <1>3, <1>4, <2>1, <2>2 DEF Enqueue, TypeOK, DrainsTyped, Position,
                                       runVars, sessionVars
  <1>5. CASE EnqueueRefused(m, o, md) \/ EnqueueDuplicate(m, o, md)
    BY <1>2, <1>3, <1>5 DEF EnqueueRefused, EnqueueDuplicate, TypeOK, DrainsTyped,
                           Position, runVars, sessionVars, historyVars
  <1> QED
    BY <1>4, <1>5

\* The steps of a drain keep the types.
LEMMA TypeDrain ==
  ASSUME TypeOK, NEW o \in Queues, Wake(o) \/ RunEnds(o) \/ RunThrows(o)
  PROVE  TypeOK'
  <1> USE DEF queueVars, runVars, sessionVars, historyVars
  <1>0. current \in 0..created /\ created \in 0..MaxQueues /\ MaxQueues \in Nat
    BY CountersTyped
  <1>1. CASE Wake(o)
    <2>1. /\ UNCHANGED <<queueVars, created, recent, sessionVars, historyVars>>
          /\ current' \in {0, current} /\ DrainsTyped'
          /\ batch' \in [Queues -> Seq(Messages)] /\ taking' \in [Queues -> Nat]
          /\ summary' \in [Queues -> Seq(Messages)]
      BY <1>1, WakeFacts
    <2>2. current' \in 0..created'
      BY <1>0, <2>1
    <2> QED
      BY <2>1, <2>2 DEF TypeOK, DrainsTyped, Position
  <1>2. CASE RunEnds(o)
    <2>1. DrainLeft(o) /\ ClearRun(o)
      BY <1>2, NextRoundFacts DEF RunEnds
    <2>2. current' \in 0..created' /\ created' = created
      BY <1>0, <1>2, <2>1 DEF RunEnds, DrainLeft
    <2>3. /\ batch' \in [Queues -> Seq(Messages)] /\ taking' \in [Queues -> Nat]
          /\ summary' \in [Queues -> Seq(Messages)]
      BY <2>1, ClearRunFacts
    <2>4. /\ items' \in [Queues -> Seq(Messages)]
          /\ droppedCount' \in [Queues -> Nat]
          /\ summaryLines' \in [Queues -> Seq(Messages)]
          /\ handled' \in Seq(Messages) /\ summarised' \subseteq Messages
      BY <1>2, RunEndsFacts
    <2> QED
      BY <1>2, <2>1, <2>2, <2>3, <2>4 DEF RunEnds, TypeOK, DrainLeft, DrainsTyped, Position
  <1>3. CASE RunThrows(o)
    <2>1. DrainLeft(o) /\ ClearRun(o)
      BY <1>3, EndDrainFacts DEF RunThrows
    <2>2. current' \in 0..created' /\ created' = created
      BY <1>0, <1>3, <2>1 DEF RunThrows, DrainLeft
    <2>3. /\ batch' \in [Queues -> Seq(Messages)] /\ taking' \in [Queues -> Nat]
          /\ summary' \in [Queues -> Seq(Messages)]
      BY <2>1, ClearRunFacts
    <2> QED
      BY <1>3, <2>1, <2>2, <2>3 DEF RunThrows, TypeOK, DrainLeft, DrainsTyped, Position
  <1> QED
    BY <1>1, <1>2, <1>3

\* finalizeWithFollowup starts a drain, if anything.
LEMMA FinalizeFacts ==
  ASSUME TypeOK, FinalizeWithFollowup
  PROVE  /\ current' \in 0..created' /\ created' = created
         /\ DrainsTyped'
         /\ \A x \in Queues : pc'[x] = "run" <=> pc[x] = "run"
  <1>1. ScheduleFollowupDrain(current, draining, pc) /\ created' = created
    BY DEF FinalizeWithFollowup
  <1>2. /\ current' \in {0, current} /\ DrainsTyped'
        /\ \A x \in Queues : pc'[x] = pc[x] \/ (pc[x] = "off" /\ pc'[x] = "debounce")
    BY <1>1, CountersTyped, DrainsAreTyped, ScheduleFacts DEF DrainsTyped
  <1> QED
    BY <1>1, <1>2, CountersTyped

\* The other steps keep the types.
LEMMA TypeOther ==
  ASSUME TypeOK,
         \/ ClearFollowupQueue \/ AgentStarts \/ AgentEnds \/ FinalizeWithFollowup
         \/ ExternalStarts \/ ExternalEnds
  PROVE  TypeOK'
  <1> USE DEF queueVars, runVars, drainVars, sessionVars, historyVars
  <1>0. current \in 0..created /\ created \in 0..MaxQueues /\ MaxQueues \in Nat
    BY CountersTyped
  <1>1. CASE ClearFollowupQueue
    <2>1. current' \in 0..created' /\ created' = created
      BY <1>0, <1>1 DEF ClearFollowupQueue
    <2> QED
      BY <1>1, <2>1, ClearFacts DEF ClearFollowupQueue, TypeOK
  <1>2. CASE AgentStarts
    BY <1>2 DEF AgentStarts, TypeOK
  <1>3. CASE AgentEnds
    BY <1>3 DEF AgentEnds, TypeOK
  <1>4. CASE FinalizeWithFollowup
    BY <1>4, FinalizeFacts DEF FinalizeWithFollowup, TypeOK, DrainsTyped, Position
  <1>5. CASE ExternalStarts \/ ExternalEnds
    BY <1>5 DEF ExternalStarts, ExternalEnds, TypeOK
  <1> QED
    BY <1>1, <1>2, <1>3, <1>4, <1>5

\* Every step keeps the types.
LEMMA TypeStep ==
  ASSUME TypeOK, [Next]_vars
  PROVE  TypeOK'
  <1>1. CASE UNCHANGED vars
    BY <1>1 DEF vars, queueVars, drainVars, runVars, sessionVars, historyVars, TypeOK
  <1>2. CASE \E m \in Messages, o \in Queues : \E md \in Modes :
               Enqueue(m, o, md) \/ EnqueueRefused(m, o, md) \/ EnqueueDuplicate(m, o, md)
    BY <1>2, TypeEnqueue
  <1>3. CASE \E o \in Queues : Wake(o) \/ RunEnds(o) \/ RunThrows(o)
    BY <1>3, TypeDrain
  <1>4. CASE \/ ClearFollowupQueue \/ AgentStarts \/ AgentEnds \/ FinalizeWithFollowup
             \/ ExternalStarts \/ ExternalEnds
    BY <1>4, TypeOther
  <1> QED
    BY <1>1, <1>2, <1>3, <1>4 DEF Next

\* The queue objects, their drains, the dedupe cache and the histories are well
\* typed in every reachable state; a drain is marked as running exactly while its
\* loop is somewhere between its start and its finally block.
THEOREM TypeCorrect == Spec => []TypeOK
  <1>1. Init => TypeOK
    BY TypeInit
  <1>2. TypeOK /\ [Next]_vars => TypeOK'
    BY TypeStep
  <1> QED
    BY <1>1, <1>2, PTL DEF Spec

-----------------------------------------------------------------------------
(* Nothing is run again once its run has come to its end.                  *)

Held(o) == Elements(items[o]) \cup Elements(batch[o])

\* The dedupe cache knows every message that is or was anywhere.
Known ==
  /\ Elements(handled) \subseteq recent /\ discarded \subseteq recent
  /\ \A o \in Queues : Held(o) \subseteq recent /\ Elements(summaryLines[o]) \subseteq recent

\* A message belongs to one object, even after the registry forgot the object
\* and its drain goes on, ...
Apart == \A o, x \in Queues : o # x => Held(o) \cap Held(x) = {}

\* ... it is there once, and it is not a handled one.
NoRepeats ==
  /\ Injective(handled)
  /\ \A o \in Queues : /\ Injective(items[o]) /\ Injective(batch[o])
                       /\ Held(o) \cap Elements(handled) = {}

\* What is left in the queue of the messages given to the agent is at its head,
\* where the end of the run will take it out: overflow takes from the head too.
AtHead ==
  \A o \in Queues : \A i \in 1..Len(items[o]) :
    items[o][i] \in Elements(batch[o]) => i <= taking[o]

\* Only a run has messages in hand.
OnlyRunsHold == \A o \in Queues : pc[o] # "run" => batch[o] = <<>>

\* What is queued was neither cleared nor dropped.
StillWanted ==
  \A o \in Queues :
    /\ Elements(items[o]) \cap discarded = {}
    /\ \A x \in Queues : Elements(items[o]) \cap Elements(summaryLines[x]) = {}

OnceInv == Known /\ Apart /\ NoRepeats /\ AtHead /\ OnlyRunsHold /\ StillWanted

\* At first there is no message.
LEMMA OnceInit ==
  ASSUME Init
  PROVE  OnceInv
  <1>1. \A o \in Queues : items[o] = <<>> /\ batch[o] = <<>> /\ summaryLines[o] = <<>>
    BY DEF Init
  <1>2. handled = <<>> /\ discarded = {}
    BY DEF Init
  <1>3. Elements(<<>>) = {} /\ Injective(<<>>)
    BY ShortFacts
  <1> QED
    BY <1>1, <1>2, <1>3 DEF OnceInv, Known, Apart, NoRepeats, AtHead, OnlyRunsHold,
                           StillWanted, Held

\* Steps that touch neither queues nor runs.
LEMMA OnceSame ==
  ASSUME OnceInv,
         UNCHANGED <<items, summaryLines, batch, taking, recent, handled, discarded>>,
         \A x \in Queues : pc'[x] # "run" => batch'[x] = <<>>
  PROVE  OnceInv'
  <1>1. \A x \in Queues : Held(x)' = Held(x)
    BY DEF Held
  <1>2. Known' /\ Apart' /\ StillWanted'
    BY <1>1 DEF OnceInv, Known, Apart, StillWanted
  <1>3. NoRepeats'
    BY <1>1 DEF OnceInv, NoRepeats
  <1>4. AtHead' /\ OnlyRunsHold'
    BY DEF OnceInv, AtHead, OnlyRunsHold
  <1> QED
    BY <1>2, <1>3, <1>4 DEF OnceInv

\* A message is pushed.
LEMMA OnceEnqueue ==
  ASSUME TypeOK, OnceInv, NEW m \in Messages, NEW o \in Queues, NEW md \in Modes,
         Enqueue(m, o, md)
  PROVE  OnceInv'
  <1>1. /\ m \notin recent /\ recent' = recent \cup {m}
        /\ batch' = batch /\ taking' = taking /\ handled' = handled
    BY DEF Enqueue, runVars
  <1>2. PICK k \in 0..Len(items[o]) :
          /\ \A x \in Queues :
               items'[x] = IF x = o THEN Append(Drop(items[o], k), m) ELSE items[x]
          /\ \A x \in Queues :
               Elements(summaryLines'[x])
                 \subseteq Elements(summaryLines[x]) \cup Elements(Dropped(o, k))
          /\ discarded' \subseteq discarded \cup Elements(Dropped(o, k))
    BY EnqueueFacts
  <1>3. items[o] \in Seq(Messages) /\ Len(items[o]) \in Nat /\ k \in Nat /\ k <= Len(items[o])
    BY DEF TypeOK
  <1> DEFINE rest == Drop(items[o], k)
             gone == Dropped(o, k)
  <1>4. /\ rest \in Seq(Messages)
        /\ Len(rest) = Len(items[o]) - k
        /\ \A i \in 1..Len(rest) : i + k \in 1..Len(items[o]) /\ rest[i] = items[o][i + k]
        /\ Elements(rest) \subseteq Elements(items[o])
        /\ Injective(rest)
    <2>1. Injective(items[o])
      BY DEF OnceInv, NoRepeats
    <2> DEFINE s == items[o]
    <2>2. s \in Seq(Messages) /\ k \in Nat /\ k <= Len(s) /\ Injective(s)
      BY <1>3, <2>1
    <2> HIDE DEF s
    <2>3. /\ Drop(s, k) \in Seq(Messages)
          /\ Len(Drop(s, k)) = Len(s) - k
          /\ \A i \in 1..Len(Drop(s, k)) :
               i + k \in 1..Len(s) /\ Drop(s, k)[i] = s[i + k]
          /\ Elements(Drop(s, k)) \subseteq Elements(s)
          /\ Injective(Drop(s, k))
      BY <2>2, DropFacts
    <2> QED
      BY <2>3 DEF s
  <1>5. Elements(gone) \subseteq Elements(items[o]) /\ Elements(gone) \cap Elements(rest) = {}
    <2>1. /\ Elements(gone) \subseteq Elements(items[o])
          /\ \A i \in 1..k : i \in 1..Len(items[o]) /\ gone[i] = items[o][i]
          /\ Len(gone) = k
      BY <1>3, TakeFacts DEF Dropped
    <2> HIDE DEF gone, rest
    <2>2. ASSUME NEW i \in 1..k, NEW j \in 1..Len(rest), gone[i] = rest[j]
          PROVE  FALSE
      <3>1. items[o][i] = items[o][j + k] /\ i \in 1..Len(items[o]) /\ j + k \in 1..Len(items[o])
        BY <1>4, <2>1, <2>2
      <3>2. i = j + k
        BY <3>1 DEF OnceInv, NoRepeats, Injective
      <3> QED
        BY <1>3, <3>2
    <2> QED
      BY <2>1, <2>2 DEF Elements
  <1> HIDE DEF rest, gone
  <1>6. m \notin Elements(items[o]) /\ m \notin Elements(rest) /\ m \notin Elements(gone)
        /\ \A x \in Queues : m \notin Held(x) /\ m \notin Elements(summaryLines[x])
    BY <1>1, <1>4, <1>5 DEF OnceInv, Known, Held
  <1>7. /\ Elements(Append(rest, m)) = Elements(rest) \cup {m}
        /\ Injective(Append(rest, m))
        /\ \A i \in 1..Len(Append(rest, m)) :
             Append(rest, m)[i] = IF i <= Len(rest) THEN rest[i] ELSE m
    BY <1>4, <1>6, AppendFacts
  <1>8. \A x \in Queues :
          items'[x] = IF x = o THEN Append(rest, m) ELSE items[x]
    BY <1>2 DEF rest
  <1>9. \A x \in Queues : /\ Elements(items'[x]) \subseteq Elements(items[x]) \cup {m}
                          /\ x # o => Elements(items'[x]) = Elements(items[x])
    BY <1>4, <1>7, <1>8
  <1>10. \A x \in Queues : /\ Held(x)' \subseteq Held(x) \cup {m}
                           /\ x # o => Held(x)' = Held(x)
    BY <1>1, <1>9 DEF Held
  <1>11. /\ \A x \in Queues :
              Elements(summaryLines'[x]) \subseteq Elements(summaryLines[x]) \cup Elements(gone)
         /\ discarded' \subseteq discarded \cup Elements(gone)
    BY <1>2 DEF gone
  <1>12. Elements(gone) \subseteq Held(o) /\ Elements(gone) \subseteq recent
    BY <1>5 DEF Held, OnceInv, Known
  <1>13. Known'
    BY <1>1, <1>10, <1>11, <1>12 DEF OnceInv, Known
  <1>14. Apart'
    BY <1>6, <1>10 DEF OnceInv, Apart
  <1>15. NoRepeats'
    <2>1. \A x \in Queues : Injective(items'[x])
      BY <1>7, <1>8 DEF OnceInv, NoRepeats
    <2>2. m \notin Elements(handled)
      BY <1>1 DEF OnceInv, Known
    <2> QED
      BY <1>1, <1>10, <2>1, <2>2 DEF OnceInv, NoRepeats
  <1>16. AtHead'
    <2> SUFFICES ASSUME NEW x \in Queues, NEW i \in 1..Len(items'[x]),
                        items'[x][i] \in Elements(batch[x])
                 PROVE  i <= taking[x]
      BY <1>1 DEF AtHead
    <2>1. CASE x # o
      BY <1>8, <2>1 DEF OnceInv, AtHead
    <2>2. CASE x = o
      <3>1. i <= Len(rest) /\ items[o][i + k] \in Elements(batch[o])
            /\ i + k \in 1..Len(items[o])
        <4>1. items'[x][i] # m
          BY <1>6 DEF Held
        <4>2. i \in 1..Len(Append(rest, m)) /\ items'[x] = Append(rest, m)
          BY <1>8, <2>2
        <4>3. i <= Len(rest) /\ items'[x][i] = rest[i]
          BY <1>7, <4>1, <4>2
        <4> QED
          BY <1>4, <2>2, <4>3
      <3>2. i + k <= taking[o] /\ taking[o] \in Nat
        BY <3>1 DEF OnceInv, AtHead, TypeOK
      <3> QED
        BY <1>3, <2>2, <3>2
    <2> QED
      BY <2>1, <2>2
  <1>17. OnlyRunsHold'
    <2>1. \A x \in Queues : pc'[x] = "run" <=> pc[x] = "run"
      BY AfterEnqueueFacts DEF Enqueue
    <2> QED
      BY <1>1, <2>1 DEF OnceInv, OnlyRunsHold
  <1>18. StillWanted'
    <2>1. m \notin discarded
      BY <1>1 DEF OnceInv, Known
    <2> SUFFICES ASSUME NEW x \in Queues, NEW e \in Elements(items'[x])
                 PROVE  /\ e \notin discarded'
                        /\ \A y \in Queues : e \notin Elements(summaryLines'[y])
      BY DEF StillWanted
    <2>2. e \notin Elements(gone)
      <3>1. CASE x = o
        BY <1>5, <1>6, <1>7, <1>8, <3>1
      <3>2. CASE x # o
        BY <1>8, <1>12, <3>2 DEF OnceInv, Apart, Held
      <3> QED
        BY <3>1, <3>2
    <2>3. e = m \/ e \in Elements(items[x])
      BY <1>9
    <2> QED
      BY <1>6, <1>11, <2>1, <2>2, <2>3 DEF OnceInv, StillWanted
  <1> QED
    BY <1>13, <1>14, <1>15, <1>16, <1>17, <1>18 DEF OnceInv

\* What the agent is given is in the queue, and at its head.
LEMMA TakesFacts ==
  ASSUME NEW o \in Queues, items[o] \in Seq(Messages), Injective(items[o]),
         NEW b \in Seq(Messages), NEW n \in Nat, Takes(o, b, n)
  PROVE  /\ Elements(b) \subseteq Elements(items[o]) /\ Injective(b)
         /\ \A i \in 1..Len(items[o]) : items[o][i] \in Elements(b) => i <= n
  <1>1. CASE b = <<>>
    BY <1>1, ShortFacts
  <1>2. CASE items[o] # <<>> /\ b = <<Head(items[o])>> /\ n = 1
    <2>1. Elements(b) = {items[o][1]} /\ items[o][1] \in Elements(items[o]) /\ Injective(b)
      BY <1>2, ShortFacts
    <2>2. 1 \in 1..Len(items[o])
      BY <1>2
    <2> QED
      BY <1>2, <2>1, <2>2 DEF Injective
  <1>3. CASE b = items[o] /\ n = Len(items[o])
    BY <1>3
  <1> QED
    BY <1>1, <1>2, <1>3 DEF Takes

\* A drain gives messages to the agent.
LEMMA OnceWake ==
  ASSUME TypeOK, OnceInv, NEW o \in Queues, Wake(o)
  PROVE  OnceInv'
  <1>1. /\ UNCHANGED <<queueVars, created, recent, sessionVars, historyVars>>
        /\ DrainsTyped' /\ OthersRun(o)
        /\ pc[o] # "run"
        /\ \/ pc'[o] # "run" /\ batch' = batch /\ taking' = taking
           \/ \E b \in Seq(Messages), n \in Nat :
                /\ pc'[o] = "run" /\ Takes(o, b, n)
                /\ \A x \in Queues : /\ batch'[x] = IF x = o THEN b ELSE batch[x]
                                     /\ taking'[x] = IF x = o THEN n ELSE taking[x]
    BY WakeFacts
  <1>2. UNCHANGED <<items, summaryLines, recent, handled, discarded>>
    BY <1>1 DEF queueVars, historyVars
  <1>3. CASE pc'[o] # "run" /\ batch' = batch /\ taking' = taking
    <2>1. \A x \in Queues : pc'[x] # "run" => batch'[x] = <<>>
      BY <1>1, <1>3 DEF OthersRun, OnceInv, OnlyRunsHold
    <2> QED
      BY <1>2, <1>3, <2>1, OnceSame
  <1>4. CASE ~(pc'[o] # "run" /\ batch' = batch /\ taking' = taking)
    <2>1. PICK b \in Seq(Messages), n \in Nat :
            /\ pc'[o] = "run" /\ Takes(o, b, n)
            /\ \A x \in Queues : /\ batch'[x] = IF x = o THEN b ELSE batch[x]
                                 /\ taking'[x] = IF x = o THEN n ELSE taking[x]
      BY <1>1, <1>4
    <2>2. items[o] \in Seq(Messages) /\ Injective(items[o])
      BY DEF TypeOK, OnceInv, NoRepeats
    <2>3. /\ Elements(b) \subseteq Elements(items[o]) /\ Injective(b)
          /\ \A i \in 1..Len(items[o]) : items[o][i] \in Elements(b) => i <= n
      BY <2>1, <2>2, TakesFacts
    <2>4. \A x \in Queues : Held(x)' \subseteq Held(x)
      BY <1>2, <2>1, <2>3 DEF Held
    <2>5. Known' /\ StillWanted'
      BY <1>2, <2>4 DEF OnceInv, Known, StillWanted
    <2>6. Apart'
      BY <2>4 DEF OnceInv, Apart
    <2>7. NoRepeats'
      <3>1. \A x \in Queues : Injective(batch'[x])
        BY <2>1, <2>3 DEF OnceInv, NoRepeats
      <3> QED
        BY <1>2, <2>4, <3>1 DEF OnceInv, NoRepeats
    <2>8. AtHead'
      BY <1>2, <2>1, <2>3 DEF OnceInv, AtHead
    <2>9. OnlyRunsHold'
      <3>1. ASSUME NEW x \in Queues, pc'[x] # "run"
            PROVE  batch'[x] = <<>>
        <4>1. CASE x # o
          BY <1>1, <2>1, <3>1, <4>1 DEF OthersRun, OnceInv, OnlyRunsHold
        <4>2. CASE x = o
          BY <2>1, <3>1, <4>2
        <4> QED
          BY <4>1, <4>2
      <3> QED
        BY <3>1 DEF OnlyRunsHold
    <2> QED
      BY <2>5, <2>6, <2>7, <2>8, <2>9 DEF OnceInv
  <1> QED
    BY <1>3, <1>4

\* A run comes to its end.
LEMMA OnceRunEnds ==
  ASSUME TypeOK, OnceInv, NEW o \in Queues, RunEnds(o)
  PROVE  OnceInv'
  <1>1. /\ DrainLeft(o) /\ ClearRun(o)
        /\ recent' = recent /\ discarded' = discarded
        /\ handled' = handled \o batch[o]
    BY NextRoundFacts DEF RunEnds
  <1>2. /\ \A x \in Queues : Elements(summaryLines'[x]) \subseteq Elements(summaryLines[x])
        /\ \E n \in 0..Len(items[o]) :
             /\ n = taking[o] \/ n = Len(items[o])
             /\ \A x \in Queues : items'[x] = IF x = o THEN Drop(items[o], n) ELSE items[x]
    BY RunEndsFacts
  <1>3. PICK n \in 0..Len(items[o]) :
          /\ n = taking[o] \/ n = Len(items[o])
          /\ \A x \in Queues : items'[x] = IF x = o THEN Drop(items[o], n) ELSE items[x]
    BY <1>2
  <1>4. /\ items[o] \in Seq(Messages) /\ Len(items[o]) \in Nat /\ n \in Nat
        /\ n <= Len(items[o]) /\ taking[o] \in Nat
        /\ handled \in Seq(Messages) /\ batch[o] \in Seq(Messages)
    BY DEF TypeOK
  <1> DEFINE left == Drop(items[o], n)
  <1>5. /\ Len(left) = Len(items[o]) - n
        /\ \A i \in 1..Len(left) : i + n \in 1..Len(items[o]) /\ left[i] = items[o][i + n]
        /\ Elements(left) \subseteq Elements(items[o])
        /\ Injective(left)
    <2>1. Injective(items[o])
      BY DEF OnceInv, NoRepeats
    <2> DEFINE s == items[o]
    <2>2. s \in Seq(Messages) /\ n \in Nat /\ n <= Len(s) /\ Injective(s)
      BY <1>4, <2>1
    <2> HIDE DEF s
    <2>3. /\ Len(Drop(s, n)) = Len(s) - n
          /\ \A i \in 1..Len(Drop(s, n)) : i + n \in 1..Len(s) /\ Drop(s, n)[i] = s[i + n]
          /\ Elements(Drop(s, n)) \subseteq Elements(s)
          /\ Injective(Drop(s, n))
      BY <2>2, DropFacts
    <2> QED
      BY <2>3 DEF s
  <1> HIDE DEF left
  <1>6. Elements(left) \cap Elements(batch[o]) = {}
    <2>1. ASSUME NEW i \in 1..Len(left), left[i] \in Elements(batch[o])
          PROVE  FALSE
      <3>1. i + n \in 1..Len(items[o]) /\ items[o][i + n] \in Elements(batch[o])
        BY <1>5, <2>1
      <3>2. i + n <= taking[o]
        BY <3>1 DEF OnceInv, AtHead
      <3> QED
        BY <1>3, <1>4, <3>1, <3>2
    <2> QED
      BY <2>1 DEF Elements
  <1>7. \A x \in Queues : /\ items'[x] = IF x = o THEN left ELSE items[x]
                          /\ batch'[x] = IF x = o THEN <<>> ELSE batch[x]
                          /\ taking'[x] = IF x = o THEN 0 ELSE taking[x]
    BY <1>1, <1>3, ClearRunFacts DEF left
  <1>8. /\ \A x \in Queues : Held(x)' \subseteq Held(x)
        /\ Held(o)' \cap Elements(batch[o]) = {}
    BY <1>5, <1>6, <1>7, ShortFacts DEF Held
  <1>9. /\ Elements(handled') = Elements(handled) \cup Elements(batch[o])
        /\ Injective(handled')
    <2>1. /\ Injective(handled) /\ Injective(batch[o])
          /\ Elements(handled) \cap Elements(batch[o]) = {}
      BY DEF OnceInv, NoRepeats, Held
    <2> DEFINE s == batch[o]
    <2>2. s \in Seq(Messages) /\ Injective(s) /\ Elements(handled) \cap Elements(s) = {}
      BY <1>4, <2>1
    <2> HIDE DEF s
    <2>3. Elements(handled \o s) = Elements(handled) \cup Elements(s) /\ Injective(handled \o s)
      BY <1>4, <2>1, <2>2, ConcatFacts
    <2> QED
      BY <1>1, <2>3 DEF s
  <1>10. Known'
    <2>1. Elements(batch[o]) \subseteq recent
      BY DEF OnceInv, Known, Held
    <2> QED
      BY <1>1, <1>2, <1>8, <1>9, <2>1 DEF OnceInv, Known
  <1>11. Apart'
    BY <1>8 DEF OnceInv, Apart
  <1>12. NoRepeats'
    <2>1. \A x \in Queues : Injective(items'[x]) /\ Injective(batch'[x])
      BY <1>5, <1>7, ShortFacts DEF OnceInv, NoRepeats
    <2>2. \A x \in Queues : x # o => Held(x) \cap Elements(batch[o]) = {}
      BY DEF OnceInv, Apart, Held
    <2> QED
      BY <1>8, <1>9, <2>1, <2>2 DEF OnceInv, NoRepeats
  <1>13. AtHead'
    BY <1>7, ShortFacts DEF OnceInv, AtHead
  <1>14. OnlyRunsHold'
    BY <1>1, <1>7 DEF OnceInv, OnlyRunsHold, DrainLeft, OthersRun
  <1>15. StillWanted'
    <2>1. \A x \in Queues : Elements(items'[x]) \subseteq Elements(items[x])
      BY <1>5, <1>7
    <2> QED
      BY <1>1, <1>2, <2>1 DEF OnceInv, StillWanted
  <1> QED
    BY <1>10, <1>11, <1>12, <1>13, <1>14, <1>15 DEF OnceInv

\* The run throws: what it was given stays in the queue.
LEMMA OnceRunThrows ==
  ASSUME TypeOK, OnceInv, NEW o \in Queues, RunThrows(o)
  PROVE  OnceInv'
  <1>1. /\ DrainLeft(o) /\ ClearRun(o)
        /\ UNCHANGED <<items, summaryLines, recent, handled, discarded>>
    BY EndDrainFacts DEF RunThrows, queueVars, historyVars
  <1>2. \A x \in Queues : /\ batch'[x] = IF x = o THEN <<>> ELSE batch[x]
                          /\ taking'[x] = IF x = o THEN 0 ELSE taking[x]
    BY <1>1, ClearRunFacts
  <1>3. \A x \in Queues : Held(x)' \subseteq Held(x)
    BY <1>1, <1>2, ShortFacts DEF Held
  <1>4. Known' /\ StillWanted'
    BY <1>1, <1>3 DEF OnceInv, Known, StillWanted
  <1>5. Apart'
    BY <1>3 DEF OnceInv, Apart
  <1>6. NoRepeats'
    <2>1. \A x \in Queues : Injective(batch'[x])
      BY <1>2, ShortFacts DEF OnceInv, NoRepeats
    <2> QED
      BY <1>1, <1>3, <2>1 DEF OnceInv, NoRepeats
  <1>7. AtHead'
    BY <1>1, <1>2, ShortFacts DEF OnceInv, AtHead
  <1>8. OnlyRunsHold'
    BY <1>1, <1>2 DEF OnceInv, OnlyRunsHold, DrainLeft, OthersRun
  <1> QED
    BY <1>4, <1>5, <1>6, <1>7, <1>8 DEF OnceInv

\* The queue is cleared, perhaps under a run.
LEMMA OnceClear ==
  ASSUME TypeOK, OnceInv, ClearFollowupQueue
  PROVE  OnceInv'
  <1>1. /\ current \in Queues
        /\ discarded' = discarded \cup Elements(items[current])
                                  \cup Elements(summaryLines[current])
        /\ \A x \in Queues : items'[x] = IF x = current THEN <<>> ELSE items[x]
        /\ \A x \in Queues : summaryLines'[x] = IF x = current THEN <<>> ELSE summaryLines[x]
    BY ClearFacts
  <1>2. UNCHANGED <<batch, taking, recent, handled, pc>>
    BY DEF ClearFollowupQueue, drainVars, runVars
  <1>3. Elements(<<>>) = {} /\ Injective(<<>>)
    BY ShortFacts
  <1>4. \A x \in Queues : /\ Held(x)' \subseteq Held(x)
                          /\ Elements(items'[x]) \subseteq Elements(items[x])
                          /\ Elements(summaryLines'[x]) \subseteq Elements(summaryLines[x])
    BY <1>1, <1>2, <1>3 DEF Held
  <1>5. Known'
    BY <1>1, <1>2, <1>4 DEF OnceInv, Known, Held
  <1>6. Apart'
    BY <1>4 DEF OnceInv, Apart
  <1>7. NoRepeats'
    <2>1. \A x \in Queues : Injective(items'[x])
      BY <1>1, <1>3 DEF OnceInv, NoRepeats
    <2> QED
      BY <1>2, <1>4, <2>1 DEF OnceInv, NoRepeats
  <1>8. AtHead'
    <2> SUFFICES ASSUME NEW x \in Queues, NEW i \in 1..Len(items'[x]),
                        items'[x][i] \in Elements(batch[x])
                 PROVE  i <= taking[x]
      BY <1>2 DEF AtHead
    <2>1. x # current
      BY <1>1
    <2> QED
      BY <1>1, <2>1 DEF OnceInv, AtHead
  <1>9. OnlyRunsHold'
    BY <1>2 DEF OnceInv, OnlyRunsHold
  <1>10. StillWanted'
    <2> SUFFICES ASSUME NEW x \in Queues, NEW e \in Elements(items'[x])
                 PROVE  /\ e \notin discarded'
                        /\ \A y \in Queues : e \notin Elements(summaryLines'[y])
      BY DEF StillWanted
    <2>1. x # current /\ e \in Elements(items[x])
      BY <1>1, <1>3
    <2>2. e \notin Elements(items[current])
      BY <1>1, <2>1 DEF OnceInv, Apart, Held
    <2> QED
      BY <1>1, <1>4, <2>1, <2>2 DEF OnceInv, StillWanted
  <1> QED
    BY <1>5, <1>6, <1>7, <1>8, <1>9, <1>10 DEF OnceInv

\* Every step keeps the invariant.
LEMMA OnceStep ==
  ASSUME TypeOK, OnceInv, [Next]_vars
  PROVE  OnceInv'
  <1>1. CASE UNCHANGED vars \/ AgentStarts \/ AgentEnds \/ ExternalStarts \/ ExternalEnds
    BY <1>1, OnceSame DEF vars, queueVars, drainVars, runVars, historyVars, AgentStarts,
                          AgentEnds, ExternalStarts, ExternalEnds, OnceInv, OnlyRunsHold
  <1>2. ASSUME NEW m \in Messages, NEW o \in Queues, NEW md \in Modes,
               Enqueue(m, o, md) \/ EnqueueRefused(m, o, md) \/ EnqueueDuplicate(m, o, md)
        PROVE  OnceInv'
    <2>1. CASE Enqueue(m, o, md)
      BY <2>1, OnceEnqueue
    <2>2. CASE EnqueueRefused(m, o, md) \/ EnqueueDuplicate(m, o, md)
      <3>1. \A x \in Queues : pc'[x] = "run" <=> pc[x] = "run"
        BY <2>2, AfterEnqueueFacts DEF EnqueueRefused, EnqueueDuplicate
      <3>2. UNCHANGED <<items, summaryLines, batch, taking, recent, handled, discarded>>
        BY <2>2 DEF EnqueueRefused, EnqueueDuplicate, runVars, historyVars
      <3> QED
        BY <3>1, <3>2, OnceSame DEF OnceInv, OnlyRunsHold
    <2> QED
      BY <1>2, <2>1, <2>2
  <1>3. CASE \E o \in Queues : Wake(o) \/ RunEnds(o) \/ RunThrows(o)
    BY <1>3, OnceWake, OnceRunEnds, OnceRunThrows
  <1>4. CASE ClearFollowupQueue
    BY <1>4, OnceClear
  <1>5. CASE FinalizeWithFollowup
    BY <1>5, FinalizeFacts, OnceSame DEF FinalizeWithFollowup, queueVars, runVars, historyVars,
                                         OnceInv, OnlyRunsHold
  <1> QED
    BY <1>1, <1>2, <1>3, <1>4, <1>5 DEF Next

\* Once a run of a message has come to its end the message is not run again,
\* whatever is redelivered, dropped by policy, cleared, collected or tried again,
\* and however many objects and drains the key had meanwhile.
THEOREM NeverTwice == Spec => []HandledOnce
  <1>1. Init => OnceInv
    BY OnceInit
  <1>2. TypeOK /\ OnceInv /\ [Next]_vars => OnceInv'
    BY OnceStep
  <1>3. OnceInv => HandledOnce
    BY DEF OnceInv, NoRepeats, Held, Injective, HandledOnce
  <1> QED
    BY <1>1, <1>2, <1>3, TypeCorrect, PTL DEF Spec

\* A run that starts is given nothing that was cleared or dropped.
StartsWanted ==
  \A o \in Queues : pc[o] # "run" /\ pc'[o] = "run" =>
    Elements(batch'[o]) \cap discarded = {}

\* Only a drain that wakes up starts a run, with messages still wanted.
LEMMA WantedStep ==
  ASSUME TypeOK, OnceInv, [Next]_vars
  PROVE  StartsWanted
  <1> SUFFICES ASSUME NEW o \in Queues, pc[o] # "run", pc'[o] = "run"
               PROVE  Elements(batch'[o]) \cap discarded = {}
    BY DEF StartsWanted
  <1>1. ~(\/ UNCHANGED vars \/ AgentStarts \/ AgentEnds \/ ExternalStarts \/ ExternalEnds
          \/ ClearFollowupQueue)
    BY DEF vars, drainVars, AgentStarts, AgentEnds, ExternalStarts, ExternalEnds,
           ClearFollowupQueue
  <1>2. ~FinalizeWithFollowup
    BY FinalizeFacts
  <1>3. ASSUME NEW m \in Messages, NEW x \in Queues, NEW md \in Modes,
               Enqueue(m, x, md) \/ EnqueueRefused(m, x, md) \/ EnqueueDuplicate(m, x, md)
        PROVE  FALSE
    <2>1. GetFollowupQueue(x, md) /\ AfterEnqueue(x)
      BY <1>3 DEF Enqueue, EnqueueRefused, EnqueueDuplicate
    <2> QED
      BY <2>1, AfterEnqueueFacts
  <1>4. ASSUME NEW x \in Queues, RunEnds(x) \/ RunThrows(x)
        PROVE  FALSE
    <2>1. DrainLeft(x)
      BY <1>4, NextRoundFacts, EndDrainFacts DEF RunEnds, RunThrows
    <2> QED
      BY <2>1 DEF DrainLeft, OthersRun
  <1>5. ASSUME NEW x \in Queues, Wake(x)
        PROVE  Elements(batch'[o]) \cap discarded = {}
    <2>1. /\ OthersRun(x)
          /\ \/ pc'[x] # "run" /\ batch' = batch /\ taking' = taking
             \/ \E b \in Seq(Messages), n \in Nat :
                  /\ pc'[x] = "run" /\ Takes(x, b, n)
                  /\ \A y \in Queues : /\ batch'[y] = IF y = x THEN b ELSE batch[y]
                                       /\ taking'[y] = IF y = x THEN n ELSE taking[y]
      BY <1>5, WakeFacts
    <2>2. x = o
      BY <2>1 DEF OthersRun
    <2>3. PICK b \in Seq(Messages), n \in Nat : Takes(o, b, n) /\ batch'[o] = b
      BY <2>1, <2>2
    <2>4. items[o] \in Seq(Messages) /\ Injective(items[o])
      BY DEF TypeOK, OnceInv, NoRepeats
    <2>5. Elements(b) \subseteq Elements(items[o])
      BY <2>3, <2>4, TakesFacts
    <2> QED
      BY <2>3, <2>5 DEF OnceInv, StillWanted
  <1> QED
    BY <1>1, <1>2, <1>3, <1>4, <1>5 DEF Next

\* A message that was cleared is never given to the agent afterwards, by no
\* drain of an object the registry has forgotten either.
THEOREM ClearedForGood == Spec => ClearedStaysCleared
  <1>1. Init => OnceInv
    BY OnceInit
  <1>2. TypeOK /\ OnceInv /\ [Next]_vars => OnceInv' /\ StartsWanted
    BY OnceStep, WantedStep
  <1>3. StartsWanted <=> \A o \in Queues : pc[o] # "run" /\ pc'[o] = "run" =>
                           Elements(batch'[o]) \cap discarded = {}
    BY DEF StartsWanted
  <1> QED
    BY <1>1, <1>2, <1>3, TypeCorrect, PTL DEF Spec, ClearedStaysCleared

-----------------------------------------------------------------------------
(* Messages are handled in order when nothing takes them out of the queue  *)
(* but a run that came to its end.                                         *)

\* Only the registered object is drained, and only it holds messages.
OneObject ==
  /\ \A o \in Queues : draining[o] => o = current
  /\ \A o \in Queues \ {current} : items[o] = <<>>

\* What was accepted and not handled yet is queued there, in order.
Waiting == IF current = 0 THEN <<>> ELSE items[current]

\* A run is given a part of the queue from its head on, and will take it out.
FromHead ==
  \A o \in Queues : pc[o] = "run" =>
    taking[o] <= Len(items[o]) /\ batch[o] = SubSeq(items[o], 1, taking[o])

OrderInv == OneObject /\ FromHead /\ accepted = handled \o Waiting

\* How a step may leave the registry, given the object c it looks at: the entry
\* goes only when c is empty.
Registered(c) ==
  /\ \A x \in Queues : draining'[x] => x = current'
  /\ current' = c \/ (current' = 0 /\ (c = 0 \/ items'[c] = <<>>))

LEMMA ScheduleRegisters ==
  ASSUME NEW c \in Queues \cup {0}, NEW d \in [Queues -> BOOLEAN], NEW p,
         \A x \in Queues : d[x] => x = c,
         ScheduleFollowupDrain(c, d, p)
  PROVE  Registered(c)
  <1>1. CASE c = 0 \/ (c # 0 /\ d[c])
    BY <1>1 DEF ScheduleFollowupDrain, Registered
  <1>2. CASE c # 0 /\ ~d[c] /\ items'[c] = <<>> /\ droppedCount'[c] = 0
    BY <1>2 DEF ScheduleFollowupDrain, Registered
  <1>3. CASE c # 0 /\ ~d[c] /\ ~(items'[c] = <<>> /\ droppedCount'[c] = 0)
    BY <1>3 DEF ScheduleFollowupDrain, Registered
  <1> QED
    BY <1>1, <1>2, <1>3

LEMMA EndDrainRegisters ==
  ASSUME TypeOK, OneObject, NEW o \in Queues, o = current, EndDrain(o)
  PROVE  Registered(current)
  <1> DEFINE d == [draining EXCEPT ![o] = FALSE]
             p == [pc EXCEPT ![o] = "off"]
  <1>1. d \in [Queues -> BOOLEAN] /\ \A x \in Queues : ~d[x]
    BY DEF TypeOK, OneObject
  <1>2. CASE items'[o] = <<>> /\ droppedCount'[o] = 0
    <2>1. current' = 0 /\ draining' = d
      BY <1>2 DEF EndDrain
    <2> HIDE DEF d
    <2> QED
      BY <1>1, <1>2, <2>1 DEF Registered
  <1>3. CASE ~(items'[o] = <<>> /\ droppedCount'[o] = 0)
    <2>1. ScheduleFollowupDrain(current, d, p)
      BY <1>3 DEF EndDrain
    <2> HIDE DEF d, p
    <2> QED
      BY <1>1, <2>1, ScheduleRegisters
  <1> QED
    BY <1>2, <1>3

\* A step that leaves the queues alone and starts no run.
LEMMA OrderSame ==
  ASSUME TypeOK, OrderInv, Registered(current),
         UNCHANGED <<items, accepted, handled>>,
         \A x \in Queues : pc'[x] = "run" =>
           taking'[x] <= Len(items[x]) /\ batch'[x] = SubSeq(items[x], 1, taking'[x])
  PROVE  OrderInv'
  <1>1. OneObject'
    BY DEF OrderInv, OneObject, Registered
  <1>2. Waiting' = Waiting
    BY DEF Waiting, Registered
  <1>3. FromHead'
    BY DEF FromHead
  <1> QED
    BY <1>1, <1>2, <1>3 DEF OrderInv

\* Until it is refused, a message goes to the end of the registered object's
\* queue, and with it to the end of what is waiting.
LEMMA OrderEnqueue ==
  ASSUME TypeOK, OrderInv, Policy = "new",
         NEW m \in Messages, NEW o \in Queues, NEW md \in Modes,
         Enqueue(m, o, md) \/ EnqueueRefused(m, o, md) \/ EnqueueDuplicate(m, o, md)
  PROVE  OrderInv'
  <1>1. GetFollowupQueue(o, md) /\ AfterEnqueue(o)
    BY DEF Enqueue, EnqueueRefused, EnqueueDuplicate
  <1>2. /\ o = current \/ (current = 0 /\ o = created + 1)
        /\ \A x \in Queues : pc'[x] = "run" <=> pc[x] = "run"
    BY <1>1, AfterEnqueueFacts
  <1>3. draining \in [Queues -> BOOLEAN] /\ 0 \notin Queues
    BY DEF TypeOK, Queues
  <1>4. \A x \in Queues : draining[x] => x = o
    BY <1>2, <1>3 DEF OrderInv, OneObject
  <1>5. Registered(o)
    <2>1. CASE Active
      BY <1>1, <1>4, <2>1 DEF AfterEnqueue, Registered
    <2>2. CASE ~Active
      BY <1>1, <1>3, <1>4, <2>2, ScheduleRegisters DEF AfterEnqueue
    <2> QED
      BY <2>1, <2>2
  <1>6. items \in [Queues -> Seq(Messages)] /\ items[o] \in Seq(Messages)
        /\ Waiting = items[o]
    <2>1. items \in [Queues -> Seq(Messages)] /\ items[o] \in Seq(Messages)
      BY DEF TypeOK
    <2>2. CASE o = current
      BY <1>3, <2>1, <2>2 DEF Waiting
    <2>3. CASE current = 0
      <3>1. items[o] = <<>>
        BY <1>3, <2>3 DEF OrderInv, OneObject
      <3> QED
        BY <2>1, <2>3, <3>1 DEF Waiting
    <2> QED
      BY <1>2, <2>1, <2>2, <2>3
  <1>7. \A x \in Queues \ {o} : items[x] = <<>>
    BY <1>2, <1>3 DEF OrderInv, OneObject
  <1>8. CASE Enqueue(m, o, md)
    <2>1. items' = [items EXCEPT ![o] = Append(Drop(@, 0), m)]
          /\ accepted' = Append(accepted, m) /\ UNCHANGED <<handled, batch, taking>>
      BY <1>8 DEF Enqueue, runVars
    <2>2. Drop(items[o], 0) = items[o]
      BY <1>6, SubSeqFull DEF Drop
    <2>3. items'[o] = Append(items[o], m) /\ \A x \in Queues \ {o} : items'[x] = items[x]
      BY <1>6, <2>1, <2>2
    <2>4. Append(items[o], m) # <<>>
      BY <1>6
    <2>5. current' = o /\ OneObject'
      BY <1>3, <1>5, <1>7, <2>3, <2>4 DEF Registered, OneObject
    <2>6. Waiting' = Append(items[o], m)
      BY <1>3, <2>3, <2>5 DEF Waiting
    <2>7. accepted' = handled' \o Append(items[o], m)
      <3>1. handled \in Seq(Messages) /\ accepted = handled \o items[o]
        <4>1. accepted = handled \o Waiting /\ handled \in Seq(Messages)
          BY DEF TypeOK, OrderInv
        <4> QED
          BY <1>6, <4>1
      <3> DEFINE s == items[o]
                 one == <<m>>
      <3>2. s \in Seq(Messages) /\ one \in Seq(Messages)
        BY <1>6
      <3>3. Append(s, m) = s \o one /\ Append(handled \o s, m) = (handled \o s) \o one
        BY <3>1, <3>2, AppendIsConcat, ConcatProperties
      <3> HIDE DEF s, one
      <3>4. (handled \o s) \o one = handled \o (s \o one)
        BY <3>1, <3>2, ConcatAssociative
      <3> QED
        BY <2>1, <3>1, <3>3, <3>4 DEF s
    <2>8. FromHead'
      <3> SUFFICES ASSUME NEW x \in Queues, pc'[x] = "run"
                   PROVE  taking'[x] <= Len(items'[x])
                          /\ batch'[x] = SubSeq(items'[x], 1, taking'[x])
        BY DEF FromHead
      <3>1. /\ taking[x] \in Nat /\ taking[x] <= Len(items[x])
            /\ batch[x] = SubSeq(items[x], 1, taking[x])
        BY <1>2 DEF OrderInv, FromHead, TypeOK
      <3>2. CASE x = o
        <4> DEFINE s == items[o]
                   n == taking[o]
        <4>1. s \in Seq(Messages) /\ n \in Nat /\ n <= Len(s)
          BY <1>6, <3>1, <3>2
        <4> HIDE DEF s, n
        <4>2. n <= Len(Append(s, m)) /\ SubSeq(Append(s, m), 1, n) = SubSeq(s, 1, n)
          BY <4>1
        <4> QED
          BY <2>1, <2>3, <3>1, <3>2, <4>2 DEF s, n
      <3>3. CASE x # o
        BY <2>1, <2>3, <3>1, <3>3
      <3> QED
        BY <3>2, <3>3
    <2> QED
      BY <2>5, <2>6, <2>7, <2>8 DEF OrderInv
  <1>9. CASE EnqueueRefused(m, o, md) \/ EnqueueDuplicate(m, o, md)
    <2>1. UNCHANGED <<items, batch, taking, accepted, handled>>
      BY <1>9 DEF EnqueueRefused, EnqueueDuplicate, runVars, historyVars
    <2>2. OneObject'
      BY <1>5, <1>7, <2>1 DEF OneObject, Registered
    <2>3. Waiting' = Waiting
      BY <1>3, <1>5, <1>6, <2>1 DEF Waiting, Registered
    <2>4. FromHead'
      BY <1>2, <2>1 DEF OrderInv, FromHead
    <2> QED
      BY <2>1, <2>2, <2>3, <2>4 DEF OrderInv
  <1> QED
    BY <1>8, <1>9

\* A drain that wakes up leaves the registry alone, or its object is empty.
LEMMA WakeRegisters ==
  ASSUME TypeOK, OneObject, NEW o \in Queues, Wake(o)
  PROVE  o = current /\ Registered(current)
  <1>1. pc[o] \in {"debounce", "checked"}
    BY DEF Wake, WakeFollowup, WakeCollect, CollectBatch
  <1>2. o = current /\ 0 \notin Queues
    BY <1>1 DEF TypeOK, OneObject, Queues
  <1>3. CASE EndDrain(o)
    BY <1>2, <1>3, EndDrainRegisters
  <1>4. CASE UNCHANGED <<current, draining>>
    BY <1>2, <1>4 DEF OneObject, Registered
  <1>5. EndDrain(o) \/ UNCHANGED <<current, draining>>
    <2>1. CASE WakeFollowup(o)
      BY <2>1 DEF WakeFollowup, StartRun
    <2>2. CASE WakeCollect(o)
      BY <2>2 DEF WakeCollect, StartRun
    <2>3. CASE CollectBatch(o)
      BY <2>3 DEF CollectBatch, StartRun
    <2> QED
      BY <2>1, <2>2, <2>3 DEF Wake
  <1> QED
    BY <1>2, <1>3, <1>4, <1>5

\* A run is given the head of the queue, or all of it.
LEMMA OrderWake ==
  ASSUME TypeOK, OrderInv, Policy = "new", NEW o \in Queues, Wake(o)
  PROVE  OrderInv'
  <1>1. Registered(current)
    BY WakeRegisters DEF OrderInv
  <1>2. /\ UNCHANGED <<items, accepted, handled>> /\ OthersRun(o)
        /\ \/ pc'[o] # "run" /\ batch' = batch /\ taking' = taking
           \/ \E b \in Seq(Messages), n \in Nat :
                /\ pc'[o] = "run" /\ Takes(o, b, n)
                /\ \A x \in Queues : /\ batch'[x] = IF x = o THEN b ELSE batch[x]
                                     /\ taking'[x] = IF x = o THEN n ELSE taking[x]
    BY WakeFacts DEF queueVars, historyVars
  <1>3. ASSUME NEW x \in Queues, pc'[x] = "run"
        PROVE  taking'[x] <= Len(items[x]) /\ batch'[x] = SubSeq(items[x], 1, taking'[x])
    <2>1. CASE x # o
      <3>1. pc[x] = "run" /\ batch'[x] = batch[x] /\ taking'[x] = taking[x]
        BY <1>2, <1>3, <2>1 DEF OthersRun
      <3> QED
        BY <3>1 DEF OrderInv, FromHead
    <2>2. CASE x = o
      <3>1. PICK b \in Seq(Messages), n \in Nat :
              Takes(o, b, n) /\ batch'[o] = b /\ taking'[o] = n
        BY <1>2, <1>3, <2>2
      <3>2. ~HasSummary(o)
        BY DEF HasSummary
      <3> DEFINE s == items[o]
      <3>3. s \in Seq(Messages) /\ Len(s) \in Nat
        BY DEF TypeOK
      <3>4. \/ s # <<>> /\ b = <<Head(s)>> /\ n = 1
            \/ b = s /\ n = Len(s)
        BY <3>1, <3>2 DEF Takes
      <3> HIDE DEF s
      <3>5. n <= Len(s) /\ b = SubSeq(s, 1, n)
        <4>1. CASE s # <<>> /\ b = <<Head(s)>> /\ n = 1
          <5>1. Len(s) \in Nat \ {0}
            BY <3>3, <4>1, EmptySeq
          <5>2. Len(b) = 1 /\ b[1] = s[1]
            BY <3>3, <4>1
          <5>3. /\ SubSeq(s, 1, 1) \in Seq(Messages) /\ Len(SubSeq(s, 1, 1)) = 1
                /\ SubSeq(s, 1, 1)[1] = s[1]
            BY <3>3, <5>1, TakeFacts
          <5>4. b = SubSeq(s, 1, 1)
            BY <3>1, <5>2, <5>3, SeqEqual
          <5> QED
            BY <4>1, <5>1, <5>4
        <4>2. CASE b = s /\ n = Len(s)
          BY <3>3, <4>2, SubSeqFull
        <4> QED
          BY <3>4, <4>1, <4>2
      <3> QED
        BY <2>2, <3>1, <3>5 DEF s
    <2> QED
      BY <2>1, <2>2
  <1> QED
    BY <1>1, <1>2, <1>3, OrderSame

LEMMA TakenAndLeft ==
  ASSUME NEW S, NEW s \in Seq(S), NEW n \in Nat, n <= Len(s)
  PROVE  SubSeq(s, 1, n) \o Drop(s, n) = s
  <1>1. Len(s) \in Nat
    BY LenProperties
  <1>2. 1 \in 1..Len(s) + 1 /\ n \in (1 - 1)..Len(s) /\ Len(s) \in n..Len(s)
    BY <1>1
  <1>3. SubSeq(s, 1, n) \o SubSeq(s, n + 1, Len(s)) = SubSeq(s, 1, Len(s))
    BY <1>2, ConcatAdjacentSubSeq
  <1> QED
    BY <1>3, SubSeqFull DEF Drop

\* The handled messages are the head of what was waiting.
LEMMA OrderRunEnds ==
  ASSUME TypeOK, OrderInv, NEW o \in Queues, RunEnds(o)
  PROVE  OrderInv'
  <1>1. pc[o] = "run" /\ NextRound(o)
        /\ items' = [items EXCEPT ![o] = Drop(@, Lesser(taking[o], Len(@)))]
        /\ handled' = handled \o batch[o] /\ UNCHANGED accepted
    BY DEF RunEnds
  <1>2. o = current /\ 0 \notin Queues
    BY <1>1 DEF TypeOK, OrderInv, OneObject, Queues
  <1> DEFINE s == items[o]
             n == taking[o]
  <1>3. /\ items \in [Queues -> Seq(Messages)] /\ s \in Seq(Messages)
        /\ Len(s) \in Nat /\ n \in Nat /\ n <= Len(s)
        /\ batch[o] = SubSeq(s, 1, n) /\ handled \in Seq(Messages)
    <2>1. /\ items \in [Queues -> Seq(Messages)] /\ items[o] \in Seq(Messages)
          /\ taking[o] \in Nat /\ handled \in Seq(Messages)
      BY DEF TypeOK
    <2>2. taking[o] <= Len(items[o]) /\ batch[o] = SubSeq(items[o], 1, taking[o])
      BY <1>1 DEF OrderInv, FromHead
    <2> QED
      BY <2>1, <2>2, LenProperties
  <1>4. items'[o] = Drop(s, n) /\ \A x \in Queues \ {o} : items'[x] = items[x]
    BY <1>1, <1>3 DEF Lesser
  <1>5. accepted = handled \o s
    BY <1>2 DEF OrderInv, Waiting
  <1>6. Registered(current)
    <2>1. CASE items'[o] = <<>> /\ droppedCount'[o] = 0
      BY <1>1, <1>2, <2>1, EndDrainRegisters DEF NextRound, OrderInv
    <2>2. CASE ~(items'[o] = <<>> /\ droppedCount'[o] = 0)
      BY <1>1, <2>2 DEF NextRound, OrderInv, OneObject, Registered
    <2> QED
      BY <2>1, <2>2
  <1>7. OneObject'
    BY <1>2, <1>4, <1>6 DEF OrderInv, OneObject, Registered
  <1>8. Waiting' = Drop(s, n)
    BY <1>2, <1>4, <1>6 DEF Waiting, Registered
  <1> HIDE DEF s, n
  <1>9. accepted' = handled' \o Drop(s, n)
    <2>1. SubSeq(s, 1, n) \in Seq(Messages) /\ Drop(s, n) \in Seq(Messages)
      BY <1>3, TakeFacts, DropFacts
    <2>2. SubSeq(s, 1, n) \o Drop(s, n) = s
      BY <1>3, TakenAndLeft
    <2> DEFINE taken == SubSeq(s, 1, n)
               left == Drop(s, n)
    <2>3. (handled \o taken) \o left = handled \o s
      <3>1. taken \in Seq(Messages) /\ left \in Seq(Messages) /\ handled \in Seq(Messages)
        BY <1>3, <2>1
      <3>2. taken \o left = s
        BY <2>2
      <3> HIDE DEF taken, left
      <3>3. (handled \o taken) \o left = handled \o (taken \o left)
        BY <3>1, ConcatAssociative
      <3> QED
        BY <3>2, <3>3
    <2> QED
      BY <1>1, <1>3, <1>5, <2>3
  <1>10. FromHead'
    <2>1. pc'[o] # "run" /\ OthersRun(o)
      BY <1>1, NextRoundFacts DEF DrainLeft
    <2>2. \A x \in Queues \ {o} : pc[x] # "run"
      BY <1>2 DEF TypeOK, OrderInv, OneObject
    <2> QED
      BY <2>1, <2>2 DEF FromHead, OthersRun
  <1> QED
    BY <1>7, <1>8, <1>9, <1>10 DEF OrderInv

\* A run that throws takes nothing out.
LEMMA OrderRunThrows ==
  ASSUME TypeOK, OrderInv, NEW o \in Queues, RunThrows(o)
  PROVE  OrderInv'
  <1>1. pc[o] = "run" /\ EndDrain(o) /\ UNCHANGED <<items, accepted, handled>>
    BY DEF RunThrows, queueVars, historyVars
  <1>2. o = current
    BY <1>1 DEF TypeOK, OrderInv, OneObject
  <1>3. Registered(current)
    BY <1>1, <1>2, EndDrainRegisters DEF OrderInv
  <1>4. \A x \in Queues : pc'[x] # "run"
    <2>1. pc'[o] # "run" /\ OthersRun(o)
      BY <1>1, EndDrainFacts DEF DrainLeft
    <2>2. \A x \in Queues \ {o} : pc[x] # "run"
      BY <1>2 DEF TypeOK, OrderInv, OneObject
    <2> QED
      BY <2>1, <2>2 DEF OthersRun
  <1> QED
    BY <1>1, <1>3, <1>4, OrderSame

LEMMA OrderStep ==
  ASSUME Policy = "new", MayClear = FALSE, TypeOK, OrderInv, [Next]_vars
  PROVE  OrderInv'
  <1>1. CASE UNCHANGED vars \/ AgentStarts \/ AgentEnds \/ ExternalStarts \/ ExternalEnds
    <2>1. UNCHANGED <<current, items, draining, pc, batch, taking, accepted, handled>>
      BY <1>1 DEF vars, queueVars, drainVars, runVars, historyVars, AgentStarts, AgentEnds,
             ExternalStarts, ExternalEnds
    <2> QED
      BY <2>1 DEF OrderInv, OneObject, Waiting, FromHead
  <1>2. CASE \E m \in Messages, o \in Queues : \E md \in Modes :
               Enqueue(m, o, md) \/ EnqueueRefused(m, o, md) \/ EnqueueDuplicate(m, o, md)
    BY <1>2, OrderEnqueue
  <1>3. CASE \E o \in Queues : Wake(o) \/ RunEnds(o) \/ RunThrows(o)
    BY <1>3, OrderWake, OrderRunEnds, OrderRunThrows
  <1>4. CASE ClearFollowupQueue
    BY <1>4 DEF ClearFollowupQueue
  <1>5. CASE FinalizeWithFollowup
    <2>1. /\ ScheduleFollowupDrain(current, draining, pc)
          /\ UNCHANGED <<items, batch, taking, accepted, handled>>
      BY <1>5 DEF FinalizeWithFollowup, queueVars, runVars, historyVars
    <2>2. Registered(current)
      BY <2>1, CountersTyped, DrainsAreTyped, ScheduleRegisters
         DEF DrainsTyped, OrderInv, OneObject
    <2>3. \A x \in Queues : pc'[x] = "run" <=> pc[x] = "run"
      BY <1>5, FinalizeFacts
    <2> QED
      BY <2>1, <2>2, <2>3, OrderSame DEF OrderInv, FromHead
  <1> QED
    BY <1>1, <1>2, <1>3, <1>4, <1>5 DEF Next

LEMMA OrderInit ==
  ASSUME Init
  PROVE  OrderInv
  <1>1. current = 0 /\ accepted = <<>> /\ handled = <<>>
        /\ \A o \in Queues : items[o] = <<>> /\ draining[o] = FALSE /\ pc[o] = "off"
    BY DEF Init
  <1> QED
    BY <1>1 DEF OrderInv, OneObject, FromHead, Waiting

\* Under policy "new", which refuses what it has no room for, and without a clear,
\* messages are handled completely and in the order in which they came, one
\* drain at a time, whatever fails and is tried again.
THEOREM FirstComeFirst ==
  ASSUME Policy = "new", MayClear = FALSE
  PROVE  Spec => []HandledInOrder
  <1>1. Init => OrderInv
    BY OrderInit
  <1>2. TypeOK /\ OrderInv /\ [Next]_vars => OrderInv'
    BY OrderStep
  <1>3. TypeOK /\ OrderInv => HandledInOrder
    <2> SUFFICES ASSUME TypeOK, OrderInv
                 PROVE  HandledInOrder
      OBVIOUS
    <2>1. handled \in Seq(Messages) /\ Waiting \in Seq(Messages)
      BY CountersTyped DEF TypeOK, Waiting
    <2>2. accepted = handled \o Waiting
      BY DEF OrderInv
    <2>3. /\ Len(accepted) = Len(handled) + Len(Waiting)
          /\ \A i \in 1..Len(handled) : accepted[i] = handled[i]
          /\ Len(handled) \in Nat /\ Len(Waiting) \in Nat
      BY <2>1, <2>2, ConcatProperties, LenProperties
    <2> QED
      BY <2>3 DEF HandledInOrder
  <1> QED
    BY <1>1, <1>2, <1>3, TypeCorrect, PTL DEF Spec

=============================================================================
