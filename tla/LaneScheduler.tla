--------------------------- MODULE LaneScheduler ---------------------------
(***************************************************************************)
(* What the command queue promises its callers, without pump loops, task   *)
(* ids, generations or re-entrancy: on every lane commands are started in  *)
(* the order in which they were accepted, one at a time when there is room *)
(* under the lane's limit, and each ends once.  After a restart in process *)
(* the lanes forget the commands that were running, which go on            *)
(* unsupervised, and keep those that were waiting.                         *)
(***************************************************************************)
EXTENDS Naturals, Sequences, FiniteSets

CONSTANTS Lanes, Commands, LaneOf

VARIABLES
  waiting,    \* per lane: accepted commands, oldest first
  running,    \* per lane: the commands that use a slot
  limit,      \* per lane: the number of slots
  accepting,  \* new commands are accepted
  outcome     \* per command: where it is

vars == <<waiting, running, limit, accepting, outcome>>

Init ==
  /\ waiting = [l \in Lanes |-> <<>>]
  /\ running = [l \in Lanes |-> {}]
  /\ limit = [l \in Lanes |-> 1]
  /\ accepting = TRUE
  /\ outcome = [c \in Commands |-> "none"]

Accept(c) ==
  /\ outcome[c] = "none"
  /\ accepting
  /\ waiting' = [waiting EXCEPT ![LaneOf[c]] = Append(@, c)]
  /\ outcome' = [outcome EXCEPT ![c] = "queued"]
  /\ UNCHANGED <<running, limit, accepting>>

Refuse(c) ==
  /\ outcome[c] = "none"
  /\ ~accepting
  /\ outcome' = [outcome EXCEPT ![c] = "refused"]
  /\ UNCHANGED <<waiting, running, limit, accepting>>

Start(l) ==
  /\ waiting[l] # <<>>
  /\ Cardinality(running[l]) < limit[l]
  /\ waiting' = [waiting EXCEPT ![l] = Tail(@)]
  /\ running' = [running EXCEPT ![l] = @ \cup {Head(waiting[l])}]
  /\ outcome' = [outcome EXCEPT ![Head(waiting[l])] = "running"]
  /\ UNCHANGED <<limit, accepting>>

\* A command that a restart made the lane forget is in no running set.
End(c) ==
  /\ outcome[c] = "running"
  /\ running' = [running EXCEPT ![LaneOf[c]] = @ \ {c}]
  /\ \E result \in {"resolved", "rejected"} :
       outcome' = [outcome EXCEPT ![c] = result]
  /\ UNCHANGED <<waiting, limit, accepting>>

Clear(l) ==
  /\ waiting' = [waiting EXCEPT ![l] = <<>>]
  /\ outcome' = [c \in Commands |->
                   IF \E i \in DOMAIN waiting[l] : waiting[l][i] = c
                   THEN "cleared" ELSE outcome[c]]
  /\ UNCHANGED <<running, limit, accepting>>

SetLimit(l) ==
  /\ limit'[l] \in Nat \ {0}
  /\ limit' = [limit EXCEPT ![l] = limit'[l]]
  /\ UNCHANGED <<waiting, running, accepting, outcome>>

Close ==
  /\ accepting' = FALSE
  /\ UNCHANGED <<waiting, running, limit, outcome>>

Restart ==
  /\ accepting' = TRUE
  /\ running' = [l \in Lanes |-> {}]
  /\ UNCHANGED <<waiting, limit, outcome>>

Next ==
  \/ \E c \in Commands : Accept(c) \/ Refuse(c) \/ End(c)
  \/ \E l \in Lanes : Start(l) \/ Clear(l) \/ SetLimit(l)
  \/ Close
  \/ Restart

Spec == Init /\ [][Next]_vars
=============================================================================
