------------------------- MODULE AsyncTaskScheduler -------------------------
(***************************************************************************)
(* ocs_scheduler/async_task_scheduler.cpp: tasks that a high resolution    *)
(* timer makes due.  The timer's callback, on the task of esp_timer, sets  *)
(* the event bit of its node; run(), on the task of the scheduler, takes   *)
(* every set bit at once and runs their nodes in the order they were       *)
(* added.  A node is named by its position, which is also its event bit.   *)
(***************************************************************************)
EXTENDS Naturals, Sequences, FiniteSets

CONSTANTS
  TaskIds,   \* the names that tasks are added under
  MaxCount   \* max_count(): the event bits FreeRTOS leaves to its users

MaxCountIsPositive == MaxCount \in Nat \ {0}

VARIABLES
  nodes,     \* nodes_: the names, in the order they were added
  timers,    \* the nodes whose timer runs
  expired,   \* the nodes whose timer expired and whose callback is to come
  bits,      \* event_group_: the nodes whose event bit is set
  call,      \* the call the task of the scheduler is in
  todo,      \* the nodes that call has still to come to
  owed       \* the nodes with a tick that no round has answered (history)

vars == <<nodes, timers, expired, bits, call, todo, owed>>

Nodes == 1 .. MaxCount

TypeOK ==
  /\ nodes \in Seq(TaskIds) /\ Len(nodes) <= MaxCount
  /\ timers \subseteq Nodes /\ expired \subseteq Nodes /\ bits \subseteq Nodes
  /\ call \in {"none", "start", "timers", "round"}
  /\ todo \subseteq Nodes /\ owed \subseteq Nodes

Init ==
  /\ nodes = <<>> /\ call = "none"
  /\ timers = {} /\ expired = {} /\ bits = {} /\ todo = {} /\ owed = {}

\* add(): Error when the scheduler is full, InvalidArg for a second node of
\* the same name; neither changes anything.
Add(id) ==
  /\ call = "none" /\ Len(nodes) < MaxCount
  /\ \A i \in DOMAIN nodes : nodes[i] # id
  /\ nodes' = Append(nodes, id)
  /\ UNCHANGED <<timers, expired, bits, call, todo, owed>>

\* start() runs every node once, then starts the timers.
Start ==
  /\ call = "none" /\ nodes # <<>>
  /\ call' = "start" /\ todo' = DOMAIN nodes
  /\ UNCHANGED <<nodes, timers, expired, bits, owed>>

\* The node that a call comes to next: the lowest bit first.
First(i) == i \in todo /\ \A j \in todo : i <= j

\* What start() does next once it has come to the last node.
AfterStart(left) ==
  IF left # {} THEN /\ call' = call /\ todo' = left
  ELSE IF call = "start" THEN call' = "timers" /\ todo' = DOMAIN nodes
  ELSE call' = "none" /\ todo' = {}

\* A node that fails is only logged.
StartNode ==
  /\ call = "start"
  /\ \E i \in todo : First(i) /\ AfterStart(todo \ {i})
  /\ UNCHANGED <<nodes, timers, expired, bits, owed>>

\* esp_timer_start_periodic() may fail, and start() answers OK all the same;
\* a timer that runs already goes on.
StartTimer ==
  /\ call = "timers"
  /\ \E i \in todo : /\ First(i) /\ AfterStart(todo \ {i})
                     /\ timers' \in {timers, timers \cup {i}}
  /\ UNCHANGED <<nodes, expired, bits, owed>>

\* stop(): the callback of a timer that expired before it still comes, and no
\* bit is cleared.
Stop ==
  /\ call = "none" /\ timers # {}
  /\ timers' = {}
  /\ UNCHANGED <<nodes, expired, bits, call, todo, owed>>

\* A timer expires: the tick is owed from here on.
Expire(i) ==
  /\ i \in timers
  /\ expired' = expired \cup {i} /\ owed' = owed \cup {i}
  /\ UNCHANGED <<nodes, timers, bits, call, todo>>

\* handle_cb_() and AsyncTask::run(), at any point of the scheduler's calls.
SetBits(i) ==
  /\ i \in expired
  /\ expired' = expired \ {i} /\ bits' = bits \cup {i}
  /\ UNCHANGED <<nodes, timers, call, todo, owed>>

\* Mutant of RunNode: the round ends at the first node, which failed.
RunNodeEndsRound ==
  /\ call = "round"
  /\ \E i \in todo : First(i) /\ owed' = owed \ {i}
  /\ todo' = {} /\ call' = "none"
  /\ UNCHANGED <<nodes, timers, expired, bits>>

\* run(): xEventGroupWaitBits() clears the bits it returns.
WaitBits ==
  /\ call = "none" /\ bits # {}
  /\ call' = "round" /\ todo' = bits /\ bits' = {}
  /\ UNCHANGED <<nodes, timers, expired, owed>>

\* run_(): a node that fails does not end the round.
RunNode ==
  /\ call = "round"
  /\ \E i \in todo : First(i) /\ owed' = owed \ {i} /\ todo' = todo \ {i}
  /\ call' = IF todo' = {} THEN "none" ELSE "round"
  /\ UNCHANGED <<nodes, timers, expired, bits>>

Next ==
  \/ \E id \in TaskIds : Add(id)
  \/ Start \/ StartNode \/ StartTimer \/ Stop
  \/ \E i \in Nodes : Expire(i) \/ SetBits(i)
  \/ WaitBits \/ RunNode

Spec == Init /\ [][Next]_vars

(***************************************************************************)
(* Properties                                                              *)
(***************************************************************************)

\* A tick is answered by a run of its task: until it is, its callback is to
\* come, its bit is set, or the round under way has still to come to it,
\* wherever a callback falls between the wait and the end of the round
\* (the bits are taken and cleared in one call).
NoLostTick ==
  owed \subseteq expired \cup bits \cup (IF call = "round" THEN todo ELSE {})

\* Every tick is answered, with the tasks of the scheduler and of esp_timer
\* running: the task of the scheduler calls run() again and again.
EveryTickAnswered == \A i \in Nodes : i \in owed ~> i \notin owed

\* The task of the scheduler ends the calls it began and, whatever other calls
\* it makes in between, comes back to run() again and again.
SchedulerStep == StartNode \/ StartTimer \/ RunNode

Fairness ==
  /\ WF_vars(SchedulerStep) /\ SF_vars(WaitBits)
  /\ \A i \in Nodes : WF_vars(SetBits(i))

FairSpec == Spec /\ Fairness
=============================================================================
