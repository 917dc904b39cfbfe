------------------------ MODULE PeriodicTaskScheduler -----------------------
(***************************************************************************)
(* ocs_scheduler/periodic_task_scheduler.cpp with the RateLimiter of every *)
(* node: the loop of the main task (SystemPipeline::start()) that runs     *)
(* each round the tasks whose interval has passed, then delays.            *)
(***************************************************************************)
EXTENDS Naturals, Sequences

CONSTANTS
  Intervals,     \* the intervals a task may be added with
  MaxTasks,      \* max_count of the scheduler
  MaxRunTime,    \* the longest a task runs
  Delay,         \* ConstantDelayEstimator: the delay after each round
  MaxTime        \* the bound of the clock

PeriodicAssumption ==
  /\ Intervals \subseteq Nat \ {0} /\ MaxTasks \in Nat \ {0}
  /\ MaxRunTime \in Nat /\ Delay \in Nat \ {0} /\ MaxTime \in Nat

VARIABLES
  now,        \* the clock
  tasks,      \* nodes_: [interval, last], last the start_ of the limiter
  pos         \* the node the round has come to; 0 outside of a round

vars == <<now, tasks, pos>>

TypeOK ==
  /\ now \in Nat /\ pos \in 0 .. MaxTasks
  /\ tasks \in Seq([interval : Intervals, last : Nat]) /\ Len(tasks) <= MaxTasks

Init == now = 1 /\ tasks = <<>> /\ pos = 0

\* add(): before the loop starts, with a name of its own for every task; a
\* full scheduler answers Error.
Add(interval) ==
  /\ now = 1 /\ pos = 0 /\ Len(tasks) < MaxTasks
  /\ tasks' = Append(tasks, [interval |-> interval, last |-> 0])
  /\ UNCHANGED <<now, pos>>

BeginRound ==
  /\ pos = 0 /\ tasks # <<>> /\ now < MaxTime
  /\ pos' = 1
  /\ UNCHANGED <<now, tasks>>

\* RateLimiter::allow(): the first call is always let through.  (The clock is
\* 64 bits of microseconds: it does not wrap.)
Allowed(t) == t.last = 0 \/ now >= t.last + t.interval

\* The delay follows the last node of a round.
Advance(d) ==
  /\ pos' = IF pos = Len(tasks) THEN 0 ELSE pos + 1
  /\ now' = now + d + (IF pos' = 0 THEN Delay ELSE 0)

\* Mutant of RunTask: the round ends at the first task that fails.
RunTaskEndsRound ==
  /\ pos # 0 /\ Allowed(tasks[pos])
  /\ tasks' = [tasks EXCEPT ![pos].last = now]
  /\ \E d \in 0 .. MaxRunTime :
       Advance(d) \/ (pos' = 0 /\ now' = now + d + Delay)

\* A task that is let through takes its time; whether it fails makes no
\* difference to the tasks after it.
RunTask ==
  /\ pos # 0 /\ Allowed(tasks[pos])
  /\ tasks' = [tasks EXCEPT ![pos].last = now]
  /\ \E d \in 0 .. MaxRunTime : Advance(d)

SkipTask ==
  /\ pos # 0 /\ ~Allowed(tasks[pos])
  /\ Advance(0)
  /\ UNCHANGED tasks

Next ==
  \/ \E i \in Intervals : Add(i)
  \/ BeginRound \/ RunTask \/ SkipTask

Spec == Init /\ [][Next]_vars

(***************************************************************************)
(* Properties                                                              *)
(***************************************************************************)

\* Whatever the tasks take and whether they fail, no task waits for longer
\* than its interval and one round of all tasks: nothing else is promised of
\* the interval a task is added with, since the tasks share one loop.
NoTaskStarves ==
  \A i \in DOMAIN tasks :
    now - tasks[i].last
      <= tasks[i].interval + Len(tasks) * MaxRunTime + Delay
=============================================================================
