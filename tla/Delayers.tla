------------------------------ MODULE Delayers ------------------------------
(***************************************************************************)
(* ocs_system: the delayers that a task delays itself with for less than a *)
(* tick of FreeRTOS.  LowPowerDelayer waits for an AsyncFlagIsr that the   *)
(* alarm of a hardware timer signals; BusyLoopDelayer reads the timer's    *)
(* count until the delay has passed.                                       *)
(***************************************************************************)
EXTENDS Naturals

CONSTANT MaxStrays  \* notifications of the task that no alarm sends

StraysAreCounted == MaxStrays \in Nat

VARIABLES
  strategy,          \* DelayerStrategy; "none" before make_delayer()
  running,           \* the timer counts
  alarm,             \* "off", "armed", or "passed": the delay is over
  task_to_notify_,   \* the flag holds the task's handle
  notifications,     \* the notification count of the task
  pc,                \* where delay() is
  missed,            \* the alarm came before the handle (history)
  early,             \* a delay was over before its alarm (history)
  strays             \* the stray notifications sent

vars == <<strategy, running, alarm, task_to_notify_, notifications, pc,
          missed, early, strays>>

TypeOK ==
  /\ strategy \in {"none", "BusyLoop", "LowPower"}
  /\ alarm \in {"off", "armed", "passed"}
  /\ pc \in {"idle", "start", "wait", "take", "poll", "stop"}
  /\ notifications \in Nat /\ strays \in 0 .. MaxStrays
  /\ {running, task_to_notify_, missed, early} \subseteq BOOLEAN

Init ==
  /\ strategy = "none" /\ alarm = "off" /\ pc = "idle"
  /\ notifications = 0 /\ strays = 0
  /\ running = FALSE /\ task_to_notify_ = FALSE
  /\ missed = FALSE /\ early = FALSE

\* make_delayer(); the third strategy is vTaskDelay() of FreeRTOS.
MakeDelayer(s) ==
  /\ strategy = "none" /\ s \in {"BusyLoop", "LowPower"}
  /\ strategy' = s
  /\ UNCHANGED <<running, alarm, task_to_notify_, notifications, pc, missed,
                 early, strays>>

\* delay() up to gptimer_start(): the count is 0 and the alarm is set, whether
\* or not the timer still counts after an earlier delay() that failed.
Configure ==
  /\ strategy # "none" /\ pc = "idle"
  /\ pc' = "start" /\ alarm' = "armed" /\ missed' = FALSE
  /\ UNCHANGED <<strategy, running, task_to_notify_, notifications, early,
                 strays>>

\* gptimer_start() refuses a timer that counts.
StartTimer ==
  /\ pc = "start" /\ ~running
  /\ running' = TRUE
  /\ pc' = IF strategy = "LowPower" THEN "wait" ELSE "poll"
  /\ UNCHANGED <<strategy, alarm, task_to_notify_, notifications, missed,
                 early, strays>>

\* A call of the timer's driver that fails ends delay() with Error: what was
\* done before it stays done, a timer that counts goes on.
CallFails ==
  /\ pc \in {"start", "poll", "stop"}
  /\ pc' = "idle"
  /\ UNCHANGED <<strategy, running, alarm, task_to_notify_, notifications,
                 missed, early, strays>>

\* BasicAsyncFlag::wait() stores the handle, then waits without a limit.
StoreTask ==
  /\ pc = "wait"
  /\ task_to_notify_' = TRUE /\ pc' = "take"
  /\ UNCHANGED <<strategy, running, alarm, notifications, missed, early,
                 strays>>

Take ==
  /\ pc = "take" /\ notifications > 0
  /\ notifications' = 0 /\ pc' = "stop"
  /\ early' = (early \/ alarm # "passed")
  /\ UNCHANGED <<strategy, running, alarm, task_to_notify_, missed, strays>>

\* BusyLoopDelayer::delay() reads the count once more.
Poll ==
  /\ pc = "poll" /\ alarm = "passed"
  /\ pc' = "stop"
  /\ UNCHANGED <<strategy, running, alarm, task_to_notify_, notifications,
                 missed, early, strays>>

StopTimer ==
  /\ pc = "stop"
  /\ running' = FALSE /\ pc' = "idle"
  /\ UNCHANGED <<strategy, alarm, task_to_notify_, notifications, missed,
                 early, strays>>

\* Mutant of Alarm: the handle is taken and nobody is notified.
AlarmUnsignalled ==
  /\ running /\ alarm = "armed"
  /\ alarm' = "passed" /\ task_to_notify_' = FALSE
  /\ UNCHANGED <<strategy, running, notifications, pc, missed, early, strays>>

\* AsyncFlagIsr::signal() takes the handle and notifies the task, or answers
\* Error to nobody when there is no handle yet.
Signal ==
  /\ task_to_notify_' = FALSE
  /\ notifications' = notifications + (IF task_to_notify_ THEN 1 ELSE 0)

\* The delay is over: LowPowerDelayer's interrupt handler signals the flag.
Alarm ==
  /\ running /\ alarm = "armed"
  /\ alarm' = "passed"
  /\ Signal
  /\ missed' = ~task_to_notify_
  /\ UNCHANGED <<strategy, running, pc, early, strays>>

\* A notification of a Cond that the task once stopped waiting for.
Stray ==
  /\ strategy = "LowPower" /\ strays < MaxStrays
  /\ strays' = strays + 1 /\ notifications' = notifications + 1
  /\ UNCHANGED <<strategy, running, alarm, task_to_notify_, pc, missed, early>>

Next ==
  \/ \E s \in {"BusyLoop", "LowPower"} : MakeDelayer(s)
  \/ Configure \/ StartTimer \/ CallFails \/ StoreTask \/ Take \/ Poll
  \/ StopTimer \/ Alarm \/ Stray

Spec == Init /\ [][Next]_vars

(***************************************************************************)
(* Properties                                                              *)
(***************************************************************************)

\* delay() waits for good in one case only, that its alarm came before its
\* task stored the handle (the timer is started first); and it is over before
\* its alarm only when the task was notified by somebody else.
DelayAccounted ==
  /\ pc = "take" /\ alarm = "passed" /\ notifications = 0 => missed
  /\ early => strays > 0
=============================================================================
