------------------------- MODULE AsyncFuncScheduler -------------------------
(***************************************************************************)
(* scheduler::AsyncFuncScheduler with core::Future, core::Cond and the     *)
(* FreeRTOS task notifications below them.                                 *)
(*                                                                         *)
(* One task, the scheduler's, calls run() over and over                    *)
(* (SystemPipeline makes it a task of the PeriodicTaskScheduler).  Other   *)
(* tasks, the clients, call add() and wait for the future: AsyncFunc waits *)
(* with portMAX_DELAY (Patient), the HTTP handlers wait for some seconds   *)
(* and answer Timeout.  A function may itself call add().                  *)
(*                                                                         *)
(* Granularity: one action per critical section.  AsyncFuncScheduler::mu_  *)
(* and Future::mu_ are not variables, because no step of another task can  *)
(* come between the statements they protect.  Cond::wait is three steps:   *)
(* the check of the condition with the registration of the handle (both    *)
(* under Future::mu_), the wait for a notification, and the next check.    *)
(* "call k" is the k-th accepted function with its Future.                 *)
(***************************************************************************)
EXTENDS Naturals, Sequences, FiniteSets

CONSTANTS
  Clients,        \* tasks that call add() and wait for the future
  Patient,        \* the clients that wait with portMAX_DELAY
  NoClient,       \* owner of a call nobody waits for
  Codes,          \* status codes a function may return; the handlers' own answers
                  \* Timeout and InvalidState are kept apart from them
  MaxEventCount,  \* AsyncFuncScheduler::max_event_count_
  MaxCalls        \* bound: functions accepted in one behaviour

ASSUME ClientsAssumption == Patient \subseteq Clients /\ NoClient \notin Clients
ASSUME CodesAssumption == Codes # {} /\ Codes \cap {"Last", "Timeout"} = {}
ASSUME MaxEventCountAssumption == MaxEventCount \in Nat \ {0}
ASSUME MaxCallsAssumption == MaxCalls \in Nat

VARIABLES
  \* AsyncFuncScheduler
  write_queue,    \* calls added and not taken by run() yet
  read_queue,     \* the batch run() took
  pos,            \* position of the range-for over read_queue_
  spc,            \* where the scheduler's task is in run()
  \* Future and Cond, per call
  code,           \* Future::code_
  tasks,          \* Cond::tasks_: how often each client's handle is in it
  \* FreeRTOS
  notification,   \* notification value of each client task
  \* clients
  pc,             \* where each client is in add() / wait() / code()
  call,           \* the call whose future the client holds, 0 when none
  \* history
  submitted,      \* number of calls accepted
  executed,       \* number of function executions
  owner,          \* the client that waits for each call, or NoClient
  reply           \* the last answer each client got, with its call

schedulerVars == <<write_queue, read_queue, pos, spc>>
futureVars == <<code, tasks>>
clientVars == <<pc, call, reply>>
historyVars == <<submitted, executed, owner>>
vars == <<schedulerVars, futureVars, notification, clientVars, historyVars>>

Calls == 1..MaxCalls

TypeOK ==
  /\ write_queue \in Seq(Calls)
  /\ read_queue \in Seq(Calls)
  /\ pos \in Nat \ {0}
  /\ spc \in {"idle", "iterate", "func"}
  /\ code \in [Calls -> Codes \cup {"Last"}]
  /\ tasks \in [Calls -> [Clients -> Nat]]
  /\ notification \in [Clients -> Nat]
  /\ pc \in [Clients -> {"idle", "check", "blocked", "ready"}]
  /\ call \in [Clients -> Calls \cup {0}]
  /\ submitted \in Nat
  /\ executed \in Nat
  /\ owner \in [Calls -> Clients \cup {NoClient}]
  /\ reply \in [Clients -> [call : Calls \cup {0},
                            code : Codes \cup {"Last", "Timeout", "InvalidState"}]]

Init ==
  /\ write_queue = <<>>
  /\ read_queue = <<>>
  /\ pos = 1
  /\ spc = "idle"
  /\ code = [k \in Calls |-> "Last"]
  /\ tasks = [k \in Calls |-> [c \in Clients |-> 0]]
  /\ notification = [c \in Clients |-> 0]
  /\ pc = [c \in Clients |-> "idle"]
  /\ call = [c \in Clients |-> 0]
  /\ submitted = 0
  /\ executed = 0
  /\ owner = [k \in Calls |-> NoClient]
  /\ reply = [c \in Clients |-> [call |-> 0, code |-> "Last"]]

-----------------------------------------------------------------------------

(* add(): under mu_, a new Future and its function at the back of          *)
(* write_queue_, unless max_event_count_ functions are there already.      *)
PushBack ==
  /\ submitted < MaxCalls
  /\ Len(write_queue) # MaxEventCount
  /\ write_queue' = Append(write_queue, submitted + 1)
  /\ submitted' = submitted + 1

Add(c) ==
  /\ pc[c] = "idle"
  /\ PushBack
  /\ pc' = [pc EXCEPT ![c] = "check"]
  /\ call' = [call EXCEPT ![c] = submitted + 1]
  /\ owner' = [owner EXCEPT ![submitted + 1] = c]
  /\ UNCHANGED <<read_queue, pos, spc, futureVars, notification, reply, executed>>

(* add() returns nullptr: the queue is full, or there is no memory for the *)
(* Future.  Both callers turn it into InvalidState.                        *)
AddRefused(c) ==
  /\ pc[c] = "idle"
  /\ reply' = [reply EXCEPT ![c] = [call |-> 0, code |-> "InvalidState"]]
  /\ UNCHANGED <<schedulerVars, futureVars, notification, pc, call, historyVars>>

(* Mutant: the task blocks without its handle in the list. *)
WaitCheckUnregistered(c) ==
  /\ pc[c] = "check"
  /\ pc' = [pc EXCEPT ![c] = IF code[call[c]] = "Last" THEN "blocked" ELSE "ready"]
  /\ UNCHANGED <<schedulerVars, futureVars, notification, call, reply, historyVars>>

(* One round of the loop in Future::wait: under mu_, return when code_ is  *)
(* set, otherwise register the handle and release mu_.                     *)
WaitCheck(c) ==
  /\ pc[c] = "check"
  /\ IF code[call[c]] = "Last"
     THEN /\ tasks' = [tasks EXCEPT ![call[c]][c] = @ + 1]
          /\ pc' = [pc EXCEPT ![c] = "blocked"]
     ELSE /\ pc' = [pc EXCEPT ![c] = "ready"]
          /\ UNCHANGED tasks
  /\ UNCHANGED <<schedulerVars, code, notification, call, reply, historyVars>>

(* ulTaskNotifyTake(pdTRUE, wait) returns a count, and clears it. *)
NotifyTake(c) ==
  /\ pc[c] = "blocked"
  /\ notification[c] > 0
  /\ notification' = [notification EXCEPT ![c] = 0]
  /\ pc' = [pc EXCEPT ![c] = "check"]
  /\ UNCHANGED <<schedulerVars, futureVars, call, reply, historyVars>>

Return(c, result) ==
  /\ reply' = [reply EXCEPT ![c] = [call |-> call[c], code |-> result]]
  /\ pc' = [pc EXCEPT ![c] = "idle"]
  /\ call' = [call EXCEPT ![c] = 0]
  /\ UNCHANGED <<schedulerVars, futureVars, notification, historyVars>>

(* Mutant: a wait without limit times out as well. *)
WaitTimeoutAlways(c) ==
  /\ pc[c] = "blocked"
  /\ notification[c] = 0
  /\ Return(c, "Timeout")

(* ulTaskNotifyTake() returns 0 after the wait interval, wait() returns    *)
(* Error and the handler answers Timeout.  The handle stays in tasks_.     *)
WaitTimeout(c) ==
  /\ c \notin Patient
  /\ pc[c] = "blocked"
  /\ notification[c] = 0
  /\ Return(c, "Timeout")

(* Future::code() after wait() returned OK. *)
ReadCode(c) ==
  /\ pc[c] = "ready"
  /\ Return(c, code[call[c]])

-----------------------------------------------------------------------------

(* Mutant: the batch is copied, and stays in the write queue. *)
RunSwapCopies ==
  /\ spc = "idle"
  /\ write_queue # <<>>
  /\ read_queue' = write_queue
  /\ pos' = 1
  /\ spc' = "iterate"
  /\ UNCHANGED <<write_queue, futureVars, notification, clientVars, historyVars>>

(* run() finds functions and swaps the queues under mu_. *)
RunSwap ==
  /\ spc = "idle"
  /\ write_queue # <<>>
  /\ write_queue' = read_queue
  /\ read_queue' = write_queue
  /\ pos' = 1
  /\ spc' = "iterate"
  /\ UNCHANGED <<futureVars, notification, clientVars, historyVars>>

(* The loop calls the next function, outside mu_. *)
FuncBegin ==
  /\ spc = "iterate"
  /\ pos <= Len(read_queue)
  /\ spc' = "func"
  /\ UNCHANGED <<write_queue, read_queue, pos, futureVars, notification, clientVars,
                 historyVars>>

(* The running function adds another one and drops the future. *)
FuncAdds ==
  /\ spc = "func"
  /\ PushBack
  /\ UNCHANGED <<read_queue, pos, spc, futureVars, notification, clientVars, executed, owner>>

(* Mutant: notify() broadcasts, and leaves the handles in the list. *)
FuncReturnKeepsTasks ==
  /\ spc = "func"
  /\ LET k == read_queue[pos]
     IN  /\ \E result \in Codes : code' = [code EXCEPT ![k] = result]
         /\ notification' = [c \in Clients |-> notification[c] + tasks[k][c]]
  /\ pos' = pos + 1
  /\ spc' = "iterate"
  /\ executed' = executed + 1
  /\ UNCHANGED <<write_queue, read_queue, tasks, clientVars, submitted, owner>>

(* Mutant: the code is stored, and nobody is notified. *)
FuncReturnSilent ==
  /\ spc = "func"
  /\ \E result \in Codes : code' = [code EXCEPT ![read_queue[pos]] = result]
  /\ pos' = pos + 1
  /\ spc' = "iterate"
  /\ executed' = executed + 1
  /\ UNCHANGED <<write_queue, read_queue, tasks, notification, clientVars, submitted, owner>>

(* The function returns, and Future::notify stores its code and broadcasts: *)
(* every handle in tasks_ gets a notification and leaves the list.          *)
FuncReturn ==
  /\ spc = "func"
  /\ LET k == read_queue[pos]
     IN  /\ \E result \in Codes : code' = [code EXCEPT ![k] = result]
         /\ notification' = [c \in Clients |-> notification[c] + tasks[k][c]]
         /\ tasks' = [tasks EXCEPT ![k] = [c \in Clients |-> 0]]
  /\ pos' = pos + 1
  /\ spc' = "iterate"
  /\ executed' = executed + 1
  /\ UNCHANGED <<write_queue, read_queue, clientVars, submitted, owner>>

(* Mutant: the batch is not cleared, and the next swap makes it the write  *)
(* queue.                                                                  *)
RunEndKeepsBatch ==
  /\ spc = "iterate"
  /\ pos > Len(read_queue)
  /\ pos' = 1
  /\ spc' = "idle"
  /\ UNCHANGED <<write_queue, read_queue, futureVars, notification, clientVars, historyVars>>

(* Mutant: what was added during the batch is cleared with it. *)
RunEndClearsBoth ==
  /\ spc = "iterate"
  /\ pos > Len(read_queue)
  /\ read_queue' = <<>>
  /\ write_queue' = <<>>
  /\ pos' = 1
  /\ spc' = "idle"
  /\ UNCHANGED <<futureVars, notification, clientVars, historyVars>>

(* read_queue_->clear() after the loop; run() returns. *)
RunEnd ==
  /\ spc = "iterate"
  /\ pos > Len(read_queue)
  /\ read_queue' = <<>>
  /\ pos' = 1
  /\ spc' = "idle"
  /\ UNCHANGED <<write_queue, futureVars, notification, clientVars, historyVars>>

-----------------------------------------------------------------------------
Run == RunSwap \/ FuncBegin \/ FuncReturn \/ RunEnd

Wait(c) == WaitCheck(c) \/ NotifyTake(c) \/ ReadCode(c)

Next ==
  \/ Run
  \/ FuncAdds
  \/ \E c \in Clients : Add(c) \/ AddRefused(c) \/ Wait(c) \/ WaitTimeout(c)

Spec == Init /\ [][Next]_vars

(* The scheduler's task calls run() forever and every function returns;    *)
(* FreeRTOS runs every ready task.  Nobody is obliged to call add(), and   *)
(* no wait interval is obliged to pass.                                    *)
FairSpec ==
  /\ Spec
  /\ WF_vars(Run)
  /\ \A c \in Clients : WF_vars(Wait(c))

-----------------------------------------------------------------------------
(* Calls that were taken or added and have not returned yet. *)
Remaining == Len(read_queue) - (pos - 1) + Len(write_queue)

(* No function is lost, doubled or overtaken: whatever the interleaving of *)
(* add() with the swap, the unexecuted part of the batch followed by the   *)
(* write queue is exactly the calls executed+1 .. submitted, in order, and *)
(* exactly the first `executed' calls have a code.                         *)
ExactlyOnceInOrder ==
  /\ \A k \in Calls : code[k] # "Last" <=> k <= executed
  /\ submitted = executed + Remaining
  /\ \A i \in pos..Len(read_queue) : read_queue[i] = executed + (i - pos) + 1
  /\ \A i \in 1..Len(write_queue) :
       write_queue[i] = executed + Len(read_queue) - (pos - 1) + i

(* The queue limit bounds the backlog: one full batch being executed and   *)
(* one full write queue behind it.                                         *)
BacklogBounded ==
  /\ Len(write_queue) <= MaxEventCount
  /\ submitted - executed <= 2 * MaxEventCount

(* No wakeup is lost between the check of code_, the release of the mutex  *)
(* and the notification: a blocked task is either still registered with    *)
(* the future it waits for, or the future is ready and a notification is   *)
(* pending.                                                                *)
NoLostWakeup ==
  \A c \in Clients :
    pc[c] = "blocked" =>
      IF code[call[c]] = "Last" THEN tasks[call[c]][c] > 0 ELSE notification[c] > 0

(* The future of an answered call never changes again: what a client was   *)
(* told is still what its function returned, and a client that gave up     *)
(* was told nothing else.                                                  *)
ReplyIsOutcome ==
  \A c \in Clients :
    reply[c].code \in Codes /\ reply[c].call # 0 =>
      reply[c].code = code[reply[c].call]

(* The frame of a caller that waits without a limit outlives the function  *)
(* that refers to it (AsyncFunc passes `this', the handlers references to  *)
(* their locals): until such a call has returned, its client is inside     *)
(* wait() for it.                                                          *)
PatientFrameAlive ==
  \A k \in Calls :
    executed < k /\ k <= submitted /\ owner[k] \in Patient =>
      call[owner[k]] = k /\ pc[owner[k]] \in {"check", "blocked"}

(* The handles of c in the Conds: one element per time its handle is in a  *)
(* list of tasks.                                                          *)
Handles(c) == UNION {{k} \X (1..tasks[k][c]) : k \in Calls}

(* A wait that timed out leaves its handle in the Cond and so a stray      *)
(* notification for a later wait of the same task.  Those are at most one  *)
(* per call of the task, and a task that looped has used one up: spurious  *)
(* rounds of Future::wait, each of which starts the wait interval anew,    *)
(* are as rare as calls that timed out.                                    *)
StrayNotificationsBounded ==
  \A c \in Clients :
    notification[c] + Cardinality(Handles(c)) + (IF pc[c] = "check" THEN 1 ELSE 0)
      <= Cardinality({k \in Calls : owner[k] = c})

(* No client waits forever, with or without a limit on its wait.           *)
EveryClientReturns ==
  \A c \in Clients : pc[c] # "idle" ~> pc[c] = "idle"

-----------------------------------------------------------------------------
Abstract == INSTANCE AsyncCall WITH MaxBacklog <- 2 * MaxEventCount

(* The scheduler keeps the promise of AsyncCall, its liveness included.    *)
ImplementsAsyncCall == Abstract!Spec
=============================================================================
