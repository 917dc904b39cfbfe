----------------------- MODULE AsyncFuncSchedulerProofs -----------------------
(***************************************************************************)
(* Proofs, for every number of clients, queue limit and bound on the       *)
(* calls: types, the order and exactly-once execution of the accepted      *)
(* functions, the wakeup protocol of Future and Cond, and that the         *)
(* scheduler implements AsyncCall step by step.                            *)
(***************************************************************************)
EXTENDS AsyncFuncScheduler, FiniteSetTheorems, TLAPS

(* Where run() is in its batch, and the sizes of the two queues. *)
BatchInv ==
  /\ spc = "idle" => read_queue = <<>> /\ pos = 1
  /\ spc = "func" => pos <= Len(read_queue)
  /\ pos <= Len(read_queue) + 1
  /\ Len(read_queue) <= MaxEventCount
  /\ Len(write_queue) <= MaxEventCount
  /\ submitted <= MaxCalls

(* A client holds a future exactly while it is inside a call. *)
HoldInv == \A c \in Clients : pc[c] = "idle" <=> call[c] = 0

(* What a client's place in its call says about the call it holds. *)
ClientInv ==
  \A c \in Clients :
    /\ call[c] # 0 => call[c] <= submitted /\ owner[call[c]] = c
    /\ pc[c] = "ready" => code[call[c]] # "Last"

(* ReplyIsOutcome, with the call of an answer among the executed ones. *)
ReplyInv ==
  \A c \in Clients :
    reply[c].code \in Codes /\ reply[c].call # 0 =>
      reply[c].call <= executed /\ reply[c].code = code[reply[c].call]

(* Nobody owns a call that is not accepted yet. *)
FreshInv == \A k \in Calls : k > submitted => owner[k] = NoClient

QueueInv == TypeOK /\ HoldInv /\ BatchInv /\ ExactlyOnceInOrder

IInv ==
  QueueInv /\ ClientInv /\ FreshInv /\ NoLostWakeup /\ ReplyInv /\ PatientFrameAlive

-------------------------------------------------------------------------------
(* Constants are what the module assumes them to be. *)
LEMMA ConstantsType ==
  /\ Patient \subseteq Clients
  /\ NoClient \notin Clients
  /\ "Last" \notin Codes
  /\ "Timeout" \notin Codes
  /\ MaxEventCount \in Nat \ {0}
  /\ MaxCalls \in Nat
BY ClientsAssumption, CodesAssumption, MaxEventCountAssumption, MaxCallsAssumption

(* The initial state has the types, the empty queues and the order. *)
LEMMA InitQueueInv == Init => QueueInv
BY ConstantsType
DEF Init, QueueInv, TypeOK, HoldInv, BatchInv, ExactlyOnceInOrder, Remaining, Calls

(* Each step keeps types, batch position and order: add() appends the call *)
(* that follows the last one, the swap only runs when the old batch is     *)
(* gone, and only the call at the head of the order returns.               *)
LEMMA NextQueueInv == QueueInv /\ [Next]_vars => QueueInv'
<1> SUFFICES ASSUME QueueInv, [Next]_vars
             PROVE  QueueInv'
  OBVIOUS
<1> USE ConstantsType
<1>a. /\ TypeOK
      /\ HoldInv
      /\ BatchInv
      /\ ExactlyOnceInOrder
  BY DEF QueueInv
<1>1. ASSUME PushBack, UNCHANGED <<read_queue, pos, spc, code, executed>>
      PROVE  /\ write_queue' \in Seq(Calls)
             /\ submitted' \in Nat
             /\ submitted + 1 \in Calls
             /\ BatchInv'
             /\ ExactlyOnceInOrder'
  <2>1. /\ submitted + 1 \in Calls
        /\ Len(write_queue') = Len(write_queue) + 1
        /\ write_queue' \in Seq(Calls)
        /\ submitted' \in Nat
    BY <1>1, <1>a DEF PushBack, TypeOK, Calls
  <2>2. BatchInv'
    BY <1>1, <1>a, <2>1 DEF PushBack, TypeOK, BatchInv, Calls
  <2>3. ExactlyOnceInOrder'
    <3>1. submitted' = executed' + Remaining'
      BY <1>1, <1>a, <2>1 DEF PushBack, TypeOK, BatchInv, ExactlyOnceInOrder, Remaining
    <3>2. \A i \in 1..Len(write_queue') :
            write_queue'[i] = executed' + Len(read_queue') - (pos' - 1) + i
      <4> SUFFICES ASSUME NEW i \in 1..Len(write_queue')
                   PROVE  write_queue'[i] = executed + Len(read_queue) - (pos - 1) + i
        BY <1>1
      <4>1. CASE i = Len(write_queue) + 1
        BY <1>1, <1>a, <2>1, <4>1
        DEF PushBack, TypeOK, BatchInv, ExactlyOnceInOrder, Remaining
      <4>2. CASE i # Len(write_queue) + 1
        <5>1. write_queue \in Seq(Calls) /\ write_queue' = Append(write_queue, submitted + 1)
          BY <1>1, <1>a DEF PushBack, TypeOK
        <5>2. Len(write_queue') = Len(write_queue) + 1 /\ Len(write_queue) \in Nat
          BY <5>1
        <5>3. i \in 1..Len(write_queue)
          BY <4>2, <5>2
        <5>4. write_queue'[i] = write_queue[i]
          BY <5>1, <5>3
        <5>5. QED
          BY <1>a, <5>3, <5>4 DEF ExactlyOnceInOrder
      <4>3. QED
        BY <4>1, <4>2
    <3>3. QED
      BY <1>1, <1>a, <3>1, <3>2 DEF ExactlyOnceInOrder
  <2>4. QED
    BY <2>1, <2>2, <2>3
<1>2. ASSUME NEW c \in Clients, Add(c)
      PROVE  QueueInv'
  <2>1. PushBack /\ UNCHANGED <<read_queue, pos, spc, code, executed>>
    BY <1>2 DEF Add, futureVars
  <2>2. /\ submitted + 1 \in Calls /\ submitted' = submitted + 1 /\ submitted' \in Nat
        /\ write_queue' = Append(write_queue, submitted + 1)
    BY <1>a, <2>1 DEF PushBack, TypeOK, Calls
  <2>3. /\ pc' = [pc EXCEPT ![c] = "check"] /\ call' = [call EXCEPT ![c] = submitted + 1]
        /\ owner' = [owner EXCEPT ![submitted + 1] = c]
        /\ UNCHANGED <<tasks, notification, reply>>
    BY <1>2 DEF Add, futureVars
  <2>4. TypeOK'
    <3>1. write_queue' \in Seq(Calls)
      BY <1>a, <2>2 DEF TypeOK
    <3>2. /\ pc' \in [Clients -> {"idle", "check", "blocked", "ready"}]
          /\ call' \in [Clients -> Calls \cup {0}]
          /\ owner' \in [Calls -> Clients \cup {NoClient}]
      BY <1>a, <2>2, <2>3 DEF TypeOK
    <3>3. QED
      BY <1>a, <2>1, <2>2, <2>3, <3>1, <3>2 DEF TypeOK
  <2>5. HoldInv'
    <3>1. submitted + 1 # 0
      BY <1>a DEF TypeOK
    <3>2. QED
      BY <1>a, <2>3, <3>1 DEF HoldInv, TypeOK
  <2>6. QED
    BY <1>1, <2>1, <2>4, <2>5 DEF QueueInv
<1>3. ASSUME NEW c \in Clients,
             AddRefused(c) \/ Wait(c) \/ WaitTimeout(c)
      PROVE  QueueInv'
  <2>1. UNCHANGED <<schedulerVars, code, submitted, executed>>
    BY <1>3 DEF AddRefused, Wait, WaitTimeout, WaitCheck, NotifyTake, ReadCode, Return,
                futureVars, historyVars
  <2>2. TypeOK' /\ HoldInv'
    <3>1. CASE AddRefused(c)
      BY <3>1, <1>a
      DEF AddRefused, TypeOK, HoldInv, schedulerVars, futureVars, historyVars
    <3>2. CASE WaitCheck(c)
      <4>1. call[c] \in Calls
        BY <3>2, <1>a DEF WaitCheck, TypeOK, HoldInv
      <4>2. tasks[call[c]] \in [Clients -> Nat] /\ tasks[call[c]][c] + 1 \in Nat
        BY <1>a, <4>1 DEF TypeOK
      <4>3. [tasks EXCEPT ![call[c]][c] = @ + 1] \in [Calls -> [Clients -> Nat]]
        BY <1>a, <4>1, <4>2 DEF TypeOK
      <4>4. tasks' \in [Calls -> [Clients -> Nat]]
        BY <3>2, <1>a, <4>3 DEF WaitCheck, TypeOK
      <4>5. /\ pc' \in [Clients -> {"idle", "check", "blocked", "ready"}]
            /\ pc'[c] \in {"blocked", "ready"} /\ pc[c] = "check"
            /\ \A d \in Clients : d # c => pc'[d] = pc[d]
        BY <3>2, <1>a DEF WaitCheck, TypeOK
      <4>6. UNCHANGED <<write_queue, read_queue, pos, spc, code, notification, call, reply,
                        submitted, executed, owner>>
        BY <3>2 DEF WaitCheck, schedulerVars, historyVars
      <4>7. TypeOK'
        BY <1>a, <4>4, <4>5, <4>6 DEF TypeOK
      <4>8. HoldInv'
        BY <1>a, <4>5, <4>6 DEF HoldInv
      <4>9. QED
        BY <4>7, <4>8
    <3>3. CASE NotifyTake(c)
      BY <3>3, <1>a
      DEF NotifyTake, TypeOK, HoldInv, schedulerVars, futureVars, historyVars
    <3>4. CASE ReadCode(c)
      <4>1. call[c] \in Calls
        BY <3>4, <1>a DEF ReadCode, TypeOK, HoldInv
      <4>2. QED
        BY <3>4, <1>a, <4>1
        DEF ReadCode, Return, TypeOK, HoldInv, schedulerVars, futureVars, historyVars
    <3>5. CASE WaitTimeout(c)
      BY <3>5, <1>a
      DEF WaitTimeout, Return, TypeOK, HoldInv, schedulerVars, futureVars, historyVars
    <3>6. QED
      BY <1>3, <3>1, <3>2, <3>3, <3>4, <3>5 DEF Wait
  <2>3. BatchInv' /\ ExactlyOnceInOrder'
    BY <1>a, <2>1 DEF BatchInv, ExactlyOnceInOrder, Remaining, schedulerVars
  <2>4. QED
    BY <2>2, <2>3 DEF QueueInv
<1>4. CASE FuncAdds
  <2>1. PushBack /\ UNCHANGED <<read_queue, pos, spc, code, executed>>
    BY <1>4 DEF FuncAdds, futureVars
  <2>2. TypeOK' /\ HoldInv'
    BY <1>1, <1>4, <1>a, <2>1 DEF FuncAdds, futureVars, clientVars, TypeOK, HoldInv
  <2>3. QED
    BY <1>1, <2>1, <2>2 DEF QueueInv
<1>5. CASE RunSwap
  <2>1. read_queue = <<>> /\ pos = 1
    BY <1>5, <1>a DEF RunSwap, BatchInv
  <2>2. /\ write_queue' = <<>> /\ read_queue' = write_queue /\ pos' = 1
        /\ spc' = "iterate"
        /\ UNCHANGED <<futureVars, notification, clientVars, historyVars>>
    BY <1>5, <2>1 DEF RunSwap
  <2>3. TypeOK' /\ HoldInv'
    BY <1>a, <2>2 DEF TypeOK, HoldInv, futureVars, clientVars, historyVars
  <2>4. BatchInv'
    BY <1>a, <2>2 DEF BatchInv, TypeOK, historyVars
  <2>5. ExactlyOnceInOrder'
    BY <1>a, <2>1, <2>2
    DEF ExactlyOnceInOrder, Remaining, TypeOK, futureVars, historyVars
  <2>6. QED
    BY <2>3, <2>4, <2>5 DEF QueueInv
<1>6. CASE FuncBegin
  <2>1. TypeOK' /\ HoldInv'
    BY <1>6, <1>a
    DEF FuncBegin, TypeOK, HoldInv, futureVars, clientVars, historyVars
  <2>2. BatchInv'
    BY <1>6, <1>a DEF FuncBegin, BatchInv, historyVars
  <2>3. ExactlyOnceInOrder'
    BY <1>6, <1>a
    DEF FuncBegin, ExactlyOnceInOrder, Remaining, futureVars, historyVars
  <2>4. QED
    BY <2>1, <2>2, <2>3 DEF QueueInv
<1>7. CASE FuncReturn
  <2>1. /\ pos \in 1..Len(read_queue)
        /\ read_queue[pos] = executed + 1
        /\ executed + 1 \in Calls
    <3>1. pos \in 1..Len(read_queue)
      BY <1>7, <1>a DEF FuncReturn, BatchInv, TypeOK
    <3>2. read_queue[pos] = executed + (pos - pos) + 1
      BY <3>1, <1>a DEF ExactlyOnceInOrder, TypeOK
    <3>3. read_queue[pos] \in Calls
      BY <3>1, <1>a DEF TypeOK
    <3>4. QED
      BY <3>1, <3>2, <3>3, <1>a DEF TypeOK
  <2>2. PICK result \in Codes : code' = [code EXCEPT ![executed + 1] = result]
    BY <1>7, <2>1 DEF FuncReturn
  <2>3. TypeOK' /\ HoldInv'
    <3>1. \A c \in Clients : notification[c] + tasks[executed + 1][c] \in Nat
      BY <1>a, <2>1 DEF TypeOK
    <3>2. notification' \in [Clients -> Nat]
      BY <1>7, <2>1, <3>1 DEF FuncReturn
    <3>3. tasks' \in [Calls -> [Clients -> Nat]]
      BY <1>7, <1>a, <2>1 DEF FuncReturn, TypeOK
    <3>4. code' \in [Calls -> Codes \cup {"Last"}]
      BY <1>a, <2>1, <2>2 DEF TypeOK
    <3>5. QED
      BY <1>7, <1>a, <3>2, <3>3, <3>4 DEF FuncReturn, TypeOK, HoldInv, clientVars
  <2>4. BatchInv'
    BY <1>7, <1>a, <2>1 DEF FuncReturn, BatchInv, TypeOK
  <2>5. ExactlyOnceInOrder'
    <3>1. \A k \in Calls : code'[k] # "Last" <=> k <= executed'
      BY <1>7, <1>a, <2>1, <2>2 DEF FuncReturn, TypeOK, ExactlyOnceInOrder, Calls
    <3>2. /\ pos' = pos + 1
          /\ executed' = executed + 1
          /\ UNCHANGED <<read_queue, write_queue, submitted>>
      BY <1>7 DEF FuncReturn
    <3>3. submitted' = executed' + Remaining'
      BY <1>a, <3>2 DEF TypeOK, ExactlyOnceInOrder, Remaining
    <3>4. \A i \in pos'..Len(read_queue') :
            read_queue'[i] = executed' + (i - pos') + 1
      BY <1>a, <3>2 DEF TypeOK, ExactlyOnceInOrder
    <3>5. \A i \in 1..Len(write_queue') :
            write_queue'[i] = executed' + Len(read_queue') - (pos' - 1) + i
      BY <1>a, <3>2 DEF TypeOK, ExactlyOnceInOrder
    <3>6. QED
      BY <3>1, <3>3, <3>4, <3>5 DEF ExactlyOnceInOrder
  <2>6. QED
    BY <2>3, <2>4, <2>5 DEF QueueInv
<1>8. CASE RunEnd
  <2>1. pos = Len(read_queue) + 1
    BY <1>8, <1>a DEF RunEnd, BatchInv, TypeOK
  <2>2. TypeOK' /\ HoldInv'
    BY <1>8, <1>a DEF RunEnd, TypeOK, HoldInv, futureVars, clientVars, historyVars
  <2>3. BatchInv'
    BY <1>8, <1>a DEF RunEnd, BatchInv, historyVars
  <2>4. ExactlyOnceInOrder'
    BY <1>8, <1>a, <2>1
    DEF RunEnd, ExactlyOnceInOrder, Remaining, TypeOK, futureVars, historyVars
  <2>5. QED
    BY <2>2, <2>3, <2>4 DEF QueueInv
<1>9. CASE UNCHANGED vars
  BY <1>9, <1>a
  DEF vars, schedulerVars, futureVars, clientVars, historyVars, QueueInv, TypeOK, HoldInv,
      BatchInv, ExactlyOnceInOrder, Remaining
<1>10. QED
  BY <1>2, <1>3, <1>4, <1>5, <1>6, <1>7, <1>8, <1>9 DEF Next, Run

-------------------------------------------------------------------------------
(* The call that returns next is the first unexecuted one. *)
LEMMA ReturningCall ==
  QueueInv /\ FuncReturn =>
    /\ read_queue[pos] = executed + 1
    /\ executed + 1 \in Calls
<1> SUFFICES ASSUME QueueInv, FuncReturn
             PROVE  /\ read_queue[pos] = executed + 1
                    /\ executed + 1 \in Calls
  OBVIOUS
<1>1. pos \in 1..Len(read_queue)
  BY DEF QueueInv, FuncReturn, BatchInv, TypeOK
<1>2. read_queue[pos] = executed + (pos - pos) + 1
  BY <1>1 DEF QueueInv, ExactlyOnceInOrder, TypeOK
<1>3. read_queue[pos] \in Calls
  BY <1>1 DEF QueueInv, TypeOK
<1>4. QED
  BY <1>1, <1>2, <1>3 DEF QueueInv, TypeOK

(* The initial state: no client is in a call and nobody was answered. *)
LEMMA InitClients ==
  Init => ClientInv /\ FreshInv /\ NoLostWakeup /\ ReplyInv /\ PatientFrameAlive
BY ConstantsType DEF Init, ClientInv, FreshInv, NoLostWakeup, ReplyInv,
    PatientFrameAlive, Calls

(* Each step keeps what is known of the clients.  The steps of run() that  *)
(* matter are the returns of functions: the code of a call changes only    *)
(* there, once, with the notification of everybody registered.             *)
LEMMA NextClients ==
  IInv /\ [Next]_vars =>
    ClientInv' /\ FreshInv' /\ NoLostWakeup' /\ ReplyInv' /\ PatientFrameAlive'
<1> SUFFICES ASSUME IInv, [Next]_vars
             PROVE  ClientInv' /\ FreshInv' /\ NoLostWakeup' /\ ReplyInv'
                    /\ PatientFrameAlive'
  OBVIOUS
<1> USE ConstantsType
<1>a. /\ TypeOK
      /\ HoldInv
      /\ BatchInv
      /\ ExactlyOnceInOrder
      /\ ClientInv
      /\ FreshInv
      /\ NoLostWakeup
      /\ ReplyInv
      /\ PatientFrameAlive
  BY DEF IInv, QueueInv
<1>b. executed <= submitted /\ submitted \in Nat /\ executed \in Nat
  BY <1>a DEF TypeOK, BatchInv, ExactlyOnceInOrder, Remaining
<1>0. FreshInv'
  <2>1. submitted' \in Nat /\ submitted' >= submitted
        /\ \A k \in Calls : owner'[k] # owner[k] => k <= submitted'
    <3>1. ASSUME NEW c \in Clients, Add(c)
          PROVE  submitted' = submitted + 1 /\ owner' = [owner EXCEPT ![submitted + 1] = c]
      BY <3>1 DEF Add, PushBack
    <3>2. CASE FuncAdds
      BY <1>b, <3>2 DEF FuncAdds, PushBack
    <3>3. ASSUME NEW c \in Clients, AddRefused(c) \/ Wait(c) \/ WaitTimeout(c)
          PROVE  UNCHANGED <<submitted, owner>>
      BY <3>3
      DEF Wait, AddRefused, WaitCheck, NotifyTake, WaitTimeout, ReadCode, Return,
          historyVars
    <3>4. ASSUME Run \/ UNCHANGED vars
          PROVE  UNCHANGED <<submitted, owner>>
      BY <3>4 DEF Run, RunSwap, FuncBegin, FuncReturn, RunEnd, vars, historyVars
    <3>5. QED
      BY <1>a, <1>b, <3>1, <3>2, <3>3, <3>4 DEF Next, TypeOK
  <2>2. QED
    BY <1>a, <1>b, <2>1 DEF FreshInv, Calls
<1>1. ASSUME NEW c \in Clients, Add(c)
      PROVE  ClientInv' /\ NoLostWakeup' /\ ReplyInv' /\ PatientFrameAlive'
  <2>1. /\ submitted + 1 \in Calls
        /\ submitted' = submitted + 1
        /\ pc[c] = "idle"
        /\ call[c] = 0
        /\ pc' = [pc EXCEPT ![c] = "check"]
        /\ call' = [call EXCEPT ![c] = submitted + 1]
        /\ owner' = [owner EXCEPT ![submitted + 1] = c]
        /\ UNCHANGED <<code, tasks, notification, reply, executed>>
    BY <1>1, <1>a DEF Add, PushBack, futureVars, Calls, TypeOK, HoldInv
  <2>2. ClientInv'
    <3> SUFFICES ASSUME NEW d \in Clients
                 PROVE  /\ call'[d] # 0 => call'[d] <= submitted' /\ owner'[call'[d]] = d
                        /\ pc'[d] = "ready" => code'[call'[d]] # "Last"
      BY DEF ClientInv
    <3>1. CASE d = c
      <4>1. call'[d] = submitted + 1 /\ pc'[d] = "check" /\ owner'[submitted + 1] = d
        BY <1>a, <2>1, <3>1 DEF TypeOK
      <4>2. submitted + 1 <= submitted'
        BY <1>b, <2>1
      <4>3. QED
        BY <4>1, <4>2
    <3>2. CASE d # c
      <4>1. call'[d] = call[d] /\ pc'[d] = pc[d] /\ code' = code
            /\ call[d] \in Calls \cup {0}
        BY <1>a, <2>1, <3>2 DEF TypeOK
      <4>2. /\ call[d] # 0 => call[d] <= submitted /\ owner[call[d]] = d
            /\ pc[d] = "ready" => code[call[d]] # "Last"
        BY <1>a DEF ClientInv
      <4>3. ASSUME call[d] # 0
            PROVE  call[d] <= submitted' /\ owner'[call[d]] = d
        <5>1. call[d] \in Nat /\ call[d] <= submitted /\ owner[call[d]] = d
              /\ call[d] \in Calls
          BY <4>1, <4>2, <4>3 DEF Calls
        <5>2. call[d] # submitted + 1 /\ call[d] <= submitted'
          BY <1>b, <2>1, <5>1
        <5>3. owner'[call[d]] = owner[call[d]]
          BY <1>a, <2>1, <5>1, <5>2 DEF TypeOK
        <5>4. QED
          BY <5>1, <5>2, <5>3
      <4>4. QED
        BY <4>1, <4>2, <4>3
    <3>3. QED
      BY <3>1, <3>2
  <2>3. NoLostWakeup'
    BY <1>a, <2>1 DEF NoLostWakeup, TypeOK
  <2>4. ReplyInv'
    BY <1>a, <2>1 DEF ReplyInv
  <2>5. PatientFrameAlive'
    <3> SUFFICES ASSUME NEW k \in Calls,
                        executed < k, k <= submitted + 1, owner'[k] \in Patient
                 PROVE  call'[owner'[k]] = k /\ pc'[owner'[k]] \in {"check", "blocked"}
      BY <2>1 DEF PatientFrameAlive
    <3>1. CASE k = submitted + 1
      BY <1>a, <2>1, <3>1 DEF TypeOK
    <3>2. CASE k # submitted + 1
      <4>1. k <= submitted /\ owner'[k] = owner[k]
        BY <1>a, <1>b, <2>1, <3>2 DEF TypeOK, Calls
      <4>2. call[owner[k]] = k /\ pc[owner[k]] \in {"check", "blocked"}
        BY <1>a, <4>1 DEF PatientFrameAlive
      <4>3. owner[k] # c
        BY <2>1, <4>2
      <4>4. QED
        BY <1>a, <2>1, <4>1, <4>2, <4>3 DEF TypeOK
    <3>3. QED
      BY <3>1, <3>2
  <2>6. QED
    BY <2>2, <2>3, <2>4, <2>5
<1>2. ASSUME NEW c \in Clients, AddRefused(c)
      PROVE  ClientInv' /\ NoLostWakeup' /\ ReplyInv' /\ PatientFrameAlive'
  <2>1. /\ reply' = [reply EXCEPT ![c] = [call |-> 0, code |-> "InvalidState"]]
        /\ UNCHANGED <<code, tasks, notification, pc, call, submitted, executed, owner>>
    BY <1>2 DEF AddRefused, futureVars, historyVars
  <2>2. ReplyInv'
    BY <1>a, <2>1 DEF ReplyInv, TypeOK
  <2>3. QED
    BY <1>a, <2>1, <2>2 DEF ClientInv, NoLostWakeup, PatientFrameAlive
<1>3. ASSUME NEW c \in Clients, WaitCheck(c)
      PROVE  ClientInv' /\ NoLostWakeup' /\ ReplyInv' /\ PatientFrameAlive'
  <2>1. /\ pc[c] = "check"
        /\ call[c] \in Calls
        /\ UNCHANGED <<code, notification, call, reply, submitted, executed, owner>>
    BY <1>3, <1>a DEF WaitCheck, TypeOK, HoldInv, historyVars
  <2>2. CASE code[call[c]] = "Last"
    <3>1. /\ tasks' = [tasks EXCEPT ![call[c]][c] = @ + 1]
          /\ pc' = [pc EXCEPT ![c] = "blocked"]
      BY <1>3, <2>2 DEF WaitCheck
    <3>2. /\ \A k \in Calls, d \in Clients : tasks'[k][d] >= tasks[k][d]
          /\ tasks'[call[c]][c] > 0
      BY <1>a, <2>1, <3>1 DEF TypeOK
    <3>3. NoLostWakeup'
      <4> SUFFICES ASSUME NEW d \in Clients, pc'[d] = "blocked"
                   PROVE  IF code[call[d]] = "Last" THEN tasks'[call[d]][d] > 0
                                                    ELSE notification[d] > 0
        BY <2>1 DEF NoLostWakeup
      <4>1. CASE d = c
        BY <2>2, <3>2, <4>1
      <4>2. CASE d # c
        <5>1. pc[d] = "blocked"
          BY <1>a, <3>1, <4>2 DEF TypeOK
        <5>2. call[d] \in Calls
          BY <1>a, <5>1 DEF TypeOK, HoldInv
        <5>3. CASE code[call[d]] = "Last"
          <6>1. tasks[call[d]][d] > 0
            BY <1>a, <5>1, <5>3 DEF NoLostWakeup
          <6>2. tasks[call[d]][d] \in Nat /\ tasks'[call[d]][d] >= tasks[call[d]][d]
            BY <1>a, <3>2, <5>2 DEF TypeOK
          <6>3. tasks'[call[d]][d] \in Nat
            BY <1>a, <2>1, <3>1, <5>2, <4>2 DEF TypeOK
          <6>4. QED
            BY <5>3, <6>1, <6>2, <6>3
        <5>4. QED
          BY <1>a, <5>1, <5>3 DEF NoLostWakeup
      <4>3. QED
        BY <4>1, <4>2
    <3>4. ClientInv'
      BY <1>a, <2>1, <3>1 DEF ClientInv, TypeOK
    <3>5. ReplyInv' /\ PatientFrameAlive'
      BY <1>a, <2>1, <3>1 DEF ReplyInv, PatientFrameAlive, TypeOK
    <3>6. QED
      BY <3>3, <3>4, <3>5
  <2>3. CASE code[call[c]] # "Last"
    <3>1. /\ pc' = [pc EXCEPT ![c] = "ready"]
          /\ UNCHANGED tasks
      BY <1>3, <2>3 DEF WaitCheck
    <3>2. call[c] <= executed
      BY <1>a, <2>1, <2>3 DEF ExactlyOnceInOrder
    <3>3. ClientInv' /\ NoLostWakeup' /\ ReplyInv'
      BY <1>a, <2>1, <2>3, <3>1 DEF ClientInv, NoLostWakeup, ReplyInv, TypeOK
    <3>4. PatientFrameAlive'
      <4> SUFFICES ASSUME NEW k \in Calls,
                          executed < k, k <= submitted, owner[k] \in Patient
                   PROVE  call[owner[k]] = k /\ pc'[owner[k]] \in {"check", "blocked"}
        BY <2>1 DEF PatientFrameAlive
      <4>1. call[owner[k]] = k /\ pc[owner[k]] \in {"check", "blocked"}
        BY <1>a DEF PatientFrameAlive
      <4>2. owner[k] # c
        BY <1>b, <3>2, <4>1 DEF Calls
      <4>3. QED
        BY <1>a, <3>1, <4>1, <4>2 DEF TypeOK
    <3>5. QED
      BY <3>3, <3>4
  <2>4. QED
    BY <2>2, <2>3
<1>4. ASSUME NEW c \in Clients, NotifyTake(c)
      PROVE  ClientInv' /\ NoLostWakeup' /\ ReplyInv' /\ PatientFrameAlive'
  <2>1. /\ pc' = [pc EXCEPT ![c] = "check"]
        /\ notification' = [notification EXCEPT ![c] = 0]
        /\ UNCHANGED <<code, tasks, call, reply, submitted, executed, owner>>
    BY <1>4 DEF NotifyTake, futureVars, historyVars
  <2>2. QED
    BY <1>a, <2>1 DEF ClientInv, NoLostWakeup, ReplyInv, PatientFrameAlive, TypeOK
<1>5. ASSUME NEW c \in Clients, WaitTimeout(c) \/ ReadCode(c)
      PROVE  ClientInv' /\ NoLostWakeup' /\ ReplyInv' /\ PatientFrameAlive'
  <2>1. /\ pc' = [pc EXCEPT ![c] = "idle"]
        /\ call' = [call EXCEPT ![c] = 0]
        /\ UNCHANGED <<code, tasks, notification, submitted, executed, owner>>
    BY <1>5 DEF WaitTimeout, ReadCode, Return, futureVars, historyVars
  <2>2. ClientInv' /\ NoLostWakeup'
    BY <1>a, <2>1 DEF ClientInv, NoLostWakeup, TypeOK
  <2>3. ReplyInv'
    <3>1. CASE WaitTimeout(c)
      BY <1>a, <2>1, <3>1 DEF WaitTimeout, Return, ReplyInv, TypeOK
    <3>2. CASE ReadCode(c)
      <4>1. /\ call[c] \in Calls
            /\ code[call[c]] # "Last"
            /\ reply' = [reply EXCEPT ![c] = [call |-> call[c], code |-> code[call[c]]]]
        BY <1>a, <3>2 DEF ReadCode, Return, TypeOK, HoldInv, ClientInv
      <4>2. call[c] <= executed
        BY <1>a, <4>1 DEF ExactlyOnceInOrder
      <4>3. QED
        BY <1>a, <2>1, <4>1, <4>2 DEF ReplyInv, TypeOK
    <3>3. QED
      BY <1>5, <3>1, <3>2
  <2>4. PatientFrameAlive'
    <3> SUFFICES ASSUME NEW k \in Calls,
                        executed < k, k <= submitted, owner[k] \in Patient
                 PROVE  call'[owner[k]] = k /\ pc'[owner[k]] \in {"check", "blocked"}
      BY <2>1 DEF PatientFrameAlive
    <3>1. call[owner[k]] = k /\ pc[owner[k]] \in {"check", "blocked"}
      BY <1>a DEF PatientFrameAlive
    <3>2. owner[k] # c
      BY <1>5, <3>1 DEF WaitTimeout, ReadCode
    <3>3. QED
      BY <1>a, <2>1, <3>1, <3>2 DEF TypeOK
  <2>5. QED
    BY <2>2, <2>3, <2>4
<1>6. CASE FuncAdds
  <2>1. /\ submitted + 1 \in Calls
        /\ submitted' = submitted + 1
        /\ UNCHANGED <<code, tasks, notification, pc, call, reply, executed, owner>>
    BY <1>6, <1>a DEF FuncAdds, PushBack, futureVars, clientVars, Calls, TypeOK
  <2>2. ClientInv' /\ NoLostWakeup' /\ ReplyInv'
    BY <1>a, <1>b, <2>1 DEF ClientInv, NoLostWakeup, ReplyInv, TypeOK, Calls
  <2>3. PatientFrameAlive'
    BY <1>a, <1>b, <2>1 DEF PatientFrameAlive, FreshInv, TypeOK, Calls
  <2>4. QED
    BY <1>0, <2>2, <2>3
<1>7. CASE FuncReturn
  <2> DEFINE k == executed + 1
  <2>1. /\ read_queue[pos] = k
        /\ k \in Calls
    BY <1>7, ReturningCall DEF IInv
  <2>2. PICK result \in Codes : code' = [code EXCEPT ![k] = result]
    BY <1>7, <2>1 DEF FuncReturn
  <2>3. /\ notification' = [c \in Clients |-> notification[c] + tasks[k][c]]
        /\ tasks' = [tasks EXCEPT ![k] = [c \in Clients |-> 0]]
        /\ executed' = k
        /\ UNCHANGED <<pc, call, reply, submitted, owner>>
    BY <1>7, <2>1 DEF FuncReturn, clientVars
  <2> HIDE DEF k
  <2>4. ClientInv'
    BY <1>a, <2>1, <2>2, <2>3 DEF ClientInv, TypeOK
  <2>5. NoLostWakeup'
    <3> SUFFICES ASSUME NEW c \in Clients, pc[c] = "blocked"
                 PROVE  IF code'[call[c]] = "Last" THEN tasks'[call[c]][c] > 0
                                                   ELSE notification'[c] > 0
      BY <2>3 DEF NoLostWakeup
    <3>1. /\ call[c] \in Calls
          /\ notification[c] \in Nat
          /\ tasks[k][c] \in Nat
          /\ notification'[c] = notification[c] + tasks[k][c]
      BY <1>a, <2>1, <2>3 DEF TypeOK, HoldInv
    <3>2. IF code[call[c]] = "Last" THEN tasks[call[c]][c] > 0 ELSE notification[c] > 0
      BY <1>a DEF NoLostWakeup
    <3>3. CASE call[c] = k
      <4>1. code'[k] # "Last" /\ code[k] = "Last"
        BY <1>a, <1>b, <2>1, <2>2 DEF TypeOK, ExactlyOnceInOrder, k
      <4>2. QED
        BY <3>1, <3>2, <3>3, <4>1
    <3>4. CASE call[c] # k
      <4>1. code'[call[c]] = code[call[c]] /\ tasks'[call[c]][c] = tasks[call[c]][c]
        BY <1>a, <2>1, <2>2, <2>3, <3>1, <3>4 DEF TypeOK
      <4>2. QED
        BY <3>1, <3>2, <4>1
    <3>5. QED
      BY <3>3, <3>4
  <2>6. ReplyInv'
    <3> SUFFICES ASSUME NEW c \in Clients, reply[c].code \in Codes, reply[c].call # 0
                 PROVE  reply[c].call <= k /\ reply[c].code = code'[reply[c].call]
      BY <2>3 DEF ReplyInv
    <3>1. reply[c].call <= executed /\ reply[c].code = code[reply[c].call]
      BY <1>a DEF ReplyInv
    <3>2. reply[c].call \in Calls
      BY <1>a DEF TypeOK
    <3>3. reply[c].call # k /\ reply[c].call <= k
      BY <1>b, <3>1, <3>2 DEF k, Calls
    <3>4. QED
      BY <1>a, <2>2, <3>1, <3>2, <3>3 DEF TypeOK
  <2>7. PatientFrameAlive'
    BY <1>a, <1>b, <2>1, <2>3 DEF PatientFrameAlive, Calls, k
  <2>8. QED
    BY <1>0, <2>4, <2>5, <2>6, <2>7
<1>8. CASE RunSwap \/ FuncBegin \/ RunEnd \/ UNCHANGED vars
  <2>1. UNCHANGED <<futureVars, notification, clientVars, historyVars>>
    BY <1>8 DEF RunSwap, FuncBegin, RunEnd, vars
  <2>2. QED
    BY <1>0, <1>a, <2>1 DEF ClientInv, NoLostWakeup, ReplyInv, PatientFrameAlive,
        futureVars, clientVars, historyVars
<1>9. QED
  BY <1>0, <1>1, <1>2, <1>3, <1>4, <1>5, <1>6, <1>7, <1>8 DEF Next, Run, Wait

-------------------------------------------------------------------------------
(* IInv is an inductive invariant. *)
THEOREM Invariance == Spec => []IInv
<1>1. Init => IInv
  BY InitQueueInv, InitClients DEF IInv
<1>2. IInv /\ [Next]_vars => IInv'
  BY NextQueueInv, NextClients DEF IInv
<1>3. QED
  BY <1>1, <1>2, PTL DEF Spec

(* Every variable keeps its type. *)
THEOREM Typing == Spec => []TypeOK
<1>1. IInv => TypeOK
  BY DEF IInv, QueueInv
<1>2. QED
  BY <1>1, Invariance, PTL

(* add(), run() and functions that add: nothing is lost, doubled or        *)
(* overtaken.                                                              *)
THEOREM ExactlyOnce == Spec => []ExactlyOnceInOrder
<1>1. IInv => ExactlyOnceInOrder
  BY DEF IInv, QueueInv
<1>2. QED
  BY <1>1, Invariance, PTL

(* The backlog never exceeds two full queues. *)
THEOREM Backlog == Spec => []BacklogBounded
<1>1. IInv => BacklogBounded
  BY ConstantsType
  DEF IInv, QueueInv, BacklogBounded, TypeOK, BatchInv, ExactlyOnceInOrder, Remaining
<1>2. QED
  BY <1>1, Invariance, PTL

(* Future::wait and Future::notify lose no wakeup, for any number of       *)
(* clients and stray notifications.                                        *)
THEOREM Wakeup == Spec => []NoLostWakeup
<1>1. IInv => NoLostWakeup
  BY DEF IInv
<1>2. QED
  BY <1>1, Invariance, PTL

(* What a client was told stays what its function returned. *)
THEOREM Reply == Spec => []ReplyIsOutcome
<1>1. IInv => ReplyIsOutcome
  BY DEF IInv, ReplyInv, ReplyIsOutcome
<1>2. QED
  BY <1>1, Invariance, PTL

(* AsyncFunc's `this' and any other frame of a caller without a limit are  *)
(* alive when the function runs.                                           *)
THEOREM Frames == Spec => []PatientFrameAlive
<1>1. IInv => PatientFrameAlive
  BY DEF IInv
<1>2. QED
  BY <1>1, Invariance, PTL

-------------------------------------------------------------------------------
(* The handles that the lists of tasks t hold of c. *)
Tickets(t, c) == UNION {{k} \X (1..t[k][c]) : k \in Calls}

(* The calls of c among the first ones. *)
CallsOf(o, c) == {k \in Calls : o[k] = c}

(* The handles are members of the lists: the k-th call and a number up to  *)
(* how often the handle is in its list.                                    *)
LEMMA TicketIs ==
  ASSUME NEW t, NEW c, NEW h
  PROVE  h \in Tickets(t, c) <=> \E k \in Calls : \E i \in 1..t[k][c] : h = <<k, i>>
BY DEF Tickets

(* A handle more in the list of one call. *)
LEMMA Registration ==
  ASSUME NEW t \in [Calls -> [Clients -> Nat]], NEW k \in Calls, NEW c \in Clients,
         NEW d \in Clients, IsFiniteSet(Tickets(t, d)),
         NEW u,
         \A j \in Calls : u[j][d] = IF j = k /\ d = c THEN t[j][d] + 1 ELSE t[j][d]
  PROVE  /\ IsFiniteSet(Tickets(u, d))
         /\ Cardinality(Tickets(u, d))
              = Cardinality(Tickets(t, d)) + (IF d = c THEN 1 ELSE 0)
<1>1. ASSUME NEW j \in Calls
      PROVE  u[j][d] = IF j = k /\ d = c THEN t[j][d] + 1 ELSE t[j][d]
  OBVIOUS
<1>2. CASE d # c
  <2>1. \A j \in Calls : u[j][d] = t[j][d]
    BY <1>1, <1>2
  <2>2. Tickets(u, d) = Tickets(t, d)
    BY <2>1 DEF Tickets
  <2>3. Cardinality(Tickets(t, d)) \in Nat
    BY FS_CardinalityType
  <2>4. QED
    BY <1>2, <2>2, <2>3
<1>3. CASE d = c
  <2> DEFINE h == <<k, t[k][c] + 1>>
  <2>0. t[k][c] \in Nat
    OBVIOUS
  <2>1. h \notin Tickets(t, c)
    <3>1. ASSUME NEW j \in Calls, NEW i \in 1..t[j][c], h = <<j, i>>
          PROVE  FALSE
      BY <3>1, <2>0
    <3>2. QED
      BY <3>1, TicketIs
  <2>2. Tickets(u, c) = Tickets(t, c) \cup {h}
    <3>1. ASSUME NEW g \in Tickets(u, c)
          PROVE  g \in Tickets(t, c) \cup {h}
      <4>0. PICK j \in Calls : \E i \in 1..u[j][c] : g = <<j, i>>
        BY <3>1, TicketIs
      <4>1. PICK i \in 1..u[j][c] : g = <<j, i>>
        BY <4>0
      <4>2. CASE j = k /\ i = t[k][c] + 1
        BY <4>1, <4>2
      <4>3. CASE ~(j = k /\ i = t[k][c] + 1)
        <5>1. i \in 1..t[j][c]
          BY <4>3, <1>1, <1>3, <2>0
        <5>2. QED
          BY <4>1, <5>1, TicketIs
      <4>4. QED
        BY <4>2, <4>3
    <3>2. ASSUME NEW g \in Tickets(t, c)
          PROVE  g \in Tickets(u, c)
      <4>0. PICK j \in Calls : \E i \in 1..t[j][c] : g = <<j, i>>
        BY <3>2, TicketIs
      <4>1. PICK i \in 1..t[j][c] : g = <<j, i>>
        BY <4>0
      <4>2. i \in 1..u[j][c]
        BY <1>1, <1>3, t[j][c] \in Nat
      <4>3. QED
        BY <4>1, <4>2, TicketIs
    <3>3. h \in Tickets(u, c)
      <4>1. t[k][c] + 1 \in 1..u[k][c]
        BY <1>1, <1>3, <2>0
      <4>2. QED
        BY <4>1, TicketIs
    <3>4. QED
      BY <3>1, <3>2, <3>3
  <2>3. /\ IsFiniteSet(Tickets(t, c) \cup {h})
        /\ Cardinality(Tickets(t, c) \cup {h}) = Cardinality(Tickets(t, c)) + 1
    BY <2>1, <1>3, FS_AddElement
  <2>4. QED
    BY <2>2, <2>3, <1>3
<1>4. QED
  BY <1>2, <1>3

(* A broadcast takes every handle out of the list of one call. *)
LEMMA Broadcast ==
  ASSUME NEW t \in [Calls -> [Clients -> Nat]], NEW k \in Calls,
         NEW d \in Clients, IsFiniteSet(Tickets(t, d)),
         NEW u,
         \A j \in Calls : u[j][d] = IF j = k THEN 0 ELSE t[j][d]
  PROVE  /\ IsFiniteSet(Tickets(u, d))
         /\ Cardinality(Tickets(t, d)) = Cardinality(Tickets(u, d)) + t[k][d]
<1> DEFINE K == {k} \X (1..t[k][d])
<1>0. t[k][d] \in Nat
  OBVIOUS
<1>1. /\ \A j \in Calls : j # k => u[j][d] = t[j][d]
      /\ u[k][d] = 0
  OBVIOUS
<1>2. IsFiniteSet(K) /\ Cardinality(K) = t[k][d]
  <2>1. IsFiniteSet(1..t[k][d]) /\ Cardinality(1..t[k][d]) = t[k][d]
    BY <1>0, FS_Interval
  <2>2. IsFiniteSet({k}) /\ Cardinality({k}) = 1
    BY FS_Singleton
  <2>3. IsFiniteSet(K) /\ Cardinality(K) = Cardinality({k}) * Cardinality(1..t[k][d])
    BY <2>1, <2>2, FS_Product
  <2>4. QED
    BY <1>0, <2>1, <2>2, <2>3
<1>3. K \subseteq Tickets(t, d)
  BY DEF Tickets
<1>4. Tickets(u, d) = Tickets(t, d) \ K
  <2>1. ASSUME NEW g \in Tickets(u, d)
        PROVE  g \in Tickets(t, d) \ K
    <3>0. PICK j \in Calls : \E i \in 1..u[j][d] : g = <<j, i>>
      BY <2>1, TicketIs
    <3>1. PICK i \in 1..u[j][d] : g = <<j, i>>
      BY <3>0
    <3>2. j # k
      BY <1>1
    <3>3. QED
      BY <3>1, <3>2, <1>1, TicketIs
  <2>2. ASSUME NEW g \in Tickets(t, d), g \notin K
        PROVE  g \in Tickets(u, d)
    <3>0. PICK j \in Calls : \E i \in 1..t[j][d] : g = <<j, i>>
      BY <2>2, TicketIs
    <3>1. PICK i \in 1..t[j][d] : g = <<j, i>>
      BY <3>0
    <3>2. j # k
      BY <2>2, <3>1
    <3>3. QED
      BY <3>1, <3>2, <1>1, TicketIs
  <2>3. QED
    BY <2>1, <2>2
<1>5. Tickets(t, d) \cap K = K
  BY <1>3
<1>6. /\ IsFiniteSet(Tickets(t, d) \ K)
      /\ Cardinality(Tickets(t, d) \ K)
           = Cardinality(Tickets(t, d)) - Cardinality(Tickets(t, d) \cap K)
  BY FS_Difference
<1>7. Cardinality(Tickets(t, d)) \in Nat
  BY FS_CardinalityType
<1>8. Cardinality(Tickets(u, d)) = Cardinality(Tickets(t, d)) - t[k][d]
  BY <1>2, <1>4, <1>5, <1>6
<1>9. QED
  BY <1>0, <1>4, <1>6, <1>7, <1>8

(* A call that nobody owned gets an owner. *)
LEMMA NewOwner ==
  ASSUME NEW o \in [Calls -> Clients \cup {NoClient}], NEW k \in Calls, o[k] = NoClient,
         NEW c \in Clients, NEW d \in Clients
  PROVE  Cardinality(CallsOf([o EXCEPT ![k] = c], d))
           = Cardinality(CallsOf(o, d)) + (IF d = c THEN 1 ELSE 0)
<1>1. IsFiniteSet(CallsOf(o, d))
  <2>1. IsFiniteSet(Calls)
    BY ConstantsType, FS_Interval DEF Calls
  <2>2. QED
    BY <2>1, FS_Subset DEF CallsOf
<1>2. Cardinality(CallsOf(o, d)) \in Nat
  BY <1>1, FS_CardinalityType
<1>3. d # NoClient
  BY ConstantsType
<1>4. CASE d # c
  <2>1. CallsOf([o EXCEPT ![k] = c], d) = CallsOf(o, d)
    BY <1>3, <1>4 DEF CallsOf
  <2>2. QED
    BY <1>2, <1>4, <2>1
<1>5. CASE d = c
  <2>1. CallsOf([o EXCEPT ![k] = c], d) = CallsOf(o, d) \cup {k}
    BY <1>5 DEF CallsOf
  <2>2. k \notin CallsOf(o, d)
    BY <1>3 DEF CallsOf
  <2>3. Cardinality(CallsOf(o, d) \cup {k}) = Cardinality(CallsOf(o, d)) + 1
    BY <1>1, <2>2, FS_AddElement
  <2>4. QED
    BY <1>5, <2>1, <2>3
<1>6. QED
  BY <1>4, <1>5

-------------------------------------------------------------------------------
(* The bound of StrayNotificationsBounded for one client, of the values    *)
(* that it compares, with the finiteness that its sums need.               *)
Bounded(t, n, waits, o, c) ==
  /\ IsFiniteSet(Tickets(t, c))
  /\ n + Cardinality(Tickets(t, c)) + (IF waits THEN 1 ELSE 0)
       <= Cardinality(CallsOf(o, c))

StrayInv ==
  \A c \in Clients : Bounded(tasks, notification[c], pc[c] = "check", owner, c)

(* StrayInv is the bound. *)
LEMMA StrayInvIs == StrayInv => StrayNotificationsBounded
<1> SUFFICES ASSUME StrayInv, NEW c \in Clients
             PROVE  notification[c] + Cardinality(Handles(c))
                      + (IF pc[c] = "check" THEN 1 ELSE 0)
                      <= Cardinality({k \in Calls : owner[k] = c})
  BY DEF StrayNotificationsBounded
<1>1. Handles(c) = Tickets(tasks, c) /\ {k \in Calls : owner[k] = c} = CallsOf(owner, c)
  BY DEF Handles, Tickets, CallsOf
<1>2. QED
  BY <1>1 DEF StrayInv, Bounded

(* At first there are no handles. *)
LEMMA InitStray == Init => StrayInv
<1> SUFFICES ASSUME Init, NEW c \in Clients
             PROVE  Bounded(tasks, notification[c], pc[c] = "check", owner, c)
  BY DEF StrayInv
<1>1. Tickets(tasks, c) = {}
  BY DEF Init, Tickets
<1>2. CallsOf(owner, c) = {}
  BY ConstantsType DEF Init, CallsOf
<1>3. notification[c] = 0 /\ pc[c] # "check"
  BY DEF Init
<1>4. QED
  BY <1>1, <1>2, <1>3, FS_EmptySet DEF Bounded

(* A call pays for the one round of its wait that finds no notification;   *)
(* every other round takes one.                                            *)
LEMMA NextStray == IInv /\ StrayInv /\ [Next]_vars => StrayInv'
<1> SUFFICES ASSUME IInv, StrayInv, [Next]_vars, NEW d \in Clients
             PROVE  Bounded(tasks', notification'[d], pc'[d] = "check", owner', d)
  BY DEF StrayInv
<1>0. TypeOK /\ FreshInv /\ HoldInv
  BY DEF IInv, QueueInv
<1>1. /\ IsFiniteSet(Tickets(tasks, d))
      /\ notification[d] + Cardinality(Tickets(tasks, d)) + (IF pc[d] = "check" THEN 1 ELSE 0)
           <= Cardinality(CallsOf(owner, d))
  BY DEF StrayInv, Bounded
<1>2. Cardinality(Tickets(tasks, d)) \in Nat /\ Cardinality(CallsOf(owner, d)) \in Nat
  <2>1. IsFiniteSet(Calls)
    BY ConstantsType, FS_Interval DEF Calls
  <2>2. IsFiniteSet(CallsOf(owner, d))
    BY <2>1, FS_Subset DEF CallsOf
  <2>3. QED
    BY <1>1, <2>2, FS_CardinalityType
<1>3. notification[d] \in Nat
  BY <1>0 DEF TypeOK
<1>4. ASSUME NEW c \in Clients, Add(c)
      PROVE  Bounded(tasks', notification'[d], pc'[d] = "check", owner', d)
  <2>1. /\ pc[c] = "idle" /\ pc' = [pc EXCEPT ![c] = "check"]
        /\ owner' = [owner EXCEPT ![submitted + 1] = c]
        /\ submitted + 1 \in Calls
        /\ tasks' = tasks /\ notification' = notification
    BY <1>4, <1>0, ConstantsType DEF Add, PushBack, futureVars, TypeOK, Calls
  <2>2. owner[submitted + 1] = NoClient
    BY <2>1, <1>0 DEF FreshInv, TypeOK
  <2>3. Cardinality(CallsOf(owner', d))
          = Cardinality(CallsOf(owner, d)) + (IF d = c THEN 1 ELSE 0)
    <3>1. owner \in [Calls -> Clients \cup {NoClient}]
      BY <1>0 DEF TypeOK
    <3>2. Cardinality(CallsOf([owner EXCEPT ![submitted + 1] = c], d))
            = Cardinality(CallsOf(owner, d)) + (IF d = c THEN 1 ELSE 0)
      <4> DEFINE k == submitted + 1
      <4>1. k \in Calls /\ owner[k] = NoClient
        BY <2>1, <2>2
      <4> HIDE DEF k
      <4>2. Cardinality(CallsOf([owner EXCEPT ![k] = c], d))
              = Cardinality(CallsOf(owner, d)) + (IF d = c THEN 1 ELSE 0)
        BY <3>1, <4>1, NewOwner
      <4>3. QED
        BY <4>2 DEF k
    <3>3. QED
      BY <2>1, <3>2
  <2>4. pc'[d] = IF d = c THEN "check" ELSE pc[d]
    BY <2>1, <1>0 DEF TypeOK
  <2>5. QED
    BY <1>1, <1>2, <1>3, <2>1, <2>3, <2>4 DEF Bounded
<1>5. ASSUME NEW c \in Clients, WaitCheck(c)
      PROVE  Bounded(tasks', notification'[d], pc'[d] = "check", owner', d)
  <2>1. /\ pc[c] = "check" /\ notification' = notification /\ owner' = owner
        /\ call[c] \in Calls
    BY <1>5, <1>0 DEF WaitCheck, historyVars, HoldInv, TypeOK
  <2>2. CASE code[call[c]] = "Last"
    <3>1. /\ tasks' = [tasks EXCEPT ![call[c]][c] = @ + 1]
          /\ pc' = [pc EXCEPT ![c] = "blocked"]
      BY <1>5, <2>2 DEF WaitCheck
    <3>2. /\ IsFiniteSet(Tickets(tasks', d))
          /\ Cardinality(Tickets(tasks', d))
               = Cardinality(Tickets(tasks, d)) + (IF d = c THEN 1 ELSE 0)
      <4>1. tasks \in [Calls -> [Clients -> Nat]]
        BY <1>0 DEF TypeOK
      <4>2. \A j \in Calls :
              tasks'[j][d] = IF j = call[c] /\ d = c THEN tasks[j][d] + 1 ELSE tasks[j][d]
        BY <2>1, <3>1, <4>1
      <4>3. QED
        BY <1>1, <2>1, <4>1, <4>2, Registration
    <3>3. pc'[d] = IF d = c THEN "blocked" ELSE pc[d]
      BY <3>1, <1>0 DEF TypeOK
    <3>4. QED
      BY <1>1, <1>2, <1>3, <2>1, <3>2, <3>3 DEF Bounded
  <2>3. CASE code[call[c]] # "Last"
    <3>1. tasks' = tasks /\ pc' = [pc EXCEPT ![c] = "ready"]
      BY <1>5, <2>3 DEF WaitCheck
    <3>2. pc'[d] = IF d = c THEN "ready" ELSE pc[d]
      BY <3>1, <1>0 DEF TypeOK
    <3>3. QED
      BY <1>1, <1>2, <1>3, <2>1, <3>1, <3>2 DEF Bounded
  <2>4. QED
    BY <2>2, <2>3
<1>6. ASSUME NEW c \in Clients, NotifyTake(c)
      PROVE  Bounded(tasks', notification'[d], pc'[d] = "check", owner', d)
  <2>1. /\ pc[c] = "blocked" /\ notification[c] > 0
        /\ notification' = [notification EXCEPT ![c] = 0]
        /\ pc' = [pc EXCEPT ![c] = "check"]
        /\ tasks' = tasks /\ owner' = owner
    BY <1>6 DEF NotifyTake, futureVars, historyVars
  <2>2. /\ pc'[d] = IF d = c THEN "check" ELSE pc[d]
        /\ notification'[d] = IF d = c THEN 0 ELSE notification[d]
    BY <2>1, <1>0 DEF TypeOK
  <2>3. QED
    BY <1>1, <1>2, <1>3, <2>1, <2>2 DEF Bounded
<1>7. ASSUME NEW c \in Clients, WaitTimeout(c) \/ ReadCode(c)
      PROVE  Bounded(tasks', notification'[d], pc'[d] = "check", owner', d)
  <2>1. /\ pc' = [pc EXCEPT ![c] = "idle"]
        /\ tasks' = tasks /\ owner' = owner /\ notification' = notification
    BY <1>7 DEF WaitTimeout, ReadCode, Return, futureVars, historyVars
  <2>2. pc'[d] = IF d = c THEN "idle" ELSE pc[d]
    BY <2>1, <1>0 DEF TypeOK
  <2>3. QED
    BY <1>1, <1>2, <1>3, <2>1, <2>2 DEF Bounded
<1>8. CASE FuncReturn
  <2> DEFINE k == read_queue[pos]
  <2>1. k \in Calls
    BY <1>8, ReturningCall DEF IInv
  <2>2. /\ tasks' = [tasks EXCEPT ![k] = [c \in Clients |-> 0]]
        /\ notification' = [c \in Clients |-> notification[c] + tasks[k][c]]
        /\ pc' = pc /\ owner' = owner
    BY <1>8 DEF FuncReturn, clientVars
  <2> HIDE DEF k
  <2>3. /\ IsFiniteSet(Tickets(tasks', d))
        /\ Cardinality(Tickets(tasks, d)) = Cardinality(Tickets(tasks', d)) + tasks[k][d]
    <3>1. tasks \in [Calls -> [Clients -> Nat]]
      BY <1>0 DEF TypeOK
    <3>2. \A j \in Calls : tasks'[j][d] = IF j = k THEN 0 ELSE tasks[j][d]
      BY <2>1, <2>2, <3>1
    <3>3. QED
      BY <1>1, <2>1, <3>1, <3>2, Broadcast
  <2>4. Cardinality(Tickets(tasks', d)) \in Nat /\ tasks[k][d] \in Nat
    BY <1>0, <2>1, <2>3, FS_CardinalityType DEF TypeOK
  <2>5. notification'[d] = notification[d] + tasks[k][d]
    BY <2>2
  <2>6. QED
    BY <1>1, <1>2, <1>3, <2>2, <2>3, <2>4, <2>5 DEF Bounded
<1>9. ASSUME UNCHANGED <<tasks, notification, pc, owner>>
      PROVE  Bounded(tasks', notification'[d], pc'[d] = "check", owner', d)
  BY <1>1, <1>9 DEF Bounded
<1>10. RunSwap \/ FuncBegin \/ RunEnd \/ FuncAdds \/ (\E c \in Clients : AddRefused(c))
         \/ UNCHANGED vars
       => UNCHANGED <<tasks, notification, pc, owner>>
  BY DEF RunSwap, FuncBegin, RunEnd, FuncAdds, AddRefused, vars, futureVars, clientVars,
         historyVars
<1>11. QED
  BY <1>4, <1>5, <1>6, <1>7, <1>8, <1>9, <1>10 DEF Next, Run, Wait

(* Spurious rounds of Future::wait are as rare as calls that timed out.    *)
THEOREM Strays == Spec => []StrayNotificationsBounded
<1>1. Spec => []StrayInv
  BY Invariance, InitStray, NextStray, PTL DEF Spec
<1>2. QED
  BY <1>1, StrayInvIs, PTL

(* Every step of the scheduler is a step of AsyncCall or none.             *)
THEOREM Refinement == Spec => Abstract!SafeSpec
<1> USE ConstantsType
<1>1. Init => Abstract!Init
  BY DEF Init, Abstract!Init, Abstract!Calls, Calls
<1>2. IInv /\ [Next]_vars => [Abstract!Next]_(Abstract!vars)
  <2> SUFFICES ASSUME IInv, [Next]_vars
               PROVE  Abstract!Next \/ UNCHANGED Abstract!vars
    OBVIOUS
  <2> USE DEF Abstract!vars
  <2>a. TypeOK /\ HoldInv /\ BatchInv /\ ExactlyOnceInOrder /\ ClientInv
    BY DEF IInv, QueueInv
  <2>1. ASSUME PushBack
        PROVE  submitted < MaxCalls /\ submitted - executed < 2 * MaxEventCount
    BY <2>1, <2>a DEF PushBack, TypeOK, BatchInv, ExactlyOnceInOrder, Remaining
  <2>2. ASSUME NEW c \in Clients, Add(c)
        PROVE  Abstract!Submit(c)
    BY <2>1, <2>2, <2>a
    DEF Add, PushBack, futureVars, TypeOK, HoldInv, Abstract!Submit, Abstract!Accept
  <2>3. ASSUME NEW c \in Clients, AddRefused(c)
        PROVE  Abstract!Refuse(c)
    BY <2>3, <2>a
    DEF AddRefused, futureVars, historyVars, HoldInv, Abstract!Refuse
  <2>4. ASSUME NEW c \in Clients, WaitTimeout(c)
        PROVE  Abstract!GiveUp(c)
    BY <2>4, <2>a
    DEF WaitTimeout, Return, futureVars, historyVars, HoldInv, Abstract!GiveUp,
        Abstract!Finish
  <2>5. ASSUME NEW c \in Clients, ReadCode(c)
        PROVE  Abstract!Answer(c)
    <3>1. call[c] \in Calls /\ code[call[c]] # "Last"
      BY <2>5, <2>a DEF ReadCode, TypeOK, HoldInv, ClientInv
    <3>2. call[c] \in 1..executed
      BY <2>a, <3>1 DEF ExactlyOnceInOrder, TypeOK, Calls
    <3>3. QED
      BY <2>5, <3>2
      DEF ReadCode, Return, futureVars, historyVars, Abstract!Answer, Abstract!Finish
  <2>6. ASSUME FuncReturn
        PROVE  Abstract!Execute
    <3>1. read_queue[pos] = executed + 1
      BY <2>6, ReturningCall DEF IInv
    <3>2. executed < submitted
      BY <2>6, <2>a
      DEF FuncReturn, TypeOK, BatchInv, ExactlyOnceInOrder, Remaining
    <3>3. QED
      BY <2>6, <3>1, <3>2 DEF FuncReturn, clientVars, Abstract!Execute
  <2>7. ASSUME FuncAdds
        PROVE  Abstract!Detach
    BY <2>1, <2>7
    DEF FuncAdds, PushBack, futureVars, clientVars, Abstract!Detach, Abstract!Accept
  <2>8. ASSUME NEW c \in Clients, WaitCheck(c) \/ NotifyTake(c)
        PROVE  UNCHANGED Abstract!vars
    BY <2>8 DEF WaitCheck, NotifyTake, futureVars, historyVars
  <2>9. ASSUME RunSwap \/ FuncBegin \/ RunEnd \/ UNCHANGED vars
        PROVE  UNCHANGED Abstract!vars
    BY <2>9 DEF RunSwap, FuncBegin, RunEnd, vars, futureVars, clientVars, historyVars
  <2>10. QED
    BY <2>2, <2>3, <2>4, <2>5, <2>6, <2>7, <2>8, <2>9
    DEF Next, Run, Wait, Abstract!Next
<1>3. QED
  BY <1>1, <1>2, Invariance, PTL DEF Spec, Abstract!SafeSpec
===============================================================================
