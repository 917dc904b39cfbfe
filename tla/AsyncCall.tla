------------------------------ MODULE AsyncCall ------------------------------
(***************************************************************************)
(* What AsyncFuncScheduler promises to the tasks that use it, with no      *)
(* queues, condition variables or notifications: functions are accepted,   *)
(* every accepted function is executed once, in the order of acceptance,   *)
(* and a caller that gets a status code gets the one its own function      *)
(* returned.  A caller with a finite wait interval may give up at any      *)
(* time; the function it leaves behind is executed all the same.           *)
(***************************************************************************)
EXTENDS Naturals

CONSTANTS
  Clients,      \* tasks that call add() and wait for the future
  Patient,      \* the clients that wait with portMAX_DELAY
  Codes,        \* status codes a function may return
  MaxCalls,     \* bound on the number of accepted functions
  MaxBacklog    \* how many accepted functions may be unexecuted at once

VARIABLES
  submitted,    \* number of accepted functions; the k-th one is "call k"
  executed,     \* number of executed functions
  code,         \* code[k]: what call k returned, "Last" before it did
  call,         \* call[c]: the call client c is waiting for, 0 when none
  reply         \* reply[c]: the last answer client c was given

vars == <<submitted, executed, code, call, reply>>

Calls == 1..MaxCalls

Init ==
  /\ submitted = 0
  /\ executed = 0
  /\ code = [k \in Calls |-> "Last"]
  /\ call = [c \in Clients |-> 0]
  /\ reply = [c \in Clients |-> [call |-> 0, code |-> "Last"]]

Accept ==
  /\ submitted < MaxCalls
  /\ submitted - executed < MaxBacklog
  /\ submitted' = submitted + 1

(* Client c hands in a function and starts to wait for it. *)
Submit(c) ==
  /\ call[c] = 0
  /\ Accept
  /\ call' = [call EXCEPT ![c] = submitted + 1]
  /\ UNCHANGED <<executed, code, reply>>

(* A function hands in another one, and nobody waits for it. *)
Detach ==
  /\ Accept
  /\ UNCHANGED <<executed, code, call, reply>>

(* Client c is told that its function was not accepted. *)
Refuse(c) ==
  /\ call[c] = 0
  /\ reply' = [reply EXCEPT ![c] = [call |-> 0, code |-> "InvalidState"]]
  /\ UNCHANGED <<submitted, executed, code, call>>

(* The oldest unexecuted function is executed. *)
Execute ==
  /\ executed < submitted
  /\ executed' = executed + 1
  /\ \E result \in Codes : code' = [code EXCEPT ![executed + 1] = result]
  /\ UNCHANGED <<submitted, call, reply>>

Finish(c, result) ==
  /\ reply' = [reply EXCEPT ![c] = [call |-> call[c], code |-> result]]
  /\ call' = [call EXCEPT ![c] = 0]
  /\ UNCHANGED <<submitted, executed, code>>

Answer(c) ==
  /\ call[c] \in 1..executed
  /\ Finish(c, code[call[c]])

GiveUp(c) ==
  /\ c \notin Patient
  /\ call[c] # 0
  /\ Finish(c, "Timeout")

Next ==
  \/ Detach
  \/ Execute
  \/ \E c \in Clients : Submit(c) \/ Refuse(c) \/ Answer(c) \/ GiveUp(c)

SafeSpec == Init /\ [][Next]_vars

(* Accepted functions do get executed, and a client does not wait for an   *)
(* executed function forever.                                              *)
Spec ==
  /\ SafeSpec
  /\ WF_vars(Execute)
  /\ \A c \in Clients : WF_vars(Answer(c))
=============================================================================
