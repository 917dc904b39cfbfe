----------------------------- MODULE Suspension -----------------------------
(***************************************************************************)
(* ocs_system/fanout_suspender.cpp and suspender_guard.cpp: while a task   *)
(* uses the 1-Wire bus with the FreeRTOS scheduler suspended, everything   *)
(* that answers the network is suspended.  The first handler is            *)
(* HttpPipeline: it stops mDNS (ocs_net/mdns_store.cpp) and starts it      *)
(* again with every service; the others stand for the firmware's own.      *)
(***************************************************************************)
EXTENDS Naturals, FiniteSets

CONSTANTS
  NumHandlers,  \* nodes_ of the suspender, in the order they were added
  Services      \* services_ of the mDNS store

HttpPipelineIsAdded == NumHandlers \in Nat \ {0}

VARIABLES
  phase,        \* where the task with the guard is
  pos,          \* the handler it has come to
  active,       \* the handlers that are at work
  excused,      \* the handlers whose last call failed
  announced,    \* the services that mDNS announces
  refused,      \* the services that its last start could not announce
  todo          \* the services that flush_() has still to come to

vars == <<phase, pos, active, excused, announced, refused, todo>>

Handlers == 1 .. NumHandlers
Mdns == 1

TypeOK ==
  /\ phase \in {"boot", "run", "suspending", "guarded", "resuming"}
  /\ pos \in 1 .. NumHandlers + 1
  /\ active \subseteq Handlers /\ excused \subseteq Handlers
  /\ announced \subseteq Services /\ refused \subseteq Services
  /\ todo \subseteq Services

Init ==
  /\ phase = "boot" /\ pos = 1
  /\ active = Handlers \ {Mdns} /\ excused = {}
  /\ announced = {} /\ refused = {} /\ todo = {}

\* DefaultMdnsDriver::start() fails at mdns_init(), or after it: nothing is
\* announced, and what mdns_init() started is not stopped.
StartFails ==
  /\ refused' = Services /\ announced' = {}
  /\ excused' = excused \cup {Mdns}
  /\ \/ active' = active
     \/ active' = active \cup {Mdns}

\* A start that succeeds leaves the services to flush_().
StartOK ==
  /\ refused' = {} /\ announced' = {} /\ todo' = Services
  /\ active' = active \cup {Mdns} /\ excused' = excused \ {Mdns}

\* MdnsPipeline::start().
Boot ==
  /\ phase = "boot" /\ phase' = "run"
  /\ \/ StartOK
     \/ StartFails /\ UNCHANGED todo
  /\ UNCHANGED pos

\* Mutant of FlushService: flush_() returns at the first failure.
FlushStops(s) ==
  /\ s \in todo
  /\ \/ announced' = announced \cup {s} /\ todo' = todo \ {s} /\ UNCHANGED refused
     \/ refused' = refused \cup {s} /\ todo' = {} /\ UNCHANGED announced
  /\ UNCHANGED <<phase, pos, active, excused>>

\* flush_(): a service that is refused is logged, its records are left out,
\* and the next one is added.
FlushService(s) ==
  /\ s \in todo
  /\ todo' = todo \ {s}
  /\ \/ announced' = announced \cup {s} /\ UNCHANGED refused
     \/ refused' = refused \cup {s} /\ UNCHANGED announced
  /\ UNCHANGED <<phase, pos, active, excused>>

\* SuspenderGuard::SuspenderGuard().
BeginSuspend ==
  /\ phase \in {"boot", "run"} /\ todo = {}
  /\ phase' = "suspending" /\ pos' = 1
  /\ UNCHANGED <<active, excused, announced, refused, todo>>

\* suspend(): mDNS always stops; a handler that fails is only logged.
SuspendNode ==
  /\ phase = "suspending" /\ pos \in Handlers
  /\ pos' = pos + 1
  /\ IF pos = Mdns THEN /\ active' = active \ {Mdns} /\ announced' = {}
                        /\ excused' = excused \ {Mdns}
     ELSE /\ UNCHANGED announced
          /\ \/ active' = active \ {pos} /\ excused' = excused \ {pos}
             \/ excused' = excused \cup {pos} /\ UNCHANGED active
  /\ UNCHANGED <<phase, refused, todo>>

\* Every handler was called: the guarded operation runs.
Guard ==
  /\ phase = "suspending" /\ pos \notin Handlers
  /\ phase' = "guarded"
  /\ UNCHANGED <<pos, active, excused, announced, refused, todo>>

\* SuspenderGuard::~SuspenderGuard().
BeginResume ==
  /\ phase = "guarded"
  /\ phase' = "resuming" /\ pos' = 1
  /\ UNCHANGED <<active, excused, announced, refused, todo>>

\* resume(): mDNS is started, also when it never was; a handler that fails is
\* only logged.
ResumeNode ==
  /\ phase = "resuming" /\ pos \in Handlers /\ todo = {}
  /\ pos' = pos + 1
  /\ IF pos = Mdns
     THEN StartOK \/ (StartFails /\ UNCHANGED todo)
     ELSE /\ \/ active' = active \cup {pos} /\ excused' = excused \ {pos}
             \/ excused' = excused \cup {pos} /\ UNCHANGED active
          /\ UNCHANGED <<announced, refused, todo>>
  /\ UNCHANGED phase

Resumed ==
  /\ phase = "resuming" /\ pos \notin Handlers /\ todo = {}
  /\ phase' = "run"
  /\ UNCHANGED <<pos, active, excused, announced, refused, todo>>

Next ==
  \/ Boot \/ BeginSuspend \/ SuspendNode \/ Guard
  \/ BeginResume \/ ResumeNode \/ Resumed
  \/ \E s \in Services : FlushService(s)

Spec == Init /\ [][Next]_vars

(***************************************************************************)
(* Properties                                                              *)
(***************************************************************************)

\* A failure of one handler, or of one service, is not a failure of another:
\* under the guard only a handler that itself refused is still at work, and
\* after it everything is back except what itself failed to come back.
FailureStaysAlone ==
  /\ phase = "guarded" => active \subseteq excused /\ announced = {}
  /\ phase = "run" /\ todo = {} =>
       /\ Handlers \ active \subseteq excused
       /\ Services \ announced \subseteq refused
=============================================================================
