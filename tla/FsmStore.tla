------------------------------ MODULE FsmStore ------------------------------
(***************************************************************************)
(* ocs_control/fsm_store.cpp: a task that runs the handlers of the current *)
(* state of its FsmBlock, and tells them of a transition one run after it  *)
(* was asked for.  The handlers ask for it through FsmBlock::set_next().   *)
(* The durations and the storage of the block are in FsmBlock.             *)
(***************************************************************************)
EXTENDS Naturals, Sequences

CONSTANTS
  States,       \* the states; 0 stands for none
  HandlerCount  \* handlers of a state, 0 for a state nobody handles

StatesAssumption ==
  States \subseteq Nat \ {0} /\ HandlerCount \in [States -> Nat]

VARIABLES
  curr_state_, next_state_,  \* of the block
  is_transit_begin_,
  pc,                        \* where run() is
  pos,                       \* the handler it has come to
  told                       \* the handlers told of this transition (history)

vars == <<curr_state_, next_state_, is_transit_begin_, pc, pos, told>>

TypeOK ==
  /\ curr_state_ \in States \cup {0} /\ next_state_ \in States \cup {0}
  /\ is_transit_begin_ \in BOOLEAN
  /\ pc \in {"idle", "transit", "state", "aborted"}
  /\ pos \in Nat /\ told \in Seq(Nat)

\* The block may come with the state it had before a restart.
Init ==
  /\ curr_state_ = 0 /\ next_state_ = 0 /\ is_transit_begin_ = FALSE
  /\ pc = "idle" /\ pos = 0 /\ told = <<>>

Restore(s) ==
  /\ pc = "idle" /\ curr_state_ = 0
  /\ curr_state_' = s
  /\ UNCHANGED <<next_state_, is_transit_begin_, pc, pos, told>>

\* configASSERT(): a state must have a handler.
Handled(s) == s \in States /\ HandlerCount[s] > 0

Enter(part, s) ==
  IF Handled(s) THEN pc' = part /\ pos' = 1
  ELSE pc' = "aborted" /\ pos' = 0

\* run(): first the end of a transition that the last run saw begin.
Run ==
  /\ pc = "idle"
  /\ Enter(IF is_transit_begin_ THEN "transit" ELSE "state", curr_state_)
  /\ UNCHANGED <<curr_state_, next_state_, is_transit_begin_, told>>

\* A handler may ask for a state, for none, or for nothing.
AskNext == next_state_' \in States \cup {0, next_state_}

\* Mutant of TransitHandler: a handler that fails is the last one told.
TransitHandlerStops ==
  /\ pc = "transit" /\ pos <= HandlerCount[curr_state_]
  /\ AskNext
  /\ told' = Append(told, pos)
  /\ pos' \in {pos + 1, HandlerCount[curr_state_] + 1}
  /\ UNCHANGED <<curr_state_, is_transit_begin_, pc>>

\* handle_transit_end_(): the handlers of the state that is left; one that
\* fails is only logged.
TransitHandler ==
  /\ pc = "transit" /\ pos <= HandlerCount[curr_state_]
  /\ AskNext
  /\ told' = Append(told, pos) /\ pos' = pos + 1
  /\ UNCHANGED <<curr_state_, is_transit_begin_, pc>>

\* FsmBlock::transit() goes to whatever was asked for last, without looking
\* whether there still is a transition; the handlers of the new state follow.
TransitEnd ==
  /\ pc = "transit" /\ pos > HandlerCount[curr_state_]
  /\ curr_state_' = next_state_ /\ next_state_' = 0
  /\ is_transit_begin_' = FALSE /\ told' = <<>>
  /\ Enter("state", next_state_)

\* handle_state_().
StateHandler ==
  /\ pc = "state" /\ pos <= HandlerCount[curr_state_]
  /\ AskNext
  /\ pos' = pos + 1
  /\ UNCHANGED <<curr_state_, is_transit_begin_, pc, told>>

\* is_in_transit() and handle_transit_begin_().
EndRun ==
  /\ pc = "state" /\ pos > HandlerCount[curr_state_]
  /\ is_transit_begin_' =
       (is_transit_begin_ \/ (next_state_ # 0 /\ next_state_ # curr_state_))
  /\ pc' = "idle" /\ pos' = 0
  /\ UNCHANGED <<curr_state_, next_state_, told>>

Next ==
  \/ \E s \in States : Restore(s)
  \/ Run \/ TransitHandler \/ TransitEnd \/ StateHandler \/ EndRun

Spec == Init /\ [][Next]_vars

(***************************************************************************)
(* Properties                                                              *)
(***************************************************************************)

\* No state is left before every handler of it was told, once and in the order
\* they were added, whatever the handlers ask for in between and whether they
\* fail; and no handler of another state is told in its place.
TransitionIsTold ==
  [][curr_state_ # 0 /\ curr_state_' # curr_state_ =>
       told = [i \in 1 .. HandlerCount[curr_state_] |-> i]]_vars
=============================================================================
