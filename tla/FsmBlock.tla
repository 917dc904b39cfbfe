------------------------------- MODULE FsmBlock -------------------------------
(***************************************************************************)
(* control::FsmBlock: the state of a finite state machine, with the time   *)
(* spent in the current and in the previous state, persisted over reboots  *)
(* under five keys of one storage.  Its users are here the soil sensor     *)
(* (AnalogSensor::run), the periodic save task and the reboot handler;     *)
(* they run one after the other on the task of one scheduler, so nothing   *)
(* interleaves with write_() but the clock, failing writes and the loss of *)
(* power between two keys.                                                 *)
(*                                                                         *)
(* Abstraction: a moisture status is a number 1..LastStatus, 0 is None;    *)
(* the sensor may see any status at any time.  One tick is the clock's     *)
(* unit, Resolution ticks are the unit of durations.                       *)
(***************************************************************************)
EXTENDS Integers, Sequences

CONSTANTS
  LastStatus,   \* the states of the machine are 1..LastStatus, 0 for none
  Resolution,   \* FsmBlock::resolution_, in ticks
  ReadsFail,    \* may the storage fail to read a key that is there?
  MaxTime,      \* bound: ticks with power on
  MaxWrites     \* bound: calls of write_()

ASSUME LastStatusAssumption == LastStatus \in Nat
ASSUME ResolutionAssumption == Resolution \in Nat \ {0}
ASSUME ReadsFailAssumption == ReadsFail \in BOOLEAN
ASSUME BoundsAssumption == MaxTime \in Nat /\ MaxWrites \in Nat

(* The keys in the order write_() writes and read_() reads them. *)
KeyOrder == <<"write_count", "prev_state", "prev_state_dur", "curr_state",
              "curr_state_dur">>
Keys == {KeyOrder[i] : i \in DOMAIN KeyOrder}

States == 0..LastStatus

VARIABLES
  mem,          \* the five persisted fields of the block, by key
  next_state,   \* FsmBlock::next_state_
  start_ts,     \* FsmBlock::start_ts_
  saved_ts,     \* FsmBlock::saved_ts_
  now,          \* IClock::now(): ticks since boot
  phase,        \* what the task is doing, see TypeOK
  written,      \* keys the current write_() has written
  flash,        \* the storage: key -> value, or Absent
  \* history
  total,        \* ticks with power on since the first boot
  writes,       \* number of write_() calls
  age,          \* the write_() that wrote each key of flash
  missed        \* transitions not completely persisted, 2 for "unknown"

memVars == <<mem, next_state, start_ts, saved_ts>>
historyVars == <<total, writes, age, missed>>
vars == <<memVars, now, phase, written, flash, historyVars>>

Absent == -1

TypeOK ==
  /\ mem \in [Keys -> Nat]
  /\ {mem["prev_state"], mem["curr_state"], next_state} \subseteq States
  /\ start_ts \in 0..now
  /\ saved_ts \in Nat
  /\ now \in 0..total
  \* "save": in write_(); "reboot": in write_() of handle_reboot();
  \* "restart": esp_restart() called; "off": power lost
  /\ phase \in {"run", "save", "reboot", "restart", "off"}
  /\ written \in 0..Len(KeyOrder)
  /\ flash \in [Keys -> Nat \cup {Absent}]
  /\ total \in 0..MaxTime
  /\ writes \in 0..MaxWrites
  /\ age \in [Keys -> 0..writes]
  /\ missed \in 0..2

Init ==
  /\ mem = [k \in Keys |-> 0]
  /\ next_state = 0
  /\ start_ts = 0
  /\ saved_ts = 0
  /\ now = 0
  /\ phase = "run"
  /\ written = 0
  /\ flash = [k \in Keys |-> Absent]
  /\ total = 0
  /\ writes = 0
  /\ age = [k \in Keys |-> 0]
  /\ missed = 0

-----------------------------------------------------------------------------

(* Mutant: the time since start_ts_ is added to a duration that has it. *)
UpdatedDurationAccumulates ==
  mem["curr_state_dur"] + (now - start_ts) \div Resolution

(* update(): the duration of the current state. *)
UpdatedDuration == saved_ts + (now - start_ts) \div Resolution

(* write_() starts with the number of the write. *)
BeginWrite(fields, what) ==
  /\ writes < MaxWrites
  /\ writes' = writes + 1
  /\ mem' = [fields EXCEPT !["write_count"] = @ + 1]
  /\ phase' = what
  /\ written' = 0

(* AnalogSensor::run with a sample whose status is the current one.  A     *)
(* failed read of the ADC changes nothing.                                 *)
Stay ==
  /\ phase = "run"
  /\ mem["curr_state"] # 0
  /\ mem' = [mem EXCEPT !["curr_state_dur"] = UpdatedDuration]
  /\ next_state' = mem["curr_state"]
  /\ UNCHANGED <<start_ts, saved_ts, now, phase, written, flash, historyVars>>

(* Mutant: transit() does not keep the state it leaves. *)
TransitForgetsPrevious(status) ==
  /\ phase = "run"
  /\ status # mem["curr_state"]
  /\ BeginWrite([mem EXCEPT !["prev_state_dur"] = UpdatedDuration,
                            !["curr_state"] = status,
                            !["curr_state_dur"] = 0],
                "save")
  /\ next_state' = 0
  /\ start_ts' = now
  /\ saved_ts' = 0
  /\ missed' = IF missed = 0 THEN 1 ELSE 2
  /\ UNCHANGED <<now, flash, total, age>>

(* AnalogSensor::run with a sample of another status: update(), set_next() *)
(* and transit() up to its write_().                                       *)
Transit(status) ==
  /\ phase = "run"
  /\ status # mem["curr_state"]
  /\ BeginWrite([mem EXCEPT !["prev_state"] = mem["curr_state"],
                            !["prev_state_dur"] = UpdatedDuration,
                            !["curr_state"] = status,
                            !["curr_state_dur"] = 0],
                "save")
  /\ next_state' = 0
  /\ start_ts' = now
  /\ saved_ts' = 0
  /\ missed' = IF missed = 0 THEN 1 ELSE 2
  /\ UNCHANGED <<now, flash, total, age>>

(* The periodic save, FsmBlock::run. *)
Save ==
  /\ phase = "run"
  /\ BeginWrite(mem, "save")
  /\ UNCHANGED <<next_state, start_ts, saved_ts, now, flash, total, age, missed>>

(* DefaultRebooter::reboot calls handle_reboot(): update() and write_(). *)
HandleReboot ==
  /\ phase = "run"
  /\ BeginWrite([mem EXCEPT !["curr_state_dur"] = UpdatedDuration], "reboot")
  /\ UNCHANGED <<next_state, start_ts, saved_ts, now, flash, total, age, missed>>

(* write_() returns; after the one of handle_reboot() the chip restarts. *)
EndWrite == phase' = IF phase = "save" THEN "run" ELSE "restart"

(* The next storage_.write() of write_() succeeds. *)
WriteKey ==
  /\ phase \in {"save", "reboot"}
  /\ LET key == KeyOrder[written + 1]
     IN  /\ flash' = [flash EXCEPT ![key] = mem[key]]
         /\ age' = [age EXCEPT ![key] = writes]
  /\ IF written + 1 = Len(KeyOrder)
     THEN EndWrite /\ written' = 0 /\ missed' = 0
     ELSE written' = written + 1 /\ UNCHANGED <<phase, missed>>
  /\ UNCHANGED <<memVars, now, total, writes>>

(* Mutant: write_() goes on with the next key after a failure. *)
WriteFailsSkipsKey ==
  /\ phase \in {"save", "reboot"}
  /\ IF written + 1 = Len(KeyOrder)
     THEN EndWrite /\ written' = 0
     ELSE written' = written + 1 /\ UNCHANGED phase
  /\ UNCHANGED <<memVars, now, flash, historyVars>>

(* The next storage_.write() fails, and write_() gives up. *)
WriteFails ==
  /\ phase \in {"save", "reboot"}
  /\ EndWrite
  /\ written' = 0
  /\ UNCHANGED <<memVars, now, flash, historyVars>>

-----------------------------------------------------------------------------
Tick ==
  /\ phase \in {"run", "save", "reboot"}
  /\ total < MaxTime
  /\ total' = total + 1
  /\ now' = now + 1
  /\ UNCHANGED <<memVars, phase, written, flash, writes, age, missed>>

PowerLoss ==
  /\ phase \in {"run", "save", "reboot"}
  /\ phase' = "off"
  /\ written' = 0
  /\ UNCHANGED <<memVars, now, flash, historyVars>>

(* Mutant: the constructor does not count on from the restored duration. *)
BootForgetsSaved(n) ==
  /\ phase \in {"restart", "off"}
  /\ \A i \in 1..n : flash[KeyOrder[i]] # Absent
  /\ n < Len(KeyOrder) => ReadsFail \/ flash[KeyOrder[n + 1]] = Absent
  /\ mem' = [k \in Keys |->
               IF \E i \in 1..n : KeyOrder[i] = k THEN flash[k] ELSE 0]
  /\ saved_ts' = 0
  /\ next_state' = 0
  /\ start_ts' = 0
  /\ now' = 0
  /\ phase' = "run"
  /\ missed' = IF n = Len(KeyOrder) THEN 0 ELSE 2
  /\ UNCHANGED <<written, flash, total, writes, age>>

(* The constructor: read_() reads the first n keys, and stops there when   *)
(* the next one is absent or cannot be read.  Only after a complete read   *)
(* is the restored duration counted on.                                    *)
Boot(n) ==
  /\ phase \in {"restart", "off"}
  /\ \A i \in 1..n : flash[KeyOrder[i]] # Absent
  /\ n < Len(KeyOrder) => ReadsFail \/ flash[KeyOrder[n + 1]] = Absent
  /\ mem' = [k \in Keys |->
               IF \E i \in 1..n : KeyOrder[i] = k THEN flash[k] ELSE 0]
  /\ saved_ts' = IF n = Len(KeyOrder) THEN flash["curr_state_dur"] ELSE 0
  /\ next_state' = 0
  /\ start_ts' = 0
  /\ now' = 0
  /\ phase' = "run"
  /\ missed' = IF n = Len(KeyOrder) THEN 0 ELSE 2
  /\ UNCHANGED <<written, flash, total, writes, age>>

Next ==
  \/ Stay
  \/ \E status \in 1..LastStatus : Transit(status)
  \/ Save
  \/ HandleReboot
  \/ WriteKey
  \/ WriteFails
  \/ Tick
  \/ PowerLoss
  \/ \E n \in 0..Len(KeyOrder) : Boot(n)

Spec == Init /\ [][Next]_vars

-----------------------------------------------------------------------------
(* write_() is not atomic, but its order is kept in the flash: whatever    *)
(* was interrupted or failed, no key is from a later write than a key      *)
(* before it.  In particular the current state is never newer than the     *)
(* previous state stored with it, and a duration never newer than its      *)
(* state.                                                                  *)
KeyAgesOrdered ==
  \A i, j \in DOMAIN KeyOrder : i <= j => age[KeyOrder[i]] >= age[KeyOrder[j]]

(* No sequence of transitions, failed writes and power losses makes up     *)
(* time: no duration, in memory or restored, exceeds the time the device   *)
(* has been on.                                                            *)
DurationWithinLifetime ==
  \A key \in {"prev_state_dur", "curr_state_dur"} :
    /\ mem[key] * Resolution <= total
    /\ flash[key] * Resolution <= total

(* A reboot whose write_() succeeded loses nothing but the unfinished      *)
(* part of a duration unit: the block comes back as it was, and counts on  *)
(* from there.                                                             *)
CleanRebootLosesNothing ==
  [][phase = "restart" /\ missed = 0 /\ Boot(Len(KeyOrder)) /\ age["curr_state_dur"] = writes
       => mem' = mem /\ UpdatedDuration' = mem["curr_state_dur"]]_vars

(* A loss of power in the middle of a transition, or after one that was    *)
(* not stored, brings back the state before or after it and no other one.  *)
RestartLosesAtMostOneTransition ==
  [][missed < 2 /\ Boot(Len(KeyOrder))
       => mem'["curr_state"] \in {mem["curr_state"], mem["prev_state"]}]_vars

=============================================================================
