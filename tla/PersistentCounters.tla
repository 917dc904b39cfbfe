-------------------------- MODULE PersistentCounters --------------------------
(***************************************************************************)
(* The two counters of SystemCounterPipeline on one storage: "uptime", a   *)
(* MemPersistentCounter that is persisted by the reboot handler only and   *)
(* erased when it was read, and "lifetime", an AccPersistentCounter that   *)
(* is also saved by a periodic task.  Both wrap a TimeCounter, which       *)
(* counts the time since boot.  Construction, the periodic save and the    *)
(* reboot handlers run on the main task, one after the other; the clock    *)
(* goes on, writes may fail, and power may be lost between any two steps.  *)
(*                                                                         *)
(* The constructors run within the first tick after boot, and the periodic *)
(* scheduler runs a due task before the clock ticks again: its rounds are  *)
(* much shorter than a tick.                                               *)
(***************************************************************************)
EXTENDS Integers

CONSTANTS
  Resolution,     \* TimeCounter::resolution_, in ticks
  SaveInterval,   \* interval of lifetime_counter_task, in ticks
  ErasesFail,     \* may the storage fail to erase?
  MaxTime         \* bound: ticks with power on

ASSUME ResolutionAssumption == Resolution \in Nat \ {0}
ASSUME SaveIntervalAssumption == SaveInterval \in Nat \ {0}
ASSUME ErasesFailAssumption == ErasesFail \in BOOLEAN
ASSUME MaxTimeAssumption == MaxTime \in Nat

Counters == {"uptime", "lifetime"}

NoData == -1

VARIABLES
  value,      \* BasicPersistentCounter::value_ of each counter
  stored,     \* what the storage holds under each counter's id, or NoData
  now,        \* IClock::now(): ticks since boot
  save_ts,    \* RateLimiter::start_ of the periodic save, or NoData
  phase,      \* what the main task does, see TypeOK
  \* history
  total,      \* ticks with power on since the first boot
  served_cut, \* total at the last loss of power in service
  misses,     \* saves of the lifetime that failed since the last good one
  excused     \* the most that earlier boots may have lost of their time

historyVars == <<total, served_cut, misses, excused>>
vars == <<value, stored, now, save_ts, phase, historyVars>>

Phases ==
  {"read_uptime", "erase_uptime", "read_lifetime",  \* the constructors
   "run",                                           \* in service
   "save_uptime", "save_lifetime",                  \* the reboot handlers
   "restart", "off"}                                \* chip not running

TypeOK ==
  /\ value \in [Counters -> Nat]
  /\ stored \in [Counters -> Nat \cup {NoData}]
  /\ now \in Nat
  /\ save_ts \in Nat \cup {NoData}
  /\ phase \in Phases
  /\ total \in Nat
  /\ served_cut \in Nat
  /\ misses \in Nat
  /\ excused \in Nat

Init ==
  /\ value = [k \in Counters |-> 0]
  /\ stored = [k \in Counters |-> NoData]
  /\ now = 0
  /\ save_ts = NoData
  /\ phase = "read_uptime"
  /\ total = 0
  /\ served_cut = 0
  /\ misses = 0
  /\ excused = 0

-----------------------------------------------------------------------------
(* AccPersistentCounter::get and MemPersistentCounter::get, on top of      *)
(* TimeCounter::get.                                                       *)
Get(counter) == value[counter] + now \div Resolution

(* storage_.read() in the constructor: value_ stays 0 when nothing is      *)
(* stored, and also when the read fails, which is only logged.  A lifetime *)
(* that was not read is lost with the next save.                           *)
ReadStored(counter) ==
  /\ stored[counter] # NoData
  /\ value' = [value EXCEPT ![counter] = stored[counter]]
  /\ UNCHANGED excused

ReadFails(counter) ==
  /\ excused' = IF counter = "lifetime" /\ stored[counter] # NoData
                THEN total ELSE excused
  /\ UNCHANGED value

BootUptime ==
  /\ phase = "read_uptime"
  /\ ReadStored("uptime") \/ ReadFails("uptime")
  /\ phase' = "erase_uptime"
  /\ UNCHANGED <<stored, now, save_ts, total, served_cut, misses>>

(* Mutant: the restored uptime is not erased. *)
BootEraseForgotten ==
  /\ phase = "erase_uptime"
  /\ phase' = "read_lifetime"
  /\ UNCHANGED <<value, stored, now, save_ts, historyVars>>

(* MemPersistentCounter erases what it has read; a failure is only logged. *)
BootErase ==
  /\ phase = "erase_uptime"
  /\ \E ok \in {TRUE, ~ ErasesFail} :
       stored' = IF ok THEN [stored EXCEPT !["uptime"] = NoData] ELSE stored
  /\ phase' = "read_lifetime"
  /\ UNCHANGED <<value, now, save_ts, historyVars>>

BootLifetime ==
  /\ phase = "read_lifetime"
  /\ ReadStored("lifetime") \/ ReadFails("lifetime")
  /\ phase' = "run"
  /\ UNCHANGED <<stored, now, save_ts, total, served_cut, misses>>

(* save_(): a write that fails leaves the stored value. *)
SaveCounter(counter) ==
  \/ /\ stored' = [stored EXCEPT ![counter] = Get(counter)]
     /\ misses' = IF counter = "lifetime" THEN 0 ELSE misses
  \/ /\ misses' = IF counter = "lifetime" THEN misses + 1 ELSE misses
     /\ UNCHANGED stored

SaveDue == save_ts = NoData \/ now - save_ts >= SaveInterval

(* Mutant: what is saved is added to value_ while the clock counts on. *)
RunAccumulates ==
  /\ phase = "run"
  /\ SaveDue
  /\ SaveCounter("lifetime")
  /\ value' = [value EXCEPT !["lifetime"] = Get("lifetime")]
  /\ save_ts' = now
  /\ UNCHANGED <<now, phase, total, served_cut, excused>>

(* The periodic task, started by its RateLimiter. *)
Run ==
  /\ phase = "run"
  /\ SaveDue
  /\ SaveCounter("lifetime")
  /\ save_ts' = now
  /\ UNCHANGED <<value, now, phase, total, served_cut, excused>>

(* DefaultRebooter::reboot: the handlers of the fanout in their order of   *)
(* registration, then esp_restart().                                       *)
Reboot ==
  /\ phase = "run"
  /\ phase' = "save_uptime"
  /\ UNCHANGED <<value, stored, now, save_ts, historyVars>>

HandleRebootUptime ==
  /\ phase = "save_uptime"
  /\ SaveCounter("uptime")
  /\ phase' = "save_lifetime"
  /\ UNCHANGED <<value, now, save_ts, total, served_cut, excused>>

(* Mutant: the lifetime is not registered as a reboot handler. *)
HandleRebootLifetimeForgotten ==
  /\ phase = "save_lifetime"
  /\ phase' = "restart"
  /\ UNCHANGED <<value, stored, now, save_ts, historyVars>>

HandleRebootLifetime ==
  /\ phase = "save_lifetime"
  /\ SaveCounter("lifetime")
  /\ phase' = "restart"
  /\ UNCHANGED <<value, now, save_ts, total, served_cut, excused>>

-----------------------------------------------------------------------------
InService == phase \in {"run", "save_uptime", "save_lifetime"}

Tick ==
  /\ InService
  /\ ~ SaveDue
  /\ total < MaxTime
  /\ now' = now + 1
  /\ total' = total + 1
  /\ UNCHANGED <<value, stored, save_ts, phase, served_cut, misses, excused>>

(* What a boot may lose after `intervals' intervals without a good save:   *)
(* their time, and the part of a unit that the last save rounded down.     *)
Excuse(intervals) ==
  LET most == intervals * SaveInterval + Resolution - 1
  IN  excused' = excused + IF now < most THEN now ELSE most

PowerLoss ==
  /\ phase \notin {"restart", "off"}
  /\ phase' = "off"
  /\ served_cut' = IF phase = "run" THEN total ELSE served_cut
  /\ Excuse(misses + 1)
  /\ UNCHANGED <<value, stored, now, save_ts, total, misses>>

(* The chip starts, and memory and clock are zero. *)
Boot ==
  /\ phase \in {"restart", "off"}
  /\ phase' = "read_uptime"
  /\ value' = [k \in Counters |-> 0]
  /\ now' = 0
  /\ save_ts' = NoData
  /\ misses' = 0
  /\ IF phase = "restart" THEN Excuse(misses) ELSE UNCHANGED excused
  /\ UNCHANGED <<stored, total, served_cut>>

Next ==
  \/ BootUptime \/ BootErase \/ BootLifetime
  \/ Run
  \/ Reboot \/ HandleRebootUptime \/ HandleRebootLifetime
  \/ Tick \/ PowerLoss \/ Boot

Spec == Init /\ [][Next]_vars

-----------------------------------------------------------------------------
(* No sequence of reboots, cuts and failed writes makes up time: neither   *)
(* the lifetime shown nor the one stored exceeds the time with power on.   *)
LifetimeNeverAhead ==
  /\ Get("lifetime") * Resolution <= total
  /\ stored["lifetime"] * Resolution <= total

(* Nor does it fall behind by more than an interval per cut or failed      *)
(* write and a part of a unit per restart, until a read fails.             *)
LifetimeLossBounded ==
  InService => total - Get("lifetime") * Resolution < excused + Resolution

(* The uptime spans reboots but not a loss of power in service: what the   *)
(* storage held was erased before ("If a power cut is happened, the         *)
(* persisted value is lost", mem_persistent_counter.h).                     *)
UptimeSinceServedCut ==
  InService => Get("uptime") * Resolution <= total - served_cut
=============================================================================
