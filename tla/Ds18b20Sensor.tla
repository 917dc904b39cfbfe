----------------------------- MODULE Ds18b20Sensor -----------------------------
(***************************************************************************)
(* The configuration of the DS18B20 sensors of one 1-Wire bus: in memory   *)
(* (ds18b20::Sensor), in the storage, and in the scratchpad of the device. *)
(* Store::Node::add reloads it at boot; the functions that DS18B20Handler  *)
(* schedules on the bus write and erase it.  All run on the main task one  *)
(* after the other; every access to the bus or the storage may fail, and   *)
(* power may be lost between any two of them.                              *)
(*                                                                         *)
(* The temperature (Sensor::run) is not modelled: it changes no            *)
(* configuration.  A ROM code stands for its device and is valid.          *)
(***************************************************************************)
EXTENDS Integers

CONSTANTS
  Sensors,       \* identifiers of sensors
  RomCodes,      \* devices on the bus
  Resolutions,   \* resolutions a client asks for
  PowerOn,       \* the resolution of a device that was switched on
  CommitFails,   \* may nvs_commit() fail after a set or an erase?
  Nothing,       \* no sensor, no data, no answer
  Erased         \* the answer to a call that erased

ASSUME NamesAssumption == Nothing \notin Sensors
ASSUME CommitFailsAssumption == CommitFails \in BOOLEAN

Configurations == [rom_code : RomCodes, resolution : Resolutions]

ASSUME AnswersAssumption == {Nothing, Erased} \cap Configurations = {} /\ Nothing # Erased

VARIABLES
  configuration,  \* Sensor::configuration_ with bus_: Nothing while it is null
  stored,         \* the storage
  scratchpad,     \* the resolution in each device
  added,          \* Store::Node::sensors_; construction is over with the last
  step,           \* what the main task does next, see TypeOK
  sensor,         \* the sensor it does it for
  want,           \* and the configuration it writes
  \* history
  answered,       \* per sensor: the configuration last written, or Erased,
                  \* when the client was told OK; Nothing during the next call
  applied         \* per device: the sensor whose write_configuration()
                  \* succeeded, with no later write to the scratchpad

jobVars == <<added, step, sensor, want>>
vars == <<configuration, stored, scratchpad, jobVars, answered, applied>>

TypeOK ==
  /\ configuration \in [Sensors -> Configurations \cup {Nothing}]
  /\ stored \in [Sensors -> Configurations \cup {Nothing}]
  /\ scratchpad \in [RomCodes -> Resolutions \cup {PowerOn}]
  /\ added \subseteq Sensors
  \* "find" a device, write the "scratchpad", "verify" it, "read" what is
  \* stored, "store", "assign"; "erase"
  /\ step \in {"idle", "find", "scratchpad", "verify", "read", "store", "assign",
               "erase"}
  /\ sensor \in Sensors \cup {Nothing}
  /\ want \in Configurations \cup {Nothing}
  /\ step # "idle" => sensor # Nothing
  /\ answered \in [Sensors -> Configurations \cup {Erased, Nothing}]
  /\ applied \in [RomCodes -> Sensors \cup {Nothing}]

Init ==
  /\ configuration = [s \in Sensors |-> Nothing]
  /\ stored = [s \in Sensors |-> Nothing]
  /\ scratchpad = [r \in RomCodes |-> PowerOn]
  /\ added = {}
  /\ step = "idle"
  /\ sensor = Nothing
  /\ want = Nothing
  /\ answered = [s \in Sensors |-> Nothing]
  /\ applied = [r \in RomCodes |-> Nothing]

-----------------------------------------------------------------------------
Booting == added # Sensors

(* The function in hand goes on, or ends; at boot the sensor is then in    *)
(* the list, whatever became of its configuration.                         *)
Continue(next) ==
  /\ step' = next
  /\ UNCHANGED <<added, sensor, want, answered>>

End ==
  /\ step' = "idle"
  /\ sensor' = Nothing
  /\ want' = Nothing
  /\ added' = added \cup {sensor}

Fail == End /\ UNCHANGED answered

(* Mutant: the stored configuration is taken over, and not written to the  *)
(* device.                                                                 *)
AddUnwritten(s) ==
  /\ step = "idle"
  /\ s \notin added
  /\ IF stored[s] = Nothing
     THEN added' = added \cup {s} /\ UNCHANGED <<step, sensor, want>>
     ELSE /\ step' = "assign"
          /\ sensor' = s
          /\ want' = stored[s]
          /\ UNCHANGED added
  /\ UNCHANGED <<configuration, stored, scratchpad, answered, applied>>

(* Store::Node::add during construction: what is stored, if it can be      *)
(* read, is written by write_configuration().                              *)
Add(s) ==
  /\ step = "idle"
  /\ s \notin added
  /\ \/ /\ added' = added \cup {s}
        /\ UNCHANGED <<step, sensor, want>>
     \/ /\ stored[s] # Nothing
        /\ step' = "scratchpad"
        /\ sensor' = s
        /\ want' = stored[s]
        /\ UNCHANGED added
  /\ UNCHANGED <<configuration, stored, scratchpad, answered, applied>>

Begin(s, first, c) ==
  /\ step = "idle"
  /\ ~ Booting
  /\ step' = first
  /\ sensor' = s
  /\ want' = c
  /\ answered' = [answered EXCEPT ![s] = Nothing]
  /\ UNCHANGED <<configuration, stored, scratchpad, added, applied>>

(* The function of handle_write_configuration_ with a known sensor. *)
BeginWrite(s, c) == Begin(s, "find", c)

(* The function of erase_configuration with a known sensor. *)
BeginErase(s) == Begin(s, "erase", Nothing)

-----------------------------------------------------------------------------
(* find_rom_code_: the device is found on the bus, or not. *)
FindRomCode ==
  /\ step = "find"
  /\ Continue("scratchpad") \/ Fail
  /\ UNCHANGED <<configuration, stored, scratchpad, applied>>

(* Sensor::write_configuration, Scratchpad::write: it fails before or      *)
(* after the device has the bytes.                                         *)
WriteScratchpad ==
  /\ step = "scratchpad"
  /\ \/ /\ scratchpad' = [scratchpad EXCEPT ![want.rom_code] = want.resolution]
        /\ applied' = [applied EXCEPT ![want.rom_code] = Nothing]
        /\ Continue("verify") \/ Fail
     \/ /\ Fail
        /\ UNCHANGED <<scratchpad, applied>>
  /\ UNCHANGED <<configuration, stored>>

(* Scratchpad::read, valid(), and the comparison with what was written. *)
VerifyScratchpad ==
  /\ step = "verify"
  /\ \/ /\ scratchpad[want.rom_code] = want.resolution
        /\ Continue("read")
     \/ Fail
  /\ UNCHANGED <<configuration, stored, scratchpad, applied>>

(* Mutant: the comparison is the wrong way round. *)
ReadStoredInverted ==
  /\ step = "read"
  /\ \/ Continue(IF stored[sensor] # want THEN "assign" ELSE "store")
     \/ Fail
  /\ UNCHANGED <<configuration, stored, scratchpad, applied>>

(* Only a configuration that differs from the stored one is written. *)
ReadStored ==
  /\ step = "read"
  /\ \/ Continue(IF stored[sensor] = want THEN "assign" ELSE "store")
     \/ Fail
  /\ UNCHANGED <<configuration, stored, scratchpad, applied>>

(* Mutant: an error of the storage is ignored. *)
WriteStoredUnchecked ==
  /\ step = "store"
  /\ \/ stored' = [stored EXCEPT ![sensor] = want]
     \/ UNCHANGED stored
  /\ Continue("assign")
  /\ UNCHANGED <<configuration, scratchpad, applied>>

(* NvsStorage::write_ and erase_: the change is made, or not, and an error *)
(* of nvs_commit() comes after the change.                                 *)
Outcomes == {"OK", "Error"} \cup (IF CommitFails THEN {"Uncommitted"} ELSE {})

WriteStored ==
  /\ step = "store"
  /\ \E outcome \in Outcomes :
       /\ stored' = IF outcome = "Error" THEN stored
                    ELSE [stored EXCEPT ![sensor] = want]
       /\ IF outcome = "OK" THEN Continue("assign") ELSE Fail
  /\ UNCHANGED <<configuration, scratchpad, applied>>

(* The end of write_configuration(): bus_ and configuration_ are set.  At  *)
(* boot there is nobody to answer.                                         *)
Assign ==
  /\ step = "assign"
  /\ configuration' = [configuration EXCEPT ![sensor] = want]
  /\ applied' = [applied EXCEPT ![want.rom_code] = sensor]
  /\ answered' = IF Booting THEN answered ELSE [answered EXCEPT ![sensor] = want]
  /\ End
  /\ UNCHANGED <<stored, scratchpad>>

(* Mutant: bus_ is not reset. *)
EraseStaysOnBus ==
  /\ step = "erase"
  /\ \E outcome \in Outcomes :
       /\ stored' = IF outcome = "Error" THEN stored
                    ELSE [stored EXCEPT ![sensor] = Nothing]
       /\ answered' = IF outcome = "OK"
                      THEN [answered EXCEPT ![sensor] = Erased] ELSE answered
  /\ End
  /\ UNCHANGED <<configuration, scratchpad, applied>>

(* Sensor::erase_configuration: the sensor leaves the bus if the storage   *)
(* says OK.  When it says NoData, nothing is done and the handler takes it *)
(* for OK.                                                                 *)
Erase ==
  /\ step = "erase"
  /\ \E outcome \in Outcomes :
       /\ stored' = IF outcome = "Error" THEN stored
                    ELSE [stored EXCEPT ![sensor] = Nothing]
       /\ configuration' = IF outcome = "OK" /\ stored[sensor] # Nothing
                           THEN [configuration EXCEPT ![sensor] = Nothing]
                           ELSE configuration
       /\ answered' = IF outcome = "OK"
                      THEN [answered EXCEPT ![sensor] = Erased] ELSE answered
  /\ End
  /\ UNCHANGED <<scratchpad, applied>>

-----------------------------------------------------------------------------
Reset ==
  /\ configuration' = [s \in Sensors |-> Nothing]
  /\ added' = {}
  /\ step' = "idle"
  /\ sensor' = Nothing
  /\ want' = Nothing
  /\ UNCHANGED <<stored, answered>>

(* esp_restart(): the devices stay on. *)
Restart ==
  /\ step = "idle"
  /\ ~ Booting
  /\ Reset
  /\ UNCHANGED <<scratchpad, applied>>

(* Power is lost and comes back, for the devices as well. *)
PowerCycle ==
  /\ Reset
  /\ scratchpad' = [r \in RomCodes |-> PowerOn]
  /\ applied' = [r \in RomCodes |-> Nothing]

Next ==
  \/ \E s \in Sensors : Add(s) \/ BeginErase(s) \/ \E c \in Configurations : BeginWrite(s, c)
  \/ FindRomCode \/ WriteScratchpad \/ VerifyScratchpad
  \/ ReadStored \/ WriteStored \/ Assign \/ Erase
  \/ Restart \/ PowerCycle

Spec == Init /\ [][Next]_vars

-----------------------------------------------------------------------------
(* Whatever failed, and wherever: a sensor on the bus has the              *)
(* configuration it will have after the next restart.                      *)
ConfiguredIsStored ==
  \A s \in Sensors :
    configuration[s] # Nothing /\ (s = sensor => step # "assign") =>
      stored[s] = configuration[s]

(* "configuration is kept in non-volatile storage until the next           *)
(* write_configuration() call" (sensor.h): over failing calls for other    *)
(* sensors, restarts, reloads that fail and losses of power, the client's  *)
(* last successful write is what is stored.                                *)
AnsweredIsKept ==
  \A s \in Sensors :
    answered[s] \in Configurations =>
      stored[s] = answered[s] /\ configuration[s] \in {answered[s], Nothing}

(* A device measures with the resolution of the sensor that configured it  *)
(* last, after a loss of power too, which resets the device.               *)
ResolutionApplied ==
  \A r \in RomCodes :
    LET s == applied[r]
    IN  s # Nothing /\ configuration[s] # Nothing /\ configuration[s].rom_code = r =>
          scratchpad[r] = configuration[s].resolution

(* "Remove sensor persistent configuration" and "De-assign sensor from the *)
(* bus" (sensor.h): a client that was told so finds no configuration, now  *)
(* and after a restart.                                                    *)
ErasedIsDeassigned ==
  \A s \in Sensors :
    answered[s] = Erased => stored[s] = Nothing /\ configuration[s] = Nothing
=============================================================================
