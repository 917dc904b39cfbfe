------------------------------ MODULE Sht41Sensor ------------------------------
(***************************************************************************)
(* ocs_sensor/sht41/sensor.cpp: measurements, heatings and resets on the   *)
(* main task, with the chip behind the I2C transceiver; every access to    *)
(* the bus and to the storage may fail, frames may have a bad checksum,    *)
(* and power may be lost between any two steps.  The heater wears out: the *)
(* number of its activations is kept in the storage.                       *)
(***************************************************************************)
EXTENDS Naturals

CONSTANTS
  MaxActivations,   \* bound: activations of the heater
  MaxMishaps        \* bound: failures that cost a count

Sht41Assumption == MaxActivations \in Nat /\ MaxMishaps \in Nat

VARIABLES
  doing,            \* the call the main task is in; "off": not constructed
  chip,             \* the frame the chip answers the next read with
  heating_count_,   \* Sensor::heating_count_
  stored,           \* the key heating_count of the storage; 0: no key
  published,        \* data_: its frame and its heating_count
  \* history
  activations,      \* how often the heater was activated
  mishaps,          \* failures that cost a count
  forgotten         \* did the read at start fail, ever?

sensorVars == <<heating_count_, published>>
history == <<activations, mishaps, forgotten>>
vars == <<doing, chip, sensorVars, stored, history>>

Frames == {"none", "serial number", "measurement"}

TypeOK ==
  /\ doing \in {"off", "resetting", "restoring", "asking", "identifying", "idle",
                "measuring", "heating", "counted", "saved"}
  /\ chip \in Frames
  /\ heating_count_ \in Nat /\ stored \in Nat
  /\ published \in [frame : Frames, count : Nat]
  /\ activations \in Nat /\ mishaps \in Nat /\ forgotten \in BOOLEAN

Init ==
  /\ doing = "off" /\ chip = "none" /\ heating_count_ = 0 /\ stored = 0
  /\ published = [frame |-> "none", count |-> 0]
  /\ activations = 0 /\ mishaps = 0 /\ forgotten = FALSE

\* The constructor: reset, heating count, serial number; a call that fails is
\* logged.
Construct ==
  /\ doing = "off" /\ doing' = "resetting"
  /\ heating_count_' = 0 /\ published' = [frame |-> "none", count |-> 0]
  /\ UNCHANGED <<chip, stored, history>>

\* send_command_(): a send that fails may have reached the chip or not.
SendCommand(frame, sent, failed) ==
  \/ doing' = sent /\ chip' = frame
  \/ doing' = failed /\ chip' \in {chip, frame}

\* reset(), which the handler schedules too.
Reset ==
  /\ doing \in {"resetting", "idle"}
  /\ LET next == IF doing = "idle" THEN "idle" ELSE "restoring"
     IN  SendCommand("none", next, next)
  /\ UNCHANGED <<sensorVars, stored, history>>

\* read_heating_count_(): no key is a count of 0; a count that cannot be read
\* is 0 too.
Restored ==
  /\ doing = "restoring" /\ doing' = "asking"
  /\ \/ heating_count_' = stored /\ UNCHANGED forgotten
     \/ UNCHANGED heating_count_ /\ forgotten' = TRUE
  /\ UNCHANGED <<chip, published, stored, activations, mishaps>>

\* read_serial_number_(), which has no checksum of its own kind: its frame is
\* as intact as that of a measurement.
AskSerialNumber ==
  /\ doing = "asking"
  /\ SendCommand("serial number", "identifying", "idle")
  /\ UNCHANGED <<sensorVars, stored, history>>

ReadSerialNumber ==
  /\ doing = "identifying" /\ doing' = "idle"
  /\ chip' \in {chip, "none"}
  /\ UNCHANGED <<sensorVars, stored, history>>

\* run(): the command of a measurement.
Measure ==
  /\ doing = "idle"
  /\ SendCommand("measurement", "measuring", "idle")
  /\ UNCHANGED <<sensorVars, stored, history>>

\* receive_data_(): a frame whose two words match their checksums; a chip that
\* has none does not acknowledge.
ReceiveData(next) ==
  /\ chip # "none" /\ chip' = "none"
  /\ doing' = next

\* The frame cannot be read, or is not intact: the call ends.
ReceiveFails ==
  /\ chip' \in {chip, "none"}
  /\ doing' = "idle"

MeasureReceived ==
  /\ doing = "measuring"
  /\ ReceiveData("idle")
  /\ published' = [frame |-> chip, count |-> heating_count_]
  /\ UNCHANGED <<heating_count_, stored, history>>

MeasureFails ==
  /\ doing = "measuring"
  /\ ReceiveFails
  /\ UNCHANGED <<sensorVars, stored, history>>

\* heat_(): the command activates the heater, and the chip measures when the
\* pulse ends; the main task sleeps for longer than the pulse.
Heat ==
  /\ doing = "idle" /\ activations < MaxActivations
  /\ chip' = "measurement" /\ doing' = "heating"
  /\ activations' = activations + 1
  /\ UNCHANGED <<sensorVars, stored, mishaps, forgotten>>

\* The send fails, and the chip may heat all the same.
HeatNotSent ==
  /\ doing = "idle" /\ activations < MaxActivations /\ mishaps < MaxMishaps
  /\ \/ UNCHANGED <<chip, activations, mishaps>>
     \/ chip' = "measurement" /\ activations' = activations + 1 /\ mishaps' = mishaps + 1
  /\ UNCHANGED <<doing, sensorVars, stored, forgotten>>

\* An activation whose frame is not received is not counted.
HeatFails ==
  /\ doing = "heating" /\ mishaps < MaxMishaps
  /\ ReceiveFails
  /\ mishaps' = mishaps + 1
  /\ UNCHANGED <<sensorVars, stored, activations, forgotten>>

HeatReceived ==
  /\ doing = "heating"
  /\ ReceiveData("counted")
  /\ heating_count_' = heating_count_ + 1
  /\ UNCHANGED <<published, stored, history>>

\* Mutant of WriteCount: the count is written as it was before.
WriteCountBefore ==
  /\ doing = "counted" /\ doing' = "saved"
  /\ stored' = heating_count_ - 1
  /\ UNCHANGED <<chip, sensorVars, history>>

WriteCount ==
  /\ doing = "counted" /\ doing' = "saved"
  /\ stored' = heating_count_
  /\ UNCHANGED <<chip, sensorVars, history>>

\* A count that cannot be written is only logged; the next one is absolute.
WriteFails ==
  /\ doing = "counted" /\ mishaps < MaxMishaps
  /\ doing' = "saved" /\ mishaps' = mishaps + 1
  /\ UNCHANGED <<chip, sensorVars, stored, activations, forgotten>>

\* The frame of the heating is what heat_() has received.
HeatPublishes ==
  /\ doing = "saved" /\ doing' = "idle"
  /\ published' = [frame |-> "measurement", count |-> heating_count_]
  /\ UNCHANGED <<chip, heating_count_, stored, history>>

\* Power is lost; an activation that is not in the storage yet is lost too.
PowerLoss ==
  /\ doing # "off" /\ doing' = "off" /\ chip' = "none"
  /\ IF doing \in {"heating", "counted"}
       THEN mishaps < MaxMishaps /\ mishaps' = mishaps + 1
       ELSE UNCHANGED mishaps
  /\ UNCHANGED <<sensorVars, stored, activations, forgotten>>

Next ==
  \/ Construct \/ Reset \/ Restored \/ AskSerialNumber \/ ReadSerialNumber
  \/ Measure \/ MeasureReceived \/ MeasureFails
  \/ Heat \/ HeatNotSent \/ HeatFails \/ HeatReceived \/ WriteCount \/ WriteFails
  \/ HeatPublishes \/ PowerLoss

Spec == Init /\ [][Next]_vars

(***************************************************************************)
(* Properties                                                              *)
(***************************************************************************)

\* The activation under way that is not in the storage yet.
Pending == IF doing \in {"heating", "counted"} THEN 1 ELSE 0

\* The count never claims an activation that was not made, and unless the
\* storage could not be read at some start, it lacks no more than one
\* activation per failure: a failing write is made good by the next one.
\* And what is published was measured: a frame that an earlier command left
\* in the chip, the serial number's for one, is never taken for a measurement.
HeatingsAccounted ==
  /\ heating_count_ <= activations /\ stored <= activations
  /\ published.count <= activations
  /\ ~forgotten => activations <= stored + mishaps + Pending
  /\ published.frame # "serial number"
=============================================================================
