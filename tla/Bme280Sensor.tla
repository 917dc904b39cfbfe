----------------------------- MODULE Bme280Sensor -----------------------------
(***************************************************************************)
(* ocs_sensor/bme280/sensor.cpp: the constructor's calls, each of which    *)
(* may fail and is then only logged, and run() on the main task, with the  *)
(* chip behind the SPI transceiver.  A measurement is a number; a value is *)
(* the measurement it was made from and the t_fine_ it was compensated     *)
(* with.                                                                   *)
(***************************************************************************)
EXTENDS Naturals

CONSTANTS
  OperationModes,    \* the operation modes an application may ask for
  MaxMeasurements    \* bound: measurements of the chip

Bme280Assumption ==
  /\ OperationModes \subseteq {"Sleep", "Forced", "Normal"}
  /\ MaxMeasurements \in Nat

VARIABLES
  operation_mode,   \* params_.operation_mode; "none" before the constructor
  chip,             \* [mode, measuring, latest]: what BME280 is doing, and the
                    \* measurement in its data registers
  at,               \* the call the main task is in
  calibrated,       \* the calibration data that were read
  t_fine_,          \* the measurement whose temperature it carries; 0: none
  data_,            \* the published data
  wanted            \* the measurement run() asked for last (history)

vars == <<operation_mode, chip, at, calibrated, t_fine_, data_, wanted>>

TypeOK ==
  /\ operation_mode \in OperationModes \cup {"none"}
  /\ chip \in [mode : {"Sleep", "Forced", "Normal"}, measuring : BOOLEAN,
               latest : 0 .. MaxMeasurements]
  /\ at \in {"none", "reset", "configure", "read calibration1",
             "read calibration2", "idle", "force", "wait", "read"}
  /\ calibrated \subseteq {1, 2}
  /\ t_fine_ \in 0 .. MaxMeasurements
  /\ data_ \in [pressure : [raw : Nat, fine : Nat], temperature : Nat,
                humidity : [raw : Nat, fine : Nat]]
  /\ wanted \in 0 .. MaxMeasurements + 1

NoData == [pressure |-> [raw |-> 0, fine |-> 0], temperature |-> 0,
           humidity |-> [raw |-> 0, fine |-> 0]]

Init ==
  /\ operation_mode = "none" /\ at = "none"
  /\ chip = [mode |-> "Sleep", measuring |-> FALSE, latest |-> 0]
  /\ calibrated = {} /\ t_fine_ = 0 /\ data_ = NoData
  /\ wanted = 0

Construct(mode) ==
  /\ at = "none"
  /\ operation_mode' = mode /\ at' = "reset"
  /\ UNCHANGED <<chip, calibrated, t_fine_, data_, wanted>>

\* reset_(), and the serial number, which nothing depends on.
Reset ==
  /\ at = "reset" /\ at' = "configure"
  /\ \/ chip' = [chip EXCEPT !.mode = "Sleep", !.measuring = FALSE]
     \/ UNCHANGED chip
  /\ UNCHANGED <<operation_mode, calibrated, t_fine_, data_, wanted>>

\* What the chip takes from the write of ctrl_hum, ctrl_meas with the mode, and
\* config.
ConfigurationWritten ==
  chip' = [chip EXCEPT !.mode = operation_mode, !.measuring = operation_mode # "Sleep"]

\* write_configuration_() in the constructor; the registers are read back to
\* be logged only.
Configure ==
  /\ at = "configure" /\ at' = "read calibration1"
  /\ ConfigurationWritten \/ UNCHANGED chip
  /\ UNCHANGED <<operation_mode, calibrated, t_fine_, data_, wanted>>

\* run(): in forced mode, a measurement is asked for and waited for.
BeginRun == at' = IF operation_mode = "Forced" THEN "force" ELSE "read"

ReadCalibration1 ==
  /\ at = "read calibration1" /\ at' = "read calibration2"
  /\ \E ok \in BOOLEAN : calibrated' = IF ok THEN {1} ELSE {}
  /\ UNCHANGED <<operation_mode, chip, t_fine_, data_, wanted>>

ReadCalibration2 ==
  /\ at = "read calibration2"
  /\ \E ok \in BOOLEAN : calibrated' = IF ok THEN calibrated \cup {2} ELSE calibrated
  /\ BeginRun
  /\ UNCHANGED <<operation_mode, chip, t_fine_, data_, wanted>>

Run ==
  /\ at = "idle"
  /\ BeginRun
  /\ UNCHANGED <<operation_mode, chip, calibrated, t_fine_, data_, wanted>>

\* A failing call ends run(); what was published stays.
RunFails ==
  /\ at \in {"force", "wait", "read"}
  /\ at' = "idle"
  /\ UNCHANGED <<operation_mode, chip, calibrated, t_fine_, data_, wanted>>

Force ==
  /\ at = "force" /\ at' = "wait"
  /\ ConfigurationWritten
  /\ wanted' = chip.latest + 1
  /\ UNCHANGED <<operation_mode, calibrated, t_fine_, data_>>

\* Mutant of Waited: the bit "measuring" is not looked at.
WaitedOnce ==
  /\ at = "wait" /\ at' = "read"
  /\ UNCHANGED <<operation_mode, chip, calibrated, t_fine_, data_, wanted>>

\* The status register is polled until the chip has measured, without a limit.
Waited ==
  /\ at = "wait" /\ ~chip.measuring
  /\ at' = "read"
  /\ UNCHANGED <<operation_mode, chip, calibrated, t_fine_, data_, wanted>>

\* The compensations: the temperature's is what sets t_fine_.
Pressure(raw, fine) == [raw |-> raw, fine |-> fine]
Humidity(raw, fine) == [raw |-> raw, fine |-> fine]
Temperature(raw) == [value |-> raw, fine |-> raw]

\* read_data_(): pressure first, with the t_fine_ of the read before; then the
\* temperature, which sets t_fine_; then the humidity.
ReadData ==
  /\ at = "read" /\ at' = "idle"
  /\ t_fine_' = Temperature(chip.latest).fine
  /\ data_' = [pressure |-> Pressure(chip.latest, t_fine_),
               temperature |-> Temperature(chip.latest).value,
               humidity |-> Humidity(chip.latest, t_fine_')]
  /\ UNCHANGED <<operation_mode, chip, calibrated, wanted>>

\* The chip completes a measurement; in forced mode it goes back to sleep.
Measure ==
  /\ chip.measuring /\ chip.latest < MaxMeasurements
  /\ chip' = [chip EXCEPT !.latest = @ + 1,
                          !.measuring = chip.mode = "Normal",
                          !.mode = IF @ = "Normal" THEN @ ELSE "Sleep"]
  /\ UNCHANGED <<operation_mode, at, calibrated, t_fine_, data_, wanted>>

Next ==
  \/ \E mode \in OperationModes : Construct(mode)
  \/ Reset \/ Configure \/ ReadCalibration1 \/ ReadCalibration2
  \/ Run \/ RunFails \/ Force \/ Waited \/ ReadData \/ Measure

Spec == Init /\ [][Next]_vars

(***************************************************************************)
(* Properties                                                              *)
(***************************************************************************)

\* The step in which run() answers OK.
Publishes == at = "read" /\ at' = "idle" /\ data_' # data_

\* What run() publishes in forced mode was measured after run() asked for it:
\* the data of an earlier request is never taken for the answer,
\* whatever failed in between.  And the values are of one measurement, the
\* humidity compensated with its temperature; the pressure is compensated
\* with the temperature of the last read that went well, which is what the
\* order of the three computations makes of it.
DataOfTheRequest ==
  [][Publishes =>
       /\ operation_mode = "Forced" => data_'.temperature >= wanted
       /\ data_'.humidity = [raw |-> data_'.temperature, fine |-> data_'.temperature]
       /\ data_'.pressure = [raw |-> data_'.temperature, fine |-> data_.temperature]
    ]_vars
=============================================================================
