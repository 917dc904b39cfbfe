--------------------------- MODULE AnalogSensors ---------------------------
(***************************************************************************)
(* The sensors on the ADC: ocs_sensor/soil/analog_sensor.cpp, run by       *)
(* analog_relay_sensor.cpp with a relay that powers the probe for the time *)
(* of a measurement, and ocs_sensor/ldr/sensor.cpp.  The block that keeps  *)
(* the soil's status is FsmBlock; here it is its current state only.       *)
(***************************************************************************)
EXTENDS Integers

CONSTANTS
  value_min, value_max,  \* Params of a sensor
  RawMax,                \* the largest value the ADC can read
  NoData                 \* data_ before the first measurement

\* The code asserts value_min < value_max only.  With a range below the number
\* of statuses status_len_ is 0, and calculate_status_position_() divides by it.
RangeAssumption ==
  /\ value_min \in Nat /\ RawMax \in Nat
  /\ value_max \in Nat /\ value_max - value_min >= 4

VARIABLES
  at,          \* where run() is
  relay,       \* the level of the relay's GPIO
  on_failed,   \* turn_on() failed in this run
  off_failed,  \* turn_off() failed in the last run
  raw,         \* what the ADC read, and whether the probe was powered
  curr_state,  \* FsmBlock::current_state()
  data_,       \* the soil sensor's data
  lightness    \* the data of the LDR sensor

vars == <<at, relay, on_failed, off_failed, raw, curr_state, data_, lightness>>

Statuses == {"None", "Saturated", "Wet", "Depletion", "Dry", "Error"}
Raws == 0 .. RawMax
range == value_max - value_min
status_len_ == range \div 4

\* calculate_status_(): the last status has what the division leaves over.
Status(v) ==
  IF v < value_min \/ v > value_max THEN "Error"
  ELSE IF v < value_min + status_len_ THEN "Saturated"
  ELSE IF v < value_min + 2 * status_len_ THEN "Wet"
  ELSE IF v < value_min + 3 * status_len_ THEN "Depletion"
  ELSE "Dry"

\* calculate_status_position_(): counted on in steps of status_len_ beyond the
\* fourth status and beyond value_max.
Position(v) ==
  IF v < value_min THEN -1 ELSE (v - value_min) % status_len_

\* calculate_moisture_(), its rounding of floats left out.
Moisture(v) ==
  IF v > value_max THEN 0
  ELSE IF v < value_min THEN 100
  ELSE (100 * (value_max - v)) \div range

\* calculate_lightness_().
Lightness(v) ==
  IF v >= value_max THEN 100
  ELSE IF v <= value_min THEN 0
  ELSE (100 * (v - value_min)) \div range

Sample == [raw : Raws, powered : BOOLEAN]

TypeOK ==
  /\ at \in {"idle", "read", "convert", "transit", "update", "off"}
  /\ {relay, on_failed, off_failed} \subseteq BOOLEAN
  /\ raw \in Sample /\ curr_state \in Statuses
  /\ data_ = NoData \/ data_ \in
       [raw : Raws, powered : BOOLEAN, status : Statuses,
        moisture : 0 .. 100, pos : Int]
  /\ lightness \in 0 .. 100

Init ==
  /\ at = "idle" /\ relay = FALSE /\ on_failed = FALSE /\ off_failed = FALSE
  /\ raw = [raw |-> 0, powered |-> FALSE]
  /\ curr_state = "None" /\ data_ = NoData /\ lightness = 0

\* BasicGpio: the level is set, or the call fails and leaves it.
SetLevel(level, failed) ==
  \/ relay' = level /\ failed' = FALSE
  \/ UNCHANGED relay /\ failed' = TRUE

\* Mutant of TurnOn: the measurement does not wait for the relay.
TurnOnLate ==
  /\ at = "idle" /\ at' = "read"
  /\ on_failed' = FALSE
  /\ UNCHANGED <<relay, off_failed, raw, curr_state, data_, lightness>>

\* GpioGuard::GpioGuard(): BasicGpio sets the level, DelayGpio waits for the
\* probe.  A failure is logged and the measurement goes on.
TurnOn ==
  /\ at = "idle" /\ at' = "read"
  /\ SetLevel(TRUE, on_failed)
  /\ UNCHANGED <<off_failed, raw, curr_state, data_, lightness>>

\* AnalogSensor::run(): adc_.read() and adc_.convert() of OneshotAdc.
Read(v) ==
  /\ at = "read" /\ at' = "convert"
  /\ raw' = [raw |-> v, powered |-> relay]
  /\ UNCHANGED <<relay, on_failed, off_failed, curr_state, data_, lightness>>

MeasureFails ==
  /\ at \in {"read", "convert"} /\ at' = "off"
  /\ UNCHANGED <<relay, on_failed, off_failed, raw, curr_state, data_, lightness>>

Convert ==
  /\ at = "convert" /\ at' = "transit"
  /\ UNCHANGED <<relay, on_failed, off_failed, raw, curr_state, data_, lightness>>

\* set_next() and transit(), which changes the state though its write fails.
Transit ==
  /\ at = "transit" /\ at' = "update"
  /\ curr_state' = Status(raw.raw)
  /\ UNCHANGED <<relay, on_failed, off_failed, raw, data_, lightness>>

\* update_data_() sets the data as a whole.
UpdateData ==
  /\ at = "update" /\ at' = "off"
  /\ data_' = [raw |-> raw.raw, powered |-> raw.powered \/ on_failed,
               status |-> curr_state,
               moisture |-> Moisture(raw.raw), pos |-> Position(raw.raw)]
  /\ UNCHANGED <<relay, on_failed, off_failed, raw, curr_state, lightness>>

\* GpioGuard::~GpioGuard(), whatever the measurement came to.
TurnOff ==
  /\ at = "off" /\ at' = "idle"
  /\ SetLevel(FALSE, off_failed)
  /\ UNCHANGED <<on_failed, raw, curr_state, data_, lightness>>

\* ldr::Sensor::run(), between two runs of the soil sensor on the same task.
MeasureLight(v) ==
  /\ at = "idle"
  /\ lightness' = Lightness(v)
  /\ UNCHANGED <<at, relay, on_failed, off_failed, raw, curr_state, data_>>

Next ==
  \/ TurnOn \/ MeasureFails \/ Convert \/ Transit \/ UpdateData \/ TurnOff
  \/ \E v \in Raws : Read(v) \/ MeasureLight(v)

Spec == Init /\ [][Next]_vars

(***************************************************************************)
(* Properties                                                              *)
(***************************************************************************)

\* The relay is on between two measurements only when turning it off failed,
\* also after a measurement that failed.  What is shown is one sample, taken
\* with power on (unless turning it on failed, which the code lets pass): its
\* status is that of its own raw value, and the moisture agrees with it.
AnalogReadings ==
  /\ at = "idle" /\ relay => off_failed
  /\ data_ # NoData =>
       /\ data_.powered
       /\ data_.status = Status(data_.raw)
       /\ data_.status = "Saturated" => data_.moisture >= 75
       /\ data_.moisture > 75 /\ data_.raw >= value_min
            => data_.status \in {"Saturated", "Wet"}
=============================================================================
