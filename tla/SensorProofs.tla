------------------------------- MODULE SensorProofs -------------------------------
(***************************************************************************)
(* Proofs about the sensors and the 1-Wire bus: what a sensor publishes is *)
(* what it measured, and what the bus carries is what was sent.  They are  *)
(* for any number of measurements, any range of a sensor, and any width of *)
(* a byte and of a ROM code.                                               *)
(***************************************************************************)
EXTENDS Components, FiniteSetTheorems, TLAPS

(* A step of Components is a step of the part, or leaves it as it is. *)
LEMMA SensorStep ==
  ASSUME [Next]_vars
  PROVE  /\ [AS!Next]_(AS!vars)
         /\ [BME!Next]_(BME!vars)
         /\ [SHT!Next]_(SHT!vars)
         /\ [OWB!Next]_(OWB!vars)
         /\ [OWS!Next]_(OWS!vars)
         /\ [FW!Next]_(FW!vars)
<1>1. [AS!Next]_(AS!vars)
  <2>1. CASE UNCHANGED AS_vars
    BY <2>1 DEF AS_vars, AS!vars
  <2>2. CASE OnlyAS /\ AS!Next
    BY <2>2
  <2>3. QED
    BY <2>1, <2>2 DEF Next, vars,
       OnlyAP, OnlySTA, OnlyAT, OnlyPT, OnlyDL, OnlySU, OnlyCR, OnlyFS,
       OnlyBME, OnlySHT, OnlyOWS, OnlyOWB, OnlyFW
<1>2. [BME!Next]_(BME!vars)
  <2>1. CASE UNCHANGED BME_vars
    BY <2>1 DEF BME_vars, BME!vars
  <2>2. CASE OnlyBME /\ BME!Next
    BY <2>2
  <2>3. QED
    BY <2>1, <2>2 DEF Next, vars,
       OnlyAP, OnlySTA, OnlyAT, OnlyPT, OnlyDL, OnlySU, OnlyCR, OnlyAS,
       OnlyFS, OnlySHT, OnlyOWS, OnlyOWB, OnlyFW
<1>3. [SHT!Next]_(SHT!vars)
  <2>1. CASE UNCHANGED SHT_vars
    BY <2>1 DEF SHT_vars, SHT!vars, SHT!sensorVars, SHT!history
  <2>2. CASE OnlySHT /\ SHT!Next
    BY <2>2
  <2>3. QED
    BY <2>1, <2>2 DEF Next, vars,
       OnlyAP, OnlySTA, OnlyAT, OnlyPT, OnlyDL, OnlySU, OnlyCR, OnlyAS,
       OnlyFS, OnlyBME, OnlyOWS, OnlyOWB, OnlyFW
<1>4. [OWB!Next]_(OWB!vars)
  <2>1. CASE UNCHANGED OWB_vars
    BY <2>1 DEF OWB_vars, OWB!vars
  <2>2. CASE OnlyOWB /\ OWB!Next
    BY <2>2
  <2>3. QED
    BY <2>1, <2>2 DEF Next, vars,
       OnlyAP, OnlySTA, OnlyAT, OnlyPT, OnlyDL, OnlySU, OnlyCR, OnlyAS,
       OnlyFS, OnlyBME, OnlySHT, OnlyOWS, OnlyFW
<1>5. [OWS!Next]_(OWS!vars)
  <2>1. CASE UNCHANGED OWS_vars
    BY <2>1 DEF OWS_vars, OWS!vars, OWS!scanner
  <2>2. CASE OnlyOWS /\ OWS!Next
    BY <2>2
  <2>3. QED
    BY <2>1, <2>2 DEF Next, vars,
       OnlyAP, OnlySTA, OnlyAT, OnlyPT, OnlyDL, OnlySU, OnlyCR, OnlyAS,
       OnlyFS, OnlyBME, OnlySHT, OnlyOWB, OnlyFW
<1>6. [FW!Next]_(FW!vars)
  <2>1. CASE UNCHANGED FW_vars
    BY <2>1 DEF FW_vars, FW!vars, FW!added
  <2>2. CASE OnlyFW /\ FW!Next
    BY <2>2
  <2>3. QED
    BY <2>1, <2>2 DEF Next, vars,
       OnlyAP, OnlySTA, OnlyAT, OnlyPT, OnlyDL, OnlySU, OnlyCR, OnlyAS,
       OnlyFS, OnlyBME, OnlySHT, OnlyOWS, OnlyOWB
<1>7. QED
  BY <1>1, <1>2, <1>3, <1>4, <1>5, <1>6

(* In Components, each of the parts behaves as its module says, so that    *)
(* what follows is about the modules as well.                              *)
THEOREM SensorSpecs ==
  Spec => AS!Spec /\ BME!Spec /\ SHT!Spec /\ OWB!Spec /\ OWS!Spec /\ FW!Spec
<1>1. Init => AS!Init /\ BME!Init /\ SHT!Init /\ OWB!Init /\ OWS!Init /\ FW!Init
  BY DEF Init
<1>2. [Next]_vars =>
        /\ [AS!Next]_(AS!vars)
        /\ [BME!Next]_(BME!vars)
        /\ [SHT!Next]_(SHT!vars)
        /\ [OWB!Next]_(OWB!vars)
        /\ [OWS!Next]_(OWS!vars)
        /\ [FW!Next]_(FW!vars)
  BY SensorStep
<1>3. QED
  BY <1>1, <1>2, PTL DEF Spec, AS!Spec, BME!Spec, SHT!Spec, OWB!Spec, OWS!Spec, FW!Spec

(***************************************************************************)
(* The sensors on the ADC                                                  *)
(***************************************************************************)

\* A quotient and a bound on the number that is divided.
LEMMA Quotients ==
  ASSUME NEW x \in Nat, NEW r \in Nat \ {0}, NEW k \in Nat
  PROVE  /\ x >= k * r => x \div r >= k
         /\ x < (k + 1) * r => x \div r <= k
<1> DEFINE q == x \div r
           m == x % r
<1>1. q \in Nat /\ m \in Nat /\ m < r /\ x = r * q + m
  OBVIOUS
<1>2. \A a, b \in Nat : a <= b => a * r \in Nat /\ b * r \in Nat /\ a * r <= b * r
  OBVIOUS
<1>3. r * q = q * r /\ (q + 1) * r = q * r + r
  BY <1>1
<1> HIDE DEF q, m
<1>4. ASSUME x >= k * r, ~(q >= k)
      PROVE  FALSE
  <2>1. q + 1 <= k /\ q + 1 \in Nat
    BY <1>1, <1>4
  <2>2. (q + 1) * r <= k * r /\ (q + 1) * r \in Nat /\ k * r \in Nat /\ q * r \in Nat
    BY <1>1, <1>2, <2>1
  <2> DEFINE p == q * r
             p1 == (q + 1) * r
             pk == k * r
  <2>3. x = p + m /\ p1 = p + r /\ p1 <= pk /\ x >= pk /\ p \in Nat /\ pk \in Nat
    BY <1>1, <1>3, <1>4, <2>2
  <2> HIDE DEF p, p1, pk
  <2>4. QED
    BY <1>1, <2>3
<1>5. ASSUME x < (k + 1) * r, ~(q <= k)
      PROVE  FALSE
  <2>1. k + 1 <= q /\ k + 1 \in Nat
    BY <1>1, <1>5
  <2>2. (k + 1) * r <= q * r /\ (k + 1) * r \in Nat /\ q * r \in Nat
    BY <1>1, <1>2, <2>1
  <2> DEFINE p == q * r
             p1 == (k + 1) * r
  <2>3. x = p + m /\ p1 <= p /\ x < p1 /\ p \in Nat /\ p1 \in Nat
    BY <1>1, <1>3, <1>5, <2>2
  <2> HIDE DEF p, p1
  <2>4. QED
    BY <1>1, <2>3
<1>6. QED
  BY <1>4, <1>5 DEF q

(* The first of the four statuses ends where the moisture is above 75, and *)
(* the second where it is not.                                             *)
LEMMA StatusOfMoisture ==
  ASSUME NEW v \in Nat
  PROVE  /\ AS!Status(v) = "Saturated" => AS!Moisture(v) >= 75
         /\ AS!Moisture(v) > 75 /\ v >= value_min
              => AS!Status(v) \in {"Saturated", "Wet"}
<1>1. /\ value_min \in Nat /\ value_max \in Nat /\ value_max - value_min >= 4
  BY ComponentsAssumption DEF AS!RangeAssumption
<1> DEFINE r == value_max - value_min
           len == r \div 4
<1>2. /\ r \in Nat \ {0} /\ r >= 4 /\ AS!range = r /\ AS!status_len_ = len
      /\ len \in Nat /\ len >= 1 /\ 4 * len <= r /\ r <= 4 * len + 3
  BY <1>1 DEF AS!range, AS!status_len_
<1> HIDE DEF len
<1>3. CASE v \in value_min .. value_max
  <2>1. 100 * (value_max - v) \in Nat
    BY <1>1, <1>3
  <2>2. AS!Moisture(v) = (100 * (value_max - v)) \div r
    BY <1>1, <1>2, <1>3 DEF AS!Moisture
  <2>3. ASSUME v < value_min + len
        PROVE  AS!Moisture(v) >= 75
    <3>1. 100 * (value_max - v) >= 75 * r
      BY <1>1, <1>2, <1>3, <2>3
    <3>2. QED
      BY <1>2, <2>1, <2>2, <3>1, Quotients
  <2>4. ASSUME ~(v < value_min + 2 * len)
        PROVE  AS!Moisture(v) <= 75
    <3>1. 100 * (value_max - v) < (75 + 1) * r
      BY <1>1, <1>2, <1>3, <2>4
    <3>2. QED
      BY <1>2, <2>1, <2>2, <3>1, Quotients
  <2>5. /\ AS!Status(v) = "Saturated" => v < value_min + len
        /\ v < value_min + 2 * len => AS!Status(v) \in {"Saturated", "Wet"}
    BY <1>1, <1>2, <1>3 DEF AS!Status
  <2>6. AS!Moisture(v) \in Int
    BY <1>2, <2>1, <2>2
  <2>7. QED
    BY <2>3, <2>4, <2>5, <2>6
<1>4. CASE v < value_min
  BY <1>1, <1>4 DEF AS!Status
<1>5. CASE v > value_max
  BY <1>1, <1>5 DEF AS!Status, AS!Moisture
<1>6. QED
  BY <1>1, <1>3, <1>4, <1>5

(* The relay's guard lives for the whole of a measurement.                 *)
AsInv ==
  /\ relay \in BOOLEAN /\ on_failed \in BOOLEAN
  /\ raw \in [raw : Nat, powered : BOOLEAN]
  /\ soil_at = "idle" /\ relay => off_failed
  /\ soil_at = "read" => relay \/ on_failed
  /\ soil_at \in {"convert", "transit", "update"} => raw.powered \/ on_failed
  /\ soil_at = "update" => curr_state = AS!Status(raw.raw)
  /\ soil_data # Unmeasured =>
       /\ soil_data.raw \in Nat /\ soil_data.powered
       /\ soil_data.status = AS!Status(soil_data.raw)
       /\ soil_data.moisture = AS!Moisture(soil_data.raw)

\* Each step of a reading keeps relay, sample and status together.
LEMMA AsStep ==
  ASSUME AsInv, [AS!Next]_(AS!vars)
  PROVE  AsInv'
<1> USE DEF AsInv
<1>1. CASE AS!TurnOn
  BY <1>1 DEF AS!TurnOn, AS!SetLevel
<1>2. ASSUME NEW v \in AS!Raws, AS!Read(v)
      PROVE  AsInv'
  <2>1. v \in Nat
    BY ComponentsAssumption DEF AS!RangeAssumption, AS!Raws
  <2>2. /\ raw' = [raw |-> v, powered |-> relay]
        /\ raw'.powered = relay
    BY <1>2 DEF AS!Read
  <2>3. QED
    BY <1>2, <2>1, <2>2 DEF AS!Read
<1>3. CASE AS!MeasureFails \/ AS!Convert
  BY <1>3 DEF AS!MeasureFails, AS!Convert
<1>4. CASE AS!Transit
  BY <1>4 DEF AS!Transit
<1>5. CASE AS!UpdateData
  <2>1. /\ soil_data' = [raw |-> raw.raw, powered |-> raw.powered \/ on_failed,
                         status |-> curr_state, moisture |-> AS!Moisture(raw.raw),
                         pos |-> AS!Position(raw.raw)]
        /\ raw.powered \/ on_failed
    BY <1>5 DEF AS!UpdateData
  <2>2. /\ soil_data'.raw = raw.raw /\ soil_data'.powered = (raw.powered \/ on_failed)
        /\ soil_data'.status = curr_state
        /\ soil_data'.moisture = AS!Moisture(raw.raw)
    BY <2>1
  <2>3. soil_data'.powered
    BY <2>1, <2>2
  <2>4. soil_data'.raw \in Nat
    BY <2>2
  <2>5. /\ UNCHANGED <<relay, on_failed, off_failed, raw, curr_state>>
        /\ soil_at' = "off" /\ curr_state = AS!Status(raw.raw)
    BY <1>5 DEF AS!UpdateData
  <2>6. QED
    BY <2>2, <2>3, <2>4, <2>5
<1>6. CASE AS!TurnOff
  BY <1>6 DEF AS!TurnOff, AS!SetLevel
<1>7. CASE \E v \in AS!Raws : AS!MeasureLight(v)
  BY <1>7 DEF AS!MeasureLight
<1>8. CASE UNCHANGED AS!vars
  BY <1>8 DEF AS!vars
<1>9. QED
  BY <1>1, <1>2, <1>3, <1>4, <1>5, <1>6, <1>7, <1>8 DEF AS!Next

(* A reading of the soil sensor was taken with the probe powered, its      *)
(* status is that of its raw value and the moisture agrees with it,        *)
(* whatever the range of the sensor; the relay is off between two of them  *)
(* unless turning it off failed.                                           *)
THEOREM ReadingsAgree == Spec => []AnalogReadings
<1>1. AS!Init => AsInv
  <2>1. AS!Init => raw \in [raw : Nat, powered : BOOLEAN]
    BY DEF AS!Init
  <2>2. AS!Init => /\ relay \in BOOLEAN /\ on_failed \in BOOLEAN
                   /\ soil_at = "idle" /\ relay => off_failed
    BY Zenon DEF AS!Init
  <2>3. AS!Init => soil_at = "idle" /\ soil_data = Unmeasured
    BY DEF AS!Init
  <2>4. QED
    BY <2>1, <2>2, <2>3 DEF AsInv
<1>2. AsInv /\ [AS!Next]_(AS!vars) => AsInv'
  BY AsStep
<1>3. AsInv => AnalogReadings
  BY StatusOfMoisture DEF AsInv, AnalogReadings, AS!AnalogReadings
<1>4. QED
  BY <1>1, <1>2, <1>3, SensorSpecs, PTL DEF AS!Spec

(***************************************************************************)
(* BME280                                                                  *)
(***************************************************************************)

(* In forced mode the chip measures from the time run() has asked for it,  *)
(* and the measurement it makes is the one that is wanted; t_fine_ is of   *)
(* the data that were read last.                                           *)
BmeInv ==
  /\ chip.latest \in Nat /\ wanted \in Nat
  /\ t_fine_ = bme280_data.temperature
  /\ bme280_at \in {"force", "wait"} => operation_mode = "Forced"
  /\ bme280_at = "wait" =>
       wanted <= chip.latest + 1 /\ (~chip.measuring => wanted <= chip.latest)
  /\ operation_mode = "Forced" /\ bme280_at = "read" => wanted <= chip.latest
  /\ DOMAIN chip = {"mode", "measuring", "latest"}

\* Each call of the BME280 keeps the registers, t_fine_ and the data together.
LEMMA BmeStep ==
  ASSUME BmeInv, [BME!Next]_(BME!vars)
  PROVE  BmeInv'
<1> USE DEF BmeInv
<1>c. BME!ConfigurationWritten => /\ DOMAIN chip' = DOMAIN chip
                                  /\ chip'.latest = chip.latest
                                  /\ chip'.measuring = (operation_mode # "Sleep")
  BY DEF BME!ConfigurationWritten
<1>1. CASE \E mode \in OperationModes : BME!Construct(mode)
  BY <1>1 DEF BME!Construct
<1>2. CASE BME!Reset
  BY <1>2 DEF BME!Reset
<1>3. CASE BME!Configure
  BY <1>3 DEF BME!Configure, BME!ConfigurationWritten
<1>4. CASE BME!ReadCalibration1 \/ BME!ReadCalibration2 \/ BME!Run
  BY <1>4 DEF BME!ReadCalibration1, BME!ReadCalibration2, BME!Run, BME!BeginRun
<1>5. CASE BME!RunFails \/ BME!Waited
  BY <1>5 DEF BME!RunFails, BME!Waited
<1>6. CASE BME!Force
  <2>1. /\ bme280_at = "force" /\ bme280_at' = "wait" /\ wanted' = chip.latest + 1
        /\ UNCHANGED <<operation_mode, t_fine_, bme280_data>>
        /\ BME!ConfigurationWritten
    BY <1>6 DEF BME!Force
  <2>2. operation_mode = "Forced" /\ chip'.measuring
    BY <1>c, <2>1
  <2>3. chip'.latest = chip.latest /\ DOMAIN chip' = DOMAIN chip
    BY <1>c, <2>1
  <2>4. QED
    BY <2>1, <2>2, <2>3
<1>7. CASE BME!ReadData
  BY <1>7 DEF BME!ReadData, BME!Temperature
<1>8. CASE BME!Measure
  <2>1. /\ DOMAIN chip' = DOMAIN chip /\ chip'.latest = chip.latest + 1
        /\ UNCHANGED <<operation_mode, bme280_at, t_fine_, bme280_data, wanted>>
    BY <1>8 DEF BME!Measure
  <2>2. QED
    BY <2>1
<1>9. CASE UNCHANGED BME!vars
  BY <1>9 DEF BME!vars
<1>10. QED
  BY <1>1, <1>2, <1>3, <1>4, <1>5, <1>6, <1>7, <1>8, <1>9 DEF BME!Next

(* What bme280/sensor.cpp publishes in forced mode was measured after      *)
(* run() asked for it, and its values are of one measurement, but for the  *)
(* temperature the pressure is compensated with.                           *)
THEOREM RequestAnswered == Spec => DataOfTheRequest
<1> DEFINE Answered ==
      BME!Publishes =>
        /\ operation_mode = "Forced" => bme280_data'.temperature >= wanted
        /\ bme280_data'.humidity = [raw |-> bme280_data'.temperature,
                                    fine |-> bme280_data'.temperature]
        /\ bme280_data'.pressure = [raw |-> bme280_data'.temperature,
                                    fine |-> bme280_data.temperature]
<1>1. ASSUME BmeInv, [BME!Next]_(BME!vars), BME!Publishes
      PROVE  /\ operation_mode = "Forced" => bme280_data'.temperature >= wanted
             /\ bme280_data'.humidity = [raw |-> bme280_data'.temperature,
                                         fine |-> bme280_data'.temperature]
             /\ bme280_data'.pressure = [raw |-> bme280_data'.temperature,
                                         fine |-> bme280_data.temperature]
  <2>1. BME!ReadData
    BY <1>1 DEF BME!Publishes, BME!Next, BME!Construct, BME!Reset, BME!Configure,
         BME!ReadCalibration1, BME!ReadCalibration2, BME!Run, BME!RunFails,
         BME!Force, BME!Waited, BME!Measure, BME!vars
  <2>2. /\ t_fine_' = chip.latest
        /\ bme280_data' = [pressure |-> [raw |-> chip.latest, fine |-> t_fine_],
                           temperature |-> chip.latest,
                           humidity |-> [raw |-> chip.latest, fine |-> t_fine_']]
        /\ bme280_at = "read"
    BY <2>1 DEF BME!ReadData, BME!Pressure, BME!Humidity, BME!Temperature
  <2>3. /\ bme280_data'.temperature = chip.latest
        /\ bme280_data'.pressure = [raw |-> chip.latest, fine |-> t_fine_]
        /\ bme280_data'.humidity = [raw |-> chip.latest, fine |-> chip.latest]
    BY <2>2
  <2>4. operation_mode = "Forced" => chip.latest >= wanted
    BY <1>1, <2>2 DEF BmeInv
  <2>5. QED
    BY <1>1, <2>3, <2>4 DEF BmeInv
<1>2. BmeInv /\ [BME!Next]_(BME!vars) => [Answered]_(BME!vars)
  BY <1>1
<1>3. BmeInv /\ [BME!Next]_(BME!vars) => BmeInv'
  BY BmeStep
<1>4. BME!Init => BmeInv
  <2>1. BME!Init => /\ chip.latest = 0 /\ bme280_data.temperature = 0
                    /\ DOMAIN chip = {"mode", "measuring", "latest"}
    BY DEF BME!Init, BME!NoData
  <2>2. QED
    BY <2>1 DEF BME!Init, BmeInv
<1>5. QED
  BY <1>2, <1>3, <1>4, SensorSpecs, PTL DEF BME!Spec, DataOfTheRequest,
     BME!DataOfTheRequest

(***************************************************************************)
(* SHT41                                                                   *)
(***************************************************************************)

(* The sensor has read the storage since it was constructed. *)
ShtRestoring == doing \in {"off", "resetting", "restoring"}

(* The count in memory, like the one in the storage, lacks an activation   *)
(* per failure and the one under way; it has counted an activation while   *)
(* the storage still lacks it.                                             *)
ShtCountInv ==
  /\ heating_count_ <= activations /\ stored <= activations
  /\ doing = "heating" => heating_count_ < activations
  /\ ~forgotten /\ ~ShtRestoring =>
       /\ activations <= heating_count_ + mishaps + 1
       /\ doing # "heating" => activations <= heating_count_ + mishaps
  /\ ~forgotten =>
       /\ activations <= stored + mishaps + 1
       /\ doing \notin {"heating", "counted"} => activations <= stored + mishaps

(* While a measurement is received, no other command's frame is there. *)
ShtFrameInv ==
  /\ doing = "measuring" => sht41_chip # "serial number"
  /\ published.frame # "serial number"
  /\ published.count <= activations

ShtIInv == SHT!TypeOK /\ ShtCountInv /\ ShtFrameInv

\* The strengthened invariant of the SHT41 holds at first.
LEMMA ShtInitIInv == SHT!Init => ShtIInv
<1>1. SHT!Init => forgotten \in BOOLEAN
  BY DEF SHT!Init
<1>2. SHT!Init => published \in [frame : SHT!Frames, count : Nat]
  BY DEF SHT!Init, SHT!Frames
<1>3. SHT!Init => ShtCountInv /\ ShtFrameInv
  BY DEF SHT!Init, ShtCountInv, ShtRestoring, ShtFrameInv
<1>4. QED
  BY <1>1, <1>2, <1>3 DEF SHT!Init, ShtIInv, SHT!TypeOK, SHT!Frames

\* Every step of the SHT41 keeps its types.
LEMMA ShtTypeStep ==
  ASSUME SHT!TypeOK, [SHT!Next]_(SHT!vars)
  PROVE  SHT!TypeOK'
<1> USE DEF SHT!sensorVars, SHT!history
<1>f. forgotten' \in BOOLEAN
  <2>1. forgotten' = forgotten \/ forgotten' = TRUE
    BY DEF SHT!Next, SHT!Construct, SHT!Reset, SHT!Restored, SHT!AskSerialNumber,
        SHT!ReadSerialNumber, SHT!Measure, SHT!MeasureReceived, SHT!MeasureFails,
        SHT!Heat, SHT!HeatNotSent, SHT!HeatFails, SHT!HeatReceived, SHT!WriteCount,
        SHT!WriteFails, SHT!HeatPublishes, SHT!PowerLoss, SHT!vars
  <2>2. QED
    BY <2>1, Zenon DEF SHT!TypeOK
<1>p. published' \in [frame : SHT!Frames, count : Nat]
  <2>1. CASE SHT!Construct
    BY <2>1 DEF SHT!Construct, SHT!Frames
  <2>2. CASE SHT!MeasureReceived
    BY <2>2 DEF SHT!MeasureReceived, SHT!TypeOK
  <2>3. CASE SHT!HeatPublishes
    BY <2>3 DEF SHT!HeatPublishes, SHT!TypeOK, SHT!Frames
  <2>4. CASE ~(SHT!Construct \/ SHT!MeasureReceived \/ SHT!HeatPublishes)
    <3>1. published' = published
      BY <2>4 DEF SHT!Next, SHT!Reset, SHT!Restored, SHT!AskSerialNumber,
          SHT!ReadSerialNumber, SHT!Measure, SHT!MeasureFails, SHT!Heat,
          SHT!HeatNotSent, SHT!HeatFails, SHT!HeatReceived, SHT!WriteCount,
          SHT!WriteFails, SHT!PowerLoss, SHT!vars
    <3>2. QED
      BY <3>1 DEF SHT!TypeOK
  <2>5. QED
    BY <2>1, <2>2, <2>3, <2>4
<1>d. doing' \in {"off", "resetting", "restoring", "asking", "identifying", "idle",
                  "measuring", "heating", "counted", "saved"}
  BY DEF SHT!TypeOK, SHT!Next, SHT!Construct, SHT!Reset, SHT!Restored,
      SHT!AskSerialNumber, SHT!ReadSerialNumber, SHT!Measure, SHT!MeasureReceived,
      SHT!MeasureFails, SHT!Heat, SHT!HeatNotSent, SHT!HeatFails, SHT!HeatReceived,
      SHT!WriteCount, SHT!WriteFails, SHT!HeatPublishes, SHT!PowerLoss, SHT!SendCommand,
      SHT!ReceiveData, SHT!ReceiveFails, SHT!vars
<1>c. sht41_chip' \in SHT!Frames
  BY DEF SHT!TypeOK, SHT!Frames, SHT!Next, SHT!Construct, SHT!Reset, SHT!Restored,
      SHT!AskSerialNumber, SHT!ReadSerialNumber, SHT!Measure, SHT!MeasureReceived,
      SHT!MeasureFails, SHT!Heat, SHT!HeatNotSent, SHT!HeatFails, SHT!HeatReceived,
      SHT!WriteCount, SHT!WriteFails, SHT!HeatPublishes, SHT!PowerLoss, SHT!SendCommand,
      SHT!ReceiveData, SHT!ReceiveFails, SHT!vars
<1>1. activations' \in Nat /\ mishaps' \in Nat
  <2>1. activations' \in {activations, activations + 1}
    BY DEF SHT!Next, SHT!Construct, SHT!Reset, SHT!Restored, SHT!AskSerialNumber,
        SHT!ReadSerialNumber, SHT!Measure, SHT!MeasureReceived, SHT!MeasureFails,
        SHT!Heat, SHT!HeatNotSent, SHT!HeatFails, SHT!HeatReceived, SHT!WriteCount,
        SHT!WriteFails, SHT!HeatPublishes, SHT!PowerLoss, SHT!SendCommand,
        SHT!ReceiveData, SHT!ReceiveFails, SHT!vars
  <2>2. mishaps' \in {mishaps, mishaps + 1}
    BY DEF SHT!Next, SHT!Construct, SHT!Reset, SHT!Restored, SHT!AskSerialNumber,
        SHT!ReadSerialNumber, SHT!Measure, SHT!MeasureReceived, SHT!MeasureFails,
        SHT!Heat, SHT!HeatNotSent, SHT!HeatFails, SHT!HeatReceived, SHT!WriteCount,
        SHT!WriteFails, SHT!HeatPublishes, SHT!PowerLoss, SHT!SendCommand,
        SHT!ReceiveData, SHT!ReceiveFails, SHT!vars
  <2>3. QED
    BY <2>1, <2>2 DEF SHT!TypeOK
<1>2. heating_count_' \in Nat /\ stored' \in Nat
  <2>1. heating_count_' \in {0, stored, heating_count_, heating_count_ + 1}
    BY DEF SHT!Next, SHT!Construct, SHT!Reset, SHT!Restored, SHT!AskSerialNumber,
        SHT!ReadSerialNumber, SHT!Measure, SHT!MeasureReceived, SHT!MeasureFails,
        SHT!Heat, SHT!HeatNotSent, SHT!HeatFails, SHT!HeatReceived, SHT!WriteCount,
        SHT!WriteFails, SHT!HeatPublishes, SHT!PowerLoss, SHT!SendCommand,
        SHT!ReceiveData, SHT!ReceiveFails, SHT!vars
  <2>2. stored' \in {stored, heating_count_}
    BY DEF SHT!Next, SHT!Construct, SHT!Reset, SHT!Restored, SHT!AskSerialNumber,
        SHT!ReadSerialNumber, SHT!Measure, SHT!MeasureReceived, SHT!MeasureFails,
        SHT!Heat, SHT!HeatNotSent, SHT!HeatFails, SHT!HeatReceived, SHT!WriteCount,
        SHT!WriteFails, SHT!HeatPublishes, SHT!PowerLoss, SHT!SendCommand,
        SHT!ReceiveData, SHT!ReceiveFails, SHT!vars
  <2>3. QED
    BY <2>1, <2>2 DEF SHT!TypeOK
<1>3. QED
  BY <1>f, <1>p, <1>d, <1>c, <1>1, <1>2 DEF SHT!TypeOK

\* Every step keeps the counts of heatings in memory, storage and chip in order.
LEMMA ShtCountStep ==
  ASSUME ShtIInv, [SHT!Next]_(SHT!vars)
  PROVE  ShtCountInv'
<1> USE DEF ShtCountInv, ShtRestoring, SHT!sensorVars, SHT!history
<1>t. /\ ShtCountInv
      /\ heating_count_ \in Nat /\ stored \in Nat /\ activations \in Nat
      /\ mishaps \in Nat
  BY DEF ShtIInv, SHT!TypeOK
<1>1. CASE SHT!Construct
  BY <1>1, <1>t DEF SHT!Construct
<1>2. CASE SHT!Reset
  BY <1>2, <1>t DEF SHT!Reset, SHT!SendCommand
<1>3. CASE SHT!Restored
  BY <1>3, <1>t DEF SHT!Restored
<1>4. CASE SHT!AskSerialNumber
  BY <1>4, <1>t DEF SHT!AskSerialNumber, SHT!SendCommand
<1>5. CASE SHT!ReadSerialNumber
  BY <1>5, <1>t DEF SHT!ReadSerialNumber
<1>6. CASE SHT!Measure
  BY <1>6, <1>t DEF SHT!Measure, SHT!SendCommand
<1>7. CASE SHT!MeasureReceived
  BY <1>7, <1>t DEF SHT!MeasureReceived, SHT!ReceiveData
<1>8. CASE SHT!MeasureFails
  BY <1>8, <1>t DEF SHT!MeasureFails, SHT!ReceiveFails
<1>9. CASE SHT!Heat
  BY <1>9, <1>t DEF SHT!Heat
<1>10. CASE SHT!HeatNotSent
  BY <1>10, <1>t DEF SHT!HeatNotSent
<1>11. CASE SHT!HeatFails
  BY <1>11, <1>t DEF SHT!HeatFails, SHT!ReceiveFails
<1>12. CASE SHT!HeatReceived
  BY <1>12, <1>t DEF SHT!HeatReceived, SHT!ReceiveData
<1>13. CASE SHT!WriteCount
  BY <1>13, <1>t DEF SHT!WriteCount
<1>14. CASE SHT!WriteFails
  BY <1>14, <1>t DEF SHT!WriteFails
<1>15. CASE SHT!HeatPublishes
  BY <1>15, <1>t DEF SHT!HeatPublishes
<1>16. CASE SHT!PowerLoss
  BY <1>16, <1>t DEF SHT!PowerLoss
<1>17. CASE UNCHANGED SHT!vars
  BY <1>17, <1>t DEF SHT!vars
<1>18. QED
  BY <1>1, <1>2, <1>3, <1>4, <1>5, <1>6, <1>7, <1>8, <1>9,
     <1>10, <1>11, <1>12, <1>13, <1>14, <1>15, <1>16, <1>17 DEF SHT!Next

\* Every step keeps what the frame in the chip may be.
LEMMA ShtFrameStep ==
  ASSUME ShtIInv, [SHT!Next]_(SHT!vars)
  PROVE  ShtFrameInv'
<1> USE DEF ShtFrameInv, SHT!sensorVars, SHT!history
<1>t. /\ ShtFrameInv /\ heating_count_ <= activations
      /\ heating_count_ \in Nat /\ activations \in Nat /\ published.count \in Nat
  BY DEF ShtIInv, SHT!TypeOK, ShtCountInv
<1>1. CASE SHT!Construct
  <2>1. published' = [frame |-> "none", count |-> 0]
    BY <1>1 DEF SHT!Construct
  <2>2. published'.frame # "serial number" /\ published'.count = 0
    BY <2>1
  <2>3. doing' # "measuring" /\ activations' = activations
    BY <1>1 DEF SHT!Construct
  <2>4. 0 <= activations
    <3>1. activations \in Nat
      BY <1>t
    <3>2. QED
      BY <3>1
  <2>5. QED
    BY <2>2, <2>3, <2>4, Zenon
<1>2. CASE SHT!MeasureReceived
  <2>1. /\ published' = [frame |-> sht41_chip, count |-> heating_count_]
        /\ doing' = "idle" /\ activations' = activations
        /\ sht41_chip # "serial number"
    BY <1>2, <1>t DEF SHT!MeasureReceived, SHT!ReceiveData
  <2>2. published'.frame = sht41_chip /\ published'.count = heating_count_
    BY <2>1
  <2>3. QED
    BY <2>1, <2>2, <1>t
<1>3. CASE SHT!HeatPublishes
  <2>1. /\ published' = [frame |-> "measurement", count |-> heating_count_]
        /\ doing' = "idle" /\ activations' = activations
    BY <1>3 DEF SHT!HeatPublishes
  <2>2. published'.frame = "measurement" /\ published'.count = heating_count_
    BY <2>1
  <2>3. QED
    BY <2>1, <2>2, <1>t
<1>4. CASE ~(SHT!Construct \/ SHT!MeasureReceived \/ SHT!HeatPublishes)
  <2>1. published' = published
    BY <1>4 DEF SHT!Next, SHT!Reset, SHT!Restored, SHT!AskSerialNumber,
        SHT!ReadSerialNumber, SHT!Measure, SHT!MeasureFails, SHT!Heat, SHT!HeatNotSent,
        SHT!HeatFails, SHT!HeatReceived, SHT!WriteCount, SHT!WriteFails, SHT!PowerLoss,
        SHT!vars
  <2>2. activations' = activations \/ activations' = activations + 1
    BY <1>4 DEF SHT!Next, SHT!Reset, SHT!Restored, SHT!AskSerialNumber,
        SHT!ReadSerialNumber, SHT!Measure, SHT!MeasureFails, SHT!Heat, SHT!HeatNotSent,
        SHT!HeatFails, SHT!HeatReceived, SHT!WriteCount, SHT!WriteFails, SHT!PowerLoss,
        SHT!vars
  <2>3. doing' = "measuring" => sht41_chip' # "serial number"
    BY <1>4, <1>t DEF SHT!Next, SHT!Reset, SHT!Restored, SHT!AskSerialNumber,
        SHT!ReadSerialNumber, SHT!Measure, SHT!MeasureFails, SHT!Heat, SHT!HeatNotSent,
        SHT!HeatFails, SHT!HeatReceived, SHT!WriteCount, SHT!WriteFails, SHT!PowerLoss,
        SHT!vars, SHT!SendCommand, SHT!ReceiveFails, SHT!ReceiveData
  <2>4. published'.frame = published.frame /\ published'.count = published.count
    BY <2>1
  <2>5. published.count <= activations'
    <3> DEFINE c == published.count
    <3>1. c \in Nat /\ activations \in Nat /\ c <= activations
      BY <1>t
    <3> HIDE DEF c
    <3>2. c <= activations'
      BY <3>1, <2>2
    <3>3. QED
      BY <3>2 DEF c
  <2>6. QED
    BY <2>3, <2>4, <2>5, <1>t, Zenon
<1>5. QED
  BY <1>1, <1>2, <1>3, <1>4

(* Sensor::heating_count_, what is stored of it and what is published      *)
(* never claim an activation that was not made, and lack at most one per   *)
(* failure unless the storage could not be read at some start; and no      *)
(* other command's frame is published for a measurement.                   *)
THEOREM HeatingsCounted == Spec => []HeatingsAccounted
<1>1. ShtIInv /\ [SHT!Next]_(SHT!vars) => ShtIInv'
  BY ShtTypeStep, ShtCountStep, ShtFrameStep DEF ShtIInv
<1>2. ASSUME ShtIInv
      PROVE  HeatingsAccounted
  <2>1. ~forgotten => activations <= stored + mishaps + SHT!Pending
    <3>1. CASE doing \in {"heating", "counted"}
      <4>1. SHT!Pending = 1
        BY <3>1 DEF SHT!Pending
      <4>2. QED
        BY <1>2, <4>1 DEF ShtIInv, ShtCountInv
    <3>2. CASE doing \notin {"heating", "counted"}
      <4>1. stored + mishaps + 0 = stored + mishaps /\ SHT!Pending = 0
        BY <1>2, <3>2 DEF ShtIInv, SHT!TypeOK, SHT!Pending
      <4>2. QED
        BY <1>2, <3>2, <4>1 DEF ShtIInv, ShtCountInv
    <3>3. QED
      BY <3>1, <3>2
  <2>2. ShtCountInv /\ ShtFrameInv /\ SHT!TypeOK
    BY <1>2 DEF ShtIInv
  <2>3. /\ heating_count_ <= activations /\ stored <= activations
        /\ published.count <= activations
        /\ published.frame # "serial number"
    BY <2>2 DEF ShtCountInv, ShtFrameInv
  <2>4. QED
    BY <2>1, <2>2, <2>3, Zenon DEF HeatingsAccounted, SHT!HeatingsAccounted
<1>3. QED
  BY <1>1, <1>2, ShtInitIInv, SensorSpecs, PTL DEF SHT!Spec

(***************************************************************************)
(* The 1-Wire bus                                                          *)
(***************************************************************************)

(* The line is released in the fourth step of a slot, and read in the      *)
(* seventh of the slot that reads.                                         *)
LEMMA OwbSlots ==
  /\ Len(OWB!ResetSlot) = 8 /\ Len(OWB!ReadBit) = 9
  /\ Len(OWB!WriteBitOne) = 6 /\ Len(OWB!WriteBitZero) = 5
  /\ OWB!WriteBitOne # OWB!WriteBitZero
  /\ \A i \in 1 .. 6 : /\ OWB!WriteBitOne[i] = "release" <=> i = 4
                       /\ OWB!WriteBitOne[i] # "sample"
  /\ \A i \in 1 .. 5 : /\ OWB!WriteBitZero[i] = "release" <=> i = 4
                       /\ OWB!WriteBitZero[i] # "sample"
  /\ \A i \in 1 .. 9 : OWB!ReadBit[i] = "sample" <=> i = 7
<1>1. /\ Len(OWB!ResetSlot) = 8 /\ Len(OWB!ReadBit) = 9
      /\ Len(OWB!WriteBitOne) = 6 /\ Len(OWB!WriteBitZero) = 5
  BY DEF OWB!ResetSlot, OWB!ReadBit, OWB!WriteBitOne, OWB!WriteBitZero
<1>2. \A i \in 1 .. 6 : /\ OWB!WriteBitOne[i] = "release" <=> i = 4
                        /\ OWB!WriteBitOne[i] # "sample"
  <2>1. /\ OWB!WriteBitOne[1] = "output" /\ OWB!WriteBitOne[2] = "hold"
        /\ OWB!WriteBitOne[3] = "delay short" /\ OWB!WriteBitOne[4] = "release"
        /\ OWB!WriteBitOne[5] = "delay" /\ OWB!WriteBitOne[6] = "delay"
    BY DEF OWB!WriteBitOne
  <2>2. \A i \in 1 .. 6 : i \in {1, 2, 3, 4, 5, 6}
    OBVIOUS
  <2>3. QED
    BY <2>1, <2>2
<1>3. \A i \in 1 .. 5 : /\ OWB!WriteBitZero[i] = "release" <=> i = 4
                        /\ OWB!WriteBitZero[i] # "sample"
  BY DEF OWB!WriteBitZero
<1>4. \A i \in 1 .. 9 : OWB!ReadBit[i] = "sample" <=> i = 7
  <2>1. /\ OWB!ReadBit[1] = "output" /\ OWB!ReadBit[2] = "hold"
        /\ OWB!ReadBit[3] = "delay short" /\ OWB!ReadBit[4] = "release"
        /\ OWB!ReadBit[5] = "delay short" /\ OWB!ReadBit[6] = "input"
        /\ OWB!ReadBit[7] = "sample" /\ OWB!ReadBit[8] = "delay"
        /\ OWB!ReadBit[9] = "delay"
    BY DEF OWB!ReadBit
  <2>2. \A i \in 1 .. 9 : i \in {1, 2, 3, 4, 5, 6, 7, 8, 9}
    OBVIOUS
  <2>3. QED
    BY <2>1, <2>2
<1>5. QED
  BY <1>1, <1>2, <1>3, <1>4

(* A bit is carried once its slot has come past the release of the line,   *)
(* or past the sample of it; the bits before it are.                       *)
OwbCarried(step) == {i \in OWB!Bits : i < bit_pos \/ (i = bit_pos /\ slot_pos > step)}

OwbBusyInv ==
  /\ ops # <<>> /\ bit_pos \in OWB!Bits
  /\ slot_pos \in 1 .. Len(OWB!Slot)
  /\ byte \in OWB!Values /\ word \in OWB!Values
  /\ guarded =>
       /\ ~stretched
       /\ Head(ops).kind = "write" =>
            \A i \in OwbCarried(4) : word[i] = Head(ops).byte[i]
       /\ Head(ops).kind = "read" =>
            \A i \in OwbCarried(7) : byte[i] = word[i]

OwbInv ==
  /\ ops \in Seq(OWB!Operations)
  /\ guarded /\ bus_result # "Error" => host = device
  /\ bus_result = "busy" => OwbBusyInv

\* The operation in hand and those after it.
LEMMA OwbFirst ==
  ASSUME ops \in Seq(OWB!Operations), ops # <<>>
  PROVE  /\ Head(ops) = [kind |-> Head(ops).kind, byte |-> Head(ops).byte]
         /\ Head(ops).kind \in {"reset", "write", "read"}
         /\ Head(ops).byte \in OWB!Values
         /\ Tail(ops) \in Seq(OWB!Operations)
         /\ Len(ops) # 1 => Tail(ops) # <<>>
<1> DEFINE T == OWB!Operations
<1>1. Head(ops) \in T /\ Tail(ops) \in Seq(T) /\ (Len(ops) # 1 => Tail(ops) # <<>>)
  <2>1. ops \in Seq(T) /\ Len(ops) \in Nat \ {0}
    OBVIOUS
  <2> HIDE DEF T
  <2>2. Head(ops) \in T /\ Tail(ops) \in Seq(T) /\ Len(Tail(ops)) = Len(ops) - 1
    BY <2>1
  <2>3. Len(ops) # 1 => Len(Tail(ops)) # 0
    BY <2>1, <2>2
  <2>4. QED
    BY <2>2, <2>3
<1>2. QED
  BY <1>1 DEF OWB!Operations

(* The slot of a bit is that of the operation and of the bit's value.      *)
LEMMA OwbSlot ==
  /\ Head(ops).kind = "reset" => OWB!Slot = OWB!ResetSlot
  /\ Head(ops).kind = "read" => OWB!Slot = OWB!ReadBit
  /\ Head(ops).kind = "write" =>
       /\ Head(ops).byte[bit_pos] = 1 => OWB!Slot = OWB!WriteBitOne
       /\ Head(ops).byte[bit_pos] # 1 => OWB!Slot = OWB!WriteBitZero
BY DEF OWB!Slot, OWB!Bit

\* Where in its slot the line is released and sampled.
LEMMA OwbSlotSteps ==
  ASSUME ops \in Seq(OWB!Operations), ops # <<>>, bit_pos \in OWB!Bits
  PROVE  /\ Len(OWB!Slot) \in 5 .. 9
         /\ Head(ops).kind = "read" => Len(OWB!Slot) = 9
         /\ Head(ops).kind = "write" =>
              \A i \in 1 .. Len(OWB!Slot) : /\ OWB!Slot[i] = "release" <=> i = 4
                                            /\ OWB!Slot[i] # "sample"
         /\ Head(ops).kind = "read" =>
              \A i \in 1 .. Len(OWB!Slot) : OWB!Slot[i] = "sample" <=> i = 7
<1>1. Head(ops).kind \in {"reset", "write", "read"}
  BY OwbFirst
<1>2. CASE Head(ops).kind = "reset"
  BY <1>2, OwbSlot, OwbSlots
<1>3. CASE Head(ops).kind = "read"
  <2>1. OWB!Slot = OWB!ReadBit
    BY <1>3, OwbSlot
  <2>2. Len(OWB!ReadBit) = 9 /\ 9 \in 5 .. 9
        /\ \A i \in 1 .. 9 : OWB!ReadBit[i] = "sample" <=> i = 7
    BY OwbSlots
  <2>3. QED
    BY <1>3, <2>1, <2>2
<1>4. CASE Head(ops).kind = "write"
  <2>1. OWB!Slot = OWB!WriteBitOne \/ OWB!Slot = OWB!WriteBitZero
    BY <1>4, OwbSlot
  <2>2. Len(OWB!WriteBitOne) = 6 /\ Len(OWB!WriteBitZero) = 5
        /\ 5 \in 5 .. 9 /\ 6 \in 5 .. 9
    BY OwbSlots
  <2>3. \A i \in 1 .. 6 : /\ OWB!WriteBitOne[i] = "release" <=> i = 4
                          /\ OWB!WriteBitOne[i] # "sample"
    BY OwbSlots
  <2>4. \A i \in 1 .. 5 : /\ OWB!WriteBitZero[i] = "release" <=> i = 4
                          /\ OWB!WriteBitZero[i] # "sample"
    BY OwbSlots
  <2>5. CASE OWB!Slot = OWB!WriteBitOne
    BY <1>4, <2>2, <2>3, <2>5
  <2>6. CASE OWB!Slot = OWB!WriteBitZero
    BY <1>4, <2>2, <2>4, <2>6
  <2>7. QED
    BY <2>1, <2>5, <2>6
<1>5. QED
  BY <1>1, <1>2, <1>3, <1>4

\* A byte has at least one bit.
LEMMA OwbBits == BusWidth \in Nat \ {0} /\ 0 \in OWB!Bits /\ OWB!Bits \subseteq Nat
BY ComponentsAssumption DEF OWB!OneWireBusAssumption, OWB!Bits

\* The calls are sequences of operations and not empty.
LEMMA OwbReadRom ==
  OWB!ReadRom \in Seq(OWB!Operations) \ {<<>>}
<1> DEFINE T == OWB!Operations
<1>1. Command["ReadRom"] \in OWB!Values /\ OWB!Zero \in OWB!Values
  BY ComponentsAssumption DEF OWB!OneWireBusAssumption, OWB!Commands, OWB!Zero, OWB!Values
<1>2. OWB!Reset \in T /\ OWB!Read \in T /\ OWB!Write(Command["ReadRom"]) \in T
  BY <1>1 DEF OWB!Operations, OWB!Reset, OWB!Read, OWB!Write, OWB!Op
<1> HIDE DEF T
<1>3. OWB!ReadRom \in Seq(T) /\ OWB!ReadRom # <<>>
  BY <1>2 DEF OWB!ReadRom
<1>4. QED
  BY <1>3 DEF T

LEMMA OwbCalls ==
  ASSUME NEW r \in RomCodes, NEW v \in OWB!Values
  PROVE  /\ OWB!ReadScratchpad(r) \in Seq(OWB!Operations) \ {<<>>}
         /\ OWB!WriteScratchpad(r, v) \in Seq(OWB!Operations) \ {<<>>}
<1> DEFINE T == OWB!Operations
<1>1. \A c \in {"MatchRom", "WriteScratchpad", "ReadScratchpad"} :
        Command[c] \in OWB!Values
  BY ComponentsAssumption DEF OWB!OneWireBusAssumption, OWB!Commands
<1>2. OWB!Reset \in T /\ OWB!Read \in T
  <2>1. OWB!Zero \in OWB!Values
    BY DEF OWB!Zero, OWB!Values
  <2>2. QED
    BY <2>1 DEF OWB!Operations, OWB!Reset, OWB!Read, OWB!Op
<1>3. \A w \in OWB!Values : OWB!Write(w) \in T
  BY DEF OWB!Operations, OWB!Write, OWB!Op
<1>4. r \in OWB!Values
  BY ComponentsAssumption DEF OWB!OneWireBusAssumption
<1>5. /\ OWB!Write(r) \in T /\ OWB!Write(v) \in T
      /\ OWB!Write(Command["MatchRom"]) \in T
      /\ OWB!Write(Command["WriteScratchpad"]) \in T
      /\ OWB!Write(Command["ReadScratchpad"]) \in T
  BY <1>1, <1>3, <1>4
<1> HIDE DEF T
<1>7. OWB!Match(r) \in Seq(T) /\ Len(OWB!Match(r)) = 3
  BY <1>2, <1>5 DEF OWB!Match
<1>8. /\ <<OWB!Write(Command["WriteScratchpad"]), OWB!Write(v)>> \in Seq(T)
      /\ <<OWB!Write(Command["ReadScratchpad"]), OWB!Read, OWB!Read>> \in Seq(T)
  BY <1>2, <1>5
<1>9. ASSUME NEW s \in Seq(T), NEW t \in Seq(T), Len(s) = 3
      PROVE  s \o t \in Seq(T) /\ s \o t # <<>>
  <2>1. s \o t \in Seq(T) /\ Len(s \o t) = Len(s) + Len(t) /\ Len(t) \in Nat
    OBVIOUS
  <2>2. Len(s \o t) # 0
    BY <1>9, <2>1
  <2>3. QED
    BY <2>2
<1>10. QED
  BY <1>7, <1>8, <1>9 DEF T, OWB!ReadScratchpad, OWB!WriteScratchpad

\* A slot has a first step.
LEMMA OwbSlotBegins ==
  \A s \in {OWB!ResetSlot, OWB!ReadBit, OWB!WriteBitOne, OWB!WriteBitZero} :
    1 \in 1 .. Len(s)
BY OwbSlots

\* Setting one bit leaves the others.
LEMMA OwbWith ==
  ASSUME NEW v \in OWB!Values, NEW k \in OWB!Bits, NEW b, NEW i \in OWB!Bits
  PROVE  OWB!With(v, k, b)[i] = IF i = k THEN b ELSE v[i]
BY DEF OWB!With, OWB!Values

(* A byte whose bits have all been carried is the byte.                    *)
LEMMA OwbSameBits ==
  ASSUME NEW v \in OWB!Values, NEW w \in OWB!Values,
         \A i \in OWB!Bits : v[i] = w[i]
  PROVE  v = w
BY DEF OWB!Values

\* The last step of a slot, which may end the byte or the call.
LEMMA OwbEndSlot ==
  ASSUME OwbInv, bus_result = "busy", slot_pos = Len(OWB!Slot), OWB!EndSlot,
         guarded' = guarded
  PROVE  OwbInv'
<1>1. OwbBusyInv /\ ops \in Seq(OWB!Operations) /\ ops # <<>> /\ bit_pos \in OWB!Bits
  BY DEF OwbInv, OwbBusyInv
<1>2. /\ Len(OWB!Slot) \in 5 .. 9 /\ (Head(ops).kind = "read" => Len(OWB!Slot) = 9)
  BY <1>1, OwbSlotSteps
<1>3. BusWidth \in Nat \ {0} /\ OWB!Bits = 0 .. BusWidth - 1 /\ bit_pos \in Nat
  BY <1>1, OwbBits DEF OWB!Bits
(* All the bits up to this one have been carried.                          *)
<1>4. /\ guarded /\ Head(ops).kind = "write" =>
           \A i \in OWB!Bits : i <= bit_pos => word[i] = Head(ops).byte[i]
      /\ guarded /\ Head(ops).kind = "read" =>
           \A i \in OWB!Bits : i <= bit_pos => byte[i] = word[i]
  <2>1. \A i \in OWB!Bits :
          i <= bit_pos => /\ i \in OwbCarried(4)
                          /\ Head(ops).kind = "read" => i \in OwbCarried(7)
    <3>1. /\ slot_pos \in Nat /\ slot_pos > 4
          /\ Head(ops).kind = "read" => slot_pos > 7
      <4>1. slot_pos \in 5 .. 9
        BY <1>2
      <4>2. Head(ops).kind = "read" => slot_pos > 7
        <5>1. 9 > 7
          OBVIOUS
        <5>2. QED
          BY <1>2, <5>1, Zenon
      <4>3. slot_pos \in Nat /\ slot_pos > 4
        <5>1. \A x \in 5 .. 9 : x \in Nat /\ x > 4
          OBVIOUS
        <5>2. QED
          BY <4>1, <5>1, Zenon
      <4>4. QED
        BY <4>2, <4>3
    <3>2. \A i \in OWB!Bits : i <= bit_pos => i < bit_pos \/ i = bit_pos
      BY <1>3
    <3>3. QED
      BY <3>1, <3>2 DEF OwbCarried
  <2>2. QED
    BY <1>1, <2>1 DEF OwbBusyInv
<1>5. CASE Head(ops).kind # "reset" /\ bit_pos < BusWidth - 1
  <2>1. /\ slot_pos' = 1 /\ bit_pos' = bit_pos + 1 /\ stretched' = FALSE
        /\ UNCHANGED <<ops, host, device, word, byte, bus_result>>
    BY <1>5 DEF OWB!EndSlot
  <2>2. bit_pos' \in OWB!Bits
    BY <1>3, <1>5, <2>1
  <2>3. 1 \in 1 .. Len(OWB!Slot)'
    BY OwbSlotBegins DEF OWB!Slot
  <2>4. \A i \in OwbCarried(4)' \cup OwbCarried(7)' : i \in OWB!Bits /\ i <= bit_pos
    BY <1>3, <2>1 DEF OwbCarried
  <2>5. OwbBusyInv'
    BY <1>1, <1>4, <2>1, <2>2, <2>3, <2>4 DEF OwbBusyInv
  <2>6. QED
    BY <1>1, <2>1, <2>5 DEF OwbInv
<1>6. CASE ~(Head(ops).kind # "reset" /\ bit_pos < BusWidth - 1)
  <2>1. /\ slot_pos' = 1 /\ bit_pos' = 0 /\ stretched' = FALSE /\ ops' = Tail(ops)
        /\ byte' = OWB!Zero
        /\ word' \in OWB!Values \cup {OWB!Zero}
        /\ bus_result' = IF Len(ops) = 1 THEN "OK" ELSE "busy"
    BY <1>6 DEF OWB!EndSlot
  <2>2. guarded => host' = device'
    <3>1. CASE Head(ops).kind = "reset"
      BY <1>6, <3>1 DEF OwbInv, OWB!EndSlot
    <3>2. CASE Head(ops).kind = "write"
      <4>1. guarded => word = Head(ops).byte
        <5>1. \A i \in OWB!Bits : i <= bit_pos
          BY <1>3, <1>6, <3>2
        <5>2. word \in OWB!Values /\ Head(ops).byte \in OWB!Values
          BY <1>1, OwbFirst DEF OwbBusyInv
        <5>3. QED
          BY <1>4, <3>2, <5>1, <5>2, OwbSameBits
      <4>2. /\ host' = Append(host, Head(ops))
            /\ device' = Append(device, OWB!Op("write", word))
        BY <1>6, <3>2 DEF OWB!EndSlot
      <4>3. Head(ops) = OWB!Op("write", Head(ops).byte)
        BY <1>1, <3>2, OwbFirst DEF OWB!Op
      <4>4. QED
        BY <4>1, <4>2, <4>3 DEF OwbInv
    <3>3. CASE Head(ops).kind = "read"
      <4>1. guarded => byte = word
        <5>1. \A i \in OWB!Bits : i <= bit_pos
          BY <1>3, <1>6, <3>3
        <5>2. QED
          BY <1>1, <1>4, <3>3, <5>1, OwbSameBits DEF OwbBusyInv
      <4>2. /\ host' = Append(host, OWB!Op("read", byte))
            /\ device' = Append(device, OWB!Op("read", word))
        BY <1>6, <3>3 DEF OWB!EndSlot
      <4>3. QED
        BY <4>1, <4>2 DEF OwbInv
    <3>4. QED
      BY <1>1, <3>1, <3>2, <3>3, OwbFirst
  <2>3. ops' \in Seq(OWB!Operations) /\ (Len(ops) # 1 => ops' # <<>>)
    BY <1>1, <2>1, OwbFirst
  <2>4. byte' \in OWB!Values /\ word' \in OWB!Values
    BY <2>1 DEF OWB!Zero, OWB!Values
  <2>5. OwbCarried(4)' = {} /\ OwbCarried(7)' = {} /\ bit_pos' \in OWB!Bits
    BY <1>3, <2>1 DEF OwbCarried
  <2>6. 1 \in 1 .. Len(OWB!Slot)'
    BY OwbSlotBegins DEF OWB!Slot
  <2>7. Len(ops) # 1 => OwbBusyInv'
    BY <2>1, <2>3, <2>4, <2>5, <2>6 DEF OwbBusyInv
  <2>8. QED
    BY <2>1, <2>2, <2>3, <2>7 DEF OwbInv
<1>7. QED
  BY <1>5, <1>6

\* A step inside a slot.
LEMMA OwbSlotStep ==
  ASSUME OwbInv, bus_result = "busy", slot_pos # Len(OWB!Slot), OWB!Step
  PROVE  OwbInv'
<1>1. OwbBusyInv /\ ops \in Seq(OWB!Operations) /\ ops # <<>> /\ bit_pos \in OWB!Bits
  BY DEF OwbInv, OwbBusyInv
<1> DEFINE name == OWB!Slot[slot_pos]
<1>2. /\ slot_pos' = slot_pos + 1
      /\ UNCHANGED <<ops, bit_pos, host, device, bus_result, guarded>>
      /\ guarded => stretched' = stretched
      /\ IF name = "release" THEN OWB!Release ELSE UNCHANGED word
      /\ IF name = "sample" THEN OWB!Sample ELSE UNCHANGED byte
  BY DEF OWB!Step, OWB!Delay
<1>3. OWB!Slot' = OWB!Slot
  BY <1>2 DEF OWB!Slot
<1>4. /\ slot_pos \in 1 .. Len(OWB!Slot) /\ Len(OWB!Slot) \in 5 .. 9
      /\ slot_pos' \in 1 .. Len(OWB!Slot)
  BY <1>1, <1>2, OwbSlotSteps DEF OwbBusyInv
<1>5. bit_pos \in Nat /\ OWB!Bits \subseteq Nat
  BY <1>1, OwbBits
<1>6. word' \in OWB!Values /\ byte' \in OWB!Values
  <2>1. \A v \in OWB!Values, b \in {0, 1} : OWB!With(v, bit_pos, b) \in OWB!Values
    BY <1>1 DEF OWB!With, OWB!Values
  <2>2. \A v \in OWB!Values : OWB!Bit(v, bit_pos) \in {0, 1}
    BY <1>1 DEF OWB!Bit, OWB!Values
  <2>3. word \in OWB!Values /\ byte \in OWB!Values
    BY <1>1 DEF OwbBusyInv
  <2>4. word' \in OWB!Values
    BY <1>2, <2>1, <2>3 DEF OWB!Release
  <2>5. byte' \in OWB!Values
    BY <1>2, <2>1, <2>2, <2>3 DEF OWB!Sample
  <2>6. QED
    BY <2>4, <2>5
<1>7. ASSUME guarded, Head(ops).kind = "write", NEW i \in OwbCarried(4)'
      PROVE  word'[i] = Head(ops).byte[i]
  <2>1. i \in OWB!Bits /\ (i < bit_pos \/ (i = bit_pos /\ slot_pos + 1 > 4))
    BY <1>2, <1>7 DEF OwbCarried
  <2>2. name = "release" <=> slot_pos = 4
    BY <1>1, <1>4, <1>7, OwbSlotSteps
  <2>3. CASE i \in OwbCarried(4)
    <3>1. word[i] = Head(ops).byte[i]
      BY <1>1, <1>7, <2>3 DEF OwbBusyInv
    <3>2. CASE name # "release"
      BY <1>2, <3>1, <3>2
    <3>3. CASE name = "release"
      <4>1. i # bit_pos
        BY <1>5, <2>2, <2>3, <3>3 DEF OwbCarried
      <4>2. QED
        BY <1>1, <1>2, <1>7, <2>1, <3>1, <3>3, <4>1, OwbWith
        DEF OwbBusyInv, OWB!Release
    <3>4. QED
      BY <3>2, <3>3
  <2>4. CASE i \notin OwbCarried(4)
    <3>1. i = bit_pos /\ name = "release"
      <4>1. ~(i < bit_pos) /\ ~(i = bit_pos /\ slot_pos > 4)
        BY <2>1, <2>4 DEF OwbCarried
      <4>2. slot_pos = 4
        BY <1>4, <2>1, <4>1
      <4>3. QED
        BY <2>1, <2>2, <4>1, <4>2
    <3>2. Head(ops).byte \in OWB!Values /\ Head(ops).byte[bit_pos] \in {0, 1}
      BY <1>1, OwbFirst DEF OWB!Values
    <3>3. OWB!Slot = OWB!WriteBitOne <=> Head(ops).byte[bit_pos] = 1
      BY <1>7, OwbSlot, OwbSlots
    <3>4. ~stretched
      BY <1>1, <1>7 DEF OwbBusyInv
    <3>5. word' = OWB!With(word, bit_pos, Head(ops).byte[bit_pos])
      BY <1>2, <1>7, <3>1, <3>2, <3>3, <3>4 DEF OWB!Release
    <3>6. QED
      BY <1>1, <3>1, <3>5 DEF OwbBusyInv, OWB!With, OWB!Values
  <2>5. QED
    BY <2>3, <2>4
<1>8. ASSUME guarded, Head(ops).kind = "read", NEW i \in OwbCarried(7)'
      PROVE  byte'[i] = word'[i]
  <2>1. i \in OWB!Bits /\ (i < bit_pos \/ (i = bit_pos /\ slot_pos + 1 > 7))
    BY <1>2, <1>8 DEF OwbCarried
  <2>2. name = "sample" <=> slot_pos = 7
    BY <1>1, <1>4, <1>8, OwbSlotSteps
  <2>3. word' = word
    BY <1>2, <1>8 DEF OWB!Release
  <2>4. CASE i \in OwbCarried(7)
    <3>1. byte[i] = word[i]
      BY <1>1, <1>8, <2>4 DEF OwbBusyInv
    <3>2. CASE name # "sample"
      BY <1>2, <2>3, <3>1, <3>2
    <3>3. CASE name = "sample"
      <4>1. i # bit_pos
        BY <1>5, <2>2, <2>4, <3>3 DEF OwbCarried
      <4>2. QED
        BY <1>1, <1>2, <2>1, <2>3, <3>1, <3>3, <4>1, OwbWith
        DEF OwbBusyInv, OWB!Sample
    <3>4. QED
      BY <3>2, <3>3
  <2>5. CASE i \notin OwbCarried(7)
    <3>1. i = bit_pos /\ name = "sample"
      <4>1. ~(i < bit_pos) /\ ~(i = bit_pos /\ slot_pos > 7)
        BY <2>1, <2>5 DEF OwbCarried
      <4>2. slot_pos = 7
        BY <1>4, <2>1, <4>1
      <4>3. QED
        BY <2>1, <2>2, <4>1, <4>2
    <3>2. ~stretched
      BY <1>1, <1>8 DEF OwbBusyInv
    <3>3. byte' = OWB!With(byte, bit_pos, word[bit_pos])
      BY <1>2, <3>1, <3>2 DEF OWB!Sample, OWB!Bit
    <3>4. QED
      BY <1>1, <2>3, <3>1, <3>3 DEF OwbBusyInv, OWB!With, OWB!Values
  <2>6. QED
    BY <2>4, <2>5
<1>9. slot_pos' \in 1 .. Len(OWB!Slot)'
  BY <1>3, <1>4
<1>10. guarded => ~stretched'
  BY <1>1, <1>2, Zenon DEF OwbBusyInv
<1>11. OwbBusyInv'
  BY <1>1, <1>2, <1>6, <1>7, <1>8, <1>9, <1>10 DEF OwbBusyInv
<1>12. QED
  BY <1>1, <1>2, <1>11 DEF OwbInv

\* Calls, steps and failures keep the bits sent so far equal on both sides.
LEMMA OwbStep ==
  ASSUME OwbInv, [OWB!Next]_(OWB!vars)
  PROVE  OwbInv'
<1> DEFINE calls == {OWB!ReadRom} \cup {OWB!ReadScratchpad(r) : r \in RomCodes}
                      \cup {OWB!WriteScratchpad(r, v) : r \in RomCodes, v \in OWB!Values}
<1>1. CASE OWB!Call(calls)
  <2>1. ops' \in Seq(OWB!Operations) \ {<<>>}
    <3>1. OWB!Zero \in OWB!Values
      BY DEF OWB!Zero, OWB!Values
    <3>2. CASE ops' = OWB!ReadRom
      <4>1. OWB!ReadRom \in Seq(OWB!Operations) \ {<<>>}
        BY OwbReadRom
      <4>2. QED
        BY <3>2, <4>1
    <3>3. CASE \E r \in RomCodes : ops' = OWB!ReadScratchpad(r)
      BY <3>1, <3>3, OwbCalls
    <3>4. CASE \E r \in RomCodes, v \in OWB!Values : ops' = OWB!WriteScratchpad(r, v)
      BY <3>4, OwbCalls
    <3>5. ops' \in calls
      BY <1>1 DEF OWB!Call
    <3>6. QED
      BY <3>2, <3>3, <3>4, <3>5
  <2>2. /\ bit_pos' = 0 /\ slot_pos' = 1 /\ byte' = OWB!Zero /\ word' = OWB!Zero
        /\ stretched' = FALSE /\ host' = device'
    BY <1>1 DEF OWB!Call
  <2>3. bit_pos' \in OWB!Bits /\ OwbCarried(4)' = {} /\ OwbCarried(7)' = {}
    <3>1. \A i \in OWB!Bits : ~(i < 0)
      BY OwbBits
    <3>2. ~(1 > 4) /\ ~(1 > 7)
      OBVIOUS
    <3>3. bit_pos' \in OWB!Bits
      BY <2>2, OwbBits
    <3>4. QED
      BY <2>2, <3>1, <3>2, <3>3, Zenon DEF OwbCarried
  <2>4. byte' \in OWB!Values /\ word' \in OWB!Values
    BY <2>2 DEF OWB!Zero, OWB!Values
  <2>5. 1 \in 1 .. Len(OWB!Slot)'
    BY OwbSlotBegins DEF OWB!Slot
  <2>6. OwbBusyInv'
    BY <2>1, <2>2, <2>3, <2>4, <2>5 DEF OwbBusyInv
  <2>7. QED
    BY <2>1, <2>2, <2>6 DEF OwbInv
<1>2. CASE OWB!Step
  <2>1. bus_result = "busy" /\ guarded' = guarded
    BY <1>2 DEF OWB!Step
  <2>2. CASE slot_pos = Len(OWB!Slot)
    <3>1. OWB!EndSlot
      BY <1>2, <2>2 DEF OWB!Step
    <3>2. QED
      BY <2>1, <2>2, <3>1, OwbEndSlot
  <2>3. CASE slot_pos # Len(OWB!Slot)
    BY <1>2, <2>1, <2>3, OwbSlotStep
  <2>4. QED
    BY <2>2, <2>3
<1>3. CASE OWB!StepFails
  BY <1>3 DEF OWB!StepFails, OwbInv
<1>4. CASE UNCHANGED OWB!vars
  BY <1>4 DEF OWB!vars, OwbInv, OwbBusyInv, OwbCarried, OWB!Slot
<1>5. QED
  BY <1>1, <1>2, <1>3, <1>4 DEF OWB!Next

(* Under the guard against interruptions, a call of onewire/bus.cpp that   *)
(* did not fail has carried every byte bit for bit, whatever their width.  *)
THEOREM BytesArrive == Spec => []BytesCarried
<1>1. OWB!Init => OwbInv
  BY DEF OWB!Init, OwbInv
<1>2. OwbInv /\ [OWB!Next]_(OWB!vars) => OwbInv'
  BY OwbStep
<1>3. OwbInv => BytesCarried
  BY DEF OwbInv, BytesCarried, OWB!BytesCarried
<1>4. QED
  BY <1>1, <1>2, <1>3, SensorSpecs, PTL DEF OWB!Spec

(***************************************************************************)
(* The search for ROM codes                                                *)
(***************************************************************************)

\* A code has at least one bit.
LEMMA OwsBits == /\ Width \in Nat \ {0} /\ OWS!Bits = 0 .. Width - 1
                 /\ OWS!Zero \in OWS!Codes
BY ComponentsAssumption DEF OWS!OneWireAssumption, OWS!Bits, OWS!Zero, OWS!Codes

(* A code is known by the set of its ones. *)
LEMMA OwsCodesAreFinite == IsFiniteSet(OWS!Codes)
<1> DEFINE Ones == [c \in OWS!Codes |-> {i \in OWS!Bits : c[i] = 1}]
<1>1. Ones \in [OWS!Codes -> SUBSET OWS!Bits]
  OBVIOUS
<1>2. ASSUME NEW c \in OWS!Codes, NEW d \in OWS!Codes, Ones[c] = Ones[d]
      PROVE  c = d
  <2>1. \A i \in OWS!Bits : c[i] = 1 <=> d[i] = 1
    BY <1>2
  <2>2. \A i \in OWS!Bits : c[i] \in {0, 1} /\ d[i] \in {0, 1}
    BY DEF OWS!Codes
  <2>3. \A i \in OWS!Bits : c[i] = d[i]
    BY <2>1, <2>2
  <2>4. QED
    BY <2>3 DEF OWS!Codes
<1>3. Ones \in Injection(OWS!Codes, SUBSET OWS!Bits)
  BY <1>1, <1>2 DEF Injection, IsInjective
<1>4. IsFiniteSet(SUBSET OWS!Bits)
  <2>1. 0 \in Int /\ Width - 1 \in Int
    BY OwsBits
  <2>2. IsFiniteSet(0 .. Width - 1)
    BY <2>1, FS_Interval
  <2>3. QED
    BY <2>2, OwsBits, FS_SUBSET
<1>5. QED
  BY <1>3, <1>4, FS_Injection

\* Two members of a set of at most two are all of it.
LEMMA OwsTwo ==
  ASSUME NEW S, IsFiniteSet(S), Cardinality(S) <= 2, NEW d \in S, NEW e \in S, d # e
  PROVE  S = {d, e}
<1>1. /\ IsFiniteSet(S \ {d}) /\ Cardinality(S \ {d}) = Cardinality(S) - 1
  BY FS_RemoveElement
<1>2. /\ IsFiniteSet((S \ {d}) \ {e})
      /\ Cardinality((S \ {d}) \ {e}) = Cardinality(S) - 2
  <2>1. e \in S \ {d}
    OBVIOUS
  <2>2. /\ IsFiniteSet((S \ {d}) \ {e})
        /\ Cardinality((S \ {d}) \ {e}) = Cardinality(S \ {d}) - 1
    BY <1>1, <2>1, FS_RemoveElement
  <2>3. Cardinality(S) \in Nat
    BY FS_CardinalityType
  <2>4. QED
    BY <1>1, <2>2, <2>3
<1>3. Cardinality((S \ {d}) \ {e}) = 0
  <2>1. Cardinality((S \ {d}) \ {e}) \in Nat /\ Cardinality(S) \in Nat
    BY <1>2, FS_CardinalityType
  <2>2. QED
    BY <1>2, <2>1
<1>4. (S \ {d}) \ {e} = {}
  BY <1>2, <1>3, FS_EmptySet
<1>5. QED
  BY <1>4

(* The two devices differ in bit p for the first time. *)
OwsSplit(d, e, p) ==
  /\ devices = {d, e} /\ d[p] = 0 /\ e[p] = 1
  /\ \A i \in OWS!Bits : i < p => d[i] = e[i]

OwsMatches(d) == \A i \in OWS!Bits : i < position => d[i] = rom_code[i]

(* The first scan, before it comes to a bit in which devices differ, and   *)
(* after it has taken the zero there.                                      *)
OwsFirst ==
  /\ found = <<>> /\ left = devices /\ devices # {}
  /\ curr_discrepancy_ = -1 /\ prev_discrepancy_ = -1 /\ conflict_count_ = 0
  /\ \A d \in devices : OwsMatches(d)

OwsZeroTaken(d, p) ==
  /\ found = <<>> /\ left = {d} /\ position > p
  /\ curr_discrepancy_ = p /\ prev_discrepancy_ = p /\ conflict_count_ = 1
  /\ OwsMatches(d)

(* The second scan, before and after it has come to that bit again and     *)
(* taken the one there.                                                    *)
OwsAgain(d, p) ==
  /\ found = <<d>> /\ left = devices /\ position <= p
  /\ curr_discrepancy_ = p /\ prev_discrepancy_ = p /\ conflict_count_ = 1
  /\ OwsMatches(d)

OwsOneTaken(d, e, p) ==
  /\ found = <<d>> /\ left = {e} /\ position > p
  /\ conflict_count_ = 0
  /\ OwsMatches(e)

(* Between two scans. *)
OwsSingle(d) == finished_ /\ devices = {d} /\ found = <<d>>
OwsBetween(d, p) ==
  /\ ~finished_ /\ found = <<d>>
  /\ curr_discrepancy_ = p /\ prev_discrepancy_ = p /\ conflict_count_ = 1
OwsBoth(d, e) == finished_ /\ found = <<d, e>>

OwsReading ==
  /\ rom_code \in OWS!Codes /\ position \in 0 .. Width /\ ~finished_
  /\ \/ OwsFirst
     \/ \E d, e \in OWS!Codes, p \in OWS!Bits :
          /\ OwsSplit(d, e, p)
          /\ OwsZeroTaken(d, p) \/ OwsAgain(d, p) \/ OwsOneTaken(d, e, p)

OwsAnswered ==
  \/ \E d \in OWS!Codes : OwsSingle(d)
  \/ \E d, e \in OWS!Codes, p \in OWS!Bits :
       OwsSplit(d, e, p) /\ (OwsBetween(d, p) \/ OwsBoth(d, e))

OwsEnded ==
  \/ \E d \in OWS!Codes : devices = {d} /\ found = <<d>>
  \/ \E d, e \in OWS!Codes : devices = {d, e} /\ d # e /\ found = <<d, e>>

OwsStage ==
  /\ scan \in {"none", "bits", "OK", "NoData", "Error"}
  /\ scan = "bits" => OwsReading
  /\ scan = "OK" => OwsAnswered
  /\ scan = "NoData" => OwsEnded
  /\ scan = "Error" => found = <<>> \/ \E d \in devices : found = <<d>>

OwsInv ==
  /\ devices \subseteq OWS!Codes
  /\ scan = "none" =>
       /\ found = <<>> /\ ~finished_ /\ position = 0 /\ rom_code \in OWS!Codes
       /\ curr_discrepancy_ = -1 /\ prev_discrepancy_ = -1 /\ conflict_count_ = 0
  /\ Cardinality(devices) <= 2 => OwsStage

(* What a written bit does to the code and to the devices that are left.   *)
LEMMA OwsWrite ==
  ASSUME position \in OWS!Bits, rom_code \in OWS!Codes, NEW bit \in {0, 1},
         OWS!Write(bit)
  PROVE  /\ rom_code' \in OWS!Codes
         /\ position' = position + 1 /\ position' \in 0 .. Width
         /\ left' = {d \in left : d[position] = bit}
         /\ \A d : OwsMatches(d) /\ d[position] = bit => OwsMatches(d)'
         /\ UNCHANGED <<devices, finished_, found, scan>>
<1>1. /\ rom_code' = [rom_code EXCEPT ![position] = bit]
      /\ left' = {d \in left : d[position] = bit}
      /\ position' = position + 1
      /\ UNCHANGED <<devices, finished_, found, scan>>
  BY DEF OWS!Write
<1>2. position' \in 0 .. Width
  BY <1>1, OwsBits
<1>3. /\ rom_code' \in OWS!Codes
      /\ \A i \in OWS!Bits : rom_code'[i] = IF i = position THEN bit ELSE rom_code[i]
  BY <1>1 DEF OWS!Codes
<1>4. ASSUME NEW d, OwsMatches(d), d[position] = bit, NEW i \in OWS!Bits, i < position'
      PROVE  d[i] = rom_code'[i]
  <2>1. i < position \/ i = position
    BY <1>1, <1>4, OwsBits
  <2>2. QED
    BY <1>3, <1>4, <2>1 DEF OwsMatches
<1>5. QED
  BY <1>1, <1>2, <1>3, <1>4 DEF OwsMatches

(* A code whose bits have all been written is the device's.                *)
LEMMA OwsWhole ==
  ASSUME rom_code \in OWS!Codes, position = Width, NEW d \in OWS!Codes, OwsMatches(d)
  PROVE  rom_code = d
<1>1. \A i \in OWS!Bits : i < position
  BY OwsBits
<1>2. \A i \in OWS!Bits : rom_code[i] = d[i]
  BY <1>1 DEF OwsMatches
<1>3. QED
  BY <1>2 DEF OWS!Codes

(* The bit that all devices agree on. *)
LEMMA OwsAgreed ==
  ASSUME OwsInv, Cardinality(devices) <= 2, NEW bit \in {0, 1}, OWS!Agreed(bit)
  PROVE  OwsReading' /\ scan' = "bits" /\ devices' = devices
<1>1. /\ OwsReading /\ scan = "bits" /\ position < Width
      /\ OWS!Write(bit)
      /\ \A d \in left : d[position] # 1 - bit
      /\ UNCHANGED <<prev_discrepancy_, curr_discrepancy_, conflict_count_>>
  BY DEF OwsInv, OwsStage, OWS!Agreed, OWS!Reading, OWS!Answers
<1>2. position \in OWS!Bits /\ rom_code \in OWS!Codes /\ ~finished_
  BY <1>1, OwsBits DEF OwsReading
<1>3. /\ rom_code' \in OWS!Codes
      /\ position' = position + 1 /\ position' \in 0 .. Width
      /\ left' = {d \in left : d[position] = bit}
      /\ \A d : OwsMatches(d) /\ d[position] = bit => OwsMatches(d)'
      /\ UNCHANGED <<devices, finished_, found, scan>>
  BY <1>1, <1>2, OwsWrite
<1>4. ASSUME NEW d \in left, d \in OWS!Codes
      PROVE  d[position] = bit
  <2>1. d[position] \in {0, 1} /\ d[position] # 1 - bit
    BY <1>1, <1>2, <1>4 DEF OWS!Codes
  <2>2. QED
    BY <2>1
<1>5. CASE OwsFirst
  <2>1. \A d \in devices : d \in left /\ d \in OWS!Codes
    BY <1>5 DEF OwsFirst, OwsInv
  <2>2. left' = devices
    BY <1>3, <1>4, <1>5, <2>1 DEF OwsFirst
  <2>3. \A d \in devices : OwsMatches(d)'
    BY <1>3, <1>4, <1>5, <2>1 DEF OwsFirst
  <2>4. OwsFirst'
    BY <1>1, <1>3, <1>5, <2>2, <2>3 DEF OwsFirst
  <2>5. QED
    BY <1>1, <1>2, <1>3, <2>4 DEF OwsReading
<1>6. ASSUME NEW d \in OWS!Codes, NEW e \in OWS!Codes, NEW p \in OWS!Bits,
             OwsSplit(d, e, p),
             OwsZeroTaken(d, p) \/ OwsAgain(d, p) \/ OwsOneTaken(d, e, p)
      PROVE  OwsReading'
  <2>1. OwsSplit(d, e, p)'
    BY <1>3, <1>6 DEF OwsSplit
  <2>2. p \in Nat /\ position \in Nat /\ position' = position + 1
    BY <1>2, <1>3, OwsBits
  <2>3. CASE OwsZeroTaken(d, p)
    <3>1. d[position] = bit
      BY <1>4, <2>3 DEF OwsZeroTaken
    <3>2. left' = {d} /\ OwsMatches(d)'
      BY <1>3, <2>3, <3>1 DEF OwsZeroTaken
    <3>3. position' > p
      BY <2>2, <2>3 DEF OwsZeroTaken
    <3>4. OwsZeroTaken(d, p)'
      BY <1>1, <1>3, <2>3, <3>2, <3>3 DEF OwsZeroTaken
    <3>5. QED
      BY <1>2, <1>3, <2>1, <3>4 DEF OwsReading
  <2>4. CASE OwsAgain(d, p)
    <3>1. d[position] = bit /\ e[position] = bit /\ left = {d, e}
      BY <1>4, <1>6, <2>4 DEF OwsAgain, OwsSplit
    <3>2. left' = devices' /\ OwsMatches(d)'
      BY <1>3, <1>6, <2>4, <3>1 DEF OwsAgain, OwsSplit
    <3>3. position # p
      BY <1>6, <3>1 DEF OwsSplit
    <3>4. position' <= p
      BY <2>2, <2>4, <3>3 DEF OwsAgain
    <3>5. OwsAgain(d, p)'
      BY <1>1, <1>3, <2>4, <3>2, <3>4 DEF OwsAgain
    <3>6. QED
      BY <1>2, <1>3, <2>1, <3>5 DEF OwsReading
  <2>5. CASE OwsOneTaken(d, e, p)
    <3>1. e[position] = bit
      BY <1>4, <2>5 DEF OwsOneTaken
    <3>2. left' = {e} /\ OwsMatches(e)'
      BY <1>3, <2>5, <3>1 DEF OwsOneTaken
    <3>3. position' > p
      BY <2>2, <2>5 DEF OwsOneTaken
    <3>4. OwsOneTaken(d, e, p)'
      BY <1>1, <1>3, <2>5, <3>2, <3>3 DEF OwsOneTaken
    <3>5. QED
      BY <1>2, <1>3, <2>1, <3>4 DEF OwsReading
  <2>6. QED
    BY <1>6, <2>3, <2>4, <2>5
<1>7. QED
  BY <1>1, <1>3, <1>5, <1>6 DEF OwsReading

(* Devices differ before the first discrepancy, or at it again.            *)
LEMMA OwsDiscrepancy ==
  ASSUME OwsInv, Cardinality(devices) <= 2, OWS!Discrepancy
  PROVE  /\ position \in OWS!Bits /\ rom_code \in OWS!Codes /\ ~finished_
         /\ scan = "bits"
         /\ \E d, e \in OWS!Codes :
              /\ OwsSplit(d, e, position)
              /\ OwsFirst \/ OwsAgain(d, position)
<1>1. /\ OwsReading /\ scan = "bits" /\ position < Width
      /\ OWS!Answers(0) /\ OWS!Answers(1)
  BY DEF OwsInv, OwsStage, OWS!Discrepancy, OWS!Reading
<1>2. position \in OWS!Bits /\ rom_code \in OWS!Codes /\ ~finished_
  BY <1>1, OwsBits DEF OwsReading
<1>3. PICK d \in left : d[position] = 0
  BY <1>1 DEF OWS!Answers
<1>4. PICK e \in left : e[position] = 1
  BY <1>1 DEF OWS!Answers
<1>5. d # e
  BY <1>3, <1>4
<1>6. CASE OwsFirst
  <2>1. d \in devices /\ e \in devices /\ OwsMatches(d) /\ OwsMatches(e)
    BY <1>3, <1>4, <1>6 DEF OwsFirst
  <2>2. IsFiniteSet(devices) /\ devices \subseteq OWS!Codes
    BY OwsCodesAreFinite, FS_Subset DEF OwsInv
  <2>3. devices = {d, e}
    BY <1>5, <2>1, <2>2, OwsTwo
  <2>4. \A i \in OWS!Bits : i < position => d[i] = e[i]
    BY <2>1 DEF OwsMatches
  <2>5. OwsSplit(d, e, position)
    BY <1>3, <1>4, <2>3, <2>4 DEF OwsSplit
  <2>6. QED
    BY <1>1, <1>2, <1>6, <2>1, <2>2, <2>5
<1>7. ASSUME NEW c \in OWS!Codes, NEW f \in OWS!Codes, NEW p \in OWS!Bits,
             OwsSplit(c, f, p),
             OwsZeroTaken(c, p) \/ OwsAgain(c, p) \/ OwsOneTaken(c, f, p)
      PROVE  OwsSplit(c, f, position) /\ OwsAgain(c, position)
  <2>1. OwsAgain(c, p)
    BY <1>3, <1>4, <1>5, <1>7 DEF OwsZeroTaken, OwsOneTaken
  <2>2. d \in {c, f} /\ e \in {c, f}
    BY <1>3, <1>4, <1>7, <2>1 DEF OwsAgain, OwsSplit
  <2>3. c[position] # f[position]
    BY <1>3, <1>4, <1>5, <2>2
  <2>4. ~(position < p)
    BY <1>2, <1>7, <2>3 DEF OwsSplit
  <2>5. position = p
    BY <1>2, <2>1, <2>4, OwsBits DEF OwsAgain
  <2>6. QED
    BY <1>7, <2>1, <2>5
<1>8. QED
  BY <1>1, <1>2, <1>6, <1>7 DEF OwsReading

\* The search takes a zero, or a one, and the code so far is still a device's.
LEMMA OwsTakeZero ==
  ASSUME OwsInv, Cardinality(devices) <= 2, OWS!TakeZero
  PROVE  OwsReading' /\ scan' = "bits" /\ devices' = devices
<1>1. /\ OWS!Discrepancy /\ position > curr_discrepancy_ /\ OWS!Write(0)
  BY DEF OWS!TakeZero
<1>2. /\ position \in OWS!Bits /\ rom_code \in OWS!Codes /\ ~finished_
      /\ scan = "bits"
  BY <1>1, OwsDiscrepancy
<1>3. PICK d \in OWS!Codes, e \in OWS!Codes :
        OwsSplit(d, e, position) /\ (OwsFirst \/ OwsAgain(d, position))
  BY <1>1, OwsDiscrepancy
<1>4. OwsFirst
  <2>1. position \in Nat
    BY <1>2, OwsBits
  <2>2. ~OwsAgain(d, position)
    BY <1>1, <2>1 DEF OwsAgain
  <2>3. QED
    BY <1>3, <2>2
<1>5. /\ rom_code' \in OWS!Codes
      /\ position' = position + 1 /\ position' \in 0 .. Width
      /\ left' = {x \in left : x[position] = 0}
      /\ \A x : OwsMatches(x) /\ x[position] = 0 => OwsMatches(x)'
      /\ UNCHANGED <<devices, finished_, found, scan>>
  BY <1>1, <1>2, OwsWrite
<1>6. /\ prev_discrepancy_' = position /\ curr_discrepancy_' = position
      /\ conflict_count_' = 1
  BY <1>4 DEF OWS!TakeZero, OwsFirst
<1>7. left' = {d} /\ OwsMatches(d)'
  BY <1>3, <1>4, <1>5 DEF OwsFirst, OwsSplit
<1>8. position' > position
  BY <1>2, <1>5, OwsBits
<1>9. /\ found' = <<>> /\ OwsMatches(d)' /\ left' = {d}
  BY <1>4, <1>5, <1>7 DEF OwsFirst
<1> DEFINE p == position
<1>10. \E c, f \in OWS!Codes, q \in OWS!Bits :
         /\ devices' = {c, f} /\ c[q] = 0 /\ f[q] = 1
         /\ \A i \in OWS!Bits : i < q => c[i] = f[i]
         /\ found' = <<>> /\ left' = {c} /\ position' > q
         /\ curr_discrepancy_' = q /\ prev_discrepancy_' = q /\ conflict_count_' = 1
         /\ OwsMatches(c)'
  BY <1>2, <1>3, <1>5, <1>6, <1>8, <1>9 DEF OwsSplit
<1>11. OwsReading'
  BY <1>2, <1>5, <1>10 DEF OwsReading, OwsSplit, OwsZeroTaken
<1>12. QED
  BY <1>2, <1>5, <1>11

LEMMA OwsTakeOne ==
  ASSUME OwsInv, Cardinality(devices) <= 2, OWS!TakeOne
  PROVE  OwsReading' /\ scan' = "bits" /\ devices' = devices
<1>1. /\ OWS!Discrepancy /\ curr_discrepancy_ = position /\ OWS!Write(1)
  BY DEF OWS!TakeOne
<1>2. /\ position \in OWS!Bits /\ rom_code \in OWS!Codes /\ ~finished_
      /\ scan = "bits"
  BY <1>1, OwsDiscrepancy
<1>3. PICK d \in OWS!Codes, e \in OWS!Codes :
        OwsSplit(d, e, position) /\ (OwsFirst \/ OwsAgain(d, position))
  BY <1>1, OwsDiscrepancy
<1>4. OwsAgain(d, position)
  <2>1. position \in Nat
    BY <1>2, OwsBits
  <2>2. ~OwsFirst
    BY <1>1, <2>1 DEF OwsFirst
  <2>3. QED
    BY <1>3, <2>2
<1>5. /\ rom_code' \in OWS!Codes
      /\ position' = position + 1 /\ position' \in 0 .. Width
      /\ left' = {x \in left : x[position] = 1}
      /\ \A x : OwsMatches(x) /\ x[position] = 1 => OwsMatches(x)'
      /\ UNCHANGED <<devices, finished_, found, scan>>
  BY <1>1, <1>2, OwsWrite
<1>6. conflict_count_' = 0
  BY <1>4 DEF OWS!TakeOne, OwsAgain
<1>7. OwsMatches(e)
  BY <1>3, <1>4 DEF OwsAgain, OwsSplit, OwsMatches
<1>8. left' = {e} /\ OwsMatches(e)'
  BY <1>3, <1>4, <1>5, <1>7 DEF OwsAgain, OwsSplit
<1>9. position' > position
  BY <1>2, <1>5, OwsBits
<1>10. found' = <<d>>
  BY <1>4, <1>5 DEF OwsAgain
<1>11. \E c, f \in OWS!Codes, q \in OWS!Bits :
         /\ devices' = {c, f} /\ c[q] = 0 /\ f[q] = 1
         /\ \A i \in OWS!Bits : i < q => c[i] = f[i]
         /\ found' = <<c>> /\ left' = {f} /\ position' > q /\ conflict_count_' = 0
         /\ OwsMatches(f)'
  BY <1>2, <1>3, <1>5, <1>6, <1>8, <1>9, <1>10 DEF OwsSplit
<1>12. OwsReading'
  BY <1>2, <1>5, <1>11 DEF OwsReading, OwsSplit, OwsOneTaken
<1>13. QED
  BY <1>2, <1>5, <1>12

(* With two devices neither is a path followed, nor does an assertion fail. *)
LEMMA OwsNoPath ==
  ASSUME OwsInv, Cardinality(devices) <= 2
  PROVE  ~OWS!FollowPath /\ ~OWS!AssertionFails
<1>1. SUFFICES ASSUME OWS!Discrepancy
               PROVE  ~OWS!FollowPath /\ ~OWS!AssertionFails
  BY DEF OWS!FollowPath, OWS!AssertionFails
<1>2. position \in Nat
  BY <1>1, OwsDiscrepancy, OwsBits
<1>3. PICK d \in OWS!Codes, e \in OWS!Codes :
        OwsSplit(d, e, position) /\ (OwsFirst \/ OwsAgain(d, position))
  BY <1>1, OwsDiscrepancy
<1>4. \/ curr_discrepancy_ = -1
      \/ curr_discrepancy_ = position /\ conflict_count_ = 1
  BY <1>3 DEF OwsFirst, OwsAgain
<1>5. ~(position < curr_discrepancy_)
  BY <1>2, <1>4
<1>6. ~(curr_discrepancy_ = position /\ conflict_count_ = 0)
  BY <1>2, <1>4
<1>7. QED
  BY <1>5, <1>6 DEF OWS!FollowPath, OWS!AssertionFails

\* A second code is found.
LEMMA OwsAppend ==
  ASSUME NEW S, NEW a \in S, NEW b \in S
  PROVE  Append(<<a>>, b) = <<a, b>>
<1> DEFINE s == Append(<<a>>, b)
<1>1. <<a>> \in Seq(S) /\ Len(<<a>>) = 1 /\ <<a>>[1] = a
  OBVIOUS
<1>2. s \in Seq(S) /\ Len(s) = 2 /\ s[1] = a /\ s[2] = b
  BY <1>1
<1>3. <<a, b>> \in Seq(S) /\ Len(<<a, b>>) = 2
  OBVIOUS
<1> HIDE DEF s
<1>4. \A i \in 1 .. 2 : s[i] = <<a, b>>[i]
  BY <1>2
<1>5. s = <<a, b>>
  BY <1>2, <1>3, <1>4
<1>6. QED
  BY <1>5 DEF s

\* A scan that is done has found a device, and a new one.
LEMMA OwsScanOK ==
  ASSUME OwsInv, Cardinality(devices) <= 2, OWS!ScanOK
  PROVE  OwsAnswered' /\ scan' = "OK" /\ devices' = devices
<1>1. /\ OwsReading /\ position = Width /\ scan' = "OK"
      /\ finished_' = (conflict_count_ = 0) /\ found' = Append(found, rom_code)
      /\ UNCHANGED <<devices, prev_discrepancy_, curr_discrepancy_, conflict_count_>>
  BY DEF OwsInv, OwsStage, OWS!ScanOK
<1>2. rom_code \in OWS!Codes
  BY <1>1 DEF OwsReading
<1>3. CASE OwsFirst
  <2>1. \A d \in devices : d = rom_code
    BY <1>1, <1>2, <1>3, OwsWhole DEF OwsFirst, OwsInv
  <2>2. devices = {rom_code}
    BY <1>3, <2>1 DEF OwsFirst
  <2>3. conflict_count_ = 0 /\ found = <<>>
    BY <1>3 DEF OwsFirst
  <2>4. finished_'
    BY <1>1, <2>3, Zenon
  <2>5. found' = <<rom_code>>
    BY <1>1, <2>3
  <2>6. \E d \in OWS!Codes : finished_' /\ devices' = {d} /\ found' = <<d>>
    BY <1>1, <1>2, <2>2, <2>4, <2>5
  <2>7. QED
    BY <1>1, <2>6 DEF OwsAnswered, OwsSingle
<1>4. ASSUME NEW d \in OWS!Codes, NEW e \in OWS!Codes, NEW p \in OWS!Bits,
             OwsSplit(d, e, p),
             OwsZeroTaken(d, p) \/ OwsAgain(d, p) \/ OwsOneTaken(d, e, p)
      PROVE  OwsAnswered'
  <2>1. OwsSplit(d, e, p)'
    BY <1>1, <1>4 DEF OwsSplit
  <2>2. CASE OwsZeroTaken(d, p)
    <3>1. rom_code = d
      BY <1>1, <1>2, <2>2, OwsWhole DEF OwsZeroTaken
    <3>2. conflict_count_ # 0 /\ found = <<>>
      BY <2>2 DEF OwsZeroTaken
    <3>3. ~finished_'
      BY <1>1, <3>2, Zenon
    <3>4. found' = <<d>>
      BY <1>1, <3>1, <3>2
    <3>5. OwsBetween(d, p)'
      BY <1>1, <2>2, <3>3, <3>4 DEF OwsZeroTaken, OwsBetween
    <3>6. QED
      BY <2>1, <3>5 DEF OwsAnswered
  <2>3. ~OwsAgain(d, p)
    BY <1>1, <1>4, OwsBits DEF OwsAgain
  <2>4. CASE OwsOneTaken(d, e, p)
    <3>1. rom_code = e
      BY <1>1, <1>2, <2>4, OwsWhole DEF OwsOneTaken
    <3>2. conflict_count_ = 0 /\ found = <<d>>
      BY <2>4 DEF OwsOneTaken
    <3>3. finished_'
      BY <1>1, <3>2, Zenon
    <3>4. found' = <<d, e>>
      <4>1. found' = Append(<<d>>, e)
        BY <1>1, <3>1, <3>2
      <4>2. Append(<<d>>, e) = <<d, e>>
        BY <1>4, OwsAppend
      <4>3. QED
        BY <4>1, <4>2
    <3>5. OwsBoth(d, e)'
      BY <3>3, <3>4 DEF OwsBoth
    <3>6. QED
      BY <2>1, <3>5 DEF OwsAnswered
  <2>5. QED
    BY <1>4, <2>2, <2>3, <2>4
<1>5. QED
  BY <1>1, <1>3, <1>4 DEF OwsReading

\* The next scan begins where the last discrepancy was, or answers NoData.
LEMMA OwsScan ==
  ASSUME OwsInv, Cardinality(devices) <= 2, OWS!Scan
  PROVE  OwsStage' /\ scan' # "none" /\ devices' = devices
<1>1. OwsAnswered /\ scan = "OK" /\ UNCHANGED <<devices, finished_, found>>
      /\ UNCHANGED <<prev_discrepancy_, curr_discrepancy_, conflict_count_>>
  BY DEF OwsInv, OwsStage, OWS!Scan, OWS!scanner
<1>2. CASE finished_
  <2>1. scan' = "NoData"
    BY <1>2 DEF OWS!Scan
  <2>2. CASE \E d \in OWS!Codes : OwsSingle(d)
    BY <1>1, <2>1, <2>2 DEF OwsSingle, OwsStage, OwsEnded
  <2>3. ASSUME NEW d \in OWS!Codes, NEW e \in OWS!Codes, NEW p \in OWS!Bits,
               OwsSplit(d, e, p), OwsBetween(d, p) \/ OwsBoth(d, e)
        PROVE  OwsEnded'
    <3>1. OwsBoth(d, e) /\ d # e
      BY <1>2, <2>3 DEF OwsBetween, OwsSplit
    <3>2. devices' = {d, e} /\ found' = <<d, e>>
      BY <1>1, <2>3, <3>1 DEF OwsBoth, OwsSplit
    <3>3. QED
      BY <3>1, <3>2 DEF OwsEnded
  <2>4. QED
    BY <1>1, <2>1, <2>2, <2>3 DEF OwsAnswered, OwsStage
<1>3. CASE ~finished_
  <2>1. scan' = "bits" /\ left' = devices /\ position' = 0 /\ rom_code' = OWS!Zero
    BY <1>3 DEF OWS!Scan
  <2>2. ASSUME NEW d \in OWS!Codes, NEW e \in OWS!Codes, NEW p \in OWS!Bits,
               OwsSplit(d, e, p), OwsBetween(d, p) \/ OwsBoth(d, e)
        PROVE  OwsReading'
    <3>1. OwsBetween(d, p)
      BY <1>3, <2>2 DEF OwsBoth
    <3>2. OwsSplit(d, e, p)'
      BY <1>1, <2>2 DEF OwsSplit
    <3>3. position' <= p /\ OwsMatches(d)'
      BY <2>1, OwsBits DEF OwsMatches
    <3>4. OwsAgain(d, p)'
      BY <1>1, <2>1, <3>1, <3>3 DEF OwsAgain, OwsBetween
    <3>5. position' \in 0 .. Width /\ rom_code' \in OWS!Codes /\ ~finished_'
      BY <1>1, <1>3, <2>1, OwsBits
    <3>6. QED
      BY <3>2, <3>4, <3>5 DEF OwsReading
  <2>3. OwsReading'
    BY <1>1, <1>3, <2>2 DEF OwsAnswered, OwsSingle
  <2>4. QED
    BY <1>1, <2>1, <2>3 DEF OwsStage
<1>4. QED
  BY <1>2, <1>3

\* A new search on any bus begins with nothing found.
LEMMA OwsConnect ==
  ASSUME OwsInv, NEW D \in SUBSET OWS!Codes, OWS!Connect(D)
  PROVE  OwsInv'
<1>1. /\ scan = "none" /\ devices' = D /\ left' = D
      /\ scan' = IF D = {} THEN "Error" ELSE "bits"
      /\ UNCHANGED <<position, rom_code, finished_, prev_discrepancy_,
                     curr_discrepancy_, conflict_count_, found>>
  BY DEF OWS!Connect, OWS!scanner
<1>2. /\ found = <<>> /\ ~finished_ /\ position = 0 /\ rom_code \in OWS!Codes
      /\ curr_discrepancy_ = -1 /\ prev_discrepancy_ = -1 /\ conflict_count_ = 0
  BY <1>1 DEF OwsInv
<1>3. CASE D = {}
  BY <1>1, <1>2, <1>3 DEF OwsInv, OwsStage
<1>4. CASE D # {}
  <2>1. \A d : OwsMatches(d)'
    BY <1>1, <1>2, OwsBits DEF OwsMatches
  <2>2. OwsFirst'
    BY <1>1, <1>2, <1>4, <2>1 DEF OwsFirst
  <2>3. position' \in 0 .. Width
    BY <1>1, <1>2, OwsBits
  <2>4. OwsReading'
    BY <1>1, <1>2, <2>2, <2>3 DEF OwsReading
  <2>5. QED
    BY <1>1, <1>4, <2>4 DEF OwsInv, OwsStage
<1>5. QED
  BY <1>3, <1>4

\* Every step of the search keeps its invariant.
LEMMA OwsStep ==
  ASSUME OwsInv, [OWS!Next]_(OWS!vars)
  PROVE  OwsInv'
<1>1. CASE \E D \in UNION {OWS!kSubset(k, OWS!Codes) : k \in 0 .. MaxDevices} :
             OWS!Connect(D)
  <2>1. PICK D \in UNION {OWS!kSubset(k, OWS!Codes) : k \in 0 .. MaxDevices} :
          OWS!Connect(D)
    BY <1>1
  <2>2. D \in SUBSET OWS!Codes
    BY DEF OWS!kSubset
  <2>3. QED
    BY <2>1, <2>2, OwsConnect
<1>2. CASE OWS!Step \/ OWS!AssertionFails
  <2>1. devices' = devices /\ scan # "none" /\ scan' # "none"
    BY <1>2 DEF OWS!Step, OWS!AssertionFails, OWS!Scan, OWS!ScanFails, OWS!ScanOK,
       OWS!Agreed, OWS!TakeOne, OWS!TakeZero, OWS!FollowPath, OWS!Write,
       OWS!Discrepancy, OWS!Reading
  <2>2. SUFFICES ASSUME Cardinality(devices) <= 2
                 PROVE  OwsStage'
    BY <2>1 DEF OwsInv
  <2>3. CASE OWS!Scan
    BY <2>2, <2>3, OwsScan
  <2>4. CASE OWS!ScanFails
    <3>1. scan = "bits" /\ scan' = "Error" /\ UNCHANGED <<devices, found>> /\ OwsReading
      BY <2>2, <2>4 DEF OWS!ScanFails, OwsInv, OwsStage
    <3>2. found = <<>> \/ \E d \in devices : found = <<d>>
      BY <3>1 DEF OwsReading, OwsFirst, OwsSplit, OwsZeroTaken, OwsAgain, OwsOneTaken
    <3>3. QED
      BY <3>1, <3>2 DEF OwsStage
  <2>5. CASE OWS!ScanOK
    BY <2>2, <2>5, OwsScanOK DEF OwsStage
  <2>6. CASE \E bit \in {0, 1} : OWS!Agreed(bit)
    BY <2>2, <2>6, OwsAgreed DEF OwsStage
  <2>7. CASE OWS!TakeOne
    BY <2>2, <2>7, OwsTakeOne DEF OwsStage
  <2>8. CASE OWS!TakeZero
    BY <2>2, <2>8, OwsTakeZero DEF OwsStage
  <2>9. QED
    BY <1>2, <2>2, <2>3, <2>4, <2>5, <2>6, <2>7, <2>8, OwsNoPath DEF OWS!Step
<1>3. CASE UNCHANGED OWS!vars
  BY <1>3 DEF OWS!vars, OWS!scanner, OwsInv, OwsStage, OwsReading, OwsAnswered,
     OwsEnded, OwsFirst, OwsSplit, OwsZeroTaken, OwsAgain, OwsOneTaken, OwsSingle,
     OwsBetween, OwsBoth, OwsMatches
<1>4. QED
  BY <1>1, <1>2, <1>3 DEF OWS!Next

(* On a bus with at most two devices, the search of rom_code_scanner.cpp   *)
(* returns each of them once and nothing else, and its assertions hold,    *)
(* whatever the width of a code and on whichever bits the two differ.      *)
THEOREM DevicesFound == Spec => []EachDeviceOnce
<1>1. OWS!Init => OwsInv
  <2>1. OWS!Zero \in OWS!Codes
    BY OwsBits
  <2>2. QED
    BY <2>1 DEF OWS!Init, OwsInv, OwsStage
<1>2. OwsInv /\ [OWS!Next]_(OWS!vars) => OwsInv'
  BY OwsStep
<1>3. ASSUME OwsInv, Cardinality(devices) <= 2, scan = "none"
      PROVE  found = <<>>
  BY <1>3 DEF OwsInv
<1>4. ASSUME OwsInv, Cardinality(devices) <= 2
      PROVE  /\ scan # "assert"
             /\ \/ found = <<>>
                \/ \E d \in devices : found = <<d>>
                \/ \E d, e \in devices : d # e /\ found = <<d, e>>
             /\ scan = "NoData" => OwsEnded
  <2>1. OwsStage
    BY <1>4 DEF OwsInv
  <2>2. CASE scan = "none"
    BY <1>3, <1>4, <2>2
  <2>3. CASE scan = "bits"
    BY <2>1, <2>3 DEF OwsStage, OwsReading, OwsFirst, OwsSplit, OwsZeroTaken,
       OwsAgain, OwsOneTaken
  <2>4. CASE scan = "OK"
    <3>1. OwsAnswered
      BY <2>1, <2>4 DEF OwsStage
    <3>2. \A d, e, p : OwsSplit(d, e, p) => d # e /\ d \in devices /\ e \in devices
      BY DEF OwsSplit
    <3>3. QED
      BY <2>4, <3>1, <3>2 DEF OwsAnswered, OwsSingle, OwsBetween, OwsBoth
  <2>5. CASE scan = "NoData"
    BY <2>1, <2>5 DEF OwsStage, OwsEnded
  <2>6. CASE scan = "Error"
    BY <2>1, <2>6 DEF OwsStage
  <2>7. QED
    BY <2>1, <2>2, <2>3, <2>4, <2>5, <2>6 DEF OwsStage
<1>5. ASSUME OwsEnded
      PROVE  Len(found) = Cardinality(devices)
  <2>1. ASSUME NEW d \in OWS!Codes, devices = {d}, found = <<d>>
        PROVE  Len(found) = Cardinality(devices)
    BY <2>1, FS_Singleton
  <2>2. ASSUME NEW d \in OWS!Codes, NEW e \in OWS!Codes, devices = {d, e}, d # e,
               found = <<d, e>>
        PROVE  Len(found) = Cardinality(devices)
    <3>1. IsFiniteSet({d}) /\ Cardinality({d}) = 1 /\ e \notin {d}
      BY <2>2, FS_Singleton
    <3>2. Cardinality({d} \cup {e}) = 2
      BY <3>1, FS_AddElement
    <3>3. {d} \cup {e} = devices
      BY <2>2
    <3>4. QED
      BY <2>2, <3>2, <3>3
  <2>3. QED
    BY <1>5, <2>1, <2>2 DEF OwsEnded
<1>6. ASSUME OwsInv, Cardinality(devices) <= 2
      PROVE  /\ \A i, j \in DOMAIN found : i # j => found[i] # found[j]
             /\ \A i \in DOMAIN found : found[i] \in devices
  <2>1. CASE found = <<>>
    BY <2>1
  <2>2. ASSUME NEW d \in devices, found = <<d>>
        PROVE  /\ \A i, j \in DOMAIN found : i # j => found[i] # found[j]
               /\ \A i \in DOMAIN found : found[i] \in devices
    BY <2>2
  <2>3. ASSUME NEW d \in devices, NEW e \in devices, d # e, found = <<d, e>>
        PROVE  /\ \A i, j \in DOMAIN found : i # j => found[i] # found[j]
               /\ \A i \in DOMAIN found : found[i] \in devices
    <3>1. DOMAIN found = {1, 2} /\ found[1] = d /\ found[2] = e
      BY <2>3
    <3>2. QED
      BY <2>3, <3>1
  <2>4. QED
    BY <1>4, <1>6, <2>1, <2>2, <2>3
<1>7. ASSUME OwsInv, Cardinality(devices) <= 2
      PROVE  /\ scan # "assert"
             /\ scan = "NoData" => Len(found) = Cardinality(devices)
  BY <1>4, <1>5, <1>7
<1>8. OwsInv => EachDeviceOnce
  <2>1. OWS!Cardinality(devices) = Cardinality(devices)
    BY DEF OWS!Cardinality, Cardinality
  <2>2. QED
    BY <1>6, <1>7, <2>1 DEF EachDeviceOnce, OWS!EachDeviceOnce
<1>9. QED
  BY <1>1, <1>2, <1>8, SensorSpecs, PTL DEF OWS!Spec
==================================================================================
