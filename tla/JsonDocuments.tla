---------------------------- MODULE JsonDocuments ----------------------------
(***************************************************************************)
(* The formatters of ocs_pipeline/jsonfmt and ocs_fmt/json as sequences of *)
(* calls, in the order of the code.  A call either succeeds or ends the    *)
(* formatter with one of the codes in "errors"; what it adds to the        *)
(* document is the key "arg", a path when objects are nested.  Values are  *)
(* left out.                                                               *)
(***************************************************************************)
EXTENDS Sequences, SequencesExt

CONSTANTS
  Flat,       \* flat_formatting of the sensors' formatters
  Counters,   \* ids of the counters, in the order of their registration
  Ds18b20Ids, \* ids of the DS18B20 sensors
  Tasks       \* the tasks that uxTaskGetSystemState() reports

ASSUME FlatAssumption == Flat \in BOOLEAN
ASSUME IdsAssumption == {Counters, Ds18b20Ids, Tasks} \subseteq Seq(STRING)

(* An application names its counters and sensors, whose ids are keys of    *)
(* the storage and of the telemetry, apart from one another and from what  *)
(* else the telemetry has; a task stands for one entry of the report.      *)
TelemetryKeys ==
  {"system_memory_heap", "system_memory_heap_min", "system_memory_heap_internal",
   "system_reset_reason", "timestamp", "sht41", "bme280", "ldr", "soil",
   "sensor_sht41", "sensor_bme280", "sensor_ldr", "sensor_soil"}

ASSUME DistinctIdsAssumption ==
  /\ IsInjective(Counters) /\ IsInjective(Ds18b20Ids) /\ IsInjective(Tasks)
  /\ ToSet(Counters) \cap ToSet(Ds18b20Ids) = {}
  /\ (ToSet(Counters) \cup ToSet(Ds18b20Ids)) \cap TelemetryKeys = {}

Call(do, arg, errors) == [do |-> do, arg |-> arg, errors |-> errors]

Try(what, errors) == Call("try", <<what>>, errors)

(* An item is made and added, or the formatter ends with NoMem: an item    *)
(* that could not be added is freed by its unique_ptr.                     *)
Add(key) == Call("add", key, {"NoMem"})

(* The same for an array: the item has no key. *)
AppendItem(item) == Call("add", item, {"NoMem"})

Fields(prefix, names) == [i \in DOMAIN names |-> Add(prefix \o <<names[i]>>)]

(* Formatters added to a FanoutFormatter write into the same document, one *)
(* after the other, until one fails.                                       *)
FanoutFormatter(formatters) == FlattenSeq(formatters)

(* A FieldFormatter fills an object of its own and adds it under a key.    *)
FieldFormatter(key, formatter) ==
  <<Try("make_field", {"NoMem"})>>
    \o [i \in DOMAIN formatter |->
          [formatter[i] EXCEPT !.arg = <<key>> \o formatter[i].arg]]
    \o <<Add(<<key>>)>>

(* StringFormatter keeps its fields in a map: a field added again replaces *)
(* the first one.                                                          *)
StringFormatter(names) == Fields(<<>>, SetToSeq({names[i] : i \in DOMAIN names}))

SystemFormatter ==
  Fields(<<>>, <<"system_memory_heap", "system_memory_heap_min",
                 "system_memory_heap_internal", "system_reset_reason">>)

TimeFormatter == <<Try("get_time", {"Error"}), Add(<<"timestamp">>)>>

CounterFormatter == Fields(<<>>, Counters)

VersionFormatter == <<"version_esp_idf">>

(* A firmware version that cannot be parsed is replaced by "<none>".       *)
RegistrationFormatter ==
  StringFormatter(VersionFormatter
                    \o <<"fw_version", "fw_name", "fw_description", "device_id">>)

ApNetworkFormatter ==
  Fields(<<>>, <<"network_ap_channel", "network_ap_cur_conn", "network_ap_max_conn">>)

StaNetworkFormatter ==
  Fields(<<>>, <<"network_sta_ssid", "network_sta_rssi",
                 "network_sta_signal_strength", "network_sta_ip">>)

(* The prefix of the keys of a sensor in a flat document. *)
Prefix(sensor) == IF Flat THEN <<sensor>> ELSE <<>>

Sht41SensorFormatter ==
  Fields(Prefix("sensor_sht41"), <<"humidity", "temperature", "heating_count">>)

Bme280SensorFormatter ==
  Fields(Prefix("sensor_bme280"), <<"pressure", "temperature", "humidity">>)

LdrSensorFormatter ==
  Fields(Prefix("sensor_ldr"), <<"raw", "voltage", "lightness">>)

SoilAnalogSensorFormatter ==
  Fields(Prefix("sensor_soil"),
         <<"raw", "voltage", "moisture", "prev_status", "prev_status_dur",
           "curr_status", "curr_status_dur", "write_count", "status_len",
           "status_pos">>)

Ds18b20SensorFormatter(id) == Fields(<<>>, <<id>>)

(* How an application puts the formatter of a sensor into the telemetry. *)
Sensor(key, formatter) ==
  IF Flat THEN formatter ELSE FieldFormatter(key, formatter)

TaskState(task) ==
  <<Try("make_object", {"NoMem"})>>
    \o Fields(<<"tasks", task>>,
              <<"name", "state", "number", "priority", "stack_free",
                "core_id", "runtime_abs", "runtime_rel">>)
    \o <<AppendItem(<<"tasks", task>>)>>

SystemStateFormatter ==
  <<Add(<<"tasks">>)>> \o FlattenSeq([i \in DOMAIN Tasks |-> TaskState(Tasks[i])])

(* TelemetryFormatter has the SystemFormatter, DataPipeline adds the       *)
(* counters, TimePipeline the time and the sensors' pipelines the rest.    *)
TelemetryFormatter ==
  FanoutFormatter(<<SystemFormatter, CounterFormatter, TimeFormatter,
                    Sensor("sht41", Sht41SensorFormatter),
                    Sensor("bme280", Bme280SensorFormatter),
                    Sensor("ldr", LdrSensorFormatter),
                    Sensor("soil", SoilAnalogSensorFormatter)>>
                    \o [i \in DOMAIN Ds18b20Ids |->
                          Ds18b20SensorFormatter(Ds18b20Ids[i])])

(* The registration of a device that has both networks. *)
RegistrationDocument ==
  FanoutFormatter(<<RegistrationFormatter, TimeFormatter, ApNetworkFormatter,
                    StaNetworkFormatter>>)

(* What the calls add, in their order. *)
Key(call) == IF call.do = "add" THEN <<call.arg>> ELSE <<>>

Keys(calls) == FlattenSeq([i \in DOMAIN calls |-> Key(calls[i])])
=============================================================================
