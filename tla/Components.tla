------------------------------ MODULE Components ------------------------------
(***************************************************************************)
(* The smaller parts of the firmware, one of which (which) is at work in a *)
(* behaviour: they share no state with each other, so nothing is gained by *)
(* interleaving them, and one model stands for all of them.  The modules   *)
(* hold the definitions; a variable or constant of the same name in two of *)
(* them is given a name of its own here.  The part "algorithms" is that of *)
(* the pure functions, which change no state: MCComponents has its inputs. *)
(***************************************************************************)
EXTENDS Integers, Sequences

CONSTANTS
  MaxConnection, ReadsNetwork, MaxEvents,                     \* ApNetwork
  max_retry_count, ConnectFails, MaxStarts, MaxLosses,        \* StaNetwork
  TaskIds, MaxTaskBits,                                       \* AsyncTaskScheduler
  Intervals, MaxTasks, MaxRunTime, RoundDelay, MaxTime,       \* PeriodicTaskScheduler
  MaxStrays,                                                  \* Delayers
  MaxParts, MaxRequests, MaxWaits,                            \* ClientReader
  NumHandlers, Services,                                      \* Suspension
  value_min, value_max, RawMax, Unmeasured,                   \* AnalogSensors
  States, HandlerCount,                                       \* FsmStore
  OperationModes, MaxMeasurements,                            \* Bme280Sensor
  MaxActivations, MaxMishaps,                                 \* Sht41Sensor
  Width, MaxDevices,                                          \* OneWireSearch
  BusWidth, RomCodes, Command,                                \* OneWireBus
  Ids, Channels, MaxCount, MaxPipelines                       \* Firmware

VARIABLES
  which,   \* the part at work
  main, code, waiting, notified, connection_count, ap_wifi, stations,
  ap_events, ap_server, ap_request,
  app, sta_result, sta_bits, retry_count, sta_wifi, sta_events, starts,
  losses, sta_server, sta_request, handling, start_failed,
  nodes, timers, expired, task_bits, call, task_todo, owed,
  now, periodic_tasks, task_pos,
  strategy, running, alarm, task_to_notify_, notifications, delay_pc,
  missed, early, strays,
  phase, handler_pos, active, excused, announced, refused, service_todo,
  client_request, part_count, parts_left, performing, data_received_, buf_,
  tasks_, reader_notifications, reader, patient, reader_strays, finished,
  soil_at, relay, on_failed, off_failed, raw, curr_state, soil_data,
  lightness,
  curr_state_, next_state_, is_transit_begin_, fsm_pc, fsm_pos, told,
  operation_mode, chip, bme280_at, calibrated, t_fine_, bme280_data, wanted,
  doing, sht41_chip, heating_count_, published, stored, activations,
  mishaps, forgotten,
  devices, scan, left, position, rom_code, finished_, prev_discrepancy_,
  curr_discrepancy_, conflict_count_, found,
  guarded, ops, bit_pos, slot_pos, stretched, byte, bus_result, host, device, word,
  asked, state, failed, firmware_tasks, storages, channels, handlers,
  reboot, paths

AP == INSTANCE ApNetwork WITH
  wifi <- ap_wifi, events <- ap_events, server <- ap_server,
  request <- ap_request
STA == INSTANCE StaNetwork WITH
  result <- sta_result, bits <- sta_bits, wifi <- sta_wifi,
  events <- sta_events, server <- sta_server, request <- sta_request
AT == INSTANCE AsyncTaskScheduler WITH
  bits <- task_bits, todo <- task_todo, MaxCount <- MaxTaskBits
PT == INSTANCE PeriodicTaskScheduler WITH
  tasks <- periodic_tasks, pos <- task_pos, Delay <- RoundDelay
DL == INSTANCE Delayers WITH
  pc <- delay_pc
SU == INSTANCE Suspension WITH
  pos <- handler_pos, todo <- service_todo
CR == INSTANCE ClientReader WITH
  request <- client_request, size <- part_count, left <- parts_left,
  notifications <- reader_notifications, strays <- reader_strays
AS == INSTANCE AnalogSensors WITH
  at <- soil_at, data_ <- soil_data, NoData <- Unmeasured
FS == INSTANCE FsmStore WITH
  pc <- fsm_pc, pos <- fsm_pos
BME == INSTANCE Bme280Sensor WITH
  at <- bme280_at, data_ <- bme280_data
SHT == INSTANCE Sht41Sensor WITH
  chip <- sht41_chip
OWS == INSTANCE OneWireSearch
OWB == INSTANCE OneWireBus WITH
  n <- bit_pos, pos <- slot_pos, result <- bus_result, Width <- BusWidth
FW == INSTANCE Firmware WITH
  tasks <- firmware_tasks

\* What each module assumes of its constants.
ASSUME ComponentsAssumption ==
  /\ AP!MaxConnectionAssumption
  /\ AP!ReadsNetworkAssumption
  /\ AP!MaxEventsAssumption
  /\ STA!MaxRetryAssumption
  /\ STA!ConnectFailsAssumption
  /\ STA!BoundsAssumption
  /\ AT!MaxCountIsPositive
  /\ PT!PeriodicAssumption
  /\ DL!StraysAreCounted
  /\ SU!HttpPipelineIsAdded
  /\ CR!ClientReaderAssumption
  /\ AS!RangeAssumption
  /\ FS!StatesAssumption
  /\ BME!Bme280Assumption
  /\ SHT!Sht41Assumption
  /\ OWS!OneWireAssumption
  /\ OWB!OneWireBusAssumption
  /\ FW!FirmwareAssumption

AP_vars == <<main, code, waiting, notified, connection_count, ap_wifi,
             stations, ap_events, ap_server, ap_request>>
STA_vars == <<app, sta_result, sta_bits, retry_count, sta_wifi, sta_events,
              starts, losses, sta_server, sta_request, handling, start_failed>>
AT_vars == <<nodes, timers, expired, task_bits, call, task_todo, owed>>
PT_vars == <<now, periodic_tasks, task_pos>>
DL_vars == <<strategy, running, alarm, task_to_notify_, notifications,
             delay_pc, missed, early, strays>>
SU_vars == <<phase, handler_pos, active, excused, announced, refused,
             service_todo>>
CR_vars == <<client_request, part_count, parts_left, performing,
             data_received_, buf_, tasks_, reader_notifications, reader,
             patient, reader_strays, finished>>
AS_vars == <<soil_at, relay, on_failed, off_failed, raw, curr_state, soil_data,
             lightness>>
FS_vars == <<curr_state_, next_state_, is_transit_begin_, fsm_pc, fsm_pos, told>>
BME_vars == <<operation_mode, chip, bme280_at, calibrated, t_fine_,
              bme280_data, wanted>>
SHT_vars == <<doing, sht41_chip, heating_count_, published, stored,
              activations, mishaps, forgotten>>
OWS_vars == <<devices, scan, left, position, rom_code, finished_,
              prev_discrepancy_, curr_discrepancy_, conflict_count_, found>>
OWB_vars == <<guarded, ops, bit_pos, slot_pos, stretched, byte, bus_result, host,
              device, word>>
FW_vars == <<asked, state, failed, firmware_tasks, storages, channels,
             handlers, reboot, paths>>

vars == <<which, AP_vars, STA_vars, AT_vars, PT_vars, DL_vars, SU_vars,
  CR_vars, AS_vars, FS_vars, BME_vars, SHT_vars, OWS_vars, OWB_vars,
  FW_vars>>

Parts == {"ap network", "sta network", "async tasks", "periodic tasks",
          "delayers", "suspension", "client reader",
          "analog sensors", "fsm store", "bme280", "sht41",
          "one wire search", "one wire bus", "firmware", "algorithms"}

Init ==
  /\ which \in Parts
  /\ AP!Init
  /\ STA!Init
  /\ AT!Init
  /\ PT!Init
  /\ DL!Init
  /\ SU!Init
  /\ CR!Init
  /\ AS!Init
  /\ FS!Init
  /\ BME!Init
  /\ SHT!Init
  /\ OWS!Init
  /\ OWB!Init
  /\ FW!Init

\* The parts that are not at work stay as they are.
OnlyAP == which = "ap network" /\ UNCHANGED <<which, STA_vars, AT_vars,
  PT_vars, DL_vars, SU_vars, CR_vars, AS_vars, FS_vars, BME_vars, SHT_vars,
  OWS_vars, OWB_vars, FW_vars>>
OnlySTA == which = "sta network" /\ UNCHANGED <<which, AP_vars, AT_vars,
  PT_vars, DL_vars, SU_vars, CR_vars, AS_vars, FS_vars, BME_vars, SHT_vars,
  OWS_vars, OWB_vars, FW_vars>>
OnlyAT == which = "async tasks" /\ UNCHANGED <<which, AP_vars, STA_vars,
  PT_vars, DL_vars, SU_vars, CR_vars, AS_vars, FS_vars, BME_vars, SHT_vars,
  OWS_vars, OWB_vars, FW_vars>>
OnlyPT == which = "periodic tasks" /\ UNCHANGED <<which, AP_vars, STA_vars,
  AT_vars, DL_vars, SU_vars, CR_vars, AS_vars, FS_vars, BME_vars, SHT_vars,
  OWS_vars, OWB_vars, FW_vars>>
OnlyDL == which = "delayers" /\ UNCHANGED <<which, AP_vars, STA_vars, AT_vars,
  PT_vars, SU_vars, CR_vars, AS_vars, FS_vars, BME_vars, SHT_vars, OWS_vars,
  OWB_vars, FW_vars>>
OnlySU == which = "suspension" /\ UNCHANGED <<which, AP_vars, STA_vars,
  AT_vars, PT_vars, DL_vars, CR_vars, AS_vars, FS_vars, BME_vars, SHT_vars,
  OWS_vars, OWB_vars, FW_vars>>
OnlyCR == which = "client reader" /\ UNCHANGED <<which, AP_vars, STA_vars,
  AT_vars, PT_vars, DL_vars, SU_vars, AS_vars, FS_vars, BME_vars, SHT_vars,
  OWS_vars, OWB_vars, FW_vars>>
OnlyAS == which = "analog sensors" /\ UNCHANGED <<which, AP_vars, STA_vars,
  AT_vars, PT_vars, DL_vars, SU_vars, CR_vars, FS_vars, BME_vars, SHT_vars,
  OWS_vars, OWB_vars, FW_vars>>
OnlyFS == which = "fsm store" /\ UNCHANGED <<which, AP_vars, STA_vars, AT_vars,
  PT_vars, DL_vars, SU_vars, CR_vars, AS_vars, BME_vars, SHT_vars, OWS_vars,
  OWB_vars, FW_vars>>
OnlyBME == which = "bme280" /\ UNCHANGED <<which, AP_vars, STA_vars, AT_vars,
  PT_vars, DL_vars, SU_vars, CR_vars, AS_vars, FS_vars, SHT_vars, OWS_vars,
  OWB_vars, FW_vars>>
OnlySHT == which = "sht41" /\ UNCHANGED <<which, AP_vars, STA_vars, AT_vars,
  PT_vars, DL_vars, SU_vars, CR_vars, AS_vars, FS_vars, BME_vars, OWS_vars,
  OWB_vars, FW_vars>>
OnlyOWS == which = "one wire search" /\ UNCHANGED <<which, AP_vars, STA_vars,
  AT_vars, PT_vars, DL_vars, SU_vars, CR_vars, AS_vars, FS_vars, BME_vars,
  SHT_vars, OWB_vars, FW_vars>>
OnlyOWB == which = "one wire bus" /\ UNCHANGED <<which, AP_vars, STA_vars,
  AT_vars, PT_vars, DL_vars, SU_vars, CR_vars, AS_vars, FS_vars, BME_vars,
  SHT_vars, OWS_vars, FW_vars>>
OnlyFW == which = "firmware" /\ UNCHANGED <<which, AP_vars, STA_vars, AT_vars,
  PT_vars, DL_vars, SU_vars, CR_vars, AS_vars, FS_vars, BME_vars, SHT_vars,
  OWS_vars, OWB_vars>>

Next ==
  \/ OnlyAP /\ AP!Next
  \/ OnlySTA /\ STA!Next
  \/ OnlyAT /\ AT!Next
  \/ OnlyPT /\ PT!Next
  \/ OnlyDL /\ DL!Next
  \/ OnlySU /\ SU!Next
  \/ OnlyCR /\ CR!Next
  \/ OnlyAS /\ AS!Next
  \/ OnlyFS /\ FS!Next
  \/ OnlyBME /\ BME!Next
  \/ OnlySHT /\ SHT!Next
  \/ OnlyOWS /\ OWS!Next
  \/ OnlyOWB /\ OWB!Next
  \/ OnlyFW /\ FW!Next

Spec == Init /\ [][Next]_vars

\* The fairness of the modules that state one.
Fairness ==
  /\ WF_vars(OnlyAP /\ AP!Main) /\ WF_vars(OnlyAP /\ AP!HandleEvent)
  /\ WF_vars(OnlyAP /\ AP!Serve)
  /\ WF_vars(OnlySTA /\ STA!HandleEvent) /\ WF_vars(OnlySTA /\ STA!AttemptEnds)
  /\ WF_vars(OnlySTA /\ STA!Serve)
  /\ WF_vars(OnlyAT /\ AT!SchedulerStep) /\ SF_vars(OnlyAT /\ AT!WaitBits)
  /\ \A i \in AT!Nodes : WF_vars(OnlyAT /\ AT!SetBits(i))

FairSpec == Spec /\ Fairness

(***************************************************************************)
(* Properties                                                              *)
(***************************************************************************)

(* Whatever the order of events, requests and the end of the wait, the     *)
(* HTTP server never runs while code_ says that the network is down.       *)
ServerFollowsNetwork == AP!ServerFollowsNetwork

(* connection_count_, a uint8_t that is counted up and down by the events, *)
(* never passes 0 or max_connection, however far the events lag behind the *)
(* stations and whatever stop_() adds to them; and it is right when they   *)
(* have all been handled.                                                  *)
ConnectionsCounted == AP!ConnectionsCounted

(* "Stop HTTP server" (server.h): when start() has failed and stopped the  *)
(* access point, the server started by a late START is stopped for good.   *)
FailedStartStopsServer == AP!FailedStartStopsServer

(* The server outlives the bit of the connection only inside the handler   *)
(* that cleared it; it is up with the bit, a new address included, once    *)
(* HttpPipeline was told, unless httpd_start() failed; and when the event  *)
(* task has caught up, the bit says what the driver does: no order of      *)
(* connections, losses, stops and starts leaves the three out of step.     *)
ServerFollowsConnection == STA!ServerFollowsConnection

(* "Wait for the WiFi connection to be established" (sta_network.h): a     *)
(* wait without limit ends, with a connection or when it has failed.       *)
EveryWaitReturns == STA!EveryWaitReturns

\* Every tick is answered, with the tasks of the scheduler and of esp_timer
\* running: the task of the scheduler calls run() again and again.
EveryTickAnswered == AT!EveryTickAnswered

\* Whatever the tasks take and whether they fail, no task waits for longer
\* than its interval and one round of all tasks: nothing else is promised of
\* the interval a task is added with, since the tasks share one loop.
NoTaskStarves == PT!NoTaskStarves

\* delay() waits for good in one case only, that its alarm came before its
\* task stored the handle (the timer is started first); and it is over before
\* its alarm only when the task was notified by somebody else.
DelayAccounted == DL!DelayAccounted

\* A failure of one handler, or of one service, is not a failure of another:
\* under the guard only a handler that itself refused is still at work, and
\* after it everything is back except what itself failed to come back.
FailureStaysAlone == SU!FailureStaysAlone

\* A task that reads after wait() said OK finds a response to its last part,
\* whatever notifications it got and however its earlier waits and other
\* requests ended; and it does not wait for a response that is there with
\* nobody left to notify it.  Of which request the response is, and what else
\* is in front of it, the reader does not tell: data_received_ and buf_ are
\* never cleared.
ResponseIsRead == CR!ResponseIsRead

\* The relay is on between two measurements only when turning it off failed,
\* also after a measurement that failed.  What is shown is one sample, taken
\* with power on (unless turning it on failed, which the code lets pass): its
\* status is that of its own raw value, and the moisture agrees with it.
AnalogReadings == AS!AnalogReadings

\* No state is left before every handler of it was told, once and in the order
\* they were added, whatever the handlers ask for in between and whether they
\* fail; and no handler of another state is told in its place.
TransitionIsTold == FS!TransitionIsTold

\* What run() publishes in forced mode was measured after run() asked for it:
\* the data of an earlier request is never taken for the answer,
\* whatever failed in between.  And the values are of one measurement, the
\* humidity compensated with its temperature; the pressure is compensated
\* with the temperature of the last read that went well, which is what the
\* order of the three computations makes of it.
DataOfTheRequest == BME!DataOfTheRequest

\* The count never claims an activation that was not made, and unless the
\* storage could not be read at some start, it lacks no more than one
\* activation per failure: a failing write is made good by the next one.
\* And what is published was measured: a frame that an earlier command left
\* in the chip, the serial number's for one, is never taken for a measurement.
HeatingsAccounted == SHT!HeatingsAccounted

\* On a bus with at most two devices, a search returns every device once: none
\* twice, none that is not there, and all of them when it answers NoData, on
\* whichever bits the two differ.  (With more devices it does not.)
EachDeviceOnce == OWS!EachDeviceOnce

\* Under the guard, a call that did not fail has told the device and heard
\* from it, bit for bit and in order, what it says.  (Without the guard a
\* stretched delay turns a one into a zero on the way out and a zero into a
\* one on the way in, and the call answers OK: the checksums are what is left.)
BytesCarried == OWB!BytesCarried

\* Whether a set of pipelines makes a firmware does not depend on the order
\* they are constructed in: unless a driver fails, the device stops because
\* two of them are in conflict or there are too many tasks, or, once the server
\* starts, because an endpoint is there twice; and what runs shares nothing and
\* saves on a reboot whatever it saves from time to time.
AssemblyAccounted == FW!AssemblyAccounted

===============================================================================
