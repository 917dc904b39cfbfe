# Verification of esp-components

TLA+ models of the firmware components in `src/components`, checked with TLC
and, where stated, proved with TLAPS. Paths below are relative to
`src/components`.

## The system

The components are C++ classes on FreeRTOS and ESP-IDF. An application builds
*pipelines* (`ocs_pipeline`) that wire them together. At run time there are
these tasks:

| task | what runs on it |
|---|---|
| main | `SystemPipeline::start`: `PeriodicTaskScheduler::run` for ever; sensors, saves of counters and FSM blocks, and `AsyncFuncScheduler::run` once a second |
| HTTP | one request after the other: `http::Server::handle_request_get_` and the handlers behind it |
| event | the default event loop of ESP-IDF: WiFi and IP events, which start and stop the HTTP server |
| timer/ISR | `HighResolutionTimer` callbacks, GPIO interrupts |

They meet in four places: functions handed from the HTTP task to main
(`AsyncFuncScheduler`), event groups and flags, mutexes with condition
variables (`Cond`), and the non-volatile storage, which also connects a boot
with the next one.

### Inventory

| component | state | operations | hard part | correct when |
|---|---|---|---|---|
| async functions: `ocs_scheduler/async_func*`, `ocs_core/future`, `cond` | two queues, code and waiting tasks of each future, task notifications | `add`, `run`, `Future::wait`, `notify` | interleaving, timeouts that leave handles behind | every accepted function runs once and in order, every caller gets its own answer and none sleeps for ever |
| FSM block: `ocs_control/fsm_block` | five persisted fields, time stamps | `update`, `transit`, `run`, `handle_reboot`, constructor | cut or failure between keys | what is restored is of one history and no time is made up |
| FSM store: `ocs_control/fsm_store` | nodes, one transition in progress | `run`, `add` | a state change during a transition | transitions run begin, then end |
| counters: `ocs_diagnostic` | value at boot, stored value | `get`, `run`, `handle_reboot`, constructor | cuts, failing reads, writes and erases | lifetime never ahead and boundedly behind; uptime ends at a cut |
| access point: `ocs_net/ap_network`, `ocs_pipeline/network` | code, connection count, mutex, condition | `start`, `wait`, `stop`, four event handlers | late events, lock order | `start()` is notified, the server follows the network |
| station: `ocs_net/sta_network` | event group, retry count | `start`, `wait`, `stop`, three event handlers | retries, restart, failing connect | `wait()` ends, the server follows the connection |
| HTTP server: `ocs_http/server`, `http_pipeline` | handle, endpoints | `start`, `stop`, request | stop waits for the request in hand | runs exactly while the network is up |
| HTTP handlers: `ocs_pipeline/httpserver` | none of their own; locals shared with queued functions | scan, configure, heat, reset, reboot | giving up while the function is queued | the answer tells what happened |
| schedulers: `periodic_task_scheduler`, `async_task_scheduler` | tasks with rate limiters; event bits | `add`, `run`, `start`, `stop` | coalescing bits, limits | every due task runs |
| DS18B20: `ocs_sensor/ds18b20` | configuration, scratchpad, store of sensors per GPIO | `run`, read/write/erase configuration, schedule | one step of several fails | sensor, storage and memory agree |
| soil and LDR sensors | last data, relay | `run` | boundaries of ranges, a relay that fails | data are from one reading, the relay is off between them |
| SHT41 | last data, heating count, its key in the storage | `run`, `reset`, `heat` | cut or failure between counting and storing | the count never runs ahead and lags boundedly |
| BME280 | calibration, `t_fine_`, last data | `run`, constructor | stale registers, order of the compensations | data answer the last request |
| client reader: `ocs_http/client_reader` | buffer, flag, condition | events, `wait`, `read` | strays, reuse | a reader finds a whole response |
| assembly: the `*_pipeline` constructors | what each adds to the shared objects | constructors, `start` | conflicts of names | stops for a conflict and for nothing else |
| 1-Wire: `ocs_onewire` | last discrepancy, ROM code | `scan`, `reset` | errors in the search | every device is found once |
| system: `ocs_system` | suspend count, handlers | `suspend`, `resume`, `reboot`, `delay` | nesting, partial failure, alarm before wait | handlers are called in pairs |
| storage: `ocs_storage`, `ocs_algo/storage_ops` | NVS | `read`, `write`, `erase` | commit fails after set | an error means no change |
| mDNS: `ocs_net/mdns_store` | services, records | `add`, `start`, `stop` | a service that fails | the others are announced |
| algorithms: `ocs_core/version`, `ocs_algo` | none | compare, parse, split, CRC | boundaries | equal to their definitions |
| formatting: `ocs_fmt/json`, `ocs_pipeline/jsonfmt` | none | `format` | one failing step of many | a document is whole or there is none |
| status codes, security, drivers of I2C, SPI and ADC | none or a handle | | | names, or calls of the platform |

`PROJECT.json` has the same list with the state of each component, the hazards
with their lines, and the map from definitions to source lines.

## Modules

The first group are the modules of the larger parts, each with a run of its own.
The second group are fifteen smaller parts that share no state; the run
`components` checks them all.

### AsyncCall, AsyncFuncScheduler, MCAsyncFuncScheduler

`AsyncCall` is what the component promises: functions are accepted up to a
backlog, executed once in order of acceptance, and a caller gets its own
function's code or gives up. `AsyncFuncScheduler` is the code: `write_queue`,
`read_queue` and the position of the range-for in it, `code` and `tasks` of
every future, the FreeRTOS `notification` count of every client, and the program
counter `pc` of `Future::wait`. There is one action per critical section; the
two mutexes are not variables because nothing of another task can come between
the statements they protect. `Cond::wait` is three steps: register the handle
(under the mutex of the future, with the check of `code_`), take a notification
or time out, check again. A handle left by a timeout stays in `tasks`, so stray
notifications are in the model. `submitted`, `executed`, `owner` and `reply` are
history variables. `StrayNotificationsBounded` counts the handles in the lists
as a set (`Handles`), one element per occurrence. The refinement mapping to
`AsyncCall` is the identity on these, with the backlog at twice
`max_event_count_`.

Run `async` (two clients, one without and one with a limit on its wait; queue of
2; 3 functions; two codes): `ExactlyOnceInOrder`, `NoLostWakeup`,
`ReplyIsOutcome`, `PatientFrameAlive`, `StrayNotificationsBounded`; the
refinement `ImplementsAsyncCall` (safety and fairness of the abstract
specification, so that every accepted function is executed) and
`EveryClientReturns`. Three functions fill the queue and leave one for the batch
in hand, and a client that gave up has time to come back and meet its stray
notification.

Fairness: weak fairness of the scheduler's task (`SystemPipeline::start` calls
it for ever, functions return) and of each client's steps in `wait()` (FreeRTOS
runs ready tasks). Nobody is obliged to add functions or to time out.

### FsmBlock

The five keys in the order `write_()` writes them, the fields in memory, the
clock, and one action per `storage_.write`, so that power may be lost and a
write may fail between any two keys. A boot reads a prefix of the keys: what
`read_()` does when a key is absent or cannot be read. The user of the block is
`AnalogSensor::run` (`Stay`, `Transit`), with `Save` for the periodic task and
`HandleReboot`; all are on one task, so nothing else interleaves. `age` (the
write that wrote each key) and `missed` (transitions not stored) are history.

Run `fsm_block` (2 states, durations of 2 ticks, 3 ticks with power on over all
boots, 3 writes, failing reads and writes): `KeyAgesOrdered`,
`DurationWithinLifetime`, `CleanRebootLosesNothing`,
`RestartLosesAtMostOneTransition`. Three writes are a stored transition, a torn
one and one that mixes with it. A write torn between `curr_state` and
`curr_state_dur` brings the new state back with the time of the old one; the
code has nothing to tell such a pair by, and no property claims it.

### PersistentCounters

The uptime (`MemPersistentCounter`) and the lifetime (`AccPersistentCounter`)
of `SystemCounterPipeline`: the constructors step by step (read, erase, read),
the periodic save with its rate limiter, the reboot handlers in their order of
registration, failing reads, writes and (with `ErasesFail`) erases, and the
loss of power between any two steps. `total` is the real time with power on,
`excused` is what failures and cuts account for: one interval per cut or
failed write and the rounding of a unit per boot, or everything when the stored
lifetime could not be read.

Run `counters` (units of 2 ticks, saves every 3, 7 ticks over all boots):
`LifetimeNeverAhead`, `LifetimeLossBounded`, `UptimeSinceServedCut`. Seven
ticks are two saves and a remainder, or several boots with one each; 2 and 3
are not multiples of each other, so rounding and saving fall apart. The storage
can erase here: with a failing erase an old uptime comes back.

### Ds18b20Sensor

The configuration of each sensor in its three places: `configuration` (with
`bus_`, which says whether there is one), `stored`, and the resolution in the
`scratchpad` of every device. The functions that `DS18B20Handler` queues and the
reload of `Store::Node::add` at boot are sequences of steps of the main task,
`step` being the next one; each access to the bus or the storage is a step that
may fail, and power may be lost between any two. A write to the scratchpad that
fails may have reached the device. `Outcomes` are those of `NvsStorage`: with
`CommitFails`, an error may also come after the change, from `nvs_commit()`.
`answered` (what the client was last told) and `applied` (who configured a
device last) are history.

- `ds18b20` (two sensors, two devices, the resolutions 9 and 12, of which 12 is
  that of a device switched on): `ConfiguredIsStored`, `AnsweredIsKept`,
  `ResolutionApplied`, `ErasedIsDeassigned`. Two sensors may be given the same
  device, and one sensor another device; nothing in the state grows, so the run
  is complete for these sets.
- `ds18b20_commit` (one sensor, `CommitFails`): `ErasedIsDeassigned` is
  violated. `erase_configuration()` returns the error of the commit with the key
  gone and the sensor on the bus; asked again, it returns `NoData` before it
  de-assigns the sensor, and the handler takes that for a success.

The model says that `nvs_erase_key()` has its effect before `nvs_commit()`, as
`NvsStorage` reads it: it calls both and reports the error of either. A device
that alone loses its power, and the conversion, are not modelled.

### JsonDocuments, HttpHandlers, MCHttpHandlers

`JsonDocuments` translates the formatters: a document is the sequence of calls
its formatter makes, each with the key it adds and the codes it may end the
formatter with. Nested objects (`FieldFormatter`) are paths of keys. The values
are left out. `Keys` is what a list of calls adds when none of them fails, in
order. The ids of the counters, sensors and tasks are chosen by the application;
each is the key of something in storage, and `DistinctIdsAssumption` says that
they differ from one another and from the fixed keys of the telemetry document
they are added to.

`HttpHandlers` puts the calls of every handler together (`Handlers`, by path)
and executes them: the HTTP task takes a request, makes its calls one by one, any
of which may fail and end the handler, and answers with an error page when the
handler did not return OK. `queue` and `running` are the functions that the
handlers of the sensors and of the reboot schedule on the main task; a function
has a body of calls too. `frame` says whether the handler that a function refers
to is still there: after `GiveUp` it is gone, and `FuncStrays` is what writing
through the dangling reference may do, nothing, damage to the document of a
later request, or a restart. `StreamTransceiver`, `FileStreamReader` and
`ChunkStreamWriter` are `OpenFile`, `CopyChunk` and `EndStreams`. A connection
that has failed stays down for the rest of the request.

A chunk says where in the file its bytes come from, and `AnswerFitsOutcome` that
a file arrives in order, whole and with its end.

- `http` (one function may wait; files of 0, 3 and 4 bytes with a buffer of 2;
  at most one device found by a scan): `AnswerFitsOutcome`, `WholeDocument`,
  `AliveIsAwaited`, and `EveryRequestAnswered` under weak fairness of the two
  tasks. A file shorter than the buffer, a multiple of it, and neither are the
  cases of the end-of-file indicator; a queue of one is full as soon as one
  handler has given up.
- `http_double`: `OneAnswer` is violated. When the file is not there or a read
  fails, the destructor of `StreamTransceiver` ends a response with status 200
  and the server sends an error page after it.

### Components, MCComponents

`Components` instantiates the modules below; in a behaviour one of them
(`which`) is at work and the others stay at their initial states. As they share
no variable, every property of a part holds in the whole exactly if it holds in
the part alone; that a behaviour of `Components` is one of each part is proved
(`NetworkSpecs`, `SchedulingSpecs`, `SensorSpecs`). The pure functions are
recursive and work on words, which the prover cannot reach: `MCComponents` adds
them and their input, as the part of that name. Each part keeps its own `Init`,
`Next` and, where it states one, fairness. The assumption of `Components` is
what the parts assume of their constants. The constants are in `Components.cfg`;
where two modules use one name, the whole has a second name for it (`BusWidth`,
`MaxTaskBits`, `RoundDelay`, `Unmeasured`, `Temperatures`, the bus's `bit_pos`).

**HttpServer, ApNetwork, StaNetwork.** `HttpServer` has the handle of
`http::Server` and the HTTP task with the request in hand; `httpd_stop()`
(external, as ESP-IDF documents it) returns when there is none. The networks
extend it, as `HttpPipeline` connects them: the event handlers call
`handle_connect` and `handle_disconnect`. `ApNetwork` has main in
`LocalNetworkPipeline::start`, the event task and the HTTP task; the mutex of
the network is held over more than one step only while the event task is inside
`httpd_stop()`. Two stations, up to three pending events beside those of
`stop()`, requests that do not read the network: `ServerFollowsNetwork`,
`ConnectionsCounted` (the count of stations, a `uint8_t`, neither wraps nor
drifts) and `FailedStartStopsServer`. `StaNetwork` has the application's task,
the event task and the driver, with an event group instead of a mutex. Nothing
keeps the other tasks out of its handlers, so each is several steps (`handling`):
CONNECTED is cleared, the retry or FAILED follows, which wakes the application,
and only then comes `httpd_stop()`; CONNECTED is set before the server is
started. Meanwhile the server runs without the bit, or the bit is there without
the server, and the application may stop and start the network. One retry, two
starts and four losses exhaust the retries before and after a connection that
resets them: `EveryWaitReturns`, and `ServerFollowsConnection`, which says that
the server outlives the bit only inside the handler that cleared it, that it is
up with the bit unless `httpd_start()` failed (`start_failed`), also when a new
address makes `GOT_IP` come again, and that driver and bit agree when the event
task has caught up.
Fairness: each task, and the driver, which ends an attempt one way or the other.

- `ap_deadlock` is the access point with requests that call `get_info()`, as
  `/api/v1/registration` does: the event task waits in `httpd_stop()` with the
  mutex, the HTTP task waits for the mutex, and the server never stops.
- `sta_hang` lets `esp_wifi_connect()` return an error: the code logs it and
  does nothing else, and `wait()` never returns.

**AsyncTaskScheduler.** Tasks with event bits, two of them: timers expire on
their own, the callback sets the bit on the task of esp_timer, `run()` takes all
bits and comes to their nodes one by one. `owed` remembers the ticks no round has
answered: `EveryTickAnswered`, under weak fairness of the callback and of the
scheduler's steps, and strong fairness of its wait for bits, since a stop of the
timers may come between.

**PeriodicTaskScheduler.** The loop of the main task with a rate limiter per
node; a task takes up to 2 ticks, intervals are 2 and 5, the clock runs to 14,
which is more than two intervals and a round of each. `NoTaskStarves`.

**Delayers.** `delay()` step by step for both strategies, the alarm, the flag
with its one handle, and stray notifications (2). `DelayAccounted` says exactly
when the code's promise fails: the alarm comes before the handle is stored, or
somebody else notifies the task.

**Suspension.** `SuspenderGuard` over `FanoutSuspender` with three handlers, the
first of which is `HttpPipeline` with mDNS and its two services:
`FailureStaysAlone`.

**ClientReader.** The events of `esp_http_client` on the task of the request and
the reader's wait and read; two requests of up to two parts, failing requests,
waits that time out, strays: `ResponseIsRead`, which says that a finished response
is in the buffer part after part and that a reader does not sleep beside it.

**AnalogSensors.** The soil sensor with and without its relay, and the LDR
sensor, over all raw values of a small converter, with every call failing:
`AnalogReadings`. The range is 6, no multiple of the number of statuses.

**FsmStore.** `run()` handler by handler; states with two handlers, one and none,
and a handler that may ask for any state: `TransitionIsTold` (an action
property).

**Bme280Sensor.** The constructor's calls and `run()` with the chip, in the
three modes. A measurement is a number, a value the numbers it was made from:
`DataOfTheRequest` (an action property).

**Sht41Sensor.** The sensor, the frame the chip would answer next, the bus, the
storage and the loss of power: `HeatingsAccounted`, with up to three activations
and two failures that cost a count.

**OneWireSearch.** `RomCodeScanner::scan` bit by bit over every set of up to
three devices with codes of 3 bits: `EachDeviceOnce` for up to two devices.
`onewire_search` shows that with three the scanner runs into its own assertion.

**OneWireBus.** Calls made of slots made of steps, on bytes of 2 bits (a byte is
the function from its bits, as the bus takes them one by one), with a device
that reads the length of a pulse; steps fail, and without the guard a delay may
last too long: `BytesCarried`.

**Algorithms, MCAlgorithms.** Pure functions: an input is chosen, and each
result is compared with a definition that does not follow the code
(`AlgorithmsAgree`): time intervals on a type that wraps at 8, versions with
numbers up to 2, strings and queries of up to 5 characters of a small alphabet,
frames of two bytes with every single bit flipped, bytes written and read bit by
bit, 12-bit calibration data, temperatures around 0 degrees and two far from it,
sizes of blobs. Where the code is wrong on part of the domain the property says
what remains: versions with a greater major number and a smaller minor one
compare both ways, calibration data of 12 bits are read as positive, and
temperatures below 0 degrees are wrong, which `ds18b20_temperature` shows
against `scratchpad.h:31`.

**Firmware.** What every pipeline's constructor adds to the scheduler, the
storage builder, the ADC, the suspender, the reboot handler and the HTTP server,
in any order that references allow, up to five pipelines, two identifiers, two
channels and five tasks (16 in the code; less, so that the limit is met):
`AssemblyAccounted`. `asked` counts the pipelines of each kind and parameters;
the property speaks of `Copies`, so that a pipeline asked for twice is two. Two
soil sensors never fit in one firmware, because both ask
for the storage `soil_fsm`.

Deadlock checking is off for `components` because its parts really may come to
rest: no events, no requests, no more starts, or a device that has stopped.

## Bounds

`MaxCalls`, `MaxTime`, `MaxWrites`, `MaxEvents`, `MaxStarts`, `MaxLosses`,
`MaxStrays`, `MaxRequests`, `MaxWaits`, `MaxMeasurements`, `MaxActivations`,
`MaxMishaps` and `MaxPipelines` bound the length of the behaviours and nothing
else; queue limits, resolutions, intervals, retries, widths and numbers of
stations or devices are parameters of the code, taken small. Values are model
values or small numbers: which code a function returns or which moisture a sensor
reads is chosen freely. `Ds18b20Sensor` and `HttpHandlers` have no bound of
length.

## Proofs

The theorems hold for every value of the constants that satisfies the named
assumptions of the modules. Each follows the same line: an inductive invariant
`IInv` (in the modules of the composition, one per part: `CountInv`, `PtInv`,
...), one lemma that `Init` implies it, one per action or per conjunct that a step
keeps it, and one that it implies the property. Besides the assumptions of the
modules, three theorems have a hypothesis of their own: `UptimeBounded` needs
`ErasesFail = FALSE`, `Agreement` and `Erasure` need `CommitFails = FALSE`. These
say that the platform's call does not fail where the code has no answer to it;
without the last one `ds18b20_commit` shows that the claim is false.

**AsyncFuncSchedulerProofs** has every invariant of the run `async` for all
clients, codes, queue limits and numbers of calls, that at most two full queues
of functions wait (`Backlog`), and that the scheduler implements the safety part
of `AsyncCall` (`Refinement`). `IInv` is `QueueInv` (types, order of the two
queues, and that no batch is left outside of `run()`, without which the swap
would bring old functions back), `ClientInv` (what a client in `wait()` holds is
an accepted call it owns), `FreshInv` (a call not yet accepted has no code, no
waiter and no owner), `NoLostWakeup` and `PatientFrameAlive`. `Strays` adds a
bound per client: notifications, handles and a loop under way are no more than
its calls. A registration uses up the round that came before it, a broadcast
turns handles into as many notifications, and an accepted call pays for one
more. The handles are counted as a set of tickets, since the prover has no sum
over a function.

**PersistentCountersProofs** has the types and the three invariants of the run
`counters` for all resolutions, save intervals and lengths. `ClockInv` relates the
clock, the last save and the phase; `AheadInv` says that a value in memory and one
in storage were counted in time that has passed; `LossInv` follows the shortfall
of the stored lifetime through every phase: after a save it is at most a unit
plus what is excused, and it grows with the clock until the next one.
`UptimeInv` says that the uptime is in the storage only from the reboot handler
to the next boot. Products of a variable and the resolution are kept opaque to
the arithmetic solver by the lemmas `Rounding` and `Distributes`.

**Ds18b20SensorProofs** has the invariants of the run `ds18b20` for any sensors,
devices and resolutions: `Kept` (`AnsweredIsKept`) and `Applied`
(`ResolutionApplied`) whether commits fail or not, `Agreement`
(`ConfiguredIsStored`) and `Erasure` (`ErasedIsDeassigned`) when they do not. The
strengthening is `JobInv`: at boot the function in hand writes what is stored,
later its client has no answer, from the verification on the device has the
resolution, and before the end so has the storage. The last two come from one
lemma, because the second needs the first: an erase that finds nothing stored
relies on the sensor being off the bus.

**FsmBlockProofs** has the four properties of the run `fsm_block` for any number
of states, any resolution and any number of ticks and writes, with reads that
fail or not. Two of them are about the step of a boot, and follow from what
`IInv` says of the storage before it. `WriteInv` describes a `write_()` under way:
the keys up to `written` are of this write and equal to the fields in memory, the
others are of earlier ones; and it says when the write of `handle_reboot()` was
complete (`CleanReboot`). `MissInv` says that the stored state is the current one,
or the one before it while one transition is missing (`OneTransitionLost`).
`TimeInv`, that the time since `start_ts_` comes on top of the restored duration
within the time with power, is what makes `DurationBounded` inductive.

**HttpHandlersProofs** has `AnswerFitsOutcome`, `AliveIsAwaited` and
`WholeDocument` for any counters, sensors and tasks, so for documents of any
length, and for files and
buffers of any size, from `IdsAssumption` (the identifiers are strings),
`FileAssumption` and `NoRequestAssumption` (the absence of a request is no
path). `AnswerInv` says where the request in hand is: its calls are in order
(one response at the very end, every function waited for at once: `Ordered`), or
it reboots, copies a file of which the chunks so far are the first `pos` bytes,
ends its streams, has returned, or there is none. That every handler is
`Ordered` goes through the formatters bottom up (`Calm`, then `Partial`). A
document of many sensors is `FlattenSeq` of their calls, a recursive function:
that it exists, and that a property of all parts carries over to it, takes the
lemma `Induction` on sets of naturals, itself proved from the finiteness of
intervals. `AliveIsAwaited` needs `OneAlive` beside it: at most one function
refers to a living frame, else a second one could outlast the wait of the first.

`WholeDocument` (`DocumentsWhole`) needs `DistinctIdsAssumption` and
`DevicesAssumption` too, and has two halves. That no field is missing is
`DocInv`: what the document has, followed by what the handler and the function it
waits for have still to add, is the document of the path, unless the request is
bound to fail. Its four parts follow the request: the handler is `Filling` the
document, `Handing` it to a function it schedules, `Waiting` for that function,
or `Leaving` with the body. A function that fails never leaves an OK in the
future (`Working`), so the handler that awaits it does not respond with a part of
a document. The keys of a list of calls are those of its head followed by those
of its tail (`KeysStep`, again by `Induction`). That no field is there twice
(`Once`) goes through the formatters bottom up: each part is under keys of its
own, parts under different keys are disjoint, and a document of many sensors or
tasks has no key twice if no part has and the parts are pairwise disjoint
(`OnceFlatten`, `EntriesOnce`).

**NetworkProofs, SchedulingProofs, SensorProofs** are about `Components`. A first
theorem in each says that a behaviour of the composition satisfies the
specification of every part; the properties of the parts follow from these.

- Networks. `ServerFollowsNetwork` is inductive as it stands, since the change of
  `code_` and the call of `httpd_stop()` are under one lock.
  `ServerFollowsConnection` is not, with no lock: `StaServed` ties bit and server
  to the place in the handler, and `StaTold` says that the newest pending event
  that tells of a connection, or the bit if there is none, is what the driver
  does, whatever is still in front of it in the queue.
  `ConnectionsCounted` is not either: `CountInv` says that the count, led through the
  pending events one by one, never leaves its bounds and arrives at the number
  of stations (`Leads`).
- Suspension. `SuToldInv` is where the guard has come to: the handlers before
  `handler_pos` are told, and once mDNS was, every service is announced,
  refused, or still to come.
- Client reader. `BufferInv` follows the parts of the request in hand at the end
  of the buffer and keeps those of finished ones apart; `NotifiedInv` is the
  handshake of flag, list and notification.
- Schedulers. `NoLostTick`, the safety behind `EveryTickAnswered`: a tick that
  is not answered has its callback to come, its bit set, or is in the round
  under way. `NoTaskStarves` needs the position in the round: `Allowance` is how
  late a task may be when the round has come to `task_pos`, and a step of the
  loop takes from the clock what it takes from the allowance.
- Delayers, FSM store. `DlInv` says whose a notification is while nobody else
  notifies the task; `FsToldInv` that during a transition `told` is the sequence
  of the numbers below `fsm_pos`.
- Assembly. `FwInv` ties each shared object to the copies of pipelines asked for
  (`FwShares`), the number of tasks to their sum (`FwCounts`), and a device that
  has stopped to a reason that later constructions cannot take away
  (`FwReason`). The kinds of pipelines are compared pair by pair in `FwClashIs`.
- Sensors. `AsInv`: the relay's guard lives for the whole of a measurement.
  `BmeInv`: the chip's next measurement is the one wanted, and `t_fine_` is of
  the data read last. `ShtCountInv`: the count in memory is ahead of the storage
  between a heating and its write, and of no use until the storage was read.
- 1-Wire. `OwbBusyInv`: the bits before `bit_pos`, and that bit once its slot is
  past the release or the sample, are carried. `OwsInv`: the search is before
  the bit in which two devices differ, in the first scan, in the second, or done
  (`OwsStage`), and what the scanner remembers is what it should at each of
  these.

Only model-checked: liveness and fairness (the prover does not support `ENABLED`),
and `AlgorithmsAgree`, whose functions are recursive or bitwise.

## Not modelled

- The console, the names of status codes, reset reasons and formats, the
  identity of the device and the SHA wrappers: no state and no control.
- The set-up of the drivers of I2C, SPI and ADC, and the handles of NVS: calls
  of the platform, each of which is an outcome in the models that use them.
- The values in JSON documents and the floating-point formulas of BME280.
- The conversion of DS18B20 on the bus, several buses of one store, and a device
  that alone loses its power.
- `AsyncFunc` from the scheduler's own task, `run()` from inside a function, and
  `StaNetwork::wait` with a limit: nothing in the repository does it.
- Tools, except the two whose use of the 1-Wire search is that of the handler,
  and test fixtures.

Worth doing next: a configuration register as the abstract specification of `Ds18b20Sensor`; the soil sensor on top of `FsmBlock` instead of
beside it; the conversion of DS18B20.
