------------------------------- MODULE Firmware -------------------------------
(***************************************************************************)
(* How an application puts a firmware together from the pipelines, in any  *)
(* order that their references allow: what every constructor adds to the   *)
(* scheduler, the storage, the ADC, the suspender, the reboot handler and  *)
(* the HTTP server, and the configASSERT()s and ESP_ERROR_CHECK()s that    *)
(* stop the device when something is refused.                              *)
(***************************************************************************)
EXTENDS Naturals, FiniteSets

CONSTANTS
  Ids,            \* the identifiers an application gives its sensors
  Channels,       \* channels of the ADC
  MaxCount,       \* max_count of the task scheduler; 16 in the code
  MaxPipelines    \* bound: the pipelines of an application

FirmwareAssumption ==
  MaxCount \in Nat \ {0} /\ MaxPipelines \in Nat /\ Channels \subseteq Nat

VARIABLES
  asked,      \* how many pipelines of each kind and parameters were asked for
  state,      \* "build", "run" (the scheduler's loop), or "stopped"
  failed,     \* was a driver's call refused, which stops the device too?
  tasks,      \* the tasks of the scheduler
  storages,   \* ids_ of the storage builder
  channels,   \* adcs_ of the ADC store
  handlers,   \* nodes_ of the suspender
  reboot,     \* handlers_ of the reboot handler
  paths       \* how often each endpoint is added to the HTTP server

added == <<tasks, storages, channels, handlers, reboot, paths>>
vars == <<asked, state, failed, added>>

\* What a pipeline adds.
Nothing == [tasks |-> {}, storages |-> {}, channels |-> {}, handlers |-> {},
            reboot |-> {}, paths |-> {}]

SystemPipeline == [Nothing EXCEPT !.tasks = {<<"system_async_func_scheduler">>}]

DataPipeline ==
  [Nothing EXCEPT !.storages = {"system_counter"},
                  !.tasks = {<<"lifetime_counter_task">>},
                  !.reboot = {<<"uptime_counter">>, <<"lifetime_counter_task">>}]

ConsolePipeline ==
  [Nothing EXCEPT !.tasks = {<<"console_telemetry">>, <<"console_registration">>}]

LocalNetworkPipeline == [Nothing EXCEPT !.storages = {"net_local_wifi"}]

HttpPipeline ==
  [Nothing EXCEPT !.handlers = {"http_pipeline"},
                  !.paths = {"telemetry", "registration", "reboot", "report"}]

TimePipeline == [Nothing EXCEPT !.paths = {"time"}]
WebGuiPipeline == [Nothing EXCEPT !.paths = {"/", "/dashboard", "/assets/*"}]
DS18B20Handler ==
  [Nothing EXCEPT !.paths = {"scan", "read_configuration", "write_configuration",
                             "erase_configuration"}]
SHT41Handler == [Nothing EXCEPT !.paths = {"sht41/reset", "sht41/heat"}]

FsmBlockPipeline(id) ==
  [Nothing EXCEPT !.storages = {id}, !.reboot = {<<id>>}, !.tasks = {<<id>>}]

SoilPipeline(p) ==
  [FsmBlockPipeline("soil_fsm") EXCEPT !.tasks = @ \cup {<<p.id, "task">>},
                                       !.channels = {p.channel}]
RelayPipeline(p) ==
  [FsmBlockPipeline("soil_fsm") EXCEPT !.tasks = @ \cup {<<p.id, "task">>},
                                       !.channels = {p.channel}]
LdrPipeline(p) ==
  [Nothing EXCEPT !.tasks = {<<p.id, "task">>}, !.channels = {p.channel}]
Sht41Pipeline ==
  [Nothing EXCEPT !.tasks = {<<"sht41_task">>}, !.storages = {"sensor_sht41"}]
Bme280Pipeline == [Nothing EXCEPT !.tasks = {<<"bme280_task">>}]
Ds18b20Pipeline(p) == [Nothing EXCEPT !.tasks = {<<p.id, "task">>}]

Adds(p) ==
  CASE p.kind = "data" -> DataPipeline
    [] p.kind = "console" -> ConsolePipeline
    [] p.kind = "network" -> LocalNetworkPipeline
    [] p.kind = "http" -> HttpPipeline
    [] p.kind = "time" -> TimePipeline
    [] p.kind = "web" -> WebGuiPipeline
    [] p.kind = "ds18b20 handler" -> DS18B20Handler
    [] p.kind = "sht41 handler" -> SHT41Handler
    [] p.kind = "soil" -> SoilPipeline(p)
    [] p.kind = "relay" -> RelayPipeline(p)
    [] p.kind = "ldr" -> LdrPipeline(p)
    [] p.kind = "sht41" -> Sht41Pipeline
    [] p.kind = "bme280" -> Bme280Pipeline
    [] p.kind = "ds18b20" -> Ds18b20Pipeline(p)

\* What a constructor takes references to.
Needs(kind) ==
  CASE kind \in {"console", "network"} -> {"data"}
    [] kind = "http" -> {"data", "network"}
    [] kind \in {"time", "web", "ds18b20 handler"} -> {"http"}
    [] kind = "sht41 handler" -> {"http", "sht41"}
    [] OTHER -> {}

Pipelines ==
  [kind : {"data", "console", "network", "http", "time", "web", "ds18b20 handler",
           "sht41 handler", "sht41", "bme280"}, id : {""}, channel : {0}]
  \cup [kind : {"soil", "relay", "ldr"}, id : Ids, channel : Channels]
  \cup [kind : {"ds18b20"}, id : Ids, channel : {0}]

Paths == UNION {Adds(p).paths : p \in Pipelines}

\* The pipelines asked for, those of one kind and parameters numbered.
Copies == UNION {{p} \X (1 .. asked[p]) : p \in Pipelines}
Kinds == {copy[1].kind : copy \in Copies}

TypeOK ==
  /\ asked \in [Pipelines -> Nat] /\ state \in {"build", "run", "stopped"}
  /\ failed \in BOOLEAN /\ Cardinality(tasks) <= MaxCount
  /\ channels \subseteq Channels /\ paths \in [Paths -> Nat]

Init ==
  /\ asked = [p \in Pipelines |-> 0] /\ state = "build" /\ failed = FALSE
  /\ tasks = SystemPipeline.tasks /\ storages = {} /\ channels = {} /\ handlers = {}
  /\ reboot = {} /\ paths = [path \in Paths |-> 0]

\* PeriodicTaskScheduler::add(): a full scheduler, and a second task of the
\* same identifier, are refused.
SchedulerAdd(a) ==
  /\ a.tasks \cap tasks = {}
  /\ Cardinality(tasks) + Cardinality(a.tasks) <= MaxCount

\* Mutant of StorageBuilderMake: two pipelines get the same storage.
StorageBuilderMakeShared(a) == TRUE

\* StorageBuilder::make() returns no storage when there is one of that name,
\* and DefaultStore::add() no ADC for a channel in use.
StorageBuilderMake(a) == a.storages \cap storages = {}
AdcStoreAdd(a) == a.channels \cap channels = {}
SuspenderAdd(a) == a.handlers \cap handlers = {}

Accepted(a) ==
  SchedulerAdd(a) /\ StorageBuilderMake(a) /\ AdcStoreAdd(a) /\ SuspenderAdd(a)

\* A pipeline is constructed, or the device stops in the middle of it.
Construct(p) ==
  /\ state = "build" /\ Needs(p.kind) \subseteq Kinds
  /\ Cardinality(Copies) < MaxPipelines
  /\ asked' = [asked EXCEPT ![p] = @ + 1]
  /\ LET a == Adds(p) IN
     IF Accepted(a)
     THEN /\ tasks' = tasks \cup a.tasks /\ storages' = storages \cup a.storages
          /\ channels' = channels \cup a.channels /\ handlers' = handlers \cup a.handlers
          /\ reboot' = reboot \cup a.reboot
          /\ paths' = [path \in Paths |->
                         IF path \in a.paths THEN paths[path] + 1 ELSE paths[path]]
          /\ UNCHANGED state
     ELSE state' = "stopped" /\ UNCHANGED added
  /\ UNCHANGED failed

\* A call to a driver fails: the buses' and the ADC's add() return no device,
\* the others are checked on the spot.
DriverFails ==
  /\ state = "build"
  /\ state' = "stopped" /\ failed' = TRUE
  /\ UNCHANGED <<asked, added>>

\* SystemPipeline::start(), which does not return.
Start ==
  /\ state = "build" /\ state' = "run"
  /\ UNCHANGED <<asked, failed, added>>

\* The network connects and the HTTP server registers its endpoints; one that
\* is registered already is refused.
StartServer ==
  /\ state = "run" /\ "http" \in Kinds
  /\ state' = IF \E path \in Paths : paths[path] > 1 THEN "stopped" ELSE state
  /\ UNCHANGED <<asked, failed, added>>

Next ==
  \/ \E p \in Pipelines : Construct(p)
  \/ DriverFails \/ Start \/ StartServer

Spec == Init /\ [][Next]_vars

(***************************************************************************)
(* Properties                                                              *)
(***************************************************************************)

Twice(S) == \E c, d \in Copies : c # d /\ c[1] \in S /\ d[1] \in S
OfKinds(K) == {p \in Pipelines : p.kind \in K}

\* Two pipelines that cannot be in one firmware: the same pipeline twice, two
\* soil sensors (with a relay or without, whatever their identifiers and
\* channels), two sensors of one identifier or one channel.
Conflict ==
  \/ \E k \in {"data", "console", "network", "http", "sht41", "bme280"} :
       Twice(OfKinds({k}))
  \/ Twice(OfKinds({"soil", "relay"}))
  \/ \E i \in Ids :
       Twice({p \in OfKinds({"soil", "relay", "ldr", "ds18b20"}) : p.id = i})
  \/ \E c \in Channels : Twice({p \in OfKinds({"soil", "relay", "ldr"}) : p.channel = c})

\* How many tasks a pipeline adds to the scheduler.
TasksOf(p) ==
  CASE p.kind \in {"soil", "relay", "console"} -> 2
    [] p.kind \in {"data", "ldr", "sht41", "bme280", "ds18b20"} -> 1
    [] OTHER -> 0

\* The task of the system pipeline and those of all pipelines asked for are
\* more than the scheduler takes.
TasksAskedFor == UNION {{copy} \X (1 .. TasksOf(copy[1])) : copy \in Copies}
TooManyTasks == 1 + Cardinality(TasksAskedFor) > MaxCount

EndpointTwice ==
  \E k \in {"time", "web", "ds18b20 handler", "sht41 handler"} : Twice(OfKinds({k}))

\* Whether a set of pipelines makes a firmware does not depend on the order
\* they are constructed in: unless a driver fails, the device stops because
\* two of them are in conflict or there are too many tasks, or, once the server
\* starts, because an endpoint is there twice; and what runs shares nothing and
\* saves on a reboot whatever it saves from time to time.
AssemblyAccounted ==
  /\ state = "stopped" => failed \/ Conflict \/ TooManyTasks \/ EndpointTwice
  /\ state # "stopped" => ~Conflict /\ ~TooManyTasks
  /\ state = "run" =>
       tasks \cap {<<"soil_fsm">>, <<"lifetime_counter_task">>} \subseteq reboot
=============================================================================
