------------------------------ MODULE StaNetwork ------------------------------
(***************************************************************************)
(* net::StaNetwork with the HTTP server that HttpPipeline runs while the   *)
(* station is connected.  The application's task starts the network, waits *)
(* for the connection without a limit, and may stop and start it again;    *)
(* the event task of ESP-IDF takes events in order, counts the attempts to *)
(* connect and calls HttpPipeline.  There is no mutex: the two tasks share *)
(* the bits of an event group, and whatever a handler does after its first *)
(* access to them is a step of its own (handling).                         *)
(***************************************************************************)
EXTENDS Naturals, Sequences, HttpServer

CONSTANTS
  max_retry_count,   \* Params::max_retry_count
  ConnectFails,      \* may esp_wifi_connect() return an error?
  MaxStarts,         \* bound: calls of start()
  MaxLosses          \* bound: connections lost or refused

MaxRetryAssumption == max_retry_count \in Nat
ConnectFailsAssumption == ConnectFails \in BOOLEAN
BoundsAssumption == MaxStarts \in Nat /\ MaxLosses \in Nat

VARIABLES
  app,           \* the application: "stopped", "started", "waiting", "waited"
  result,        \* what its last wait() returned, "none" before it did
  bits,          \* event_group_
  retry_count,   \* StaNetwork::retry_count_
  wifi,          \* the driver: "off", "idle", "connecting", "connected"
  events,        \* events of the default loop, oldest first
  handling,      \* where the event task is in a handler, see TypeOK
  \* history
  starts,        \* calls of start()
  losses,        \* connections lost or refused
  start_failed   \* did the last httpd_start() leave the server stopped?

appVars == <<app, result, starts>>
driverVars == <<wifi, events, losses>>
vars == <<appVars, bits, retry_count, driverVars, handling, start_failed, httpVars>>

TypeOK ==
  /\ HttpTypeOK
  /\ app \in {"stopped", "started", "waiting", "waited"}
  /\ result \in {"none", "OK", "Error"}
  /\ bits \subseteq {"CONNECTED", "FAILED"}
  /\ retry_count \in 0..max_retry_count
  /\ wifi \in {"off", "idle", "connecting", "connected"}
  /\ events \in Seq({"START", "DISCONNECTED", "GOT_IP"})
  \* "lost": the bit is cleared; "disconnect", "connect": before the call of
  \* HttpPipeline; "stop": inside httpd_stop()
  /\ handling \in {"none", "lost", "disconnect", "stop", "connect"}
  /\ starts \in 0..MaxStarts
  /\ losses \in Nat
  /\ start_failed \in BOOLEAN

Init ==
  /\ HttpInit
  /\ app = "stopped"
  /\ result = "none"
  /\ bits = {}
  /\ retry_count = 0
  /\ wifi = "off"
  /\ events = <<>>
  /\ handling = "none"
  /\ starts = 0
  /\ losses = 0
  /\ start_failed = FALSE

-----------------------------------------------------------------------------
(* start(): esp_wifi_start() posts STA_START. *)
Start ==
  /\ app = "stopped"
  /\ wifi = "off"
  /\ starts < MaxStarts
  /\ starts' = starts + 1
  /\ app' = "started"
  /\ wifi' = "idle"
  /\ events' = Append(events, "START")
  /\ UNCHANGED <<result, bits, retry_count, losses, handling, start_failed, httpVars>>

(* wait() returns on either bit, and CONNECTED goes first.  A bit that is  *)
(* set while the task waits ends the wait there and then.                  *)
Outcome(set) == IF "CONNECTED" \in set THEN "OK" ELSE "Error"

Wait ==
  /\ app = "started"
  /\ IF bits = {} THEN app' = "waiting" /\ UNCHANGED result
                  ELSE app' = "waited" /\ result' = Outcome(bits)
  /\ UNCHANGED <<starts, bits, retry_count, driverVars, handling, start_failed, httpVars>>

(* xEventGroupSetBits() *)
SetBit(bit, set) ==
  /\ bits' = set \cup {bit}
  /\ IF app = "waiting" THEN app' = "waited" /\ result' = Outcome(bits')
                        ELSE UNCHANGED <<app, result>>

(* stop(): esp_wifi_stop(); a station with a connection or an attempt is   *)
(* told of its end.                                                        *)
Stop ==
  /\ app = "waited"
  /\ app' = "stopped"
  /\ wifi' = "off"
  /\ events' = IF wifi \in {"connecting", "connected"}
               THEN Append(events, "DISCONNECTED") ELSE events
  /\ UNCHANGED <<result, starts, bits, retry_count, losses, handling, start_failed,
                 httpVars>>

-----------------------------------------------------------------------------
(* The event task takes the next event. *)
Take(event) ==
  /\ handling = "none"
  /\ events # <<>>
  /\ Head(events) = event
  /\ events' = Tail(events)
  /\ UNCHANGED <<starts, losses>>

(* esp_wifi_connect() begins an attempt, or returns an error.  A driver    *)
(* that is off, connecting or connected stays as it is.                    *)
Connect ==
  \E ok \in {TRUE, ~ ConnectFails} :
    wifi' = IF ok /\ wifi = "idle" THEN "connecting" ELSE wifi

HandleStart ==
  /\ Take("START")
  /\ Connect
  /\ UNCHANGED <<app, result, bits, retry_count, handling, start_failed, httpVars>>

(* Mutant of HandleDisconnected: the bit of the connection stays. *)
HandleDisconnectedUncleared ==
  /\ Take("DISCONNECTED")
  /\ handling' = "lost"
  /\ UNCHANGED <<app, result, bits, retry_count, wifi, start_failed, httpVars>>

(* handle_wifi_event_sta_disconnected_ clears the bit, ... *)
HandleDisconnected ==
  /\ Take("DISCONNECTED")
  /\ bits' = bits \ {"CONNECTED"}
  /\ handling' = "lost"
  /\ UNCHANGED <<app, result, retry_count, wifi, start_failed, httpVars>>

(* ... tries again ... *)
Retry ==
  /\ handling = "lost"
  /\ retry_count < max_retry_count
  /\ retry_count' = retry_count + 1
  /\ Connect
  /\ handling' = "disconnect"
  /\ UNCHANGED <<appVars, bits, events, losses, start_failed, httpVars>>

(* Mutant of GiveUp: FAILED is not set. *)
GiveUpSilently ==
  /\ handling = "lost"
  /\ retry_count >= max_retry_count
  /\ handling' = "disconnect"
  /\ UNCHANGED <<appVars, bits, retry_count, driverVars, start_failed, httpVars>>

(* ... or no more, which wakes the application, ... *)
GiveUp ==
  /\ handling = "lost"
  /\ retry_count >= max_retry_count
  /\ SetBit("FAILED", bits)
  /\ handling' = "disconnect"
  /\ UNCHANGED <<starts, retry_count, driverVars, start_failed, httpVars>>

(* ... and calls HttpPipeline::handle_disconnect, up to httpd_stop() ... *)
HandleDisconnect ==
  /\ handling = "disconnect"
  /\ ServerStopBegin
  /\ handling' = IF server = "running" THEN "stop" ELSE "none"
  /\ UNCHANGED <<appVars, bits, retry_count, driverVars, start_failed>>

(* ... and from there to its end. *)
HandleDisconnectEnd ==
  /\ handling = "stop"
  /\ ServerStopEnd
  /\ handling' = "none"
  /\ UNCHANGED <<appVars, bits, retry_count, driverVars, start_failed>>

(* handle_ip_event_sta_got_ip_ sets the bit, which wakes the application, ... *)
HandleGotIp ==
  /\ Take("GOT_IP")
  /\ retry_count' = 0
  /\ SetBit("CONNECTED", bits)
  /\ handling' = "connect"
  /\ UNCHANGED <<wifi, start_failed, httpVars>>

(* ... and calls HttpPipeline::handle_connect. *)
HandleConnect ==
  /\ handling = "connect"
  /\ ServerStart
  /\ start_failed' = (server = "stopped" /\ server' = "stopped")
  /\ handling' = "none"
  /\ UNCHANGED <<appVars, bits, retry_count, driverVars>>

HandleEvent ==
  \/ HandleStart
  \/ HandleDisconnected \/ Retry \/ GiveUp \/ HandleDisconnect \/ HandleDisconnectEnd
  \/ HandleGotIp \/ HandleConnect

-----------------------------------------------------------------------------
(* The driver ends an attempt: connected, with an address, or refused. *)
AttemptEnds ==
  /\ wifi = "connecting"
  /\ \/ /\ wifi' = "connected"
        /\ events' = Append(events, "GOT_IP")
        /\ UNCHANGED losses
     \/ /\ losses < MaxLosses
        /\ losses' = losses + 1
        /\ wifi' = "idle"
        /\ events' = Append(events, "DISCONNECTED")
  /\ UNCHANGED <<appVars, bits, retry_count, handling, start_failed, httpVars>>

ConnectionLost ==
  /\ wifi = "connected"
  /\ losses < MaxLosses
  /\ losses' = losses + 1
  /\ wifi' = "idle"
  /\ events' = Append(events, "DISCONNECTED")
  /\ UNCHANGED <<appVars, bits, retry_count, handling, start_failed, httpVars>>

(* A connected station gets another address. *)
AddressChanged ==
  /\ wifi = "connected"
  /\ events = <<>>
  /\ events' = <<"GOT_IP">>
  /\ UNCHANGED <<appVars, bits, retry_count, wifi, losses, handling, start_failed,
                 httpVars>>

(* The HTTP task.  get_info() takes no mutex, requests are just served. *)
Request ==
  /\ wifi = "connected"
  /\ RequestBegin
  /\ UNCHANGED <<appVars, bits, retry_count, driverVars, handling, start_failed>>

Serve ==
  /\ RequestServe \/ RequestEnd
  /\ UNCHANGED <<appVars, bits, retry_count, driverVars, handling, start_failed>>

-----------------------------------------------------------------------------
Next ==
  \/ Start \/ Wait \/ Stop
  \/ HandleEvent
  \/ AttemptEnds \/ ConnectionLost \/ AddressChanged
  \/ Request \/ Serve

Spec == Init /\ [][Next]_vars

(* Each task runs on as long as it can, and the driver ends every attempt. *)
(* Connections may last or not, and the application may stop or not.       *)
FairSpec ==
  Spec /\ WF_vars(HandleEvent) /\ WF_vars(AttemptEnds) /\ WF_vars(Serve)

-----------------------------------------------------------------------------
(* The server outlives the bit of the connection only inside the handler   *)
(* that cleared it; it is up with the bit, a new address included, once    *)
(* HttpPipeline was told, unless httpd_start() failed; and when the event  *)
(* task has caught up, the bit says what the driver does: no order of      *)
(* connections, losses, stops and starts leaves the three out of step.     *)
CaughtUp == events = <<>> /\ handling = "none"

ServerFollowsConnection ==
  /\ server = "running" => "CONNECTED" \in bits \/ handling \in {"lost", "disconnect"}
  /\ "CONNECTED" \in bits /\ handling # "connect" => server = "running" \/ start_failed
  /\ CaughtUp => ("CONNECTED" \in bits <=> wifi = "connected")

(* "Wait for the WiFi connection to be established" (sta_network.h): a     *)
(* wait without limit ends, with a connection or when it has failed.       *)
EveryWaitReturns == app = "waiting" ~> app = "waited"
===============================================================================
