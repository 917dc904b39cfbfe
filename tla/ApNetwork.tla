------------------------------- MODULE ApNetwork -------------------------------
(***************************************************************************)
(* net::ApNetwork, started by LocalNetworkPipeline on the main task, with  *)
(* the HTTP server that HttpPipeline runs while the network is up.         *)
(*                                                                         *)
(* Three tasks: main calls start(), the event task of ESP-IDF takes events *)
(* in order and runs their handlers under mu_, the callbacks to            *)
(* HttpPipeline included, and the HTTP task serves requests, some of which *)
(* read the network through get_info() (ApNetworkFormatter).               *)
(*                                                                         *)
(* mu_ is held over more than one step only while the event task is inside *)
(* httpd_stop(); every other critical section is one step.                 *)
(***************************************************************************)
EXTENDS Naturals, Sequences, HttpServer

CONSTANTS
  MaxConnection,   \* Params::max_connection
  ReadsNetwork,    \* may a request call ApNetwork::get_info()?
  MaxEvents        \* bound: events pending at once

MaxConnectionAssumption == MaxConnection \in Nat
ReadsNetworkAssumption == ReadsNetwork \in BOOLEAN
MaxEventsAssumption == MaxEvents \in Nat \ {0}

VARIABLES
  main,              \* LocalNetworkPipeline::start, see TypeOK
  code,              \* ApNetwork::code_
  waiting,           \* is the handle of main in Cond::tasks_?
  notified,          \* notification pending for main
  connection_count,  \* ApNetwork::connection_count_
  wifi,              \* is the access point on?
  stations,          \* stations that have joined it
  events             \* events of the default loop, oldest first

netVars == <<code, waiting, notified, connection_count>>
wifiVars == <<wifi, stations, events>>
vars == <<main, netVars, wifiVars, httpVars>>

TypeOK ==
  /\ HttpTypeOK
  \* "init": before start(); "check", "blocked": in wait(); "failed": before
  \* stop_(); then "OK" or "Error" as start() returned
  /\ main \in {"init", "check", "blocked", "failed", "OK", "Error"}
  /\ code \in {"Last", "OK", "Error"}
  /\ waiting \in BOOLEAN
  /\ notified \in BOOLEAN
  /\ connection_count \in 0..MaxConnection
  /\ wifi \in {"on", "off"}
  /\ stations \in 0..MaxConnection
  /\ events \in Seq({"START", "STOP", "JOINED", "LEFT"})

Init ==
  /\ HttpInit
  /\ main = "init"
  /\ code = "Last"
  /\ waiting = FALSE
  /\ notified = FALSE
  /\ connection_count = 0
  /\ wifi = "off"
  /\ stations = 0
  /\ events = <<>>

(* No task holds mu_. *)
MutexFree == server # "stopping"

-----------------------------------------------------------------------------
(* start_(): esp_wifi_start() posts AP_START, or fails. *)
Start ==
  /\ main = "init"
  /\ \/ /\ wifi' = "on"
        /\ events' = Append(events, "START")
        /\ main' = "check"
     \/ /\ main' = "failed"
        /\ UNCHANGED <<wifi, events>>
  /\ UNCHANGED <<netVars, stations, httpVars>>

(* One round of ApNetwork::wait, under mu_. *)
WaitCheck ==
  /\ main = "check"
  /\ MutexFree
  /\ main' = CASE code = "Last"  -> "blocked"
               [] code = "OK"    -> "OK"
               [] code = "Error" -> "failed"
  /\ waiting' = (waiting \/ code = "Last")
  /\ UNCHANGED <<code, notified, connection_count, wifiVars, httpVars>>

NotifyTake ==
  /\ main = "blocked"
  /\ notified
  /\ notified' = FALSE
  /\ main' = "check"
  /\ UNCHANGED <<code, waiting, connection_count, wifiVars, httpVars>>

(* wait_start_interval_ passed; Cond::wait takes mu_ before it returns. *)
WaitTimeout ==
  /\ main = "blocked"
  /\ ~ notified
  /\ MutexFree
  /\ main' = "failed"
  /\ UNCHANGED <<netVars, wifiVars, httpVars>>

(* Mutant of Stop: a failed start() leaves the access point on. *)
StopForgotten ==
  /\ main = "failed"
  /\ main' = "Error"
  /\ UNCHANGED <<netVars, wifiVars, httpVars>>

(* stop_() after a failure: esp_wifi_stop() sends the stations away and    *)
(* posts AP_STOP.  It only fails without esp_wifi_init(), which the        *)
(* constructor checks.                                                     *)
Stop ==
  /\ main = "failed"
  /\ main' = "Error"
  /\ wifi' = "off"
  /\ stations' = 0
  /\ events' = IF wifi = "on"
               THEN events \o [i \in 1..stations |-> "LEFT"] \o <<"STOP">>
               ELSE events
  /\ UNCHANGED <<netVars, httpVars>>

-----------------------------------------------------------------------------
(* The event task takes the next event, and its handler takes mu_. *)
Take(event) ==
  /\ MutexFree
  /\ events # <<>>
  /\ Head(events) = event
  /\ events' = Tail(events)
  /\ UNCHANGED <<main, wifi, stations>>

(* cond_.broadcast() *)
Broadcast ==
  /\ notified' = (notified \/ waiting)
  /\ waiting' = FALSE

(* handle_wifi_event_ap_sta_start_, with HttpPipeline::handle_connect. *)
HandleStart ==
  /\ Take("START")
  /\ code' = "OK"
  /\ Broadcast
  /\ ServerStart
  /\ UNCHANGED connection_count

(* handle_wifi_event_ap_sta_stop_, up to the httpd_stop() in               *)
(* HttpPipeline::handle_disconnect ...                                     *)
HandleStop ==
  /\ Take("STOP")
  /\ code' = "Error"
  /\ Broadcast
  /\ ServerStopBegin
  /\ UNCHANGED connection_count

(* ... and from there to its end. *)
HandleStopEnd ==
  /\ ServerStopEnd
  /\ UNCHANGED <<main, netVars, wifiVars>>

HandleJoined ==
  /\ Take("JOINED")
  /\ connection_count' = connection_count + 1
  /\ UNCHANGED <<code, waiting, notified, httpVars>>

(* Mutant of HandleLeft: the station that left is still counted. *)
HandleLeftUncounted ==
  /\ Take("LEFT")
  /\ UNCHANGED <<netVars, httpVars>>

HandleLeft ==
  /\ Take("LEFT")
  /\ connection_count' = connection_count - 1
  /\ UNCHANGED <<code, waiting, notified, httpVars>>

HandleEvent == HandleStart \/ HandleStop \/ HandleStopEnd \/ HandleJoined \/ HandleLeft

-----------------------------------------------------------------------------
(* A station joins or leaves. *)
Join ==
  /\ wifi = "on"
  /\ stations < MaxConnection
  /\ Len(events) < MaxEvents
  /\ stations' = stations + 1
  /\ events' = Append(events, "JOINED")
  /\ UNCHANGED <<main, netVars, wifi, httpVars>>

Leave ==
  /\ stations > 0
  /\ Len(events) < MaxEvents
  /\ stations' = stations - 1
  /\ events' = Append(events, "LEFT")
  /\ UNCHANGED <<main, netVars, wifi, httpVars>>

(* The HTTP task; get_info() takes mu_. *)
Request ==
  /\ stations > 0
  /\ RequestBegin
  /\ UNCHANGED <<main, netVars, wifiVars>>

Serve ==
  /\ \/ RequestServe /\ (ReadsNetwork => MutexFree)
     \/ RequestEnd
  /\ UNCHANGED <<main, netVars, wifiVars>>

-----------------------------------------------------------------------------
Main == Start \/ WaitCheck \/ NotifyTake \/ WaitTimeout \/ Stop

Next == Main \/ HandleEvent \/ Join \/ Leave \/ Request \/ Serve

Spec == Init /\ [][Next]_vars

(* Each task runs on as long as it can; stations and requests come and go  *)
(* as they like.  A wait with a limit ends.                                *)
FairSpec == Spec /\ WF_vars(Main) /\ WF_vars(HandleEvent) /\ WF_vars(Serve)

-----------------------------------------------------------------------------
(* Whatever the order of events, requests and the end of the wait, the     *)
(* HTTP server never runs while code_ says that the network is down.       *)
ServerFollowsNetwork == server = "running" => code = "OK"

(* connection_count_, a uint8_t that is counted up and down by the events, *)
(* never passes 0 or max_connection, however far the events lag behind the *)
(* stations and whatever stop_() adds to them; and it is right when they   *)
(* have all been handled.                                                  *)
ConnectionsCounted ==
  /\ connection_count \in 0..MaxConnection
  /\ events = <<>> => connection_count = stations

(* "Stop HTTP server" (server.h): when start() has failed and stopped the  *)
(* access point, the server started by a late START is stopped for good.   *)
FailedStartStopsServer == main = "Error" ~> [](server = "stopped" /\ code # "OK")
===============================================================================
