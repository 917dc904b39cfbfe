------------------------------ MODULE HttpServer ------------------------------
(***************************************************************************)
(* http::Server on the HTTP server of ESP-IDF.  The network event task     *)
(* starts and stops it through HttpPipeline; a task of its own handles one *)
(* request after the other.  httpd_stop() returns when that task is done   *)
(* with the request in hand.                                               *)
(***************************************************************************)
VARIABLES
  server,   \* handle_: "stopped" when null; "stopping" inside httpd_stop()
  request   \* the HTTP task: "none", "begun" a request, "served" its handler

httpVars == <<server, request>>

HttpTypeOK ==
  /\ server \in {"stopped", "running", "stopping"}
  /\ request \in {"none", "begun", "served"}
  /\ server = "stopped" => request = "none"

HttpInit ==
  /\ server = "stopped"
  /\ request = "none"

(* Server::start: httpd_start() may fail, and it does on a running server, *)
(* whose port is in use.  start() does not look at handle_ before, and a   *)
(* httpd_start() that fails leaves it.                                     *)
ServerStart ==
  /\ \/ server = "stopped" /\ server' = "running"
     \/ UNCHANGED server
  /\ UNCHANGED request

(* Mutant of ServerStopBegin: the server is not stopped. *)
ServerStopForgotten == UNCHANGED httpVars

(* Server::stop calls httpd_stop() if there is a handle, ... *)
ServerStopBegin ==
  /\ server' = IF server = "running" THEN "stopping" ELSE server
  /\ UNCHANGED request

(* ... which returns when no request is in hand. *)
ServerStopEnd ==
  /\ server = "stopping"
  /\ request = "none"
  /\ server' = "stopped"
  /\ UNCHANGED request

(* The HTTP task accepts a request and calls handle_request_get_(). *)
RequestBegin ==
  /\ server = "running"
  /\ request = "none"
  /\ request' = "begun"
  /\ UNCHANGED server

(* The handler got what it needs from the rest of the system. *)
RequestServe ==
  /\ request = "begun"
  /\ request' = "served"
  /\ UNCHANGED server

(* The response, or an error response, is sent. *)
RequestEnd ==
  /\ request = "served"
  /\ request' = "none"
  /\ UNCHANGED server
===============================================================================
