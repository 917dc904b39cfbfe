---------------------------- MODULE MCHttpHandlers ----------------------------
(***************************************************************************)
(* HttpHandlers with a device of two counters, a DS18B20 sensor and a      *)
(* task.                                                                   *)
(***************************************************************************)
EXTENDS HttpHandlers

MCCounters == <<"c_lifetime", "c_uptime">>
MCDs18b20Ids == <<"soil_temp">>
MCTasks == <<"main">>
===============================================================================
