------------------------ MODULE MCAsyncFuncScheduler ------------------------
(***************************************************************************)
(* AsyncFuncScheduler with a few clients: one AsyncFunc (patient) and HTTP *)
(* handlers that may give up.                                              *)
(***************************************************************************)
EXTENDS AsyncFuncScheduler

CONSTANTS rebooter, http

MCClients == {rebooter, http}
MCPatient == {rebooter}
MCCodes == {"OK", "Error"}
=============================================================================
