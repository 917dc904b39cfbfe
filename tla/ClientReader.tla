------------------------------ MODULE ClientReader ------------------------------
(***************************************************************************)
(* ocs_http/client_reader.cpp: the events of esp_http_client, on the task  *)
(* that performs the requests, fill a buffer; another task waits for the   *)
(* response and reads it.  wait() and read() hold mu_ but while Cond::wait *)
(* waits for a notification, so what they do under it is one step.         *)
(***************************************************************************)
EXTENDS Naturals, Sequences

CONSTANTS
  MaxParts,     \* bound: the parts of a response
  MaxRequests,  \* bound: the requests performed with one reader
  MaxWaits,     \* bound: how often cond_ may hold the waiting task at a wait
  MaxStrays     \* notifications of the waiting task by others

ClientReaderAssumption ==
  /\ MaxParts \in Nat /\ MaxRequests \in Nat
  /\ MaxWaits \in Nat /\ MaxStrays \in Nat

VARIABLES
  request,         \* the number of the request performed, or performed last
  size,            \* the parts of its response
  left,            \* those of them that are still to come
  performing,      \* it is under way
  data_received_,  \* ClientReader::data_received_
  buf_,            \* the parts in ClientReader::buf_, as <<request, left>>
  tasks_,          \* how often cond_ has the waiting task
  notifications,   \* its notification count
  reader,          \* where it is
  patient,         \* it waits without a limit
  strays,          \* the notifications sent by others
  finished         \* the requests that finished, with their size (history)

clientVars == <<request, size, left, performing, finished>>
vars == <<clientVars, data_received_, buf_, tasks_, notifications, reader,
          patient, strays>>

TypeOK ==
  /\ request \in 0 .. MaxRequests /\ {size, left} \subseteq 0 .. MaxParts
  /\ {performing, data_received_, patient} \subseteq BOOLEAN
  /\ buf_ \in Seq((1 .. MaxRequests) \X (1 .. MaxParts))
  /\ finished \subseteq (1 .. MaxRequests) \X (0 .. MaxParts)
  /\ tasks_ \in Nat /\ notifications \in Nat
  /\ reader \in {"idle", "wait", "notified", "read"}
  /\ strays \in 0 .. MaxStrays

Init ==
  /\ request = 0 /\ size = 0 /\ left = 0 /\ performing = FALSE
  /\ data_received_ = FALSE /\ buf_ = <<>>
  /\ tasks_ = 0 /\ notifications = 0 /\ reader = "idle" /\ patient = FALSE
  /\ strays = 0 /\ finished = {}

\* esp_http_client_perform(), of a response of n parts.
Perform(n) ==
  /\ ~performing /\ request < MaxRequests
  /\ request' = request + 1 /\ size' = n /\ left' = n /\ performing' = TRUE
  /\ UNCHANGED <<finished, data_received_, buf_, tasks_, notifications, reader,
                 patient, strays>>

\* HTTP_EVENT_ON_DATA
HandleData ==
  /\ performing /\ left > 0
  /\ buf_' = Append(buf_, <<request, left>>)
  /\ left' = left - 1
  /\ UNCHANGED <<request, size, performing, finished, data_received_, tasks_,
                 notifications, reader, patient, strays>>

\* HTTP_EVENT_ON_FINISH
HandleFinish ==
  /\ performing /\ left = 0
  /\ performing' = FALSE /\ data_received_' = TRUE
  /\ finished' = finished \cup {<<request, size>>}
  /\ notifications' = notifications + tasks_ /\ tasks_' = 0
  /\ UNCHANGED <<request, size, left, buf_, reader, patient, strays>>

\* HTTP_EVENT_ERROR and HTTP_EVENT_DISCONNECTED are only logged: the reader is
\* not told.
HandleError ==
  /\ performing
  /\ performing' = FALSE
  /\ UNCHANGED <<request, size, left, finished, data_received_, buf_, tasks_,
                 notifications, reader, patient, strays>>

\* The check of wait(), made when it begins and after every notification:
\* Cond::wait appends the task before it unlocks mu_.
Check ==
  IF data_received_ THEN reader' = "read" /\ UNCHANGED tasks_
                    ELSE reader' = "wait" /\ tasks_' = tasks_ + 1

Wait ==
  /\ reader = "idle" /\ tasks_ < MaxWaits
  /\ patient' \in BOOLEAN
  /\ Check
  /\ UNCHANGED <<clientVars, data_received_, buf_, notifications, strays>>

NotifyTake ==
  /\ reader = "wait" /\ notifications > 0
  /\ notifications' = 0 /\ reader' = "notified"
  /\ UNCHANGED <<clientVars, data_received_, buf_, tasks_, patient, strays>>

\* Mutant of Recheck: a notification is taken for the response.
RecheckNot ==
  /\ reader = "notified" /\ reader' = "read"
  /\ UNCHANGED <<clientVars, data_received_, buf_, tasks_, notifications, patient,
                 strays>>

Recheck ==
  /\ reader = "notified"
  /\ Check
  /\ UNCHANGED <<clientVars, data_received_, buf_, notifications, patient, strays>>

\* The limit passes; tasks_ keeps the task.
WaitTimeout ==
  /\ reader = "wait" /\ ~patient
  /\ reader' = "idle"
  /\ UNCHANGED <<clientVars, data_received_, buf_, tasks_, notifications, patient,
                 strays>>

\* read() copies and leaves buf_ as it is.
Read ==
  /\ reader = "read" /\ reader' = "idle"
  /\ UNCHANGED <<clientVars, data_received_, buf_, tasks_, notifications, patient,
                 strays>>

Stray ==
  /\ strays < MaxStrays
  /\ strays' = strays + 1 /\ notifications' = notifications + 1
  /\ UNCHANGED <<clientVars, data_received_, buf_, tasks_, reader, patient>>

Next ==
  \/ \E n \in 0 .. MaxParts : Perform(n)
  \/ HandleData \/ HandleFinish \/ HandleError
  \/ Wait \/ NotifyTake \/ Recheck \/ WaitTimeout \/ Read \/ Stray

Spec == Init /\ [][Next]_vars

(***************************************************************************)
(* Properties                                                              *)
(***************************************************************************)

\* The parts of a response are in the buffer one after the other, in the order
\* they came, and nowhere else.
Holds(f) ==
  \E k \in 0 .. Len(buf_) :
    /\ k + f[2] <= Len(buf_)
    /\ \A j \in 1 .. Len(buf_) :
         IF k < j /\ j <= k + f[2] THEN buf_[j] = <<f[1], f[2] + 1 - (j - k)>>
         ELSE buf_[j][1] # f[1]

\* A task that reads after wait() said OK finds a response to its last part,
\* whatever notifications it got and however its earlier waits and other
\* requests ended; and it does not wait for a response that is there with
\* nobody left to notify it.  Of which request the response is, and what else
\* is in front of it, the reader does not tell: data_received_ and buf_ are
\* never cleared.
ResponseIsRead ==
  /\ reader = "read" => \E f \in finished : Holds(f)
  /\ reader = "wait" /\ data_received_ => notifications > 0
=============================================================================
