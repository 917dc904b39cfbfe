----------------------------- MODULE NetworkProofs -----------------------------
(***************************************************************************)
(* Proofs about the parts that the network starts, stops and suspends: the *)
(* access point and the station with the HTTP server, the suspender, and   *)
(* the reader of responses.  They are for any number of stations, events,  *)
(* retries, handlers, services, requests and parts.                        *)
(***************************************************************************)
EXTENDS Components, SequenceTheorems, TLAPS

(* A step of Components is a step of the part, or leaves it as it is. *)
LEMMA NetworkStep ==
  ASSUME [Next]_vars
  PROVE  /\ [AP!Next]_(AP!vars)
         /\ [STA!Next]_(STA!vars)
         /\ [SU!Next]_(SU!vars)
         /\ [CR!Next]_(CR!vars)
<1>1. [AP!Next]_(AP!vars)
  <2>1. CASE UNCHANGED AP_vars
    BY <2>1 DEF AP_vars, AP!vars, AP!netVars, AP!wifiVars, AP!httpVars
  <2>2. CASE OnlyAP /\ AP!Next
    BY <2>2
  <2>3. QED
    BY <2>1, <2>2 DEF Next, vars,
       OnlySTA, OnlyAT, OnlyPT, OnlyDL, OnlySU, OnlyCR, OnlyAS, OnlyFS,
       OnlyBME, OnlySHT, OnlyOWS, OnlyOWB, OnlyFW
<1>2. [STA!Next]_(STA!vars)
  <2>1. CASE UNCHANGED STA_vars
    BY <2>1 DEF STA_vars, STA!vars, STA!appVars, STA!driverVars, STA!httpVars
  <2>2. CASE OnlySTA /\ STA!Next
    BY <2>2
  <2>3. QED
    BY <2>1, <2>2 DEF Next, vars,
       OnlyAP, OnlyAT, OnlyPT, OnlyDL, OnlySU, OnlyCR, OnlyAS, OnlyFS,
       OnlyBME, OnlySHT, OnlyOWS, OnlyOWB, OnlyFW
<1>3. [SU!Next]_(SU!vars)
  <2>1. CASE UNCHANGED SU_vars
    BY <2>1 DEF SU_vars, SU!vars
  <2>2. CASE OnlySU /\ SU!Next
    BY <2>2
  <2>3. QED
    BY <2>1, <2>2 DEF Next, vars,
       OnlyAP, OnlySTA, OnlyAT, OnlyPT, OnlyDL, OnlyCR, OnlyAS, OnlyFS,
       OnlyBME, OnlySHT, OnlyOWS, OnlyOWB, OnlyFW
<1>4. [CR!Next]_(CR!vars)
  <2>1. CASE UNCHANGED CR_vars
    BY <2>1 DEF CR_vars, CR!vars, CR!clientVars
  <2>2. CASE OnlyCR /\ CR!Next
    BY <2>2
  <2>3. QED
    BY <2>1, <2>2 DEF Next, vars,
       OnlyAP, OnlySTA, OnlyAT, OnlyPT, OnlyDL, OnlySU, OnlyAS, OnlyFS,
       OnlyBME, OnlySHT, OnlyOWS, OnlyOWB, OnlyFW
<1>5. QED
  BY <1>1, <1>2, <1>3, <1>4

(* In Components, each of the parts behaves as its module says, so that    *)
(* what follows is about the modules as well.                              *)
THEOREM NetworkSpecs ==
  Spec => AP!Spec /\ STA!Spec /\ SU!Spec /\ CR!Spec
<1>1. Init => AP!Init /\ STA!Init /\ SU!Init /\ CR!Init
  BY DEF Init
<1>2. [Next]_vars =>
        /\ [AP!Next]_(AP!vars)
        /\ [STA!Next]_(STA!vars)
        /\ [SU!Next]_(SU!vars)
        /\ [CR!Next]_(CR!vars)
  BY NetworkStep
<1>3. QED
  BY <1>1, <1>2, PTL DEF Spec, AP!Spec, STA!Spec, SU!Spec, CR!Spec

(***************************************************************************)
(* The access point                                                        *)
(***************************************************************************)

(* The HTTP server is stopped in the same critical section in which code_  *)
(* says that the network is down: the order of events does not matter.     *)
LEMMA ApServerStep ==
  ASSUME AP!ServerFollowsNetwork, [AP!Next]_(AP!vars)
  PROVE  AP!ServerFollowsNetwork'
<1> USE DEF AP!ServerFollowsNetwork, AP!netVars, AP!wifiVars, AP!httpVars
<1>1. CASE AP!HandleStart
  BY <1>1 DEF AP!HandleStart
<1>2. CASE AP!HandleStop
  BY <1>2 DEF AP!HandleStop, AP!ServerStopBegin
<1>3. CASE AP!HandleStopEnd
  BY <1>3 DEF AP!HandleStopEnd, AP!ServerStopEnd
<1>4. CASE AP!HandleJoined \/ AP!HandleLeft
  BY <1>4 DEF AP!HandleJoined, AP!HandleLeft
<1>5. CASE AP!Main
  BY <1>5 DEF AP!Main, AP!Start, AP!WaitCheck, AP!NotifyTake, AP!WaitTimeout, AP!Stop
<1>6. CASE AP!Join \/ AP!Leave
  BY <1>6 DEF AP!Join, AP!Leave
<1>7. CASE AP!Request \/ AP!Serve
  BY <1>7 DEF AP!Request, AP!Serve, AP!RequestBegin, AP!RequestServe, AP!RequestEnd
<1>8. CASE UNCHANGED AP!vars
  BY <1>8 DEF AP!vars
<1>9. QED
  BY <1>1, <1>2, <1>3, <1>4, <1>5, <1>6, <1>7, <1>8 DEF AP!Next, AP!HandleEvent

(* The HTTP server runs only while code_ of ApNetwork says that the        *)
(* network is up, whatever the order of events, requests and the timeout   *)
(* of the wait.                                                            *)
THEOREM ApServer == Spec => []ServerFollowsNetwork
<1>1. AP!Init => AP!ServerFollowsNetwork
  BY DEF AP!Init, AP!HttpInit, AP!ServerFollowsNetwork
<1>2. AP!ServerFollowsNetwork /\ [AP!Next]_(AP!vars) => AP!ServerFollowsNetwork'
  BY ApServerStep
<1>3. AP!ServerFollowsNetwork => ServerFollowsNetwork
  BY DEF ServerFollowsNetwork
<1>4. QED
  BY <1>1, <1>2, <1>3, NetworkSpecs, PTL DEF AP!Spec

(* What an event does to connection_count_. *)
Change(event) == IF event = "JOINED" THEN 1 ELSE IF event = "LEFT" THEN -1 ELSE 0

ApEvents == {"START", "STOP", "JOINED", "LEFT"}

(* Between what connection_count_ is and the number of stations, counts[i] *)
(* is what it will be after i of the events, never out of its bounds.      *)
Leads(counts) ==
  /\ counts[0] = connection_count
  /\ counts[Len(ap_events)] = stations
  /\ \A i \in 1 .. Len(ap_events) : counts[i] = counts[i - 1] + Change(ap_events[i])

CountInv ==
  /\ ap_wifi = "on" \/ stations = 0
  /\ ap_events \in Seq(ApEvents)
  /\ \E counts \in [0 .. Len(ap_events) -> 0 .. MaxConnection] : Leads(counts)

(* What the counts of the next state are shown by. *)
LEMMA CountFollows ==
  ASSUME ap_wifi' = "on" \/ stations' = 0, ap_events' \in Seq(ApEvents),
         NEW counts \in [0 .. Len(ap_events') -> 0 .. MaxConnection],
         counts[0] = connection_count', counts[Len(ap_events')] = stations',
         \A i \in 1 .. Len(ap_events') : counts[i] = counts[i - 1] + Change(ap_events'[i])
  PROVE  CountInv'
<1>1. \E c \in [0 .. Len(ap_events') -> 0 .. MaxConnection] :
        /\ c[0] = connection_count' /\ c[Len(ap_events')] = stations'
        /\ \A i \in 1 .. Len(ap_events') : c[i] = c[i - 1] + Change(ap_events'[i])
  <2> WITNESS counts \in [0 .. Len(ap_events') -> 0 .. MaxConnection]
  <2>1. QED
    OBVIOUS
<1>2. QED
  BY <1>1 DEF CountInv, Leads

(* An event is posted of what has become of the stations. *)
LEMMA CountPosted ==
  ASSUME CountInv, NEW event \in ApEvents,
         ap_events' = Append(ap_events, event),
         stations' = stations + Change(event), stations' \in 0 .. MaxConnection,
         connection_count' = connection_count, ap_wifi' = "on" \/ stations' = 0
  PROVE  CountInv'
<1> USE DEF CountInv, Leads
<1>m. MaxConnection \in Nat
  BY ComponentsAssumption DEF AP!MaxConnectionAssumption
<1> DEFINE n == Len(ap_events)
<1>1. PICK counts \in [0 .. n -> 0 .. MaxConnection] : Leads(counts)
  OBVIOUS
<1>2. /\ ap_events' \in Seq(ApEvents) /\ Len(ap_events') = n + 1 /\ n \in Nat
      /\ \A i \in 1 .. n : ap_events'[i] = ap_events[i]
      /\ ap_events'[n + 1] = event
  OBVIOUS
<1> DEFINE longer == [i \in 0 .. n + 1 |-> IF i = n + 1 THEN stations' ELSE counts[i]]
<1>3. longer \in [0 .. n + 1 -> 0 .. MaxConnection]
  BY <1>m, <1>1
<1>4. /\ longer[0] = connection_count /\ longer[n + 1] = stations'
      /\ \A i \in 1 .. n + 1 : longer[i] = longer[i - 1] + Change(ap_events'[i])
  BY <1>1, <1>2
<1> HIDE DEF longer
<1> HIDE DEF n, CountInv, Leads
<1>5. /\ longer \in [0 .. Len(ap_events') -> 0 .. MaxConnection]
      /\ longer[0] = connection_count' /\ longer[Len(ap_events')] = stations'
      /\ \A i \in 1 .. Len(ap_events') : longer[i] = longer[i - 1] + Change(ap_events'[i])
  BY <1>2, <1>3, <1>4
<1>6. QED
  BY <1>2, <1>5, CountFollows

(* An event is handled. *)
LEMMA CountHandled ==
  ASSUME CountInv, ap_events # <<>>, ap_events' = Tail(ap_events),
         connection_count' = connection_count + Change(Head(ap_events)),
         stations' = stations, ap_wifi' = ap_wifi
  PROVE  CountInv'
<1> USE DEF CountInv, Leads
<1>m. MaxConnection \in Nat
  BY ComponentsAssumption DEF AP!MaxConnectionAssumption
<1> DEFINE n == Len(ap_events)
<1>1. PICK counts \in [0 .. n -> 0 .. MaxConnection] : Leads(counts)
  OBVIOUS
<1>2. /\ ap_events' \in Seq(ApEvents) /\ Len(ap_events') = n - 1 /\ n \in Nat \ {0}
      /\ \A i \in 1 .. n - 1 : ap_events'[i] = ap_events[i + 1]
      /\ Head(ap_events) = ap_events[1]
  OBVIOUS
<1> DEFINE shorter == [i \in 0 .. n - 1 |-> counts[i + 1]]
<1>3. shorter \in [0 .. n - 1 -> 0 .. MaxConnection]
  BY <1>1, <1>2
<1>4. /\ shorter[0] = connection_count' /\ shorter[n - 1] = stations
      /\ \A i \in 1 .. n - 1 : shorter[i] = shorter[i - 1] + Change(ap_events'[i])
  BY <1>1, <1>2
<1> HIDE DEF shorter
<1>5. ap_wifi' = "on" \/ stations' = 0
  OBVIOUS
<1> HIDE DEF n, CountInv, Leads
<1>6. /\ shorter \in [0 .. Len(ap_events') -> 0 .. MaxConnection]
      /\ shorter[0] = connection_count' /\ shorter[Len(ap_events')] = stations'
      /\ \A i \in 1 .. Len(ap_events') : shorter[i] = shorter[i - 1] + Change(ap_events'[i])
  BY <1>2, <1>3, <1>4
<1>7. QED
  BY <1>2, <1>5, <1>6, CountFollows

(* A step that leaves what CountInv is about. *)
LEMMA CountKept ==
  ASSUME CountInv, UNCHANGED <<ap_events, connection_count, stations>>,
         ap_wifi' = ap_wifi \/ ap_wifi' = "on" \/ stations = 0
  PROVE  CountInv'
BY DEF CountInv, Leads

(* stop_() sends the stations away. *)
LEMMA CountStopped ==
  ASSUME CountInv, AP!Stop
  PROVE  CountInv'
<1> USE DEF CountInv, Leads
<1>m. MaxConnection \in Nat
  BY ComponentsAssumption DEF AP!MaxConnectionAssumption
<1> DEFINE n == Len(ap_events)
<1>1. PICK counts \in [0 .. n -> 0 .. MaxConnection] : Leads(counts)
  OBVIOUS
<1>2. /\ n \in Nat /\ stations \in 0 .. MaxConnection /\ stations \in Nat
      /\ connection_count' = connection_count /\ ap_wifi' = "off"
  <2>1. connection_count' = connection_count /\ ap_wifi' = "off"
    BY DEF AP!Stop, AP!netVars
  <2>2. n \in Nat /\ n \in 0 .. n /\ counts[n] = stations
    BY <1>1
  <2>3. counts[n] \in 0 .. MaxConnection
    BY <1>1, <2>2
  <2> HIDE DEF n, CountInv, Leads
  <2>4. QED
    BY <1>m, <2>1, <2>2, <2>3
<1>3. CASE ap_wifi = "on"
  <2> DEFINE away == [i \in 1 .. stations |-> "LEFT"]
             sent == ap_events \o away
  <2>1. /\ away \in Seq(ApEvents) /\ Len(away) = stations
        /\ \A i \in 1 .. stations : away[i] = "LEFT"
    BY <1>2 DEF ApEvents
  <2>a. ap_events' = Append(sent, "STOP") /\ stations' = 0
    BY <1>3, <1>2, <2>1 DEF AP!Stop
  <2> HIDE DEF away
  <2>2. /\ sent \in Seq(ApEvents) /\ Len(sent) = n + stations
        /\ \A i \in 1 .. n : sent[i] = ap_events[i]
        /\ \A i \in n + 1 .. n + stations : sent[i] = away[i - n]
    <3>1. /\ sent \in Seq(ApEvents) /\ Len(sent) = n + Len(away)
          /\ \A i \in 1 .. n + Len(away) :
               sent[i] = IF i <= n THEN ap_events[i] ELSE away[i - n]
      BY <2>1, ConcatProperties
    <3> HIDE DEF sent, n, CountInv, Leads
    <3>2. QED
      BY <1>2, <2>1, <3>1
  <2>b. \A i \in n + 1 .. n + stations : sent[i] = "LEFT"
    BY <1>2, <2>1, <2>2
  <2> HIDE DEF sent
  <2>3. /\ ap_events' \in Seq(ApEvents) /\ Len(ap_events') = n + stations + 1
        /\ \A i \in 1 .. n : ap_events'[i] = ap_events[i]
        /\ \A i \in n + 1 .. n + stations : ap_events'[i] = "LEFT"
        /\ ap_events'[n + stations + 1] = "STOP"
    <3>1. "STOP" \in ApEvents
      BY DEF ApEvents
    <3>2. /\ ap_events' \in Seq(ApEvents) /\ Len(ap_events') = n + stations + 1
          /\ \A i \in 1 .. n + stations : ap_events'[i] = sent[i]
          /\ ap_events'[n + stations + 1] = "STOP"
      BY <1>2, <2>a, <2>2, <3>1
    <3>3. QED
      BY <1>2, <2>2, <2>b, <3>2
  <2>4. /\ \A i \in n + 1 .. n + stations : Change(ap_events'[i]) = -1
        /\ Change(ap_events'[n + stations + 1]) = 0
    BY <1>2, <2>3 DEF Change
  <2> DEFINE longer ==
        [i \in 0 .. n + stations + 1 |->
           IF i <= n THEN counts[i]
           ELSE IF i <= n + stations THEN stations - (i - n) ELSE 0]
  <2>5. longer \in [0 .. n + stations + 1 -> 0 .. MaxConnection]
    BY <1>m, <1>1, <1>2
  <2>6. longer[0] = connection_count /\ longer[n + stations + 1] = 0
    BY <1>1, <1>2
  <2>7. ASSUME NEW i \in 1 .. n + stations + 1
        PROVE  longer[i] = longer[i - 1] + Change(ap_events'[i])
    <3>1. CASE i \in 1 .. n
      BY <1>1, <1>2, <2>3, <3>1
    <3>2. CASE i \in n + 1 .. n + stations
      BY <1>1, <1>2, <2>4, <3>2
    <3>3. CASE i = n + stations + 1
      BY <1>1, <1>2, <2>4, <3>3
    <3> HIDE DEF longer, n, CountInv, Leads
    <3>4. \/ i \in 1 .. n
          \/ i \in n + 1 .. n + stations
          \/ i = n + stations + 1
      BY <1>2
    <3>5. QED
      BY <3>1, <3>2, <3>3, <3>4
  <2> HIDE DEF longer
  <2> HIDE DEF n, CountInv, Leads
  <2>8. /\ longer \in [0 .. Len(ap_events') -> 0 .. MaxConnection]
        /\ longer[0] = connection_count' /\ longer[Len(ap_events')] = stations'
        /\ \A i \in 1 .. Len(ap_events') : longer[i] = longer[i - 1] + Change(ap_events'[i])
    BY <1>2, <2>a, <2>3, <2>5, <2>6, <2>7
  <2>9. QED
    BY <2>a, <2>3, <2>8, CountFollows
<1>4. CASE ap_wifi # "on"
  <2>1. ap_events' = ap_events /\ stations = 0 /\ stations' = 0
    BY <1>4 DEF AP!Stop
  <2>2. QED
    BY <1>2, <2>1, CountKept
<1>5. QED
  BY <1>3, <1>4

\* Stations, events and stop_() keep the count and the events to come in step.
LEMMA CountStep ==
  ASSUME CountInv, [AP!Next]_(AP!vars)
  PROVE  CountInv'
<1> USE DEF AP!netVars, AP!wifiVars, AP!httpVars
<1>m. MaxConnection \in Nat
  BY ComponentsAssumption DEF AP!MaxConnectionAssumption
<1>s. stations \in 0 .. MaxConnection /\ connection_count \in Int
  BY <1>m DEF CountInv, Leads
<1>1. CASE AP!Start
  <2>1. CASE ap_events' = Append(ap_events, "START")
    <3>1. UNCHANGED <<connection_count, stations>> /\ ap_wifi' = "on"
      BY <1>1, <2>1 DEF AP!Start, CountInv
    <3>2. "START" \in ApEvents /\ stations' = stations + Change("START")
      BY <1>m, <1>s, <3>1 DEF ApEvents, Change
    <3>3. QED
      BY <1>s, <2>1, <3>1, <3>2, CountPosted
  <2>2. CASE ap_events' = ap_events
    BY <1>1, <2>2, CountKept DEF AP!Start
  <2>3. QED
    BY <1>1, <2>1, <2>2 DEF AP!Start
<1>2. CASE AP!WaitCheck \/ AP!NotifyTake \/ AP!WaitTimeout
  BY <1>2, CountKept DEF AP!WaitCheck, AP!NotifyTake, AP!WaitTimeout
<1>3. CASE AP!Stop
  BY <1>3, CountStopped
<1>4. CASE AP!HandleStart
  <2>1. /\ ap_events # <<>> /\ ap_events' = Tail(ap_events)
        /\ Head(ap_events) = "START"
        /\ UNCHANGED <<connection_count, stations, ap_wifi>>
    BY <1>4 DEF AP!HandleStart, AP!Take
  <2>2. connection_count' = connection_count + Change(Head(ap_events))
    BY <1>s, <2>1 DEF Change
  <2>3. QED
    BY <2>1, <2>2, CountHandled
<1>5. CASE AP!HandleStop
  <2>1. /\ ap_events # <<>> /\ ap_events' = Tail(ap_events)
        /\ Head(ap_events) = "STOP"
        /\ UNCHANGED <<connection_count, stations, ap_wifi>>
    BY <1>5 DEF AP!HandleStop, AP!Take
  <2>2. connection_count' = connection_count + Change(Head(ap_events))
    BY <1>s, <2>1 DEF Change
  <2>3. QED
    BY <2>1, <2>2, CountHandled
<1>6. CASE AP!HandleJoined
  <2>1. /\ ap_events # <<>> /\ ap_events' = Tail(ap_events)
        /\ Head(ap_events) = "JOINED"
        /\ UNCHANGED <<stations, ap_wifi>>
        /\ connection_count' = connection_count + 1
    BY <1>6 DEF AP!HandleJoined, AP!Take
  <2>2. connection_count' = connection_count + Change(Head(ap_events))
    BY <2>1 DEF Change
  <2>3. QED
    BY <2>1, <2>2, CountHandled
<1>7. CASE AP!HandleLeft
  <2>1. /\ ap_events # <<>> /\ ap_events' = Tail(ap_events)
        /\ Head(ap_events) = "LEFT"
        /\ UNCHANGED <<stations, ap_wifi>>
        /\ connection_count' = connection_count - 1
    BY <1>7 DEF AP!HandleLeft, AP!Take
  <2>2. connection_count' = connection_count + Change(Head(ap_events))
    BY <1>s, <2>1 DEF Change
  <2>3. QED
    BY <2>1, <2>2, CountHandled
<1>8. CASE AP!HandleStopEnd
  BY <1>8, CountKept DEF AP!HandleStopEnd
<1>9. CASE AP!Join
  <2>1. /\ ap_events' = Append(ap_events, "JOINED") /\ stations' = stations + 1
        /\ stations < MaxConnection /\ ap_wifi' = "on"
        /\ connection_count' = connection_count
    BY <1>9 DEF AP!Join
  <2>2. /\ "JOINED" \in ApEvents /\ stations' = stations + Change("JOINED")
        /\ stations' \in 0 .. MaxConnection
    BY <1>m, <1>s, <2>1 DEF ApEvents, Change
  <2>3. QED
    BY <2>1, <2>2, CountPosted
<1>10. CASE AP!Leave
  <2>1. /\ ap_events' = Append(ap_events, "LEFT") /\ stations' = stations - 1
        /\ stations > 0 /\ ap_wifi' = "on"
        /\ connection_count' = connection_count
    BY <1>s, <1>10 DEF AP!Leave, CountInv
  <2>2. /\ "LEFT" \in ApEvents /\ stations' = stations + Change("LEFT")
        /\ stations' \in 0 .. MaxConnection
    BY <1>m, <1>s, <2>1 DEF ApEvents, Change
  <2>3. QED
    BY <2>1, <2>2, CountPosted
<1>11. CASE AP!Request \/ AP!Serve
  BY <1>11, CountKept DEF AP!Request, AP!Serve
<1>12. CASE UNCHANGED AP!vars
  BY <1>12, CountKept DEF AP!vars
<1>13. QED
  BY <1>1, <1>2, <1>3, <1>4, <1>5, <1>6, <1>7, <1>8, <1>9, <1>10, <1>11, <1>12
  DEF AP!Next, AP!Main, AP!HandleEvent

(* ApNetwork::connection_count_ never passes 0 or max_connection, and is   *)
(* the number of stations once the event task has caught up.               *)
THEOREM ApCount == Spec => []ConnectionsCounted
<1>m. MaxConnection \in Nat
  BY ComponentsAssumption DEF AP!MaxConnectionAssumption
<1>1. ASSUME AP!Init
      PROVE  CountInv
  <2>1. /\ ap_events = <<>> /\ connection_count = 0 /\ stations = 0
        /\ Len(ap_events) = 0 /\ ap_events \in Seq(ApEvents)
    BY <1>1 DEF AP!Init
  <2>2. Leads([i \in 0 .. 0 |-> 0])
    BY <2>1 DEF Leads
  <2>3. QED
    BY <1>m, <2>1, <2>2 DEF CountInv
<1>2. CountInv /\ [AP!Next]_(AP!vars) => CountInv'
  BY CountStep
<1>3. ASSUME CountInv
      PROVE  ConnectionsCounted
  BY <1>m, <1>3 DEF CountInv, Leads, ConnectionsCounted, AP!ConnectionsCounted
<1>4. QED
  BY <1>1, <1>2, <1>3, NetworkSpecs, PTL DEF AP!Spec

(***************************************************************************)
(* The station                                                             *)
(***************************************************************************)

StaEvents == {"START", "DISCONNECTED", "GOT_IP"}

(* What the driver does is what the newest event that tells of a connection *)
(* says, or the bit if the event task has handled every such event.         *)
StaTold ==
  /\ (\A i \in 1 .. Len(sta_events) : sta_events[i] = "START") =>
       ("CONNECTED" \in sta_bits <=> sta_wifi = "connected")
  /\ \A i \in 1 .. Len(sta_events) :
       /\ sta_events[i] # "START"
       /\ \A j \in i + 1 .. Len(sta_events) : sta_events[j] = "START"
       => (sta_events[i] = "GOT_IP" <=> sta_wifi = "connected")

(* The server follows the bit, but for the rest of the handler under way. *)
StaServed ==
  /\ sta_server \in {"stopped", "running", "stopping"}
  /\ sta_server = "running" => "CONNECTED" \in sta_bits \/ handling \in {"lost", "disconnect"}
  /\ "CONNECTED" \in sta_bits => handling \in {"none", "connect"}
  /\ handling = "connect" => "CONNECTED" \in sta_bits
  /\ "CONNECTED" \in sta_bits /\ handling # "connect" => sta_server = "running" \/ start_failed
  /\ sta_server = "stopping" => handling = "stop"

StaInv == sta_events \in Seq(StaEvents) /\ StaTold /\ StaServed

\* A step that leaves the events, the bit, and whether there is a connection.
LEMMA StaToldKept ==
  ASSUME StaTold, sta_events' = sta_events,
         "CONNECTED" \in sta_bits' <=> "CONNECTED" \in sta_bits,
         sta_wifi' = "connected" <=> sta_wifi = "connected"
  PROVE  StaTold'
BY DEF StaTold

\* An event is posted that tells of a connection, or of none.
LEMMA StaToldPosted ==
  ASSUME sta_events \in Seq(StaEvents), StaTold, NEW event \in StaEvents,
         sta_events' = Append(sta_events, event), sta_bits' = sta_bits,
         IF event = "START" THEN sta_wifi' = "connected" <=> sta_wifi = "connected"
                            ELSE sta_wifi' = "connected" <=> event = "GOT_IP"
  PROVE  sta_events' \in Seq(StaEvents) /\ StaTold'
<1> DEFINE n == Len(sta_events)
<1>1. /\ sta_events' \in Seq(StaEvents) /\ Len(sta_events') = n + 1 /\ n \in Nat
      /\ \A i \in 1 .. n : sta_events'[i] = sta_events[i]
      /\ sta_events'[n + 1] = event
  OBVIOUS
<1> HIDE DEF n
<1>2. CASE event = "START"
  <2>1. ASSUME \A i \in 1 .. n + 1 : sta_events'[i] = "START"
        PROVE  "CONNECTED" \in sta_bits' <=> sta_wifi' = "connected"
    <3>1. \A i \in 1 .. n : sta_events[i] = "START"
      BY <1>1, <2>1
    <3>2. QED
      BY <1>2, <3>1 DEF StaTold, n
  <2>2. ASSUME NEW i \in 1 .. n + 1, sta_events'[i] # "START",
               \A j \in i + 1 .. n + 1 : sta_events'[j] = "START"
        PROVE  sta_events'[i] = "GOT_IP" <=> sta_wifi' = "connected"
    <3>1. i \in 1 .. n /\ sta_events'[i] = sta_events[i]
      BY <1>1, <1>2, <2>2
    <3>2. \A j \in i + 1 .. n : sta_events[j] = "START"
      BY <1>1, <2>2, <3>1
    <3>3. QED
      BY <1>2, <2>2, <3>1, <3>2 DEF StaTold, n
  <2>3. QED
    BY <1>1, <2>1, <2>2 DEF StaTold
<1>3. CASE event # "START"
  <2>1. n + 1 \in 1 .. n + 1
    BY <1>1
  <2>2. ASSUME NEW i \in 1 .. n + 1,
               \A j \in i + 1 .. n + 1 : sta_events'[j] = "START"
        PROVE  i = n + 1
    <3>1. CASE i < n + 1
      <4>1. n + 1 \in i + 1 .. n + 1
        BY <1>1, <3>1
      <4>2. QED
        BY <1>1, <1>3, <2>2, <4>1
    <3>2. QED
      BY <1>1, <3>1
  <2>3. QED
    BY <1>1, <1>3, <2>1, <2>2 DEF StaTold
<1>4. QED
  BY <1>1, <1>2, <1>3

\* An event is taken, and the bit set or cleared as it says.
LEMMA StaToldTaken ==
  ASSUME sta_events \in Seq(StaEvents), StaTold, sta_events # <<>>,
         sta_events' = Tail(sta_events),
         sta_wifi' = "connected" <=> sta_wifi = "connected",
         IF Head(sta_events) = "START"
         THEN "CONNECTED" \in sta_bits' <=> "CONNECTED" \in sta_bits
         ELSE "CONNECTED" \in sta_bits' <=> Head(sta_events) = "GOT_IP"
  PROVE  sta_events' \in Seq(StaEvents) /\ StaTold'
<1> DEFINE n == Len(sta_events)
<1>1. /\ sta_events' \in Seq(StaEvents) /\ Len(sta_events') = n - 1 /\ n \in Nat \ {0}
      /\ \A i \in 1 .. n - 1 : sta_events'[i] = sta_events[i + 1]
      /\ Head(sta_events) = sta_events[1]
  OBVIOUS
<1> HIDE DEF n
<1>2. ASSUME NEW i \in 1 .. n, \A j \in i .. n - 1 : sta_events'[j] = "START"
      PROVE  \A j \in i + 1 .. n : sta_events[j] = "START"
  <2> SUFFICES ASSUME NEW j \in i + 1 .. n
               PROVE  sta_events[j] = "START"
    OBVIOUS
  <2>1. j - 1 \in i .. n - 1 /\ j - 1 \in 1 .. n - 1 /\ (j - 1) + 1 = j
    BY <1>1
  <2>2. QED
    BY <1>1, <1>2, <2>1
<1>3. ASSUME \A i \in 1 .. n - 1 : sta_events'[i] = "START"
      PROVE  "CONNECTED" \in sta_bits' <=> sta_wifi' = "connected"
  <2>1. 1 \in 1 .. n /\ \A j \in 1 + 1 .. n : sta_events[j] = "START"
    BY <1>1, <1>2, <1>3
  <2>2. CASE sta_events[1] = "START"
    <3>1. \A i \in 1 .. n : sta_events[i] = "START"
      <4> SUFFICES ASSUME NEW i \in 1 .. n
                   PROVE  sta_events[i] = "START"
        OBVIOUS
      <4>1. i = 1 \/ i \in 1 + 1 .. n
        BY <1>1
      <4>2. QED
        BY <2>1, <2>2, <4>1
    <3>2. QED
      BY <1>1, <2>2, <3>1 DEF StaTold, n
  <2>3. CASE sta_events[1] # "START"
    <3>1. sta_events[1] = "GOT_IP" <=> sta_wifi = "connected"
      BY <2>1, <2>3 DEF StaTold, n
    <3>2. QED
      BY <1>1, <2>3, <3>1
  <2>4. QED
    BY <2>2, <2>3
<1>4. ASSUME NEW i \in 1 .. n - 1, sta_events'[i] # "START",
             \A j \in i + 1 .. n - 1 : sta_events'[j] = "START"
      PROVE  sta_events'[i] = "GOT_IP" <=> sta_wifi' = "connected"
  <2>1. i + 1 \in 1 .. n /\ sta_events'[i] = sta_events[i + 1]
    BY <1>1
  <2>2. \A j \in (i + 1) + 1 .. n : sta_events[j] = "START"
    BY <1>2, <1>4, <2>1
  <2>3. QED
    BY <1>4, <2>1, <2>2 DEF StaTold, n
<1>5. QED
  BY <1>1, <1>3, <1>4 DEF StaTold

\* Every step of the station keeps the events and what they tell.
LEMMA StaToldStep ==
  ASSUME sta_events \in Seq(StaEvents), StaTold, [STA!Next]_(STA!vars)
  PROVE  sta_events' \in Seq(StaEvents) /\ StaTold'
<1> USE DEF STA!appVars, STA!driverVars, STA!httpVars
<1>1. CASE STA!Start
  <2>1. /\ sta_events' = Append(sta_events, "START") /\ sta_bits' = sta_bits
        /\ sta_wifi = "off" /\ sta_wifi' = "idle"
    BY <1>1 DEF STA!Start
  <2>2. QED
    BY <2>1, StaToldPosted DEF StaEvents
<1>2. CASE STA!Wait
  BY <1>2, StaToldKept DEF STA!Wait
<1>3. CASE STA!Stop
  <2>1. sta_bits' = sta_bits /\ sta_wifi' = "off"
    BY <1>3 DEF STA!Stop
  <2>2. CASE sta_wifi \in {"connecting", "connected"}
    <3>1. sta_events' = Append(sta_events, "DISCONNECTED")
      BY <1>3, <2>2 DEF STA!Stop
    <3>2. QED
      BY <2>1, <3>1, StaToldPosted DEF StaEvents
  <2>3. CASE sta_wifi \notin {"connecting", "connected"}
    <3>1. sta_events' = sta_events
      BY <1>3, <2>3 DEF STA!Stop
    <3>2. QED
      BY <2>1, <2>3, <3>1, StaToldKept
  <2>4. QED
    BY <2>2, <2>3
<1>4. CASE STA!HandleStart
  <2>1. /\ sta_events # <<>> /\ Head(sta_events) = "START" /\ sta_events' = Tail(sta_events)
        /\ sta_bits' = sta_bits /\ (sta_wifi' = "connected" <=> sta_wifi = "connected")
    BY <1>4 DEF STA!HandleStart, STA!Take, STA!Connect
  <2>2. QED
    BY <2>1, StaToldTaken
<1>5. CASE STA!HandleDisconnected
  <2>1. /\ sta_events # <<>> /\ Head(sta_events) = "DISCONNECTED"
        /\ sta_events' = Tail(sta_events)
        /\ "CONNECTED" \notin sta_bits' /\ sta_wifi' = sta_wifi
    BY <1>5 DEF STA!HandleDisconnected, STA!Take
  <2>2. QED
    BY <2>1, StaToldTaken
<1>6. CASE STA!HandleGotIp
  <2>1. /\ sta_events # <<>> /\ Head(sta_events) = "GOT_IP" /\ sta_events' = Tail(sta_events)
        /\ "CONNECTED" \in sta_bits' /\ sta_wifi' = sta_wifi
    BY <1>6 DEF STA!HandleGotIp, STA!Take, STA!SetBit
  <2>2. QED
    BY <2>1, StaToldTaken
<1>7. CASE STA!Retry \/ STA!GiveUp
  <2>1. /\ sta_events' = sta_events /\ ("CONNECTED" \in sta_bits' <=> "CONNECTED" \in sta_bits)
        /\ (sta_wifi' = "connected" <=> sta_wifi = "connected")
    BY <1>7 DEF STA!Retry, STA!GiveUp, STA!Connect, STA!SetBit
  <2>2. QED
    BY <2>1, StaToldKept
<1>8. CASE STA!HandleDisconnect \/ STA!HandleDisconnectEnd \/ STA!HandleConnect
  BY <1>8, StaToldKept DEF STA!HandleDisconnect, STA!HandleDisconnectEnd, STA!HandleConnect
<1>9. CASE STA!AttemptEnds
  <2>1. /\ sta_bits' = sta_bits
        /\ \/ sta_events' = Append(sta_events, "GOT_IP") /\ sta_wifi' = "connected"
           \/ sta_events' = Append(sta_events, "DISCONNECTED") /\ sta_wifi' = "idle"
    BY <1>9 DEF STA!AttemptEnds
  <2>2. QED
    BY <2>1, StaToldPosted DEF StaEvents
<1>10. CASE STA!ConnectionLost
  <2>1. /\ sta_bits' = sta_bits
        /\ sta_events' = Append(sta_events, "DISCONNECTED") /\ sta_wifi' = "idle"
    BY <1>10 DEF STA!ConnectionLost
  <2>2. QED
    BY <2>1, StaToldPosted DEF StaEvents
<1>11. CASE STA!AddressChanged
  <2>1. /\ sta_bits' = sta_bits /\ sta_wifi = "connected" /\ sta_wifi' = sta_wifi
        /\ sta_events = <<>> /\ sta_events' = <<"GOT_IP">>
    BY <1>11 DEF STA!AddressChanged
  <2>2. sta_events' = Append(sta_events, "GOT_IP")
    BY <2>1
  <2>3. QED
    BY <2>1, <2>2, StaToldPosted DEF StaEvents
<1>12. CASE STA!Request \/ STA!Serve
  BY <1>12, StaToldKept DEF STA!Request, STA!Serve
<1>13. CASE UNCHANGED STA!vars
  BY <1>13, StaToldKept DEF STA!vars
<1>14. QED
  BY <1>1, <1>2, <1>3, <1>4, <1>5, <1>6, <1>7, <1>8, <1>9, <1>10, <1>11, <1>12, <1>13
  DEF STA!Next, STA!HandleEvent

\* Every step of the station keeps the server with the bit.
LEMMA StaServedStep ==
  ASSUME StaServed, [STA!Next]_(STA!vars)
  PROVE  StaServed'
<1> USE DEF StaServed, STA!appVars, STA!driverVars, STA!httpVars
<1>1. CASE STA!Start \/ STA!Wait \/ STA!Stop
  BY <1>1 DEF STA!Start, STA!Wait, STA!Stop
<1>2. CASE STA!HandleStart
  BY <1>2 DEF STA!HandleStart
<1>3. CASE STA!HandleDisconnected
  BY <1>3 DEF STA!HandleDisconnected, STA!Take
<1>4. CASE STA!Retry \/ STA!GiveUp
  BY <1>4 DEF STA!Retry, STA!GiveUp, STA!SetBit
<1>5. CASE STA!HandleDisconnect
  BY <1>5 DEF STA!HandleDisconnect, STA!ServerStopBegin
<1>6. CASE STA!HandleDisconnectEnd
  BY <1>6 DEF STA!HandleDisconnectEnd, STA!ServerStopEnd
<1>7. CASE STA!HandleGotIp
  BY <1>7 DEF STA!HandleGotIp, STA!Take, STA!SetBit
<1>8. CASE STA!HandleConnect
  BY <1>8 DEF STA!HandleConnect, STA!ServerStart
<1>9. CASE STA!AttemptEnds \/ STA!ConnectionLost \/ STA!AddressChanged
  BY <1>9 DEF STA!AttemptEnds, STA!ConnectionLost, STA!AddressChanged
<1>10. CASE STA!Request \/ STA!Serve
  BY <1>10 DEF STA!Request, STA!Serve, STA!RequestBegin, STA!RequestServe, STA!RequestEnd
<1>11. CASE UNCHANGED STA!vars
  BY <1>11 DEF STA!vars
<1>12. QED
  BY <1>1, <1>2, <1>3, <1>4, <1>5, <1>6, <1>7, <1>8, <1>9, <1>10, <1>11
  DEF STA!Next, STA!HandleEvent

(* The HTTP server of a station outlives the bit of the connection only    *)
(* inside the handler that cleared it, is up with the bit once started,    *)
(* and the bit is right when the event task has caught up: for any number  *)
(* of retries, starts and losses, and whether an attempt can be begun.     *)
THEOREM StaServer == Spec => []ServerFollowsConnection
<1>1. STA!Init => StaInv
  BY DEF STA!Init, STA!HttpInit, StaInv, StaTold, StaServed
<1>2. StaInv /\ [STA!Next]_(STA!vars) => StaInv'
  BY StaToldStep, StaServedStep DEF StaInv
<1>3. ASSUME StaInv
      PROVE  ServerFollowsConnection
  <2>1. STA!CaughtUp => ("CONNECTED" \in sta_bits <=> sta_wifi = "connected")
    BY <1>3 DEF StaInv, StaTold, STA!CaughtUp
  <2>2. QED
    BY <1>3, <2>1 DEF StaInv, StaServed, ServerFollowsConnection, STA!ServerFollowsConnection
<1>4. QED
  BY <1>1, <1>2, <1>3, NetworkSpecs, PTL DEF STA!Spec

(***************************************************************************)
(* The suspender                                                           *)
(***************************************************************************)

(* Every service was announced, was refused, or is to be announced. *)
SuServicesInv == Services \subseteq announced \cup refused \cup service_todo

(* The handlers before pos have been told. *)
SuToldInv ==
  /\ phase \in {"boot", "suspending", "guarded"} => service_todo = {}
  /\ phase = "boot" => SU!Handlers \ {SU!Mdns} \subseteq active
  /\ phase = "suspending" =>
       /\ \A h \in SU!Handlers : h < handler_pos /\ h \in active => h \in excused
       /\ handler_pos > 1 => announced = {}
  /\ phase = "guarded" => active \subseteq excused /\ announced = {}
  /\ phase = "resuming" =>
       /\ \A h \in SU!Handlers : h < handler_pos /\ h \notin active => h \in excused
       /\ handler_pos = 1 => service_todo = {}
       /\ handler_pos > 1 => SuServicesInv
  /\ phase = "run" => SU!Handlers \ active \subseteq excused /\ SuServicesInv

SuIInv == SU!TypeOK /\ SuToldInv

\* The strengthened invariant of the suspension holds at first.
LEMMA SuInitIInv ==
  ASSUME SU!HttpPipelineIsAdded
  PROVE  SU!Init => SuIInv
BY DEF SU!HttpPipelineIsAdded, SU!Init, SuIInv, SU!TypeOK, SuToldInv, SU!Handlers, SU!Mdns

\* Every step of the suspension keeps its types.
LEMMA SuTypeStep ==
  ASSUME SU!HttpPipelineIsAdded, SU!TypeOK, [SU!Next]_(SU!vars)
  PROVE  SU!TypeOK'
<1> USE DEF SU!TypeOK
<1>m. SU!Mdns \in SU!Handlers
  BY DEF SU!HttpPipelineIsAdded, SU!Handlers, SU!Mdns
<1>n. /\ 1 \in 1 .. NumHandlers + 1
      /\ \A h \in SU!Handlers : h + 1 \in 1 .. NumHandlers + 1
  BY DEF SU!HttpPipelineIsAdded, SU!Handlers
<1>1. CASE SU!Boot
  <2>1. CASE SU!StartOK
    BY <1>m, <1>1, <2>1 DEF SU!Boot, SU!StartOK
  <2>2. CASE SU!StartFails /\ UNCHANGED service_todo
    <3>1. active' \subseteq SU!Handlers /\ excused' \subseteq SU!Handlers
      BY <1>m, <2>2 DEF SU!StartFails
    <3>2. QED
      BY <1>1, <2>2, <3>1 DEF SU!Boot, SU!StartFails
  <2>3. QED
    BY <1>1, <2>1, <2>2 DEF SU!Boot
<1>2. CASE SU!BeginSuspend
  BY <1>n, <1>2 DEF SU!BeginSuspend
<1>3. CASE SU!SuspendNode
  <2>1. handler_pos' \in 1 .. NumHandlers + 1
    BY <1>n, <1>3 DEF SU!SuspendNode
  <2>2. active' \subseteq SU!Handlers /\ excused' \subseteq SU!Handlers
    BY <1>3 DEF SU!SuspendNode
  <2>3. QED
    BY <1>3, <2>1, <2>2 DEF SU!SuspendNode
<1>4. CASE SU!Guard
  BY <1>4 DEF SU!Guard
<1>5. CASE SU!BeginResume
  BY <1>n, <1>5 DEF SU!BeginResume
<1>6. CASE SU!ResumeNode
  <2>1. handler_pos' \in 1 .. NumHandlers + 1 /\ phase' = phase
    BY <1>n, <1>6 DEF SU!ResumeNode
  <2>2. CASE SU!StartOK
    BY <1>m, <2>1, <2>2 DEF SU!StartOK
  <2>3. CASE SU!StartFails /\ UNCHANGED service_todo
    <3>1. active' \subseteq SU!Handlers /\ excused' \subseteq SU!Handlers
      BY <1>m, <2>3 DEF SU!StartFails
    <3>2. QED
      BY <2>1, <2>3, <3>1 DEF SU!StartFails
  <2>4. CASE handler_pos # SU!Mdns
    BY <1>6, <2>1, <2>4 DEF SU!ResumeNode
  <2>5. QED
    BY <1>6, <2>2, <2>3, <2>4 DEF SU!ResumeNode
<1>7. CASE SU!Resumed
  BY <1>7 DEF SU!Resumed
<1>8. CASE \E s \in Services : SU!FlushService(s)
  BY <1>8 DEF SU!FlushService
<1>9. CASE UNCHANGED SU!vars
  BY <1>9 DEF SU!vars
<1>10. QED
  BY <1>1, <1>2, <1>3, <1>4, <1>5, <1>6, <1>7, <1>8, <1>9 DEF SU!Next

\* Every step keeps the handlers and services before the guard's position told.
LEMMA SuToldStep ==
  ASSUME SU!HttpPipelineIsAdded, SuIInv, [SU!Next]_(SU!vars)
  PROVE  SuToldInv'
<1> USE DEF SU!HttpPipelineIsAdded, SuIInv, SU!TypeOK, SuToldInv, SuServicesInv,
    SU!Handlers, SU!Mdns
<1>1. CASE SU!Boot
  <2>1. CASE SU!StartOK
    BY <1>1, <2>1 DEF SU!Boot, SU!StartOK
  <2>2. CASE SU!StartFails /\ UNCHANGED service_todo
    BY <1>1, <2>2 DEF SU!Boot, SU!StartFails
  <2>3. QED
    BY <1>1, <2>1, <2>2 DEF SU!Boot
<1>2. CASE SU!BeginSuspend
  BY <1>2 DEF SU!BeginSuspend
<1>3. CASE SU!SuspendNode
  <2>1. CASE handler_pos = SU!Mdns
    BY <1>3, <2>1 DEF SU!SuspendNode
  <2>2. CASE handler_pos # SU!Mdns
    BY <1>3, <2>2 DEF SU!SuspendNode
  <2>3. QED
    BY <2>1, <2>2
<1>4. CASE SU!Guard
  BY <1>4 DEF SU!Guard
<1>5. CASE SU!BeginResume
  BY <1>5 DEF SU!BeginResume
<1>6. CASE SU!ResumeNode
  <2>1. /\ handler_pos' = handler_pos + 1 /\ phase' = phase
        /\ handler_pos \in SU!Handlers /\ phase = "resuming"
    BY <1>6 DEF SU!ResumeNode
  <2>2. CASE handler_pos = SU!Mdns /\ SU!StartOK
    BY <2>1, <2>2 DEF SU!StartOK
  <2>3. CASE handler_pos = SU!Mdns /\ SU!StartFails /\ UNCHANGED service_todo
    BY <2>1, <2>3 DEF SU!StartFails
  <2>4. CASE handler_pos # SU!Mdns
    BY <1>6, <2>1, <2>4 DEF SU!ResumeNode
  <2>5. QED
    BY <1>6, <2>2, <2>3, <2>4 DEF SU!ResumeNode
<1>7. CASE SU!Resumed
  BY <1>7 DEF SU!Resumed
<1>8. CASE \E s \in Services : SU!FlushService(s)
  BY <1>8 DEF SU!FlushService
<1>9. CASE UNCHANGED SU!vars
  BY <1>9 DEF SU!vars
<1>10. QED
  BY <1>1, <1>2, <1>3, <1>4, <1>5, <1>6, <1>7, <1>8, <1>9 DEF SU!Next

(* While the guarded operation runs only a handler whose suspend() failed  *)
(* is at work, and afterwards (FanoutSuspender::resume, MdnsStore::flush_) *)
(* everything is back but what itself failed to come back.                 *)
THEOREM FailureAlone == Spec => []FailureStaysAlone
<1>1. SuIInv /\ [SU!Next]_(SU!vars) => SuIInv'
  BY SuTypeStep, SuToldStep, ComponentsAssumption DEF SuIInv
<1>2. SU!Init => SuIInv
  BY SuInitIInv, ComponentsAssumption
<1>3. SuIInv => FailureStaysAlone
  BY DEF SuIInv, SuToldInv, SuServicesInv, FailureStaysAlone, SU!FailureStaysAlone
<1>4. QED
  BY <1>1, <1>2, <1>3, NetworkSpecs, PTL DEF SU!Spec

(***************************************************************************)
(* The reader of responses                                                 *)
(***************************************************************************)

(* The parts of the request under way that have come are the last ones of  *)
(* the buffer.                                                             *)
Receives ==
  \E k \in 0 .. Len(buf_) :
    /\ Len(buf_) - k = part_count - parts_left
    /\ \A j \in 1 .. Len(buf_) :
         IF k < j THEN buf_[j] = <<client_request, part_count + 1 - (j - k)>>
         ELSE buf_[j][1] # client_request

BufferInv ==
  /\ client_request \in Nat /\ part_count \in Nat /\ parts_left \in Nat
  /\ parts_left <= part_count
  /\ buf_ \in Seq(Nat \X Nat)
  /\ \A j \in 1 .. Len(buf_) : buf_[j][1] <= client_request
  /\ finished \subseteq Nat \X Nat
  /\ \A f \in finished :
       /\ f[1] <= client_request /\ (performing => f[1] < client_request)
       /\ CR!Holds(f)
  /\ performing => Receives

(* Whoever waits for a response is in Cond::tasks_ or was notified.        *)
NotifiedInv ==
  /\ tasks_ \in Nat /\ reader_notifications \in Nat
  /\ reader = "read" => data_received_
  /\ data_received_ => finished # {}
  /\ reader = "wait" =>
       reader_notifications > 0 \/ (~data_received_ /\ tasks_ > 0)

(* Parts that are not of the request leave its response where it is. *)
LEMMA HoldsStill ==
  ASSUME NEW f \in Nat \X Nat, CR!Holds(f), buf_ \in Seq(Nat \X Nat),
         NEW part \in Nat \X Nat, part[1] # f[1], buf_' = Append(buf_, part)
  PROVE  CR!Holds(f)'
<1>1. PICK k \in 0 .. Len(buf_) :
        /\ k + f[2] <= Len(buf_)
        /\ \A j \in 1 .. Len(buf_) :
             IF k < j /\ j <= k + f[2] THEN buf_[j] = <<f[1], f[2] + 1 - (j - k)>>
             ELSE buf_[j][1] # f[1]
  BY DEF CR!Holds
<1>2. /\ Len(buf_') = Len(buf_) + 1 /\ Len(buf_) \in Nat
      /\ \A j \in 1 .. Len(buf_) : buf_'[j] = buf_[j]
      /\ buf_'[Len(buf_) + 1] = part
  OBVIOUS
<1>3. f[2] \in Nat
  OBVIOUS
<1>4. ASSUME NEW j \in 1 .. Len(buf_) + 1
      PROVE  IF k < j /\ j <= k + f[2] THEN buf_'[j] = <<f[1], f[2] + 1 - (j - k)>>
             ELSE buf_'[j][1] # f[1]
  <2>1. CASE j \in 1 .. Len(buf_)
    BY <1>1, <1>2, <2>1
  <2>2. CASE j = Len(buf_) + 1
    BY <1>1, <1>2, <1>3, <2>2
  <2>3. j \in 1 .. Len(buf_) \/ j = Len(buf_) + 1
    BY <1>2
  <2>4. QED
    BY <2>1, <2>2, <2>3
<1>5. k \in 0 .. Len(buf_') /\ k + f[2] <= Len(buf_')
  BY <1>1, <1>2, <1>3
<1>6. QED
  BY <1>2, <1>4, <1>5 DEF CR!Holds

\* Every event and wait keeps the parts of each response together in the buffer.
LEMMA BufferStep ==
  ASSUME BufferInv, [CR!Next]_(CR!vars)
  PROVE  BufferInv'
<1> USE DEF CR!clientVars
<1>1. ASSUME NEW n \in 0 .. MaxParts, CR!Perform(n)
      PROVE  BufferInv'
  <2>1. /\ client_request' = client_request + 1 /\ part_count' = n /\ parts_left' = n
        /\ UNCHANGED <<buf_, finished>> /\ n \in Nat
    BY <1>1 DEF CR!Perform
  <2>2. Receives'
    <3>1. Len(buf_) \in 0 .. Len(buf_) /\ Len(buf_) - Len(buf_) = n - n
      BY <2>1 DEF BufferInv
    <3>2. ASSUME NEW j \in 1 .. Len(buf_)
          PROVE  ~(Len(buf_) < j) /\ buf_[j][1] # client_request + 1
      <4>1. buf_[j] \in Nat \X Nat /\ buf_[j][1] <= client_request
        BY DEF BufferInv
      <4>2. client_request \in Nat /\ Len(buf_) \in Nat /\ buf_[j][1] \in Nat
        BY <4>1 DEF BufferInv
      <4>3. QED
        BY <4>1, <4>2
    <3>3. QED
      BY <2>1, <3>1, <3>2 DEF Receives
  <2>3. ASSUME NEW f \in finished
        PROVE  f[1] <= client_request' /\ f[1] < client_request' /\ CR!Holds(f)'
    <3>1. /\ f \in Nat \X Nat /\ f[1] <= client_request /\ CR!Holds(f)
          /\ client_request \in Nat
      BY DEF BufferInv
    <3>2. f[1] <= client_request' /\ f[1] < client_request'
      BY <2>1, <3>1
    <3>3. QED
      BY <2>1, <3>1, <3>2 DEF CR!Holds
  <2>4. QED
    BY <2>1, <2>2, <2>3 DEF BufferInv
<1>2. CASE CR!HandleData
  <2> DEFINE part == <<client_request, parts_left>>
  <2>1. /\ buf_' = Append(buf_, part) /\ parts_left' = parts_left - 1
        /\ performing /\ parts_left > 0
        /\ UNCHANGED <<client_request, part_count, performing, finished>>
    BY <1>2 DEF CR!HandleData
  <2>2. part \in Nat \X Nat /\ part[1] = client_request /\ part[2] = parts_left
    BY DEF BufferInv
  <2>3. ASSUME NEW f \in finished
        PROVE  f[1] < client_request /\ CR!Holds(f)'
    <3>1. f \in Nat \X Nat /\ CR!Holds(f) /\ f[1] < client_request
      BY <2>1 DEF BufferInv
    <3>2. part[1] # f[1]
      BY <2>2, <3>1 DEF BufferInv
    <3>3. QED
      BY <2>1, <2>2, <3>1, <3>2, HoldsStill DEF BufferInv
  <2> HIDE DEF part
  <2>4. /\ buf_' \in Seq(Nat \X Nat)
        /\ Len(buf_') = Len(buf_) + 1 /\ Len(buf_) \in Nat
        /\ \A j \in 1 .. Len(buf_) : buf_'[j] = buf_[j]
        /\ buf_'[Len(buf_) + 1] = part
    BY <2>1, <2>2 DEF BufferInv
  <2>5. Receives'
    <3>1. PICK k \in 0 .. Len(buf_) :
            /\ Len(buf_) - k = part_count - parts_left
            /\ \A j \in 1 .. Len(buf_) :
                 IF k < j THEN buf_[j] = <<client_request, part_count + 1 - (j - k)>>
                 ELSE buf_[j][1] # client_request
      BY <2>1 DEF BufferInv, Receives
    <3>2. part = <<client_request, part_count + 1 - (Len(buf_) + 1 - k)>>
      <4>1. parts_left \in Nat /\ part_count \in Nat
        BY DEF BufferInv
      <4>2. parts_left = part_count + 1 - (Len(buf_) + 1 - k)
        BY <2>4, <3>1, <4>1
      <4>3. QED
        BY <4>2 DEF part
    <3>3. ASSUME NEW j \in 1 .. Len(buf_) + 1
          PROVE  IF k < j THEN buf_'[j] = <<client_request, part_count + 1 - (j - k)>>
                 ELSE buf_'[j][1] # client_request
      <4>1. CASE j \in 1 .. Len(buf_)
        <5>1. buf_'[j] = buf_[j]
          BY <2>4, <4>1
        <5>2. IF k < j THEN buf_[j] = <<client_request, part_count + 1 - (j - k)>>
              ELSE buf_[j][1] # client_request
          BY <3>1, <4>1
        <5>3. QED
          BY <5>1, <5>2
      <4>2. CASE j = Len(buf_) + 1
        <5>1. k < j /\ buf_'[j] = part
          BY <2>4, <3>1, <4>2
        <5>2. QED
          BY <3>2, <4>2, <5>1
      <4>3. j \in 1 .. Len(buf_) \/ j = Len(buf_) + 1
        BY <2>4
      <4>4. QED
        BY <4>1, <4>2, <4>3
    <3>4. Len(buf_') - k = part_count - parts_left' /\ k \in 0 .. Len(buf_')
      <4>1. parts_left \in Nat /\ part_count \in Nat
        BY DEF BufferInv
      <4>2. QED
        BY <2>1, <2>4, <3>1, <4>1
    <3>5. QED
      BY <2>1, <2>4, <3>3, <3>4 DEF Receives
  <2>6. \A j \in 1 .. Len(buf_') : buf_'[j][1] <= client_request
    <3>1. /\ client_request \in Nat
          /\ \A j \in 1 .. Len(buf_) : buf_[j][1] <= client_request
      BY DEF BufferInv
    <3>2. ASSUME NEW j \in 1 .. Len(buf_) + 1
          PROVE  buf_'[j][1] <= client_request
      <4>1. CASE j \in 1 .. Len(buf_)
        BY <2>4, <3>1, <4>1
      <4>2. CASE j = Len(buf_) + 1
        BY <2>2, <2>4, <3>1, <4>2
      <4>3. QED
        BY <2>4, <4>1, <4>2
    <3>3. QED
      BY <2>4, <3>2
  <2>7. parts_left' \in Nat /\ parts_left' <= part_count
    BY <2>1 DEF BufferInv
  <2>8. QED
    BY <2>1, <2>3, <2>4, <2>5, <2>6, <2>7 DEF BufferInv
<1>3. CASE CR!HandleFinish
  <2> DEFINE r == <<client_request, part_count>>
  <2>1. /\ performing /\ parts_left = 0 /\ ~performing'
        /\ finished' = finished \cup {r}
        /\ UNCHANGED <<client_request, part_count, parts_left, buf_>>
    BY <1>3 DEF CR!HandleFinish
  <2>2. r \in Nat \X Nat /\ r[1] = client_request /\ r[2] = part_count
    BY DEF BufferInv
  <2> HIDE DEF r
  <2>3. CR!Holds(r)
    <3>1. PICK k \in 0 .. Len(buf_) :
            /\ Len(buf_) - k = part_count - parts_left
            /\ \A j \in 1 .. Len(buf_) :
                 IF k < j THEN buf_[j] = <<client_request, part_count + 1 - (j - k)>>
                 ELSE buf_[j][1] # client_request
      BY <2>1 DEF BufferInv, Receives
    <3>2. k + part_count = Len(buf_)
      BY <2>1, <3>1 DEF BufferInv
    <3>3. QED
      BY <2>2, <3>1, <3>2 DEF CR!Holds
  <2>4. ASSUME NEW f \in finished'
        PROVE  f[1] <= client_request /\ CR!Holds(f) /\ f \in Nat \X Nat
    <3>1. client_request <= client_request
      BY DEF BufferInv
    <3>2. QED
      BY <2>1, <2>2, <2>3, <3>1 DEF BufferInv
  <2>5. \A f : CR!Holds(f)' <=> CR!Holds(f)
    BY <2>1 DEF CR!Holds
  <2>6. QED
    BY <2>1, <2>4, <2>5 DEF BufferInv
<1>4. CASE \/ CR!HandleError \/ CR!Wait \/ CR!NotifyTake \/ CR!Recheck
           \/ CR!WaitTimeout \/ CR!Read \/ CR!Stray \/ UNCHANGED CR!vars
  <2>1. /\ UNCHANGED <<client_request, part_count, parts_left, buf_, finished>>
        /\ performing' => performing
    BY <1>4 DEF CR!HandleError, CR!Wait, CR!NotifyTake, CR!Recheck,
         CR!WaitTimeout, CR!Read, CR!Stray, CR!vars
  <2>2. Receives => Receives'
    BY <2>1 DEF Receives
  <2>3. \A f : CR!Holds(f) => CR!Holds(f)'
    BY <2>1 DEF CR!Holds
  <2>4. QED
    BY <2>1, <2>2, <2>3 DEF BufferInv
<1>5. QED
  BY <1>1, <1>2, <1>3, <1>4 DEF CR!Next

\* Every step keeps a waiting reader with a notification once its data are there.
LEMMA NotifiedStep ==
  ASSUME NotifiedInv, [CR!Next]_(CR!vars)
  PROVE  NotifiedInv'
<1> USE DEF NotifiedInv, CR!clientVars
<1>1. CASE CR!HandleFinish
  <2>1. /\ data_received_' = TRUE /\ finished' # {} /\ reader' = reader
        /\ reader_notifications' = reader_notifications + tasks_ /\ tasks_' = 0
    BY <1>1 DEF CR!HandleFinish
  <2>2. reader_notifications' \in Nat /\ (reader = "wait" => reader_notifications' > 0)
    BY <2>1
  <2>3. QED
    BY <2>1, <2>2
<1>2. CASE CR!Wait
  BY <1>2 DEF CR!Wait, CR!Check
<1>3. CASE CR!Recheck
  BY <1>3 DEF CR!Recheck, CR!Check
<1>4. CASE CR!NotifyTake \/ CR!WaitTimeout \/ CR!Read \/ CR!Stray
  BY <1>4 DEF CR!NotifyTake, CR!WaitTimeout, CR!Read, CR!Stray
<1>5. CASE (\E n \in 0 .. MaxParts : CR!Perform(n)) \/ CR!HandleData \/ CR!HandleError
  BY <1>5 DEF CR!Perform, CR!HandleData, CR!HandleError
<1>6. CASE UNCHANGED CR!vars
  BY <1>6 DEF CR!vars
<1>7. QED
  BY <1>1, <1>2, <1>3, <1>4, <1>5, <1>6 DEF CR!Next

(* A task that reads after ClientReader::wait said OK finds a response to  *)
(* its last part, and none waits for a response that is there unless it    *)
(* has been notified of it.                                                *)
THEOREM ResponseRead == Spec => []ResponseIsRead
<1>1. ASSUME CR!Init
      PROVE  BufferInv /\ NotifiedInv
  BY <1>1 DEF CR!Init, BufferInv, NotifiedInv
<1>2. BufferInv /\ NotifiedInv /\ [CR!Next]_(CR!vars) => BufferInv' /\ NotifiedInv'
  BY BufferStep, NotifiedStep
<1>3. BufferInv /\ NotifiedInv => ResponseIsRead
  BY DEF BufferInv, NotifiedInv, ResponseIsRead, CR!ResponseIsRead
<1>4. QED
  BY <1>1, <1>2, <1>3, NetworkSpecs, PTL DEF CR!Spec
===============================================================================
