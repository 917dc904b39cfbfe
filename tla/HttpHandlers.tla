----------------------------- MODULE HttpHandlers -----------------------------
(***************************************************************************)
(* The GET handlers behind http::Server.  The HTTP task takes one request  *)
(* after the other and makes the calls of its handler in order; each call  *)
(* may fail and then ends the handler with its code.  Handlers of sensors  *)
(* and of the reboot hand a function to a scheduler of the main task and   *)
(* wait for it, all but the reboot with a limit.  A handler that gives up  *)
(* leaves its function in the queue; those of DS18B20Handler refer to      *)
(* variables of the handler that has returned.                             *)
(***************************************************************************)
EXTENDS Naturals, JsonDocuments

CONSTANTS
  MaxEventCount,  \* limit of the queue of a scheduler
  BufferSize,     \* WebGuiPipeline::buffer_size_
  FileSizes,      \* sizes of the files of the Web GUI
  Devices,        \* bound: devices that answer to a scan of the bus
  NoRequest

ASSUME MaxEventCountAssumption == MaxEventCount \in Nat \ {0}
ASSUME FileAssumption == BufferSize \in Nat \ {0} /\ FileSizes \subseteq Nat
ASSUME DevicesAssumption == Devices \in Nat

VARIABLES
  request,    \* the path under the hand of the HTTP task
  calls,      \* calls its handler has still to make
  code,       \* what the handler has come to so far
  document,   \* keys of the document in the handler's frame
  spoiled,    \* a function of an earlier request wrote into the document
  file,       \* FILE and its size, position and end-of-file indicator
  wire,       \* what was sent in answer
  connected,  \* the connection to the client works
  queue,      \* functions waiting, per scheduler
  running,    \* the function the main task executes, at most one
  future      \* what the handler's function has returned, "Last" before

httpTask == <<request, calls, code, document, file>>
client == <<spoiled, wire, connected>>
mainTask == <<queue, running, future>>
vars == <<httpTask, client, mainTask>>

Schedulers == {"system", "bus"}
Closed == [open |-> FALSE, size |-> 0, pos |-> 0, eof |-> FALSE]

-----------------------------------------------------------------------------
(* The calls of the handlers. *)
SetHeader(name) == Try(name, {"Error"})
SetType == SetHeader("Content-Type")
Send(what) == Call("send", <<what>>, {"Error"})

MakeObject == Try("make_object", {"NoMem"})

(* cJSON_PrintPreallocated() fails when the buffer is too small. *)
PrintJson == Try("print", {"NoMem"})

(* add() or schedule(), and the wait for the future. *)
Execute(scheduler, function) ==
  <<Call("schedule", <<scheduler, function>>, {}), Call("wait", <<function>>, {})>>

SendText == <<SetType, Send("body")>>

(* DS18B20Handler::send_response_ *)
SendDocument == <<PrintJson, SetType, Send("body")>>

DataHandler(formatter) ==
  <<MakeObject>> \o FanoutFormatter(<<formatter, <<PrintJson>>>>) \o SendText

SystemStateHandler == <<MakeObject>> \o SystemStateFormatter \o SendDocument

SystemHandler == SendText \o Execute("system", "reboot")

GetTime == <<Try("get_time", {"Error"})>> \o SendText

(* A value that is no number or before the start point is refused. *)
TimeOps == Try("set_time", {"InvalidArg", "Error"})

SetTime == <<TimeOps>> \o SendText

Sht41Handler(operation) == Execute("system", operation) \o SendText

Gpio == <<Try("gpio", {"InvalidArg"})>>
SensorId == <<Try("sensor_id", {"InvalidArg"})>>

HandleScan == Gpio \o <<MakeObject>> \o Execute("bus", "scan") \o SendDocument

HandleConfiguration(function) ==
  Gpio \o SensorId \o <<MakeObject>> \o Execute("bus", function) \o SendDocument

HandleWriteConfiguration ==
  Gpio \o SensorId
    \o <<Try("serial_number", {"InvalidArg"}), Try("resolution", {"InvalidArg"}),
         MakeObject>>
    \o Execute("bus", "write") \o SendDocument

HandleRoot == <<SetHeader("status"), SetHeader("Location"), Send("redirect")>>

(* Whether the file system is mounted, which is found out once at start. *)
Mounted == Try("valid_", {"InvalidState"})

HandleFile ==
  <<Mounted, SetType, SetHeader("Content-Encoding"),
    Call("open", <<>>, {"Error"})>>

(* The endpoints, by path; an unknown one is refused by the server. *)
Handlers ==
  [telemetry |-> DataHandler(TelemetryFormatter),
   registration |-> DataHandler(RegistrationDocument),
   report |-> SystemStateHandler,
   reboot |-> SystemHandler,
   get_time |-> GetTime,
   set_time |-> SetTime,
   sht41_reset |-> Sht41Handler("reset"),
   sht41_heat |-> Sht41Handler("heat"),
   scan |-> HandleScan,
   read_configuration |-> HandleConfiguration("read"),
   write_configuration |-> HandleWriteConfiguration,
   erase_configuration |-> HandleConfiguration("erase"),
   root |-> HandleRoot,
   assets |-> HandleFile,
   unknown |-> <<Try("find_if", {"InvalidArg"})>>]

ASSUME NoRequestAssumption == NoRequest \notin DOMAIN Handlers

-----------------------------------------------------------------------------
(* The calls of the functions. *)
FormatConfiguration == Fields(<<>>, <<"resolution", "serial_number">>)

(* Every round of the scan may fail; the last one finds no more device. *)
Round(i) == <<Try("scan", {"Error"}), AppendItem(<<"rom_codes", i>>)>>

ScanRomCodes(n) ==
  <<Add(<<"rom_codes">>)>> \o FlattenSeq([i \in 1..n |-> Round(i)])
    \o <<Try("scan", {"Error"})>>

FormatSensor(id) ==
  <<MakeObject, Add(<<"sensors", id, "id">>), Add(<<"sensors", id, "configured">>),
    AppendItem(<<"sensors", id>>)>>

FormatSensors ==
  <<Add(<<"sensors">>)>>
    \o FlattenSeq([i \in DOMAIN Ds18b20Ids |-> FormatSensor(Ds18b20Ids[i])])

Scan(n) == ScanRomCodes(n) \o FormatSensors

GetSensor == Try("get_sensor", {"InvalidArg"})

(* NoData is no failure for those that read and erase. *)
ReadConfiguration == <<Try("read_configuration", {"Error"})>> \o FormatConfiguration

EraseConfiguration == <<Try("erase_configuration", {"Error"})>> \o FormatConfiguration

FindRomCode == Try("find_rom_code", {"NoData", "Error"})

WriteConfiguration ==
  <<GetSensor, Try("parse_configuration", {"InvalidArg"}), FindRomCode,
    Try("write_configuration", {"Error"})>> \o ReadConfiguration

(* A function's calls; n devices answer to a scan. *)
Body(function, n) ==
  CASE function = "scan" -> Scan(n)
    [] function = "read" -> <<GetSensor>> \o ReadConfiguration
    [] function = "erase" -> <<GetSensor>> \o EraseConfiguration
    [] function = "write" -> WriteConfiguration
    [] function = "reset" -> <<Try("reset", {"Error"})>>
    [] function = "heat" -> <<Try("heat", {"Error", "InvalidState"})>>
    [] function = "reboot" -> <<Call("reboot", <<>>, {})>>

-----------------------------------------------------------------------------
Init ==
  /\ request = NoRequest
  /\ calls = <<>>
  /\ code = "OK"
  /\ document = <<>>
  /\ spoiled = FALSE
  /\ file = Closed
  /\ wire = <<>>
  /\ connected = FALSE
  /\ queue = [s \in Schedulers |-> <<>>]
  /\ running = <<>>
  /\ future = "Last"

(* A request comes in on a working connection. *)
Receive(path) ==
  /\ request = NoRequest
  /\ request' = path
  /\ calls' = Handlers[path]
  /\ code' = "OK"
  /\ document' = <<>>
  /\ spoiled' = FALSE
  /\ wire' = <<>>
  /\ connected' = TRUE
  /\ file' = Closed
  /\ UNCHANGED mainTask

Next1(do) ==
  /\ calls # <<>>
  /\ Head(calls).do = do

Done ==
  /\ calls' = Tail(calls)
  /\ UNCHANGED <<request, code>>

(* The handler returns early. *)
ReturnCode(status) ==
  /\ calls' = <<>>
  /\ code' = status
  /\ UNCHANGED request

Succeed ==
  /\ Next1("try")
  /\ request # "unknown"
  /\ Done
  /\ UNCHANGED <<document, file, client, mainTask>>

AddItem ==
  /\ Next1("add")
  /\ Done
  /\ document' = Append(document, Head(calls).arg)
  /\ UNCHANGED <<file, client, mainTask>>

(* Mutant of Fail: the code of a formatter is not looked at. *)
FailIgnored ==
  /\ Next1("try") \/ Next1("add")
  /\ Done
  /\ UNCHANGED <<document, file, client, mainTask>>

Fail ==
  /\ Next1("try") \/ Next1("add")
  /\ \E status \in Head(calls).errors : ReturnCode(status)
  /\ UNCHANGED <<document, file, client, mainTask>>

(* The client gets the item, unless the connection is or goes down. *)
Transmit(item) ==
  /\ connected
  /\ wire' = Append(wire, item)
  /\ UNCHANGED <<spoiled, connected>>

TransmitFails ==
  /\ connected' = FALSE
  /\ UNCHANGED <<spoiled, wire>>

SendResponse ==
  /\ Next1("send")
  /\ \/ Done /\ Transmit([is |-> Head(calls).arg[1], keys |-> document])
     \/ ReturnCode("Error") /\ TransmitFails
  /\ UNCHANGED <<document, file, mainTask>>

-----------------------------------------------------------------------------
(* StreamTransceiver: a file in chunks.  Its destructor ends the reader    *)
(* and the writer however transceive() has come out.                       *)
OpenFile ==
  /\ Next1("open")
  /\ UNCHANGED <<request, document, client, mainTask>>
  /\ \/ /\ \E size \in FileSizes : file' = [Closed EXCEPT !.open = TRUE, !.size = size]
        /\ calls' = <<Call("copy", <<>>, {"Error"})>>
        /\ UNCHANGED code
     \/ /\ calls' = <<Call("end", <<>>, {})>>
        /\ code' = "Error"
        /\ UNCHANGED file

(* The indicator is set by the fread() that meets the end of the file, so  *)
(* not by one that takes the last byte and no more.                        *)
ReadFile ==
  LET n == IF file.size - file.pos < BufferSize THEN file.size - file.pos
                                                ELSE BufferSize
  IN  [n |-> n, file |-> [file EXCEPT !.pos = @ + n, !.eof = n < BufferSize]]

CloseFile == file' = [file EXCEPT !.open = FALSE]

(* The bytes of the file from its position on.  httpd_resp_send_chunk() of *)
(* no bytes ends the response.                                             *)
Chunk(n) == [is |-> IF n = 0 THEN "end" ELSE "chunk", from |-> file.pos, size |-> n]

EndCopy(status) ==
  /\ calls' = <<Call("end", <<>>, {})>>
  /\ code' = status

(* Mutant of CopyChunk: a failing read is taken for the end of the file. *)
CopyChunkUnchecked ==
  /\ Next1("copy")
  /\ UNCHANGED <<request, document, mainTask>>
  /\ \/ EndCopy("OK") /\ UNCHANGED <<file, client>>
     \/ /\ ~file.eof
        /\ file' = ReadFile.file
        /\ Transmit(Chunk(ReadFile.n)) /\ UNCHANGED <<calls, code>>

CopyChunk ==
  /\ Next1("copy")
  /\ UNCHANGED <<request, document, mainTask>>
  /\ \/ file.eof /\ EndCopy("OK") /\ UNCHANGED <<file, client>>
     \/ ~file.eof /\ EndCopy("Error") /\ UNCHANGED <<file, client>>
     \/ /\ ~file.eof
        /\ file' = ReadFile.file
        /\ \/ Transmit(Chunk(ReadFile.n)) /\ UNCHANGED <<calls, code>>
           \/ TransmitFails /\ EndCopy("Error")

EndStreams ==
  /\ Next1("end")
  /\ CloseFile
  /\ Done
  /\ Transmit(Chunk(0)) \/ TransmitFails
  /\ UNCHANGED <<document, mainTask>>

-----------------------------------------------------------------------------
(* AsyncFuncScheduler::add(); Store::schedule() also refuses a GPIO that   *)
(* has no bus.                                                             *)
Schedule ==
  /\ Next1("schedule")
  /\ UNCHANGED <<document, file, client, running>>
  /\ LET s == Head(calls).arg[1]
         f == Head(calls).arg[2]
     IN  \/ /\ Len(queue[s]) < MaxEventCount
            /\ \E n \in IF f = "scan" THEN 0..Devices ELSE {0} :
                 queue' = [queue EXCEPT ![s] =
                             Append(@, [function |-> f, calls |-> Body(f, n),
                                        frame |-> "alive"])]
            /\ future' = "Last"
            /\ Done
         \/ /\ Len(queue[s]) = MaxEventCount \/ s = "bus"
            /\ ReturnCode("InvalidState")
            /\ UNCHANGED <<queue, future>>

(* Mutant of Await: the handler does not wait before it reads the code. *)
AwaitNot ==
  /\ Next1("wait")
  /\ IF future = "OK" THEN Done ELSE ReturnCode("Error")
  /\ UNCHANGED <<document, file, client, mainTask>>

(* Future::wait() and Future::code(). *)
Await ==
  /\ Next1("wait")
  /\ future # "Last"
  /\ IF future = "OK" THEN Done ELSE ReturnCode(future)
  /\ UNCHANGED <<document, file, client, mainTask>>

(* The handler returns; what its function refers to is gone. *)
Abandon(f) == IF f.frame = "alive" THEN [f EXCEPT !.frame = "gone"] ELSE f

(* The limit of the wait passes, which the reboot does not have. *)
GiveUp ==
  /\ Next1("wait")
  /\ request # "reboot"
  /\ future = "Last"
  /\ ReturnCode("Timeout")
  /\ queue' = [s \in Schedulers |-> [i \in DOMAIN queue[s] |-> Abandon(queue[s][i])]]
  /\ running' = [i \in DOMAIN running |-> Abandon(running[i])]
  /\ UNCHANGED <<document, file, client, future>>

(* The server answers for a handler that has failed. *)
HttpCode(status) == IF status = "InvalidArg" THEN 400 ELSE 500

Respond ==
  /\ request # NoRequest
  /\ calls = <<>>
  /\ request' = NoRequest
  /\ document' = <<>>
  /\ \/ code = "OK" /\ UNCHANGED client
     \/ code # "OK" /\ Transmit([is |-> "error", http |-> HttpCode(code)])
     \/ code # "OK" /\ TransmitFails
  /\ UNCHANGED <<calls, code, file, mainTask>>

-----------------------------------------------------------------------------
(* The main task. *)
Take(s) ==
  /\ running = <<>>
  /\ queue[s] # <<>>
  /\ running' = <<Head(queue[s])>>
  /\ queue' = [queue EXCEPT ![s] = Tail(@)]
  /\ UNCHANGED <<httpTask, client, future>>

Step(do) ==
  /\ running # <<>>
  /\ running[1].calls # <<>>
  /\ Head(running[1].calls).do = do

Alive == running[1].frame = "alive"

Continue == running' = <<[running[1] EXCEPT !.calls = Tail(@)]>>

(* Mutant of Finish: a function that fails does not notify its future. *)
FinishSilently(status) ==
  /\ running' = <<>>
  /\ future' = IF Alive /\ status = "OK" THEN status ELSE future

Finish(status) ==
  /\ running' = <<>>
  /\ future' = IF Alive THEN status ELSE future

FuncSucceeds ==
  /\ Step("try")
  /\ Continue
  /\ UNCHANGED <<httpTask, client, queue, future>>

FuncAdds ==
  /\ Step("add")
  /\ Alive
  /\ Continue
  /\ document' = IF spoiled THEN <<>>
                            ELSE Append(document, Head(running[1].calls).arg)
  /\ UNCHANGED <<request, calls, code, file, client, queue, future>>

FuncFails ==
  /\ Step("try") \/ Step("add")
  /\ \E status \in Head(running[1].calls).errors : Finish(status)
  /\ UNCHANGED <<httpTask, client, queue>>

FuncReturns ==
  /\ running # <<>>
  /\ running[1].calls = <<>>
  /\ Finish("OK")
  /\ UNCHANGED <<httpTask, client, queue>>

Restart ==
  /\ request' = NoRequest
  /\ calls' = <<>>
  /\ code' = "OK"
  /\ document' = <<>>
  /\ spoiled' = FALSE
  /\ file' = Closed
  /\ connected' = FALSE
  /\ queue' = [s \in Schedulers |-> <<>>]
  /\ running' = <<>>
  /\ future' = "Last"
  /\ UNCHANGED wire

(* The reboot does not return. *)
FuncReboots ==
  /\ Step("reboot")
  /\ Restart

(* The frame is gone and json is what is now at its place on the stack of  *)
(* the HTTP task: nothing that matters, the document of a later request,   *)
(* or no document at all.  What a spoiled document holds is left out.      *)
FuncStrays ==
  /\ Step("add")
  /\ ~Alive
  /\ \/ Continue /\ UNCHANGED <<httpTask, client, queue, future>>
     \/ /\ Continue
        /\ request \in {"scan", "read_configuration", "write_configuration",
                        "erase_configuration"}
        /\ document' = <<>>
        /\ spoiled' = TRUE
        /\ UNCHANGED <<request, calls, code, file, wire, connected, queue, future>>
     \/ Restart

HttpTask ==
  \/ Succeed \/ AddItem \/ Fail \/ SendResponse
  \/ OpenFile \/ CopyChunk \/ EndStreams
  \/ Schedule \/ Await \/ Respond

MainTask ==
  \/ \E s \in Schedulers : Take(s)
  \/ FuncSucceeds \/ FuncAdds \/ FuncFails \/ FuncReturns \/ FuncReboots \/ FuncStrays

Next ==
  \/ \E path \in DOMAIN Handlers : Receive(path)
  \/ HttpTask
  \/ GiveUp
  \/ MainTask

Spec == Init /\ [][Next]_vars

(* The HTTP task and the main task go on with what they can do.  That the  *)
(* limit of a wait passes is not assumed.                                  *)
FairSpec == Spec /\ WF_vars(HttpTask) /\ WF_vars(MainTask)

-----------------------------------------------------------------------------
TypeOK ==
  /\ request \in DOMAIN Handlers \cup {NoRequest}
  /\ code \in {"OK", "InvalidArg", "InvalidState", "NoMem", "NoData", "Timeout", "Error"}
  /\ spoiled \in BOOLEAN /\ connected \in BOOLEAN
  /\ file.pos \in 0..file.size
  /\ \A s \in Schedulers : Len(queue[s]) <= MaxEventCount
  /\ Len(running) <= 1

(* A response that a client has seen the end of. *)
Complete(item) == item.is # "chunk"

(* All bytes of the file, in their order, and the end of the response.     *)
WholeFile(chunks) ==
  /\ \A i \in DOMAIN chunks :
       chunks[i].from = IF i = 1 THEN 0 ELSE chunks[i - 1].from + chunks[i - 1].size
  /\ Last(chunks).is = "end" /\ Last(chunks).from = file.size

(* A handler that returned OK has sent one body, the redirection, or all   *)
(* bytes of the file in order and its end, and for any other the last      *)
(* thing the client got is an error (server.cpp:123 and the handlers it    *)
(* calls).                                                                 *)
AnswerFitsOutcome ==
  request = NoRequest /\ connected /\ wire # <<>> =>
    IF code # "OK"
    THEN Last(wire).is = "error"
    ELSE \/ Len(wire) = 1 /\ wire[1].is \in {"body", "redirect"}
         \/ WholeFile(wire)

(* Whether a path may be answered with a document of these keys: those its *)
(* handler adds, or those the function adds that the handler hands over.   *)
DocumentOf(path, keys) ==
  LET scheduled == {c \in ToSet(Handlers[path]) : c.do = "schedule"}
  IN  IF scheduled = {}
      THEN keys = Keys(Handlers[path])
      ELSE \E c \in scheduled, n \in 0..Devices : keys = Keys(Body(c.arg[2], n))

(* A document is sent with each of its fields, and each once, whichever    *)
(* formatters share it and whichever allocation fails; only a function of  *)
(* a request that was given up can put something else into it.             *)
WholeDocument ==
  \A i \in DOMAIN wire :
    wire[i].is = "body" /\ request # NoRequest /\ ~spoiled =>
      DocumentOf(request, wire[i].keys) /\ IsInjective(wire[i].keys)

(* While a function may use the variables of its handler, the handler is   *)
(* inside its wait: it neither reads the document the main task writes nor *)
(* returns, unless it gives up (ds18b20_handler.cpp:163-180).              *)
AliveIsAwaited ==
  \A f \in ToSet(running) \cup UNION {ToSet(queue[s]) : s \in Schedulers} :
    f.frame = "alive" => Next1("wait")

(* A client gets one response to one request.  That a chunk of no bytes is *)
(* the end of the response is what chunk_stream_writer.cpp:33 says.        *)
OneAnswer == connected => Len(SelectSeq(wire, Complete)) <= 1

(* Every handler comes to an end: no wait is for a function that is not    *)
(* executed, no formatter or transfer goes on for ever.                    *)
EveryRequestAnswered == request # NoRequest ~> request = NoRequest
=============================================================================
