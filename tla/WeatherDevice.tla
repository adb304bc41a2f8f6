---------------------------- MODULE WeatherDevice ----------------------------
(****************************************************************************)
(* The integrated weather device of Chapter 20 with its temperature sensor  *)
(* and its command client.                                                  *)
(*                                                                          *)
(* One turn of the device's loop is: poll, the sensor's sentence if one is  *)
(* there, the command if one is there, tick.  The clock may advance between *)
(* any two steps, and power may fail.  SAVE is taken apart into its system  *)
(* calls.  The device stamps a reading when it reads it, so the time a      *)
(* reading spends in the socket is left out; on the loopback interface      *)
(* datagrams may be lost but keep their order.                              *)
(*                                                                          *)
(* Points in time are ages and times left, see AnomalyDetection.  The       *)
(* filter's value is represented by the sentence it was last updated with.  *)
(* A parameter's text is reduced to the number parsing yields.              *)
(****************************************************************************)
EXTENDS AnomalyDetection, FiniteSets

CONSTANTS
    OkValues, JumpValue, RangeValue,   \* the temperatures the sensor reports
    LowerLimit, MaximumRate, StuckThreshold,
    Allowed,         \* for each parameter, the values set accepts
    PrintedLimit,    \* for a TemperatureLimit, the one its six decimals are read as
    Defaults,        \* the initial values of struct Parameters
    Overrides,       \* the command lines: sequences of <<name, value>>
    Requests,        \* the commands a client sends, without their identifier
    RateCap,         \* an age from which no change is too fast
    MaxSamples, MaxCommands, MaxRestarts, MaxInFlight,   \* bounds, and one on
    MaxEvents        \* sentences, commands and restarts together

Name == DOMAIN Allowed
Parameters == [Name -> UNION {Allowed[n] : n \in Name}]

\* what the sensor can put for a value that does not parse
Unreadable == -1000

ASSUME ParametersAssumption ==
    /\ Name = {"ReportingInterval", "TemperatureLimit", "StaleTimeout"}
    /\ Defaults \in Parameters /\ \A n \in Name : Defaults[n] \in Allowed[n]
    /\ Overrides \subseteq Seq(STRING \X Int)
    /\ \A t \in Allowed["ReportingInterval"] \cup Allowed["StaleTimeout"] : t \in Nat \ {0}
    /\ \A n \in {"ReportingInterval", "StaleTimeout"} :
          \E most \in Allowed[n] : \A t \in Allowed[n] : t <= most

\* The bounds of the range have no decimals: a limit that is rounded stays within.
ASSUME PrintingAssumption ==
    /\ PrintedLimit \in [Allowed["TemperatureLimit"] -> Allowed["TemperatureLimit"]]
    /\ PrintedLimit[Defaults["TemperatureLimit"]] = Defaults["TemperatureLimit"]

\* What the sensor sends in mode RANGE is beyond every limit set accepts.
ASSUME SensorAssumption ==
    \A limit \in Allowed["TemperatureLimit"] : ~inRange(LowerLimit, limit, RangeValue)

ASSUME BoundsAssumption == MaxSamples \in Nat /\ MaxInFlight \in Nat

VARIABLES
    turn,            \* where the device is: a step of its loop or of SAVE, or "down"
    device,          \* the members of struct Device
    telemetry,       \* what the last step published
    sensor,          \* sequence and last of temperature_sensor
    client,          \* the command client: nextId, and the command it waits for
    toDevice, toClient,      \* the sockets
    file,            \* what is at the path, in the temporary file, and on the disk
    restarts,
    \* history: since the last sentence, the STALE reports; the parameters of
    \* the saves a restart may find; the SET whose ACCEPTED the client has shown
    staleReports, mayRestore, confirmed

outside == <<sensor, client, toClient>>
storage == <<file, mayRestore>>
vars == <<turn, device, telemetry, outside, toDevice, storage, restarts, staleReports,
          confirmed>>

--------------------------------------------------------------------------------
(* Parameters: set, and the image file *)

set(params, name, value) ==
    IF name \in Name /\ value \in Allowed[name]
    THEN [params EXCEPT ![name] = value] ELSE params

accepts(name, value) == name \in Name /\ value \in Allowed[name]

\* std::to_string prints a double with six decimals, and an integer as it is
printed(params) == [params EXCEPT !["TemperatureLimit"] = PrintedLimit[@]]

\* an image at the path, or none, or one whose checksum fails
NoFile  == <<>>
Torn    == <<"torn">>
Image(params) == <<"image", printed(params)>>

\* for a file that can be opened
readParameters(content) == IF Len(content) = 2 THEN content[2] ELSE Defaults

Largest(S) == CHOOSE x \in S : \A y \in S : y <= x

\* A command line is taken up to its first argument that is refused; then the
\* program ends with the usage message.
commandLineOK(line) == \A i \in DOMAIN line : accepts(line[i][1], line[i][2])

\* The last override of a parameter is the one that counts.
overridden(params, line) ==
    [n \in Name |->
        LET given == {i \in DOMAIN line : line[i][1] = n}
        IN  IF given = {} THEN params[n] ELSE line[Largest(given)][2]]

--------------------------------------------------------------------------------
(* struct Device *)

NewDevice(params) ==
    [params |-> params, filter |-> <<>>, rate |-> <<>>, stuck |-> <<>>,
     lastReceived |-> <<>>, nextReport |-> 0, quality |-> "Invalid",
     reason |-> "NO_DATA", sequence |-> 0, staleReported |-> FALSE]

publish(d, kind) ==
    [kind |-> kind, sequence |-> d.sequence, filter |-> d.filter,
     quality |-> d.quality, reason |-> d.reason]

Judged(d, quality, reason) == [d EXCEPT !.quality = quality, !.reason = reason]

\* sensor, for a value that has come through all checks but those of its history
Sampled(d, msg) ==
    LET normalRate  == changeNormal(d.rate, MaximumRate, msg.value)
        normalStuck == valueNormal(d.stuck, StuckThreshold, msg.value)
        checked == [d EXCEPT !.rate = changeSeen(d.rate, msg.value),
                             !.stuck = valueSeen(d.stuck, StuckThreshold, msg.value)]
    IN  IF normalRate /\ normalStuck
        THEN [Judged(checked, "Good", "OK") EXCEPT !.filter = <<msg>>]
        ELSE Judged(checked, "Suspect", IF normalRate THEN "STUCK" ELSE "RATE")

\* Any sentence with a sequence number is a sign of life.
received(d, msg) ==
    [d EXCEPT !.lastReceived = <<0>>, !.staleReported = FALSE, !.sequence = msg.sequence]

sensorHandler(d, msg) ==
    LET live == received(d, msg) IN
    CASE msg.mode = "FAULT" -> Judged(live, "Invalid", "SENSOR_FAULT")
      [] msg.mode \notin {"FAULT", "OK", "JUMP", "RANGE", "STUCK"} ->
                Judged(live, "Invalid", "BAD_SENSOR_MODE")
      [] OTHER ->
            IF msg.value = Unreadable THEN Judged(live, "Invalid", "BAD_VALUE")
            ELSE IF ~inRange(LowerLimit, d.params["TemperatureLimit"], msg.value)
            THEN Judged(live, "Invalid", "RANGE")
            ELSE Sampled(live, msg)

isStale(d) ==
    /\ ~d.staleReported /\ d.lastReceived # <<>>
    /\ d.lastReceived[1] >= d.params["StaleTimeout"]

markStale(d) == [Judged(d, "Suspect", "STALE") EXCEPT !.staleReported = TRUE]

\* The bound on the length of a behaviour.  A reading counts twice, for it branches
\* most.
Event == 2 * sensor.sequence + client.nextId + restarts < MaxEvents

--------------------------------------------------------------------------------
Init ==
    /\ \E line \in Overrides :
        /\ commandLineOK(line)
        /\ device = NewDevice(overridden(Defaults, line))
    /\ turn = "poll" /\ telemetry = <<>>
    /\ sensor = [sequence |-> 0, last |-> <<>>]
    /\ client = [nextId |-> 0, waiting |-> <<>>]
    /\ toDevice = <<>> /\ toClient = <<>>
    /\ file = [path |-> NoFile, temporary |-> NoFile, disk |-> {NoFile}]
    /\ restarts = 0
    /\ staleReports = 0 /\ mayRestore = {Defaults} /\ confirmed = <<>>

--------------------------------------------------------------------------------
(* The sensor *)

\* A turn of the sensor's loop: the mode and with it the value.  STUCK repeats the last
\* value; a sentence of another sender may have an unknown mode or no number.
Reading(s) ==
    LET said(modes, values) ==
            [sequence : {s.sequence + 1}, mode : modes, value : values]
    IN  said({"OK", "FAULT"}, OkValues) \cup said({"RANGE"}, {RangeValue})
        \cup said({"JUMP"}, {JumpValue})
        \cup said({"STUCK"}, {s.last[i] : i \in DOMAIN s.last})
        \cup said({"OK"}, {Unreadable}) \cup said({"other"}, {0})

--------------------------------------------------------------------------------
(* The device's loop *)

\* poll says once for both sockets what is ready.
AfterSensor == IF toDevice # <<>> THEN "command" ELSE "tick"

NoReading ==
    /\ turn = "poll"
    /\ turn' = AfterSensor
    /\ telemetry' = <<>>
    /\ UNCHANGED <<device, outside, toDevice, storage, restarts, staleReports, confirmed>>

\* Two turns read the steady clock at different times.
SensorReading ==
    /\ Event
    /\ turn = "poll"
    /\ sensor.sequence < MaxSamples
    /\ device.lastReceived # <<0>>
    /\ \E msg \in Reading(sensor) :
        LET d == sensorHandler(device, msg) IN
        /\ sensor' = [sequence |-> msg.sequence, last |-> <<msg.value>>]
        /\ device' = d
        /\ telemetry' = IF d.quality # "Good" THEN <<publish(d, "WXDIA")>> ELSE <<>>
    /\ staleReports' = 0
    /\ turn' = AfterSensor
    /\ UNCHANGED <<client, toClient, toDevice, storage, restarts, confirmed>>

\* sendTo the client; the datagram may be lost, and is if the socket is full.
\* (life is history: which start of the device has answered.)
acknowledge(id, verdict, detail) ==
    \/ toClient' = toClient
    \/ /\ Len(toClient) < MaxInFlight
       /\ toClient' = Append(toClient, [id |-> id, verdict |-> verdict,
                                       detail |-> detail, life |-> restarts])

\* STATUS publishes, SET sets.  PARAMETERS and GET publish parameters, which no
\* property is about; that is left out.
Command ==
    /\ turn = "command"
    /\ Head(toDevice).op # "SAVE"
    /\ LET msg == Head(toDevice)
           good == CASE msg.op = "SET" -> accepts(msg.name, msg.value)
                     [] msg.op = "GET" -> msg.name \in Name
                     [] OTHER -> TRUE
           params == IF msg.op = "SET" THEN set(device.params, msg.name, msg.value)
                     ELSE device.params
       IN
        /\ device' = [device EXCEPT !.params = params,
               !.nextReport = IF good /\ msg.op = "SET" /\ msg.name = "ReportingInterval"
                              THEN params["ReportingInterval"] ELSE @]
        /\ telemetry' = IF msg.op = "STATUS" THEN <<publish(device, "WXSTS")>> ELSE <<>>
        /\ IF good THEN acknowledge(msg.id, "ACCEPTED", "OK")
           ELSE acknowledge(msg.id, "REJECTED", "INVALID_COMMAND_OR_VALUE")
    /\ toDevice' = Tail(toDevice)
    /\ turn' = "tick"
    /\ UNCHANGED <<sensor, client, storage, restarts, staleReports, confirmed>>

\* Mutant: a report that is due goes out before the silence is looked at.
Tick_ReportFirst ==
    /\ turn = "tick"
    /\ LET d == IF isStale(device) THEN markStale(device) ELSE device
           due == device.nextReport = 0 IN
        /\ device' = [d EXCEPT !.nextReport =
                          IF due THEN device.params["ReportingInterval"] ELSE @]
        /\ telemetry' = (IF due THEN <<publish(device, "WXTMP")>> ELSE <<>>)
                        \o (IF isStale(device) THEN <<publish(d, "WXDIA")>> ELSE <<>>)
        /\ staleReports' = staleReports + (IF isStale(device) THEN 1 ELSE 0)
    /\ turn' = "poll"
    /\ UNCHANGED <<outside, toDevice, storage, restarts, confirmed>>

\* Mutant: reports are sent by a turn that has read a sample, and by no other.
Tick_NeedsReading ==
    /\ turn = "tick" /\ device.lastReceived = <<0>>
    /\ device' = [device EXCEPT !.nextReport = device.params["ReportingInterval"]]
    /\ telemetry' = <<publish(device, "WXTMP")>>
    /\ turn' = "poll"
    /\ UNCHANGED <<outside, toDevice, storage, restarts, staleReports, confirmed>>

Tick ==
    /\ turn = "tick"
    /\ LET d == IF isStale(device) THEN markStale(device) ELSE device
           due == d.nextReport = 0 IN
        /\ device' = [d EXCEPT !.nextReport =
                          IF due THEN d.params["ReportingInterval"] ELSE @]
        /\ telemetry' = (IF isStale(device) THEN <<publish(d, "WXDIA")>> ELSE <<>>)
                        \o (IF due THEN <<publish(d, "WXTMP")>> ELSE <<>>)
        /\ staleReports' = staleReports + (IF isStale(device) THEN 1 ELSE 0)
    /\ turn' = "poll"
    /\ UNCHANGED <<outside, toDevice, storage, restarts, confirmed>>

--------------------------------------------------------------------------------
(* SAVE: writeParameters, one step for each thing that can fail and that a *)
(* power failure can come between.                                         *)

\* a step of the save that goes on with the next
Saving(from, to) ==
    /\ turn = from /\ turn' = to
    /\ telemetry' = <<>>
    /\ UNCHANGED <<device, outside, toDevice, restarts, staleReports, confirmed>>

\* the answer to SAVE, which leaves the command handler
SaveAnswers(from, verdict, detail) ==
    /\ turn = from /\ turn' = "tick"
    /\ telemetry' = <<>>
    /\ acknowledge(Head(toDevice).id, verdict, detail)
    /\ toDevice' = Tail(toDevice)
    /\ UNCHANGED <<device, sensor, client, restarts, staleReports, confirmed>>

\* open with O_TRUNC; from here on the image may become the one in force
SaveOpens ==
    /\ turn = "command" /\ Head(toDevice).op = "SAVE"
    /\ Saving("command", "write")
    /\ file' = [file EXCEPT !.temporary = Torn]
    /\ mayRestore' = mayRestore \cup {device.params}

\* write, fsync and close have succeeded: the image is on the disk
SaveWrites ==
    /\ Saving("write", "rename")
    /\ file' = [file EXCEPT !.temporary = Image(device.params)]
    /\ UNCHANGED mayRestore

\* The directory is not synchronised yet: after a power failure the old entry may
\* be there or the new one.
SaveRenames ==
    /\ Saving("rename", "directory")
    /\ file' = [path |-> file.temporary, temporary |-> NoFile,
                disk |-> file.disk \cup {file.temporary}]
    /\ UNCHANGED mayRestore

\* Mutant: the directory is not synchronised.
SaveEnds_NoSync ==
    /\ SaveAnswers("directory", "ACCEPTED", "OK")
    /\ UNCHANGED file
    /\ mayRestore' = {device.params}

\* open and fsync of the directory
SaveEnds ==
    /\ SaveAnswers("directory", "ACCEPTED", "OK")
    /\ file' = [file EXCEPT !.disk = {file.path}]
    /\ mayRestore' = {device.params}

\* open, write, fsync, close or rename has failed
SaveFails ==
    /\ \/ /\ turn = "command" /\ Head(toDevice).op = "SAVE"
          /\ SaveAnswers("command", "REJECTED", "SAVE_FAILED")
       \/ \E step \in {"write", "rename"} : SaveAnswers(step, "REJECTED", "SAVE_FAILED")
    /\ file' = [file EXCEPT !.temporary = IF turn = "command" THEN @ ELSE NoFile]
    /\ UNCHANGED mayRestore

\* the directory cannot be opened or synchronised; the image is in place
SaveNotDurable ==
    /\ SaveAnswers("directory", "REJECTED", "SAVE_FAILED")
    /\ UNCHANGED storage

--------------------------------------------------------------------------------
(* The end of a device and the next one *)

goesDown ==
    /\ Event
    /\ turn # "down" /\ restarts < MaxRestarts
    /\ turn' = "down"
    /\ telemetry' = <<>> /\ toDevice' = <<>> /\ confirmed' = <<>>
    /\ UNCHANGED <<device, outside, restarts, staleReports, mayRestore>>

\* SIGINT, SIGTERM or an error of poll ends the loop at its condition; SIGKILL
\* ends the process anywhere.  What programs see of the file stays.
Killed == goesDown /\ UNCHANGED file

\* What is at the path is what was on the disk; nothing else is left.
PowerFails ==
    /\ goesDown
    /\ \E content \in file.disk :
        file' = [path |-> content, temporary |-> NoFile, disk |-> {content}]

\* main: the image, then the command line.  A file that cannot be opened is as none.
Starts ==
    /\ turn = "down"
    /\ restarts' = restarts + 1
    /\ turn' = "poll"
    /\ \E line \in Overrides, params \in {readParameters(file.path), Defaults} :
        /\ commandLineOK(line)
        /\ device' = NewDevice(overridden(params, line))
    /\ staleReports' = 0
    /\ UNCHANGED <<telemetry, outside, toDevice, storage, confirmed>>

\* a command line that is refused: usage, exit code 1
StartRefused ==
    /\ Event
    /\ turn = "down"
    /\ restarts' = restarts + 1
    /\ restarts' <= MaxRestarts
    /\ \E line \in Overrides : ~commandLineOK(line)
    /\ UNCHANGED <<turn, device, telemetry, outside, toDevice, storage, staleReports, confirmed>>

--------------------------------------------------------------------------------
(* The command client *)

\* execute, up to the wait.  Sending may fail, or the datagram be lost: there is
\* no device, or its socket is full.
Execute ==
    /\ Event
    /\ client.waiting = <<>> /\ client.nextId < MaxCommands
    /\ \E request \in Requests :
        LET msg == [id |-> client.nextId + 1, op |-> request.op, name |-> request.name,
                    value |-> request.value] IN
        \/ \* "Failed to send command"
           /\ client' = [client EXCEPT !.nextId = msg.id]
           /\ UNCHANGED toDevice
        \/ /\ client' = [nextId |-> msg.id, waiting |-> <<msg>>]
           /\ \/ UNCHANGED toDevice
              \/ /\ turn # "down" /\ Len(toDevice) < MaxInFlight
                 /\ toDevice' = Append(toDevice, msg)
    /\ confirmed' = <<>>
    /\ UNCHANGED <<turn, device, telemetry, sensor, toClient, storage, restarts, staleReports>>

\* Mutant: the first acknowledgement to arrive is taken for the answer.
isAnswer_AnyId(ack, command) == ack.id <= command.id

isAnswer(ack, command) == ack.id = command.id

\* A datagram is read in the wait; what is not the answer is dropped.
AckArrives ==
    /\ client.waiting # <<>> /\ toClient # <<>>
    /\ LET ack == Head(toClient)
           command == client.waiting[1] IN
        IF isAnswer(ack, command)
        THEN /\ client' = [client EXCEPT !.waiting = <<>>]
             /\ confirmed' = IF command.op = "SET" /\ ack.verdict = "ACCEPTED"
                             THEN <<[set |-> command, life |-> ack.life]>> ELSE <<>>
        ELSE UNCHANGED <<client, confirmed>>
    /\ toClient' = Tail(toClient)
    /\ UNCHANGED <<turn, device, telemetry, sensor, toDevice, storage, restarts, staleReports>>

\* "No ACK received; the command's outcome is unknown."
DeadlinePasses ==
    /\ client.waiting # <<>>
    /\ client' = [client EXCEPT !.waiting = <<>>]
    /\ UNCHANGED <<turn, device, telemetry, sensor, toClient, toDevice, storage,
                   restarts, staleReports, confirmed>>

--------------------------------------------------------------------------------
(* The clock *)

aged(d) ==
    [d EXCEPT
        !.lastReceived = IF @ = <<>> THEN @
                         ELSE <<Older(@[1], Largest(Allowed["StaleTimeout"]))>>,
        !.rate = IF @ = <<>> THEN @ ELSE <<[@[1] EXCEPT !.age = Older(@, RateCap)]>>,
        !.nextReport = IF @ = 0 THEN 0 ELSE @ - 1]

\* While a command is handled nothing looks at the clock but SET, at its beginning:
\* the time a command takes is counted before the tick.
TimePasses ==
    /\ turn \in {"poll", "tick"}
    /\ device' = aged(device)
    /\ telemetry' = <<>>
    /\ UNCHANGED <<turn, outside, toDevice, storage, restarts, staleReports, confirmed>>

--------------------------------------------------------------------------------
Save == SaveOpens \/ SaveWrites \/ SaveRenames \/ SaveEnds \/ SaveFails \/ SaveNotDurable
Loop == NoReading \/ SensorReading \/ Command \/ Save \/ Tick
Client == Execute \/ AckArrives \/ DeadlinePasses

Next ==
    \/ Loop \/ Client \/ TimePasses
    \/ Killed \/ PowerFails \/ Starts \/ StartRefused

\* The device runs, its clock advances, and a client does not wait for ever.
Spec == /\ Init /\ [][Next]_vars
        /\ WF_vars(Loop) /\ WF_vars(TimePasses)

--------------------------------------------------------------------------------
(* Properties *)

Sentence == [sequence : 1..MaxSamples, mode : {"OK", "FAULT", "RANGE", "JUMP", "STUCK", "other"},
             value : OkValues \cup {JumpValue, RangeValue, Unreadable, 0}]
Quality == {"Good", "Suspect", "Invalid"}

\* Members have the types the source gives them, and quality and reason belong
\* together.
TypeOK ==
    /\ turn \in {"poll", "command", "tick", "write", "rename", "directory", "down"}
    /\ turn \in {"command", "write", "rename", "directory"} => toDevice # <<>>
    /\ device.params \in Parameters
    /\ \A n \in Name : device.params[n] \in Allowed[n]
    /\ device.filter \in {<<>>} \cup {<<s>> : s \in Sentence}
    /\ device.nextReport \in 0..Largest(Allowed["ReportingInterval"])
    /\ <<device.quality, device.reason>> \in
          {<<"Good", "OK">>} \cup ({"Suspect"} \X {"RATE", "STUCK", "STALE"})
          \cup ({"Invalid"} \X {"NO_DATA", "SENSOR_FAULT", "BAD_SENSOR_MODE", "BAD_VALUE", "RANGE"})
    /\ Len(toDevice) <= MaxInFlight /\ Len(toClient) <= MaxInFlight

Published == {telemetry[i] : i \in DOMAIN telemetry}

\* A temperature report marked Good is never older than StaleTimeout, whatever
\* commands and delays came between the sample and the report.
GoodIsFresh ==
    \A t \in Published : t.kind = "WXTMP" /\ t.quality = "Good" =>
        device.lastReceived[1] < device.params["StaleTimeout"]

\* What is marked Good shows a filter whose last input is the sentence it names,
\* and that input was within the limits of the sensor and moderately near.
GoodNamesItsSample ==
    \A t \in Published : t.quality = "Good" =>
        /\ t.filter # <<>> /\ t.filter[1].sequence = t.sequence
        /\ t.filter[1].mode # "FAULT" /\ t.filter[1].value \notin {RangeValue, Unreadable}

\* STALE is reported once for each silence.
StaleOnce == staleReports <= 1 /\ (staleReports = 1 <=> device.staleReported)

\* The telemetry is honest: fresh if it says so, naming the sample it shows, and
\* with one report for each silence (weather_device.cpp:32-77, README "A bad
\* reading does not replace the last filtered good value").
TelemetryHonest == TypeOK /\ GoodIsFresh /\ GoodNamesItsSample /\ StaleOnce

\* A SET whose ACCEPTED the client has shown is in force, until the next command
\* is sent or the device ends, whatever answers of earlier commands, given up as
\* unknown, were still on their way (command_client.cpp:26-46).
ConfirmedIsInForce ==
    \A i \in DOMAIN confirmed :
        turn # "down" /\ confirmed[i].life = restarts =>
            device.params[confirmed[i].set.name] = confirmed[i].set.value

\* Whenever the power fails or the process ends, the file a next device reads has the
\* parameters of the last SAVE answered ACCEPTED, or of one begun since, with six decimals
\* of the temperature limit; never those of an older image nor, once there is one, the
\* defaults (Parameters.h:66-85).  Whether it can be opened is another matter.
SaveIsKept ==
    \A content \in file.disk \cup {file.path} :
        \E params \in mayRestore : readParameters(content) = printed(params)

\* A device that runs reports a silence, and publishes a report that is due,
\* unless a sample comes, the parameters are changed or it ends first.
SilenceAndReportsDue ==
    /\ (turn # "down" /\ isStale(device)) ~>
           (device.staleReported \/ ~isStale(device) \/ turn = "down")
    /\ (turn # "down" /\ device.nextReport = 0) ~> (device.nextReport > 0 \/ turn = "down")
================================================================================
