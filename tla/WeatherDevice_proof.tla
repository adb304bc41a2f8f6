------------------------- MODULE WeatherDevice_proof -------------------------
(****************************************************************************)
(* Proofs about WeatherDevice, for any parameters and values, any sentences *)
(* and commands, and any number of restarts: the file the next device reads *)
(* has the parameters of the last SAVE, a SET whose ACCEPTED the client has *)
(* shown is in force, and the telemetry is honest.                          *)
(****************************************************************************)
EXTENDS WeatherDevice, SequenceTheorems, WellFoundedInduction, TLAPS

--------------------------------------------------------------------------------
(* The inductive invariant *)

Message == [id : Nat, op : {r.op : r \in Requests}, name : {r.name : r \in Requests},
            value : {r.value : r \in Requests}]
Acknowledgement == [id : Nat, verdict : {"ACCEPTED", "REJECTED"},
                    detail : {"OK", "INVALID_COMMAND_OR_VALUE", "SAVE_FAILED"}, life : Nat]
Member == {"params", "filter", "rate", "stuck", "lastReceived", "nextReport", "quality",
           "reason", "sequence", "staleReported"}

Valid(params) == params \in Parameters /\ \A n \in Name : params[n] \in Allowed[n]

SavingSteps == {"write", "rename", "directory"}

Types ==
    /\ turn \in {"poll", "command", "tick", "down"} \cup SavingSteps
    /\ DOMAIN device = Member /\ Valid(device.params)
    /\ restarts \in Nat
    /\ client \in [nextId : Nat, waiting : Seq(Message)] /\ Len(client.waiting) <= 1
    /\ toDevice \in Seq(Message) /\ toClient \in Seq(Acknowledgement)
    /\ confirmed \in Seq([set : Message, life : Nat]) /\ Len(confirmed) <= 1

\* Where the command handler is, and the datagram it holds.
Handling ==
    /\ turn \in {"command"} \cup SavingSteps => toDevice # <<>>
    /\ turn \in SavingSteps => toDevice[1].op = "SAVE"
    /\ turn = "down" => toDevice = <<>>

\* What a restart may find, and how far the save has come.
SaveOK ==
    /\ SaveIsKept
    /\ \A params \in mayRestore : Valid(params)
    /\ turn \in SavingSteps => device.params \in mayRestore
    /\ turn = "rename" => file.temporary = Image(device.params)
    /\ turn = "directory" => file.path = Image(device.params)

\* Commands arrive in the order they were sent, and are answered in it.
InOrder ==
    /\ \A i \in 1..Len(toDevice) : toDevice[i].id <= client.nextId
    /\ \A i, j \in 1..Len(toDevice) : i < j => toDevice[i].id < toDevice[j].id
    /\ \A k \in 1..Len(toClient) :
         /\ toClient[k].id <= client.nextId /\ toClient[k].life <= restarts
         /\ turn # "down" /\ toClient[k].life = restarts =>
              \A i \in 1..Len(toDevice) : toClient[k].id < toDevice[i].id

InForce(command) == device.params[command.name] = command.value

\* The command the client waits for is the last one sent; while its ACCEPTED is on
\* the way, the parameter is in force.
WaitOK ==
    client.waiting # <<>> =>
      /\ client.waiting[1].id = client.nextId
      /\ \A i \in 1..Len(toDevice) :
           toDevice[i].id = client.nextId => toDevice[i] = client.waiting[1]
      /\ \A k \in 1..Len(toClient) :
           /\ turn # "down" /\ toClient[k].life = restarts
           /\ toClient[k].id = client.nextId /\ toClient[k].verdict = "ACCEPTED"
           /\ client.waiting[1].op = "SET"
           => InForce(client.waiting[1])

\* Once it is confirmed, nothing is under way that could change it.
ConfirmedOK ==
    confirmed # <<>> =>
      /\ client.waiting = <<>> /\ confirmed[1].life <= restarts
      /\ turn # "down" /\ confirmed[1].life = restarts =>
           toDevice = <<>> /\ InForce(confirmed[1].set)

Inv == Types /\ Handling /\ SaveOK /\ InOrder /\ WaitOK /\ ConfirmedOK

--------------------------------------------------------------------------------
(* Facts about parameters, devices and sockets *)

LEMMA LeastNatural ==
  ASSUME NEW T, T \subseteq Nat, T # {}
  PROVE  \E x \in T : \A y \in T : x <= y
<1> DEFINE R == OpToRel(<, Nat)
<1>1. IsWellFoundedOn(R, Nat)
  BY NatLessThanWellFounded
<1>2. \A x, y \in Nat : x < y => <<x, y>> \in R
  BY DEF OpToRel
<1> HIDE DEF R
<1>3. PICK x \in T : \A y \in T : ~ (<<y, x>> \in R)
  BY <1>1, WFMin
<1>4. ASSUME NEW y \in T  PROVE x <= y
  <2>1. x \in Nat /\ y \in Nat
    OBVIOUS
  <2>2. ~ (y < x)
    BY <1>2, <1>3, <2>1
  <2> QED  BY <2>1, <2>2
<1> QED  BY <1>4

\* Of the places in a sequence there is a last one.
LEMMA LargestPlace ==
  ASSUME NEW k \in Nat, NEW S, S \subseteq 1..k, S # {}
  PROVE  Largest(S) \in S
<1> DEFINE T == {k - x : x \in S}
<1>1. \A x \in S : x \in Nat /\ k - x \in Nat
  OBVIOUS
<1>2. T \subseteq Nat /\ T # {}
  BY <1>1
<1>3. PICK t \in T : \A y \in T : t <= y
  BY <1>2, LeastNatural
<1>4. PICK x \in S : t = k - x
  BY <1>3
<1>5. \A y \in S : k - x <= k - y
  BY <1>3, <1>4
<1>6. \A y \in S : y <= x
  BY <1>1, <1>5
<1> QED  BY <1>6 DEF Largest

\* set checks every parameter of the command line.
LEMMA CommandLineIsValid ==
  ASSUME NEW line \in Overrides, commandLineOK(line), NEW params, Valid(params)
  PROVE  Valid(overridden(params, line))
<1>1. line \in Seq(STRING \X Int)
  BY ParametersAssumption
<1>2. ASSUME NEW n \in Name
      PROVE  overridden(params, line)[n] \in Allowed[n]
  <2> DEFINE given == {i \in DOMAIN line : line[i][1] = n}
  <2>1. overridden(params, line)[n] = IF given = {} THEN params[n] ELSE line[Largest(given)][2]
    BY DEF overridden
  <2>2. CASE given = {}
    BY <2>1, <2>2 DEF Valid
  <2>3. CASE given # {}
    <3>1. DOMAIN line = 1..Len(line) /\ Len(line) \in Nat
      BY <1>1
    <3>2. given \subseteq 1..Len(line)
      BY <3>1
    <3> HIDE DEF given
    <3>3. Largest(given) \in given
      BY <2>3, <3>1, <3>2, LargestPlace
    <3>4. Largest(given) \in DOMAIN line /\ line[Largest(given)][1] = n
      BY <3>3 DEF given
    <3> QED  BY <2>1, <2>3, <3>4 DEF commandLineOK, accepts
  <2> QED  BY <2>2, <2>3
<1>3. overridden(params, line) \in Parameters
  <2>1. DOMAIN overridden(params, line) = Name
    BY DEF overridden
  <2>2. \A n \in Name : overridden(params, line)[n] \in UNION {Allowed[m] : m \in Name}
    BY <1>2
  <2>3. overridden(params, line) = [n \in Name |-> overridden(params, line)[n]]
    BY <2>1 DEF overridden
  <2> QED  BY <2>2, <2>3 DEF Parameters
<1> QED  BY <1>2, <1>3 DEF Valid

LEMMA SetIsValid ==
  ASSUME NEW params, Valid(params), NEW n, NEW v
  PROVE  /\ Valid(set(params, n, v))
         /\ accepts(n, v) => set(params, n, v)[n] = v
<1>1. CASE accepts(n, v)
  <2>1. set(params, n, v) = [params EXCEPT ![n] = v] /\ n \in Name /\ v \in Allowed[n]
    BY <1>1 DEF set, accepts
  <2> QED  BY <2>1 DEF Valid, Parameters
<1>2. CASE ~accepts(n, v)
  BY <1>2 DEF set, accepts
<1> QED  BY <1>1, <1>2

\* What is printed of valid parameters is valid, and of the defaults is the defaults.
LEMMA PrintedIsValid ==
  ASSUME NEW params, Valid(params)
  PROVE  Valid(printed(params))
<1>1. "TemperatureLimit" \in Name /\ params \in [Name -> UNION {Allowed[n] : n \in Name}]
      /\ \A n \in Name : params[n] \in Allowed[n]
  BY ParametersAssumption DEF Valid, Parameters
<1>2. PICK limit \in Allowed["TemperatureLimit"] : limit = PrintedLimit[params["TemperatureLimit"]]
  BY <1>1, PrintingAssumption
<1>3. printed(params) = [params EXCEPT !["TemperatureLimit"] = limit]
  BY <1>2 DEF printed
<1>4. \A n \in Name : printed(params)[n] \in Allowed[n]
  BY <1>1, <1>2, <1>3
<1>5. printed(params) \in [Name -> UNION {Allowed[n] : n \in Name}]
  BY <1>1, <1>2, <1>3
<1> QED  BY <1>4, <1>5 DEF Valid, Parameters

LEMMA PrintedDefaults == Valid(Defaults) /\ printed(Defaults) = Defaults
<1>1. Valid(Defaults)
  BY ParametersAssumption DEF Valid
<1>2. Defaults \in [Name -> UNION {Allowed[n] : n \in Name}]
  BY <1>1 DEF Valid, Parameters
<1>3. printed(Defaults) = [Defaults EXCEPT !["TemperatureLimit"] = Defaults["TemperatureLimit"]]
  BY PrintingAssumption DEF printed
<1> QED  BY <1>1, <1>2, <1>3

LEMMA NewDeviceMembers ==
  ASSUME NEW params
  PROVE  DOMAIN NewDevice(params) = Member /\ NewDevice(params).params = params
BY DEF NewDevice, Member

LEMMA JudgedMembers ==
  ASSUME NEW d, DOMAIN d = Member, NEW q, NEW r
  PROVE  DOMAIN Judged(d, q, r) = Member /\ Judged(d, q, r).params = d.params
BY DEF Judged, Member

\* Neither a sample nor the time that passes changes a parameter.
LEMMA HandlersKeepParameters ==
  ASSUME NEW d, DOMAIN d = Member, NEW msg
  PROVE  /\ DOMAIN sensorHandler(d, msg) = Member /\ sensorHandler(d, msg).params = d.params
         /\ DOMAIN markStale(d) = Member /\ markStale(d).params = d.params
         /\ DOMAIN aged(d) = Member /\ aged(d).params = d.params
<1>1. DOMAIN received(d, msg) = Member /\ received(d, msg).params = d.params
  BY DEF received, Member
<1> DEFINE live == received(d, msg)
<1>2. DOMAIN Sampled(live, msg) = Member /\ Sampled(live, msg).params = d.params
  <2> DEFINE checked == [live EXCEPT !.rate = changeSeen(live.rate, msg.value),
                             !.stuck = valueSeen(live.stuck, StuckThreshold, msg.value)]
  <2>1. DOMAIN checked = Member /\ checked.params = d.params
    BY <1>1 DEF Member
  <2> HIDE DEF checked, live
  <2>2. \A q, r : DOMAIN Judged(checked, q, r) = Member /\ Judged(checked, q, r).params = d.params
    BY <2>1, JudgedMembers
  <2>3. \A q, r : LET f == [Judged(checked, q, r) EXCEPT !.filter = <<msg>>]
                  IN  DOMAIN f = Member /\ f.params = d.params
    BY <2>2 DEF Member
  <2> QED  BY <2>2, <2>3 DEF Sampled, checked
<1> HIDE DEF live
<1>3. \A q, r : DOMAIN Judged(live, q, r) = Member /\ Judged(live, q, r).params = d.params
  BY <1>1, JudgedMembers DEF live
<1>4. DOMAIN sensorHandler(d, msg) = Member /\ sensorHandler(d, msg).params = d.params
  BY <1>2, <1>3 DEF sensorHandler, live
<1>5. DOMAIN markStale(d) = Member /\ markStale(d).params = d.params
  BY JudgedMembers DEF markStale, Member
<1>6. DOMAIN aged(d) = Member /\ aged(d).params = d.params
  BY DEF aged, Member
<1> QED  BY <1>4, <1>5, <1>6

LEMMA ClientMembers ==
  ASSUME NEW W, NEW c \in [nextId : Nat, waiting : W], NEW w \in W, NEW n \in Nat
  PROVE  /\ [c EXCEPT !.waiting = w] \in [nextId : Nat, waiting : W]
         /\ [c EXCEPT !.waiting = w].waiting = w /\ [c EXCEPT !.waiting = w].nextId = c.nextId
         /\ [c EXCEPT !.nextId = n] \in [nextId : Nat, waiting : W]
         /\ [c EXCEPT !.nextId = n].waiting = c.waiting /\ [c EXCEPT !.nextId = n].nextId = n
         /\ [nextId |-> n, waiting |-> w] \in [nextId : Nat, waiting : W]
         /\ [nextId |-> n, waiting |-> w].waiting = w /\ [nextId |-> n, waiting |-> w].nextId = n
OBVIOUS

LEMMA ShortSequences ==
  ASSUME NEW S
  PROVE  /\ <<>> \in Seq(S) /\ Len(<<>>) = 0
         /\ \A e \in S : <<e>> \in Seq(S) /\ Len(<<e>>) = 1 /\ <<e>>[1] = e /\ <<e>> # <<>>
OBVIOUS

LEMMA QueueFacts ==
  ASSUME NEW S, NEW s \in Seq(S)
  PROVE  /\ Len(s) \in Nat /\ DOMAIN s = 1..Len(s) /\ \A i \in 1..Len(s) : s[i] \in S
         /\ s # <<>> => /\ Len(s) > 0 /\ Head(s) = s[1] /\ Tail(s) \in Seq(S)
                        /\ Len(Tail(s)) = Len(s) - 1
                        /\ \A i \in 1..(Len(s) - 1) : Tail(s)[i] = s[i + 1]
         /\ s = <<>> <=> Len(s) = 0
         /\ \A e \in S : /\ Append(s, e) \in Seq(S) /\ Len(Append(s, e)) = Len(s) + 1
                         /\ Append(s, e)[Len(s) + 1] = e
                         /\ \A i \in 1..Len(s) : Append(s, e)[i] = s[i]
<1>1. Len(s) \in Nat /\ DOMAIN s = 1..Len(s) /\ \A i \in 1..Len(s) : s[i] \in S
  OBVIOUS
<1>2. s = <<>> <=> Len(s) = 0
  BY EmptySeq
<1>3. s # <<>> => /\ Len(s) > 0 /\ Head(s) = s[1] /\ Tail(s) \in Seq(S)
                  /\ Len(Tail(s)) = Len(s) - 1
                  /\ \A i \in 1..(Len(s) - 1) : Tail(s)[i] = s[i + 1]
  BY <1>1, <1>2, HeadTailProperties
<1>4. \A e \in S : /\ Append(s, e) \in Seq(S) /\ Len(Append(s, e)) = Len(s) + 1
                   /\ Append(s, e)[Len(s) + 1] = e
                   /\ \A i \in 1..Len(s) : Append(s, e)[i] = s[i]
  BY AppendProperties
<1> QED  BY <1>1, <1>2, <1>3, <1>4

--------------------------------------------------------------------------------
(* Every step keeps the invariant.                                          *)

LEMMA InitEstablishesInv ==
  ASSUME Init
  PROVE  Inv
<1>1. PICK line \in Overrides : commandLineOK(line) /\ device = NewDevice(overridden(Defaults, line))
  BY DEF Init
<1>2. /\ turn = "poll" /\ client = [nextId |-> 0, waiting |-> <<>>]
      /\ toDevice = <<>> /\ toClient = <<>> /\ confirmed = <<>> /\ restarts = 0
      /\ file = [path |-> NoFile, temporary |-> NoFile, disk |-> {NoFile}]
      /\ mayRestore = {Defaults}
  BY DEF Init
<1>3. Valid(Defaults)
  BY ParametersAssumption DEF Valid
<1>4. DOMAIN device = Member /\ Valid(device.params)
  BY <1>1, <1>3, CommandLineIsValid, NewDeviceMembers
<1>5. Types
  BY <1>2, <1>4 DEF Types
<1>6. Handling
  BY <1>2 DEF Handling, SavingSteps
<1>7. SaveOK
  <2>1. \A content \in file.disk \cup {file.path} : readParameters(content) = printed(Defaults)
    BY <1>2, PrintedDefaults DEF readParameters, NoFile
  <2> QED  BY <1>2, <1>3, <2>1 DEF SaveOK, SaveIsKept, SavingSteps
<1>8. InOrder /\ WaitOK /\ ConfirmedOK
  BY <1>2 DEF InOrder, WaitOK, ConfirmedOK
<1> QED  BY <1>5, <1>6, <1>7, <1>8 DEF Inv

\* A turn of the loop that handles no command.
LEMMA QuietTurnKeepsInv ==
  ASSUME Inv,
         turn \in {"poll", "tick"}, turn' \in {"poll", "tick", "command"},
         turn' = "command" => toDevice # <<>>,
         DOMAIN device' = Member, device'.params = device.params,
         UNCHANGED <<client, toClient, toDevice, storage, restarts, confirmed>>
  PROVE  Inv'
<1>1. Types'
  BY DEF Inv, Types
<1>2. Handling'
  BY DEF Handling, SavingSteps
<1>3. SaveOK'
  BY DEF Inv, SaveOK, SaveIsKept, SavingSteps, storage
<1>4. InOrder' /\ WaitOK' /\ ConfirmedOK'
  BY DEF Inv, InOrder, WaitOK, ConfirmedOK, InForce
<1> QED  BY <1>1, <1>2, <1>3, <1>4 DEF Inv

LEMMA LoopKeepsInv ==
  ASSUME Inv, NoReading \/ SensorReading \/ Tick \/ TimePasses
  PROVE  Inv'
<1>1. DOMAIN device = Member
  BY DEF Inv, Types
<1>2. CASE NoReading
  BY <1>1, <1>2, QuietTurnKeepsInv DEF NoReading, AfterSensor, outside
<1>3. CASE SensorReading
  <2>1. PICK msg \in Reading(sensor) : device' = sensorHandler(device, msg)
    BY <1>3 DEF SensorReading
  <2>2. DOMAIN device' = Member /\ device'.params = device.params
    BY <1>1, <2>1, HandlersKeepParameters
  <2> QED  BY <1>3, <2>2, QuietTurnKeepsInv DEF SensorReading, AfterSensor
<1>4. CASE Tick
  <2> DEFINE d == IF isStale(device) THEN markStale(device) ELSE device
  <2>1. DOMAIN d = Member /\ d.params = device.params
    BY <1>1, HandlersKeepParameters
  <2>2. \E t : device' = [d EXCEPT !.nextReport = t]
    BY <1>4 DEF Tick
  <2> HIDE DEF d
  <2>3. DOMAIN device' = Member /\ device'.params = device.params
    BY <2>1, <2>2 DEF Member
  <2> QED  BY <1>4, <2>3, QuietTurnKeepsInv DEF Tick, outside
<1>5. CASE TimePasses
  <2>1. DOMAIN device' = Member /\ device'.params = device.params
    BY <1>1, <1>5, HandlersKeepParameters DEF TimePasses
  <2> QED  BY <1>5, <2>1, QuietTurnKeepsInv DEF TimePasses, outside
<1> QED  BY <1>2, <1>3, <1>4, <1>5

\* The command at the head of the queue is answered.  If it is a SET and accepted, the
\* parameter is in force.
LEMMA AnswerKeepsOrder ==
  ASSUME Inv, toDevice # <<>>, turn # "down", turn' = "tick",
         NEW verdict \in {"ACCEPTED", "REJECTED"},
         NEW detail \in {"OK", "INVALID_COMMAND_OR_VALUE", "SAVE_FAILED"},
         acknowledge(toDevice[1].id, verdict, detail), toDevice' = Tail(toDevice),
         UNCHANGED <<client, restarts, confirmed>>,
         verdict = "ACCEPTED" /\ toDevice[1].op = "SET" =>
           device'.params[toDevice[1].name] = toDevice[1].value
  PROVE  /\ toDevice' \in Seq(Message) /\ toClient' \in Seq(Acknowledgement)
         /\ Handling' /\ InOrder' /\ WaitOK' /\ ConfirmedOK'
<1>1. /\ toDevice \in Seq(Message) /\ toClient \in Seq(Acknowledgement)
      /\ client.nextId \in Nat /\ restarts \in Nat
      /\ InOrder /\ WaitOK /\ ConfirmedOK
  BY DEF Inv, Types
<1> DEFINE n == Len(toDevice)
           head == toDevice[1]
           ack == [id |-> head.id, verdict |-> verdict, detail |-> detail, life |-> restarts]
<1>2. /\ n \in Nat /\ n > 0 /\ toDevice' \in Seq(Message) /\ Len(toDevice') = n - 1
      /\ \A i \in 1..(n - 1) : toDevice'[i] = toDevice[i + 1] /\ i + 1 \in 1..n
      /\ \A i \in 1..n : toDevice[i] \in Message
  BY <1>1, QueueFacts
<1>3. head \in Message /\ head.id \in Nat /\ 1 \in 1..n
  BY <1>2 DEF Message
<1>4. ack \in Acknowledgement
  BY <1>1, <1>3 DEF Acknowledgement
<1>5. toClient' = toClient \/ toClient' = Append(toClient, ack)
  BY DEF acknowledge
<1> HIDE DEF ack
<1>6. /\ toClient' \in Seq(Acknowledgement) /\ Len(toClient') \in Nat
      /\ \A k \in 1..Len(toClient') :
           (k \in 1..Len(toClient) /\ toClient'[k] = toClient[k]) \/ toClient'[k] = ack
  <2>1. /\ Len(toClient) \in Nat /\ Append(toClient, ack) \in Seq(Acknowledgement)
        /\ Len(Append(toClient, ack)) = Len(toClient) + 1
        /\ Append(toClient, ack)[Len(toClient) + 1] = ack
        /\ \A i \in 1..Len(toClient) : Append(toClient, ack)[i] = toClient[i]
    BY <1>1, <1>4, AppendProperties
  <2>2. CASE toClient' = toClient
    BY <1>1, <2>1, <2>2
  <2>3. CASE toClient' = Append(toClient, ack)
    BY <2>1, <2>3
  <2> QED  BY <1>5, <2>2, <2>3
<1>7. ack.id = head.id /\ ack.verdict = verdict /\ ack.life = restarts
  BY DEF ack
<1>8. \A k \in 1..Len(toClient) : toClient[k].id \in Nat /\ toClient[k].life \in Nat
  <2>1. \A k \in 1..Len(toClient) : toClient[k] \in Acknowledgement
    BY <1>1, QueueFacts
  <2> QED  BY <2>1 DEF Acknowledgement
<1>9. \A i \in 1..n : toDevice[i].id \in Nat
  BY <1>2 DEF Message
<1>10. Handling'
  BY DEF Handling, SavingSteps
<1>11. InOrder'
  <2>1. \A i \in 1..Len(toDevice') : toDevice'[i].id <= client.nextId
    BY <1>1, <1>2 DEF InOrder
  <2>2. \A i, j \in 1..Len(toDevice') : i < j => toDevice'[i].id < toDevice'[j].id
    BY <1>1, <1>2 DEF InOrder
  <2>3. ASSUME NEW k \in 1..Len(toClient')
        PROVE  /\ toClient'[k].id <= client.nextId /\ toClient'[k].life <= restarts
               /\ toClient'[k].life = restarts =>
                    \A i \in 1..Len(toDevice') : toClient'[k].id < toDevice'[i].id
    <3>1. CASE k \in 1..Len(toClient) /\ toClient'[k] = toClient[k]
      BY <1>1, <1>2, <3>1 DEF InOrder
    <3>2. CASE toClient'[k] = ack
      <4>1. head.id <= client.nextId
        BY <1>1, <1>3 DEF InOrder
      <4>2. \A i \in 1..(n - 1) : head.id < toDevice[i + 1].id
        BY <1>1, <1>2, <1>3 DEF InOrder
      <4> QED  BY <1>1, <1>2, <1>7, <3>2, <4>1, <4>2
    <3> QED  BY <1>6, <3>1, <3>2
  <2> QED  BY <2>1, <2>2, <2>3 DEF InOrder
<1>12. WaitOK'
  <2> SUFFICES ASSUME client.waiting # <<>>
               PROVE  /\ client.waiting[1].id = client.nextId
                      /\ \A i \in 1..Len(toDevice') :
                           toDevice'[i].id = client.nextId => toDevice'[i] = client.waiting[1]
                      /\ \A k \in 1..Len(toClient') :
                           /\ toClient'[k].life = restarts
                           /\ toClient'[k].id = client.nextId /\ toClient'[k].verdict = "ACCEPTED"
                           /\ client.waiting[1].op = "SET"
                           => InForce(client.waiting[1])'
    BY DEF WaitOK, InForce
  <2>1. /\ client.waiting[1].id = client.nextId
        /\ \A i \in 1..n : toDevice[i].id = client.nextId => toDevice[i] = client.waiting[1]
    BY <1>1 DEF WaitOK
  <2>2. \A i \in 1..Len(toDevice') : toDevice'[i].id = client.nextId => toDevice'[i] = client.waiting[1]
    BY <1>2, <2>1
  <2>3. ASSUME NEW k \in 1..Len(toClient'), toClient'[k].life = restarts,
               toClient'[k].id = client.nextId, toClient'[k].verdict = "ACCEPTED",
               client.waiting[1].op = "SET"
        PROVE  InForce(client.waiting[1])'
    <3>1. CASE k \in 1..Len(toClient) /\ toClient'[k] = toClient[k]
      <4>1. toClient[k].id < head.id /\ head.id <= client.nextId
        BY <1>1, <1>3, <2>3, <3>1 DEF InOrder
      <4> QED  BY <1>1, <1>3, <2>3, <3>1, <4>1
    <3>2. CASE toClient'[k] = ack
      <4>1. head = client.waiting[1] /\ verdict = "ACCEPTED" /\ head.op = "SET"
        BY <1>3, <1>7, <2>1, <2>3, <3>2
      <4> QED  BY <4>1 DEF InForce
    <3> QED  BY <1>6, <3>1, <3>2
  <2> QED  BY <2>1, <2>2, <2>3
<1>13. ConfirmedOK'
  BY <1>1 DEF ConfirmedOK
<1> QED  BY <1>2, <1>6, <1>10, <1>11, <1>12, <1>13

LEMMA CommandKeepsInv ==
  ASSUME Inv, Command
  PROVE  Inv'
<1>1. Types /\ Handling /\ SaveOK /\ turn = "command" /\ toDevice # <<>>
  BY DEF Inv, Handling, Command
<1>2. toDevice \in Seq(Message) /\ Head(toDevice) = toDevice[1] /\ 1 \in 1..Len(toDevice)
  BY <1>1, QueueFacts DEF Types
<1> DEFINE msg == toDevice[1]
           good == CASE msg.op = "SET" -> accepts(msg.name, msg.value)
                     [] msg.op = "GET" -> msg.name \in Name
                     [] OTHER -> TRUE
           params == IF msg.op = "SET" THEN set(device.params, msg.name, msg.value)
                     ELSE device.params
<1>3. /\ \E t : device' = [device EXCEPT !.params = params, !.nextReport = t]
      /\ IF good THEN acknowledge(msg.id, "ACCEPTED", "OK")
         ELSE acknowledge(msg.id, "REJECTED", "INVALID_COMMAND_OR_VALUE")
      /\ toDevice' = Tail(toDevice) /\ turn' = "tick"
      /\ UNCHANGED <<sensor, client, file, mayRestore, restarts, confirmed>>
  BY <1>2 DEF Command, storage
<1>4. Valid(params) /\ (good /\ msg.op = "SET" => params[msg.name] = msg.value)
  BY <1>1, SetIsValid DEF Types
<1> HIDE DEF params, good
<1>5. DOMAIN device' = Member /\ device'.params = params
  BY <1>1, <1>3 DEF Types, Member
<1>6. /\ toDevice' \in Seq(Message) /\ toClient' \in Seq(Acknowledgement)
      /\ Handling' /\ InOrder' /\ WaitOK' /\ ConfirmedOK'
  <2>1. CASE good
    BY <1>1, <1>3, <1>4, <1>5, <2>1, AnswerKeepsOrder
  <2>2. CASE ~good
    BY <1>1, <1>3, <1>4, <1>5, <2>2, AnswerKeepsOrder
  <2> QED  BY <2>1, <2>2
<1>7. Types'
  BY <1>1, <1>3, <1>4, <1>5, <1>6 DEF Types
<1>8. SaveOK'
  BY <1>1, <1>3 DEF SaveOK, SaveIsKept, SavingSteps
<1> QED  BY <1>6, <1>7, <1>8 DEF Inv

LEMMA SavingKeepsInv ==
  ASSUME Inv, SaveOpens \/ SaveWrites \/ SaveRenames
  PROVE  Inv'
<1>1. Types /\ Handling /\ SaveOK /\ toDevice \in Seq(Message)
  BY DEF Inv, Types
<1>2. /\ turn \in {"command"} \cup SavingSteps /\ turn' \in SavingSteps
      /\ UNCHANGED <<device, client, toClient, toDevice, restarts, confirmed>>
  BY DEF SaveOpens, SaveWrites, SaveRenames, Saving, SavingSteps, outside
<1>3. toDevice # <<>> /\ Head(toDevice) = toDevice[1]
  BY <1>1, <1>2, QueueFacts DEF Handling
<1>4. toDevice[1].op = "SAVE"
  BY <1>1, <1>3 DEF Handling, SavingSteps, SaveOpens, SaveWrites, SaveRenames, Saving
<1>5. Types'
  BY <1>1, <1>2 DEF Types, SavingSteps
<1>6. Handling'
  BY <1>2, <1>3, <1>4 DEF Handling, SavingSteps
<1>7. InOrder' /\ WaitOK' /\ ConfirmedOK'
  BY <1>2 DEF Inv, InOrder, WaitOK, ConfirmedOK, InForce, SavingSteps
<1>8. Valid(device.params)
  BY <1>1 DEF Types
<1>9. readParameters(Image(device.params)) = printed(device.params)
  BY DEF readParameters, Image
<1>10. SaveOK'
  <2>1. CASE SaveOpens
    <3>1. /\ turn' = "write" /\ file' = [file EXCEPT !.temporary = Torn]
          /\ mayRestore' = mayRestore \cup {device.params}
      BY <2>1 DEF SaveOpens, Saving
    <3>2. file'.disk = file.disk /\ file'.path = file.path
      BY <3>1
    <3> QED  BY <1>1, <1>2, <1>8, <3>1, <3>2 DEF SaveOK, SaveIsKept, SavingSteps
  <2>2. CASE SaveWrites
    <3>1. /\ turn = "write" /\ turn' = "rename"
          /\ file' = [file EXCEPT !.temporary = Image(device.params)]
          /\ UNCHANGED mayRestore
      BY <2>2 DEF SaveWrites, Saving
    <3>2. file'.disk = file.disk /\ file'.path = file.path
      BY <3>1
    <3> QED  BY <1>1, <1>2, <3>1, <3>2 DEF SaveOK, SaveIsKept, SavingSteps
  <2>3. CASE SaveRenames
    <3>1. /\ turn = "rename" /\ turn' = "directory" /\ file.temporary = Image(device.params)
          /\ file'.path = file.temporary /\ file'.disk = file.disk \cup {file.temporary}
          /\ UNCHANGED mayRestore
      BY <1>1, <2>3 DEF SaveRenames, Saving, SaveOK
    <3> QED  BY <1>1, <1>2, <1>9, <3>1 DEF SaveOK, SaveIsKept, SavingSteps
  <2> QED  BY <2>1, <2>2, <2>3
<1> QED  BY <1>5, <1>6, <1>7, <1>10 DEF Inv

LEMMA SaveAnswersKeepsInv ==
  ASSUME Inv, SaveEnds \/ SaveFails \/ SaveNotDurable
  PROVE  Inv'
<1>1. Types /\ Handling /\ SaveOK /\ toDevice \in Seq(Message)
  BY DEF Inv, Types
<1>2. PICK from \in {"command"} \cup SavingSteps,
           verdict \in {"ACCEPTED", "REJECTED"}, detail \in {"OK", "SAVE_FAILED"} :
         SaveAnswers(from, verdict, detail)
  BY DEF SaveEnds, SaveFails, SaveNotDurable, SavingSteps
<1>3. /\ turn \in {"command"} \cup SavingSteps /\ turn' = "tick"
      /\ acknowledge(Head(toDevice).id, verdict, detail) /\ toDevice' = Tail(toDevice)
      /\ UNCHANGED <<device, client, restarts, confirmed>>
  BY <1>2 DEF SaveAnswers
<1>4. toDevice # <<>> /\ Head(toDevice) = toDevice[1] /\ turn # "down"
  BY <1>1, <1>3, QueueFacts DEF Handling, SavingSteps
<1>5. toDevice[1].op = "SAVE"
  BY <1>1, <1>4 DEF Handling, SavingSteps, SaveEnds, SaveFails, SaveNotDurable, SaveAnswers
<1>6. /\ toDevice' \in Seq(Message) /\ toClient' \in Seq(Acknowledgement)
      /\ Handling' /\ InOrder' /\ WaitOK' /\ ConfirmedOK'
  BY <1>3, <1>4, <1>5, AnswerKeepsOrder
<1>7. Types'
  BY <1>1, <1>3, <1>6 DEF Types
<1>8. SaveOK'
  <2>1. CASE SaveEnds
    <3>1. /\ turn = "directory" /\ mayRestore' = {device.params}
          /\ file' = [file EXCEPT !.disk = {file.path}] /\ file.path = Image(device.params)
      BY <1>1, <2>1 DEF SaveEnds, SaveAnswers, SaveOK
    <3>2. readParameters(file'.path) = printed(device.params)
      BY <3>1 DEF readParameters, Image
    <3>3. \A content \in file'.disk : content = file'.path
      BY <3>1, <3>2
    <3>4. Valid(device.params)
      BY <1>1 DEF Types
    <3> QED  BY <1>3, <3>1, <3>2, <3>3, <3>4 DEF SaveOK, SaveIsKept, SavingSteps
  <2>2. CASE SaveFails \/ SaveNotDurable
    <3>1. mayRestore' = mayRestore /\ file'.disk = file.disk /\ file'.path = file.path
      <4>1. CASE SaveFails
        <5>1. mayRestore' = mayRestore /\ \E t : file' = [file EXCEPT !.temporary = t]
          BY <4>1 DEF SaveFails
        <5> QED  BY <5>1
      <4>2. CASE SaveNotDurable
        BY <4>2 DEF SaveNotDurable, storage
      <4> QED  BY <2>2, <4>1, <4>2
    <3> QED  BY <1>1, <1>3, <3>1 DEF SaveOK, SaveIsKept, SavingSteps
  <2> QED  BY <2>1, <2>2
<1> QED  BY <1>6, <1>7, <1>8 DEF Inv

LEMMA GoesDownKeepsInv ==
  ASSUME Inv, Killed \/ PowerFails
  PROVE  Inv'
<1>1. /\ turn' = "down" /\ toDevice' = <<>> /\ confirmed' = <<>>
      /\ UNCHANGED <<device, client, toClient, restarts, mayRestore>>
  BY DEF Killed, PowerFails, goesDown, outside
<1>2. Types'
  BY <1>1 DEF Inv, Types
<1>3. Handling'
  BY <1>1 DEF Handling, SavingSteps
<1>4. file'.disk \cup {file'.path} \subseteq file.disk \cup {file.path}
  BY DEF Killed, PowerFails
<1>5. SaveOK'
  BY <1>1, <1>4 DEF Inv, SaveOK, SaveIsKept, SavingSteps
<1>6. InOrder' /\ WaitOK' /\ ConfirmedOK'
  BY <1>1 DEF Inv, InOrder, WaitOK, ConfirmedOK
<1> QED  BY <1>2, <1>3, <1>5, <1>6 DEF Inv

\* What answered the client before is not the device that runs now.
LEMMA StartKeepsInv ==
  ASSUME Inv, Starts \/ StartRefused
  PROVE  Inv'
<1>1. /\ turn = "down" /\ turn' \in {"poll", "down"} /\ restarts' = restarts + 1
      /\ UNCHANGED <<client, toClient, toDevice, file, mayRestore, confirmed>>
  BY DEF Starts, StartRefused, outside, storage
<1>2. Types /\ Handling /\ SaveOK /\ InOrder /\ WaitOK /\ ConfirmedOK
  BY DEF Inv
<1>3. toDevice = <<>> /\ restarts \in Nat
  BY <1>1, <1>2 DEF Handling, Types
<1>4. DOMAIN device' = Member /\ Valid(device'.params)
  <2>1. CASE Starts
    <3>1. PICK line \in Overrides, params \in {readParameters(file.path), Defaults} :
             /\ commandLineOK(line)
             /\ device' = NewDevice(overridden(params, line))
      BY <2>1 DEF Starts
    <3>2. Valid(params)
      <4>1. PICK kept \in mayRestore : readParameters(file.path) = printed(kept)
        BY <1>2 DEF SaveOK, SaveIsKept
      <4>2. Valid(readParameters(file.path))
        BY <1>2, <4>1, PrintedIsValid DEF SaveOK
      <4> QED  BY <4>2, PrintedDefaults
    <3> QED  BY <3>1, <3>2, CommandLineIsValid, NewDeviceMembers
  <2>2. CASE StartRefused
    BY <1>2, <2>2 DEF StartRefused, Types
  <2> QED  BY <2>1, <2>2
<1>5. Types'
  BY <1>1, <1>2, <1>4 DEF Types
<1>6. Handling'
  BY <1>1, <1>3 DEF Handling, SavingSteps
<1>7. SaveOK'
  BY <1>1, <1>2 DEF SaveOK, SaveIsKept, SavingSteps
<1>8. \A k \in 1..Len(toClient) :
        toClient[k].id <= client.nextId /\ toClient[k].life \in Nat /\ toClient[k].life <= restarts
  <2>1. \A k \in 1..Len(toClient) : toClient[k] \in Acknowledgement
    BY <1>2, QueueFacts DEF Types
  <2> QED  BY <1>2, <2>1 DEF InOrder, Acknowledgement
<1>9. InOrder'
  BY <1>1, <1>3, <1>8 DEF InOrder
<1>10. WaitOK'
  BY <1>1, <1>2, <1>3, <1>8 DEF WaitOK
<1>11. ConfirmedOK'
  <2>1. confirmed # <<>> => confirmed[1].life \in Nat
    <3> DEFINE Confirmation == [set : Message, life : Nat]
    <3>1. confirmed \in Seq(Confirmation)
      BY <1>2 DEF Types
    <3>2. \A c \in Confirmation : c.life \in Nat
      OBVIOUS
    <3> HIDE DEF Confirmation
    <3>3. confirmed # <<>> => 1 \in 1..Len(confirmed)
      BY <3>1, QueueFacts
    <3> QED  BY <3>1, <3>2, <3>3
  <2> QED  BY <1>1, <1>2, <1>3, <2>1 DEF ConfirmedOK
<1> QED  BY <1>5, <1>6, <1>7, <1>9, <1>10, <1>11 DEF Inv

\* A command gets a new identifier, larger than any under way.
LEMMA ExecuteKeepsInv ==
  ASSUME Inv, Execute
  PROVE  Inv'
<1>1. Types /\ Handling /\ SaveOK /\ InOrder
  BY DEF Inv
<1> DEFINE Sent(r) == [id |-> client.nextId + 1, op |-> r.op, name |-> r.name,
                       value |-> r.value]
<1>2. PICK request \in Requests :
        \/ client' = [client EXCEPT !.nextId = client.nextId + 1] /\ toDevice' = toDevice
        \/ /\ client' = [nextId |-> client.nextId + 1, waiting |-> <<Sent(request)>>]
           /\ \/ toDevice' = toDevice
              \/ turn # "down" /\ toDevice' = Append(toDevice, Sent(request))
  BY DEF Execute
<1> DEFINE msg == Sent(request)
<1>3. /\ client.waiting = <<>> /\ confirmed' = <<>>
      /\ UNCHANGED <<turn, device, toClient, file, mayRestore, restarts>>
  BY DEF Execute, storage
<1>4. client.nextId \in Nat /\ toDevice \in Seq(Message) /\ toClient \in Seq(Acknowledgement)
      /\ restarts \in Nat
  BY <1>1 DEF Types
<1>5. msg \in Message
  BY <1>4 DEF Message
<1>5a. msg.id = client.nextId + 1
  OBVIOUS
<1> HIDE DEF msg, Sent
<1>6. toDevice' = toDevice \/ (turn # "down" /\ toDevice' = Append(toDevice, msg))
  BY <1>2 DEF msg
<1>7. /\ client' \in [nextId : Nat, waiting : Seq(Message)] /\ Len(client'.waiting) <= 1
      /\ client'.nextId = client.nextId + 1
      /\ client'.waiting = <<>> \/ client'.waiting = <<msg>>
  <2>1. client \in [nextId : Nat, waiting : Seq(Message)] /\ client.nextId + 1 \in Nat
    BY <1>1, <1>4 DEF Types
  <2>2. CASE client' = [client EXCEPT !.nextId = client.nextId + 1]
    <3>1. <<>> \in Seq(Message) /\ Len(<<>>) = 0
      BY ShortSequences
    <3>2. client' \in [nextId : Nat, waiting : Seq(Message)]
          /\ client'.waiting = client.waiting /\ client'.nextId = client.nextId + 1
      BY <2>1, <2>2, <3>1, ClientMembers
    <3> QED  BY <1>3, <3>1, <3>2
  <2>3. CASE client' = [nextId |-> client.nextId + 1, waiting |-> <<msg>>]
    <3>1. <<msg>> \in Seq(Message) /\ Len(<<msg>>) = 1
      BY <1>5, ShortSequences
    <3> DEFINE w == <<msg>>
    <3> HIDE DEF w
    <3>2. client' = [nextId |-> client.nextId + 1, waiting |-> w] /\ w \in Seq(Message) /\ Len(w) = 1
      BY <2>3, <3>1 DEF w
    <3>3. client' \in [nextId : Nat, waiting : Seq(Message)] /\ Len(client'.waiting) <= 1
          /\ client'.nextId = client.nextId + 1 /\ client'.waiting = w
      <4> DEFINE W == Seq(Message)
      <4>1. w \in W /\ client.nextId + 1 \in Nat
        BY <2>1, <3>2
      <4> HIDE DEF W
      <4>2. client' \in [nextId : Nat, waiting : W]
            /\ client'.nextId = client.nextId + 1 /\ client'.waiting = w
        BY <3>2, <4>1, ClientMembers
      <4>3. Len(client'.waiting) = 1
        BY <3>2, <4>2, Zenon
      <4>4. Len(client'.waiting) <= 1
        BY <4>3
      <4> QED  BY <4>2, <4>4, Zenon DEF W
    <3> QED  BY <3>3 DEF w
  <2> QED  BY <1>2, <2>2, <2>3 DEF msg
<1>7a. client'.nextId = client.nextId + 1
  BY <1>7
<1>8. /\ toDevice' \in Seq(Message) /\ Len(toDevice) \in Nat /\ Len(toDevice') \in Nat
      /\ \A i \in 1..Len(toDevice') :
           \/ i \in 1..Len(toDevice) /\ toDevice'[i] = toDevice[i]
           \/ i = Len(toDevice') /\ i = Len(toDevice) + 1 /\ toDevice'[i] = msg
      /\ turn \in {"command"} \cup SavingSteps /\ toDevice # <<>> => toDevice' # <<>>
      /\ toDevice # <<>> => toDevice'[1] = toDevice[1]
      /\ turn = "down" => toDevice' = toDevice
  <2>1. /\ Len(toDevice) \in Nat /\ Append(toDevice, msg) \in Seq(Message)
        /\ Len(Append(toDevice, msg)) = Len(toDevice) + 1
        /\ Append(toDevice, msg)[Len(toDevice) + 1] = msg
        /\ Append(toDevice, msg) # <<>>
        /\ \A i \in 1..Len(toDevice) : Append(toDevice, msg)[i] = toDevice[i]
        /\ toDevice # <<>> => 1 \in 1..Len(toDevice)
    BY <1>4, <1>5, AppendProperties, QueueFacts
  <2>2. CASE toDevice' = toDevice
    BY <1>4, <2>1, <2>2
  <2>3. CASE turn # "down" /\ toDevice' = Append(toDevice, msg)
    BY <2>1, <2>3
  <2> QED  BY <1>6, <2>2, <2>3
<1>8a. /\ Len(toDevice) \in Nat /\ Len(toDevice') \in Nat
       /\ \A i \in 1..Len(toDevice') :
           \/ i \in 1..Len(toDevice) /\ toDevice'[i] = toDevice[i]
           \/ i = Len(toDevice') /\ i = Len(toDevice) + 1 /\ toDevice'[i] = msg
  BY <1>8
<1>8b. client.nextId \in Nat
  BY <1>4
<1>9. \A i \in 1..Len(toDevice) : toDevice[i].id \in Nat /\ toDevice[i].id <= client.nextId
  <2>1. \A i \in 1..Len(toDevice) : toDevice[i] \in Message
    BY <1>4, QueueFacts
  <2> QED  BY <1>1, <2>1 DEF Message, InOrder
<1>10. \A k \in 1..Len(toClient) : toClient[k].id \in Nat /\ toClient[k].id <= client.nextId
  <2>1. \A k \in 1..Len(toClient) : toClient[k] \in Acknowledgement
    BY <1>4, QueueFacts
  <2> QED  BY <1>1, <2>1 DEF Acknowledgement, InOrder
<1>11. Types'
  BY <1>1, <1>3, <1>7, <1>8 DEF Types
<1>12. Handling'
  BY <1>1, <1>3, <1>8 DEF Handling, SavingSteps
<1>13. SaveOK'
  BY <1>1, <1>3 DEF SaveOK, SaveIsKept
<1>14. InOrder'
  <2>1. \A i \in 1..Len(toDevice') : toDevice'[i].id <= client'.nextId
    BY <1>5a, <1>7a, <1>8a, <1>8b, <1>9
  <2>2. ASSUME NEW i \in 1..Len(toDevice'), NEW j \in 1..Len(toDevice'), i < j
        PROVE  toDevice'[i].id < toDevice'[j].id
    <3>1. i \in 1..Len(toDevice) /\ toDevice'[i] = toDevice[i]
      BY <1>8a, <2>2
    <3>2. CASE j \in 1..Len(toDevice) /\ toDevice'[j] = toDevice[j]
      BY <1>1, <2>2, <3>1, <3>2 DEF InOrder
    <3>3. CASE toDevice'[j] = msg
      BY <1>5a, <1>8b, <1>9, <3>1, <3>3
    <3> QED  BY <1>8a, <3>2, <3>3
  <2>3. ASSUME NEW k \in 1..Len(toClient)
        PROVE  /\ toClient[k].id <= client'.nextId /\ toClient[k].life <= restarts
               /\ turn # "down" /\ toClient[k].life = restarts =>
                    \A i \in 1..Len(toDevice') : toClient[k].id < toDevice'[i].id
    <3>1. toClient[k].id <= client'.nextId /\ toClient[k].life <= restarts
      BY <1>1, <1>7a, <1>8b, <1>10 DEF InOrder
    <3>2. ASSUME turn # "down", toClient[k].life = restarts, NEW i \in 1..Len(toDevice')
          PROVE  toClient[k].id < toDevice'[i].id
      <4>1. CASE i \in 1..Len(toDevice) /\ toDevice'[i] = toDevice[i]
        BY <1>1, <3>2, <4>1 DEF InOrder
      <4>2. CASE toDevice'[i] = msg
        BY <1>5a, <1>8b, <1>10, <4>2
      <4> QED  BY <1>8a, <4>1, <4>2
    <3> QED  BY <3>1, <3>2
  <2> QED  BY <1>3, <2>1, <2>2, <2>3 DEF InOrder
<1>15. WaitOK'
  <2> SUFFICES ASSUME client'.waiting # <<>>
               PROVE  /\ client'.waiting[1].id = client'.nextId
                      /\ \A i \in 1..Len(toDevice') :
                           toDevice'[i].id = client'.nextId => toDevice'[i] = client'.waiting[1]
                      /\ \A k \in 1..Len(toClient) : toClient[k].id # client'.nextId
    BY <1>3 DEF WaitOK
  <2>1. client'.waiting[1] = msg
    BY <1>7
  <2>2. \A i \in 1..Len(toDevice) : toDevice[i].id # client'.nextId
    BY <1>7a, <1>8b, <1>9
  <2>3. \A k \in 1..Len(toClient) : toClient[k].id # client'.nextId
    BY <1>7a, <1>8b, <1>10
  <2> QED  BY <1>5a, <1>7a, <1>8a, <2>1, <2>2, <2>3
<1>16. ConfirmedOK'
  BY <1>3 DEF ConfirmedOK
<1> QED  BY <1>11, <1>12, <1>13, <1>14, <1>15, <1>16 DEF Inv

LEMMA AckArrivesKeepsInv ==
  ASSUME Inv, AckArrives
  PROVE  Inv'
<1> DEFINE ack == toClient[1]
           command == client.waiting[1]
<1>1. Types /\ Handling /\ SaveOK /\ InOrder /\ WaitOK /\ ConfirmedOK
  BY DEF Inv
<1>2. toClient \in Seq(Acknowledgement) /\ toClient # <<>> /\ client.waiting # <<>>
      /\ client.waiting \in Seq(Message) /\ restarts \in Nat /\ client.nextId \in Nat
  BY <1>1 DEF Types, AckArrives
<1>3. /\ Head(toClient) = ack /\ toClient' \in Seq(Acknowledgement) /\ ack \in Acknowledgement
      /\ Len(toClient') = Len(toClient) - 1 /\ 1 \in 1..Len(toClient) /\ Len(toClient) \in Nat
      /\ \A k \in 1..Len(toClient') : k + 1 \in 1..Len(toClient) /\ toClient'[k] = toClient[k + 1]
      /\ command \in Message
  <2>1. toClient' = Tail(toClient)
    BY DEF AckArrives
  <2> QED  BY <1>2, <2>1, QueueFacts
<1>4. ack.life \in Nat /\ ack.life <= restarts
  BY <1>1, <1>3 DEF Acknowledgement, InOrder
<1>5. UNCHANGED <<turn, device, toDevice, file, mayRestore, restarts>>
  BY DEF AckArrives, storage
<1>6. /\ Handling' /\ SaveOK'
  BY <1>1, <1>5 DEF Handling, SaveOK, SaveIsKept
<1>7. CASE isAnswer(ack, command)
  <2>1. /\ client' = [client EXCEPT !.waiting = <<>>]
        /\ confirmed' = IF command.op = "SET" /\ ack.verdict = "ACCEPTED"
                        THEN <<[set |-> command, life |-> ack.life]>> ELSE <<>>
    BY <1>3, <1>7 DEF AckArrives
  <2>2. /\ client' \in [nextId : Nat, waiting : Seq(Message)] /\ client'.waiting = <<>>
        /\ client'.nextId = client.nextId
    <3>1. client \in [nextId : Nat, waiting : Seq(Message)] /\ <<>> \in Seq(Message)
      BY <1>1, ShortSequences DEF Types
    <3> QED  BY <2>1, <3>1, ClientMembers
  <2>3. Len(client'.waiting) <= 1
    BY <2>2, ShortSequences
  <2>4. confirmed' \in Seq([set : Message, life : Nat]) /\ Len(confirmed') <= 1
    <3>1. [set |-> command, life |-> ack.life] \in [set : Message, life : Nat]
      BY <1>3, <1>4
    <3> DEFINE Confirmation == [set : Message, life : Nat]
               c == [set |-> command, life |-> ack.life]
    <3>2. c \in Confirmation /\ (confirmed' = <<c>> \/ confirmed' = <<>>)
      BY <2>1, <3>1
    <3> HIDE DEF c, Confirmation
    <3>3. confirmed' \in Seq(Confirmation) /\ Len(confirmed') <= 1
      <4>1. <<c>> \in Seq(Confirmation) /\ Len(<<c>>) = 1
        BY <3>2, ShortSequences
      <4>2. <<>> \in Seq(Confirmation) /\ Len(<<>>) = 0
        BY ShortSequences
      <4>3. confirmed' \in Seq(Confirmation) /\ (Len(confirmed') = 1 \/ Len(confirmed') = 0)
        BY <3>2, <4>1, <4>2, Zenon
      <4>4. \A n : n = 1 \/ n = 0 => n <= 1
        OBVIOUS
      <4> QED  BY <4>3, <4>4, Zenon
    <3> QED  BY <3>3 DEF Confirmation
  <2>5. Types'
    BY <1>1, <1>3, <1>5, <2>2, <2>3, <2>4 DEF Types
  <2>6. InOrder'
    BY <1>1, <1>3, <1>5, <2>2 DEF InOrder
  <2>7. WaitOK'
    BY <2>2 DEF WaitOK
  <2>8. ConfirmedOK'
    <3> SUFFICES ASSUME command.op = "SET", ack.verdict = "ACCEPTED",
                        confirmed' = <<[set |-> command, life |-> ack.life]>>
                 PROVE  ConfirmedOK'
      BY <2>1 DEF ConfirmedOK
    <3>1. confirmed'[1].set = command /\ confirmed'[1].life = ack.life
      OBVIOUS
    <3>2. ack.id = client.nextId
      BY <1>1, <1>2, <1>7 DEF isAnswer, WaitOK
    <3>3. ASSUME turn # "down", ack.life = restarts
          PROVE  toDevice = <<>> /\ InForce(command)
      <4>1. InForce(command)
        BY <1>1, <1>2, <1>3, <3>2, <3>3 DEF WaitOK
      <4>2. \A i \in 1..Len(toDevice) : ack.id < toDevice[i].id /\ toDevice[i].id <= client.nextId
        BY <1>1, <1>3, <3>3 DEF InOrder
      <4>3. toDevice \in Seq(Message)
        BY <1>1 DEF Types
      <4>4. toDevice # <<>> => 1 \in 1..Len(toDevice) /\ toDevice[1].id \in Nat
        <5>1. toDevice # <<>> => 1 \in 1..Len(toDevice) /\ toDevice[1] \in Message
          BY <4>3, QueueFacts
        <5> QED  BY <5>1 DEF Message
      <4> QED  BY <1>2, <3>2, <4>1, <4>2, <4>4
    <3> HIDE DEF ack, command
    <3> QED  BY <1>4, <1>5, <2>2, <3>1, <3>3 DEF ConfirmedOK, InForce
  <2> QED  BY <1>6, <2>5, <2>6, <2>7, <2>8 DEF Inv
<1>8. CASE ~isAnswer(ack, command)
  <2>1. UNCHANGED <<client, confirmed>>
    BY <1>3, <1>8 DEF AckArrives
  <2>2. Types'
    BY <1>1, <1>3, <1>5, <2>1 DEF Types
  <2>3. InOrder'
    BY <1>1, <1>3, <1>5, <2>1 DEF InOrder
  <2>4. WaitOK'
    BY <1>1, <1>3, <1>5, <2>1 DEF WaitOK, InForce
  <2>5. ConfirmedOK'
    BY <1>1, <1>5, <2>1 DEF ConfirmedOK, InForce
  <2> QED  BY <1>6, <2>2, <2>3, <2>4, <2>5 DEF Inv
<1> QED  BY <1>7, <1>8

LEMMA DeadlinePassesKeepsInv ==
  ASSUME Inv, DeadlinePasses
  PROVE  Inv'
<1>1. Types /\ Handling /\ SaveOK /\ InOrder /\ ConfirmedOK
  BY DEF Inv
<1>2. /\ client' = [client EXCEPT !.waiting = <<>>]
      /\ UNCHANGED <<turn, device, toDevice, toClient, file, mayRestore, restarts, confirmed>>
  BY DEF DeadlinePasses, storage
<1>3. /\ client' \in [nextId : Nat, waiting : Seq(Message)] /\ client'.waiting = <<>>
      /\ client'.nextId = client.nextId
  <2>1. client \in [nextId : Nat, waiting : Seq(Message)] /\ <<>> \in Seq(Message)
    BY <1>1, ShortSequences DEF Types
  <2> QED  BY <1>2, <2>1, ClientMembers
<1>4. Len(client'.waiting) <= 1
  BY <1>3, ShortSequences
<1>5. Types'
  BY <1>1, <1>2, <1>3, <1>4 DEF Types
<1>6. Handling' /\ SaveOK'
  BY <1>1, <1>2 DEF Handling, SaveOK, SaveIsKept
<1>7. InOrder'
  BY <1>1, <1>2, <1>3 DEF InOrder
<1>8. WaitOK' /\ ConfirmedOK'
  BY <1>1, <1>2, <1>3 DEF WaitOK, ConfirmedOK, InForce
<1> QED  BY <1>5, <1>6, <1>7, <1>8 DEF Inv

LEMMA StutterKeepsInv ==
  ASSUME Inv, UNCHANGED vars
  PROVE  Inv'
<1>1. UNCHANGED <<turn, device, client, toDevice, toClient, file, mayRestore, restarts, confirmed>>
  BY DEF vars, outside, storage
<1>2. Types' /\ Handling' /\ SaveOK'
  BY <1>1 DEF Inv, Types, Handling, SaveOK, SaveIsKept
<1>3. InOrder' /\ WaitOK' /\ ConfirmedOK'
  BY <1>1 DEF Inv, InOrder, WaitOK, ConfirmedOK, InForce
<1> QED  BY <1>2, <1>3 DEF Inv

LEMMA NextKeepsInv == Inv /\ [Next]_vars => Inv'
BY LoopKeepsInv, CommandKeepsInv, SavingKeepsInv, SaveAnswersKeepsInv, GoesDownKeepsInv,
   StartKeepsInv, ExecuteKeepsInv, AckArrivesKeepsInv, DeadlinePassesKeepsInv, StutterKeepsInv
DEF Next, Loop, Client, Save

\* Every step of the device, its client and the power keeps Inv.
THEOREM Invariance == Spec => []Inv
<1>1. Init => Inv
  BY InitEstablishesInv
<1> QED  BY <1>1, NextKeepsInv, PTL DEF Spec

--------------------------------------------------------------------------------
(* What the invariant says *)

\* Whatever is found at the path after a power failure or the end of the process, a device
\* that reads it starts with the parameters of the last SAVE answered ACCEPTED or of one
\* begun since, as they were printed.
THEOREM SavedParametersAreKept == Spec => []SaveIsKept
<1>1. Inv => SaveIsKept
  BY DEF Inv, SaveOK
<1> QED  BY <1>1, Invariance, PTL

\* Each parameter has a value that set accepts.
ParametersAreValid == \A n \in Name : device.params[n] \in Allowed[n]

\* The parameters in force are always among those set accepts, also after a restart
\* with any image and any command line.
THEOREM ValidParameters == Spec => []ParametersAreValid
<1>1. Inv => ParametersAreValid
  BY DEF Inv, Types, Valid, ParametersAreValid
<1> QED  BY <1>1, Invariance, PTL

\* A SET whose ACCEPTED the client has shown is in force until the next command is
\* sent or the device ends, whatever late answers were on their way.
THEOREM ConfirmedSetIsInForce == Spec => []ConfirmedIsInForce
<1>1. Inv => ConfirmedIsInForce
  <2> SUFFICES ASSUME Inv, NEW i \in DOMAIN confirmed, turn # "down", confirmed[i].life = restarts
               PROVE  device.params[confirmed[i].set.name] = confirmed[i].set.value
    BY DEF ConfirmedIsInForce
  <2> DEFINE Confirmation == [set : Message, life : Nat]
  <2>1. confirmed \in Seq(Confirmation) /\ Len(confirmed) <= 1
    BY DEF Inv, Types
  <2> HIDE DEF Confirmation
  <2>2. confirmed # <<>> /\ i = 1
    <3>1. Len(confirmed) \in Nat /\ DOMAIN confirmed = 1..Len(confirmed)
      BY <2>1, QueueFacts
    <3>2. i = 1 /\ Len(confirmed) # 0
      BY <2>1, <3>1
    <3> QED  BY <2>1, <3>2, QueueFacts
  <2> QED  BY <2>2 DEF Inv, ConfirmedOK, InForce
<1> QED  BY <1>1, Invariance, PTL

--------------------------------------------------------------------------------
(* Telemetry.  The device is honest between any two steps: what is Good has a   *)
(* live sensor and the sample it names; and so is what it has published.        *)

SensorValue == OkValues \cup {JumpValue, RangeValue, Unreadable, 0}

Judgements ==
    {<<"Good", "OK">>} \cup ({"Suspect"} \X {"RATE", "STUCK", "STALE"})
    \cup ({"Invalid"} \X {"NO_DATA", "SENSOR_FAULT", "BAD_SENSOR_MODE", "BAD_VALUE", "RANGE"})

\* The filter's last input is the sentence d names, and was a moderate reading.
NamesItsSample(d) ==
    /\ d.filter # <<>> /\ d.filter[1].sequence = d.sequence
    /\ d.filter[1].mode # "FAULT" /\ d.filter[1].value \notin {RangeValue, Unreadable}

HonestDevice(d) ==
    /\ d.filter \in {<<>>} \cup {<<s>> : s \in Sentence}
    /\ d.lastReceived \in {<<>>} \cup {<<age>> : age \in Nat}
    /\ d.nextReport \in 0..Largest(Allowed["ReportingInterval"])
    /\ <<d.quality, d.reason>> \in Judgements
    /\ d.quality = "Good" => ~d.staleReported /\ d.lastReceived # <<>> /\ NamesItsSample(d)

HonestSensor ==
    /\ sensor.sequence \in 0..MaxSamples
    /\ sensor.last \in {<<>>} \cup {<<v>> : v \in SensorValue}

\* A device that is down has nothing to say.
QuietWhenDown == turn = "down" => telemetry = <<>>

ShortQueues == Len(toDevice) <= MaxInFlight /\ Len(toClient) <= MaxInFlight

HonestInv ==
    /\ HonestDevice(device) /\ HonestSensor /\ ShortQueues
    /\ GoodIsFresh /\ GoodNamesItsSample /\ QuietWhenDown
    /\ StaleOnce /\ staleReports \in Nat

\* Largest is a bound: set bounds both periods.
LEMMA PeriodsBounded ==
  ASSUME NEW n \in {"ReportingInterval", "StaleTimeout"}
  PROVE  /\ Largest(Allowed[n]) \in Nat
         /\ \A t \in Allowed[n] : t \in Nat \ {0} /\ t <= Largest(Allowed[n])
<1>1. PICK most \in Allowed[n] : \A t \in Allowed[n] : t <= most
  BY ParametersAssumption
<1>2. \A t \in Allowed[n] : t \in Nat \ {0}
  BY ParametersAssumption
<1>3. Largest(Allowed[n]) \in Allowed[n] /\ \A t \in Allowed[n] : t <= Largest(Allowed[n])
  BY <1>1 DEF Largest
<1> QED  BY <1>2, <1>3

LEMMA PeriodsOf ==
  ASSUME NEW params, Valid(params)
  PROVE  /\ params["ReportingInterval"] \in 0..Largest(Allowed["ReportingInterval"])
         /\ params["StaleTimeout"] \in Nat
<1>1. {"ReportingInterval", "StaleTimeout"} \subseteq Name
  BY ParametersAssumption
<1>2. \A n \in {"ReportingInterval", "StaleTimeout"} : params[n] \in Allowed[n]
  BY <1>1 DEF Valid
<1> QED  BY <1>2, PeriodsBounded

\* A sentence is judged by what it says: it is Good only if the filter takes it in.
LEMMA SensorHandlerHonest ==
  ASSUME NEW d, DOMAIN d = Member, HonestDevice(d), Valid(d.params), NEW msg \in Sentence
  PROVE  /\ HonestDevice(sensorHandler(d, msg))
         /\ sensorHandler(d, msg).staleReported = FALSE
<1> DEFINE live == received(d, msg)
<1>1. /\ DOMAIN live = Member /\ live.lastReceived = <<0>> /\ live.staleReported = FALSE
      /\ live.sequence = msg.sequence /\ live.filter = d.filter
      /\ live.nextReport = d.nextReport /\ live.params = d.params
  BY DEF received, Member
<1>2. <<0>> \in {<<>>} \cup {<<age>> : age \in Nat} /\ <<0>> # <<>>
  OBVIOUS
\* What every judgement that is not Good leaves.
<1>3. ASSUME NEW x, DOMAIN x = Member, x.lastReceived = << 0 >>, x.staleReported = FALSE,
             x.sequence = msg.sequence, x.filter = d.filter, x.nextReport = d.nextReport,
             NEW q, NEW r, <<q, r>> \in Judgements, q # "Good"
      PROVE  HonestDevice(Judged(x, q, r)) /\ Judged(x, q, r).staleReported = FALSE
  <2> DEFINE y == Judged(x, q, r)
  <2>1. /\ y.filter = d.filter /\ y.lastReceived = <<0>> /\ y.nextReport = d.nextReport
        /\ y.quality = q /\ y.reason = r /\ y.staleReported = FALSE
    BY <1>3 DEF Judged, Member
  <2> HIDE DEF y
  <2>2. HonestDevice(y)
    BY <1>2, <1>3, <2>1 DEF HonestDevice
  <2> QED  BY <2>1, <2>2 DEF y
<1>4. \A r \in {"SENSOR_FAULT", "BAD_SENSOR_MODE", "BAD_VALUE", "RANGE"} :
         <<"Invalid", r>> \in Judgements
  BY DEF Judgements
<1>5. \A r \in {"RATE", "STUCK"} : <<"Suspect", r>> \in Judgements
  BY DEF Judgements
<1>6. <<"Good", "OK">> \in Judgements
  BY DEF Judgements
<1> HIDE DEF live
<1>7. \A r \in {"SENSOR_FAULT", "BAD_SENSOR_MODE", "BAD_VALUE", "RANGE"} :
        HonestDevice(Judged(live, "Invalid", r)) /\ Judged(live, "Invalid", r).staleReported = FALSE
  BY <1>1, <1>3, <1>4
<1>8. ASSUME msg.mode # "FAULT", msg.value # Unreadable,
             inRange(LowerLimit, live.params["TemperatureLimit"], msg.value)
      PROVE  HonestDevice(Sampled(live, msg)) /\ Sampled(live, msg).staleReported = FALSE
  <2> DEFINE checked == [live EXCEPT !.rate = changeSeen(live.rate, msg.value),
                             !.stuck = valueSeen(live.stuck, StuckThreshold, msg.value)]
             taken == [Judged(checked, "Good", "OK") EXCEPT !.filter = <<msg>>]
  <2>1. /\ DOMAIN checked = Member /\ checked.lastReceived = <<0>>
        /\ checked.staleReported = FALSE /\ checked.sequence = msg.sequence
        /\ checked.filter = d.filter /\ checked.nextReport = d.nextReport
    BY <1>1 DEF Member
  <2> HIDE DEF checked
  <2>2. \A r \in {"RATE", "STUCK"} :
          HonestDevice(Judged(checked, "Suspect", r)) /\ Judged(checked, "Suspect", r).staleReported = FALSE
    BY <1>3, <1>5, <2>1
  <2>3. /\ taken.filter = <<msg>> /\ taken.lastReceived = <<0>> /\ taken.staleReported = FALSE
        /\ taken.nextReport = d.nextReport /\ taken.quality = "Good" /\ taken.reason = "OK"
        /\ taken.sequence = msg.sequence
    BY <2>1 DEF Judged, Member
  <2>4. msg.value # RangeValue
    <3>1. "TemperatureLimit" \in Name
      BY ParametersAssumption
    <3>2. d.params["TemperatureLimit"] \in Allowed["TemperatureLimit"]
      BY <3>1 DEF Valid
    <3> QED  BY <1>1, <1>8, <3>2, SensorAssumption
  <2> DEFINE f == <<msg>>
  <2>5. f # <<>> /\ f[1] = msg /\ f \in {<<s>> : s \in Sentence}
    OBVIOUS
  <2> HIDE DEF taken, f
  <2>6. taken.filter = f
    BY <2>3 DEF f
  <2>7. NamesItsSample(taken)
    BY <1>8, <2>3, <2>4, <2>5, <2>6 DEF NamesItsSample
  <2>8. HonestDevice(taken)
    BY <1>2, <1>6, <2>3, <2>5, <2>6, <2>7 DEF HonestDevice
  <2> DEFINE s == Sampled(live, msg)
  <2>9. s = taken \/ \E r \in {"RATE", "STUCK"} : s = Judged(checked, "Suspect", r)
    BY DEF Sampled, checked, taken
  <2> HIDE DEF s
  <2>10. HonestDevice(s) /\ s.staleReported = FALSE
    BY <2>2, <2>3, <2>8, <2>9
  <2> QED  BY <2>10 DEF s
<1> DEFINE h == sensorHandler(d, msg)
<1>9. \/ \E r \in {"SENSOR_FAULT", "BAD_SENSOR_MODE", "BAD_VALUE", "RANGE"} :
            h = Judged(live, "Invalid", r)
      \/ /\ msg.mode # "FAULT" /\ msg.value # Unreadable
         /\ inRange(LowerLimit, live.params["TemperatureLimit"], msg.value)
         /\ h = Sampled(live, msg)
  <2> USE DEF live
  <2>1. CASE msg.mode = "FAULT"
    BY <2>1 DEF sensorHandler
  <2>2. CASE msg.mode \notin {"FAULT", "OK", "JUMP", "RANGE", "STUCK"}
    BY <2>2 DEF sensorHandler
  <2>3. CASE msg.mode \in {"OK", "JUMP", "RANGE", "STUCK"} /\ msg.value = Unreadable
    BY <2>3 DEF sensorHandler
  <2>4. CASE msg.mode \in {"OK", "JUMP", "RANGE", "STUCK"} /\ msg.value # Unreadable
    <3>1. h = IF ~inRange(LowerLimit, d.params["TemperatureLimit"], msg.value)
              THEN Judged(live, "Invalid", "RANGE") ELSE Sampled(live, msg)
      BY <2>4 DEF sensorHandler
    <3>2. live.params = d.params
      BY <1>1
    <3> QED  BY <2>4, <3>1, <3>2
  <2> QED  BY <2>1, <2>2, <2>3, <2>4
<1> HIDE DEF h
<1>10. HonestDevice(h) /\ h.staleReported = FALSE
  BY <1>7, <1>8, <1>9
<1> QED  BY <1>10 DEF h

LEMMA NewDeviceHonest ==
  ASSUME NEW params
  PROVE  HonestDevice(NewDevice(params)) /\ NewDevice(params).staleReported = FALSE
<1>1. <<"Invalid", "NO_DATA">> \in Judgements
  BY DEF Judgements
<1>2. 0 \in 0..Largest(Allowed["ReportingInterval"])
  BY PeriodsBounded
<1> QED  BY <1>1, <1>2 DEF NewDevice, HonestDevice

\* A silence that is noticed ends what was Good.
LEMMA StaleHonest ==
  ASSUME NEW d, DOMAIN d = Member, HonestDevice(d)
  PROVE  /\ HonestDevice(markStale(d)) /\ markStale(d).staleReported = TRUE
         /\ markStale(d).quality = "Suspect"
<1> DEFINE m == markStale(d)
<1>1. /\ m.filter = d.filter /\ m.lastReceived = d.lastReceived /\ m.nextReport = d.nextReport
      /\ m.quality = "Suspect" /\ m.reason = "STALE" /\ m.staleReported = TRUE
  BY DEF markStale, Judged, Member
<1>2. <<"Suspect", "STALE">> \in Judgements
  BY DEF Judgements
<1> HIDE DEF m
<1>3. HonestDevice(m)
  BY <1>1, <1>2 DEF HonestDevice
<1> QED  BY <1>1, <1>3 DEF m

LEMMA AgedHonest ==
  ASSUME NEW d, DOMAIN d = Member, HonestDevice(d)
  PROVE  HonestDevice(aged(d)) /\ aged(d).staleReported = d.staleReported
<1> DEFINE a == aged(d)
           cap == Largest(Allowed["StaleTimeout"])
<1>1. /\ a.filter = d.filter /\ a.quality = d.quality /\ a.reason = d.reason
      /\ a.sequence = d.sequence /\ a.staleReported = d.staleReported
      /\ a.lastReceived = IF d.lastReceived = <<>> THEN <<>>
                          ELSE <<Older(d.lastReceived[1], cap)>>
      /\ a.nextReport = IF d.nextReport = 0 THEN 0 ELSE d.nextReport - 1
  BY DEF aged, Member
<1>2. cap \in Nat
  BY PeriodsBounded
<1> HIDE DEF a, cap
<1>3. \A age \in Nat : Older(age, cap) \in Nat
  BY <1>2 DEF Older
<1>4. d.lastReceived \in {<<>>} \cup {<<age>> : age \in Nat}
  BY DEF HonestDevice
<1>5. a.lastReceived \in {<<>>} \cup {<<age>> : age \in Nat} /\ (a.lastReceived = <<>> <=> d.lastReceived = <<>>)
  <2>1. CASE d.lastReceived = <<>>
    BY <1>1, <2>1
  <2>2. CASE d.lastReceived # <<>>
    <3>1. PICK age \in Nat : d.lastReceived = <<age>>
      BY <1>4, <2>2
    <3>2. d.lastReceived[1] = age
      BY <3>1
    <3>3. PICK older \in Nat : older = Older(age, cap)
      BY <1>3
    <3>4. a.lastReceived = <<older>>
      BY <1>1, <2>2, <3>2, <3>3
    <3> QED  BY <2>2, <3>4
  <2> QED  BY <2>1, <2>2
<1>6. a.nextReport \in 0..Largest(Allowed["ReportingInterval"])
  <2>1. d.nextReport \in 0..Largest(Allowed["ReportingInterval"])
    BY DEF HonestDevice
  <2>2. Largest(Allowed["ReportingInterval"]) \in Nat
    BY PeriodsBounded
  <2> QED  BY <1>1, <2>1, <2>2
<1>7. HonestDevice(a)
  BY <1>1, <1>5, <1>6 DEF HonestDevice, NamesItsSample
<1> QED  BY <1>1, <1>7 DEF a

\* Setting the parameters or the next report touches nothing of the telemetry.
LEMMA RearmedHonest ==
  ASSUME NEW d, DOMAIN d = Member, HonestDevice(d), NEW e, DOMAIN e = Member,
         e.nextReport \in 0..Largest(Allowed["ReportingInterval"]),
         \A x \in {"filter", "lastReceived", "quality", "reason", "sequence", "staleReported"} :
            e[x] = d[x]
  PROVE  HonestDevice(e)
<1>1. /\ e.filter = d.filter /\ e.lastReceived = d.lastReceived /\ e.quality = d.quality
      /\ e.reason = d.reason /\ e.sequence = d.sequence /\ e.staleReported = d.staleReported
  OBVIOUS
<1> QED  BY <1>1 DEF HonestDevice, NamesItsSample

LEMMA SilenceIsHonest ==
  /\ telemetry = <<>> => GoodIsFresh /\ GoodNamesItsSample /\ QuietWhenDown
  /\ telemetry' = <<>> => GoodIsFresh' /\ GoodNamesItsSample' /\ QuietWhenDown'
BY DEF GoodIsFresh, GoodNamesItsSample, QuietWhenDown, Published

\* What is published of an honest device names its sample.
LEMMA PublishedNamesItsSample ==
  ASSUME NEW d, HonestDevice(d), NEW kind, publish(d, kind).quality = "Good"
  PROVE  /\ publish(d, kind).filter # <<>>
         /\ publish(d, kind).filter[1].sequence = publish(d, kind).sequence
         /\ publish(d, kind).filter[1].mode # "FAULT"
         /\ publish(d, kind).filter[1].value \notin {RangeValue, Unreadable}
<1>1. /\ publish(d, kind).quality = d.quality /\ publish(d, kind).filter = d.filter
      /\ publish(d, kind).sequence = d.sequence
  BY DEF publish
<1> QED  BY <1>1 DEF HonestDevice, NamesItsSample

\* A step that leaves the device as it is and publishes nothing.
LEMMA SilentStepHonest ==
  ASSUME HonestInv, UNCHANGED <<device, sensor, staleReports>>, telemetry' = <<>>,
         ShortQueues'
  PROVE  HonestInv'
<1>1. GoodIsFresh' /\ GoodNamesItsSample' /\ QuietWhenDown'
  BY SilenceIsHonest
<1> QED  BY <1>1 DEF HonestInv, HonestSensor, StaleOnce

\* A step of the client or the network: the device and its telemetry stay.
LEMMA OutsideStepHonest ==
  ASSUME HonestInv, UNCHANGED <<turn, device, telemetry, sensor, staleReports>>, ShortQueues'
  PROVE  HonestInv'
<1>1. GoodIsFresh' /\ GoodNamesItsSample' /\ QuietWhenDown'
  BY DEF HonestInv, GoodIsFresh, GoodNamesItsSample, QuietWhenDown, Published
<1> QED  BY <1>1 DEF HonestInv, HonestSensor, StaleOnce

LEMMA QueuesStayShort ==
  ASSUME Types, ShortQueues
  PROVE  /\ Len(<<>>) <= MaxInFlight
         /\ toDevice # <<>> => Len(Tail(toDevice)) <= MaxInFlight
         /\ toClient # <<>> => Len(Tail(toClient)) <= MaxInFlight
         /\ \A msg \in Message : Len(toDevice) < MaxInFlight =>
               Len(Append(toDevice, msg)) <= MaxInFlight
         /\ \A id \in Nat, v \in {"ACCEPTED", "REJECTED"},
               e \in {"OK", "INVALID_COMMAND_OR_VALUE", "SAVE_FAILED"} :
               acknowledge(id, v, e) => Len(toClient') <= MaxInFlight
<1>1. MaxInFlight \in Nat /\ Len(<<>>) = 0
  BY BoundsAssumption
<1>2. /\ toDevice \in Seq(Message) /\ Len(toDevice) \in Nat /\ Len(toDevice) <= MaxInFlight
      /\ toClient \in Seq(Acknowledgement) /\ Len(toClient) \in Nat /\ Len(toClient) <= MaxInFlight
      /\ restarts \in Nat
  BY QueueFacts DEF Types, ShortQueues
<1>3. toDevice # <<>> => Len(Tail(toDevice)) <= MaxInFlight
  <2>1. toDevice # <<>> => Len(Tail(toDevice)) = Len(toDevice) - 1
    BY <1>2, QueueFacts
  <2> QED  BY <1>1, <1>2, <2>1
<1>4. toClient # <<>> => Len(Tail(toClient)) <= MaxInFlight
  <2>1. toClient # <<>> => Len(Tail(toClient)) = Len(toClient) - 1
    BY <1>2, QueueFacts
  <2> QED  BY <1>1, <1>2, <2>1
<1>5. ASSUME NEW msg \in Message, Len(toDevice) < MaxInFlight
      PROVE  Len(Append(toDevice, msg)) <= MaxInFlight
  <2>1. Len(Append(toDevice, msg)) = Len(toDevice) + 1
    BY <1>2, QueueFacts
  <2> QED  BY <1>1, <1>2, <1>5, <2>1
<1>6. ASSUME NEW id \in Nat, NEW v \in {"ACCEPTED", "REJECTED"},
             NEW e \in {"OK", "INVALID_COMMAND_OR_VALUE", "SAVE_FAILED"}, acknowledge(id, v, e)
      PROVE  Len(toClient') <= MaxInFlight
  <2> DEFINE ack == [id |-> id, verdict |-> v, detail |-> e, life |-> restarts]
  <2>1. ack \in Acknowledgement
    BY <1>2 DEF Acknowledgement
  <2>2. \/ toClient' = toClient
        \/ Len(toClient) < MaxInFlight /\ toClient' = Append(toClient, ack)
    BY <1>6 DEF acknowledge
  <2> HIDE DEF ack
  <2>3. Len(Append(toClient, ack)) = Len(toClient) + 1
    BY <1>2, <2>1, QueueFacts
  <2> QED  BY <1>1, <1>2, <2>2, <2>3
<1> QED  BY <1>1, <1>3, <1>4, <1>5, <1>6

\* The command at the head of the queue is answered.
LEMMA AnswersStayShort ==
  ASSUME Types, ShortQueues, toDevice # <<>>, toDevice' = Tail(toDevice),
         NEW v \in {"ACCEPTED", "REJECTED"},
         NEW e \in {"OK", "INVALID_COMMAND_OR_VALUE", "SAVE_FAILED"},
         acknowledge(Head(toDevice).id, v, e)
  PROVE  ShortQueues'
<1>1. Head(toDevice).id \in Nat
  <2>1. toDevice \in Seq(Message)
    BY DEF Types
  <2>2. 1 \in 1..Len(toDevice) /\ Head(toDevice) = toDevice[1] /\ toDevice[1] \in Message
    BY <2>1, QueueFacts
  <2> QED  BY <2>2 DEF Message
<1>2. Len(toClient') <= MaxInFlight /\ Len(toDevice') <= MaxInFlight
  BY <1>1, QueuesStayShort
<1> QED  BY <1>2 DEF ShortQueues

LEMMA SensorReadingHonest ==
  ASSUME Inv, HonestInv, SensorReading
  PROVE  HonestInv'
<1>1. PICK msg \in Reading(sensor) :
        /\ sensor' = [sequence |-> msg.sequence, last |-> <<msg.value>>]
        /\ device' = sensorHandler(device, msg)
        /\ telemetry' = IF sensorHandler(device, msg).quality # "Good"
                        THEN <<publish(sensorHandler(device, msg), "WXDIA")>> ELSE <<>>
  BY DEF SensorReading
<1>2. /\ sensor.sequence < MaxSamples /\ staleReports' = 0 /\ turn' # "down"
      /\ UNCHANGED <<toDevice, toClient>>
  BY DEF SensorReading, AfterSensor
<1>3. msg \in Sentence
  <2> DEFINE n == sensor.sequence + 1
  <2>1. n \in 1..MaxSamples
    BY <1>2, BoundsAssumption DEF HonestInv, HonestSensor
  <2>2. \A i \in DOMAIN sensor.last : sensor.last[i] \in SensorValue
    BY DEF HonestInv, HonestSensor
  <2>3. /\ msg \in [sequence : {n}, mode : {"OK", "FAULT", "RANGE", "JUMP", "STUCK", "other"},
                    value : SensorValue]
    BY <1>1, <2>2 DEF Reading, SensorValue
  <2> HIDE DEF n
  <2> QED  BY <2>1, <2>3 DEF Sentence, SensorValue
<1>4. HonestDevice(device') /\ device'.staleReported = FALSE
  BY <1>1, <1>3, SensorHandlerHonest DEF Inv, Types, HonestInv
<1>5. HonestSensor'
  <2>1. msg.sequence \in 1..MaxSamples /\ msg.value \in SensorValue
    BY <1>3 DEF Sentence, SensorValue
  <2> DEFINE v == msg.value
             n == msg.sequence
  <2>2. sensor'.sequence = n /\ sensor'.last = <<v>>
    BY <1>1
  <2>3. n \in 0..MaxSamples /\ v \in SensorValue
    BY <2>1, BoundsAssumption
  <2> HIDE DEF n, v
  <2> QED  BY <2>2, <2>3 DEF HonestSensor
<1>6. \A t \in Published' : t.quality # "Good"
  <2> DEFINE d == sensorHandler(device, msg)
  <2>1. Published' = {} \/ (d.quality # "Good" /\ Published' = {publish(d, "WXDIA")})
    <3>1. CASE telemetry' = <<>>
      BY <3>1 DEF Published
    <3>2. CASE d.quality # "Good" /\ telemetry' = <<publish(d, "WXDIA")>>
      BY <3>2 DEF Published
    <3> QED  BY <1>1, <3>1, <3>2
  <2> QED  BY <2>1 DEF publish
<1>7. GoodIsFresh' /\ GoodNamesItsSample' /\ QuietWhenDown'
  BY <1>2, <1>6 DEF GoodIsFresh, GoodNamesItsSample, QuietWhenDown
<1>8. StaleOnce' /\ staleReports' \in Nat
  BY <1>2, <1>4 DEF StaleOnce
<1>9. ShortQueues'
  BY <1>2 DEF HonestInv, ShortQueues
<1> QED  BY <1>4, <1>5, <1>7, <1>8, <1>9 DEF HonestInv

LEMMA CommandHonest ==
  ASSUME Inv, Inv', HonestInv, Command
  PROVE  HonestInv'
<1>1. Types /\ Types' /\ toDevice # <<>>
  BY DEF Inv, Handling, Command
<1> DEFINE msg == Head(toDevice)
           params == IF msg.op = "SET" THEN set(device.params, msg.name, msg.value)
                     ELSE device.params
<1>2. /\ \E t \in {params["ReportingInterval"], device.nextReport} :
            device' = [device EXCEPT !.params = params, !.nextReport = t]
      /\ telemetry' = IF msg.op = "STATUS" THEN <<publish(device, "WXSTS")>> ELSE <<>>
      /\ \E v \in {"ACCEPTED", "REJECTED"}, e \in {"OK", "INVALID_COMMAND_OR_VALUE"} :
            acknowledge(msg.id, v, e)
      /\ toDevice' = Tail(toDevice) /\ turn' = "tick"
      /\ UNCHANGED <<sensor, staleReports>>
  BY <1>1 DEF Command, Types, Member
<1>3. Valid(params)
  BY <1>1, SetIsValid DEF Types
<1> HIDE DEF params
<1>4. HonestDevice(device')
  <2>1. params["ReportingInterval"] \in 0..Largest(Allowed["ReportingInterval"])
    BY <1>3, PeriodsOf
  <2>2. device.nextReport \in 0..Largest(Allowed["ReportingInterval"])
    BY DEF HonestInv, HonestDevice
  <2>3. DOMAIN device = Member
    BY <1>1 DEF Types
  <2>4. PICK t \in 0..Largest(Allowed["ReportingInterval"]) :
           device' = [device EXCEPT !.params = params, !.nextReport = t]
    BY <1>2, <2>1, <2>2
  <2>5. device'.nextReport = t /\ DOMAIN device' = Member
    BY <2>3, <2>4 DEF Member
  <2>6. \A x \in {"filter", "lastReceived", "quality", "reason", "sequence", "staleReported"} :
           device'[x] = device[x]
    BY <2>3, <2>4 DEF Member
  <2> QED  BY <2>3, <2>5, <2>6, RearmedHonest DEF HonestInv
<1>5. device'.staleReported = device.staleReported
  BY <1>1, <1>2 DEF Types, Member
<1>6. \A t \in Published' : t = publish(device, "WXSTS")
  BY <1>2 DEF Published
<1>7. GoodIsFresh' /\ GoodNamesItsSample' /\ QuietWhenDown'
  <2>1. publish(device, "WXSTS").kind = "WXSTS"
    BY DEF publish
  <2>2. GoodIsFresh'
    BY <1>6, <2>1 DEF GoodIsFresh
  <2>3. GoodNamesItsSample'
    BY <1>6, PublishedNamesItsSample DEF GoodNamesItsSample, HonestInv
  <2> QED  BY <1>2, <2>2, <2>3 DEF QuietWhenDown
<1>8. ShortQueues'
  BY <1>1, <1>2, AnswersStayShort DEF HonestInv
<1> QED  BY <1>2, <1>4, <1>5, <1>7, <1>8 DEF HonestInv, HonestSensor, StaleOnce

\* The tick looks at the silence first, so the report that is due says Good only of a
\* sensor that is live.
LEMMA TickHonest ==
  ASSUME Inv, HonestInv, Tick
  PROVE  HonestInv'
<1>1. Types /\ DOMAIN device = Member /\ HonestDevice(device)
  BY DEF Inv, Types, HonestInv
<1> DEFINE d == IF isStale(device) THEN markStale(device) ELSE device
           due == d.nextReport = 0
           diagnosis == publish(d, "WXDIA")
           report == publish(d, "WXTMP")
<1>2. /\ device' = [d EXCEPT !.nextReport = IF due THEN d.params["ReportingInterval"] ELSE @]
      /\ telemetry' = (IF isStale(device) THEN <<diagnosis>> ELSE <<>>)
                        \o (IF due THEN <<report>> ELSE <<>>)
      /\ staleReports' = staleReports + (IF isStale(device) THEN 1 ELSE 0)
      /\ turn' = "poll" /\ UNCHANGED <<sensor, toDevice, toClient>>
  BY DEF Tick, outside
<1>3. /\ DOMAIN d = Member /\ HonestDevice(d) /\ d.params = device.params
      /\ isStale(device) => d.staleReported = TRUE /\ d.quality = "Suspect"
      /\ ~isStale(device) => d = device
  BY <1>1, StaleHonest, HandlersKeepParameters
<1>4. d.quality = "Good" => /\ d = device /\ ~isStale(device)
                            /\ ~device.staleReported /\ device.lastReceived # <<>>
  BY <1>3 DEF HonestDevice
<1>5. telemetry' \in {<<>>, <<diagnosis>>, <<report>>, <<diagnosis, report>>}
  <2> HIDE DEF diagnosis, report, due
  <2>1. CASE isStale(device) /\ due
    <3>1. telemetry' = <<diagnosis>> \o <<report>>
      BY <1>2, <2>1
    <3>2. \A a, b : <<a>> \o <<b>> = <<a, b>>
      <4> TAKE a, b
      <4> DEFINE s == <<a>> \o <<b>>
      <4>1. <<a>> \in Seq({a, b}) /\ <<b>> \in Seq({a, b}) /\ Len(<<a>>) = 1 /\ Len(<<b>>) = 1
        OBVIOUS
      <4>2. s \in Seq({a, b}) /\ Len(s) = 2 /\ s[1] = a /\ s[2] = b
        BY <4>1, ConcatProperties
      <4> HIDE DEF s
      <4>3. s = <<a, b>>
        BY <4>2
      <4> QED  BY <4>3 DEF s
    <3> QED  BY <3>1, <3>2
  <2>2. CASE isStale(device) /\ ~due
    BY <1>2, <2>2
  <2>3. CASE ~isStale(device) /\ due
    BY <1>2, <2>3
  <2>4. CASE ~isStale(device) /\ ~due
    BY <1>2, <2>4
  <2> QED  BY <2>1, <2>2, <2>3, <2>4
<1>6. \A t \in Published' : t = diagnosis \/ t = report
  <2> HIDE DEF diagnosis, report
  <2> QED  BY <1>5 DEF Published
<1> HIDE DEF d
<1>7. HonestDevice(device') /\ device'.params = device.params
      /\ device'.lastReceived = d.lastReceived /\ device'.staleReported = d.staleReported
  <2>1. /\ d.nextReport \in 0..Largest(Allowed["ReportingInterval"])
        /\ d.params["ReportingInterval"] \in 0..Largest(Allowed["ReportingInterval"])
    BY <1>1, <1>3, PeriodsOf DEF HonestDevice, Types
  <2>2. PICK t \in 0..Largest(Allowed["ReportingInterval"]) : device' = [d EXCEPT !.nextReport = t]
    BY <1>2, <2>1
  <2>3. device'.nextReport = t /\ DOMAIN device' = Member /\ device'.params = d.params
    BY <1>3, <2>2 DEF Member
  <2>4. \A x \in {"filter", "lastReceived", "quality", "reason", "sequence", "staleReported"} :
           device'[x] = d[x]
    BY <1>3, <2>2 DEF Member
  <2>5. HonestDevice(device')
    BY <1>3, <2>3, <2>4, RearmedHonest
  <2>6. device'.lastReceived = d.lastReceived /\ device'.staleReported = d.staleReported
    BY <2>4
  <2> QED  BY <1>3, <2>3, <2>5, <2>6
<1>8. GoodIsFresh'
  <2> SUFFICES ASSUME NEW t \in Published', t.kind = "WXTMP", t.quality = "Good"
               PROVE  device'.lastReceived[1] < device'.params["StaleTimeout"]
    BY DEF GoodIsFresh
  <2>1. d.quality = "Good"
    BY <1>6 DEF publish
  <2>2. /\ device'.lastReceived = device.lastReceived /\ ~isStale(device)
        /\ ~device.staleReported /\ device.lastReceived # <<>>
    BY <1>4, <1>7, <2>1
  <2>3. ~ (device.lastReceived[1] >= device.params["StaleTimeout"])
    BY <2>2 DEF isStale
  <2>4. device.lastReceived[1] \in Nat
    BY <1>1, <2>2 DEF HonestDevice
  <2>5. device.params["StaleTimeout"] \in Nat
    BY <1>1, PeriodsOf DEF Types
  <2> QED  BY <1>7, <2>2, <2>3, <2>4, <2>5
<1>9. GoodNamesItsSample'
  BY <1>3, <1>6, PublishedNamesItsSample DEF GoodNamesItsSample
<1>10. QuietWhenDown'
  BY <1>2 DEF QuietWhenDown
<1>11. StaleOnce' /\ staleReports' \in Nat
  <2>1. /\ staleReports \in Nat /\ staleReports <= 1
        /\ staleReports = 1 <=> device.staleReported
    BY DEF HonestInv, StaleOnce
  <2>2. CASE isStale(device)
    <3>1. staleReports = 0
      BY <2>1, <2>2 DEF isStale
    <3> QED  BY <1>2, <1>3, <1>7, <2>2, <3>1 DEF StaleOnce
  <2>3. CASE ~isStale(device)
    BY <1>2, <1>3, <1>7, <2>1, <2>3 DEF StaleOnce
  <2> QED  BY <2>2, <2>3
<1>12. HonestSensor' /\ ShortQueues'
  BY <1>2 DEF HonestInv, HonestSensor, ShortQueues
<1> QED  BY <1>7, <1>8, <1>9, <1>10, <1>11, <1>12 DEF HonestInv

LEMMA SaveHonest ==
  ASSUME Inv, HonestInv, Save
  PROVE  HonestInv'
<1>1. Types /\ ShortQueues /\ Handling
  BY DEF Inv, HonestInv
<1>2. CASE SaveOpens \/ SaveWrites \/ SaveRenames
  <2>1. UNCHANGED <<device, sensor, staleReports, toDevice, toClient>> /\ telemetry' = <<>>
    BY <1>2 DEF SaveOpens, SaveWrites, SaveRenames, Saving, outside
  <2>2. ShortQueues'
    BY <1>1, <2>1 DEF ShortQueues
  <2> QED  BY <2>1, <2>2, SilentStepHonest
<1>3. CASE SaveEnds \/ SaveFails \/ SaveNotDurable
  <2>1. PICK from \in {"command"} \cup SavingSteps, v \in {"ACCEPTED", "REJECTED"},
             e \in {"OK", "SAVE_FAILED"} : SaveAnswers(from, v, e)
    BY <1>3 DEF SaveEnds, SaveFails, SaveNotDurable, SavingSteps
  <2>2. /\ turn = from /\ telemetry' = <<>> /\ acknowledge(Head(toDevice).id, v, e)
        /\ toDevice' = Tail(toDevice) /\ UNCHANGED <<device, sensor, staleReports>>
    BY <2>1 DEF SaveAnswers
  <2>3. toDevice # <<>>
    BY <1>1, <2>2 DEF Handling
  <2>4. ShortQueues'
    BY <1>1, <2>2, <2>3, AnswersStayShort
  <2> QED  BY <2>2, <2>4, SilentStepHonest
<1> QED  BY <1>2, <1>3 DEF Save

LEMMA LifeHonest ==
  ASSUME Inv, HonestInv, Killed \/ PowerFails \/ Starts \/ StartRefused
  PROVE  HonestInv'
<1>1. Types /\ ShortQueues
  BY DEF Inv, HonestInv
<1>2. CASE Killed \/ PowerFails
  <2>1. /\ telemetry' = <<>> /\ toDevice' = <<>>
        /\ UNCHANGED <<device, sensor, staleReports, toClient>>
    BY <1>2 DEF Killed, PowerFails, goesDown, outside
  <2>2. ShortQueues'
    BY <1>1, <2>1, QueuesStayShort DEF ShortQueues
  <2> QED  BY <2>1, <2>2, SilentStepHonest
<1>3. CASE Starts
  <2>1. /\ turn = "down" /\ staleReports' = 0 /\ turn' = "poll"
        /\ UNCHANGED <<telemetry, sensor, toDevice, toClient>>
        /\ \E params : device' = NewDevice(params)
    BY <1>3 DEF Starts, outside
  <2>2. telemetry' = <<>>
    BY <2>1 DEF HonestInv, QuietWhenDown
  <2>3. GoodIsFresh' /\ GoodNamesItsSample' /\ QuietWhenDown'
    BY <2>2, SilenceIsHonest
  <2>4. HonestDevice(device') /\ device'.staleReported = FALSE
    BY <2>1, NewDeviceHonest
  <2> QED  BY <2>1, <2>3, <2>4 DEF HonestInv, HonestSensor, ShortQueues, StaleOnce
<1>4. CASE StartRefused
  <2>1. UNCHANGED <<turn, device, telemetry, sensor, staleReports, toDevice, toClient>>
    BY <1>4 DEF StartRefused, outside
  <2>2. ShortQueues'
    BY <1>1, <2>1 DEF ShortQueues
  <2> QED  BY <2>1, <2>2, OutsideStepHonest
<1> QED  BY <1>2, <1>3, <1>4

LEMMA ClientHonest ==
  ASSUME Inv, HonestInv, Client
  PROVE  HonestInv'
<1>1. Types /\ ShortQueues
  BY DEF Inv, HonestInv
<1>2. UNCHANGED <<turn, device, telemetry, sensor, staleReports>>
  BY DEF Client, Execute, AckArrives, DeadlinePasses
<1>3. ShortQueues'
  <2>1. CASE Execute
    <3>1. PICK request \in Requests :
             LET msg == [id |-> client.nextId + 1, op |-> request.op, name |-> request.name,
                         value |-> request.value]
             IN  \/ toDevice' = toDevice
                 \/ Len(toDevice) < MaxInFlight /\ toDevice' = Append(toDevice, msg)
      BY <2>1 DEF Execute
    <3> DEFINE msg == [id |-> client.nextId + 1, op |-> request.op, name |-> request.name,
                       value |-> request.value]
    <3>2. msg \in Message
      BY <1>1 DEF Types, Message
    <3> HIDE DEF msg
    <3>3. \/ toDevice' = toDevice
          \/ Len(toDevice) < MaxInFlight /\ toDevice' = Append(toDevice, msg)
      BY <3>1 DEF msg
    <3>4. toClient' = toClient
      BY <2>1 DEF Execute
    <3> QED  BY <1>1, <3>2, <3>3, <3>4, QueuesStayShort DEF ShortQueues
  <2>2. CASE AckArrives
    BY <1>1, <2>2, QueuesStayShort DEF AckArrives, ShortQueues
  <2>3. CASE DeadlinePasses
    BY <1>1, <2>3 DEF DeadlinePasses, ShortQueues
  <2> QED  BY <2>1, <2>2, <2>3 DEF Client
<1> QED  BY <1>2, <1>3, OutsideStepHonest

LEMMA NextHonest ==
  ASSUME Inv, Inv', HonestInv, [Next]_vars
  PROVE  HonestInv'
<1>1. CASE NoReading
  <2>1. UNCHANGED <<device, sensor, staleReports, toDevice, toClient>> /\ telemetry' = <<>>
    BY <1>1 DEF NoReading, outside
  <2>2. ShortQueues'
    BY <2>1 DEF HonestInv, ShortQueues
  <2> QED  BY <2>1, <2>2, SilentStepHonest
<1>2. CASE TimePasses
  <2>1. /\ device' = aged(device) /\ telemetry' = <<>>
        /\ UNCHANGED <<sensor, staleReports, toDevice, toClient>>
    BY <1>2 DEF TimePasses, outside
  <2>2. HonestDevice(device') /\ device'.staleReported = device.staleReported
    BY <2>1, AgedHonest DEF HonestInv, Inv, Types
  <2>3. GoodIsFresh' /\ GoodNamesItsSample' /\ QuietWhenDown'
    BY <2>1, SilenceIsHonest
  <2> QED  BY <2>1, <2>2, <2>3 DEF HonestInv, HonestSensor, ShortQueues, StaleOnce
<1>3. CASE UNCHANGED vars
  <2>1. UNCHANGED <<turn, device, telemetry, sensor, staleReports, toDevice, toClient>>
    BY <1>3 DEF vars, outside
  <2>2. ShortQueues'
    BY <2>1 DEF HonestInv, ShortQueues
  <2> QED  BY <2>1, <2>2, OutsideStepHonest
<1> QED
  BY <1>1, <1>2, <1>3, SensorReadingHonest, CommandHonest, TickHonest, SaveHonest, LifeHonest,
     ClientHonest DEF Next, Loop

LEMMA InitHonest ==
  ASSUME Init
  PROVE  HonestInv
<1>1. /\ \E params : device = NewDevice(params)
      /\ telemetry = <<>> /\ sensor = [sequence |-> 0, last |-> <<>>] /\ staleReports = 0
      /\ toDevice = <<>> /\ toClient = <<>>
  BY DEF Init
<1>2. HonestDevice(device) /\ device.staleReported = FALSE
  BY <1>1, NewDeviceHonest
<1>3. GoodIsFresh /\ GoodNamesItsSample /\ QuietWhenDown
  BY <1>1, SilenceIsHonest
<1>4. ShortQueues /\ HonestSensor
  BY <1>1, BoundsAssumption DEF ShortQueues, HonestSensor
<1> QED  BY <1>1, <1>2, <1>3, <1>4 DEF HonestInv, StaleOnce

\* Whatever the sensor sends or leaves out, whatever commands, delays and restarts come
\* between: a report marked Good is fresh, everything marked Good names the moderate
\* sample it shows, and each silence is reported once.
THEOREM TelemetryIsHonest == Spec => []TelemetryHonest
<1>1. Inv /\ HonestInv => TelemetryHonest
  <2> SUFFICES ASSUME Inv, HonestInv  PROVE TypeOK
    BY DEF HonestInv, TelemetryHonest
  <2>1. /\ Types /\ Handling /\ HonestDevice(device) /\ ShortQueues
    BY DEF Inv, HonestInv
  <2>2. /\ turn \in {"poll", "command", "tick", "write", "rename", "directory", "down"}
        /\ turn \in {"command", "write", "rename", "directory"} => toDevice # <<>>
    BY <2>1 DEF Types, Handling, SavingSteps
  <2>3. device.params \in Parameters /\ \A n \in Name : device.params[n] \in Allowed[n]
    BY <2>1 DEF Types, Valid
  <2> QED  BY <2>1, <2>2, <2>3 DEF TypeOK, HonestDevice, Judgements, ShortQueues
<1>2. Inv /\ Inv' /\ HonestInv /\ [Next]_vars => HonestInv'
  BY NextHonest
<1> QED  BY <1>1, <1>2, Invariance, InitHonest, PTL DEF Spec
================================================================================
