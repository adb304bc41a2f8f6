# TLA+ models of the embedded-patterns programs

This directory holds formal models of the programs that accompany *20 Embedded
Patterns Every Engineer Should Know*, the properties that make those programs
correct, the TLC configurations that check the properties on small instances,
and TLAPS proofs of the ones that matter most for every value of the constants.
`PROJECT.json` is the machine-readable index: components, runs, mutants, the map
from each definition to the lines it models, findings, hazards and theorems.

    tlasany M.tla                                  parse a module
    tlc -workers 2 -config X.cfg M                 model-check it
    tlapm M_proof.tla                              check its proofs

Contents: 1 The system. 2 The modules. 3 The runs. 4 Fairness. 5 What is proved.
6 What was found. 7 What is not modelled. 8 What is left to do.

## 1. The system

The repository is a set of C++ programs for Linux, one or a few for each chapter
of the book, over a small library, `Common`. The programs talk over UDP on one
host, over queues between threads, or through files; none of them shares memory
between processes.

### Components

| Component | State it keeps | Operations | What is hard | What makes it correct |
|---|---|---|---|---|
| Bounded queue (`Common/include/BoundedQueue.h`) | ring, two indexes, size, stopped flag; a mutex and two condition variables | push, tryPush, pop, tryPop, stop, size | notifications are sent after the unlock; woken threads compete with new calls; stop | first in first out, nothing lost; no wakeup lost; stop leaves nobody waiting |
| Event sources and reactor (`Common/src/*Source.cpp`, `EpollReactor.cpp`, `UdpDatagramReceiver.cpp`) | registered sources, a stop flag | poll once, dispatch, arm, disarm, drain | a batch of ready sources outlives the state that made them ready | handlers of one batch agree with each other |
| UART line receiver (`Common/src/UartLineReceiver.cpp`) | the line being collected, statistics | read, accept a byte | reads split anywhere; lines that are too long | lines do not depend on how reads are split |
| NMEA monitor (Chapter 3) | five sources in one loop, statistics, a stop flag | dispatch each source, end | signal and timers ready together with data | what came in is printed, once, and the program ends |
| Queue demo (Chapter 4) | two threads with counters and a high-water mark | produce, consume | counters outside the mutex | what is produced is consumed |
| Validator, filters and their demo (Chapter 7) | last valid sample, window, exponential value | validate, update, write a row | long sequences of valid and rejected samples | the filters see the valid samples only |
| Process oven (Chapter 10) | a ramp for each zone, the cycle, the next cycle's time | step, wait for the next cycle | zones that arrive at different times; late cycles | each zone is where its ramp says, in the predicted number of cycles |
| Binary streams, message frames (`BinaryReadStream.cpp`, `BinaryWriteStream.cpp`, `MessageFrame.h`, Chapter 11) | position and first error of a stream | write, read, finalize, validate | sizes at the boundary of their two forms, order of the checks, damage | what is read is what was written, or an error |
| Retry lab (Chapter 12) | client: transaction state, attempts, timer; server: interval, last transaction, mode | attempt, timeout, response, retry delay, signal; the server's request handler | lost, repeated and late datagrams; a timeout and an answer in one batch; failing calls | a transaction is executed at most once, success is genuine, the client always ends |
| Startup sequencing (Chapter 13) | status of five components, event queue, timeout state | start, report, handle, time out, judge | reports in any order; a timeout that strikes as main finishes | dependencies first, an honest verdict, every thread joined |
| Synchronized fusion (Chapter 14) | newest temperature, two queues, three threads | receive, acquire, fuse, stop | full queues, datagrams that overtake, the end | each pressure is accounted for and meets the newest temperature |
| Remote monitoring (Chapter 15) | device: table of subscriptions with deadlines; monitor: the transaction it is in; sentences | subscribe, unsubscribe, report when due; attempt, wait, receive; build, parse | lost acknowledgements, a full table, a device that is late; damaged sentences | monitor and table agree, reports end, no drift; nothing damaged is believed |
| Parameter management (Chapter 16) | live values with provenance and generation; two queues | request, validate, set, notify, print | three threads in a chain; reads without a lock | precedence, every change reported once and in order, the chain ends |
| Data persistence (Chapter 17) | parameter image with its records; the file at `path` | create, update, restore, inspect, replace atomically | power failure between two system calls; damage; failing calls | whole images only, nothing reported saved is lost, damage changes nothing |
| Anomaly detection (Chapter 19) | references of the rate, stuck and stale checks, newest measurement | emit, check for staleness | decisions depend on the right reference, over long sequences | every measurement is as good as it deserves, silence is told once |
| Integrated weather device (Chapter 20) | parameters, filter, checkers, time of the last sample, next report; the image file | sensor, command, tick, save, restart | silence of the sensor; commands, answers and reports in any order; failing saves, power failure | telemetry is honest, what was confirmed is in force, what was saved is restored |
| PID control (9), latency probe (6), heap monitor and memory demo (8, Tools), imaging (5), cryptography (18), NMEA decoding (Common), generators (Tools), `retry_lab/` at the top level | | | numerical, or no state of interest; the last is an earlier copy of Chapter 12's lab | see section 7 |

### How they interact

* Chapters 4, 13, 14 and 16 hand data from thread to thread through
  `BoundedQueue`. The models of those programs use the queue's specification,
  `QueueSpec`; `BoundedQueue` is shown, by TLC and by proof, to implement it.
* Chapters 3, 11 and 12 are event loops over the reactor. The reactor's batch
  semantics are part of `RetryTransaction` and of `NmeaMonitor`.
* Chapters 12, 14, 15 and 20 talk over UDP, with datagrams that may be lost; each
  model has its own network.
* Chapter 17 extends Chapter 16's parameter store with a file; `ParameterImage`
  and `ParameterDevice` extend `ParameterStore`.
* Chapter 20 has the checkers of Chapter 19 and the sentences of Chapter 15, and a
  way of saving like that of Chapter 17 with code of its own. `WeatherDevice`
  extends `AnomalyDetection`, which `AnomalyNode` extends too; its sentences are
  records, as those of `RemoteMonitoring`, for `SentenceCodec` shows that a
  sentence is understood as it was meant or refused.

`PROJECT.json` lists the hazards of this code, the points where something can go
wrong that a test would hardly reach, each with its line and the properties that
watch it.

## 2. The modules

    QueueSpec  <-implements-  BoundedQueue                BoundedQueue_proof
        ^-- QueueMeasurementDemo              (MCPrograms; BoundedQueue_proof)
        ^-- SampleFusion  (two queues)        (MCPrograms; BoundedQueue_proof)
        ^-- StartupSequencing    MCStartupSequencing      StartupSequencing_proof
        ^-- ParameterLab  (two queues)  MCParameterLab    ParameterLab_proof
    ParameterStore <-extends- ParameterLab
         ^-- ParameterImage <-extends- ParameterDevice    ParameterDevice_proof
                                 MCParameterDevice
    AtomicImageFile              MCAtomicImageFile        AtomicImageFile_proof
    TransactionSpec  <-implements-  RetryTransaction      MCRetryTransaction
                                    RetryTransaction_proof
    SubscriptionSpec <-implements-  RemoteMonitoring      MCRemoteMonitoring
                                    RemoteMonitoring_proof
    AnomalyDetection <-extends- AnomalyNode               (MCPrograms)
         ^-- WeatherDevice       MCWeatherDevice          WeatherDevice_proof
    LineReceiver <-extends- NmeaMonitor                   (MCPrograms)
    FilteringDemo, ProcessOven, BinaryStreams,
    MessageFrame, SentenceCodec                           (MCPrograms)

Definitions keep the source's names where they stand for one function or member
(`upsertSubscription`, `nextIndex`, `MeasureDepth`). A definition marked
`\* Mutant:` is a plausible bug: putting it in the place of the definition it
varies makes TLC report a violation of the property it belongs to. Mutants are
not part of any specification.

### The queue and the programs over it

**BoundedQueue** (`Common/include/BoundedQueue.h`). The variables are the data
members, and for each thread where it is inside the queue (`pc`) and what it is
pushing. A critical section is one action: `Push`, `PushBlocks`, `PushRejected`,
`Pop`, `PopBlocks`, `PopDrained`, `TryPush`, `TryPop`, `Stop`. The notification
that follows the unlock is another (`NotifyNotEmpty`, `NotifyNotFull`,
`StopNotifiesNotEmpty`, `StopNotifiesNotFull`), so that any thread may come
between. A condition variable is the set of threads at `waitNotEmpty` or
`waitNotFull`; `notify_one` wakes any one of them, and a woken thread competes for
the mutex like one that has just called. Wakeups may be spurious.

**QueueSpec** is what the queue promises: a bounded sequence, added to at the end
until it is stopped, taken from at the front until it is empty.

**StartupSequencing** (`startup_lab/main.cpp`). `main` is taken apart where other
threads can come between: the loop condition, the pop, the look at `timedOut`,
the handling of an event, the end with its `timeoutMutex`, the verdict, the
joins. The timeout thread holds the mutex from the end of its wait to the end of
the thread, as the `unique_lock` does. Delays are left out: a component takes any
time, and the timeout may strike at any moment or never. The model shows
outcomes the program's text does not make obvious, and the properties allow
them: `TIMED OUT` can be printed when everything has become ready in the
meantime, a timeout hides that a required component has failed, and an event
popped after the timeout is dropped.

**ParameterStore** is `ParameterStore::set` with validation, write permission,
precedence and provenance, over the definitions of `ParameterDefinitions.h`. A
text is reduced to what parsing it yields. **ParameterLab** (`main.cpp` of Chapter
16) has the three threads, the two queues, and `set` in two steps, because the
notification thread reads the store without a lock: after the copy of the value,
and after the rest. (The values are single aligned words of at most four bytes, so
a read finds the old one or the new one.) `submitted`, `writtenBy` and `reports`
are history variables.

**QueueMeasurementDemo** has the two threads of Chapter 4's demonstration. The
latency statistic is left out: it is one thread's sum of clock differences. The
queue is stopped by the producer that fills it, so `push` never rejects.

**SampleFusion** (`synchronized_fusion.cpp`, `temperature_tx.cpp`). The
transmitter, the link, and the receiver, acquisition and fusion threads with their
two queues, the stop and the joins of `main`. A `tryPush` to a full queue drops
the measurement. The drain of the remote queue goes one measurement at a time,
since the receiver can add another meanwhile. The clocks are one, which PTP keeps
in step. Datagrams that are no measurement (`strays`) make the receiver read on.
`taken`, `drained`, `fused`, `dropped` and `skipped` are history variables.

### Event loops and protocols

**LineReceiver** (`UartLineReceiver.cpp`) is the terminal's stream, the buffer of
one `read` and the line so far: one action for a read of any size, one for an
accepted byte, one for a read that fails. **NmeaMonitor** (`nmea_monitor.cpp`)
puts it into the event loop with a signal descriptor, two timers and a UDP
socket. `PollOnce` fixes the batch; each source then reads until nothing is left,
and what arrives meanwhile is read too. Descriptors are level-triggered, so what
an empty datagram leaves behind is reported again. The decoding of a line prints
fields and keeps no state; a line is the sequence of its bytes.

**RetryTransaction** (`retry_client.cpp`, `retry_server.cpp`, and of `Common` what
they use). A client's context is a record with the members of `AppContext`, the
state of the one-shot timer, and the epoll batch it is dispatching. The handlers
(`OnResponse`, `ScheduleRetry`, ...) are functions from context to context, as
they are in the code; the actions apply them. `PollOnce` fixes the batch; what a
handler then finds is read again, so a timer disarmed earlier in the batch finds
nothing and a response that arrives while the socket is being drained is handled
in the same dispatch. The server's `on_request` is one action with a disjunct for
each way out. The network loses, duplicates and, unless `FifoLink`, reorders
datagrams, and datagrams outlive the client that sent them. Any `sendto` and
`timerfd_settime` of a client may fail (`LocalFaults`), a signal may arrive at any
time, and the server may stop for good. `executions` is a history variable.

**TransactionSpec** is the promise to the user of the lab: each transaction is
applied at most once and success is reported only for one that was.

**RemoteMonitoring** (`weather_device.cpp`, `remote_monitor.cpp`). The device's
loop has two steps, the request and the reports, since a clock tick may come
between; a slot of the table holds the time left to its deadline. The monitor
runs the demonstration of `runDemo`; its timeouts may come at any moment. A
second party, the stranger, sends requests of all kinds. Sentences are reduced
to accepted and dropped; the sequence number and drop counters are left out.
**SubscriptionSpec** is the registry the table stands for.

**SentenceCodec** (`WeatherMonitoringProtocol.cpp`) is `buildSentence` and
`parseSentence` over characters, with the checksum, and between them one damage or
a cut. **BinaryStreams** is both streams with their sticky error: values of all
widths in either byte order on either host, sizes in their short and long form,
byte and text fields, a buffer that is too small, bytes of another writer.
**MessageFrame** is `writeFrameV1` and `readFrameV1` with both checksums over a
link that damages, cuts and lengthens a frame. The reader's payload is a view of as
many bytes as the header says, as in the code, and `looked`, a history variable, is
how far into memory it has looked. `readHeader` leaves what it has
decoded in the caller's header also when it fails; the callers look at the status
first, and so does the model.

### Persistence

**ParameterImage** is the storage image: header, records, their checks in the
order of the code (`walkRecords`), `restore` with its staging, `update`, and the
ways the inspection tool damages an image. A record is an identifier, a value, and
what is wrong with its frame; of the header the set of its faults is kept, since a
bit that is inverted twice is what it was. A header or an end can be damaged
whatever else is wrong; a record only if it is found, that is, in an image without
another fault. **ParameterDevice** is the weather device run again and again on
one file, with every combination of options. A file may be there and yet not be
opened or read: the run then goes on with the defaults. Between runs the tool puts a
damaged copy in the place of the file, and of that copy another.

**AtomicImageFile** is `writeImageFileAtomically`, one action for each system call
(a `close` belongs to the `fsync` before it) and for each way it fails, over a
file system that keeps what programs see apart from what the disk may hold: each
piece of a file may have, after a power failure, any value written since the last
`fsync`, and the directory any state since it was last synchronised.

### Measurements and devices

**FilteringDemo** (Chapter 7) is the loop over a CSV file with the validator and
both filters. Arithmetic is exact: an average is a sum and a count, the
exponential value a fraction. **ProcessOven** (Chapter 10) is `RampDriver` with
`main`'s loop and its real-time wait. **AnomalyDetection** has the checkers of
Chapter 19 as functions of their state, with ages instead of points in time, so
that a state does not depend on how long the program has run; **AnomalyNode** is
the node that combines them.

**WeatherDevice** (Chapter 20: `weather_device.cpp`, `Parameters.h`,
`command_client.cpp`, `temperature_sensor.cpp`). A turn of the loop is the poll,
the sensor's sentence, the command and the tick; the clock may advance between any
two. `SAVE` is taken apart into its system calls, each of which may fail, and the
process may be killed or the power fail between any two. An image holds the
temperature limit as `std::to_string` prints it, with six decimals (`printed`, with
the constant `PrintedLimit` for the rounding). A restart reads the image that is
found, or starts with the defaults if the file cannot be opened, and then the
command line, which may be refused. The command client waits
for one answer up to its deadline; answers given up may still arrive.
`staleReports`, `mayRestore` and `confirmed` are history variables.

### One run for many small programs

**MCPrograms** instantiates the programs that need no run of their own and lets
the initial state choose one: `demo`, `nmea`, `fusionDevice`, `filter`, `anomaly`,
`oven`, `streams`, `framing`, `sentences`, and `refused`, a retry client whose
request the server rejects. The variables of the others keep the value `Off`. Its
properties are those of the modules, each under the condition that its program is
the one chosen.

## 3. The runs

"States" are distinct states TLC finds.

| Run | Configuration | States | What it shows |
|---|---|---|---|
| `RetryOneClient` | one client, three attempts, all server modes, two duplicated datagrams, any order, failing calls | 75,676 | `TimerGuardsWait`: no wait without a timer. `RetryWithinBudget`: the budget counts attempts, exactly. `OutcomeStable`: late answers and late timeouts change nothing. `EveryClientExits` |
| `RetrySequential` | two clients one after the other from one port, a link that loses and keeps order | 299,272 | `AtMostOnce`, and `KeepsPromise`: the lab implements `TransactionSpec` |
| `RetryReordered` | the same over a link that reorders | violation | `AtMostOnce` fails: see section 6 |
| `BoundedQueue` | four threads, two items, two slots | 159,566 | `RingConsistent`, `NoLostWakeup`, `StopReleases`, and `IsAQueue`: the queue implements `QueueSpec` |
| `Startup` | every set of failing components, every order, the timeout at any moment | 5,856 | `DependenciesFirst`, `VerdictHonest`, `StartupEnds` |
| `ParameterLab` | the lab's own script and all 820 scripts of at most three of nine requests, queues of two | 49,480 | `StoreFollowsPrecedence` against a definition without a store; `EveryChangeReported`; `LabEnds` |
| `ImageFile` | one process, images of two pieces, three saves, any call failing, power failures | 4,817 | `ImageIsWhole`, `SavedIsDurable`, `FailureKeepsLastGood` |
| `ImageFileShared` | two processes that save to one path at once, no failing calls | violation | `ImageIsWhole` fails: see section 6 |
| `ParameterDevice` | three runs on one file, all options, up to two damages of all kinds in between, files that cannot be opened or read | 561,169 | `ImageTracksStore`, `SavedIsRestored`, `DamageChangesNothing` |
| `RemoteMonitoring` | one monitor, one stranger, two slots for three subscriptions, two attempts, a link that loses and keeps order, a device up to one tick late | 504,680 | `CountersAgree`; `ConfirmedMeansSubscribed`, until the monitor asks for the end; `ReportsStopped`; `NoDrift`: a deadline is on its grid, at most an interval away, and ahead when the reports are sent; `NobodyWaitsForever`: transactions end and due reports are sent; `IsARegistry`: the table implements `SubscriptionSpec` |
| `WeatherDevice` | one sensor in all its modes, one client, one change of each kind of parameter, a limit that is rounded when saved, saves with any call failing, kill and power failure at any point, one restart | 522,293 | `TelemetryHonest`, `ConfirmedIsInForce`, `SaveIsKept`, `SilenceAndReportsDue` |
| `Programs` | ten small programs, each alone | 249,092 | one property a program, below, and `EveryProgramEnds` |

The properties of `Programs`, and what each would catch:

* `Conservation` (queue demo): everything pushed is popped, in order, and counted,
  at every moment and at the end.
* `PrintsWhatCameIn` (NMEA monitor): the lines printed for each input are those of
  the bytes it has read, by a definition that knows of no reads and batches; the
  statistics agree.
* `FusionFaithful`: pressures fused, skipped, dropped, waiting and held are all
  there were; a pressure meets the newest temperature drained for it and, on a
  link that keeps order, never an older one than the pressure before; a match
  is within the window.
* `FilteringFaithful`: a row is valid exactly if it is plausible against the last
  *valid* one; average and exponential value are of valid rows only; the
  counts of the summary add up.
* `AnomaliesAreTold`: each measurement is as good as a definition over the whole
  history says; silence is told once, as suspect, and not too early.
* `RampsAsPlanned`: each row shows every zone where its ramp is by then; the oven
  is done after exactly the predicted cycles; a late cycle does not move
  the later ones.
* `WireIsFaithful`: streams, frames and sentences give back what was written, or
  refuse, whatever was damaged or cut; nothing else is ever handed out. Of a stream:
  a write that fails leaves nothing and a read that fails consumes nothing, but for
  the length of a string that does not fit (section 6). Of a frame: no byte behind
  the end of the datagram is looked at.
* `EveryProgramEnds`: the programs that should end do, with their threads joined;
  `refused` shows it for a retry client that gets `REJECTED`, or no answer.

Type invariants that are proved for every instance (section 5) are not checked
again by TLC; in `ParameterDevice`, `RemoteMonitoring` and `WeatherDevice` the types
are the first conjunct of the first invariant.

### The bounds, and why they are enough

* *Three attempts* are the first, one in the middle and the last one. A fourth
  would be another in the middle. Two clients have two attempts each: a retry
  of the first has to meet the second, and one retry does.
* *Two duplicated datagrams* let a request and its answer, or either one twice,
  be repeated; retries already make copies of requests, so the runs with two
  clients do without.
* *Four threads and two slots* let two wait for the same condition while a third
  makes it true and a fourth takes it away again, and let a stop meet waiters on
  both sides, of which one has been overtaken and not yet notified. Two items
  tell an order from its reverse. The proofs hold for any number of all three.
* *Five items through two slots* (`demo`) go round the ring more than twice.
* *Scripts of three requests* hold every order of a lower, an equal and a higher
  source for one parameter with a rejected one among them; the lab's own script
  has eight. *Queues of two* fill up, the lab's do not. The proof holds for any
  script.
* *Two pieces* are the least a write can be torn into, and *three saves* are a
  good one, one that fails or is cut short, and one that follows. The proof
  holds for any number of both.
* *Three runs* of the device are one that saves, one that fails or does not
  save, and one that restores. *Two damages* can undo each other, or the second
  can come on top of the first. The proof holds for any number of both.
* *Intervals of one and two ticks* tell the slots apart; being *one tick late* is
  missing a deadline of the first altogether. *Two datagrams* in a buffer make
  it overflow and give losses and orders. The program's demonstration subscribes
  to four reports and then unsubscribes from the first, with up to three attempts
  for each of the five transactions (`remote_monitor.cpp:119-138`); the run's has
  two subscriptions, so three transactions, of two attempts. The proofs hold for
  any demonstration that ends with the one unsubscription.
* `WeatherDevice`: each parameter has two values, which tell a change from none, and
  the temperature limit a third, which is saved as one of the other two;
  two samples are the least the rate and stuck checks need; two commands let an
  answer that was given up meet the next wait; one restart sees what the first
  device left. One datagram in a socket loses the others. `MaxEvents` limits a
  behaviour to four of these events, a sample counting twice; the proof has no
  such limit on what `SaveIsKept` and `ConfirmedIsInForce` say.
* `Programs`: serial lines of at most two bytes and reads of two overflow and
  split; datagrams of five are cut. Two signals, one expiration of each timer and
  one failing read can meet in one batch. Queues of one make the fusion drop; two
  temperatures and two ticks of time reach a match, a miss and an overtaking. Four
  rows fill a window of two and pass it by a rejected one. Three measurements in
  three ticks reach every verdict, and silence before and after. Increments of 1
  to 3 for ways of up to 5 divide some and not others; cycles are up to three
  ticks late. Stream buffers of 5 and 9 bytes end at, before and after a field;
  sizes stand on both sides of 254/255 and of the largest field. A frame is
  damaged in any one byte by three masks; a sentence in any one character by nine
  others, among them all the syntax knows, with bodies up to one field and one
  character too long.
* The bounds that are not in the code are the constants named `Max...` other than
  those of the code's own limits (`MaxAttempts`, `MaxSubscriptions`,
  `MaxLineBytes`, `MaxFields`, `MaxSentenceSize`, `MaxSizedField`), and each
  stands in a guard.

Deadlock is checked in every run but `Programs`. Where a program ends, or reaches
a bound after which nothing can happen, it stutters in a disjunct of its own
(`Finished`, `Terminated`, `Over`, `Done`). The programs of `Programs` end, which
is what `EveryProgramEnds` says, so the run has `CHECK_DEADLOCK FALSE`; that none
of its waiting threads is stuck before the end is that property.

## 4. Fairness

Safety is checked without any assumption of progress. The liveness properties
assume weak fairness of what the operating system runs, and of nothing else.

* **Retry**: `ClientStep(c)`, the client's process is scheduled and epoll reports
  what is ready, and `TimerExpires(c)`, an armed timer expires. The server, the
  network and the start of a client are not fair: `EveryClientExits` holds when
  no datagram ever arrives. Weak fairness of the whole step is enough because a
  client that may take any step may always take one.
* **BoundedQueue**: `Continue(t)` for each thread, that is, the scheduler and the
  mutex starve nobody. Nobody has to call anything, and `SpuriousWakeup` is not
  fair. `StopReleases` needs no more, for after a stop every retry of a
  predicate succeeds.
* **Startup**: each worker, main, and the timeout thread once it has begun; not
  `TimeoutStrikes`, so `StartupEnds` does not rest on the timeout.
* **ParameterLab**: each thread.
* **RemoteMonitoring**: the device's turn, whose `poll` has a timeout, and for
  each monitor `Transact`, the sending and the deadline of an attempt. The link
  is not fair: `NobodyWaitsForever` holds when everything is lost.
* **WeatherDevice**: the device's loop, whose `poll` has a timeout too, and the
  clock. Sensor, client, network and power are not fair.
* **Programs**: the threads or processes of the program chosen, each under a weak
  fairness condition of its own (`FirstProcess` to `FourthProcess`), and time
  where the oven waits for it and the client's timer runs. Input, signals and the
  link are not fair: `nmea` has to end only if a signal or the duration has
  arrived, the fusion device only if it was told to stop. The drain loops of
  `nmea` end because what arrives is bounded: see section 6.
* **AtomicImageFile**, **ParameterDevice**: no liveness is claimed, no fairness
  is stated.

## 5. What is proved

The modules ending in `_proof` hold theorems that TLAPS checks to the last leaf,
for every value of the constants that satisfies the named assumptions of the module
they are about. Before an inductive invariant was proved, TLC checked it on the run
of its module.

### RetryTransaction_proof

Assumptions: `OptionsAssumption` (identifiers, intervals and attempts are
positive), `ModesAssumption`, `LinkAssumption`. Nothing is assumed of how many
clients there are, nor of the link.

* `TypeCorrect`: `Spec => []TypeOK`. The record type of a client bounds its
  attempts by `MaxAttempts`, which is not inductive alone: an attempt is made
  when a delay is over, and only `ContextOK` says that a client waiting to
  retry has an attempt left.
* `TimerAlwaysGuards`: `Spec => []TimerGuardsWait`. Inductive is `Guarded`, for
  clients that run, together with the types.
* `BudgetRespected`: `Spec => []RetryWithinBudget`.

  These three follow from one invariant, `ClientInv`: the types, and `ContextOK` and
  `Guarded` for every client. The lemmas say of each handler, as a function from
  context to context, that it keeps `ContextOK` and establishes `Guarded`; the
  steps then differ only in which handler they apply.

* `OutcomeIsFinal`: `Spec => OutcomeStable`, the action property. In a state where
  `ClientInv` holds, each step of a client keeps its state, its result and its
  attempts if the transaction is settled: `ResponseTimeout`, `RetryNow` and `Start`
  are disabled then (the last because `ContextOK` lets only an idle transaction
  belong to a client that has not started), `on_response` ignores what it reads,
  and the others do not touch the three fields.

* `SuccessIsGenuine`: `DistinctIds => (Spec => []SuccessMeansApplied)`. The
  invariant `AckInv` follows the acknowledgement back: a client that has
  succeeded had its transaction executed; an ACK on the way, on any port, is for
  a transaction that was; the transaction the server remembers was; and
  every request on the way bears the identifier of the client it is from.
  Distinct identifiers are needed because the server takes a new transaction
  with the identifier of the last one for its retry and acknowledges it
  unexecuted. (The client's default identifier is 42, so two runs of it without
  `--transaction` do just that.)

The last two theorems assume `DistinctIds` and `InOrder` as well: a client starts
only when the ones before have exited, and the link keeps the order of datagrams
and repeats none, as the loopback interface does for clients run by hand. It may
lose any of them, and calls may fail. Both halves are needed: a link that reorders
breaks `AtMostOnce` (`RetryReordered`, section 6).

* `CarriedOutOnce`: `Spec => []AtMostOnce`. The server remembers one transaction
  only, so the invariant `OnceInv` is about order. The requests in transit are
  sorted by client: if another client's request is behind one of `c`'s, `c` has
  exited and has no request from there on (`InTurn`). What the server remembers is
  as if it stood before all of them (`MemoryInTurn`). Each request is that of a
  client that has started (`SentByClients`), only one client runs (`OneRuns`), and
  what has been carried out is either what the server remembers or that of a
  client that is over for good (`ExecutedOnce`). Taking a datagram out, by
  delivery or by loss, keeps the order (`RemovalKeepsOrder`); a client only adds
  its own request at the end, when all others that have started are over
  (`ActsKeepOnceInv`); and a request that is carried out belongs to neither kind
  of `ExecutedOnce`, so it is carried out for the first time
  (`OnRequestKeepsOnceInv`).
* `PromiseKept`: `Spec => KeepsPromise`, the refinement of `TransactionSpec`. To
  carry out a request is `Apply`, for the reason just given. A step of a client
  changes the outcome of that client at most, and only from pending
  (`ClientReports`): a settled transaction stays settled by the lemma under
  `OutcomeIsFinal`, which covers success because of `SuccessSettled`, and success
  is reported only for a transaction carried out, by `AckInv`. Every other step
  changes nothing the promise speaks of.

The module begins with what removing an element, appending one and listing a set
give, for the operators of the community modules that the model is built from.

### BoundedQueue_proof

Assumptions: `CapacityAssumption` (positive), `ThreadsAssumption` (finitely many),
`NoneAssumption` (an empty slot is no item).

* `TypeCorrect`, from `Inv`: the types, that a thread about to push has an item,
  and that a thread inside `stop` has set the flag.
* `NothingLost`: `Spec => []NoLostWakeup`. The property is about sets of threads,
  and its proof about their numbers: `WakeInv` says that while somebody waits for
  an item there are no more items than threads that are about to take one or to
  notify for one, and the same of slots. `MoveOne` says how the number of threads
  at some places changes when one thread moves, and each action is then arithmetic
  on four numbers. The case that makes it true is `notify_one`: it takes away a
  thread that cared and, if anybody waits, adds one.
* `NobodyLeftBehind`: `Spec => []StopWakesAll`, inductive with `Inv`.
* `RingIsConsistent`: `Spec => []RingConsistent`. Remainders are out of an SMT
  solver's depth, so `RotFacts` replaces `(readIndex + k) % Capacity` by a
  comparison and a subtraction once and for all, and `RingInv` is the property
  in those terms.
* `Implements`: `Spec => IsAQueue`, the refinement of `QueueSpec`. An emplacement
  appends to the contents of the ring, an extraction takes their head, a stop
  stops, and every other step leaves items and flag alone. `RingInv` is what
  makes the contents a sequence of items.

`Implements` is what entitles a program to use `QueueSpec` in the place of the
queue. The module goes on with two programs that do, as instances:

* `NothingIsLostBetween`: `demo!Init /\ [][demo!Next]_demo!vars =>
  []demo!Conservation`, for any capacity and any length of the test. `DemoInv`
  says which numbers are in the queue, those from the last popped up to the next
  to be pushed; a push appends to them and a pop takes their first (`Numbers`).
  The consumer can only end when the queue was stopped and is empty, and nothing
  is pushed after the stop because the thread that pushes is the one that stops.
* `FusionIsFaithful`: the same of `FusionFaithful`, for queues of any capacity, any
  number of measurements and any integer `MatchWindow`. `Pressures` and
  `Temperatures` follow each on its way. The numbers of the pressures fused, the one
  in hand and those in the queue increase in that order up to the newest handed
  over (`Increasing`), and a lemma for each move (`NumberWaits`, `NumberTaken`,
  `NumberFused`, ...) keeps it so. Of the temperatures, what has left the queue is
  an initial part of what the queue took, and the latest is its last element.
  `TemperatureOrder` adds, on a link that keeps order, that numbers do not decrease
  from the link to the rows; strays, which have number 0, are left out of it.
  TLC finds no violation of the invariant, on links that keep order and on others.

### StartupSequencing_proof

Assumptions: `FailingAssumption`, `NoEventAssumption`, and `CapacityAssumption`: the
queue holds a report of each component, as the code's does. Nothing is assumed
of who fails nor of when the timeout strikes.

* `TypeCorrect`, `DependenciesComeFirst`, `VerdictIsHonest`: `Spec => []TypeOK`,
  `[]DependenciesFirst`, `[]VerdictHonest`. The invariant needs three more parts.
  `ReportsOnce`: a report that main has not handled is of a component still
  counted as starting, and is its only one; so handling it cannot undo what is
  known. `OutcomeKept`: what the flags of main say of the components. `WhyHere`:
  why main is where it is; in particular only a failure or the timeout stops the
  queue before the end, and once main has set `startupFinished`, under the mutex,
  the timeout thread can not set `timedOut` any more. That settles the race at the
  end.

### ParameterLab_proof

Assumptions: `ScriptsAssumption`, `LabAssumption`. Scripts may have any length and
queues any capacity.

* `StoreIsWhatPrecedenceSays`: `Spec => []StoreFollowsPrecedence`. The property
  compares the final store with a definition over the whole script; the invariant
  says the same of the first part of it, the requests handled so far
  (`StoreAfter`), with an exception for the value that is being copied. The step
  that writes the provenance takes this from one length to the next: a request
  takes effect exactly if no earlier admissible one for the parameter has higher
  precedence, which is what the provenance stored tells.
* `ChangesAreReported`: `Spec => []EveryChangeReported`. `ChangesInOrder` counts
  generations along the chain: those printed, the one being printed, those in the
  queue and the one being announced are 1, 2, 3, ... without a gap, and each
  parameter was last written by a generation not older than any event for it still
  under way.

### AtomicImageFile_proof

Assumption: `Alone`, at most one process saves to the path. It is needed: with
two, TLC finds the violation of section 6.

* `WholeImage`, `SavedImageIsDurable`, `FailedSaveKeepsLastGood`, `TypeCorrect`.
  What a power failure can bring to light is any directory the disk may hold with,
  for each piece, any value since the last `fsync`, so the invariant speaks of all
  of those: each names at `path` a file whose every piece has one possible value,
  of one save (`DirectoriesOK`); and none names there the temporary file in use.
  `SaveOK` says how far the save in progress is, and `SavedOK` that what was
  reported `Ok` is in every such directory.

### WeatherDevice_proof

Assumptions: `ParametersAssumption` (in particular, `set` bounds both periods, as
the code does at a minute), `PrintingAssumption` (a limit in range is one in range
when it is rounded to six decimals, and the default needs none), `SensorAssumption`
(the value of a sample out of range is beyond every temperature limit that can be
set) and `BoundsAssumption` (the bounds are numbers). Nothing else is assumed of how many samples, commands, restarts
and datagrams under way there are.

* `SavedParametersAreKept`: `Spec => []SaveIsKept`. The steps of a save are
  followed with what the temporary file and the path hold at each of them, and
  with the set of parameters a restart may find. What it finds is what was printed
  of them: that this is again something `set` accepts (`PrintedIsValid`), and that
  the defaults print as they are (`PrintedDefaults`), rests on
  `PrintingAssumption`.
* `ValidParameters`: the parameters in force are always among those `set` accepts,
  after any command, image and command line.
* `ConfirmedSetIsInForce`: `Spec => []ConfirmedIsInForce`. Commands are numbered
  in the order they are sent, arrive in that order and are answered in it
  (`InOrder`); so when the answer to the last one is on its way nothing sent
  before it is left, and nothing can change the parameter. Where the proof needs a
  least number or the last place in a sequence, it takes the well-foundedness of
  the naturals for a fixed set, which needs no operator parameter.
* `TelemetryIsHonest`: `Spec => []TelemetryHonest`. The property is about what the
  last step published; `HonestInv` says the same of the device between any two
  steps, since a command or a later tick publishes what is there: a measurement
  that is `Good` was received, has not been reported stale, and names the sample
  that went into the filter last, which was neither faulty, out of range nor
  unreadable (`HonestDevice`). A tick looks for silence before it publishes, and
  `SensorAssumption` is what makes a reading out of range refused under every
  limit that can be in force. `TypeOK` bounds sequence numbers, sockets and the
  next report, which takes `HonestSensor`, `ShortQueues` and the bounds on both
  periods.

### RemoteMonitoring_proof

Assumptions: `DemoAssumption`, `BoundsAssumption`, `NamesAssumption` and
`StrangerAssumption`, that is, the demonstration asks for reports and intervals the
device knows. There may be any number of monitors, slots, requests under way and
attempts, and the first three theorems hold on any link.

* `TheTableKeepsItsBooks`: `Spec => []CountersAgree`, and `DeadlinesDoNotDrift`:
  `Spec => NoDrift`, both from `TableInv`. A request renews a slot, takes a free
  one, gives one back or changes nothing, and each of these four is a lemma about
  the number of active slots. The rest is arithmetic on the deadlines:
  `sendDueReports` adds whole intervals until the deadline lies ahead, which is the
  second half of `NoDrift`, and `Tick` takes one from every deadline.
* `TheTableIsARegistry`: `Spec => IsARegistry`, the refinement of
  `SubscriptionSpec`. The registry is the set of active slots without their numbers;
  that an endpoint has one slot for a report (`Unique`) is what makes a renewal
  replace one subscription by one.
* `ConfirmedIsSubscribed`: `DistinctReports => (Spec =>
  []ConfirmedMeansSubscribed)`. `LinkInv` says that a request in transit is one
  its monitor has made, and an acknowledgement the answer to one of them;
  `HoldInv`, that a step a monitor has gone beyond has left its subscription in
  the table and that an acknowledgement on its way tells the truth. Copies of old
  requests then do no harm, for they ask for what is there already; and no request
  to unsubscribe is among them while a monitor receives and has not asked for the
  end (`AskedInv`), which is what keeps the first subscription until then.
  `DistinctReports`, each report is asked for once, is what the program does: its
  four subscriptions are for temperature, pressure, health and diagnostics. A monitor that asked twice
  for one report, with two intervals, could have the second confirmed and then
  undone by a copy of the first.
* `StoppedMeansStopped`: `~Reordering => (Spec => []ReportsStopped)`. `StopInv` is
  about order in both directions: behind a monitor's request to unsubscribe there
  are only copies of it (`UnsubscriptionsLast`), and behind the acknowledgement
  the subscription is gone and no such report follows (`AckedInv`). On a link that
  reorders it is false, see section 6.

### ParameterDevice_proof

Assumption: `DeviceAssumption`: a text is parsed or not, an option may be left out,
and `None` is no image. There may be any texts and any number of runs.

* `ImageIsTheStores`, `SavedComesBack`, `DamageIsHarmless`: `Spec =>
  []ImageTracksStore`, `[]SavedIsRestored`, `[]DamageChangesNothing`. The
  properties speak of walks over an image, so the invariant speaks of images: the
  one in memory is what `create` makes of the store (`ImageFollows`), the records at
  `path` are those `create` made of the values saved or are `Spoilt` (`FileKnown`),
  and a run has the defaults or has restored exactly what was saved (`RunKnown`).
  Header and length are left open, since damages of them may be undone
  (`RecordsKept`). Of records they may not: the tool finds a record only in an
  image a walk without decoding accepts, and from there every damage leaves them
  `Spoilt` (`DamageSpoils`). No image with a fault in its header, its length or its
  records is restored (`SpoiltIsRefused`), so one that differs from what was saved
  is not (`OtherIsRefused`). An image has three records, so walking and staging are
  taken apart record by record (`WalkTold`, `StageThree`) and need no induction.
  `RestoreFacts` says why a sound image replaces every value: the compiled
  defaults are the weakest source.

### What is only model-checked

Liveness (`EveryClientExits`, `StopReleases`, `StartupEnds`, `LabEnds`,
`NobodyWaitsForever`, `SilenceAndReportsDue`, `EveryProgramEnds`): a proof would
need `ENABLED` and fairness, which the prover does not handle. And the other
properties of `Programs`. `RampsAsPlanned` is open (section 8). Those of the
checkers, filters, streams, frames and sentences compare a fold over a sequence
with a definition over the whole of it: for every input this takes induction over
data with an operator as a parameter, which is out of the prover's reach.

## 6. What was found

* **A late retry is executed again** (`RetryReordered`).
  `retry_server.cpp:368-370` says that remembering the most recently completed
  transaction is enough, since only one is outstanding. One may be outstanding at
  the clients and another in the network: a copy of the first client's request,
  overtaken by the second client's transaction, is not recognised, is executed
  again, and puts the first client's interval back into force. On a link that
  keeps order, which the loopback interface of the lab does, the statement is
  true: `RetrySequential` checks it, `CarriedOutOnce` proves it.
* **Two savers share a temporary file** (`ImageFileShared`).
  `WeatherDeviceMain.cpp:25` offers to "atomically persist the image";
  `ParameterStorageImage.cpp:649` opens `path + ".tmp"` with `O_TRUNC` and without
  `O_EXCL`. When two devices save to one path at once, one renames the file the
  other has just truncated, and a reader finds an empty or partial image. With one
  process the statement holds, power failures included (`ImageFile`).

* **A string may be written or read in part.** `Common/tests/BdsTestMain.cpp:9-10`
  describes the streams as having "latched errors and no partial reads or writes".
  `writeString` first puts down the length and then fails if the text does not fit
  (`BinaryWriteStream.cpp:157-166`), so the length stays in the buffer and counts as
  written; `readStringView` consumes the length of a text that
  is cut short (`BinaryReadStream.cpp:223-235`). Scalars and sizes are written and
  read as a whole. `WireIsFaithful` says exactly this: it allows the length, and
  nothing else, to be left behind, so it holds and no run is a violation.

And some behaviours that contradict no statement, and are worth knowing:

* A run of Chapter 17's device that cannot open or read its file keeps the defaults
  and goes on (`WeatherDeviceMain.cpp:137-141`); with `--save` it then replaces a
  file that may have been good. `SavedIsRestored` excepts such a run.
* `--corrupt bad-magic` and `bad-header-crc` invert a bit
  (`ParameterStorageImage.cpp:752-765`): applied to a copy they made, they restore
  the image. `DamageChangesNothing` is about files that differ from what was saved.
* A `SET` of `TemperatureLimit` with more than six decimals is in force as it was
  given, is saved with `ACCEPTED`, and is a little different after a restart
  (`Parameters.h:68-69`). A file that cannot be opened at a start counts as none
  (`Parameters.h:47-48`).

* `ReplaceFailed` is also reported when the rename has been done and only the
  directory could not be synchronised: the new image is at `path`.
  `FailureKeepsLastGood` is therefore about `OpenFailed` and `WriteFailed`.
* "Temperature reports stopped" (`remote_monitor.cpp:143`) is true on a link that
  keeps order. With `Reordering = TRUE` TLC finds a `WXSUB` that was sent
  before the `WXUSB`, or a report sent before its acknowledgement, arriving
  after it.
* Subscriptions do not expire. A monitor that is stopped, or gives up although its
  request was carried out, leaves its slots taken, and started again it has another
  port and cannot free them.
* Chapter 13's outcomes named in section 2.
* The weather device looks at a command before it looks for staleness, so a
  `STATUS` that comes after the timeout has passed and before the tick publishes
  the temperature as Good. `GoodIsFresh` is about the report
  `WXTMP`, which the tick publishes after it has looked.
* A `SET` of `TemperatureLimit` below the filtered value leaves that value and its
  quality until the next sample.
* The rate checker takes a value that is too fast for its next reference
  (`Chapter19_AnomalyDetection/include/AnomalyDetection.h:88`), so the return to
  the true value after a spike is a second violation. Chapter 7's validator
  measures from the last valid sample, and there it is not. `AnomaliesAreTold` and
  `FilteringFaithful` say which is which.
* `SAVE` is answered `REJECTED,SAVE_FAILED` although the renamed image is in force
  at the next start, if only the synchronisation of the directory failed.
* The handlers of the NMEA monitor read until nothing is left before the loop
  looks at its stop flag: input that never pauses keeps it from ending. The model
  bounds what arrives. A serial line that hangs up is reported readable for ever,
  and the loop turns without waiting until it is told to end.
* On a link that reorders, the newest arrival of Chapter 14 need not be the newest
  measurement: the order of temperatures in `FusionFaithful` is claimed for
  links that keep order.
* `Chapter14_SynchronizedTime/wind_speed_tx.cpp` uses a message type that the
  protocol header does not define; no build target compiles it.

## 7. What is not modelled

*Within the modelled components.* Formatting, printing and option parsing
throughout. Floating-point rounding: ramps, filters and rates are exact; the
rounding of a limit that is saved is modelled. Retry:
malformed datagrams, which neither program sends. Parameter store: `serialize`,
which changes nothing. Persistence: the bytes of header and frames, reduced to
what is wrong with them, and files that neither the device nor the inspection tool has
written, such as one that is too large (`ImageFull`). Monitoring: the sequence and drop counters, which are
only printed, errors of `poll` that end the device, a restart of the device.
Reactor: removal of a source and moving a reactor, which no program does. Serial
port: opening it and its baud rate. Chapter 14: `clock_monitor`, which prints
clocks, and the transmitter named in section 6. Chapter 20: the telemetry
listener, which prints each datagram and keeps no state.

*Components.*

* PID control (Chapter 9): a floating-point control law and a simulated plant;
  its properties are numerical.
* Latency probe (Chapter 6): a histogram of what the scheduler did.
* Memory demo and heap monitor (Chapter 8, Tools): counts of what the allocator of
  its process did, updated by independent atomic additions.
* Imaging capabilities (Chapter 5): interfaces, with one pure adjustment behind
  them.
* Cryptography (Chapter 18): an external cipher applied to single messages in a
  straight line; there is no protocol state.
* NMEA decoding (Common): a stateless conversion of text fields. The sentences of
  Chapters 15 and 20 have their own codec, which is modelled.
* Generators and simulators (Tools): test data.
* `retry_lab/` at the top level: an earlier version of Chapter 12's, which the
  top-level build takes.

## 8. What is left to do

Every component with control worth a model has one, and of the programs that have a
run of their own every safety property is proved. Of those of `Programs`,
`Conservation` and `FusionFaithful` are. `RampsAsPlanned` needs no induction over
its input either: its invariant is `CommandAfter` for the current cycle, and what it
takes is arithmetic with a product of two variables, a division rounded up and the
maximum of a finite set.
