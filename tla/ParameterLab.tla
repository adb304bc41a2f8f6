----------------------------- MODULE ParameterLab -----------------------------
(****************************************************************************)
(* The threads of the Chapter 16 lab: a producer of update requests, the    *)
(* owner of the parameter store, and a consumer of change notifications,    *)
(* with a bounded queue between each two.                                   *)
(*                                                                          *)
(* The queues are QueueSpec, which BoundedQueue implements.  The owner      *)
(* alone writes the store, without a lock, and the consumer reads it for    *)
(* the value to print: each of its reads falls between two writes of the    *)
(* owner.  A value is at most four aligned bytes, copied in one access.     *)
(****************************************************************************)
EXTENDS ParameterStore, Sequences, FiniteSets

CONSTANTS Scripts,     \* the sequences of requests that are tried
          Capacity,    \* of either queue
          None         \* an empty std::optional

Text == [fits : BOOLEAN, parsed : BOOLEAN, value : Int]
ParameterUpdateRequest == [id : ParameterID, text : Text, source : ParameterSource]
ParameterChangeEvent == [id : ParameterID, source : ParameterSource, generation : Nat]

ASSUME ScriptsAssumption == Scripts \subseteq Seq(ParameterUpdateRequest)
ASSUME LabAssumption ==
    /\ Capacity \in Nat \ {0}
    /\ None \notin ParameterUpdateRequest \cup ParameterChangeEvent

VARIABLES
    script,                   \* the requests the producer has yet to submit
    producer, owner, consumer,
    updates, updatesStopped,  \* updateQueue
    notes, notesStopped,      \* notificationQueue
    request,                  \* what the owner has popped
    event,                    \* what the consumer has popped, or the owner pushes
    store,
    submitted,                \* history: every request the producer has submitted
    writtenBy,                \* history: the generation each value was written for
    reports                   \* history: generation of each event printed, and
                              \*   the one the printed value was written for

updateQueue == INSTANCE QueueSpec WITH
    items <- updates, stopped <- updatesStopped, Item <- ParameterUpdateRequest
notificationQueue == INSTANCE QueueSpec WITH
    items <- notes, stopped <- notesStopped, Item <- ParameterChangeEvent

updateVars == <<updates, updatesStopped>>
noteVars == <<notes, notesStopped>>
histories == <<submitted, writtenBy, reports>>
vars == <<script, producer, owner, consumer, updateVars, noteVars, request, event,
          store, histories>>

TypeOK ==
    /\ script \in Seq(ParameterUpdateRequest)
    /\ producer \in {"submit", "done"}
    /\ owner \in {"pop", "check", "copied", "notify", "done"}
    /\ consumer \in {"pop", "print", "done"}
    /\ updateQueue!TypeOK /\ notificationQueue!TypeOK
    /\ request \in ParameterUpdateRequest \cup {None}
    /\ event \in [{"owner", "consumer"} -> ParameterChangeEvent \cup {None}]
    /\ store \in Store
    /\ submitted \in Seq(ParameterUpdateRequest)
    /\ writtenBy \in [ParameterID -> Nat]
    /\ reports \in Seq(Nat \X Nat)

Init ==
    /\ script \in Scripts
    /\ producer = "submit" /\ owner = "pop" /\ consumer = "pop"
    /\ updateQueue!Init /\ notificationQueue!Init
    /\ request = None
    /\ event = [t \in {"owner", "consumer"} |-> None]
    /\ store = NewStore
    /\ submitted = <<>>
    /\ writtenBy = [id \in ParameterID |-> 0]
    /\ reports = <<>>

--------------------------------------------------------------------------------
(* requestProducer *)

\* makeUpdateRequest: the text is too long for the message buffer
SkipRequest ==
    /\ producer = "submit" /\ script # <<>> /\ ~Head(script).text.fits
    /\ script' = Tail(script)
    /\ UNCHANGED <<producer, owner, consumer, updateVars, noteVars, request, event,
                   store, histories>>

SubmitRequest ==
    /\ producer = "submit" /\ script # <<>> /\ Head(script).text.fits
    /\ updateQueue!Push(Head(script))
    /\ submitted' = Append(submitted, Head(script))
    /\ script' = Tail(script)
    /\ UNCHANGED <<producer, owner, consumer, noteVars, request, event, store,
                   writtenBy, reports>>

StopUpdates ==
    /\ producer = "submit" /\ script = <<>>
    /\ updateQueue!Stop
    /\ producer' = "done"
    /\ UNCHANGED <<script, owner, consumer, noteVars, request, event, store, histories>>

--------------------------------------------------------------------------------
(* parameterOwner *)

PopRequest ==
    /\ owner = "pop" /\ updates # <<>>
    /\ updateQueue!Pop(Head(updates))
    /\ request' = Head(updates)
    /\ owner' = "check"
    /\ UNCHANGED <<script, producer, consumer, noteVars, event, store, histories>>

Result == CheckText(store, request.id, request.text, request.source)

RejectUpdate ==
    /\ owner = "check" /\ Result # "OK"
    /\ owner' = "pop" /\ request' = None
    /\ UNCHANGED <<script, producer, consumer, updateVars, noteVars, event, store, histories>>

\* Mutant: the encoded value is not copied into the image.
AcceptUpdate_NoCopy ==
    /\ owner = "check" /\ Result = "OK"
    /\ owner' = "copied"
    /\ UNCHANGED <<script, producer, consumer, updateVars, noteVars, request, event,
                   store, histories>>

\* set, up to the copy into the live image ...
AcceptUpdate ==
    /\ owner = "check" /\ Result = "OK"
    /\ store' = CopyValue(store, request.id, request.text.value)
    /\ writtenBy' = [writtenBy EXCEPT ![request.id] = store.generation + 1]
    /\ owner' = "copied"
    /\ UNCHANGED <<script, producer, consumer, updateVars, noteVars, request, event,
                   submitted, reports>>

\* ... and from there to the end
FinishUpdate ==
    /\ owner = "copied"
    /\ store' = RecordUpdate(store, request.id, request.source)
    /\ event' = [event EXCEPT !["owner"] =
         [id |-> request.id, source |-> request.source, generation |-> store'.generation]]
    /\ owner' = "notify"
    /\ UNCHANGED <<script, producer, consumer, updateVars, noteVars, request, histories>>

NotifyChange ==
    /\ owner = "notify"
    /\ notificationQueue!Push(event["owner"])
    /\ owner' = "pop" /\ request' = None
    /\ event' = [event EXCEPT !["owner"] = None]
    /\ UNCHANGED <<script, producer, consumer, updateVars, store, histories>>

\* Mutant: the owner leaves without stopping the notifications.
StopNotifications_Silent ==
    /\ owner = "pop" /\ updateQueue!Drained
    /\ owner' = "done"
    /\ UNCHANGED <<script, producer, consumer, updateVars, noteVars, request, event,
                   store, histories>>

StopNotifications ==
    /\ owner = "pop" /\ updateQueue!Drained
    /\ notificationQueue!Stop
    /\ owner' = "done"
    /\ UNCHANGED <<script, producer, consumer, updateVars, request, event, store, histories>>

--------------------------------------------------------------------------------
(* notificationConsumer *)

PopEvent ==
    /\ consumer = "pop" /\ notes # <<>>
    /\ notificationQueue!Pop(Head(notes))
    /\ event' = [event EXCEPT !["consumer"] = Head(notes)]
    /\ consumer' = "print"
    /\ UNCHANGED <<script, producer, owner, updateVars, request, store, histories>>

\* printEvent: the event's generation next to the value of the moment
PrintEvent ==
    /\ consumer = "print"
    /\ LET e == event["consumer"] IN
         reports' = Append(reports, <<e.generation, writtenBy[e.id]>>)
    /\ event' = [event EXCEPT !["consumer"] = None]
    /\ consumer' = "pop"
    /\ UNCHANGED <<script, producer, owner, updateVars, noteVars, request, store,
                   submitted, writtenBy>>

ConsumerEnds ==
    /\ consumer = "pop" /\ notificationQueue!Drained
    /\ consumer' = "done"
    /\ UNCHANGED <<script, producer, owner, updateVars, noteVars, request, event,
                   store, histories>>

--------------------------------------------------------------------------------
Producer == SkipRequest \/ SubmitRequest \/ StopUpdates
Owner == \/ PopRequest \/ RejectUpdate \/ AcceptUpdate \/ FinishUpdate
         \/ NotifyChange \/ StopNotifications
Consumer == PopEvent \/ PrintEvent \/ ConsumerEnds

Done == producer = "done" /\ owner = "done" /\ consumer = "done"

Next == Producer \/ Owner \/ Consumer \/ (Done /\ UNCHANGED vars)

Spec == Init /\ [][Next]_vars /\ WF_vars(Producer) /\ WF_vars(Owner) /\ WF_vars(Consumer)

--------------------------------------------------------------------------------
(* Properties. *)

\* What the rules of precedence make of a sequence of requests, said without
\* the store: a request takes effect if it is admissible and no admissible
\* request before it, for the same parameter, came from a higher source.
Admissible(r) ==
    /\ r.text.parsed /\ validate(r.id, r.text.value)
    /\ r.source = "Runtime" => r.id \in runtimeWritable

Effective(rs) ==
    {i \in DOMAIN rs :
       /\ Admissible(rs[i])
       /\ \A j \in 1..(i - 1) :
            rs[j].id = rs[i].id /\ Admissible(rs[j]) =>
              precedence[rs[j].source] <= precedence[rs[i].source]}

LastFor(id, rs) ==
    {i \in Effective(rs) : rs[i].id = id /\ \A j \in Effective(rs) : rs[j].id = id => j <= i}

\* When the lab is done, the store is what those rules make of the requests
\* submitted, whatever the threads' interleaving: each parameter has the value
\* and the source of the last effective request, or its compiled default.
\* Store and queues stay well typed on the way.
StoreFollowsPrecedence ==
    /\ TypeOK
    /\ owner = "done" =>
      /\ store.generation = Cardinality(Effective(submitted))
      /\ \A id \in ParameterID :
           LET last == LastFor(id, submitted) IN
             IF last = {} THEN /\ store.values[id] = defaultValue[id]
                               /\ store.sources[id] = "CompiledDefault"
             ELSE \A i \in last : /\ store.values[id] = submitted[i].text.value
                                  /\ store.sources[id] = submitted[i].source

\* Each accepted update is reported exactly once and in order, and when the lab
\* is done none is left: the generations printed are 1, 2, 3 and so on.  The
\* value printed next to one is never older than the event, although the
\* consumer reads it from the store without a lock: it is the event's own value
\* or a later one (README "reads the latest typed value").
EveryChangeReported ==
    /\ \A k \in DOMAIN reports : reports[k][1] = k /\ reports[k][2] >= k
    /\ Done => Len(reports) = store.generation

\* The lab ends: no thread is left waiting on a full or an empty queue.
LabEnds == <>Done
================================================================================
