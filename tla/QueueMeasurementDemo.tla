------------------------ MODULE QueueMeasurementDemo ------------------------
(****************************************************************************)
(* The demonstration of Chapter 4: a producer thread fills a bounded queue  *)
(* for a while and then stops it; a consumer thread drains it.  Both keep   *)
(* statistics in atomics, outside the queue's mutex.                        *)
(*                                                                          *)
(* The queue is QueueSpec, which BoundedQueue implements; its items are the *)
(* sequence numbers.  Time is left out: the test may end after any item.    *)
(****************************************************************************)
EXTENDS Naturals, Sequences

CONSTANTS Capacity,    \* QueueCapacity
          MaxItems     \* bound: what the producer can produce before testEnd

DemoOK == Capacity \in Nat \ {0} /\ MaxItems \in Nat

VARIABLES
    items, stopped,
    producer,        \* where the producer is
    sequence,        \* the next sequence number
    depth,           \* what queue.size() has returned
    consumer,        \* where the consumer is
    produced, consumed, highWaterMark

queue == INSTANCE QueueSpec WITH Item <- 0..MaxItems

statistics == <<produced, consumed, highWaterMark>>
vars == <<items, stopped, producer, sequence, depth, consumer, statistics>>

Init ==
    /\ queue!Init
    /\ producer = "loop" /\ sequence = 0 /\ depth = 0
    /\ consumer = "pop"
    /\ produced = 0 /\ consumed = 0 /\ highWaterMark = 0

--------------------------------------------------------------------------------
(* The producer thread *)

StartItem ==
    /\ producer = "loop" /\ sequence < MaxItems
    /\ producer' = "push"
    /\ UNCHANGED <<items, stopped, sequence, depth, consumer, statistics>>

PushItem ==
    /\ producer = "push"
    /\ queue!Push(sequence)
    /\ sequence' = sequence + 1
    /\ producer' = "count"
    /\ UNCHANGED <<depth, consumer, statistics>>

CountProduced ==
    /\ producer = "count"
    /\ produced' = produced + 1
    /\ producer' = "measure"
    /\ UNCHANGED <<items, stopped, sequence, depth, consumer, consumed, highWaterMark>>

\* queue.size(), after the push and so after whatever the consumer did since
MeasureDepth ==
    /\ producer = "measure"
    /\ depth' = Len(items)
    /\ producer' = "update"
    /\ UNCHANGED <<items, stopped, sequence, consumer, statistics>>

\* The producer alone writes the mark, so compare_exchange fails only
\* spuriously and the loop repeats it.
updateHighWaterMark ==
    /\ producer = "update"
    /\ highWaterMark' = IF depth > highWaterMark THEN depth ELSE highWaterMark
    /\ producer' = "loop"
    /\ UNCHANGED <<items, stopped, sequence, depth, consumer, produced, consumed>>

\* the test duration is over
TestEnds ==
    /\ producer = "loop"
    /\ queue!Stop
    /\ producer' = "done"
    /\ UNCHANGED <<sequence, depth, consumer, statistics>>

--------------------------------------------------------------------------------
(* The consumer thread *)

\* Mutant: the newest item is taken.
PopItem_Newest ==
    /\ consumer = "pop" /\ items # <<>>
    /\ items' = SubSeq(items, 1, Len(items) - 1)
    /\ consumer' = "count"
    /\ UNCHANGED <<stopped, producer, sequence, depth, statistics>>

PopItem ==
    /\ consumer = "pop"
    /\ \E i \in 0..MaxItems : queue!Pop(i)
    /\ consumer' = "count"
    /\ UNCHANGED <<producer, sequence, depth, statistics>>

CountConsumed ==
    /\ consumer = "count"
    /\ consumed' = consumed + 1
    /\ consumer' = "pop"
    /\ UNCHANGED <<items, stopped, producer, sequence, depth, produced, highWaterMark>>

\* pop returns nullopt
ConsumerEnds ==
    /\ consumer = "pop"
    /\ queue!Drained
    /\ consumer' = "done"
    /\ UNCHANGED <<items, stopped, producer, sequence, depth, statistics>>

--------------------------------------------------------------------------------
Producer == \/ StartItem \/ PushItem \/ CountProduced \/ MeasureDepth
            \/ updateHighWaterMark \/ TestEnds
Consumer == PopItem \/ CountConsumed \/ ConsumerEnds

Ended == producer = "done" /\ consumer = "done"

Next == Producer \/ Consumer

--------------------------------------------------------------------------------
(* Properties. *)

InFlight(counting) == IF counting THEN 1 ELSE 0

\* Nothing is lost, duplicated or overtaken between the two threads: at every
\* moment the queue holds exactly the sequence numbers that were pushed and not
\* yet popped, in order and within the capacity, and the counters lag behind by
\* the item being counted.  So when both have been joined, everything produced
\* has been consumed, which is what main prints.
Conservation ==
    LET popped == consumed + InFlight(consumer = "count") IN
    /\ sequence = produced + InFlight(producer = "count")
    /\ items = [k \in 1..(sequence - popped) |-> popped + k - 1]
    /\ Len(items) <= Capacity
    /\ Ended => consumed = produced /\ items = <<>>
================================================================================
