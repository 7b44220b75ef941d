--------------------------- MODULE EventDispatcher ---------------------------
(***************************************************************************)
(* The event pipeline of one shard (events/dispatcher.rs and the trigger   *)
(* dispatch of events/processor.rs).  Request handlers hand mutation       *)
(* contexts to try_send, which draws a sequence number, enqueues into a    *)
(* bounded channel without waiting and counts; one consumer task takes the *)
(* events, fires the triggers of the changed keys up to a fan-out cap,     *)
(* publishes the event on Zenoh and broadcasts it.  The atomics and the    *)
(* channel are separate: each access is a step.                            *)
(*                                                                         *)
(* A context is the sequence of its changed keys; of a key only the number *)
(* of its matching trigger targets matters (none without a trigger         *)
(* processor or an event configuration).  A fired trigger invokes a        *)
(* function, whose own write may come back as another event.               *)
(***************************************************************************)
EXTENDS Integers, Sequences, FiniteSets

CONSTANTS
    Senders,         \* request handlers that call try_send
    Contexts,        \* mutation contexts: sequences of numbers of targets
    QueueBound,      \* capacity of the mpsc channel
    FanoutCap,       \* ODGM_MAX_BATCH_TRIGGER_FANOUT
    CounterSize,     \* queue_len is a counter modulo this (2^64 in the code)
    MaxTriggerDepth, \* EventConfig::max_trigger_depth
    MaxEvents,       \* bound: sequence numbers drawn
    MaxFailures      \* bound: trigger dispatches that fail

ASSUME DispatcherAssumption ==
    /\ Contexts \subseteq Seq(Nat)
    /\ IsFiniteSet(Senders)
    /\ QueueBound \in Nat \ {0}
    /\ FanoutCap \in Nat
    /\ CounterSize \in Nat /\ CounterSize > Cardinality(Senders) + QueueBound + 2
    /\ MaxTriggerDepth \in Nat /\ MaxEvents \in Nat /\ MaxFailures \in Nat

VARIABLES
    seq,        \* the next sequence number
    spc,        \* where each handler is in try_send
    evt,        \* the event it sends
    queue,      \* the mpsc channel
    queueLen,   \* queue_len
    drops,      \* queue_drops_total
    cpc,        \* where the consumer is
    cur,        \* the event it processes
    emitted,    \* how many of its keys were visited
    target,     \* how many targets of the last of them were
    fired,      \* the targets tried for it, as <<key, target>> pairs
    truncated,  \* truncated_batches
    failures,   \* trigger dispatches that failed
    invoked,    \* invocations dispatched and not yet run
    published,  \* sequence numbers put on the Zenoh topic, oldest first
    bcast       \* what the broadcast channel was sent, oldest first

sender   == <<spc, evt>>
consumer == <<cpc, cur, emitted, target, fired>>
metrics  == <<queueLen, drops, truncated, failures>>
vars     == <<seq, sender, queue, consumer, metrics, invoked, published, bcast>>

Event == [seq : Nat, keys : Seq(Nat), depth : Nat]
NoEvent == [seq |-> 0, keys |-> <<>>, depth |-> 0]

Init ==
    /\ seq = 1
    /\ spc = [s \in Senders |-> "idle"]
    /\ evt = [s \in Senders |-> NoEvent]
    /\ queue = <<>>
    /\ queueLen = 0
    /\ drops = 0
    /\ cpc = "recv"
    /\ cur = NoEvent
    /\ emitted = 0
    /\ target = 0
    /\ fired = {}
    /\ truncated = 0
    /\ failures = 0
    /\ invoked = {}
    /\ published = <<>>
    /\ bcast = <<>>

-----------------------------------------------------------------------------
(* try_send.                                                               *)

Draw(s, keys, depth) ==
    /\ spc[s] = "idle"
    /\ seq <= MaxEvents
    /\ evt' = [evt EXCEPT ![s] = [seq |-> seq, keys |-> keys, depth |-> depth]]
    /\ seq' = seq + 1
    /\ spc' = [spc EXCEPT ![s] = "send"]

\* A client's mutation is reported: next_seq.
NextSeq(s) ==
    /\ \E keys \in Contexts : Draw(s, keys, 0)
    /\ UNCHANGED <<queue, consumer, metrics, invoked, published, bcast>>

\* An invocation fired by a trigger runs, and its function's mutation is.
TriggeredSeq(s) ==
    /\ \E i \in invoked, keys \in Contexts :
          /\ Draw(s, keys, i.depth + 1)
          /\ invoked' = invoked \ {i}
    /\ UNCHANGED <<queue, consumer, metrics, published, bcast>>

\* The channel takes the event, or is full.  (It is never closed: the consumer
\* itself holds the dispatcher, and with it a sender of the channel.)
TrySend(s) ==
    /\ spc[s] = "send"
    /\ IF Len(queue) < QueueBound
       THEN queue' = Append(queue, evt[s]) /\ spc' = [spc EXCEPT ![s] = "count"]
       ELSE spc' = [spc EXCEPT ![s] = "drop"] /\ UNCHANGED queue
    /\ UNCHANGED <<seq, evt, consumer, metrics, invoked, published, bcast>>

CountSent(s) ==
    /\ spc[s] = "count"
    /\ queueLen' = (queueLen + 1) % CounterSize
    /\ spc' = [spc EXCEPT ![s] = "idle"]
    /\ UNCHANGED <<seq, evt, queue, consumer, drops, truncated, failures, invoked, published, bcast>>

CountDrop(s) ==
    /\ spc[s] = "drop"
    /\ drops' = drops + 1
    /\ spc' = [spc EXCEPT ![s] = "idle"]
    /\ UNCHANGED <<seq, evt, queue, consumer, queueLen, truncated, failures, invoked, published, bcast>>

-----------------------------------------------------------------------------
(* run_event_consumer.                                                     *)

Recv ==
    /\ cpc = "recv"
    /\ queue # <<>>
    /\ cur' = Head(queue)
    /\ queue' = Tail(queue)
    /\ emitted' = 0
    /\ target' = 0
    /\ fired' = {}
    /\ cpc' = "keys"
    /\ UNCHANGED <<seq, sender, metrics, invoked, published, bcast>>

\* Mutant: the cap is compared after the key was taken.
NextKeyLate ==
    /\ cpc = "keys"
    /\ emitted <= FanoutCap /\ emitted < Len(cur.keys)
    /\ emitted' = emitted + 1
    /\ target' = 0
    /\ cpc' = IF cur.keys[emitted + 1] > 0 THEN "trigger" ELSE "keys"
    /\ UNCHANGED <<seq, sender, queue, cur, fired, metrics, invoked, published, bcast>>

\* The next changed key, while the cap allows; its matching triggers follow.
NextKey ==
    /\ cpc = "keys"
    /\ emitted < FanoutCap /\ emitted < Len(cur.keys)
    /\ emitted' = emitted + 1
    /\ target' = 0
    /\ cpc' = IF cur.keys[emitted + 1] > 0 THEN "trigger" ELSE "keys"
    /\ UNCHANGED <<seq, sender, queue, cur, fired, metrics, invoked, published, bcast>>

\* execute_trigger: an invocation is put on Zenoh; a failure is counted, and the
\* next target has its turn all the same.
ExecuteTrigger ==
    /\ cpc = "trigger"
    /\ target' = target + 1
    /\ fired' = fired \cup {<<emitted, target + 1>>}
    /\ cpc' = IF target + 1 < cur.keys[emitted] THEN "trigger" ELSE "keys"
    /\ \/ /\ invoked' = invoked \cup
                 {[seq |-> cur.seq, key |-> emitted, target |-> target + 1, depth |-> cur.depth]}
          /\ UNCHANGED failures
       \/ /\ failures < MaxFailures
          /\ failures' = failures + 1
          /\ UNCHANGED invoked
    /\ UNCHANGED <<seq, sender, queue, cur, emitted, queueLen, drops, truncated, published, bcast>>

\* All keys were visited, or the cap was reached: then the event gets a summary.
Summarise ==
    /\ cpc = "keys"
    /\ emitted >= FanoutCap \/ emitted >= Len(cur.keys)
    /\ truncated' = truncated + (IF emitted < Len(cur.keys) THEN 1 ELSE 0)
    /\ cpc' = "publish"
    /\ UNCHANGED <<seq, sender, queue, cur, emitted, target, fired, queueLen, drops, failures,
                   invoked, published, bcast>>

\* Mutant: an event whose put fails is skipped instead of the error ignored.
PublishOrSkip ==
    /\ cpc = "publish"
    /\ published' = Append(published, cur.seq)
    /\ cpc' \in {"broadcast", "done"}
    /\ UNCHANGED <<seq, sender, queue, cur, emitted, target, fired, metrics, invoked, bcast>>

\* The put for the gateways' WebSocket bridge; its result is ignored.
Publish ==
    /\ cpc = "publish"
    /\ published' = Append(published, cur.seq)
    /\ cpc' = "broadcast"
    /\ UNCHANGED <<seq, sender, queue, cur, emitted, target, fired, metrics, invoked, bcast>>

Broadcast ==
    /\ cpc = "broadcast"
    /\ bcast' = Append(bcast, [seq |-> cur.seq, keys |-> cur.keys, emitted |-> emitted,
                               fired |-> fired])
    /\ cpc' = "done"
    /\ UNCHANGED <<seq, sender, queue, cur, emitted, target, fired, metrics, invoked, published>>

\* Mutant: the decrement is forgotten.
CountForgotten ==
    /\ cpc = "done"
    /\ cpc' = "recv"
    /\ UNCHANGED <<seq, sender, queue, cur, emitted, target, fired, metrics, invoked, published, bcast>>

CountDone ==
    /\ cpc = "done"
    /\ queueLen' = (queueLen - 1) % CounterSize
    /\ cpc' = "recv"
    /\ UNCHANGED <<seq, sender, queue, cur, emitted, target, fired, drops, truncated, failures,
                   invoked, published, bcast>>

-----------------------------------------------------------------------------
SendStep(s) == TrySend(s) \/ CountSent(s) \/ CountDrop(s)

ConsumerStep ==
    \/ Recv
    \/ NextKey
    \/ ExecuteTrigger
    \/ Summarise
    \/ Publish
    \/ Broadcast
    \/ CountDone

Next ==
    \/ \E s \in Senders : NextSeq(s) \/ TriggeredSeq(s) \/ SendStep(s)
    \/ ConsumerStep

Spec == Init /\ [][Next]_vars

\* The runtime polls the consumer and every handler that has begun to send; the
\* consumer awaits nothing but Zenoh puts, which do not wait for a subscriber.
FairSpec ==
    /\ Spec
    /\ WF_vars(ConsumerStep)
    /\ \A s \in Senders : WF_vars(SendStep(s))

-----------------------------------------------------------------------------
(* Properties.                                                             *)

Sent == [seq : Nat, keys : Seq(Nat), emitted : Nat, fired : SUBSET (Nat \X Nat)]
Invocation == [seq : Nat, key : Nat, target : Nat, depth : Nat]

\* Every counter and local holds a value of its type; the channel holds no more
\* than its capacity.
TypeOK ==
    /\ seq \in Nat \ {0}
    /\ spc \in [Senders -> {"idle", "send", "count", "drop"}]
    /\ evt \in [Senders -> Event]
    /\ queue \in Seq(Event) /\ Len(queue) <= QueueBound
    /\ queueLen \in 0..CounterSize - 1
    /\ drops \in Nat
    /\ cpc \in {"recv", "keys", "trigger", "publish", "broadcast", "done"}
    /\ cur \in Event
    /\ emitted \in Nat /\ target \in Nat /\ fired \subseteq Nat \X Nat
    /\ truncated \in Nat /\ failures \in Nat
    /\ invoked \subseteq Invocation
    /\ published \in Seq(Nat)
    /\ bcast \in Seq(Sent)

\* Handlers with an event that is neither in the channel nor counted as dropped,
\* and handlers that have enqueued and not counted yet.
Sending  == {s \in Senders : spc[s] \in {"send", "drop"}}
Counting == {s \in Senders : spc[s] = "count"}

\* The consumer has an event that is not broadcast yet; that is not done with.
Processing == IF cpc \in {"recv", "done"} THEN 0 ELSE 1
Busy       == IF cpc = "recv" THEN 0 ELSE 1

\* No event is lost without being counted, and none is delivered twice: every
\* number drawn is in a handler's hands, in the channel, with the consumer, on
\* the broadcast channel or in queue_drops_total.
Accepted == Len(queue) + Processing + Len(bcast)
EventsAccounted == seq - 1 = Cardinality(Sending) + Accepted + drops

\* The gauge queue_len runs behind the channel, and below zero (where the unsigned
\* counter wraps), only by the handlers that have enqueued and not yet counted;
\* with none of them it is the number of events not done with.
Outstanding == (Len(queue) + Busy) - Cardinality(Counting)
QueueLenHonest ==
    queueLen = IF Outstanding >= 0 THEN Outstanding ELSE Outstanding + CounterSize

Cap(keys) == IF Len(keys) < FanoutCap THEN Len(keys) ELSE FanoutCap

\* All the targets of the first n keys.
Targets(keys, n) == UNION {{k} \X (1..keys[k]) : k \in 1..n}

\* When an event is broadcast, the triggers of its first FanoutCap keys have all
\* been tried, failed ones included, and those of no other key.
FanoutExact ==
    \A i \in 1..Len(bcast) :
        /\ bcast[i].emitted = Cap(bcast[i].keys)
        /\ bcast[i].fired = Targets(bcast[i].keys, Cap(bcast[i].keys))

\* An event accepted by the channel is broadcast in the end, however many
\* triggers fail or feed new events back.
EventsDelivered ==
    \A i \in 1..MaxEvents :
        (\E j \in 1..Len(queue) : queue[j].seq = i) ~> (\E j \in 1..Len(bcast) : bcast[j].seq = i)

\* The counters of the pipeline are right together: sequence numbers and drops account
\* for every event, and the gauge for the outstanding ones.
CountersHonest == EventsAccounted /\ QueueLenHonest
=============================================================================
