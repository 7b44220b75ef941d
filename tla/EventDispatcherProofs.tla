------------------------ MODULE EventDispatcherProofs ------------------------
(***************************************************************************)
(* Proofs about EventDispatcher for any number of handlers, contexts of    *)
(* any size, any capacity and any fan-out cap.                             *)
(***************************************************************************)
EXTENDS EventDispatcher, FiniteSetTheorems, TLAPS

LEMMA Sizes ==
    /\ CounterSize \in Nat /\ QueueBound \in Nat /\ Cardinality(Senders) \in Nat
    /\ CounterSize > Cardinality(Senders) + QueueBound + 2
  BY DispatcherAssumption, FS_CardinalityType

LEMMA InitType == Init => TypeOK
  <1> SUFFICES ASSUME Init PROVE TypeOK
    OBVIOUS
  <1>1. NoEvent \in Event
    BY DEF NoEvent, Event
  <1>2. 0 \in 0..CounterSize - 1 /\ 0 <= QueueBound
    BY Sizes
  <1>3. QED
    BY <1>1, <1>2 DEF Init, TypeOK

LEMMA CounterType == ASSUME NEW x \in Int PROVE x % CounterSize \in 0..CounterSize - 1
  <1>1. CounterSize \in Int /\ CounterSize > 0
    BY Sizes
  <1>2. QED
    BY <1>1

LEMMA NextType == TypeOK /\ [Next]_vars => TypeOK'
  <1> SUFFICES ASSUME TypeOK, [Next]_vars PROVE TypeOK'
    OBVIOUS
  <1> USE DEF TypeOK, sender, consumer, metrics
  <1>1. ASSUME NEW s \in Senders, NEW keys \in Contexts, NEW d \in Nat, Draw(s, keys, d)
        PROVE  /\ seq' \in Nat \ {0} /\ evt' \in [Senders -> Event]
               /\ spc' \in [Senders -> {"idle", "send", "count", "drop"}]
    <2>1. [seq |-> seq, keys |-> keys, depth |-> d] \in Event
      BY <1>1, DispatcherAssumption DEF Event
    <2>2. QED
      BY <1>1, <2>1 DEF Draw
  <1>2. ASSUME NEW s \in Senders, NextSeq(s) PROVE TypeOK'
    BY <1>1, <1>2 DEF NextSeq
  <1>3. ASSUME NEW s \in Senders, TriggeredSeq(s) PROVE TypeOK'
    <2>1. PICK i \in invoked, keys \in Contexts :
             Draw(s, keys, i.depth + 1) /\ invoked' = invoked \ {i}
      BY <1>3 DEF TriggeredSeq
    <2>2. i.depth + 1 \in Nat /\ invoked' \subseteq Invocation
      BY <2>1 DEF Invocation
    <2>3. QED
      BY <1>1, <1>3, <2>1, <2>2 DEF TriggeredSeq
  <1>4. ASSUME NEW s \in Senders, TrySend(s) PROVE TypeOK'
    <2>1. CASE Len(queue) < QueueBound
      <3>1. queue' = Append(queue, evt[s]) /\ spc' = [spc EXCEPT ![s] = "count"]
        BY <1>4, <2>1 DEF TrySend
      <3>2. queue' \in Seq(Event) /\ Len(queue') = Len(queue) + 1
        BY <3>1
      <3>3. QED
        BY <1>4, <2>1, <3>1, <3>2, DispatcherAssumption DEF TrySend
    <2>2. CASE ~(Len(queue) < QueueBound)
      BY <1>4, <2>2 DEF TrySend
    <2>3. QED
      BY <2>1, <2>2
  <1>5. ASSUME NEW s \in Senders, CountSent(s) PROVE TypeOK'
    <2>1. queueLen' \in 0..CounterSize - 1
      BY <1>5, CounterType DEF CountSent
    <2>2. QED
      BY <1>5, <2>1 DEF CountSent
  <1>6. ASSUME NEW s \in Senders, CountDrop(s) PROVE TypeOK'
    BY <1>6 DEF CountDrop
  <1>7. CASE Recv
    <2>1. cur' \in Event /\ queue' \in Seq(Event) /\ Len(queue') = Len(queue) - 1
      BY <1>7 DEF Recv
    <2>2. Len(queue') <= QueueBound
      BY <2>1, DispatcherAssumption
    <2>3. QED
      BY <1>7, <2>1, <2>2 DEF Recv
  <1>8. CASE NextKey
    BY <1>8 DEF NextKey
  <1>9. CASE ExecuteTrigger
    <2>1. fired' \subseteq Nat \X Nat /\ target' \in Nat
      BY <1>9 DEF ExecuteTrigger
    <2>2. [seq |-> cur.seq, key |-> emitted, target |-> target + 1, depth |-> cur.depth]
             \in Invocation
      BY DEF Event, Invocation
    <2>3. invoked' \subseteq Invocation /\ failures' \in Nat
      BY <1>9, <2>2 DEF ExecuteTrigger
    <2>4. QED
      BY <1>9, <2>1, <2>3 DEF ExecuteTrigger
  <1>10. CASE Summarise
    BY <1>10 DEF Summarise
  <1>11. CASE Publish
    <2>1. published' \in Seq(Nat)
      BY <1>11 DEF Publish, Event
    <2>2. QED
      BY <1>11, <2>1 DEF Publish
  <1>12. CASE Broadcast
    <2>1. [seq |-> cur.seq, keys |-> cur.keys, emitted |-> emitted, fired |-> fired] \in Sent
      BY DEF Event, Sent
    <2>2. QED
      BY <1>12, <2>1 DEF Broadcast
  <1>13. CASE CountDone
    <2>1. queueLen - 1 \in Int
      BY DispatcherAssumption
    <2>2. queueLen' \in 0..CounterSize - 1
      BY <1>13, <2>1, CounterType DEF CountDone
    <2>3. QED
      BY <1>13, <2>2 DEF CountDone
  <1>14. CASE UNCHANGED vars
    BY <1>14 DEF vars
  <1>15. QED
    BY <1>2, <1>3, <1>4, <1>5, <1>6, <1>7, <1>8, <1>9, <1>10, <1>11, <1>12, <1>13, <1>14
       DEF Next, SendStep, ConsumerStep

\* Every counter of the dispatcher keeps its type and the channel its capacity,
\* whatever handlers and consumer interleave.
THEOREM TypeCorrect == Spec => []TypeOK
  <1>1. QED
    BY InitType, NextType, PTL DEF Spec

-----------------------------------------------------------------------------
(* The fan-out cap.                                                        *)

LEMMA InTargets ==
    ASSUME NEW keys, NEW n, NEW p
    PROVE  p \in Targets(keys, n) <=> \E k \in 1..n : \E t \in 1..keys[k] : p = <<k, t>>
  <1>1. p \in Targets(keys, n) <=> \E k \in 1..n : p \in {k} \X (1..keys[k])
    BY DEF Targets
  <1>2. ASSUME NEW k \in 1..n
        PROVE  p \in {k} \X (1..keys[k]) <=> \E t \in 1..keys[k] : p = <<k, t>>
    OBVIOUS
  <1>3. QED
    BY <1>1, <1>2

LEMMA TargetsNone == ASSUME NEW keys PROVE Targets(keys, 0) = {}
  <1>1. 1..0 = {}
    OBVIOUS
  <1>2. QED
    BY <1>1, InTargets

LEMMA TargetsNext ==
    ASSUME NEW keys, NEW n \in Nat
    PROVE  Targets(keys, n + 1) = Targets(keys, n) \cup ({n + 1} \X (1..keys[n + 1]))
  <1>1. \A k : k \in 1..n + 1 <=> k \in 1..n \/ k = n + 1
    OBVIOUS
  <1>2. ASSUME NEW p
        PROVE  p \in Targets(keys, n + 1) <=>
                  p \in Targets(keys, n) \/ p \in {n + 1} \X (1..keys[n + 1])
    <2>1. p \in Targets(keys, n + 1) <=>
             \/ \E k \in 1..n : \E t \in 1..keys[k] : p = <<k, t>>
             \/ \E t \in 1..keys[n + 1] : p = <<n + 1, t>>
      BY <1>1, InTargets
    <2>2. p \in {n + 1} \X (1..keys[n + 1]) <=> \E t \in 1..keys[n + 1] : p = <<n + 1, t>>
      OBVIOUS
    <2>3. QED
      BY <2>1, <2>2, InTargets
  <1>3. QED
    BY <1>2

\* What the consumer has fired so far for the event in its hands.
FanoutInv ==
    /\ FanoutExact
    /\ cpc \in {"keys", "trigger", "publish", "broadcast"} => emitted <= Cap(cur.keys)
    /\ cpc \in {"publish", "broadcast"} => emitted = Cap(cur.keys)
    /\ cpc \in {"keys", "publish", "broadcast"} => fired = Targets(cur.keys, emitted)
    /\ cpc = "trigger" =>
          /\ emitted >= 1
          /\ target < cur.keys[emitted]
          /\ fired = Targets(cur.keys, emitted - 1) \cup ({emitted} \X (1..target))

LEMMA NextFanout == TypeOK /\ FanoutInv /\ [Next]_vars => FanoutInv'
  <1> SUFFICES ASSUME TypeOK, FanoutInv, [Next]_vars PROVE FanoutInv'
    OBVIOUS
  <1>a. cur.keys \in Seq(Nat) /\ emitted \in Nat /\ target \in Nat
    BY DEF TypeOK, Event
  <1>1. ASSUME UNCHANGED <<consumer, bcast>> PROVE FanoutInv'
    BY <1>1 DEF FanoutInv, FanoutExact, consumer
  <1>2. ASSUME NEW s \in Senders, NextSeq(s) \/ TriggeredSeq(s) \/ SendStep(s) PROVE FanoutInv'
    BY <1>1, <1>2 DEF NextSeq, TriggeredSeq, SendStep, TrySend, CountSent, CountDrop
  <1>3. CASE Recv
    <2>1. cur' \in Event
      BY <1>3 DEF Recv, TypeOK
    <2>2. 0 <= Cap(cur'.keys)
      BY <2>1, DispatcherAssumption DEF Cap, Event
    <2>3. fired' = Targets(cur'.keys, 0)
      BY <1>3, TargetsNone DEF Recv
    <2>4. QED
      BY <1>3, <2>2, <2>3 DEF Recv, FanoutInv, FanoutExact
  <1>4. CASE NextKey
    <2>1. emitted' = emitted + 1 /\ target' = 0 /\ UNCHANGED <<cur, fired, bcast>>
      BY <1>4 DEF NextKey
    <2>2. emitted + 1 <= Cap(cur.keys)
      BY <1>4, <1>a, DispatcherAssumption DEF NextKey, Cap
    <2>3. fired = Targets(cur.keys, emitted)
      BY <1>4 DEF NextKey, FanoutInv
    <2>4. cur.keys[emitted + 1] \in Nat
      BY <1>4, <1>a DEF NextKey
    <2>5. CASE cur.keys[emitted + 1] > 0
      <3>1. cpc' = "trigger"
        BY <1>4, <2>5 DEF NextKey
      <3>2. {emitted + 1} \X (1..0) = {}
        OBVIOUS
      <3>3. fired' = Targets(cur'.keys, emitted' - 1) \cup ({emitted'} \X (1..target'))
        <4>1. emitted' - 1 = emitted
          BY <1>a, <2>1
        <4>2. QED
          BY <2>1, <2>3, <3>2, <4>1
      <3>4. QED
        BY <1>a, <2>1, <2>2, <2>4, <2>5, <3>1, <3>3 DEF FanoutInv, FanoutExact
    <2>6. CASE ~(cur.keys[emitted + 1] > 0)
      <3>1. cpc' = "keys"
        BY <1>4, <2>6 DEF NextKey
      <3>2. 1..cur.keys[emitted + 1] = {}
        BY <2>4, <2>6
      <3>3. {emitted + 1} \X (1..cur.keys[emitted + 1]) = {}
        BY <3>2
      <3>4. fired' = Targets(cur'.keys, emitted')
        <4>1. Targets(cur.keys, emitted + 1) =
                 Targets(cur.keys, emitted) \cup ({emitted + 1} \X (1..cur.keys[emitted + 1]))
          BY <1>a, TargetsNext
        <4>2. Targets(cur.keys, emitted + 1) = Targets(cur.keys, emitted)
          BY <3>3, <4>1
        <4>3. QED
          BY <2>1, <2>3, <4>2
      <3>5. QED
        BY <2>1, <2>2, <3>1, <3>4 DEF FanoutInv, FanoutExact
    <2>7. QED
      BY <2>5, <2>6
  <1>5. CASE ExecuteTrigger
    <2>1. target' = target + 1 /\ UNCHANGED <<cur, emitted, bcast>>
      BY <1>5 DEF ExecuteTrigger
    <2>2. /\ emitted >= 1 /\ emitted <= Cap(cur.keys)
          /\ target < cur.keys[emitted]
          /\ fired = Targets(cur.keys, emitted - 1) \cup ({emitted} \X (1..target))
      BY <1>5 DEF ExecuteTrigger, FanoutInv
    <2>3. 1..target + 1 = (1..target) \cup {target + 1}
      BY <1>a
    <2>4. {emitted} \X (1..target + 1) = ({emitted} \X (1..target)) \cup {<<emitted, target + 1>>}
      BY <2>3
    <2>5. fired' = Targets(cur.keys, emitted - 1) \cup ({emitted} \X (1..target + 1))
      BY <1>5, <2>2, <2>4 DEF ExecuteTrigger
    <2>6. cur.keys[emitted] \in Nat
      BY <1>a, <2>2, DispatcherAssumption DEF Cap
    <2>7. CASE target + 1 < cur.keys[emitted]
      <3>1. cpc' = "trigger"
        BY <1>5, <2>7 DEF ExecuteTrigger
      <3>2. QED
        BY <2>1, <2>2, <2>5, <2>7, <3>1 DEF FanoutInv, FanoutExact
    <2>8. CASE ~(target + 1 < cur.keys[emitted])
      <3>1. cpc' = "keys"
        BY <1>5, <2>8 DEF ExecuteTrigger
      <3>2. target + 1 = cur.keys[emitted]
        BY <1>a, <2>2, <2>6, <2>8
      <3>3. emitted - 1 \in Nat /\ (emitted - 1) + 1 = emitted
        BY <1>a, <2>2
      <3>4. Targets(cur.keys, emitted) =
               Targets(cur.keys, emitted - 1) \cup ({emitted} \X (1..cur.keys[emitted]))
        BY <3>3, TargetsNext
      <3>5. fired' = Targets(cur'.keys, emitted')
        BY <2>1, <2>5, <3>2, <3>4
      <3>6. QED
        BY <2>1, <2>2, <3>1, <3>5 DEF FanoutInv, FanoutExact
    <2>9. QED
      BY <2>7, <2>8
  <1>6. CASE Summarise
    <2>1. emitted = Cap(cur.keys)
      BY <1>6, <1>a, DispatcherAssumption DEF Summarise, FanoutInv, Cap
    <2>2. QED
      BY <1>6, <2>1 DEF Summarise, FanoutInv, FanoutExact
  <1>7. CASE Publish
    BY <1>7 DEF Publish, FanoutInv, FanoutExact
  <1>8. CASE Broadcast
    <2> DEFINE new == [seq |-> cur.seq, keys |-> cur.keys, emitted |-> emitted, fired |-> fired]
    <2>1. bcast' = Append(bcast, new) /\ cpc' = "done"
      BY <1>8 DEF Broadcast
    <2>2. new.emitted = Cap(new.keys) /\ new.fired = Targets(new.keys, Cap(new.keys))
      BY <1>8 DEF Broadcast, FanoutInv
    <2>3. bcast \in Seq(Sent)
      BY DEF TypeOK
    <2> HIDE DEF new
    <2>4. /\ Len(bcast') = Len(bcast) + 1
          /\ \A i \in 1..Len(bcast) : bcast'[i] = bcast[i]
          /\ bcast'[Len(bcast) + 1] = new
      BY <2>1, <2>3
    <2>5. FanoutExact'
      <3> SUFFICES ASSUME NEW i \in 1..Len(bcast')
                   PROVE  /\ bcast'[i].emitted = Cap(bcast'[i].keys)
                          /\ bcast'[i].fired = Targets(bcast'[i].keys, Cap(bcast'[i].keys))
        BY DEF FanoutExact
      <3>1. CASE i \in 1..Len(bcast)
        BY <2>4, <3>1 DEF FanoutInv, FanoutExact
      <3>2. CASE i = Len(bcast) + 1
        BY <2>2, <2>4, <3>2
      <3>3. QED
        BY <2>3, <2>4, <3>1, <3>2
    <2>6. QED
      BY <2>1, <2>5 DEF FanoutInv
  <1>9. CASE CountDone
    BY <1>9 DEF CountDone, FanoutInv, FanoutExact
  <1>10. CASE UNCHANGED vars
    BY <1>1, <1>10 DEF vars
  <1>11. QED
    BY <1>2, <1>3, <1>4, <1>5, <1>6, <1>7, <1>8, <1>9, <1>10 DEF Next, ConsumerStep

\* Every broadcast event had the triggers of exactly its first FanoutCap changed
\* keys tried, each target once, whatever failed: for every size of context,
\* number of targets and cap.
THEOREM FanoutCapped == Spec => []FanoutExact
  <1>1. Init => FanoutInv
    BY DEF Init, FanoutInv, FanoutExact
  <1>2. FanoutInv => FanoutExact
    BY DEF FanoutInv
  <1>3. QED
    BY <1>1, <1>2, NextFanout, TypeCorrect, PTL DEF Spec

-----------------------------------------------------------------------------
(* Counting the events.                                                    *)

LEMMA HandlersFinite ==
    /\ IsFiniteSet(Sending) /\ Cardinality(Sending) \in Nat
    /\ IsFiniteSet(Counting) /\ Cardinality(Counting) \in Nat
    /\ Cardinality(Counting) <= Cardinality(Senders)
  <1>1. Sending \subseteq Senders /\ Counting \subseteq Senders
    BY DEF Sending, Counting
  <1>2. QED
    BY <1>1, DispatcherAssumption, FS_Subset, FS_CardinalityType

LEMMA AddOne ==
    ASSUME NEW S, IsFiniteSet(S), NEW x, x \notin S
    PROVE  Cardinality(S \cup {x}) = Cardinality(S) + 1
  BY FS_AddElement

LEMMA RemoveOne ==
    ASSUME NEW S, IsFiniteSet(S), NEW x, x \in S
    PROVE  Cardinality(S \ {x}) = Cardinality(S) - 1
  BY FS_RemoveElement

LEMMA NextAccounted == TypeOK /\ EventsAccounted /\ [Next]_vars => EventsAccounted'
  <1> SUFFICES ASSUME TypeOK, EventsAccounted, [Next]_vars PROVE EventsAccounted'
    OBVIOUS
  <1>a. /\ seq \in Nat /\ drops \in Nat /\ queue \in Seq(Event) /\ bcast \in Seq(Sent)
        /\ Len(queue) \in Nat /\ Len(bcast) \in Nat
    BY DEF TypeOK
  <1>b. Cardinality(Sending) \in Nat
    BY HandlersFinite
  <1>c. Processing \in Nat
    BY DEF Processing
  <1>d. Accepted \in Nat
    BY <1>a, <1>c DEF Accepted
  <1>1. ASSUME Accepted' = Accepted, UNCHANGED <<seq, spc, drops>> PROVE EventsAccounted'
    <2>1. Sending' = Sending
      BY <1>1 DEF Sending
    <2>2. QED
      BY <1>1, <2>1 DEF EventsAccounted
  <1>2. ASSUME UNCHANGED <<queue, cpc, bcast>> PROVE Accepted' = Accepted
    BY <1>2 DEF Accepted, Processing
  <1>3. ASSUME NEW s \in Senders, NextSeq(s) \/ TriggeredSeq(s) PROVE EventsAccounted'
    <2>1. /\ spc[s] = "idle" /\ spc' = [spc EXCEPT ![s] = "send"] /\ seq' = seq + 1
          /\ UNCHANGED <<queue, cpc, drops, bcast>>
      BY <1>3 DEF NextSeq, TriggeredSeq, Draw, consumer, metrics
    <2>2. Sending' = Sending \cup {s} /\ s \notin Sending
      BY <2>1 DEF Sending, TypeOK
    <2>3. Cardinality(Sending') = Cardinality(Sending) + 1
      BY <2>2, HandlersFinite, AddOne
    <2>4. QED
      BY <1>2, <1>a, <1>b, <1>d, <2>1, <2>3 DEF EventsAccounted
  <1>4. ASSUME NEW s \in Senders, TrySend(s) PROVE EventsAccounted'
    <2>1. spc[s] = "send" /\ UNCHANGED <<seq, cpc, drops, bcast>>
      BY <1>4 DEF TrySend, consumer, metrics
    <2>2. CASE Len(queue) < QueueBound
      <3>1. queue' = Append(queue, evt[s]) /\ spc' = [spc EXCEPT ![s] = "count"]
        BY <1>4, <2>2 DEF TrySend
      <3>2. Len(queue') = Len(queue) + 1
        BY <1>a, <3>1
      <3>3. Accepted' = Accepted + 1
        BY <1>a, <1>c, <2>1, <3>2 DEF Accepted, Processing
      <3>4. Sending' = Sending \ {s} /\ s \in Sending
        BY <2>1, <3>1 DEF Sending, TypeOK
      <3>5. Cardinality(Sending') = Cardinality(Sending) - 1
        BY <3>4, HandlersFinite, RemoveOne
      <3>6. QED
        BY <1>a, <1>b, <1>d, <2>1, <3>3, <3>5 DEF EventsAccounted
    <2>3. CASE ~(Len(queue) < QueueBound)
      <3>1. UNCHANGED queue /\ spc' = [spc EXCEPT ![s] = "drop"]
        BY <1>4, <2>3 DEF TrySend
      <3>2. Sending' = Sending
        BY <2>1, <3>1 DEF Sending, TypeOK
      <3>3. QED
        BY <1>2, <2>1, <3>1, <3>2 DEF EventsAccounted
    <2>4. QED
      BY <2>2, <2>3
  <1>5. ASSUME NEW s \in Senders, CountSent(s) PROVE EventsAccounted'
    <2>1. /\ spc[s] = "count" /\ spc' = [spc EXCEPT ![s] = "idle"]
          /\ UNCHANGED <<seq, queue, cpc, drops, bcast>>
      BY <1>5 DEF CountSent, consumer
    <2>2. Sending' = Sending
      BY <2>1 DEF Sending, TypeOK
    <2>3. QED
      BY <1>2, <2>1, <2>2 DEF EventsAccounted
  <1>6. ASSUME NEW s \in Senders, CountDrop(s) PROVE EventsAccounted'
    <2>1. /\ spc[s] = "drop" /\ spc' = [spc EXCEPT ![s] = "idle"] /\ drops' = drops + 1
          /\ UNCHANGED <<seq, queue, cpc, bcast>>
      BY <1>6 DEF CountDrop, consumer
    <2>2. Sending' = Sending \ {s} /\ s \in Sending
      BY <2>1 DEF Sending, TypeOK
    <2>3. Cardinality(Sending') = Cardinality(Sending) - 1
      BY <2>2, HandlersFinite, RemoveOne
    <2>4. QED
      BY <1>2, <1>a, <1>b, <1>d, <2>1, <2>3 DEF EventsAccounted
  <1>7. CASE Recv
    <2>1. Len(queue') = Len(queue) - 1 /\ Len(queue') \in Nat
      BY <1>7, <1>a DEF Recv
    <2>2. Processing = 0 /\ Processing' = 1 /\ bcast' = bcast
      BY <1>7 DEF Recv, Processing
    <2>3. Accepted' = Accepted
      BY <1>a, <2>1, <2>2 DEF Accepted
    <2>4. QED
      BY <1>1, <1>7, <2>3 DEF Recv, sender, metrics
  <1>8. CASE NextKey \/ ExecuteTrigger \/ Summarise \/ Publish \/ CountDone
    <2>1. Processing' = Processing
      BY <1>8 DEF NextKey, ExecuteTrigger, Summarise, Publish, CountDone, Processing
    <2>2. UNCHANGED <<seq, spc, drops, queue, bcast>>
      BY <1>8 DEF NextKey, ExecuteTrigger, Summarise, Publish, CountDone, sender, metrics
    <2>3. QED
      BY <1>1, <2>1, <2>2 DEF Accepted
  <1>9. CASE Broadcast
    <2>1. Len(bcast') = Len(bcast) + 1
      BY <1>9, <1>a DEF Broadcast
    <2>2. Processing = 1 /\ Processing' = 0
      BY <1>9 DEF Broadcast, Processing
    <2>3. UNCHANGED <<seq, spc, drops, queue>>
      BY <1>9 DEF Broadcast, sender, metrics
    <2>4. Accepted' = Accepted
      BY <1>a, <2>1, <2>2, <2>3 DEF Accepted
    <2>5. QED
      BY <1>1, <2>3, <2>4
  <1>10. CASE UNCHANGED vars
    BY <1>1, <1>2, <1>10 DEF vars, sender, metrics, consumer
  <1>11. QED
    BY <1>3, <1>4, <1>5, <1>6, <1>7, <1>8, <1>9, <1>10 DEF Next, SendStep, ConsumerStep

\* No event is lost without being counted in queue_drops_total and none is
\* broadcast twice, for any number of handlers and any capacity.
THEOREM NothingLostUncounted == Spec => []EventsAccounted
  <1>1. Init => EventsAccounted
    <2> SUFFICES ASSUME Init PROVE EventsAccounted
      OBVIOUS
    <2>1. Sending = {}
      BY DEF Init, Sending
    <2>2. Cardinality(Sending) = 0
      BY <2>1, FS_EmptySet
    <2>3. Accepted = 0
      BY DEF Init, Accepted, Processing
    <2>4. QED
      BY <2>2, <2>3 DEF Init, EventsAccounted
  <1>2. QED
    BY <1>1, NextAccounted, TypeCorrect, PTL DEF Spec

-----------------------------------------------------------------------------
(* The gauge.                                                              *)

\* The value of an unsigned counter of which x were added in all.
Wrapped(x) == IF x >= 0 THEN x ELSE x + CounterSize

LEMMA WrapUp ==
    ASSUME NEW x \in Int, -CounterSize <= x, x + 1 < CounterSize
    PROVE  (Wrapped(x) + 1) % CounterSize = Wrapped(x + 1)
  <1>0. CounterSize \in Nat /\ CounterSize > 1
    BY Sizes
  <1>1. CASE x = -1
    BY <1>0, <1>1 DEF Wrapped
  <1>2. CASE x # -1
    <2>1. Wrapped(x) + 1 = Wrapped(x + 1) /\ Wrapped(x + 1) \in 0..CounterSize - 1
      BY <1>0, <1>2 DEF Wrapped
    <2>2. QED
      BY <1>0, <2>1
  <1>3. QED
    BY <1>1, <1>2

LEMMA WrapDown ==
    ASSUME NEW x \in Int, -CounterSize < x, x < CounterSize
    PROVE  (Wrapped(x) - 1) % CounterSize = Wrapped(x - 1)
  <1>0. CounterSize \in Nat /\ CounterSize > 1
    BY Sizes
  <1>1. CASE x = 0
    <2>1. Wrapped(x) - 1 = -1 /\ Wrapped(x - 1) = CounterSize - 1
      BY <1>0, <1>1 DEF Wrapped
    <2>2. (-1) % CounterSize = CounterSize - 1
      BY <1>0
    <2>3. QED
      BY <2>1, <2>2
  <1>2. CASE x # 0
    <2>1. Wrapped(x) - 1 = Wrapped(x - 1) /\ Wrapped(x - 1) \in 0..CounterSize - 1
      BY <1>0, <1>2 DEF Wrapped
    <2>2. QED
      BY <1>0, <2>1
  <1>3. QED
    BY <1>1, <1>2

LEMMA NextHonest == TypeOK /\ QueueLenHonest /\ [Next]_vars => QueueLenHonest'
  <1> SUFFICES ASSUME TypeOK, QueueLenHonest, [Next]_vars PROVE QueueLenHonest'
    OBVIOUS
  <1>a. queue \in Seq(Event) /\ Len(queue) \in Nat /\ Len(queue) <= QueueBound /\ queueLen \in Int
    BY Sizes DEF TypeOK
  <1>b. Cardinality(Counting) \in Nat /\ Cardinality(Counting) <= Cardinality(Senders)
    BY HandlersFinite
  <1>c. Busy \in {0, 1}
    BY DEF Busy
  <1>d. Outstanding \in Int /\ -CounterSize < Outstanding /\ Outstanding + 1 < CounterSize
    BY <1>a, <1>b, <1>c, Sizes DEF Outstanding
  <1>e. queueLen = Wrapped(Outstanding)
    BY DEF QueueLenHonest, Wrapped
  <1>1. ASSUME Outstanding' = Outstanding, UNCHANGED queueLen PROVE QueueLenHonest'
    BY <1>1 DEF QueueLenHonest
  <1>2. ASSUME UNCHANGED <<queue, cpc>>, Counting' = Counting PROVE Outstanding' = Outstanding
    BY <1>2 DEF Outstanding, Busy
  <1>3. ASSUME NEW s \in Senders, NextSeq(s) \/ TriggeredSeq(s) \/ CountDrop(s) PROVE QueueLenHonest'
    <2>1. /\ spc[s] \in {"idle", "drop"} /\ UNCHANGED <<queue, cpc, queueLen>>
          /\ spc' = [spc EXCEPT ![s] = "send"] \/ spc' = [spc EXCEPT ![s] = "idle"]
      BY <1>3 DEF NextSeq, TriggeredSeq, CountDrop, Draw, consumer, metrics
    <2>2. Counting' = Counting
      BY <2>1 DEF Counting, TypeOK
    <2>3. QED
      BY <1>1, <1>2, <2>1, <2>2
  <1>4. ASSUME NEW s \in Senders, TrySend(s) PROVE QueueLenHonest'
    <2>1. spc[s] = "send" /\ UNCHANGED <<cpc, queueLen>>
      BY <1>4 DEF TrySend, consumer, metrics
    <2>2. CASE Len(queue) < QueueBound
      <3>1. queue' = Append(queue, evt[s]) /\ spc' = [spc EXCEPT ![s] = "count"]
        BY <1>4, <2>2 DEF TrySend
      <3>2. Len(queue') = Len(queue) + 1
        BY <1>a, <3>1
      <3>3. Counting' = Counting \cup {s} /\ s \notin Counting
        BY <2>1, <3>1 DEF Counting, TypeOK
      <3>4. Cardinality(Counting') = Cardinality(Counting) + 1
        BY <3>3, HandlersFinite, AddOne
      <3>5. Busy' = Busy
        BY <2>1 DEF Busy
      <3>6. Outstanding' = Outstanding
        BY <1>a, <1>b, <1>c, <3>2, <3>4, <3>5 DEF Outstanding
      <3>7. QED
        BY <1>1, <2>1, <3>6
    <2>3. CASE ~(Len(queue) < QueueBound)
      <3>1. UNCHANGED queue /\ spc' = [spc EXCEPT ![s] = "drop"]
        BY <1>4, <2>3 DEF TrySend
      <3>2. Counting' = Counting
        BY <2>1, <3>1 DEF Counting, TypeOK
      <3>3. QED
        BY <1>1, <1>2, <2>1, <3>1, <3>2
    <2>4. QED
      BY <2>2, <2>3
  <1>5. ASSUME NEW s \in Senders, CountSent(s) PROVE QueueLenHonest'
    <2>1. /\ spc[s] = "count" /\ spc' = [spc EXCEPT ![s] = "idle"]
          /\ queueLen' = (queueLen + 1) % CounterSize /\ UNCHANGED <<queue, cpc>>
      BY <1>5 DEF CountSent, consumer
    <2>2. Counting' = Counting \ {s} /\ s \in Counting
      BY <2>1 DEF Counting, TypeOK
    <2>3. Cardinality(Counting') = Cardinality(Counting) - 1
      BY <2>2, HandlersFinite, RemoveOne
    <2>4. Busy' = Busy
      BY <2>1 DEF Busy
    <2>5. Outstanding' = Outstanding + 1
      BY <1>a, <1>b, <1>c, <2>1, <2>3, <2>4 DEF Outstanding
    <2>6. queueLen' = Wrapped(Outstanding + 1)
      BY <1>d, <1>e, <2>1, WrapUp, Sizes
    <2>7. QED
      BY <2>5, <2>6 DEF QueueLenHonest, Wrapped
  <1>6. CASE Recv
    <2>1. Len(queue') = Len(queue) - 1 /\ Len(queue') \in Nat
      BY <1>6, <1>a DEF Recv
    <2>2. Busy = 0 /\ Busy' = 1 /\ UNCHANGED <<queueLen, spc>>
      BY <1>6 DEF Recv, Busy, sender, metrics
    <2>3. Counting' = Counting
      BY <2>2 DEF Counting
    <2>4. Outstanding' = Outstanding
      BY <1>a, <1>b, <2>1, <2>2, <2>3 DEF Outstanding
    <2>5. QED
      BY <1>1, <2>2, <2>4
  <1>7. CASE NextKey \/ ExecuteTrigger \/ Summarise \/ Publish \/ Broadcast
    <2>1. Busy' = Busy
      BY <1>7 DEF NextKey, ExecuteTrigger, Summarise, Publish, Broadcast, Busy
    <2>2. UNCHANGED <<spc, queue, queueLen>>
      BY <1>7 DEF NextKey, ExecuteTrigger, Summarise, Publish, Broadcast, sender, metrics
    <2>3. Counting' = Counting
      BY <2>2 DEF Counting
    <2>4. QED
      BY <1>1, <2>1, <2>2, <2>3 DEF Outstanding
  <1>8. CASE CountDone
    <2>1. Busy = 1 /\ Busy' = 0 /\ UNCHANGED <<spc, queue>>
      BY <1>8 DEF CountDone, Busy, sender
    <2>2. Counting' = Counting
      BY <2>1 DEF Counting
    <2>3. Outstanding' = Outstanding - 1
      BY <1>a, <1>b, <2>1, <2>2 DEF Outstanding
    <2>4. queueLen' = Wrapped(Outstanding - 1)
      BY <1>8, <1>d, <1>e, WrapDown, Sizes DEF CountDone
    <2>5. QED
      BY <2>3, <2>4 DEF QueueLenHonest, Wrapped
  <1>9. CASE UNCHANGED vars
    <2>1. UNCHANGED <<spc, queue, cpc, queueLen>>
      BY <1>9 DEF vars, sender, metrics, consumer
    <2>2. Counting' = Counting
      BY <2>1 DEF Counting
    <2>3. QED
      BY <1>1, <1>2, <2>1, <2>2
  <1>10. QED
    BY <1>3, <1>4, <1>5, <1>6, <1>7, <1>8, <1>9 DEF Next, SendStep, ConsumerStep

\* The gauge never drifts: it differs from the number of events not done with
\* only by the handlers between their try_send and their fetch_add, although it
\* may wrap below zero meanwhile.
THEOREM GaugeNeverDrifts == Spec => []QueueLenHonest
  <1>1. Init => QueueLenHonest
    <2> SUFFICES ASSUME Init PROVE QueueLenHonest
      OBVIOUS
    <2>1. Counting = {}
      BY DEF Init, Counting
    <2>2. Cardinality(Counting) = 0
      BY <2>1, FS_EmptySet
    <2>3. Outstanding = 0
      BY <2>2 DEF Init, Outstanding, Busy
    <2>4. QED
      BY <2>3 DEF Init, QueueLenHonest
  <1>2. QED
    BY <1>1, NextHonest, TypeCorrect, PTL DEF Spec

\* All counters of the pipeline are right together: no event is lost uncounted and
\* the gauge is off only by the handlers that have not counted yet.
THEOREM CountersAlwaysHonest == Spec => []CountersHonest
  <1>1. EventsAccounted /\ QueueLenHonest => CountersHonest
    BY DEF CountersHonest
  <1>2. QED
    BY <1>1, NothingLostUncounted, GaugeNeverDrifts, PTL
=============================================================================
