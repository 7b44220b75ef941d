------------------------ MODULE EntryStoreSequential ------------------------
(***************************************************************************)
(* The entry store used by one caller at a time, the way its unit tests    *)
(* use it: the records an operation found when it began are remembered, so *)
(* that the finished operation can be compared with one atomic step of     *)
(* ObjectSpec.                                                             *)
(***************************************************************************)
EXTENDS EntryStore

\* A delete names no entries to set, and an upsert passes no expected version
\* (core.rs calls batch_set_entries with None).
ASSUME SequentialAssumption ==
    /\ Clients # {}
    /\ \A r \in Requests : r.kind \in {"delete_entry", "batch_delete"} => r.puts = {}
    /\ \A r \in Requests : r.kind = "upsert" => r.expect = NoExpect

VARIABLES
    pre,     \* history: the records when the last operation began
    belief   \* history: the keys a subscriber believes the object has

seqVars == <<vars, pre, belief>>

Now == [entry |-> entry, meta |-> meta, config |-> config]

\* The effect of one mutation context on the set of keys a subscriber believes
\* the object has; a context that contradicts the belief poisons it.
Believe(keys, e) ==
    LET of(a) == {k \in DOMAIN e.keys : e.keys[k] = a}
    IN  IF /\ of("create") \cap keys = {}
           /\ of("update") \cup of("delete") \subseteq keys
        THEN (keys \cup of("create")) \ of("delete")
        ELSE {0}

\* The subscriber knows the keys the operation finds, and hears every context.
Hear == belief' = IF events' = events THEN belief ELSE Believe(belief, events'[Len(events')])

SeqInit == Init /\ pre = Now /\ belief = {}

SeqNext ==
    \E p \in Clients :
        \/ Quiet /\ Begin(p) /\ pre' = Now /\ belief' = Present
        \/ Step(p) /\ UNCHANGED pre /\ Hear

SeqSpec == SeqInit /\ [][SeqNext]_seqVars

\* The records as a caller may rely on them: those before the operation until
\* it returns.
View == IF Quiet THEN Now ELSE pre

\* The handler that serves, or served, the last request.
Latest == CHOOSE p \in Clients : id[p] = issued

\* The version and the life cycle that a metadata record stands for.
VersionOf(m) == IF m = NoMeta THEN 0 ELSE m.version
LifeOf(m)    == IF m = NoMeta THEN "absent" ELSE IF m.tomb THEN "deleted" ELSE "live"

Object == INSTANCE ObjectSpec WITH
    Values    <- 1..MaxOps,
    NoRequest <- NoOperation,
    entries   <- View.entry,
    version   <- VersionOf(View.meta),
    life      <- LifeOf(View.meta),
    request   <- op[Latest],
    pending   <- ~Quiet

\* Run alone, every operation, whatever number of storage calls it is made of,
\* is one step of the abstract object: when it returns, entries, version and life
\* cycle have changed exactly as its request calls for, or not at all.
RefinesObject == Object!Spec

\* The keys of the object when the last operation began.
KeysBefore == {k \in Keys : pre.entry[k] # Absent}

\* A subscriber that knows the object's keys and replays the contexts (create
\* adds a key, delete removes one, update changes one it knows) still knows
\* exactly the keys the object has: no mutation of a gRPC operation goes
\* unreported or is reported with the wrong action, however many storage calls
\* and contexts the operation is made of.  (The Zenoh batch handler reports
\* nothing at all.)
EventsReplay == Quiet /\ V2Dispatcher /\ op[Latest].kind # "zbatch" => belief = Present

\* The version of every context follows that of the context before it: a
\* subscriber sees versions increase, as long as requests do not overlap.
EventVersionsIncrease ==
    \A i \in 1..Len(events) - 1 : events[i].after < events[i + 1].after

\* What subscribers are told of an object keeps them in step with it: the contexts
\* replay to the object's keys, and their versions increase.
EventsFaithful == EventsReplay /\ EventVersionsIncrease
=============================================================================
