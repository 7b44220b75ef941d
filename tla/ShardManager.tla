---------------------------- MODULE ShardManager ----------------------------
(***************************************************************************)
(* One ODGM node: the collections it is told to create, the shards it      *)
(* builds for them, the endpoints of those shards and its shutdown.        *)
(*                                                                         *)
(* Three tasks and the tasks of every shard interleave at their awaits:    *)
(*   - the loader walks through the configured collections and calls       *)
(*     create_collection for each (metadata/mod.rs);                       *)
(*   - a relay copies the version of the metadata to a second watch        *)
(*     channel, whose receiver, the watch loop of cluster.rs, builds every *)
(*     local shard that is missing (shard/manager.rs, shard/builder.rs);   *)
(*   - every shard follows the liveliness of its group to switch its       *)
(*     standby functions (shard/object_shard/core.rs,                      *)
(*     shard/invocation/manager.rs);                                       *)
(*   - a signal closes the node (lib.rs, cluster.rs).                      *)
(***************************************************************************)
EXTENDS Integers, Sequences, FiniteSets, Functions

CONSTANTS
    Node,         \* the id of this node
    Members,      \* the ids of all nodes, a sequence
    Plans,        \* the lists of collections the loader may be given
    Functions,    \* the functions every collection routes
    StandbyFns,   \* those of them whose route is marked standby
    ActiveGroup,  \* the active group of the standby routes, {} for the replicas
    OnlyPrimary,  \* the option invoke_only_primary
    Durable,      \* does the storage of a shard live in a directory (fjall)?
    MaxFailures,  \* how many steps of shard creation fail
    MaxEvents,    \* how many times a peer comes or goes
    ShardIds,     \* the shard ids of the plans
    Peers,        \* those of them other nodes own
    MaxInstances  \* the most shards a behaviour builds

ASSUME ManagerAssumption ==
    /\ Len(Members) > 0
    /\ StandbyFns \subseteq Functions
    /\ OnlyPrimary \in BOOLEAN
    /\ Durable \in BOOLEAN
    /\ MaxFailures \in Nat
    /\ MaxEvents \in Nat
    /\ Peers \subseteq ShardIds
    /\ \A plan \in Plans :
          /\ plan \in Seq(Range(plan))
          /\ \A req \in Range(plan) :
                /\ req.partitions \in Nat /\ req.replicas \in Nat
                /\ req.assigns \in Seq(Range(req.assigns))
                /\ \A group \in Range(req.assigns) : group.ids \in Seq(Nat)

VARIABLES
    collections,  \* name -> the sequence of its groups of shard ids
    shards,       \* shard id -> metadata, for the shards of every node
    local,        \* the part of shards this node owns (local_shards)
    loader,       \* [pc, rest]: where the loader is and the requests ahead
    version,      \* the value in the watch channel of the metadata manager
    relayed,      \* the value in the channel of create_watch
    loop,         \* the watch loop: [pc, last, todo, cur]
    active,       \* shard id -> instance, the map of the shard manager
    inst,         \* the shards ever built, a sequence
    stats,        \* ManagerStats: created, active and failed
    failed,       \* the ids of which a step of the creation failed, a history
    closer,       \* the shutdown: [pc, todo]
    up,           \* the shard ids that hold a liveliness token
    events        \* how many changes of peers there were

managerVars == <<loop, active, stats, failed>>
metaVars == <<collections, shards, local, loader, version>>
shardVars == <<metaVars, relayed, managerVars, inst, closer, up, events>>

-----------------------------------------------------------------------------
(* Collections and their shards.                                           *)

NoMeta == [id |-> 0, coll |-> "", part |-> 0, owner |-> 0, primary |-> 0, replica |-> <<>>]

LastKey(f, default) ==
    IF DOMAIN f = {} THEN default
    ELSE CHOOSE id \in DOMAIN f : \A other \in DOMAIN f : other <= id

Cyclic(seq, i) == seq[(i % Len(seq)) + 1]

\* Mutant: the ids of every collection start at 1.
GenerateFromOne(req) ==
    LET first(p) == 1 + (p - 1) * req.replicas
    IN [p \in 1..req.partitions |->
          [ids     |-> [r \in 1..req.replicas |-> first(p) + r - 1],
           owners  |-> [r \in 1..req.replicas |-> Cyclic(Members, p + r - 2)],
           primary |-> first(p)]]

\* generate_default_assignments: fresh ids in order, the owners of partition p
\* start at member p, the first id of a group is its primary.
GenerateDefault(req) ==
    LET first(p) == LastKey(shards, 0) + 1 + (p - 1) * req.replicas
    IN [p \in 1..req.partitions |->
          [ids     |-> [r \in 1..req.replicas |-> first(p) + r - 1],
           owners  |-> [r \in 1..req.replicas |-> Cyclic(Members, p + r - 2)],
           primary |-> first(p)]]

Assignments(req) == IF req.assigns = <<>> THEN GenerateDefault(req) ELSE req.assigns

\* The ids of a group: the given ones or, when none is given, the largest id
\* so far for every replica.
GroupIds(req, assigns, p) ==
    IF assigns[p].ids # <<>> THEN assigns[p].ids
    ELSE LET before == DOMAIN shards
                       \cup UNION {{assigns[q].ids[i] : i \in DOMAIN assigns[q].ids} : q \in 1..(p - 1)}
         IN [r \in 1..req.replicas |-> LastKey([id \in before |-> id], 1)]

\* The metadata create_collection inserts: where two replicas have the same
\* id the later one stays.
NewShards(req, assigns) ==
    LET ids(p) == GroupIds(req, assigns, p)
        places == UNION {{<<p, i>> : i \in DOMAIN ids(p)} : p \in 1..req.partitions}
        idAt(pl) == ids(pl[1])[pl[2]]
        after(a, b) == a[1] > b[1] \/ (a[1] = b[1] /\ a[2] >= b[2])
        last(id) == CHOOSE a \in places : /\ idAt(a) = id
                                          /\ \A b \in places : idAt(b) = id => after(a, b)
    IN [id \in {idAt(pl) : pl \in places} |->
          LET a == last(id)
          IN [id      |-> id,
              coll    |-> req.name,
              part    |-> a[1],
              owner   |-> Cyclic(assigns[a[1]].owners, a[2] - 1),
              primary |-> assigns[a[1]].primary,
              replica |-> ids(a[1])]]

\* f with the entries of g added, those of g winning.
Overlay(f, g) == [x \in DOMAIN f \cup DOMAIN g |-> IF x \in DOMAIN g THEN g[x] ELSE f[x]]

\* create_collection up to the lock of local_shards. A collection that exists,
\* or assignments that are too few, is an error, and both callers of
\* create_collection let an error end the process.
CreateCollection ==
    /\ loader.pc = "idle"
    /\ loader.rest # <<>>
    /\ LET req == Head(loader.rest)
           assigns == Assignments(req)
           ok == req.name \notin DOMAIN collections /\ Len(assigns) >= req.partitions
       IN \/ /\ ok
             /\ shards' = Overlay(shards, NewShards(req, assigns))
             /\ collections' = Overlay(collections,
                    [c \in {req.name} |-> [p \in 1..req.partitions |-> GroupIds(req, assigns, p)]])
             /\ loader' = [loader EXCEPT !.pc = "update"]
          \/ /\ ~ok
             /\ loader' = [loader EXCEPT !.pc = "panicked"]
             /\ UNCHANGED <<shards, collections>>
    /\ UNCHANGED <<local, version, relayed, managerVars, inst, closer, up, events>>

\* The watch loop keeps the read lock of local_shards for a whole sync.
Syncing == loop.pc \notin {"wait", "exit"}

\* update_local_shards, once the watch loop is not in a sync.
UpdateLocalShards ==
    /\ loader.pc = "update"
    /\ ~Syncing
    /\ LET own == {id \in DOMAIN shards : shards[id].owner = Node}
       IN local' = Overlay(local, [id \in own |-> shards[id]])
    /\ loader' = [loader EXCEPT !.pc = "send"]
    /\ UNCHANGED <<collections, shards, version, relayed, managerVars, inst, closer, up, events>>

\* Mutant: every creation sends the same version.
SendOne ==
    /\ loader.pc = "send"
    /\ version' = 1
    /\ loader' = [pc |-> "idle", rest |-> Tail(loader.rest)]
    /\ UNCHANGED <<collections, shards, local, relayed, managerVars, inst, closer, up, events>>

\* The watchers are told.
SendVersion ==
    /\ loader.pc = "send"
    /\ version' = version + 1
    /\ loader' = [pc |-> "idle", rest |-> Tail(loader.rest)]
    /\ UNCHANGED <<collections, shards, local, relayed, managerVars, inst, closer, up, events>>

\* create_watch: a watch channel keeps its last value only.
RelayVersion ==
    /\ relayed # version
    /\ relayed' = version
    /\ UNCHANGED <<metaVars, managerVars, inst, closer, up, events>>

-----------------------------------------------------------------------------
(* The watch loop builds the shards that are missing.                      *)

\* The loop receives a version it has not synced and takes the read lock.
SyncBegin ==
    /\ loop.pc = "wait"
    /\ relayed > loop.last
    /\ loop' = [loop EXCEPT !.pc = "next", !.last = relayed, !.todo = DOMAIN local]
    /\ UNCHANGED <<metaVars, relayed, active, stats, failed, inst, closer, up, events>>

\* Mutant: sync_shards does not look whether the shard exists.
SyncNextAlways ==
    /\ loop.pc = "next"
    /\ \E id \in loop.todo :
          /\ \A other \in loop.todo : id <= other
          /\ loop' = [loop EXCEPT !.todo = @ \ {id}, !.cur = local[id], !.pc = "build"]
    /\ UNCHANGED <<metaVars, relayed, active, stats, failed, inst, closer, up, events>>

\* sync_shards for the next local shard in the order of ids.
SyncNext ==
    /\ loop.pc = "next"
    /\ \E id \in loop.todo :
          /\ \A other \in loop.todo : id <= other
          /\ loop' = [loop EXCEPT !.todo = @ \ {id},
                                  !.cur = IF id \in DOMAIN active THEN NoMeta ELSE local[id],
                                  !.pc = IF id \in DOMAIN active THEN "next" ELSE "build"]
    /\ UNCHANGED <<metaVars, relayed, active, stats, failed, inst, closer, up, events>>

\* The read lock is released.
SyncEnd ==
    /\ loop.pc = "next"
    /\ loop.todo = {}
    /\ loop' = [loop EXCEPT !.pc = "wait"]
    /\ UNCHANGED <<metaVars, relayed, active, stats, failed, inst, closer, up, events>>

\* The functions whose endpoints InvocationNetworkManager::start declares.
StartedFns(meta) ==
    IF ~OnlyPrimary \/ meta.primary = meta.id THEN Functions \ StandbyFns ELSE {}

\* start_invoke_loop and start_async_invoke_loop: both endpoints of a function
\* are declared unless they are there already.
StartLoops(shard, fns) == [shard EXCEPT !.fns = @ \cup fns]

\* Both endpoints of a function are removed and undeclared.
StopLoops(shard, fns) == [shard EXCEPT !.fns = @ \ fns]

\* A fjall database has one owner per directory, and the directory of a shard
\* is named after its id; a shard once started keeps its storage, for the
\* network holds the shard and the shard the network.
StorageFree(id) == Durable => \A i \in DOMAIN inst : inst[i].meta.id # id

NewShard(meta) ==
    [meta |-> meta, net |-> FALSE, fns |-> {}, task |-> "none",
     live |-> {}, inbox |-> <<>>, cancelled |-> FALSE]

\* create_shard_from_metadata: a session, the storage, the replication layer.
BuildShard ==
    /\ loop.pc = "build"
    /\ StorageFree(loop.cur.id)
    /\ Len(inst) < MaxInstances
    /\ inst' = Append(inst, NewShard(loop.cur))
    /\ loop' = [loop EXCEPT !.pc = "init"]
    /\ UNCHANGED <<metaVars, relayed, active, stats, failed, closer, up, events>>

\* initialize: the replication starts and the endpoints of the functions are
\* declared.
InitShard ==
    /\ loop.pc = "init"
    /\ inst' = [inst EXCEPT ![Len(inst)] = StartLoops(@, StartedFns(loop.cur))]
    /\ loop' = [loop EXCEPT !.pc = "network"]
    /\ UNCHANGED <<metaVars, relayed, active, stats, failed, closer, up, events>>

\* Either of them fails: the shard is dropped and the error only counted.
CreateFails ==
    /\ loop.pc \in {"build", "init"}
    /\ \/ Len(failed) < MaxFailures
       \/ loop.pc = "build" /\ ~StorageFree(loop.cur.id)
    /\ inst' = IF loop.pc = "init" THEN SubSeq(inst, 1, Len(inst) - 1) ELSE inst
    /\ stats' = [stats EXCEPT !.failed = @ + 1]
    /\ failed' = Append(failed, loop.cur.id)
    /\ loop' = [loop EXCEPT !.pc = "next", !.cur = NoMeta]
    /\ UNCHANGED <<metaVars, relayed, active, closer, up, events>>

\* Whom a liveliness token of shard id concerns: its collection and partition.
SameGroup(meta, other) == meta.coll = other.coll /\ meta.part = other.part

Subscribed(shard) == shard.task \in {"idle", "update"}

\* Every subscriber of the group receives a put or a delete of a token.
Notify(shardSeq, meta, isUp) ==
    [i \in DOMAIN shardSeq |->
        IF Subscribed(shardSeq[i]) /\ SameGroup(shardSeq[i].meta, meta)
        THEN [shardSeq[i] EXCEPT !.inbox = Append(@, [id |-> meta.id, up |-> isUp])]
        ELSE shardSeq[i]]

\* UnifiedShardNetwork::start: the endpoints that set, get, batch and list.
StartObjectEndpoints(shard) == [shard EXCEPT !.net = TRUE]

\* start_network: the object endpoints, the liveliness token and the task that
\* follows the group. Its error is ignored by create_shard.
StartNetwork ==
    /\ loop.pc = "network"
    /\ LET i == Len(inst)
       IN \/ /\ inst' = [Notify(inst, loop.cur, TRUE) EXCEPT
                             ![i] = [StartObjectEndpoints(@) EXCEPT !.task = "subscribe"]]
             /\ up' = up \cup {loop.cur.id}
             /\ UNCHANGED failed
          \/ /\ Len(failed) < MaxFailures
             /\ failed' = Append(failed, loop.cur.id)
             /\ UNCHANGED <<inst, up>>
    /\ loop' = [loop EXCEPT !.pc = "insert"]
    /\ UNCHANGED <<metaVars, relayed, active, stats, closer, events>>

InsertShard ==
    /\ loop.pc = "insert"
    /\ active' = Overlay(active, [id \in {loop.cur.id} |-> Len(inst)])
    /\ loop' = [loop EXCEPT !.pc = "count"]
    /\ UNCHANGED <<metaVars, relayed, stats, failed, inst, closer, up, events>>

CountShard ==
    /\ loop.pc = "count"
    /\ stats' = [stats EXCEPT !.created = @ + 1, !.active = @ + 1]
    /\ loop' = [loop EXCEPT !.pc = "next", !.cur = NoMeta]
    /\ UNCHANGED <<metaVars, relayed, active, failed, inst, closer, up, events>>

\* The select of the watch loop sees the token. It may also take a pending
\* version first: select picks among the branches that are ready.
LoopExit ==
    /\ loop.pc = "wait"
    /\ closer.pc # "run"
    /\ loop' = [loop EXCEPT !.pc = "exit"]
    /\ UNCHANGED <<metaVars, relayed, active, stats, failed, inst, closer, up, events>>

-----------------------------------------------------------------------------
(* The tasks of a shard and its peers.                                     *)

\* sync_network subscribes to the tokens of the group, without the history:
\* a token declared earlier is not reported.
Subscribe(i) ==
    /\ inst[i].task = "subscribe"
    /\ inst' = [inst EXCEPT ![i].task = "idle"]
    /\ UNCHANGED <<metaVars, relayed, managerVars, closer, up, events>>

\* A replica on another node appears or disappears (external).
PeerChange(id) ==
    /\ events < MaxEvents
    /\ shards[id].owner # Node
    /\ up' = IF id \in up THEN up \ {id} ELSE up \cup {id}
    /\ inst' = Notify(inst, shards[id], id \notin up)
    /\ events' = events + 1
    /\ UNCHANGED <<metaVars, relayed, managerVars, closer>>

\* handle_sample; a sample of the shard itself changes no endpoint.
TakeSample(i) ==
    /\ inst[i].task = "idle"
    /\ inst[i].inbox # <<>>
    /\ LET s == Head(inst[i].inbox)
       IN inst' = [inst EXCEPT ![i].inbox = Tail(@),
                               ![i].live = IF s.up THEN @ \cup {s.id} ELSE @ \ {s.id},
                               ![i].task = IF s.id = inst[i].meta.id THEN "idle" ELSE "update"]
    /\ UNCHANGED <<metaVars, relayed, managerVars, closer, up, events>>

\* The members of the active group of a shard other than itself.
Actives(meta) == (IF ActiveGroup = {} THEN Range(meta.replica) ELSE ActiveGroup) \ {meta.id}

\* A standby function is served while no other member of the group is live.
StandbyTurn(shard) == Actives(shard.meta) \cap shard.live = {}

\* Mutant: the endpoints of a standby function are stopped and never started.
SwitchOnlyStops(shard) == IF StandbyTurn(shard) THEN shard ELSE StopLoops(shard, StandbyFns)

\* on_liveliness_updated.
SwitchStandby(shard) ==
    IF StandbyTurn(shard) THEN StartLoops(shard, StandbyFns) ELSE StopLoops(shard, StandbyFns)

\* The task of the shard has the lock of the invocation manager.
UpdateStandby(i) ==
    /\ inst[i].task = "update"
    /\ inst' = [inst EXCEPT ![i] = [SwitchStandby(@) EXCEPT !.task = "idle"]]
    /\ UNCHANGED <<metaVars, relayed, managerVars, closer, up, events>>

\* The select of the shard's task sees the token of the shard.
TaskExit(i) ==
    /\ inst[i].task = "idle"
    /\ inst[i].cancelled
    /\ inst' = [inst EXCEPT ![i].task = "done"]
    /\ UNCHANGED <<metaVars, relayed, managerVars, closer, up, events>>

-----------------------------------------------------------------------------
(* Shutdown.                                                               *)

CloseBegin ==
    /\ closer.pc = "run"
    /\ closer' = [closer EXCEPT !.pc = "collect"]
    /\ UNCHANGED <<metaVars, relayed, managerVars, inst, up, events>>

CloseCollect ==
    /\ closer.pc = "collect"
    /\ closer' = [pc |-> "clear", todo |-> {active[id] : id \in DOMAIN active}]
    /\ UNCHANGED <<metaVars, relayed, managerVars, inst, up, events>>

CloseClear ==
    /\ closer.pc = "clear"
    /\ active' = [id \in {} |-> 0]
    /\ closer' = [closer EXCEPT !.pc = "stop"]
    /\ UNCHANGED <<metaVars, relayed, loop, stats, failed, inst, up, events>>

\* The close of a shard cancels its token and stops its invocation endpoints;
\* its object endpoints stay: nothing calls the stop of the network.
CloseShard ==
    /\ closer.pc = "stop"
    /\ \E i \in closer.todo :
          /\ closer' = [closer EXCEPT !.todo = @ \ {i}]
          /\ inst' = [inst EXCEPT ![i] = [StopLoops(@, Functions) EXCEPT !.cancelled = TRUE]]
    /\ UNCHANGED <<metaVars, relayed, managerVars, up, events>>

CloseEnd ==
    /\ closer.pc = "stop"
    /\ closer.todo = {}
    /\ stats' = [stats EXCEPT !.active = 0]
    /\ closer' = [closer EXCEPT !.pc = "closed"]
    /\ UNCHANGED <<metaVars, relayed, loop, active, failed, inst, up, events>>

-----------------------------------------------------------------------------
EmptyMap == [x \in {} |-> 0]

ShardsInit ==
    /\ collections = EmptyMap
    /\ shards = EmptyMap
    /\ local = EmptyMap
    /\ \E plan \in Plans : loader = [pc |-> "idle", rest |-> plan]
    /\ version = 0
    /\ relayed = 0
    /\ loop = [pc |-> "wait", last |-> 0, todo |-> {}, cur |-> NoMeta]
    /\ active = EmptyMap
    /\ inst = <<>>
    /\ stats = [created |-> 0, active |-> 0, failed |-> 0]
    /\ failed = <<>>
    /\ closer = [pc |-> "run", todo |-> {}]
    /\ up \in SUBSET Peers
    /\ events = 0

Load == CreateCollection \/ UpdateLocalShards \/ SendVersion
Sync == \/ SyncBegin \/ SyncNext \/ SyncEnd \/ BuildShard \/ InitShard \/ CreateFails
        \/ StartNetwork \/ InsertShard \/ CountShard
ShardTask(i) == Subscribe(i) \/ TakeSample(i) \/ UpdateStandby(i) \/ TaskExit(i)
Close == CloseCollect \/ CloseClear \/ CloseShard \/ CloseEnd

\* A panic of the loader ends the process.
ShardsNext ==
    /\ loader.pc # "panicked"
    /\ \/ Load \/ RelayVersion \/ Sync \/ LoopExit \/ CloseBegin \/ Close
       \/ \E i \in DOMAIN inst : ShardTask(i)
       \/ \E id \in DOMAIN shards : PeerChange(id)

ShardsSpec == ShardsInit /\ [][ShardsNext]_shardVars

\* Every task of the runtime that can run does; nothing makes a peer change,
\* a step fail or a signal arrive.
FairShards ==
    /\ ShardsSpec
    /\ WF_shardVars(Load)
    /\ WF_shardVars(RelayVersion)
    /\ WF_shardVars(Sync)
    /\ WF_shardVars(Close)
    /\ \A i \in 1..MaxInstances : WF_shardVars(i \in DOMAIN inst /\ ShardTask(i))

-----------------------------------------------------------------------------
(* Properties.                                                             *)

Running == closer.pc = "run"

\* get_local_shard: the first shard of the group that is in the map, 0 for none.
GetLocalShard(name, p) ==
    LET group == collections[name][p]
        found == {i \in DOMAIN group : group[i] \in DOMAIN active}
    IN IF found = {} THEN 0 ELSE active[group[CHOOSE i \in found : \A j \in found : i <= j]]

\* The states of the loader, the watch loop, the shards and the shutdown, and
\* the counters within the bounds of the run.
ShardsTypeOK ==
    /\ loader.pc \in {"idle", "update", "send", "panicked"}
    /\ DOMAIN local \subseteq DOMAIN shards
    /\ version \in Nat /\ relayed \in Nat
    /\ loop.pc \in {"wait", "next", "build", "init", "network", "insert", "count", "exit"}
    /\ loop.todo \subseteq DOMAIN local
    /\ DOMAIN active \subseteq DOMAIN local
    /\ \A id \in DOMAIN active : active[id] \in DOMAIN inst
    /\ Len(inst) <= MaxInstances
    /\ \A i \in DOMAIN inst : /\ inst[i].fns \subseteq Functions
                              /\ inst[i].task \in {"none", "subscribe", "idle", "update", "done"}
    /\ closer.pc \in {"run", "collect", "clear", "stop", "closed"}
    /\ closer.todo \subseteq DOMAIN inst
    /\ up \subseteq ShardIds
    /\ events \in 0..MaxEvents

\* The ids given with the next request are used by no shard and by one group only. The
\* code does not check this; ids it generates itself need no such condition.
IdsUnused ==
    (loader.pc = "idle" /\ loader.rest # <<>>) =>
        LET req == Head(loader.rest)
            ids(p) == Range(GroupIds(req, req.assigns, p))
        IN (req.assigns # <<>> /\ Len(req.assigns) >= req.partitions) =>
              \A p \in 1..req.partitions :
                  /\ ids(p) \cap DOMAIN shards = {}
                  /\ \A q \in 1..req.partitions : p # q => ids(p) \cap ids(q) = {}

\* A lookup by collection and partition, as every gRPC handler makes it, never
\* returns a shard of another collection or partition (cluster.rs get_local_shard).
RoutedToOwnShard ==
    \A name \in DOMAIN collections :
        \A p \in DOMAIN collections[name] :
            LET i == GetLocalShard(name, p)
            IN i # 0 => inst[i].meta.coll = name /\ inst[i].meta.part = p

\* However many syncs ran, no shard of the map is built again, a shard was
\* built once, and active_shards of the statistics is the number of shards in
\* the map (manager.rs sync_shards and create_shard).
ActiveCounted ==
    Running =>
        /\ stats.active = Cardinality(DOMAIN active) - (IF loop.pc = "count" THEN 1 ELSE 0)
        /\ loop.pc \in {"build", "init", "network", "insert"} => loop.cur.id \notin DOMAIN active
        /\ \A i, j \in DOMAIN inst : inst[i].meta.id = inst[j].meta.id => i = j

\* A shard that caught up with the samples it was sent believes no member live
\* that has no token, and serves a standby function only while no other member
\* of the active group is live in its view (on_liveliness_updated).
StandbyYields ==
    \A i \in DOMAIN inst :
        (inst[i].task = "idle" /\ inst[i].inbox = <<>> /\ ~inst[i].cancelled) =>
            /\ inst[i].live \subseteq up
            /\ StandbyFns \cap inst[i].fns # {} => StandbyTurn(inst[i])

\* Every shard this node owns ends up in the map, unless its creation failed or
\* the node is closed: no version is lost between the loader, the relay and the
\* watch loop (metadata/mod.rs create_watch, cluster.rs start_watch_stream).
EventuallyServed ==
    \A id \in ShardIds :
        (id \in DOMAIN local) ~> (id \in DOMAIN active \/ id \in Range(failed)
                                   \/ ~Running \/ loader.pc = "panicked")

\* create_collection, which waits for the watch loop's lock, always returns:
\* the loader comes to the end of its collections.
LoaderFinishes == <>(loader.rest = <<>> \/ loader.pc = "panicked")

\* When the members of the group a standby shard has seen live have all gone,
\* it takes their functions over.
StandbyTakesOver ==
    \A i \in 1..MaxInstances :
        LET actives == Actives(inst[i].meta)
        IN (i \in DOMAIN inst /\ actives \cap inst[i].live # {} /\ actives \cap up = {})
           ~> (i \in DOMAIN inst => StandbyFns \subseteq inst[i].fns
                                    \/ actives \cap up # {} \/ ~Running)

\* Every collection the loader is given ends up served: its shards reach the map and
\* the loader does not hang.
CollectionsLoaded == EventuallyServed /\ LoaderFinishes

\* A standby shard serves while the active members are gone and only then, as far as
\* the samples it was sent let it know.
StandbyFollows == []StandbyYields /\ StandbyTakesOver
=============================================================================
