--------------------------- MODULE MstReplication ---------------------------
(***************************************************************************)
(* MST anti-entropy replication of one partition (replication/mst/): every *)
(* replica keeps its records in a store and, next to it, a Merkle search   *)
(* tree of their hashes.  It publishes the tree's page ranges every few    *)
(* seconds; a replica that receives them compares them with its own tree,  *)
(* asks the publisher for the ranges that differ and merges what it gets.  *)
(*                                                                         *)
(* Store and tree are written by separate awaits, in client writes and in  *)
(* merges alike, and no lock covers both: those are separate steps here.   *)
(* A tree is the map from keys to the values whose hashes it holds; the    *)
(* library's diff is external and modelled by what the handler relies on.  *)
(***************************************************************************)
EXTENDS Naturals

CONSTANTS
    Nodes,           \* shard ids, numbers: simple_lww looks at their parity
    Keys,            \* storage keys; numbers, because merges go in key order
    Writers,         \* tasks that run replicate_write
    Home,            \* the replica of each of them
    Merge(_, _, _),  \* MstConfig::merge_function(local, remote, node_id)
    Stamp(_),        \* MstConfig::extract_timestamp(value)
    Durable,         \* TRUE iff the storage backend survives a restart
    MaxWrites,       \* bound: writes and deletes in a behaviour
    MaxDeletes,      \* bound: deletes among them
    MaxFaults        \* bound: lost updates, failed page requests, cancels, restarts

Nil    == 0                  \* no record under this key
Values == 1..MaxWrites       \* a value is the number of the write that made it
Record == Values \cup {Nil}

ASSUME MstAssumption ==
    /\ Nodes \subseteq Nat
    /\ Keys \subseteq Nat
    /\ Keys # {}
    /\ Home \in [Writers -> Nodes]
    /\ Durable \in BOOLEAN
    /\ MaxWrites \in Nat /\ MaxDeletes \in Nat /\ MaxFaults \in Nat
    /\ \A x, y \in Values, n \in Nodes : Merge(x, y, n) \in {x, y}

VARIABLES
    store,     \* each replica's records
    tree,      \* what its Merkle search tree holds
    inbox,     \* inbox[n][m]: the page ranges of m waiting at n's subscriber
    wpc,       \* where each writer is
    wkey,      \* the key it writes
    wval,      \* and the merged value
    spc,       \* where each replica's page-update handler is
    owner,     \* the replica whose pages it handles
    req,       \* the key ranges it requests
    ask,       \*   those not read yet
    got,       \* the records in the response that are not merged yet
    sval,      \* the merged value of the next of them
    tries,     \* page requests that failed
    notified,  \* keys for which a sync event was handed to the dispatcher
    written, deletes, faults,  \* how many there were so far
    open       \* TRUE until the clients go quiet

writer == <<wpc, wkey, wval>>
sync   == <<spc, owner, req, ask, got, sval, tries>>
bounds == <<written, deletes, faults, open>>
vars   == <<store, tree, inbox, writer, sync, notified, bounds>>

NoPages == [k \in Keys |-> Nil]
NoMessage == [k \in {} |-> Nil]

Init ==
    /\ store = [n \in Nodes |-> NoPages]
    /\ tree = [n \in Nodes |-> NoPages]
    /\ inbox = [n \in Nodes |-> [m \in Nodes |-> NoMessage]]
    /\ wpc = [w \in Writers |-> "idle"]
    /\ wkey = [w \in Writers |-> CHOOSE k \in Keys : TRUE]
    /\ wval = [w \in Writers |-> Nil]
    /\ spc = [n \in Nodes |-> "idle"]
    /\ owner = [n \in Nodes |-> n]
    /\ req = [n \in Nodes |-> {}]
    /\ ask = [n \in Nodes |-> {}]
    /\ got = [n \in Nodes |-> NoPages]
    /\ sval = [n \in Nodes |-> Nil]
    /\ tries = [n \in Nodes |-> 0]
    /\ notified = [n \in Nodes |-> {}]
    /\ written = 0 /\ deletes = 0 /\ faults = 0
    /\ open = TRUE

\* The value to store: the merge with the record that is there, if any.
Merged(n, k, v) == IF store[n][k] = Nil THEN v ELSE Merge(store[n][k], v, n)

\* The two configurations of the repository: default_mst_config of
\* shard/builder.rs, which every MST shard uses, and MstConfig::simple_lww.
RemoteWins(local, remote, n) == remote

\* Mutant: the comparison is the wrong way round.
SimpleLwwOldest(local, remote, n) ==
    IF Stamp(remote) < Stamp(local) \/ (Stamp(remote) = Stamp(local) /\ n % 2 = 0)
    THEN remote ELSE local

SimpleLww(local, remote, n) ==
    IF Stamp(remote) > Stamp(local) \/ (Stamp(remote) = Stamp(local) /\ n % 2 = 0)
    THEN remote ELSE local

-----------------------------------------------------------------------------
(* Client writes: set_raw (set_with_return_old_raw is the same), delete_raw. *)

WriteGet(w) ==
    /\ open
    /\ wpc[w] = "idle"
    /\ written + deletes < MaxWrites
    /\ written' = written + 1
    /\ \E k \in Keys :
          /\ wkey' = [wkey EXCEPT ![w] = k]
          /\ wval' = [wval EXCEPT ![w] = Merged(Home[w], k, written + 1)]
    /\ wpc' = [wpc EXCEPT ![w] = "put"]
    /\ UNCHANGED <<store, tree, inbox, sync, notified, deletes, faults, open>>

\* Mutant: the tree is updated although nothing was stored.
WritePutLost(w) ==
    /\ wpc[w] = "put"
    /\ wpc' = [wpc EXCEPT ![w] = "upsert"]
    /\ UNCHANGED <<store, tree, inbox, wkey, wval, sync, notified, bounds>>

WritePut(w) ==
    /\ wpc[w] = "put"
    /\ store' = [store EXCEPT ![Home[w]][wkey[w]] = wval[w]]
    /\ wpc' = [wpc EXCEPT ![w] = "upsert"]
    /\ UNCHANGED <<tree, inbox, wkey, wval, sync, notified, bounds>>

WriteUpsert(w) ==
    /\ wpc[w] = "upsert"
    /\ tree' = [tree EXCEPT ![Home[w]][wkey[w]] = wval[w]]
    /\ wpc' = [wpc EXCEPT ![w] = "idle"]
    /\ wval' = [wval EXCEPT ![w] = Nil]
    /\ UNCHANGED <<store, inbox, wkey, sync, notified, bounds>>

\* The record goes, the tree keeps its hash until the next rebuild.
Delete(w) ==
    /\ open
    /\ wpc[w] = "idle"
    /\ deletes < MaxDeletes /\ written + deletes < MaxWrites
    /\ deletes' = deletes + 1
    /\ \E k \in Keys : store' = [store EXCEPT ![Home[w]][k] = Nil]
    /\ UNCHANGED <<tree, inbox, writer, sync, notified, written, faults, open>>

-----------------------------------------------------------------------------
(* Publication and the page-update handler.                                *)

\* The periodic task, and trigger_sync: the page ranges of a tree that is not
\* empty go to every subscriber.  (The publisher's own skips them.)
Publish(n) ==
    /\ tree[n] # NoPages
    /\ inbox' = [m \in Nodes |-> [inbox[m] EXCEPT ![n] = IF m = n THEN @ ELSE tree[n]]]
    /\ UNCHANGED <<store, tree, writer, sync, notified, bounds>>

\* Keys whose hash in the published pages is not the hash in the local tree.
Differing(n, pages) == {k \in Keys : pages[k] # Nil /\ pages[k] # tree[n][k]}

\* Mutant: no fallback for an empty tree, for which diff finds no ranges.
RangesWithoutFallback(n, pages) ==
    IF pages = tree[n] \/ tree[n] = NoPages THEN {{}}
    ELSE {K \in SUBSET Keys : Differing(n, pages) \subseteq K}

\* The library's diff, and the fallback to all published ranges when the local
\* tree is empty: the ranges cover every key that differs, perhaps more keys,
\* and there are none when the trees are equal.
RangesToRequest(n, pages) ==
    IF pages = tree[n] THEN {{}}
    ELSE {K \in SUBSET Keys : Differing(n, pages) \subseteq K}

\* handle_page_update up to the request; pages that do not differ are skipped.
HandlePages(n, m) ==
    /\ spc[n] = "idle"
    /\ inbox[n][m] # NoMessage
    /\ inbox' = [inbox EXCEPT ![n][m] = NoMessage]
    /\ \E K \in RangesToRequest(n, inbox[n][m]) :
          /\ req' = [req EXCEPT ![n] = K]
          /\ ask' = [ask EXCEPT ![n] = K]
          /\ spc' = [spc EXCEPT ![n] = IF K = {} THEN "idle" ELSE "fetch"]
    /\ owner' = [owner EXCEPT ![n] = m]
    /\ tries' = [tries EXCEPT ![n] = 0]
    /\ UNCHANGED <<store, tree, writer, got, sval, notified, bounds>>

\* The publisher's page-query handler scans its STORE once per requested range.
PageQuery(n) ==
    /\ spc[n] = "fetch"
    /\ \E k \in ask[n] :
          /\ ask' = [ask EXCEPT ![n] = @ \ {k}]
          /\ got' = [got EXCEPT ![n][k] = store[owner[n]][k]]
          /\ spc' = [spc EXCEPT ![n] = IF ask[n] = {k} THEN "merge" ELSE "fetch"]
          /\ req' = [req EXCEPT ![n] = IF ask[n] = {k} THEN {} ELSE @]
    /\ UNCHANGED <<store, tree, inbox, writer, owner, sval, tries, notified, bounds>>

\* A request that fails is sent again, three times in all.
RequestFails(n) ==
    /\ spc[n] = "fetch"
    /\ faults < MaxFaults
    /\ faults' = faults + 1
    /\ tries' = [tries EXCEPT ![n] = @ + 1]
    /\ spc' = [spc EXCEPT ![n] = IF tries[n] + 1 < 3 THEN "fetch" ELSE "idle"]
    /\ ask' = [ask EXCEPT ![n] = IF tries[n] + 1 < 3 THEN req[n] ELSE {}]
    /\ got' = [got EXCEPT ![n] = NoPages]
    /\ UNCHANGED <<store, tree, inbox, writer, owner, req, sval, notified, written, deletes, open>>

\* The next record of the response, in key order.
Pending(n) == {k \in Keys : got[n][k] # Nil}
IsNext(n, k) == k \in Pending(n) /\ \A j \in Pending(n) : k <= j

MergeGet(n) ==
    /\ spc[n] = "merge"
    /\ \/ /\ Pending(n) = {}
          /\ spc' = [spc EXCEPT ![n] = "idle"]
          /\ UNCHANGED sval
       \/ \E k \in Keys :
             /\ IsNext(n, k)
             /\ sval' = [sval EXCEPT ![n] = Merged(n, k, got[n][k])]
             /\ spc' = [spc EXCEPT ![n] = "put"]
    /\ UNCHANGED <<store, tree, inbox, writer, owner, req, ask, got, tries, notified, bounds>>

MergePut(n) ==
    /\ spc[n] = "put"
    /\ \E k \in Keys :
          /\ IsNext(n, k)
          /\ store' = [store EXCEPT ![n][k] = sval[n]]
    /\ spc' = [spc EXCEPT ![n] = "upsert"]
    /\ UNCHANGED <<tree, inbox, writer, owner, req, ask, got, sval, tries, notified, bounds>>

\* The tree follows the store, and the dispatcher is told of an update.
MergeUpsert(n) ==
    /\ spc[n] = "upsert"
    /\ \E k \in Keys :
          /\ IsNext(n, k)
          /\ tree' = [tree EXCEPT ![n][k] = sval[n]]
          /\ notified' = [notified EXCEPT ![n] = @ \cup {k}]
          /\ got' = [got EXCEPT ![n][k] = Nil]
    /\ sval' = [sval EXCEPT ![n] = Nil]
    /\ spc' = [spc EXCEPT ![n] = "merge"]
    /\ UNCHANGED <<store, inbox, writer, owner, req, ask, tries, bounds>>

-----------------------------------------------------------------------------
(* The environment.                                                        *)

\* Zenoh drops a published update at a congested subscriber.
Lose(n, m) ==
    /\ inbox[n][m] # NoMessage
    /\ faults < MaxFaults
    /\ faults' = faults + 1
    /\ inbox' = [inbox EXCEPT ![n][m] = NoMessage]
    /\ UNCHANGED <<store, tree, writer, sync, notified, written, deletes, open>>

\* A client that goes away cancels its request: the task is dropped at the await
\* it has reached, and what it stored stays.
Cancel(w) ==
    /\ wpc[w] # "idle"
    /\ faults < MaxFaults
    /\ faults' = faults + 1
    /\ wpc' = [wpc EXCEPT ![w] = "idle"]
    /\ wval' = [wval EXCEPT ![w] = Nil]
    /\ UNCHANGED <<store, tree, inbox, wkey, sync, notified, written, deletes, open>>

\* A crash; `initialize` rebuilds the tree from the store before networking
\* starts.  The default backends keep nothing across it.
Restart(n) ==
    /\ faults < MaxFaults
    /\ faults' = faults + 1
    /\ store' = [store EXCEPT ![n] = IF Durable THEN @ ELSE NoPages]
    /\ tree' = [tree EXCEPT ![n] = IF Durable THEN store[n] ELSE NoPages]
    /\ inbox' = [inbox EXCEPT ![n] = [m \in Nodes |-> NoMessage]]
    /\ wpc' = [w \in Writers |-> IF Home[w] = n THEN "idle" ELSE wpc[w]]
    /\ wval' = [w \in Writers |-> IF Home[w] = n THEN Nil ELSE wval[w]]
    /\ spc' = [spc EXCEPT ![n] = "idle"]
    /\ req' = [req EXCEPT ![n] = {}]
    /\ ask' = [ask EXCEPT ![n] = {}]
    /\ got' = [got EXCEPT ![n] = NoPages]
    /\ sval' = [sval EXCEPT ![n] = Nil]
    /\ notified' = [notified EXCEPT ![n] = {}]
    /\ UNCHANGED <<wkey, owner, tries, written, deletes, open>>

\* The clients stop; what they began they finish.
Quiesce ==
    /\ open
    /\ open' = FALSE
    /\ UNCHANGED <<store, tree, inbox, writer, sync, notified, written, deletes, faults>>

-----------------------------------------------------------------------------
WriterStep(w) == WritePut(w) \/ WriteUpsert(w)

SyncStep(n) == PageQuery(n) \/ MergeGet(n) \/ MergePut(n) \/ MergeUpsert(n)

Next ==
    \/ \E w \in Writers : WriteGet(w) \/ Delete(w) \/ WriterStep(w) \/ Cancel(w)
    \/ \E n \in Nodes : Publish(n) \/ SyncStep(n) \/ RequestFails(n) \/ Restart(n)
    \/ \E n, m \in Nodes : HandlePages(n, m) \/ Lose(n, m)
    \/ Quiesce

Spec == Init /\ [][Next]_vars

\* The runtime polls every task and the interval timer keeps ticking; a message
\* in the subscriber's FIFO channel is received in its turn, however often
\* others are received before it.
FairSpec ==
    /\ Spec
    /\ WF_vars(Quiesce)
    /\ \A w \in Writers : WF_vars(WriterStep(w))
    /\ \A n \in Nodes : WF_vars(Publish(n)) /\ WF_vars(SyncStep(n))
    /\ \A n, m \in Nodes : SF_vars(HandlePages(n, m))

-----------------------------------------------------------------------------
(* Properties.                                                             *)

Map == [Keys -> Record]

\* Every variable holds a value of its type; in particular a page request is tried
\* three times at most before handle_page_update gives it up.
TypeOK ==
    /\ store \in [Nodes -> Map] /\ tree \in [Nodes -> Map]
    /\ inbox \in [Nodes -> [Nodes -> Map \cup {NoMessage}]]
    /\ wpc \in [Writers -> {"idle", "put", "upsert"}]
    /\ wkey \in [Writers -> Keys] /\ wval \in [Writers -> Record]
    /\ spc \in [Nodes -> {"idle", "fetch", "merge", "put", "upsert"}]
    /\ owner \in [Nodes -> Nodes]
    /\ req \in [Nodes -> SUBSET Keys] /\ ask \in [Nodes -> SUBSET Keys]
    /\ got \in [Nodes -> Map] /\ sval \in [Nodes -> Record] /\ tries \in [Nodes -> 0..3]
    /\ notified \in [Nodes -> SUBSET Keys]
    /\ written \in 0..MaxWrites /\ deletes \in 0..MaxDeletes /\ faults \in 0..MaxFaults
    /\ open \in BOOLEAN

Idle == (\A w \in Writers : wpc[w] = "idle") /\ (\A n \in Nodes : spc[n] = "idle")

\* A replica never advertises a record it cannot serve: as long as nothing is
\* deleted, every key in a tree is in the store beside it, in the middle of
\* concurrent writes and merges and after a restart too.  Otherwise peers would
\* request its pages again and again and receive nothing.
AdvertisedIsServable ==
    deletes = 0 => \A n \in Nodes, k \in Keys : tree[n][k] # Nil => store[n][k] # Nil

\* The clients are quiet, every replica's handlers are idle and its tree holds
\* the hashes of what it stores.
Settled == ~open /\ Idle /\ tree = store

Newest(k, v) ==
    /\ \E n \in Nodes : store[n][k] = v
    /\ \A n \in Nodes : store[n][k] # Nil => Stamp(store[n][k]) <= Stamp(v)

\* Strong eventual consistency of last-writer-wins: from any settled state, with
\* updates still in flight, all replicas come to hold the newest value of every
\* key, and keep it.  (Requests may still fail then, and replicas restart, unless
\* the store is not durable: a restart may lose the only copy.)
HealsToNewest ==
    \A k \in Keys, v \in Values :
        [](Settled /\ Newest(k, v) /\ (Durable \/ faults = MaxFaults)
              => <>[](\A n \in Nodes : store[n][k] = v))

\* Whatever the merge function: a key that some replica advertises, if nothing
\* is ever deleted, comes to every replica, including one that restarted with nothing.
\* (A record whose write was cancelled before the tree was updated does not
\* spread until the replica restarts: only the tree is published.)
KeysSpread ==
    \A k \in Keys :
        [](faults = MaxFaults /\ (\E n \in Nodes : tree[n][k] # Nil)
              => <>[](\A n \in Nodes : store[n][k] # Nil) \/ <>(deletes > 0))

-----------------------------------------------------------------------------
(* What the documents say, and the code does not do.                       *)

\* docs/ODGM_FEATURES.md: "Anti-entropy sync, eventual consistency."  When the
\* clients are quiet the replicas end up with the same records.
Converges == [](Settled => <>[](\A n, m \in Nodes : store[n] = store[m]))
=============================================================================
