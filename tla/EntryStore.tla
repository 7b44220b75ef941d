----------------------------- MODULE EntryStore -----------------------------
(***************************************************************************)
(* The granular entry store of one ODGM shard: how the records of ONE      *)
(* object change while several request handlers run the operations of      *)
(* shard/entry_store_impl.rs, shard/object_shard/core.rs,                  *)
(* shard/object_api.rs and shard/network/batch_setter.rs at the same time. *)
(*                                                                         *)
(* An object is a set of storage records under one key prefix: a metadata  *)
(* record (version and tombstone), an event-configuration record and one   *)
(* record per entry.  No operation spans two objects, and no lock spans    *)
(* two storage calls: every `.await` on the storage is one step here, so   *)
(* the handlers interleave between any two of them.  The replication layer *)
(* is no_replication.rs on the default (skip list) backend: a replicated   *)
(* write is a storage put, and a batch is its puts one after the other.    *)
(***************************************************************************)
EXTENDS Naturals, Sequences, FiniteSets

CONSTANTS
    Clients,      \* request handlers (tokio tasks) working on the object
    Keys,         \* entry keys; numbers, because listing pages are in key order
    Requests,     \* the operations the handlers may be asked for
    MaxOps,       \* bound: operations begun in a behaviour
    MaxAborts,    \* bound: operations that fail or are cancelled midway
    PageLimit,    \* granular_prefetch_limit: entries per listing page
    NoExpect,     \* expected_version = None
    NoMeta,       \* get_metadata returned None
    V2Dispatcher  \* TRUE iff the shard was built with an event dispatcher

Absent == 0   \* no record under this entry key

\* set_entry, delete_entry, batch_delete: entry_store_impl.rs.  mutate:
\* batch_mutate_entries.  upsert: upsert_object (ensure_exists when `puts` is
\* empty and `cfg` FALSE).  delete_object: internal_delete_object.  zbatch: the
\* Zenoh batch-set handler.
Kinds == {"set_entry", "delete_entry", "batch_delete", "mutate", "upsert",
          "delete_object", "zbatch"}

Operation == [kind   : Kinds,
              puts   : SUBSET Keys,
              dels   : SUBSET Keys,
              expect : Nat \cup {NoExpect},
              cfg    : BOOLEAN]

Metadata == [version : Nat, tomb : BOOLEAN]
DefaultMetadata == [version |-> 0, tomb |-> FALSE]

ASSUME EntryStoreAssumption ==
    /\ Keys \subseteq Nat \ {0}
    /\ IsFiniteSet(Keys)
    /\ Requests \subseteq Operation
    /\ \A r \in Requests : r.kind \in {"mutate", "zbatch"} => r.puts \cup r.dels # {}
    /\ \A r \in Requests : r.kind = "set_entry" => r.puts # {}
    /\ \A r \in Requests : r.kind = "delete_entry" => \E k \in Keys : r.dels = {k}
    /\ NoExpect \notin Nat
    /\ NoMeta \notin Metadata
    /\ MaxOps \in Nat
    /\ MaxAborts \in Nat
    /\ PageLimit \in Nat \ {0}
    /\ V2Dispatcher \in BOOLEAN

VARIABLES
    entry,   \* the entry records; a value is the id of the operation that wrote it
    meta,    \* the metadata record, or NoMeta
    config,  \* TRUE iff the event-configuration record exists
    pc,      \* where each handler is
    op,      \* the operation each handler executes
    id,      \* and its number, in the order the operations began
    snap,    \* each handler's `metadata` local
    todo,    \* and its other locals: the keys still to visit,
    hit,     \*   the keys found to exist (or listed, or deleted),
    cur,     \*   the key being deleted, as a singleton,
    stage,   \*   which part of batch_mutate_entries runs,
    seen,    \*   which of the records read by the object delete were there
    events,  \* mutation contexts handed to the dispatcher, oldest first
    issued,  \* operations begun
    aborts,  \* operations that failed or were cancelled
    bumps,   \* history: version increments written by all handlers together
    tombAt   \* history: `issued` when the object last became tombstoned

records == <<entry, meta, config>>
call    == <<op, id>>
marks   == <<cur, stage, seen>>
counts  == <<issued, aborts>>
history == <<bumps, tombAt>>
vars    == <<records, pc, call, snap, todo, hit, marks, events, counts, history>>

Labels == {"idle", "exist", "write", "cas", "meta_get", "meta_put", "notify",
           "del_exist", "remove", "bd_exist", "mut_check", "mut_get",
           "mut_version", "ens_get", "ens_put", "cfg_put", "del_get", "page",
           "recon_meta", "range_scan", "range_meta", "range_cfg", "range_key",
           "tomb_put", "zb_get", "zb_remove", "event_cfg", "pre_cfg"}

\* batch_mutate_entries: its sets (and every other operation), the deletes of a
\* delete-only batch, the increment after them, the deletes that come last.
Stages == {"one", "dels", "bump", "tail"}

\* Found by the range scan of delete_object_granular: the metadata, the event
\* configuration; read before the event is sent: the configuration for it.
Seen == {"meta", "cfg", "event"}

Action == {"create", "update", "delete"}

Present     == {k \in Keys : entry[k] # Absent}
Tombstoned  == meta # NoMeta /\ meta.tomb
MetaOrDefault == IF meta = NoMeta THEN DefaultMetadata ELSE meta
VersionOrZero == IF meta = NoMeta THEN 0 ELSE meta.version

NoOperation == [kind |-> "upsert", puts |-> {}, dels |-> {}, expect |-> NoExpect, cfg |-> FALSE]

\* The keys an operation's first loop visits.
FirstKeys(r) == IF r.puts # {} THEN r.puts ELSE r.dels

Init ==
    /\ entry = [k \in Keys |-> Absent]
    /\ meta = NoMeta
    /\ config = FALSE
    /\ pc = [p \in Clients |-> "idle"]
    /\ op = [p \in Clients |-> NoOperation]
    /\ id = [p \in Clients |-> 0]
    /\ snap = [p \in Clients |-> DefaultMetadata]
    /\ todo = [p \in Clients |-> {}]
    /\ hit = [p \in Clients |-> {}]
    /\ cur = [p \in Clients |-> {}]
    /\ stage = [p \in Clients |-> "one"]
    /\ seen = [p \in Clients |-> {}]
    /\ events = <<>>
    /\ issued = 0
    /\ aborts = 0
    /\ bumps = 0
    /\ tombAt = 0

Goto(p, l) == pc' = [pc EXCEPT ![p] = l]

-----------------------------------------------------------------------------
(* Beginning and ending operations.                                        *)

\* First step of batch_set_entries, which set_object and mutate share; the
\* existence checks are made only for a dispatcher.
FirstWrite == IF V2Dispatcher THEN "exist" ELSE "write"

\* Where an operation starts, given its arguments.
EntryPoint(r) ==
    CASE r.kind = "set_entry"     -> FirstWrite
      [] r.kind = "delete_entry"  -> "del_exist"
      [] r.kind = "batch_delete"  -> "bd_exist"
      [] r.kind = "mutate"        -> IF r.puts # {} THEN "cas"
                                     ELSE IF r.expect # NoExpect THEN "mut_check" ELSE "mut_get"
      [] r.kind = "upsert"        -> IF r.puts = {} THEN "ens_get"
                                     ELSE IF r.cfg THEN "cfg_put" ELSE "cas"
      [] r.kind = "delete_object" -> "del_get"
      [] r.kind = "zbatch"        -> "zb_get"

Begin(p) ==
    /\ pc[p] = "idle"
    /\ issued < MaxOps
    /\ \E r \in Requests :
          /\ op' = [op EXCEPT ![p] = r]
          /\ Goto(p, EntryPoint(r))
          /\ todo' = [todo EXCEPT ![p] = FirstKeys(r)]
          /\ cur' = [cur EXCEPT ![p] = IF r.kind = "delete_entry" THEN r.dels ELSE {}]
          /\ stage' = [stage EXCEPT ![p] = IF r.kind = "mutate" /\ r.puts = {} THEN "dels" ELSE "one"]
    /\ hit' = [hit EXCEPT ![p] = {}]
    /\ seen' = [seen EXCEPT ![p] = {}]
    /\ issued' = issued + 1
    /\ id' = [id EXCEPT ![p] = issued + 1]
    /\ snap' = [snap EXCEPT ![p] = DefaultMetadata]
    /\ UNCHANGED <<records, events, aborts, history>>

\* A storage or replication error is returned with `?`, and a request that its
\* client cancels is dropped at the await it has reached: what was written stays.
Abort(p) ==
    /\ pc[p] # "idle"
    /\ aborts < MaxAborts
    /\ aborts' = aborts + 1
    /\ Goto(p, "idle")
    /\ UNCHANGED <<records, call, snap, todo, hit, marks, events, issued, history>>

\* A finished (sub-)operation returns.  Only batch_mutate_entries has more to do:
\* its deletes after its sets, or the next key of the delete loop it is in.
Return(p) ==
    IF op[p].kind # "mutate" \/ (stage[p] = "one" /\ op[p].dels = {})
    THEN "idle" ELSE "mut_get"

StartsTail(p) == op[p].kind = "mutate" /\ stage[p] \in {"one", "bump"}

Finish(p) ==
    /\ Goto(p, Return(p))
    /\ todo' = [todo EXCEPT ![p] = IF StartsTail(p) THEN op[p].dels ELSE @]
    /\ stage' = [stage EXCEPT ![p] = IF StartsTail(p) THEN "tail" ELSE @]

-----------------------------------------------------------------------------
(* Writing entries: set_entry, batch_set_entries, the Zenoh batch.         *)

\* `existed_before` / `pre_exist`: one existence check per key.
Exist(p) ==
    /\ pc[p] = "exist"
    /\ \E k \in todo[p] :
          LET rest == todo[p] \ {k}
          IN  /\ todo' = [todo EXCEPT ![p] = IF rest = {} THEN op[p].puts ELSE rest]
              /\ hit' = [hit EXCEPT ![p] = @ \cup ({k} \cap Present)]
              /\ Goto(p, IF rest = {} THEN "write" ELSE "exist")
    /\ UNCHANGED <<records, call, snap, marks, events, counts, history>>

\* One put; set_entry then reads the metadata, a batch already holds it.
WriteEntry(p) ==
    /\ pc[p] = "write"
    /\ \E k \in todo[p] :
          LET rest == todo[p] \ {k}
          IN  /\ entry' = [entry EXCEPT ![k] = id[p]]
              /\ todo' = [todo EXCEPT ![p] =
                             IF rest = {} /\ op[p].kind = "zbatch" THEN op[p].dels ELSE rest]
              /\ Goto(p, IF rest # {} THEN "write"
                         ELSE IF op[p].kind = "set_entry" THEN "meta_get"
                         ELSE IF op[p].kind = "zbatch" /\ op[p].dels # {} THEN "zb_remove"
                         ELSE "meta_put")
    /\ UNCHANGED <<meta, config, call, snap, hit, marks, events, counts, history>>

\* Mutant: batch_set_entries forgets to compare the expected version.
CasUnchecked(p) ==
    /\ pc[p] = "cas"
    /\ snap' = [snap EXCEPT ![p] = MetaOrDefault]
    /\ Goto(p, FirstWrite)
    /\ todo' = [todo EXCEPT ![p] = op[p].puts]
    /\ hit' = [hit EXCEPT ![p] = {}]
    /\ UNCHANGED <<records, call, marks, events, counts, history>>

\* batch_set_entries reads the metadata, and a stale expected_version ends it.
CasCheck(p) ==
    /\ pc[p] = "cas"
    /\ snap' = [snap EXCEPT ![p] = MetaOrDefault]
    /\ IF op[p].expect \notin {NoExpect, VersionOrZero}
       THEN Goto(p, "idle")
       ELSE Goto(p, FirstWrite)
    /\ todo' = [todo EXCEPT ![p] = op[p].puts]
    /\ hit' = [hit EXCEPT ![p] = {}]
    /\ UNCHANGED <<records, call, marks, events, counts, history>>

\* The Zenoh batch handler: read the metadata, check the version, then send the
\* puts, the deletes and the metadata as one batch operation.
ZenohBatchGet(p) ==
    /\ pc[p] = "zb_get"
    /\ snap' = [snap EXCEPT ![p] = MetaOrDefault]
    /\ Goto(p, IF op[p].expect \notin {NoExpect, VersionOrZero} THEN "idle"
               ELSE IF op[p].puts # {} THEN "write" ELSE "zb_remove")
    /\ UNCHANGED <<records, call, todo, hit, marks, events, counts, history>>

ZenohBatchRemove(p) ==
    /\ pc[p] = "zb_remove"
    /\ \E k \in todo[p] :
          /\ entry' = [entry EXCEPT ![k] = Absent]
          /\ todo' = [todo EXCEPT ![p] = @ \ {k}]
          /\ Goto(p, IF todo[p] = {k} THEN "meta_put" ELSE "zb_remove")
    /\ UNCHANGED <<meta, config, call, snap, hit, marks, events, counts, history>>

-----------------------------------------------------------------------------
(* The metadata read-modify-write that ends every mutation.                *)

\* Mutant: the `unwrap_or_default` after get_metadata is lost.
MetaGetNoDefault(p) ==
    /\ pc[p] = "meta_get"
    /\ snap' = [snap EXCEPT ![p] = meta]
    /\ Goto(p, "meta_put")
    /\ UNCHANGED <<records, call, todo, hit, marks, events, counts, history>>

MetaGet(p) ==
    /\ pc[p] = "meta_get"
    /\ snap' = [snap EXCEPT ![p] = MetaOrDefault]
    /\ Goto(p, "meta_put")
    /\ UNCHANGED <<records, call, todo, hit, marks, events, counts, history>>

\* increment_version; the Zenoh batch calls it once for its puts and once for
\* its deletes.  (The code saturates at 2^64 - 1, which no run reaches.)
Increments(p) ==
    IF op[p].kind = "zbatch" /\ op[p].puts # {} /\ op[p].dels # {} THEN 2 ELSE 1

PutMeta(m) ==
    /\ meta' = m
    /\ tombAt' = IF m.tomb /\ ~Tombstoned THEN issued ELSE tombAt

\* The context to send is that of a delete_entry, called for itself or by
\* batch_mutate_entries.
DeletesOne(p) ==
    op[p].kind = "delete_entry" \/ (op[p].kind = "mutate" /\ stage[p] # "one")

\* Mutant: the version is incremented by the caller and again when it is stored.
MetaPutTwice(p) ==
    /\ pc[p] = "meta_put"
    /\ PutMeta([version |-> snap[p].version + 2 * Increments(p), tomb |-> snap[p].tomb])
    /\ bumps' = bumps + Increments(p)
    /\ snap' = [snap EXCEPT ![p] = [version |-> @.version + Increments(p), tomb |-> @.tomb]]
    /\ IF V2Dispatcher /\ op[p].kind # "zbatch" /\ stage[p] # "bump"
       THEN Goto(p, IF DeletesOne(p) THEN "notify" ELSE "event_cfg") /\ UNCHANGED <<todo, stage>>
       ELSE Finish(p)
    /\ UNCHANGED <<entry, config, call, hit, cur, seen, events, counts>>

\* With a dispatcher a context is sent next, after a read of the event
\* configuration; delete_entry does not read it.
MetaPut(p) ==
    /\ pc[p] = "meta_put"
    /\ PutMeta([version |-> snap[p].version + Increments(p), tomb |-> snap[p].tomb])
    /\ bumps' = bumps + Increments(p)
    /\ snap' = [snap EXCEPT ![p] = [version |-> @.version + Increments(p), tomb |-> @.tomb]]
    /\ IF V2Dispatcher /\ op[p].kind # "zbatch" /\ stage[p] # "bump"
       THEN Goto(p, IF DeletesOne(p) THEN "notify" ELSE "event_cfg") /\ UNCHANGED <<todo, stage>>
       ELSE Finish(p)
    /\ UNCHANGED <<entry, config, call, hit, cur, seen, events, counts>>

\* The action each changed key is reported with: a put is an update iff the
\* existence check before it found the key.
ChangedKeys(p) ==
    IF op[p].kind \in {"delete_object", "batch_delete"} THEN [k \in hit[p] |-> "delete"]
    ELSE IF DeletesOne(p) THEN [k \in cur[p] |-> "delete"]
    ELSE [k \in op[p].puts |-> IF k \in hit[p] THEN "update" ELSE "create"]

\* The event configuration, read after the metadata is stored.
ConfigGet(p) ==
    /\ pc[p] = "event_cfg"
    /\ seen' = [seen EXCEPT ![p] = IF config THEN {"event"} ELSE {}]
    /\ Goto(p, "notify")
    /\ UNCHANGED <<records, call, snap, todo, hit, cur, stage, events, counts, history>>

\* delete_entry builds its context without with_event_config; the others carry
\* the configuration they read.
EventConfig(p) == "event" \in seen[p] /\ ~DeletesOne(p)

\* Hand the context to the dispatcher (version_before is always one less than
\* version_after).
Notify(p) ==
    /\ pc[p] = "notify"
    /\ events' = Append(events,
          [keys |-> ChangedKeys(p), after |-> snap[p].version, cfg |-> EventConfig(p)])
    /\ Finish(p)
    /\ UNCHANGED <<records, call, snap, hit, cur, seen, counts, history>>

-----------------------------------------------------------------------------
(* Deleting entries: delete_entry, batch_delete_entries.                   *)

\* Mutant: delete_entry goes on although the key is absent.
DeleteExistUnchecked(p) ==
    /\ pc[p] = "del_exist"
    /\ Goto(p, "remove")
    /\ UNCHANGED <<records, call, snap, todo, hit, marks, events, counts, history>>

\* delete_entry of an absent key returns Ok at once.
DeleteExist(p) ==
    /\ pc[p] = "del_exist"
    /\ IF cur[p] \cap Present = {}
       THEN Finish(p)
       ELSE Goto(p, "remove") /\ UNCHANGED <<todo, stage>>
    /\ UNCHANGED <<records, call, snap, hit, cur, seen, events, counts, history>>

\* The loop of batch_delete_entries looks for the next key that exists; one
\* metadata update follows if any key was deleted.
BatchDeleteExist(p) ==
    /\ pc[p] = "bd_exist"
    /\ \/ /\ todo[p] = {}
          /\ Goto(p, IF hit[p] = {} THEN "idle" ELSE "meta_get")
          /\ UNCHANGED <<todo, cur>>
       \/ \E k \in todo[p] :
             /\ todo' = [todo EXCEPT ![p] = @ \ {k}]
             /\ cur' = [cur EXCEPT ![p] = {k}]
             /\ Goto(p, IF k \in Present THEN "remove" ELSE "bd_exist")
    /\ UNCHANGED <<records, call, snap, hit, stage, seen, events, counts, history>>

RemoveEntry(p) ==
    /\ pc[p] = "remove"
    /\ entry' = [k \in Keys |-> IF k \in cur[p] THEN Absent ELSE entry[k]]
    /\ IF op[p].kind = "batch_delete"
       THEN Goto(p, "bd_exist") /\ hit' = [hit EXCEPT ![p] = @ \cup cur[p]]
       ELSE Goto(p, "meta_get") /\ UNCHANGED hit
    /\ UNCHANGED <<meta, config, call, snap, todo, marks, events, counts, history>>

-----------------------------------------------------------------------------
(* batch_mutate_entries: a CAS for the sets (above) or for the deletes     *)
(* alone, then one delete_entry per key that get_entry finds.              *)

MutateCheck(p) ==
    /\ pc[p] = "mut_check"
    /\ Goto(p, IF op[p].expect # VersionOrZero THEN "idle" ELSE "mut_get")
    /\ UNCHANGED <<records, call, snap, todo, hit, marks, events, counts, history>>

\* The delete loops.  A delete-only batch that found a key adds an increment of
\* its own (stage "bump"); one that found none reads the version it returns.
MutateGet(p) ==
    /\ pc[p] = "mut_get"
    /\ \/ /\ todo[p] = {}
          /\ Goto(p, IF stage[p] = "tail" THEN "idle"
                     ELSE IF hit[p] # {} THEN "meta_get" ELSE "mut_version")
          /\ stage' = [stage EXCEPT ![p] = IF @ # "tail" /\ hit[p] # {} THEN "bump" ELSE @]
          /\ UNCHANGED <<todo, hit, cur>>
       \/ \E k \in todo[p] :
             /\ Goto(p, IF k \in Present THEN "del_exist" ELSE "mut_get")
             /\ todo' = [todo EXCEPT ![p] = @ \ {k}]
             /\ cur' = [cur EXCEPT ![p] = {k}]
             /\ hit' = [hit EXCEPT ![p] = @ \cup ({k} \cap Present)]
             /\ UNCHANGED stage
    /\ UNCHANGED <<records, call, snap, seen, events, counts, history>>

\* Mutant: the second delete loop is entered without the version check, and
\* without marking that it is the second.
MutateVersionLoops(p) ==
    /\ pc[p] = "mut_version"
    /\ Goto(p, "mut_get")
    /\ todo' = [todo EXCEPT ![p] = op[p].dels]
    /\ UNCHANGED <<records, call, snap, hit, marks, events, counts, history>>

\* Nothing was found: the second delete loop runs only when the version is > 0.
MutateVersion(p) ==
    /\ pc[p] = "mut_version"
    /\ Goto(p, IF VersionOrZero > 0 THEN "mut_get" ELSE "idle")
    /\ todo' = [todo EXCEPT ![p] = op[p].dels]
    /\ stage' = [stage EXCEPT ![p] = "tail"]
    /\ UNCHANGED <<records, call, snap, hit, cur, seen, events, counts, history>>

-----------------------------------------------------------------------------
(* upsert_object and ensure_metadata_exists.                               *)

\* Mutant: a tombstoned record does not count as existing.
EnsureGetLive(p) ==
    /\ pc[p] = "ens_get"
    /\ Goto(p, IF meta = NoMeta \/ Tombstoned THEN "ens_put"
               ELSE IF op[p].cfg THEN "cfg_put" ELSE "idle")
    /\ UNCHANGED <<records, call, snap, todo, hit, marks, events, counts, history>>

\* Any metadata record, tombstoned or not, is left alone.
EnsureGet(p) ==
    /\ pc[p] = "ens_get"
    /\ Goto(p, IF meta = NoMeta THEN "ens_put"
               ELSE IF op[p].cfg THEN "cfg_put" ELSE "idle")
    /\ UNCHANGED <<records, call, snap, todo, hit, marks, events, counts, history>>

\* The replicated write of default metadata, whatever is there by now.
EnsurePut(p) ==
    /\ pc[p] = "ens_put"
    /\ PutMeta(DefaultMetadata)
    /\ Goto(p, IF op[p].cfg THEN "cfg_put" ELSE "idle")
    /\ UNCHANGED <<entry, config, call, snap, todo, hit, marks, events, counts, bumps>>

\* internal_set_object stores the event configuration before the entries; with
\* no entries batch_set_entries only reads the version.
ConfigPut(p) ==
    /\ pc[p] = "cfg_put"
    /\ config' = TRUE
    /\ Goto(p, IF op[p].puts = {} THEN "idle" ELSE "cas")
    /\ UNCHANGED <<entry, meta, call, snap, todo, hit, marks, events, counts, history>>

-----------------------------------------------------------------------------
(* internal_delete_object (delete_object is the same code).                *)

\* An absent or tombstoned object: Ok, nothing to do.
DeleteGet(p) ==
    /\ pc[p] = "del_get"
    /\ IF meta = NoMeta \/ Tombstoned
       THEN Goto(p, "idle") /\ UNCHANGED snap
       ELSE Goto(p, IF V2Dispatcher THEN "page" ELSE "range_scan")
            /\ snap' = [snap EXCEPT ![p] = meta]
    /\ UNCHANGED <<records, call, todo, hit, marks, events, counts, history>>

\* list_entries: of the entries after the cursor, which is the last key listed,
\* the first PageLimit.
Unlisted(p) == {k \in Present : \A j \in hit[p] : j < k}
PageOf(S)   == {k \in S : Cardinality({j \in S : j < k}) < PageLimit}

\* reconstruct_object_from_entries: list page after page, each its own scan,
\* until no record follows the page.
ListPage(p) ==
    /\ pc[p] = "page"
    /\ hit' = [hit EXCEPT ![p] = @ \cup PageOf(Unlisted(p))]
    /\ Goto(p, IF Unlisted(p) \subseteq PageOf(Unlisted(p)) THEN "recon_meta" ELSE "page")
    /\ UNCHANGED <<records, call, snap, todo, marks, events, counts, history>>

\* Its last step that matters here: a tombstone hides the entries.
ReconMeta(p) ==
    /\ pc[p] = "recon_meta"
    /\ hit' = [hit EXCEPT ![p] = IF Tombstoned THEN {} ELSE @]
    /\ Goto(p, "pre_cfg")
    /\ UNCHANGED <<records, call, snap, todo, marks, events, counts, history>>

\* The event configuration, read before anything is deleted.
PredeleteConfig(p) ==
    /\ pc[p] = "pre_cfg"
    /\ seen' = [seen EXCEPT ![p] = IF config THEN {"event"} ELSE {}]
    /\ Goto(p, "range_scan")
    /\ UNCHANGED <<records, call, snap, todo, hit, cur, stage, events, counts, history>>

\* delete_range of the skip-list backend: collect the records in the range, then
\* remove them one at a time in key order: metadata, configuration, entries.
RangeScan(p) ==
    /\ pc[p] = "range_scan"
    /\ todo' = [todo EXCEPT ![p] = Present]
    /\ seen' = [seen EXCEPT ![p] = @ \cup (IF meta # NoMeta THEN {"meta"} ELSE {})
                                    \cup (IF config THEN {"cfg"} ELSE {})]
    /\ Goto(p, "range_meta")
    /\ UNCHANGED <<records, call, snap, hit, cur, stage, events, counts, history>>

RangeMeta(p) ==
    /\ pc[p] = "range_meta"
    /\ meta' = IF "meta" \in seen[p] THEN NoMeta ELSE meta
    /\ Goto(p, "range_cfg")
    /\ UNCHANGED <<entry, config, call, snap, todo, hit, marks, events, counts, history>>

RangeConfig(p) ==
    /\ pc[p] = "range_cfg"
    /\ config' = (config /\ "cfg" \notin seen[p])
    /\ Goto(p, IF todo[p] = {} THEN "tomb_put" ELSE "range_key")
    /\ UNCHANGED <<entry, meta, call, snap, todo, hit, marks, events, counts, history>>

RangeKey(p) ==
    /\ pc[p] = "range_key"
    /\ \E k \in todo[p] :
          /\ \A j \in todo[p] : k <= j
          /\ entry' = [entry EXCEPT ![k] = Absent]
          /\ todo' = [todo EXCEPT ![p] = @ \ {k}]
          /\ Goto(p, IF todo[p] = {k} THEN "tomb_put" ELSE "range_key")
    /\ UNCHANGED <<meta, config, call, snap, hit, marks, events, counts, history>>

\* Mutant: the delete leaves no tombstone behind.
TombSkipped(p) ==
    /\ pc[p] = "tomb_put"
    /\ Goto(p, IF V2Dispatcher /\ hit[p] # {} THEN "notify" ELSE "idle")
    /\ UNCHANGED <<records, call, snap, todo, hit, marks, events, counts, history>>

\* The metadata read before the deletion comes back, incremented and tombstoned.
TombPut(p) ==
    /\ pc[p] = "tomb_put"
    /\ PutMeta([version |-> snap[p].version + 1, tomb |-> TRUE])
    /\ bumps' = bumps + 1
    /\ snap' = [snap EXCEPT ![p] = [version |-> @.version + 1, tomb |-> TRUE]]
    /\ Goto(p, IF V2Dispatcher /\ hit[p] # {} THEN "notify" ELSE "idle")
    /\ UNCHANGED <<entry, config, call, todo, hit, marks, events, counts>>

-----------------------------------------------------------------------------
\* A step of the handler's own code.
Step(p) ==
    \/ Exist(p)
    \/ WriteEntry(p)
    \/ CasCheck(p)
    \/ ZenohBatchGet(p)
    \/ ZenohBatchRemove(p)
    \/ MetaGet(p)
    \/ MetaPut(p)
    \/ ConfigGet(p)
    \/ Notify(p)
    \/ DeleteExist(p)
    \/ BatchDeleteExist(p)
    \/ RemoveEntry(p)
    \/ MutateCheck(p)
    \/ MutateGet(p)
    \/ MutateVersion(p)
    \/ EnsureGet(p)
    \/ EnsurePut(p)
    \/ ConfigPut(p)
    \/ DeleteGet(p)
    \/ ListPage(p)
    \/ ReconMeta(p)
    \/ PredeleteConfig(p)
    \/ RangeScan(p)
    \/ RangeMeta(p)
    \/ RangeConfig(p)
    \/ RangeKey(p)
    \/ TombPut(p)

Next == \E p \in Clients : Begin(p) \/ Step(p) \/ Abort(p)

Spec == Init /\ [][Next]_vars

\* Tokio polls every ready task: a handler that has begun keeps running.
FairSpec == Spec /\ \A p \in Clients : WF_vars(Step(p))

-----------------------------------------------------------------------------
(* Properties.                                                             *)

Context == [keys : UNION {[K -> Action] : K \in SUBSET Keys},
            after : Nat, cfg : BOOLEAN]

\* Every record and every local holds a value of its type.
TypeOK ==
    /\ entry \in [Keys -> Nat]
    /\ meta \in Metadata \cup {NoMeta}
    /\ config \in BOOLEAN
    /\ pc \in [Clients -> Labels]
    /\ op \in [Clients -> Operation]
    /\ id \in [Clients -> Nat]
    /\ snap \in [Clients -> Metadata]
    /\ todo \in [Clients -> SUBSET Keys]
    /\ hit \in [Clients -> SUBSET Keys]
    /\ cur \in [Clients -> SUBSET Keys]
    /\ stage \in [Clients -> Stages]
    /\ seen \in [Clients -> SUBSET Seen]
    /\ events \in Seq(Context)
    /\ issued \in Nat /\ aborts \in Nat /\ bumps \in Nat /\ tombAt \in Nat

Quiet == \A p \in Clients : pc[p] = "idle"

\* An operation begun after the object became tombstoned never brings it back:
\* only one that was already running then (and so may hold metadata read before)
\* can replace or remove the tombstone.  This is what the fast path of
\* ensure_metadata_exists, the early return of internal_delete_object and the
\* copy of the tombstone flag through every read-modify-write are for.
NoLateResurrection ==
    [][Tombstoned /\ ~Tombstoned' =>
          \E p \in Clients : pc'[p] # pc[p] /\ id[p] <= tombAt]_vars

\* When the handlers have finished, and none of them failed midway, an object
\* with entries has a metadata record, however its deletes, which remove that
\* record, were interleaved with its writes: it can be listed and counted.
NoOrphanEntries == Quiet /\ aborts = 0 /\ Present # {} => meta # NoMeta

\* The version never claims more mutations than were made: no interleaving of
\* stale metadata writes, retries or aborts puts it ahead of the number of
\* increments written, in the record or in a handler's copy of it.
VersionNeverAhead ==
    /\ meta # NoMeta => meta.version <= bumps
    /\ \A p \in Clients : snap[p].version <= bumps

\* Every operation that has begun returns.
EveryOperationReturns == \A p \in Clients : pc[p] # "idle" ~> pc[p] = "idle"

-----------------------------------------------------------------------------
(* What a comment says of overlapping requests, and the code does not do:  *)
(* there is no lock around the read-modify-write of the metadata.          *)

\* granular_trait.rs on batch_set_entries: "Expected_version implements optimistic
\* concurrency control (CAS)".  Of several batches that expect the same version
\* one succeeds: no two contexts of such batches lead to the same version.
CasExclusive ==
    \A i, j \in 1..Len(events) : i # j => events[i].after # events[j].after
=============================================================================
