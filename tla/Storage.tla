------------------------------ MODULE Storage ------------------------------
(***************************************************************************)
(* The key-value storage of the data plane (oprc-dp-storage/src): the      *)
(* memory backend (a BTreeMap under a tokio RwLock), the skiplist backend  *)
(* (a lock-free SkipMap, the one `StorageBackendType::Memory` opens), fjall*)
(* with and without its single-writer transactions, redb, and AnyStorage,  *)
(* which delegates to the skiplist or to fjall but has its own compare and *)
(* swap, increment, snapshot and restore.                                  *)
(*                                                                         *)
(* A request is a sequence of calls; a call takes as many steps as the     *)
(* backend has points at which another task may run.  Reads have no effect *)
(* and are not steps: what scans, pages and the scan of a transaction      *)
(* return are operators on a map.  A value is the number of the request that wrote*)
(* it, negated when the value is empty; the counter key holds an i64.      *)
(***************************************************************************)
EXTENDS Integers, Sequences, FiniteSets

CONSTANTS
    Clients,    \* tasks that use the storage
    Keys,       \* ordinary keys
    Counter,    \* the key `increment` works on
    KeyOrder,   \* all keys in the order of the map
    Backends,   \* the backends that may be opened
    EmptyIn,    \* bound: the backends into which empty values are put
    MaxReqs,    \* bound: requests in a behaviour
    MaxTx,      \* bound: a transaction is begun while fewer than these have been
    MaxTxOps,   \* bound: operations of a transaction
    MaxByte,    \* the largest byte of a raw key (u8::MAX)
    MaxLen,     \* bound: the length of a raw key
    None        \* no client, no snapshot

SkipList == {"skiplist", "any_skiplist"}
Fjall    == {"fjall", "any_fjall"}
Any      == {"any_skiplist", "any_fjall"}
\* The backends whose write transaction holds the database's only writer.
SingleWriter == {"fjall_tx", "redb"}

AllKeys == Keys \cup {Counter}
Wrap == 256     \* entries_count is unsigned: u64 in the code
Absent == 0

ASSUME StorageAssumption ==
    /\ Backends \subseteq {"memory"} \cup SkipList \cup Fjall \cup SingleWriter
    /\ Counter \notin Keys
    /\ KeyOrder \in Seq(AllKeys)
    /\ \A k \in AllKeys : \E i \in DOMAIN KeyOrder : KeyOrder[i] = k
    /\ MaxReqs \in Nat /\ MaxTx \in Nat /\ MaxTxOps \in Nat /\ MaxByte \in Nat /\ MaxLen \in Nat
    /\ None \notin Clients

VARIABLES
    backend,    \* the backend that was opened
    data,       \* the map
    entries,    \* AtomicStats::entries_count
    writer,     \* the client that holds the write lock across steps, or None
    task,       \* the request each client runs
    snap,       \* the last snapshot taken, or None
    reqs,       \* number of requests so far
    status,     \* what became of each request's transaction
    incs,       \* increments the storage has acknowledged
    used,       \* which operations that bypass the counters were requested so far
    overlap     \* two requests have been under way at once

vars == <<backend, data, entries, writer, task, snap, reqs, status, incs, used, overlap>>

Ids == 1 .. MaxReqs

NoTask == [pc |-> "idle", op |-> "none", id |-> 0, calls |-> <<>>, buf |-> <<>>, todo |-> <<>>,
         delta |-> 0, copy |-> <<>>, alone |-> TRUE]

Call(f, k, v, e) == [f |-> f, k |-> k, v |-> v, e |-> e]
Plain(f) == Call(f, Counter, Absent, Absent)

\* AnyStorage::open, and the constructors of the backends: an empty map.
Init ==
    /\ backend \in Backends
    /\ data = [k \in AllKeys |-> Absent]
    /\ entries = 0
    /\ writer = None
    /\ task = [c \in Clients |-> NoTask]
    /\ snap = None
    /\ reqs = 0
    /\ status = [i \in Ids |-> "plain"]
    /\ incs = 0
    /\ used = {}
    /\ overlap = FALSE

Present == {k \in AllKeys : data[k] # Absent}
Ordered(S) ==
    LET upTo[i \in 0 .. Len(KeyOrder)] ==
            IF i = 0 THEN <<>>
            ELSE IF KeyOrder[i] \in S THEN Append(upTo[i - 1], KeyOrder[i]) ELSE upTo[i - 1]
    IN  upTo[Len(KeyOrder)]

----------------------------------------------------------------------------
(* Prefix scans on raw keys                                                *)

RawKeys == UNION {[1 .. n -> 0 .. MaxByte] : n \in 0 .. MaxLen}

\* The exclusive upper bound of a scan: the last byte plus one, or one more
\* byte when it cannot be incremented.
PrefixEnd(p) ==
    IF p[Len(p)] = MaxByte THEN Append(p, 0) ELSE [p EXCEPT ![Len(p)] = @ + 1]

\* The order of StorageValue: bytes, left to right, a prefix first.
Less(s, t) ==
    \E i \in 1 .. Len(t) :
        /\ i <= Len(s) + 1
        /\ \A j \in 1 .. i - 1 : s[j] = t[j]
        /\ i <= Len(s) => s[i] < t[i]

IsPrefixOf(p, key) == Len(p) <= Len(key) /\ SubSeq(key, 1, Len(p)) = p

\* Fjall scans prefixes itself; the others scan a range.
Scanned(p, key) ==
    IF backend \in Fjall \cup {"fjall_tx"} THEN IsPrefixOf(p, key)
    ELSE ~ Less(key, p) /\ (p = <<>> \/ Less(key, PrefixEnd(p)))

----------------------------------------------------------------------------
(* Scans of a map m: the keys at the positions lo .. hi - 1                *)

Pos(k) == CHOOSE i \in DOMAIN KeyOrder : KeyOrder[i] = k
Spans == {r \in (1 .. Len(KeyOrder) + 1) \X (1 .. Len(KeyOrder) + 1) : r[1] <= r[2]}

\* scan_range with an included start and an excluded end
ScanRange(m, lo, hi) ==
    SelectSeq(KeyOrder, LAMBDA k : m[k] # Absent /\ lo <= Pos(k) /\ Pos(k) < hi)

\* scan_range_paginated: the loop stops at the first key beyond the limit and
\* returns it as the start of the next page (hi when there is none).
Page(m, lo, hi, limit) ==
    LET all == ScanRange(m, lo, hi)
        over == {i \in DOMAIN all : i > limit}
    IN  IF over = {} THEN [keys |-> all, next |-> hi]
        ELSE [keys |-> SubSeq(all, 1, limit), next |-> Pos(all[limit + 1])]

\* AnyStorage collects the whole range and truncates it.
AnyPage(m, lo, hi, limit) ==
    LET all == ScanRange(m, lo, hi)
    IN  [keys |-> SubSeq(all, 1, IF Len(all) < limit THEN Len(all) ELSE limit),
         next |-> IF Len(all) > limit THEN Pos(all[limit + 1]) ELSE hi]

\* The pages of a caller that follows the returned key until there is none.
Pages(m, lo, hi, limit) ==
    LET page(from) == IF backend \in Any THEN AnyPage(m, from, hi, limit)
                      ELSE Page(m, from, hi, limit)
        rest[from \in 1 .. hi] ==
            IF from = hi THEN <<>>
            ELSE page(from).keys \o (IF page(from).next <= from THEN <<"again">>
                                     ELSE rest[page(from).next])
    IN  rest[lo]

Applied(f, buf) ==
    [k \in AllKeys |->
        LET mine == {i \in DOMAIN buf : buf[i].k = k}
        IN  IF mine = {} THEN f[k]
            ELSE buf[CHOOSE i \in mine : \A j \in mine : j <= i].v]

\* What a transaction that buffered buf reads from the map f: the newest of
\* its own operations or the map.  Fjall's plain transaction and the
\* skiplist's read the map only.
TxGet(f, buf, k) ==
    IF backend \in Fjall \cup SkipList THEN f[k] ELSE Applied(f, buf)[k]

\* Mutant: the operations of the transaction are not looked up for stored keys.
MemoryTxScanStale(f, buf, lo, hi) ==
    LET added == {k \in AllKeys : \E i \in DOMAIN buf : buf[i].k = k /\ buf[i].v # Absent}
    IN  [k \in {k \in AllKeys : lo <= Pos(k) /\ Pos(k) < hi /\ (f[k] # Absent \/ k \in added)} |->
            IF f[k] # Absent THEN f[k] ELSE Applied(f, buf)[k]]

\* Memory: stored keys with the newest operation on each, then the FIRST put
\* of every key that is not among them yet.
MemoryTxScan(f, buf, lo, hi) ==
    LET puts(k) == {i \in DOMAIN buf : buf[i].k = k /\ buf[i].v # Absent}
        stored(k) == f[k] # Absent /\ Applied(f, buf)[k] # Absent
    IN  [k \in {k \in AllKeys : /\ lo <= Pos(k) /\ Pos(k) < hi
                               /\ (stored(k) \/ puts(k) # {})} |->
            IF stored(k) THEN Applied(f, buf)[k]
            ELSE buf[CHOOSE i \in puts(k) : \A j \in puts(k) : i <= j].v]

\* Fjall: the end is included; the plain transaction scans the keyspace, the
\* single-writer one its own view.
FjallTxScan(f, lo, hi) ==
    LET found == {k \in AllKeys : lo <= Pos(k) /\ Pos(k) <= hi /\ f[k] # Absent}
    IN  [k \in found |-> f[k]]
FjallSingleTxScan(f, buf, lo, hi) == FjallTxScan(Applied(f, buf), lo, hi)

TxScan(f, buf, lo, hi) ==
    CASE backend = "memory" -> MemoryTxScan(f, buf, lo, hi)
      [] backend = "fjall_tx" -> FjallSingleTxScan(f, buf, lo, hi)
      [] OTHER -> FjallTxScan(f, lo, hi)

----------------------------------------------------------------------------
(* Steps of a call                                                         *)

Current(c) == Head(task[c].calls)
Ready(c, f) == task[c].pc = "run" /\ Current(c).f = f

After(t) ==
    IF Len(t.calls) = 1 THEN NoTask
    ELSE [t EXCEPT !.pc = "run", !.calls = Tail(@), !.todo = <<>>, !.delta = 0]
Return(c) == task' = [task EXCEPT ![c] = After(@)]

\* What is left of a call is to add n to entries_count.
Record(c, n) ==
    IF n = 0 THEN Return(c) ELSE task' = [task EXCEPT ![c].pc = "stats", ![c].delta = n]

\* Another client's lock stops every writer of a backend that has one.
Unlocked(c) == writer \in {None, c}

New(k) == IF data[k] = Absent THEN 1 ELSE 0
Set(k, v) == data' = [data EXCEPT ![k] = v]
CountInc(k) == incs' = IF k = Counter THEN incs + 1 ELSE incs
Quiet == UNCHANGED <<backend, snap, reqs, status, used, overlap>>

\* record_put, record_put_with_old_size, record_delete, record_delete_batch
RecordStats(c) ==
    /\ task[c].pc = "stats"
    /\ entries' = (entries + task[c].delta) % Wrap
    /\ Return(c)
    /\ UNCHANGED <<data, writer, incs>> /\ Quiet

\* put, put_with_return and put_with_ttl
MemoryPut(c) ==
    /\ backend = "memory" /\ Ready(c, "put") /\ Unlocked(c)
    /\ LET k == Current(c).k IN Set(k, Current(c).v) /\ Record(c, New(k)) /\ CountInc(k)
    /\ UNCHANGED <<entries, writer>> /\ Quiet

RedbPut(c) ==
    /\ backend = "redb" /\ Ready(c, "put") /\ Unlocked(c)
    /\ Set(Current(c).k, Current(c).v) /\ Return(c)
    /\ UNCHANGED <<entries, writer, incs>> /\ Quiet

\* The others look whether the key exists before they insert.
LookThenInsert(c) ==
    /\ Ready(c, "put")
    /\ task' = [task EXCEPT ![c].pc = "insert", ![c].delta = New(Current(c).k)]
    /\ UNCHANGED <<data, entries, writer, incs>> /\ Quiet

SkipListPut(c) == backend \in SkipList /\ LookThenInsert(c)
FjallPut(c) == backend \in Fjall /\ LookThenInsert(c)
FjallTxPut(c) == backend = "fjall_tx" /\ LookThenInsert(c)

Insert(c) ==
    /\ task[c].pc = "insert" /\ Unlocked(c)
    /\ Set(Current(c).k, Current(c).v) /\ CountInc(Current(c).k)
    /\ Record(c, task[c].delta)
    /\ UNCHANGED <<entries, writer>> /\ Quiet

\* delete
MemoryDelete(c) ==
    /\ backend = "memory" /\ Ready(c, "delete") /\ Unlocked(c)
    /\ LET k == Current(c).k IN Set(k, Absent) /\ Record(c, New(k) - 1)
    /\ UNCHANGED <<entries, writer, incs>> /\ Quiet

RedbDelete(c) ==
    /\ backend = "redb" /\ Ready(c, "delete") /\ Unlocked(c)
    /\ Set(Current(c).k, Absent) /\ Return(c)
    /\ UNCHANGED <<entries, writer, incs>> /\ Quiet

SkipListDelete(c) ==
    /\ backend \in SkipList /\ Ready(c, "delete")
    /\ IF data[Current(c).k] = Absent THEN Return(c)
       ELSE task' = [task EXCEPT ![c].pc = "remove", ![c].delta = -1]
    /\ UNCHANGED <<data, entries, writer, incs>> /\ Quiet

\* An empty value has size 0 and is not counted as deleted.
LookThenRemove(c) ==
    /\ Ready(c, "delete")
    /\ task' = [task EXCEPT ![c].pc = "remove",
                            ![c].delta = IF data[Current(c).k] > 0 THEN -1 ELSE 0]
    /\ UNCHANGED <<data, entries, writer, incs>> /\ Quiet

FjallDelete(c) == backend \in Fjall /\ LookThenRemove(c)
FjallTxDelete(c) == backend = "fjall_tx" /\ LookThenRemove(c)

Remove(c) ==
    /\ task[c].pc = "remove" /\ Unlocked(c)
    /\ Set(Current(c).k, Absent)
    /\ Record(c, task[c].delta)
    /\ UNCHANGED <<entries, writer, incs>> /\ Quiet

\* delete_range over the ordinary keys, `all` when it is the whole map
InRange(c) == IF Current(c).f = "range" THEN Present \cap Keys ELSE Present
Without(S) == data' = [k \in AllKeys |-> IF k \in S THEN Absent ELSE data[k]]
DeletesRange(c) == Ready(c, "range") \/ Ready(c, "range_all")

MemoryDeleteRange(c) ==
    /\ backend = "memory" /\ DeletesRange(c) /\ Unlocked(c)
    /\ Without(InRange(c)) /\ Record(c, - Cardinality(InRange(c)))
    /\ UNCHANGED <<entries, writer, incs>> /\ Quiet

RedbDeleteRange(c) ==
    /\ backend = "redb" /\ DeletesRange(c) /\ Unlocked(c)
    /\ Without(InRange(c)) /\ Return(c)
    /\ UNCHANGED <<entries, writer, incs>> /\ Quiet

\* The keys are collected, then removed: one by one, or in one transaction.
Collect(c, pc) ==
    /\ DeletesRange(c)
    /\ IF InRange(c) = {} THEN Return(c)
       ELSE task' = [task EXCEPT ![c].pc = pc, ![c].todo = Ordered(InRange(c)),
                                 ![c].delta = - Cardinality(InRange(c))]
    /\ UNCHANGED <<data, entries, writer, incs>> /\ Quiet

SkipListDeleteRange(c) == backend \in SkipList /\ Collect(c, "sweep")
FjallDeleteRange(c) == backend \in Fjall /\ Collect(c, "sweep")
FjallTxDeleteRange(c) == backend = "fjall_tx" /\ Collect(c, "sweep_all")

Sweep(c) ==
    /\ task[c].pc = "sweep"
    /\ Set(Head(task[c].todo), Absent)
    /\ IF Len(task[c].todo) = 1 THEN Record(c, task[c].delta)
       ELSE task' = [task EXCEPT ![c].todo = Tail(@)]
    /\ UNCHANGED <<entries, writer, incs>> /\ Quiet

SweepAll(c) ==
    /\ task[c].pc = "sweep_all" /\ Unlocked(c)
    /\ Without({task[c].todo[i] : i \in DOMAIN task[c].todo})
    /\ Record(c, task[c].delta)
    /\ UNCHANGED <<entries, writer, incs>> /\ Quiet

----------------------------------------------------------------------------
(* compare_and_swap and increment                                          *)

PutOrDelete(k, v) == Call(IF v = Absent THEN "delete" ELSE "put", k, v, Absent)

MemoryCas(c) ==
    /\ backend = "memory" /\ Ready(c, "cas") /\ Unlocked(c)
    /\ LET k == Current(c).k
           v == Current(c).v
       IN  IF data[k] # Current(c).e THEN Return(c) /\ UNCHANGED data
           ELSE /\ Set(k, v)
                /\ Record(c, IF v = Absent THEN New(k) - 1 ELSE New(k))
    /\ UNCHANGED <<entries, writer, incs>> /\ Quiet

\* The others read, compare, and call put or delete.
ReadThenSwap(c) ==
    /\ Ready(c, "cas")
    /\ IF data[Current(c).k] # Current(c).e THEN Return(c)
       ELSE task' = [task EXCEPT ![c].calls = <<PutOrDelete(Current(c).k, Current(c).v)>>]
    /\ UNCHANGED <<data, entries, writer, incs>> /\ Quiet

FjallCas(c) == backend = "fjall" /\ ReadThenSwap(c)
FjallTxCas(c) == backend = "fjall_tx" /\ ReadThenSwap(c)
AnyCas(c) == backend \in Any /\ ReadThenSwap(c)

\* increment reads, adds and calls put.
ReadThenPut(c) ==
    /\ Ready(c, "increment")
    /\ task' = [task EXCEPT ![c].calls = <<Call("put", Counter, data[Counter] + 1, Absent)>>]
    /\ UNCHANGED <<data, entries, writer, incs>> /\ Quiet

MemoryIncrement(c) ==
    /\ backend = "memory" /\ Ready(c, "increment") /\ Unlocked(c)
    /\ Set(Counter, data[Counter] + 1) /\ CountInc(Counter)
    /\ Record(c, New(Counter))
    /\ UNCHANGED <<entries, writer>> /\ Quiet

FjallIncrement(c) == backend = "fjall" /\ ReadThenPut(c)
FjallTxIncrement(c) == backend = "fjall_tx" /\ ReadThenPut(c)
AnyIncrement(c) == backend \in Any /\ ReadThenPut(c)

----------------------------------------------------------------------------
(* Transactions                                                            *)

Resolve(c, s) == status' = [status EXCEPT ![task[c].id] = s]
Finish(c) == task' = [task EXCEPT ![c] = NoTask]

\* begin_transaction, begin_write_transaction
TxBegin(c) ==
    /\ Ready(c, "begin")
    /\ backend \in SingleWriter => writer = None
    /\ writer' = IF backend \in SingleWriter THEN c ELSE writer
    /\ task' = [task EXCEPT ![c].pc = "tx"] /\ Resolve(c, "open")
    /\ UNCHANGED <<backend, data, entries, snap, reqs, incs, used, overlap>>

View(c, k) == TxGet(data, task[c].buf, k)

\* The skiplist's transaction writes to the map at once.
TxWrite(c, k, v) ==
    /\ task' = [task EXCEPT ![c].buf = Append(@, [k |-> k, v |-> v])]
    /\ IF backend \in SkipList THEN Set(k, v) ELSE UNCHANGED data
    /\ UNCHANGED incs

InTx(c) == task[c].pc = "tx" /\ Len(task[c].buf) < MaxTxOps
TxFrame == UNCHANGED <<backend, entries, writer, snap, reqs, status, overlap>>

TxPut(c) ==
    /\ InTx(c)
    /\ \E k \in Keys : TxWrite(c, k, task[c].id)
    /\ UNCHANGED used /\ TxFrame

TxDelete(c) ==
    /\ InTx(c)
    /\ \E k \in Keys : TxWrite(c, k, Absent)
    /\ UNCHANGED used /\ TxFrame

\* compare_and_swap of the transaction, with which a client increments
\* the value it has read in the same transaction.
TxCas(c) ==
    /\ InTx(c) /\ backend \notin Any \cup SkipList \cup {"redb"}
    /\ TxWrite(c, Counter, View(c, Counter) + 1)
    /\ used' = used \cup {"tx_increment"} /\ TxFrame

\* redb and the skiplist have no compare_and_swap: get, then put.
TxGetPut(c) ==
    /\ InTx(c) /\ backend = "redb"
    /\ TxWrite(c, Counter, View(c, Counter) + 1)
    /\ used' = used \cup {"tx_increment"} /\ TxFrame

Increments(buf) == Cardinality({i \in DOMAIN buf : buf[i].k = Counter})
Commits(c) ==
    /\ data' = Applied(data, task[c].buf)
    /\ incs' = incs + Increments(task[c].buf)
    /\ Resolve(c, "done") /\ Finish(c)
    /\ UNCHANGED <<backend, entries, snap, reqs, used, overlap>>

\* Mutant: operations are applied one by one and the lock released between.
CommitInSteps(c) ==
    /\ backend = "memory" /\ task[c].pc = "tx" /\ Unlocked(c) /\ task[c].buf # <<>>
    /\ Set(Head(task[c].buf).k, Head(task[c].buf).v)
    /\ task' = [task EXCEPT ![c].buf = Tail(@)]
    /\ UNCHANGED <<writer, incs, entries>> /\ Quiet

MemoryCommit(c) ==
    /\ backend = "memory" /\ task[c].pc = "tx" /\ Unlocked(c)
    /\ Commits(c) /\ UNCHANGED writer

FjallTxCommit(c) ==
    /\ backend = "fjall_tx" /\ task[c].pc = "tx"
    /\ Commits(c) /\ writer' = None

RedbCommit(c) ==
    /\ backend = "redb" /\ task[c].pc = "tx"
    /\ Commits(c) /\ writer' = None

\* The database refuses the commit: nothing is applied, the writer is freed.
NativeCommitFails(c) ==
    /\ backend \in SingleWriter /\ task[c].pc = "tx"
    /\ writer' = None
    /\ Resolve(c, "undone") /\ Finish(c)
    /\ UNCHANGED <<backend, data, entries, snap, reqs, incs, used, overlap>>

\* Operations are applied one after the other; the first error ends it and
\* leaves what was applied.
FjallCommit(c) ==
    /\ backend \in Fjall /\ task[c].pc \in {"tx", "commit"}
    /\ IF task[c].buf = <<>> THEN /\ Resolve(c, "done") /\ Finish(c) /\ UNCHANGED <<data, incs>>
       ELSE /\ Set(Head(task[c].buf).k, Head(task[c].buf).v)
            /\ CountInc(Head(task[c].buf).k)
            /\ task' = [task EXCEPT ![c].pc = "commit", ![c].buf = Tail(@)]
            /\ UNCHANGED status
    /\ UNCHANGED <<backend, entries, writer, snap, reqs, used, overlap>>

FjallCommitFails(c) ==
    /\ task[c].pc = "commit" /\ task[c].buf # <<>>
    /\ Resolve(c, "undone") /\ Finish(c)
    /\ UNCHANGED <<backend, data, entries, writer, snap, reqs, incs, used, overlap>>

SkipListCommit(c) ==
    /\ backend \in SkipList /\ task[c].pc = "tx"
    /\ Resolve(c, "done") /\ Finish(c)
    /\ UNCHANGED <<backend, data, entries, writer, snap, reqs, incs, used, overlap>>

\* rollback, or the transaction is dropped: what it buffered is discarded
\* and its writer freed.  The skiplist has nothing to discard and reports an
\* error; its writes stay.
Rollback(c) ==
    /\ task[c].pc = "tx"
    /\ writer' = IF writer = c THEN None ELSE writer
    /\ Resolve(c, "undone") /\ Finish(c)
    /\ UNCHANGED <<backend, data, entries, snap, reqs, incs, used, overlap>>

----------------------------------------------------------------------------
(* Snapshots                                                               *)

Takes(c) ==
    /\ snap' = data /\ Return(c)
    /\ UNCHANGED <<backend, data, entries, writer, reqs, status, incs, used, overlap>>

MemorySnapshot(c) == backend = "memory" /\ Ready(c, "snapshot") /\ Unlocked(c) /\ Takes(c)
FjallSnapshot(c) == backend \in Fjall /\ Ready(c, "snapshot") /\ Takes(c)

\* The skiplist is copied entry by entry while others write.
SkipListSnapshot(c) ==
    /\ backend \in SkipList /\ Ready(c, "snapshot")
    /\ LET n == Len(task[c].copy) + 1
       IN  IF n <= Len(KeyOrder)
           THEN /\ task' = [task EXCEPT ![c].copy = Append(@, data[KeyOrder[n]])]
                /\ UNCHANGED snap
           ELSE /\ snap' = [k \in AllKeys |->
                       task[c].copy[CHOOSE i \in DOMAIN KeyOrder : KeyOrder[i] = k]]
                /\ Return(c)
    /\ UNCHANGED <<backend, data, entries, writer, reqs, status, incs, used, overlap>>

\* The pairs of the snapshot, each written by call f.
Pairs(f) ==
    LET ks == Ordered({k \in AllKeys : snap[k] # Absent})
    IN  [i \in DOMAIN ks |-> Call(f, ks[i], snap[ks[i]], Absent)]

\* The calls restore_from_snapshot and install_kv_snapshot_from_stream make.
MemoryRestore == <<Plain("swap"), Plain("set_counts")>>
MemoryInstall == <<Plain("lock")>> \o Pairs("raw") \o <<Plain("set_counts")>>
SkipListRestore == <<Plain("clear")>> \o Pairs("raw") \o <<Plain("set_counts")>>
SkipListInstall == <<Plain("clear"), Plain("reset")>> \o Pairs("raw_counted") \o <<Plain("end")>>
FjallRestore == <<Plain("clear")>> \o Pairs("raw") \o <<Plain("end")>>

\* Mutant: the pairs are written over what is there.
RestoreOver == Pairs("put") \o <<Plain("end")>>
AnyInstall == <<Plain("range_all")>> \o Pairs("put") \o <<Plain("end")>>

RestoreCalls(op) ==
    CASE backend \in Any -> AnyInstall
      [] backend = "memory" -> IF op = "restore" THEN MemoryRestore ELSE MemoryInstall
      [] backend = "skiplist" -> IF op = "restore" THEN SkipListRestore ELSE SkipListInstall
      [] OTHER -> FjallRestore

\* Memory: clear and extend under one lock.
Swap(c) ==
    /\ Ready(c, "swap") /\ Unlocked(c)
    /\ data' = snap /\ Return(c)
    /\ UNCHANGED <<entries, writer, incs>> /\ Quiet

\* Memory: the lock is held while the stream is read.
Lock(c) ==
    /\ Ready(c, "lock") /\ writer = None
    /\ writer' = c
    /\ Without(AllKeys) /\ entries' = 0
    /\ Return(c)
    /\ UNCHANGED incs /\ Quiet

\* The skiplist's clear and fjall's removal of every key: entry by entry.
\* Memory's close clears under the lock.
Clear(c) ==
    /\ Ready(c, "clear") /\ Unlocked(c)
    /\ IF backend = "memory" \/ Present = {} THEN Without(AllKeys) /\ Return(c)
       ELSE /\ task' = [task EXCEPT ![c].pc = "sweep", ![c].todo = Ordered(Present)]
            /\ UNCHANGED data
    /\ UNCHANGED <<entries, writer, incs>> /\ Quiet

Reset(c) ==
    /\ Ready(c, "reset")
    /\ entries' = 0 /\ Return(c)
    /\ UNCHANGED <<data, writer, incs>> /\ Quiet

\* An item of the stream; the skiplist counts each as new.
RawInsert(c) ==
    /\ Ready(c, "raw") \/ Ready(c, "raw_counted")
    /\ Set(Current(c).k, Current(c).v)
    /\ Record(c, IF Current(c).f = "raw" THEN 0 ELSE 1)
    /\ UNCHANGED <<entries, writer, incs>> /\ Quiet

SnapSize == Cardinality({k \in AllKeys : snap[k] # Absent})

\* The lock is dropped and the counters set to the snapshot's.
SetCounts(c) ==
    /\ Ready(c, "set_counts")
    /\ writer' = IF writer = c THEN None ELSE writer
    /\ entries' = SnapSize % Wrap
    /\ Return(c)
    /\ UNCHANGED <<data, incs>> /\ Quiet

StreamEnds(c) ==
    /\ Ready(c, "end") /\ Return(c)
    /\ UNCHANGED <<data, entries, writer, incs>> /\ Quiet

\* An item of the stream is an error: the request ends where it is.
StreamFails(c) ==
    /\ task[c].op = "install" /\ task[c].pc = "run"
    /\ Current(c).f \in {"raw", "raw_counted", "put"}
    /\ writer' = IF writer = c THEN None ELSE writer
    /\ Finish(c)
    /\ UNCHANGED <<data, entries, incs>> /\ Quiet

----------------------------------------------------------------------------
(* Requests                                                                *)

\* Idle clients are alike: the request is that of one of them.
Start(c, op, calls) ==
    /\ reqs < MaxReqs
    /\ \E d \in Clients : task[d].pc = "idle"
    /\ c = CHOOSE d \in Clients : task[d].pc = "idle"
    /\ reqs' = reqs + 1
    /\ task' = [d \in Clients |->
           IF d = c THEN [NoTask EXCEPT !.pc = "run", !.op = op, !.id = reqs + 1, !.calls = calls,
                              !.alone = \A o \in Clients \ {c} : task[o].pc = "idle"]
           ELSE IF task[d].pc = "idle" THEN NoTask ELSE [task[d] EXCEPT !.alone = FALSE]]
    /\ overlap' = (overlap \/ \E o \in Clients \ {c} : task[o].pc # "idle")
    /\ UNCHANGED <<backend, data, entries, writer, snap, status, incs>>

\* Only fjall tells an empty value from another.
RequestPut(c) ==
    \E k \in Keys, v \in {reqs + 1, - (reqs + 1)} :
        /\ v < 0 => backend \in EmptyIn
        /\ Start(c, "put", <<Call("put", k, v, Absent)>>)
        /\ used' = IF v < 0 THEN used \cup {"empty"} ELSE used

RequestDelete(c) ==
    /\ \E k \in Keys : Start(c, "delete", <<Call("delete", k, Absent, Absent)>>)
    /\ UNCHANGED used

RequestDeleteRange(c) ==
    /\ Start(c, "delete_range", <<Plain("range")>>)
    /\ UNCHANGED used

\* redb and the bare skiplist do not implement ApplicationDataStorage.
RequestCas(c) ==
    /\ backend \notin {"redb", "skiplist"}
    /\ \E k \in Keys, v \in {Absent, reqs + 1} : \E e \in {Absent, data[k]} :
           Start(c, "cas", <<Call("cas", k, v, e)>>)
    /\ UNCHANGED used

RequestIncrement(c) ==
    /\ backend \notin {"redb", "skiplist"}
    /\ Start(c, "increment", <<Plain("increment")>>)
    /\ used' = used \cup {"increment"}

RequestTransaction(c) ==
    /\ Cardinality({i \in Ids : status[i] # "plain"}) < MaxTx
    /\ Start(c, "tx", <<Plain("begin")>>)
    /\ used' = used \cup {"tx"}

\* fjall_tx and redb have no snapshots.
RequestSnapshot(c) ==
    /\ backend \notin SingleWriter
    /\ Start(c, "snapshot", <<Plain("snapshot")>>)
    /\ UNCHANGED used

RequestRestore(c) ==
    /\ snap # None
    /\ \E op \in {"restore", "install"} :
           /\ Start(c, op, RestoreCalls(op))
           /\ used' = used \cup {op}

\* Memory and skiplist empty the map on close, fjall and redb do nothing.
RequestClose(c) ==
    /\ backend \in {"memory"} \cup SkipList
    /\ Start(c, "close", <<Plain("clear")>>)
    /\ used' = used \cup {"close"}

----------------------------------------------------------------------------
Request(c) ==
    \/ RequestPut(c) \/ RequestDelete(c) \/ RequestDeleteRange(c) \/ RequestCas(c)
    \/ RequestIncrement(c) \/ RequestTransaction(c) \/ RequestSnapshot(c)
    \/ RequestRestore(c) \/ RequestClose(c)

Write(c) ==
    \/ MemoryPut(c) \/ RedbPut(c) \/ SkipListPut(c) \/ FjallPut(c) \/ FjallTxPut(c)
    \/ Insert(c) \/ MemoryDelete(c) \/ RedbDelete(c) \/ SkipListDelete(c)
    \/ FjallDelete(c) \/ FjallTxDelete(c) \/ Remove(c)
    \/ MemoryDeleteRange(c) \/ RedbDeleteRange(c) \/ SkipListDeleteRange(c)
    \/ FjallDeleteRange(c) \/ FjallTxDeleteRange(c) \/ Sweep(c) \/ SweepAll(c)
    \/ RecordStats(c)

Update(c) ==
    \/ MemoryCas(c) \/ FjallCas(c) \/ FjallTxCas(c) \/ AnyCas(c)
    \/ MemoryIncrement(c) \/ FjallIncrement(c) \/ FjallTxIncrement(c) \/ AnyIncrement(c)

Transaction(c) ==
    \/ TxBegin(c) \/ TxPut(c) \/ TxDelete(c) \/ TxCas(c) \/ TxGetPut(c)
    \/ MemoryCommit(c) \/ FjallTxCommit(c) \/ RedbCommit(c) \/ NativeCommitFails(c)
    \/ FjallCommit(c) \/ FjallCommitFails(c) \/ SkipListCommit(c) \/ Rollback(c)

Snapshots(c) ==
    \/ MemorySnapshot(c) \/ FjallSnapshot(c) \/ SkipListSnapshot(c)
    \/ Swap(c) \/ Lock(c) \/ Clear(c) \/ Reset(c) \/ RawInsert(c) \/ SetCounts(c)
    \/ StreamEnds(c) \/ StreamFails(c)

Step(c) == Write(c) \/ Update(c) \/ Transaction(c) \/ Snapshots(c)
Next == \E c \in Clients : Request(c) \/ Step(c)

Spec == Init /\ [][Next]_vars

----------------------------------------------------------------------------
(* Properties                                                              *)

TypeOK ==
    /\ backend \in Backends
    /\ data \in [AllKeys -> Int]
    /\ entries \in 0 .. Wrap - 1
    /\ writer \in Clients \cup {None}
    /\ snap = None \/ snap \in [AllKeys -> Int]
    /\ reqs \in 0 .. MaxReqs
    /\ status \in [Ids -> {"plain", "open", "done", "undone"}]
    /\ incs \in Nat
    /\ overlap \in BOOLEAN
    /\ \A c \in Clients :
        /\ task[c].pc \in {"idle", "run", "insert", "remove", "sweep", "sweep_all", "stats",
                           "tx", "commit"}
        /\ task[c].id \in 0 .. MaxReqs
        /\ task[c].alone \in BOOLEAN
        /\ Len(task[c].buf) <= MaxTxOps
        /\ task[c].pc \notin {"idle", "tx", "commit"} => task[c].calls # <<>>

\* A prefix scan returns exactly the keys with the prefix, for every prefix
\* whose last byte can be incremented (scan, exclusive_upper_bound).  Nothing
\* in it changes with the map: it is evaluated before the first request.
PrefixScanExact ==
    reqs = 0 =>
        \A p \in RawKeys, key \in RawKeys :
            p = <<>> \/ p[Len(p)] < MaxByte => (Scanned(p, key) <=> IsPrefixOf(p, key))

Maps == [AllKeys -> {Absent, 1}]

\* Whatever the map, the range and the page size, a caller that follows the
\* returned keys gets every entry of the range once, in order, and stops
\* (scan_range_paginated, the cursor of the entry store's listing and of its
\* object deletion).
PagesCoverRange ==
    reqs = 0 =>
        \A m \in Maps, r \in Spans, limit \in 1 .. Len(KeyOrder) :
            Pages(m, r[1], r[2], limit) = ScanRange(m, r[1], r[2])

Buffers == UNION {[1 .. n -> [k : Keys, v : {Absent, 2, 3}]] : n \in 0 .. MaxTxOps}

\* The scan of a transaction and its get agree on every key of the range,
\* pending puts and deletes included, as long as the memory backend's
\* transaction writes no key twice.
TxScanAgreesWithGet ==
    reqs = 0 /\ backend \in {"memory", "fjall", "fjall_tx"} =>
        \A m \in Maps, buf \in Buffers, r \in Spans :
            (backend = "memory" =>
                \A i, j \in DOMAIN buf : i # j => buf[i].k # buf[j].k)
            => LET found == TxScan(m, buf, r[1], r[2])
               IN  \A k \in AllKeys :
                     r[1] <= Pos(k) /\ Pos(k) < r[2] =>
                        IF k \in DOMAIN found THEN found[k] = TxGet(m, buf, k)
                        ELSE TxGet(m, buf, k) = Absent

Number(v) == IF v < 0 THEN - v ELSE v

\* On the backends whose commit is atomic, no state of the map shows a write
\* of a transaction that is open, was rolled back or whose commit failed: its
\* writes appear together, when it is committed, or not at all.
UncommittedInvisible ==
    backend \in {"memory"} \cup SingleWriter =>
        \A k \in Keys : data[k] # Absent => status[Number(data[k])] \in {"plain", "done"}

\* No acknowledged increment is lost: increments of the memory backend, and
\* increments made by reading and writing in a transaction of a backend with a
\* single writer, however the tasks interleave.
IncrementsKept ==
    /\ \/ backend = "memory" /\ "tx_increment" \notin used
       \/ backend \in SingleWriter /\ "increment" \notin used
    /\ used \cap {"restore", "install", "close"} = {}
    => data[Counter] = incs

\* Whenever nothing is under way, entries_count is the number of entries: on
\* the memory backend however plain operations interleave, on the skiplist as
\* long as requests did not overlap, restores from snapshots included, and on
\* fjall under the same condition and without empty values.
CountExact ==
    /\ \A c \in Clients : task[c].pc = "idle"
    /\ \/ backend = "memory" /\ used \subseteq {"increment"}
       \/ backend \in SkipList /\ ~ overlap /\ used \subseteq {"increment", "restore", "install"}
       \/ backend \in Fjall \cup {"fjall_tx"} /\ ~ overlap /\ used \subseteq {"increment"}
    => entries = Cardinality(Present)

\* A restore or an installation that reached the end of the snapshot, with no
\* other request under way since it began, has made the map equal to it.
RestoreExact ==
    \A c \in Clients :
        /\ task[c].op \in {"restore", "install"} /\ task[c].alone
        /\ task[c].pc = "run" /\ Current(c).f \in {"set_counts", "end"}
        => data = snap

\* The write lock is held by a request that will release it: an open
\* transaction of a backend with a single writer, or an installation into
\* memory that still reads its stream.  No end of a request, an error or a
\* dropped transaction included, leaves it behind for the others to wait on.
LockHasOwner ==
    writer # None =>
        \/ backend \in SingleWriter /\ task[writer].pc = "tx"
        \/ backend = "memory" /\ task[writer].op = "install" /\ task[writer].pc = "run"

\* Scans by prefix, scans in pages and scans inside a transaction return exactly the
\* entries they are asked for.
ScansExact == PrefixScanExact /\ PagesCoverRange /\ TxScanAgreesWithGet

\* Transactions of the backends that have them are invisible until they commit, lose
\* no increment, and never leave the write lock behind.
TransactionsIsolated ==
    /\ TypeOK
    /\ UncommittedInvisible
    /\ IncrementsKept
    /\ LockHasOwner

\* The entry count is the number of entries and a restored map is the snapshot, under
\* the conditions each backend needs.
CopiesExact == CountExact /\ RestoreExact
=============================================================================
