---------------------------- MODULE DataService ----------------------------
(***************************************************************************)
(* The gRPC data service of ODGM (grpc_service/data.rs), the Zenoh object  *)
(* handlers that answer the same requests (shard/network), and the         *)
(* listing of entries and of objects they share.  A call of the shard is   *)
(* one step here: EntryStore models what is inside it and ObjectSpec what  *)
(* it promises.  A handler that makes two calls takes two steps.           *)
(*                                                                         *)
(* Identifiers and entry keys are sequences of characters: 1..9 are upper  *)
(* case letters, 11..19 the same letters in lower case, 0 is a character   *)
(* no identifier may have.  The trace of events and the event configuration*)
(* of an object are left to EntryStore.                                    *)
(***************************************************************************)
EXTENDS Naturals, Sequences, FiniteSets, SequencesExt

CONSTANTS
    Callers,       \* concurrent requests
    DataRequests,  \* the requests they may send
    Ids,           \* the normalized object ids
    Names,         \* the keys an entry may be stored under
    MaxIdLen,      \* max_string_id_len
    Slack,         \* LIST_SCAN_SLACK
    MaxListLimit,  \* MAX_LIST_LIMIT
    NoVal,         \* no value, no prefix, no cursor, no expected version
    MaxServed      \* bound: requests in a behaviour

VARIABLES
    objs,          \* the objects of the shard: version, life cycle and entries
    dcall,         \* the request of a caller, between and after its calls
    served         \* requests so far

dataServiceVars == <<objs, dcall, served>>

NoEntries == [n \in Names |-> NoVal]
DataIdle == [pc |-> "idle"]

DataInit ==
    /\ objs = [i \in Ids |-> [ver |-> 0, life |-> "absent", ents |-> NoEntries]]
    /\ dcall = [c \in Callers |-> DataIdle]
    /\ served = 0

-----------------------------------------------------------------------------
(* identity.rs and storage_key.rs                                          *)

Lower(ch) == IF ch \in 1 .. 9 THEN ch + 10 ELSE ch

\* normalize_object_id and normalize_entry_key: NoVal is an error.
Normalize(raw) ==
    LET lc == [i \in DOMAIN raw |-> Lower(raw[i])]
    IN  IF raw = <<>> \/ Len(lc) > MaxIdLen \/ \E i \in DOMAIN lc : lc[i] = 0 THEN NoVal ELSE lc

\* The order of bytes.
BytesBefore(a, b) ==
    \E i \in 1 .. Len(b) :
        /\ \A j \in 1 .. (i - 1) : j <= Len(a) /\ a[j] = b[j]
        /\ i > Len(a) \/ (i <= Len(a) /\ a[i] < b[i])

\* Entry keys are stored behind their length, so a shorter one comes first.
EntryBefore(a, b) == Len(a) < Len(b) \/ (Len(a) = Len(b) /\ BytesBefore(a, b))

StartsWith(n, prefix) == prefix = NoVal \/ IsPrefix(prefix, n)

Stored(o) == {n \in Names : o.ents[n] # NoVal}

-----------------------------------------------------------------------------
(* The shard's operations, each as ObjectSpec has it                       *)

Write(o, values, dels) ==
    LET set == {n \in Names : values[n] # NoVal}
        del == dels \cap (Stored(o) \cup set)
    IN  IF set = {} /\ del = {} THEN o
        ELSE [ver  |-> o.ver + Cardinality(del) + 1,
              life |-> IF o.life = "absent" THEN "live" ELSE o.life,
              ents |-> [n \in Names |-> IF n \in del THEN NoVal
                                        ELSE IF n \in set THEN values[n] ELSE o.ents[n]]]

DeleteEntry(o, n) ==
    IF n \in Stored(o) THEN [o EXCEPT !.ver = @ + 1, !.ents[n] = NoVal] ELSE o

\* An upsert without entries only makes sure the object is there.
Upsert(o, values) ==
    IF values = NoEntries /\ o.life = "absent" THEN [o EXCEPT !.life = "live"] ELSE Write(o, values, {})

DeleteObject(o) ==
    IF o.life = "live" THEN [ver |-> o.ver + 1, life |-> "deleted", ents |-> NoEntries] ELSE o

\* reconstruct_object_from_entries: a tombstone hides entries written after it.
Reconstruct(o) == IF o.life = "live" THEN o.ents ELSE NoVal

\* merge_data_owned: two CRDT maps are joined, otherwise the newer value wins,
\* and that is the request's.
MergeData(old, new) ==
    IF old.type = "crdt" /\ new.type = "crdt" THEN [old EXCEPT !.data = @ \cup new.data] ELSE new

\* ObjectData::merge
MergeEntries(old, new) ==
    [n \in Names |-> IF new[n] = NoVal THEN old[n]
                     ELSE IF old[n] = NoVal THEN new[n] ELSE MergeData(old[n], new[n])]

-----------------------------------------------------------------------------
(* Listing the entries of an object: EntryStore::list_entries              *)

InStorageOrder(o) == SetToSortSeq(Stored(o), EntryBefore)

\* Mutant: what lies behind the chunk is forgotten.
MoreInChunk(scan, i, chunk, prefix) == i < chunk

\* Whether a page that is full says that there is more: at key i of the scan,
\* with the chunk read from the storage reaching to `chunk`.
MoreAvailable(scan, i, chunk, prefix) ==
    LET inChunk == i < chunk
        beyond  == chunk < Len(scan)
    IN  IF prefix = NoVal THEN inChunk \/ beyond
        ELSE IF inChunk THEN StartsWith(scan[i + 1], prefix) \/ beyond
        ELSE beyond /\ StartsWith(scan[chunk + 1], prefix)

\* The key the cursor names was on the page before.
SkipCursor(scan, i, cursor) == i = 1 /\ scan[i] = cursor

\* One page, from the cursor's key on, read in chunks of what the page still
\* needs and some slack.  A key without the prefix ends the page once one with
\* it was seen.
ListEntries(o, prefix, limit, cursor) ==
    LET scan == SelectSeq(InStorageOrder(o), LAMBDA n : cursor = NoVal \/ ~EntryBefore(n, cursor))
        step(st, i) ==
            LET need  == limit - Len(st.keys)
                chunk == IF i > st.chunk THEN IF i + need + Slack - 1 < Len(scan)
                                              THEN i + need + Slack - 1 ELSE Len(scan)
                         ELSE st.chunk
                read  == [st EXCEPT !.chunk = chunk]
            IN  IF st.stop THEN st
                ELSE IF SkipCursor(scan, i, cursor) THEN read
                ELSE IF ~StartsWith(scan[i], prefix) THEN [read EXCEPT !.stop = st.keys # <<>>]
                ELSE [keys  |-> Append(st.keys, scan[i]),
                      stop  |-> need = 1,
                      more  |-> need = 1 /\ MoreAvailable(scan, i, chunk, prefix),
                      chunk |-> chunk]
        end == FoldLeftDomain(step, [keys |-> <<>>, stop |-> FALSE, more |-> FALSE, chunk |-> 0], scan)
    IN  [keys |-> end.keys, next |-> IF end.more THEN Last(end.keys) ELSE NoVal]

\* What a client that follows the cursors gets (reconstruct_object_from_entries
\* and count_entries are such clients).
RECURSIVE EntryPages(_, _, _, _)
EntryPages(o, prefix, limit, cursor) ==
    LET page == ListEntries(o, prefix, limit, cursor)
    IN  page.keys \o (IF page.next = NoVal THEN <<>> ELSE EntryPages(o, prefix, limit, page.next))

CountEntries(o) == Len(EntryPages(o, NoVal, MaxListLimit, NoVal))

-----------------------------------------------------------------------------
(* Listing the objects: EntryStore::list_objects                           *)

\* Every record of the shard in storage order: <<id, "meta">>, then its entries.
Records ==
    LET ids == SetToSortSeq({i \in Ids : objs[i].life # "absent"}, BytesBefore)
        of(i) == <<[id |-> i, meta |-> TRUE]>> \o [n \in 1 .. Cardinality(Stored(objs[i])) |-> [id |-> i, meta |-> FALSE]]
    IN  FlattenSeq([k \in DOMAIN ids |-> of(ids[k])])

\* Metadata records of objects that are not deleted.
Listed(r, prefix) == r.meta /\ StartsWith(r.id, prefix) /\ objs[r.id].life # "deleted"

\* A page ends when it is full, or behind the last id with the prefix; a full
\* page always has a cursor.
ListObjects(prefix, limit, cursor) ==
    LET from == SelectSeq(Records, LAMBDA r : cursor = NoVal \/ BytesBefore(cursor, r.id) \/ (r.id = cursor /\ ~r.meta))
        step(st, r) ==
            IF Len(st.ids) = limit \/ st.past THEN st
            ELSE [ids  |-> IF Listed(r, prefix) THEN Append(st.ids, r.id) ELSE st.ids,
                  seen |-> st.seen \/ (r.meta /\ StartsWith(r.id, prefix)),
                  past |-> st.seen /\ r.meta /\ ~StartsWith(r.id, prefix)]
        ids == FoldLeft(step, [ids |-> <<>>, seen |-> FALSE, past |-> FALSE], from).ids
    IN  [items |-> [k \in DOMAIN ids |-> [id |-> ids[k], ver |-> objs[ids[k]].ver,
                                         count |-> CountEntries(objs[ids[k]])]],
         next |-> IF Len(ids) = limit THEN Last(ids) ELSE NoVal]

RECURSIVE ObjectPages(_, _, _)
ObjectPages(prefix, limit, cursor) ==
    LET page == ListObjects(prefix, limit, cursor)
    IN  page.items \o (IF page.next = NoVal THEN <<>> ELSE ObjectPages(prefix, limit, page.next))

-----------------------------------------------------------------------------
(* The handlers                                                            *)

Respond(c, answer) == dcall' = [dcall EXCEPT ![c] = [pc |-> "idle", answer |-> answer]]
Change(id, o) == objs' = [objs EXCEPT ![id] = o]

\* What every handler checks before it calls the shard: the identity, that the
\* shard is here, and the keys it names.
Refused(c, req, keys) ==
    /\ \/ Normalize(req.id) = NoVal /\ Respond(c, "invalid")
       \/ Normalize(req.id) # NoVal /\ ~req.here /\ Respond(c, "not_found")
       \/ /\ Normalize(req.id) # NoVal /\ req.here
          /\ \E k \in keys : Normalize(k) = NoVal
          /\ Respond(c, "invalid")
    /\ UNCHANGED objs

Accepted(req, keys) ==
    Normalize(req.id) \in Ids /\ req.here /\ \A k \in keys : Normalize(k) \in Names

\* set: the keys of the object are stored as they come.
Set(c, req) ==
    /\ req.op = "set"
    /\ \/ Refused(c, req, {})
       \/ /\ Accepted(req, {})
          /\ Change(Normalize(req.id), Upsert(objs[Normalize(req.id)], req.values))
          /\ Respond(c, "ok")

SetValue(c, req) ==
    /\ req.op = "set_value"
    /\ \/ Refused(c, req, {req.key})
       \/ /\ Accepted(req, {req.key})
          /\ Change(Normalize(req.id), Write(objs[Normalize(req.id)], [NoEntries EXCEPT ![Normalize(req.key)] = req.value], {}))
          /\ Respond(c, "ok")

DeleteValue(c, req) ==
    /\ req.op = "delete_value"
    /\ \/ Refused(c, req, {req.key})
       \/ /\ Accepted(req, {req.key})
          /\ Change(Normalize(req.id), DeleteEntry(objs[Normalize(req.id)], Normalize(req.key)))
          /\ Respond(c, "ok")

Delete(c, req) ==
    /\ req.op = "delete"
    /\ \/ Refused(c, req, {})
       \/ /\ Accepted(req, {})
          /\ Change(Normalize(req.id), DeleteObject(objs[Normalize(req.id)]))
          /\ Respond(c, "ok")

\* Of two keys with the same normal form the map keeps whichever comes last.
BatchSetValues(c, req) ==
    /\ req.op = "batch"
    /\ \/ Refused(c, req, DOMAIN req.sets \cup req.dels)
       \/ /\ Accepted(req, DOMAIN req.sets \cup req.dels)
          /\ LET o == objs[Normalize(req.id)]
                 named(n) == {k \in DOMAIN req.sets : Normalize(k) = n}
             IN  IF req.expect \notin {NoVal, o.ver} /\ (DOMAIN req.sets \cup req.dels) # {}
                 THEN Respond(c, "aborted") /\ UNCHANGED objs
                 ELSE \E pick \in [Names -> DOMAIN req.sets \cup {NoVal}] :
                        /\ \A n \in Names : IF named(n) = {} THEN pick[n] = NoVal ELSE pick[n] \in named(n)
                        /\ Change(Normalize(req.id),
                                  Write(o, [n \in Names |-> IF pick[n] = NoVal THEN NoVal ELSE req.sets[pick[n]]],
                                        {Normalize(k) : k \in req.dels}))
                        /\ Respond(c, "ok")

Get(c, req) ==
    /\ req.op = "get"
    /\ \/ Refused(c, req, {})
       \/ /\ Accepted(req, {})
          /\ Respond(c, IF Reconstruct(objs[Normalize(req.id)]) = NoVal THEN "not_found" ELSE "ok")
          /\ UNCHANGED objs

\* get_value reads the value, then the version.
GetValue(c, req) ==
    /\ req.op = "get_value"
    /\ \/ Refused(c, req, {req.key})
       \/ /\ Accepted(req, {req.key})
          /\ dcall' = [dcall EXCEPT ![c] = [pc |-> "value", id |-> Normalize(req.id),
                                            value |-> objs[Normalize(req.id)].ents[Normalize(req.key)]]]
    /\ UNCHANGED objs

GetValueVersion(c) ==
    /\ dcall[c].pc = "value"
    /\ Respond(c, "ok")
    /\ UNCHANGED <<objs, served>>

\* merge reads the object, and writes all of its entries back.
MergeRead(c, req) ==
    /\ req.op = "merge"
    /\ \/ Refused(c, req, {})
       \/ /\ Accepted(req, {})
          /\ LET old == Reconstruct(objs[Normalize(req.id)])
             IN  dcall' = [dcall EXCEPT ![c] =
                    [pc |-> "merge", id |-> Normalize(req.id),
                     merged |-> IF old = NoVal THEN req.values ELSE MergeEntries(old, req.values)]]
    /\ UNCHANGED objs

MergeWrite(c) ==
    /\ dcall[c].pc = "merge"
    /\ Change(dcall[c].id, Write(objs[dcall[c].id], dcall[c].merged, {}))
    /\ Respond(c, "ok")
    /\ UNCHANGED served

\* list_values reads the version, then the page; a limit of 0 is the default one.
ListValues(c, req) ==
    /\ req.op = "list"
    /\ \/ Refused(c, req, {req.prefix} \ {NoVal})
       \/ /\ Accepted(req, {})
          /\ req.prefix # NoVal => Normalize(req.prefix) # NoVal
          /\ dcall' = [dcall EXCEPT ![c] =
                [pc |-> "list", id |-> Normalize(req.id),
                 prefix |-> IF req.prefix = NoVal THEN NoVal ELSE Normalize(req.prefix),
                 limit |-> IF req.limit = 0 THEN MaxListLimit ELSE req.limit,
                 ver |-> objs[Normalize(req.id)].ver, page |-> NoVal]]
    /\ UNCHANGED objs

PageFrom(o, q) ==
    LET keys == ListEntries(o, q.prefix, q.limit, NoVal).keys
    IN  [i \in DOMAIN keys |-> [key |-> keys[i], value |-> o.ents[keys[i]]]]

ListValuesPage(c) ==
    /\ dcall[c].pc = "list" /\ dcall[c].page = NoVal
    /\ dcall' = [dcall EXCEPT ![c].page = PageFrom(objs[dcall[c].id], dcall[c])]
    /\ UNCHANGED <<objs, served>>

-----------------------------------------------------------------------------
Serve(c) ==
    /\ dcall[c].pc = "idle" \/ (dcall[c].pc = "list" /\ dcall[c].page # NoVal)
    /\ served < MaxServed
    /\ served' = served + 1
    /\ \E req \in DataRequests :
          \/ Set(c, req) \/ SetValue(c, req) \/ DeleteValue(c, req) \/ Delete(c, req)
          \/ BatchSetValues(c, req) \/ Get(c, req) \/ GetValue(c, req) \/ MergeRead(c, req)
          \/ ListValues(c, req)

DataNext ==
    \E c \in Callers : Serve(c) \/ GetValueVersion(c) \/ MergeWrite(c) \/ ListValuesPage(c)

-----------------------------------------------------------------------------
(* Properties                                                              *)

DataValues == [type : {"byte", "crdt"}, data : SUBSET Nat]

DataTypeOK ==
    /\ \A i \in Ids :
          /\ objs[i].ver \in Nat /\ objs[i].life \in {"absent", "live", "deleted"}
          /\ \A n \in Names : objs[i].ents[n] = NoVal \/ objs[i].ents[n] \in DataValues
          /\ objs[i].life = "absent" => objs[i].ver = 0 /\ Stored(objs[i]) = {}
    /\ \A c \in Callers : dcall[c].pc \in {"idle", "value", "merge", "list"}
    /\ served \in 0 .. MaxServed

\* A client may use the version that list_values streams with the entries as the
\* expected version of a batch: if the object still has that version, the page
\* it saw is still what the object holds, whatever ran between the two reads of
\* the handler (object_api::list_entries; get_value reads in the other order).
ListedVersionSafe ==
    \A c \in Callers :
        dcall[c].pc = "list" /\ dcall[c].page # NoVal /\ objs[dcall[c].id].ver = dcall[c].ver
            => dcall[c].page = PageFrom(objs[dcall[c].id], dcall[c])

\* Something was served and nothing is being served.
Settled == served > 0 /\ \A c \in Callers : dcall[c].pc = "idle"

\* The keys with the prefix, in storage order, and whether they lie together.
Wanted(o, prefix) == SelectSeq(InStorageOrder(o), LAMBDA n : StartsWith(n, prefix))
LieTogether(o, prefix) ==
    \A a, b, n \in Stored(o) :
        StartsWith(a, prefix) /\ StartsWith(b, prefix) /\ EntryBefore(a, n) /\ EntryBefore(n, b)
            => StartsWith(n, prefix)

\* Following the cursors of list_entries never lists an entry twice, out of
\* order or without the prefix, and misses none as long as the matching keys
\* lie together in storage (without a prefix they always do; with one, a key of
\* the same length between them hides the longer ones).
EntryPagesExact ==
    Settled => \A i \in Ids, prefix \in Names \cup {NoVal}, limit \in 1 .. 2 :
        LET got == EntryPages(objs[i], prefix, limit, NoVal)
        IN  /\ \A k \in DOMAIN got : StartsWith(got[k], prefix)
            /\ \A k \in 1 .. (Len(got) - 1) : EntryBefore(got[k], got[k + 1])
            /\ LieTogether(objs[i], prefix) => got = Wanted(objs[i], prefix)

\* Following the cursors of list_objects lists exactly the objects that are not
\* deleted and have the prefix, in order, once, with their number of entries,
\* however many records of other objects and of entries lie between them.
ObjectPagesExact ==
    Settled => \A prefix \in Ids \cup {NoVal}, limit \in 1 .. 2 :
        LET live == {i \in Ids : objs[i].life = "live" /\ StartsWith(i, prefix)}
            want == SetToSortSeq(live, BytesBefore)
        IN  ObjectPages(prefix, limit, NoVal) =
                [k \in DOMAIN want |-> [id |-> want[k], ver |-> objs[want[k]].ver,
                                        count |-> Cardinality(Stored(objs[want[k]]))]]

\* Merging CRDT maps gives the same object in either order, and a merge that is
\* sent again changes nothing (merge_data_owned).
CrdtMerges ==
    {r.values : r \in {r \in DataRequests : r.op = "merge" /\ \A n \in Names : r.values[n] # NoVal => r.values[n].type = "crdt"}}

MergesCommute ==
    Settled => \A i \in Ids, a \in CrdtMerges, b \in CrdtMerges :
        LET o == objs[i].ents
        IN  /\ MergeEntries(MergeEntries(o, a), b) = MergeEntries(MergeEntries(o, b), a)
            /\ MergeEntries(MergeEntries(o, a), a) = MergeEntries(o, a)

\* What the data service answers can be relied on: the version listed with a page is
\* safe to compare with, following the cursors of either listing is exact, and
\* merges of CRDT maps commute (data.rs, object_api.rs, entry_store_impl.rs).
DataServed ==
    /\ DataTypeOK
    /\ ListedVersionSafe
    /\ EntryPagesExact
    /\ ObjectPagesExact
    /\ MergesCommute
=============================================================================
