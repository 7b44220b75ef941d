----------------------------- MODULE ObjectSpec -----------------------------
(***************************************************************************)
(* What the object API promises one caller at a time: an object is a map   *)
(* of entries, a version and a life cycle; a request is asked and, in one  *)
(* step, answered by exactly the change it calls for, or by none when it   *)
(* calls for none.  The promises are those of the EntryStore trait, of the *)
(* header of shard/object_api.rs and of the handlers' comments, in the     *)
(* form the code keeps them.                                               *)
(***************************************************************************)
EXTENDS Naturals, FiniteSets

CONSTANTS Keys, Requests, Values, NoExpect, NoRequest

VARIABLES entries, version, life,
          request,  \* the last request asked
          pending   \* TRUE until it is answered

object == <<entries, version, life>>

Absent == 0

Holding == {k \in Keys : entries[k] # Absent}

\* A write creates an absent object; a deleted one stays deleted.
Touch == life' = IF life = "absent" THEN "live" ELSE life

Put(K, v)  == [k \in Keys |-> IF k \in K THEN v ELSE entries[k]]
Drop(e, K) == [k \in Keys |-> IF k \in K THEN Absent ELSE e[k]]

Matches(r) == r.expect \in {NoExpect, version}

\* The entries a batch deletes, which may be entries it has just set.
Deleted(r) == r.dels \cap (Holding \cup r.puts)

SetEntry(r, v) ==
    /\ r.kind = "set_entry"
    /\ entries' = Put(r.puts, v)
    /\ version' = version + 1
    /\ Touch

DeleteEntries(r) ==
    /\ r.kind \in {"delete_entry", "batch_delete"}
    /\ Deleted(r) # {}
    /\ entries' = Drop(entries, r.dels)
    /\ version' = version + 1
    /\ Touch

\* The sets count as one mutation, every deleted entry as another, and a batch
\* of deletes alone as one more.
Mutate(r, v) ==
    /\ r.kind = "mutate"
    /\ Matches(r)
    /\ r.puts # {} \/ Deleted(r) # {}
    /\ entries' = Drop(Put(r.puts, v), r.dels)
    /\ version' = version + 1 + Cardinality(Deleted(r))
    /\ Touch

\* The Zenoh batch counts its sets once and its deletes once, found or not.
ZenohBatch(r, v) ==
    /\ r.kind = "zbatch"
    /\ Matches(r)
    /\ entries' = Drop(Put(r.puts, v), r.dels)
    /\ version' = version + (IF r.puts # {} THEN 1 ELSE 0) + (IF r.dels # {} THEN 1 ELSE 0)
    /\ Touch

Upsert(r, v) ==
    /\ r.kind = "upsert"
    /\ entries' = Put(r.puts, v)
    /\ version' = version + (IF r.puts # {} THEN 1 ELSE 0)
    /\ Touch

\* Only a live object is deleted; all its entries go.
DeleteObject(r) ==
    /\ r.kind = "delete_object"
    /\ life = "live"
    /\ entries' = Drop(entries, Keys)
    /\ version' = version + 1
    /\ life' = "deleted"

\* A version conflict, and deleting what is not there, change nothing, not even
\* the version.
Refuse(r) ==
    /\ \/ r.kind \in {"mutate", "zbatch"} /\ ~Matches(r)
       \/ r.kind \in {"delete_entry", "batch_delete", "mutate"} /\ r.puts = {} /\ Deleted(r) = {}
       \/ r.kind = "delete_object" /\ life # "live"
    /\ UNCHANGED object

Init ==
    /\ entries = [k \in Keys |-> Absent]
    /\ version = 0
    /\ life = "absent"
    /\ request = NoRequest
    /\ pending = FALSE

Ask ==
    /\ ~pending
    /\ request' \in Requests
    /\ pending' = TRUE
    /\ UNCHANGED object

Answer ==
    /\ pending
    /\ pending' = FALSE
    /\ UNCHANGED request
    /\ \/ \E v \in Values : \/ SetEntry(request, v)
                            \/ Mutate(request, v)
                            \/ ZenohBatch(request, v)
                            \/ Upsert(request, v)
       \/ DeleteEntries(request)
       \/ DeleteObject(request)
       \/ Refuse(request)

Next == Ask \/ Answer

Spec == Init /\ [][Next]_<<object, request, pending>>
=============================================================================
