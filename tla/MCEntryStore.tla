---------------------------- MODULE MCEntryStore ----------------------------
(***************************************************************************)
(* Instances of EntryStore: the requests the handlers of each run issue.   *)
(***************************************************************************)
EXTENDS EntryStore, TLC

MCKeys == {1, 2}

Request(kind, puts, dels) ==
    [kind |-> kind, puts |-> puts, dels |-> dels, expect |-> NoExpect, cfg |-> FALSE]

SetOne    == Request("set_entry", {1}, {})
DeleteOne == Request("delete_entry", {}, {1})
DeleteObj == Request("delete_object", {}, {})
EmptyCfg  == [Request("upsert", {}, {}) EXCEPT !.cfg = TRUE]
Mutate    == Request("mutate", {1}, {2})
ZBatch    == Request("zbatch", {1}, {2})
BatchDel  == Request("batch_delete", {}, {1, 2})
Cas(v)    == [Request("mutate", {1, 2}, {}) EXCEPT !.expect = v]
CasDel(v) == [Request("mutate", {}, {1}) EXCEPT !.expect = v]

\* Every operation, with enough argument shapes to reach every step.
AllRequests == {SetOne, DeleteOne, DeleteObj, EmptyCfg, Mutate, ZBatch, BatchDel, CasDel(1)}

\* Batches with a version check only.
CasRequests == {Cas(0), Cas(1)}
=============================================================================
