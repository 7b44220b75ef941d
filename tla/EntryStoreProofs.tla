-------------------------- MODULE EntryStoreProofs --------------------------
(***************************************************************************)
(* Proofs about EntryStore for any number of handlers, keys, requests,     *)
(* operations and aborts, and that the store, used by one caller at a      *)
(* time, implements ObjectSpec.                                            *)
(***************************************************************************)
EXTENDS EntryStoreSequential, FiniteSetTheorems, TLAPS


LEMMA EntryPointType ==
    ASSUME NEW r \in Operation
    PROVE  EntryPoint(r) \in Labels
  BY DEF EntryPoint, FirstWrite, Operation, Kinds, Labels

LEMMA GotoType ==
    ASSUME TypeOK, NEW p \in Clients, NEW l \in Labels, Goto(p, l)
    PROVE  pc' \in [Clients -> Labels]
  BY DEF Goto, TypeOK

LEMMA FinishType ==
    ASSUME TypeOK, NEW p \in Clients, Finish(p)
    PROVE  /\ pc' \in [Clients -> Labels]
           /\ todo' \in [Clients -> SUBSET Keys]
           /\ stage' \in [Clients -> Stages]
  <1>1. op[p] \in Operation
    BY DEF TypeOK
  <1>2. Return(p) \in Labels
    BY DEF Return, Labels
  <1>3. op[p].dels \in SUBSET Keys
    BY <1>1 DEF Operation
  <1>4. QED
    BY <1>2, <1>3 DEF Finish, Goto, TypeOK, Stages

LEMMA ContextType ==
    ASSUME TypeOK, NEW p \in Clients
    PROVE  [keys |-> ChangedKeys(p), after |-> snap[p].version, cfg |-> EventConfig(p)]
               \in Context
  <1>1. /\ op[p] \in Operation /\ snap[p] \in Metadata /\ config \in BOOLEAN
        /\ hit[p] \in SUBSET Keys /\ cur[p] \in SUBSET Keys
    BY DEF TypeOK
  <1>2. \E K \in SUBSET Keys : ChangedKeys(p) \in [K -> Action]
    BY <1>1 DEF ChangedKeys, DeletesOne, Operation, Action
  <1>3. EventConfig(p) \in BOOLEAN
    BY DEF EventConfig
  <1>4. snap[p].version \in Nat
    BY <1>1 DEF Metadata
  <1>5. QED
    BY <1>2, <1>3, <1>4 DEF Context

LEMMA BeginType ==
    ASSUME TypeOK, NEW p \in Clients, Begin(p)
    PROVE  TypeOK'
  <1>1. PICK r \in Requests :
            /\ op' = [op EXCEPT ![p] = r]
            /\ Goto(p, EntryPoint(r))
            /\ todo' = [todo EXCEPT ![p] = FirstKeys(r)]
            /\ cur' = [cur EXCEPT ![p] = IF r.kind = "delete_entry" THEN r.dels ELSE {}]
            /\ stage' = [stage EXCEPT ![p] =
                            IF r.kind = "mutate" /\ r.puts = {} THEN "dels" ELSE "one"]
    BY DEF Begin
  <1>2. r \in Operation
    BY EntryStoreAssumption
  <1>3. pc' \in [Clients -> Labels]
    BY <1>1, <1>2, EntryPointType, GotoType
  <1>4. FirstKeys(r) \in SUBSET Keys /\ r.dels \in SUBSET Keys
    BY <1>2 DEF FirstKeys, Operation
  <1>5. /\ op' \in [Clients -> Operation] /\ todo' \in [Clients -> SUBSET Keys]
        /\ cur' \in [Clients -> SUBSET Keys] /\ stage' \in [Clients -> Stages]
    BY <1>1, <1>2, <1>4 DEF TypeOK, Stages
  <1>6. DefaultMetadata \in Metadata
    BY DEF DefaultMetadata, Metadata
  <1>7. QED
    BY <1>3, <1>5, <1>6 DEF TypeOK, Begin, records, history

\* Type correctness of a handler's steps.
LEMMA StepType ==
    ASSUME TypeOK, NEW p \in Clients, Step(p)
    PROVE  TypeOK'
  <1> USE DEF TypeOK, Goto, Labels, records, call, marks, counts, history
  <1>0. /\ op[p] \in Operation /\ snap[p] \in Metadata /\ id[p] \in Nat
        /\ todo[p] \in SUBSET Keys /\ hit[p] \in SUBSET Keys /\ cur[p] \in SUBSET Keys
    OBVIOUS
  <1>c. op[p].puts \in SUBSET Keys /\ op[p].dels \in SUBSET Keys
    BY <1>0 DEF Operation
  <1>d. DefaultMetadata \in Metadata
    BY DEF DefaultMetadata, Metadata
  <1>m. MetaOrDefault \in Metadata
    BY <1>d DEF MetaOrDefault
  <1>k. Present \in SUBSET Keys
    BY DEF Present
  <1>1. CASE Exist(p)
    BY <1>1, <1>0, <1>c DEF Exist
  <1>2. CASE WriteEntry(p)
    <2>1. PICK k \in todo[p] :
              /\ entry' = [entry EXCEPT ![k] = id[p]]
              /\ todo' = [todo EXCEPT ![p] =
                             IF todo[p] \ {k} = {} /\ op[p].kind = "zbatch"
                             THEN op[p].dels ELSE todo[p] \ {k}]
      BY <1>2 DEF WriteEntry
    <2>2. entry' \in [Keys -> Nat] /\ todo' \in [Clients -> SUBSET Keys]
      BY <1>0, <1>c, <2>1
    <2>3. pc' \in [Clients -> Labels]
      BY <1>2 DEF WriteEntry
    <2>4. QED
      BY <1>2, <2>2, <2>3 DEF WriteEntry
  <1>3. CASE CasCheck(p)
    BY <1>3, <1>0, <1>c, <1>m DEF CasCheck, FirstWrite
  <1>4. CASE ZenohBatchGet(p)
    BY <1>4, <1>m DEF ZenohBatchGet
  <1>5. CASE ZenohBatchRemove(p)
    BY <1>5, <1>0 DEF ZenohBatchRemove, Absent
  <1>6. CASE MetaGet(p)
    BY <1>6, <1>m DEF MetaGet
  <1>7. CASE MetaPut(p)
    <2>1. /\ pc' \in [Clients -> Labels] /\ todo' \in [Clients -> SUBSET Keys]
          /\ stage' \in [Clients -> Stages]
      BY <1>7, FinishType DEF MetaPut
    <2>2. [version |-> snap[p].version + Increments(p), tomb |-> snap[p].tomb] \in Metadata
      BY <1>0 DEF Metadata, Increments
    <2>3. meta' \in Metadata /\ tombAt' \in Nat /\ snap' \in [Clients -> Metadata]
      BY <1>7, <2>2 DEF MetaPut, PutMeta
    <2>4. bumps' \in Nat
      BY <1>7 DEF MetaPut, Increments
    <2>5. QED
      BY <1>7, <2>1, <2>3, <2>4 DEF MetaPut
  <1>8. CASE Notify(p)
    <2>1. /\ pc' \in [Clients -> Labels] /\ todo' \in [Clients -> SUBSET Keys]
          /\ stage' \in [Clients -> Stages]
      BY <1>8, FinishType DEF Notify
    <2>2. events' \in Seq(Context)
      BY <1>8, ContextType DEF Notify
    <2>3. QED
      BY <1>8, <2>1, <2>2 DEF Notify
  <1>9. CASE DeleteExist(p)
    <2>1. /\ pc' \in [Clients -> Labels] /\ todo' \in [Clients -> SUBSET Keys]
          /\ stage' \in [Clients -> Stages]
      BY <1>9, FinishType DEF DeleteExist
    <2>2. QED
      BY <1>9, <2>1 DEF DeleteExist
  <1>10. CASE BatchDeleteExist(p)
    <2>1. pc' \in [Clients -> Labels]
      BY <1>10 DEF BatchDeleteExist
    <2>2. todo' \in [Clients -> SUBSET Keys] /\ cur' \in [Clients -> SUBSET Keys]
      <3>1. CASE UNCHANGED <<todo, cur>>
        BY <3>1
      <3>2. ASSUME NEW k \in todo[p], todo' = [todo EXCEPT ![p] = @ \ {k}],
                   cur' = [cur EXCEPT ![p] = {k}]
            PROVE  todo' \in [Clients -> SUBSET Keys] /\ cur' \in [Clients -> SUBSET Keys]
        <4>1. {k} \in SUBSET Keys /\ todo[p] \ {k} \in SUBSET Keys
          BY <1>0
        <4>2. QED
          BY <3>2, <4>1
      <3>3. QED
        BY <1>10, <3>1, <3>2 DEF BatchDeleteExist
    <2>3. QED
      BY <1>10, <2>1, <2>2 DEF BatchDeleteExist
  <1>11. CASE RemoveEntry(p)
    <2>1. entry' \in [Keys -> Nat]
      BY <1>11 DEF RemoveEntry, Absent
    <2>0. hit[p] \cup cur[p] \in SUBSET Keys
      BY <1>0
    <2>2. pc' \in [Clients -> Labels] /\ hit' \in [Clients -> SUBSET Keys]
      BY <1>11, <2>0, ZenonT(60) DEF RemoveEntry
    <2>3. QED
      BY <1>11, <2>1, <2>2 DEF RemoveEntry
  <1>12. CASE MutateCheck(p)
    BY <1>12 DEF MutateCheck
  <1>13. CASE MutateGet(p)
    <2>1. pc' \in [Clients -> Labels] /\ stage' \in [Clients -> Stages]
      BY <1>13 DEF MutateGet, Stages
    <2>2. /\ todo' \in [Clients -> SUBSET Keys] /\ cur' \in [Clients -> SUBSET Keys]
          /\ hit' \in [Clients -> SUBSET Keys]
      <3>1. CASE UNCHANGED <<todo, hit, cur>>
        BY <3>1
      <3>2. ASSUME NEW k \in todo[p], todo' = [todo EXCEPT ![p] = @ \ {k}],
                   cur' = [cur EXCEPT ![p] = {k}],
                   hit' = [hit EXCEPT ![p] = @ \cup ({k} \cap Present)]
            PROVE  /\ todo' \in [Clients -> SUBSET Keys] /\ cur' \in [Clients -> SUBSET Keys]
                   /\ hit' \in [Clients -> SUBSET Keys]
        <4>1. /\ {k} \in SUBSET Keys /\ todo[p] \ {k} \in SUBSET Keys
              /\ hit[p] \cup ({k} \cap Present) \in SUBSET Keys
          BY <1>0, <1>k
        <4>2. QED
          BY <3>2, <4>1
      <3>3. QED
        BY <1>13, <3>1, <3>2 DEF MutateGet
    <2>3. QED
      BY <1>13, <2>1, <2>2 DEF MutateGet
  <1>14. CASE MutateVersion(p)
    BY <1>14, <1>0, <1>c DEF MutateVersion, Stages
  <1>15. CASE EnsureGet(p)
    BY <1>15 DEF EnsureGet
  <1>16. CASE EnsurePut(p)
    BY <1>16, <1>d DEF EnsurePut, PutMeta
  <1>17. CASE ConfigPut(p)
    BY <1>17 DEF ConfigPut
  <1>18. CASE DeleteGet(p)
    BY <1>18, ZenonT(60) DEF DeleteGet
  <1>19. CASE ListPage(p)
    <2>1. PageOf(Unlisted(p)) \in SUBSET Keys
      BY <1>k DEF PageOf, Unlisted
    <2>2. QED
      BY <1>19, <1>0, <2>1 DEF ListPage
  <1>20. CASE ReconMeta(p)
    BY <1>20 DEF ReconMeta
  <1>21. CASE RangeScan(p)
    BY <1>21, <1>0, <1>k DEF RangeScan, Seen
  <1>22. CASE RangeMeta(p)
    BY <1>22 DEF RangeMeta
  <1>23. CASE RangeConfig(p)
    BY <1>23, <1>0 DEF RangeConfig
  <1>24. CASE RangeKey(p)
    BY <1>24, <1>0 DEF RangeKey, Absent
  <1>25. CASE TombPut(p)
    <2>1. [version |-> snap[p].version + 1, tomb |-> TRUE] \in Metadata
      BY <1>0 DEF Metadata
    <2>2. meta' \in Metadata /\ tombAt' \in Nat /\ snap' \in [Clients -> Metadata]
      BY <1>25, <2>1 DEF TombPut, PutMeta
    <2>3. QED
      BY <1>25, <2>2 DEF TombPut
  <1>26. CASE ConfigGet(p)
    BY <1>26, <1>0 DEF ConfigGet, Seen
  <1>27. CASE PredeleteConfig(p)
    BY <1>27, <1>0 DEF PredeleteConfig, Seen
  <1>28. QED
    BY <1>1, <1>2, <1>3, <1>4, <1>5, <1>6, <1>7, <1>8, <1>9, <1>10, <1>11, <1>12, <1>13,
       <1>14, <1>15, <1>16, <1>17, <1>18, <1>19, <1>20, <1>21, <1>22, <1>23, <1>24, <1>25,
       <1>26, <1>27
       DEF Step

LEMMA InitType == Init => TypeOK
  <1>1. NoOperation \in Operation
    BY DEF NoOperation, Operation, Kinds
  <1>2. DefaultMetadata \in Metadata
    BY DEF DefaultMetadata, Metadata
  <1> SUFFICES ASSUME Init PROVE TypeOK
    OBVIOUS
  <1>3. entry \in [Keys -> Nat] /\ meta \in Metadata \cup {NoMeta} /\ config \in BOOLEAN
    BY DEF Init, Absent
  <1>4. /\ pc \in [Clients -> Labels] /\ op \in [Clients -> Operation]
        /\ id \in [Clients -> Nat] /\ snap \in [Clients -> Metadata]
    BY <1>1, <1>2 DEF Init, Labels
  <1>5. /\ todo \in [Clients -> SUBSET Keys] /\ hit \in [Clients -> SUBSET Keys]
        /\ cur \in [Clients -> SUBSET Keys] /\ stage \in [Clients -> Stages]
        /\ seen \in [Clients -> SUBSET Seen]
    BY DEF Init, Stages
  <1>6. events \in Seq(Context)
    BY DEF Init
  <1>7. QED
    BY <1>3, <1>4, <1>5, <1>6 DEF Init, TypeOK

LEMMA NextType == TypeOK /\ [Next]_vars => TypeOK'
  <1> SUFFICES ASSUME TypeOK, [Next]_vars PROVE TypeOK'
    OBVIOUS
  <1>1. ASSUME NEW p \in Clients, Begin(p) PROVE TypeOK'
    BY <1>1, BeginType
  <1>2. ASSUME NEW p \in Clients, Step(p) PROVE TypeOK'
    BY <1>2, StepType
  <1>3. ASSUME NEW p \in Clients, Abort(p) PROVE TypeOK'
    BY <1>3 DEF TypeOK, Abort, Goto, Labels, records, call, marks, history
  <1>4. CASE UNCHANGED vars
    BY <1>4 DEF TypeOK, vars, records, call, marks, counts, history
  <1>5. QED
    BY <1>1, <1>2, <1>3, <1>4 DEF Next

\* The records and the handlers' locals always hold values of their types,
\* whatever the handlers are asked to do and wherever they fail.
THEOREM TypeCorrect == Spec => []TypeOK
  BY InitType, NextType, PTL DEF Spec

-----------------------------------------------------------------------------
(* A tombstone survives every operation that begins after it.              *)

\* The steps of an object delete that has found a live object.
Deleting == {"page", "recon_meta", "pre_cfg", "range_scan", "range_meta", "range_cfg",
             "range_key", "tomb_put"}

\* The handler's copy of the metadata will be written back.
Holds(p) == \/ pc[p] \in {"meta_put", "zb_remove"}
            \/ pc[p] \in {"exist", "write"} /\ op[p].kind # "set_entry"

\* Nothing the handler has read says that the object is live or absent.
Aware(p) == /\ Holds(p) => snap[p].tomb
            /\ pc[p] \notin Deleting \cup {"ens_put"}

\* The inductive form of NoLateResurrection: every handler that began after the
\* object became tombstoned is aware of the tombstone.
LateInv ==
    /\ tombAt <= issued
    /\ \A p \in Clients : id[p] <= issued
    /\ Tombstoned =>
          \A p \in Clients : pc[p] # "idle" /\ id[p] > tombAt => Aware(p)

\* A step that leaves the tombstone alone keeps the invariant if it leaves the
\* handler that takes it aware.
LEMMA LateFrame ==
    ASSUME LateInv, NEW p \in Clients, UNCHANGED <<op, id, issued, tombAt>>,
           Tombstoned' => Tombstoned,
           \A q \in Clients : q # p => pc'[q] = pc[q] /\ snap'[q] = snap[q],
           pc[p] # "idle",
           Tombstoned /\ Aware(p) /\ pc'[p] # "idle" => Aware(p)'
    PROVE  LateInv'
  <1>1. ASSUME NEW q \in Clients, Tombstoned, pc'[q] # "idle", id[q] > tombAt
        PROVE  Aware(q)'
    <2>1. CASE q = p
      BY <1>1, <2>1 DEF LateInv
    <2>2. CASE q # p
      <3>1. Aware(q)
        BY <1>1, <2>2 DEF LateInv
      <3>2. QED
        BY <2>2, <3>1 DEF Aware, Holds
    <2>3. QED
      BY <2>1, <2>2
  <1>2. QED
    BY <1>1 DEF LateInv

\* A step that makes the object tombstoned: nobody has begun since.
LEMMA LateTombstone ==
    ASSUME TypeOK, LateInv, UNCHANGED <<id, issued>>, tombAt' = issued
    PROVE  LateInv'
  BY DEF LateInv, TypeOK

LEMMA PutMetaTombstones ==
    ASSUME NEW m \in Metadata, PutMeta(m)
    PROVE  Tombstoned' <=> m.tomb
  BY EntryStoreAssumption DEF PutMeta, Tombstoned

LEMMA LateStep ==
    ASSUME TypeOK, LateInv, NEW p \in Clients, Step(p)
    PROVE  LateInv'
  <1> USE DEF TypeOK, Goto, records, call, marks, counts, history
  <1> DEFINE Others == \A q \in Clients : q # p => pc'[q] = pc[q] /\ snap'[q] = snap[q]
             Keeps == Tombstoned /\ Aware(p) /\ pc'[p] # "idle" => Aware(p)'
             Same == /\ UNCHANGED <<op, id, issued, tombAt>>
                     /\ Tombstoned' => Tombstoned
                     /\ pc[p] # "idle"
  <1>0. Others /\ Keeps /\ Same => LateInv'
    BY LateFrame
  <1>p. ASSUME MetaPut(p) \/ TombPut(p)
        PROVE  \E m \in Metadata : PutMeta(m) /\ (Tombstoned' <=> m.tomb)
    <2>1. snap[p] \in Metadata
      OBVIOUS
    <2>2. CASE MetaPut(p)
      <3>1. [version |-> snap[p].version + Increments(p), tomb |-> snap[p].tomb] \in Metadata
        BY <2>1 DEF Metadata, Increments
      <3>2. QED
        BY <2>2, <3>1, PutMetaTombstones DEF MetaPut
    <2>3. CASE TombPut(p)
      <3>1. [version |-> snap[p].version + 1, tomb |-> TRUE] \in Metadata
        BY <2>1 DEF Metadata
      <3>2. QED
        BY <2>3, <3>1, PutMetaTombstones DEF TombPut
    <2>4. QED
      BY <1>p, <2>2, <2>3
  <1> USE DEF Tombstoned, Aware, Holds, Deleting
  <1>1. CASE Exist(p)
    BY <1>1, <1>0 DEF Exist
  <1>2. CASE WriteEntry(p)
    BY <1>2, <1>0 DEF WriteEntry
  <1>3. CASE CasCheck(p)
    BY <1>3, <1>0 DEF CasCheck, FirstWrite, MetaOrDefault
  <1>4. CASE ZenohBatchGet(p)
    BY <1>4, <1>0 DEF ZenohBatchGet, MetaOrDefault
  <1>5. CASE ZenohBatchRemove(p)
    BY <1>5, <1>0 DEF ZenohBatchRemove
  <1>6. CASE MetaGet(p)
    BY <1>6, <1>0 DEF MetaGet, MetaOrDefault
  <1>7. CASE MetaPut(p)
    <2>1. CASE ~Tombstoned /\ Tombstoned'
      <3>1. tombAt' = issued
        BY <1>7, <2>1 DEF MetaPut, PutMeta
      <3>2. QED
        BY <1>7, <3>1, LateTombstone DEF MetaPut
    <2>2. CASE Tombstoned' => Tombstoned
      <3>1. tombAt' = tombAt
        BY <1>7, <2>2, <1>p DEF PutMeta
      <3>2. QED
        BY <1>7, <1>0, <2>2, <3>1 DEF MetaPut, Finish, Return
    <2>3. QED
      BY <2>1, <2>2
  <1>8. CASE Notify(p)
    BY <1>8, <1>0 DEF Notify, Finish, Return
  <1>9. CASE DeleteExist(p)
    BY <1>9, <1>0 DEF DeleteExist, Finish, Return
  <1>10. CASE BatchDeleteExist(p)
    BY <1>10, <1>0 DEF BatchDeleteExist
  <1>11. CASE RemoveEntry(p)
    BY <1>11, <1>0 DEF RemoveEntry
  <1>12. CASE MutateCheck(p)
    BY <1>12, <1>0 DEF MutateCheck
  <1>13. CASE MutateGet(p)
    BY <1>13, <1>0 DEF MutateGet
  <1>14. CASE MutateVersion(p)
    BY <1>14, <1>0 DEF MutateVersion
  <1>15. CASE EnsureGet(p)
    BY <1>15, <1>0 DEF EnsureGet
  <1>16. CASE EnsurePut(p)
    BY <1>16, <1>0 DEF EnsurePut, PutMeta, DefaultMetadata
  <1>17. CASE ConfigPut(p)
    BY <1>17, <1>0 DEF ConfigPut
  <1>18. CASE DeleteGet(p)
    BY <1>18, <1>0 DEF DeleteGet
  <1>19. CASE ListPage(p)
    BY <1>19, <1>0 DEF ListPage
  <1>20. CASE ReconMeta(p)
    BY <1>20, <1>0 DEF ReconMeta
  <1>21. CASE RangeScan(p)
    BY <1>21, <1>0 DEF RangeScan
  <1>22. CASE RangeMeta(p)
    BY <1>22, <1>0 DEF RangeMeta
  <1>23. CASE RangeConfig(p)
    BY <1>23, <1>0 DEF RangeConfig
  <1>24. CASE RangeKey(p)
    BY <1>24, <1>0 DEF RangeKey
  <1>25. CASE TombPut(p)
    <2>1. CASE ~Tombstoned /\ Tombstoned'
      <3>1. tombAt' = issued
        BY <1>25, <2>1 DEF TombPut, PutMeta
      <3>2. QED
        BY <1>25, <3>1, LateTombstone DEF TombPut
    <2>2. CASE Tombstoned' => Tombstoned
      <3>1. tombAt' = tombAt
        BY <1>25, <2>2, <1>p DEF PutMeta
      <3>2. QED
        BY <1>25, <1>0, <2>2, <3>1 DEF TombPut
    <2>3. QED
      BY <2>1, <2>2
  <1>26. CASE ConfigGet(p)
    BY <1>26, <1>0 DEF ConfigGet
  <1>27. CASE PredeleteConfig(p)
    BY <1>27, <1>0 DEF PredeleteConfig
  <1>28. QED
    BY <1>1, <1>2, <1>3, <1>4, <1>5, <1>6, <1>7, <1>8, <1>9, <1>10, <1>11, <1>12, <1>13,
       <1>14, <1>15, <1>16, <1>17, <1>18, <1>19, <1>20, <1>21, <1>22, <1>23, <1>24, <1>25,
       <1>26, <1>27
       DEF Step

LEMMA LateBegin ==
    ASSUME TypeOK, LateInv, NEW p \in Clients, Begin(p)
    PROVE  LateInv'
  <1>1. PICK r \in Requests : op' = [op EXCEPT ![p] = r] /\ Goto(p, EntryPoint(r))
    BY DEF Begin
  <1>2. r \in Operation
    BY EntryStoreAssumption
  <1>3. /\ EntryPoint(r) \notin Deleting \cup {"ens_put", "meta_put", "zb_remove"}
        /\ EntryPoint(r) \in {"exist", "write"} => r.kind = "set_entry"
    BY <1>2 DEF EntryPoint, FirstWrite, Operation, Kinds, Deleting
  <1>4. Aware(p)'
    BY <1>1, <1>3 DEF Aware, Holds, Goto, TypeOK
  <1>5. ASSUME NEW q \in Clients, q # p, Aware(q) PROVE Aware(q)'
    BY <1>1, <1>5 DEF Aware, Holds, Goto, TypeOK, Begin
  <1>6. ASSUME NEW q \in Clients, q # p PROVE pc'[q] = pc[q] /\ id'[q] = id[q]
    BY <1>1, <1>6 DEF Goto, TypeOK, Begin
  <1>7. (Tombstoned' <=> Tombstoned) /\ tombAt' = tombAt
    BY DEF Begin, records, history, Tombstoned
  <1>8. issued' = issued + 1 /\ id'[p] = issued + 1
    BY DEF Begin, TypeOK
  <1>9. tombAt' <= issued' /\ \A q \in Clients : id'[q] <= issued'
    <2>1. issued \in Nat /\ tombAt \in Nat /\ tombAt <= issued
      BY DEF LateInv, TypeOK
    <2>2. ASSUME NEW q \in Clients PROVE id[q] \in Nat /\ id[q] <= issued
      BY <2>2 DEF LateInv, TypeOK
    <2>3. ASSUME NEW q \in Clients PROVE id'[q] <= issued'
      <3>1. CASE q = p
        BY <1>8, <2>1, <3>1
      <3>2. CASE q # p
        BY <1>6, <1>8, <2>1, <2>2, <3>2
      <3>3. QED
        BY <3>1, <3>2
    <2>4. QED
      BY <1>7, <1>8, <2>1, <2>3
  <1>10. ASSUME NEW q \in Clients, Tombstoned, pc'[q] # "idle", id'[q] > tombAt
         PROVE  Aware(q)'
    <2>1. CASE q = p
      BY <1>4, <2>1
    <2>2. CASE q # p
      BY <1>5, <1>6, <1>10, <2>2 DEF LateInv
    <2>3. QED
      BY <2>1, <2>2
  <1>11. QED
    BY <1>7, <1>9, <1>10 DEF LateInv

LEMMA LateAbort ==
    ASSUME TypeOK, LateInv, NEW p \in Clients, Abort(p)
    PROVE  LateInv'
  <1>1. UNCHANGED <<meta, op, id, snap, issued, tombAt>>
    BY DEF Abort, records, call, history
  <1>2. pc' = [pc EXCEPT ![p] = "idle"]
    BY DEF Abort, Goto
  <1>3. \A q \in Clients : q # p => pc'[q] = pc[q] /\ snap'[q] = snap[q]
    BY <1>1, <1>2 DEF TypeOK
  <1>4. pc[p] # "idle" /\ pc'[p] = "idle"
    BY <1>2 DEF Abort, TypeOK
  <1>5. Tombstoned' => Tombstoned
    BY <1>1 DEF Tombstoned
  <1>6. QED
    BY <1>1, <1>3, <1>4, <1>5, LateFrame

LEMMA LateInductive == TypeOK /\ LateInv /\ [Next]_vars => LateInv'
  <1> SUFFICES ASSUME TypeOK, LateInv, [Next]_vars PROVE LateInv'
    OBVIOUS
  <1>1. CASE Next
    BY <1>1, LateBegin, LateStep, LateAbort DEF Next
  <1>2. CASE UNCHANGED vars
    BY <1>2 DEF LateInv, Tombstoned, Aware, Holds, vars, records, call, counts, history
  <1>3. QED
    BY <1>1, <1>2

LEMMA LateCorrect == Spec => []LateInv
  <1>1. Init => LateInv
    BY DEF Init, LateInv, Tombstoned
  <1>2. QED
    BY <1>1, LateInductive, TypeCorrect, PTL DEF Spec

LEMMA MetadataWriters ==
    ASSUME NEW p \in Clients, Begin(p) \/ Step(p) \/ Abort(p),
           ~MetaPut(p), ~EnsurePut(p), ~RangeMeta(p), ~TombPut(p)
    PROVE  UNCHANGED <<meta, bumps, tombAt>>
  BY DEF Begin, Step, Abort, records, history, Exist, WriteEntry, CasCheck, ZenohBatchGet,
     ZenohBatchRemove, MetaGet, Notify, DeleteExist, BatchDeleteExist, RemoveEntry, MutateCheck,
     MutateGet, MutateVersion, EnsureGet, ConfigPut, DeleteGet, ListPage, ReconMeta, RangeScan,
     RangeConfig, RangeKey, ConfigGet, PredeleteConfig

\* Only four steps write the metadata record, and a handler that is aware of the
\* tombstone does not end it in any of them.
LEMMA LateResurrection ==
    ASSUME TypeOK, LateInv, NEW p \in Clients, Begin(p) \/ Step(p) \/ Abort(p),
           Tombstoned, ~Tombstoned'
    PROVE  pc'[p] # pc[p] /\ id[p] <= tombAt
  <1> USE DEF TypeOK, Goto
  <1>0. ASSUME pc[p] # "idle", ~Aware(p) PROVE id[p] <= tombAt
    BY <1>0 DEF LateInv
  <1>1. CASE MetaPut(p)
    <2>1. pc[p] = "meta_put" /\ pc'[p] # "meta_put"
      BY <1>1 DEF MetaPut, Finish, Return
    <2>2. [version |-> snap[p].version + Increments(p), tomb |-> snap[p].tomb] \in Metadata
      BY DEF Metadata, Increments
    <2>3. ~snap[p].tomb
      BY <1>1, <2>2, PutMetaTombstones DEF MetaPut
    <2>4. QED
      BY <1>0, <2>1, <2>3 DEF Aware, Holds
  <1>2. CASE EnsurePut(p)
    BY <1>0, <1>2 DEF EnsurePut, Aware
  <1>3. CASE RangeMeta(p)
    BY <1>0, <1>3 DEF RangeMeta, Aware, Deleting
  <1>4. CASE TombPut(p)
    BY <1>0, <1>4 DEF TombPut, Aware, Deleting
  <1>5. CASE UNCHANGED meta
    BY <1>5 DEF Tombstoned
  <1>6. QED
    BY <1>1, <1>2, <1>3, <1>4, <1>5, MetadataWriters

\* An operation begun after the object became tombstoned never brings it back,
\* for any number of handlers, requests and failures: the metadata it writes is
\* a copy of the tombstone, and it neither creates default metadata nor deletes.
THEOREM LateResurrectionNever == Spec => NoLateResurrection
  <1>1. TypeOK /\ LateInv /\ [Next]_vars =>
            [Tombstoned /\ ~Tombstoned' =>
                \E p \in Clients : pc'[p] # pc[p] /\ id[p] <= tombAt]_vars
    <2> SUFFICES ASSUME TypeOK, LateInv, Next, Tombstoned, ~Tombstoned'
                 PROVE  \E p \in Clients : pc'[p] # pc[p] /\ id[p] <= tombAt
      OBVIOUS
    <2>1. PICK p \in Clients : Begin(p) \/ Step(p) \/ Abort(p)
      BY DEF Next
    <2>2. QED
      BY <2>1, LateResurrection
  <1>2. QED
    BY <1>1, TypeCorrect, LateCorrect, PTL DEF Spec, NoLateResurrection

-----------------------------------------------------------------------------
(* The version never runs ahead of the increments written.                 *)

LEMMA VersionStep ==
    ASSUME TypeOK, VersionNeverAhead, NEW p \in Clients, Begin(p) \/ Step(p) \/ Abort(p)
    PROVE  VersionNeverAhead'
  <1> USE DEF TypeOK
  <1>0. snap[p] \in Metadata /\ snap[p].version \in Nat
    BY DEF Metadata
  <1>1. CASE MetaPut(p)
    <2>1. Increments(p) \in Nat
      BY DEF Increments
    <2>2. QED
      BY <1>0, <1>1, <2>1 DEF MetaPut, PutMeta, VersionNeverAhead, Metadata
  <1>2. CASE EnsurePut(p)
    BY <1>2 DEF EnsurePut, PutMeta, DefaultMetadata, VersionNeverAhead
  <1>3. CASE RangeMeta(p)
    BY <1>3 DEF RangeMeta, VersionNeverAhead, history
  <1>4. CASE TombPut(p)
    BY <1>0, <1>4 DEF TombPut, PutMeta, VersionNeverAhead, Metadata
  <1>5. CASE UNCHANGED <<meta, bumps>>
    <2>1. \/ snap' = snap
          \/ snap' = [snap EXCEPT ![p] = MetaOrDefault]
          \/ snap' = [snap EXCEPT ![p] = DefaultMetadata]
          \/ meta # NoMeta /\ snap' = [snap EXCEPT ![p] = meta]
          \/ MetaPut(p) \/ TombPut(p)
      BY DEF Begin, Step, Abort, Exist, WriteEntry, CasCheck, ZenohBatchGet, ZenohBatchRemove,
         MetaGet, Notify, DeleteExist, BatchDeleteExist, RemoveEntry, MutateCheck, MutateGet,
         MutateVersion, EnsureGet, EnsurePut, ConfigPut, DeleteGet, ListPage, ReconMeta,
         RangeScan, RangeMeta, RangeConfig, RangeKey, ConfigGet, PredeleteConfig
    <2>2. DefaultMetadata.version <= bumps
      BY DEF DefaultMetadata
    <2>3. MetaOrDefault.version <= bumps
      BY <2>2 DEF MetaOrDefault, VersionNeverAhead
    <2>4. ASSUME NEW m, m.version <= bumps, snap' = [snap EXCEPT ![p] = m]
          PROVE  VersionNeverAhead'
      BY <1>5, <2>4 DEF VersionNeverAhead
    <2>5. CASE snap' = snap
      BY <1>5, <2>5 DEF VersionNeverAhead
    <2>6. CASE meta # NoMeta /\ snap' = [snap EXCEPT ![p] = meta]
      BY <2>4, <2>6 DEF VersionNeverAhead
    <2>7. QED
      BY <1>1, <1>4, <2>1, <2>2, <2>3, <2>4, <2>5, <2>6
  <1>6. QED
    BY <1>1, <1>2, <1>3, <1>4, <1>5, MetadataWriters

\* No interleaving makes the version claim more mutations than were made.
THEOREM VersionBounded == Spec => []VersionNeverAhead
  <1>1. Init => VersionNeverAhead
    BY DEF Init, VersionNeverAhead, DefaultMetadata
  <1>2. TypeOK /\ VersionNeverAhead /\ [Next]_vars => VersionNeverAhead'
    <2> SUFFICES ASSUME TypeOK, VersionNeverAhead, [Next]_vars PROVE VersionNeverAhead'
      OBVIOUS
    <2>1. CASE Next
      BY <2>1, VersionStep DEF Next
    <2>2. CASE UNCHANGED vars
      BY <2>2 DEF VersionNeverAhead, vars, records, history
    <2>3. QED
      BY <2>1, <2>2
  <1>3. QED
    BY <1>1, <1>2, TypeCorrect, PTL DEF Spec

-----------------------------------------------------------------------------
(* Entries do not outlive their metadata record.                           *)

\* The handler will write the metadata record before it returns.
Owes(p) == pc[p] \in {"write", "meta_get", "meta_put", "zb_remove", "range_scan", "range_meta",
                      "range_cfg", "range_key", "tomb_put"}

\* The inductive form of NoOrphanEntries: while entries have no metadata record,
\* some handler owes it.
OrphanInv ==
    Present # {} /\ meta = NoMeta /\ aborts = 0 => \E p \in Clients : Owes(p)

\* A step leaves the handler owing the record, or with the record there, or it
\* neither owed it nor added an entry nor removed the record.
LEMMA OrphanStep ==
    ASSUME TypeOK, NEW p \in Clients, Begin(p) \/ Step(p)
    PROVE  \/ Owes(p)'
           \/ meta' # NoMeta
           \/ ~Owes(p) /\ meta' = meta /\ Present' \subseteq Present
  <1> USE DEF TypeOK, Goto, Owes, records
  <1>0. snap[p] \in Metadata
    OBVIOUS
  <1>1. CASE WriteEntry(p) \/ ZenohBatchRemove(p) \/ MetaGet(p) \/ RangeScan(p)
             \/ RangeMeta(p) \/ RangeConfig(p) \/ RangeKey(p)
    BY <1>1 DEF MetaGet, RangeConfig, RangeKey, RangeMeta, RangeScan, WriteEntry, ZenohBatchRemove
  <1>2. CASE MetaPut(p)
    <2>1. [version |-> snap[p].version + Increments(p), tomb |-> snap[p].tomb] \in Metadata
      BY <1>0 DEF Metadata, Increments
    <2>2. QED
      BY <1>2, <2>1, EntryStoreAssumption DEF MetaPut, PutMeta
  <1>3. CASE EnsurePut(p)
    <2>1. DefaultMetadata \in Metadata
      BY DEF DefaultMetadata, Metadata
    <2>2. QED
      BY <1>3, <2>1, EntryStoreAssumption DEF EnsurePut, PutMeta
  <1>4. CASE TombPut(p)
    <2>1. [version |-> snap[p].version + 1, tomb |-> TRUE] \in Metadata
      BY <1>0 DEF Metadata
    <2>2. QED
      BY <1>4, <2>1, EntryStoreAssumption DEF TombPut, PutMeta
  <1>5. CASE RemoveEntry(p)
    <2>1. entry' = [k \in Keys |-> IF k \in cur[p] THEN Absent ELSE entry[k]]
      BY <1>5 DEF RemoveEntry
    <2>2. Present' \subseteq Present
      BY <2>1 DEF Present
    <2>3. QED
      BY <1>5, <2>2 DEF RemoveEntry
  <1>6. CASE Begin(p) \/ Exist(p) \/ CasCheck(p) \/ ZenohBatchGet(p) \/ Notify(p) \/ DeleteExist(p)
             \/ BatchDeleteExist(p) \/ MutateCheck(p) \/ MutateGet(p) \/ MutateVersion(p)
             \/ EnsureGet(p) \/ ConfigPut(p) \/ DeleteGet(p) \/ ListPage(p) \/ ReconMeta(p)
             \/ ConfigGet(p) \/ PredeleteConfig(p)
    BY <1>6 DEF Present, Begin, Exist, CasCheck, ZenohBatchGet, Notify, DeleteExist,
       BatchDeleteExist, MutateCheck, MutateGet, MutateVersion, EnsureGet, ConfigPut,
       DeleteGet, ListPage, ReconMeta, ConfigGet, PredeleteConfig
  <1>7. QED
    BY <1>1, <1>2, <1>3, <1>4, <1>5, <1>6 DEF Step

LEMMA OrphanFrame ==
    ASSUME TypeOK, OrphanInv, NEW p \in Clients, Begin(p) \/ Step(p)
    PROVE  OrphanInv'
  <1> SUFFICES ASSUME Present' # {}, meta' = NoMeta, aborts' = 0
               PROVE  \E q \in Clients : Owes(q)'
    BY DEF OrphanInv
  <1>1. aborts = 0
    BY DEF Begin, Step, counts, Exist, WriteEntry, CasCheck, ZenohBatchGet, ZenohBatchRemove,
       MetaGet, MetaPut, Notify, DeleteExist, BatchDeleteExist, RemoveEntry, MutateCheck,
       MutateGet, MutateVersion, EnsureGet, EnsurePut, ConfigPut, DeleteGet, ListPage, ReconMeta,
       RangeScan, RangeMeta, RangeConfig, RangeKey, TombPut, ConfigGet,
       PredeleteConfig
  <1>2. ASSUME NEW q \in Clients, q # p PROVE pc'[q] = pc[q]
    <2>1. \E l : pc' = [pc EXCEPT ![p] = l]
      BY DEF Begin, Step, Goto, Finish, Exist, WriteEntry, CasCheck, ZenohBatchGet,
         ZenohBatchRemove, MetaGet, MetaPut, Notify, DeleteExist, BatchDeleteExist, RemoveEntry,
         MutateCheck, MutateGet, MutateVersion, EnsureGet, EnsurePut, ConfigPut, DeleteGet,
         ListPage, ReconMeta, RangeScan, RangeMeta, RangeConfig, RangeKey, TombPut, ConfigGet,
       PredeleteConfig
    <2>2. QED
      BY <1>2, <2>1 DEF TypeOK
  <1>3. CASE Owes(p)'
    BY <1>3
  <1>4. CASE ~Owes(p) /\ meta' = meta /\ Present' \subseteq Present
    <2>1. PICK q \in Clients : Owes(q)
      BY <1>1, <1>4 DEF OrphanInv
    <2>2. Owes(q)'
      BY <1>2, <1>4, <2>1 DEF Owes
    <2>3. QED
      BY <2>2
  <1>5. QED
    BY <1>3, <1>4, OrphanStep

LEMMA OrphanInductive == TypeOK /\ OrphanInv /\ [Next]_vars => OrphanInv'
  <1> SUFFICES ASSUME TypeOK, OrphanInv, [Next]_vars PROVE OrphanInv'
    OBVIOUS
  <1>1. ASSUME NEW p \in Clients, Abort(p) PROVE OrphanInv'
    BY <1>1 DEF Abort, OrphanInv, TypeOK
  <1>2. CASE UNCHANGED vars
    BY <1>2 DEF OrphanInv, Present, Owes, vars, records, counts
  <1>3. QED
    BY <1>1, <1>2, OrphanFrame DEF Next

\* However deletes and writes of the object interleave, when the handlers have
\* finished and none has failed, entries have their metadata record.
THEOREM OrphansNever == Spec => []NoOrphanEntries
  <1>1. Init => OrphanInv
    BY DEF Init, OrphanInv, Present
  <1>2. OrphanInv => NoOrphanEntries
    BY DEF OrphanInv, NoOrphanEntries, Quiet, Owes
  <1>3. QED
    BY <1>1, <1>2, OrphanInductive, TypeCorrect, PTL DEF Spec

-----------------------------------------------------------------------------
(***************************************************************************)
(* The refinement: an operation of many storage calls is one step of the   *)
(* abstract object, the one at which it returns.                           *)
(*                                                                         *)
(* The inductive invariant says for every label what the running operation *)
(* has done to the records it found (the history variable `pre`): which    *)
(* keys it has set and deleted and how often it has incremented the        *)
(* version.  At(p) lists the labels, Outcome(p) what an operation that has *)
(* returned has done; a lemma per action shows that its step leads from    *)
(* the one to the next.                                                    *)
(***************************************************************************)


\* The metadata record, with its default, and the keys, before the operation.
Default0 == IF pre.meta = NoMeta THEN DefaultMetadata ELSE pre.meta
Live0    == pre.meta # NoMeta /\ ~pre.meta.tomb

\* The entries with the keys of P set by p's operation and those of D deleted.
Result(p, P, D) ==
    [k \in Keys |-> IF k \in D THEN Absent ELSE IF k \in P THEN id[p] ELSE pre.entry[k]]

\* The metadata record after n increments; after none it need not exist.
Bumped(n) ==
    IF n = 0 THEN pre.meta
    ELSE [version |-> Default0.version + n, tomb |-> Default0.tomb]

\* The operation has set the keys of P, deleted those of D and incremented the
\* version n times, and done nothing else.
Made(p, P, D, n) == entry = Result(p, P, D) /\ meta = Bumped(n)

\* The keys of K a batch deletes: those that were there, or that it has set.
Found(p, K) == K \cap (KeysBefore \cup op[p].puts)

\* The operation is of one of the kinds K.
Kind(p, K) == op[p].kind \in K

\* The version the operation expects, if any, is the one it found.
Accepted(p) ==
    op[p].kind \in {"mutate", "zbatch"} => op[p].expect \in {NoExpect, Default0.version}

\* A loop over S has keys left to visit.
Visiting(p, S) == stage[p] = "one" /\ todo[p] # {} /\ todo[p] \subseteq S

\* The increments before the delete loop: one for the sets, if any.
Base(p) == IF op[p].puts = {} THEN 0 ELSE 1

\* The keys to delete, and to set, that the loop has visited.
Past(p) == op[p].dels \ todo[p]
Done(p) == op[p].puts \ todo[p]

\* The delete loop of batch_mutate_entries after its sets, or that of a batch
\* without sets, which remembers what it found.
Looping(p) ==
    /\ Kind(p, {"mutate"}) /\ Accepted(p)
    /\ todo[p] \subseteq op[p].dels
    /\ \/ stage[p] = "dels" /\ op[p].puts = {} /\ hit[p] = Found(p, Past(p))
       \/ stage[p] = "tail" /\ op[p].puts # {}

\* The loop has found the key k and deletes it.
Deletes(p, k) == Looping(p) /\ cur[p] = {k} /\ k \in Found(p, Past(p))

\* The second loop after a batch without sets: every key is gone.
Swept(p) ==
    /\ Kind(p, {"mutate"}) /\ Accepted(p) /\ op[p].puts = {}
    /\ stage[p] = "tail"
    /\ todo[p] \subseteq op[p].dels
    /\ Made(p, {}, op[p].dels, IF Found(p, op[p].dels) = {} THEN 0
                               ELSE 1 + Cardinality(Found(p, op[p].dels)))

\* Everything but the increment is done, and the increment is due.
Due(p) ==
    \/ /\ Kind(p, {"set_entry", "upsert", "mutate"}) /\ Accepted(p)
       /\ stage[p] = "one" /\ op[p].puts # {}
       /\ Made(p, op[p].puts, {}, 0)
    \/ /\ Kind(p, {"zbatch"}) /\ Accepted(p) /\ stage[p] = "one"
       /\ Made(p, op[p].puts, op[p].dels, 0)
    \/ /\ Kind(p, {"delete_entry", "batch_delete"})
       /\ stage[p] = "one" /\ Found(p, op[p].dels) # {}
       /\ Made(p, {}, op[p].dels, 0)
    \/ \E k \in Keys :
          /\ Deletes(p, k)
          /\ Made(p, op[p].puts, Past(p), Base(p) + Cardinality(Found(p, Past(p) \ {k})))
    \/ /\ Kind(p, {"mutate"}) /\ Accepted(p) /\ op[p].puts = {}
       /\ stage[p] = "bump" /\ Found(p, op[p].dels) # {}
       /\ Made(p, {}, op[p].dels, Cardinality(Found(p, op[p].dels)))

\* The increment is stored.
Stored(p) ==
    \/ /\ Kind(p, {"set_entry", "upsert", "mutate"}) /\ Accepted(p)
       /\ stage[p] = "one" /\ op[p].puts # {}
       /\ Made(p, op[p].puts, {}, 1)
    \/ /\ Kind(p, {"delete_entry", "batch_delete"})
       /\ stage[p] = "one" /\ Found(p, op[p].dels) # {}
       /\ Made(p, {}, op[p].dels, 1)
    \/ /\ Looping(p)
       /\ Made(p, op[p].puts, Past(p), Base(p) + Cardinality(Found(p, Past(p))))

\* An object delete has found a live object; E are the entries it has left.
Erasing(p, E) == Kind(p, {"delete_object"}) /\ Live0 /\ snap[p] = Default0 /\ entry = E

\* ... and it has buried the object.
Erased(p) ==
    /\ Kind(p, {"delete_object"}) /\ Live0
    /\ entry = Result(p, {}, KeysBefore)
    /\ meta = [version |-> Default0.version + 1, tomb |-> TRUE]

\* What has been done at each label; see At below.
AtEnsureGet(p) ==
    /\ Kind(p, {"upsert"}) /\ op[p].puts = {} /\ stage[p] = "one"
    /\ Made(p, {}, {}, 0)

AtConfigPut(p) ==
    /\ Kind(p, {"upsert"}) /\ stage[p] = "one"
    /\ entry = pre.entry
    /\ meta = IF op[p].puts = {} THEN Default0 ELSE pre.meta

AtCas(p) ==
    /\ Kind(p, {"upsert", "mutate"}) /\ op[p].puts # {} /\ stage[p] = "one"
    /\ Made(p, {}, {}, 0)

\* A batch has read the metadata, a single set has not.
HasRead(p) == Accepted(p) /\ (op[p].kind # "set_entry" => snap[p] = Default0)

AtExist(p) ==
    /\ Kind(p, {"set_entry", "upsert", "mutate"}) /\ HasRead(p)
    /\ Visiting(p, op[p].puts)
    /\ Made(p, {}, {}, 0)

AtWrite(p) ==
    /\ Kind(p, {"set_entry", "upsert", "mutate", "zbatch"}) /\ HasRead(p)
    /\ Visiting(p, op[p].puts)
    /\ Made(p, Done(p), {}, 0)

AtZenohGet(p) ==
    /\ Kind(p, {"zbatch"}) /\ todo[p] = FirstKeys(op[p]) /\ stage[p] = "one"
    /\ Made(p, {}, {}, 0)

AtZenohRemove(p) ==
    /\ Kind(p, {"zbatch"}) /\ HasRead(p)
    /\ Visiting(p, op[p].dels)
    /\ Made(p, op[p].puts, Past(p), 0)

AtNotify(p) == Stored(p) \/ Erased(p)

\* batch_mutate_entries is about to delete a key it has found.
DeletingOne(p) ==
    \E k \in Keys :
       /\ Deletes(p, k)
       /\ Made(p, op[p].puts, Past(p) \ {k}, Base(p) + Cardinality(Found(p, Past(p) \ {k})))

AtDeleteExist(p) ==
    \/ /\ Kind(p, {"delete_entry"}) /\ stage[p] = "one" /\ cur[p] = op[p].dels
       /\ Made(p, {}, {}, 0)
    \/ DeletingOne(p)

AtRemove(p) ==
    \/ /\ Kind(p, {"delete_entry"}) /\ stage[p] = "one" /\ cur[p] = op[p].dels
       /\ Found(p, op[p].dels) # {}
       /\ Made(p, {}, {}, 0)
    \/ \E k \in KeysBefore :
          /\ Kind(p, {"batch_delete"}) /\ stage[p] = "one" /\ cur[p] = {k}
          /\ k \in Past(p) /\ todo[p] \subseteq op[p].dels
          /\ hit[p] = Found(p, Past(p) \ {k})
          /\ Made(p, {}, Past(p) \ {k}, 0)
    \/ DeletingOne(p)

AtBatchDeleteExist(p) ==
    /\ Kind(p, {"batch_delete"}) /\ stage[p] = "one"
    /\ todo[p] \subseteq op[p].dels /\ hit[p] = Found(p, Past(p))
    /\ Made(p, {}, Past(p), 0)

AtMutateCheck(p) ==
    /\ Kind(p, {"mutate"}) /\ op[p].puts = {} /\ stage[p] = "dels"
    /\ op[p].expect # NoExpect
    /\ todo[p] = op[p].dels /\ hit[p] = {}
    /\ Made(p, {}, {}, 0)

\* The delete loop has deleted the keys it has visited, and counted each.
Looped(p) ==
    /\ Looping(p)
    /\ Made(p, op[p].puts, Past(p), Base(p) + Cardinality(Found(p, Past(p))))

AtMutateGet(p) == Looped(p) \/ Swept(p)

AtMutateVersion(p) ==
    /\ Kind(p, {"mutate"}) /\ Accepted(p) /\ op[p].puts = {}
    /\ Found(p, op[p].dels) = {}
    /\ Made(p, {}, op[p].dels, 0)

AtDeleteGet(p) == Kind(p, {"delete_object"}) /\ Made(p, {}, {}, 0)
AtListing(p)   == Erasing(p, pre.entry) /\ meta = pre.meta
AtRangeMeta(p) == AtListing(p) /\ todo[p] = KeysBefore /\ "meta" \in seen[p]
AtRangeConfig(p) == Erasing(p, pre.entry) /\ todo[p] = KeysBefore
AtRangeKey(p) ==
    /\ todo[p] # {} /\ todo[p] \subseteq KeysBefore
    /\ Erasing(p, Result(p, {}, KeysBefore \ todo[p]))
AtTombPut(p) == Erasing(p, Result(p, {}, KeysBefore))

\* What a running handler has done, at each of its steps.
At(p) ==
    /\ pc[p] = "ens_get"     => AtEnsureGet(p)
    /\ pc[p] = "ens_put"     => AtEnsureGet(p) /\ pre.meta = NoMeta
    /\ pc[p] = "cfg_put"     => AtConfigPut(p)
    /\ pc[p] = "cas"         => AtCas(p)
    /\ pc[p] = "exist"       => AtExist(p)
    /\ pc[p] = "write"       => AtWrite(p)
    /\ pc[p] = "zb_get"      => AtZenohGet(p)
    /\ pc[p] = "zb_remove"   => AtZenohRemove(p)
    /\ pc[p] = "meta_get"    => Due(p)
    /\ pc[p] = "meta_put"    => Due(p) /\ snap[p] = MetaOrDefault
    /\ pc[p] = "event_cfg"   => Stored(p)
    /\ pc[p] = "notify"      => AtNotify(p)
    /\ pc[p] = "del_exist"   => AtDeleteExist(p)
    /\ pc[p] = "remove"      => AtRemove(p)
    /\ pc[p] = "bd_exist"    => AtBatchDeleteExist(p)
    /\ pc[p] = "mut_check"   => AtMutateCheck(p)
    /\ pc[p] = "mut_get"     => AtMutateGet(p)
    /\ pc[p] = "mut_version" => AtMutateVersion(p)
    /\ pc[p] = "del_get"     => AtDeleteGet(p)
    /\ pc[p] \in {"page", "recon_meta", "pre_cfg", "range_scan"} => AtListing(p)
    /\ pc[p] = "range_meta"  => AtRangeMeta(p)
    /\ pc[p] = "range_cfg"   => AtRangeConfig(p)
    /\ pc[p] = "range_key"   => AtRangeKey(p)
    /\ pc[p] = "tomb_put"    => AtTombPut(p)

\* What the answered operation has done: what it was asked for, or nothing.
Outcome(p) ==
    \/ /\ Kind(p, {"set_entry"}) /\ Made(p, op[p].puts, {}, 1)
    \/ /\ Kind(p, {"upsert"})
       /\ entry = Result(p, op[p].puts, {})
       /\ meta = IF op[p].puts = {} THEN Default0 ELSE Bumped(1)
    \/ /\ Kind(p, {"delete_entry", "batch_delete"}) /\ Found(p, op[p].dels) # {}
       /\ Made(p, {}, op[p].dels, 1)
    \/ /\ Kind(p, {"mutate"}) /\ Accepted(p)
       /\ op[p].puts # {} \/ Found(p, op[p].dels) # {}
       /\ Made(p, op[p].puts, op[p].dels, 1 + Cardinality(Found(p, op[p].dels)))
    \/ /\ Kind(p, {"zbatch"}) /\ Accepted(p)
       /\ Made(p, op[p].puts, op[p].dels, Increments(p))
    \/ Erased(p)
    \/ /\ Made(p, {}, {}, 0)
       /\ \/ Kind(p, {"mutate", "zbatch"}) /\ ~Accepted(p)
          \/ /\ Kind(p, {"delete_entry", "batch_delete", "mutate"}) /\ op[p].puts = {}
             /\ Found(p, op[p].dels) = {}
          \/ Kind(p, {"delete_object"}) /\ ~Live0

\* The handler that runs serves the last request.
Served(p) ==
    /\ id[p] = issued
    /\ op[p] \in Requests
    /\ At(p)

\* One handler runs at a time, and what it has done is known.
SeqInv ==
    /\ issued \in 0..MaxOps
    /\ pre.entry \in [Keys -> Nat] /\ pre.meta \in Metadata \cup {NoMeta}
    /\ \A p \in Clients : id[p] <= issued
    /\ \A p, q \in Clients : id[p] = issued /\ id[q] = issued /\ p # q => issued = 0
    /\ \A p \in Clients : pc[p] # "idle" => Served(p)
    /\ issued = 0 => \A p \in Clients : op[p] = NoOperation /\ pc[p] = "idle"

SeqIInv == TypeOK /\ SeqInv

-----------------------------------------------------------------------------
(* What a storage call does to the entries and to the metadata.            *)

\* The constants and the history as the steps below use them.
Ready(p) ==
    /\ TypeOK /\ p \in Clients
    /\ pre.entry \in [Keys -> Nat] /\ pre.meta \in Metadata \cup {NoMeta}
    /\ id[p] # 0 /\ op[p] \in Requests
    /\ At(p)
    /\ UNCHANGED <<op, id, pre>>

\* The step ends the operation with its outcome, or leads to the next step.
Moves(p) == IF pc'[p] = "idle" THEN Outcome(p)' ELSE At(p)'

\* A put adds a key to those set.
LEMMA PutOne ==
    ASSUME NEW p, NEW P, NEW k \in Keys, entry = Result(p, P, {}), NEW Q, Q = P \cup {k}
    PROVE  [entry EXCEPT ![k] = id[p]] = Result(p, Q, {})
  BY DEF Result

\* A removal adds its keys to those deleted.
LEMMA DropMany ==
    ASSUME NEW p, NEW P, NEW D, NEW C, entry = Result(p, P, D), NEW E, E = D \cup C
    PROVE  [k \in Keys |-> IF k \in C THEN Absent ELSE entry[k]] = Result(p, P, E)
  BY DEF Result

\* The same for one key.
LEMMA DropOne ==
    ASSUME NEW p, NEW P, NEW D, NEW k \in Keys, entry = Result(p, P, D), NEW E, E = D \cup {k}
    PROVE  [entry EXCEPT ![k] = Absent] = Result(p, P, E)
  BY DEF Result

\* Deleting keys that were not there changes nothing.
LEMMA NothingMade ==
    ASSUME NEW p, pre.entry \in [Keys -> Nat], NEW D, D \cap KeysBefore = {}
    PROVE  Result(p, {}, D) = pre.entry
  BY DEF Result, KeysBefore

\* The keys there now are those found and set, but for those deleted.
LEMMA PresentNow ==
    ASSUME NEW p, NEW P \in SUBSET Keys, NEW D, entry = Result(p, P, D), id[p] # 0
    PROVE  Present = (KeysBefore \cup P) \ D
  BY DEF Result, Present, KeysBefore, Absent

\* Nothing set or deleted: the keys there are those found.
LEMMA PresentStart ==
    ASSUME NEW p, entry = Result(p, {}, {})
    PROVE  Present = KeysBefore
  BY DEF Result, Present, KeysBefore, Absent

\* What a set of keys amounts to does not change while an operation runs.
LEMMA ResultFrame ==
    ASSUME NEW p, UNCHANGED <<id, pre>>
    PROVE  \A P, D : Result(p, P, D)' = Result(p, P, D)
  BY DEF Result

\* The metadata found, or its default, is a metadata record.
LEMMA DefaultType ==
    ASSUME pre.meta \in Metadata \cup {NoMeta}
    PROVE  /\ Default0 \in Metadata
           /\ Default0.version \in Nat /\ Default0.tomb \in BOOLEAN
  BY DEF Default0, DefaultMetadata, Metadata

\* An increment on top of n is the increment n + m.
LEMMA BumpMore ==
    ASSUME pre.meta \in Metadata \cup {NoMeta}, NEW n \in Nat, meta = Bumped(n), NEW m \in Nat \ {0}
    PROVE  [version |-> MetaOrDefault.version + m, tomb |-> MetaOrDefault.tomb] = Bumped(n + m)
  <1>1. Default0 \in Metadata /\ Default0.version \in Nat
    BY DefaultType
  <1>2. CASE n = 0
    BY <1>1, <1>2 DEF Bumped, MetaOrDefault, Default0
  <1>3. CASE n # 0
    <2>1. meta = [version |-> Default0.version + n, tomb |-> Default0.tomb]
      BY <1>3 DEF Bumped
    <2>2. meta \in Metadata
      BY <1>1, <2>1 DEF Metadata
    <2>3. MetaOrDefault = meta
      BY <2>2, EntryStoreAssumption DEF MetaOrDefault
    <2>4. meta.version + m = Default0.version + (n + m) /\ n + m # 0 /\ meta.tomb = Default0.tomb
      BY <1>1, <1>3, <2>1
    <2>5. QED
      BY <2>3, <2>4 DEF Bumped
  <1>4. QED
    BY <1>2, <1>3

\* The record n increments lead to does not change while an operation runs.
LEMMA BumpedFrame ==
    ASSUME UNCHANGED pre
    PROVE  Default0' = Default0 /\ KeysBefore' = KeysBefore /\ \A n : Bumped(n)' = Bumped(n)
  BY DEF Default0, KeysBefore, Bumped

\* What the steps of a running operation leave alone.
LEMMA Frame ==
    ASSUME NEW p, Ready(p)
    PROVE  /\ op'[p] = op[p] /\ id'[p] = id[p] /\ pre' = pre
           /\ Default0' = Default0 /\ KeysBefore' = KeysBefore /\ (Live0' <=> Live0)
           /\ (Accepted(p)' <=> Accepted(p))
           /\ \A n : Bumped(n)' = Bumped(n)
           /\ \A P, D : Result(p, P, D)' = Result(p, P, D)
           /\ \A K : Kind(p, K)' <=> Kind(p, K)
           /\ \A K : Found(p, K)' = Found(p, K)
           /\ Base(p)' = Base(p)
  <1>1. op'[p] = op[p] /\ id'[p] = id[p] /\ pre' = pre /\ id' = id
    BY DEF Ready
  <1>2. Default0' = Default0 /\ KeysBefore' = KeysBefore /\ \A n : Bumped(n)' = Bumped(n)
    BY <1>1, BumpedFrame
  <1>3. \A P, D : Result(p, P, D)' = Result(p, P, D)
    BY <1>1, ResultFrame
  <1>4. /\ Live0' <=> Live0
        /\ Accepted(p)' <=> Accepted(p)
        /\ Base(p)' = Base(p)
    BY <1>1, <1>2 DEF Live0, Accepted, Base
  <1>5. /\ \A K : Kind(p, K)' <=> Kind(p, K)
        /\ \A K : Found(p, K)' = Found(p, K)
    BY <1>1, <1>2 DEF Kind, Found
  <1>6. QED
    BY <1>1, <1>2, <1>3, <1>4, <1>5

\* The facts about the handler that the steps below rest on.
LEMMA Locals ==
    ASSUME NEW p, Ready(p)
    PROVE  /\ p \in Clients /\ op[p] \in Operation
           /\ op[p].puts \in SUBSET Keys /\ op[p].dels \in SUBSET Keys
           /\ op[p].expect \in Nat \cup {NoExpect}
           /\ Default0 \in Metadata /\ Default0.version \in Nat
           /\ \A K : Kind(p, K) <=> op[p].kind \in K
  <1>1. p \in Clients /\ op[p] \in Operation
    BY DEF Ready, TypeOK
  <1>2. op[p].puts \in SUBSET Keys /\ op[p].dels \in SUBSET Keys
        /\ op[p].expect \in Nat \cup {NoExpect}
    BY <1>1 DEF Operation
  <1>3. Default0 \in Metadata /\ Default0.version \in Nat
    BY DefaultType DEF Ready
  <1>4. QED
    BY <1>1, <1>2, <1>3 DEF Kind

\* With nothing incremented the record is the one found.
LEMMA NoneBumped ==
    ASSUME meta = Bumped(0)
    PROVE  meta = pre.meta /\ MetaOrDefault = Default0 /\ VersionOrZero = Default0.version
  BY DEF Bumped, MetaOrDefault, VersionOrZero, Default0, DefaultMetadata

-----------------------------------------------------------------------------
(* Writing entries.                                                        *)

\* batch_set_entries reads the metadata and compares the version.
LEMMA CasMoves ==
    ASSUME NEW p, Ready(p), CasCheck(p)
    PROVE  Moves(p)
  <1>1. AtCas(p)
    BY DEF Ready, At, CasCheck
  <1>2. MetaOrDefault = Default0 /\ VersionOrZero = Default0.version
    BY <1>1, NoneBumped DEF AtCas, Made
  <1>3. /\ snap'[p] = Default0 /\ todo'[p] = op[p].puts /\ stage'[p] = stage[p]
        /\ entry' = entry /\ meta' = meta
        /\ pc'[p] = IF op[p].expect \notin {NoExpect, Default0.version} THEN "idle" ELSE FirstWrite
    BY <1>2, Locals DEF CasCheck, Ready, TypeOK, Goto, records, marks
  <1>4. CASE op[p].expect \notin {NoExpect, Default0.version}
    <2>1. Kind(p, {"mutate"}) /\ ~Accepted(p)
      BY <1>1, <1>4, SequentialAssumption DEF AtCas, Kind, Accepted, Ready
    <2>2. Made(p, {}, {}, 0)'
      BY <1>1, <1>3, Frame DEF AtCas, Made
    <2>3. Outcome(p)'
      BY <2>1, <2>2, Frame, Locals DEF Outcome
    <2>4. QED
      BY <1>3, <1>4, <2>3 DEF Moves
  <1>5. CASE op[p].expect \in {NoExpect, Default0.version}
    <2>1. Accepted(p) /\ HasRead(p)' /\ Kind(p, {"upsert", "mutate"})
      BY <1>1, <1>3, <1>5, Frame DEF AtCas, Accepted, HasRead
    <2>2. Visiting(p, op[p].puts)'
      BY <1>1, <1>3, Frame DEF AtCas, Visiting
    <2>3. Made(p, {}, {}, 0)' /\ Done(p)' = {}
      BY <1>1, <1>3, Frame DEF AtCas, Made, Done
    <2>4. AtExist(p)'
      BY <2>1, <2>2, <2>3, Frame, Locals DEF AtExist
    <2>5. AtWrite(p)'
      BY <2>1, <2>2, <2>3, Frame, Locals DEF AtWrite, Made
    <2>6. QED
      BY <1>3, <1>5, <2>4, <2>5 DEF Moves, At, FirstWrite
  <1>6. QED
    BY <1>4, <1>5

\* The existence checks change nothing.
LEMMA ExistMoves ==
    ASSUME NEW p, Ready(p), Exist(p)
    PROVE  Moves(p)
  <1>1. AtExist(p)
    BY DEF Ready, At, Exist
  <1>2. PICK k \in todo[p] :
            /\ todo' = [todo EXCEPT ![p] = IF todo[p] \ {k} = {} THEN op[p].puts ELSE todo[p] \ {k}]
            /\ Goto(p, IF todo[p] \ {k} = {} THEN "write" ELSE "exist")
    BY DEF Exist
  <1>3. /\ snap'[p] = snap[p] /\ stage'[p] = stage[p] /\ entry' = entry /\ meta' = meta
        /\ todo'[p] = IF todo[p] \ {k} = {} THEN op[p].puts ELSE todo[p] \ {k}
        /\ pc'[p] = IF todo[p] \ {k} = {} THEN "write" ELSE "exist"
    BY <1>2, Locals DEF Exist, Ready, TypeOK, Goto, records, marks
  <1>4. Kind(p, {"set_entry", "upsert", "mutate"}) /\ HasRead(p)' /\ Made(p, {}, {}, 0)'
    BY <1>1, <1>3, Frame DEF AtExist, HasRead, Made
  <1>5. Visiting(p, op[p].puts)'
    BY <1>1, <1>2, <1>3, Frame DEF AtExist, Visiting
  <1>6. CASE todo[p] \ {k} = {}
    <2>1. Done(p)' = {}
      BY <1>3, <1>6, Frame DEF Done
    <2>2. AtWrite(p)'
      BY <1>4, <1>5, <2>1, Frame, Locals DEF AtWrite, Made
    <2>3. QED
      BY <1>3, <1>6, <2>2 DEF Moves, At
  <1>7. CASE todo[p] \ {k} # {}
    <2>1. AtExist(p)'
      BY <1>4, <1>5, Frame, Locals DEF AtExist
    <2>2. QED
      BY <1>3, <1>7, <2>1 DEF Moves, At
  <1>8. QED
    BY <1>6, <1>7

\* A put sets one key more.
LEMMA WriteMoves ==
    ASSUME NEW p, Ready(p), WriteEntry(p)
    PROVE  Moves(p)
  <1>1. AtWrite(p)
    BY DEF Ready, At, WriteEntry
  <1>2. PICK k \in todo[p] :
            /\ entry' = [entry EXCEPT ![k] = id[p]]
            /\ todo' = [todo EXCEPT ![p] =
                           IF todo[p] \ {k} = {} /\ op[p].kind = "zbatch" THEN op[p].dels
                           ELSE todo[p] \ {k}]
            /\ Goto(p, IF todo[p] \ {k} # {} THEN "write"
                       ELSE IF op[p].kind = "set_entry" THEN "meta_get"
                       ELSE IF op[p].kind = "zbatch" /\ op[p].dels # {} THEN "zb_remove"
                       ELSE "meta_put")
    BY DEF WriteEntry
  <1>3. /\ snap'[p] = snap[p] /\ stage'[p] = stage[p] /\ meta' = meta
        /\ todo'[p] = IF todo[p] \ {k} = {} /\ op[p].kind = "zbatch" THEN op[p].dels
                      ELSE todo[p] \ {k}
        /\ pc'[p] = IF todo[p] \ {k} # {} THEN "write"
                    ELSE IF op[p].kind = "set_entry" THEN "meta_get"
                    ELSE IF op[p].kind = "zbatch" /\ op[p].dels # {} THEN "zb_remove"
                    ELSE "meta_put"
    BY <1>2, Locals DEF WriteEntry, Ready, TypeOK, Goto, marks
  <1>4. Kind(p, {"set_entry", "upsert", "mutate", "zbatch"}) /\ HasRead(p)' /\ stage[p] = "one"
        /\ Accepted(p) /\ meta = Bumped(0)
    BY <1>1, <1>3, Frame DEF AtWrite, HasRead, Visiting, Made
  <1>5. k \in op[p].puts /\ todo[p] \subseteq op[p].puts /\ k \in Keys
    BY <1>1, <1>2, Locals DEF AtWrite, Visiting
  <1>6. entry = Result(p, Done(p), {})
    BY <1>1 DEF AtWrite, Made
  <1>7. CASE todo[p] \ {k} # {}
    <2>1. Visiting(p, op[p].puts)'
      BY <1>3, <1>4, <1>5, <1>7, Frame DEF Visiting
    <2>2. Done(p)' = Done(p) \cup {k}
      BY <1>3, <1>5, <1>7, Frame DEF Done
    <2>3. entry' = Result(p, Done(p)', {})
      BY <1>2, <1>5, <1>6, <2>2, PutOne
    <2>4. AtWrite(p)'
      BY <1>3, <1>4, <2>1, <2>3, Frame, Locals DEF AtWrite, Made
    <2>5. QED
      BY <1>3, <1>7, <2>4 DEF Moves, At
  <1>8. CASE todo[p] \ {k} = {}
    <2>1. op[p].puts = Done(p) \cup {k} /\ op[p].puts # {}
      BY <1>5, <1>8 DEF Done
    <2>a. entry' = Result(p, op[p].puts, {})
      BY <1>2, <1>5, <1>6, <2>1, PutOne
    <2>2. Made(p, op[p].puts, {}, 0)'
      BY <1>3, <1>4, <2>a, Frame DEF Made
    <2>3. CASE op[p].kind # "zbatch"
      <3>1. Due(p)'
        BY <1>3, <1>4, <2>1, <2>2, <2>3, Frame, Locals DEF Due
      <3>2. op[p].kind # "set_entry" => snap'[p] = MetaOrDefault'
        BY <1>3, <1>4, NoneBumped, Frame DEF HasRead, MetaOrDefault
      <3>3. QED
        BY <1>3, <1>8, <2>3, <3>1, <3>2 DEF Moves, At
    <2>4. CASE op[p].kind = "zbatch" /\ op[p].dels # {}
      <3>1. Visiting(p, op[p].dels)' /\ Past(p)' = {}
        BY <1>3, <1>4, <1>8, <2>4, Frame DEF Visiting, Past
      <3>2. AtZenohRemove(p)'
        BY <1>4, <2>2, <2>4, <3>1, Frame, Locals DEF AtZenohRemove, Made
      <3>3. QED
        BY <1>3, <1>8, <2>4, <3>2 DEF Moves, At
    <2>5. CASE op[p].kind = "zbatch" /\ op[p].dels = {}
      <3>1. Due(p)'
        BY <1>3, <1>4, <2>2, <2>5, Frame, Locals DEF Due, Made
      <3>2. snap'[p] = MetaOrDefault'
        BY <1>3, <1>4, <2>5, NoneBumped, Frame DEF HasRead, MetaOrDefault
      <3>3. QED
        BY <1>3, <1>8, <2>5, <3>1, <3>2 DEF Moves, At
    <2>6. QED
      BY <2>3, <2>4, <2>5
  <1>9. QED
    BY <1>7, <1>8

\* The Zenoh batch reads the metadata and compares the version.
LEMMA ZenohGetMoves ==
    ASSUME NEW p, Ready(p), ZenohBatchGet(p)
    PROVE  Moves(p)
  <1>1. AtZenohGet(p)
    BY DEF Ready, At, ZenohBatchGet
  <1>2. MetaOrDefault = Default0 /\ VersionOrZero = Default0.version
    BY <1>1, NoneBumped DEF AtZenohGet, Made
  <1>3. /\ snap'[p] = Default0 /\ todo'[p] = todo[p] /\ stage'[p] = "one"
        /\ entry' = entry /\ meta' = meta /\ op[p].kind = "zbatch"
        /\ pc'[p] = IF op[p].expect \notin {NoExpect, Default0.version} THEN "idle"
                    ELSE IF op[p].puts # {} THEN "write" ELSE "zb_remove"
    BY <1>1, <1>2, Locals DEF ZenohBatchGet, Ready, TypeOK, Goto, records, marks, AtZenohGet
  <1>4. Made(p, {}, {}, 0)'
    BY <1>1, <1>3, Frame DEF AtZenohGet, Made
  <1>5. CASE op[p].expect \notin {NoExpect, Default0.version}
    <2>1. ~Accepted(p)
      BY <1>3, <1>5 DEF Accepted
    <2>2. Outcome(p)'
      BY <1>3, <1>4, <2>1, Frame, Locals DEF Outcome
    <2>3. QED
      BY <1>3, <1>5, <2>2 DEF Moves
  <1>6. CASE op[p].expect \in {NoExpect, Default0.version}
    <2>1. HasRead(p)'
      BY <1>3, <1>6, Frame DEF HasRead, Accepted
    <2>2. CASE op[p].puts # {}
      <3>1. Visiting(p, op[p].puts)' /\ Done(p)' = {}
        BY <1>1, <1>3, <2>2, Frame DEF AtZenohGet, Visiting, FirstKeys, Done
      <3>2. AtWrite(p)'
        BY <1>3, <1>4, <2>1, <3>1, Frame, Locals DEF AtWrite, Made
      <3>3. QED
        BY <1>3, <1>6, <2>2, <3>2 DEF Moves, At
    <2>3. CASE op[p].puts = {}
      <3>1. op[p].dels # {}
        BY <1>3, <2>3, EntryStoreAssumption DEF Ready
      <3>2. Visiting(p, op[p].dels)' /\ Past(p)' = {}
        BY <1>1, <1>3, <2>3, <3>1, Frame DEF AtZenohGet, Visiting, FirstKeys, Past
      <3>3. AtZenohRemove(p)'
        BY <1>3, <1>4, <2>1, <2>3, <3>2, Frame, Locals DEF AtZenohRemove, Made
      <3>4. QED
        BY <1>3, <1>6, <2>3, <3>3 DEF Moves, At
    <2>4. QED
      BY <2>2, <2>3
  <1>7. QED
    BY <1>5, <1>6

\* The Zenoh batch deletes one key more.
LEMMA ZenohRemoveMoves ==
    ASSUME NEW p, Ready(p), ZenohBatchRemove(p)
    PROVE  Moves(p)
  <1>1. AtZenohRemove(p)
    BY DEF Ready, At, ZenohBatchRemove
  <1>2. PICK k \in todo[p] :
            /\ entry' = [entry EXCEPT ![k] = Absent]
            /\ todo' = [todo EXCEPT ![p] = @ \ {k}]
            /\ Goto(p, IF todo[p] = {k} THEN "meta_put" ELSE "zb_remove")
    BY DEF ZenohBatchRemove
  <1>3. /\ snap'[p] = snap[p] /\ stage'[p] = stage[p] /\ meta' = meta
        /\ todo'[p] = todo[p] \ {k}
        /\ pc'[p] = IF todo[p] = {k} THEN "meta_put" ELSE "zb_remove"
    BY <1>2, Locals DEF ZenohBatchRemove, Ready, TypeOK, Goto, marks
  <1>4. /\ op[p].kind = "zbatch" /\ HasRead(p)' /\ HasRead(p) /\ stage[p] = "one" /\ Accepted(p)
        /\ meta = Bumped(0) /\ k \in op[p].dels /\ todo[p] \subseteq op[p].dels
    BY <1>1, <1>2, <1>3, Frame, Locals DEF AtZenohRemove, HasRead, Visiting, Made
  <1>5. Past(p)' = Past(p) \cup {k}
    BY <1>3, <1>4, Frame DEF Past
  <1>6. entry' = Result(p, op[p].puts, Past(p)')
    BY <1>1, <1>2, <1>4, <1>5, DropOne, Locals DEF AtZenohRemove, Made
  <1>7. CASE todo[p] # {k}
    <2>1. Visiting(p, op[p].dels)'
      BY <1>2, <1>3, <1>4, <1>7, Frame DEF Visiting
    <2>2. AtZenohRemove(p)'
      BY <1>3, <1>4, <1>6, <2>1, Frame, Locals DEF AtZenohRemove, Made
    <2>3. QED
      BY <1>3, <1>7, <2>2 DEF Moves, At
  <1>8. CASE todo[p] = {k}
    <2>1. Past(p)' = op[p].dels
      BY <1>3, <1>4, <1>8, Frame DEF Past
    <2>2. Due(p)'
      BY <1>3, <1>4, <1>6, <2>1, Frame, Locals DEF Due, Made
    <2>3. snap'[p] = MetaOrDefault'
      BY <1>3, <1>4, NoneBumped, Frame DEF HasRead, MetaOrDefault
    <2>4. QED
      BY <1>3, <1>8, <2>2, <2>3 DEF Moves, At
  <1>9. QED
    BY <1>7, <1>8

-----------------------------------------------------------------------------
(* Reading and writing the metadata, and sending the context.              *)

\* A step that only looks leaves what is due, and what is stored, as it is.
LEMMA LookFrame ==
    ASSUME NEW p, Ready(p), UNCHANGED <<entry, meta>>,
           todo'[p] = todo[p], hit'[p] = hit[p], cur'[p] = cur[p], stage'[p] = stage[p]
    PROVE  (Due(p) => Due(p)') /\ (Stored(p) => Stored(p)')
  <1>1. Past(p)' = Past(p)
    BY Frame DEF Past
  <1>2. Looping(p)' <=> Looping(p)
    BY <1>1, Frame DEF Looping
  <1>3. \A P, D, n : Made(p, P, D, n)' <=> Made(p, P, D, n)
    BY Frame DEF Made
  <1>4. \A k : Deletes(p, k)' <=> Deletes(p, k)
    BY <1>1, <1>2, Frame DEF Deletes
  <1>5. Stored(p) => Stored(p)'
    BY <1>1, <1>2, <1>3, Frame DEF Stored
  <1>6. Due(p) => Due(p)'
    <2>1. ASSUME NEW k \in Keys, Deletes(p, k),
                 Made(p, op[p].puts, Past(p), Base(p) + Cardinality(Found(p, Past(p) \ {k})))
          PROVE  Due(p)'
      <3>2. Found(p, Past(p) \ {k})' = Found(p, Past(p) \ {k})
        BY <1>1, Frame DEF Found
      <3>3. Deletes(p, k)' /\ Made(p, op[p].puts, Past(p), Base(p) + Cardinality(Found(p, Past(p) \ {k})))'
        BY <1>1, <1>3, <1>4, <2>1, <3>2, Frame DEF Made
      <3>4. QED
        BY <3>3 DEF Due
    <2>2. QED
      BY <1>3, <2>1, Frame DEF Due
  <1>7. QED
    BY <1>5, <1>6

\* A key found stays to be deleted.
LEMMA DeletingFrame ==
    ASSUME NEW p, Ready(p), UNCHANGED <<entry, meta>>, DeletingOne(p),
           todo'[p] = todo[p], hit'[p] = hit[p], cur'[p] = cur[p], stage'[p] = stage[p]
    PROVE  DeletingOne(p)'
  <1>1. Past(p)' = Past(p)
    BY Frame DEF Past
  <1>2. Looping(p)' <=> Looping(p)
    BY <1>1, Frame DEF Looping
  <1>3. PICK k \in Keys :
            /\ Deletes(p, k)
            /\ Made(p, op[p].puts, Past(p) \ {k}, Base(p) + Cardinality(Found(p, Past(p) \ {k})))
    BY DEF DeletingOne
  <1>4. Deletes(p, k)'
    BY <1>1, <1>2, <1>3, Frame DEF Deletes
  <1>5. PICK D : D = Past(p) \ {k}
    OBVIOUS
  <1>6. (Past(p) \ {k})' = D
    BY <1>1, <1>5
  <1>7. Made(p, op[p].puts, Past(p) \ {k}, Base(p) + Cardinality(Found(p, Past(p) \ {k})))'
    BY <1>3, <1>5, <1>6, Frame DEF Made
  <1>8. QED
    BY <1>4, <1>7 DEF DeletingOne

\* The metadata is read; the increment is still due.
LEMMA MetaGetMoves ==
    ASSUME NEW p, Ready(p), MetaGet(p)
    PROVE  Moves(p)
  <1>1. Due(p)
    BY DEF Ready, At, MetaGet
  <1>2. /\ todo'[p] = todo[p] /\ hit'[p] = hit[p] /\ cur'[p] = cur[p] /\ stage'[p] = stage[p]
        /\ UNCHANGED <<entry, meta>> /\ pc'[p] = "meta_put" /\ snap'[p] = MetaOrDefault
    BY Locals DEF MetaGet, Ready, TypeOK, Goto, records, marks
  <1>3. Due(p)' /\ snap'[p] = MetaOrDefault'
    BY <1>1, <1>2, LookFrame DEF MetaOrDefault
  <1>4. QED
    BY <1>2, <1>3 DEF Moves, At

\* The event configuration is read.
LEMMA ConfigGetMoves ==
    ASSUME NEW p, Ready(p), ConfigGet(p)
    PROVE  Moves(p)
  <1>1. Stored(p)
    BY DEF Ready, At, ConfigGet
  <1>2. /\ todo'[p] = todo[p] /\ hit'[p] = hit[p] /\ cur'[p] = cur[p] /\ stage'[p] = stage[p]
        /\ UNCHANGED <<entry, meta>> /\ pc'[p] = "notify"
    BY Locals DEF ConfigGet, Ready, TypeOK, Goto, records
  <1>3. Stored(p)'
    BY <1>1, <1>2, LookFrame
  <1>4. QED
    BY <1>2, <1>3 DEF Moves, At, AtNotify

\* The keys of a batch are finitely many.
LEMMA FoundFinite ==
    ASSUME NEW p, Ready(p), NEW K \in SUBSET Keys
    PROVE  /\ IsFiniteSet(Found(p, K)) /\ Cardinality(Found(p, K)) \in Nat
           /\ Found(p, K) = {} <=> Cardinality(Found(p, K)) = 0
  <1>1. Found(p, K) \subseteq Keys
    BY DEF Found
  <1>2. IsFiniteSet(Found(p, K))
    BY <1>1, EntryStoreAssumption, FS_Subset
  <1>3. QED
    BY <1>2, FS_CardinalityType, FS_EmptySet

\* One more deleted key is one more in the count.
LEMMA FoundOneMore ==
    ASSUME NEW p, Ready(p), NEW K \in SUBSET Keys, NEW L, NEW k, L = K \ {k}, k \in Found(p, K)
    PROVE  Cardinality(Found(p, K)) = Cardinality(Found(p, L)) + 1
  <1>1. Found(p, K) = Found(p, L) \cup {k} /\ k \notin Found(p, L) /\ L \in SUBSET Keys
    BY DEF Found
  <1>2. IsFiniteSet(Found(p, L))
    BY <1>1, FoundFinite
  <1>3. QED
    BY <1>1, <1>2, FS_AddElement

\* Where an operation goes when a part of it has returned.
LEMMA FinishFacts ==
    ASSUME NEW p, Ready(p), Finish(p)
    PROVE  /\ pc'[p] = Return(p)
           /\ todo'[p] = IF StartsTail(p) THEN op[p].dels ELSE todo[p]
           /\ stage'[p] = IF StartsTail(p) THEN "tail" ELSE stage[p]
  BY Locals DEF Finish, Goto, Ready, TypeOK

\* The sets are done: the operation returns or starts its deletes.
LEMMA FinishSets ==
    ASSUME NEW p, Ready(p), Finish(p), op[p].kind \in {"set_entry", "upsert", "mutate"},
           Accepted(p), stage[p] = "one", op[p].puts # {},
           entry' = Result(p, op[p].puts, {}), meta' = Bumped(1)
    PROVE  Moves(p)
  <1>1. CASE op[p].kind # "mutate"
    <2>1. Outcome(p)'
      BY <1>1, Frame, Locals DEF Outcome, Made
    <2>2. QED
      BY <1>1, <2>1, FinishFacts DEF Moves, Return
  <1>2. CASE op[p].kind = "mutate" /\ op[p].dels = {}
    <2>1. Found(p, op[p].dels) = {}
      BY <1>2 DEF Found
    <2>2. 1 + Cardinality(Found(p, op[p].dels)) = 1
      BY <2>1, FS_EmptySet
    <2>3. Made(p, op[p].puts, op[p].dels, 1 + Cardinality(Found(p, op[p].dels)))'
      BY <1>2, <2>2, Frame DEF Made
    <2>4. Outcome(p)'
      BY <1>2, <2>3, Frame, Locals DEF Outcome
    <2>5. QED
      BY <1>2, <2>4, FinishFacts DEF Moves, Return
  <1>3. CASE op[p].kind = "mutate" /\ op[p].dels # {}
    <2>1. pc'[p] = "mut_get" /\ todo'[p] = op[p].dels /\ stage'[p] = "tail"
      BY <1>3, FinishFacts DEF Return, StartsTail
    <2>2. Past(p)' = {}
      BY <2>1, Frame DEF Past
    <2>3. Found(p, {}) = {}
      BY DEF Found
    <2>4. Base(p) + Cardinality(Found(p, {})) = 1
      BY <2>3, FS_EmptySet DEF Base
    <2>5. Looping(p)'
      BY <1>3, <2>1, Frame, Locals DEF Looping
    <2>6. Looped(p)'
      BY <2>2, <2>4, <2>5, Frame DEF Looped, Made
    <2>7. QED
      BY <2>1, <2>6 DEF Moves, At, AtMutateGet
  <1>4. QED
    BY <1>1, <1>2, <1>3

\* A single delete, or the batch of them, returns.
LEMMA FinishDeletes ==
    ASSUME NEW p, Ready(p), Finish(p), op[p].kind \in {"delete_entry", "batch_delete"},
           Found(p, op[p].dels) # {},
           entry' = Result(p, {}, op[p].dels), meta' = Bumped(1)
    PROVE  Moves(p)
  <1>1. Outcome(p)'
    BY Frame, Locals DEF Outcome, Made
  <1>2. QED
    BY <1>1, FinishFacts DEF Moves, Return

\* A delete of the loop returns to the loop.
LEMMA FinishLoop ==
    ASSUME NEW p, Ready(p), Finish(p), Looping(p), hit'[p] = hit[p],
           entry' = Result(p, op[p].puts, Past(p)),
           meta' = Bumped(Base(p) + Cardinality(Found(p, Past(p))))
    PROVE  Moves(p)
  <1>1. op[p].kind = "mutate" /\ stage[p] \in {"dels", "tail"}
    BY Locals DEF Looping
  <1>2. pc'[p] = "mut_get" /\ todo'[p] = todo[p] /\ stage'[p] = stage[p]
    BY <1>1, FinishFacts DEF Return, StartsTail
  <1>3. Past(p)' = Past(p)
    BY <1>2, Frame DEF Past
  <1>4. Looping(p)'
    BY <1>2, <1>3, Frame DEF Looping
  <1>5. Looped(p)'
    BY <1>3, <1>4, Frame DEF Looped, Made
  <1>6. QED
    BY <1>2, <1>5 DEF Moves, At, AtMutateGet

\* The context is sent; the records stay.
LEMMA NotifyMoves ==
    ASSUME NEW p, Ready(p), Notify(p)
    PROVE  Moves(p)
  <1>1. AtNotify(p)
    BY DEF Ready, At, Notify
  <1>2. hit'[p] = hit[p] /\ UNCHANGED <<entry, meta>> /\ Finish(p)
    BY DEF Notify, records
  <1>3. CASE Erased(p)
    <2>1. op[p].kind = "delete_object"
      BY <1>3, Locals DEF Erased
    <2>2. Erased(p)'
      BY <1>2, <1>3, Frame DEF Erased
    <2>3. QED
      BY <1>2, <2>1, <2>2, FinishFacts DEF Moves, Return, Outcome
  <1>4. CASE Stored(p)
    BY <1>2, <1>4, FinishSets, FinishDeletes, FinishLoop, Locals DEF Stored, Made
  <1>5. QED
    BY <1>1, <1>3, <1>4 DEF AtNotify

\* The increment that was due is stored.
LEMMA MetaPutMoves ==
    ASSUME NEW p, Ready(p), MetaPut(p)
    PROVE  Moves(p)
  <1> DEFINE Notifies == V2Dispatcher /\ op[p].kind # "zbatch" /\ stage[p] # "bump"
  <1>1. Due(p) /\ snap[p] = MetaOrDefault
    BY DEF Ready, At, MetaPut
  <1>2. /\ entry' = entry /\ hit'[p] = hit[p] /\ cur'[p] = cur[p]
        /\ meta' = [version |-> MetaOrDefault.version + Increments(p), tomb |-> MetaOrDefault.tomb]
    BY <1>1 DEF MetaPut, PutMeta
  <1>3. ASSUME Notifies
        PROVE  /\ pc'[p] \in {"notify", "event_cfg"}
               /\ todo'[p] = todo[p] /\ stage'[p] = stage[p]
    BY <1>3, Locals DEF MetaPut, Goto, Ready, TypeOK
  <1>4. ~Notifies => Finish(p)
    BY DEF MetaPut
  <1>5. Increments(p) \in Nat \ {0} /\ (op[p].kind # "zbatch" => Increments(p) = 1)
    BY DEF Increments
  <1>6. ASSUME NEW n \in Nat, meta = Bumped(n)
        PROVE  meta' = Bumped(n + Increments(p))
    BY <1>2, <1>5, <1>6, BumpMore DEF Ready
  <1>7. ASSUME Notifies, Stored(p)' PROVE Moves(p)
    BY <1>3, <1>7 DEF Moves, At, AtNotify
  <1> HIDE DEF Notifies
  <1>8. CASE /\ Kind(p, {"set_entry", "upsert", "mutate"}) /\ Accepted(p)
             /\ stage[p] = "one" /\ op[p].puts # {}
             /\ Made(p, op[p].puts, {}, 0)
    <2>1. entry' = Result(p, op[p].puts, {}) /\ meta' = Bumped(1)
      <3>1. meta' = Bumped(0 + 1)
        BY <1>5, <1>6, <1>8, Locals DEF Made
      <3>2. QED
        BY <1>2, <1>8, <3>1 DEF Made
    <2>2. CASE ~Notifies
      BY <1>4, <1>8, <2>1, <2>2, FinishSets, Locals
    <2>3. CASE Notifies
      <3>1. Stored(p)'
        BY <1>3, <1>8, <2>1, <2>3, Frame DEF Stored, Made
      <3>2. QED
        BY <1>7, <2>3, <3>1
    <2>4. QED
      BY <2>2, <2>3
  <1>9. CASE /\ Kind(p, {"zbatch"}) /\ Accepted(p) /\ stage[p] = "one"
             /\ Made(p, op[p].puts, op[p].dels, 0)
    <2>1. op[p].kind = "zbatch" /\ ~Notifies
      BY <1>9, Locals DEF Notifies
    <2>2. 0 + Increments(p) = Increments(p) /\ Increments(p)' = Increments(p)
      BY <1>5, Frame DEF Increments
    <2>3. meta' = Bumped(Increments(p))
      BY <1>6, <1>9, <2>2 DEF Made
    <2>4. Made(p, op[p].puts, op[p].dels, Increments(p))'
      BY <1>2, <1>9, <2>2, <2>3, Frame DEF Made
    <2>5. Outcome(p)'
      BY <1>9, <2>4, Frame DEF Outcome
    <2>6. QED
      BY <1>4, <2>1, <2>5, FinishFacts DEF Moves, Return
  <1>10. CASE /\ Kind(p, {"delete_entry", "batch_delete"})
              /\ stage[p] = "one" /\ Found(p, op[p].dels) # {}
              /\ Made(p, {}, op[p].dels, 0)
    <2>1. entry' = Result(p, {}, op[p].dels) /\ meta' = Bumped(1)
      <3>1. meta' = Bumped(0 + 1)
        BY <1>5, <1>6, <1>10, Locals DEF Made
      <3>2. QED
        BY <1>2, <1>10, <3>1 DEF Made
    <2>2. CASE ~Notifies
      BY <1>4, <1>10, <2>1, <2>2, FinishDeletes, Locals
    <2>3. CASE Notifies
      <3>1. Stored(p)'
        BY <1>3, <1>10, <2>1, <2>3, Frame DEF Stored, Made
      <3>2. QED
        BY <1>7, <2>3, <3>1
    <2>4. QED
      BY <2>2, <2>3
  <1>11. ASSUME NEW k \in Keys, Deletes(p, k),
                Made(p, op[p].puts, Past(p), Base(p) + Cardinality(Found(p, Past(p) \ {k})))
         PROVE  Moves(p)
    <2>1. Looping(p) /\ k \in Found(p, Past(p)) /\ Past(p) \in SUBSET Keys
      BY <1>11, Locals DEF Deletes, Past
    <2>2. PICK n : n = Cardinality(Found(p, Past(p) \ {k}))
      OBVIOUS
    <2>3. n \in Nat /\ Cardinality(Found(p, Past(p))) = n + 1
      BY <2>1, <2>2, FoundOneMore, FoundFinite
    <2>4. Base(p) \in {0, 1} /\ op[p].kind = "mutate"
      BY <2>1, Locals DEF Base, Looping
    <2>5. meta' = Bumped((Base(p) + n) + 1)
      BY <1>5, <1>6, <1>11, <2>2, <2>3, <2>4 DEF Made
    <2>6. (Base(p) + n) + 1 = Base(p) + (n + 1)
      BY <2>3, <2>4
    <2>7. meta' = Bumped(Base(p) + Cardinality(Found(p, Past(p))))
      BY <2>3, <2>5, <2>6
    <2>8. entry' = Result(p, op[p].puts, Past(p))
      BY <1>2, <1>11 DEF Made
    <2>9. CASE ~Notifies
      BY <1>2, <1>4, <2>1, <2>7, <2>8, <2>9, FinishLoop
    <2>10. CASE Notifies
      <3>1. Past(p)' = Past(p)
        BY <1>3, <2>10, Frame DEF Past
      <3>2. Looping(p)'
        BY <1>2, <1>3, <2>1, <2>10, <3>1, Frame DEF Looping
      <3>3. Stored(p)'
        BY <2>7, <2>8, <3>1, <3>2, Frame DEF Stored, Made
      <3>4. QED
        BY <1>7, <2>10, <3>3
    <2>11. QED
      BY <2>9, <2>10
  <1>12. CASE /\ Kind(p, {"mutate"}) /\ Accepted(p) /\ op[p].puts = {}
              /\ stage[p] = "bump" /\ Found(p, op[p].dels) # {}
              /\ Made(p, {}, op[p].dels, Cardinality(Found(p, op[p].dels)))
    <2>1. PICK n : n = Cardinality(Found(p, op[p].dels))
      OBVIOUS
    <2>2. n \in Nat /\ n + 1 = 1 + n
      BY <2>1, FoundFinite, Locals
    <2>3. op[p].kind = "mutate" /\ ~Notifies
      BY <1>12, Locals DEF Notifies
    <2>4. meta' = Bumped(1 + n)
      BY <1>5, <1>6, <1>12, <2>1, <2>2, <2>3 DEF Made
    <2>5. pc'[p] = "mut_get" /\ todo'[p] = op[p].dels /\ stage'[p] = "tail"
      BY <1>4, <1>12, <2>3, FinishFacts DEF Return, StartsTail
    <2>6. Made(p, {}, op[p].dels, 1 + Cardinality(Found(p, op[p].dels)))'
      BY <1>2, <1>12, <2>1, <2>4, Frame DEF Made
    <2>7. Swept(p)'
      BY <1>12, <2>5, <2>6, Frame, Locals DEF Swept
    <2>8. QED
      BY <2>5, <2>7 DEF Moves, At, AtMutateGet
  <1>13. QED
    BY <1>1, <1>8, <1>9, <1>10, <1>11, <1>12 DEF Due

-----------------------------------------------------------------------------
(* Deleting entries.                                                       *)

\* delete_entry of an absent key returns; a present one is to be removed.
LEMMA DeleteExistMoves ==
    ASSUME NEW p, Ready(p), DeleteExist(p)
    PROVE  Moves(p)
  <1>1. AtDeleteExist(p)
    BY DEF Ready, At, DeleteExist
  <1>2. UNCHANGED <<entry, meta>> /\ hit'[p] = hit[p] /\ cur'[p] = cur[p]
    BY DEF DeleteExist, records
  <1>3. cur[p] \cap Present = {} => Finish(p)
    BY DEF DeleteExist
  <1>4. cur[p] \cap Present # {} => pc'[p] = "remove" /\ todo'[p] = todo[p] /\ stage'[p] = stage[p]
    BY Locals DEF DeleteExist, Goto, Ready, TypeOK
  <1>5. CASE /\ Kind(p, {"delete_entry"}) /\ stage[p] = "one" /\ cur[p] = op[p].dels
             /\ Made(p, {}, {}, 0)
    <2>1. op[p].kind = "delete_entry" /\ op[p].puts = {}
      BY <1>5, Locals, SequentialAssumption DEF Ready
    <2>2. Present = KeysBefore
      BY <1>5, PresentStart DEF Made
    <2>3. cur[p] \cap Present = Found(p, op[p].dels)
      BY <1>5, <2>1, <2>2 DEF Found
    <2>4. CASE Found(p, op[p].dels) = {}
      <3>1. Outcome(p)'
        BY <1>2, <1>5, <2>1, <2>4, Frame, Locals DEF Outcome, Made
      <3>2. QED
        BY <1>3, <2>1, <2>3, <2>4, <3>1, FinishFacts DEF Moves, Return
    <2>5. CASE Found(p, op[p].dels) # {}
      <3>1. AtRemove(p)'
        BY <1>2, <1>4, <1>5, <2>3, <2>5, Frame DEF AtRemove, Made
      <3>2. QED
        BY <1>4, <2>3, <2>5, <3>1 DEF Moves, At
    <2>6. QED
      BY <2>4, <2>5
  <1>6. CASE DeletingOne(p)
    <2>1. PICK k \in Keys :
             /\ Deletes(p, k)
             /\ Made(p, op[p].puts, Past(p) \ {k}, Base(p) + Cardinality(Found(p, Past(p) \ {k})))
      BY <1>6 DEF DeletingOne
    <2>2. k \in cur[p] \cap Present
      <3>1. PICK D : D = Past(p) \ {k}
        OBVIOUS
      <3>2. Present = (KeysBefore \cup op[p].puts) \ D
        BY <2>1, <3>1, PresentNow, Locals DEF Made, Ready
      <3>3. QED
        BY <2>1, <3>1, <3>2 DEF Deletes, Found
    <2>3. pc'[p] = "remove" /\ todo'[p] = todo[p] /\ stage'[p] = stage[p]
      BY <1>4, <2>2
    <2>4. DeletingOne(p)'
      BY <1>2, <1>6, <2>3, DeletingFrame
    <2>5. QED
      BY <2>3, <2>4 DEF Moves, At, AtRemove
  <1>7. QED
    BY <1>1, <1>5, <1>6 DEF AtDeleteExist

\* batch_delete_entries looks for its next key.
LEMMA BatchDeleteExistMoves ==
    ASSUME NEW p, Ready(p), BatchDeleteExist(p)
    PROVE  Moves(p)
  <1>1. AtBatchDeleteExist(p)
    BY DEF Ready, At, BatchDeleteExist
  <1>2. UNCHANGED <<entry, meta>> /\ hit'[p] = hit[p] /\ stage'[p] = stage[p]
    BY DEF BatchDeleteExist, records
  <1>3. /\ op[p].kind = "batch_delete" /\ op[p].puts = {} /\ stage[p] = "one"
        /\ todo[p] \subseteq op[p].dels /\ hit[p] = Found(p, Past(p))
        /\ entry = Result(p, {}, Past(p)) /\ meta = Bumped(0)
    BY <1>1, Locals, SequentialAssumption DEF AtBatchDeleteExist, Made, Ready
  <1>4. CASE /\ todo[p] = {}
             /\ Goto(p, IF hit[p] = {} THEN "idle" ELSE "meta_get")
             /\ UNCHANGED <<todo, cur>>
    <2>1. Past(p) = op[p].dels
      BY <1>4 DEF Past
    <2>2. pc'[p] = IF hit[p] = {} THEN "idle" ELSE "meta_get"
      BY <1>4, Locals DEF Goto, Ready, TypeOK
    <2>3. CASE hit[p] = {}
      <3>1. op[p].dels \cap KeysBefore = {}
        BY <1>3, <2>1, <2>3 DEF Found
      <3>2. Result(p, {}, op[p].dels) = pre.entry /\ Result(p, {}, {}) = pre.entry
        BY <3>1, NothingMade DEF Ready
      <3>3. Made(p, {}, {}, 0)'
        BY <1>2, <1>3, <2>1, <3>2, Frame DEF Made
      <3>4. Outcome(p)'
        BY <1>3, <2>1, <2>3, <3>3, Frame, Locals DEF Outcome
      <3>5. QED
        BY <2>2, <2>3, <3>4 DEF Moves
    <2>4. CASE hit[p] # {}
      <3>1. Due(p)'
        BY <1>2, <1>3, <2>1, <2>4, Frame, Locals DEF Due, Made
      <3>2. QED
        BY <2>2, <2>4, <3>1 DEF Moves, At
    <2>5. QED
      BY <2>3, <2>4
  <1>5. ASSUME NEW k \in todo[p],
               todo' = [todo EXCEPT ![p] = @ \ {k}],
               cur' = [cur EXCEPT ![p] = {k}],
               Goto(p, IF k \in Present THEN "remove" ELSE "bd_exist")
        PROVE  Moves(p)
    <2>1. /\ todo'[p] = todo[p] \ {k} /\ cur'[p] = {k}
          /\ pc'[p] = IF k \in Present THEN "remove" ELSE "bd_exist"
      BY <1>5, Locals DEF Goto, Ready, TypeOK
    <2>2. /\ k \in op[p].dels /\ k \in Keys /\ k \notin Past(p)
          /\ Past(p)' = Past(p) \cup {k} /\ Past(p)' \ {k} = Past(p)
      BY <1>3, <1>5, <2>1, Frame, Locals DEF Past
    <2>3. k \in Present <=> k \in KeysBefore
      <3>1. entry[k] = pre.entry[k]
        BY <1>3, <2>2 DEF Result
      <3>2. QED
        BY <2>2, <3>1 DEF Present, KeysBefore
    <2>4. CASE k \in Present
      <3>1. PICK D : D = Past(p)
        OBVIOUS
      <3>2. (Past(p) \ {k})' = D
        BY <2>2, <3>1
      <3>3. hit'[p] = Found(p, Past(p) \ {k})'
        BY <1>2, <1>3, <3>1, <3>2, Frame
      <3>4. Made(p, {}, Past(p) \ {k}, 0)'
        BY <1>2, <1>3, <3>1, <3>2, Frame DEF Made
      <3>5. AtRemove(p)'
        BY <1>2, <1>3, <2>1, <2>2, <2>3, <2>4, <3>3, <3>4, Frame, Locals DEF AtRemove
      <3>6. QED
        BY <2>1, <2>4, <3>5 DEF Moves, At
    <2>5. CASE k \notin Present
      <3>1. Found(p, Past(p)') = Found(p, Past(p))
        BY <1>3, <2>2, <2>3, <2>5 DEF Found
      <3>2. entry = Result(p, {}, Past(p)')
        BY <1>3, <2>2, <2>3, <2>5 DEF Result, KeysBefore
      <3>3. AtBatchDeleteExist(p)'
        BY <1>2, <1>3, <2>1, <3>1, <3>2, Frame, Locals DEF AtBatchDeleteExist, Made
      <3>4. QED
        BY <2>1, <2>5, <3>3 DEF Moves, At
    <2>6. QED
      BY <2>4, <2>5
  <1>6. QED
    BY <1>4, <1>5 DEF BatchDeleteExist

\* The key found is removed.
LEMMA RemoveMoves ==
    ASSUME NEW p, Ready(p), RemoveEntry(p)
    PROVE  Moves(p)
  <1>1. AtRemove(p)
    BY DEF Ready, At, RemoveEntry
  <1>2. /\ entry' = [k \in Keys |-> IF k \in cur[p] THEN Absent ELSE entry[k]]
        /\ meta' = meta /\ todo'[p] = todo[p] /\ cur'[p] = cur[p] /\ stage'[p] = stage[p]
        /\ pc'[p] = IF op[p].kind = "batch_delete" THEN "bd_exist" ELSE "meta_get"
        /\ hit'[p] = IF op[p].kind = "batch_delete" THEN hit[p] \cup cur[p] ELSE hit[p]
    BY Locals DEF RemoveEntry, Goto, marks, Ready, TypeOK
  <1>3. Past(p)' = Past(p)
    BY <1>2, Frame DEF Past
  <1>4. CASE /\ Kind(p, {"delete_entry"}) /\ stage[p] = "one" /\ cur[p] = op[p].dels
             /\ Found(p, op[p].dels) # {}
             /\ Made(p, {}, {}, 0)
    <2>1. op[p].kind = "delete_entry"
      BY <1>4, Locals
    <2>2. op[p].dels = {} \cup cur[p]
      BY <1>4
    <2>3. entry' = Result(p, {}, op[p].dels)
      BY <1>2, <1>4, <2>2, DropMany DEF Made
    <2>4. Made(p, {}, op[p].dels, 0)'
      BY <1>2, <1>4, <2>3, Frame DEF Made
    <2>5. Due(p)'
      <3>1. /\ Kind(p, {"delete_entry", "batch_delete"})'
            /\ stage'[p] = "one" /\ Found(p, op[p].dels)' # {}
        BY <1>2, <1>4, <2>1, Frame, Locals
      <3>2. QED
        BY <2>4, <3>1 DEF Due
    <2>6. QED
      BY <1>2, <2>1, <2>5 DEF Moves, At
  <1>5. ASSUME NEW k \in KeysBefore,
               Kind(p, {"batch_delete"}), stage[p] = "one", cur[p] = {k},
               k \in Past(p), todo[p] \subseteq op[p].dels,
               hit[p] = Found(p, Past(p) \ {k}),
               Made(p, {}, Past(p) \ {k}, 0)
        PROVE  Moves(p)
    <2>1. op[p].kind = "batch_delete"
      BY <1>5, Locals
    <2>2. PICK D : D = Past(p) \ {k}
      OBVIOUS
    <2>3. Past(p) = D \cup cur[p]
      BY <1>5, <2>2
    <2>4. entry' = Result(p, {}, Past(p)) /\ meta' = Bumped(0)
      <3>1. entry = Result(p, {}, D) /\ meta' = Bumped(0)
        BY <1>2, <1>5, <2>2 DEF Made
      <3>2. QED
        BY <1>2, <2>3, <3>1, DropMany
    <2>5. hit'[p] = Found(p, Past(p))
      BY <1>2, <1>5, <2>1 DEF Found
    <2>6. Made(p, {}, Past(p), 0)' /\ hit'[p] = Found(p, Past(p))'
      BY <1>3, <2>4, <2>5, Frame DEF Made
    <2>7. AtBatchDeleteExist(p)'
      BY <1>2, <1>5, <2>6, Frame DEF AtBatchDeleteExist
    <2>8. QED
      BY <1>2, <2>1, <2>7 DEF Moves, At
  <1>6. CASE DeletingOne(p)
    <2>1. PICK k \in Keys :
             /\ Deletes(p, k)
             /\ Made(p, op[p].puts, Past(p) \ {k}, Base(p) + Cardinality(Found(p, Past(p) \ {k})))
      BY <1>6 DEF DeletingOne
    <2>2. op[p].kind = "mutate" /\ cur[p] = {k} /\ k \in Past(p)
      BY <2>1, Locals DEF Deletes, Looping, Found
    <2>3. PICK D : D = Past(p) \ {k}
      OBVIOUS
    <2>4. Past(p) = D \cup cur[p]
      BY <2>2, <2>3
    <2>5. entry' = Result(p, op[p].puts, Past(p))
      <3>1. PICK P : P = op[p].puts
        OBVIOUS
      <3>2. entry = Result(p, P, D)
        BY <2>1, <2>3, <3>1 DEF Made
      <3>3. entry' = Result(p, P, Past(p))
        BY <1>2, <2>4, <3>2 DEF Result
      <3>4. QED
        BY <3>1, <3>3
    <2>6. Looping(p)'
      BY <1>2, <1>3, <2>1, <2>2, Frame DEF Deletes, Looping
    <2>7. Deletes(p, k)'
      BY <1>2, <1>3, <2>1, <2>6, Frame DEF Deletes
    <2>8. (Past(p) \ {k})' = D
      BY <1>3, <2>3
    <2>a. meta' = Bumped(Base(p) + Cardinality(Found(p, D)))
      BY <1>2, <2>1, <2>3 DEF Made
    <2>9. Made(p, op[p].puts, Past(p), Base(p) + Cardinality(Found(p, Past(p) \ {k})))'
      BY <1>3, <2>5, <2>8, <2>a, Frame DEF Made
    <2>10. Due(p)'
      BY <2>7, <2>9 DEF Due
    <2>11. QED
      BY <1>2, <2>2, <2>10 DEF Moves, At
  <1>7. QED
    BY <1>1, <1>4, <1>5, <1>6 DEF AtRemove

-----------------------------------------------------------------------------
(* batch_mutate_entries.                                                   *)

\* The loop of a batch without sets, before its first key.
LEMMA LoopStarts ==
    ASSUME NEW p, Ready(p), UNCHANGED <<entry, meta>>,
           op[p].kind = "mutate", op[p].puts = {}, Accepted(p),
           stage'[p] = "dels", todo'[p] = op[p].dels, hit'[p] = {},
           entry = Result(p, {}, {}), meta = Bumped(0)
    PROVE  Looped(p)'
  <1>1. Past(p)' = {}
    BY Frame DEF Past
  <1>2. Found(p, {}) = {}
    BY DEF Found
  <1>3. Base(p) + Cardinality(Found(p, {})) = 0
    BY <1>2, FS_EmptySet DEF Base
  <1>4. Looping(p)'
    BY <1>1, <1>2, Frame, Locals DEF Looping
  <1>5. QED
    BY <1>1, <1>3, <1>4, Frame DEF Looped, Made

\* A batch of deletes compares the version.
LEMMA MutateCheckMoves ==
    ASSUME NEW p, Ready(p), MutateCheck(p)
    PROVE  Moves(p)
  <1>1. AtMutateCheck(p)
    BY DEF Ready, At, MutateCheck
  <1>2. UNCHANGED <<entry, meta>> /\ hit'[p] = hit[p] /\ todo'[p] = todo[p] /\ stage'[p] = stage[p]
    BY DEF MutateCheck, records, marks
  <1>3. /\ op[p].kind = "mutate" /\ op[p].puts = {} /\ stage[p] = "dels"
        /\ todo[p] = op[p].dels /\ hit[p] = {}
        /\ entry = Result(p, {}, {}) /\ meta = Bumped(0)
    BY <1>1, Locals DEF AtMutateCheck, Made
  <1>4. pc'[p] = IF op[p].expect # Default0.version THEN "idle" ELSE "mut_get"
    BY <1>3, NoneBumped, Locals DEF MutateCheck, Goto, Ready, TypeOK
  <1>5. CASE op[p].expect # Default0.version
    <2>1. CASE op[p].expect # NoExpect
      <3>1. ~Accepted(p) /\ Made(p, {}, {}, 0)'
        BY <1>2, <1>3, <1>5, <2>1, Frame DEF Accepted, Made
      <3>2. Outcome(p)'
        BY <1>3, <3>1, Frame, Locals DEF Outcome
      <3>3. QED
        BY <1>4, <1>5, <3>2 DEF Moves
    <2>2. CASE op[p].expect = NoExpect
      BY <1>1, <2>2 DEF AtMutateCheck
    <2>3. QED
      BY <2>1, <2>2
  <1>6. CASE op[p].expect = Default0.version
    <2>1. Accepted(p)
      BY <1>6 DEF Accepted
    <2>2. Looped(p)'
      BY <1>2, <1>3, <2>1, LoopStarts
    <2>3. QED
      BY <1>4, <1>6, <2>2 DEF Moves, At, AtMutateGet
  <1>7. QED
    BY <1>5, <1>6

\* The delete loop visits a key, or ends.
LEMMA MutateGetMoves ==
    ASSUME NEW p, Ready(p), MutateGet(p)
    PROVE  Moves(p)
  <1>1. AtMutateGet(p)
    BY DEF Ready, At, MutateGet
  <1>2. UNCHANGED <<entry, meta>>
    BY DEF MutateGet, records
  <1>3. CASE /\ todo[p] = {}
             /\ Goto(p, IF stage[p] = "tail" THEN "idle"
                        ELSE IF hit[p] # {} THEN "meta_get" ELSE "mut_version")
             /\ stage' = [stage EXCEPT ![p] = IF @ # "tail" /\ hit[p] # {} THEN "bump" ELSE @]
             /\ UNCHANGED <<todo, hit, cur>>
    <2>1. /\ stage'[p] = IF stage[p] # "tail" /\ hit[p] # {} THEN "bump" ELSE stage[p]
          /\ pc'[p] = IF stage[p] = "tail" THEN "idle"
                      ELSE IF hit[p] # {} THEN "meta_get" ELSE "mut_version"
      BY <1>3, Locals DEF Goto, Ready, TypeOK
    <2>2. Past(p) = op[p].dels
      BY <1>3 DEF Past
    <2>3. CASE Looped(p)
      <3>1. /\ op[p].kind = "mutate" /\ Accepted(p)
            /\ \/ stage[p] = "dels" /\ op[p].puts = {} /\ hit[p] = Found(p, op[p].dels)
               \/ stage[p] = "tail" /\ op[p].puts # {}
            /\ entry = Result(p, op[p].puts, op[p].dels)
            /\ meta = Bumped(Base(p) + Cardinality(Found(p, op[p].dels)))
        BY <2>2, <2>3, Locals DEF Looped, Looping, Made
      <3>2. CASE stage[p] = "tail"
        <4>1. Base(p) = 1
          BY <3>1, <3>2 DEF Base
        <4>2. Made(p, op[p].puts, op[p].dels, 1 + Cardinality(Found(p, op[p].dels)))'
          BY <1>2, <3>1, <4>1, Frame DEF Made
        <4>3. Outcome(p)'
          BY <3>1, <3>2, <4>2, Frame, Locals DEF Outcome
        <4>4. QED
          BY <2>1, <3>2, <4>3 DEF Moves
      <3>3. CASE stage[p] = "dels"
        <4>1. PICK n : n = Cardinality(Found(p, op[p].dels))
          OBVIOUS
        <4>2. n \in Nat /\ (Found(p, op[p].dels) = {} <=> n = 0) /\ Base(p) = 0
          BY <3>1, <3>3, <4>1, FoundFinite, Locals DEF Base
        <4>3. Base(p) + n = n
          BY <4>2
        <4>4. entry' = Result(p, {}, op[p].dels) /\ meta' = Bumped(n)
          BY <1>2, <3>1, <3>3, <4>1, <4>3
        <4>5. CASE hit[p] = {}
          <5>1. Made(p, {}, op[p].dels, 0)'
            BY <3>1, <3>3, <4>2, <4>4, <4>5, Frame DEF Made
          <5>2. AtMutateVersion(p)'
            BY <3>1, <3>3, <4>5, <5>1, Frame, Locals DEF AtMutateVersion
          <5>3. QED
            BY <2>1, <3>3, <4>5, <5>2 DEF Moves, At
        <4>6. CASE hit[p] # {}
          <5>1. Made(p, {}, op[p].dels, Cardinality(Found(p, op[p].dels)))'
            BY <4>1, <4>4, Frame DEF Made
          <5>2. /\ Kind(p, {"mutate"})' /\ Accepted(p)' /\ op'[p].puts = {}
                /\ stage'[p] = "bump" /\ Found(p, op[p].dels)' # {}
            BY <2>1, <3>1, <3>3, <4>6, Frame, Locals
          <5>3. Due(p)'
            BY <5>1, <5>2 DEF Due
          <5>4. QED
            BY <2>1, <3>3, <4>6, <5>3 DEF Moves, At
        <4>7. QED
          BY <4>5, <4>6
      <3>4. QED
        BY <3>1, <3>2, <3>3
    <2>4. CASE Swept(p)
      <3>1. stage[p] = "tail" /\ op[p].kind = "mutate" /\ op[p].puts = {} /\ Accepted(p)
        BY <2>4, Locals DEF Swept
      <3>2. CASE Found(p, op[p].dels) = {}
        <4>1. entry = Result(p, {}, op[p].dels) /\ meta = Bumped(0)
          BY <2>4, <3>2 DEF Swept, Made
        <4>2. op[p].dels \cap KeysBefore = {}
          BY <3>2 DEF Found
        <4>3. Result(p, {}, op[p].dels) = pre.entry /\ Result(p, {}, {}) = pre.entry
          BY <4>2, NothingMade DEF Ready
        <4>4. Made(p, {}, {}, 0)'
          BY <1>2, <4>1, <4>3, Frame DEF Made
        <4>5. Outcome(p)'
          BY <3>1, <3>2, <4>4, Frame, Locals DEF Outcome
        <4>6. QED
          BY <2>1, <3>1, <4>5 DEF Moves
      <3>3. CASE Found(p, op[p].dels) # {}
        <4>1. Made(p, op[p].puts, op[p].dels, 1 + Cardinality(Found(p, op[p].dels)))'
          BY <1>2, <2>4, <3>1, <3>3, Frame DEF Swept, Made
        <4>2. Outcome(p)'
          BY <3>1, <3>3, <4>1, Frame, Locals DEF Outcome
        <4>3. QED
          BY <2>1, <3>1, <4>2 DEF Moves
      <3>4. QED
        BY <3>2, <3>3
    <2>5. QED
      BY <1>1, <2>3, <2>4 DEF AtMutateGet
  <1>4. ASSUME NEW k \in todo[p],
               Goto(p, IF k \in Present THEN "del_exist" ELSE "mut_get"),
               todo' = [todo EXCEPT ![p] = @ \ {k}],
               cur' = [cur EXCEPT ![p] = {k}],
               hit' = [hit EXCEPT ![p] = @ \cup ({k} \cap Present)],
               UNCHANGED stage
        PROVE  Moves(p)
    <2>1. /\ todo'[p] = todo[p] \ {k} /\ cur'[p] = {k} /\ stage'[p] = stage[p]
          /\ hit'[p] = hit[p] \cup ({k} \cap Present)
          /\ pc'[p] = IF k \in Present THEN "del_exist" ELSE "mut_get"
      BY <1>4, Locals DEF Goto, Ready, TypeOK
    <2>2. /\ k \in op[p].dels /\ k \in Keys /\ k \notin Past(p) /\ todo[p] \subseteq op[p].dels
          /\ Past(p)' = Past(p) \cup {k} /\ Past(p)' \ {k} = Past(p)
      <3>1. todo[p] \subseteq op[p].dels
        BY <1>1 DEF AtMutateGet, Looped, Looping, Swept
      <3>2. QED
        BY <1>4, <2>1, <3>1, Frame, Locals DEF Past
    <2>3. CASE Looped(p)
      <3>1. /\ Looping(p) /\ op[p].kind = "mutate" /\ Accepted(p)
            /\ entry = Result(p, op[p].puts, Past(p))
            /\ meta = Bumped(Base(p) + Cardinality(Found(p, Past(p))))
        BY <2>3, Locals DEF Looped, Looping, Made
      <3>2. Present = (KeysBefore \cup op[p].puts) \ Past(p)
        BY <3>1, PresentNow, Locals DEF Ready
      <3>3. hit[p] = Found(p, Past(p)) => hit'[p] = Found(p, Past(p)')
        BY <2>1, <2>2, <3>2 DEF Found
      <3>4. Looping(p)'
        BY <2>1, <2>2, <3>1, <3>3, Frame, Locals DEF Looping
      <3>5. CASE k \in Present
        <4>1. k \in Found(p, Past(p)')
          BY <2>2, <3>2, <3>5 DEF Found
        <4>2. Deletes(p, k)'
          BY <2>1, <3>4, <4>1, Frame DEF Deletes
        <4>3. PICK D : D = Past(p)
          OBVIOUS
        <4>4. (Past(p) \ {k})' = D
          BY <2>2, <4>3
        <4>5. Made(p, op[p].puts, Past(p) \ {k}, Base(p) + Cardinality(Found(p, Past(p) \ {k})))'
          BY <1>2, <3>1, <4>3, <4>4, Frame DEF Made
        <4>6. DeletingOne(p)'
          BY <2>2, <4>2, <4>5 DEF DeletingOne
        <4>7. QED
          BY <2>1, <3>5, <4>6 DEF Moves, At, AtDeleteExist
      <3>6. CASE k \notin Present
        <4>1. Found(p, Past(p)') = Found(p, Past(p))
          BY <2>2, <3>2, <3>6 DEF Found
        <4>2. Result(p, op[p].puts, Past(p)') = Result(p, op[p].puts, Past(p))
          BY <2>2, <3>2, <3>6 DEF Result, KeysBefore
        <4>3. Looped(p)'
          BY <1>2, <3>1, <3>4, <4>1, <4>2, Frame DEF Looped, Made
        <4>4. QED
          BY <2>1, <3>6, <4>3 DEF Moves, At, AtMutateGet
      <3>7. QED
        BY <3>5, <3>6
    <2>4. CASE Swept(p)
      <3>1. k \notin Present
        <4>1. entry = Result(p, {}, op[p].dels)
          BY <2>4 DEF Swept, Made
        <4>2. entry[k] = Absent
          BY <2>2, <4>1 DEF Result
        <4>3. QED
          BY <4>2 DEF Present
      <3>2. Swept(p)'
        BY <1>2, <2>1, <2>2, <2>4, Frame DEF Swept, Made
      <3>3. QED
        BY <2>1, <3>1, <3>2 DEF Moves, At, AtMutateGet
    <2>5. QED
      BY <1>1, <2>3, <2>4 DEF AtMutateGet
  <1>5. QED
    BY <1>3, <1>4 DEF MutateGet

\* A batch of deletes that found nothing.
LEMMA MutateVersionMoves ==
    ASSUME NEW p, Ready(p), MutateVersion(p)
    PROVE  Moves(p)
  <1>1. AtMutateVersion(p)
    BY DEF Ready, At, MutateVersion
  <1>2. UNCHANGED <<entry, meta>> /\ todo'[p] = op[p].dels /\ stage'[p] = "tail"
        /\ pc'[p] \in {"mut_get", "idle"}
    BY Locals DEF MutateVersion, records, Goto, Ready, TypeOK
  <1>3. /\ op[p].kind = "mutate" /\ op[p].puts = {} /\ Accepted(p) /\ Found(p, op[p].dels) = {}
        /\ entry = Result(p, {}, op[p].dels) /\ meta = Bumped(0)
    BY <1>1, Locals DEF AtMutateVersion, Made
  <1>4. Swept(p)'
    BY <1>2, <1>3, Frame, Locals DEF Swept, Made
  <1>5. op[p].dels \cap KeysBefore = {}
    BY <1>3 DEF Found
  <1>6. Result(p, {}, op[p].dels) = pre.entry /\ Result(p, {}, {}) = pre.entry
    BY <1>5, NothingMade DEF Ready
  <1>7. Made(p, {}, {}, 0)'
    BY <1>2, <1>3, <1>6, Frame DEF Made
  <1>8. Outcome(p)'
    BY <1>3, <1>7, Frame, Locals DEF Outcome
  <1>9. QED
    BY <1>2, <1>4, <1>8 DEF Moves, At, AtMutateGet

-----------------------------------------------------------------------------
(* upsert_object and ensure_metadata_exists.                               *)

\* An upsert without entries leaves the entries, and a metadata record.
LEMMA EmptyUpsert ==
    ASSUME NEW p, Ready(p), op[p].kind = "upsert", op[p].puts = {},
           entry' = pre.entry, meta' = Default0
    PROVE  Outcome(p)'
  <1>1. Result(p, {}, {}) = pre.entry
    BY NothingMade DEF Ready
  <1>2. entry' = Result(p, op[p].puts, {})' /\ op'[p].puts = {} /\ meta' = Default0'
    BY <1>1, Frame
  <1>3. Kind(p, {"upsert"})'
    BY Frame, Locals
  <1>4. QED
    BY <1>2, <1>3 DEF Outcome

\* ensure_metadata_exists looks for a record.
LEMMA EnsureGetMoves ==
    ASSUME NEW p, Ready(p), EnsureGet(p)
    PROVE  Moves(p)
  <1>1. AtEnsureGet(p)
    BY DEF Ready, At, EnsureGet
  <1>2. /\ UNCHANGED <<entry, meta>> /\ stage'[p] = stage[p]
        /\ pc'[p] = IF meta = NoMeta THEN "ens_put" ELSE IF op[p].cfg THEN "cfg_put" ELSE "idle"
    BY Locals DEF EnsureGet, records, marks, Goto, Ready, TypeOK
  <1>3. /\ op[p].kind = "upsert" /\ op[p].puts = {} /\ stage[p] = "one"
        /\ entry = Result(p, {}, {}) /\ meta = pre.meta
    BY <1>1, Locals, NoneBumped DEF AtEnsureGet, Made
  <1>4. Result(p, {}, {}) = pre.entry
    BY NothingMade DEF Ready
  <1>5. CASE meta = NoMeta
    <2>1. AtEnsureGet(p)' /\ pre'.meta = NoMeta
      BY <1>1, <1>2, <1>3, <1>5, Frame DEF AtEnsureGet, Made
    <2>2. QED
      BY <1>2, <1>5, <2>1 DEF Moves, At
  <1>6. CASE meta # NoMeta
    <2>1. meta = Default0
      BY <1>3, <1>6 DEF Default0
    <2>2. AtConfigPut(p)'
      BY <1>2, <1>3, <1>4, <2>1, Frame, Locals DEF AtConfigPut
    <2>3. Outcome(p)'
      BY <1>2, <1>3, <1>4, <2>1, EmptyUpsert
    <2>4. QED
      BY <1>2, <1>6, <2>2, <2>3 DEF Moves, At
  <1>7. QED
    BY <1>5, <1>6

\* ensure_metadata_exists stores the default where there was none.
LEMMA EnsurePutMoves ==
    ASSUME NEW p, Ready(p), EnsurePut(p)
    PROVE  Moves(p)
  <1>1. AtEnsureGet(p) /\ pre.meta = NoMeta
    BY DEF Ready, At, EnsurePut
  <1>2. /\ entry' = entry /\ meta' = DefaultMetadata /\ stage'[p] = stage[p]
        /\ pc'[p] = IF op[p].cfg THEN "cfg_put" ELSE "idle"
    BY Locals DEF EnsurePut, PutMeta, marks, Goto, Ready, TypeOK
  <1>3. /\ op[p].kind = "upsert" /\ op[p].puts = {} /\ stage[p] = "one"
        /\ entry = Result(p, {}, {}) /\ meta' = Default0
    BY <1>1, <1>2, Locals DEF AtEnsureGet, Made, Default0
  <1>4. Result(p, {}, {}) = pre.entry
    BY NothingMade DEF Ready
  <1>5. AtConfigPut(p)'
    BY <1>2, <1>3, <1>4, Frame, Locals DEF AtConfigPut
  <1>6. Outcome(p)'
    BY <1>2, <1>3, <1>4, EmptyUpsert
  <1>7. QED
    BY <1>2, <1>5, <1>6 DEF Moves, At

\* The event configuration is stored; it is no part of the abstract object.
LEMMA ConfigPutMoves ==
    ASSUME NEW p, Ready(p), ConfigPut(p)
    PROVE  Moves(p)
  <1>1. AtConfigPut(p)
    BY DEF Ready, At, ConfigPut
  <1>2. /\ UNCHANGED <<entry, meta>> /\ stage'[p] = stage[p]
        /\ pc'[p] = IF op[p].puts = {} THEN "idle" ELSE "cas"
    BY Locals DEF ConfigPut, marks, Goto, Ready, TypeOK
  <1>3. Result(p, {}, {}) = pre.entry
    BY NothingMade DEF Ready
  <1>4. CASE op[p].puts = {}
    <2>1. Outcome(p)'
      BY <1>1, <1>2, <1>4, Locals, EmptyUpsert DEF AtConfigPut
    <2>2. QED
      BY <1>2, <1>4, <2>1 DEF Moves
  <1>5. CASE op[p].puts # {}
    <2>1. Made(p, {}, {}, 0)'
      BY <1>1, <1>2, <1>3, <1>5, Frame DEF AtConfigPut, Made, Bumped
    <2>2. AtCas(p)'
      BY <1>1, <1>2, <1>5, <2>1, Frame, Locals DEF AtConfigPut, AtCas
    <2>3. QED
      BY <1>2, <1>5, <2>2 DEF Moves, At
  <1>6. QED
    BY <1>4, <1>5

-----------------------------------------------------------------------------
(* internal_delete_object.                                                 *)

\* An absent or tombstoned object is left alone.
LEMMA DeleteGetMoves ==
    ASSUME NEW p, Ready(p), DeleteGet(p)
    PROVE  Moves(p)
  <1>1. AtDeleteGet(p)
    BY DEF Ready, At, DeleteGet
  <1>2. UNCHANGED <<entry, meta>>
    BY DEF DeleteGet, records
  <1>3. /\ op[p].kind = "delete_object" /\ meta = pre.meta
        /\ entry = Result(p, {}, {}) /\ Result(p, {}, {}) = pre.entry
    BY <1>1, Locals, NoneBumped, NothingMade DEF AtDeleteGet, Made, Ready
  <1>4. CASE meta = NoMeta \/ Tombstoned
    <2>1. ~Live0 /\ pc'[p] = "idle"
      BY <1>3, <1>4, Locals DEF Live0, Tombstoned, DeleteGet, Goto, Ready, TypeOK
    <2>2. Made(p, {}, {}, 0)'
      BY <1>1, <1>2, Frame DEF AtDeleteGet, Made
    <2>3. Outcome(p)'
      BY <1>3, <2>1, <2>2, Frame, Locals DEF Outcome
    <2>4. QED
      BY <2>1, <2>3 DEF Moves
  <1>5. CASE ~(meta = NoMeta \/ Tombstoned)
    <2>1. Live0 /\ Default0 = pre.meta
      BY <1>3, <1>5 DEF Live0, Tombstoned, Default0
    <2>2. snap'[p] = meta /\ pc'[p] \in {"page", "range_scan"}
      BY <1>5, Locals DEF DeleteGet, Goto, Ready, TypeOK
    <2>3. AtListing(p)'
      BY <1>2, <1>3, <2>1, <2>2, Frame, Locals DEF AtListing, Erasing
    <2>4. QED
      BY <2>2, <2>3 DEF Moves, At
  <1>6. QED
    BY <1>4, <1>5

\* Listing the pages, and reading the metadata and the configuration.
LEMMA ListingMoves ==
    ASSUME NEW p, Ready(p), ListPage(p) \/ ReconMeta(p) \/ PredeleteConfig(p)
    PROVE  Moves(p)
  <1>1. AtListing(p)
    BY DEF Ready, At, ListPage, ReconMeta, PredeleteConfig
  <1>2. /\ UNCHANGED <<entry, meta>> /\ snap'[p] = snap[p]
        /\ pc'[p] \in {"page", "recon_meta", "pre_cfg", "range_scan"}
    BY Locals DEF ListPage, ReconMeta, PredeleteConfig, records, Goto, Ready, TypeOK
  <1>3. AtListing(p)'
    BY <1>1, <1>2, Frame DEF AtListing, Erasing
  <1>4. QED
    BY <1>2, <1>3 DEF Moves, At

\* delete_range collects the records of the object.
LEMMA RangeScanMoves ==
    ASSUME NEW p, Ready(p), RangeScan(p)
    PROVE  Moves(p)
  <1>1. AtListing(p)
    BY DEF Ready, At, RangeScan
  <1>2. meta # NoMeta /\ Present = KeysBefore
    BY <1>1 DEF AtListing, Erasing, Live0, Present, KeysBefore
  <1>3. /\ UNCHANGED <<entry, meta>> /\ snap'[p] = snap[p]
        /\ pc'[p] = "range_meta" /\ todo'[p] = KeysBefore /\ "meta" \in seen'[p]
    BY <1>2, Locals DEF RangeScan, records, Goto, Ready, TypeOK
  <1>4. AtRangeMeta(p)'
    BY <1>1, <1>3, Frame DEF AtRangeMeta, AtListing, Erasing
  <1>5. QED
    BY <1>3, <1>4 DEF Moves, At

\* The metadata goes first.
LEMMA RangeMetaMoves ==
    ASSUME NEW p, Ready(p), RangeMeta(p)
    PROVE  Moves(p)
  <1>1. AtRangeMeta(p)
    BY DEF Ready, At, RangeMeta
  <1>2. entry' = entry /\ snap'[p] = snap[p] /\ todo'[p] = todo[p] /\ pc'[p] = "range_cfg"
    BY Locals DEF RangeMeta, Goto, Ready, TypeOK
  <1>3. AtRangeConfig(p)'
    BY <1>1, <1>2, Frame DEF AtRangeMeta, AtListing, AtRangeConfig, Erasing
  <1>4. QED
    BY <1>2, <1>3 DEF Moves, At

\* The event configuration goes next.
LEMMA RangeConfigMoves ==
    ASSUME NEW p, Ready(p), RangeConfig(p)
    PROVE  Moves(p)
  <1>1. AtRangeConfig(p)
    BY DEF Ready, At, RangeConfig
  <1>2. /\ entry' = entry /\ snap'[p] = snap[p] /\ todo'[p] = todo[p]
        /\ pc'[p] = IF todo[p] = {} THEN "tomb_put" ELSE "range_key"
    BY Locals DEF RangeConfig, Goto, Ready, TypeOK
  <1>3. Kind(p, {"delete_object"})' /\ Live0' /\ snap'[p] = Default0' /\ todo'[p] = KeysBefore
        /\ entry' = pre.entry
    BY <1>1, <1>2, Frame DEF AtRangeConfig, Erasing
  <1>4. PICK D : D = KeysBefore \ todo[p]
    OBVIOUS
  <1>5. D = {} /\ (KeysBefore \ todo[p])' = D
    BY <1>1, <1>2, <1>4, Frame DEF AtRangeConfig
  <1>6. Result(p, {}, D) = pre.entry
    BY <1>5, NothingMade DEF Ready
  <1>7. CASE todo[p] # {}
    <2>1. AtRangeKey(p)'
      BY <1>2, <1>3, <1>5, <1>6, <1>7, Frame DEF AtRangeKey, Erasing
    <2>2. QED
      BY <1>2, <1>7, <2>1 DEF Moves, At
  <1>8. CASE todo[p] = {}
    <2>1. D = KeysBefore
      BY <1>2, <1>3, <1>5, <1>8
    <2>2. AtTombPut(p)'
      BY <1>3, <1>6, <2>1, Frame DEF AtTombPut, Erasing
    <2>3. QED
      BY <1>2, <1>8, <2>2 DEF Moves, At
  <1>9. QED
    BY <1>7, <1>8

\* The entries go in key order.
LEMMA RangeKeyMoves ==
    ASSUME NEW p, Ready(p), RangeKey(p)
    PROVE  Moves(p)
  <1>1. AtRangeKey(p)
    BY DEF Ready, At, RangeKey
  <1>2. PICK k \in todo[p] :
            /\ entry' = [entry EXCEPT ![k] = Absent]
            /\ todo' = [todo EXCEPT ![p] = @ \ {k}]
            /\ Goto(p, IF todo[p] = {k} THEN "tomb_put" ELSE "range_key")
    BY DEF RangeKey
  <1>3. /\ snap'[p] = snap[p] /\ todo'[p] = todo[p] \ {k}
        /\ pc'[p] = IF todo[p] = {k} THEN "tomb_put" ELSE "range_key"
    BY <1>2, Locals DEF RangeKey, Goto, Ready, TypeOK
  <1>4. PICK D : D = KeysBefore \ todo[p]
    OBVIOUS
  <1>5. PICK E : E = D \cup {k}
    OBVIOUS
  <1>6. k \in Keys /\ k \in KeysBefore /\ todo[p] \subseteq KeysBefore /\ entry = Result(p, {}, D)
    BY <1>1, <1>2, <1>4 DEF AtRangeKey, Erasing, KeysBefore
  <1>7. entry' = Result(p, {}, E) /\ (KeysBefore \ todo[p])' = E
    <2>1. entry' = Result(p, {}, E)
      BY <1>2, <1>5, <1>6, DropOne
    <2>2. (KeysBefore \ todo[p])' = E
      BY <1>3, <1>4, <1>5, <1>6, Frame
    <2>3. QED
      BY <2>1, <2>2
  <1>8. Kind(p, {"delete_object"})' /\ Live0' /\ snap'[p] = Default0'
    BY <1>1, <1>3, Frame DEF AtRangeKey, Erasing
  <1>9. CASE todo[p] # {k}
    <2>1. todo'[p] # {} /\ todo'[p] \subseteq KeysBefore'
      BY <1>2, <1>3, <1>6, <1>9, Frame
    <2>2. AtRangeKey(p)'
      BY <1>7, <1>8, <2>1, Frame DEF AtRangeKey, Erasing
    <2>3. QED
      BY <1>3, <1>9, <2>2 DEF Moves, At
  <1>10. CASE todo[p] = {k}
    <2>1. E = KeysBefore
      BY <1>4, <1>5, <1>6, <1>10
    <2>2. AtTombPut(p)'
      BY <1>7, <1>8, <2>1, Frame DEF AtTombPut, Erasing
    <2>3. QED
      BY <1>3, <1>10, <2>2 DEF Moves, At
  <1>11. QED
    BY <1>9, <1>10

\* The metadata comes back as a tombstone.
LEMMA TombPutMoves ==
    ASSUME NEW p, Ready(p), TombPut(p)
    PROVE  Moves(p)
  <1>1. AtTombPut(p)
    BY DEF Ready, At, TombPut
  <1>2. /\ entry' = entry /\ meta' = [version |-> snap[p].version + 1, tomb |-> TRUE]
        /\ pc'[p] \in {"notify", "idle"}
    BY Locals DEF TombPut, PutMeta, Goto, Ready, TypeOK
  <1>3. Erased(p)'
    BY <1>1, <1>2, Frame DEF AtTombPut, Erasing, Erased
  <1>4. QED
    BY <1>2, <1>3 DEF Moves, At, AtNotify, Outcome

-----------------------------------------------------------------------------
(* The refinement.                                                         *)

\* Every step of a running operation leads to its next step or to its outcome.
LEMMA StepMoves ==
    ASSUME NEW p, Ready(p), Step(p)
    PROVE  Moves(p)
  BY CasMoves, ExistMoves, WriteMoves, ZenohGetMoves, ZenohRemoveMoves, MetaGetMoves,
     ConfigGetMoves, NotifyMoves, MetaPutMoves, DeleteExistMoves, BatchDeleteExistMoves,
     RemoveMoves, MutateCheckMoves, MutateGetMoves, MutateVersionMoves, EnsureGetMoves,
     EnsurePutMoves, ConfigPutMoves, DeleteGetMoves, ListingMoves, RangeScanMoves,
     RangeMetaMoves, RangeConfigMoves, RangeKeyMoves, TombPutMoves
     DEF Step

\* An operation that begins has done nothing yet.
LEMMA BeginServes ==
    ASSUME TypeOK, NEW p \in Clients, Begin(p), pre' = Now
    PROVE  /\ pc'[p] # "idle" /\ op'[p] \in Requests /\ id'[p] = issued + 1 /\ At(p)'
           /\ \A q \in Clients : q # p => pc'[q] = pc[q] /\ id'[q] = id[q]
  <1>1. PICK r \in Requests :
            /\ op' = [op EXCEPT ![p] = r]
            /\ Goto(p, EntryPoint(r))
            /\ todo' = [todo EXCEPT ![p] = FirstKeys(r)]
            /\ cur' = [cur EXCEPT ![p] = IF r.kind = "delete_entry" THEN r.dels ELSE {}]
            /\ stage' = [stage EXCEPT ![p] =
                            IF r.kind = "mutate" /\ r.puts = {} THEN "dels" ELSE "one"]
    BY DEF Begin
  <1>2. /\ op'[p] = r /\ pc'[p] = EntryPoint(r) /\ todo'[p] = FirstKeys(r) /\ hit'[p] = {}
        /\ cur'[p] = (IF r.kind = "delete_entry" THEN r.dels ELSE {})
        /\ stage'[p] = (IF r.kind = "mutate" /\ r.puts = {} THEN "dels" ELSE "one")
        /\ id'[p] = issued + 1
        /\ \A q \in Clients : q # p => pc'[q] = pc[q] /\ id'[q] = id[q]
    BY <1>1 DEF TypeOK, Begin, Goto
  <1>3. /\ r \in Operation /\ r.kind \in Kinds
        /\ r.puts \in SUBSET Keys /\ r.dels \in SUBSET Keys
    BY EntryStoreAssumption DEF Operation
  <1>4. /\ pre'.entry = entry /\ pre'.meta = meta /\ entry' = entry /\ meta' = meta
    BY DEF Now, Begin, records
  <1>5. entry' = pre'.entry /\ entry' \in [Keys -> Nat] /\ meta' = pre'.meta
    BY <1>4 DEF TypeOK
  <1>6. Made(p, {}, {}, 0)'
    BY <1>5 DEF Made, Result, Bumped
  <1>7. \A K : Kind(p, K)' <=> r.kind \in K
    BY <1>2 DEF Kind
  <1>8. pc'[p] # "idle"
    BY <1>2, <1>3 DEF EntryPoint, FirstWrite, Kinds
  <1>9. CASE r.kind = "set_entry"
    <2>1. r.puts # {} /\ FirstKeys(r) = r.puts /\ EntryPoint(r) \in {"exist", "write"}
      BY <1>9, EntryStoreAssumption DEF FirstKeys, EntryPoint, FirstWrite
    <2>2. HasRead(p)' /\ Visiting(p, op[p].puts)' /\ Done(p)' = {}
      BY <1>2, <1>9, <2>1 DEF HasRead, Accepted, Visiting, Done
    <2>3. AtExist(p)'
      BY <1>6, <1>7, <1>9, <2>2 DEF AtExist
    <2>4. AtWrite(p)'
      BY <1>6, <1>7, <1>9, <2>2 DEF AtWrite, Made
    <2>5. QED
      BY <1>2, <1>8, <2>1, <2>3, <2>4 DEF At
  <1>10. CASE r.kind = "delete_entry"
    <2>1. EntryPoint(r) = "del_exist"
      BY <1>10 DEF EntryPoint
    <2>2. AtDeleteExist(p)'
      BY <1>2, <1>6, <1>7, <1>10 DEF AtDeleteExist
    <2>3. QED
      BY <1>2, <1>8, <2>1, <2>2 DEF At
  <1>11. CASE r.kind = "batch_delete"
    <2>1. EntryPoint(r) = "bd_exist" /\ FirstKeys(r) = r.dels
      BY <1>11, SequentialAssumption DEF EntryPoint, FirstKeys
    <2>2. Past(p)' = {} /\ Found(p, Past(p))' = {} /\ todo'[p] \subseteq op'[p].dels
      BY <1>2, <2>1 DEF Past, Found
    <2>3. AtBatchDeleteExist(p)'
      BY <1>2, <1>6, <1>7, <1>11, <2>2 DEF AtBatchDeleteExist, Made
    <2>4. QED
      BY <1>2, <1>8, <2>1, <2>3 DEF At
  <1>12. CASE r.kind = "mutate" /\ r.puts # {}
    <2>1. EntryPoint(r) = "cas"
      BY <1>12 DEF EntryPoint
    <2>2. AtCas(p)'
      BY <1>2, <1>6, <1>7, <1>12 DEF AtCas
    <2>3. QED
      BY <1>2, <1>8, <2>1, <2>2 DEF At
  <1>13. CASE r.kind = "mutate" /\ r.puts = {}
    <2>1. /\ EntryPoint(r) = IF r.expect # NoExpect THEN "mut_check" ELSE "mut_get"
          /\ FirstKeys(r) = r.dels
      BY <1>13 DEF EntryPoint, FirstKeys
    <2>2. CASE r.expect # NoExpect
      <3>1. AtMutateCheck(p)'
        BY <1>2, <1>6, <1>7, <1>13, <2>1, <2>2 DEF AtMutateCheck
      <3>2. QED
        BY <1>2, <1>8, <2>1, <2>2, <3>1 DEF At
    <2>3. CASE r.expect = NoExpect
      <3>1. Past(p)' = {} /\ Found(p, Past(p))' = {} /\ Base(p)' = 0 /\ Accepted(p)'
        BY <1>2, <1>13, <2>1, <2>3 DEF Past, Found, Base, Accepted
      <3>2. (Base(p) + Cardinality(Found(p, Past(p))))' = 0
        BY <3>1, FS_EmptySet
      <3>3. Looping(p)'
        BY <1>2, <1>7, <1>13, <2>1, <3>1 DEF Looping
      <3>4. Made(p, op[p].puts, Past(p), Base(p) + Cardinality(Found(p, Past(p))))'
        BY <1>2, <1>6, <1>13, <3>1, <3>2 DEF Made
      <3>5. QED
        BY <1>2, <1>8, <2>1, <2>3, <3>3, <3>4 DEF At, AtMutateGet, Looped
    <2>4. QED
      BY <2>2, <2>3
  <1>14. CASE r.kind = "upsert"
    <2>1. CASE r.puts = {}
      <3>1. EntryPoint(r) = "ens_get" /\ AtEnsureGet(p)'
        BY <1>2, <1>6, <1>7, <1>14, <2>1 DEF EntryPoint, AtEnsureGet
      <3>2. QED
        BY <1>2, <1>8, <3>1 DEF At
    <2>2. CASE r.puts # {}
      <3>1. EntryPoint(r) \in {"cfg_put", "cas"}
        BY <1>14, <2>2 DEF EntryPoint
      <3>2. AtConfigPut(p)'
        BY <1>2, <1>5, <1>7, <1>14, <2>2 DEF AtConfigPut
      <3>3. AtCas(p)'
        BY <1>2, <1>6, <1>7, <1>14, <2>2 DEF AtCas
      <3>4. QED
        BY <1>2, <1>8, <3>1, <3>2, <3>3 DEF At
    <2>3. QED
      BY <2>1, <2>2
  <1>15. CASE r.kind = "delete_object"
    <2>1. EntryPoint(r) = "del_get" /\ AtDeleteGet(p)'
      BY <1>6, <1>7, <1>15 DEF EntryPoint, AtDeleteGet
    <2>2. QED
      BY <1>2, <1>8, <2>1 DEF At
  <1>16. CASE r.kind = "zbatch"
    <2>1. EntryPoint(r) = "zb_get" /\ AtZenohGet(p)'
      BY <1>2, <1>6, <1>7, <1>16 DEF EntryPoint, AtZenohGet
    <2>2. QED
      BY <1>2, <1>8, <2>1 DEF At
  <1>17. QED
    BY <1>2, <1>3, <1>8, <1>9, <1>10, <1>11, <1>12, <1>13, <1>14, <1>15, <1>16 DEF Kinds

\* The initial states satisfy the invariant.
LEMMA SeqInitInv == SeqInit => SeqIInv
  <1> SUFFICES ASSUME SeqInit PROVE SeqIInv
    OBVIOUS
  <1>1. TypeOK
    BY InitType DEF SeqInit
  <1>2. pre.entry = entry /\ pre.meta = meta
    BY DEF SeqInit, Now
  <1>3. issued = 0 /\ 0 \in 0..MaxOps
    BY EntryStoreAssumption DEF SeqInit, Init
  <1>4. \A p \in Clients : id[p] = 0 /\ op[p] = NoOperation /\ pc[p] = "idle"
    BY DEF SeqInit, Init
  <1>5. SeqInv
    BY <1>1, <1>2, <1>3, <1>4 DEF SeqInv, TypeOK
  <1>6. QED
    BY <1>1, <1>5 DEF SeqIInv

\* Only one operation runs: no handler begins while another one is running.
LEMMA OneRuns ==
    ASSUME SeqIInv, NEW p \in Clients, NEW q \in Clients, pc[p] # "idle", pc[q] # "idle"
    PROVE  p = q
  <1>1. id[p] = issued /\ id[q] = issued /\ issued # 0
    BY DEF SeqIInv, SeqInv, Served
  <1>2. QED
    BY <1>1 DEF SeqIInv, SeqInv

\* A step of one handler leaves the others, and its own request, alone.
LEMMA StepFrame ==
    ASSUME TypeOK, NEW p \in Clients, Step(p)
    PROVE  /\ UNCHANGED <<op, id, issued>> /\ pc[p] # "idle"
           /\ \A q \in Clients : q # p => pc'[q] = pc[q]
  BY DEF TypeOK, Step, Goto, Finish, call, counts,
         Exist, WriteEntry, CasCheck, ZenohBatchGet, ZenohBatchRemove, MetaGet, MetaPut,
         ConfigGet, Notify, DeleteExist, BatchDeleteExist, RemoveEntry, MutateCheck, MutateGet,
         MutateVersion, EnsureGet, EnsurePut, ConfigPut, DeleteGet, ListPage, ReconMeta,
         PredeleteConfig, RangeScan, RangeMeta, RangeConfig, RangeKey, TombPut

\* A handler that can take a step is the one that serves the last request.
LEMMA StepReady ==
    ASSUME SeqIInv, NEW p \in Clients, Step(p), UNCHANGED pre
    PROVE  Ready(p)
  <1>1. UNCHANGED <<op, id, issued>> /\ pc[p] # "idle"
    BY StepFrame DEF SeqIInv
  <1>2. Served(p) /\ issued # 0
    BY <1>1 DEF SeqIInv, SeqInv
  <1>3. QED
    BY <1>1, <1>2 DEF Ready, Served, SeqIInv, SeqInv

\* A step of nobody leaves every handler where it is.
LEMMA StutterAt ==
    ASSUME NEW p, Ready(p), UNCHANGED vars
    PROVE  At(p)'
  <1>1. /\ UNCHANGED <<entry, meta>> /\ pc' = pc /\ todo' = todo /\ hit' = hit /\ cur' = cur
        /\ stage' = stage /\ snap' = snap /\ seen' = seen
    BY DEF vars, records, marks
  <1>2. Past(p)' = Past(p) /\ Done(p)' = Done(p)
    BY <1>1, Frame DEF Past, Done
  <1>3. (Due(p) => Due(p)') /\ (Stored(p) => Stored(p)')
    BY <1>1, LookFrame
  <1>4. DeletingOne(p) => DeletingOne(p)'
    BY <1>1, DeletingFrame
  <1>5. \A P, D, n : Made(p, P, D, n)' <=> Made(p, P, D, n)
    BY <1>1, Frame DEF Made
  <1>6. /\ AtEnsureGet(p) => AtEnsureGet(p)'
        /\ AtConfigPut(p) => AtConfigPut(p)'
        /\ AtCas(p) => AtCas(p)'
    BY <1>1, <1>5, Frame DEF AtEnsureGet, AtConfigPut, AtCas
  <1>7. /\ HasRead(p) => HasRead(p)'
        /\ \A S : Visiting(p, S)' <=> Visiting(p, S)
    BY <1>1, Frame DEF HasRead, Visiting
  <1>8. /\ AtExist(p) => AtExist(p)'
        /\ AtWrite(p) => AtWrite(p)'
        /\ AtZenohGet(p) => AtZenohGet(p)'
        /\ AtZenohRemove(p) => AtZenohRemove(p)'
    BY <1>1, <1>2, <1>5, <1>7, Frame DEF AtExist, AtWrite, AtZenohGet, AtZenohRemove
  <1>9. /\ AtNotify(p) => AtNotify(p)'
        /\ AtDeleteExist(p) => AtDeleteExist(p)'
    BY <1>1, <1>3, <1>4, <1>5, Frame DEF AtNotify, AtDeleteExist, Erased
  <1>10. AtRemove(p) => AtRemove(p)'
    <2>1. ASSUME NEW k \in KeysBefore,
                 Kind(p, {"batch_delete"}), stage[p] = "one", cur[p] = {k},
                 k \in Past(p), todo[p] \subseteq op[p].dels,
                 hit[p] = Found(p, Past(p) \ {k}),
                 Made(p, {}, Past(p) \ {k}, 0)
          PROVE  AtRemove(p)'
      <3>1. PICK D : D = Past(p) \ {k}
        OBVIOUS
      <3>2. (Past(p) \ {k})' = D
        BY <1>2, <3>1
      <3>3. hit'[p] = Found(p, Past(p) \ {k})' /\ Made(p, {}, Past(p) \ {k}, 0)'
        BY <1>1, <2>1, <3>1, <3>2, Frame DEF Made
      <3>4. QED
        BY <1>1, <1>2, <2>1, <3>3, Frame DEF AtRemove
    <2>2. QED
      BY <1>1, <1>4, <1>5, <2>1, Frame DEF AtRemove
  <1>11. /\ AtBatchDeleteExist(p) => AtBatchDeleteExist(p)'
         /\ AtMutateCheck(p) => AtMutateCheck(p)'
         /\ AtMutateVersion(p) => AtMutateVersion(p)'
    BY <1>1, <1>2, <1>5, Frame DEF AtBatchDeleteExist, AtMutateCheck, AtMutateVersion
  <1>12. AtMutateGet(p) => AtMutateGet(p)'
    <2>1. Looped(p) => Looped(p)'
      BY <1>1, <1>2, <1>5, Frame DEF Looped, Looping
    <2>2. Swept(p) => Swept(p)'
      BY <1>1, <1>5, Frame DEF Swept
    <2>3. QED
      BY <2>1, <2>2 DEF AtMutateGet
  <1>13. /\ AtDeleteGet(p) => AtDeleteGet(p)'
         /\ AtListing(p) => AtListing(p)'
         /\ AtRangeMeta(p) => AtRangeMeta(p)'
         /\ AtRangeConfig(p) => AtRangeConfig(p)'
         /\ AtTombPut(p) => AtTombPut(p)'
    BY <1>1, <1>5, Frame
       DEF AtDeleteGet, AtListing, AtRangeMeta, AtRangeConfig, AtTombPut, Erasing
  <1>14. AtRangeKey(p) => AtRangeKey(p)'
    <2>1. PICK D : D = KeysBefore \ todo[p]
      OBVIOUS
    <2>2. (KeysBefore \ todo[p])' = D
      BY <1>1, <2>1, Frame
    <2>3. QED
      BY <1>1, <2>1, <2>2, Frame DEF AtRangeKey, Erasing
  <1>15. At(p) /\ pre' = pre /\ MetaOrDefault' = MetaOrDefault
    BY <1>1, Frame DEF Ready, MetaOrDefault
  <1>16. QED
    BY <1>1, <1>3, <1>6, <1>8, <1>9, <1>10, <1>11, <1>12, <1>13, <1>14, <1>15 DEF At

\* The invariant is inductive.
LEMMA SeqNextInv == SeqIInv /\ [SeqNext]_seqVars => SeqIInv'
  <1> SUFFICES ASSUME SeqIInv, [SeqNext]_seqVars PROVE SeqIInv'
    OBVIOUS
  <1>1. ASSUME NEW p \in Clients, Quiet, Begin(p), pre' = Now
        PROVE  SeqIInv'
    <2>1. TypeOK'
      BY <1>1, BeginType DEF SeqIInv
    <2>2. /\ pc'[p] # "idle" /\ op'[p] \in Requests /\ id'[p] = issued + 1 /\ At(p)'
          /\ \A q \in Clients : q # p => pc'[q] = "idle" /\ id'[q] = id[q]
      BY <1>1, BeginServes DEF SeqIInv, Quiet
    <2>3. issued' = issued + 1 /\ issued < MaxOps /\ issued \in Nat
      BY <1>1 DEF Begin, SeqIInv, TypeOK
    <2>4. issued' \in 0..MaxOps /\ issued' # 0
      BY <2>3, EntryStoreAssumption
    <2>5. pre'.entry \in [Keys -> Nat] /\ pre'.meta \in Metadata \cup {NoMeta}
      BY <1>1 DEF Now, SeqIInv, TypeOK
    <2>6. \A q \in Clients : q # p => id'[q] < issued'
      BY <2>2, <2>3 DEF SeqIInv, SeqInv, TypeOK
    <2>7. Served(p)' /\ \A q \in Clients : pc'[q] # "idle" => q = p
      BY <2>2, <2>3 DEF Served
    <2>8. /\ \A q \in Clients : id'[q] <= issued'
          /\ \A q, r \in Clients : id'[q] = issued' /\ id'[r] = issued' /\ q # r => issued' = 0
      <3>1. id'[p] = issued' /\ issued' \in Nat /\ \A q \in Clients : id'[q] \in Nat
        BY <2>1, <2>2, <2>3 DEF TypeOK
      <3>2. \A q \in Clients : q # p => id'[q] # issued' /\ id'[q] <= issued'
        BY <2>6, <3>1
      <3>3. QED
        BY <3>1, <3>2
    <2>9. SeqInv'
      BY <2>4, <2>5, <2>7, <2>8 DEF SeqInv
    <2>10. QED
      BY <2>1, <2>9 DEF SeqIInv
  <1>2. ASSUME NEW p \in Clients, Step(p), UNCHANGED pre
        PROVE  SeqIInv'
    <2>1. TypeOK'
      BY <1>2, StepType DEF SeqIInv
    <2>2. Ready(p) /\ Moves(p)
      BY <1>2, StepReady, StepMoves
    <2>3. /\ UNCHANGED <<op, id, issued>> /\ pc[p] # "idle"
          /\ \A q \in Clients : q # p => pc'[q] = pc[q]
      BY <1>2, StepFrame DEF SeqIInv
    <2>4. Served(p) /\ issued # 0
      BY <2>3 DEF SeqIInv, SeqInv
    <2>5. \A q \in Clients : pc'[q] # "idle" => q = p
      BY <2>3, OneRuns
    <2>6. pc'[p] # "idle" => Served(p)'
      BY <2>2, <2>3, <2>4 DEF Moves, Served
    <2>7. SeqInv'
      BY <1>2, <2>3, <2>4, <2>5, <2>6 DEF SeqIInv, SeqInv
    <2>8. QED
      BY <2>1, <2>7 DEF SeqIInv
  <1>3. CASE UNCHANGED seqVars
    <2>1. UNCHANGED vars /\ UNCHANGED <<pre, op, id, issued, pc>>
      BY <1>3 DEF seqVars, vars, call, counts
    <2>2. TypeOK'
      BY <2>1, NextType DEF SeqIInv
    <2>3. ASSUME NEW p \in Clients, pc'[p] # "idle" PROVE Served(p)'
      <3>1. Served(p) /\ issued # 0
        BY <2>1, <2>3 DEF SeqIInv, SeqInv
      <3>2. Ready(p)
        BY <2>1, <3>1 DEF Ready, Served, SeqIInv, SeqInv
      <3>3. QED
        BY <2>1, <3>1, <3>2, StutterAt DEF Served
    <2>4. SeqInv'
      BY <2>1, <2>3 DEF SeqIInv, SeqInv
    <2>5. QED
      BY <2>2, <2>4 DEF SeqIInv
  <1>4. QED
    BY <1>1, <1>2, <1>3 DEF SeqNext

-----------------------------------------------------------------------------
(* The mapping.                                                            *)

\* The version and the life cycle of an incremented record.
LEMMA BumpedVersion ==
    ASSUME pre.meta \in Metadata \cup {NoMeta}, NEW n \in Nat \ {0}
    PROVE  /\ VersionOf(pre.meta) = Default0.version
           /\ VersionOf(Bumped(n)) = VersionOf(pre.meta) + n
           /\ LifeOf(Bumped(n)) = IF LifeOf(pre.meta) = "absent" THEN "live" ELSE LifeOf(pre.meta)
  <1>1. Default0 \in Metadata /\ Default0.version \in Nat /\ Default0.tomb \in BOOLEAN
    BY DefaultType
  <1>2. PICK m : m = [version |-> Default0.version + n, tomb |-> Default0.tomb]
    OBVIOUS
  <1>3. m = Bumped(n) /\ m \in Metadata /\ m.version = Default0.version + n /\ m.tomb = Default0.tomb
    BY <1>1, <1>2 DEF Bumped, Metadata
  <1>4. m # NoMeta
    BY <1>3, EntryStoreAssumption
  <1>5. VersionOf(pre.meta) = Default0.version
    BY DEF VersionOf, Default0, DefaultMetadata
  <1>6. VersionOf(m) = Default0.version + n
    BY <1>3, <1>4 DEF VersionOf
  <1>7. LifeOf(m) = IF LifeOf(pre.meta) = "absent" THEN "live" ELSE LifeOf(pre.meta)
    BY <1>3, <1>4 DEF LifeOf, Default0, DefaultMetadata
  <1>8. QED
    BY <1>3, <1>5, <1>6, <1>7

\* The last operation is that of the one handler with the last number.
LEMMA LatestIs ==
    ASSUME SeqIInv, issued # 0, NEW p \in Clients, id[p] = issued
    PROVE  Latest = p
  <1>1. \A q \in Clients : id[q] = issued => q = p
    BY DEF SeqIInv, SeqInv
  <1>2. QED
    BY <1>1 DEF Latest

\* The instance counts as this module does.
LEMMA SameCardinality == \A S : Object!Cardinality(S) = Cardinality(S)
  BY DEF Object!Cardinality, Cardinality

\* What the outcome of an operation means for the abstract object.
LEMMA OutcomeAnswers ==
    ASSUME NEW p, Ready(p), Outcome(p)', id[p] \in 1..MaxOps,
           ~Quiet, Quiet', Latest = p, Latest' = p
    PROVE  Object!Answer
  <1>1. View = pre /\ View'.entry = entry' /\ View'.meta = meta'
    BY DEF View, Now
  <1>2. op[Latest] = op[p] /\ op'[Latest'] = op[p]
    BY Frame
  <1>3. pre.entry \in [Keys -> Nat] /\ pre.meta \in Metadata \cup {NoMeta}
    BY DEF Ready
  <1>4. /\ Object!Deleted(op[p]) = Found(p, op[p].dels)
        /\ Object!Matches(op[p]) <=> op[p].expect \in {NoExpect, Default0.version}
    <2>1. VersionOf(pre.meta) = Default0.version
      BY <1>3, BumpedVersion
    <2>2. QED
      BY <1>1, <2>1 DEF Object!Deleted, Object!Holding, Object!Absent, Object!Matches, Found,
                        KeysBefore, Absent
  <1>5. ASSUME NEW n \in Nat \ {0}, meta' = Bumped(n)
        PROVE  VersionOf(View.meta)' = VersionOf(View.meta) + n /\ Object!Touch
    <2>1. VersionOf(View.meta)' = VersionOf(meta') /\ LifeOf(View.meta)' = LifeOf(meta')
      BY <1>1 DEF VersionOf, LifeOf
    <2>2. QED
      BY <1>1, <1>3, <1>5, <2>1, BumpedVersion DEF Object!Touch
  <1>6. ASSUME NEW P, NEW D, entry' = Result(p, P, D)
        PROVE  View'.entry = Object!Drop(Object!Put(P, id[p]), D)
    BY <1>1, <1>6 DEF Object!Drop, Object!Put, Object!Absent, Result, Absent
  <1>7. \A P : Object!Drop(Object!Put(P, id[p]), {}) = Object!Put(P, id[p])
    BY DEF Object!Drop, Object!Put
  <1>8. \A D : Object!Drop(Object!Put({}, id[p]), D) = Object!Drop(View.entry, D)
    BY DEF Object!Drop, Object!Put
  <1>9. Accepted(p)' <=> Accepted(p)
    BY Frame
  <1>10. SUFFICES \/ \E v \in 1..MaxOps : \/ Object!SetEntry(op[p], v)
                                          \/ Object!Mutate(op[p], v)
                                          \/ Object!ZenohBatch(op[p], v)
                                          \/ Object!Upsert(op[p], v)
                  \/ Object!DeleteEntries(op[p])
                  \/ Object!DeleteObject(op[p])
                  \/ Object!Refuse(op[p])
    BY <1>2 DEF Object!Answer
  <1>11. CASE Kind(p, {"set_entry"})' /\ Made(p, op[p].puts, {}, 1)'
    <2>1. op[p].kind = "set_entry" /\ entry' = Result(p, op[p].puts, {}) /\ meta' = Bumped(1)
      BY <1>11, Frame, Locals DEF Made
    <2>2. Object!SetEntry(op[p], id[p])
      BY <1>5, <1>6, <1>7, <2>1 DEF Object!SetEntry
    <2>3. QED
      BY <2>2
  <1>12. CASE /\ Kind(p, {"upsert"})'
              /\ entry' = Result(p, op[p].puts, {})'
              /\ meta' = (IF op[p].puts = {} THEN Default0 ELSE Bumped(1))'
    <2>1. /\ op[p].kind = "upsert" /\ entry' = Result(p, op[p].puts, {})
          /\ meta' = IF op[p].puts = {} THEN Default0 ELSE Bumped(1)
      BY <1>12, Frame, Locals
    <2>2. View'.entry = Object!Put(op[p].puts, id[p])
      BY <1>6, <1>7, <2>1
    <2>3. CASE op[p].puts # {}
      <3>1. Object!Upsert(op[p], id[p])
        BY <1>5, <2>1, <2>2, <2>3 DEF Object!Upsert
      <3>2. QED
        BY <3>1
    <2>4. CASE op[p].puts = {}
      <3>1. Default0 # NoMeta /\ VersionOf(pre.meta) = Default0.version /\ Default0.version \in Nat
        BY <1>3, Locals, BumpedVersion, EntryStoreAssumption
      <3>2. VersionOf(View.meta)' = VersionOf(View.meta) + 0 /\ Object!Touch
        <4>1. VersionOf(View.meta)' = Default0.version
          BY <1>1, <2>1, <2>4, <3>1 DEF VersionOf
        <4>2. LifeOf(View.meta)' = IF Default0.tomb THEN "deleted" ELSE "live"
          BY <1>1, <2>1, <2>4, <3>1 DEF LifeOf
        <4>3. Object!Touch
          BY <1>1, <4>2 DEF Object!Touch, LifeOf, Default0, DefaultMetadata
        <4>4. QED
          BY <1>1, <3>1, <4>1, <4>3
      <3>3. Object!Upsert(op[p], id[p])
        BY <2>1, <2>2, <2>4, <3>2 DEF Object!Upsert
      <3>4. QED
        BY <3>3
    <2>5. QED
      BY <2>3, <2>4
  <1>13. CASE /\ Kind(p, {"delete_entry", "batch_delete"})' /\ Found(p, op[p].dels)' # {}
              /\ Made(p, {}, op[p].dels, 1)'
    <2>1. /\ op[p].kind \in {"delete_entry", "batch_delete"} /\ Found(p, op[p].dels) # {}
          /\ entry' = Result(p, {}, op[p].dels) /\ meta' = Bumped(1)
      BY <1>13, Frame, Locals DEF Made
    <2>2. Object!DeleteEntries(op[p])
      BY <1>4, <1>5, <1>6, <1>8, <2>1 DEF Object!DeleteEntries
    <2>3. QED
      BY <2>2
  <1>14. CASE /\ Kind(p, {"mutate"})' /\ Accepted(p)'
              /\ op'[p].puts # {} \/ Found(p, op[p].dels)' # {}
              /\ Made(p, op[p].puts, op[p].dels, 1 + Cardinality(Found(p, op[p].dels)))'
    <2>1. PICK n : n = Cardinality(Found(p, op[p].dels))
      OBVIOUS
    <2>2. n \in Nat /\ 1 + n \in Nat \ {0}
      BY <2>1, FoundFinite, Locals
    <2>3. /\ op[p].kind = "mutate" /\ (op[p].puts # {} \/ Found(p, op[p].dels) # {})
          /\ entry' = Result(p, op[p].puts, op[p].dels) /\ meta' = Bumped(1 + n)
      BY <1>14, <2>1, Frame, Locals DEF Made
    <2>4. Object!Matches(op[p])
      BY <1>4, <1>9, <1>14, <2>3 DEF Accepted
    <2>5. VersionOf(View.meta) \in Nat
      BY <1>1, <1>3, BumpedVersion, Locals
    <2>6. VersionOf(View.meta)' = VersionOf(View.meta) + 1 + n /\ Object!Touch
      BY <1>5, <2>2, <2>3, <2>5
    <2>7. View'.entry = Object!Drop(Object!Put(op[p].puts, id[p]), op[p].dels)
      BY <1>6, <2>3
    <2>8. Cardinality(Object!Deleted(op[p])) = n /\ (op[p].puts # {} \/ Object!Deleted(op[p]) # {})
      BY <1>4, <2>1, <2>3
    <2>9. Object!Mutate(op[p], id[p])
      BY <2>3, <2>4, <2>6, <2>7, <2>8, SameCardinality DEF Object!Mutate
    <2>10. QED
      BY <2>9
  <1>15. CASE /\ Kind(p, {"zbatch"})' /\ Accepted(p)'
              /\ Made(p, op[p].puts, op[p].dels, Increments(p))'
    <2>1. /\ op[p].kind = "zbatch" /\ op[p].puts \cup op[p].dels # {}
      BY <1>15, Frame, Locals, EntryStoreAssumption DEF Ready
    <2>2. /\ Increments(p)' = Increments(p) /\ Increments(p) \in Nat \ {0}
          /\ Increments(p) = (IF op[p].puts # {} THEN 1 ELSE 0) + (IF op[p].dels # {} THEN 1 ELSE 0)
      BY <2>1, Frame DEF Increments
    <2>3. entry' = Result(p, op[p].puts, op[p].dels) /\ meta' = Bumped(Increments(p))
      BY <1>15, <2>2, Frame DEF Made
    <2>4. Object!Matches(op[p])
      BY <1>4, <1>9, <1>15, <2>1 DEF Accepted
    <2>5. VersionOf(View.meta) \in Nat
      BY <1>1, <1>3, BumpedVersion, Locals
    <2>6. /\ VersionOf(View.meta)' = VersionOf(View.meta) + (IF op[p].puts # {} THEN 1 ELSE 0)
                                                          + (IF op[p].dels # {} THEN 1 ELSE 0)
          /\ Object!Touch
      BY <1>5, <2>2, <2>3, <2>5
    <2>7. View'.entry = Object!Drop(Object!Put(op[p].puts, id[p]), op[p].dels)
      BY <1>6, <2>3
    <2>8. Object!ZenohBatch(op[p], id[p])
      BY <2>1, <2>4, <2>6, <2>7 DEF Object!ZenohBatch
    <2>9. QED
      BY <2>8
  <1>16. CASE Erased(p)'
    <2>1. /\ op[p].kind = "delete_object" /\ Live0 /\ entry' = Result(p, {}, KeysBefore)
          /\ meta' = [version |-> Default0.version + 1, tomb |-> TRUE]
      BY <1>16, Frame, Locals DEF Erased
    <2>2. Result(p, {}, KeysBefore) = Object!Drop(View.entry, Keys)
      BY <1>1, <1>3 DEF Result, KeysBefore, Object!Drop, Object!Absent, Absent
    <2>3. meta' \in Metadata /\ meta'.version = Default0.version + 1 /\ meta'.tomb = TRUE
      BY <2>1, Locals DEF Metadata
    <2>4. VersionOf(View.meta)' = Default0.version + 1 /\ LifeOf(View.meta)' = "deleted"
      BY <1>1, <2>3, EntryStoreAssumption DEF VersionOf, LifeOf
    <2>5. VersionOf(View.meta) = Default0.version /\ LifeOf(View.meta) = "live"
      BY <1>1, <1>3, <2>1, BumpedVersion DEF LifeOf, Live0
    <2>6. Object!DeleteObject(op[p])
      BY <1>1, <2>1, <2>2, <2>4, <2>5 DEF Object!DeleteObject
    <2>7. QED
      BY <2>6
  <1>17. CASE /\ Made(p, {}, {}, 0)'
              /\ \/ Kind(p, {"mutate", "zbatch"})' /\ ~Accepted(p)'
                 \/ /\ Kind(p, {"delete_entry", "batch_delete", "mutate"})' /\ op'[p].puts = {}
                    /\ Found(p, op[p].dels)' = {}
                 \/ Kind(p, {"delete_object"})' /\ ~Live0'
    <2>1. entry' = pre.entry /\ meta' = pre.meta
      <3>1. Result(p, {}, {}) = pre.entry /\ Bumped(0) = pre.meta
        BY <1>3, NothingMade DEF Bumped
      <3>2. QED
        BY <1>17, <3>1, Frame DEF Made
    <2>2. UNCHANGED <<View.entry, VersionOf(View.meta), LifeOf(View.meta)>>
      BY <1>1, <2>1 DEF VersionOf, LifeOf
    <2>3. UNCHANGED Object!object
      BY <2>2 DEF Object!object
    <2>4. \/ op[p].kind \in {"mutate", "zbatch"} /\ ~Accepted(p)
          \/ /\ op[p].kind \in {"delete_entry", "batch_delete", "mutate"} /\ op[p].puts = {}
             /\ Found(p, op[p].dels) = {}
          \/ op[p].kind = "delete_object" /\ ~Live0
      BY <1>17, Frame, Locals
    <2>5. ~Live0 => LifeOf(View.meta) # "live"
      BY <1>1 DEF Live0, LifeOf
    <2>6. Object!Refuse(op[p])
      BY <1>4, <2>3, <2>4, <2>5 DEF Object!Refuse, Accepted
    <2>7. QED
      BY <2>6
  <1>18. QED
    BY <1>11, <1>12, <1>13, <1>14, <1>15, <1>16, <1>17 DEF Outcome

\* Every step of the store maps to a step of the abstract object, or to none.
LEMMA StepRefines ==
    SeqIInv /\ SeqIInv' /\ [SeqNext]_seqVars =>
        [Object!Next]_<<Object!object, op[Latest], ~Quiet>>
  <1> SUFFICES ASSUME SeqIInv, SeqIInv', [SeqNext]_seqVars
               PROVE  [Object!Next]_<<Object!object, op[Latest], ~Quiet>>
    OBVIOUS
  <1>1. ASSUME NEW p \in Clients, Quiet, Begin(p), pre' = Now
        PROVE  Object!Ask
    <2>1. pc'[p] # "idle" /\ op'[p] \in Requests /\ id'[p] = issued + 1
      BY <1>1, BeginServes DEF SeqIInv
    <2>2. issued' = issued + 1 /\ issued' # 0
      BY <1>1 DEF Begin, SeqIInv, TypeOK
    <2>3. Latest' = p
      <3>1. \A q \in Clients : id'[q] = issued' => q = p
        BY <2>1, <2>2 DEF SeqIInv, SeqInv
      <3>2. QED
        BY <2>1, <2>2, <3>1 DEF Latest
    <2>4. ~Quiet'
      BY <2>1 DEF Quiet
    <2>5. View = Now /\ View' = Now
      BY <1>1, <2>4 DEF View
    <2>6. UNCHANGED Object!object
      BY <2>5 DEF Object!object, VersionOf, LifeOf
    <2>7. QED
      BY <1>1, <2>1, <2>3, <2>4, <2>6 DEF Object!Ask
  <1>2. ASSUME NEW p \in Clients, Step(p), UNCHANGED pre
        PROVE  Object!Answer \/ UNCHANGED <<Object!object, op[Latest], ~Quiet>>
    <2>1. Ready(p) /\ Moves(p)
      BY <1>2, StepReady, StepMoves
    <2>2. /\ UNCHANGED <<op, id, issued>> /\ pc[p] # "idle"
          /\ \A q \in Clients : q # p => pc'[q] = pc[q]
      BY <1>2, StepFrame DEF SeqIInv
    <2>3. id[p] = issued /\ issued # 0 /\ issued \in 0..MaxOps
      BY <2>2 DEF SeqIInv, SeqInv, Served
    <2>4. Latest = p /\ Latest' = Latest /\ ~Quiet
      BY <1>2, <2>2, <2>3, LatestIs DEF Latest, Quiet
    <2>5. CASE pc'[p] # "idle"
      <3>1. ~Quiet' /\ View = pre /\ View' = pre
        BY <1>2, <2>4, <2>5 DEF Quiet, View
      <3>2. UNCHANGED Object!object
        BY <3>1 DEF Object!object, VersionOf, LifeOf
      <3>3. QED
        BY <2>2, <2>4, <3>1, <3>2
    <2>6. CASE pc'[p] = "idle"
      <3>1. Quiet'
        BY <2>2, <2>6, OneRuns DEF Quiet
      <3>2. id[p] \in 1..MaxOps
        BY <2>3, EntryStoreAssumption
      <3>3. Outcome(p)'
        BY <2>1, <2>6 DEF Moves
      <3>4. QED
        BY <2>1, <2>4, <3>1, <3>2, <3>3, OutcomeAnswers
    <2>7. QED
      BY <2>5, <2>6
  <1>3. CASE UNCHANGED seqVars
    <2>1. UNCHANGED <<entry, meta, config, pc, op, id, issued, events, pre>>
      BY <1>3 DEF seqVars, vars, records, call, counts
    <2>2. (Quiet' <=> Quiet) /\ Latest' = Latest /\ Now' = Now
      BY <2>1 DEF Quiet, Latest, Now
    <2>3. View' = View
      BY <2>1, <2>2 DEF View
    <2>4. UNCHANGED Object!object
      BY <2>3 DEF Object!object, VersionOf, LifeOf
    <2>5. QED
      BY <2>1, <2>2, <2>4
  <1>4. QED
    BY <1>1, <1>2, <1>3 DEF SeqNext, Object!Next

\* The initial states map to the abstract one.
LEMMA InitRefines == SeqInit => Object!Init
  <1> SUFFICES ASSUME SeqInit PROVE Object!Init
    OBVIOUS
  <1>1. Quiet /\ View = Now
    BY DEF SeqInit, Init, Quiet, View
  <1>2. View.entry = [k \in Keys |-> 0] /\ View.meta = NoMeta
    BY <1>1 DEF SeqInit, Init, Now, Absent
  <1>3. Latest \in Clients
    BY SequentialAssumption DEF Latest, SeqInit, Init
  <1>4. op[Latest] = NoOperation
    BY <1>3 DEF SeqInit, Init
  <1>5. QED
    BY <1>1, <1>2, <1>4 DEF Object!Init, Object!Absent, VersionOf, LifeOf

\* Used by one caller at a time, the granular entry store implements the abstract
\* object, for any number of handlers, keys, requests and operations: however many
\* storage calls set_entry, delete_entry, batch_delete_entries,
\* batch_mutate_entries, upsert_object, internal_delete_object and the Zenoh batch
\* handler are made of, each of them changes entries, version and life cycle
\* exactly as one atomic step of ObjectSpec, or not at all.
THEOREM StoreImplementsObject == SeqSpec => RefinesObject
  <1>1. SeqSpec => []SeqIInv
    BY SeqInitInv, SeqNextInv, PTL DEF SeqSpec
  <1>2. QED
    BY <1>1, InitRefines, StepRefines, PTL DEF SeqSpec, RefinesObject, Object!Spec

-----------------------------------------------------------------------------
(***************************************************************************)
(* What a subscriber is told of an object used by one caller at a time:    *)
(* the contexts replay to the object's keys, and their versions increase.  *)
(*                                                                         *)
(* The invariant above says what the running operation has done to the     *)
(* records at each of its steps; Told says what has been reported of it,   *)
(* and that the locals the next context is made from (the keys found, the  *)
(* key being deleted, the keys listed page by page) are what has happened  *)
(* since.  Dated says the same of the versions.                            *)
(***************************************************************************)

\* batch_mutate_entries is in one of its delete loops, or between them.
InLoop(p) == op[p].kind = "mutate" /\ stage[p] # "one"

\* batch_set_entries, called for itself or by batch_mutate_entries.
Setting(p) == op[p].kind \in {"set_entry", "upsert"} \/ (op[p].kind = "mutate" /\ stage[p] = "one")

\* The metadata update that ends a mutation, up to its context.
Closing == {"meta_get", "meta_put", "event_cfg", "notify"}

\* From the last page of an object delete to its context.
InDeleteLoop == {"recon_meta", "pre_cfg", "range_scan", "range_meta", "range_cfg", "range_key",
                 "tomb_put", "notify"}

\* What the subscriber believes while p runs, and what p will tell it.  Outside a
\* delete loop nothing of the operation has been told; in one, all but the key
\* being deleted.
ToldLoop(p) ==
    /\ pc[p] # "event_cfg"
    /\ IF pc[p] \in Closing /\ stage[p] # "bump"
       THEN belief = Present \cup cur[p] /\ cur[p] \cap Present = {}
       ELSE belief = Present

ToldSet(p) ==
    /\ pc[p] = "exist" => hit[p] = (op[p].puts \ todo[p]) \cap KeysBefore
    /\ pc[p] \in Closing \cup {"write"} => hit[p] = op[p].puts \cap KeysBefore

ToldDelete(p) ==
    /\ op[p].kind = "batch_delete" /\ pc[p] \in Closing => hit[p] = op[p].dels \cap KeysBefore
    /\ op[p].kind = "delete_entry" =>
          /\ pc[p] # "event_cfg"
          /\ pc[p] \in Closing \cup {"remove"} => cur[p] = op[p].dels /\ op[p].dels \subseteq KeysBefore

\* The keys listed are those before the cursor.
ToldErase(p) ==
    /\ pc[p] \in {"del_get", "page"} =>
          /\ hit[p] \subseteq KeysBefore
          /\ \A k \in hit[p], j \in KeysBefore : j < k => j \in hit[p]
    /\ pc[p] \in InDeleteLoop => hit[p] = KeysBefore

Told(p) ==
    IF InLoop(p) THEN ToldLoop(p)
    ELSE /\ belief = KeysBefore
         /\ Setting(p) => ToldSet(p)
         /\ ToldDelete(p)
         /\ op[p].kind = "delete_object" => ToldErase(p)

\* The versions told so far.
AllBelow(v) == \A i \in 1..Len(events) : events[i].after < v

\* The versions told are at most the stored one; below it while a context with it
\* is due; at most the one read while an object delete has removed the record.
Dated(p) ==
    IF pc[p] \in {"event_cfg", "notify"}
    THEN snap[p].version = VersionOrZero /\ AllBelow(snap[p].version)
    ELSE IF pc[p] \in {"range_cfg", "range_key", "tomb_put"} THEN AllBelow(snap[p].version + 1)
    ELSE AllBelow(VersionOrZero + 1)

EventsInv ==
    /\ EventsReplay
    /\ EventVersionsIncrease
    /\ Quiet => AllBelow(VersionOrZero + 1)
    /\ \A p \in Clients : pc[p] # "idle" => Dated(p)
    /\ \A p \in Clients :
          V2Dispatcher /\ pc[p] # "idle" /\ op[p].kind # "zbatch" => Told(p)

-----------------------------------------------------------------------------
(* What each step tells the subscriber.                                    *)

\* A handler with a dispatcher that reports, at one of its steps.
Reports(p) == Ready(p) /\ V2Dispatcher /\ op[p].kind # "zbatch" /\ Told(p) /\ Hear

\* The step ends the operation with the subscriber in the picture, or leads on.
Tells(p) == IF pc'[p] = "idle" THEN belief' = Present' ELSE Told(p)'

\* The types, and what a step of a running operation leaves alone.
LEMMA ReportFacts ==
    ASSUME NEW p, Reports(p)
    PROVE  /\ Ready(p) /\ p \in Clients /\ op[p] \in Operation
           /\ op[p].puts \in SUBSET Keys /\ op[p].dels \in SUBSET Keys
           /\ op'[p] = op[p] /\ KeysBefore' = KeysBefore /\ id[p] # 0
           /\ events' = events => belief' = belief
           /\ pc \in [Clients -> Labels] /\ stage \in [Clients -> Stages]
           /\ hit \in [Clients -> SUBSET Keys] /\ cur \in [Clients -> SUBSET Keys]
           /\ todo \in [Clients -> SUBSET Keys] /\ events \in Seq(Context)
  <1>1. Ready(p)
    BY DEF Reports
  <1>2. op'[p] = op[p] /\ KeysBefore' = KeysBefore
    BY <1>1, Frame
  <1>3. events' = events => belief' = belief
    BY DEF Reports, Hear
  <1>4. QED
    BY <1>1, <1>2, <1>3, Locals DEF Ready, TypeOK

\* Nothing is set or deleted yet.
LEMMA NothingYet ==
    ASSUME NEW p, Made(p, {}, {}, 0)
    PROVE  Present = KeysBefore
  BY PresentStart DEF Made

\* Every existence check adds its key to `pre_exist` iff the key was there before
\* the operation, which has written nothing yet.
LEMMA ExistTells ==
    ASSUME NEW p, Reports(p), Exist(p)
    PROVE  Tells(p)
  <1>1. AtExist(p)
    BY DEF Reports, Ready, At, Exist
  <1>2. /\ Setting(p) /\ ~InLoop(p) /\ stage[p] = "one" /\ op[p].kind \notin {"batch_delete", "delete_entry", "delete_object"}
        /\ todo[p] \subseteq op[p].puts
    BY <1>1, ReportFacts DEF AtExist, Kind, Visiting, Setting, InLoop
  <1>3. Present = KeysBefore
    BY <1>1, NothingYet DEF AtExist
  <1>4. PICK k \in todo[p] :
            /\ todo' = [todo EXCEPT ![p] = IF todo[p] \ {k} = {} THEN op[p].puts ELSE todo[p] \ {k}]
            /\ hit' = [hit EXCEPT ![p] = @ \cup ({k} \cap Present)]
            /\ Goto(p, IF todo[p] \ {k} = {} THEN "write" ELSE "exist")
    BY DEF Exist
  <1>5. /\ todo'[p] = IF todo[p] \ {k} = {} THEN op[p].puts ELSE todo[p] \ {k}
        /\ hit'[p] = hit[p] \cup ({k} \cap KeysBefore)
        /\ pc'[p] = IF todo[p] \ {k} = {} THEN "write" ELSE "exist"
        /\ stage' = stage /\ belief' = belief
    BY <1>3, <1>4, ReportFacts DEF Exist, Goto, marks
  <1>6. belief = KeysBefore /\ hit[p] = (op[p].puts \ todo[p]) \cap KeysBefore
    BY <1>2 DEF Reports, Told, ToldSet, Exist
  <1>7. ToldSet(p)'
    BY <1>2, <1>4, <1>5, <1>6, ReportFacts DEF ToldSet, Closing
  <1>8. Setting(p)' /\ ~InLoop(p)'
    BY <1>2, <1>5, ReportFacts DEF Setting, InLoop
  <1>9. QED
    BY <1>2, <1>5, <1>6, <1>7, <1>8, ReportFacts DEF Tells, Told, ToldDelete

\* The puts leave `pre_exist` as the checks have made it.
LEMMA WriteTells ==
    ASSUME NEW p, Reports(p), WriteEntry(p)
    PROVE  Tells(p)
  <1>1. AtWrite(p)
    BY DEF Reports, Ready, At, WriteEntry
  <1>2. /\ Setting(p) /\ ~InLoop(p) /\ stage[p] = "one"
        /\ op[p].kind \notin {"batch_delete", "delete_entry", "delete_object"}
    BY <1>1, ReportFacts DEF AtWrite, Kind, Visiting, Setting, InLoop, Reports
  <1>3. /\ pc'[p] \in {"write", "meta_get", "meta_put"}
        /\ hit' = hit /\ stage' = stage /\ belief' = belief
    BY <1>2, ReportFacts DEF WriteEntry, Goto, marks, Reports
  <1>4. belief = KeysBefore /\ hit[p] = op[p].puts \cap KeysBefore
    BY <1>2 DEF Reports, Told, ToldSet, WriteEntry
  <1>5. ToldSet(p)'
    BY <1>3, <1>4, ReportFacts DEF ToldSet
  <1>6. Setting(p)' /\ ~InLoop(p)'
    BY <1>2, <1>3, ReportFacts DEF Setting, InLoop
  <1>7. QED
    BY <1>2, <1>3, <1>4, <1>5, <1>6, ReportFacts DEF Tells, Told, ToldDelete

\* A stale expected version ends the batch before anything is written.
LEMMA CasTells ==
    ASSUME NEW p, Reports(p), CasCheck(p)
    PROVE  Tells(p)
  <1>1. AtCas(p)
    BY DEF Reports, Ready, At, CasCheck
  <1>2. /\ Setting(p) /\ ~InLoop(p) /\ stage[p] = "one"
        /\ op[p].kind \notin {"batch_delete", "delete_entry", "delete_object"}
    BY <1>1, ReportFacts DEF AtCas, Kind, Setting, InLoop
  <1>3. /\ pc'[p] \in {"idle", "exist"} /\ hit'[p] = {} /\ todo'[p] = op[p].puts
        /\ stage' = stage /\ belief' = belief /\ entry' = entry
    BY ReportFacts DEF CasCheck, Goto, marks, records, Reports, FirstWrite
  <1>4. belief = KeysBefore /\ Present = KeysBefore /\ Present' = Present
    BY <1>1, <1>2, <1>3, NothingYet DEF AtCas, Reports, Told, Present
  <1>5. ToldSet(p)' \/ pc'[p] = "idle"
    BY <1>3, ReportFacts DEF ToldSet, Closing
  <1>6. Setting(p)' /\ ~InLoop(p)'
    BY <1>2, <1>3, ReportFacts DEF Setting, InLoop
  <1>7. QED
    BY <1>2, <1>3, <1>4, <1>5, <1>6, ReportFacts DEF Tells, Told, ToldDelete

\* A step that stores no entry and leaves what is to be told as it is.
LEMMA ClosingTells ==
    ASSUME NEW p, Reports(p), pc[p] \in Closing, pc'[p] \in Closing,
           pc'[p] = "event_cfg" => ~DeletesOne(p),
           entry' = entry, events' = events, hit' = hit, cur' = cur, stage' = stage
    PROVE  Tells(p)
  <1>1. belief' = belief /\ Present' = Present /\ pc'[p] # "idle"
    BY ReportFacts DEF Present, Closing
  <1>2. (InLoop(p)' <=> InLoop(p)) /\ (Setting(p)' <=> Setting(p))
    BY ReportFacts DEF InLoop, Setting
  <1>3. CASE InLoop(p)
    <2>1. ToldLoop(p)
      BY <1>3 DEF Reports, Told
    <2>2. ToldLoop(p)'
      BY <1>1, <1>3, <2>1 DEF ToldLoop, InLoop, DeletesOne
    <2>3. QED
      BY <1>1, <1>2, <1>3, <2>2 DEF Tells, Told
  <1>4. CASE ~InLoop(p)
    <2>1. /\ belief = KeysBefore /\ (Setting(p) => ToldSet(p)) /\ ToldDelete(p)
          /\ op[p].kind = "delete_object" => ToldErase(p)
      BY <1>4 DEF Reports, Told
    <2>2. /\ Setting(p)' => ToldSet(p)'
          /\ ToldDelete(p)'
      BY <1>2, <2>1, ReportFacts DEF ToldSet, ToldDelete, Closing, DeletesOne
    <2>3. op[p].kind = "delete_object" => pc[p] = "notify"
      BY <1>4 DEF Reports, Ready, At, Due, Stored, Kind, Closing, Looping, Deletes
    <2>4. op[p].kind = "delete_object" => ToldErase(p)'
      BY <2>1, <2>3, ReportFacts DEF ToldErase, Closing, InDeleteLoop
    <2>5. QED
      BY <1>1, <1>2, <1>4, <2>1, <2>2, <2>4, ReportFacts DEF Tells, Told
  <1>5. QED
    BY <1>3, <1>4

\* The read of the metadata reports nothing.
LEMMA MetaGetTells ==
    ASSUME NEW p, Reports(p), MetaGet(p)
    PROVE  Tells(p)
  <1>1. /\ pc[p] = "meta_get" /\ pc'[p] = "meta_put" /\ entry' = entry /\ events' = events
        /\ hit' = hit /\ cur' = cur /\ stage' = stage
    BY ReportFacts DEF MetaGet, Goto, records, marks
  <1>2. QED
    BY <1>1, ClosingTells DEF Closing

\* The read of the event configuration reports nothing.
LEMMA ConfigGetTells ==
    ASSUME NEW p, Reports(p), ConfigGet(p)
    PROVE  Tells(p)
  <1>1. /\ pc[p] = "event_cfg" /\ pc'[p] = "notify" /\ entry' = entry /\ events' = events
        /\ hit' = hit /\ cur' = cur /\ stage' = stage
    BY ReportFacts DEF ConfigGet, Goto, records
  <1>2. QED
    BY <1>1, ClosingTells DEF Closing

\* The stored metadata is followed by a context, but for the increment that a
\* batch of deletes adds for itself.
LEMMA MetaPutTells ==
    ASSUME NEW p, Reports(p), MetaPut(p)
    PROVE  Tells(p)
  <1>1. Due(p) /\ pc[p] = "meta_put" /\ entry' = entry /\ events' = events /\ hit' = hit /\ cur' = cur
    BY DEF Reports, Ready, At, MetaPut
  <1>2. CASE stage[p] # "bump"
    <2>1. pc'[p] = (IF DeletesOne(p) THEN "notify" ELSE "event_cfg") /\ stage' = stage
      BY <1>2, ReportFacts DEF MetaPut, Goto, Reports
    <2>2. QED
      BY <1>1, <2>1, ClosingTells DEF Closing
  <1>3. CASE stage[p] = "bump"
    <2>1. op[p].kind = "mutate"
      BY <1>1, <1>3 DEF Due, Kind, Looping, Deletes
    <2>2. pc'[p] = "mut_get" /\ stage'[p] = "tail"
      BY <1>3, <2>1, ReportFacts DEF MetaPut, Finish, Goto, Return, StartsTail
    <2>3. belief = Present /\ belief' = belief /\ Present' = Present
      BY <1>1, <1>3, <2>1, ReportFacts DEF Reports, Told, InLoop, ToldLoop, Present
    <2>4. QED
      BY <2>1, <2>2, <2>3, ReportFacts DEF Tells, Told, InLoop, ToldLoop, Closing
  <1>4. QED
    BY <1>2, <1>3

\* What one context makes of a belief.
LEMMA HearsDeletes ==
    ASSUME NEW B, NEW D, D \subseteq B, NEW e, e.keys = [k \in D |-> "delete"]
    PROVE  Believe(B, e) = B \ D
  BY DEF Believe

\* A context of sets makes known the keys that were not known, if it calls
\* exactly the known ones updates.
LEMMA HearsSets ==
    ASSUME NEW B, NEW P, NEW e, DOMAIN e.keys = P,
           \A k \in P \cap B : e.keys[k] = "update",
           \A k \in P \ B : e.keys[k] = "create"
    PROVE  Believe(B, e) = B \cup P
  <1>1. DOMAIN e.keys = P
    OBVIOUS
  <1>2. PICK C : C = {k \in DOMAIN e.keys : e.keys[k] = "create"}
    OBVIOUS
  <1>3. PICK U : U = {k \in DOMAIN e.keys : e.keys[k] = "update"}
    OBVIOUS
  <1>4. PICK D : D = {k \in DOMAIN e.keys : e.keys[k] = "delete"}
    OBVIOUS
  <1>5. C = P \ B /\ U = P \cap B /\ D = {}
    BY <1>1, <1>2, <1>3, <1>4
  <1>6. Believe(B, e) = IF C \cap B = {} /\ U \cup D \subseteq B THEN (B \cup C) \ D ELSE {0}
    BY <1>2, <1>3, <1>4 DEF Believe
  <1>7. QED
    BY <1>5, <1>6

\* The context reports what has been done since the last one.
LEMMA NotifyTells ==
    ASSUME NEW p, Reports(p), Notify(p)
    PROVE  Tells(p)
  <1>1. /\ AtNotify(p) /\ pc[p] = "notify" /\ entry' = entry /\ hit' = hit /\ cur' = cur
        /\ Present' = Present
    BY DEF Reports, Ready, At, Notify, records, Present
  <1>2. PICK e : /\ e = [keys |-> ChangedKeys(p), after |-> snap[p].version, cfg |-> EventConfig(p)]
                 /\ events' = Append(events, e)
    BY DEF Notify
  <1>3. events' # events /\ events'[Len(events')] = e
    BY <1>2, ReportFacts
  <1>4. belief' = Believe(belief, e) /\ e.keys = ChangedKeys(p)
    BY <1>2, <1>3 DEF Reports, Hear
  <1>5. /\ pc'[p] = Return(p)
        /\ stage'[p] = IF StartsTail(p) THEN "tail" ELSE stage[p]
    BY ReportFacts DEF Notify, Finish, Goto
  <1>6. belief' = Present
    <2>1. CASE InLoop(p)
      <3>1. belief = Present \cup cur[p] /\ cur[p] \cap Present = {}
        <4>1. ToldLoop(p) /\ stage[p] # "bump"
          BY <1>1, <2>1 DEF Reports, Told, AtNotify, Stored, Erased, Looping, InLoop, Kind
        <4>2. QED
          BY <1>1, <4>1 DEF ToldLoop, Closing
      <3>2. ChangedKeys(p) = [k \in cur[p] |-> "delete"]
        BY <2>1 DEF ChangedKeys, DeletesOne, InLoop
      <3>3. belief' = belief \ cur[p]
        BY <1>4, <3>1, <3>2, HearsDeletes
      <3>4. QED
        BY <3>1, <3>3
    <2>2. CASE ~InLoop(p) /\ Setting(p)
      <3>1. belief = KeysBefore /\ hit[p] = op[p].puts \cap KeysBefore
        BY <1>1, <2>2 DEF Reports, Told, ToldSet, Closing
      <3>2. ChangedKeys(p) = [k \in op[p].puts |-> IF k \in hit[p] THEN "update" ELSE "create"]
        BY <2>2 DEF ChangedKeys, DeletesOne, InLoop, Setting
      <3>3. Believe(KeysBefore, e) = KeysBefore \cup op[p].puts
        <4>1. PICK P : P = op[p].puts
          OBVIOUS
        <4>2. /\ DOMAIN e.keys = P
              /\ \A k \in P \cap KeysBefore : e.keys[k] = "update"
              /\ \A k \in P \ KeysBefore : e.keys[k] = "create"
          BY <1>4, <3>1, <3>2, <4>1
        <4>3. Believe(KeysBefore, e) = KeysBefore \cup P
          BY <4>2, HearsSets
        <4>4. QED
          BY <4>1, <4>3
      <3>4. entry = Result(p, op[p].puts, {})
        BY <1>1, <2>2 DEF AtNotify, Stored, Erased, Looping, Kind, Setting, InLoop, Made
      <3>5. Present = (KeysBefore \cup op[p].puts) \ {}
        BY <3>4, ReportFacts, PresentNow
      <3>6. QED
        BY <1>4, <3>1, <3>3, <3>5
    <2>3. CASE op[p].kind \in {"batch_delete", "delete_entry"}
      <3>1. ~InLoop(p) /\ entry = Result(p, {}, op[p].dels)
        BY <1>1, <2>3 DEF AtNotify, Stored, Erased, Looping, Kind, InLoop, Made
      <3>2. belief = KeysBefore /\ ToldDelete(p)
        BY <3>1 DEF Reports, Told
      <3>3. PICK D : D = op[p].dels \cap KeysBefore
        OBVIOUS
      <3>4. ChangedKeys(p) = [k \in D |-> "delete"]
        BY <1>1, <2>3, <3>2, <3>3 DEF ChangedKeys, ToldDelete, Closing, DeletesOne
      <3>5. belief' = KeysBefore \ D
        BY <1>4, <3>2, <3>3, <3>4, HearsDeletes
      <3>6. Present = (KeysBefore \cup {}) \ op[p].dels
        BY <3>1, ReportFacts, PresentNow, ZenonT(60)
      <3>7. QED
        BY <3>3, <3>5, <3>6
    <2>4. CASE op[p].kind = "delete_object"
      <3>1. ~InLoop(p) /\ entry = Result(p, {}, KeysBefore)
        BY <1>1, <2>4 DEF AtNotify, Stored, Erased, Looping, Kind, InLoop
      <3>2. belief = KeysBefore /\ hit[p] = KeysBefore
        BY <1>1, <2>4, <3>1 DEF Reports, Told, ToldErase, InDeleteLoop
      <3>3. ChangedKeys(p) = [k \in KeysBefore |-> "delete"]
        BY <2>4, <3>2 DEF ChangedKeys
      <3>4. belief' = KeysBefore \ KeysBefore
        BY <1>4, <3>2, <3>3, HearsDeletes
      <3>5. Present = (KeysBefore \cup {}) \ KeysBefore
        BY <3>1, ReportFacts, PresentNow
      <3>6. QED
        BY <3>4, <3>5
    <2>5. QED
      BY <2>1, <2>2, <2>3, <2>4, ReportFacts DEF Operation, Kinds, InLoop, Setting, Reports
  <1>7. pc'[p] = "idle" \/ (pc'[p] = "mut_get" /\ InLoop(p)')
    BY <1>5, ReportFacts DEF Return, StartsTail, InLoop, Stages
  <1>8. QED
    BY <1>1, <1>6, <1>7 DEF Tells, Told, ToldLoop, Closing

\* delete_entry of an absent key changes nothing and reports nothing.
LEMMA DeleteExistTells ==
    ASSUME NEW p, Reports(p), DeleteExist(p)
    PROVE  Tells(p)
  <1>1. /\ AtDeleteExist(p) /\ pc[p] = "del_exist" /\ entry' = entry /\ hit' = hit /\ cur' = cur
        /\ belief' = belief /\ Present' = Present
    BY ReportFacts DEF Reports, Ready, At, DeleteExist, records, Present
  <1>2. /\ pc'[p] = IF cur[p] \cap Present = {} THEN Return(p) ELSE "remove"
        /\ stage'[p] = IF cur[p] \cap Present = {} /\ StartsTail(p) THEN "tail" ELSE stage[p]
    BY ReportFacts DEF DeleteExist, Finish, Goto
  <1>3. CASE op[p].kind = "delete_entry"
    <2>1. /\ ~InLoop(p) /\ cur[p] = op[p].dels /\ Present = KeysBefore /\ belief = KeysBefore
      BY <1>1, <1>3, NothingYet
         DEF AtDeleteExist, DeletingOne, Deletes, Looping, Kind, InLoop, Reports, Told
    <2>2. PICK k \in Keys : op[p].dels = {k}
      BY <1>3, EntryStoreAssumption DEF Reports, Ready
    <2>3. CASE cur[p] \cap Present = {}
      BY <1>1, <1>2, <1>3, <2>1, <2>3 DEF Tells, Return
    <2>4. CASE cur[p] \cap Present # {}
      <3>1. pc'[p] = "remove" /\ op[p].dels \subseteq KeysBefore
        BY <1>2, <2>1, <2>2, <2>4
      <3>2. QED
        BY <1>1, <1>3, <2>1, <3>1, ReportFacts DEF Tells, Told, InLoop, Setting, ToldDelete
    <2>5. QED
      BY <2>3, <2>4
  <1>4. CASE op[p].kind # "delete_entry"
    <2>1. op[p].kind = "mutate" /\ stage[p] \in {"dels", "tail"}
      BY <1>1, <1>4 DEF AtDeleteExist, DeletingOne, Deletes, Looping, Kind
    <2>2. belief = Present
      BY <1>1, <2>1 DEF Reports, Told, InLoop, ToldLoop, Closing
    <2>3. pc'[p] \in {"mut_get", "remove"} /\ stage'[p] = stage[p]
      BY <1>2, <2>1 DEF Return, StartsTail
    <2>4. QED
      BY <1>1, <2>1, <2>2, <2>3, ReportFacts DEF Tells, Told, InLoop, ToldLoop, Closing
  <1>5. QED
    BY <1>3, <1>4

\* batch_delete_entries remembers the keys it deletes, and reports nothing when
\* there were none.
LEMMA BatchDeleteExistTells ==
    ASSUME NEW p, Reports(p), BatchDeleteExist(p)
    PROVE  Tells(p)
  <1>1. /\ AtBatchDeleteExist(p) /\ pc[p] = "bd_exist" /\ entry' = entry /\ hit' = hit
        /\ stage' = stage /\ belief' = belief /\ Present' = Present
    BY ReportFacts DEF Reports, Ready, At, BatchDeleteExist, records, Present
  <1>2. op[p].kind = "batch_delete" /\ ~InLoop(p) /\ ~Setting(p) /\ op[p].puts = {}
    BY <1>1, SequentialAssumption DEF AtBatchDeleteExist, Kind, InLoop, Setting, Reports, Ready
  <1>3. belief = KeysBefore
    BY <1>2 DEF Reports, Told
  <1>4. CASE todo[p] = {} /\ pc'[p] = IF hit[p] = {} THEN "idle" ELSE "meta_get"
    <2>1. PICK D : D = Past(p)
      OBVIOUS
    <2>2. hit[p] = D \cap KeysBefore /\ entry = Result(p, {}, D) /\ D = op[p].dels
      BY <1>1, <1>2, <1>4, <2>1 DEF AtBatchDeleteExist, Found, Past, Made
    <2>3. Present = (KeysBefore \cup {}) \ D
      <3>1. entry = Result(p, {}, D) /\ id[p] # 0 /\ {} \in SUBSET Keys
        BY <2>2, ReportFacts
      <3>2. QED
        BY <3>1, PresentNow
    <2>4. CASE hit[p] = {}
      BY <1>1, <1>3, <1>4, <2>2, <2>3, <2>4 DEF Tells
    <2>5. CASE hit[p] # {}
      BY <1>1, <1>2, <1>3, <1>4, <2>2, <2>5, ReportFacts
         DEF Tells, Told, InLoop, Setting, ToldDelete
    <2>6. QED
      BY <2>4, <2>5
  <1>5. CASE pc'[p] \in {"remove", "bd_exist"}
    BY <1>1, <1>2, <1>3, <1>5, ReportFacts DEF Tells, Told, InLoop, Setting, ToldDelete, Closing
  <1>6. \/ todo[p] = {} /\ pc'[p] = IF hit[p] = {} THEN "idle" ELSE "meta_get"
        \/ pc'[p] \in {"remove", "bd_exist"}
    BY ReportFacts DEF BatchDeleteExist, Goto
  <1>7. QED
    BY <1>4, <1>5, <1>6

\* A removed key is known until the context of its delete is sent.
LEMMA RemoveTells ==
    ASSUME NEW p, Reports(p), RemoveEntry(p)
    PROVE  Tells(p)
  <1>1. /\ AtRemove(p) /\ pc[p] = "remove" /\ cur' = cur /\ stage' = stage
        /\ belief' = belief
    BY ReportFacts DEF Reports, Ready, At, RemoveEntry, marks
  <1>2. pc'[p] = IF op[p].kind = "batch_delete" THEN "bd_exist" ELSE "meta_get"
    BY ReportFacts DEF RemoveEntry, Goto
  <1>3. Present' = Present \ cur[p]
    BY DEF RemoveEntry, Present, Absent
  <1>4. CASE op[p].kind \in {"batch_delete", "delete_entry"}
    <2>1. ~InLoop(p) /\ ~Setting(p) /\ belief = KeysBefore /\ ToldDelete(p)
      BY <1>4 DEF Reports, Told, InLoop, Setting
    <2>2. ~InLoop(p)' /\ ~Setting(p)' /\ op'[p].kind = op[p].kind
      BY <1>4, ReportFacts DEF InLoop, Setting
    <2>3. ToldDelete(p)'
      BY <1>1, <1>2, <1>4, <2>1, ReportFacts DEF ToldDelete, Closing
    <2>4. QED
      BY <1>1, <1>2, <1>4, <2>1, <2>2, <2>3, ReportFacts DEF Tells, Told
  <1>5. CASE op[p].kind \notin {"batch_delete", "delete_entry"}
    <2>1. PICK k \in Keys :
             /\ Deletes(p, k)
             /\ Made(p, op[p].puts, Past(p) \ {k}, Base(p) + Cardinality(Found(p, Past(p) \ {k})))
      BY <1>1, <1>5 DEF AtRemove, DeletingOne, Kind
    <2>2. /\ op[p].kind = "mutate" /\ stage[p] \in {"dels", "tail"} /\ cur[p] = {k}
          /\ k \in KeysBefore \cup op[p].puts
      BY <2>1 DEF Deletes, Looping, Kind, Found
    <2>3. PICK D : D = Past(p) \ {k}
      OBVIOUS
    <2>4. entry = Result(p, op[p].puts, D)
      BY <2>1, <2>3 DEF Made
    <2>5. Present = (KeysBefore \cup op[p].puts) \ D
      BY <2>4, ReportFacts, PresentNow
    <2>6. cur[p] \subseteq Present
      BY <2>2, <2>3, <2>5
    <2>7. belief = Present
      BY <1>1, <2>2 DEF Reports, Told, InLoop, ToldLoop, Closing
    <2>8. belief' = Present' \cup cur'[p] /\ cur'[p] \cap Present' = {}
      BY <1>1, <1>3, <2>6, <2>7
    <2>9. pc'[p] = "meta_get" /\ InLoop(p)' /\ stage'[p] # "bump"
      BY <1>1, <1>2, <2>2, ReportFacts DEF InLoop
    <2>10. QED
      BY <2>8, <2>9 DEF Tells, Told, ToldLoop, Closing
  <1>6. QED
    BY <1>4, <1>5

\* The steps of batch_mutate_entries between two deletes store nothing.
LEMMA LoopTells ==
    ASSUME NEW p, Reports(p), InLoop(p), pc[p] \notin Closing, InLoop(p)',
           entry' = entry, events' = events,
           pc'[p] \notin Closing \/ (pc'[p] = "meta_get" /\ stage'[p] = "bump")
    PROVE  Tells(p)
  <1>1. belief' = belief /\ Present' = Present /\ belief = Present
    BY ReportFacts DEF Present, Reports, Told, ToldLoop
  <1>2. QED
    BY <1>1 DEF Tells, Told, ToldLoop, Closing

\* Nothing is pending when batch_mutate_entries looks for its next key.
LEMMA MutateTells ==
    ASSUME NEW p, Reports(p), MutateCheck(p) \/ MutateGet(p) \/ MutateVersion(p)
    PROVE  Tells(p)
  <1>1. /\ op[p].kind = "mutate" /\ op'[p].kind = "mutate" /\ entry' = entry /\ events' = events
        /\ pc[p] \notin Closing
    BY ReportFacts DEF Reports, Ready, At, MutateCheck, MutateGet, MutateVersion, AtMutateCheck,
                       AtMutateGet, AtMutateVersion, Looped, Swept, Looping, Kind, Closing, records
  <1>2. CASE MutateCheck(p)
    <2>1. stage[p] = "dels" /\ stage'[p] = "dels" /\ pc'[p] \in {"idle", "mut_get"}
      BY <1>2, ReportFacts DEF Reports, Ready, At, MutateCheck, AtMutateCheck, Goto, marks
    <2>2. QED
      BY <1>1, <2>1, LoopTells DEF InLoop, Closing
  <1>3. CASE MutateGet(p)
    <2>1. stage[p] \in {"dels", "tail"}
      BY <1>3, ReportFacts DEF Reports, Ready, At, MutateGet, AtMutateGet, Looped, Swept, Looping
    <2>2. /\ pc'[p] \in {"idle", "meta_get", "mut_version", "del_exist", "mut_get"}
          /\ stage'[p] \in {"dels", "tail", "bump"}
          /\ pc'[p] = "meta_get" => stage'[p] = "bump"
      BY <1>3, <2>1, ReportFacts DEF MutateGet, Goto
    <2>3. QED
      BY <1>1, <2>1, <2>2, LoopTells DEF InLoop, Closing
  <1>4. CASE MutateVersion(p)
    <2>1. stage'[p] = "tail" /\ pc'[p] \in {"idle", "mut_get"}
      BY <1>4, ReportFacts DEF MutateVersion, Goto
    <2>2. CASE InLoop(p)
      BY <1>1, <2>1, <2>2, LoopTells DEF InLoop, Closing
    <2>3. CASE ~InLoop(p)
      <3>1. belief = KeysBefore /\ Present' = Present /\ belief' = belief
        BY <1>1, <2>3, ReportFacts DEF Reports, Told, Present
      <3>2. /\ entry = Result(p, {}, op[p].dels) /\ op[p].dels \cap KeysBefore = {}
        BY <1>4 DEF MutateVersion, Reports, Ready, At, AtMutateVersion, Made, Found
      <3>3. Present = (KeysBefore \cup {}) \ op[p].dels
        BY <3>2, ReportFacts, PresentNow
      <3>4. QED
        BY <1>1, <2>1, <3>1, <3>2, <3>3 DEF Tells, Told, InLoop, ToldLoop, Closing
    <2>4. QED
      BY <2>2, <2>3
  <1>5. QED
    BY <1>2, <1>3, <1>4

\* An upsert has stored no entry before it reads the metadata.
LEMMA EnsureTells ==
    ASSUME NEW p, Reports(p), EnsureGet(p) \/ EnsurePut(p) \/ ConfigPut(p)
    PROVE  Tells(p)
  <1>1. /\ op[p].kind = "upsert" /\ entry = pre.entry /\ entry' = entry /\ stage' = stage
        /\ pc'[p] \in {"ens_put", "cfg_put", "idle", "cas"} /\ belief' = belief
    <2>1. EnsureGet(p) \/ EnsurePut(p) => AtEnsureGet(p)
      BY DEF Reports, Ready, At, EnsureGet, EnsurePut
    <2>2. ConfigPut(p) => AtConfigPut(p)
      BY DEF Reports, Ready, At, ConfigPut
    <2>3. Result(p, {}, {}) = pre.entry
      BY NothingMade DEF Reports, Ready
    <2>4. op[p].kind = "upsert" /\ entry = pre.entry
      BY <2>1, <2>2, <2>3 DEF AtEnsureGet, AtConfigPut, Kind, Made
    <2>5. QED
      BY <2>4, ReportFacts DEF EnsureGet, EnsurePut, ConfigPut, Goto, records, marks
  <1>2. belief = KeysBefore /\ Present = KeysBefore /\ Present' = Present
    BY <1>1 DEF Reports, Told, InLoop, Present, KeysBefore
  <1>3. CASE pc'[p] = "idle"
    BY <1>1, <1>2, <1>3 DEF Tells
  <1>4. CASE pc'[p] \in {"ens_put", "cfg_put", "cas"}
    <2>1. ToldSet(p)' /\ ToldDelete(p)' /\ ~InLoop(p)'
      BY <1>1, <1>4, ReportFacts DEF ToldSet, ToldDelete, InLoop, Closing
    <2>2. QED
      BY <1>1, <1>2, <1>4, <2>1, ReportFacts DEF Tells, Told
  <1>5. QED
    BY <1>1, <1>3, <1>4

\* An object delete that goes on has to say only which keys it will report.
LEMMA EraseTells ==
    ASSUME NEW p, Reports(p), op[p].kind = "delete_object", events' = events,
           pc'[p] # "idle", ToldErase(p)'
    PROVE  Tells(p)
  <1>1. belief = KeysBefore /\ belief' = belief
    BY ReportFacts DEF Reports, Told, InLoop
  <1>2. ~InLoop(p)' /\ ~Setting(p)' /\ ToldDelete(p)'
    BY ReportFacts DEF InLoop, Setting, ToldDelete
  <1>3. QED
    BY <1>1, <1>2, ReportFacts DEF Tells, Told

\* An absent or tombstoned object is left alone, and nothing is reported.
LEMMA DeleteGetTells ==
    ASSUME NEW p, Reports(p), DeleteGet(p)
    PROVE  Tells(p)
  <1>1. /\ AtDeleteGet(p) /\ pc[p] = "del_get" /\ entry' = entry /\ hit' = hit /\ events' = events
        /\ pc'[p] \in {"idle", "page"}
    BY ReportFacts DEF Reports, Ready, At, DeleteGet, Goto, records
  <1>2. op[p].kind = "delete_object" /\ Present = KeysBefore /\ Present' = Present
    BY <1>1, NothingYet DEF AtDeleteGet, Kind, Present
  <1>3. belief = KeysBefore /\ belief' = belief /\ ToldErase(p)
    BY <1>1, <1>2, ReportFacts DEF Reports, Told, InLoop
  <1>4. pc'[p] = "page" => ToldErase(p)'
    BY <1>1, <1>3, ReportFacts DEF ToldErase, InDeleteLoop
  <1>5. QED
    BY <1>1, <1>2, <1>3, <1>4, EraseTells DEF Tells

\* The keys of B after those of H.
After(B, H) == {k \in B : \A j \in H : j < k}

\* One page more: the keys listed stay those before the cursor, and when no key
\* follows the page all are listed.
LEMMA PageListed ==
    ASSUME NEW B \in SUBSET Keys, NEW H \in SUBSET B, \A k \in H, j \in B : j < k => j \in H,
           NEW U, U = After(B, H), NEW L, L = H \cup PageOf(U)
    PROVE  /\ L \subseteq B
           /\ \A k \in L, j \in B : j < k => j \in L
           /\ U \subseteq PageOf(U) => L = B
  <1>1. B \subseteq Nat /\ U \subseteq B /\ IsFiniteSet(U)
    <2>1. B \subseteq Nat /\ U \subseteq B /\ U \subseteq Keys
      BY EntryStoreAssumption DEF After
    <2>2. QED
      BY <2>1, EntryStoreAssumption, FS_Subset
  <1>2. \A j \in B : j \in H \/ j \in U
    <2>1. SUFFICES ASSUME NEW j \in B, j \notin U PROVE j \in H
      OBVIOUS
    <2>2. PICK i \in H : ~(i < j)
      BY <2>1 DEF After
    <2>3. i = j \/ j < i
      BY <1>1, <2>2
    <2>4. QED
      BY <2>2, <2>3
  <1>3. ASSUME NEW k \in PageOf(U), NEW j \in U, j < k
        PROVE  j \in PageOf(U)
    <2>1. PICK Lj : Lj = {i \in U : i < j}
      OBVIOUS
    <2>2. PICK Lk : Lk = {i \in U : i < k}
      OBVIOUS
    <2>3. k \in U /\ Cardinality(Lk) < PageLimit
      BY <2>2 DEF PageOf
    <2>4. Lj \subseteq Lk
      <3>1. SUFFICES ASSUME NEW i \in Lj PROVE i \in Lk
        OBVIOUS
      <3>2. i \in U /\ i < j /\ i \in Nat /\ j \in Nat /\ k \in Nat
        BY <1>1, <1>3, <2>1, <2>3, <3>1
      <3>3. i < k
        BY <1>3, <3>2
      <3>4. QED
        BY <2>2, <3>2, <3>3
    <2>5. IsFiniteSet(Lk)
      <3>1. Lk \subseteq U
        BY <2>2
      <3>2. QED
        BY <1>1, <3>1, FS_Subset
    <2>6. Cardinality(Lj) <= Cardinality(Lk) /\ Cardinality(Lj) \in Nat /\ Cardinality(Lk) \in Nat
      BY <2>4, <2>5, FS_Subset, FS_CardinalityType
    <2>7. Cardinality(Lj) < PageLimit
      BY <2>3, <2>6, EntryStoreAssumption
    <2>8. QED
      BY <2>1, <2>7 DEF PageOf
  <1>4. PageOf(U) \subseteq U
    BY DEF PageOf
  <1>5. QED
    BY <1>1, <1>2, <1>3, <1>4

\* reconstruct_object_from_entries lists every entry, however small its pages.
LEMMA ListPageTells ==
    ASSUME NEW p, Reports(p), ListPage(p)
    PROVE  Tells(p)
  <1>1. /\ AtListing(p) /\ pc[p] = "page" /\ events' = events
    BY ReportFacts DEF Reports, Ready, At, ListPage, records
  <1>2. op[p].kind = "delete_object" /\ Present = KeysBefore
    BY <1>1 DEF AtListing, Erasing, Kind, Present, KeysBefore
  <1>3. ToldErase(p)
    BY <1>2 DEF Reports, Told, InLoop
  <1>4. PICK B \in SUBSET Keys : B = KeysBefore
    BY DEF KeysBefore
  <1>5. PICK H \in SUBSET B : H = hit[p]
    BY <1>1, <1>3, <1>4 DEF ToldErase
  <1>6. \A k \in H, j \in B : j < k => j \in H
    BY <1>1, <1>3, <1>4, <1>5 DEF ToldErase
  <1>7. PICK U : U = After(B, H)
    OBVIOUS
  <1>8. Unlisted(p) = U
    BY <1>2, <1>4, <1>5, <1>7 DEF Unlisted, After
  <1>9. /\ hit'[p] = H \cup PageOf(U)
        /\ pc'[p] = IF U \subseteq PageOf(U) THEN "recon_meta" ELSE "page"
    BY <1>5, <1>8, ReportFacts DEF ListPage, Goto
  <1>10. PICK L : L = H \cup PageOf(U)
    OBVIOUS
  <1>11. /\ L \subseteq B
         /\ \A k \in L, j \in B : j < k => j \in L
         /\ U \subseteq PageOf(U) => L = B
    BY <1>6, <1>7, <1>10, PageListed
  <1>12. hit'[p] = L /\ KeysBefore' = B
    BY <1>4, <1>9, <1>10, ReportFacts
  <1>13. ToldErase(p)' /\ pc'[p] # "idle"
    BY <1>9, <1>11, <1>12 DEF ToldErase, InDeleteLoop
  <1>14. QED
    BY <1>1, <1>2, <1>13, EraseTells

\* From the last page on, the keys to report are settled.
LEMMA DeletingTells ==
    ASSUME NEW p, Reports(p), op[p].kind = "delete_object", pc[p] \in InDeleteLoop,
           events' = events, hit'[p] = hit[p], pc'[p] \in InDeleteLoop
    PROVE  Tells(p)
  <1>1. hit[p] = KeysBefore
    BY DEF Reports, Told, InLoop, ToldErase
  <1>2. ToldErase(p)' /\ pc'[p] # "idle"
    BY <1>1, ReportFacts DEF ToldErase, InDeleteLoop
  <1>3. QED
    BY <1>2, EraseTells

\* The delete of the records reports nothing yet.
LEMMA DeleteObjectTells ==
    ASSUME NEW p, Reports(p),
           \/ ReconMeta(p) \/ PredeleteConfig(p) \/ RangeScan(p) \/ RangeMeta(p)
           \/ RangeConfig(p) \/ RangeKey(p)
    PROVE  Tells(p)
  <1>1. op[p].kind = "delete_object"
    BY DEF Reports, Ready, At, ReconMeta, PredeleteConfig, RangeScan, RangeMeta, RangeConfig,
           RangeKey, AtListing, AtRangeMeta, AtRangeConfig, AtRangeKey, Erasing, Kind
  <1>2. ReconMeta(p) => ~Tombstoned
    BY DEF Reports, Ready, At, ReconMeta, AtListing, Erasing, Live0, Tombstoned
  <1>3. hit'[p] = hit[p] /\ events' = events /\ pc[p] \in InDeleteLoop /\ pc'[p] \in InDeleteLoop
    BY <1>2, ReportFacts DEF ReconMeta, PredeleteConfig, RangeScan, RangeMeta, RangeConfig,
                             RangeKey, Goto, InDeleteLoop
  <1>4. QED
    BY <1>1, <1>3, DeletingTells

\* An object without entries is deleted without a context.
LEMMA TombPutTells ==
    ASSUME NEW p, Reports(p), TombPut(p)
    PROVE  Tells(p)
  <1>1. /\ AtTombPut(p) /\ pc[p] = "tomb_put" /\ entry' = entry /\ hit' = hit /\ events' = events
        /\ pc'[p] = IF hit[p] # {} THEN "notify" ELSE "idle"
    BY ReportFacts DEF Reports, Ready, At, TombPut, Goto
  <1>2. op[p].kind = "delete_object" /\ entry = Result(p, {}, KeysBefore)
    BY <1>1 DEF AtTombPut, Erasing, Kind
  <1>3. CASE hit[p] # {}
    BY <1>1, <1>2, <1>3, DeletingTells DEF InDeleteLoop
  <1>4. CASE hit[p] = {}
    <2>1. KeysBefore = {} /\ belief = KeysBefore /\ belief' = belief
      BY <1>1, <1>2, <1>4, ReportFacts DEF Reports, Told, InLoop, ToldErase, InDeleteLoop
    <2>2. Present = (KeysBefore \cup {}) \ KeysBefore
      BY <1>2, ReportFacts, PresentNow
    <2>3. Present' = Present
      BY <1>1 DEF Present
    <2>4. QED
      BY <1>1, <1>4, <2>1, <2>2, <2>3 DEF Tells
  <1>5. QED
    BY <1>3, <1>4

\* Every step of a running operation keeps the subscriber in the picture.
LEMMA StepTells ==
    ASSUME NEW p, Reports(p), Step(p)
    PROVE  Tells(p)
  <1>1. ~ZenohBatchGet(p) /\ ~ZenohBatchRemove(p)
    BY DEF Reports, Ready, At, ZenohBatchGet, ZenohBatchRemove, AtZenohGet, AtZenohRemove, Kind
  <1>2. QED
    BY <1>1, ExistTells, WriteTells, CasTells, MetaGetTells, MetaPutTells, ConfigGetTells,
       NotifyTells, DeleteExistTells, BatchDeleteExistTells, RemoveTells, MutateTells,
       EnsureTells, DeleteGetTells, ListPageTells, DeleteObjectTells, TombPutTells
       DEF Step

-----------------------------------------------------------------------------
(* The versions of the contexts.                                           *)

\* The step keeps the versions in order, those told and the one to come.
Dates(p) ==
    /\ EventVersionsIncrease'
    /\ IF pc'[p] = "idle" THEN AllBelow(VersionOrZero + 1)' ELSE Dated(p)'

\* A context with the stored version is due; the stored version is gone.
DueLabels  == {"event_cfg", "notify"}
GoneLabels == {"range_cfg", "range_key", "tomb_put"}

\* The versions are numbers.
LEMMA VersionType ==
    ASSUME TypeOK
    PROVE  /\ VersionOrZero \in Nat /\ MetaOrDefault.version = VersionOrZero
           /\ \A p \in Clients : snap[p].version \in Nat
           /\ \A i \in 1..Len(events) : events[i].after \in Nat
           /\ events \in Seq(Context) /\ Len(events) \in Nat
  <1>1. VersionOrZero \in Nat /\ MetaOrDefault.version = VersionOrZero
    BY DEF TypeOK, VersionOrZero, MetaOrDefault, DefaultMetadata, Metadata
  <1>2. \A p \in Clients : snap[p].version \in Nat
    BY DEF TypeOK, Metadata
  <1>3. events \in Seq(Context) /\ Len(events) \in Nat
    BY DEF TypeOK
  <1>4. \A i \in 1..Len(events) : events[i] \in Context
    BY <1>3
  <1>5. \A c \in Context : c.after \in Nat
    BY DEF Context
  <1>6. QED
    BY <1>1, <1>2, <1>3, <1>4, <1>5

\* The versions told stay below a greater bound.
LEMMA BelowMore ==
    ASSUME TypeOK, NEW v \in Nat, NEW w \in Nat, AllBelow(v), v <= w, events' = events
    PROVE  AllBelow(w) /\ (\A u : u = w => AllBelow(u)')
  <1>1. \A i \in 1..Len(events) : events[i].after < w
    BY VersionType DEF AllBelow
  <1>2. QED
    BY <1>1 DEF AllBelow

\* A step that neither stores a version nor sends a context.
LEMMA LookDates ==
    ASSUME NEW p, Ready(p), Dated(p), EventVersionsIncrease, meta' = meta, events' = events,
           pc[p] \notin DueLabels \cup GoneLabels, pc'[p] \notin DueLabels \cup GoneLabels
    PROVE  Dates(p)
  <1>1. AllBelow(VersionOrZero + 1)' /\ EventVersionsIncrease'
    BY DEF Dated, DueLabels, GoneLabels, AllBelow, VersionOrZero, EventVersionsIncrease
  <1>2. QED
    BY <1>1 DEF Dates, Dated, DueLabels, GoneLabels

\* These steps neither store a version nor send a context.
LEMMA LookingDates ==
    ASSUME NEW p, Ready(p), Dated(p), EventVersionsIncrease,
           \/ Exist(p) \/ WriteEntry(p) \/ CasCheck(p) \/ ZenohBatchGet(p)
           \/ ZenohBatchRemove(p) \/ MetaGet(p) \/ DeleteExist(p) \/ BatchDeleteExist(p)
           \/ RemoveEntry(p) \/ MutateCheck(p) \/ MutateGet(p) \/ MutateVersion(p)
           \/ EnsureGet(p) \/ ConfigPut(p) \/ DeleteGet(p) \/ ListPage(p) \/ ReconMeta(p)
           \/ PredeleteConfig(p) \/ RangeScan(p)
    PROVE  Dates(p)
  <1>1. pc \in [Clients -> Labels] /\ p \in Clients
    BY DEF Ready, TypeOK
  <1>2. /\ meta' = meta /\ events' = events
        /\ pc[p] \notin DueLabels \cup GoneLabels /\ pc'[p] \notin DueLabels \cup GoneLabels
    BY <1>1
       DEF Exist, WriteEntry, CasCheck, ZenohBatchGet, ZenohBatchRemove, MetaGet, DeleteExist,
           BatchDeleteExist, RemoveEntry, MutateCheck, MutateGet, MutateVersion, EnsureGet,
           ConfigPut, DeleteGet, ListPage, ReconMeta, PredeleteConfig, RangeScan, Goto, Finish,
           Return, FirstWrite, records, DueLabels, GoneLabels
  <1>3. QED
    BY <1>2, LookDates

\* The default metadata, of version 0, is stored only where there was none.
LEMMA EnsurePutDates ==
    ASSUME NEW p, Ready(p), Dated(p), EventVersionsIncrease, EnsurePut(p)
    PROVE  Dates(p)
  <1>1. /\ meta = NoMeta /\ meta' = DefaultMetadata /\ events' = events
        /\ pc[p] = "ens_put" /\ pc'[p] \in {"cfg_put", "idle"}
    BY DEF Ready, TypeOK, At, EnsurePut, PutMeta, Goto, AtEnsureGet, Made, Bumped
  <1>2. VersionOrZero = 0 /\ VersionOrZero' = 0
    BY <1>1 DEF VersionOrZero, DefaultMetadata
  <1>3. AllBelow(VersionOrZero + 1)' /\ EventVersionsIncrease'
    BY <1>1, <1>2 DEF Dated, AllBelow, EventVersionsIncrease
  <1>4. QED
    BY <1>1, <1>3 DEF Dates, Dated

\* The stored version is above every version told.
LEMMA MetaPutDates ==
    ASSUME NEW p, Ready(p), Dated(p), EventVersionsIncrease, MetaPut(p)
    PROVE  Dates(p)
  <1>1. /\ p \in Clients /\ TypeOK /\ snap[p] = MetaOrDefault /\ events' = events
        /\ pc[p] = "meta_put"
    BY DEF Ready, At, MetaPut
  <1>2. PICK n \in {1, 2} : n = Increments(p)
    BY DEF Increments
  <1>3. PICK v \in Nat : v = VersionOrZero + n
    BY <1>1, <1>2, VersionType
  <1>4. PICK m : m = [version |-> v, tomb |-> snap[p].tomb]
    OBVIOUS
  <1>5. meta' = m /\ snap'[p] = m
    BY <1>1, <1>2, <1>3, <1>4, VersionType DEF MetaPut, PutMeta, TypeOK
  <1>6. VersionOrZero' = v /\ snap'[p].version = v
    <2>1. m \in Metadata
      BY <1>1, <1>4 DEF TypeOK, Metadata
    <2>2. QED
      BY <1>4, <1>5, <2>1, EntryStoreAssumption DEF VersionOrZero
  <1>7. AllBelow(VersionOrZero + 1)
    BY <1>1 DEF Dated
  <1>8. AllBelow(v)' /\ AllBelow(VersionOrZero + 1)'
    <2>1. /\ VersionOrZero + 1 \in Nat /\ v \in Nat /\ v + 1 \in Nat
          /\ VersionOrZero + 1 <= v /\ VersionOrZero + 1 <= v + 1
      BY <1>1, <1>2, <1>3, VersionType
    <2>2. AllBelow(v) /\ AllBelow(v + 1)
      BY <1>1, <1>7, <2>1, BelowMore
    <2>3. QED
      BY <1>1, <1>6, <2>2 DEF AllBelow
  <1>9. pc'[p] \in DueLabels \cup {"idle", "mut_get"}
    BY <1>1 DEF MetaPut, Finish, Goto, Return, TypeOK, DueLabels
  <1>10. EventVersionsIncrease'
    BY <1>1 DEF EventVersionsIncrease
  <1>11. CASE pc'[p] \in DueLabels
    <2>1. AllBelow(snap[p].version)' /\ snap'[p].version = VersionOrZero'
      BY <1>6, <1>8 DEF AllBelow
    <2>2. QED
      BY <1>10, <1>11, <2>1 DEF Dates, Dated, DueLabels
  <1>12. CASE pc'[p] \notin DueLabels
    BY <1>8, <1>9, <1>10, <1>12 DEF Dates, Dated, DueLabels
  <1>13. QED
    BY <1>11, <1>12

\* The version in hand is still the stored one.
LEMMA ConfigGetDates ==
    ASSUME NEW p, Ready(p), Dated(p), EventVersionsIncrease, ConfigGet(p)
    PROVE  Dates(p)
  <1>1. /\ pc[p] = "event_cfg" /\ pc'[p] = "notify" /\ meta' = meta /\ events' = events
        /\ snap' = snap
    BY DEF Ready, TypeOK, ConfigGet, Goto, records
  <1>2. QED
    BY <1>1 DEF Dates, Dated, AllBelow, VersionOrZero, EventVersionsIncrease

\* The version of the new context is the stored one, above those told before.
LEMMA NotifyDates ==
    ASSUME NEW p, Ready(p), Dated(p), EventVersionsIncrease, Notify(p)
    PROVE  Dates(p)
  <1>1. /\ pc[p] = "notify" /\ pc'[p] \in {"idle", "mut_get"} /\ meta' = meta
        /\ p \in Clients /\ TypeOK
    BY DEF Ready, TypeOK, Notify, Finish, Goto, Return, records
  <1>2. PICK v \in Nat : v = snap[p].version
    BY <1>1, VersionType
  <1>3. VersionOrZero = v /\ VersionOrZero' = v /\ AllBelow(v)
    BY <1>1, <1>2 DEF Dated, VersionOrZero
  <1>4. PICK e : e.after = v /\ events' = Append(events, e)
    BY <1>2 DEF Notify
  <1>5. PICK n \in Nat : n = Len(events)
    BY <1>1, VersionType
  <1>6. /\ Len(events') = n + 1 /\ events'[n + 1].after = v
        /\ \A i \in 1..n : events'[i] = events[i]
    BY <1>1, <1>4, <1>5, VersionType
  <1>7. \A i \in 1..n : events[i].after < v /\ events[i].after \in Nat
    BY <1>1, <1>3, <1>5, VersionType DEF AllBelow
  <1>8. \A i \in 1..(n + 1) : events'[i].after < v + 1
    <2>1. SUFFICES ASSUME NEW i \in 1..(n + 1) PROVE events'[i].after < v + 1
      OBVIOUS
    <2>2. i = n + 1 \/ i \in 1..n
      BY <1>5, <2>1
    <2>3. QED
      BY <1>2, <1>6, <1>7, <2>2
  <1>9. \A i \in 1..n : events'[i].after < events'[i + 1].after
    <2>1. SUFFICES ASSUME NEW i \in 1..n PROVE events'[i].after < events'[i + 1].after
      OBVIOUS
    <2>2. CASE i = n
      BY <1>6, <1>7, <2>1, <2>2
    <2>3. CASE i # n
      <3>1. i \in 1..n - 1 /\ i + 1 \in 1..n
        BY <1>5, <2>1, <2>3
      <3>2. events[i].after < events[i + 1].after
        BY <1>5, <3>1 DEF EventVersionsIncrease
      <3>3. QED
        BY <1>6, <3>1, <3>2
    <2>4. QED
      BY <2>2, <2>3
  <1>10. EventVersionsIncrease'
    <2>1. Len(events') - 1 = n
      BY <1>5, <1>6
    <2>2. QED
      BY <1>9, <2>1 DEF EventVersionsIncrease
  <1>11. AllBelow(VersionOrZero + 1)'
    BY <1>3, <1>6, <1>8 DEF AllBelow
  <1>12. QED
    BY <1>1, <1>10, <1>11 DEF Dates, Dated

\* The version read before the metadata is removed is the one that comes back.
LEMMA RangeMetaDates ==
    ASSUME NEW p, Ready(p), Dated(p), EventVersionsIncrease, RangeMeta(p)
    PROVE  Dates(p)
  <1>1. /\ pc[p] = "range_meta" /\ pc'[p] = "range_cfg" /\ events' = events /\ snap' = snap
    BY DEF Ready, TypeOK, RangeMeta, Goto
  <1>2. VersionOrZero = snap[p].version
    BY <1>1 DEF Ready, At, AtRangeMeta, AtListing, Erasing, Live0, Default0, VersionOrZero
  <1>3. QED
    BY <1>1, <1>2 DEF Dates, Dated, AllBelow, EventVersionsIncrease

\* The entries are removed without a version.
LEMMA RangeDates ==
    ASSUME NEW p, Ready(p), Dated(p), EventVersionsIncrease, RangeConfig(p) \/ RangeKey(p)
    PROVE  Dates(p)
  <1>1. /\ pc[p] \in GoneLabels /\ pc'[p] \in GoneLabels /\ events' = events /\ snap' = snap
    BY DEF Ready, TypeOK, RangeConfig, RangeKey, Goto, GoneLabels
  <1>2. QED
    BY <1>1 DEF Dates, Dated, AllBelow, EventVersionsIncrease, GoneLabels

\* The tombstone's version is above every version told.
LEMMA TombPutDates ==
    ASSUME NEW p, Ready(p), Dated(p), EventVersionsIncrease, TombPut(p)
    PROVE  Dates(p)
  <1>1. /\ pc[p] = "tomb_put" /\ pc'[p] \in {"notify", "idle"} /\ events' = events
        /\ p \in Clients /\ TypeOK
    BY DEF Ready, TypeOK, TombPut, Goto
  <1>2. PICK v \in Nat : v = snap[p].version + 1
    BY <1>1, VersionType
  <1>3. PICK m : m = [version |-> v, tomb |-> TRUE]
    OBVIOUS
  <1>4. VersionOrZero' = v /\ snap'[p].version = v
    <2>1. m \in Metadata /\ m.version = v
      BY <1>3 DEF Metadata
    <2>2. meta' = m /\ snap'[p] = m
      BY <1>1, <1>2, <1>3 DEF TombPut, PutMeta, TypeOK
    <2>3. QED
      BY <2>1, <2>2, EntryStoreAssumption DEF VersionOrZero
  <1>5. AllBelow(v) /\ AllBelow(v + 1)
    <2>1. AllBelow(v) /\ v + 1 \in Nat /\ v <= v + 1
      BY <1>1, <1>2 DEF Dated
    <2>2. QED
      BY <1>1, <2>1, BelowMore
  <1>6. AllBelow(snap[p].version)' /\ AllBelow(VersionOrZero + 1)' /\ EventVersionsIncrease'
    BY <1>1, <1>4, <1>5 DEF AllBelow, EventVersionsIncrease
  <1>7. QED
    BY <1>1, <1>4, <1>6 DEF Dates, Dated

\* Every step of a running operation keeps the versions in order.
LEMMA StepDates ==
    ASSUME NEW p, Ready(p), Dated(p), EventVersionsIncrease, Step(p)
    PROVE  Dates(p)
  BY LookingDates, EnsurePutDates, MetaPutDates, ConfigGetDates, NotifyDates, RangeMetaDates,
     RangeDates, TombPutDates DEF Step

-----------------------------------------------------------------------------
(* The invariant.                                                          *)

\* A handler that begins knows what it will find, and has told nothing.
LEMMA BeginTells ==
    ASSUME SeqIInv, EventsInv, Quiet, NEW p \in Clients, Begin(p), pre' = Now, belief' = Present
    PROVE  /\ Dated(p)' /\ EventVersionsIncrease'
           /\ V2Dispatcher /\ op'[p].kind # "zbatch" => Told(p)'
  <1>1. PICK r \in Requests :
            /\ op' = [op EXCEPT ![p] = r]
            /\ Goto(p, EntryPoint(r))
            /\ todo' = [todo EXCEPT ![p] = FirstKeys(r)]
            /\ stage' = [stage EXCEPT ![p] =
                            IF r.kind = "mutate" /\ r.puts = {} THEN "dels" ELSE "one"]
    BY DEF Begin
  <1>2. /\ op'[p] = r /\ pc'[p] = EntryPoint(r) /\ todo'[p] = FirstKeys(r) /\ hit'[p] = {}
        /\ stage'[p] = (IF r.kind = "mutate" /\ r.puts = {} THEN "dels" ELSE "one")
        /\ entry' = entry /\ meta' = meta /\ events' = events
    BY <1>1 DEF SeqIInv, TypeOK, Begin, Goto, records
  <1>3. r \in Operation /\ r.kind \in Kinds
    BY <1>1, EntryStoreAssumption DEF Operation
  <1>4. KeysBefore' = Present /\ Present' = Present
    BY <1>2 DEF KeysBefore, Present, Now
  <1>5. /\ pc'[p] \in {"exist", "write", "del_exist", "bd_exist", "cas", "mut_check", "mut_get",
                        "ens_get", "cfg_put", "del_get", "zb_get"}
        /\ pc'[p] = "exist" => r.kind = "set_entry"
        /\ V2Dispatcher => pc'[p] # "write"
    BY <1>2, <1>3 DEF EntryPoint, FirstWrite, Kinds
  <1>6. Dated(p)' /\ EventVersionsIncrease'
    BY <1>2, <1>5 DEF EventsInv, Dated, AllBelow, VersionOrZero, EventVersionsIncrease
  <1>7. ASSUME V2Dispatcher PROVE Told(p)'
    <2>1. InLoop(p)' => ToldLoop(p)'
      BY <1>4, <1>5 DEF ToldLoop, Closing
    <2>2. Setting(p)' => ToldSet(p)'
      <3>1. pc'[p] = "exist" => r.puts # {} /\ todo'[p] = r.puts
        BY <1>1, <1>2, <1>5, EntryStoreAssumption DEF FirstKeys
      <3>2. QED
        BY <1>2, <1>5, <1>7, <3>1 DEF ToldSet, Closing
    <2>3. ToldDelete(p)' /\ ToldErase(p)'
      BY <1>2, <1>5 DEF ToldDelete, ToldErase, Closing, InDeleteLoop
    <2>4. QED
      BY <1>4, <2>1, <2>2, <2>3 DEF Told
  <1>8. QED
    BY <1>6, <1>7

\* Nothing is told of an object that nobody has asked for.
LEMMA EventsInitInv == SeqInit => EventsInv
  <1> SUFFICES ASSUME SeqInit PROVE EventsInv
    OBVIOUS
  <1>1. /\ events = <<>> /\ Len(events) = 0 /\ belief = {} /\ entry = [k \in Keys |-> Absent]
        /\ \A p \in Clients : pc[p] = "idle"
    BY DEF SeqInit, Init
  <1>2. Present = {}
    BY <1>1 DEF Present
  <1>3. EventsReplay /\ EventVersionsIncrease /\ AllBelow(VersionOrZero + 1)
    BY <1>1, <1>2 DEF EventsReplay, EventVersionsIncrease, AllBelow
  <1>4. QED
    BY <1>1, <1>3 DEF EventsInv

\* The invariant is inductive, given what SeqIInv says of the records.
LEMMA EventsNextInv == SeqIInv /\ SeqIInv' /\ EventsInv /\ [SeqNext]_seqVars => EventsInv'
  <1> SUFFICES ASSUME SeqIInv, SeqIInv', EventsInv, [SeqNext]_seqVars PROVE EventsInv'
    OBVIOUS
  <1>1. ASSUME NEW p \in Clients, Quiet, Begin(p), pre' = Now, belief' = Present
        PROVE  EventsInv'
    <2>1. /\ pc'[p] # "idle"
          /\ \A q \in Clients : q # p => pc'[q] = "idle"
      BY <1>1, BeginServes DEF SeqIInv, Quiet
    <2>2. ~Quiet'
      BY <2>1 DEF Quiet
    <2>3. /\ Dated(p)' /\ EventVersionsIncrease'
          /\ V2Dispatcher /\ op'[p].kind # "zbatch" => Told(p)'
      BY <1>1, BeginTells
    <2>4. QED
      BY <2>1, <2>2, <2>3 DEF EventsInv, EventsReplay
  <1>2. ASSUME NEW p \in Clients, Step(p), UNCHANGED pre, Hear
        PROVE  EventsInv'
    <2>1. Ready(p)
      BY <1>2, StepReady
    <2>2. /\ UNCHANGED <<op, id, issued>> /\ pc[p] # "idle"
          /\ \A q \in Clients : q # p => pc'[q] = pc[q]
      BY <1>2, StepFrame DEF SeqIInv
    <2>3. \A q \in Clients : pc'[q] # "idle" => q = p
      BY <2>2, OneRuns
    <2>4. Latest' = p
      <3>1. id[p] = issued /\ issued # 0
        BY <2>2 DEF SeqIInv, SeqInv, Served
      <3>2. Latest = p /\ Latest' = Latest
        BY <2>2, <3>1, LatestIs DEF Latest
      <3>3. QED
        BY <3>2
    <2>5. Dates(p)
      BY <1>2, <2>1, <2>2, StepDates DEF EventsInv
    <2>6. V2Dispatcher /\ op[p].kind # "zbatch" => Tells(p)
      BY <1>2, <2>1, <2>2, StepTells DEF EventsInv, Reports
    <2>7. op'[p] = op[p]
      BY <2>2
    <2>8. EventsReplay'
      <3>1. Quiet' => pc'[p] = "idle"
        BY DEF Quiet
      <3>2. QED
        BY <2>4, <2>6, <2>7, <3>1 DEF EventsReplay, Tells
    <2>9. Quiet' => AllBelow(VersionOrZero + 1)'
      BY <2>5 DEF Dates, Quiet
    <2>10. \A q \in Clients : pc'[q] # "idle" =>
              /\ Dated(q)'
              /\ V2Dispatcher /\ op'[q].kind # "zbatch" => Told(q)'
      BY <2>3, <2>5, <2>6, <2>7 DEF Dates, Tells
    <2>11. QED
      BY <2>5, <2>8, <2>9, <2>10 DEF EventsInv, Dates
  <1>3. CASE UNCHANGED seqVars
    <2>1. UNCHANGED <<entry, meta, pc, op, id, snap, todo, hit, cur, stage, events, issued, pre, belief>>
      BY <1>3 DEF seqVars, vars, records, call, marks, counts
    <2>2. /\ Present' = Present /\ KeysBefore' = KeysBefore /\ VersionOrZero' = VersionOrZero
          /\ Latest' = Latest /\ (Quiet' <=> Quiet)
      BY <2>1 DEF Present, KeysBefore, VersionOrZero, Latest, Quiet
    <2>3. EventsReplay' /\ EventVersionsIncrease' /\ (Quiet' => AllBelow(VersionOrZero + 1)')
      BY <2>1, <2>2 DEF EventsInv, EventsReplay, EventVersionsIncrease, AllBelow
    <2>4. \A p : Dated(p) => Dated(p)'
      BY <2>1, <2>2 DEF Dated, AllBelow
    <2>5. \A p : Told(p) => Told(p)'
      BY <2>1, <2>2 DEF Told, InLoop, Setting, ToldLoop, ToldSet, ToldDelete, ToldErase
    <2>6. QED
      BY <2>1, <2>3, <2>4, <2>5 DEF EventsInv
  <1>4. QED
    BY <1>1, <1>2, <1>3 DEF SeqNext

\* The contexts of an operation, however many storage calls and contexts it is made
\* of, replay to the keys the object has, and the versions of all contexts increase,
\* for every set of keys and of requests and for every page limit.
THEOREM EventsStayFaithful == SeqSpec => []EventsFaithful
  <1>1. SeqInit => SeqIInv /\ EventsInv
    BY SeqInitInv, EventsInitInv
  <1>2. SeqIInv /\ EventsInv /\ [SeqNext]_seqVars => SeqIInv' /\ EventsInv'
    BY SeqNextInv, EventsNextInv
  <1>3. EventsInv => EventsFaithful
    BY DEF EventsInv, EventsFaithful
  <1>4. QED
    BY <1>1, <1>2, <1>3, PTL DEF SeqSpec
=============================================================================
