------------------------ MODULE MstReplicationProofs ------------------------
(***************************************************************************)
(* Proofs about MstReplication for any number of replicas, writers, keys   *)
(* and faults, any merge function and both kinds of storage.               *)
(***************************************************************************)
EXTENDS MstReplication, TLAPS

LEMMA MergedType ==
    ASSUME TypeOK, NEW n \in Nodes, NEW k \in Keys, NEW v \in Values
    PROVE  Merged(n, k, v) \in Values
  <1>1. store[n][k] \in Values \cup {Nil}
    BY DEF TypeOK, Map, Record
  <1>2. CASE store[n][k] = Nil
    BY <1>2 DEF Merged
  <1>3. CASE store[n][k] # Nil
    BY <1>1, <1>3, MstAssumption DEF Merged
  <1>4. QED
    BY <1>2, <1>3

\* Replacing one record of one replica.
LEMMA PutType ==
    ASSUME NEW f \in [Nodes -> Map], NEW n \in Nodes, NEW k \in Keys, NEW v \in Record
    PROVE  [f EXCEPT ![n][k] = v] \in [Nodes -> Map]
  BY DEF Map

\* A request that is being made has failed less than three times.
TriesInv == \A n \in Nodes : spc[n] = "fetch" => tries[n] < 3

LEMMA NextTries == TypeOK /\ TriesInv /\ [Next]_vars => TriesInv'
  <1> SUFFICES ASSUME TypeOK, TriesInv, [Next]_vars PROVE TriesInv'
    OBVIOUS
  <1> USE DEF TypeOK, TriesInv, writer, sync, bounds
  <1>1. ASSUME NEW w \in Writers, WriteGet(w) \/ Delete(w) \/ WriterStep(w) \/ Cancel(w)
        PROVE TriesInv'
    BY <1>1 DEF WriteGet, Delete, Cancel, WriterStep, WritePut, WriteUpsert
  <1>2. ASSUME NEW n \in Nodes, Publish(n) \/ SyncStep(n) PROVE TriesInv'
    BY <1>2 DEF Publish, SyncStep, PageQuery, MergeGet, MergePut, MergeUpsert
  <1>3. ASSUME NEW n \in Nodes, RequestFails(n) \/ Restart(n) PROVE TriesInv'
    BY <1>3 DEF RequestFails, Restart
  <1>4. ASSUME NEW n \in Nodes, NEW m \in Nodes, HandlePages(n, m) \/ Lose(n, m) PROVE TriesInv'
    BY <1>4 DEF HandlePages, Lose
  <1>5. CASE Quiesce \/ UNCHANGED vars
    BY <1>5 DEF Quiesce, vars
  <1>6. QED
    BY <1>1, <1>2, <1>3, <1>4, <1>5 DEF Next

LEMMA NextType == TypeOK /\ TriesInv /\ [Next]_vars => TypeOK'
  <1> SUFFICES ASSUME TypeOK, TriesInv, [Next]_vars PROVE TypeOK'
    OBVIOUS
  <1> USE DEF TypeOK, writer, sync, bounds
  <1>a. NoPages \in Map
    BY DEF NoPages, Map, Record
  <1>n. Nil \in Record
    BY DEF Record
  <1>1. ASSUME NEW w \in Writers, WriteGet(w) PROVE TypeOK'
    <2>0. written \in 0..MaxWrites /\ written < MaxWrites /\ MaxWrites \in Nat
      BY <1>1, MstAssumption DEF WriteGet
    <2>1. written + 1 \in Values /\ Home[w] \in Nodes
      BY <2>0, MstAssumption DEF Values
    <2>2. PICK k \in Keys : /\ wkey' = [wkey EXCEPT ![w] = k]
                            /\ wval' = [wval EXCEPT ![w] = Merged(Home[w], k, written + 1)]
      BY <1>1 DEF WriteGet
    <2>3. Merged(Home[w], k, written + 1) \in Record
      BY <2>1, MergedType DEF Record
    <2>4. written' \in 0..MaxWrites
      BY <1>1, <2>1 DEF WriteGet, Values
    <2>5. QED
      BY <1>1, <2>2, <2>3, <2>4 DEF WriteGet
  <1>2. ASSUME NEW w \in Writers, WritePut(w) PROVE TypeOK'
    <2>1. store' \in [Nodes -> Map]
      BY <1>2, PutType, MstAssumption DEF WritePut
    <2>2. QED
      BY <1>2, <2>1 DEF WritePut
  <1>3. ASSUME NEW w \in Writers, WriteUpsert(w) PROVE TypeOK'
    <2>1. tree' \in [Nodes -> Map]
      BY <1>3, PutType, MstAssumption DEF WriteUpsert
    <2>2. QED
      BY <1>3, <1>n, <2>1 DEF WriteUpsert
  <1>4. ASSUME NEW w \in Writers, Delete(w) PROVE TypeOK'
    <2>0. PICK k \in Keys : store' = [store EXCEPT ![Home[w]][k] = Nil]
      BY <1>4 DEF Delete
    <2>1. store' \in [Nodes -> Map]
      BY <2>0, <1>n, PutType, MstAssumption
    <2>2. deletes' \in 0..MaxDeletes
      BY <1>4, MstAssumption DEF Delete
    <2>3. QED
      BY <1>4, <2>1, <2>2 DEF Delete
  <1>5. ASSUME NEW n \in Nodes, Publish(n) PROVE TypeOK'
    BY <1>5 DEF Publish
  <1>6. ASSUME NEW n \in Nodes, NEW m \in Nodes, HandlePages(n, m) PROVE TypeOK'
    <2>1. PICK K \in SUBSET Keys :
              /\ req' = [req EXCEPT ![n] = K]
              /\ ask' = [ask EXCEPT ![n] = K]
              /\ spc' = [spc EXCEPT ![n] = IF K = {} THEN "idle" ELSE "fetch"]
      BY <1>6 DEF HandlePages, RangesToRequest
    <2>2. inbox' \in [Nodes -> [Nodes -> Map \cup {NoMessage}]]
      BY <1>6 DEF HandlePages
    <2>3. QED
      BY <1>6, <2>1, <2>2 DEF HandlePages
  <1>7. ASSUME NEW n \in Nodes, PageQuery(n) PROVE TypeOK'
    <2>1. PICK k \in ask[n] :
              /\ ask' = [ask EXCEPT ![n] = ask[n] \ {k}]
              /\ got' = [got EXCEPT ![n][k] = store[owner[n]][k]]
      BY <1>7 DEF PageQuery
    <2>2. k \in Keys /\ store[owner[n]][k] \in Record /\ ask[n] \ {k} \in SUBSET Keys
      BY DEF Map
    <2>3. got' \in [Nodes -> Map]
      BY <2>1, <2>2, PutType
    <2>4. req' \in [Nodes -> SUBSET Keys]
      BY <1>7 DEF PageQuery
    <2>5. spc' \in [Nodes -> {"idle", "fetch", "merge", "put", "upsert"}]
      BY <1>7 DEF PageQuery
    <2>6. QED
      BY <1>7, <2>1, <2>2, <2>3, <2>4, <2>5 DEF PageQuery
  <1>8. ASSUME NEW n \in Nodes, MergeGet(n) PROVE TypeOK'
    <2>1. CASE UNCHANGED sval
      BY <1>8, <2>1 DEF MergeGet
    <2>2. ASSUME NEW k \in Keys, IsNext(n, k), sval' = [sval EXCEPT ![n] = Merged(n, k, got[n][k])]
          PROVE  TypeOK'
      <3>1. got[n][k] \in Values
        BY <2>2 DEF IsNext, Pending, Map, Record
      <3>2. Merged(n, k, got[n][k]) \in Record
        BY <3>1, MergedType DEF Record
      <3>3. sval' \in [Nodes -> Record]
        BY <2>2, <3>2
      <3>4. QED
        BY <1>8, <3>3 DEF MergeGet
    <2>3. QED
      BY <1>8, <2>1, <2>2 DEF MergeGet
  <1>9. ASSUME NEW n \in Nodes, MergePut(n) PROVE TypeOK'
    <2>0. PICK k \in Keys : store' = [store EXCEPT ![n][k] = sval[n]]
      BY <1>9 DEF MergePut
    <2>1. store' \in [Nodes -> Map]
      BY <2>0, PutType
    <2>2. QED
      BY <1>9, <2>1 DEF MergePut
  <1>10. ASSUME NEW n \in Nodes, MergeUpsert(n) PROVE TypeOK'
    <2>1. PICK k \in Keys : /\ tree' = [tree EXCEPT ![n][k] = sval[n]]
                            /\ notified' = [notified EXCEPT ![n] = notified[n] \cup {k}]
                            /\ got' = [got EXCEPT ![n][k] = Nil]
      BY <1>10 DEF MergeUpsert
    <2>2. tree' \in [Nodes -> Map] /\ got' \in [Nodes -> Map]
      BY <2>1, <1>n, PutType
    <2>3. notified' \in [Nodes -> SUBSET Keys]
      BY <2>1
    <2>4. QED
      BY <1>10, <1>n, <2>2, <2>3 DEF MergeUpsert
  <1>11. ASSUME NEW n \in Nodes, RequestFails(n) PROVE TypeOK'
    <2>1. tries[n] \in 0..3 /\ tries[n] < 3
      BY <1>11 DEF RequestFails, TriesInv
    <2>2. tries[n] + 1 \in 0..3
      BY <2>1
    <2>3. tries' \in [Nodes -> 0..3]
      BY <1>11, <2>2 DEF RequestFails
    <2>4. faults' \in 0..MaxFaults
      BY <1>11, MstAssumption DEF RequestFails
    <2>5. ask' \in [Nodes -> SUBSET Keys] /\ got' \in [Nodes -> Map]
      BY <1>11, <1>a DEF RequestFails
    <2>6. spc' \in [Nodes -> {"idle", "fetch", "merge", "put", "upsert"}]
      BY <1>11 DEF RequestFails
    <2>7. QED
      BY <1>11, <2>3, <2>4, <2>5, <2>6 DEF RequestFails
  <1>12. ASSUME NEW n \in Nodes, Restart(n) PROVE TypeOK'
    <2>1. store' \in [Nodes -> Map] /\ tree' \in [Nodes -> Map] /\ got' \in [Nodes -> Map]
      BY <1>12, <1>a DEF Restart
    <2>2. inbox' \in [Nodes -> [Nodes -> Map \cup {NoMessage}]]
      BY <1>12 DEF Restart
    <2>3. wval' \in [Writers -> Record] /\ wpc' \in [Writers -> {"idle", "put", "upsert"}]
      BY <1>12, <1>n DEF Restart
    <2>4. faults' \in 0..MaxFaults
      BY <1>12, MstAssumption DEF Restart
    <2>5. QED
      BY <1>12, <1>n, <2>1, <2>2, <2>3, <2>4 DEF Restart
  <1>13. ASSUME NEW n \in Nodes, NEW m \in Nodes, Lose(n, m) PROVE TypeOK'
    <2>1. faults' \in 0..MaxFaults
      BY <1>13, MstAssumption DEF Lose
    <2>2. QED
      BY <1>13, <2>1 DEF Lose
  <1>14. ASSUME NEW w \in Writers, Cancel(w) PROVE TypeOK'
    <2>1. faults' \in 0..MaxFaults
      BY <1>14, MstAssumption DEF Cancel
    <2>2. QED
      BY <1>14, <1>n, <2>1 DEF Cancel
  <1>15. CASE Quiesce
    BY <1>15 DEF Quiesce
  <1>16. CASE UNCHANGED vars
    BY <1>16 DEF vars
  <1>17. QED
    BY <1>1, <1>2, <1>3, <1>4, <1>5, <1>6, <1>7, <1>8, <1>9, <1>10, <1>11, <1>12, <1>13, <1>14,
       <1>15, <1>16 DEF Next, WriterStep, SyncStep

LEMMA InitType == Init => TypeOK /\ TriesInv
  <1> SUFFICES ASSUME Init PROVE TypeOK /\ TriesInv
    OBVIOUS
  <1>1. NoPages \in Map /\ Nil \in Record
    BY DEF NoPages, Map, Record
  <1>2. wkey \in [Writers -> Keys]
    BY MstAssumption DEF Init
  <1>3. /\ store \in [Nodes -> Map] /\ tree \in [Nodes -> Map] /\ got \in [Nodes -> Map]
        /\ inbox \in [Nodes -> [Nodes -> Map \cup {NoMessage}]]
        /\ wval \in [Writers -> Record] /\ sval \in [Nodes -> Record]
    BY <1>1 DEF Init
  <1>4. /\ written \in 0..MaxWrites /\ deletes \in 0..MaxDeletes /\ faults \in 0..MaxFaults
        /\ tries \in [Nodes -> 0..3]
    BY MstAssumption DEF Init
  <1>5. QED
    BY <1>2, <1>3, <1>4 DEF Init, TypeOK, TriesInv

\* Stores, trees, messages and locals always hold values of their types; in
\* particular a page request is never made more than three times.
THEOREM TypeCorrect == Spec => []TypeOK
  <1>1. TypeOK /\ TriesInv /\ [Next]_vars => (TypeOK /\ TriesInv)'
    BY NextType, NextTries
  <1>2. QED
    BY <1>1, InitType, PTL DEF Spec

-----------------------------------------------------------------------------
(* A replica serves what its tree advertises.                              *)

\* The inductive form of AdvertisedIsServable: the record a writer or a merge is
\* about to add to the tree is in the store already, and is a record.
WriterServes(w) ==
    /\ wpc[w] \in {"put", "upsert"} => wval[w] # Nil
    /\ wpc[w] = "upsert" => store[Home[w]][wkey[w]] # Nil

MergeServes(n) ==
    /\ spc[n] \in {"put", "upsert"} => sval[n] # Nil
    /\ spc[n] = "upsert" => \A k \in Keys : IsNext(n, k) => store[n][k] # Nil

TreeServes(n) == \A k \in Keys : tree[n][k] # Nil => store[n][k] # Nil

ServeInv ==
    deletes = 0 =>
        /\ \A n \in Nodes : TreeServes(n) /\ MergeServes(n)
        /\ \A w \in Writers : WriterServes(w)

\* A put of a record keeps whatever was served.
LEMMA PutServes ==
    ASSUME TypeOK, NEW n \in Nodes, NEW k \in Keys, NEW v, v # Nil,
           store' = [store EXCEPT ![n][k] = v]
    PROVE  /\ \A x \in Nodes, j \in Keys : store[x][j] # Nil => store'[x][j] # Nil
           /\ store'[n][k] # Nil
  <1>1. ASSUME NEW x \in Nodes, NEW j \in Keys
        PROVE  store'[x][j] = IF x = n /\ j = k THEN v ELSE store[x][j]
    BY DEF TypeOK, Map
  <1>2. QED
    BY <1>1

LEMMA NextServes == TypeOK /\ ServeInv /\ [Next]_vars => ServeInv'
  <1> SUFFICES ASSUME TypeOK, ServeInv, [Next]_vars, deletes' = 0
               PROVE  /\ \A n \in Nodes : TreeServes(n)' /\ MergeServes(n)'
                      /\ \A w \in Writers : WriterServes(w)'
    BY DEF ServeInv
  <1> DEFINE Goal == /\ \A n \in Nodes : TreeServes(n)' /\ MergeServes(n)'
                     /\ \A w \in Writers : WriterServes(w)'
  <1> USE DEF writer, sync, bounds
  <1>h. \A w \in Writers : Home[w] \in Nodes /\ wkey[w] \in Keys
    BY MstAssumption DEF TypeOK
  <1>0. ASSUME deletes = 0
        PROVE  /\ \A n \in Nodes : TreeServes(n) /\ MergeServes(n)
               /\ \A w \in Writers : WriterServes(w)
    BY <1>0 DEF ServeInv
  <1>1. ASSUME NEW w \in Writers, WriteGet(w) PROVE Goal
    <2>1. deletes = 0 /\ UNCHANGED <<store, tree, spc, got, sval>>
      BY <1>1 DEF WriteGet
    <2>2. PICK k \in Keys : wval' = [wval EXCEPT ![w] = Merged(Home[w], k, written + 1)]
      BY <1>1 DEF WriteGet
    <2>3. written + 1 \in Values
      <3>1. written \in 0..MaxWrites /\ written < MaxWrites /\ MaxWrites \in Nat
        BY <1>1, MstAssumption DEF WriteGet, TypeOK
      <3>2. QED
        BY <3>1 DEF Values
    <2>4. Merged(Home[w], k, written + 1) # Nil
      BY <2>3, <1>h, MergedType DEF Values, Nil
    <2>5. ASSUME NEW v \in Writers PROVE WriterServes(v)'
      BY <1>0, <1>1, <2>1, <2>2, <2>4 DEF WriteGet, WriterServes, TypeOK
    <2>6. ASSUME NEW n \in Nodes PROVE TreeServes(n)' /\ MergeServes(n)'
      BY <1>0, <2>1 DEF TreeServes, MergeServes, IsNext, Pending
    <2>7. QED
      BY <2>5, <2>6
  <1>2. ASSUME NEW w \in Writers, WritePut(w) PROVE Goal
    <2>1. deletes = 0 /\ UNCHANGED <<tree, spc, got, sval, wkey, wval>>
      BY <1>2 DEF WritePut
    <2>2. wval[w] # Nil
      BY <1>0, <1>2, <2>1 DEF WritePut, WriterServes
    <2>3. /\ \A x \in Nodes, j \in Keys : store[x][j] # Nil => store'[x][j] # Nil
          /\ store'[Home[w]][wkey[w]] # Nil
      BY <1>2, <1>h, <2>2, PutServes DEF WritePut
    <2>4. ASSUME NEW v \in Writers PROVE WriterServes(v)'
      BY <1>0, <1>2, <1>h, <2>1, <2>2, <2>3 DEF WritePut, WriterServes, TypeOK
    <2>5. ASSUME NEW n \in Nodes PROVE TreeServes(n)' /\ MergeServes(n)'
      BY <1>0, <2>1, <2>3 DEF TreeServes, MergeServes, IsNext, Pending
    <2>6. QED
      BY <2>4, <2>5
  <1>3. ASSUME NEW w \in Writers, WriteUpsert(w) PROVE Goal
    <2>1. deletes = 0 /\ UNCHANGED <<store, spc, got, sval, wkey>>
      BY <1>3 DEF WriteUpsert
    <2>2. store[Home[w]][wkey[w]] # Nil
      BY <1>0, <1>3, <2>1 DEF WriteUpsert, WriterServes
    <2>3. ASSUME NEW n \in Nodes PROVE TreeServes(n)'
      <3>1. ASSUME NEW k \in Keys
            PROVE  tree'[n][k] = IF n = Home[w] /\ k = wkey[w] THEN wval[w] ELSE tree[n][k]
        BY <1>3, <1>h DEF WriteUpsert, TypeOK, Map
      <3>2. QED
        BY <1>0, <2>1, <2>2, <3>1 DEF TreeServes
    <2>4. ASSUME NEW n \in Nodes PROVE MergeServes(n)'
      BY <1>0, <2>1 DEF MergeServes, IsNext, Pending
    <2>5. ASSUME NEW v \in Writers PROVE WriterServes(v)'
      BY <1>0, <1>3, <2>1 DEF WriteUpsert, WriterServes, TypeOK
    <2>6. QED
      BY <2>3, <2>4, <2>5
  <1>4. ASSUME NEW w \in Writers, Delete(w) PROVE Goal
    BY <1>4 DEF Delete, TypeOK
  <1>5. ASSUME NEW n \in Nodes, PageQuery(n) \/ RequestFails(n) PROVE Goal
    <2>1. deletes = 0 /\ UNCHANGED <<store, tree, sval, wpc, wkey, wval>>
      BY <1>5 DEF PageQuery, RequestFails
    <2>2. ASSUME NEW x \in Nodes PROVE MergeServes(x)'
      <3>1. spc'[x] \in {"put", "upsert"} => spc'[x] = spc[x] /\ x # n
        BY <1>5 DEF PageQuery, RequestFails, TypeOK
      <3>2. x # n => got'[x] = got[x]
        BY <1>5 DEF PageQuery, RequestFails, TypeOK
      <3>3. QED
        BY <1>0, <2>1, <3>1, <3>2 DEF MergeServes, IsNext, Pending
    <2>3. QED
      BY <1>0, <2>1, <2>2 DEF TreeServes, WriterServes
  <1>6. ASSUME NEW n \in Nodes, MergeGet(n) PROVE Goal
    <2>1. deletes = 0 /\ UNCHANGED <<store, tree, got, wpc, wkey, wval>>
      BY <1>6 DEF MergeGet
    <2>2. spc'[n] # "upsert" /\ (spc'[n] = "put" => sval'[n] # Nil)
      <3>1. ASSUME NEW k \in Keys, IsNext(n, k) PROVE Merged(n, k, got[n][k]) # Nil
        <4>1. got[n][k] \in Values
          BY <3>1 DEF IsNext, Pending, TypeOK, Map, Record
        <4>2. QED
          BY <4>1, MergedType DEF Values, Nil
      <3>2. QED
        BY <1>6, <3>1 DEF MergeGet, TypeOK
    <2>3. ASSUME NEW x \in Nodes, x # n PROVE spc'[x] = spc[x] /\ sval'[x] = sval[x]
      BY <1>6, <2>3 DEF MergeGet, TypeOK
    <2>4. ASSUME NEW x \in Nodes PROVE MergeServes(x)'
      BY <1>0, <2>1, <2>2, <2>3 DEF MergeServes, IsNext, Pending
    <2>5. QED
      BY <1>0, <2>1, <2>4 DEF TreeServes, WriterServes
  <1>7. ASSUME NEW n \in Nodes, MergePut(n) PROVE Goal
    <2>1. deletes = 0 /\ UNCHANGED <<tree, got, sval, wpc, wkey, wval>>
      BY <1>7 DEF MergePut
    <2>2. PICK k \in Keys : IsNext(n, k) /\ store' = [store EXCEPT ![n][k] = sval[n]]
      BY <1>7 DEF MergePut
    <2>3. sval[n] # Nil
      BY <1>0, <1>7, <2>1 DEF MergePut, MergeServes
    <2>4. /\ \A x \in Nodes, j \in Keys : store[x][j] # Nil => store'[x][j] # Nil
          /\ store'[n][k] # Nil
      BY <2>2, <2>3, PutServes
    <2>5. ASSUME NEW j \in Keys, IsNext(n, j) PROVE j = k
      BY <2>2, <2>5, MstAssumption DEF IsNext, Pending
    <2>6. ASSUME NEW x \in Nodes PROVE MergeServes(x)'
      <3>1. CASE x = n
        BY <2>1, <2>3, <2>4, <2>5, <3>1 DEF MergeServes, IsNext, Pending
      <3>2. CASE x # n
        <4>1. spc'[x] = spc[x]
          BY <1>7, <3>2 DEF MergePut, TypeOK
        <4>2. QED
          BY <1>0, <2>1, <2>4, <4>1 DEF MergeServes, IsNext, Pending
      <3>3. QED
        BY <3>1, <3>2
    <2>7. QED
      BY <1>0, <1>h, <2>1, <2>4, <2>6 DEF TreeServes, WriterServes
  <1>8. ASSUME NEW n \in Nodes, MergeUpsert(n) PROVE Goal
    <2>1. deletes = 0 /\ UNCHANGED <<store, wpc, wkey, wval>>
      BY <1>8 DEF MergeUpsert
    <2>2. PICK k \in Keys : IsNext(n, k) /\ tree' = [tree EXCEPT ![n][k] = sval[n]]
      BY <1>8 DEF MergeUpsert
    <2>3. store[n][k] # Nil
      BY <1>0, <1>8, <2>1, <2>2 DEF MergeUpsert, MergeServes
    <2>4. ASSUME NEW x \in Nodes PROVE TreeServes(x)'
      <3>1. ASSUME NEW j \in Keys
            PROVE  tree'[x][j] = IF x = n /\ j = k THEN sval[n] ELSE tree[x][j]
        BY <2>2 DEF TypeOK, Map
      <3>2. QED
        BY <1>0, <2>1, <2>3, <3>1 DEF TreeServes
    <2>5. ASSUME NEW x \in Nodes PROVE MergeServes(x)'
      <3>1. spc'[x] \in {"put", "upsert"} => spc'[x] = spc[x] /\ x # n
        BY <1>8 DEF MergeUpsert, TypeOK
      <3>2. x # n => got'[x] = got[x] /\ sval'[x] = sval[x]
        BY <1>8 DEF MergeUpsert, TypeOK
      <3>3. QED
        BY <1>0, <2>1, <3>1, <3>2 DEF MergeServes, IsNext, Pending
    <2>6. QED
      BY <1>0, <2>1, <2>4, <2>5 DEF WriterServes
  <1>9. ASSUME NEW n \in Nodes, NEW m \in Nodes, HandlePages(n, m) PROVE Goal
    <2>1. deletes = 0 /\ UNCHANGED <<store, tree, got, sval, wpc, wkey, wval>>
      BY <1>9 DEF HandlePages
    <2>2. ASSUME NEW x \in Nodes PROVE spc'[x] \in {"put", "upsert"} => spc'[x] = spc[x]
      BY <1>9 DEF HandlePages, TypeOK
    <2>3. QED
      BY <1>0, <2>1, <2>2 DEF TreeServes, MergeServes, WriterServes, IsNext, Pending
  <1>10. ASSUME NEW n \in Nodes, Restart(n) PROVE Goal
    <2>1. deletes = 0 /\ UNCHANGED wkey
      BY <1>10 DEF Restart
    <2>2. ASSUME NEW x \in Nodes, x # n
          PROVE  /\ store'[x] = store[x] /\ tree'[x] = tree[x] /\ got'[x] = got[x]
                 /\ spc'[x] = spc[x] /\ sval'[x] = sval[x]
      BY <1>10, <2>2 DEF Restart, TypeOK
    <2>3. store'[n] = tree'[n] /\ spc'[n] = "idle"
      BY <1>10 DEF Restart, TypeOK
    <2>4. ASSUME NEW x \in Nodes PROVE TreeServes(x)' /\ MergeServes(x)'
      BY <1>0, <2>1, <2>2, <2>3 DEF TreeServes, MergeServes, IsNext, Pending
    <2>5. ASSUME NEW w \in Writers PROVE WriterServes(w)'
      <3>1. CASE Home[w] = n
        BY <1>10, <3>1 DEF Restart, WriterServes, TypeOK
      <3>2. CASE Home[w] # n
        <4>1. wpc'[w] = wpc[w] /\ wval'[w] = wval[w]
          BY <1>10, <3>2 DEF Restart, TypeOK
        <4>2. store'[Home[w]] = store[Home[w]]
          BY <1>h, <2>2, <3>2
        <4>3. QED
          BY <1>0, <2>1, <4>1, <4>2 DEF WriterServes
      <3>3. QED
        BY <3>1, <3>2
    <2>6. QED
      BY <2>4, <2>5
  <1>11. ASSUME UNCHANGED <<store, tree, writer, sync, deletes>> PROVE Goal
    BY <1>0, <1>11 DEF TreeServes, MergeServes, WriterServes, IsNext, Pending
  <1>12. ASSUME NEW n \in Nodes, Publish(n) PROVE Goal
    BY <1>11, <1>12 DEF Publish
  <1>13. ASSUME NEW n \in Nodes, NEW m \in Nodes, Lose(n, m) PROVE Goal
    BY <1>11, <1>13 DEF Lose
  <1>14. ASSUME NEW w \in Writers, Cancel(w) PROVE Goal
    <2>1. deletes = 0 /\ UNCHANGED <<store, tree, spc, got, sval, wkey>>
      BY <1>14 DEF Cancel
    <2>2. ASSUME NEW v \in Writers PROVE WriterServes(v)'
      BY <1>0, <1>14, <2>1 DEF Cancel, WriterServes, TypeOK
    <2>3. QED
      BY <1>0, <2>1, <2>2 DEF TreeServes, MergeServes, IsNext, Pending
  <1>15. CASE Quiesce \/ UNCHANGED vars
    BY <1>11, <1>15 DEF Quiesce, vars
  <1>16. QED
    BY <1>1, <1>2, <1>3, <1>4, <1>5, <1>6, <1>7, <1>8, <1>9, <1>10, <1>12, <1>13, <1>14, <1>15
       DEF Next, WriterStep, SyncStep

\* Whatever the writers, the merges and the restarts do concurrently, a key that
\* a replica's tree advertises is in its store, as long as nothing is deleted.
THEOREM AdvertisedServable == Spec => []AdvertisedIsServable
  <1>1. Init => ServeInv
    BY DEF Init, ServeInv, TreeServes, MergeServes, WriterServes, NoPages
  <1>2. ServeInv => AdvertisedIsServable
    BY DEF ServeInv, TreeServes, AdvertisedIsServable
  <1>3. QED
    BY <1>1, <1>2, NextServes, TypeCorrect, PTL DEF Spec
=============================================================================
