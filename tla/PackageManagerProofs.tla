------------------------ MODULE PackageManagerProofs ------------------------
(***************************************************************************)
(* Proofs about PackageManager for any requests, packages, deployments and *)
(* environments, any number of retries and of faults.                      *)
(***************************************************************************)
EXTENDS PackageManager, FiniteSetTheorems, WellFoundedInduction, TLAPS

-----------------------------------------------------------------------------
(* The inductive invariant: the tasks                                      *)

PackageLabels == {"create", "update", "dependencies", "storePackage"}
DropLabels    == {"drop", "cascade"}
EarlyLabels   == {"deploy", "validate", "require", "select", "store"}
LateLabels    == {"call", "saveMapping", "finalize", "rollback"}
DeleteLabels  == {"delete", "loadIds", "deleteUnits", "unmap"}
Labels        == {"idle", "end"} \cup PackageLabels \cup DropLabels \cup EarlyLabels
                 \cup LateLabels \cup DeleteLabels

TaskRecord ==
    [pc : Labels, key : Keys \cup {None}, todo : SUBSET Keys, n : Int,
     seen : [Envs -> 0..100], sel : SUBSET Envs, left : SUBSET Envs,
     cur : Envs \cup {None}, attempt : 0..MaxRetries, acked : SUBSET Envs,
     ids : [Envs -> UnitIds \cup {None}]]

\* What holds of a task q of request r that was answered a, whatever the others do.
Sound(r, q, a) ==
    /\ q.pc \in PackageLabels => Args[r].kind \in {"create", "update"}
    /\ q.pc \in DropLabels => Args[r].kind = "drop"
    /\ q.pc \in EarlyLabels \cup LateLabels => Args[r].kind = "deploy"
    /\ q.pc \in DeleteLabels => Args[r].kind \in {"delete", "drop"} /\ q.key \in KeysOf(r)
    /\ q.todo \subseteq KeysOf(r)
    /\ q.pc \in {"require", "select", "store"} => Args[r].targets \subseteq Envs
    /\ q.pc = "select" => Candidates(r) # {}
    /\ q.pc = "store" => q.sel # {}
    /\ q.pc \in {"idle"} \cup EarlyLabels => q.acked = {}
    /\ q.pc \in {"call", "saveMapping"} =>
          /\ q.cur \in q.sel /\ q.cur \notin q.left /\ q.cur \notin q.acked
          /\ q.left \subseteq q.sel /\ q.left \cap q.acked = {}
    /\ q.pc = "deleteUnits" =>
          \A e \in Envs : q.ids[e] # None => Args[q.ids[e][1]].key = q.key
    /\ q.pc = "rollback" => a = "failed"
    /\ q.pc = "end" => a # None
    /\ a = "ok" => q.pc = "end"

Sounds == \A r \in Requests : Sound(r, req[r], answer[r])

RecordOK(d) ==
    /\ d.sel # {} /\ d.sel \subseteq Envs
    /\ d.seen \in [Envs -> 0..100]
    /\ d.by \in Requests

\* The types of everything that is stored, and whose the units are.
StoreTyped ==
    /\ packages \subseteq Packages
    /\ DOMAIN records = Keys
    /\ \A k \in Keys : records[k] # NoRecord => RecordOK(records[k])
    /\ mappings \in [Keys -> [Envs -> UnitIds \cup {None}]]
    /\ \A k \in Keys, e \in Envs : mappings[k][e] # None => Args[mappings[k][e][1]].key = k
    /\ runtimes \in [Envs -> SUBSET UnitIds]
    /\ \A e \in Envs : \A u \in runtimes[e] : u[2] = 0
    /\ health \in [Envs -> Statuses]
    /\ avail \in [Envs -> 0..100]
    /\ cached \subseteq Envs
    /\ tidy \subseteq Keys
    /\ faults \in 0..MaxFaults

TasksTyped == req \in [Requests -> TaskRecord] /\ answer \in [Requests -> Answers \cup {None}]

-----------------------------------------------------------------------------
(* The inductive invariant: the keys                                       *)

\* The units an environment holds for a deployment.
Mine(k, e) == {u \in runtimes[e] : Args[u[1]].key = k}

Settled(k, e) == Mine(k, e) = IF mappings[k][e] = None THEN {} ELSE {mappings[k][e]}

\* Every unit is mapped, and to an environment of the record.
Covered(k) ==
    \A e \in Envs : mappings[k][e] # None => records[k] # NoRecord /\ e \in records[k].sel
Calm(k) == Covered(k) /\ \A e \in Envs : Settled(k, e)

Unmapped(k)       == \A e \in Envs : mappings[k][e] = None
NoUnit(k, e)      == mappings[k][e] = None /\ Mine(k, e) = {}
HasUnit(r, k, e)  == mappings[k][e] = <<r, 0>> /\ Mine(k, e) = {<<r, 0>>}

\* The environments but d hold what the acknowledged calls created.
Given(r, k, d) ==
    \A e \in Envs \ {d} : IF e \in req[r].acked THEN HasUnit(r, k, e) ELSE NoUnit(k, e)

\* A deployment at work on key k.
Deploying(r, k) ==
    /\ req[r].pc \in EarlyLabels => Calm(k) /\ Unmapped(k)
    /\ req[r].pc \in EarlyLabels \ {"deploy"} => PackageOf[k] \in packages
    /\ req[r].pc \in LateLabels =>
          records[k] # NoRecord /\ records[k].by = r /\ records[k].sel = req[r].sel
    /\ req[r].pc \in LateLabels => Covered(k)
    /\ req[r].pc = "call" =>
          /\ Given(r, k, req[r].cur)
          /\ mappings[k][req[r].cur] = None /\ Mine(k, req[r].cur) \subseteq {<<r, 0>>}
    /\ req[r].pc = "saveMapping" =>
          /\ Given(r, k, req[r].cur)
          /\ mappings[k][req[r].cur] = None /\ Mine(k, req[r].cur) = {<<r, 0>>}
    /\ req[r].pc = "finalize" => Given(r, k, None)
    /\ req[r].pc = "rollback" =>
          \A e \in Envs : Mine(k, e) = IF e \in req[r].left THEN {<<r, 0>>} ELSE {}

\* A deletion at work on key k, or a package deletion that has k ahead or behind.
Deleting(r, k) ==
    /\ req[r].key # k \/ req[r].pc \in DropLabels \cup {"delete", "loadIds"} => Calm(k)
    /\ req[r].key = k /\ req[r].pc = "loadIds" =>
          records[k] # NoRecord /\ req[r].left = records[k].sel
    /\ req[r].key = k /\ req[r].pc = "deleteUnits" =>
          /\ Covered(k) /\ req[r].ids = mappings[k]
          /\ \A e \in Envs : IF e \in req[r].left THEN Settled(k, e) ELSE Mine(k, e) = {}
    /\ req[r].key = k /\ req[r].pc = "unmap" =>
          records[k] = NoRecord /\ \A e \in Envs : Mine(k, e) = {}
    /\ Args[r].kind = "drop" /\ Cascade /\ req[r].pc # "drop" /\ records[k] # NoRecord =>
          k \in req[r].todo \/ (req[r].pc # "cascade" /\ req[r].key = k)

AtWork(r, k) ==
    /\ Args[r].kind = "deploy" => Deploying(r, k)
    /\ Args[r].kind # "deploy" => Deleting(r, k)

\* The record of an acknowledged deployment names mapped environments only.
Created(k) ==
    \A r \in Requests :
       /\ answer[r] = "ok" /\ Args[r].kind = "deploy" /\ Args[r].key = k /\ RollbackOnPartial
       /\ records[k] # NoRecord /\ records[k].by = r
       => \A e \in records[k].sel : mappings[k][e] # None

\* With the cascade policy, a record has a package.
Backed(k) == Cascade /\ PackageOf[k] \notin packages => records[k] = NoRecord

\* A key that no fault and no overlap has touched has one request at work on it, and
\* its units are where that request is; at rest they are the mapped ones.
KeyInv(k) ==
    /\ \A r, s \in BusyWith(k) : r = s
    /\ Created(k) /\ Backed(k)
    /\ BusyWith(k) = {} => Calm(k)
    /\ \A r \in BusyWith(k) : AtWork(r, k)

KeysInv == \A k \in tidy : KeyInv(k)

IInv == StoreTyped /\ TasksTyped /\ Sounds /\ KeysInv

-----------------------------------------------------------------------------
(* Requests and numbers                                                    *)

\* A set of numbers has a least element.
LEMMA Smallest == ASSUME NEW S, S \subseteq Nat, S # {} PROVE \E i \in S : \A j \in S : i <= j
  <1> DEFINE R == OpToRel(<, Nat)
  <1>1. IsWellFoundedOn(R, Nat)
    BY NatLessThanWellFounded
  <1>2. PICK x \in S : \A y \in S : ~(<<y, x>> \in R)
    BY <1>1, WFMin, Zenon
  <1>3. \A y \in S : y < x => <<y, x>> \in R
    BY DEF OpToRel
  <1>4. \A y \in S : ~(y < x)
    BY <1>2, <1>3, Zenon
  <1>5. x \in Nat /\ \A y \in S : y \in Nat
    OBVIOUS
  <1> HIDE DEF R
  <1>6. QED
    BY <1>4, <1>5

\* What a request asks for.
LEMMA ArgTypes ==
    ASSUME NEW r \in Requests
    PROVE  /\ Args[r].kind \in Kinds /\ Args[r].key \in Keys /\ Args[r].package \in Packages
           /\ Args[r].targets \subseteq Envs \cup {None}
  BY ArgsOK

\* The deployments a request is about.
LEMMA KeysOfKind ==
    ASSUME NEW r \in Requests
    PROVE  /\ Args[r].kind \in {"deploy", "delete"} => KeysOf(r) = {Args[r].key}
           /\ Args[r].kind = "drop" => KeysOf(r) = {k \in Keys : PackageOf[k] = Args[r].package}
           /\ Args[r].kind \in {"create", "update"} => KeysOf(r) = {}
           /\ KeysOf(r) \subseteq Keys
  <1>1. CASE Args[r].kind \in {"deploy", "delete"}
    BY <1>1, ArgTypes DEF KeysOf
  <1>2. CASE Args[r].kind = "drop"
    BY <1>2 DEF KeysOf
  <1>3. CASE Args[r].kind \in {"create", "update"}
    BY <1>3 DEF KeysOf
  <1>4. QED
    BY <1>1, <1>2, <1>3, ArgTypes DEF Kinds

\* The first environment of a nonempty list is one of it.
LEMMA FirstOf ==
    ASSUME NEW E \in SUBSET Envs, E # {}, NEW seen \in [Envs -> 0..100]
    PROVE  First(E, seen) \in E
  <1> DEFINE S == {100 - seen[x] : x \in E}
  <1>1. S \subseteq Nat /\ S # {}
    OBVIOUS
  <1> HIDE DEF S
  <1>2. PICK i \in S : \A j \in S : i <= j
    BY <1>1, Smallest
  <1> USE DEF S
  <1>3. PICK x \in E : i = 100 - seen[x]
    OBVIOUS
  <1>4. \A y \in E : 100 - seen[x] <= 100 - seen[y]
    BY <1>2, <1>3
  <1>5. \A y \in E : seen[x] >= seen[y]
    BY <1>4
  <1>6. QED
    BY <1>5, Zenon DEF First

\* The number of replicas is a number.
LEMMA ReplicasAreNumbers ==
    ASSUME NEW k \in Keys, NEW E \in SUBSET Envs, NEW a
    PROVE  TargetReplicas(k, E, a) \in Nat
  <1> DEFINE Enough == {n \in 1..Cardinality(E) : n <= MaxReplicas /\ \E S \in SUBSET E :
                          Cardinality(S) = n /\ Worst(S, E, a) /\ Meets(S, a, Target)}
  <1>1. Cardinality(E) \in Nat /\ MaxReplicas \in Nat
    BY ArgsOK, FS_Subset, FS_CardinalityType
  <1>2. RequiredReplicas(E, a) \in Nat
    <2>1. CASE Enough = {}
      BY <1>1, <2>1 DEF RequiredReplicas
    <2>2. CASE Enough # {}
      <3>1. Enough \subseteq Nat
        BY <1>1
      <3>2. \E n \in Enough : \A i \in Enough : n <= i
        BY <3>1, <2>2, Smallest
      <3>3. RequiredReplicas(E, a) = CHOOSE n \in Enough : \A i \in Enough : n <= i
        BY <2>2 DEF RequiredReplicas
      <3> HIDE DEF Enough
      <3>4. QED
        BY <3>1, <3>2, <3>3
    <2>3. QED
      BY <2>1, <2>2
  <1>3. PICK n \in Nat : n = RequiredReplicas(E, a)
    BY <1>2
  <1>4. QED
    BY <1>1, <1>3 DEF TargetReplicas

-----------------------------------------------------------------------------
(* Types                                                                   *)

\* The invariant contains the module's type invariant.
LEMMA TypesHold == ASSUME StoreTyped, TasksTyped, Sounds PROVE TypeOK
  <1>1. \A r \in Requests :
          /\ answer[r] \in Answers \cup {None}
          /\ req[r].attempt \in 0..MaxRetries
          /\ req[r].acked \cup req[r].left \subseteq Envs
    BY DEF TasksTyped, TaskRecord
  <1>2. \A r \in Requests : req[r].pc = "end" => answer[r] # None
    BY DEF Sounds, Sound
  <1>3. QED
    BY <1>1, <1>2 DEF StoreTyped, RecordOK, TypeOK

\* Request r goes on to q and has been answered a; the others stay.
Changes(r, q, a) ==
    /\ req'[r] = q /\ answer'[r] = a
    /\ \A s \in Requests \ {r} : req'[s] = req[s] /\ answer'[s] = answer[s]

\* A sound new state of one task keeps the types and the soundness of all.
LEMMA TaskChanges ==
    ASSUME TasksTyped, Sounds, NEW r \in Requests, NEW q \in TaskRecord,
           NEW a \in Answers \cup {None}, Sound(r, q, a),
           req' = [req EXCEPT ![r] = q],
           answer' = [answer EXCEPT ![r] = a] \/ (answer' = answer /\ answer[r] = a)
    PROVE  Changes(r, q, a) /\ TasksTyped' /\ Sounds'
  <1>1. TasksTyped'
    BY DEF TasksTyped
  <1>2. Changes(r, q, a)
    BY DEF TasksTyped, Changes
  <1>3. \A s \in Requests : Sound(s, req'[s], answer'[s])
    BY <1>2 DEF Sounds, Changes
  <1>4. Sounds'
    <2>1. \A s \in Requests : Sound(s, req'[s], answer'[s]) <=> Sound(s, req[s], answer[s])'
      BY DEF Sound
    <2>2. QED
      BY <1>3, <2>1 DEF Sounds
  <1>5. QED
    BY <1>1, <1>2, <1>4

-----------------------------------------------------------------------------
(* Keys                                                                    *)

\* A step leaves what is stored for key k, and the key's units, as they are.
SameView(k) ==
    /\ records'[k] = records[k] /\ mappings'[k] = mappings[k]
    /\ \A e \in Envs : Mine(k, e)' = Mine(k, e)

\* What is said of a key depends only on its record, its mappings and its units.
LEMMA ViewKeeps ==
    ASSUME NEW k \in Keys, SameView(k)
    PROVE  /\ Covered(k)' = Covered(k)
           /\ \A e \in Envs : Settled(k, e)' = Settled(k, e)
           /\ Calm(k)' = Calm(k)
  <1>1. Covered(k)' = Covered(k)
    BY DEF SameView, Covered
  <1>2. \A e \in Envs : Settled(k, e)' = Settled(k, e)
    BY DEF SameView, Settled
  <1>3. QED
    BY <1>1, <1>2 DEF Calm

\* A request at work on a key is of a kind that is, and at a label of its kind.
LEMMA WorkLabels ==
    ASSUME TasksTyped, Sounds, NEW r \in Requests, NEW k \in KeysOf(r)
    PROVE  /\ k \in Keys
           /\ Args[r].kind \in {"deploy", "delete", "drop"}
           /\ Args[r].kind \in {"deploy", "delete"} => k = Args[r].key
           /\ Args[r].kind = "drop" => PackageOf[k] = Args[r].package
           /\ Active(r) /\ Args[r].kind = "deploy" => req[r].pc \in EarlyLabels \cup LateLabels
           /\ Active(r) /\ Args[r].kind = "delete" => req[r].pc \in DeleteLabels /\ req[r].key = k
           /\ Active(r) /\ Args[r].kind = "drop" => req[r].pc \in DropLabels \cup DeleteLabels
  <1>1. /\ k \in Keys
        /\ Args[r].kind \in {"deploy", "delete", "drop"}
        /\ Args[r].kind \in {"deploy", "delete"} => KeysOf(r) = {Args[r].key} /\ k = Args[r].key
        /\ Args[r].kind = "drop" => PackageOf[k] = Args[r].package
    BY ArgTypes, KeysOfKind DEF Kinds
  <1>2. req[r].pc \in Labels /\ Sound(r, req[r], answer[r])
    BY DEF TasksTyped, TaskRecord, Sounds
  <1>3. QED
    BY <1>1, <1>2 DEF Sound, Labels, Active, PackageLabels, DropLabels, EarlyLabels,
                      LateLabels, DeleteLabels

\* A step of a request that is not about key k leaves the key's invariant.
LEMMA OtherKey ==
    ASSUME TasksTyped, Sounds, NEW r \in Requests, NEW q, NEW a, Changes(r, q, a),
           NEW k \in Keys, k \notin KeysOf(r), KeyInv(k), SameView(k),
           PackageOf[k] \in packages => PackageOf[k] \in packages'
    PROVE  KeyInv(k)'
  <1>1. \A s \in Requests : k \in KeysOf(s) => s # r /\ req'[s] = req[s] /\ answer'[s] = answer[s]
    BY DEF Changes
  <1>2. BusyWith(k)' = BusyWith(k)
    BY <1>1 DEF BusyWith, Active
  <1>3. \A s, t \in BusyWith(k)' : s = t
    BY <1>2 DEF KeyInv
  <1>4. Created(k)'
    <2>1. \A s \in Requests : Args[s].kind = "deploy" /\ Args[s].key = k => answer'[s] = answer[s]
      BY <1>1, KeysOfKind
    <2>2. Created(k)
      BY DEF KeyInv
    <2>3. QED
      BY <2>1, <2>2 DEF Created, SameView
  <1>5. Backed(k)'
    BY DEF KeyInv, Backed, SameView
  <1>6. Calm(k)' = Calm(k)
    BY ViewKeeps
  <1>7. ASSUME NEW s \in BusyWith(k) PROVE AtWork(s, k)'
    <2>1. req'[s] = req[s] /\ AtWork(s, k)
      BY <1>1, <1>7 DEF BusyWith, KeyInv
    <2>2. /\ \A e \in Envs : Settled(k, e)' = Settled(k, e)
          /\ Covered(k)' = Covered(k) /\ Unmapped(k)' = Unmapped(k)
          /\ \A e \in Envs : Mine(k, e)' = Mine(k, e)
          /\ records'[k] = records[k] /\ mappings'[k] = mappings[k]
      BY ViewKeeps DEF SameView, Unmapped
    <2>3. ASSUME Deploying(s, k) PROVE Deploying(s, k)'
      <3>1. \A d : Given(s, k, d)' = Given(s, k, d)
        BY <2>1, <2>2 DEF Given, HasUnit, NoUnit
      <3>2. req[s].pc \in {"call", "saveMapping"} => req[s].cur \in Envs
        <4>1. s \in Requests
          BY DEF BusyWith
        <4>2. req[s].sel \subseteq Envs /\ Sound(s, req[s], answer[s])
          BY <4>1 DEF TasksTyped, TaskRecord, Sounds
        <4>3. QED
          BY <4>2 DEF Sound
      <3>3. /\ req[s].pc \in EarlyLabels => Calm(k)' /\ Unmapped(k)'
            /\ req[s].pc \in EarlyLabels \ {"deploy"} => PackageOf[k] \in packages'
            /\ req[s].pc \in LateLabels =>
                  records'[k] # NoRecord /\ records'[k].by = s /\ records'[k].sel = req[s].sel
            /\ req[s].pc \in LateLabels => Covered(k)'
        BY <1>6, <2>2, <2>3 DEF Deploying
      <3>4. /\ req[s].pc = "call" =>
                  /\ Given(s, k, req[s].cur)'
                  /\ mappings'[k][req[s].cur] = None /\ Mine(k, req[s].cur)' \subseteq {<<s, 0>>}
            /\ req[s].pc = "saveMapping" =>
                  /\ Given(s, k, req[s].cur)'
                  /\ mappings'[k][req[s].cur] = None /\ Mine(k, req[s].cur)' = {<<s, 0>>}
        BY <2>1, <2>2, <2>3, <3>1, <3>2 DEF Deploying
      <3>5. /\ req[s].pc = "finalize" => Given(s, k, None)'
            /\ req[s].pc = "rollback" =>
                  \A e \in Envs : Mine(k, e)' = IF e \in req[s].left THEN {<<s, 0>>} ELSE {}
        BY <2>2, <2>3, <3>1 DEF Deploying
      <3>6. QED
        BY <2>1, <3>3, <3>4, <3>5 DEF Deploying
    <2>4. ASSUME Deleting(s, k) PROVE Deleting(s, k)'
      BY <1>6, <2>1, <2>2, <2>4 DEF Deleting
    <2>5. QED
      BY <2>1, <2>3, <2>4 DEF AtWork
  <1>8. QED
    BY <1>2, <1>3, <1>4, <1>5, <1>6, <1>7 DEF KeyInv

\* A step of the request at work on key k: its part of the invariant is enough.
LEMMA OwnKey ==
    ASSUME NEW r \in Requests, NEW q, NEW a, Changes(r, q, a),
           NEW k \in KeysOf(r), Active(r), KeyInv(k),
           Created(k)', Backed(k)',
           q.pc \notin {"idle", "end"} => AtWork(r, k)',
           q.pc \in {"idle", "end"} => Calm(k)'
    PROVE  KeyInv(k)'
  <1>1. BusyWith(k) = {r}
    BY DEF KeyInv, BusyWith
  <1>2. \A s \in Requests \ {r} : s \notin BusyWith(k)'
    BY <1>1 DEF BusyWith, Active, Changes
  <1>3. r \in BusyWith(k)' <=> q.pc \notin {"idle", "end"}
    BY DEF BusyWith, Active, Changes
  <1>4. BusyWith(k)' \subseteq {r}
    BY <1>2 DEF BusyWith
  <1>5. QED
    BY <1>3, <1>4 DEF KeyInv

\* Only an acknowledgement makes a deployment created.
LEMMA CreatedStays ==
    ASSUME NEW r \in Requests, NEW q, NEW a, Changes(r, q, a), a # "ok",
           NEW k \in Keys, Created(k),
           \/ records'[k] = records[k] /\ mappings'[k] = mappings[k]
           \/ records'[k] = NoRecord
    PROVE  Created(k)'
  BY DEF Created, Changes

\* A task that has been answered "ok" is not at work.
LEMMA UnansweredAtWork ==
    ASSUME Sounds, NEW r \in Requests, Active(r)
    PROVE  answer[r] # "ok"
  BY DEF Sounds, Sound, Active

\* The part of the invariant that a step of request r must show when it changes no
\* stored record, no mapping, no unit and no package.
LEMMA PlainStep ==
    ASSUME IInv, NEW r \in Requests, Active(r),
           NEW q \in TaskRecord, NEW a \in Answers \cup {None}, Sound(r, q, a),
           req' = [req EXCEPT ![r] = q],
           answer' = [answer EXCEPT ![r] = a] \/ (answer' = answer /\ answer[r] = a),
           UNCHANGED <<packages, records, mappings, runtimes, health, avail>>,
           cached' \subseteq Envs, tidy' = tidy, faults' \in 0..MaxFaults,
           \A k \in tidy : k \in KeysOf(r) =>
              /\ q.pc \notin {"idle", "end"} => AtWork(r, k)'
              /\ q.pc \in {"idle", "end"} => Calm(k)
              /\ Created(k)'
    PROVE  IInv'
  <1>1. Changes(r, q, a) /\ TasksTyped' /\ Sounds'
    BY TaskChanges DEF IInv
  <1>2. StoreTyped'
    BY DEF IInv, StoreTyped
  <1>3. ASSUME NEW k \in tidy PROVE KeyInv(k)'
    <2>1. k \in Keys /\ KeyInv(k) /\ TasksTyped /\ Sounds
      BY <1>3 DEF IInv, StoreTyped, KeysInv
    <2>2. SameView(k)
      BY DEF SameView, Mine
    <2>3. CASE k \notin KeysOf(r)
      BY <1>1, <2>1, <2>2, <2>3, OtherKey
    <2>4. CASE k \in KeysOf(r)
      <3>1. Calm(k)' = Calm(k)
        BY <2>1, <2>2, ViewKeeps
      <3>2. Backed(k)'
        BY <2>1 DEF KeyInv, Backed
      <3>3. QED
        BY <1>1, <2>1, <2>4, <3>1, <3>2, OwnKey
    <2>5. QED
      BY <2>3, <2>4
  <1>4. QED
    BY <1>1, <1>2, <1>3 DEF IInv, KeysInv

\* A step that changes nothing but the task and leaves it unanswered, or answered with
\* something else than "ok".
LEMMA QuietStep ==
    ASSUME IInv, NEW r \in Requests, Active(r),
           NEW q \in TaskRecord, NEW a \in Answers \cup {None}, Sound(r, q, a), a # "ok",
           req' = [req EXCEPT ![r] = q],
           answer' = [answer EXCEPT ![r] = a] \/ (answer' = answer /\ answer[r] = a),
           UNCHANGED <<packages, records, mappings, runtimes, health, avail>>,
           cached' \subseteq Envs, tidy' = tidy, faults' \in 0..MaxFaults,
           \A k \in tidy : k \in KeysOf(r) =>
              /\ q.pc \notin {"idle", "end"} => AtWork(r, k)'
              /\ q.pc \in {"idle", "end"} => Calm(k)
    PROVE  IInv'
  <1>1. Changes(r, q, a)
    BY TaskChanges DEF IInv
  <1>2. \A k \in tidy : Created(k)'
    <2>1. \A k \in tidy : k \in Keys /\ Created(k)
      BY DEF IInv, StoreTyped, KeysInv, KeyInv
    <2>2. QED
      BY <1>1, <2>1, CreatedStays
  <1>3. QED
    BY <1>2, PlainStep

\* A task that has not arrived is well typed.
LEMMA IdleTyped == Idle \in TaskRecord
  <1>1. MaxRetries \in Nat
    BY ArgsOK
  <1>2. 0 \in 0..MaxRetries
    BY <1>1
  <1>3. [e \in Envs |-> 0] \in [Envs -> 0..100] /\ [e \in Envs |-> None] \in [Envs -> UnitIds \cup {None}]
    OBVIOUS
  <1>4. "idle" \in Labels
    BY DEF Labels
  <1>5. QED
    BY <1>2, <1>3, <1>4 DEF Idle, TaskRecord

\* The record of a task that has ended.
LEMMA EndRecord ==
    ASSUME NEW r \in Requests
    PROVE  /\ [Idle EXCEPT !.pc = "end"] \in TaskRecord
           /\ [Idle EXCEPT !.pc = "end"].pc = "end"
           /\ \A a \in Answers : Sound(r, [Idle EXCEPT !.pc = "end"], a)
  <1> DEFINE q == [Idle EXCEPT !.pc = "end"]
  <1>1. q.pc = "end" /\ q.todo = {}
    BY DEF Idle
  <1>2. q \in TaskRecord
    BY IdleTyped DEF TaskRecord, Labels
  <1> HIDE DEF q
  <1>3. \A a \in Answers : Sound(r, q, a)
    BY <1>1, ArgsOK DEF Sound, PackageLabels, DropLabels, EarlyLabels, LateLabels, DeleteLabels
  <1>4. QED
    BY <1>1, <1>2, <1>3 DEF q

\* A request that ends with an error while the units of its key are at rest.
LEMMA FinishStep ==
    ASSUME IInv, NEW r \in Requests, Active(r), NEW a \in Answers \ {"ok"}, Finish(r, a),
           UNCHANGED <<packages, records, mappings, runtimes, health, avail>>,
           cached' \subseteq Envs, tidy' = tidy, faults' \in 0..MaxFaults,
           \A k \in tidy : k \in KeysOf(r) => Calm(k)
    PROVE  IInv'
  <1>1. PICK q \in TaskRecord : q = [Idle EXCEPT !.pc = "end"]
    BY EndRecord
  <1>2. q.pc = "end" /\ Sound(r, q, a)
    BY <1>1, EndRecord
  <1>3. req' = [req EXCEPT ![r] = q] /\ answer' = [answer EXCEPT ![r] = a]
    BY <1>1 DEF Finish, End, Step, Reply
  <1>4. QED
    BY <1>2, <1>3, QuietStep

\* What the invariant says of the task that takes a step, of a key it works on.
LEMMA Working ==
    ASSUME IInv, NEW r \in Requests, Active(r), NEW k \in tidy, k \in KeysOf(r)
    PROVE  /\ k \in Keys /\ KeyInv(k) /\ AtWork(r, k) /\ Created(k) /\ Backed(k)
           /\ Args[r].kind = "deploy" => Deploying(r, k) /\ k = Args[r].key
           /\ Args[r].kind # "deploy" => Deleting(r, k)
           /\ BusyWith(k) = {r}
  <1>1. k \in Keys /\ KeyInv(k) /\ TasksTyped /\ Sounds
    BY DEF IInv, StoreTyped, KeysInv
  <1>2. r \in BusyWith(k)
    BY DEF BusyWith
  <1>3. BusyWith(k) = {r}
    BY <1>1, <1>2 DEF KeyInv
  <1>4. QED
    BY <1>1, <1>2, <1>3, WorkLabels DEF KeyInv, AtWork

\* A fault is counted within its bound.
LEMMA FaultTyped == ASSUME StoreTyped, Fault PROVE faults' \in 0..MaxFaults
  <1>1. MaxFaults \in Nat /\ faults \in 0..MaxFaults
    BY ArgsOK DEF StoreTyped
  <1>2. QED
    BY <1>1 DEF Fault

\* A task that goes on to another label.
LEMMA MoveTask ==
    ASSUME TasksTyped, NEW r \in Requests, NEW l \in Labels, Move(r, l)
    PROVE  \E q \in TaskRecord :
              /\ req' = [req EXCEPT ![r] = q]
              /\ q.pc = l /\ q.key = req[r].key /\ q.todo = req[r].todo /\ q.n = req[r].n
              /\ q.seen = req[r].seen /\ q.sel = req[r].sel /\ q.left = req[r].left
              /\ q.cur = req[r].cur /\ q.attempt = req[r].attempt
              /\ q.acked = req[r].acked /\ q.ids = req[r].ids
  <1> DEFINE q == [req[r] EXCEPT !.pc = l]
  <1>1. req[r] \in TaskRecord
    BY DEF TasksTyped
  <1>2. q \in TaskRecord
    BY <1>1 DEF TaskRecord
  <1>3. /\ q.pc = l /\ q.key = req[r].key /\ q.todo = req[r].todo /\ q.n = req[r].n
        /\ q.seen = req[r].seen /\ q.sel = req[r].sel /\ q.left = req[r].left
        /\ q.cur = req[r].cur /\ q.attempt = req[r].attempt
        /\ q.acked = req[r].acked /\ q.ids = req[r].ids
    BY <1>1 DEF TaskRecord
  <1>4. req' = [req EXCEPT ![r] = q]
    BY DEF Move
  <1> HIDE DEF q
  <1>5. QED
    BY <1>2, <1>3, <1>4

\* A deployment that has sent nothing yet.
LEMMA EarlyWork ==
    ASSUME NEW r \in Requests, NEW q, NEW a, Changes(r, q, a), NEW k \in Keys,
           Args[r].kind = "deploy", q.pc \in EarlyLabels, Calm(k)', Unmapped(k)',
           q.pc = "deploy" \/ PackageOf[k] \in packages'
    PROVE  AtWork(r, k)'
  BY DEF Changes, AtWork, Deploying, EarlyLabels, LateLabels

\* A package deletion between two deployments.
LEMMA DropWork ==
    ASSUME NEW r \in Requests, NEW q, NEW a, Changes(r, q, a), NEW k \in Keys,
           Args[r].kind = "drop", q.pc \in DropLabels, Calm(k)',
           Cascade /\ q.pc # "drop" /\ records'[k] # NoRecord => k \in q.todo
    PROVE  AtWork(r, k)'
  BY DEF Changes, AtWork, Deleting, DropLabels

-----------------------------------------------------------------------------
(* Package operations                                                      *)

\* The existence check of create_package and update_package touches no key.
LEMMA CheckPackageKeeps == ASSUME IInv, NEW r \in Requests, CheckPackage(r) PROVE IInv'
  <1>1. /\ Active(r) /\ KeysOf(r) = {} /\ Args[r].kind \in {"create", "update"}
        /\ req[r].pc \in {"create", "update"}
    BY KeysOfKind DEF CheckPackage, At, Active
  <1>2. /\ UNCHANGED <<packages, records, mappings, runtimes, health, avail>>
        /\ cached' \subseteq Envs /\ tidy' = tidy /\ faults' \in 0..MaxFaults
    BY DEF CheckPackage, Stored, World, IInv, StoreTyped
  <1>3. CASE Finish(r, "refused")
    <2>1. "refused" \in Answers \ {"ok"}
      BY DEF Answers
    <2>2. QED
      BY <1>1, <1>2, <1>3, <2>1, FinishStep
  <1>4. CASE Move(r, "dependencies") /\ UNCHANGED answer
    <2>1. TasksTyped /\ Sound(r, req[r], answer[r]) /\ answer[r] # "ok" /\ answer[r] \in Answers \cup {None}
      BY <1>1, UnansweredAtWork DEF IInv, Sounds, TasksTyped
    <2>2. PICK q \in TaskRecord : /\ req' = [req EXCEPT ![r] = q]
                                  /\ q.pc = "dependencies" /\ q.todo = req[r].todo
      <3>1. "dependencies" \in Labels
        BY DEF Labels, PackageLabels
      <3>2. QED
        BY <1>4, <2>1, <3>1, MoveTask
    <2>3. Sound(r, q, answer[r])
      BY <1>1, <2>1, <2>2 DEF Sound, PackageLabels, DropLabels, EarlyLabels, LateLabels, DeleteLabels
    <2>4. QED
      BY <1>1, <1>2, <1>4, <2>1, <2>2, <2>3, QuietStep
  <1>5. QED
    BY <1>3, <1>4 DEF CheckPackage

\* validate_dependencies touches no key.
LEMMA CheckDependenciesKeeps == ASSUME IInv, NEW r \in Requests, CheckDependencies(r) PROVE IInv'
  <1>1. Active(r) /\ req[r].pc = "dependencies"
    BY DEF CheckDependencies, At, Active
  <1>2. /\ TasksTyped /\ Sound(r, req[r], answer[r]) /\ answer[r] # "ok"
        /\ answer[r] \in Answers \cup {None}
    BY <1>1, UnansweredAtWork DEF IInv, Sounds, TasksTyped
  <1>3. Args[r].kind \in {"create", "update"} /\ KeysOf(r) = {}
    BY <1>1, <1>2, KeysOfKind DEF Sound, PackageLabels
  <1>4. /\ UNCHANGED <<packages, records, mappings, runtimes, health, avail>>
        /\ cached' \subseteq Envs /\ tidy' = tidy /\ faults' \in 0..MaxFaults
    BY DEF CheckDependencies, Stored, World, IInv, StoreTyped
  <1>5. CASE Finish(r, "refused")
    <2>1. "refused" \in Answers \ {"ok"}
      BY DEF Answers
    <2>2. QED
      BY <1>1, <1>3, <1>4, <1>5, <2>1, FinishStep
  <1>6. CASE Move(r, "storePackage") /\ UNCHANGED answer
    <2>1. PICK q \in TaskRecord : /\ req' = [req EXCEPT ![r] = q]
                                  /\ q.pc = "storePackage" /\ q.todo = req[r].todo
      <3>1. "storePackage" \in Labels
        BY DEF Labels, PackageLabels
      <3>2. QED
        BY <1>2, <1>6, <3>1, MoveTask
    <2>2. Sound(r, q, answer[r])
      BY <1>2, <1>3, <2>1 DEF Sound, PackageLabels, DropLabels, EarlyLabels, LateLabels, DeleteLabels
    <2>3. QED
      BY <1>1, <1>2, <1>3, <1>4, <1>6, <2>1, <2>2, QuietStep
  <1>7. QED
    BY <1>5, <1>6 DEF CheckDependencies

\* A package that is stored backs more records, never fewer.
LEMMA StorePackageKeeps == ASSUME IInv, NEW r \in Requests, StorePackage(r) PROVE IInv'
  <1>1. Active(r) /\ req[r].pc = "storePackage"
    BY DEF StorePackage, At, Active
  <1>2. TasksTyped /\ Sounds /\ StoreTyped /\ Sound(r, req[r], answer[r])
    BY DEF IInv, Sounds
  <1>3. KeysOf(r) = {}
    BY <1>1, <1>2, KeysOfKind DEF Sound, PackageLabels
  <1>4. PICK q \in TaskRecord : q = [Idle EXCEPT !.pc = "end"] /\ Sound(r, q, "stored")
    BY EndRecord DEF Answers
  <1>5. Changes(r, q, "stored") /\ TasksTyped' /\ Sounds'
    <2>1. req' = [req EXCEPT ![r] = q] /\ answer' = [answer EXCEPT ![r] = "stored"]
      BY <1>4 DEF StorePackage, Finish, End, Step, Reply
    <2>2. "stored" \in Answers
      BY DEF Answers
    <2>3. QED
      BY <1>2, <1>4, <2>1, <2>2, TaskChanges
  <1>6. StoreTyped'
    BY <1>2, ArgTypes DEF StorePackage, World, StoreTyped
  <1>7. \A k \in tidy : KeyInv(k)'
    <2>1. \A k \in tidy : SameView(k) /\ k \in Keys /\ KeyInv(k)
      BY DEF StorePackage, World, SameView, Mine, IInv, KeysInv, StoreTyped
    <2>2. packages \subseteq packages'
      BY DEF StorePackage
    <2>3. QED
      BY <1>2, <1>3, <1>5, <2>1, <2>2, OtherKey
  <1>8. tidy' = tidy
    BY DEF StorePackage
  <1>9. QED
    BY <1>5, <1>6, <1>7, <1>8 DEF IInv, KeysInv

\* The cascade lists every record the package has: none is left out of its work.
LEMMA DropPackageKeeps == ASSUME IInv, NEW r \in Requests, DropPackage(r) PROVE IInv'
  <1>1. Active(r) /\ req[r].pc = "drop"
    BY DEF DropPackage, At, Active
  <1>2. /\ TasksTyped /\ Sounds /\ Sound(r, req[r], answer[r]) /\ answer[r] # "ok"
        /\ answer[r] \in Answers \cup {None} /\ req[r] \in TaskRecord
    BY <1>1, UnansweredAtWork DEF IInv, Sounds, TasksTyped
  <1>3. Args[r].kind = "drop" /\ KeysOf(r) = {k \in Keys : PackageOf[k] = Args[r].package}
    BY <1>1, <1>2, KeysOfKind DEF Sound, DropLabels
  <1>4. /\ UNCHANGED <<packages, records, mappings, runtimes, health, avail>>
        /\ cached' \subseteq Envs /\ tidy' = tidy /\ faults' \in 0..MaxFaults
    BY DEF DropPackage, Stored, World, IInv, StoreTyped
  <1>5. \A k \in tidy : k \in KeysOf(r) => k \in Keys /\ Calm(k)
    BY <1>1, <1>3, Working DEF Deleting, DropLabels
  <1>6. CASE Finish(r, "refused")
    <2>1. "refused" \in Answers \ {"ok"}
      BY DEF Answers
    <2>2. QED
      BY <1>1, <1>4, <1>5, <1>6, <2>1, FinishStep
  <1>7. CASE Args[r].package \in packages
    <2> DEFINE T == IF Cascade
                    THEN {k \in Keys : PackageOf[k] = Args[r].package /\ records[k] # NoRecord}
                    ELSE {}
    <2>1. T \subseteq KeysOf(r) /\ T \subseteq Keys
      BY <1>3
    <2>2. \A k \in KeysOf(r) : Cascade /\ records[k] # NoRecord => k \in T
      BY <1>3
    <2>3. req' = [req EXCEPT ![r] = [req[r] EXCEPT !.pc = "cascade", !.todo = T]] /\ answer' = answer
      BY <1>7 DEF DropPackage, Step
    <2> HIDE DEF T
    <2>4. PICK q \in TaskRecord : /\ req' = [req EXCEPT ![r] = q]
                                  /\ q.pc = "cascade" /\ q.todo = T
      <3> DEFINE q == [req[r] EXCEPT !.pc = "cascade", !.todo = T]
      <3>1. q \in TaskRecord /\ q.pc = "cascade" /\ q.todo = T
        BY <1>2, <2>1 DEF TaskRecord, Labels, DropLabels
      <3> HIDE DEF q
      <3>2. QED
        BY <2>3, <3>1 DEF q
    <2>5. Sound(r, q, answer[r])
      BY <1>2, <1>3, <2>1, <2>4
         DEF Sound, PackageLabels, DropLabels, EarlyLabels, LateLabels, DeleteLabels
    <2>6. Changes(r, q, answer[r])
      BY <1>2, <2>3, <2>4, <2>5, TaskChanges
    <2>7. ASSUME NEW k \in tidy, k \in KeysOf(r) PROVE AtWork(r, k)'
      <3>1. SameView(k)
        BY <1>4 DEF SameView, Mine
      <3>2. Calm(k)' /\ k \in Keys
        BY <1>5, <2>7, <3>1, ViewKeeps
      <3>3. Cascade /\ records'[k] # NoRecord => k \in q.todo
        BY <1>4, <2>2, <2>4, <2>7
      <3>4. QED
        BY <1>3, <2>4, <2>6, <3>2, <3>3, DropWork DEF DropLabels
    <2>8. QED
      BY <1>1, <1>2, <1>4, <2>3, <2>4, <2>5, <2>7, QuietStep
  <1>8. QED
    BY <1>6, <1>7 DEF DropPackage

\* The key a cascade turns to is at rest until its units are deleted.
LEMMA CascadeNextKeeps == ASSUME IInv, NEW r \in Requests, CascadeNext(r) PROVE IInv'
  <1>1. Active(r) /\ req[r].pc = "cascade" /\ answer' = answer
    BY DEF CascadeNext, At, Active
  <1>2. /\ TasksTyped /\ Sounds /\ Sound(r, req[r], answer[r]) /\ answer[r] # "ok"
        /\ answer[r] \in Answers \cup {None} /\ req[r] \in TaskRecord
    BY <1>1, UnansweredAtWork DEF IInv, Sounds, TasksTyped
  <1>3. Args[r].kind = "drop" /\ req[r].todo \subseteq KeysOf(r) /\ KeysOf(r) \subseteq Keys
    BY <1>1, <1>2, KeysOfKind DEF Sound, DropLabels
  <1>4. /\ UNCHANGED <<packages, records, mappings, runtimes, health, avail>>
        /\ cached' \subseteq Envs /\ tidy' = tidy /\ faults' \in 0..MaxFaults
    BY DEF CascadeNext, Stored, World, IInv, StoreTyped
  <1>5. PICK j \in req[r].todo :
           req' = [req EXCEPT ![r] = [req[r] EXCEPT !.pc = "delete", !.key = j, !.todo = @ \ {j}]]
    BY DEF CascadeNext, Step
  <1>6. PICK q \in TaskRecord : /\ req' = [req EXCEPT ![r] = q]
                                /\ q.pc = "delete" /\ q.key = j /\ q.todo = req[r].todo \ {j}
    <2> DEFINE q == [req[r] EXCEPT !.pc = "delete", !.key = j, !.todo = @ \ {j}]
    <2>1. q \in TaskRecord /\ q.pc = "delete" /\ q.key = j /\ q.todo = req[r].todo \ {j}
      BY <1>2, <1>3 DEF TaskRecord, Labels, DeleteLabels
    <2> HIDE DEF q
    <2>2. QED
      BY <1>5, <2>1 DEF q
  <1>7. Sound(r, q, answer[r])
    BY <1>2, <1>3, <1>6
       DEF Sound, PackageLabels, DropLabels, EarlyLabels, LateLabels, DeleteLabels
  <1>8. Changes(r, q, answer[r])
    BY <1>1, <1>2, <1>6, <1>7, TaskChanges
  <1>9. ASSUME NEW k \in tidy, k \in KeysOf(r) PROVE AtWork(r, k)'
    <2>1. Deleting(r, k) /\ k \in Keys
      BY <1>1, <1>3, <1>9, Working
    <2>2. SameView(k)
      BY <1>4 DEF SameView, Mine
    <2>3. Calm(k)'
      BY <1>1, <2>1, <2>2, ViewKeeps DEF Deleting, DropLabels
    <2>4. Cascade /\ records'[k] # NoRecord => k \in q.todo \/ q.key = k
      BY <1>1, <1>3, <1>4, <1>6, <2>1 DEF Deleting
    <2>5. QED
      BY <1>3, <1>6, <1>8, <2>3, <2>4 DEF AtWork, Deleting, Changes
  <1>10. QED
    BY <1>1, <1>2, <1>4, <1>6, <1>7, <1>9, QuietStep

\* The package goes after the last of its records.
LEMMA RemovePackageKeeps == ASSUME IInv, NEW r \in Requests, RemovePackage(r) PROVE IInv'
  <1>1. Active(r) /\ req[r].pc = "cascade" /\ req[r].todo = {} /\ tidy' = tidy
    BY DEF RemovePackage, At, Active
  <1>2. TasksTyped /\ Sounds /\ StoreTyped /\ Sound(r, req[r], answer[r])
    BY DEF IInv, Sounds
  <1>3. Args[r].kind = "drop" /\ KeysOf(r) = {k \in Keys : PackageOf[k] = Args[r].package}
    BY <1>1, <1>2, KeysOfKind DEF Sound, DropLabels
  <1>4. PICK q \in TaskRecord : q = [Idle EXCEPT !.pc = "end"] /\ q.pc = "end" /\ Sound(r, q, "dropped")
    BY EndRecord DEF Answers
  <1>5. Changes(r, q, "dropped") /\ TasksTyped' /\ Sounds'
    <2>1. req' = [req EXCEPT ![r] = q] /\ answer' = [answer EXCEPT ![r] = "dropped"]
      BY <1>4 DEF RemovePackage, Finish, End, Step, Reply
    <2>2. "dropped" \in Answers
      BY DEF Answers
    <2>3. QED
      BY <1>2, <1>4, <2>1, <2>2, TaskChanges
  <1>6. StoreTyped'
    BY <1>2 DEF RemovePackage, World, StoreTyped
  <1>7. ASSUME NEW k \in tidy PROVE KeyInv(k)'
    <2>1. SameView(k) /\ k \in Keys /\ KeyInv(k) /\ records'[k] = records[k] /\ mappings'[k] = mappings[k]
      BY DEF RemovePackage, World, SameView, Mine, IInv, KeysInv, StoreTyped
    <2>2. CASE k \notin KeysOf(r)
      <3>1. PackageOf[k] \in packages => PackageOf[k] \in packages'
        BY <1>3, <2>1, <2>2 DEF RemovePackage
      <3>2. QED
        BY <1>2, <1>5, <2>1, <2>2, <3>1, OtherKey
    <2>3. CASE k \in KeysOf(r)
      <3>1. Deleting(r, k) /\ Created(k)
        BY <1>1, <1>3, <2>3, Working
      <3>2. Calm(k)'
        BY <1>1, <2>1, <3>1, ViewKeeps DEF Deleting, DropLabels
      <3>3. Backed(k)'
        BY <1>1, <1>3, <2>1, <3>1 DEF Deleting, Backed
      <3>4. Created(k)'
        BY <1>5, <2>1, <3>1, CreatedStays
      <3>5. QED
        BY <1>1, <1>4, <1>5, <2>1, <2>3, <3>2, <3>3, <3>4, OwnKey
    <2>4. QED
      BY <2>2, <2>3
  <1>8. QED
    BY <1>1, <1>5, <1>6, <1>7 DEF IInv, KeysInv

-----------------------------------------------------------------------------
(* Deploying: before anything is sent                                      *)

\* A deployment that is refused has sent nothing.
LEMMA EarlyRefused ==
    ASSUME IInv, NEW r \in Requests, req[r].pc \in EarlyLabels,
           NEW a \in Answers \ {"ok"}, Finish(r, a),
           UNCHANGED <<packages, records, mappings, runtimes, health, avail>>,
           cached' \subseteq Envs, tidy' = tidy, faults' \in 0..MaxFaults
    PROVE  IInv'
  <1>1. Active(r) /\ Sound(r, req[r], answer[r])
    BY DEF Active, EarlyLabels, IInv, Sounds
  <1>2. Args[r].kind = "deploy"
    BY <1>1 DEF Sound
  <1>3. \A k \in tidy : k \in KeysOf(r) => Calm(k)
    BY <1>1, <1>2, Working DEF Deploying
  <1>4. QED
    BY <1>1, <1>3, FinishStep

\* A deployment that moves on before anything is sent leaves its key at rest.
LEMMA EarlyStep ==
    ASSUME IInv, NEW r \in Requests, req[r].pc \in EarlyLabels,
           req[r].pc # "deploy" \/ PackageOf[Args[r].key] \in packages,
           NEW q \in TaskRecord, q.pc \in EarlyLabels, req' = [req EXCEPT ![r] = q],
           q.todo = req[r].todo, q.acked = req[r].acked,
           q.pc \in {"require", "select", "store"} => Args[r].targets \subseteq Envs,
           q.pc = "select" => Candidates(r) # {},
           q.pc = "store" => q.sel # {},
           answer' = answer,
           UNCHANGED <<packages, records, mappings, runtimes, health, avail>>,
           cached' \subseteq Envs, tidy' = tidy, faults' \in 0..MaxFaults
    PROVE  IInv'
  <1>1. Active(r)
    BY DEF Active, EarlyLabels
  <1>2. /\ TasksTyped /\ Sounds /\ Sound(r, req[r], answer[r]) /\ answer[r] # "ok"
        /\ answer[r] \in Answers \cup {None}
    BY <1>1, UnansweredAtWork DEF IInv, Sounds, TasksTyped
  <1>3. Args[r].kind = "deploy"
    BY <1>2 DEF Sound
  <1>4. Sound(r, q, answer[r])
    BY <1>2, <1>3 DEF Sound, PackageLabels, DropLabels, EarlyLabels, LateLabels, DeleteLabels
  <1>5. Changes(r, q, answer[r])
    BY <1>2, <1>4, TaskChanges
  <1>6. ASSUME NEW k \in tidy, k \in KeysOf(r) PROVE AtWork(r, k)'
    <2>1. Deploying(r, k) /\ k = Args[r].key /\ k \in Keys
      BY <1>1, <1>3, <1>6, Working
    <2>2. SameView(k)
      BY DEF SameView, Mine
    <2>3. Calm(k)' /\ Unmapped(k)'
      BY <2>1, <2>2, ViewKeeps DEF Deploying, Unmapped, SameView
    <2>4. PackageOf[k] \in packages'
      BY <2>1 DEF Deploying
    <2>5. QED
      BY <1>3, <1>5, <2>1, <2>3, <2>4, EarlyWork
  <1>7. q.pc \notin {"idle", "end"}
    BY DEF EarlyLabels
  <1>8. QED
    BY <1>1, <1>2, <1>4, <1>6, <1>7, QuietStep

\* Reading the package sends nothing.
LEMMA ResolveKeeps == ASSUME IInv, NEW r \in Requests, Resolve(r) PROVE IInv'
  <1>1. req[r].pc = "deploy" /\ req[r].pc \in EarlyLabels
    BY DEF Resolve, At, EarlyLabels
  <1>2. /\ UNCHANGED <<packages, records, mappings, runtimes, health, avail>>
        /\ cached' \subseteq Envs /\ tidy' = tidy /\ faults' \in 0..MaxFaults /\ TasksTyped
    BY DEF Resolve, Stored, World, IInv, StoreTyped
  <1>3. CASE Finish(r, "refused")
    <2>1. "refused" \in Answers \ {"ok"}
      BY DEF Answers
    <2>2. QED
      BY <1>1, <1>2, <1>3, <2>1, EarlyRefused
  <1>4. CASE PackageOf[Args[r].key] \in packages /\ Move(r, "validate") /\ UNCHANGED answer
    <2>1. PICK q \in TaskRecord : /\ req' = [req EXCEPT ![r] = q] /\ q.pc = "validate"
                                  /\ q.todo = req[r].todo /\ q.acked = req[r].acked
      <3>1. "validate" \in Labels
        BY DEF Labels, EarlyLabels
      <3>2. QED
        BY <1>2, <1>4, <3>1, MoveTask
    <2>2. q.pc \in EarlyLabels
      BY <2>1 DEF EarlyLabels
    <2>3. QED
      BY <1>1, <1>2, <1>4, <2>1, <2>2, EarlyStep
  <1>5. QED
    BY <1>3, <1>4 DEF Resolve

\* What a probe leaves in the cache are environments.
LEMMA ProbeTyped ==
    ASSUME StoreTyped, NEW E, NEW fresh \in MaybeFresh(E), Probe(E, fresh)
    PROVE  cached' \subseteq Envs
  BY DEF StoreTyped, MaybeFresh, Probe

\* Checking the targets and the health sends nothing.
LEMMA ValidateKeeps == ASSUME IInv, NEW r \in Requests, Validate(r) PROVE IInv'
  <1>1. req[r].pc = "validate" /\ req[r].pc \in EarlyLabels
    BY DEF Validate, At, EarlyLabels
  <1> DEFINE E == IF Args[r].targets = {} THEN Envs ELSE Args[r].targets
  <1>2. PICK fresh \in MaybeFresh(E) :
          /\ Probe(E, fresh)
          /\ IF \/ ~ Args[r].targets \subseteq Envs
                \/ Args[r].targets = {} /\ \A e \in Envs : ~ Healthy(e, fresh)
             THEN Finish(r, "refused")
             ELSE Move(r, "require") /\ UNCHANGED answer
    BY DEF Validate
  <1> HIDE DEF E
  <1>3. /\ UNCHANGED <<packages, records, mappings, runtimes, health, avail>>
        /\ cached' \subseteq Envs /\ tidy' = tidy /\ faults' \in 0..MaxFaults /\ TasksTyped
    BY <1>2, ProbeTyped DEF Validate, Stored, World, IInv, StoreTyped
  <1>4. CASE Finish(r, "refused")
    <2>1. "refused" \in Answers \ {"ok"}
      BY DEF Answers
    <2>2. QED
      BY <1>1, <1>3, <1>4, <2>1, EarlyRefused
  <1>5. CASE Args[r].targets \subseteq Envs /\ Move(r, "require") /\ UNCHANGED answer
    <2>1. PICK q \in TaskRecord : /\ req' = [req EXCEPT ![r] = q] /\ q.pc = "require"
                                  /\ q.todo = req[r].todo /\ q.acked = req[r].acked
      <3>1. "require" \in Labels
        BY DEF Labels, EarlyLabels
      <3>2. QED
        BY <1>3, <1>5, <3>1, MoveTask
    <2>2. q.pc \in EarlyLabels
      BY <2>1 DEF EarlyLabels
    <2>3. QED
      BY <1>1, <1>3, <1>5, <2>1, <2>2, EarlyStep
  <1>6. QED
    BY <1>2, <1>4, <1>5

\* After the validation the candidates have clients.
LEMMA CandidatesKnown ==
    ASSUME NEW r \in Requests, Args[r].targets \subseteq Envs
    PROVE  Candidates(r) \in SUBSET Envs
  BY DEF Candidates

\* Counting the replicas sends nothing.
LEMMA RequireKeeps == ASSUME IInv, NEW r \in Requests, Require(r) PROVE IInv'
  <1>1. req[r].pc = "require" /\ req[r].pc \in EarlyLabels /\ req[r] \in TaskRecord
    BY DEF Require, At, EarlyLabels, IInv, TasksTyped
  <1>2. Args[r].targets \subseteq Envs
    BY <1>1 DEF IInv, Sounds, Sound
  <1>3. PICK E \in SUBSET Envs : E = Candidates(r)
    BY <1>2, CandidatesKnown
  <1>4. PICK fresh \in MaybeFresh(E) :
          /\ Probe(E, fresh)
          /\ IF E = {} \/ \E e \in E : ~ Reachable(e, fresh)
             THEN Finish(r, "refused")
             ELSE /\ Step(r, [req[r] EXCEPT !.pc = "select",
                                            !.n = TargetReplicas(Args[r].key, E, avail)])
                  /\ UNCHANGED answer
    BY <1>3 DEF Require
  <1>5. /\ UNCHANGED <<packages, records, mappings, runtimes, health, avail>>
        /\ cached' \subseteq Envs /\ tidy' = tidy /\ faults' \in 0..MaxFaults
    BY <1>4, ProbeTyped DEF Require, Stored, World, IInv, StoreTyped
  <1>6. CASE Finish(r, "refused")
    <2>1. "refused" \in Answers \ {"ok"}
      BY DEF Answers
    <2>2. QED
      BY <1>1, <1>5, <1>6, <2>1, EarlyRefused
  <1>7. CASE E # {} /\ answer' = answer
             /\ Step(r, [req[r] EXCEPT !.pc = "select", !.n = TargetReplicas(Args[r].key, E, avail)])
    <2>1. PICK n \in Int : n = TargetReplicas(Args[r].key, E, avail)
      BY ReplicasAreNumbers, ArgTypes
    <2> DEFINE q == [req[r] EXCEPT !.pc = "select", !.n = n]
    <2>2. /\ q \in TaskRecord /\ q.pc = "select" /\ q.todo = req[r].todo
          /\ q.acked = req[r].acked
      BY <1>1, <2>1 DEF TaskRecord, Labels, EarlyLabels
    <2>3. req' = [req EXCEPT ![r] = q]
      BY <1>7, <2>1 DEF Step
    <2> HIDE DEF q
    <2>4. q.pc \in EarlyLabels
      BY <2>2 DEF EarlyLabels
    <2>5. QED
      BY <1>1, <1>2, <1>3, <1>5, <1>7, <2>2, <2>3, <2>4, EarlyStep
  <1>8. QED
    BY <1>4, <1>6, <1>7

\* At least one environment is chosen.
LEMMA ChosenSome ==
    ASSUME NEW E \in SUBSET Envs, E # {}, NEW a, NEW n \in Int, NEW S \in Chosen(E, a, n)
    PROVE  S # {} /\ S \subseteq Envs
  <1>1. Cardinality(E) \in Nat /\ Cardinality(E) # 0
    BY ArgsOK, FS_Subset, FS_CardinalityType, FS_EmptySet
  <1>2. Cardinality(S) # 0 /\ S \subseteq E
    BY <1>1 DEF Chosen
  <1>3. S # {}
    BY <1>2, FS_EmptySet
  <1>4. QED
    BY <1>2, <1>3

\* The selection takes known environments, and at least one.
LEMMA SelectKeeps == ASSUME IInv, NEW r \in Requests, Select(r) PROVE IInv'
  <1>1. req[r].pc = "select" /\ req[r].pc \in EarlyLabels /\ req[r] \in TaskRecord /\ req[r].n \in Int
    BY DEF Select, At, EarlyLabels, IInv, TasksTyped, TaskRecord
  <1>2. Args[r].targets \subseteq Envs /\ Candidates(r) # {}
    BY <1>1 DEF IInv, Sounds, Sound
  <1>3. PICK E \in SUBSET Envs : E = Candidates(r)
    BY <1>2, CandidatesKnown
  <1>4. PICK fresh \in MaybeFresh(E) :
          LET seen == [e \in Envs |-> IF e \in E /\ Reachable(e, fresh) THEN avail[e] ELSE 0]
          IN  /\ Probe(E, fresh)
              /\ \E S \in Chosen(E, seen, req[r].n) :
                    Step(r, [req[r] EXCEPT !.pc = "store", !.seen = seen,
                               !.sel = IF Args[r].targets # {} THEN Args[r].targets ELSE S])
    BY <1>3 DEF Select
  <1> DEFINE g == [e \in Envs |-> IF e \in E /\ Reachable(e, fresh) THEN avail[e] ELSE 0]
  <1>5. g \in [Envs -> 0..100]
    BY DEF IInv, StoreTyped
  <1>6. Probe(E, fresh) /\ \E S \in Chosen(E, g, req[r].n) :
                    Step(r, [req[r] EXCEPT !.pc = "store", !.seen = g,
                               !.sel = IF Args[r].targets # {} THEN Args[r].targets ELSE S])
    BY <1>4
  <1> HIDE DEF g
  <1>7. /\ UNCHANGED <<packages, records, mappings, runtimes, health, avail>>
        /\ cached' \subseteq Envs /\ tidy' = tidy /\ faults' \in 0..MaxFaults /\ answer' = answer
    BY <1>6, ProbeTyped DEF Select, Stored, World, IInv, StoreTyped
  <1>8. PICK C \in SUBSET Envs : C # {} /\ Step(r, [req[r] EXCEPT !.pc = "store", !.seen = g, !.sel = C])
    <2>1. PICK S \in Chosen(E, g, req[r].n) :
                    Step(r, [req[r] EXCEPT !.pc = "store", !.seen = g,
                               !.sel = IF Args[r].targets # {} THEN Args[r].targets ELSE S])
      BY <1>6
    <2>2. S # {} /\ S \subseteq Envs
      BY <1>1, <1>2, <1>3, ChosenSome
    <2>3. CASE Args[r].targets # {}
      BY <1>2, <2>1, <2>3
    <2>4. CASE Args[r].targets = {}
      BY <2>1, <2>2, <2>4
    <2>5. QED
      BY <2>3, <2>4
  <1>9. PICK q \in TaskRecord : /\ req' = [req EXCEPT ![r] = q] /\ q.pc = "store" /\ q.sel = C
                                /\ q.todo = req[r].todo /\ q.acked = req[r].acked
    <2> DEFINE q == [req[r] EXCEPT !.pc = "store", !.seen = g, !.sel = C]
    <2>1. /\ q \in TaskRecord /\ q.pc = "store" /\ q.sel = C
          /\ q.todo = req[r].todo /\ q.acked = req[r].acked
      BY <1>1, <1>5 DEF TaskRecord, Labels, EarlyLabels
    <2>2. req' = [req EXCEPT ![r] = q]
      BY <1>8 DEF Step
    <2> HIDE DEF q
    <2>3. QED
      BY <2>1, <2>2
  <1>10. q.pc \in EarlyLabels
    BY <1>9 DEF EarlyLabels
  <1>11. QED
    BY <1>1, <1>2, <1>7, <1>8, <1>9, <1>10, EarlyStep

-----------------------------------------------------------------------------
(* Deploying: the units                                                    *)

\* A step of request r that works on key j and leaves the other keys alone.
LEMMA KeyStep ==
    ASSUME IInv, NEW r \in Requests, Active(r), NEW j \in KeysOf(r),
           NEW q \in TaskRecord, NEW a \in Answers \cup {None}, Sound(r, q, a), a # "ok",
           req' = [req EXCEPT ![r] = q],
           answer' = [answer EXCEPT ![r] = a] \/ (answer' = answer /\ answer[r] = a),
           StoreTyped', packages' = packages, tidy' \subseteq tidy,
           \A k \in tidy' : k # j => SameView(k),
           \A k \in tidy' : k \in KeysOf(r) /\ k # j =>
              /\ q.pc \notin {"idle", "end"} => AtWork(r, k)'
              /\ q.pc \in {"idle", "end"} => Calm(k),
           j \in tidy' =>
              /\ Created(j)' /\ Backed(j)'
              /\ q.pc \notin {"idle", "end"} => AtWork(r, j)'
              /\ q.pc \in {"idle", "end"} => Calm(j)'
    PROVE  IInv'
  <1>1. Changes(r, q, a) /\ TasksTyped' /\ Sounds' /\ TasksTyped /\ Sounds
    BY TaskChanges DEF IInv
  <1>2. ASSUME NEW k \in tidy' PROVE KeyInv(k)'
    <2>1. k \in Keys /\ KeyInv(k) /\ Created(k) /\ Backed(k)
      BY <1>2 DEF IInv, StoreTyped, KeysInv, KeyInv
    <2>2. CASE k = j
      BY <1>1, <1>2, <2>1, <2>2, OwnKey
    <2>3. CASE k # j
      <3>1. SameView(k)
        BY <1>2, <2>3
      <3>2. CASE k \notin KeysOf(r)
        BY <1>1, <2>1, <3>1, <3>2, OtherKey
      <3>3. CASE k \in KeysOf(r)
        <4>1. Calm(k)' = Calm(k)
          BY <2>1, <3>1, ViewKeeps
        <4>2. Created(k)'
          BY <1>1, <2>1, <3>1, CreatedStays DEF SameView
        <4>3. Backed(k)'
          BY <2>1, <3>1 DEF SameView, Backed
        <4>4. QED
          BY <1>1, <1>2, <2>1, <2>3, <3>3, <4>1, <4>2, <4>3, OwnKey
      <3>4. QED
        BY <3>2, <3>3
    <2>4. QED
      BY <2>2, <2>3
  <1>3. QED
    BY <1>1, <1>2 DEF IInv, KeysInv

\* The loop over the units turns to an environment that was not called yet, or ends.
LEMMA NextUnitOf ==
    ASSUME NEW q \in TaskRecord, q.left \cap q.acked = {}, q.left \subseteq q.sel
    PROVE  \E p \in TaskRecord :
              /\ p = NextUnit(q)
              /\ p.pc \in {"call", "finalize"} /\ p.acked = q.acked /\ p.sel = q.sel
              /\ p.todo = q.todo
              /\ p.pc = "call" => /\ p.cur \in p.sel /\ p.cur \notin p.left /\ p.cur \notin p.acked
                                  /\ p.left \subseteq p.sel /\ p.left \cap p.acked = {}
  <1>1. q.left \in SUBSET Envs /\ q.seen \in [Envs -> 0..100]
    BY DEF TaskRecord
  <1>2. CASE q.left = {}
    <2> DEFINE p == [q EXCEPT !.pc = "finalize", !.cur = None]
    <2>1. p \in TaskRecord /\ p.pc = "finalize" /\ p.acked = q.acked /\ p.sel = q.sel /\ p.todo = q.todo
      BY DEF TaskRecord, Labels, LateLabels
    <2>2. NextUnit(q) = p
      BY <1>2 DEF NextUnit
    <2> HIDE DEF p
    <2>3. QED
      BY <2>1, <2>2
  <1>3. CASE q.left # {}
    <2>1. PICK e \in q.left : e = First(q.left, q.seen)
      BY <1>1, <1>3, FirstOf
    <2>2. 0 \in 0..MaxRetries
      BY ArgsOK
    <2> DEFINE p == [q EXCEPT !.pc = "call", !.cur = e, !.left = @ \ {e}, !.attempt = 0]
    <2>3. NextUnit(q) = p
      BY <1>3, <2>1 DEF NextUnit
    <2>4. /\ p \in TaskRecord /\ p.pc = "call" /\ p.acked = q.acked /\ p.sel = q.sel
          /\ p.todo = q.todo /\ p.cur = e /\ p.left = q.left \ {e}
      BY <1>1, <2>1, <2>2 DEF TaskRecord, Labels, LateLabels
    <2> HIDE DEF p
    <2>5. p.cur \in p.sel /\ p.cur \notin p.acked /\ p.left \subseteq p.sel /\ p.left \cap p.acked = {}
      BY <2>1, <2>4
    <2>6. QED
      BY <2>3, <2>4, <2>5
  <1>4. QED
    BY <1>2, <1>3

\* Between two units, the environments hold what was acknowledged.
LEMMA LateWork ==
    ASSUME NEW r \in Requests, NEW p \in TaskRecord, NEW a, Changes(r, p, a), NEW k \in Keys,
           Args[r].kind = "deploy", p.pc \in {"call", "finalize"},
           p.pc = "call" => p.cur \in p.sel /\ p.cur \notin p.acked,
           records'[k] # NoRecord, records'[k].by = r, records'[k].sel = p.sel, Covered(k)',
           \A e \in Envs : IF e \in p.acked THEN HasUnit(r, k, e)' ELSE NoUnit(k, e)'
    PROVE  AtWork(r, k)'
  <1>1. req'[r] = p
    BY DEF Changes
  <1>2. \A d : Given(r, k, d)'
    BY <1>1 DEF Given
  <1>3. p.pc = "call" => NoUnit(k, p.cur)'
    BY DEF TaskRecord
  <1>4. p.pc = "call" => mappings'[k][p.cur] = None /\ Mine(k, req[r].cur)' = {}
    BY <1>1, <1>3 DEF NoUnit
  <1>5. Deploying(r, k)'
    BY <1>1, <1>2, <1>4 DEF Deploying, EarlyLabels, LateLabels
  <1>6. QED
    BY <1>5 DEF AtWork

\* The record is stored before the first unit is sent, and names its environments.
LEMMA StoreKeeps == ASSUME IInv, NEW r \in Requests, Store(r) PROVE IInv'
  <1>1. /\ req[r].pc = "store" /\ req[r].pc \in EarlyLabels /\ Active(r)
        /\ req[r] \in TaskRecord /\ Sound(r, req[r], answer[r])
    BY DEF Store, At, EarlyLabels, Active, IInv, TasksTyped, Sounds
  <1>2. Fault => faults' \in 0..MaxFaults
    BY FaultTyped DEF IInv
  <1>3. CASE Fault /\ Finish(r, "failed") /\ UNCHANGED records
    <2>1. /\ UNCHANGED <<packages, records, mappings, runtimes, health, avail>>
          /\ cached' \subseteq Envs /\ tidy' = tidy /\ faults' \in 0..MaxFaults
      BY <1>2, <1>3 DEF Store, World, IInv, StoreTyped
    <2>2. "failed" \in Answers \ {"ok"}
      BY DEF Answers
    <2>3. QED
      BY <1>1, <1>3, <2>1, <2>2, EarlyRefused
  <1>4. CASE /\ records' = [records EXCEPT ![Args[r].key] = Effective(r)]
             /\ Step(r, NextUnit([req[r] EXCEPT !.left = req[r].sel]))
             /\ UNCHANGED <<answer, faults>>
    <2>1. /\ Args[r].kind = "deploy" /\ req[r].acked = {} /\ req[r].sel # {} /\ req[r].sel \subseteq Envs
          /\ req[r].seen \in [Envs -> 0..100] /\ req[r].todo \subseteq KeysOf(r)
      BY <1>1 DEF Sound, EarlyLabels, TaskRecord
    <2>2. PICK j \in Keys : j = Args[r].key /\ KeysOf(r) = {j}
      BY <2>1, ArgTypes, KeysOfKind
    <2>3. PICK s \in TaskRecord : /\ s = [req[r] EXCEPT !.left = req[r].sel]
                                  /\ s.left = req[r].sel /\ s.acked = {} /\ s.sel = req[r].sel
                                  /\ s.todo = req[r].todo
      <3> DEFINE s == [req[r] EXCEPT !.left = req[r].sel]
      <3>1. /\ s \in TaskRecord /\ s.left = req[r].sel /\ s.acked = {} /\ s.sel = req[r].sel
            /\ s.todo = req[r].todo
        BY <1>1, <2>1 DEF TaskRecord
      <3> HIDE DEF s
      <3>2. QED
        BY <3>1 DEF s
    <2>4. PICK p \in TaskRecord :
              /\ p = NextUnit(s)
              /\ p.pc \in {"call", "finalize"} /\ p.acked = {} /\ p.sel = req[r].sel
              /\ p.todo = req[r].todo
              /\ p.pc = "call" => /\ p.cur \in p.sel /\ p.cur \notin p.left /\ p.cur \notin p.acked
                                  /\ p.left \subseteq p.sel /\ p.left \cap p.acked = {}
      <3>1. /\ s.left \cap s.acked = {} /\ s.left \subseteq s.sel
            /\ s.acked = {} /\ s.sel = req[r].sel /\ s.todo = req[r].todo
        BY <2>3
      <3>2. QED
        BY <3>1, NextUnitOf
    <2>5. req' = [req EXCEPT ![r] = p] /\ answer' = answer /\ answer[r] # "ok"
          /\ answer[r] \in Answers \cup {None} /\ TasksTyped /\ Sounds
      <3>1. req' = [req EXCEPT ![r] = p] /\ answer' = answer
        BY <1>4, <2>3, <2>4 DEF Step
      <3>2. TasksTyped /\ Sounds
        BY DEF IInv
      <3>3. answer[r] # "ok" /\ answer[r] \in Answers \cup {None}
        BY <1>1, <3>2, UnansweredAtWork DEF TasksTyped
      <3>4. QED
        BY <3>1, <3>2, <3>3
    <2>6. Sound(r, p, answer[r])
      BY <1>1, <2>1, <2>4, <2>5
         DEF Sound, PackageLabels, DropLabels, EarlyLabels, LateLabels, DeleteLabels
    <2>7. Changes(r, p, answer[r])
      BY <2>5, <2>6, TaskChanges
    <2>8. PICK d : d = Effective(r) /\ RecordOK(d) /\ d.by = r /\ d.sel = req[r].sel
      <3> DEFINE d == Effective(r)
      <3>1. d.by = r /\ d.sel = req[r].sel /\ d.seen = req[r].seen
        BY DEF Effective
      <3> HIDE DEF d
      <3>2. RecordOK(d)
        BY <2>1, <3>1 DEF RecordOK
      <3>3. d = Effective(r)
        BY DEF d
      <3>4. QED
        BY <3>1, <3>2, <3>3
    <2>9. /\ records' = [records EXCEPT ![j] = d] /\ DOMAIN records = Keys
          /\ UNCHANGED <<packages, mappings, runtimes, health, avail, cached, tidy, faults>>
      BY <1>4, <2>2, <2>8 DEF Store, World, IInv, StoreTyped
    <2>10. DOMAIN records' = Keys /\ records'[j] = d /\ \A k \in Keys \ {j} : records'[k] = records[k]
      BY <2>9
    <2>11. StoreTyped'
      <3>1. \A k \in Keys : records'[k] # NoRecord => RecordOK(records'[k])
        BY <2>8, <2>10 DEF IInv, StoreTyped
      <3>2. StoreTyped
        BY DEF IInv
      <3> HIDE DEF RecordOK
      <3>3. QED
        BY <2>9, <2>10, <3>1, <3>2 DEF StoreTyped, RecordOK
    <2>12. \A k \in tidy' : k # j => SameView(k)
      BY <2>9, <2>10 DEF SameView, Mine, IInv, StoreTyped
    <2>13. ASSUME j \in tidy PROVE Created(j)' /\ Backed(j)' /\ AtWork(r, j)'
      <3>1. Deploying(r, j)
        BY <1>1, <2>1, <2>2, <2>13, Working
      <3>2. Calm(j) /\ Unmapped(j) /\ PackageOf[j] \in packages
        BY <1>1, <3>1 DEF Deploying, EarlyLabels
      <3>3. Backed(j)'
        BY <2>9, <3>2 DEF Backed
      <3>4. Created(j)'
        BY <2>5, <2>8, <2>10 DEF Created
      <3>5. Covered(j)'
        BY <2>9, <3>2 DEF Covered, Unmapped
      <3>6. \A e \in Envs : NoUnit(j, e)'
        BY <2>9, <3>2 DEF NoUnit, Unmapped, Calm, Settled, Mine
      <3>7. d # NoRecord
        BY <2>8, ArgsOK DEF NoRecord
      <3>8. QED
        BY <2>1, <2>4, <2>7, <2>8, <2>10, <3>3, <3>4, <3>5, <3>6, <3>7, LateWork
    <2>14. p.pc \notin {"idle", "end"} /\ j \in KeysOf(r) /\ tidy' = tidy
      BY <2>2, <2>4, <2>9
    <2>15. QED
      BY <1>1, <2>2, <2>5, <2>6, <2>9, <2>11, <2>12, <2>13, <2>14, KeyStep
  <1>5. QED
    BY <1>3, <1>4 DEF Store

\* A unit that is created belongs to the key of its request.
LEMMA MineAdd ==
    ASSUME StoreTyped, NEW r \in Requests, NEW e \in Envs,
           runtimes' = [runtimes EXCEPT ![e] = @ \cup {<<r, 0>>}]
    PROVE  \A k \in Keys, d \in Envs :
              Mine(k, d)' = IF d = e /\ Args[r].key = k THEN Mine(k, d) \cup {<<r, 0>>} ELSE Mine(k, d)
  <1>1. \A d \in Envs : runtimes'[d] = IF d = e THEN runtimes[d] \cup {<<r, 0>>} ELSE runtimes[d]
    BY DEF StoreTyped
  <1>2. <<r, 0>>[1] = r
    OBVIOUS
  <1>3. QED
    BY <1>1, <1>2 DEF Mine

\* A unit that is deleted is gone from its key.
LEMMA MineCut ==
    ASSUME StoreTyped, NEW id, NEW e \in Envs, runtimes' = [runtimes EXCEPT ![e] = @ \ {id}]
    PROVE  \A k \in Keys, d \in Envs : Mine(k, d)' = IF d = e THEN Mine(k, d) \ {id} ELSE Mine(k, d)
  <1>1. \A d \in Envs : runtimes'[d] = IF d = e THEN runtimes[d] \ {id} ELSE runtimes[d]
    BY DEF StoreTyped
  <1>2. QED
    BY <1>1 DEF Mine

\* The unit of a request has the id the request was given once.
LEMMA UnitOf ==
    ASSUME NEW r \in Requests, NEW e
    PROVE  /\ UnitId(r, e) = <<r, 0>> /\ <<r, 0>> \in UnitIds /\ <<r, 0>> # None
           /\ <<r, 0>>[1] = r /\ <<r, 0>>[2] = 0
  <1>1. <<r, 0>> \in UnitIds
    BY ArgsOK DEF UnitIds
  <1>2. None \notin UnitIds
    BY ArgsOK
  <1>3. QED
    BY <1>1, <1>2 DEF UnitId

\* An attempt that failed is followed by another or by the next unit.
LEMMA RetryTask ==
    ASSUME TasksTyped, Sounds, NEW r \in Requests, req[r].pc = "call", Retry(r)
    PROVE  \E p \in TaskRecord :
              /\ req' = [req EXCEPT ![r] = p]
              /\ p.pc \in {"call", "finalize"} /\ p.acked = req[r].acked /\ p.sel = req[r].sel
              /\ p.todo = req[r].todo
              /\ p.pc = "call" => /\ p.cur \in p.sel /\ p.cur \notin p.left /\ p.cur \notin p.acked
                                  /\ p.left \subseteq p.sel /\ p.left \cap p.acked = {}
              /\ ~ LastAttempt(r) => p.pc = "call" /\ p.cur = req[r].cur
  <1>1. req[r] \in TaskRecord /\ Sound(r, req[r], answer[r])
    BY DEF TasksTyped, Sounds
  <1>2. /\ req[r].cur \in req[r].sel /\ req[r].cur \notin req[r].left /\ req[r].cur \notin req[r].acked
        /\ req[r].left \subseteq req[r].sel /\ req[r].left \cap req[r].acked = {}
    BY <1>1 DEF Sound
  <1>3. CASE LastAttempt(r)
    <2>1. req' = [req EXCEPT ![r] = NextUnit(req[r])]
      BY <1>3 DEF Retry, Step
    <2>2. PICK q \in TaskRecord : q = req[r]
      BY <1>1
    <2>3. PICK p \in TaskRecord :
              /\ p = NextUnit(q)
              /\ p.pc \in {"call", "finalize"} /\ p.acked = q.acked /\ p.sel = q.sel
              /\ p.todo = q.todo
              /\ p.pc = "call" => /\ p.cur \in p.sel /\ p.cur \notin p.left /\ p.cur \notin p.acked
                                  /\ p.left \subseteq p.sel /\ p.left \cap p.acked = {}
      BY <1>2, <2>2, NextUnitOf
    <2>4. QED
      BY <1>3, <2>1, <2>2, <2>3
  <1>4. CASE ~ LastAttempt(r)
    <2>1. req[r].attempt + 1 \in 0..MaxRetries
      <3>1. MaxRetries \in Nat /\ req[r].attempt \in 0..MaxRetries
        BY <1>1, ArgsOK DEF TaskRecord
      <3>2. QED
        BY <1>4, <3>1 DEF LastAttempt
    <2>2. req' = [req EXCEPT ![r] = [req[r] EXCEPT !.attempt = @ + 1]]
      BY <1>4 DEF Retry, Step
    <2> DEFINE p == [req[r] EXCEPT !.attempt = @ + 1]
    <2>3. /\ p \in TaskRecord /\ p.pc = "call" /\ p.acked = req[r].acked /\ p.sel = req[r].sel
          /\ p.todo = req[r].todo /\ p.cur = req[r].cur /\ p.left = req[r].left
      BY <1>1, <2>1 DEF TaskRecord
    <2>4. req' = [req EXCEPT ![r] = p]
      BY <2>2
    <2> HIDE DEF p
    <2>5. QED
      BY <1>2, <2>3, <2>4
  <1>5. QED
    BY <1>3, <1>4

\* However often an attempt's reply is lost, the environment holds the unit once.
LEMMA CallKeeps == ASSUME IInv, NEW r \in Requests, Call(r) PROVE IInv'
  <1>1. /\ req[r].pc = "call" /\ Active(r) /\ req[r] \in TaskRecord /\ TasksTyped /\ Sounds
        /\ StoreTyped /\ Sound(r, req[r], answer[r]) /\ answer' = answer
        /\ answer[r] \in Answers \cup {None}
    BY DEF Call, At, Active, IInv, TasksTyped, Sounds
  <1>2. /\ Args[r].kind = "deploy" /\ req[r].todo \subseteq KeysOf(r)
        /\ req[r].cur \in req[r].sel /\ req[r].cur \notin req[r].left /\ req[r].cur \notin req[r].acked
        /\ req[r].left \subseteq req[r].sel /\ req[r].left \cap req[r].acked = {}
    BY <1>1 DEF Sound, LateLabels
  <1>3. PICK e \in Envs : e = req[r].cur
    BY <1>1, <1>2 DEF TaskRecord
  <1>4. PICK j \in Keys : j = Args[r].key /\ KeysOf(r) = {j}
    BY <1>2, ArgTypes, KeysOfKind
  <1>5. answer[r] # "ok"
    BY <1>1, UnansweredAtWork
  <1>6. /\ UNCHANGED <<packages, records, mappings, health, avail, cached>> /\ tidy' \subseteq tidy
        /\ faults' = faults \/ Fault
        /\ runtimes' = runtimes \/ runtimes' = [runtimes EXCEPT ![e] = @ \cup {<<r, 0>>}]
    BY <1>3, UnitOf DEF Call, Stored, Create
  <1>7. /\ \A k \in Keys : k # j => \A d \in Envs : Mine(k, d)' = Mine(k, d)
        /\ \A d \in Envs : d # e => Mine(j, d)' = Mine(j, d)
        /\ Mine(j, e)' = Mine(j, e) \/ Mine(j, e)' = Mine(j, e) \cup {<<r, 0>>}
    <2>1. CASE runtimes' = runtimes
      BY <2>1 DEF Mine
    <2>2. CASE runtimes' = [runtimes EXCEPT ![e] = @ \cup {<<r, 0>>}]
      <3>1. \A k \in Keys, d \in Envs :
              Mine(k, d)' = IF d = e /\ Args[r].key = k THEN Mine(k, d) \cup {<<r, 0>>} ELSE Mine(k, d)
        <4>1. StoreTyped
          BY <1>1
        <4>2. QED
          BY <2>2, <4>1, MineAdd
      <3>2. j = Args[r].key
        BY <1>4
      <3>3. QED
        BY <3>1, <3>2
    <2>3. QED
      BY <1>6, <2>1, <2>2
  <1>8. StoreTyped'
    <2>1. \A d \in Envs : runtimes'[d] = runtimes[d] \/ runtimes'[d] = runtimes[d] \cup {<<r, 0>>}
      BY <1>1, <1>6 DEF StoreTyped
    <2>2. runtimes' \in [Envs -> SUBSET UnitIds] /\ \A d \in Envs : \A u \in runtimes'[d] : u[2] = 0
      <3>1. PICK x \in UnitIds : x = <<r, 0>> /\ x[2] = 0
        BY UnitOf
      <3>2. runtimes \in [Envs -> SUBSET UnitIds] /\ \A d \in Envs : \A u \in runtimes[d] : u[2] = 0
        BY <1>1 DEF StoreTyped
      <3>3. runtimes' = runtimes \/ runtimes' = [runtimes EXCEPT ![e] = @ \cup {x}]
        BY <1>6, <3>1
      <3>4. runtimes' \in [Envs -> SUBSET UnitIds]
        BY <3>2, <3>3
      <3>5. \A d \in Envs : runtimes'[d] \subseteq runtimes[d] \cup {x}
        BY <2>1, <3>1
      <3>6. QED
        BY <3>1, <3>2, <3>4, <3>5
    <2>3. faults' \in 0..MaxFaults
      BY <1>1, <1>6, FaultTyped DEF StoreTyped
    <2>4. QED
      BY <1>1, <1>6, <2>2, <2>3 DEF StoreTyped
  <1>9. \A k \in tidy' : k # j => SameView(k)
    BY <1>1, <1>6, <1>7 DEF SameView, StoreTyped
  <1>10. ASSUME j \in tidy
         PROVE  /\ Created(j) /\ Backed(j)' /\ Covered(j)'
                /\ records'[j] # NoRecord /\ records'[j].by = r /\ records'[j].sel = req[r].sel
                /\ \A d \in Envs \ {e} : IF d \in req[r].acked THEN HasUnit(r, j, d)' ELSE NoUnit(j, d)'
                /\ mappings'[j][e] = None /\ Mine(j, e) \subseteq {<<r, 0>>}
    <2>1. Deploying(r, j) /\ Created(j) /\ Backed(j)
      BY <1>1, <1>2, <1>4, <1>10, Working
    <2>2. /\ records[j] # NoRecord /\ records[j].by = r /\ records[j].sel = req[r].sel /\ Covered(j)
          /\ Given(r, j, e) /\ mappings[j][e] = None /\ Mine(j, e) \subseteq {<<r, 0>>}
      BY <1>1, <1>3, <2>1 DEF Deploying, LateLabels
    <2>3. Backed(j)' /\ Covered(j)'
      BY <1>6, <2>1, <2>2 DEF Backed, Covered
    <2>4. \A d \in Envs \ {e} : IF d \in req[r].acked THEN HasUnit(r, j, d)' ELSE NoUnit(j, d)'
      BY <1>6, <1>7, <2>2 DEF Given, HasUnit, NoUnit
    <2>5. QED
      BY <1>6, <2>1, <2>2, <2>3, <2>4
  <1>11. CASE Create(r) /\ Move(r, "saveMapping")
    <2>1. PICK q \in TaskRecord : /\ req' = [req EXCEPT ![r] = q] /\ q.pc = "saveMapping"
                                  /\ q.todo = req[r].todo /\ q.acked = req[r].acked /\ q.sel = req[r].sel
                                  /\ q.left = req[r].left /\ q.cur = req[r].cur
      <3>1. "saveMapping" \in Labels
        BY DEF Labels, LateLabels
      <3>2. QED
        BY <1>1, <1>11, <3>1, MoveTask
    <2>2. Sound(r, q, answer[r])
      BY <1>1, <1>2, <1>5, <2>1
         DEF Sound, PackageLabels, DropLabels, EarlyLabels, LateLabels, DeleteLabels
    <2>3. Changes(r, q, answer[r])
      BY <1>1, <2>1, <2>2, TaskChanges
    <2>4. ASSUME j \in tidy PROVE Created(j)' /\ AtWork(r, j)'
      <3>1. Created(j)'
        BY <1>5, <1>6, <1>10, <2>3, <2>4, CreatedStays
      <3>2. runtimes' = [runtimes EXCEPT ![e] = @ \cup {<<r, 0>>}]
        BY <1>3, <1>11, UnitOf DEF Create
      <3>3. Mine(j, e)' = {<<r, 0>>}
        <4>1. Mine(j, e)' = Mine(j, e) \cup {<<r, 0>>}
          BY <1>1, <1>4, <3>2, MineAdd
        <4>2. QED
          BY <1>10, <2>4, <4>1
      <3>4. req'[r] = q
        BY <2>3 DEF Changes
      <3>5. Given(r, j, e)'
        BY <1>10, <2>1, <2>4, <3>4 DEF Given
      <3>6. Deploying(r, j)'
        BY <1>3, <1>10, <2>1, <2>4, <3>3, <3>4, <3>5 DEF Deploying, EarlyLabels, LateLabels
      <3>7. QED
        BY <1>2, <3>1, <3>6 DEF AtWork
    <2>5. QED
      BY <1>1, <1>4, <1>5, <1>6, <1>8, <1>9, <1>10, <2>1, <2>2, <2>4, KeyStep
  <1>12. CASE /\ Retry(r)
              /\ LastAttempt(r) /\ j \in tidy' => runtimes' = runtimes /\ <<r, 0>> \notin runtimes[e]
    <2>1. PICK p \in TaskRecord :
              /\ req' = [req EXCEPT ![r] = p]
              /\ p.pc \in {"call", "finalize"} /\ p.acked = req[r].acked /\ p.sel = req[r].sel
              /\ p.todo = req[r].todo
              /\ p.pc = "call" => /\ p.cur \in p.sel /\ p.cur \notin p.left /\ p.cur \notin p.acked
                                  /\ p.left \subseteq p.sel /\ p.left \cap p.acked = {}
              /\ ~ LastAttempt(r) => p.pc = "call" /\ p.cur = req[r].cur
      BY <1>1, <1>12, RetryTask
    <2>2. Sound(r, p, answer[r])
      BY <1>1, <1>2, <1>5, <2>1
         DEF Sound, PackageLabels, DropLabels, EarlyLabels, LateLabels, DeleteLabels
    <2>3. Changes(r, p, answer[r])
      BY <1>1, <2>1, <2>2, TaskChanges
    <2>4. ASSUME j \in tidy' PROVE Created(j)' /\ AtWork(r, j)'
      <3>1. j \in tidy
        BY <1>6, <2>4
      <3>2. Created(j)'
        BY <1>5, <1>6, <1>10, <2>3, <3>1, CreatedStays
      <3>3. req'[r] = p
        BY <2>3 DEF Changes
      <3>4. CASE LastAttempt(r)
        <4>1. Mine(j, e) = {} /\ Mine(j, e)' = {}
          BY <1>10, <1>12, <2>4, <3>1, <3>4 DEF Mine
        <4>2. e \notin p.acked
          BY <1>2, <1>3, <2>1
        <4>3. \A d \in Envs : IF d \in p.acked THEN HasUnit(r, j, d)' ELSE NoUnit(j, d)'
          BY <1>10, <2>1, <3>1, <4>1, <4>2 DEF NoUnit
        <4>4. QED
          BY <1>2, <1>10, <2>1, <2>3, <3>1, <3>2, <4>3, LateWork
      <3>5. CASE ~ LastAttempt(r)
        <4>1. p.pc = "call" /\ p.cur = e
          BY <1>3, <2>1, <3>5
        <4>2. Mine(j, e)' \subseteq {<<r, 0>>}
          BY <1>7, <1>10, <3>1
        <4>3. Given(r, j, e)'
          BY <1>10, <2>1, <3>1, <3>3 DEF Given
        <4>4. Deploying(r, j)'
          BY <1>10, <2>1, <3>1, <3>3, <4>1, <4>2, <4>3 DEF Deploying, EarlyLabels, LateLabels
        <4>5. QED
          BY <1>2, <3>2, <4>4 DEF AtWork
      <3>6. QED
        BY <3>4, <3>5
    <2>5. p.pc \notin {"idle", "end"}
      BY <2>1
    <2>6. QED
      BY <1>1, <1>4, <1>5, <1>6, <1>8, <1>9, <1>10, <2>1, <2>2, <2>4, <2>5, KeyStep
  <1>13. QED
    <2>1. CASE /\ health[req[r].cur] = "down" /\ Retry(r) /\ runtimes' = runtimes
               /\ tidy' = IF /\ LastAttempt(r) /\ UnitId(r, req[r].cur) \in runtimes[req[r].cur]
                          THEN tidy \ {Args[r].key} ELSE tidy
      <3>1. LastAttempt(r) /\ j \in tidy' => <<r, 0>> \notin runtimes[e]
        BY <1>3, <1>4, <2>1, UnitOf
      <3>2. QED
        BY <1>12, <2>1, <3>1
    <2>2. CASE Retry(r) /\ tidy' = IF LastAttempt(r) THEN tidy \ {Args[r].key} ELSE tidy
      <3>1. ~ (LastAttempt(r) /\ j \in tidy')
        BY <1>4, <2>2
      <3>2. QED
        BY <1>12, <2>2, <3>1
    <2>3. QED
      BY <1>11, <2>1, <2>2 DEF Call

\* A record whose request is not acknowledged is not a created deployment.
LEMMA NotYetCreated ==
    ASSUME NEW r \in Requests, NEW q, NEW a, Changes(r, q, a), a # "ok",
           NEW k \in Keys, records'[k].by = r
    PROVE  Created(k)'
  BY DEF Created, Changes

\* The mapping names the unit the call created.
LEMMA SaveMappingKeeps == ASSUME IInv, NEW r \in Requests, SaveMapping(r) PROVE IInv'
  <1>1. /\ req[r].pc = "saveMapping" /\ Active(r) /\ req[r] \in TaskRecord /\ TasksTyped /\ Sounds
        /\ StoreTyped /\ Sound(r, req[r], answer[r]) /\ answer' = answer
        /\ answer[r] \in Answers \cup {None}
    BY DEF SaveMapping, At, Active, IInv, TasksTyped, Sounds
  <1>2. /\ Args[r].kind = "deploy" /\ req[r].todo \subseteq KeysOf(r)
        /\ req[r].cur \in req[r].sel /\ req[r].cur \notin req[r].left /\ req[r].cur \notin req[r].acked
        /\ req[r].left \subseteq req[r].sel /\ req[r].left \cap req[r].acked = {}
    BY <1>1 DEF Sound, LateLabels
  <1>3. PICK e \in Envs : e = req[r].cur
    BY <1>1, <1>2 DEF TaskRecord
  <1>4. PICK j \in Keys : j = Args[r].key /\ KeysOf(r) = {j}
    BY <1>2, ArgTypes, KeysOfKind
  <1>5. answer[r] # "ok"
    BY <1>1, UnansweredAtWork
  <1>6. /\ UNCHANGED <<packages, records, runtimes, health, avail, cached>>
        /\ \/ mappings' = [mappings EXCEPT ![j][e] = <<r, 0>>] /\ tidy' = tidy /\ faults' = faults
           \/ mappings' = mappings /\ tidy' = tidy \ {j} /\ Fault
        /\ req' = [req EXCEPT ![r] = NextUnit([req[r] EXCEPT !.acked = @ \cup {e}])]
    BY <1>3, <1>4, UnitOf DEF SaveMapping, World, Step
  <1>7. PICK s \in TaskRecord : /\ s = [req[r] EXCEPT !.acked = @ \cup {e}]
                                /\ s.left \cap s.acked = {} /\ s.left \subseteq s.sel
                                /\ s.acked = req[r].acked \cup {e} /\ s.sel = req[r].sel
                                /\ s.todo = req[r].todo
    <2> DEFINE s == [req[r] EXCEPT !.acked = @ \cup {e}]
    <2>1. /\ s \in TaskRecord /\ s.acked = req[r].acked \cup {e} /\ s.sel = req[r].sel
          /\ s.left = req[r].left /\ s.todo = req[r].todo
      BY <1>1 DEF TaskRecord
    <2> HIDE DEF s
    <2>2. s.left \cap s.acked = {} /\ s.left \subseteq s.sel
      BY <1>2, <1>3, <2>1
    <2>3. s = [req[r] EXCEPT !.acked = @ \cup {e}]
      BY DEF s
    <2>4. QED
      BY <2>1, <2>2, <2>3
  <1>8. PICK p \in TaskRecord :
              /\ p = NextUnit(s)
              /\ p.pc \in {"call", "finalize"} /\ p.acked = req[r].acked \cup {e}
              /\ p.sel = req[r].sel /\ p.todo = req[r].todo
              /\ p.pc = "call" => /\ p.cur \in p.sel /\ p.cur \notin p.left /\ p.cur \notin p.acked
                                  /\ p.left \subseteq p.sel /\ p.left \cap p.acked = {}
    <2>1. /\ s.left \cap s.acked = {} /\ s.left \subseteq s.sel
          /\ s.acked = req[r].acked \cup {e} /\ s.sel = req[r].sel /\ s.todo = req[r].todo
      BY <1>7
    <2>2. QED
      BY <2>1, NextUnitOf
  <1>9. req' = [req EXCEPT ![r] = p]
    BY <1>6, <1>7, <1>8
  <1>10. Sound(r, p, answer[r])
    BY <1>1, <1>2, <1>5, <1>8
       DEF Sound, PackageLabels, DropLabels, EarlyLabels, LateLabels, DeleteLabels
  <1>11. Changes(r, p, answer[r])
    BY <1>1, <1>9, <1>10, TaskChanges
  <1>12. /\ \A k \in Keys \ {j} : mappings'[k] = mappings[k]
         /\ mappings' \in [Keys -> [Envs -> UnitIds \cup {None}]]
         /\ \A d \in Envs : mappings'[j][d] = mappings[j][d]
                            \/ (d = e /\ mappings'[j][d] = <<r, 0>>)
         /\ mappings' # mappings => mappings'[j] = [mappings[j] EXCEPT ![e] = <<r, 0>>]
    <2>1. PICK x \in UnitIds : x = <<r, 0>>
      BY UnitOf
    <2>2. mappings \in [Keys -> [Envs -> UnitIds \cup {None}]]
      BY <1>1 DEF StoreTyped
    <2>3. mappings' = mappings \/ mappings' = [mappings EXCEPT ![j][e] = x]
      BY <1>6, <2>1
    <2>4. /\ \A k \in Keys \ {j} : mappings'[k] = mappings[k]
          /\ mappings' \in [Keys -> [Envs -> UnitIds \cup {None}]]
          /\ \A d \in Envs : mappings'[j][d] = mappings[j][d] \/ (d = e /\ mappings'[j][d] = x)
          /\ mappings' # mappings => mappings'[j] = [mappings[j] EXCEPT ![e] = x]
      BY <2>2, <2>3
    <2>5. QED
      BY <2>1, <2>4
  <1>13. StoreTyped'
    <2>1. \A k \in Keys, d \in Envs : mappings'[k][d] # None => Args[mappings'[k][d][1]].key = k
      <3>1. \A k \in Keys, d \in Envs : mappings[k][d] # None => Args[mappings[k][d][1]].key = k
        BY <1>1 DEF StoreTyped
      <3>2. PICK x \in UnitIds : x = <<r, 0>> /\ Args[x[1]].key = j
        <4>1. <<r, 0>>[1] = r /\ <<r, 0>> \in UnitIds
          BY UnitOf
        <4>2. Args[<<r, 0>>[1]].key = j
          BY <1>4, <4>1
        <4>3. QED
          BY <4>1, <4>2
      <3>3. \A d \in Envs : mappings'[j][d] = mappings[j][d] \/ mappings'[j][d] = x
        BY <1>12, <3>2
      <3>4. QED
        BY <1>12, <3>1, <3>2, <3>3
    <2>2. faults' \in 0..MaxFaults /\ tidy' \subseteq Keys
      BY <1>1, <1>6, FaultTyped DEF StoreTyped
    <2>3. QED
      BY <1>1, <1>6, <1>12, <2>1, <2>2 DEF StoreTyped
  <1>14. \A k \in tidy' : k # j => SameView(k)
    BY <1>1, <1>6, <1>12 DEF SameView, StoreTyped, Mine
  <1>15. ASSUME j \in tidy' PROVE Created(j)' /\ Backed(j)' /\ AtWork(r, j)'
    <2>1. mappings'[j] = [mappings[j] EXCEPT ![e] = <<r, 0>>] /\ j \in tidy
          /\ mappings[j] \in [Envs -> UnitIds \cup {None}]
      <3>1. PICK x \in UnitIds : x = <<r, 0>>
        BY UnitOf
      <3>2. j \in tidy /\ mappings' = [mappings EXCEPT ![j][e] = x]
        BY <1>6, <1>15, <3>1
      <3>3. mappings \in [Keys -> [Envs -> UnitIds \cup {None}]]
        BY <1>1 DEF StoreTyped
      <3>4. mappings'[j] = [mappings[j] EXCEPT ![e] = x]
        BY <3>2, <3>3
      <3>5. QED
        BY <3>1, <3>2, <3>3, <3>4
    <2>2. mappings'[j][e] = <<r, 0>> /\ \A d \in Envs \ {e} : mappings'[j][d] = mappings[j][d]
      BY <2>1
    <2>3. Deploying(r, j) /\ Backed(j)
      BY <1>1, <1>2, <1>4, <2>1, Working
    <2>4. /\ records[j] # NoRecord /\ records[j].by = r /\ records[j].sel = req[r].sel /\ Covered(j)
          /\ Given(r, j, e) /\ Mine(j, e) = {<<r, 0>>}
      BY <1>1, <1>3, <2>3 DEF Deploying, LateLabels
    <2>5. Created(j)' /\ Backed(j)'
      BY <1>5, <1>6, <1>11, <2>3, <2>4, NotYetCreated DEF Backed
    <2>6. Covered(j)'
      BY <1>2, <1>3, <1>6, <2>2, <2>4 DEF Covered
    <2>7. \A d \in Envs : Mine(j, d)' = Mine(j, d)
      BY <1>6 DEF Mine
    <2>8. HasUnit(r, j, e)'
      BY <2>2, <2>4, <2>7 DEF HasUnit
    <2>9. \A d \in Envs \ {e} : IF d \in req[r].acked THEN HasUnit(r, j, d)' ELSE NoUnit(j, d)'
      BY <2>2, <2>4, <2>7 DEF Given, HasUnit, NoUnit
    <2>10. \A d \in Envs : IF d \in p.acked THEN HasUnit(r, j, d)' ELSE NoUnit(j, d)'
      BY <1>8, <2>8, <2>9
    <2>11. QED
      BY <1>2, <1>6, <1>8, <1>11, <2>4, <2>5, <2>6, <2>10, LateWork
  <1>16. p.pc \notin {"idle", "end"} /\ packages' = packages /\ tidy' \subseteq tidy
    BY <1>6, <1>8
  <1>17. QED
    BY <1>1, <1>4, <1>5, <1>9, <1>10, <1>13, <1>14, <1>15, <1>16, KeyStep

\* When every unit was tried, what is mapped is what is there.
LEMMA FinalizeCalm ==
    ASSUME IInv, NEW r \in Requests, req[r].pc = "finalize", NEW k \in tidy, k \in KeysOf(r)
    PROVE  /\ Calm(k) /\ k \in Keys /\ Created(k)
           /\ records[k] # NoRecord /\ records[k].by = r /\ records[k].sel = req[r].sel
           /\ \A e \in Envs : IF e \in req[r].acked THEN HasUnit(r, k, e) ELSE NoUnit(k, e)
  <1>1. Active(r) /\ Args[r].kind = "deploy"
    BY DEF Active, IInv, Sounds, Sound, LateLabels
  <1>2. Deploying(r, k) /\ k \in Keys /\ Created(k)
    BY <1>1, Working
  <1>3. /\ Covered(k) /\ Given(r, k, None)
        /\ records[k] # NoRecord /\ records[k].by = r /\ records[k].sel = req[r].sel
    BY <1>2 DEF Deploying, LateLabels
  <1>4. None \notin Envs
    BY ArgsOK
  <1>5. \A e \in Envs : IF e \in req[r].acked THEN HasUnit(r, k, e) ELSE NoUnit(k, e)
    BY <1>3, <1>4 DEF Given
  <1>6. <<r, 0>> # None
    BY UnitOf
  <1>7. \A e \in Envs : Settled(k, e)
    BY <1>5, <1>6 DEF Settled, HasUnit, NoUnit
  <1>8. QED
    BY <1>2, <1>3, <1>5, <1>7 DEF Calm

\* The answer is "ok" only when every unit of the record is mapped.
LEMMA FinalizeKeeps == ASSUME IInv, NEW r \in Requests, Finalize(r) PROVE IInv'
  <1>1. /\ req[r].pc = "finalize" /\ Active(r) /\ req[r] \in TaskRecord /\ TasksTyped /\ Sounds
        /\ Sound(r, req[r], answer[r])
    BY DEF Finalize, At, Active, IInv, TasksTyped, Sounds
  <1>2. Args[r].kind = "deploy" /\ req[r].todo \subseteq KeysOf(r) /\ req[r].acked \subseteq Envs
    BY <1>1 DEF Sound, LateLabels, TaskRecord
  <1>3. /\ UNCHANGED <<packages, records, mappings, runtimes, health, avail>>
        /\ cached' \subseteq Envs /\ tidy' = tidy /\ faults' \in 0..MaxFaults
    BY DEF Finalize, Stored, World, IInv, StoreTyped
  <1>4. CASE Finish(r, "ok") /\ (Complete(r) \/ ~ RollbackOnPartial)
    <2>1. PICK q \in TaskRecord : q = [Idle EXCEPT !.pc = "end"] /\ q.pc = "end" /\ Sound(r, q, "ok")
      BY EndRecord DEF Answers
    <2>2. req' = [req EXCEPT ![r] = q] /\ answer' = [answer EXCEPT ![r] = "ok"]
      BY <1>4, <2>1 DEF Finish, End, Step, Reply
    <2>3. "ok" \in Answers \cup {None}
      BY DEF Answers
    <2>4. Changes(r, q, "ok")
      BY <1>1, <2>1, <2>2, <2>3, TaskChanges
    <2>5. ASSUME NEW k \in tidy, k \in KeysOf(r) PROVE Calm(k) /\ Created(k)'
      <3>1. /\ Calm(k) /\ Created(k) /\ records[k].by = r /\ records[k].sel = req[r].sel
            /\ \A e \in Envs : e \in req[r].acked => HasUnit(r, k, e)
        BY <1>1, <2>5, FinalizeCalm
      <3>2. CASE ~ RollbackOnPartial
        BY <3>1, <3>2 DEF Created
      <3>3. CASE Complete(r)
        <4>1. <<r, 0>> # None
          BY UnitOf
        <4>2. \A e \in req[r].acked : mappings[k][e] = <<r, 0>>
          BY <1>2, <3>1 DEF HasUnit
        <4>3. \A e \in records[k].sel : mappings[k][e] # None
          BY <3>1, <3>3, <4>1, <4>2 DEF Complete
        <4>4. QED
          BY <1>3, <3>1, <4>3 DEF Created
      <3>4. QED
        BY <1>4, <3>1, <3>2, <3>3
    <2>6. QED
      BY <1>1, <1>3, <2>1, <2>2, <2>3, <2>5, PlainStep
  <1>5. CASE Finish(r, "failed")
    <2>1. \A k \in tidy : k \in KeysOf(r) => Calm(k)
      BY <1>1, FinalizeCalm
    <2>2. "failed" \in Answers \ {"ok"}
      BY DEF Answers
    <2>3. QED
      BY <1>1, <1>3, <1>5, <2>1, <2>2, FinishStep
  <1>6. CASE /\ Step(r, [req[r] EXCEPT !.pc = "rollback", !.left = req[r].acked])
             /\ Reply(r, "failed")
    <2> DEFINE q == [req[r] EXCEPT !.pc = "rollback", !.left = req[r].acked]
    <2>1. /\ q \in TaskRecord /\ q.pc = "rollback" /\ q.left = req[r].acked /\ q.acked = req[r].acked
          /\ q.todo = req[r].todo /\ q.sel = req[r].sel
      BY <1>1 DEF TaskRecord, Labels, LateLabels
    <2>2. req' = [req EXCEPT ![r] = q] /\ answer' = [answer EXCEPT ![r] = "failed"]
      BY <1>6 DEF Step, Reply
    <2> HIDE DEF q
    <2>3. "failed" \in Answers \cup {None}
      BY DEF Answers
    <2>4. Sound(r, q, "failed")
      BY <1>2, <2>1 DEF Sound, PackageLabels, DropLabels, EarlyLabels, LateLabels, DeleteLabels
    <2>5. Changes(r, q, "failed")
      BY <1>1, <2>1, <2>2, <2>3, <2>4, TaskChanges
    <2>6. ASSUME NEW k \in tidy, k \in KeysOf(r) PROVE AtWork(r, k)'
      <3>1. /\ Calm(k) /\ k \in Keys
            /\ records[k] # NoRecord /\ records[k].by = r /\ records[k].sel = req[r].sel
            /\ \A e \in Envs : IF e \in req[r].acked THEN HasUnit(r, k, e) ELSE NoUnit(k, e)
        BY <1>1, <2>6, FinalizeCalm
      <3>2. \A e \in Envs : Mine(k, e)' = IF e \in q.left THEN {<<r, 0>>} ELSE {}
        BY <1>3, <2>1, <3>1 DEF HasUnit, NoUnit, Mine
      <3>3. Covered(k)'
        BY <1>3, <3>1 DEF Calm, Covered
      <3>4. req'[r] = q
        BY <2>5 DEF Changes
      <3>5. Deploying(r, k)'
        BY <1>3, <2>1, <3>1, <3>2, <3>3, <3>4 DEF Deploying, EarlyLabels, LateLabels
      <3>6. QED
        BY <1>2, <3>5 DEF AtWork
    <2>7. QED
      BY <1>1, <1>3, <2>1, <2>2, <2>3, <2>4, <2>6, QuietStep
  <1>7. QED
    BY <1>4, <1>5, <1>6 DEF Finalize

\* A unit of one key is deleted, or its environment cannot be reached.
LEMMA DeleteEffect ==
    ASSUME StoreTyped, NEW e \in Envs, NEW id, NEW j \in Keys, DeleteAt(e, id, j),
           id # None => Args[id[1]].key = j,
           UNCHANGED <<packages, records, mappings, health, avail, cached, faults>>
    PROVE  /\ StoreTyped' /\ tidy' \subseteq tidy
           /\ \A k \in tidy' : k # j => SameView(k)
           /\ j \in tidy' => /\ j \in tidy
                             /\ \A d \in Envs : Mine(j, d)' = IF d = e THEN Mine(j, d) \ {id} ELSE Mine(j, d)
  <1>1. CASE runtimes' = [runtimes EXCEPT ![e] = @ \ {id}] /\ tidy' = tidy
    <2>1. \A k \in Keys, d \in Envs : Mine(k, d)' = IF d = e THEN Mine(k, d) \ {id} ELSE Mine(k, d)
      BY <1>1, MineCut
    <2>2. \A k \in Keys, d \in Envs : k # j => id \notin Mine(k, d)
      <3>1. \A d \in Envs : None \notin runtimes[d]
        BY ArgsOK DEF StoreTyped
      <3>2. QED
        BY <3>1 DEF Mine
    <2>3. \A k \in Keys : k # j => SameView(k)
      BY <2>1, <2>2 DEF SameView
    <2>4. runtimes' \in [Envs -> SUBSET UnitIds] /\ \A d \in Envs : \A u \in runtimes'[d] : u[2] = 0
      <3>1. runtimes \in [Envs -> SUBSET UnitIds] /\ \A d \in Envs : \A u \in runtimes[d] : u[2] = 0
        BY DEF StoreTyped
      <3>2. \A d \in Envs : runtimes'[d] \subseteq runtimes[d]
        BY <1>1, <3>1
      <3>3. runtimes' \in [Envs -> SUBSET UnitIds]
        BY <1>1, <3>1
      <3>4. QED
        BY <3>1, <3>2, <3>3
    <2>5. StoreTyped'
      BY <1>1, <2>4 DEF StoreTyped
    <2>6. tidy' \subseteq Keys
      BY <1>1 DEF StoreTyped
    <2>7. QED
      BY <1>1, <2>1, <2>3, <2>5, <2>6
  <1>2. CASE runtimes' = runtimes /\ tidy' = tidy \ {j}
    <2>1. StoreTyped'
      BY <1>2 DEF StoreTyped
    <2>2. \A k \in tidy' : SameView(k)
      BY <1>2 DEF SameView, Mine
    <2>3. QED
      BY <1>2, <2>1, <2>2
  <1>3. QED
    BY <1>1, <1>2 DEF DeleteAt

\* The rollback deletes the unit of one environment.
LEMMA RollbackNextKeeps == ASSUME IInv, NEW r \in Requests, RollbackNext(r) PROVE IInv'
  <1>1. /\ req[r].pc = "rollback" /\ Active(r) /\ req[r] \in TaskRecord /\ TasksTyped /\ Sounds
        /\ StoreTyped /\ Sound(r, req[r], answer[r]) /\ answer' = answer
        /\ answer[r] \in Answers \cup {None}
    BY DEF RollbackNext, At, Active, IInv, TasksTyped, Sounds
  <1>2. Args[r].kind = "deploy" /\ req[r].todo \subseteq KeysOf(r) /\ answer[r] = "failed"
    BY <1>1 DEF Sound, LateLabels
  <1>3. PICK j \in Keys : j = Args[r].key /\ KeysOf(r) = {j}
    BY <1>2, ArgTypes, KeysOfKind
  <1>4. PICK e \in req[r].left : e = First(req[r].left, req[r].seen)
    BY <1>1, FirstOf DEF RollbackNext, TaskRecord
  <1>5. /\ e \in Envs /\ DeleteAt(e, <<r, 0>>, j)
        /\ req' = [req EXCEPT ![r] = [req[r] EXCEPT !.left = @ \ {e}]]
        /\ UNCHANGED <<packages, records, mappings, health, avail, cached, faults>>
    <2>1. e \in Envs
      BY <1>1, <1>4 DEF TaskRecord
    <2>2. QED
      BY <1>3, <1>4, <2>1, UnitOf DEF RollbackNext, Stored, Step
  <1>6. PICK x \in UnitIds : x = <<r, 0>> /\ Args[x[1]].key = j
    <2>1. <<r, 0>>[1] = r /\ <<r, 0>> \in UnitIds
      BY UnitOf
    <2>2. Args[<<r, 0>>[1]].key = j
      BY <1>3, <2>1
    <2>3. QED
      BY <2>1, <2>2
  <1>7. /\ StoreTyped' /\ tidy' \subseteq tidy
        /\ \A k \in tidy' : k # j => SameView(k)
        /\ j \in tidy' => /\ j \in tidy
                          /\ \A d \in Envs : Mine(j, d)' = IF d = e THEN Mine(j, d) \ {x} ELSE Mine(j, d)
    <2>1. DeleteAt(e, x, j)
      BY <1>5, <1>6
    <2>2. QED
      BY <1>1, <1>5, <1>6, <2>1, DeleteEffect
  <1>8. PICK q \in TaskRecord : /\ req' = [req EXCEPT ![r] = q] /\ q.pc = "rollback"
                                /\ q.left = req[r].left \ {e} /\ q.todo = req[r].todo
                                /\ q.sel = req[r].sel
    <2> DEFINE q == [req[r] EXCEPT !.left = @ \ {e}]
    <2>1. /\ q \in TaskRecord /\ q.pc = "rollback" /\ q.left = req[r].left \ {e}
          /\ q.todo = req[r].todo /\ q.sel = req[r].sel
      BY <1>1 DEF TaskRecord
    <2>2. req' = [req EXCEPT ![r] = q]
      BY <1>5
    <2> HIDE DEF q
    <2>3. QED
      BY <2>1, <2>2
  <1>9. Sound(r, q, answer[r])
    BY <1>1, <1>2, <1>8
       DEF Sound, PackageLabels, DropLabels, EarlyLabels, LateLabels, DeleteLabels
  <1>10. Changes(r, q, answer[r])
    BY <1>1, <1>8, <1>9, TaskChanges
  <1>11. ASSUME j \in tidy' PROVE Created(j)' /\ Backed(j)' /\ AtWork(r, j)'
    <2>1. Deploying(r, j) /\ Backed(j)
      BY <1>1, <1>2, <1>3, <1>7, <1>11, Working
    <2>2. /\ records[j] # NoRecord /\ records[j].by = r /\ records[j].sel = req[r].sel /\ Covered(j)
          /\ \A d \in Envs : Mine(j, d) = IF d \in req[r].left THEN {<<r, 0>>} ELSE {}
      BY <1>1, <2>1 DEF Deploying, LateLabels
    <2>3. \A d \in Envs : Mine(j, d)' = IF d \in q.left THEN {<<r, 0>>} ELSE {}
      BY <1>4, <1>6, <1>7, <1>8, <1>11, <2>2
    <2>4. Covered(j)' /\ Backed(j)'
      BY <1>5, <2>1, <2>2 DEF Covered, Backed
    <2>5. Created(j)'
      BY <1>2, <1>5, <1>10, <2>2, NotYetCreated
    <2>6. req'[r] = q
      BY <1>10 DEF Changes
    <2>7. Deploying(r, j)'
      BY <1>5, <1>8, <2>2, <2>3, <2>4, <2>6 DEF Deploying, EarlyLabels, LateLabels
    <2>8. QED
      BY <1>2, <2>4, <2>5, <2>7 DEF AtWork
  <1>12. /\ q.pc \notin {"idle", "end"} /\ answer[r] # "ok" /\ packages' = packages
         /\ StoreTyped' /\ tidy' \subseteq tidy /\ \A k \in tidy' : k # j => SameView(k)
         /\ req' = [req EXCEPT ![r] = q]
    BY <1>2, <1>5, <1>7, <1>8
  <1>13. QED
    BY <1>1, <1>3, <1>9, <1>11, <1>12, KeyStep

\* The mappings of one key go, or the error is only logged.
LEMMA UnmapEffect ==
    ASSUME StoreTyped, NEW j \in Keys, RemoveMappings(j),
           UNCHANGED <<packages, records, runtimes, health, avail, cached>>
    PROVE  /\ StoreTyped' /\ tidy' \subseteq tidy
           /\ \A k \in tidy' : k # j => SameView(k)
           /\ j \in tidy' => j \in tidy /\ \A d \in Envs : mappings'[j][d] = None
           /\ \A k \in Keys, d \in Envs : Mine(k, d)' = Mine(k, d)
  <1>1. \A k \in Keys, d \in Envs : Mine(k, d)' = Mine(k, d)
    BY DEF Mine
  <1>2. CASE mappings' = [mappings EXCEPT ![j] = [e \in Envs |-> None]] /\ UNCHANGED <<tidy, faults>>
    <2>1. /\ mappings' \in [Keys -> [Envs -> UnitIds \cup {None}]]
          /\ mappings'[j] = [e \in Envs |-> None]
          /\ \A k \in Keys : k # j => mappings'[k] = mappings[k]
      BY <1>2 DEF StoreTyped
    <2>2. \A d \in Envs : mappings'[j][d] = None
      BY <2>1
    <2>3. \A k \in Keys, d \in Envs : mappings'[k][d] # None => Args[mappings'[k][d][1]].key = k
      <3>1. \A k \in Keys, d \in Envs : mappings[k][d] # None => Args[mappings[k][d][1]].key = k
        BY DEF StoreTyped
      <3>2. QED
        BY <2>1, <2>2, <3>1
    <2>4. StoreTyped'
      BY <1>2, <2>1, <2>3 DEF StoreTyped
    <2>5. \A k \in tidy' : k # j => SameView(k)
      BY <1>1, <1>2, <2>1 DEF SameView, StoreTyped
    <2>6. QED
      BY <1>1, <1>2, <2>2, <2>4, <2>5
  <1>3. CASE Fault /\ tidy' = tidy \ {j} /\ UNCHANGED mappings
    <2>1. faults' \in 0..MaxFaults
      BY <1>3, FaultTyped
    <2>2. StoreTyped'
      BY <1>3, <2>1 DEF StoreTyped
    <2>3. \A k \in tidy' : SameView(k)
      BY <1>1, <1>3 DEF SameView, StoreTyped
    <2>4. QED
      BY <1>1, <1>3, <2>2, <2>3
  <1>4. QED
    BY <1>2, <1>3 DEF RemoveMappings

\* A rolled back deployment leaves no unit and no mapping.
LEMMA RollbackEndKeeps == ASSUME IInv, NEW r \in Requests, RollbackEnd(r) PROVE IInv'
  <1>1. /\ req[r].pc = "rollback" /\ req[r].left = {} /\ Active(r) /\ TasksTyped /\ Sounds
        /\ StoreTyped /\ Sound(r, req[r], answer[r]) /\ answer' = answer
        /\ answer[r] \in Answers \cup {None}
    BY DEF RollbackEnd, At, Active, IInv, TasksTyped, Sounds
  <1>2. Args[r].kind = "deploy" /\ answer[r] = "failed"
    BY <1>1 DEF Sound, LateLabels
  <1>3. PICK j \in Keys : j = Args[r].key /\ KeysOf(r) = {j}
    BY <1>2, ArgTypes, KeysOfKind
  <1>4. /\ RemoveMappings(j) /\ End(r)
        /\ UNCHANGED <<packages, records, runtimes, health, avail, cached>>
    BY <1>3 DEF RollbackEnd, World
  <1>5. /\ StoreTyped' /\ tidy' \subseteq tidy
        /\ \A k \in tidy' : k # j => SameView(k)
        /\ j \in tidy' => j \in tidy /\ \A d \in Envs : mappings'[j][d] = None
        /\ \A k \in Keys, d \in Envs : Mine(k, d)' = Mine(k, d)
    BY <1>1, <1>4, UnmapEffect
  <1>6. PICK q \in TaskRecord : q = [Idle EXCEPT !.pc = "end"] /\ q.pc = "end" /\ Sound(r, q, "failed")
    BY EndRecord DEF Answers
  <1>7. req' = [req EXCEPT ![r] = q] /\ Sound(r, q, answer[r]) /\ answer[r] # "ok"
    BY <1>2, <1>4, <1>6 DEF End, Step
  <1>8. Changes(r, q, answer[r])
    BY <1>1, <1>7, TaskChanges
  <1>9. ASSUME j \in tidy' PROVE Created(j)' /\ Backed(j)' /\ Calm(j)'
    <2>1. Deploying(r, j) /\ Backed(j)
      BY <1>1, <1>2, <1>3, <1>5, <1>9, Working
    <2>2. records[j].by = r /\ \A d \in Envs : Mine(j, d) = {}
      BY <1>1, <2>1 DEF Deploying, LateLabels
    <2>3. Calm(j)'
      BY <1>5, <1>9, <2>2 DEF Calm, Covered, Settled
    <2>4. Backed(j)'
      BY <1>4, <2>1 DEF Backed
    <2>5. Created(j)'
      BY <1>4, <1>7, <1>8, <2>2, NotYetCreated
    <2>6. QED
      BY <2>3, <2>4, <2>5
  <1>10. QED
    BY <1>1, <1>3, <1>4, <1>5, <1>6, <1>7, <1>9, KeyStep

-----------------------------------------------------------------------------
(* Deleting a deployment                                                   *)

\* A request that deletes a deployment.
LEMMA DeleteTask ==
    ASSUME IInv, NEW r \in Requests, req[r].pc \in DeleteLabels
    PROVE  /\ Active(r) /\ req[r] \in TaskRecord /\ TasksTyped /\ Sounds /\ StoreTyped
           /\ Sound(r, req[r], answer[r])
           /\ answer[r] \in Answers \cup {None} /\ answer[r] # "ok"
           /\ Args[r].kind \in {"delete", "drop"}
           /\ req[r].key \in KeysOf(r) /\ req[r].key \in Keys /\ req[r].todo \subseteq KeysOf(r)
           /\ Args[r].kind = "delete" => KeysOf(r) = {req[r].key}
  <1>1. /\ Active(r) /\ req[r] \in TaskRecord /\ TasksTyped /\ Sounds /\ StoreTyped
        /\ Sound(r, req[r], answer[r]) /\ answer[r] \in Answers \cup {None}
    BY DEF IInv, Sounds, TasksTyped, Active, DeleteLabels
  <1>2. answer[r] # "ok"
    BY <1>1, UnansweredAtWork
  <1>3. Args[r].kind \in {"delete", "drop"} /\ req[r].key \in KeysOf(r) /\ req[r].todo \subseteq KeysOf(r)
    BY <1>1 DEF Sound
  <1>4. QED
    BY <1>1, <1>2, <1>3, KeysOfKind

\* A step of a deletion that goes on, with key j.
LEMMA DeletionStep ==
    ASSUME IInv, NEW r \in Requests, req[r].pc \in DeleteLabels, NEW j, j = req[r].key,
           NEW q \in TaskRecord, q.pc \in DeleteLabels, q.key = j, q.todo = req[r].todo,
           Sound(r, q, answer[r]), req' = [req EXCEPT ![r] = q], answer' = answer,
           StoreTyped', packages' = packages, tidy' \subseteq tidy,
           \A k \in tidy' : k # j => SameView(k),
           j \in tidy' => Created(j)' /\ Backed(j)' /\ Deleting(r, j)'
    PROVE  IInv'
  <1>1. /\ Active(r) /\ TasksTyped /\ Sounds
        /\ answer[r] \in Answers \cup {None} /\ answer[r] # "ok"
        /\ Args[r].kind \in {"delete", "drop"} /\ j \in KeysOf(r)
    BY DeleteTask
  <1>2. Changes(r, q, answer[r])
    BY <1>1, TaskChanges
  <1>3. req'[r] = q
    BY <1>2 DEF Changes
  <1>4. ASSUME NEW k \in tidy', k \in KeysOf(r), k # j PROVE AtWork(r, k)'
    <2>1. Deleting(r, k) /\ SameView(k) /\ k \in Keys
      BY <1>1, <1>4, Working
    <2>2. Calm(k)' = Calm(k) /\ records'[k] = records[k]
      BY <2>1, ViewKeeps DEF SameView
    <2>3. Calm(k) /\ (Args[r].kind = "drop" /\ Cascade /\ records[k] # NoRecord => k \in req[r].todo)
      BY <1>4, <2>1 DEF Deleting, DeleteLabels
    <2>4. Deleting(r, k)'
      BY <1>3, <1>4, <2>2, <2>3 DEF Deleting
    <2>5. QED
      BY <1>1, <2>4 DEF AtWork
  <1>5. j \in tidy' => Created(j)' /\ Backed(j)' /\ AtWork(r, j)'
    BY <1>1 DEF AtWork
  <1>6. q.pc \notin {"idle", "end"}
    BY DEF DeleteLabels
  <1>7. QED
    BY <1>1, <1>4, <1>5, <1>6, KeyStep

\* A deletion that ends: the request is answered, or the package deletion goes on.
LEMMA DeletedTask ==
    ASSUME IInv, NEW r \in Requests, req[r].pc \in DeleteLabels, NEW a \in Answers \ {"ok"},
           Deleted(r, a)
    PROVE  \E q \in TaskRecord, b \in Answers \cup {None} :
              /\ Sound(r, q, b) /\ b # "ok" /\ req' = [req EXCEPT ![r] = q]
              /\ answer' = [answer EXCEPT ![r] = b] \/ (answer' = answer /\ answer[r] = b)
              /\ Args[r].kind = "drop" => q.pc = "cascade" /\ q.todo = req[r].todo
              /\ Args[r].kind # "drop" => q.pc = "end"
  <1>1. /\ TasksTyped /\ Sound(r, req[r], answer[r])
        /\ answer[r] \in Answers \cup {None} /\ answer[r] # "ok" /\ req[r].todo \subseteq KeysOf(r)
    BY DeleteTask
  <1>2. CASE Args[r].kind = "drop"
    <2>1. Move(r, "cascade") /\ answer' = answer
      BY <1>2 DEF Deleted
    <2>2. PICK q \in TaskRecord : /\ req' = [req EXCEPT ![r] = q]
                                  /\ q.pc = "cascade" /\ q.todo = req[r].todo
      <3>1. "cascade" \in Labels
        BY DEF Labels, DropLabels
      <3>2. QED
        BY <1>1, <2>1, <3>1, MoveTask
    <2>3. Sound(r, q, answer[r])
      BY <1>1, <1>2, <2>2
         DEF Sound, PackageLabels, DropLabels, EarlyLabels, LateLabels, DeleteLabels
    <2>4. QED
      BY <1>1, <1>2, <2>1, <2>2, <2>3
  <1>3. CASE Args[r].kind # "drop"
    <2>1. PICK q \in TaskRecord : q = [Idle EXCEPT !.pc = "end"] /\ q.pc = "end" /\ Sound(r, q, a)
      BY EndRecord
    <2>2. req' = [req EXCEPT ![r] = q] /\ answer' = [answer EXCEPT ![r] = a]
      BY <1>3, <2>1 DEF Deleted, Finish, End, Step, Reply
    <2>3. QED
      BY <1>3, <2>1, <2>2
  <1>4. QED
    BY <1>2, <1>3

\* The last step of a deletion of key j, which leaves no record or an untidy key.
LEMMA DeletedStep ==
    ASSUME IInv, NEW r \in Requests, req[r].pc \in DeleteLabels, NEW j, j = req[r].key,
           NEW a \in Answers \ {"ok"}, Deleted(r, a),
           StoreTyped', packages' = packages, tidy' \subseteq tidy,
           \A k \in tidy' : k # j => SameView(k),
           j \in tidy' => Calm(j)' /\ records'[j] = NoRecord
    PROVE  IInv'
  <1>1. /\ Active(r) /\ TasksTyped /\ Sounds
        /\ Args[r].kind \in {"delete", "drop"} /\ j \in KeysOf(r) /\ j \in Keys
        /\ Args[r].kind = "delete" => KeysOf(r) = {j}
    BY DeleteTask
  <1>2. PICK q \in TaskRecord, b \in Answers \cup {None} :
          /\ Sound(r, q, b) /\ b # "ok" /\ req' = [req EXCEPT ![r] = q]
          /\ answer' = [answer EXCEPT ![r] = b] \/ (answer' = answer /\ answer[r] = b)
          /\ Args[r].kind = "drop" => q.pc = "cascade" /\ q.todo = req[r].todo
          /\ Args[r].kind # "drop" => q.pc = "end"
    BY DeletedTask
  <1>3. Changes(r, q, b)
    BY <1>1, <1>2, TaskChanges
  <1>4. ASSUME NEW k \in tidy', k \in KeysOf(r), k # j
        PROVE  q.pc \notin {"idle", "end"} /\ AtWork(r, k)'
    <2>1. Deleting(r, k) /\ SameView(k) /\ k \in Keys
      BY <1>1, <1>4, Working
    <2>2. Calm(k)' = Calm(k) /\ records'[k] = records[k]
      BY <2>1, ViewKeeps DEF SameView
    <2>3. Args[r].kind = "drop"
      BY <1>1, <1>4
    <2>4. Calm(k) /\ (Cascade /\ records[k] # NoRecord => k \in req[r].todo)
      BY <1>4, <2>1, <2>3 DEF Deleting, DeleteLabels
    <2>5. q.pc = "cascade" /\ q.todo = req[r].todo
      BY <1>2, <2>3
    <2>6. AtWork(r, k)'
      BY <1>3, <2>1, <2>2, <2>3, <2>4, <2>5, DropWork DEF DropLabels
    <2>7. QED
      BY <2>5, <2>6
  <1>5. ASSUME j \in tidy'
        PROVE  /\ Created(j)' /\ Backed(j)' /\ Calm(j)'
               /\ q.pc \notin {"idle", "end"} => AtWork(r, j)'
    <2>1. Calm(j)' /\ records'[j] = NoRecord
      BY <1>5
    <2>2. Created(j)' /\ Backed(j)'
      BY <2>1 DEF Created, Backed
    <2>3. ASSUME q.pc \notin {"idle", "end"} PROVE AtWork(r, j)'
      <3>1. Args[r].kind = "drop" /\ q.pc = "cascade"
        BY <1>1, <1>2, <2>3
      <3>2. QED
        BY <1>1, <1>3, <2>1, <3>1, DropWork DEF DropLabels
    <2>4. QED
      BY <2>1, <2>2, <2>3
  <1>6. QED
    BY <1>1, <1>2, <1>4, <1>5, KeyStep

\* The deletion reads the record: the key is at rest until the first unit is deleted.
LEMMA LoadRecordKeeps == ASSUME IInv, NEW r \in Requests, LoadRecord(r) PROVE IInv'
  <1>1. req[r].pc = "delete" /\ req[r].pc \in DeleteLabels
    BY DEF LoadRecord, At, DeleteLabels
  <1>2. PICK j \in Keys : j = req[r].key /\ j \in KeysOf(r)
    BY <1>1, DeleteTask
  <1>3. /\ Active(r) /\ req[r] \in TaskRecord /\ Sound(r, req[r], answer[r]) /\ StoreTyped
        /\ req[r].todo \subseteq KeysOf(r) /\ Args[r].kind \in {"delete", "drop"}
    BY <1>1, DeleteTask
  <1>4. UNCHANGED <<packages, records, mappings, runtimes, health, avail, cached, tidy, faults>>
    BY DEF LoadRecord, Stored, World
  <1>5. StoreTyped' /\ \A k \in Keys : SameView(k)
    BY <1>3, <1>4 DEF StoreTyped, SameView, Mine
  <1>6. ASSUME j \in tidy
        PROVE  Created(j) /\ Backed(j) /\ Deleting(r, j) /\ Calm(j) /\ Calm(j)'
    <2>1. Created(j) /\ Backed(j) /\ Deleting(r, j)
      BY <1>2, <1>3, <1>6, Working
    <2>2. Calm(j)
      BY <1>1, <2>1 DEF Deleting
    <2>3. QED
      BY <1>5, <2>1, <2>2, ViewKeeps
  <1>7. tidy \subseteq Keys
    BY <1>3 DEF StoreTyped
  <1>8. CASE records[j] = NoRecord
    <2>1. Deleted(r, "refused") /\ "refused" \in Answers \ {"ok"}
      BY <1>2, <1>8 DEF LoadRecord, Answers
    <2>2. j \in tidy' => Calm(j)' /\ records'[j] = NoRecord
      BY <1>4, <1>6, <1>8
    <2>3. /\ packages' = packages /\ tidy' \subseteq tidy
          /\ \A k \in tidy' : k # j => SameView(k)
      BY <1>4, <1>5, <1>7
    <2>4. QED
      BY <1>1, <1>2, <1>5, <2>1, <2>2, <2>3, DeletedStep
  <1>9. CASE records[j] # NoRecord
    <2>1. PICK L \in SUBSET Envs, s \in [Envs -> 0..100] : L = records[j].sel /\ s = records[j].seen
      BY <1>3, <1>9 DEF StoreTyped, RecordOK
    <2>2. /\ req' = [req EXCEPT ![r] = [req[r] EXCEPT !.pc = "loadIds", !.left = L, !.seen = s]]
          /\ answer' = answer
      BY <1>2, <1>9, <2>1 DEF LoadRecord, Step
    <2>3. PICK q \in TaskRecord : /\ req' = [req EXCEPT ![r] = q] /\ q.pc = "loadIds" /\ q.key = j
                                  /\ q.todo = req[r].todo /\ q.left = L
      <3> DEFINE q == [req[r] EXCEPT !.pc = "loadIds", !.left = L, !.seen = s]
      <3>1. /\ q \in TaskRecord /\ q.pc = "loadIds" /\ q.key = j
            /\ q.todo = req[r].todo /\ q.left = L
        BY <1>2, <1>3 DEF TaskRecord, Labels, DeleteLabels
      <3>2. req' = [req EXCEPT ![r] = q]
        BY <2>2
      <3> HIDE DEF q
      <3>3. QED
        BY <3>1, <3>2
    <2>4. Sound(r, q, answer[r])
      BY <1>1, <1>2, <1>3, <2>3
         DEF Sound, PackageLabels, DropLabels, EarlyLabels, LateLabels, DeleteLabels
    <2>5. req'[r] = q
      BY <2>3, <1>3 DEF IInv, TasksTyped
    <2>6. ASSUME j \in tidy' PROVE Created(j)' /\ Backed(j)' /\ Deleting(r, j)'
      <3>1. Created(j) /\ Backed(j) /\ Calm(j)'
        BY <1>4, <1>6, <2>6
      <3>2. Created(j)' /\ Backed(j)'
        BY <1>4, <2>2, <3>1 DEF Created, Backed
      <3>3. Deleting(r, j)'
        BY <1>4, <1>9, <2>1, <2>3, <2>5, <3>1 DEF Deleting
      <3>4. QED
        BY <3>2, <3>3
    <2>7. /\ packages' = packages /\ tidy' \subseteq tidy /\ answer' = answer
          /\ \A k \in tidy' : k # j => SameView(k)
          /\ q.pc \in DeleteLabels
      BY <1>4, <1>5, <1>7, <2>2, <2>3 DEF DeleteLabels
    <2>8. QED
      BY <1>1, <1>2, <1>5, <2>3, <2>4, <2>6, <2>7, DeletionStep
  <1>10. QED
    BY <1>8, <1>9

\* The deletion reads the mappings: every unit of the key is one of the record's.
LEMMA LoadIdsKeeps == ASSUME IInv, NEW r \in Requests, LoadIds(r) PROVE IInv'
  <1>1. req[r].pc = "loadIds" /\ req[r].pc \in DeleteLabels
    BY DEF LoadIds, At, DeleteLabels
  <1>2. PICK j \in Keys : j = req[r].key /\ j \in KeysOf(r)
    BY <1>1, DeleteTask
  <1>3. /\ Active(r) /\ req[r] \in TaskRecord /\ Sound(r, req[r], answer[r]) /\ StoreTyped
        /\ req[r].todo \subseteq KeysOf(r) /\ Args[r].kind \in {"delete", "drop"}
    BY <1>1, DeleteTask
  <1>4. /\ UNCHANGED <<packages, records, mappings, runtimes, health, avail, cached, tidy, faults>>
        /\ answer' = answer
    BY DEF LoadIds, Stored, World
  <1>5. StoreTyped' /\ \A k \in Keys : SameView(k)
    BY <1>3, <1>4 DEF StoreTyped, SameView, Mine
  <1>6. PICK m \in [Envs -> UnitIds \cup {None}] :
           m = mappings[j] /\ \A e \in Envs : m[e] # None => Args[m[e][1]].key = j
    BY <1>3 DEF StoreTyped
  <1>7. req' = [req EXCEPT ![r] = [req[r] EXCEPT !.pc = "deleteUnits", !.ids = m]]
    BY <1>2, <1>6 DEF LoadIds, Step
  <1>8. PICK q \in TaskRecord : /\ req' = [req EXCEPT ![r] = q] /\ q.pc = "deleteUnits" /\ q.key = j
                                /\ q.todo = req[r].todo /\ q.left = req[r].left /\ q.ids = m
    <2> DEFINE q == [req[r] EXCEPT !.pc = "deleteUnits", !.ids = m]
    <2>1. /\ q \in TaskRecord /\ q.pc = "deleteUnits" /\ q.key = j
          /\ q.todo = req[r].todo /\ q.left = req[r].left /\ q.ids = m
      BY <1>2, <1>3 DEF TaskRecord, Labels, DeleteLabels
    <2>2. req' = [req EXCEPT ![r] = q]
      BY <1>7
    <2> HIDE DEF q
    <2>3. QED
      BY <2>1, <2>2
  <1>9. Sound(r, q, answer[r])
    BY <1>1, <1>2, <1>3, <1>6, <1>8
       DEF Sound, PackageLabels, DropLabels, EarlyLabels, LateLabels, DeleteLabels
  <1>10. req'[r] = q
    BY <1>8 DEF IInv, TasksTyped
  <1>11. ASSUME j \in tidy' PROVE Created(j)' /\ Backed(j)' /\ Deleting(r, j)'
    <2>1. Created(j) /\ Backed(j) /\ Deleting(r, j)
      BY <1>2, <1>3, <1>4, <1>11, Working
    <2>2. Calm(j) /\ records[j] # NoRecord /\ req[r].left = records[j].sel
      BY <1>1, <1>2, <2>1 DEF Deleting
    <2>3. Created(j)' /\ Backed(j)'
      BY <1>4, <2>1 DEF Created, Backed
    <2>4. \A e \in Envs : IF e \in req[r].left THEN Settled(j, e) ELSE Mine(j, e) = {}
      BY <2>2 DEF Calm, Covered, Settled
    <2>5. Covered(j)' /\ \A e \in Envs : IF e \in q.left THEN Settled(j, e)' ELSE Mine(j, e)' = {}
      BY <1>5, <1>8, <2>2, <2>4, ViewKeeps DEF Calm, SameView
    <2>6. Deleting(r, j)'
      BY <1>4, <1>6, <1>8, <1>10, <2>5 DEF Deleting, DropLabels
    <2>7. QED
      BY <2>3, <2>6
  <1>12. /\ packages' = packages /\ tidy' \subseteq tidy
         /\ \A k \in tidy' : k # j => SameView(k)
         /\ q.pc \in DeleteLabels
    BY <1>3, <1>4, <1>5, <1>8 DEF DeleteLabels, StoreTyped
  <1>13. QED
    BY <1>1, <1>2, <1>4, <1>5, <1>8, <1>9, <1>11, <1>12, DeletionStep

\* One unit is deleted under the id its mapping has: no unit of the key stays there.
LEMMA DeleteUnitKeeps == ASSUME IInv, NEW r \in Requests, DeleteUnit(r) PROVE IInv'
  <1>1. req[r].pc = "deleteUnits" /\ req[r].pc \in DeleteLabels
    BY DEF DeleteUnit, At, DeleteLabels
  <1>2. PICK j \in Keys : j = req[r].key /\ j \in KeysOf(r)
    BY <1>1, DeleteTask
  <1>3. /\ Active(r) /\ req[r] \in TaskRecord /\ Sound(r, req[r], answer[r]) /\ StoreTyped
        /\ req[r].todo \subseteq KeysOf(r) /\ Args[r].kind \in {"delete", "drop"}
    BY <1>1, DeleteTask
  <1>4. PICK e \in req[r].left : e = First(req[r].left, req[r].seen)
    BY <1>3, FirstOf DEF DeleteUnit, TaskRecord
  <1>5. PICK x \in UnitIds \cup {None} : x = req[r].ids[e] /\ e \in Envs
    BY <1>3, <1>4 DEF TaskRecord
  <1>6. /\ DeleteAt(e, x, j)
        /\ req' = [req EXCEPT ![r] = [req[r] EXCEPT !.left = @ \ {e}]]
        /\ UNCHANGED <<packages, records, mappings, health, avail, cached, faults>>
        /\ answer' = answer
    BY <1>2, <1>4, <1>5 DEF DeleteUnit, Stored, Step
  <1>7. x # None => Args[x[1]].key = j
    BY <1>1, <1>2, <1>3, <1>5 DEF Sound
  <1>8. /\ StoreTyped' /\ tidy' \subseteq tidy
        /\ \A k \in tidy' : k # j => SameView(k)
        /\ j \in tidy' => /\ j \in tidy
                          /\ \A d \in Envs : Mine(j, d)' = IF d = e THEN Mine(j, d) \ {x} ELSE Mine(j, d)
    BY <1>3, <1>5, <1>6, <1>7, DeleteEffect
  <1>9. PICK q \in TaskRecord : /\ req' = [req EXCEPT ![r] = q] /\ q.pc = "deleteUnits" /\ q.key = j
                                /\ q.todo = req[r].todo /\ q.left = req[r].left \ {e}
                                /\ q.ids = req[r].ids
    <2> DEFINE q == [req[r] EXCEPT !.left = @ \ {e}]
    <2>1. /\ q \in TaskRecord /\ q.pc = "deleteUnits" /\ q.key = j
          /\ q.todo = req[r].todo /\ q.left = req[r].left \ {e} /\ q.ids = req[r].ids
      BY <1>1, <1>2, <1>3 DEF TaskRecord
    <2>2. req' = [req EXCEPT ![r] = q]
      BY <1>6
    <2> HIDE DEF q
    <2>3. QED
      BY <2>1, <2>2
  <1>10. Sound(r, q, answer[r])
    BY <1>1, <1>2, <1>3, <1>9
       DEF Sound, PackageLabels, DropLabels, EarlyLabels, LateLabels, DeleteLabels
  <1>11. req'[r] = q
    BY <1>9 DEF IInv, TasksTyped
  <1>12. ASSUME j \in tidy' PROVE Created(j)' /\ Backed(j)' /\ Deleting(r, j)'
    <2>1. Created(j) /\ Backed(j) /\ Deleting(r, j)
      BY <1>2, <1>3, <1>8, <1>12, Working
    <2>2. /\ Covered(j) /\ req[r].ids = mappings[j]
          /\ \A d \in Envs : IF d \in req[r].left THEN Settled(j, d) ELSE Mine(j, d) = {}
      BY <1>1, <1>2, <2>1 DEF Deleting
    <2>3. Created(j)' /\ Backed(j)' /\ Covered(j)'
      BY <1>6, <2>1, <2>2 DEF Created, Backed, Covered
    <2>4. \A d \in Envs : d # e => Mine(j, d)' = Mine(j, d) /\ Settled(j, d)' = Settled(j, d)
      BY <1>6, <1>8, <1>12 DEF Settled
    <2>5. Mine(j, e)' = {}
      BY <1>4, <1>5, <1>8, <1>12, <2>2 DEF Settled
    <2>6. \A d \in Envs : IF d \in q.left THEN Settled(j, d)' ELSE Mine(j, d)' = {}
      BY <1>4, <1>9, <2>2, <2>4, <2>5
    <2>7. Deleting(r, j)'
      BY <1>6, <1>9, <1>11, <2>2, <2>3, <2>6 DEF Deleting, DropLabels
    <2>8. QED
      BY <2>3, <2>7
  <1>13. packages' = packages /\ q.pc \in DeleteLabels
    BY <1>6, <1>9 DEF DeleteLabels
  <1>14. QED
    BY <1>1, <1>2, <1>6, <1>8, <1>9, <1>10, <1>12, <1>13, DeletionStep

\* The record goes when every unit has; a storage error leaves the key untidy.
LEMMA DeleteRecordKeeps == ASSUME IInv, NEW r \in Requests, DeleteRecord(r) PROVE IInv'
  <1>1. req[r].pc = "deleteUnits" /\ req[r].pc \in DeleteLabels /\ req[r].left = {}
    BY DEF DeleteRecord, At, DeleteLabels
  <1>2. PICK j \in Keys : j = req[r].key /\ j \in KeysOf(r)
    BY <1>1, DeleteTask
  <1>3. /\ Active(r) /\ TasksTyped /\ Sound(r, req[r], answer[r]) /\ StoreTyped
        /\ req[r].todo \subseteq KeysOf(r) /\ Args[r].kind \in {"delete", "drop"}
    BY <1>1, DeleteTask
  <1>4. UNCHANGED <<packages, mappings, runtimes, health, avail, cached>>
    BY DEF DeleteRecord, World
  <1>5. \A k \in Keys, d \in Envs : Mine(k, d)' = Mine(k, d)
    BY <1>4 DEF Mine
  <1>6. tidy \subseteq Keys
    BY <1>3 DEF StoreTyped
  <1>7. CASE records' = [records EXCEPT ![j] = NoRecord] /\ Move(r, "unmap")
             /\ UNCHANGED <<answer, tidy, faults>>
    <2>1. /\ DOMAIN records' = Keys /\ records'[j] = NoRecord
          /\ \A k \in Keys : k # j => records'[k] = records[k]
      BY <1>3, <1>7 DEF StoreTyped
    <2>2. StoreTyped'
      <3>1. \A k \in Keys : records'[k] # NoRecord => RecordOK(records'[k])
        BY <1>3, <2>1 DEF StoreTyped
      <3>2. QED
        BY <1>3, <1>4, <1>7, <2>1, <3>1 DEF StoreTyped, RecordOK
    <2>3. \A k \in tidy' : k # j => SameView(k)
      BY <1>4, <1>5, <1>6, <1>7, <2>1 DEF SameView
    <2>4. PICK q \in TaskRecord : /\ req' = [req EXCEPT ![r] = q] /\ q.pc = "unmap" /\ q.key = j
                                  /\ q.todo = req[r].todo
      <3>1. "unmap" \in Labels
        BY DEF Labels, DeleteLabels
      <3>2. QED
        BY <1>2, <1>3, <1>7, <3>1, MoveTask
    <2>5. Sound(r, q, answer[r])
      BY <1>1, <1>2, <1>3, <2>4
         DEF Sound, PackageLabels, DropLabels, EarlyLabels, LateLabels, DeleteLabels
    <2>6. req'[r] = q
      BY <1>3, <2>4 DEF TasksTyped
    <2>7. ASSUME j \in tidy' PROVE Created(j)' /\ Backed(j)' /\ Deleting(r, j)'
      <3>1. Deleting(r, j)
        BY <1>2, <1>3, <1>7, <2>7, Working
      <3>2. \A d \in Envs : Mine(j, d) = {}
        BY <1>1, <1>2, <3>1 DEF Deleting
      <3>3. Created(j)' /\ Backed(j)'
        BY <2>1 DEF Created, Backed
      <3>4. Deleting(r, j)'
        BY <1>5, <2>1, <2>4, <2>6, <3>2 DEF Deleting, DropLabels
      <3>5. QED
        BY <3>3, <3>4
    <2>8. packages' = packages /\ tidy' \subseteq tidy /\ answer' = answer /\ q.pc \in DeleteLabels
      BY <1>4, <1>7, <2>4 DEF DeleteLabels
    <2>9. QED
      BY <1>1, <1>2, <2>2, <2>3, <2>4, <2>5, <2>7, <2>8, DeletionStep
  <1>8. CASE Fault /\ Deleted(r, "failed") /\ tidy' = tidy \ {j} /\ UNCHANGED records
    <2>1. faults' \in 0..MaxFaults
      BY <1>3, <1>8, FaultTyped
    <2>2. StoreTyped'
      BY <1>3, <1>4, <1>8, <2>1 DEF StoreTyped
    <2>3. \A k \in tidy' : k # j => SameView(k)
      BY <1>4, <1>5, <1>6, <1>8 DEF SameView
    <2>4. "failed" \in Answers \ {"ok"} /\ j \notin tidy' /\ tidy' \subseteq tidy /\ packages' = packages
      BY <1>4, <1>8 DEF Answers
    <2>5. QED
      BY <1>1, <1>2, <1>8, <2>2, <2>3, <2>4, DeletedStep
  <1>9. QED
    BY <1>2, <1>7, <1>8 DEF DeleteRecord

\* The mappings go last: the key is empty.
LEMMA UnmapKeeps == ASSUME IInv, NEW r \in Requests, Unmap(r) PROVE IInv'
  <1>1. req[r].pc = "unmap" /\ req[r].pc \in DeleteLabels
    BY DEF Unmap, At, DeleteLabels
  <1>2. PICK j \in Keys : j = req[r].key /\ j \in KeysOf(r)
    BY <1>1, DeleteTask
  <1>3. Active(r) /\ StoreTyped /\ Args[r].kind \in {"delete", "drop"}
    BY <1>1, DeleteTask
  <1>4. /\ RemoveMappings(j) /\ Deleted(r, "deleted") /\ "deleted" \in Answers \ {"ok"}
        /\ UNCHANGED <<packages, records, runtimes, health, avail, cached>>
    BY <1>2 DEF Unmap, World, Answers
  <1>5. /\ StoreTyped' /\ tidy' \subseteq tidy
        /\ \A k \in tidy' : k # j => SameView(k)
        /\ j \in tidy' => j \in tidy /\ \A d \in Envs : mappings'[j][d] = None
        /\ \A k \in Keys, d \in Envs : Mine(k, d)' = Mine(k, d)
    BY <1>3, <1>4, UnmapEffect
  <1>6. ASSUME j \in tidy' PROVE Calm(j)' /\ records'[j] = NoRecord
    <2>1. Deleting(r, j)
      BY <1>2, <1>3, <1>5, <1>6, Working
    <2>2. records[j] = NoRecord /\ \A d \in Envs : Mine(j, d) = {}
      BY <1>1, <1>2, <2>1 DEF Deleting
    <2>3. Calm(j)'
      BY <1>5, <1>6, <2>2 DEF Calm, Covered, Settled
    <2>4. QED
      BY <1>4, <2>2, <2>3
  <1>7. packages' = packages
    BY <1>4
  <1>8. QED
    BY <1>1, <1>2, <1>4, <1>5, <1>6, <1>7, DeletedStep

-----------------------------------------------------------------------------
(* Arrivals and the environments                                           *)

\* A request that arrives finds the keys that stay tidy at rest.
LEMMA ArriveKeeps == ASSUME IInv, NEW r \in Requests, Arrive(r) PROVE IInv'
  <1>1. /\ req[r].pc = "idle" /\ req[r] \in TaskRecord /\ TasksTyped /\ Sounds /\ StoreTyped
        /\ Sound(r, req[r], answer[r]) /\ answer' = answer /\ answer[r] \in Answers \cup {None}
    BY DEF Arrive, At, IInv, TasksTyped, Sounds
  <1>2. UNCHANGED <<packages, records, mappings, runtimes, health, avail, cached, faults>>
    BY DEF Arrive, Stored, World
  <1>3. PICK l \in Kinds, j \in Keys : l = Args[r].kind /\ j = Args[r].key
    BY ArgTypes
  <1>4. req' = [req EXCEPT ![r] = [req[r] EXCEPT !.pc = l, !.key = j]]
    <2>1. req' = [req EXCEPT ![r].pc = l, ![r].key = j]
      BY <1>3 DEF Arrive
    <2>2. QED
      BY <1>1, <2>1 DEF TasksTyped, TaskRecord
  <1>5. PICK q \in TaskRecord : /\ req' = [req EXCEPT ![r] = q] /\ q.pc = l /\ q.key = j
                                /\ q.todo = req[r].todo /\ q.acked = req[r].acked
    <2> DEFINE q == [req[r] EXCEPT !.pc = l, !.key = j]
    <2>1. l \in Labels
      BY DEF Kinds, Labels, PackageLabels, DropLabels, EarlyLabels, DeleteLabels
    <2>2. /\ q \in TaskRecord /\ q.pc = l /\ q.key = j
          /\ q.todo = req[r].todo /\ q.acked = req[r].acked
      BY <1>1, <2>1 DEF TaskRecord
    <2>3. req' = [req EXCEPT ![r] = q]
      BY <1>4
    <2> HIDE DEF q
    <2>4. QED
      BY <2>2, <2>3
  <1>6. Sound(r, q, answer[r])
    <2>1. req[r].todo \subseteq KeysOf(r) /\ req[r].acked = {} /\ answer[r] # "ok"
      BY <1>1 DEF Sound
    <2>2. l = "delete" => j \in KeysOf(r)
      BY <1>3, KeysOfKind
    <2>3. QED
      BY <1>3, <1>5, <2>1, <2>2
         DEF Sound, Kinds, PackageLabels, DropLabels, EarlyLabels, LateLabels, DeleteLabels
  <1>7. Changes(r, q, answer[r]) /\ TasksTyped' /\ Sounds'
    BY <1>1, <1>5, <1>6, TaskChanges
  <1>8. req'[r] = q /\ q.pc \notin {"idle", "end"}
    BY <1>5, <1>7 DEF Changes, Kinds
  <1>9. ASSUME NEW k \in tidy' PROVE KeyInv(k)'
    <2>1. /\ k \in tidy
          /\ k \in KeysOf(r) =>
                BusyWith(k) = {} /\ (l = "deploy" => \A e \in Envs : mappings[k][e] = None)
      BY <1>3, <1>9 DEF Arrive
    <2>2. k \in Keys /\ KeyInv(k) /\ SameView(k)
      BY <1>1, <1>2, <2>1 DEF IInv, KeysInv, StoreTyped, SameView, Mine
    <2>3. CASE k \notin KeysOf(r)
      BY <1>1, <1>2, <1>7, <2>2, <2>3, OtherKey
    <2>4. CASE k \in KeysOf(r)
      <3>1. Calm(k)' /\ Created(k) /\ Backed(k) /\ BusyWith(k) = {}
        BY <2>1, <2>2, <2>4, ViewKeeps DEF KeyInv
      <3>2. Created(k)' /\ Backed(k)'
        BY <1>1, <1>2, <3>1 DEF Created, Backed
      <3>3. BusyWith(k)' = {r}
        <4>1. \A s \in Requests : s # r => s \notin BusyWith(k)'
          BY <1>7, <3>1 DEF BusyWith, Active, Changes
        <4>2. r \in BusyWith(k)'
          BY <1>8, <2>4 DEF BusyWith, Active
        <4>3. QED
          BY <4>1, <4>2 DEF BusyWith
      <3>4. l \in {"deploy", "delete", "drop"}
        BY <1>1, <1>3, <2>4, WorkLabels
      <3>5. AtWork(r, k)'
        <4>1. CASE l = "deploy"
          <5>1. Unmapped(k)'
            BY <1>2, <2>1, <2>4, <4>1 DEF Unmapped
          <5>2. Args[r].kind = "deploy" /\ q.pc = "deploy" /\ q.pc \in EarlyLabels
            BY <1>3, <1>5, <4>1 DEF EarlyLabels
          <5>3. QED
            BY <1>7, <2>2, <3>1, <5>1, <5>2, EarlyWork
        <4>2. CASE l \in {"delete", "drop"}
          <5>1. Args[r].kind = l /\ req'[r].pc = l
            BY <1>3, <1>5, <1>8
          <5>2. Deleting(r, k)'
            BY <3>1, <4>2, <5>1 DEF Deleting
          <5>3. QED
            BY <4>2, <5>1, <5>2 DEF AtWork
        <4>3. QED
          BY <3>4, <4>1, <4>2
      <3>6. QED
        BY <3>1, <3>2, <3>3, <3>5 DEF KeyInv
    <2>5. QED
      BY <2>3, <2>4
  <1>10. StoreTyped'
    <2>1. tidy' \subseteq Keys
      BY <1>1 DEF Arrive, StoreTyped
    <2>2. QED
      BY <1>1, <1>2, <2>1 DEF StoreTyped
  <1>11. QED
    BY <1>7, <1>9, <1>10 DEF IInv, KeysInv

\* What no request, no record, no mapping and no unit changes keeps the keys.
LEMMA StillKeys ==
    ASSUME KeysInv, UNCHANGED <<packages, records, mappings, runtimes, req, answer, tidy>>
    PROVE  KeysInv'
  <1>1. ASSUME NEW k PROVE KeyInv(k)' = KeyInv(k)
    <2>1. \A e : Mine(k, e)' = Mine(k, e) /\ Settled(k, e)' = Settled(k, e)
      BY DEF Mine, Settled
    <2>2. Covered(k)' = Covered(k) /\ Unmapped(k)' = Unmapped(k)
      BY DEF Covered, Unmapped
    <2>3. Calm(k)' = Calm(k)
      BY <2>1, <2>2 DEF Calm
    <2>4. \A r, d : Given(r, k, d)' = Given(r, k, d)
      BY <2>1 DEF Given, HasUnit, NoUnit
    <2>5. \A r : Deploying(r, k)' = Deploying(r, k)
      BY <2>1, <2>2, <2>3, <2>4 DEF Deploying
    <2>6. \A r : Deleting(r, k)' = Deleting(r, k)
      BY <2>1, <2>2, <2>3 DEF Deleting
    <2>7. \A r : AtWork(r, k)' = AtWork(r, k)
      BY <2>5, <2>6 DEF AtWork
    <2>8. BusyWith(k)' = BusyWith(k)
      BY DEF BusyWith, Active
    <2>9. Created(k)' = Created(k) /\ Backed(k)' = Backed(k)
      BY DEF Created, Backed
    <2>10. QED
      BY <2>3, <2>7, <2>8, <2>9 DEF KeyInv
  <1>2. QED
    BY <1>1 DEF KeysInv

\* The tasks do not depend on the environments.
LEMMA StillTasks ==
    ASSUME TasksTyped, Sounds, UNCHANGED <<req, answer>>
    PROVE  TasksTyped' /\ Sounds'
  <1>1. TasksTyped'
    BY DEF TasksTyped
  <1>2. \A r \in Requests : Sound(r, req[r], answer[r])' = Sound(r, req[r], answer[r])
    BY DEF Sound
  <1>3. QED
    BY <1>1, <1>2 DEF Sounds

\* An environment that fails or recovers changes its health only.
LEMMA HealthKeeps ==
    ASSUME IInv, NEW e \in Envs, Worsen(e) \/ Recover(e)
    PROVE  IInv'
  <1>1. StoreTyped /\ TasksTyped /\ Sounds /\ KeysInv
    BY DEF IInv
  <1>2. /\ UNCHANGED <<packages, records, mappings, runtimes, req, answer, tidy>>
        /\ UNCHANGED <<avail, cached>>
    BY DEF Worsen, Recover, Stored
  <1>3. health' \in [Envs -> Statuses]
    BY <1>1 DEF Worsen, Recover, StoreTyped, Statuses
  <1>4. faults' \in 0..MaxFaults
    <2>1. CASE Worsen(e)
      BY <1>1, <2>1, FaultTyped DEF Worsen
    <2>2. CASE Recover(e)
      BY <1>1, <2>2 DEF Recover, StoreTyped
    <2>3. QED
      BY <2>1, <2>2
  <1>5. StoreTyped'
    BY <1>1, <1>2, <1>3, <1>4 DEF StoreTyped
  <1>6. QED
    BY <1>1, <1>2, <1>5, StillKeys, StillTasks DEF IInv

\* A step that changes nothing.
LEMMA StutterKeeps == ASSUME IInv, UNCHANGED vars PROVE IInv'
  <1>1. StoreTyped'
    BY DEF IInv, vars, StoreTyped
  <1>2. QED
    BY <1>1, StillKeys, StillTasks DEF IInv, vars

-----------------------------------------------------------------------------
(* The theorems                                                            *)

\* Nothing is deployed and nobody is at work when the package manager starts.
LEMMA InitKeeps == ASSUME Init PROVE IInv
  <1>1. StoreTyped
    <2>1. MaxFaults \in Nat /\ Availabilities \subseteq [Envs -> 0..100]
      BY ArgsOK
    <2>2. records = [k \in Keys |-> NoRecord] /\ mappings = [k \in Keys |-> [e \in Envs |-> None]]
      BY DEF Init
    <2>3. /\ DOMAIN records = Keys /\ \A k \in Keys : records[k] = NoRecord
          /\ mappings \in [Keys -> [Envs -> UnitIds \cup {None}]]
          /\ \A k \in Keys, e \in Envs : mappings[k][e] = None
      BY <2>2
    <2>4. runtimes \in [Envs -> SUBSET UnitIds] /\ \A e \in Envs : runtimes[e] = {}
      BY DEF Init
    <2>5. health \in [Envs -> Statuses] /\ avail \in [Envs -> 0..100] /\ faults \in 0..MaxFaults
      BY <2>1 DEF Init, Statuses
    <2>6. QED
      BY <2>3, <2>4, <2>5 DEF Init, StoreTyped
  <1>2. TasksTyped
    BY IdleTyped DEF Init, TasksTyped
  <1>3. Sounds
    <2>1. PICK q \in TaskRecord : q = Idle /\ q.pc = "idle" /\ q.todo = {} /\ q.acked = {}
      BY IdleTyped DEF Idle
    <2>2. \A r \in Requests : req[r] = q /\ answer[r] = None
      BY <2>1 DEF Init
    <2>3. None # "ok"
      BY ArgsOK DEF Answers
    <2>4. \A r \in Requests : Sound(r, q, None)
      BY <2>1, <2>3
         DEF Sound, PackageLabels, DropLabels, EarlyLabels, LateLabels, DeleteLabels
    <2>5. QED
      BY <2>2, <2>4 DEF Sounds
  <1>4. ASSUME NEW k \in tidy PROVE KeyInv(k)
    <2>1. k \in Keys /\ records[k] = NoRecord /\ \A e \in Envs : mappings[k][e] = None /\ Mine(k, e) = {}
      BY DEF Init, Mine
    <2>2. BusyWith(k) = {}
      BY DEF Init, BusyWith, Active, Idle
    <2>3. Calm(k)
      BY <2>1 DEF Calm, Covered, Settled
    <2>4. Created(k) /\ Backed(k)
      BY <2>1 DEF Created, Backed
    <2>5. QED
      BY <2>2, <2>3, <2>4 DEF KeyInv
  <1>5. QED
    BY <1>1, <1>2, <1>3, <1>4 DEF IInv, KeysInv

\* Every step keeps the inductive invariant.
LEMMA StepKeeps == ASSUME IInv, [Next]_vars PROVE IInv'
  <1>1. ASSUME NEW r \in Requests, Work(r) PROVE IInv'
    <2>1. CASE PackageStep(r)
      BY <2>1, CheckPackageKeeps, CheckDependenciesKeeps, StorePackageKeeps, DropPackageKeeps,
         CascadeNextKeeps, RemovePackageKeeps DEF PackageStep
    <2>2. CASE DeployStep(r)
      BY <2>2, ResolveKeeps, ValidateKeeps, RequireKeeps, SelectKeeps, StoreKeeps, CallKeeps,
         SaveMappingKeeps, FinalizeKeeps, RollbackNextKeeps, RollbackEndKeeps DEF DeployStep
    <2>3. CASE DeleteStep(r)
      BY <2>3, LoadRecordKeeps, LoadIdsKeeps, DeleteUnitKeeps, DeleteRecordKeeps, UnmapKeeps
         DEF DeleteStep
    <2>4. QED
      BY <1>1, <2>1, <2>2, <2>3 DEF Work
  <1>2. ASSUME NEW r \in Requests, Arrive(r) PROVE IInv'
    BY <1>2, ArriveKeeps
  <1>3. ASSUME NEW e \in Envs, Worsen(e) \/ Recover(e) PROVE IInv'
    BY <1>3, HealthKeeps
  <1>4. CASE UNCHANGED vars
    BY <1>4, StutterKeeps
  <1>5. QED
    BY <1>1, <1>2, <1>3, <1>4 DEF Next

\* The invariant implies what the runs check of the tidy keys.
LEMMA KeysSettled == ASSUME IInv PROVE TidyKeysSettled
  <1>1. TypeOK
    BY TypesHold DEF IInv
  <1>2. \A k \in tidy : KeyInv(k) /\ Created(k) /\ Backed(k) /\ (BusyWith(k) = {} => Calm(k))
    BY DEF IInv, KeysInv, KeyInv
  <1>3. TidyKeysLeakNothing
    BY <1>2 DEF TidyKeysLeakNothing, Calm, Settled, Mine
  <1>4. CreatedEverywhere
    BY <1>2 DEF CreatedEverywhere, Created
  <1>5. CascadeLeavesNothing
    BY <1>2 DEF CascadeLeavesNothing, Backed
  <1>6. QED
    BY <1>1, <1>3, <1>4, <1>5 DEF TidyKeysSettled

\* The invariant implies that no environment holds two units of one request.
LEMMA OneUnitEach == ASSUME IInv PROVE RetryCreatesNoSecondUnit
  <1>1. ASSUME NEW e \in Envs, NEW u \in runtimes[e], NEW w \in runtimes[e], u[1] = w[1]
        PROVE  u = w
    <2>1. u \in UnitIds /\ w \in UnitIds /\ u[2] = 0 /\ w[2] = 0
      BY DEF IInv, StoreTyped
    <2>2. u = <<u[1], u[2]>> /\ w = <<w[1], w[2]>>
      BY <2>1 DEF UnitIds
    <2>3. QED
      BY <1>1, <2>1, <2>2
  <1>2. QED
    BY <1>1 DEF RetryCreatesNoSecondUnit

\* However many replies of dispatch_units_with_retry are lost and sent again, an
\* environment holds one unit of a deployment request.
THEOREM UnitsStaySingle == Spec => []RetryCreatesNoSecondUnit
  <1>1. Init => IInv
    BY InitKeeps
  <1>2. IInv /\ [Next]_vars => IInv'
    BY StepKeeps
  <1>3. IInv => RetryCreatesNoSecondUnit
    BY OneUnitEach
  <1>4. QED
    BY <1>1, <1>2, <1>3, PTL DEF Spec

\* When the requests on a key that no fault and no overlap has touched are done, its
\* mappings name exactly its units, an acknowledged deployment is on every environment
\* of its record, and with the cascade policy a record has a package: for any requests,
\* environments, retries and faults elsewhere.
THEOREM KeysStaySettled == Spec => []TidyKeysSettled
  <1>1. Init => IInv
    BY InitKeeps
  <1>2. IInv /\ [Next]_vars => IInv'
    BY StepKeeps
  <1>3. IInv => TidyKeysSettled
    BY KeysSettled
  <1>4. QED
    BY <1>1, <1>2, <1>3, PTL DEF Spec
=============================================================================
