-------------------- MODULE ClassRuntimeControllerProofs --------------------
(***************************************************************************)
(* Proofs about ClassRuntimeController for any metrics and any number of   *)
(* edits, failures, deletions and new resources, with and without Knative, *)
(* the state machine and the enforcer.                                     *)
(***************************************************************************)
EXTENDS ClassRuntimeController, SequenceTheorems, TLAPS

-----------------------------------------------------------------------------
(* The inductive invariant: types                                          *)

Pcs == {"idle", "cleanup", "unfinalize", "finalizer", "observe", "apply", "orphans",
        "report", "status"}
Children == Kinds \X Names
FuncLists == {<<>>} \cup UNION {[1..n -> BOOLEAN] : n \in Counts}
ChildRecord == [ready : BOOLEAN, gen : 1..(MaxEvents + 1), replicas : 1..MaxReplicas]

RecTyped ==
    rec \in [pc : Pcs, obj : {NoCr} \cup Resources, ost : Statuses, phase : Phases,
             todo : Seq(Children), orphans : SUBSET Children, funcs : FuncLists]

LoopsTyped ==
    /\ an \in [pc : {"idle", "patch", "cache"}, conds : SUBSET Conds, recs : Nat]
    /\ en \in [pc : {"idle", "apply", "audit"}, target : 0..MaxReplicas, last : 0..MaxReplicas,
               age : -1..Stability, cool : 0..Cooldown]
    /\ cache \in {NoCr} \cup [conds : SUBSET Conds, recs : Nat]
    /\ en.pc = "apply" => Enforce /\ en.target # 0

ClusterTyped ==
    /\ knative \in Clusters
    /\ pending \in BOOLEAN /\ leaked \in BOOLEAN /\ faulty \in BOOLEAN /\ mixed \in BOOLEAN
    /\ cr \in {NoCr} \cup Resources
    /\ status \in Statuses
    /\ DOMAIN children \subseteq Children
    /\ children \in [DOMAIN children -> ChildRecord]
    /\ enforced \in 0..MaxReplicas
    /\ events \in 0..MaxEvents
    /\ creates \in 0..(events + 1)
    /\ Live => cr.gen <= events + 1 /\ cr.uid <= creates

Typed == RecTyped /\ LoopsTyped /\ ClusterTyped

-----------------------------------------------------------------------------
(* The inductive invariant: the reconcile and what it was given            *)

\* A reconcile past the finalizer.
Working == {"cleanup", "unfinalize", "observe", "apply", "orphans", "report", "status"}

\* The resource cannot go while a reconcile is past the finalizer, and a reconcile
\* during which nothing changed works on what is there.
RecInv ==
    /\ rec.pc # "idle" => rec.obj # NoCr /\ rec.obj.uid <= creates
    /\ rec.pc \in Working => Live /\ cr.fin /\ rec.ost.seen = status.seen
    /\ rec.pc = "finalizer" => (Live => ~cr.fin) /\ rec.ost.seen = 0
    /\ rec.pc # "idle" /\ ~pending => Live /\ rec.obj = cr /\ rec.ost = status
    /\ rec.ost.phase # "none" => rec.ost.seen # 0
    /\ rec.pc = "apply" => rec.todo # <<>> /\ rec.phase \in {"applying", "progressing"}
    /\ rec.pc \in {"orphans", "report", "status"} =>
          /\ rec.phase # "none"
          /\ rec.phase = "available" => ~GenerationChanged(rec.obj, rec.ost)

\* What the status may say of the resource.
StatusInv ==
    /\ ~Live => status = NoStatus
    /\ Live /\ ~cr.fin => status.seen = 0 /\ ~cr.deleting
    /\ status.phase # "none" => status.seen # 0
    /\ Live /\ rec.pc = "idle" /\ ~pending =>
          status.phase = "available" /\ "Available" \in status.conds /\ status.seen = cr.gen

\* Before the finalizer is there and when it goes no child is.
ChildrenGone ==
    /\ leaked => faulty
    /\ ~leaked /\ (~Live \/ ~cr.fin \/ rec.pc = "unfinalize") => DOMAIN children = {}

\* What the enforcer set.
EnforcedInv ==
    enforced # 0 => Enforce /\ Base \in DOMAIN children /\ children[Base].replicas = enforced

-----------------------------------------------------------------------------
(* The inductive invariant: the children, without a failure                *)

\* What a specification renders to as a set: the workload of each function, with a
\* Service unless it is Knative's, and the ODGM's.
FnSet(n) == IF n = 1 THEN {"base"} ELSE {"fn0", "fn1"}
FnKinds(k) == IF k THEN {"KnativeService"} ELSE {"Deployment", "Service"}
Manifests(k, n) ==
    FnKinds(k) \X FnSet(n) \cup (IF Odgm THEN {"Deployment", "Service"} \X {"odgm"} ELSE {})

\* The children of a specification are there and were applied from it.
Done(c) == \A x \in Manifests(knative, c.fns) : x \in DOMAIN children /\ children[x].gen = c.gen

\* Every child is one of some specification, and a Service has its Deployment.
Fitting ==
    \A x \in DOMAIN children :
       /\ \E n \in Counts : x \in Manifests(knative, n)
       /\ x[1] = "Service" => <<"Deployment", x[2]>> \in DOMAIN children

\* The resource the reconcile was given is the one that is there, or an earlier
\* version of it.
Related ==
    rec.pc \in Working \/ (rec.pc = "finalizer" /\ Live /\ cr.uid = rec.obj.uid) =>
       /\ cr.uid = rec.obj.uid /\ rec.obj.gen <= cr.gen
       /\ rec.obj.gen = cr.gen => rec.obj.fns = cr.fns
       /\ status.seen <= rec.obj.gen

\* How far the manifests have been applied.
Applying ==
    LET W == RenderWorkload(rec.obj)
        d == Len(W) - Len(rec.todo)
    IN  /\ Len(rec.todo) \in 1..Len(W)
        /\ \A i \in 1..Len(rec.todo) : rec.todo[i] = W[d + i]
        /\ \A i \in 1..d : W[i] \in DOMAIN children /\ children[W[i]].gen = rec.obj.gen

CompleteInv ==
    /\ Fitting
    /\ Related
    /\ Live => status.seen <= cr.gen
    /\ Live /\ status.seen = 0 /\ rec.pc \notin {"apply", "report", "status"} => DOMAIN children = {}
    /\ Live /\ rec.pc = "idle" /\ status.seen = cr.gen => Done(cr)
    /\ rec.pc \in Working \ {"unfinalize"} /\ rec.ost.seen = rec.obj.gen => Done(rec.obj)
    /\ rec.pc = "apply" => Applying
    /\ rec.pc \in {"orphans", "report", "status"} => Done(rec.obj)
    /\ rec.pc = "orphans" =>
          /\ \A o \in rec.orphans : o[2] \notin FnSet(rec.obj.fns) \cup {"odgm"}
          /\ \A x \in DOMAIN children :
             x \in Manifests(knative, rec.obj.fns) \/ \E o \in rec.orphans : x[2] = o[2]
          /\ status.seen # 0
    /\ rec.pc \in {"report", "status"} /\ rec.phase = "available" =>
          DOMAIN children \subseteq Manifests(knative, rec.obj.fns)
    /\ Live /\ rec.pc = "idle" /\ ~pending => DOMAIN children \subseteq Manifests(knative, cr.fns)

IInv ==
    /\ Typed
    /\ RecInv /\ StatusInv /\ ChildrenGone /\ EnforcedInv
    /\ ~faulty /\ ~mixed => CompleteInv

-----------------------------------------------------------------------------
(* Specifications and what they render to                                  *)

\* The constants.
LEMMA Constants ==
    /\ Fsm \in BOOLEAN /\ Odgm \in BOOLEAN /\ Enforce \in BOOLEAN /\ Clusters \subseteq BOOLEAN
    /\ Counts \subseteq {1, 2} /\ MaxEvents \in Nat /\ MaxReplicas \in Nat \ {0}
    /\ PerReplica \in Nat \ {0} /\ Stability \in Nat /\ Cooldown \in Nat
    /\ Samples \subseteq [cpu : Nat, p99 : Nat] /\ NoCr \notin Resources
  BY ConstantsOK

\* The names of the functions.
LEMMA FnNamesAre ==
    ASSUME NEW n \in {1, 2}
    PROVE  /\ \A i \in 1..n : FnNames(n)[i] \in FnSet(n)
           /\ \A f \in FnSet(n) : \E i \in 1..n : FnNames(n)[i] = f
           /\ FnSet(n) \subseteq Names \ {"odgm"}
  <1>1. CASE n = 1
    BY <1>1 DEF FnNames, FnSet, Names
  <1>2. CASE n = 2
    <2>1. FnNames(2)[1] = "fn0" /\ FnNames(2)[2] = "fn1"
      BY DEF FnNames
    <2>2. QED
      BY <1>2, <2>1 DEF FnSet, Names
  <1>3. QED
    BY <1>1, <1>2

\* The manifests of the functions: a Service comes after its Deployment.
LEMMA FnsRendered ==
    ASSUME knative \in BOOLEAN, NEW n \in {1, 2}
    PROVE  /\ RenderFns(n) \in Seq(Children) /\ Len(RenderFns(n)) \in Nat \ {0}
           /\ \A i \in 1..Len(RenderFns(n)) : RenderFns(n)[i] \in FnKinds(knative) \X FnSet(n)
           /\ \A x \in FnKinds(knative) \X FnSet(n) : \E i \in 1..Len(RenderFns(n)) : RenderFns(n)[i] = x
           /\ \A i \in 1..Len(RenderFns(n)) : RenderFns(n)[i][1] = "Service" =>
                 i > 1 /\ RenderFns(n)[i - 1] = <<"Deployment", RenderFns(n)[i][2]>>
  <1>1. CASE knative
    <2>1. RenderFns(n) = [i \in 1..n |-> <<"KnativeService", FnNames(n)[i]>>]
      BY <1>1 DEF RenderFns
    <2>2. \A i \in 1..n : FnNames(n)[i] \in Names
      BY FnNamesAre
    <2>3. RenderFns(n) \in Seq(Children) /\ Len(RenderFns(n)) = n
      BY <2>1, <2>2 DEF Children, Kinds
    <2>4. \A i \in 1..n : RenderFns(n)[i] = <<"KnativeService", FnNames(n)[i]>>
      BY <2>1
    <2>5. FnKinds(knative) = {"KnativeService"}
      BY <1>1 DEF FnKinds
    <2>6. \A i \in 1..n : RenderFns(n)[i] \in FnKinds(knative) \X FnSet(n)
      BY <2>4, <2>5, FnNamesAre
    <2>7. ASSUME NEW x \in FnKinds(knative) \X FnSet(n) PROVE \E i \in 1..n : RenderFns(n)[i] = x
      <3>1. PICK f \in FnSet(n) : x = <<"KnativeService", f>>
        BY <2>5, <2>7
      <3>2. QED
        BY <2>4, <3>1, FnNamesAre
    <2>8. QED
      BY <2>3, <2>4, <2>6, <2>7
  <1>2. CASE ~knative
    <2>1. RenderFns(n) = [i \in 1..(2 * n) |->
             <<IF i % 2 = 1 THEN "Deployment" ELSE "Service", FnNames(n)[(i + 1) \div 2]>>]
      BY <1>2 DEF RenderFns
    <2>2. \A i \in 1..(2 * n) : (i + 1) \div 2 \in 1..n
      OBVIOUS
    <2>3. \A i \in 1..(2 * n) : FnNames(n)[(i + 1) \div 2] \in FnSet(n)
      BY <2>2, FnNamesAre
    <2>4. \A i \in 1..(2 * n) : RenderFns(n)[i] = <<IF i % 2 = 1 THEN "Deployment" ELSE "Service",
                                                    FnNames(n)[(i + 1) \div 2]>>
      BY <2>1
    <2>5. FnKinds(knative) = {"Deployment", "Service"}
      BY <1>2 DEF FnKinds
    <2>6. ASSUME NEW i \in 1..(2 * n) PROVE RenderFns(n)[i] \in FnKinds(knative) \X FnSet(n)
      <3>1. PICK k : k = (IF i % 2 = 1 THEN "Deployment" ELSE "Service")
        OBVIOUS
      <3>2. PICK f : f = FnNames(n)[(i + 1) \div 2]
        OBVIOUS
      <3>3. k \in FnKinds(knative)
        BY <2>5, <3>1
      <3>4. f \in FnSet(n)
        BY <2>3, <3>2
      <3>5. RenderFns(n)[i] = <<k, f>>
        BY <2>4, <3>1, <3>2
      <3>6. QED
        BY <3>3, <3>4, <3>5
    <2>7. RenderFns(n) \in Seq(Children) /\ Len(RenderFns(n)) = 2 * n
      <3>1. FnKinds(knative) \X FnSet(n) \subseteq Children
        BY <2>5, FnNamesAre DEF Children, Kinds
      <3>2. RenderFns(n) \in [1..(2 * n) -> Children]
        BY <2>1, <2>6, <3>1
      <3>3. QED
        BY <3>2
    <2>8. ASSUME NEW x \in FnKinds(knative) \X FnSet(n)
          PROVE  \E i \in 1..(2 * n) : RenderFns(n)[i] = x
      <3>1. PICK k \in {"Deployment", "Service"}, f \in FnSet(n) : x = <<k, f>>
        BY <2>5, <2>8
      <3>2. PICK j \in 1..n : FnNames(n)[j] = f
        BY FnNamesAre
      <3>3. /\ 2 * j - 1 \in 1..(2 * n) /\ (2 * j - 1) % 2 = 1 /\ ((2 * j - 1) + 1) \div 2 = j
            /\ 2 * j \in 1..(2 * n) /\ (2 * j) % 2 # 1 /\ (2 * j + 1) \div 2 = j
        OBVIOUS
      <3>4. CASE k = "Deployment"
        BY <2>4, <3>1, <3>2, <3>3, <3>4
      <3>5. CASE k = "Service"
        BY <2>4, <3>1, <3>2, <3>3, <3>5
      <3>6. QED
        BY <3>4, <3>5
    <2>9. ASSUME NEW i \in 1..(2 * n), RenderFns(n)[i][1] = "Service"
          PROVE  i > 1 /\ RenderFns(n)[i - 1] = <<"Deployment", RenderFns(n)[i][2]>>
      <3>1. i % 2 # 1 /\ RenderFns(n)[i][2] = FnNames(n)[(i + 1) \div 2]
        BY <2>4, <2>9
      <3>2. i > 1 /\ i - 1 \in 1..(2 * n) /\ (i - 1) % 2 = 1 /\ ((i - 1) + 1) \div 2 = (i + 1) \div 2
        BY <3>1
      <3>3. QED
        BY <2>4, <3>1, <3>2
    <2>10. QED
      BY <2>6, <2>7, <2>8, <2>9
  <1>3. QED
    BY <1>1, <1>2

\* What a specification renders to: its manifests, a Service after its Deployment.
LEMMA WorkloadIs ==
    ASSUME knative \in BOOLEAN, NEW c, c.fns \in {1, 2}
    PROVE  /\ RenderWorkload(c) \in Seq(Children) /\ Len(RenderWorkload(c)) \in Nat \ {0}
           /\ \A i \in 1..Len(RenderWorkload(c)) : RenderWorkload(c)[i] \in Manifests(knative, c.fns)
           /\ \A x \in Manifests(knative, c.fns) :
                 \E i \in 1..Len(RenderWorkload(c)) : RenderWorkload(c)[i] = x
           /\ \A i \in 1..Len(RenderWorkload(c)) : RenderWorkload(c)[i][1] = "Service" =>
                 i > 1 /\ RenderWorkload(c)[i - 1] = <<"Deployment", RenderWorkload(c)[i][2]>>
  <1>1. PICK n \in {1, 2} : n = c.fns
    OBVIOUS
  <1>2. PICK F \in Seq(Children) : F = RenderFns(n)
    BY FnsRendered
  <1>3. /\ Len(F) \in Nat \ {0}
        /\ \A i \in 1..Len(F) : F[i] \in FnKinds(knative) \X FnSet(n)
        /\ \A x \in FnKinds(knative) \X FnSet(n) : \E i \in 1..Len(F) : F[i] = x
        /\ \A i \in 1..Len(F) : F[i][1] = "Service" => i > 1 /\ F[i - 1] = <<"Deployment", F[i][2]>>
    BY <1>2, FnsRendered
  <1>4. RenderWorkload(c) = F \o RenderOdgm
    BY <1>1, <1>2 DEF RenderWorkload
  <1>5. CASE Odgm
    <2>1. PICK d : d = <<"Deployment", "odgm">>
      OBVIOUS
    <2>2. PICK s : s = <<"Service", "odgm">>
      OBVIOUS
    <2>3. RenderOdgm = <<d, s>>
      BY <1>5, <2>1, <2>2 DEF RenderOdgm
    <2>4. d \in Children /\ s \in Children /\ d[1] = "Deployment" /\ s[1] = "Service" /\ s[2] = "odgm"
      BY <2>1, <2>2 DEF Children, Kinds, Names
    <2>5. PICK W : W = F \o <<d, s>>
      OBVIOUS
    <2>6. /\ W \in Seq(Children) /\ Len(W) = Len(F) + 2
          /\ \A i \in 1..Len(F) : W[i] = F[i]
          /\ W[Len(F) + 1] = d /\ W[Len(F) + 2] = s
      BY <2>4, <2>5
    <2>7. \A i \in 1..Len(W) : i \in 1..Len(F) \/ i = Len(F) + 1 \/ i = Len(F) + 2
      BY <1>3, <2>6
    <2>8. {"Deployment", "Service"} \X {"odgm"} = {d, s}
      BY <2>1, <2>2
    <2>9. \A x : x \in Manifests(knative, n) <=> x \in FnKinds(knative) \X FnSet(n) \/ x = d \/ x = s
      BY <1>5, <2>8 DEF Manifests
    <2>10. RenderWorkload(c) = W
      BY <1>4, <2>3, <2>5
    <2>11. \A i \in 1..Len(W) : W[i] \in Manifests(knative, n)
      BY <1>3, <2>6, <2>7, <2>9
    <2>12. \A x \in Manifests(knative, n) : \E i \in 1..Len(W) : W[i] = x
      BY <1>3, <2>6, <2>9
    <2>13. \A i \in 1..Len(W) : W[i][1] = "Service" => i > 1 /\ W[i - 1] = <<"Deployment", W[i][2]>>
      <3>1. ASSUME NEW i \in 1..Len(F), W[i][1] = "Service"
            PROVE  i > 1 /\ W[i - 1] = <<"Deployment", W[i][2]>>
        <4>1. i > 1 /\ F[i - 1] = <<"Deployment", F[i][2]>>
          BY <1>3, <2>6, <3>1
        <4>2. W[i - 1] = F[i - 1] /\ W[i] = F[i]
          BY <1>3, <2>6, <4>1
        <4>3. QED
          BY <4>1, <4>2
      <3>2. W[Len(F) + 1][1] # "Service"
        BY <2>4, <2>6
      <3>3. Len(F) + 2 > 1 /\ W[(Len(F) + 2) - 1] = <<"Deployment", W[Len(F) + 2][2]>>
        BY <1>3, <2>1, <2>4, <2>6
      <3>4. QED
        BY <2>7, <3>1, <3>2, <3>3
    <2>14. QED
      BY <1>1, <1>3, <2>6, <2>10, <2>11, <2>12, <2>13
  <1>6. CASE ~Odgm
    <2>1. RenderWorkload(c) = F
      BY <1>2, <1>4, <1>6 DEF RenderOdgm
    <2>2. Manifests(knative, n) = FnKinds(knative) \X FnSet(n)
      BY <1>6 DEF Manifests
    <2>3. QED
      BY <1>1, <1>3, <2>1, <2>2
  <1>7. QED
    BY <1>5, <1>6

\* A sequence is what the specification renders to, a Service after its Deployment.
Sequenced(W, c) ==
    /\ W = RenderWorkload(c) /\ Len(W) \in Nat \ {0}
    /\ \A i \in 1..Len(W) : W[i] \in Manifests(knative, c.fns)
    /\ \A x \in Manifests(knative, c.fns) : \E i \in 1..Len(W) : W[i] = x
    /\ \A i \in 1..Len(W) : W[i][1] = "Service" => i > 1 /\ W[i - 1] = <<"Deployment", W[i][2]>>

\* The same as a sequence with a name.
LEMMA WorkloadOf ==
    ASSUME knative \in BOOLEAN, NEW c, c.fns \in {1, 2}
    PROVE  \E W \in Seq(Children) : Sequenced(W, c)
  BY WorkloadIs DEF Sequenced

\* The set of what a specification renders to.
LEMMA RenderedIs ==
    ASSUME knative \in BOOLEAN, NEW c, c.fns \in {1, 2}
    PROVE  Rendered(c) = Manifests(knative, c.fns) /\ Manifests(knative, c.fns) \subseteq Children
  <1>1. PICK W \in Seq(Children) : W = RenderWorkload(c)
    BY WorkloadIs
  <1>2. PICK M : M = Manifests(knative, c.fns)
    OBVIOUS
  <1>3. /\ \A i \in 1..Len(W) : W[i] \in M
        /\ \A x \in M : \E i \in 1..Len(W) : W[i] = x
    BY <1>1, <1>2, WorkloadIs
  <1>4. DOMAIN W = 1..Len(W) /\ \A i \in 1..Len(W) : W[i] \in Children
    OBVIOUS
  <1>5. Rendered(c) = M
    BY <1>1, <1>3, <1>4 DEF Rendered
  <1>6. M \subseteq Children
    BY <1>3, <1>4
  <1>7. QED
    BY <1>2, <1>5, <1>6

-----------------------------------------------------------------------------
(* Records                                                                 *)

\* The fields of a status.
LEMMA StatusFields ==
    /\ Statuses = [phase : Phases, seen : 0..(MaxEvents + 1), conds : SUBSET Conds,
                   funcs : FuncLists, recs : Nat]
    /\ NoStatus \in Statuses /\ NoStatus.seen = 0 /\ NoStatus.phase = "none"
    /\ <<>> \in FuncLists
  <1>1. Statuses = [phase : Phases, seen : 0..(MaxEvents + 1), conds : SUBSET Conds,
                    funcs : FuncLists, recs : Nat]
    BY DEF Statuses, FuncLists
  <1>2. <<>> \in FuncLists
    BY DEF FuncLists
  <1>3. NoStatus \in Statuses
    BY <1>1, <1>2, Constants DEF NoStatus, Phases, Conds
  <1>4. QED
    BY <1>1, <1>2, <1>3 DEF NoStatus

\* A reconcile that is not running.
LEMMA IdleFields ==
    /\ Idle \in [pc : Pcs, obj : {NoCr} \cup Resources, ost : Statuses, phase : Phases,
                 todo : Seq(Children), orphans : SUBSET Children, funcs : FuncLists]
    /\ Idle.pc = "idle" /\ Idle.obj = NoCr /\ Idle.ost = NoStatus /\ Idle.ost.phase = "none"
    /\ Idle.ost.seen = 0
  <1>1. <<>> \in Seq(Children)
    OBVIOUS
  <1>2. QED
    BY <1>1, StatusFields DEF Idle, Pcs, Phases

\* The fields of the resource and of the running reconcile.
LEMMA RecFields ==
    ASSUME RecTyped
    PROVE  /\ rec.pc \in Pcs /\ rec.obj \in {NoCr} \cup Resources /\ rec.ost \in Statuses
           /\ rec.phase \in Phases /\ rec.todo \in Seq(Children) /\ rec.orphans \subseteq Children
           /\ rec.funcs \in FuncLists /\ rec.ost.seen \in 0..(MaxEvents + 1)
           /\ rec.obj # NoCr => rec.obj \in Resources /\ rec.obj.gen \in 1..(MaxEvents + 1)
                 /\ rec.obj.fns \in Counts /\ rec.obj.fns \in {1, 2} /\ rec.obj.uid \in 1..(MaxEvents + 1)
  <1>1. rec.ost \in Statuses
    BY DEF RecTyped
  <1>2. rec.ost.seen \in 0..(MaxEvents + 1)
    BY <1>1, StatusFields
  <1>3. ASSUME rec.obj # NoCr
        PROVE  rec.obj \in Resources /\ rec.obj.gen \in 1..(MaxEvents + 1)
                 /\ rec.obj.fns \in Counts /\ rec.obj.fns \in {1, 2} /\ rec.obj.uid \in 1..(MaxEvents + 1)
    <2>1. rec.obj \in Resources
      BY <1>3 DEF RecTyped
    <2>2. QED
      BY <2>1, Constants DEF Resources
  <1>4. QED
    BY <1>2, <1>3 DEF RecTyped

\* The resource.
LEMMA CrFields ==
    ASSUME ClusterTyped
    PROVE  /\ status.seen \in 0..(MaxEvents + 1) /\ status.phase \in Phases /\ knative \in BOOLEAN
           /\ Live => cr \in Resources /\ cr.gen \in 1..(MaxEvents + 1) /\ cr.uid \in 1..(MaxEvents + 1)
                 /\ cr.fns \in Counts /\ cr.fns \in {1, 2} /\ cr.fin \in BOOLEAN /\ cr.deleting \in BOOLEAN
  <1>1. status \in Statuses
    BY DEF ClusterTyped
  <1>2. status.seen \in 0..(MaxEvents + 1) /\ status.phase \in Phases
    BY <1>1, StatusFields
  <1>3. ASSUME Live PROVE cr \in Resources
    BY <1>3 DEF ClusterTyped, Live
  <1>4. QED
    BY <1>2, <1>3, Constants DEF Resources, ClusterTyped

-----------------------------------------------------------------------------
(* The initial state                                                       *)

\* The invariant holds at first.
LEMMA InitHolds == Init => IInv
  <1> SUFFICES ASSUME Init PROVE IInv
    OBVIOUS
  <1>1. rec = Idle /\ cr = NoCr /\ ~Live /\ status = NoStatus /\ DOMAIN children = {}
    BY DEF Init, Live
  <1>2. RecTyped
    BY <1>1, IdleFields DEF RecTyped
  <1>3. LoopsTyped
    BY Constants DEF Init, LoopsTyped, AnIdle, EnIdle
  <1>4. ClusterTyped
    <2>1. children \in [DOMAIN children -> ChildRecord]
      <3>1. PICK e : e = <<>>
        OBVIOUS
      <3>0. e \in Seq(ChildRecord)
        BY <3>1
      <3>2. e \in [1..Len(e) -> ChildRecord] /\ DOMAIN e = 1..Len(e)
        BY <3>0
      <3>3. children = e
        BY <3>1 DEF Init
      <3>4. QED
        BY <3>2, <3>3
    <2>2. /\ knative \in Clusters /\ pending \in BOOLEAN /\ leaked \in BOOLEAN
          /\ faulty \in BOOLEAN /\ mixed \in BOOLEAN /\ cr = NoCr
          /\ enforced = 0 /\ events = 0 /\ creates = 0
      BY DEF Init
    <2>3. QED
      BY <1>1, <2>1, <2>2, Constants, StatusFields DEF ClusterTyped
  <1>5. RecInv
    BY <1>1, IdleFields DEF RecInv, Working
  <1>6. StatusInv
    BY <1>1, StatusFields DEF StatusInv
  <1>7. ChildrenGone /\ EnforcedInv
    BY <1>1 DEF Init, ChildrenGone, EnforcedInv
  <1>8. CompleteInv
    BY <1>1, IdleFields DEF CompleteInv, Fitting, Related, Working
  <1>9. QED
    BY <1>2, <1>3, <1>4, <1>5, <1>6, <1>7, <1>8 DEF IInv, Typed

-----------------------------------------------------------------------------
(* What the invariant does not look at                                     *)

\* What a specification renders to depends on the cluster only.
LEMMA RenderFrame ==
    ASSUME knative' = knative
    PROVE  \A c : RenderWorkload(c)' = RenderWorkload(c)
  BY DEF RenderWorkload, RenderFns, RenderOdgm, FnNames

\* Of the children the last part looks at the generations, of the status at the one it
\* reports.
LEMMA CompleteFrame ==
    ASSUME CompleteInv, UNCHANGED <<knative, rec, cr>>, status'.seen = status.seen,
           DOMAIN children' = DOMAIN children,
           \A x \in DOMAIN children : children'[x].gen = children[x].gen,
           pending => pending'
    PROVE  CompleteInv'
  <1>1. Fitting'
    BY DEF CompleteInv, Fitting
  <1>2. Related'
    BY DEF CompleteInv, Related, Live
  <1>3. ASSUME NEW c, Done(c) PROVE Done(c)'
    BY <1>3 DEF Done
  <1>4. rec.pc = "apply" => Applying'
    BY RenderFrame DEF CompleteInv, Applying
  <1>5. QED
    BY <1>1, <1>2, <1>3, <1>4 DEF CompleteInv, Live

\* A step of another actor than the reconciler and the users of the resource: it may
\* write the status over while the next reconcile is due, and set replicas.
LEMMA LoopStep ==
    ASSUME IInv, UNCHANGED <<knative, cr, rec, leaked, mixed, creates>>,
           events' \in events..MaxEvents,
           status' \in Statuses, status'.seen = status.seen, status'.phase = status.phase,
           status' = status \/ (Live /\ pending'),
           pending' \in BOOLEAN, pending => pending', faulty' \in BOOLEAN, faulty => faulty',
           DOMAIN children' = DOMAIN children, children' \in [DOMAIN children -> ChildRecord],
           \A x \in DOMAIN children : children'[x].gen = children[x].gen,
           enforced' \in 0..MaxReplicas, EnforcedInv', LoopsTyped'
    PROVE  IInv'
  <1>1. RecTyped'
    BY DEF IInv, Typed, RecTyped
  <1>2. ClusterTyped'
    <2>1. ClusterTyped
      BY DEF IInv, Typed
    <2>2. Live => cr.gen \in Nat /\ cr.uid \in Nat
      BY <2>1, CrFields
    <2>3. events \in Nat /\ creates \in Nat /\ MaxEvents \in Nat
      BY <2>1, Constants DEF ClusterTyped
    <2>4. (Live => cr.gen <= events' + 1 /\ cr.uid <= creates) /\ events' \in 0..MaxEvents
            /\ creates' \in 0..(events' + 1)
      BY <2>1, <2>2, <2>3 DEF ClusterTyped
    <2>5. QED
      BY <2>1, <2>4 DEF ClusterTyped, Live
  <1>3. RecInv'
    BY DEF IInv, RecInv, Live, GenerationChanged
  <1>4. StatusInv'
    BY DEF IInv, StatusInv, Live
  <1>5. ChildrenGone'
    BY DEF IInv, ChildrenGone, Live
  <1>6. ASSUME ~faulty', ~mixed' PROVE CompleteInv'
    <2>1. CompleteInv
      BY <1>6 DEF IInv
    <2>2. QED
      BY <2>1, CompleteFrame
  <1>7. QED
    BY <1>1, <1>2, <1>3, <1>4, <1>5, <1>6 DEF IInv, Typed

\* What of the invariant does not depend on the loops.
LEMMA Unchanged ==
    ASSUME IInv
    PROVE  /\ events \in Nat /\ events <= MaxEvents /\ MaxEvents \in Nat /\ status \in Statuses
           /\ pending \in BOOLEAN /\ faulty \in BOOLEAN /\ children \in [DOMAIN children -> ChildRecord]
           /\ enforced \in 0..MaxReplicas /\ EnforcedInv /\ LoopsTyped
           /\ events' = events => events' \in events..MaxEvents
           /\ Event => events' \in events..MaxEvents
  BY Constants DEF IInv, Typed, ClusterTyped, Event

\* The replicas the enforcer set are as they were.
LEMMA EnforcedFrame ==
    ASSUME EnforcedInv, UNCHANGED <<knative, enforced>>,
           DOMAIN children \subseteq DOMAIN children',
           \A x \in DOMAIN children : children'[x].replicas = children[x].replicas
    PROVE  EnforcedInv'
  BY DEF EnforcedInv, Base, FnKind

-----------------------------------------------------------------------------
(* The analyzer                                                            *)

\* A recommendation is a number.
LEMMA RecommendNat == \A s \in Samples : Recommend(s) \in Nat
  <1>1. SUFFICES ASSUME NEW s \in Samples PROVE Recommend(s) \in Nat
    OBVIOUS
  <1>2. s.cpu \in Nat /\ PerReplica \in Nat \ {0}
    BY Constants
  <1>3. (s.cpu + PerReplica - 1) \div PerReplica \in Nat
    BY <1>2, Z3
  <1>4. QED
    BY <1>3 DEF Recommend

\* Reading the cache and the metrics.
LEMMA AnReadKeeps == ASSUME IInv, AnRead PROVE IInv'
  <1>1. LoopsTyped'
    <2>1. PICK s \in Samples :
             an' = [pc |-> "patch", conds |-> cache.conds \cup {"NfrObserved"}, recs |-> Recommend(s)]
      BY DEF AnRead
    <2>2. cache.conds \subseteq Conds
      BY DEF AnRead, IInv, Typed, LoopsTyped
    <2>3. an' \in [pc : {"idle", "patch", "cache"}, conds : SUBSET Conds, recs : Nat]
      BY <2>1, <2>2, RecommendNat DEF Conds
    <2>4. QED
      BY <2>3 DEF AnRead, IInv, Typed, LoopsTyped
  <1>2. EnforcedInv'
    BY Unchanged, EnforcedFrame DEF AnRead
  <1>3. Event /\ UNCHANGED <<knative, cr, status, children, pending, rec, enforced, leaked, faulty, mixed, creates>>
    BY DEF AnRead
  <1>4. QED
    BY <1>1, <1>2, <1>3, LoopStep, Unchanged

\* Writing the conditions and the recommendation.
LEMMA AnPatchKeeps == ASSUME IInv, AnPatch PROVE IInv'
  <1>1. /\ an \in [pc : {"idle", "patch", "cache"}, conds : SUBSET Conds, recs : Nat]
        /\ UNCHANGED <<knative, cr, children, rec, cache, en, enforced, leaked, counters>>
    BY DEF IInv, Typed, LoopsTyped, AnPatch
  <1>2. LoopsTyped'
    <2>1. an' \in [pc : {"idle", "patch", "cache"}, conds : SUBSET Conds, recs : Nat]
      BY <1>1 DEF AnPatch, AnIdle
    <2>2. QED
      BY <1>1, <2>1 DEF IInv, Typed, LoopsTyped
  <1>3. EnforcedInv'
    BY <1>1, Unchanged, EnforcedFrame
  <1>4. /\ status' \in Statuses /\ status'.seen = status.seen /\ status'.phase = status.phase
        /\ status' = status \/ (Live /\ pending')
        /\ pending' \in BOOLEAN /\ (pending => pending')
    <2>1. CASE Live
      <3>1. PICK r \in Nat : status' = [status EXCEPT !.conds = an.conds, !.recs = r]
        <4>1. status.recs \in Nat
          BY Unchanged, StatusFields
        <4>2. QED
          BY <1>1, <2>1, <4>1 DEF AnPatch
      <3>2. QED
        BY <1>1, <2>1, <3>1, Unchanged, StatusFields DEF AnPatch
    <2>2. CASE ~Live
      BY <2>2, Unchanged DEF AnPatch
    <2>3. QED
      BY <2>1, <2>2
  <1>5. /\ UNCHANGED <<knative, cr, children, rec, enforced, leaked, faulty, mixed, creates, events>>
        /\ events' \in events..MaxEvents /\ children' \in [DOMAIN children -> ChildRecord]
        /\ enforced' \in 0..MaxReplicas /\ faulty' \in BOOLEAN
    BY <1>1, Unchanged DEF counters
  <1>6. QED
    BY <1>2, <1>3, <1>4, <1>5, LoopStep

\* Putting the cached copy back.
LEMMA AnCacheKeeps == ASSUME IInv, AnCache PROVE IInv'
  <1>1. UNCHANGED <<knative, cr, status, children, pending, rec, en, enforced, leaked, counters>>
    BY DEF AnCache
  <1>2. LoopsTyped'
    BY <1>1 DEF AnCache, AnIdle, IInv, Typed, LoopsTyped
  <1>3. EnforcedInv'
    BY <1>1, Unchanged, EnforcedFrame
  <1>4. QED
    BY <1>1, <1>2, <1>3, LoopStep, Unchanged DEF counters

-----------------------------------------------------------------------------
(* The enforcer and the pods                                               *)

EnforcerStates ==
    [pc : {"idle", "apply", "audit"}, target : 0..MaxReplicas, last : 0..MaxReplicas,
     age : -1..Stability, cool : 0..Cooldown]

\* The target is within the configured maximum.
LEMMA TargetBounded == ASSUME IInv, cache # NoCr PROVE Target \in 0..MaxReplicas
  <1>1. cache.recs \in Nat /\ status.recs \in Nat /\ MaxReplicas \in Nat \ {0}
    BY Unchanged, StatusFields, Constants DEF IInv, Typed, LoopsTyped
  <1>2. \A r \in Nat : Clamp(r) \in 0..MaxReplicas
    BY <1>1 DEF Clamp
  <1>3. QED
    BY <1>1, <1>2 DEF Target

\* The decision of the enforcer.
LEMMA EvalEnforceTyped ==
    ASSUME NEW e \in EnforcerStates, NEW t \in 0..MaxReplicas, t # 0, e.pc = "idle"
    PROVE  /\ EvalEnforce(Elapsed(e), t) \in EnforcerStates
           /\ EvalEnforce(Elapsed(e), t).pc = "apply" => EvalEnforce(Elapsed(e), t).target # 0
  <1>1. PICK f : f = Elapsed(e)
    OBVIOUS
  <1>2. f \in EnforcerStates /\ f.pc = "idle"
    <2>1. PICK a \in -1..Stability : a = (IF e.age \in 0..(Stability - 1) THEN e.age + 1 ELSE e.age)
      BY Constants DEF EnforcerStates
    <2>2. PICK c \in 0..Cooldown : c = (IF e.cool > 0 THEN e.cool - 1 ELSE 0)
      BY Constants DEF EnforcerStates
    <2>3. f = [e EXCEPT !.age = a, !.cool = c]
      BY <1>1, <2>1, <2>2 DEF Elapsed
    <2>4. QED
      BY <2>3 DEF EnforcerStates
  <1>3. -1 \in -1..Stability /\ 0 \in -1..Stability /\ Cooldown \in 0..Cooldown
    BY Constants
  <1>4. /\ f \in EnforcerStates /\ f.pc # "apply"
        /\ [f EXCEPT !.last = t, !.age = 0] \in EnforcerStates /\ [f EXCEPT !.last = t, !.age = 0].pc # "apply"
        /\ [f EXCEPT !.age = 0] \in EnforcerStates /\ [f EXCEPT !.age = 0].pc # "apply"
    BY <1>2, <1>3 DEF EnforcerStates
  <1>5. /\ [f EXCEPT !.age = -1, !.cool = Cooldown, !.pc = "apply", !.target = t] \in EnforcerStates
        /\ [f EXCEPT !.age = -1, !.cool = Cooldown, !.pc = "apply", !.target = t].target = t
    BY <1>2, <1>3 DEF EnforcerStates
  <1>6. QED
    BY <1>1, <1>4, <1>5 DEF EvalEnforce

\* The states of the enforcer after it set the replicas or gave up.
LEMMA EnforcerMoves ==
    ASSUME NEW e \in EnforcerStates
    PROVE  /\ [e EXCEPT !.pc = "audit"] \in EnforcerStates /\ [e EXCEPT !.pc = "audit"].pc # "apply"
           /\ [e EXCEPT !.pc = "idle", !.target = 0] \in EnforcerStates
           /\ [e EXCEPT !.pc = "idle", !.target = 0].pc # "apply"
  <1>1. 0 \in 0..MaxReplicas
    BY Constants
  <1>2. QED
    BY <1>1 DEF EnforcerStates

\* A child of which one field changed.
LEMMA ChildMoves ==
    ASSUME NEW c \in ChildRecord
    PROVE  /\ \A b \in BOOLEAN : /\ [c EXCEPT !.ready = b] \in ChildRecord
                                 /\ [c EXCEPT !.ready = b].gen = c.gen
                                 /\ [c EXCEPT !.ready = b].replicas = c.replicas
           /\ \A t \in 1..MaxReplicas : /\ [c EXCEPT !.replicas = t] \in ChildRecord
                                       /\ [c EXCEPT !.replicas = t].gen = c.gen
                                       /\ [c EXCEPT !.replicas = t].replicas = t
  BY DEF ChildRecord

\* The types of the loops, by the enforcer.
LEMMA EnStates ==
    /\ LoopsTyped => en \in EnforcerStates
    /\ LoopsTyped /\ UNCHANGED <<an, cache>> /\ en' \in EnforcerStates
          /\ (en'.pc = "apply" => Enforce /\ en'.target # 0) => LoopsTyped'
  BY DEF LoopsTyped, EnforcerStates

\* Reading the target.
LEMMA EnReadKeeps == ASSUME IInv, EnRead PROVE IInv'
  <1>1. UNCHANGED <<knative, cr, status, children, pending, rec, cache, an, enforced, leaked, counters>>
    BY DEF EnRead
  <1>2. LoopsTyped'
    <2>1. PICK t \in 0..MaxReplicas : t = Target /\ t # 0
      BY TargetBounded DEF EnRead
    <2>2. en \in EnforcerStates /\ en.pc = "idle" /\ Enforce
      BY EnStates, Unchanged DEF EnRead
    <2>3. en' = EvalEnforce(Elapsed(en), t)
      BY <2>1 DEF EnRead
    <2>4. en' \in EnforcerStates /\ (en'.pc = "apply" => en'.target # 0)
      BY <2>1, <2>2, <2>3, EvalEnforceTyped
    <2>5. QED
      BY <1>1, <2>2, <2>4, EnStates, Unchanged
  <1>3. EnforcedInv'
    BY <1>1, Unchanged, EnforcedFrame
  <1>4. QED
    BY <1>1, <1>2, <1>3, LoopStep, Unchanged DEF counters

\* Setting the replicas.
LEMMA EnApplyKeeps == ASSUME IInv, EnApply PROVE IInv'
  <1>1. UNCHANGED <<knative, cr, status, pending, rec, cache, an, leaked, counters>>
    BY DEF EnApply
  <1>2. en \in EnforcerStates /\ en.target # 0 /\ Enforce
    BY EnStates, Unchanged DEF EnApply, LoopsTyped
  <1>3. LoopsTyped'
    <2>2. en' = [en EXCEPT !.pc = "audit"] \/ en' = [en EXCEPT !.pc = "idle", !.target = 0]
      BY DEF EnApply
    <2>4. en' \in EnforcerStates /\ en'.pc # "apply"
      BY <1>2, <2>2, EnforcerMoves
    <2>5. QED
      BY <1>1, <2>4, EnStates, Unchanged
  <1>4. /\ DOMAIN children' = DOMAIN children /\ children' \in [DOMAIN children -> ChildRecord]
        /\ \A x \in DOMAIN children : children'[x].gen = children[x].gen
        /\ enforced' \in 0..MaxReplicas /\ EnforcedInv'
    <2>1. CASE Base \in DOMAIN children
      <3>1. PICK b \in DOMAIN children : b = Base /\ b = Base'
        BY <1>1, <2>1 DEF Base, FnKind
      <3>2. PICK t \in 1..MaxReplicas : t = en.target
        BY <1>2 DEF EnforcerStates
      <3>3. children' = [children EXCEPT ![b].replicas = t] /\ enforced' = t
        BY <2>1, <3>1, <3>2 DEF EnApply
      <3>4. children \in [DOMAIN children -> ChildRecord] /\ children[b] \in ChildRecord
        BY Unchanged
      <3>5. PICK r \in ChildRecord : r = [children[b] EXCEPT !.replicas = t] /\ r.gen = children[b].gen
                                     /\ r.replicas = t
        BY <3>4, ChildMoves
      <3>10. children' = [children EXCEPT ![b] = [children[b] EXCEPT !.replicas = t]]
        BY <3>3
      <3>6. children' = [children EXCEPT ![b] = r]
        BY <3>5, <3>10
      <3>7. /\ DOMAIN children' = DOMAIN children /\ children' \in [DOMAIN children -> ChildRecord]
            /\ \A x \in DOMAIN children : children'[x] = IF x = b THEN r ELSE children[x]
        BY <3>4, <3>6
      <3>8. EnforcedInv'
        BY <1>2, <3>1, <3>3, <3>5, <3>7 DEF EnforcedInv
      <3>9. QED
        BY <3>2, <3>3, <3>5, <3>7, <3>8
    <2>2. CASE Base \notin DOMAIN children
      <3>1. UNCHANGED <<children, enforced>>
        BY <2>2 DEF EnApply
      <3>2. QED
        BY <1>1, <3>1, Unchanged, EnforcedFrame
    <2>3. QED
      BY <2>1, <2>2
  <1>5. UNCHANGED <<faulty, mixed, creates, events>>
    BY <1>1 DEF counters
  <1>6. QED
    BY <1>1, <1>3, <1>4, <1>5, LoopStep, Unchanged

\* Recording what was applied.
LEMMA EnAuditKeeps == ASSUME IInv, EnAudit PROVE IInv'
  <1>1. UNCHANGED <<knative, cr, status, children, rec, cache, an, enforced, leaked, counters>>
    BY DEF EnAudit
  <1>2. LoopsTyped'
    <2>1. en \in EnforcerStates
      BY EnStates, Unchanged
    <2>2. en' = [en EXCEPT !.pc = "idle", !.target = 0]
      BY DEF EnAudit
    <2>4. en' \in EnforcerStates /\ en'.pc # "apply"
      BY <2>1, <2>2, EnforcerMoves
    <2>5. QED
      BY <1>1, <2>4, EnStates, Unchanged
  <1>3. EnforcedInv'
    BY <1>1, Unchanged, EnforcedFrame
  <1>4. pending' \in BOOLEAN /\ (pending => pending')
    BY Unchanged DEF EnAudit, Live
  <1>5. UNCHANGED <<faulty, mixed, creates, events>>
    BY <1>1 DEF counters
  <1>6. QED
    BY <1>1, <1>2, <1>3, <1>4, <1>5, LoopStep, Unchanged

\* A workload whose pods become ready or fail.
LEMMA PodsKeep ==
    ASSUME IInv, NEW w \in DOMAIN children, NEW b \in BOOLEAN,
           children' = [children EXCEPT ![w].ready = b],
           faulty' \in BOOLEAN, faulty => faulty', events' \in events..MaxEvents,
           UNCHANGED <<knative, cr, status, pending, rec, cache, an, en, enforced, leaked, mixed, creates>>
    PROVE  IInv'
  <1>1. children \in [DOMAIN children -> ChildRecord] /\ children[w] \in ChildRecord
    BY Unchanged
  <1>2. PICK r \in ChildRecord : r = [children[w] EXCEPT !.ready = b] /\ r.gen = children[w].gen
                                 /\ r.replicas = children[w].replicas
    BY <1>1, ChildMoves
  <1>3. children' = [children EXCEPT ![w] = r]
    BY <1>2
  <1>4. /\ DOMAIN children' = DOMAIN children /\ children' \in [DOMAIN children -> ChildRecord]
        /\ \A x \in DOMAIN children : children'[x] = IF x = w THEN r ELSE children[x]
    BY <1>1, <1>3
  <1>5. \A x \in DOMAIN children : children'[x].gen = children[x].gen
                                   /\ children'[x].replicas = children[x].replicas
    BY <1>2, <1>4
  <1>6. EnforcedInv'
    BY <1>4, <1>5, Unchanged, EnforcedFrame
  <1>7. LoopsTyped'
    BY Unchanged DEF LoopsTyped
  <1>8. QED
    BY <1>4, <1>5, <1>6, <1>7, LoopStep, Unchanged

\* The pods.
LEMMA PodsReadyKeeps == ASSUME IInv, PodsReady PROVE IInv'
  <1>1. PICK x \in DOMAIN children : children' = [children EXCEPT ![x].ready = TRUE]
    BY DEF PodsReady, Workloads
  <1>2. UNCHANGED <<knative, cr, status, pending, rec, cache, an, en, enforced, leaked, mixed, creates, faulty, events>>
    BY DEF PodsReady, counters
  <1>3. QED
    BY <1>1, <1>2, PodsKeep, Unchanged

\* The pods.
LEMMA PodsFailKeeps == ASSUME IInv, PodsFail PROVE IInv'
  <1>1. PICK x \in DOMAIN children : children' = [children EXCEPT ![x].ready = FALSE]
    BY DEF PodsFail, Workloads
  <1>2. /\ UNCHANGED <<knative, cr, status, pending, rec, cache, an, en, enforced, leaked, mixed, creates>>
        /\ Event /\ faulty' = TRUE
    BY DEF PodsFail
  <1>3. events' \in events..MaxEvents /\ faulty' \in BOOLEAN /\ (faulty => faulty')
    BY <1>2, Unchanged
  <1>4. QED
    BY <1>1, <1>2, <1>3, PodsKeep

-----------------------------------------------------------------------------
(* The users of the resource                                               *)

\* What the loops keep is unchanged when they are.
LEMMA LoopsFrame == ASSUME LoopsTyped, UNCHANGED <<an, en, cache>> PROVE LoopsTyped'
  BY DEF LoopsTyped

\* The numbers of the invariant.
LEMMA Numbers ==
    ASSUME IInv
    PROVE  /\ Typed /\ RecTyped /\ LoopsTyped /\ ClusterTyped /\ RecInv /\ StatusInv /\ ChildrenGone
           /\ EnforcedInv /\ (~faulty /\ ~mixed => CompleteInv)
           /\ events \in Nat /\ events <= MaxEvents /\ MaxEvents \in Nat
           /\ creates \in Nat /\ creates <= events + 1
           /\ status.seen \in Nat /\ rec.ost.seen \in Nat
           /\ Live => cr.gen \in Nat /\ cr.uid \in Nat /\ cr.gen >= 1 /\ cr.gen <= events + 1
                      /\ cr.uid >= 1 /\ cr.uid <= creates
           /\ rec.obj # NoCr => rec.obj.gen \in Nat /\ rec.obj.gen >= 1 /\ rec.obj.uid \in Nat
  <1>1. Typed /\ RecTyped /\ LoopsTyped /\ ClusterTyped /\ RecInv /\ StatusInv /\ ChildrenGone
           /\ EnforcedInv /\ (~faulty /\ ~mixed => CompleteInv)
    BY DEF IInv, Typed
  <1>2. MaxEvents \in Nat
    BY Constants
  <1>3. events \in Nat /\ events <= MaxEvents /\ creates \in Nat /\ creates <= events + 1
    BY <1>1, <1>2 DEF ClusterTyped
  <1>4. Live => cr.gen \in 1..(MaxEvents + 1) /\ cr.uid \in 1..(MaxEvents + 1)
                /\ cr.gen <= events + 1 /\ cr.uid <= creates
    BY <1>1, CrFields DEF ClusterTyped
  <1>5. status.seen \in 0..(MaxEvents + 1) /\ rec.ost.seen \in 0..(MaxEvents + 1)
    BY <1>1, CrFields, RecFields
  <1>6. rec.obj # NoCr => rec.obj.gen \in 1..(MaxEvents + 1) /\ rec.obj.uid \in 1..(MaxEvents + 1)
    BY <1>1, RecFields
  <1>7. QED
    BY <1>1, <1>2, <1>3, <1>4, <1>5, <1>6

\* A new resource.
LEMMA CreateKeeps == ASSUME IInv, Create PROVE IInv'
  <1>1. /\ ~Live /\ creates' = creates + 1 /\ pending' = TRUE
        /\ (IF creates = 0 THEN UNCHANGED events ELSE Event)
        /\ UNCHANGED <<knative, status, children, rec, cache, an, en, enforced, leaked, faulty, mixed>>
    BY DEF Create
  <1>2. PICK n \in Counts :
           cr' = [uid |-> creates', gen |-> 1, fns |-> n, fin |-> FALSE, deleting |-> FALSE]
    BY DEF Create
  <1>3. /\ cr'.uid = creates' /\ cr'.gen = 1 /\ cr'.fns = n /\ cr'.fin = FALSE /\ cr'.deleting = FALSE
    BY <1>2
  <1>4. events' \in Nat /\ events' <= MaxEvents /\ creates' <= events' + 1 /\ creates' \in 1..(MaxEvents + 1)
    BY <1>1, Numbers DEF Event
  <1>5. cr' \in Resources
    <2>1. 1 \in 1..(MaxEvents + 1)
      BY Numbers
    <2>2. QED
      BY <1>2, <1>4, <2>1 DEF Resources
  <1>6. Live'
    BY <1>5, Constants DEF Live
  <1>7. rec.pc \notin Working /\ status = NoStatus /\ status.seen = 0
    BY <1>1, Numbers, StatusFields DEF RecInv, StatusInv
  <1>8. RecTyped' /\ LoopsTyped'
    BY <1>1, Numbers, LoopsFrame DEF RecTyped
  <1>9. ClusterTyped'
    BY <1>1, <1>3, <1>4, <1>5, Numbers DEF ClusterTyped
  <1>10. RecInv'
    <2>1. rec.pc # "idle" => rec.obj.uid <= creates'
      BY <1>1, Numbers DEF RecInv
    <2>2. QED
      BY <1>1, <1>3, <1>7, <2>1, Numbers DEF RecInv, GenerationChanged
  <1>11. StatusInv'
    BY <1>1, <1>3, <1>6, <1>7, StatusFields DEF StatusInv
  <1>12. ChildrenGone'
    BY <1>1, <1>3, Numbers DEF ChildrenGone
  <1>13. EnforcedInv'
    BY <1>1, Numbers, EnforcedFrame
  <1>14. ASSUME ~faulty', ~mixed' PROVE CompleteInv'
    <2>1. CompleteInv /\ DOMAIN children = {}
      BY <1>1, <1>14, Numbers DEF ChildrenGone
    <2>2. rec.pc # "idle" => cr'.uid # rec.obj.uid
      BY <1>1, <1>3, Numbers DEF RecInv
    <2>3. Fitting' /\ Related'
      BY <1>1, <1>7, <2>1, <2>2 DEF Fitting, Related
    <2>4. QED
      BY <1>1, <1>3, <1>7, <2>1, <2>3 DEF CompleteInv, Working
  <1>15. QED
    BY <1>8, <1>9, <1>10, <1>11, <1>12, <1>13, <1>14 DEF IInv, Typed

\* An edit of the specification.
LEMMA EditKeeps == ASSUME IInv, Edit PROVE IInv'
  <1>1. /\ Live /\ ~cr.deleting /\ Event /\ pending' = TRUE
        /\ UNCHANGED <<knative, status, children, rec, cache, an, en, enforced, leaked, faulty, mixed, creates>>
    BY DEF Edit
  <1>2. PICK n \in Counts : cr' = [cr EXCEPT !.gen = @ + 1, !.fns = n]
    BY DEF Edit
  <1>3. cr \in Resources
    BY <1>1, Numbers, CrFields
  <1>4. events' = events + 1 /\ events' \in Nat /\ events' <= MaxEvents
    BY <1>1, Numbers DEF Event
  <1>5. PICK g \in 1..(MaxEvents + 1) : g = cr.gen + 1
    BY <1>1, <1>4, Numbers
  <1>6. cr' = [cr EXCEPT !.gen = g, !.fns = n]
    BY <1>2, <1>5
  <1>7. /\ cr' \in Resources /\ cr'.uid = cr.uid /\ cr'.gen = g /\ cr'.fin = cr.fin
        /\ cr'.deleting = cr.deleting
    BY <1>3, <1>6 DEF Resources
  <1>8. Live'
    BY <1>7, Constants DEF Live
  <1>9. RecTyped' /\ LoopsTyped'
    BY <1>1, Numbers, LoopsFrame DEF RecTyped
  <1>10. ClusterTyped'
    <2>1. cr'.gen <= events' + 1 /\ cr'.uid <= creates' /\ creates' <= events' + 1
      BY <1>1, <1>4, <1>5, <1>7, Numbers
    <2>2. QED
      BY <1>1, <1>4, <1>7, <2>1, Numbers DEF ClusterTyped
  <1>11. RecInv'
    BY <1>1, <1>7, <1>8, Numbers DEF RecInv, GenerationChanged
  <1>12. StatusInv'
    BY <1>1, <1>7, <1>8, Numbers DEF StatusInv
  <1>13. ChildrenGone'
    BY <1>1, <1>7, <1>8, Numbers DEF ChildrenGone
  <1>14. EnforcedInv'
    BY <1>1, Numbers, EnforcedFrame
  <1>15. ASSUME ~faulty', ~mixed' PROVE CompleteInv'
    <2>1. CompleteInv
      BY <1>1, <1>15, Numbers
    <2>2. Fitting'
      BY <1>1, <2>1 DEF CompleteInv, Fitting
    <2>3. Related'
      <3>1. ASSUME rec.pc \in Working \/ (rec.pc = "finalizer" /\ cr.uid = rec.obj.uid)
            PROVE  /\ cr.uid = rec.obj.uid /\ rec.obj.gen < cr'.gen
                   /\ status.seen <= rec.obj.gen
        <4>1. rec.obj # NoCr
          BY <3>1, Numbers DEF RecInv, Working
        <4>2. QED
          BY <1>1, <1>5, <1>7, <2>1, <3>1, <4>1, Numbers DEF CompleteInv, Related
      <3>2. QED
        <4>1. rec.pc \in Pcs /\ (rec.pc # "idle" => rec.obj.gen \in Nat)
          BY Numbers, RecFields DEF RecInv
        <4>2. QED
          BY <1>1, <1>5, <1>7, <3>1, <4>1 DEF Related, Working
    <2>4. status.seen <= cr.gen /\ status.seen < cr'.gen
      BY <1>1, <1>5, <1>7, <2>1, Numbers DEF CompleteInv
    <2>5. ASSUME NEW c, Done(c) PROVE Done(c)'
      BY <1>1, <2>5 DEF Done
    <2>6. rec.pc = "apply" => Applying'
      BY <1>1, <2>1, RenderFrame DEF CompleteInv, Applying
    <2>7. status.seen \in Nat /\ cr'.gen \in Nat
      BY <1>5, <1>7, Numbers
    <2>8. QED
      BY <1>1, <1>8, <2>1, <2>2, <2>3, <2>4, <2>5, <2>6, <2>7 DEF CompleteInv
  <1>16. QED
    BY <1>9, <1>10, <1>11, <1>12, <1>13, <1>14, <1>15 DEF IInv, Typed

\* A deletion: with the finalizer it is only asked for.
LEMMA DeleteKeeps == ASSUME IInv, Delete PROVE IInv'
  <1>1. /\ Live /\ ~cr.deleting /\ pending' = TRUE
        /\ UNCHANGED <<knative, children, rec, cache, an, en, enforced, leaked, counters>>
    BY DEF Delete
  <1>2. UNCHANGED <<faulty, mixed, creates, events>>
    BY <1>1 DEF counters
  <1>3. RecTyped' /\ LoopsTyped'
    BY <1>1, Numbers, LoopsFrame DEF RecTyped
  <1>4. EnforcedInv'
    BY <1>1, Numbers, EnforcedFrame
  <1>5. ASSUME NEW c, Done(c) PROVE Done(c)'
    BY <1>1, <1>5 DEF Done
  <1>6. CASE cr.fin
    <2>1. cr' = [cr EXCEPT !.deleting = TRUE] /\ status' = status
      BY <1>6 DEF Delete
    <2>2. cr \in Resources
      BY <1>1, Numbers, CrFields
    <2>3. cr' \in Resources /\ cr'.uid = cr.uid /\ cr'.gen = cr.gen /\ cr'.fns = cr.fns /\ cr'.fin = cr.fin
      BY <2>1, <2>2 DEF Resources
    <2>4. Live'
      BY <2>3, Constants DEF Live
    <2>5. ClusterTyped'
      BY <1>1, <1>2, <2>1, <2>3, Numbers DEF ClusterTyped
    <2>6. RecInv'
      BY <1>1, <1>2, <2>1, <2>3, <2>4, Numbers DEF RecInv, GenerationChanged
    <2>7. StatusInv'
      BY <1>1, <1>6, <2>1, <2>3, <2>4, Numbers DEF StatusInv
    <2>8. ChildrenGone'
      BY <1>1, <1>2, <2>3, <2>4, Numbers DEF ChildrenGone
    <2>9. ASSUME ~faulty', ~mixed' PROVE CompleteInv'
      <3>1. CompleteInv
        BY <1>2, <2>9, Numbers
      <3>2. Fitting'
        BY <1>1, <3>1 DEF CompleteInv, Fitting
      <3>3. Related'
        BY <1>1, <2>1, <2>3, <2>4, <3>1 DEF CompleteInv, Related
      <3>4. rec.pc = "apply" => Applying'
        BY <1>1, <3>1, RenderFrame DEF CompleteInv, Applying
      <3>5. Done(cr) => Done(cr)'
        BY <1>1, <2>3 DEF Done
      <3>6. QED
        BY <1>1, <1>5, <2>1, <2>3, <2>4, <3>1, <3>2, <3>3, <3>4, <3>5 DEF CompleteInv
    <2>10. QED
      BY <1>3, <1>4, <2>5, <2>6, <2>7, <2>8, <2>9 DEF IInv, Typed
  <1>7. CASE ~cr.fin
    <2>1. cr' = NoCr /\ status' = NoStatus /\ ~Live'
      BY <1>7 DEF Delete, Live
    <2>2. rec.pc \notin Working /\ status.seen = 0
      BY <1>7, <1>1, Numbers DEF RecInv, StatusInv
    <2>3. ClusterTyped'
      BY <1>1, <1>2, <2>1, Numbers, StatusFields DEF ClusterTyped
    <2>4. RecInv'
      BY <1>1, <1>2, <2>1, <2>2, Numbers DEF RecInv, GenerationChanged
    <2>5. StatusInv'
      BY <2>1, StatusFields DEF StatusInv
    <2>6. ChildrenGone'
      BY <1>1, <1>2, <1>7, <2>1, Numbers DEF ChildrenGone
    <2>7. ASSUME ~faulty', ~mixed' PROVE CompleteInv'
      <3>1. CompleteInv
        BY <1>2, <2>7, Numbers
      <3>2. Fitting'
        BY <1>1, <3>1 DEF CompleteInv, Fitting
      <3>3. Related'
        BY <1>1, <2>1, <2>2 DEF Related
      <3>4. QED
        BY <1>1, <2>1, <2>2, <3>2, <3>3 DEF CompleteInv, Working
    <2>8. QED
      BY <1>3, <1>4, <2>3, <2>4, <2>5, <2>6, <2>7 DEF IInv, Typed
  <1>8. QED
    BY <1>6, <1>7

-----------------------------------------------------------------------------
(* The reconciler: beginning, failing and the finalizer                    *)

\* A call that fails.
LEMMA FailKeeps ==
    ASSUME IInv, Fail,
           UNCHANGED <<knative, cr, status, children, cache, an, en, enforced, leaked, mixed, creates>>
    PROVE  IInv'
  <1>1. rec' = Idle /\ pending' = TRUE /\ faulty' = TRUE /\ Event
    BY DEF Fail
  <1>2. RecTyped' /\ rec'.pc = "idle" /\ rec'.ost.phase = "none"
    BY <1>1, IdleFields DEF RecTyped
  <1>3. LoopsTyped'
    BY Numbers, LoopsFrame
  <1>4. events' = events + 1 /\ events' <= MaxEvents
    BY <1>1, Numbers DEF Event
  <1>5. ClusterTyped'
    <2>1. events' \in 0..MaxEvents /\ creates' \in 0..(events' + 1)
          /\ (Live => cr.gen <= events' + 1 /\ cr.uid <= creates')
      BY <1>4, Numbers
    <2>2. QED
      BY <1>1, <2>1, Numbers DEF ClusterTyped, Live
  <1>6. RecInv'
    BY <1>2 DEF RecInv, Working
  <1>7. StatusInv'
    BY <1>1, Numbers DEF StatusInv, Live
  <1>8. ChildrenGone'
    BY <1>1, <1>2, Numbers DEF ChildrenGone, Live
  <1>9. EnforcedInv'
    BY Numbers, EnforcedFrame
  <1>10. QED
    BY <1>1, <1>2, <1>3, <1>5, <1>6, <1>7, <1>8, <1>9 DEF IInv, Typed

\* The beginning of a reconcile.
LEMMA BeginKeeps == ASSUME IInv, Begin PROVE IInv'
  <1>1. /\ rec.pc = "idle" /\ pending' = FALSE
        /\ UNCHANGED <<knative, cr, status, children, cache, an, en, enforced, leaked, counters>>
    BY DEF Begin
  <1>2. UNCHANGED <<faulty, mixed, creates, events>>
    BY <1>1 DEF counters
  <1>3. LoopsTyped' /\ EnforcedInv' /\ ClusterTyped'
    BY <1>1, <1>2, Numbers, LoopsFrame, EnforcedFrame DEF ClusterTyped, Live
  <1>4. ASSUME NEW c, Done(c) PROVE Done(c)'
    BY <1>1, <1>4 DEF Done
  <1>5. ASSUME CompleteInv PROVE Fitting'
    BY <1>1, <1>5 DEF CompleteInv, Fitting
  <1>6. CASE ~Live
    <2>1. rec' = Idle /\ ~Live'
      BY <1>1, <1>6 DEF Begin, Live
    <2>2. RecTyped' /\ rec'.pc = "idle" /\ rec'.ost.phase = "none"
      BY <2>1, IdleFields DEF RecTyped
    <2>3. RecInv'
      BY <2>2 DEF RecInv, Working
    <2>4. StatusInv' /\ ChildrenGone'
      BY <1>1, <1>2, <1>6, <2>1, Numbers DEF StatusInv, ChildrenGone
    <2>5. ASSUME ~faulty', ~mixed' PROVE CompleteInv'
      <3>1. CompleteInv
        BY <1>2, <2>5, Numbers
      <3>2. QED
        BY <1>5, <2>1, <2>2, <3>1 DEF CompleteInv, Related, Working
    <2>6. QED
      BY <1>3, <2>2, <2>3, <2>4, <2>5 DEF IInv, Typed
  <1>7. CASE Live
    <2>1. PICK p \in {"cleanup", "observe", "finalizer"} :
             /\ p = (IF cr.deleting THEN "cleanup" ELSE IF cr.fin THEN "observe" ELSE "finalizer")
             /\ rec' = [Idle EXCEPT !.obj = cr, !.ost = status, !.pc = p]
      BY <1>7 DEF Begin
    <2>2. rec'.pc = p /\ rec'.obj = cr /\ rec'.ost = status /\ rec'.todo = <<>> /\ rec'.orphans = {}
      BY <2>1 DEF Idle
    <2>3. RecTyped'
      <3>1. cr \in Resources /\ status \in Statuses /\ p \in Pcs
        BY <1>7, <2>1, Numbers, CrFields DEF ClusterTyped, Pcs
      <3>2. QED
        BY <2>1, <3>1, IdleFields DEF RecTyped
    <2>4. /\ p \in {"cleanup", "observe"} => cr.fin
          /\ p = "finalizer" => ~cr.fin
          /\ Live' /\ cr # NoCr
      BY <1>1, <1>7, <2>1, Numbers DEF StatusInv, Live
    <2>5. RecInv'
      <3>1. cr.uid <= creates /\ (~cr.fin => status.seen = 0) /\ (status.phase # "none" => status.seen # 0)
        BY <1>7, Numbers DEF StatusInv
      <3>2. QED
        BY <1>1, <1>2, <2>1, <2>2, <2>4, <3>1 DEF RecInv, Working
    <2>6. StatusInv' /\ ChildrenGone'
      BY <1>1, <1>2, <1>7, <2>1, <2>2, <2>4, Numbers DEF StatusInv, ChildrenGone
    <2>7. ASSUME ~faulty', ~mixed' PROVE CompleteInv'
      <3>1. CompleteInv /\ cr.gen \in Nat /\ cr.uid \in Nat
        BY <1>2, <1>7, <2>7, Numbers
      <3>2. Related'
        BY <1>1, <1>7, <2>2, <3>1 DEF CompleteInv, Related
      <3>3. Done(cr) => Done(cr)' /\ Done(rec.obj)'
        BY <1>1, <2>2 DEF Done
      <3>4. QED
        BY <1>1, <1>4, <1>5, <1>7, <2>1, <2>2, <2>4, <3>1, <3>2, <3>3 DEF CompleteInv, Working
    <2>8. QED
      BY <1>3, <2>3, <2>5, <2>6, <2>7 DEF IInv, Typed
  <1>8. QED
    BY <1>6, <1>7

\* The finalizer is removed, and the resource with it.
LEMMA RemoveFinalizerKeeps == ASSUME IInv, RemoveFinalizer PROVE IInv'
  <1>1. /\ rec.pc = "unfinalize"
        /\ UNCHANGED <<knative, children, cache, an, en, enforced, leaked, mixed, creates>>
    BY DEF RemoveFinalizer
  <1>2. CASE /\ rec' = Idle /\ pending' = TRUE /\ cr' = NoCr /\ status' = NoStatus
             /\ UNCHANGED <<faulty, events>>
    <2>1. RecTyped' /\ rec'.pc = "idle" /\ rec'.ost.phase = "none" /\ ~Live'
      BY <1>2, IdleFields DEF RecTyped, Live
    <2>2. LoopsTyped' /\ EnforcedInv'
      BY <1>1, Numbers, LoopsFrame, EnforcedFrame
    <2>3. ClusterTyped'
      BY <1>1, <1>2, <2>1, Numbers, StatusFields DEF ClusterTyped
    <2>4. RecInv'
      BY <2>1 DEF RecInv, Working
    <2>5. StatusInv'
      BY <1>2, <2>1, StatusFields DEF StatusInv
    <2>6. ChildrenGone'
      BY <1>1, <1>2, Numbers DEF ChildrenGone
    <2>7. ASSUME ~faulty', ~mixed' PROVE CompleteInv'
      <3>1. CompleteInv
        BY <1>1, <1>2, <2>7, Numbers
      <3>2. Fitting'
        BY <1>1, <3>1 DEF CompleteInv, Fitting
      <3>3. QED
        BY <2>1, <3>2 DEF CompleteInv, Related, Working
    <2>8. QED
      BY <2>1, <2>2, <2>3, <2>4, <2>5, <2>6, <2>7 DEF IInv, Typed
  <1>3. CASE Fail /\ UNCHANGED <<cr, status>>
    BY <1>1, <1>3, FailKeeps
  <1>4. QED
    BY <1>2, <1>3 DEF RemoveFinalizer

\* The finalizer is added.
LEMMA EnsureFinalizerKeeps == ASSUME IInv, EnsureFinalizer PROVE IInv'
  <1>1. /\ rec.pc = "finalizer"
        /\ UNCHANGED <<knative, status, children, cache, an, en, enforced, leaked, creates>>
    BY DEF EnsureFinalizer
  <1>2. LoopsTyped' /\ EnforcedInv'
    BY <1>1, Numbers, LoopsFrame, EnforcedFrame
  <1>3. CASE /\ Live /\ cr' = [cr EXCEPT !.fin = TRUE] /\ rec' = [rec EXCEPT !.pc = "observe"]
             /\ pending' = TRUE /\ mixed' = (mixed \/ cr.uid # rec.obj.uid) /\ UNCHANGED <<faulty, events>>
    <2>1. cr \in Resources
      BY <1>3, Numbers, CrFields
    <2>2. /\ cr' \in Resources /\ cr'.uid = cr.uid /\ cr'.gen = cr.gen /\ cr'.fns = cr.fns /\ cr'.fin = TRUE
          /\ cr'.deleting = cr.deleting
      BY <1>3, <2>1 DEF Resources
    <2>3. Live'
      BY <2>2, Constants DEF Live
    <2>4. /\ RecTyped' /\ rec'.pc = "observe" /\ rec'.obj = rec.obj /\ rec'.ost = rec.ost
      BY <1>3, Numbers DEF RecTyped, Pcs
    <2>5. rec.obj # NoCr /\ rec.obj.uid <= creates /\ rec.ost.seen = 0 /\ status.seen = 0 /\ ~cr.fin
      BY <1>1, <1>3, Numbers DEF RecInv, StatusInv
    <2>6. mixed' \in BOOLEAN
      BY <1>3
    <2>7. ClusterTyped'
      BY <1>1, <1>3, <2>2, <2>6, Numbers DEF ClusterTyped
    <2>8. RecInv'
      BY <1>1, <1>3, <2>2, <2>3, <2>4, <2>5, Numbers DEF RecInv, Working
    <2>9. StatusInv' /\ ChildrenGone'
      BY <1>1, <1>3, <2>2, <2>3, <2>4, Numbers DEF StatusInv, ChildrenGone
    <2>10. ASSUME ~faulty', ~mixed' PROVE CompleteInv'
      <3>1. CompleteInv /\ cr.uid = rec.obj.uid /\ DOMAIN children = {}
        BY <1>3, <2>5, <2>10, Numbers DEF ChildrenGone
      <3>2. Related'
        BY <1>1, <1>3, <2>2, <2>4, <3>1 DEF CompleteInv, Related
      <3>3. rec.obj.gen \in Nat /\ rec.obj.gen >= 1 /\ cr.gen >= 1 /\ cr.gen \in Nat
        BY <1>3, <2>5, Numbers
      <3>4. Fitting'
        BY <1>1, <3>1 DEF Fitting
      <3>5. QED
        BY <1>1, <1>3, <2>2, <2>4, <2>5, <3>1, <3>2, <3>3, <3>4 DEF CompleteInv
    <2>11. QED
      BY <1>2, <2>4, <2>7, <2>8, <2>9, <2>10 DEF IInv, Typed
  <1>4. CASE ~Live /\ rec' = Idle /\ pending' = TRUE /\ UNCHANGED <<cr, mixed, faulty, events>>
    <2>1. RecTyped' /\ rec'.pc = "idle" /\ rec'.ost.phase = "none" /\ ~Live'
      BY <1>4, IdleFields DEF RecTyped, Live
    <2>2. ClusterTyped'
      BY <1>1, <1>4, <2>1, Numbers DEF ClusterTyped
    <2>3. RecInv'
      BY <2>1 DEF RecInv, Working
    <2>4. StatusInv' /\ ChildrenGone'
      BY <1>1, <1>4, <2>1, Numbers DEF StatusInv, ChildrenGone
    <2>5. ASSUME ~faulty', ~mixed' PROVE CompleteInv'
      <3>1. CompleteInv
        BY <1>4, <2>5, Numbers
      <3>2. Fitting'
        BY <1>1, <3>1 DEF CompleteInv, Fitting
      <3>3. QED
        BY <2>1, <3>2 DEF CompleteInv, Related, Working
    <2>6. QED
      BY <1>2, <2>1, <2>2, <2>3, <2>4, <2>5 DEF IInv, Typed
  <1>5. CASE Fail /\ UNCHANGED <<cr, mixed>>
    BY <1>1, <1>5, FailKeeps
  <1>6. QED
    BY <1>3, <1>4, <1>5 DEF EnsureFinalizer

-----------------------------------------------------------------------------
(* The reconciler: deleting                                                *)

\* Deletes whose errors are ignored.
LEMMA BestEffortIs ==
    ASSUME IInv, NEW xs \in SUBSET DOMAIN children, BestEffort(xs), knative' = knative
    PROVE  /\ DOMAIN children' \subseteq DOMAIN children /\ children' \in [DOMAIN children' -> ChildRecord]
           /\ \A x \in DOMAIN children' : children'[x] = children[x]
           /\ enforced' \in 0..MaxReplicas /\ EnforcedInv'
           /\ events' \in events..MaxEvents /\ faulty' \in BOOLEAN /\ leaked' \in BOOLEAN
           /\ leaked' => faulty'
           /\ faulty => faulty'
           /\ ~leaked' => DOMAIN children' = DOMAIN children \ xs
  <1>1. PICK left \in {{}} \cup {{x} : x \in xs} :
           /\ IF left = {} THEN UNCHANGED <<faulty, leaked, events>>
              ELSE Event /\ faulty' = TRUE /\ leaked' = TRUE
           /\ children' = Without(xs \ left)
           /\ enforced' = IF Base \in xs \ left THEN 0 ELSE enforced
    BY DEF BestEffort
  <1>2. children' = [x \in DOMAIN children \ (xs \ left) |-> children[x]]
    BY <1>1 DEF Without
  <1>3. /\ DOMAIN children' = DOMAIN children \ (xs \ left)
        /\ \A x \in DOMAIN children' : children'[x] = children[x]
    BY <1>2
  <1>4. children' \in [DOMAIN children' -> ChildRecord]
    <2>1. children \in [DOMAIN children -> ChildRecord]
      BY Unchanged
    <2>2. \A x \in DOMAIN children' : children[x] \in ChildRecord
      BY <1>3, <2>1
    <2>3. QED
      BY <1>2, <1>3, <2>2
  <1>5. EnforcedInv' /\ enforced' \in 0..MaxReplicas
    <2>1. Base' = Base
      BY DEF Base, FnKind
    <2>2. 0 \in 0..MaxReplicas /\ enforced \in 0..MaxReplicas
      BY Unchanged, Constants
    <2>3. CASE Base \in xs \ left
      BY <1>1, <2>2, <2>3 DEF EnforcedInv
    <2>4. CASE Base \notin xs \ left
      BY <1>1, <1>3, <2>1, <2>2, <2>4, Numbers DEF EnforcedInv
    <2>5. QED
      BY <2>3, <2>4
  <1>6. /\ events' \in events..MaxEvents /\ faulty' \in BOOLEAN /\ leaked' \in BOOLEAN
        /\ (leaked' => faulty') /\ (faulty => faulty')
    BY <1>1, Numbers, Unchanged DEF ChildrenGone, ClusterTyped
  <1>7. ~leaked' => DOMAIN children' = DOMAIN children \ xs
    BY <1>1, <1>3
  <1>8. QED
    BY <1>3, <1>4, <1>5, <1>6, <1>7

\* The types of the cluster after deletes.
LEMMA ClusterShrinks ==
    ASSUME IInv, UNCHANGED <<knative, cr, status, pending, mixed, creates>>,
           DOMAIN children' \subseteq DOMAIN children, children' \in [DOMAIN children' -> ChildRecord],
           enforced' \in 0..MaxReplicas, events' \in events..MaxEvents, faulty' \in BOOLEAN,
           leaked' \in BOOLEAN
    PROVE  ClusterTyped'
  <1>1. events' \in 0..MaxEvents /\ creates' \in 0..(events' + 1)
          /\ (Live => cr.gen <= events' + 1 /\ cr.uid <= creates')
    BY Numbers
  <1>2. QED
    BY <1>1, Numbers DEF ClusterTyped, Live

\* The children of a deleted resource.
LEMMA DeleteChildrenKeeps == ASSUME IInv, DeleteChildren PROVE IInv'
  <1>1. /\ rec.pc = "cleanup" /\ cache' = NoCr /\ rec' = [rec EXCEPT !.pc = "unfinalize"]
        /\ UNCHANGED <<knative, cr, status, pending, an, en, mixed, creates>>
    BY DEF DeleteChildren
  <1>2. BestEffort(DOMAIN children)
    BY DEF DeleteChildren
  <1>3. /\ DOMAIN children' \subseteq DOMAIN children /\ children' \in [DOMAIN children' -> ChildRecord]
        /\ enforced' \in 0..MaxReplicas /\ EnforcedInv'
        /\ events' \in events..MaxEvents /\ faulty' \in BOOLEAN /\ leaked' \in BOOLEAN
        /\ (leaked' => faulty') /\ (faulty => faulty')
        /\ (~leaked' => DOMAIN children' = {})
    BY <1>1, <1>2, BestEffortIs
  <1>4. RecTyped' /\ rec'.pc = "unfinalize" /\ rec'.obj = rec.obj /\ rec'.ost = rec.ost
    BY <1>1, Numbers DEF RecTyped, Pcs
  <1>5. LoopsTyped'
    BY <1>1, Numbers DEF LoopsTyped
  <1>6. ClusterTyped'
    BY <1>1, <1>3, ClusterShrinks
  <1>7. RecInv'
    BY <1>1, <1>4, Numbers DEF RecInv, Working, Live
  <1>8. StatusInv'
    BY <1>1, <1>4, Numbers DEF StatusInv, Live
  <1>9. ChildrenGone'
    BY <1>3 DEF ChildrenGone
  <1>10. ASSUME ~faulty', ~mixed' PROVE CompleteInv'
    <2>1. CompleteInv /\ DOMAIN children' = {}
      BY <1>1, <1>3, <1>10, Numbers
    <2>2. Fitting'
      BY <2>1 DEF Fitting
    <2>3. Related'
      BY <1>1, <1>4, <2>1 DEF CompleteInv, Related, Working
    <2>4. QED
      BY <1>1, <1>4, <2>1, <2>2, <2>3 DEF CompleteInv, Live
  <1>11. QED
    BY <1>3, <1>4, <1>5, <1>6, <1>7, <1>8, <1>9, <1>10 DEF IInv, Typed

\* The workloads of functions that went away.
LEMMA DeleteOrphansKeeps == ASSUME IInv, DeleteOrphans PROVE IInv'
  <1> DEFINE xs == {x \in DOMAIN children : \E o \in rec.orphans : x[2] = o[2]}
  <1>1. /\ rec.pc = "orphans" /\ rec' = [rec EXCEPT !.pc = "report", !.orphans = {}]
        /\ UNCHANGED <<knative, cr, status, pending, cache, an, en, mixed, creates>>
    BY DEF DeleteOrphans
  <1>2. BestEffort(xs) /\ xs \in SUBSET DOMAIN children
    BY DEF DeleteOrphans
  <1>3. /\ DOMAIN children' \subseteq DOMAIN children /\ children' \in [DOMAIN children' -> ChildRecord]
        /\ \A x \in DOMAIN children' : children'[x] = children[x]
        /\ enforced' \in 0..MaxReplicas /\ EnforcedInv'
        /\ events' \in events..MaxEvents /\ faulty' \in BOOLEAN /\ leaked' \in BOOLEAN
        /\ (leaked' => faulty') /\ (faulty => faulty')
        /\ (~leaked' => DOMAIN children' = DOMAIN children \ xs)
    <2> HIDE DEF xs
    <2> QED
      BY <1>1, <1>2, BestEffortIs
  <1>4. /\ RecTyped' /\ rec'.pc = "report" /\ rec'.obj = rec.obj /\ rec'.ost = rec.ost
        /\ rec'.phase = rec.phase
    BY <1>1, Numbers DEF RecTyped, Pcs
  <1>5. LoopsTyped'
    BY <1>1, Numbers, LoopsFrame
  <1>6. ClusterTyped'
    BY <1>1, <1>3, ClusterShrinks
  <1>7. RecInv'
    BY <1>1, <1>4, Numbers DEF RecInv, Working, Live, GenerationChanged
  <1>8. StatusInv'
    BY <1>1, <1>4, Numbers DEF StatusInv, Live
  <1>9. ChildrenGone'
    BY <1>1, <1>3, <1>4, Numbers DEF ChildrenGone, RecInv, Working, Live
  <1>10. ASSUME ~faulty', ~mixed' PROVE CompleteInv'
    <2>1. CompleteInv /\ DOMAIN children' = DOMAIN children \ xs
      BY <1>1, <1>3, <1>10, Numbers
    <2>2. Done(rec.obj) /\ Fitting
      BY <1>1, <2>1 DEF CompleteInv
    <2>3. rec.obj.fns \in {1, 2} /\ knative \in BOOLEAN
      BY <1>1, Numbers, RecFields, CrFields DEF RecInv
    <2>4. \A x \in Manifests(knative, rec.obj.fns) : x[2] \in FnSet(rec.obj.fns) \cup {"odgm"}
      BY DEF Manifests
    <2>5. \A o \in rec.orphans : o[2] \notin FnSet(rec.obj.fns) \cup {"odgm"}
      BY <1>1, <2>1 DEF CompleteInv
    <2>6. \A x \in Manifests(knative, rec.obj.fns) : x \notin xs
      BY <2>4, <2>5
    <2>7. Done(rec.obj)'
      BY <1>1, <1>3, <1>4, <2>1, <2>2, <2>6 DEF Done
    <2>8. Fitting'
      <3>1. ASSUME NEW x \in DOMAIN children', x[1] = "Service" PROVE <<"Deployment", x[2]>> \in DOMAIN children'
        <4>1. <<"Deployment", x[2]>> \in DOMAIN children /\ x \notin xs
          BY <1>3, <2>1, <2>2, <3>1 DEF Fitting
        <4>2. <<"Deployment", x[2]>>[2] = x[2]
          OBVIOUS
        <4>3. QED
          BY <1>3, <2>1, <4>1, <4>2
      <3>2. QED
        BY <1>1, <1>3, <2>2, <3>1 DEF Fitting
    <2>9. DOMAIN children' \subseteq Manifests(knative, rec.obj.fns)
      BY <1>1, <2>1 DEF CompleteInv
    <2>10. Related'
      BY <1>1, <1>4, <2>1 DEF CompleteInv, Related, Working
    <2>11. status.seen <= cr.gen
      BY <1>1, <2>1, Numbers DEF CompleteInv, RecInv, Working
    <2>12. QED
      BY <1>1, <1>4, <2>7, <2>8, <2>9, <2>10, <2>11 DEF CompleteInv
  <1>11. QED
    BY <1>3, <1>4, <1>5, <1>6, <1>7, <1>8, <1>9, <1>10 DEF IInv, Typed

-----------------------------------------------------------------------------
(* The reconciler: the report                                              *)

\* The cached resource and the readiness of the functions.
LEMMA ReportKeeps == ASSUME IInv, Report PROVE IInv'
  <1>1. /\ rec.pc = "report" /\ cache' = [conds |-> rec.ost.conds, recs |-> rec.ost.recs]
        /\ rec' = [rec EXCEPT !.pc = "status", !.funcs = FunctionReadiness(rec.obj.fns)]
        /\ UNCHANGED <<knative, cr, status, children, pending, an, en, enforced, leaked, counters>>
    BY DEF Report
  <1>2. UNCHANGED <<faulty, mixed, creates, events>>
    BY <1>1 DEF counters
  <1>3. PICK n \in Counts : n = rec.obj.fns
    BY <1>1, Numbers, RecFields DEF RecInv
  <1>4. PICK F \in FuncLists : F = FunctionReadiness(n)
    <2>1. FunctionReadiness(n) \in [1..n -> BOOLEAN]
      BY Constants DEF FunctionReadiness
    <2>2. QED
      BY <2>1 DEF FuncLists
  <1>5. rec' = [rec EXCEPT !.pc = "status", !.funcs = F]
    BY <1>1, <1>3, <1>4
  <1>6. /\ RecTyped' /\ rec'.pc = "status" /\ rec'.obj = rec.obj /\ rec'.ost = rec.ost
        /\ rec'.phase = rec.phase
    BY <1>5, Numbers DEF RecTyped, Pcs
  <1>7. LoopsTyped'
    <2>1. rec.ost.conds \in SUBSET Conds /\ rec.ost.recs \in Nat
      BY Numbers, RecFields, StatusFields
    <2>2. cache' \in [conds : SUBSET Conds, recs : Nat]
      BY <1>1, <2>1
    <2>3. QED
      BY <1>1, <2>2, Numbers DEF LoopsTyped
  <1>8. ClusterTyped' /\ EnforcedInv'
    BY <1>1, <1>2, Numbers, EnforcedFrame DEF ClusterTyped, Live
  <1>9. RecInv'
    BY <1>1, <1>2, <1>6, Numbers DEF RecInv, Working, Live, GenerationChanged
  <1>10. StatusInv'
    BY <1>1, <1>6, Numbers DEF StatusInv, Live
  <1>11. ChildrenGone'
    BY <1>1, <1>2, <1>6, Numbers DEF ChildrenGone, Live
  <1>12. ASSUME ~faulty', ~mixed' PROVE CompleteInv'
    <2>1. CompleteInv
      BY <1>2, <1>12, Numbers
    <2>2. Done(rec.obj)'
      BY <1>1, <1>6, <2>1 DEF CompleteInv, Done
    <2>3. Fitting'
      BY <1>1, <2>1 DEF CompleteInv, Fitting
    <2>4. Related'
      BY <1>1, <1>6, <2>1 DEF CompleteInv, Related, Working
    <2>5. QED
      BY <1>1, <1>6, <2>1, <2>2, <2>3, <2>4 DEF CompleteInv, Live
  <1>13. QED
    BY <1>6, <1>7, <1>8, <1>9, <1>10, <1>11, <1>12 DEF IInv, Typed

\* The end of a reconcile.
LEMMA UpdateStatusKeeps == ASSUME IInv, UpdateStatus PROVE IInv'
  <1>1. /\ rec.pc = "status"
        /\ UNCHANGED <<knative, cr, children, cache, an, en, enforced, leaked, mixed, creates>>
    BY DEF UpdateStatus
  <1>2. /\ Live /\ cr.fin /\ rec.ost.seen = status.seen /\ rec.obj # NoCr
        /\ rec.ost \in Statuses /\ rec.phase \in Phases /\ rec.funcs \in FuncLists
        /\ status \in Statuses /\ rec.obj.gen \in 1..(MaxEvents + 1)
    BY <1>1, Numbers, RecFields DEF RecInv, Working, ClusterTyped
  <1>3. CASE End /\ rec' = Idle /\ UNCHANGED <<faulty, events>>
    <2>1. RecTyped' /\ rec'.pc = "idle" /\ rec'.ost.phase = "none"
      BY <1>3, IdleFields DEF RecTyped
    <2>2. LoopsTyped' /\ EnforcedInv'
      BY <1>1, Numbers, LoopsFrame, EnforcedFrame
    <2>3. RecInv'
      BY <2>1 DEF RecInv, Working
    <2>4. PICK t : t = MergeStatus(rec.ost, rec.phase, rec.obj.gen, rec.funcs)
      OBVIOUS
    <2>5. /\ t \in Statuses /\ t.phase = rec.phase /\ t.seen = rec.obj.gen
          /\ t.conds = rec.ost.conds \cup BuildConditions(rec.phase)
      <3>1. PICK C \in SUBSET Conds : C = rec.ost.conds \cup BuildConditions(rec.phase)
        <4>1. rec.ost.conds \subseteq Conds
          BY <1>2, StatusFields
        <4>2. BuildConditions(rec.phase) \subseteq Conds
          BY DEF BuildConditions, Conds
        <4>3. QED
          BY <4>1, <4>2
      <3>2. t = [rec.ost EXCEPT !.phase = rec.phase, !.seen = rec.obj.gen, !.funcs = rec.funcs, !.conds = C]
        BY <2>4, <3>1 DEF MergeStatus
      <3>3. rec.obj.gen \in 0..(MaxEvents + 1)
        BY <1>2, Constants
      <3>4. QED
        BY <1>2, <3>1, <3>2, <3>3, StatusFields
    <2>6. CASE ShouldPatchStatus(rec.ost, t)
      <3>1. pending' = TRUE /\ status' = PatchStatus(status, t)
        BY <1>2, <1>3, <2>4, <2>6 DEF End
      <3>2. status' \in Statuses /\ status'.phase = rec.phase /\ status'.seen = rec.obj.gen
        <4>1. PICK r \in Nat : status' = [t EXCEPT !.recs = r]
          <5>1. t.recs \in Nat /\ status.recs \in Nat
            BY <1>2, <2>5, StatusFields
          <5>2. QED
            BY <3>1, <5>1 DEF PatchStatus
        <4>2. QED
          BY <2>5, <4>1, StatusFields
      <3>3. ClusterTyped'
        BY <1>1, <1>3, <3>1, <3>2, Numbers DEF ClusterTyped, Live
      <3>4. StatusInv' /\ ChildrenGone'
        BY <1>1, <1>2, <1>3, <2>1, <3>1, <3>2, Numbers DEF StatusInv, ChildrenGone, Live
      <3>5. ASSUME ~faulty', ~mixed' PROVE CompleteInv'
        <4>1. CompleteInv
          BY <1>1, <1>3, <3>5, Numbers
        <4>2. Fitting' /\ Related'
          BY <1>1, <2>1, <4>1 DEF CompleteInv, Fitting, Related, Working
        <4>3. /\ Done(rec.obj) /\ rec.obj.gen <= cr.gen /\ (rec.obj.gen = cr.gen => rec.obj.fns = cr.fns)
          BY <1>1, <4>1 DEF CompleteInv, Related, Working
        <4>4. rec.obj.gen = cr.gen => Done(cr)'
          BY <1>1, <4>3 DEF Done
        <4>5. QED
          BY <1>1, <1>2, <2>1, <3>1, <3>2, <4>2, <4>3, <4>4 DEF CompleteInv, Working
      <3>6. QED
        BY <2>1, <2>2, <2>3, <3>3, <3>4, <3>5 DEF IInv, Typed
    <2>7. CASE ~ShouldPatchStatus(rec.ost, t)
      <3>1. pending' = (pending \/ Requeue) /\ status' = status
        BY <1>3, <2>4, <2>7 DEF End
      <3>2. pending' \in BOOLEAN
        BY <3>1
      <3>3. rec.phase = rec.ost.phase /\ t.conds = rec.ost.conds
        <4>1. [t EXCEPT !.seen = 0] = [rec.ost EXCEPT !.seen = 0]
          BY <2>7 DEF ShouldPatchStatus
        <4>2. [t EXCEPT !.seen = 0].phase = t.phase /\ [t EXCEPT !.seen = 0].conds = t.conds
          BY <2>5, StatusFields
        <4>3. [rec.ost EXCEPT !.seen = 0].phase = rec.ost.phase /\ [rec.ost EXCEPT !.seen = 0].conds = rec.ost.conds
          BY <1>2, StatusFields
        <4>4. QED
          BY <2>5, <4>1, <4>2, <4>3
      <3>4. rec.ost.seen # 0
        BY <1>1, <3>3, Numbers DEF RecInv
      <3>5. ClusterTyped'
        BY <1>1, <1>3, <3>1, <3>2, Numbers DEF ClusterTyped, Live
      <3>6. ASSUME ~pending'
            PROVE  /\ rec.phase = "available" /\ rec.obj = cr /\ rec.ost = status
                   /\ status.phase = "available" /\ "Available" \in status.conds /\ status.seen = cr.gen
        <4>1. rec.phase = "available" /\ ~pending
          BY <3>1, <3>6 DEF Requeue
        <4>2. rec.obj = cr /\ rec.ost = status /\ ~GenerationChanged(rec.obj, rec.ost)
          BY <1>1, <4>1, Numbers DEF RecInv
        <4>3. "Available" \in t.conds
          BY <2>5, <4>1 DEF BuildConditions
        <4>4. QED
          BY <3>3, <3>4, <4>1, <4>2, <4>3 DEF GenerationChanged
      <3>7. StatusInv' /\ ChildrenGone'
        BY <1>1, <1>2, <1>3, <2>1, <3>1, <3>6, Numbers DEF StatusInv, ChildrenGone, Live
      <3>8. ASSUME ~faulty', ~mixed' PROVE CompleteInv'
        <4>1. CompleteInv
          BY <1>1, <1>3, <3>8, Numbers
        <4>2. Fitting' /\ Related'
          BY <1>1, <2>1, <4>1 DEF CompleteInv, Fitting, Related, Working
        <4>3. /\ Done(rec.obj) /\ rec.obj.gen <= cr.gen /\ (rec.obj.gen = cr.gen => rec.obj.fns = cr.fns)
              /\ status.seen <= rec.obj.gen
          BY <1>1, <4>1 DEF CompleteInv, Related, Working
        <4>4. rec.obj.gen = cr.gen => Done(cr)'
          BY <1>1, <4>3 DEF Done
        <4>5. status.seen = cr.gen => rec.obj.gen = cr.gen
          BY <1>2, <4>3, Numbers
        <4>6. ~pending' => DOMAIN children \subseteq Manifests(knative, cr.fns)
          BY <1>1, <3>6, <4>1 DEF CompleteInv
        <4>7. status.seen <= cr.gen
          BY <1>2, <4>1 DEF CompleteInv
        <4>8. QED
          BY <1>1, <1>2, <2>1, <3>1, <3>4, <4>2, <4>4, <4>5, <4>6, <4>7 DEF CompleteInv, Working
      <3>9. QED
        BY <2>1, <2>2, <2>3, <3>5, <3>7, <3>8 DEF IInv, Typed
    <2>8. QED
      BY <2>6, <2>7
  <1>4. CASE Fail /\ UNCHANGED status
    BY <1>1, <1>4, FailKeeps
  <1>5. QED
    BY <1>3, <1>4 DEF UpdateStatus

-----------------------------------------------------------------------------
(* The reconciler: applying                                                *)

\* A manifest that was applied.
LEMMA AppliedIs ==
    ASSUME IInv, rec.obj # NoCr, NEW x
    PROVE  /\ Applied(x) \in ChildRecord /\ Applied(x).gen = rec.obj.gen
           /\ Enforce /\ x \in DOMAIN children => Applied(x).replicas = children[x].replicas
  <1>1. rec.obj.gen \in 1..(MaxEvents + 1) /\ 1 \in 1..MaxReplicas
    BY Numbers, RecFields, Constants
  <1>2. CASE x \in DOMAIN children
    <2>1. PICK c \in ChildRecord : c = children[x]
      BY <1>2, Unchanged
    <2>2. PICK r \in 1..MaxReplicas : r = (IF Enforce THEN c.replicas ELSE 1)
      BY <1>1 DEF ChildRecord
    <2>3. Applied(x) = [c EXCEPT !.gen = rec.obj.gen, !.replicas = r]
      BY <1>2, <2>1, <2>2 DEF Applied
    <2>4. QED
      BY <1>1, <2>1, <2>2, <2>3 DEF ChildRecord
  <1>3. CASE x \notin DOMAIN children
    BY <1>1, <1>3 DEF Applied, ChildRecord
  <1>4. QED
    BY <1>2, <1>3

\* One manifest is applied.
LEMMA ApplyWorkloadKeeps == ASSUME IInv, ApplyWorkload PROVE IInv'
  <1>1. /\ rec.pc = "apply"
        /\ UNCHANGED <<knative, cr, status, cache, an, en, enforced, leaked, mixed, creates>>
    BY DEF ApplyWorkload
  <1>2. CASE Fail /\ UNCHANGED children
    BY <1>1, <1>2, FailKeeps
  <1>3. ASSUME /\ children' = [y \in DOMAIN children \cup {Head(rec.todo)} |->
                                 IF y = Head(rec.todo) THEN Applied(Head(rec.todo)) ELSE children[y]]
               /\ rec' = [rec EXCEPT !.todo = Tail(@),
                                     !.pc = IF Len(rec.todo) = 1 THEN "report" ELSE "apply"]
               /\ UNCHANGED <<pending, faulty, events>>
        PROVE  IInv'
    <2>1. PICK T \in Seq(Children) : T = rec.todo /\ T # <<>>
      BY <1>1, Numbers, RecFields DEF RecInv
    <2>2. Len(T) \in Nat \ {0} /\ T[1] \in Children /\ Tail(T) \in Seq(Children) /\ Head(T) = T[1]
      BY <2>1
    <2>3. PICK x \in Children : x = T[1]
      BY <2>2
    <2>4. PICK U \in Seq(Children) : U = Tail(T) /\ Len(U) = Len(T) - 1 /\ \A i \in 1..Len(U) : U[i] = T[i + 1]
      BY <2>1, HeadTailProperties
    <2>5. PICK p \in {"report", "apply"} : p = (IF Len(T) = 1 THEN "report" ELSE "apply")
      OBVIOUS
    <2>6. rec' = [rec EXCEPT !.todo = U, !.pc = p]
      BY <1>3, <2>1, <2>4, <2>5
    <2>7. /\ RecTyped' /\ rec'.pc = p /\ rec'.todo = U /\ rec'.obj = rec.obj /\ rec'.ost = rec.ost
          /\ rec'.phase = rec.phase
      BY <2>5, <2>6, Numbers DEF RecTyped, Pcs
    <2>8. /\ rec.obj # NoCr /\ rec.phase \in {"applying", "progressing"} /\ Live /\ cr.fin
      BY <1>1, Numbers DEF RecInv, Working
    <2>9. PICK a \in ChildRecord : /\ a = Applied(x) /\ a.gen = rec.obj.gen
                                   /\ Enforce /\ x \in DOMAIN children => a.replicas = children[x].replicas
      BY <2>8, AppliedIs
    <2>10. children' = [y \in DOMAIN children \cup {x} |-> IF y = x THEN a ELSE children[y]]
      BY <1>3, <2>1, <2>2, <2>3, <2>9
    <2>11. /\ DOMAIN children' = DOMAIN children \cup {x} /\ children'[x] = a
           /\ \A y \in DOMAIN children : y # x => children'[y] = children[y]
      BY <2>10
    <2>12. children' \in [DOMAIN children' -> ChildRecord] /\ DOMAIN children' \subseteq Children
      <3>1. children \in [DOMAIN children -> ChildRecord] /\ DOMAIN children \subseteq Children
        BY Numbers DEF ClusterTyped
      <3>2. \A y \in DOMAIN children \cup {x} : (IF y = x THEN a ELSE children[y]) \in ChildRecord
        BY <3>1
      <3>3. QED
        BY <2>10, <2>11, <3>1, <3>2
    <2>13. LoopsTyped'
      BY <1>1, Numbers, LoopsFrame
    <2>14. ClusterTyped'
      BY <1>1, <1>3, <2>12, Numbers DEF ClusterTyped, Live
    <2>15. RecInv'
      <3>1. p = "apply" => U # <<>>
        <4>1. p = "apply" => Len(U) # 0
          BY <2>2, <2>4, <2>5
        <4>2. QED
          BY <4>1
      <3>2. QED
        BY <1>1, <1>3, <2>5, <2>7, <2>8, <3>1, Numbers DEF RecInv, Working, Live
    <2>16. StatusInv' /\ ChildrenGone'
      BY <1>1, <1>3, <2>5, <2>7, <2>8, Numbers DEF StatusInv, ChildrenGone, Live
    <2>17. EnforcedInv'
      <3>1. ASSUME enforced # 0 PROVE \A y \in DOMAIN children : children'[y].replicas = children[y].replicas
        BY <2>9, <2>11, <3>1, Numbers DEF EnforcedInv
      <3>2. QED
        BY <1>1, <2>11, <3>1, Numbers, EnforcedFrame DEF EnforcedInv
    <2>18. ASSUME ~faulty', ~mixed' PROVE CompleteInv'
      <3>1. CompleteInv
        BY <1>1, <1>3, <2>18, Numbers
      <3>2. rec.obj.fns \in {1, 2} /\ rec.obj.fns \in Counts /\ knative \in BOOLEAN
        BY <2>8, Numbers, RecFields, CrFields
      <3>3. PICK W \in Seq(Children) : Sequenced(W, rec.obj)
        BY <3>2, WorkloadOf
      <3>4. /\ W = RenderWorkload(rec.obj) /\ Len(W) \in Nat \ {0}
            /\ \A i \in 1..Len(W) : W[i] \in Manifests(knative, rec.obj.fns)
            /\ \A y \in Manifests(knative, rec.obj.fns) : \E i \in 1..Len(W) : W[i] = y
            /\ \A i \in 1..Len(W) : W[i][1] = "Service" => i > 1 /\ W[i - 1] = <<"Deployment", W[i][2]>>
        BY <3>3 DEF Sequenced
      <3>5. Applying
        BY <1>1, <3>1 DEF CompleteInv
      <3>6. /\ Len(T) \in 1..Len(W)
            /\ \A i \in 1..Len(T) : T[i] = W[(Len(W) - Len(T)) + i]
            /\ \A i \in 1..(Len(W) - Len(T)) : W[i] \in DOMAIN children /\ children[W[i]].gen = rec.obj.gen
        BY <2>1, <3>4, <3>5 DEF Applying
      <3>7. PICK d \in Nat : d = Len(W) - Len(T) /\ d + 1 \in 1..Len(W)
        <4>1. Len(W) \in Nat /\ Len(T) \in 1..Len(W)
          BY <3>4, <3>6
        <4>2. Len(W) - Len(T) \in Nat /\ (Len(W) - Len(T)) + 1 \in 1..Len(W)
          BY <4>1
        <4>3. QED
          BY <4>2
      <3>8. x = W[d + 1] /\ x \in Manifests(knative, rec.obj.fns)
        <4>1. T[1] = W[d + 1]
          <5>1. 1 \in 1..Len(T)
            BY <2>2
          <5>2. QED
            BY <3>6, <3>7, <5>1
        <4>2. QED
          BY <2>3, <3>4, <3>7, <4>1
      <3>9. \A i \in 1..(d + 1) : W[i] \in DOMAIN children' /\ children'[W[i]].gen = rec.obj.gen
        <4>1. \A i \in 1..d : W[i] \in DOMAIN children /\ children[W[i]].gen = rec.obj.gen
          BY <3>6, <3>7
        <4>2. \A i \in 1..(d + 1) : i \in 1..d \/ i = d + 1
          BY <3>7
        <4>3. QED
          BY <2>9, <2>11, <3>8, <4>1, <4>2
      <3>10. Done(rec.obj) => Done(rec.obj)'
        BY <1>1, <2>7, <2>9, <2>11 DEF Done
      <3>11. p = "report" => Done(rec.obj)'
        <4>1. ASSUME p = "report" PROVE Len(W) = d + 1
          <5>1. Len(T) = 1 /\ Len(W) \in Nat
            BY <2>5, <3>4, <4>1
          <5>2. QED
            BY <3>7, <5>1
        <4>2. QED
          BY <1>1, <2>7, <3>4, <3>9, <4>1 DEF Done
      <3>12. p = "apply" => Applying'
        <4>1. SUFFICES ASSUME p = "apply" PROVE Applying'
          OBVIOUS
        <4>2. RenderWorkload(rec.obj)' = W
          BY <1>1, <2>7, <3>4, RenderFrame
        <4>3. Len(T) # 1
          BY <2>5, <4>1
        <4>4. Len(U) \in 1..Len(W) /\ Len(W) - Len(U) = d + 1
          BY <2>2, <2>4, <3>4, <3>6, <3>7, <4>3
        <4>5. ASSUME NEW i \in 1..Len(U) PROVE U[i] = W[(d + 1) + i]
          <5>1. U[i] = T[i + 1] /\ i + 1 \in 1..Len(T)
            BY <2>2, <2>4
          <5>2. T[i + 1] = W[d + (i + 1)]
            BY <3>6, <3>7, <5>1
          <5>3. d + (i + 1) = (d + 1) + i
            BY <2>4, <3>7
          <5>4. QED
            BY <5>1, <5>2, <5>3
        <4>6. QED
          BY <2>7, <3>9, <4>2, <4>4, <4>5 DEF Applying
      <3>13. Fitting'
        <4>1. Fitting
          BY <3>1 DEF CompleteInv
        <4>2. ASSUME x[1] = "Service" PROVE <<"Deployment", x[2]>> \in DOMAIN children'
          <5>1. d + 1 > 1 /\ W[(d + 1) - 1] = <<"Deployment", x[2]>>
            BY <3>4, <3>7, <3>8, <4>2
          <5>2. (d + 1) - 1 \in 1..(d + 1)
            BY <3>7, <5>1
          <5>3. QED
            BY <3>9, <5>1, <5>2
        <4>3. QED
          BY <1>1, <2>11, <3>2, <3>8, <4>1, <4>2 DEF Fitting
      <3>14. Related'
        BY <1>1, <2>5, <2>7, <2>8, <3>1 DEF CompleteInv, Related, Working
      <3>15. QED
        BY <1>1, <2>5, <2>7, <2>8, <3>1, <3>10, <3>11, <3>12, <3>13, <3>14 DEF CompleteInv, Working, Live
    <2>19. QED
      BY <2>7, <2>13, <2>14, <2>15, <2>16, <2>17, <2>18 DEF IInv, Typed
  <1>4. QED
    BY <1>2, <1>3 DEF ApplyWorkload

-----------------------------------------------------------------------------
(* The reconciler: deciding                                                *)

\* The decision, from any set of observed children.
LEMMA DecideIs ==
    ASSUME NEW c, NEW s, NEW obs
    PROVE  \E ph \in {"applying", "progressing", "available"}, ap \in BOOLEAN, orph \in SUBSET obs :
              /\ Decide(c, s, obs).phase = ph /\ Decide(c, s, obs).apply = ap
              /\ Decide(c, s, obs).orphans = orph
              /\ ap => ph # "available"
              /\ ~ap => Fsm /\ ~GenerationChanged(c, s)
              /\ ~ap /\ obs = {} => s.phase \in {"applying", "progressing"} /\ ph # "available" /\ orph = {}
              /\ ~ap /\ obs # {} => orph = Orphans(obs, c.fns)
  <1>1. CASE ~Fsm
    <2>1. Decide(c, s, obs) = [phase |-> "progressing", apply |-> TRUE, orphans |-> {}]
      BY <1>1 DEF Decide
    <2>2. Decide(c, s, obs).phase = "progressing" /\ Decide(c, s, obs).apply = TRUE /\ Decide(c, s, obs).orphans = {}
      BY <2>1
    <2>3. QED
      BY <2>2
  <1>2. CASE Fsm /\ GenerationChanged(c, s)
    <2>1. Decide(c, s, obs) = [phase |-> "applying", apply |-> TRUE, orphans |-> {}]
      BY <1>2 DEF Decide, Evaluate
    <2>2. Decide(c, s, obs).phase = "applying" /\ Decide(c, s, obs).apply = TRUE /\ Decide(c, s, obs).orphans = {}
      BY <2>1
    <2>3. QED
      BY <2>2
  <1>3. CASE Fsm /\ ~GenerationChanged(c, s) /\ obs = {}
    <2>1. Decide(c, s, obs) = [phase |-> "applying", apply |-> s.phase \notin {"applying", "progressing"},
                               orphans |-> {}]
      BY <1>3 DEF Decide, Evaluate
    <2>2. CASE s.phase \in {"applying", "progressing"}
      <3>1. Decide(c, s, obs) = [phase |-> "applying", apply |-> FALSE, orphans |-> {}]
        BY <2>1, <2>2
      <3>2. Decide(c, s, obs).phase = "applying" /\ Decide(c, s, obs).apply = FALSE /\ Decide(c, s, obs).orphans = {}
        BY <3>1
      <3>3. QED
        BY <1>3, <2>2, <3>2
    <2>3. CASE s.phase \notin {"applying", "progressing"}
      <3>1. Decide(c, s, obs) = [phase |-> "applying", apply |-> TRUE, orphans |-> {}]
        BY <2>1, <2>3
      <3>2. Decide(c, s, obs).phase = "applying" /\ Decide(c, s, obs).apply = TRUE /\ Decide(c, s, obs).orphans = {}
        BY <3>1
      <3>3. QED
        BY <1>3, <3>2
    <2>4. QED
      BY <2>2, <2>3
  <1>4. CASE Fsm /\ ~GenerationChanged(c, s) /\ obs # {}
    <2>1. PICK p \in {"available", "progressing"} : p = (IF IsReady(obs) THEN "available" ELSE "progressing")
      OBVIOUS
    <2>2. PICK o : o = Orphans(obs, c.fns)
      OBVIOUS
    <2>3. o \subseteq obs
      BY <2>2 DEF Orphans
    <2>4. Decide(c, s, obs) = [phase |-> p, apply |-> FALSE, orphans |-> o]
      BY <1>4, <2>1, <2>2 DEF Decide, Evaluate
    <2>5. Decide(c, s, obs).phase = p /\ Decide(c, s, obs).apply = FALSE /\ Decide(c, s, obs).orphans = o
      BY <2>4
    <2>6. QED
      BY <1>4, <2>2, <2>3, <2>5
  <1>5. QED
    BY <1>1, <1>2, <1>3, <1>4

\* The observed children are children; with every list they are the workloads.
LEMMA ObservedIs ==
    ASSUME NEW ks \in SUBSET {"Deployment", FnKind}
    PROVE  /\ ObserveChildren(ks) \subseteq DOMAIN children
           /\ ks = {"Deployment", FnKind} =>
                 \A x \in DOMAIN children : x[1] = FnKind => x \in ObserveChildren(ks)
  BY DEF ObserveChildren

\* A child that no function of the specification needs any more has an orphan of its name.
LEMMA OrphansCover ==
    ASSUME knative \in BOOLEAN, Fitting, NEW n \in {1, 2}, NEW obs,
           \A x \in DOMAIN children : x[1] = FnKind => x \in obs
    PROVE  /\ \A o \in Orphans(obs, n) : o[2] \notin FnSet(n) \cup {"odgm"}
           /\ \A x \in DOMAIN children : x \in Manifests(knative, n) \/ \E o \in Orphans(obs, n) : x[2] = o[2]
  <1>1. ASSUME NEW o \in Orphans(obs, n) PROVE o[2] \notin FnSet(n) \cup {"odgm"}
    BY <1>1, FnNamesAre DEF Orphans
  <1>2. ASSUME NEW x \in DOMAIN children, x \notin Manifests(knative, n)
        PROVE  \E o \in Orphans(obs, n) : x[2] = o[2]
    <2>1. PICK m \in Counts : x \in Manifests(knative, m)
      BY <1>2 DEF Fitting
    <2>2. m \in {1, 2}
      BY Constants
    <2>3. x \in FnKinds(knative) \X FnSet(m)
      BY <1>2, <2>1 DEF Manifests
    <2>4. PICK kd \in FnKinds(knative), nm \in FnSet(m) : x = <<kd, nm>>
      BY <2>3
    <2>5. x[1] = kd /\ x[2] = nm
      BY <2>4
    <2>6. nm \notin FnSet(n)
      <3>1. SUFFICES ASSUME nm \in FnSet(n) PROVE FALSE
        OBVIOUS
      <3>2. x \in FnKinds(knative) \X FnSet(n)
        BY <2>4, <3>1
      <3>3. QED
        BY <1>2, <3>2 DEF Manifests
    <2>7. nm # "odgm"
      BY <2>2, FnNamesAre
    <2>8. PICK o : o = <<FnKind, nm>>
      OBVIOUS
    <2>9. o[1] = FnKind /\ o[2] = nm
      BY <2>8
    <2>10. o \in DOMAIN children
      <3>1. CASE knative
        BY <2>4, <2>8, <3>1 DEF FnKinds, FnKind
      <3>2. CASE ~knative /\ kd = "Deployment"
        BY <2>4, <2>8, <3>2 DEF FnKind
      <3>3. CASE ~knative /\ kd = "Service"
        <4>1. <<"Deployment", x[2]>> \in DOMAIN children
          BY <2>5, <3>3 DEF Fitting
        <4>2. QED
          BY <2>5, <2>8, <3>3, <4>1 DEF FnKind
      <3>4. QED
        BY <3>1, <3>2, <3>3 DEF FnKinds
    <2>11. \A i \in 1..n : nm # FnNames(n)[i]
      BY <2>6, FnNamesAre
    <2>12. o \in Orphans(obs, n)
      BY <2>7, <2>9, <2>10, <2>11 DEF Orphans
    <2>13. QED
      BY <2>5, <2>9, <2>12
  <1>3. QED
    BY <1>1, <1>2

\* Observing the children and deciding.
LEMMA ObserveKeeps == ASSUME IInv, Observe PROVE IInv'
  <1>1. /\ rec.pc = "observe"
        /\ UNCHANGED <<knative, cr, status, children, pending, cache, an, en, enforced, leaked, mixed, creates>>
    BY DEF Observe
  <1>2. PICK ks \in SUBSET {"Deployment", FnKind} :
          /\ IF ks = {"Deployment", FnKind} THEN UNCHANGED <<faulty, events>>
             ELSE Event /\ faulty' = TRUE
          /\ LET d == Decide(rec.obj, rec.ost, ObserveChildren(ks))
             IN  rec' = [rec EXCEPT
                    !.phase = d.phase, !.orphans = d.orphans,
                    !.todo = IF d.apply THEN RenderWorkload(rec.obj) ELSE <<>>,
                    !.pc = IF d.apply THEN "apply"
                           ELSE IF d.orphans # {} THEN "orphans" ELSE "report"]
    BY DEF Observe
  <1>3. PICK obs : obs = ObserveChildren(ks)
    OBVIOUS
  <1>4. obs \subseteq DOMAIN children /\ obs \subseteq Children
    BY <1>3, ObservedIs, Numbers DEF ClusterTyped
  <1>5. PICK ph \in {"applying", "progressing", "available"}, ap \in BOOLEAN, orph \in SUBSET obs :
              /\ Decide(rec.obj, rec.ost, obs).phase = ph /\ Decide(rec.obj, rec.ost, obs).apply = ap
              /\ Decide(rec.obj, rec.ost, obs).orphans = orph
              /\ ap => ph # "available"
              /\ ~ap => Fsm /\ ~GenerationChanged(rec.obj, rec.ost)
              /\ ~ap /\ obs = {} => rec.ost.phase \in {"applying", "progressing"} /\ ph # "available" /\ orph = {}
              /\ ~ap /\ obs # {} => orph = Orphans(obs, rec.obj.fns)
    BY DecideIs
  <1>6. /\ rec.obj # NoCr /\ rec.obj.fns \in {1, 2} /\ rec.obj.fns \in Counts /\ knative \in BOOLEAN
        /\ Live /\ cr.fin /\ rec.ost.seen = status.seen
    BY <1>1, Numbers, RecFields, CrFields DEF RecInv, Working
  <1>7. PICK W \in Seq(Children) : Sequenced(W, rec.obj)
    BY <1>6, WorkloadOf
  <1>8. W = RenderWorkload(rec.obj) /\ Len(W) \in Nat \ {0}
    BY <1>7 DEF Sequenced
  <1>9. PICK T \in Seq(Children) : T = (IF ap THEN W ELSE <<>>)
    <2>1. <<>> \in Seq(Children)
      OBVIOUS
    <2>2. CASE ap
      BY <2>2
    <2>3. CASE ~ap
      BY <2>1, <2>3
    <2>4. QED
      BY <2>2, <2>3
  <1>10. PICK p \in {"apply", "orphans", "report"} :
            p = (IF ap THEN "apply" ELSE IF orph # {} THEN "orphans" ELSE "report")
    OBVIOUS
  <1>11. rec' = [rec EXCEPT !.phase = ph, !.orphans = orph, !.todo = T, !.pc = p]
    BY <1>2, <1>3, <1>5, <1>8, <1>9, <1>10
  <1>12. /\ RecTyped' /\ rec'.pc = p /\ rec'.phase = ph /\ rec'.orphans = orph /\ rec'.todo = T
         /\ rec'.obj = rec.obj /\ rec'.ost = rec.ost
    <2>1. ph \in Phases /\ p \in Pcs /\ orph \in SUBSET Children
      BY <1>4 DEF Phases, Pcs
    <2>2. QED
      BY <1>11, <2>1, Numbers DEF RecTyped
  <1>13. LoopsTyped' /\ EnforcedInv'
    BY <1>1, Numbers, LoopsFrame, EnforcedFrame
  <1>14. ClusterTyped'
    <2>1. events' \in events..MaxEvents /\ faulty' \in BOOLEAN
      BY <1>2, Unchanged
    <2>2. QED
      BY <1>1, <2>1, Numbers, ClusterShrinks, Unchanged DEF ClusterTyped
  <1>15. RecInv'
    <2>1. p = "apply" => T # <<>> /\ ph \in {"applying", "progressing"}
      <3>1. W # <<>>
        BY <1>8
      <3>2. QED
        BY <1>5, <1>9, <1>10, <3>1
    <2>2. p \in {"orphans", "report"} => ~GenerationChanged(rec.obj, rec.ost)
      BY <1>5, <1>10
    <2>3. QED
      BY <1>1, <1>6, <1>12, <2>1, <2>2, Numbers DEF RecInv, Working, Live, GenerationChanged
  <1>16. StatusInv' /\ ChildrenGone'
    BY <1>1, <1>2, <1>6, <1>12, Numbers DEF StatusInv, ChildrenGone, Live
  <1>17. ASSUME ~faulty', ~mixed' PROVE CompleteInv'
    <2>1. ks = {"Deployment", FnKind} /\ CompleteInv
      BY <1>1, <1>2, <1>17, Numbers
    <2>2. Fitting /\ Fitting'
      BY <1>1, <2>1 DEF CompleteInv, Fitting
    <2>3. Related'
      BY <1>1, <1>12, <2>1 DEF CompleteInv, Related, Working
    <2>4. Done(rec.obj) => Done(rec.obj)'
      BY <1>1, <1>12 DEF Done
    <2>5. rec.ost.seen = rec.obj.gen => Done(rec.obj)
      BY <1>1, <2>1 DEF CompleteInv, Working
    <2>6. status.seen <= cr.gen
      BY <1>6, <2>1 DEF CompleteInv
    <2>7. CASE ap
      <3>1. p = "apply" /\ T = W
        BY <1>9, <1>10, <2>7
      <3>2. RenderWorkload(rec.obj)' = W
        BY <1>1, <1>8, <1>12, RenderFrame
      <3>3. Len(W) - Len(W) = 0 /\ Len(W) \in 1..Len(W) /\ \A i \in 1..Len(W) : 0 + i = i
        BY <1>8
      <3>4. Applying'
        BY <1>12, <3>1, <3>2, <3>3 DEF Applying
      <3>5. QED
        BY <1>1, <1>12, <2>2, <2>3, <2>4, <2>5, <2>6, <3>1, <3>4 DEF CompleteInv
    <2>8. CASE ~ap
      <3>1. ~GenerationChanged(rec.obj, rec.ost)
        BY <1>5, <2>8
      <3>2. rec.ost.seen # 0
        <4>1. SUFFICES ASSUME rec.ost.seen = 0 PROVE FALSE
          OBVIOUS
        <4>2. DOMAIN children = {}
          BY <1>1, <1>6, <2>1, <4>1 DEF CompleteInv
        <4>3. rec.ost.phase \in {"applying", "progressing"}
          BY <1>4, <1>5, <2>8, <4>2
        <4>4. QED
          BY <4>1, <4>3, Numbers DEF RecInv
      <3>3. Done(rec.obj)' /\ status.seen # 0
        BY <1>6, <2>4, <2>5, <3>1, <3>2 DEF GenerationChanged
      <3>4. ASSUME obs # {}
            PROVE  /\ \A o \in orph : o[2] \notin FnSet(rec.obj.fns) \cup {"odgm"}
                   /\ \A x \in DOMAIN children :
                         x \in Manifests(knative, rec.obj.fns) \/ \E o \in orph : x[2] = o[2]
        <4>1. PICK n \in {1, 2} : n = rec.obj.fns
          BY <1>6
        <4>2. \A x \in DOMAIN children : x[1] = FnKind => x \in obs
          BY <1>3, <2>1, ObservedIs
        <4>3. orph = Orphans(obs, n)
          BY <1>5, <2>8, <3>4, <4>1
        <4>4. /\ \A o \in Orphans(obs, n) : o[2] \notin FnSet(n) \cup {"odgm"}
              /\ \A x \in DOMAIN children : x \in Manifests(knative, n) \/ \E o \in Orphans(obs, n) : x[2] = o[2]
          BY <1>6, <2>2, <4>2, OrphansCover
        <4>5. QED
          BY <4>1, <4>3, <4>4
      <3>5. p = "orphans" => obs # {}
        BY <1>10
      <3>6. p # "apply" /\ (p = "report" => orph = {}) /\ (p = "report" /\ ph = "available" => obs # {})
        BY <1>5, <1>10, <2>8
      <3>7. p = "report" /\ ph = "available" => DOMAIN children \subseteq Manifests(knative, rec.obj.fns)
        BY <3>4, <3>6
      <3>8. QED
        BY <1>1, <1>12, <2>2, <2>3, <2>6, <3>3, <3>4, <3>5, <3>6, <3>7 DEF CompleteInv
    <2>9. QED
      BY <2>7, <2>8
  <1>18. QED
    BY <1>12, <1>13, <1>14, <1>15, <1>16, <1>17 DEF IInv, Typed

-----------------------------------------------------------------------------
(* The theorems                                                            *)

\* Every step keeps the invariant.
LEMMA NextKeeps == IInv /\ [Next]_vars => IInv'
  <1> SUFFICES ASSUME IInv, [Next]_vars PROVE IInv'
    OBVIOUS
  <1>1. CASE Reconcile
    BY <1>1, BeginKeeps, DeleteChildrenKeeps, RemoveFinalizerKeeps, EnsureFinalizerKeeps, ObserveKeeps,
       ApplyWorkloadKeeps, DeleteOrphansKeeps, ReportKeeps, UpdateStatusKeeps DEF Reconcile
  <1>2. CASE Analyze
    BY <1>2, AnReadKeeps, AnPatchKeeps, AnCacheKeeps DEF Analyze
  <1>3. CASE EnforcerLoop
    BY <1>3, EnReadKeeps, EnApplyKeeps, EnAuditKeeps DEF EnforcerLoop
  <1>4. CASE Environment
    BY <1>4, CreateKeeps, EditKeeps, DeleteKeeps, PodsReadyKeeps, PodsFailKeeps DEF Environment
  <1>5. CASE UNCHANGED vars
    <2>1. /\ UNCHANGED <<knative, cr, status, children, pending, rec, cache, an, en, enforced, leaked>>
          /\ UNCHANGED <<faulty, mixed, creates, events>>
      BY <1>5 DEF vars
    <2>2. LoopsTyped' /\ EnforcedInv'
      BY <2>1, Numbers, LoopsFrame, EnforcedFrame
    <2>3. QED
      BY <2>1, <2>2, LoopStep, Unchanged
  <1>6. QED
    BY <1>1, <1>2, <1>3, <1>4, <1>5 DEF Next

\* The invariant holds in every state.
LEMMA AlwaysIInv == Spec => []IInv
  BY InitHolds, NextKeeps, PTL DEF Spec

\* The types of the model follow.
LEMMA TypesHold == IInv => TypeOK
  <1> SUFFICES ASSUME IInv PROVE TypeOK
    OBVIOUS
  <1>1. /\ knative \in Clusters /\ pending \in BOOLEAN /\ leaked \in BOOLEAN
        /\ cr \in {NoCr} \cup Resources /\ status \in Statuses
        /\ enforced \in 0..MaxReplicas /\ faulty \in BOOLEAN /\ mixed \in BOOLEAN
    BY Numbers DEF ClusterTyped
  <1>2. /\ DOMAIN children \subseteq Kinds \X Names
        /\ \A x \in DOMAIN children :
              children[x] \in [ready : BOOLEAN, gen : 1..(MaxEvents + 1), replicas : 1..MaxReplicas]
    BY Numbers DEF ClusterTyped, Children, ChildRecord
  <1>3. creates \in 0..(MaxEvents + 1) /\ events \in 0..MaxEvents
    BY Numbers
  <1>4. /\ rec.pc \in {"idle", "cleanup", "unfinalize", "finalizer", "observe", "apply",
                       "orphans", "report", "status"}
        /\ rec.obj \in {NoCr} \cup Resources /\ rec.ost \in Statuses /\ rec.phase \in Phases
        /\ rec.orphans \subseteq Kinds \X Names
    BY Numbers, RecFields DEF Pcs, Children
  <1>5. \A i \in DOMAIN rec.todo : rec.todo[i] \in Kinds \X Names
    <2>1. PICK T \in Seq(Children) : T = rec.todo
      BY Numbers, RecFields
    <2>2. \A i \in DOMAIN T : T[i] \in Children
      OBVIOUS
    <2>3. QED
      BY <2>1, <2>2 DEF Children
  <1>6. /\ cache = NoCr \/ (cache.conds \subseteq Conds /\ cache.recs \in Nat)
        /\ an.pc \in {"idle", "patch", "cache"} /\ an.conds \subseteq Conds /\ an.recs \in Nat
        /\ en.pc \in {"idle", "apply", "audit"} /\ en.target \in 0..MaxReplicas
        /\ en.last \in 0..MaxReplicas /\ en.age \in -1..Stability /\ en.cool \in 0..Cooldown
    BY Numbers DEF LoopsTyped
  <1>7. QED
    BY <1>1, <1>2, <1>3, <1>4, <1>5, <1>6 DEF TypeOK

\* What the controller rests with follows.
LEMMA RestFollows == IInv => RestsSettled
  <1> SUFFICES ASSUME IInv PROVE RestsSettled
    OBVIOUS
  <1>1. TypeOK
    BY TypesHold
  <1>2. RestsAvailable
    BY Numbers DEF RestsAvailable, AtRest, StatusInv
  <1>3. EnforcedStays
    BY Numbers DEF EnforcedStays, EnforcedInv
  <1>4. RestsComplete
    <2>1. SUFFICES ASSUME AtRest, ~faulty, ~mixed
                   PROVE  DOMAIN children = Rendered(cr) /\ \A x \in DOMAIN children : children[x].gen = cr.gen
      BY DEF RestsComplete
    <2>2. /\ Live /\ rec.pc = "idle" /\ ~pending /\ CompleteInv /\ status.seen = cr.gen
      BY <2>1, Numbers DEF AtRest, StatusInv
    <2>3. Done(cr) /\ DOMAIN children \subseteq Manifests(knative, cr.fns)
      BY <2>2 DEF CompleteInv
    <2>4. cr.fns \in {1, 2} /\ knative \in BOOLEAN
      BY <2>2, Numbers, CrFields
    <2>5. Rendered(cr) = Manifests(knative, cr.fns)
      BY <2>4, RenderedIs
    <2>6. QED
      BY <2>3, <2>5 DEF Done
  <1>5. QED
    BY <1>1, <1>2, <1>3, <1>4 DEF RestsSettled

\* For any number of edits, failing calls, pod failures, deletions and new resources of
\* the name, in every interleaving of the reconciler, the analyzer and the enforcer: the
\* controller comes to rest only with a status that says available and the generation of
\* the resource; without a failure, and unless a reconcile went on with a resource made
\* after the one it was given, exactly the children of the specification are there, each
\* applied from it; and the replicas the enforcer set stay.
THEOREM RestsStaySettled == Spec => []RestsSettled
  BY AlwaysIInv, RestFollows, PTL

\* A resource that is gone left no child behind unless a delete failed.
THEOREM NothingStaysBehind == Spec => []NothingLeftBehind
  <1>1. IInv => NothingLeftBehind
    <2> SUFFICES ASSUME IInv, ~Live, rec.pc = "idle", ~leaked PROVE children = <<>>
      BY DEF NothingLeftBehind
    <2>1. DOMAIN children = {} /\ children \in [DOMAIN children -> ChildRecord]
      BY Numbers, Unchanged DEF ChildrenGone
    <2>2. children \in [1..0 -> ChildRecord]
      BY <2>1
    <2>3. children \in Seq(ChildRecord) /\ Len(children) = 0
      BY <2>2
    <2>4. QED
      BY <2>3
  <1>2. QED
    BY <1>1, AlwaysIInv, PTL
=============================================================================
