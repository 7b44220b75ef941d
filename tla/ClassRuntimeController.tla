----------------------- MODULE ClassRuntimeController -----------------------
(***************************************************************************)
(* The class runtime manager's controller in one cluster: the reconciler   *)
(* that turns one ClassRuntime resource into Deployments, Services and     *)
(* Knative Services and reports their state, and the analyzer and enforcer *)
(* loops that recommend and set the number of replicas.  The three share   *)
(* the resource's status in the API server and an in-memory cache.         *)
(*                                                                         *)
(* Every call to the API server is an await and a step of its own.  The    *)
(* framework runs one reconcile of a resource at a time, and runs it again *)
(* after every change of the resource and after a requested delay; both    *)
(* are the flag pending.  The resource a reconcile works on is the one it  *)
(* was given when it began.                                                *)
(***************************************************************************)
EXTENDS Integers, Sequences, FiniteSets

CONSTANTS
    Clusters,        \* whether Knative may be present and enabled
    Fsm,             \* features.fsm: decide from the observed children
    Odgm,            \* compute_enable_odgm: the class has an ODGM child
    Enforce,         \* enforcement.mode is "enforce" with dimension "replicas"
    Counts,          \* the numbers of functions a specification may have
    Samples,         \* the metrics the analyzer may read, [cpu, p99]
    PerReplica,      \* millicores one replica should use, the literal 500
    SlowMs,          \* the latency above which a replica is added, 250
    MaxReplicas,     \* enforcement.max_replicas
    Stability,       \* enforcement.stability_secs, in ticks
    Cooldown,        \* enforcement.cooldown_secs, in ticks
    MaxEvents,       \* bound on edits, failures, analyzer iterations and creations after
                     \* the first together
    NoCr             \* no resource

Resources == [uid : 1..(MaxEvents + 1), gen : 1..(MaxEvents + 1), fns : Counts, fin : BOOLEAN,
              deleting : BOOLEAN]

ASSUME ConstantsOK ==
    /\ {Fsm, Odgm, Enforce} \cup Clusters \subseteq BOOLEAN
    /\ Counts \subseteq 1..2 /\ Counts # {}
    /\ Samples \subseteq [cpu : Nat, p99 : Nat]
    /\ {PerReplica, MaxReplicas} \subseteq Nat \ {0}
    /\ {SlowMs, Stability, Cooldown, MaxEvents} \subseteq Nat
    /\ NoCr \notin Resources

VARIABLES
    knative,    \* include_knative: the cluster has Knative and it is enabled
    cr,         \* the resource, NoCr or [uid, gen, fns, fin, deleting]
    status,     \* its status
    children,   \* the child resources, <<kind, name>> to [ready, gen, replicas]
    pending,    \* a reconcile is due
    rec,        \* the running reconcile
    cache,      \* dr_cache, NoCr or the conditions and recommendation it holds
    an,         \* the analyzer loop
    en,         \* the enforcer loop and its StabilityState
    enforced,   \* the replicas the enforcer set on the base workload; 0: none
    leaked,     \* a best-effort delete failed
    faulty,     \* a call or a pod failed
    mixed,      \* a reconcile went on with a resource made after the one it was given
    creates,    \* how many resources of the name were made
    events      \* counted against MaxEvents

vars == <<knative, cr, status, children, pending, rec, cache, an, en, enforced,
          leaked, faulty, mixed, creates, events>>
counters == <<faulty, mixed, creates, events>>

-----------------------------------------------------------------------------
(* What a specification renders to, in the order it is applied. *)

\* function_service_name: one function bears the class's name
FnNames(n) == IF n = 1 THEN <<"base">> ELSE SubSeq(<<"fn0", "fn1">>, 1, n)

\* render_with and the Knative template's render
RenderFns(n) ==
    IF knative
    THEN [i \in 1..n |-> <<"KnativeService", FnNames(n)[i]>>]
    ELSE [i \in 1..(2 * n) |->
             <<IF i % 2 = 1 THEN "Deployment" ELSE "Service",
               FnNames(n)[(i + 1) \div 2]>>]

RenderOdgm == IF Odgm THEN <<<<"Deployment", "odgm">>, <<"Service", "odgm">>>>
                      ELSE <<>>

RenderWorkload(c) == RenderFns(c.fns) \o RenderOdgm

Rendered(c) == {RenderWorkload(c)[i] : i \in DOMAIN RenderWorkload(c)}

FnKind == IF knative THEN "KnativeService" ELSE "Deployment"

Base == <<FnKind, "base">>

-----------------------------------------------------------------------------
(* evaluate: the pure decision of the state machine. *)

\* the children a list of every kind in ks returns; Services are not listed
ObserveChildren(ks) ==
    {x \in DOMAIN children : x[1] \in ks \cap {"Deployment", FnKind}}

IsReady(obs) ==
    LET workloads == {x \in obs : x[1] = FnKind}
    IN  workloads # {} /\ \A x \in workloads : children[x].ready

Orphans(obs, n) ==
    {x \in obs : x[1] = FnKind /\ x[2] # "odgm"
                 /\ \A i \in 1..n : x[2] # FnNames(n)[i]}

GenerationChanged(c, s) == s.seen # 0 /\ s.seen # c.gen

Evaluate(c, s, obs) ==
    IF GenerationChanged(c, s)
    THEN [phase |-> "applying", apply |-> TRUE, orphans |-> {}]
    ELSE IF obs = {}
    THEN [phase |-> "applying",
          apply |-> s.phase \notin {"applying", "progressing"}, orphans |-> {}]
    ELSE [phase |-> IF IsReady(obs) THEN "available" ELSE "progressing",
          apply |-> FALSE, orphans |-> Orphans(obs, c.fns)]

\* without the state machine every reconcile applies
Decide(c, s, obs) ==
    IF Fsm THEN Evaluate(c, s, obs)
    ELSE [phase |-> "progressing", apply |-> TRUE, orphans |-> {}]

-----------------------------------------------------------------------------
(* The status a reconcile writes. *)

NoStatus == [phase |-> "none", seen |-> 0, conds |-> {}, funcs |-> <<>>,
             recs |-> 0]

BuildConditions(phase) == {IF phase = "available" THEN "Available" ELSE "Progressing"}

\* update_function_readiness: a function is ready when a child of its name is
FunctionReadiness(n) ==
    [i \in 1..n |->
        Fsm /\ \E x \in ObserveChildren({"Deployment", FnKind}) :
                   x[2] = FnNames(n)[i] /\ children[x].ready]

\* the fields the analyzer and the enforcer own are taken from the status the
\* reconcile began with; conditions are replaced by type
MergeStatus(s, phase, gen, funcs) ==
    [s EXCEPT !.phase = phase, !.seen = gen, !.funcs = funcs,
              !.conds = @ \cup BuildConditions(phase)]

\* Mutant: only the phase is compared.
PatchOnPhase(s, t) == s.phase # t.phase

\* generation and times are left out of the comparison
ShouldPatchStatus(s, t) == [t EXCEPT !.seen = 0] # [s EXCEPT !.seen = 0]

\* a merge patch: absent fields are not written
PatchStatus(live, t) ==
    [t EXCEPT !.recs = IF @ = 0 THEN live.recs ELSE @]

-----------------------------------------------------------------------------
(* The reconciler. *)

Idle == [pc |-> "idle", obj |-> NoCr, ost |-> NoStatus, phase |-> "none",
         todo |-> <<>>, orphans |-> {}, funcs |-> <<>>]

Live == cr # NoCr

\* one more edit, failure, iteration of the analyzer or new resource
Event == events < MaxEvents /\ events' = events + 1

\* an await that failed: the reconcile returns and error_policy asks for another
Fail ==
    /\ Event /\ faulty' = TRUE
    /\ rec' = Idle
    /\ pending' = TRUE

Begin ==
    /\ rec.pc = "idle" /\ pending
    /\ pending' = FALSE
    /\ rec' = IF ~Live THEN Idle
              ELSE [Idle EXCEPT !.obj = cr, !.ost = status,
                                !.pc = IF cr.deleting THEN "cleanup"
                                       ELSE IF cr.fin THEN "observe"
                                       ELSE "finalizer"]
    /\ UNCHANGED <<knative, cr, status, children, cache, an, en, enforced, leaked, counters>>

Without(xs) == [x \in DOMAIN children \ xs |-> children[x]]

\* deletes whose errors are ignored: one that fails leaves its child behind
BestEffort(xs) ==
    \E left \in {{}} \cup {{x} : x \in xs} :
        /\ IF left = {} THEN UNCHANGED <<faulty, leaked, events>>
           ELSE Event /\ faulty' = TRUE /\ leaked' = TRUE
        /\ children' = Without(xs \ left)
        /\ enforced' = IF Base \in xs \ left THEN 0 ELSE enforced

DeleteChildren ==
    /\ rec.pc = "cleanup"
    /\ BestEffort(DOMAIN children)
    /\ cache' = NoCr
    /\ rec' = [rec EXCEPT !.pc = "unfinalize"]
    /\ UNCHANGED <<knative, cr, status, pending, an, en, mixed, creates>>

\* Mutant: the list is written back with the finalizer in it.
RemoveNoFinalizer ==
    /\ rec.pc = "unfinalize"
    /\ rec' = Idle /\ pending' = TRUE
    /\ UNCHANGED <<knative, cr, status, children, cache, an, en, enforced, leaked, counters>>

\* the API server removes a deleted resource with its last finalizer
RemoveFinalizer ==
    /\ rec.pc = "unfinalize"
    /\ \/ /\ rec' = Idle /\ pending' = TRUE
          /\ cr' = NoCr /\ status' = NoStatus
          /\ UNCHANGED <<faulty, events>>
       \/ Fail /\ UNCHANGED <<cr, status>>
    /\ UNCHANGED <<knative, children, cache, an, en, enforced, leaked, mixed, creates>>

\* Mutant: the finalizer is added without looking at the answer.
EnsureFinalizerBlindly ==
    /\ rec.pc = "finalizer"
    /\ rec' = [rec EXCEPT !.pc = "observe"]
    /\ cr' = IF Live THEN [cr EXCEPT !.fin = TRUE] ELSE NoCr
    /\ pending' = TRUE
    /\ UNCHANGED <<knative, status, children, cache, an, en, enforced, leaked, counters>>

\* the patch names the resource and no version of it: one that was deleted and made
\* again since the reconcile began is patched all the same, and the reconcile goes on
\* with the specification of the old one
EnsureFinalizer ==
    /\ rec.pc = "finalizer"
    /\ \/ /\ Live
          /\ cr' = [cr EXCEPT !.fin = TRUE]
          /\ rec' = [rec EXCEPT !.pc = "observe"]
          /\ pending' = TRUE
          /\ mixed' = (mixed \/ cr.uid # rec.obj.uid)
          /\ UNCHANGED <<faulty, events>>
       \/ /\ ~Live
          /\ rec' = Idle /\ pending' = TRUE
          /\ UNCHANGED <<cr, mixed, faulty, events>>
       \/ Fail /\ UNCHANGED <<cr, mixed>>
    /\ UNCHANGED <<knative, status, children, cache, an, en, enforced, leaked,
                   creates>>

\* observe_children drops a kind whose list fails
Observe ==
    /\ rec.pc = "observe"
    /\ \E ks \in SUBSET {"Deployment", FnKind} :
          /\ IF ks = {"Deployment", FnKind} THEN UNCHANGED <<faulty, events>>
             ELSE Event /\ faulty' = TRUE
          /\ LET d == Decide(rec.obj, rec.ost, ObserveChildren(ks))
             IN  rec' = [rec EXCEPT
                    !.phase = d.phase, !.orphans = d.orphans,
                    !.todo = IF d.apply THEN RenderWorkload(rec.obj) ELSE <<>>,
                    !.pc = IF d.apply THEN "apply"
                           ELSE IF d.orphans # {} THEN "orphans" ELSE "report"]
    /\ UNCHANGED <<knative, cr, status, children, pending, cache, an, en, enforced,
                   leaked, mixed, creates>>

\* server-side apply of one manifest; replicas is left out under enforcement
Applied(x) ==
    IF x \in DOMAIN children
    THEN [children[x] EXCEPT !.gen = rec.obj.gen,
                             !.replicas = IF Enforce THEN @ ELSE 1]
    ELSE [ready |-> FALSE, gen |-> rec.obj.gen, replicas |-> 1]

ApplyWorkload ==
    /\ rec.pc = "apply"
    /\ \/ LET x == Head(rec.todo)
          IN  /\ children' = [y \in DOMAIN children \cup {x} |->
                                 IF y = x THEN Applied(x) ELSE children[y]]
              /\ rec' = [rec EXCEPT !.todo = Tail(@),
                                    !.pc = IF Len(rec.todo) = 1 THEN "report" ELSE "apply"]
              /\ UNCHANGED <<pending, faulty, events>>
       \/ Fail /\ UNCHANGED children
    /\ UNCHANGED <<knative, cr, status, cache, an, en, enforced, leaked, mixed, creates>>

\* an orphan goes with the Service of its name
DeleteOrphans ==
    /\ rec.pc = "orphans"
    /\ BestEffort({x \in DOMAIN children : \E o \in rec.orphans : x[2] = o[2]})
    /\ rec' = [rec EXCEPT !.pc = "report", !.orphans = {}]
    /\ UNCHANGED <<knative, cr, status, pending, cache, an, en, mixed, creates>>

\* the cache receives the resource the reconcile began with
Report ==
    /\ rec.pc = "report"
    /\ cache' = [conds |-> rec.ost.conds, recs |-> rec.ost.recs]
    /\ rec' = [rec EXCEPT !.pc = "status", !.funcs = FunctionReadiness(rec.obj.fns)]
    /\ UNCHANGED <<knative, cr, status, children, pending, an, en, enforced,
                   leaked, counters>>

Requeue == rec.phase # "available"

\* the last step, with the delay it asks for
End ==
    LET t == MergeStatus(rec.ost, rec.phase, rec.obj.gen, rec.funcs)
    IN  IF ShouldPatchStatus(rec.ost, t)
        THEN /\ status' = IF Live THEN PatchStatus(status, t) ELSE NoStatus
             /\ pending' = TRUE
        ELSE /\ pending' = (pending \/ Requeue)
             /\ UNCHANGED status

UpdateStatus ==
    /\ rec.pc = "status"
    /\ \/ End /\ rec' = Idle /\ UNCHANGED <<faulty, events>>
       \/ Fail /\ UNCHANGED status
    /\ UNCHANGED <<knative, cr, children, cache, an, en, enforced, leaked, mixed, creates>>

Reconcile ==
    \/ Begin \/ DeleteChildren \/ RemoveFinalizer \/ EnsureFinalizer \/ Observe
    \/ ApplyWorkload \/ DeleteOrphans \/ Report \/ UpdateStatus

-----------------------------------------------------------------------------
(* The analyzer loop. *)

\* heuristic_replicas_cpu; no recommendation without a reading
Recommend(s) ==
    LET base == (s.cpu + PerReplica - 1) \div PerReplica
    IN  IF s.cpu = 0 THEN 0 ELSE IF s.p99 > SlowMs THEN base + 1 ELSE base

AnIdle == [pc |-> "idle", conds |-> {}, recs |-> 0]

AnRead ==
    /\ an.pc = "idle" /\ cache # NoCr
    /\ Event
    /\ \E s \in Samples :
          an' = [pc |-> "patch", conds |-> cache.conds \cup {"NfrObserved"},
                 recs |-> Recommend(s)]
    /\ UNCHANGED <<knative, cr, status, children, pending, rec, cache, en, enforced,
                   leaked, faulty, mixed, creates>>

\* the conditions are the cached ones; an empty object merges to no change
AnPatch ==
    /\ an.pc = "patch"
    /\ IF Live
       THEN /\ status' = [status EXCEPT !.conds = an.conds,
                                        !.recs = IF an.recs = 0 THEN @ ELSE an.recs]
            /\ pending' = TRUE
            /\ an' = [an EXCEPT !.pc = "cache"]
       ELSE an' = AnIdle /\ UNCHANGED <<status, pending>>
    /\ UNCHANGED <<knative, cr, children, rec, cache, en, enforced, leaked, counters>>

\* the copy read at first is put back whatever became of the entry; its
\* recommendation is a float, which the enforcer does not read
AnCache ==
    /\ an.pc = "cache"
    /\ cache' = [conds |-> an.conds, recs |-> 0]
    /\ an' = AnIdle
    /\ UNCHANGED <<knative, cr, status, children, pending, rec, en, enforced, leaked,
                   counters>>

Analyze == AnRead \/ AnPatch \/ AnCache

-----------------------------------------------------------------------------
(* The enforcer loop. *)

EnIdle == [pc |-> "idle", target |-> 0, last |-> 0, age |-> -1, cool |-> 0]

Clamp(r) == IF r > MaxReplicas THEN MaxReplicas ELSE r

\* the cached recommendation, else the live one
Target ==
    IF cache.recs # 0 THEN Clamp(cache.recs)
    ELSE IF Live THEN Clamp(status.recs) ELSE 0

\* eval_enforce: age is the time since the target was first seen, -1 when unset
EvalEnforce(e, t) ==
    IF e.cool > 0 THEN e
    ELSE IF e.last # t THEN [e EXCEPT !.last = t, !.age = 0]
    ELSE IF e.age = -1 THEN [e EXCEPT !.age = 0]
    ELSE IF e.age < Stability THEN e
    ELSE [e EXCEPT !.age = -1, !.cool = Cooldown, !.pc = "apply", !.target = t]

\* the time one iteration of the loop takes
Elapsed(e) ==
    [e EXCEPT !.age = IF @ \in 0..(Stability - 1) THEN @ + 1 ELSE @,
              !.cool = IF @ > 0 THEN @ - 1 ELSE 0]

EnRead ==
    /\ Enforce /\ en.pc = "idle"
    /\ cache # NoCr /\ Target # 0
    /\ en' = EvalEnforce(Elapsed(en), Target)
    /\ UNCHANGED <<knative, cr, status, children, pending, rec, cache, an, enforced,
                   leaked, counters>>

\* the patch is addressed to the workload with the class's name, which exists
\* only when the class has one function
EnApply ==
    /\ en.pc = "apply"
    /\ IF Base \in DOMAIN children
       THEN /\ children' = [children EXCEPT ![Base].replicas = en.target]
            /\ enforced' = en.target
            /\ en' = [en EXCEPT !.pc = "audit"]
       ELSE /\ en' = [en EXCEPT !.pc = "idle", !.target = 0]
            /\ UNCHANGED <<children, enforced>>
    /\ UNCHANGED <<knative, cr, status, pending, rec, cache, an, leaked, counters>>

\* the record of what was applied, which no decision reads, is one more change
\* of the resource
EnAudit ==
    /\ en.pc = "audit"
    /\ pending' = (pending \/ Live)
    /\ en' = [en EXCEPT !.pc = "idle", !.target = 0]
    /\ UNCHANGED <<knative, cr, status, children, rec, cache, an, enforced, leaked, counters>>

EnforcerLoop == EnRead \/ EnApply \/ EnAudit

-----------------------------------------------------------------------------
(* The users of the resource and the cluster. *)

Create ==
    /\ ~Live
    /\ creates' = creates + 1
    /\ IF creates = 0 THEN UNCHANGED events ELSE Event
    /\ \E n \in Counts :
          cr' = [uid |-> creates', gen |-> 1, fns |-> n, fin |-> FALSE, deleting |-> FALSE]
    /\ pending' = TRUE
    /\ UNCHANGED <<knative, status, children, rec, cache, an, en, enforced, leaked,
                   faulty, mixed>>

Edit ==
    /\ Live /\ ~cr.deleting
    /\ Event
    /\ \E n \in Counts : cr' = [cr EXCEPT !.gen = @ + 1, !.fns = n]
    /\ pending' = TRUE
    /\ UNCHANGED <<knative, status, children, rec, cache, an, en, enforced, leaked,
                   faulty, mixed, creates>>

\* without a finalizer the resource goes at once
Delete ==
    /\ Live /\ ~cr.deleting
    /\ IF cr.fin
       THEN cr' = [cr EXCEPT !.deleting = TRUE] /\ UNCHANGED status
       ELSE cr' = NoCr /\ status' = NoStatus
    /\ pending' = TRUE
    /\ UNCHANGED <<knative, children, rec, cache, an, en, enforced, leaked, counters>>

Workloads == {x \in DOMAIN children : x[1] # "Service"}

PodsReady ==
    /\ \E x \in Workloads :
          /\ ~children[x].ready
          /\ children' = [children EXCEPT ![x].ready = TRUE]
    /\ UNCHANGED <<knative, cr, status, pending, rec, cache, an, en, enforced, leaked,
                   counters>>

PodsFail ==
    /\ Event /\ faulty' = TRUE
    /\ \E x \in Workloads :
          /\ children[x].ready
          /\ children' = [children EXCEPT ![x].ready = FALSE]
    /\ UNCHANGED <<knative, cr, status, pending, rec, cache, an, en, enforced, leaked,
                   mixed, creates>>

Environment == Create \/ Edit \/ Delete \/ PodsReady \/ PodsFail

-----------------------------------------------------------------------------
Init ==
    /\ knative \in Clusters
    /\ cr = NoCr /\ status = NoStatus /\ children = <<>>
    /\ pending = FALSE /\ rec = Idle
    /\ cache = NoCr /\ an = AnIdle /\ en = EnIdle
    /\ enforced = 0 /\ leaked = FALSE
    /\ faulty = FALSE /\ mixed = FALSE /\ creates = 0 /\ events = 0

Next == Reconcile \/ Analyze \/ EnforcerLoop \/ Environment

Spec == Init /\ [][Next]_vars

\* A queued reconcile runs and goes on: the framework's task always makes
\* progress.
FairSpec == Spec /\ WF_vars(Reconcile)

-----------------------------------------------------------------------------
(* Properties. *)

Phases == {"none", "applying", "progressing", "available"}
Conds == {"Available", "Progressing", "NfrObserved"}
Statuses ==
    [phase : Phases, seen : 0..(MaxEvents + 1), conds : SUBSET Conds,
     funcs : {<<>>} \cup UNION {[1..n -> BOOLEAN] : n \in Counts},
     recs : Nat]
Kinds == {"Deployment", "Service", "KnativeService"}
Names == {"base", "fn0", "fn1", "odgm"}

\* The variables keep their types; in particular the replicas set on a workload
\* stay between one and the configured maximum.
TypeOK ==
    /\ knative \in Clusters /\ pending \in BOOLEAN /\ leaked \in BOOLEAN
    /\ cr \in {NoCr} \cup Resources
    /\ status \in Statuses
    /\ DOMAIN children \subseteq Kinds \X Names
    /\ \A x \in DOMAIN children :
          children[x] \in [ready : BOOLEAN, gen : 1..(MaxEvents + 1),
                           replicas : 1..MaxReplicas]
    /\ rec.pc \in {"idle", "cleanup", "unfinalize", "finalizer", "observe", "apply",
                   "orphans", "report", "status"}
    /\ rec.obj \in {NoCr} \cup Resources /\ rec.ost \in Statuses
    /\ rec.phase \in Phases
    /\ \A i \in DOMAIN rec.todo : rec.todo[i] \in Kinds \X Names
    /\ rec.orphans \subseteq Kinds \X Names
    /\ cache = NoCr \/ (cache.conds \subseteq Conds /\ cache.recs \in Nat)
    /\ an.pc \in {"idle", "patch", "cache"} /\ an.conds \subseteq Conds /\ an.recs \in Nat
    /\ en.pc \in {"idle", "apply", "audit"} /\ en.target \in 0..MaxReplicas
    /\ en.last \in 0..MaxReplicas /\ en.age \in -1..Stability /\ en.cool \in 0..Cooldown
    /\ enforced \in 0..MaxReplicas
    /\ faulty \in BOOLEAN /\ mixed \in BOOLEAN
    /\ creates \in 0..(MaxEvents + 1) /\ events \in 0..MaxEvents

\* Nothing is running or due for a live resource.
AtRest ==
    /\ Live /\ ~cr.deleting
    /\ rec.pc = "idle" /\ ~pending /\ an.pc # "patch"

\* The controller comes to rest only when the status says available, with the
\* condition of that name and the current generation, whatever the analyzer
\* wrote over it from its cached copy, and whatever call failed (reconcile's
\* requeue, should_patch_status and the error policy).
RestsAvailable ==
    AtRest =>
        /\ status.phase = "available"
        /\ "Available" \in status.conds
        /\ status.seen = cr.gen

\* Without a failing call the controller rests only with exactly the children
\* of the current specification, each applied from it: no edit is lost, and a
\* function that went away leaves no workload (evaluate, DeleteOrphans).  The one
\* exception is a resource made again while the first reconcile of its predecessor
\* was adding the finalizer: it has the generation the status reports, and not the
\* children.
RestsComplete ==
    AtRest /\ ~faulty /\ ~mixed =>
        /\ DOMAIN children = Rendered(cr)
        /\ \A x \in DOMAIN children : children[x].gen = cr.gen

\* A resource that is gone leaves no child unless a delete failed, even when it
\* was deleted while its first reconcile was running (the finalizer).
NothingLeftBehind == ~Live /\ rec.pc = "idle" /\ ~leaked => children = <<>>

\* The replicas the enforcer set stay until the workload itself is deleted,
\* whatever is applied again (suppress_replicas).
EnforcedStays == enforced # 0 => children[Base].replicas = enforced

\* A resource whose deletion was asked for goes, and without a failing call, and
\* unless its first reconcile was its predecessor's, the children of a live one become
\* those of its specification.
EventuallyApplied ==
    []<>( \/ ~Live
          \/ /\ ~cr.deleting
             /\ faulty \/ mixed \/ Rendered(cr) \subseteq DOMAIN children )

\* The reconciler, the analyzer and the enforcer rest only when their work is done
\* and none has undone another's: status, children and replicas are as they should.
RestsSettled == TypeOK /\ RestsAvailable /\ RestsComplete /\ EnforcedStays
=============================================================================
