--------------------------- MODULE PackageManager ---------------------------
(***************************************************************************)
(* The package manager: the handlers that store packages and deploy their  *)
(* classes to the environments, the workflow that selects environments,    *)
(* dispatches one unit to each with retries and rolls a partial deployment *)
(* back, and the key-value store and the per-environment class runtime     *)
(* managers it calls.                                                      *)
(*                                                                         *)
(* A handler is an asynchronous task; every storage access and every call  *)
(* to a class runtime manager is an await, so each is a step of its own    *)
(* and the steps of concurrent requests interleave.  An availability is a  *)
(* percentage, and the probability of a quorum of n environments is kept   *)
(* as an integer in units of 100^-n.                                       *)
(***************************************************************************)
EXTENDS Integers, FiniteSets

CONSTANTS
    Requests,           \* the requests, one task each
    Args,               \* what each request asks for, see ArgsOK
    Keys,               \* the keys of the deployments
    PackageOf,          \* the package a deployment's class belongs to
    Deps,               \* the dependencies of each package
    Envs,               \* the environments with a configured client
    Availabilities,     \* the availabilities the environments may report
    Target,             \* the availability a deployment demands
    Strong,             \* the keys whose class has strong consistency
    MaxReplicas,        \* the literal 50 of calculate_requirements
    MaxRetries,         \* policy.max_retries
    RollbackOnPartial,  \* policy.rollback_on_partial
    Cascade,            \* policy.package_delete_cascade
    Unstable,           \* bound: the environments that may fail
    MaxFaults,          \* bound on environment, storage and network faults
    None                \* no package, unit or answer; as the name of an environment,
                        \* one that no client is configured for

Packages == DOMAIN Deps
Kinds    == {"create", "update", "drop", "deploy", "delete"}
Answers  == {"refused", "failed", "ok", "stored", "dropped", "deleted"}

\* The ids of units: the request that made one, and the attempt it was made for.
UnitIds  == Requests \X (0..MaxRetries)

ASSUME ArgsOK ==
    /\ Args \in [Requests -> [kind : Kinds, key : Keys, package : Packages,
                              targets : SUBSET (Envs \cup {None}),
                              available : SUBSET (Envs \cup {None})]]
    /\ PackageOf \in [Keys -> Packages]
    /\ Deps \in [Packages -> SUBSET Packages]
    /\ Strong \subseteq Keys /\ Unstable \subseteq Envs
    /\ Availabilities \subseteq [Envs -> 0..100]
    /\ \A b \in {RollbackOnPartial, Cascade} : b \in BOOLEAN
    /\ {MaxRetries, MaxFaults, Target} \subseteq Nat
    /\ MaxReplicas \in Nat \ {0}
    /\ IsFiniteSet(Envs)
    /\ None \notin Requests \cup Envs \cup Answers \cup UnitIds

VARIABLES
    packages,   \* the stored packages
    records,    \* the stored deployments, or NoRecord
    mappings,   \* mappings[k][e]: the unit id saved for a deployment, or None
    runtimes,   \* the ids of the ClassRuntimes each environment holds
    health,     \* what each environment's manager would report
    cached,     \* the environments with a cached health
    avail,      \* the availability each environment reports
    req,        \* the local state of each task
    answer,     \* what each request was answered, or None
    tidy,       \* the keys no fault and no overlap has touched (history)
    faults      \* faults so far

vars == <<packages, records, mappings, runtimes, health, cached, avail, req,
          answer, tidy, faults>>

Statuses == {"healthy", "degraded", "down"}

----------------------------------------------------------------------------
(* Quorum arithmetic.                                                      *)

\* The probability that exactly k of the environments of S are available, in
\* units of 100^-|S|: the distribution the code extends one environment at a time.
Distribution(S, a) ==
    LET d[T \in SUBSET S] ==
          IF T = {} THEN [k \in 0..0 |-> 1]
          ELSE LET e    == CHOOSE x \in T : TRUE
                   dist == d[T \ {e}]
                   n    == Cardinality(T) - 1
                   At(k) == IF k \in 0..n THEN dist[k] ELSE 0
               IN  [k \in 0..(n + 1) |-> At(k) * (100 - a[e]) + At(k - 1) * a[e]]
    IN  d[S]

SumUpTo(f, lo, hi) ==
    LET s[k \in (lo - 1)..hi] == IF k < lo THEN 0 ELSE s[k - 1] + f[k]
    IN  IF hi < lo THEN 0 ELSE s[hi]

\* Mutant: half of the environments are taken for a quorum.
QuorumOfHalf(S, a) ==
    IF S = {} THEN 0
    ELSE SumUpTo(Distribution(S, a), (Cardinality(S) + 1) \div 2, Cardinality(S))

\* cluster_quorum_availability
QuorumAvailability(S, a) ==
    IF S = {} THEN 0
    ELSE SumUpTo(Distribution(S, a), Cardinality(S) \div 2 + 1, Cardinality(S))

Meets(S, a, t) == QuorumAvailability(S, a) >= t * 100 ^ (Cardinality(S) - 1)

\* S holds the n environments of E that come first when sorted by availability.
Worst(S, E, a) == S \subseteq E /\ \A x \in S, y \in E \ S : a[x] <= a[y]
Best(S, E, a)  == S \subseteq E /\ \A x \in S, y \in E \ S : a[x] >= a[y]

\* required_replicas_quorum: the fewest environments, worst first, whose quorum
\* availability reaches the target, or all of them, never more than MaxReplicas.
RequiredReplicas(E, a) ==
    LET Enough == {n \in 1..Cardinality(E) : n <= MaxReplicas /\ \E S \in SUBSET E :
                     Cardinality(S) = n /\ Worst(S, E, a) /\ Meets(S, a, Target)}
        All    == IF Cardinality(E) < MaxReplicas THEN Cardinality(E) ELSE MaxReplicas
    IN  IF Enough = {} THEN All
        ELSE CHOOSE n \in Enough : \A i \in Enough : n <= i

\* calculate_requirements: strong consistency asks for an odd number, three at least.
TargetReplicas(k, E, a) ==
    LET n      == RequiredReplicas(E, a)
        f      == IF n \div 2 = 0 THEN 1 ELSE n \div 2
        needed == IF k \in Strong /\ 2 * f + 1 > n THEN 2 * f + 1 ELSE n
    IN  IF needed > MaxReplicas THEN MaxReplicas ELSE needed

----------------------------------------------------------------------------
(* Environments and their health.                                          *)

\* get_cluster_health: a fresh cached entry is served, and only healthy ones are
\* cached; otherwise the manager is asked, and an unreachable one is an error.
Healthy(e, fresh)   == e \in fresh \/ health[e] = "healthy"
Reachable(e, fresh) == e \in fresh \/ health[e] # "down"

\* The entries that may still be within their time to live when E is probed; which
\* are matters only for environments that are not healthy any more.
MaybeFresh(E) == SUBSET {e \in E \cap cached : health[e] # "healthy"}

\* What probing the environments of E leaves in the cache.
Probe(E, fresh) ==
    cached' = (cached \ E) \cup fresh \cup {e \in E \cap Envs : health[e] = "healthy"}

\* select_candidate_envs
Candidates(r) ==
    LET a == Args[r]
    IN  IF a.targets # {} THEN a.targets
        ELSE IF a.available # {} THEN a.available \cap Envs ELSE Envs

Fault == faults < MaxFaults /\ faults' = faults + 1

----------------------------------------------------------------------------
(* Tasks.                                                                  *)

\* No deployment is stored under the key.
NoRecord ==
    [by |-> None, sel |-> {}, seen |-> [e \in Envs |-> 0],
     asked |-> {}, explicit |-> FALSE, achieved |-> 0]

Idle == [pc |-> "idle", key |-> None, todo |-> {}, n |-> 0,
         seen |-> [e \in Envs |-> 0], sel |-> {}, left |-> {}, cur |-> None,
         attempt |-> 0, acked |-> {}, ids |-> [e \in Envs |-> None]]

At(r, pc)       == req[r].pc = pc
Move(r, pc)     == req' = [req EXCEPT ![r].pc = pc]
Step(r, change) == req' = [req EXCEPT ![r] = change]
Reply(r, a)     == answer' = [answer EXCEPT ![r] = a]

\* A task is at work until it is answered and its rollback, if any, has ended.
Active(r)    == req[r].pc \notin {"idle", "end"}
KeysOf(r)    == CASE Args[r].kind \in {"deploy", "delete"} -> {Args[r].key}
                  [] Args[r].kind = "drop" -> {k \in Keys : PackageOf[k] = Args[r].package}
                  [] OTHER -> {}
BusyWith(k)  == {r \in Requests : Active(r) /\ k \in KeysOf(r)}

End(r)       == Step(r, [Idle EXCEPT !.pc = "end"])
Finish(r, a) == End(r) /\ Reply(r, a)

Stored == <<packages, records, mappings>>
World  == <<runtimes, health, avail>>

\* A request arrives.  A key other tasks are at work on is no longer tidy, nor is
\* one deployed again while it has units: their mappings will be overwritten.
Arrive(r) ==
    /\ At(r, "idle")
    /\ req' = [req EXCEPT ![r].pc = Args[r].kind, ![r].key = Args[r].key]
    /\ tidy' = {k \in tidy : ~ /\ k \in KeysOf(r)
                               /\ \/ BusyWith(k) # {}
                                  \/ /\ Args[r].kind = "deploy"
                                     /\ \E e \in Envs : mappings[k][e] # None}
    /\ UNCHANGED <<Stored, World, cached, answer, faults>>

----------------------------------------------------------------------------
(* Package operations.                                                     *)

\* create_package and update_package: the existence check, then the dependencies.
CheckPackage(r) ==
    LET a == Args[r] IN
    /\ a.kind \in {"create", "update"} /\ At(r, a.kind)
    /\ IF (a.package \in packages) # (a.kind = "update")
       THEN Finish(r, "refused")
       ELSE Move(r, "dependencies") /\ UNCHANGED answer
    /\ UNCHANGED <<Stored, World, cached, tidy, faults>>

\* validate_dependencies: every package the new one depends on must be stored.
CheckDependencies(r) ==
    /\ At(r, "dependencies")
    /\ IF ~ Deps[Args[r].package] \subseteq packages
       THEN Finish(r, "refused")
       ELSE Move(r, "storePackage") /\ UNCHANGED answer
    /\ UNCHANGED <<Stored, World, cached, tidy, faults>>

StorePackage(r) ==
    /\ At(r, "storePackage")
    /\ packages' = packages \cup {Args[r].package}
    /\ Finish(r, "stored")
    /\ UNCHANGED <<records, mappings, World, cached, tidy, faults>>

\* delete_package: with the cascade policy, the deployments listed now are deleted
\* one after the other before the package.
DropPackage(r) ==
    LET p == Args[r].package IN
    /\ At(r, "drop")
    /\ IF p \notin packages THEN Finish(r, "refused")
       ELSE /\ Step(r, [req[r] EXCEPT !.pc = "cascade",
                          !.todo = IF Cascade
                                   THEN {k \in Keys : PackageOf[k] = p /\ records[k] # NoRecord}
                                   ELSE {}])
            /\ UNCHANGED answer
    /\ UNCHANGED <<Stored, World, cached, tidy, faults>>

CascadeNext(r) ==
    /\ At(r, "cascade")
    /\ \E k \in req[r].todo :
          Step(r, [req[r] EXCEPT !.pc = "delete", !.key = k, !.todo = @ \ {k}])
    /\ UNCHANGED <<Stored, World, cached, answer, tidy, faults>>

RemovePackage(r) ==
    /\ At(r, "cascade")
    /\ req[r].todo = {}
    /\ packages' = packages \ {Args[r].package}
    /\ Finish(r, "dropped")
    /\ UNCHANGED <<records, mappings, World, cached, tidy, faults>>

----------------------------------------------------------------------------
(* Deploying a class.                                                      *)

\* create_deployment: the package is read once; the class it holds is deployed.
Resolve(r) ==
    /\ At(r, "deploy")
    /\ LET p == PackageOf[Args[r].key] IN
       IF p \notin packages THEN Finish(r, "refused")
       ELSE Move(r, "validate") /\ UNCHANGED answer
    /\ UNCHANGED <<Stored, World, cached, tidy, faults>>

\* select_deployment_clusters: every target needs a client; without targets one
\* environment must be healthy.
Validate(r) ==
    LET E == IF Args[r].targets = {} THEN Envs ELSE Args[r].targets IN
    /\ At(r, "validate")
    /\ \E fresh \in MaybeFresh(E) :
          /\ Probe(E, fresh)
          /\ IF \/ ~ Args[r].targets \subseteq Envs
                \/ Args[r].targets = {} /\ \A e \in Envs : ~ Healthy(e, fresh)
             THEN Finish(r, "refused")
             ELSE Move(r, "require") /\ UNCHANGED answer
    /\ UNCHANGED <<Stored, World, tidy, faults>>

\* select_candidate_envs and calculate_requirements: one candidate that cannot be
\* reached fails the deployment.
Require(r) ==
    LET E == Candidates(r) IN
    /\ At(r, "require")
    /\ \E fresh \in MaybeFresh(E) :
          /\ Probe(E, fresh)
          /\ IF E = {} \/ \E e \in E : ~ Reachable(e, fresh)
             THEN Finish(r, "refused")
             ELSE /\ Step(r, [req[r] EXCEPT !.pc = "select",
                                            !.n = TargetReplicas(Args[r].key, E, avail)])
                  /\ UNCHANGED answer
    /\ UNCHANGED <<Stored, World, tidy, faults>>

\* The first max(n, 1) of the candidates sorted by availability, best first.
Chosen(E, a, n) ==
    LET size == IF n > Cardinality(E) THEN Cardinality(E) ELSE IF n < 1 THEN 1 ELSE n
    IN  {S \in SUBSET E : Cardinality(S) = size /\ Best(S, E, a)}

\* select_environments: an environment that cannot be reached now counts as
\* availability 0; explicit targets override the choice.
Select(r) ==
    LET E == Candidates(r) IN
    /\ At(r, "select")
    /\ \E fresh \in MaybeFresh(E) :
          LET seen == [e \in Envs |-> IF e \in E /\ Reachable(e, fresh) THEN avail[e] ELSE 0]
          IN  /\ Probe(E, fresh)
              /\ \E S \in Chosen(E, seen, req[r].n) :
                    Step(r, [req[r] EXCEPT !.pc = "store", !.seen = seen,
                               !.sel = IF Args[r].targets # {} THEN Args[r].targets ELSE S])
    /\ UNCHANGED <<Stored, World, answer, tidy, faults>>

\* The effective deployment: the status summary with the quorum availability the
\* selection achieves, and the request that stored it (history).
Effective(r) ==
    [by |-> r, sel |-> req[r].sel, seen |-> req[r].seen,
     asked |-> Candidates(r), explicit |-> Args[r].targets # {},
     achieved |-> QuorumAvailability(req[r].sel, req[r].seen)]

\* The order of the selected environments: best first.
First(E, seen) == CHOOSE x \in E : \A y \in E : seen[x] >= seen[y]

\* The loop of dispatch_units_with_retry turns to its next unit, in the order of the
\* selected environments, or ends.
NextUnit(q) ==
    IF q.left = {} THEN [q EXCEPT !.pc = "finalize", !.cur = None]
    ELSE LET e == First(q.left, q.seen)
         IN  [q EXCEPT !.pc = "call", !.cur = e, !.left = @ \ {e}, !.attempt = 0]

\* store_deployment, before anything is sent.  One unit per environment, each with
\* an id generated once.
Store(r) ==
    LET k == Args[r].key IN
    /\ At(r, "store")
    /\ \/ /\ records' = [records EXCEPT ![k] = Effective(r)]
          /\ Step(r, NextUnit([req[r] EXCEPT !.left = req[r].sel]))
          /\ UNCHANGED <<answer, faults>>
       \/ Fault /\ Finish(r, "failed") /\ UNCHANGED records
    /\ UNCHANGED <<packages, mappings, World, cached, tidy>>

\* Mutant: every attempt generates an id of its own.
FreshUnitId(r, e) == <<r, req[r].attempt>>

\* gen_safe_deployment_id, called when the units are built and not for each attempt.
UnitId(r, e) == <<r, 0>>

\* The unit is created, or was by an earlier attempt.
Create(r) ==
    runtimes' = [runtimes EXCEPT ![req[r].cur] = @ \cup {UnitId(r, req[r].cur)}]

\* The attempt has used the last retry.
LastAttempt(r) == req[r].attempt + 1 > MaxRetries

\* Mutant: an attempt that fails is not counted.
RetryForever(r) == Step(r, [req[r] EXCEPT !.pc = "call"])

Retry(r) ==
    Step(r, IF LastAttempt(r) THEN NextUnit(req[r]) ELSE [req[r] EXCEPT !.attempt = @ + 1])

\* One attempt: the unit is accepted; the environment cannot be reached; or the
\* reply is lost after the unit was accepted.  A lost reply that is never made good
\* by a retry leaves a unit nobody knows of, so the key is no longer tidy.
Call(r) ==
    /\ At(r, "call")
    /\ \/ /\ health[req[r].cur] # "down"
          /\ Create(r)
          /\ Move(r, "saveMapping")
          /\ UNCHANGED <<tidy, faults>>
       \/ /\ health[req[r].cur] = "down"
          /\ Retry(r)
          /\ tidy' = IF /\ LastAttempt(r)
                        /\ UnitId(r, req[r].cur) \in runtimes[req[r].cur]
                     THEN tidy \ {Args[r].key} ELSE tidy
          /\ UNCHANGED <<runtimes, faults>>
       \/ /\ health[req[r].cur] # "down" /\ Fault
          /\ Create(r)
          /\ Retry(r)
          /\ tidy' = IF LastAttempt(r) THEN tidy \ {Args[r].key} ELSE tidy
    /\ UNCHANGED <<Stored, health, avail, cached, answer>>

\* save_cluster_mapping: an error is logged and the unit counts as a success.
SaveMapping(r) ==
    LET k == Args[r].key
        e == req[r].cur IN
    /\ At(r, "saveMapping")
    /\ \/ /\ mappings' = [mappings EXCEPT ![k][e] = UnitId(r, e)]
          /\ UNCHANGED <<tidy, faults>>
       \/ /\ Fault
          /\ tidy' = tidy \ {k}
          /\ UNCHANGED mappings
    /\ Step(r, NextUnit([req[r] EXCEPT !.acked = @ \cup {e}]))
    /\ UNCHANGED <<packages, records, World, cached, answer>>

Complete(r) == req[r].acked = req[r].sel

\* finalize_dispatch: complete, failed everywhere, or partial; a partial one is
\* answered at once and rolled back by a task that runs on.
Finalize(r) ==
    /\ At(r, "finalize")
    /\ \/ Complete(r) /\ Finish(r, "ok")
       \/ ~ Complete(r) /\ req[r].acked = {} /\ Finish(r, "failed")
       \/ /\ ~ Complete(r) /\ req[r].acked # {}
          /\ IF RollbackOnPartial
             THEN /\ Step(r, [req[r] EXCEPT !.pc = "rollback", !.left = req[r].acked])
                  /\ Reply(r, "failed")
             ELSE Finish(r, "ok")
    /\ UNCHANGED <<Stored, World, cached, tidy, faults>>

----------------------------------------------------------------------------
(* Deleting units.                                                         *)

\* One delete_deployment call to an environment.  Errors are logged; when the
\* environment cannot be reached the unit stays and the key is no longer tidy.
DeleteAt(e, id, k) ==
    \/ /\ health[e] # "down"
       /\ runtimes' = [runtimes EXCEPT ![e] = @ \ {id}]
       /\ UNCHANGED tidy
    \/ /\ health[e] = "down"
       /\ tidy' = tidy \ {k}
       /\ UNCHANGED runtimes

\* remove_cluster_mappings: whatever is mapped by now; an error is only logged.
RemoveMappings(k) ==
    \/ /\ mappings' = [mappings EXCEPT ![k] = [e \in Envs |-> None]]
       /\ UNCHANGED <<tidy, faults>>
    \/ /\ Fault
       /\ tidy' = tidy \ {k}
       /\ UNCHANGED mappings

\* The rollback task deletes the units that were accepted.
RollbackNext(r) ==
    /\ At(r, "rollback")
    /\ req[r].left # {}
    /\ LET e == First(req[r].left, req[r].seen) IN
          /\ DeleteAt(e, UnitId(r, e), Args[r].key)
          /\ Step(r, [req[r] EXCEPT !.left = @ \ {e}])
    /\ UNCHANGED <<Stored, health, avail, cached, answer, faults>>

\* Mutant: the mappings outlive the rollback.
RollbackForgets(r) ==
    /\ At(r, "rollback")
    /\ req[r].left = {}
    /\ End(r)
    /\ UNCHANGED <<Stored, World, cached, answer, tidy, faults>>

RollbackEnd(r) ==
    /\ At(r, "rollback")
    /\ req[r].left = {}
    /\ RemoveMappings(Args[r].key)
    /\ End(r)
    /\ UNCHANGED <<packages, records, World, cached, answer>>

\* The end of one delete_deployment: a cascade goes on whatever it returned.
Deleted(r, a) ==
    IF Args[r].kind = "drop" THEN Move(r, "cascade") /\ UNCHANGED answer ELSE Finish(r, a)

\* delete_deployment reads the record; a missing one is an error, which a cascade
\* only logs.
LoadRecord(r) ==
    LET k == req[r].key IN
    /\ At(r, "delete")
    /\ IF records[k] # NoRecord
       THEN /\ Step(r, [req[r] EXCEPT !.pc = "loadIds", !.left = records[k].sel,
                                      !.seen = records[k].seen])
            /\ UNCHANGED answer
       ELSE Deleted(r, "refused")
    /\ UNCHANGED <<Stored, World, cached, tidy, faults>>

\* get_cluster_mappings, read once before the calls.
LoadIds(r) ==
    /\ At(r, "loadIds")
    /\ Step(r, [req[r] EXCEPT !.pc = "deleteUnits", !.ids = mappings[req[r].key]])
    /\ UNCHANGED <<Stored, World, cached, answer, tidy, faults>>

\* The id of the mapping, or the key itself, which no unit has.
DeleteUnit(r) ==
    /\ At(r, "deleteUnits")
    /\ req[r].left # {}
    /\ LET e == First(req[r].left, req[r].seen) IN
          /\ DeleteAt(e, req[r].ids[e], req[r].key)
          /\ Step(r, [req[r] EXCEPT !.left = @ \ {e}])
    /\ UNCHANGED <<Stored, health, avail, cached, answer, faults>>

\* A storage error ends the deletion here, with the units gone and their mappings kept.
DeleteRecord(r) ==
    LET k == req[r].key IN
    /\ At(r, "deleteUnits")
    /\ req[r].left = {}
    /\ \/ /\ records' = [records EXCEPT ![k] = NoRecord]
          /\ Move(r, "unmap")
          /\ UNCHANGED <<answer, tidy, faults>>
       \/ /\ Fault
          /\ Deleted(r, "failed")
          /\ tidy' = tidy \ {k}
          /\ UNCHANGED records
    /\ UNCHANGED <<packages, mappings, World, cached>>

Unmap(r) ==
    /\ At(r, "unmap")
    /\ RemoveMappings(req[r].key)
    /\ Deleted(r, "deleted")
    /\ UNCHANGED <<packages, records, World, cached>>

----------------------------------------------------------------------------
(* The environments.                                                       *)

\* A manager fails or its cluster degrades.
Worsen(e) ==
    /\ e \in Unstable /\ Fault
    /\ health[e] = "healthy"
    /\ \E s \in {"degraded", "down"} : health' = [health EXCEPT ![e] = s]
    /\ UNCHANGED <<Stored, runtimes, avail, cached, req, answer, tidy>>

Recover(e) ==
    /\ health[e] # "healthy"
    /\ health' = [health EXCEPT ![e] = "healthy"]
    /\ UNCHANGED <<Stored, runtimes, avail, cached, req, answer, tidy, faults>>

----------------------------------------------------------------------------
Init ==
    /\ packages = {}
    /\ records = [k \in Keys |-> NoRecord]
    /\ mappings = [k \in Keys |-> [e \in Envs |-> None]]
    /\ runtimes = [e \in Envs |-> {}]
    /\ health = [e \in Envs |-> "healthy"]
    /\ cached = {}
    /\ avail \in Availabilities
    /\ req = [r \in Requests |-> Idle]
    /\ answer = [r \in Requests |-> None]
    /\ tidy = Keys
    /\ faults = 0

PackageStep(r) ==
    \/ CheckPackage(r) \/ CheckDependencies(r) \/ StorePackage(r)
    \/ DropPackage(r) \/ CascadeNext(r) \/ RemovePackage(r)

DeployStep(r) ==
    \/ Resolve(r) \/ Validate(r) \/ Require(r) \/ Select(r) \/ Store(r)
    \/ Call(r) \/ SaveMapping(r) \/ Finalize(r)
    \/ RollbackNext(r) \/ RollbackEnd(r)

DeleteStep(r) ==
    \/ LoadRecord(r) \/ LoadIds(r) \/ DeleteUnit(r) \/ DeleteRecord(r) \/ Unmap(r)

Work(r) == PackageStep(r) \/ DeployStep(r) \/ DeleteStep(r)

Next ==
    \/ \E r \in Requests : Arrive(r) \/ Work(r)
    \/ \E e \in Envs : Worsen(e) \/ Recover(e)

Spec == Init /\ [][Next]_vars

\* While a task can run, one does: the runtime is never idle with work to do, and
\* calls and sleeps are bounded.
FairSpec == Spec /\ WF_vars(\E r \in Requests : Work(r))

----------------------------------------------------------------------------
(* Properties.                                                             *)

\* The state is well formed, an environment is cached only with a healthy answer
\* behind it, and no task is left holding a unit it is not calling for.
TypeOK ==
    /\ packages \subseteq Packages
    /\ \A k \in Keys : records[k] # NoRecord => records[k].sel # {} /\ records[k].sel \subseteq Envs
    /\ mappings \in [Keys -> [Envs -> UnitIds \cup {None}]]
    /\ runtimes \in [Envs -> SUBSET UnitIds]
    /\ health \in [Envs -> Statuses]
    /\ cached \subseteq Envs
    /\ tidy \subseteq Keys
    /\ faults \in 0..MaxFaults
    /\ \A r \in Requests :
          /\ answer[r] \in Answers \cup {None}
          /\ req[r].attempt \in 0..MaxRetries
          /\ req[r].acked \cup req[r].left \subseteq Envs
          /\ (req[r].pc = "end") => answer[r] # None

\* dispatch_units_with_retry sends the unit it was given again, and the manager
\* treats a known id as accepted: however many replies are lost, an environment
\* holds one unit of a deployment request.
RetryCreatesNoSecondUnit ==
    \A e \in Envs : \A u, w \in runtimes[e] : u[1] = w[1] => u = w

\* A deployment whose key no fault and no overlapping request has touched owns
\* exactly the units its mappings name: once its requests are done nothing is left
\* that a delete would not find, and a deleted or rolled back one has no unit at
\* all.
TidyKeysLeakNothing ==
    \A k \in tidy : BusyWith(k) = {} =>
       \A e \in Envs :
          LET mine == {u \in runtimes[e] : Args[u[1]].key = k}
          IN  mine = IF mappings[k][e] = None THEN {} ELSE {mappings[k][e]}

\* A deployment of a tidy key that was answered as created has been accepted by
\* every environment of its record, as long as partial deployments are rolled back
\* and it was not deleted or replaced since.
CreatedEverywhere ==
    \A r \in Requests :
       /\ Args[r].kind = "deploy" /\ answer[r] = "ok" /\ RollbackOnPartial
       /\ Args[r].key \in tidy /\ BusyWith(Args[r].key) = {}
       /\ records[Args[r].key] # NoRecord /\ records[Args[r].key].by = r
       => \A e \in records[Args[r].key].sel : mappings[Args[r].key][e] # None

\* Deleting a package with the cascade policy leaves none of its deployments, if no
\* other request was at work on them.
CascadeLeavesNothing ==
    \A k \in tidy :
       Cascade /\ BusyWith(k) = {} /\ PackageOf[k] \notin packages
       => records[k] = NoRecord

\* The availability a record reports is the probability that a majority of its
\* environments is available: the sum over the majorities that may be up of the
\* product of the chances.
QuorumExact ==
    \A k \in Keys : records[k] # NoRecord =>
       LET S == records[k].sel
           a == records[k].seen
           Chance(U) == LET p[T \in SUBSET S] ==
                              IF T = {} THEN 1
                              ELSE LET e == CHOOSE x \in T : TRUE
                                   IN  p[T \ {e}] * (IF e \in U THEN a[e] ELSE 100 - a[e])
                        IN  p[S]
           Majorities == {U \in SUBSET S : 2 * Cardinality(U) > Cardinality(S)}
           sum[M \in SUBSET Majorities] ==
              IF M = {} THEN 0
              ELSE LET U == CHOOSE x \in M : TRUE IN sum[M \ {U}] + Chance(U)
       IN  records[k].achieved = sum[Majorities]

\* When the selection saw every candidate up, the environments it took reach the
\* demanded availability or there were no more to take: taking the best of as many
\* as the worst would need is enough.
TargetMet ==
    \A k \in Keys :
       /\ records[k] # NoRecord /\ k \notin Strong
       /\ ~ records[k].explicit
       /\ \A e \in records[k].asked : records[k].seen[e] = avail[e]
       => \/ Meets(records[k].sel, records[k].seen, Target)
          \/ records[k].sel = records[k].asked

\* Every request ends, and so does the rollback that outlives its answer: retries are
\* bounded, so whatever happens the manager has no task at work again and again.
EveryRequestEnds == []<>(\A r \in Requests : ~ Active(r))

\* Without faults and overlapping requests, records, mappings and the environments'
\* units agree when the requests on a key are done, be they deployments, rollbacks,
\* deletes or the deletes of a package.
TidyKeysSettled ==
    /\ TypeOK
    /\ TidyKeysLeakNothing
    /\ CreatedEverywhere
    /\ CascadeLeavesNothing

\* The availability a record reports is the exact quorum availability of its
\* environments, and the selection reaches the demanded one where it can.
SelectionExact == QuorumExact /\ TargetMet
=============================================================================
