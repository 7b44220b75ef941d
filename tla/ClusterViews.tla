---------------------------- MODULE ClusterViews ----------------------------
(***************************************************************************)
(* What the control plane tells its users about a running cluster: the     *)
(* topology the CRM collects from Zenoh's administration space             *)
(* (oprc-crm/src/grpc/topology.rs), the one the package manager derives    *)
(* from its deployments (oprc-pm/src/api/handlers/topology.rs) and the     *)
(* recommendations the NFR analyzer makes from Prometheus                  *)
(* (oprc-crm/src/nfr/mod.rs).  All are put together from answers of which  *)
(* any may be missing.                                                     *)
(***************************************************************************)
EXTENDS Naturals, Sequences, FiniteSets

CONSTANTS
    AdminSamples,   \* what the administration space may answer, records
                    \* [router, links, next, topic]
    MaxSamples,     \* the answers read at most (2000 in the code)
    Deployments,    \* lists of deployments [package, class, functions, envs]
    Measured,       \* Measured[m]: what a query for metric m may return, 0 for
                    \* an error, no value and not a number
    TargetRates,    \* request rates asked for by a class, NoTarget if none is
    CpuPerPod,      \* 500 millicores in the code
    SlowMs,         \* 250 ms in the code
    NoTarget, NoPart

\* Its elements are whatever they are.
IsList(s) == s \in Seq({s[i] : i \in DOMAIN s})

\* A rate is not negative, a pod has some CPU, and deployments are listed.
ASSUME ViewAssumption ==
    /\ CpuPerPod \in Nat \ {0}
    /\ TargetRates \subseteq {NoTarget} \cup Nat
    /\ \A m \in DOMAIN Measured : Measured[m] \subseteq Nat
    /\ \A ds \in Deployments :
         IsList(ds) /\ \A i \in DOMAIN ds : IsList(ds[i].functions) /\ IsList(ds[i].envs)

VARIABLES
    view,           \* what is being put together
    adminSession    \* the CRM has its session for administrative queries

viewVars == <<view, adminSession>>

NoView == [kind |-> "none", taken |-> {}, nodes |-> {}, edges |-> {}, listed |-> <<>>,
           metrics |-> <<>>, knative |-> FALSE, target |-> NoTarget, source |-> "range",
           recs |-> {}]

ViewInit == view = NoView /\ adminSession = FALSE

\* The answer has been given.
ViewDone == view.kind \in {"topology", "graph", "recs", "error"}

ViewAnswered ==
    /\ ViewDone
    /\ view' = NoView
    /\ UNCHANGED adminSession

-----------------------------------------------------------------------------
(* The CRM's topology                                                      *)

\* get_admin_session, which is opened once and kept, and the query.
FetchTopology ==
    /\ view.kind = "none"
    /\ \/ /\ view' = [NoView EXCEPT !.kind = "fetching"]
          /\ adminSession' = TRUE
       \/ /\ view' = [NoView EXCEPT !.kind = "error"]
          /\ UNCHANGED adminSession

TakeSample(s) ==
    /\ view.kind = "fetching" /\ s \notin view.taken /\ Cardinality(view.taken) < MaxSamples
    /\ view' = [view EXCEPT !.taken = @ \cup {s}]
    /\ UNCHANGED adminSession

\* Mutant: a router is known by its link state only.
RoutersByLinks(ss) == {s.router : s \in {t \in ss : t.router # NoPart /\ t.links # {}}}

\* Every key below a router names it.
RoutersOf(ss) == {s.router : s \in {t \in ss : t.router # NoPart}}

\* The subscribers and queryables of the platform; a topic is a function, "objects"
\* or something else.
Topics(ss) == {s \in ss : s.topic # NoPart /\ s.router # NoPart}
FunctionsOf(ss) == {<<s.router, s.topic>> : s \in {t \in Topics(ss) : t.topic[1] = "invokes"}}
OdgmRouters(ss) == {s.router : s \in {t \in Topics(ss) : t.topic[1] = "objects"}}

NodesOf(ss) ==
    {<<"router", r>> : r \in RoutersOf(ss)}
    \cup {<<"function", f[2]>> : f \in FunctionsOf(ss)}
    \cup {<<"odgm", r>> : r \in OdgmRouters(ss)}

\* Links are undirected, a next hop is shown one way; a link state may name
\* routers that did not answer.
EdgesOf(ss) ==
    LET linked == UNION {s.links : s \in ss}
        hops == {s.next : s \in {t \in ss : t.next # NoPart}}
        r(x) == <<"router", x>>
    IN  {<<r(l[1]), r(l[2])>> : l \in linked} \cup {<<r(l[2]), r(l[1])>> : l \in linked}
        \cup {<<r(h[1]), r(h[2])>> : h \in hops}
        \cup {<<r(f[1]), <<"function", f[2]>> >> : f \in FunctionsOf(ss)}
        \cup {<<r(x), <<"odgm", x>> >> : x \in OdgmRouters(ss)}

\* The answers end: none is left, one is an error, the next takes too long or
\* enough have been read.  Only edges between nodes are shown.
BuildTopology ==
    /\ view.kind = "fetching"
    /\ view' = [view EXCEPT !.kind = "topology", !.nodes = NodesOf(view.taken),
                  !.edges = {e \in EdgesOf(view.taken) : e[1] \in NodesOf(view.taken)
                                                         /\ e[2] \in NodesOf(view.taken)}]
    /\ UNCHANGED adminSession

-----------------------------------------------------------------------------
(* The package manager's topology                                          *)

\* A package or an environment is listed when it is first met.
ListOnce(nodes, n) == IF \E i \in DOMAIN nodes : nodes[i] = n THEN nodes ELSE Append(nodes, n)

\* The nodes of one more deployment: its package, its class, its functions and
\* its environments.
NodesWith(nodes, d) ==
    LET class == Append(ListOnce(nodes, <<"package", d.package>>), <<"class", d.class>>)
        fns == class \o [i \in DOMAIN d.functions |-> <<"function", d.class, d.functions[i]>>]
        upTo[i \in 0 .. Len(d.envs)] ==
            IF i = 0 THEN fns ELSE ListOnce(upTo[i - 1], <<"env", d.envs[i]>>)
    IN  upTo[Len(d.envs)]

EdgesWith(d) ==
    {<< <<"package", d.package>>, <<"class", d.class>> >>}
    \cup {<< <<"class", d.class>>, <<"function", d.class, d.functions[i]>> >> : i \in DOMAIN d.functions}
    \cup {<< <<"class", d.class>>, <<"env", d.envs[i]>> >> : i \in DOMAIN d.envs}

\* build_deployment_topology.
DeploymentTopology(ds) ==
    /\ view.kind = "none"
    /\ view' = [NoView EXCEPT !.kind = "graph",
                  !.listed = LET upTo[i \in 0 .. Len(ds)] ==
                                   IF i = 0 THEN <<>> ELSE NodesWith(upTo[i - 1], ds[i])
                             IN  upTo[Len(ds)],
                  !.edges = UNION {EdgesWith(ds[i]) : i \in DOMAIN ds}]
    /\ UNCHANGED adminSession

-----------------------------------------------------------------------------
(* The NFR analyzer: four metrics, each over a range or else at an instant *)

MetricNames == <<"rps", "p99", "cpu", "memory">>

Observe(knative, target) ==
    /\ view.kind = "none"
    /\ view' = [NoView EXCEPT !.kind = "observing", !.knative = knative, !.target = target,
                              !.metrics = IF knative THEN <<>> ELSE <<0>>]
    /\ UNCHANGED adminSession

NextMetric == MetricNames[Len(view.metrics) + 1]

\* query_range_aggregate, and query_instant when that gives nothing.
Query(v) ==
    /\ view.kind = "observing" /\ Len(view.metrics) < 4
    /\ view' = IF view.source = "range" /\ v = 0 THEN [view EXCEPT !.source = "instant"]
               ELSE [view EXCEPT !.metrics = Append(@, v), !.source = "range"]
    /\ UNCHANGED adminSession

CeilDiv(a, b) == ((a + b) - 1) \div b
AtLeast(n, floor) == IF n < floor THEN floor ELSE n

\* The pods the measured load takes, scaled to the rate asked for when one is and
\* the present rate is known (heuristic_replicas_cpu otherwise), and one more when
\* answers are slow.
Replicas(rps, p99, cpu, target) ==
    AtLeast(IF target # NoTarget /\ rps > 0 THEN CeilDiv(target * cpu, rps * CpuPerPod)
            ELSE CeilDiv(cpu, CpuPerPod), 1) + (IF p99 > SlowMs THEN 1 ELSE 0)

\* observe_only: the recommendations, with the headroom in tenths.
Recommend ==
    /\ view.kind = "observing" /\ Len(view.metrics) = 4
    /\ LET rps == view.metrics[1]
           cpu == view.metrics[3]
           memory == view.metrics[4]
       IN  view' = [view EXCEPT !.kind = "recs", !.recs =
             (IF cpu > 0 THEN {<<"replicas", Replicas(rps, view.metrics[2], cpu, view.target)>>,
                               <<"cpu", CeilDiv(cpu * 13, 10)>>} ELSE {})
             \cup (IF memory > 0 THEN {<<"memory", CeilDiv(memory * 12, 10)>>} ELSE {})]
    /\ UNCHANGED adminSession

-----------------------------------------------------------------------------
ViewNext ==
    \/ FetchTopology \/ BuildTopology \/ Recommend \/ ViewAnswered
    \/ \E s \in AdminSamples : TakeSample(s)
    \/ \E ds \in Deployments : DeploymentTopology(ds)
    \/ \E k \in BOOLEAN, t \in TargetRates : Observe(k, t)
    \/ \E m \in DOMAIN Measured : \E v \in Measured[m] :
         view.kind = "observing" /\ Len(view.metrics) < 4 /\ m = NextMetric /\ Query(v)

ViewSpec == ViewInit /\ [][ViewNext]_viewVars

-----------------------------------------------------------------------------
(* Properties                                                              *)

\* Whatever part of the answers arrives, the CRM's topology is a graph whose edges
\* join nodes it shows, and no function or ODGM instance it shows is without a
\* router (topology.rs fetch_zenoh_topology).
TopologyWhole ==
    view.kind = "topology" =>
        /\ \A e \in view.edges : e[1] \in view.nodes /\ e[2] \in view.nodes
        /\ \A n \in view.nodes : n[1] # "router" =>
             \E e \in view.edges : e[2] = n /\ e[1][1] = "router"

\* In the package manager's topology edges join listed nodes, and a package or an
\* environment that several deployments share is listed once.  (A class deployed
\* from two packages is listed twice: handlers/topology.rs build_deployment_topology.)
GraphWellFormed ==
    view.kind = "graph" =>
        /\ \A e \in view.edges : \A k \in 1 .. 2 : \E i \in DOMAIN view.listed : view.listed[i] = e[k]
        /\ \A i, j \in DOMAIN view.listed :
             view.listed[i] = view.listed[j] /\ view.listed[i][1] \in {"package", "env"} => i = j

\* The replicas recommended carry the load, scaled to the rate asked for, within
\* the share of CPU each is given, and no fewer would; nothing is recommended from
\* queries that all failed (nfr/mod.rs observe_only).
ReplicasCarryTheLoad ==
    view.kind = "recs" =>
        LET m == view.metrics
            scaled == view.target # NoTarget /\ m[1] > 0
            load == IF scaled THEN view.target * m[3] ELSE m[3]
            pod == IF scaled THEN m[1] * CpuPerPod ELSE CpuPerPod
        IN  /\ m[3] = 0 /\ m[4] = 0 => view.recs = {}
            /\ \A r \in view.recs : r[1] = "replicas" =>
                 /\ r[2] * pod >= load
                 /\ r[2] <= 2 \/ (r[2] - 2) * pod < load

\* The views made of incomplete answers can be shown and acted on: both topologies
\* are graphs, and the replicas recommended carry the load.
ViewsHold == TopologyWhole /\ GraphWellFormed /\ ReplicasCarryTheLoad
=============================================================================
