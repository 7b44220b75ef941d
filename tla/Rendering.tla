------------------------------ MODULE Rendering ------------------------------
(***************************************************************************)
(* What becomes of a class on its way into a cluster.  The package manager *)
(* turns a deployment into a unit (oprc-pm/src/services/deployment/units.  *)
(* rs), the class runtime manager turns the unit into a ClassRuntime       *)
(* (oprc-crm/src/grpc/builders), and its controller renders workloads and  *)
(* the collections ODGM is told to create (oprc-crm/src/templates).  Each  *)
(* stage computes names, URLs and options that must fit those of the       *)
(* others.  When the stages run, fail and repeat is the subject of         *)
(* PackageManager and ClassRuntimeController.                              *)
(***************************************************************************)
EXTENDS Naturals, Integers, Sequences, FiniteSets, TLC

CONSTANTS
    RenderCases,   \* <<class and deployment, cluster>> pairs; class keys are
                   \* sequences of characters
    MaxLabel,      \* the longest DNS label (63 in the code)
    SuffixLen,     \* length of a unit id's random suffix (8 in the code)
    NoText

VARIABLE render    \* [stage, in, env, unit, runtime, out]

renderVars == <<render>>

NotRendered == [stage |-> "idle", in |-> NoText, env |-> NoText, unit |-> NoText,
         runtime |-> NoText, out |-> NoText]

RenderInit == render = NotRendered

-----------------------------------------------------------------------------
(* Names: "a" stands for the letters, "A" for capitals, "1" for digits and *)
(* "." for characters a label may not have.                                *)

Mapped(s) == [i \in DOMAIN s |-> CASE s[i] = "A" -> "a" [] s[i] = "." -> "-" [] OTHER -> s[i]]

\* Without the dashes at its ends.
Trimmed(s) ==
    LET solid == {i \in DOMAIN s : s[i] # "-"}
    IN  IF solid = {} THEN <<>>
        ELSE SubSeq(s, CHOOSE i \in solid : \A j \in solid : i <= j,
                       CHOOSE i \in solid : \A j \in solid : j <= i)

TrimmedEnd(s) ==
    LET solid == {i \in DOMAIN s : s[i] # "-"}
    IN  IF solid = {} THEN <<>> ELSE SubSeq(s, 1, CHOOSE i \in solid : \A j \in solid : j <= i)

Cut(s, n) == IF Len(s) > n THEN SubSeq(s, 1, n) ELSE s
Letter(s) == IF s[1] = "1" THEN <<"a">> \o s ELSE s
OrElse(s, default) == IF s = <<>> THEN default ELSE s

\* TemplateManager::dns1035_safe.
SafeName(s) ==
    IF Trimmed(Mapped(s)) = <<>> THEN <<"a">>
    ELSE OrElse(TrimmedEnd(Cut(Letter(Trimmed(Mapped(s))), MaxLabel)), <<"a">>)

\* sanitize_name of the CRM's gRPC service.
SanitizeName(s) == Trimmed(Mapped(s))

\* dns_label_safe of the package manager.
LabelSafe(s) == Letter(OrElse(Trimmed(Mapped(s)), <<"a">>))

\* gen_safe_deployment_id, with one suffix for all the random ones.
UnitName(class) ==
    OrElse(TrimmedEnd(Cut(LabelSafe(class), MaxLabel - 1 - SuffixLen)), <<"a">>)
    \o <<"-">> \o [i \in 1 .. SuffixLen |-> "1"]

-----------------------------------------------------------------------------
(* The package manager: a deployment becomes a unit                        *)

Find(fns, key) == CHOOSE i \in DOMAIN fns : fns[i].key = key

\* create_deployment fills in one function per binding; deploy_script calls the
\* deployment service directly, with neither functions nor an ODGM section.
Functions(in) ==
    IF in.script \/ in.functions # <<>> THEN in.functions
    ELSE [b \in DOMAIN in.bindings |-> in.package[Find(in.package, in.bindings[b].key)]]

\* The bindings whose function is deployed; the URL is left to the CRM.
BoundRoutes(in) ==
    {<<in.bindings[b].name, in.bindings[b].key>> :
        b \in {c \in DOMAIN in.bindings :
                 \E f \in DOMAIN Functions(in) : Functions(in)[f].key = in.bindings[c].key}}

\* Options of the deployment win over those of the class; a persistent class
\* that names no backend gets fjall, and a path unless it names one.
MergedOptions(in) ==
    LET both == in.options @@ in.classOptions
    IN  IF "storage_backend" \in DOMAIN both \/ ~in.persistent THEN both
        ELSE ("storage_backend" :> "fjall") @@ both @@ ("storage_path" :> "default")

ShardType(in) ==
    IF in.shardType # NoText THEN in.shardType ELSE IF in.strong THEN "raft" ELSE "mst"

\* generate_shard_assignments_spec: the node with the fewest primaries comes
\* first, which is each in turn, and shard ids count up.
Assignments(partitions, replicas, nodes) ==
    [p \in 1 .. partitions |->
        [primary   |-> (p - 1) * replicas + 1,
         replica   |-> [r \in 1 .. replicas |-> nodes[(((p + r) - 2) % Len(nodes)) + 1]],
         shard_ids |-> [r \in 1 .. replicas |-> (p - 1) * replicas + r]]]

OfAtLeastOne(n) == IF n < 1 THEN 1 ELSE n

\* create_deployment_units_for_env.
Unit(in) ==
    [id        |-> UnitName(in.class),
     functions |-> Functions(in),
     bindings  |-> in.bindings,
     template  |-> in.template,
     odgm      |-> IF in.script THEN NoText
                   ELSE [partitions |-> in.partitions, replicas |-> in.replicas,
                         shardType |-> ShardType(in), options |-> MergedOptions(in),
                         routes |-> IF in.bindings = <<>> THEN NoText ELSE BoundRoutes(in),
                         assignments |->
                             IF in.nodes = <<>> THEN <<>>
                             ELSE Assignments(OfAtLeastOne(in.partitions),
                                              OfAtLeastOne(in.replicas), in.nodes)]]

CreateUnit(in, env) ==
    /\ render.stage = "idle"
    /\ render' = [render EXCEPT !.stage = "unit", !.in = in, !.env = env, !.unit = Unit(in)]

-----------------------------------------------------------------------------
(* The CRM's gRPC service: a unit becomes a ClassRuntime                   *)

\* routing.rs: the service of the i-th of n functions, counted from zero.
ServiceName(name, i, n) == IF n > 1 THEN <<SafeName(name), i>> ELSE <<SafeName(name)>>

ShortUrl(svc) == [scheme |-> "http", to |-> svc, fqdn |-> FALSE]
WasmUrl(key)  == [scheme |-> "wasm", to |-> key, fqdn |-> FALSE]

\* fk_index: the last function with the key.
IndexOf(fns, key) ==
    CHOOSE i \in DOMAIN fns : fns[i].key = key /\ \A j \in DOMAIN fns : fns[j].key = key => j <= i

\* The URL of a function of the unit.
RouteUrl(u, key, n) ==
    LET i == IndexOf(u.functions, key)
    IN  IF u.functions[i].kind = "wasm" THEN WasmUrl(key)
        ELSE ShortUrl(ServiceName(SanitizeName(u.id), i - 1, Len(u.functions)))

\* map_invocations_from_proto; the routes come with their function keys.
RoutesFromProto(u) ==
    {[name |-> r[1], key |-> r[2], url |-> RouteUrl(u, r[2], Cardinality(u.odgm.routes))] :
        r \in u.odgm.routes}

\* invocations_from_bindings, when the unit has no routes: those of the bindings.
RoutesFromBindings(u) ==
    {[name |-> u.bindings[b].name, key |-> u.bindings[b].key,
      url |-> RouteUrl(u, u.bindings[b].key, Len(u.bindings))] :
        b \in {c \in DOMAIN u.bindings :
                 \E f \in DOMAIN u.functions : u.functions[f].key = u.bindings[c].key}}

\* build_odgm_config.
OdgmConfig(u) ==
    IF u.odgm # NoText
    THEN [partitions |-> u.odgm.partitions, replicas |-> u.odgm.replicas,
          shardType |-> u.odgm.shardType, options |-> u.odgm.options,
          assignments |-> u.odgm.assignments,
          routes |-> IF u.odgm.routes # NoText THEN RoutesFromProto(u) ELSE RoutesFromBindings(u)]
    ELSE IF u.functions = <<>> THEN NoText
    ELSE [partitions |-> 1, replicas |-> 1, shardType |-> "mst", options |-> <<>>,
          assignments |-> <<>>, routes |-> {}]

\* build_functions drops the functions without an image or a module.
Provisioned(f) == f.kind # "none"

\* ClassRuntimeBuilder::build.
Runtime(u) ==
    [name |-> SanitizeName(u.id), template |-> u.template, odgm |-> OdgmConfig(u),
     functions |-> SelectSeq(u.functions, Provisioned)]

BuildRuntime ==
    /\ render.stage = "unit"
    /\ render' = [render EXCEPT !.stage = "runtime", !.runtime = Runtime(render.unit)]
-----------------------------------------------------------------------------
(* The controller: a ClassRuntime becomes workloads and collections        *)

\* K8sDeploymentTemplate::score; env.nfr: requirements that meet every threshold.
K8sScore(env) ==
    (IF env.profile = "k8s_deployment" THEN 800000 ELSE IF env.datacenter THEN 600000 ELSE 0)
    + (IF env.nfr THEN 10 ELSE 0)

DevScore(env) == IF env.profile = "dev" THEN 1000000 ELSE IF env.edge THEN 10 ELSE -10

EdgeScore(env) ==
    (IF env.profile = "edge" \/ env.edge THEN 1000000 ELSE 0) + (IF env.nfr THEN 5 ELSE 0)

KnativeScore(env) ==
    (IF env.datacenter \/ env.profile = "full" THEN 900000
     ELSE IF env.edge \/ env.profile = "edge" THEN 600000 ELSE 100000)
    + (IF env.nfr THEN 4 ELSE 0)

Score(t, env) ==
    CASE t = "dev"            -> DevScore(env)
      [] t = "edge"           -> EdgeScore(env)
      [] t = "k8s_deployment" -> K8sScore(env)
      [] t = "knative"        -> KnativeScore(env)

Templates(env) == <<"dev", "edge", "k8s_deployment">> \o (IF env.knative THEN <<"knative">> ELSE <<>>)

\* select_template: a hint that names a template wins, otherwise the first of
\* those with the best score.
SelectTemplate(env, hint) ==
    LET ts == Templates(env)
        hinted == {i \in DOMAIN ts : ts[i] = hint}
        best == {i \in DOMAIN ts : \A j \in DOMAIN ts : Score(ts[j], env) <= Score(ts[i], env)}
    IN  IF hinted # {} THEN ts[CHOOSE i \in hinted : TRUE]
        ELSE ts[CHOOSE i \in best : \A j \in best : i <= j]

\* ResolvedTelemetry: the package manager turns an absent "enabled" into true,
\* and what the class says wins over the cluster.
TelemetryOn(in, env) == IF in.telemetry = NoText THEN env.otel ELSE in.telemetry # "off"

OtelEnv(sampler) == ("OTEL" :> "crm") @@ ("SAMPLER" :> sampler)

Injected(in, env, sampler) ==
    (IF env.odgm THEN ("ODGM" :> "crm") ELSE <<>>)
    @@ (IF env.router THEN ("ZENOH" :> "crm") ELSE <<>>)
    @@ (IF TelemetryOn(in, env) THEN OtelEnv(sampler) ELSE <<>>)

\* The variables of a function's container: sorted by name, the first of each
\* name is kept, and the function's own come first.
K8sEnv(f, in, env) == f.config @@ Injected(in, env, "parentbased_traceidratio")

KnativeEnv(f, in, env) == f.config @@ Injected(in, env, "traceidratio")

\* render_with: Deployments and Services, none for a WASM function.
K8sServices(rt, in, env) ==
    {[svc |-> ServiceName(rt.name, i - 1, Len(rt.functions)), fn |-> rt.functions[i],
      env |-> K8sEnv(rt.functions[i], in, env)] :
        i \in {j \in DOMAIN rt.functions : rt.functions[j].kind # "wasm"}}

\* KnativeTemplate::render: a service for every function.
KnativeServices(rt, in, env) ==
    {[svc |-> ServiceName(rt.name, i - 1, Len(rt.functions)), fn |-> rt.functions[i],
      env |-> KnativeEnv(rt.functions[i], in, env)] : i \in DOMAIN rt.functions}

\* ... which panics unless the first function has an image.
KnativePanics(rt) == IF rt.functions = <<>> THEN TRUE ELSE rt.functions[1].kind # "image"

LastOf(key) == key[Len(key)]

\* predicted_function_routes: each function under the last part of its key, the
\* first function with that part.
Predicted(rt) ==
    {[name |-> LastOf(rt.functions[i].key), key |-> rt.functions[i].key,
      url |-> IF rt.functions[i].kind = "wasm" THEN WasmUrl(rt.functions[i].key)
              ELSE [ShortUrl(ServiceName(rt.name, i - 1, Len(rt.functions))) EXCEPT !.fqdn = TRUE]] :
        i \in {j \in DOMAIN rt.functions :
                 \A k \in 1 .. j - 1 : LastOf(rt.functions[k].key) # LastOf(rt.functions[j].key)}}

\* Mutant: a predicted route replaces the bound one of the same name.
PredictedFirst(rt) ==
    Predicted(rt) \cup {r \in rt.odgm.routes : \A p \in Predicted(rt) : p.name # r.name}

\* merged_function_routes: the bound routes and the predicted ones of other names.
MergedRoutes(rt) ==
    rt.odgm.routes \cup {p \in Predicted(rt) : \A r \in rt.odgm.routes : r.name # p.name}

\* validate_assignments.
ValidAssignments(list, partitions, replicas) ==
    /\ partitions > 0 /\ replicas > 0
    /\ Len(list) = partitions
    /\ \A p \in DOMAIN list :
         /\ Len(list[p].replica) = replicas /\ Len(list[p].shard_ids) = replicas
         /\ \E r \in DOMAIN list[p].shard_ids : list[p].shard_ids[r] = list[p].primary
         /\ \A q \in DOMAIN list, r, t \in 1 .. replicas :
              list[p].shard_ids[r] = list[q].shard_ids[t] => p = q /\ r = t

\* build_collection_request: a short service URL becomes fully qualified, and
\* assignments that do not fit are left to ODGM.
Collection(rt) ==
    [routes |-> {[r EXCEPT !.url.fqdn = @ \/ r.url.scheme = "http"] : r \in MergedRoutes(rt)},
     shardType |-> rt.odgm.shardType, options |-> rt.odgm.options,
     assignments |-> IF ValidAssignments(rt.odgm.assignments, rt.odgm.partitions, rt.odgm.replicas)
                     THEN rt.odgm.assignments ELSE <<>>]

\* build_requests: the collections ODGM finds in its environment when it starts.
BuildRequests(rt, env) == IF env.odgm /\ rt.odgm # NoText THEN Collection(rt) ELSE NoText

\* render_workload.
RenderWorkload ==
    /\ render.stage = "runtime"
    /\ LET rt == render.runtime
           t == SelectTemplate(render.env, rt.template)
       IN  render' = [render EXCEPT
             !.stage = IF t = "knative" /\ KnativePanics(rt) THEN "panic" ELSE "rendered",
             !.out = [template |-> t,
                      services |-> IF t = "knative" THEN KnativeServices(rt, render.in, render.env)
                                   ELSE K8sServices(rt, render.in, render.env),
                      collection |-> BuildRequests(rt, render.env)]]

RenderNext ==
    \/ \E c \in RenderCases : CreateUnit(c[1], c[2])
    \/ BuildRuntime
    \/ RenderWorkload

-----------------------------------------------------------------------------
(* Properties                                                              *)

Rendered == render.stage = "rendered"
HasCollection == Rendered /\ render.out.collection # NoText

\* Every route ODGM is given leads to the function it is for: a WASM route names
\* the function, an HTTP route the service that runs it.  The URL is computed from
\* the unit's list of functions and the service from the ClassRuntime's, by index,
\* so this holds only when no function was dropped in between
\* (grpc/builders/class_runtime.rs, templates/manager.rs).
RoutesReachTheirFunction ==
    HasCollection /\ Len(render.runtime.functions) = Len(render.unit.functions) =>
        \A r \in render.out.collection.routes :
            \/ r.url.scheme = "wasm" /\ r.url.to = r.key
            \/ r.url.fqdn /\ \E s \in render.out.services : s.svc = r.url.to /\ s.fn.key = r.key

\* A method goes to the function the class binds it to, also when another
\* function's key ends in the method's name (odgm.rs merged_function_routes).
BindingsWin ==
    HasCollection =>
        \A b \in BoundRoutes(render.in) :
            {r.key : r \in {q \in render.out.collection.routes : q.name = b[1]}} = {b[2]}

\* What the class says about its state reaches ODGM through all three stages:
\* strong consistency gives Raft shards and persistence a durable backend, unless
\* the deployment says otherwise, and the assignments the package manager made
\* are the ones ODGM gets (units.rs, class_runtime.rs, collections.rs).
StateSpecHonoured ==
    HasCollection /\ ~render.in.script =>
        LET c == render.out.collection
            in == render.in
        IN  /\ in.shardType = NoText => (in.strong <=> c.shardType = "raft")
            /\ in.persistent => {"storage_backend"} \subseteq DOMAIN c.options
            /\ in.partitions > 0 /\ in.replicas > 0 /\ in.nodes # <<>> =>
                 Len(c.assignments) = in.partitions

\* Whatever template is chosen, a container sees its function's own variables
\* unchanged, and telemetry exactly when the class, or else the cluster, asks for
\* it (manager.rs render_with, knative.rs render).
OwnVariablesWin ==
    Rendered =>
        \A s \in render.out.services :
            /\ \A v \in DOMAIN s.fn.config : s.env[v] = s.fn.config[v]
            /\ "SAMPLER" \in DOMAIN s.env <=> TelemetryOn(render.in, render.env)

\* Requirements never outweigh the environment: development and edge clusters
\* keep their templates and a datacenter that has Knative uses it, with or without
\* requirements, unless a cluster claims to be two things at once.
EnvironmentDecides ==
    Rendered /\ render.in.template \notin {Templates(render.env)[i] : i \in DOMAIN Templates(render.env)} =>
        LET env == render.env
            edge == env.edge \/ env.profile = "edge"
        IN  /\ env.profile = "dev" /\ ~edge => render.out.template = "dev"
            /\ edge /\ env.profile # "dev" => render.out.template = "edge"
            /\ ~edge /\ env.profile # "dev" /\ env.datacenter /\ env.knative =>
                 render.out.template = "knative"

\* The id the package manager gives a unit is a DNS label and survives the CRM's
\* own clean-ups unchanged: the resource is found again under that id, and the
\* services carry its name.  Making a name safe twice changes nothing.
NamesAgree ==
    render.stage # "idle" =>
        /\ LET id == render.unit.id
           IN  /\ Len(id) <= MaxLabel
               /\ SanitizeName(id) = id /\ SafeName(id) = id
        /\ LET safe == SafeName(render.in.class)
           IN  SafeName(safe) = safe /\ safe[1] = "a" /\ Len(safe) <= MaxLabel

\* From the package manager's unit to the CRM's workload, by way of the
\* ClassRuntime, nothing the class asked for is lost or confused: routes, bindings,
\* state, variables, the template of the environment, and names.
RenderedAsAsked ==
    /\ RoutesReachTheirFunction
    /\ BindingsWin
    /\ StateSpecHonoured
    /\ OwnVariablesWin
    /\ EnvironmentDecides
    /\ NamesAgree
=============================================================================
