---------------------------- MODULE MCComponents ----------------------------
(***************************************************************************)
(* Instances of the components that can be checked on their own, side by   *)
(* side: the initial state picks one of them, and only that one moves.     *)
(***************************************************************************)
EXTENDS EntryStoreSequential, DataService, WasmHost, ScriptService, Rendering, NetworkSim,
        ClusterViews

VARIABLE part   \* the component that runs

Parts == {"store", "data", "wasm", "script", "render", "netsim", "views"}

SideInit ==
    /\ part \in Parts
    /\ SeqInit /\ DataInit /\ WasmInit /\ ScriptInit /\ RenderInit /\ NetInit /\ ViewInit
    /\ part # "netsim" => netMode = "dev"

SideNext ==
    \/ /\ part = "store" /\ SeqNext
       /\ UNCHANGED <<part, dataServiceVars, wasmVars, scriptVars, renderVars, netVars, viewVars>>
    \/ /\ part = "data" /\ DataNext
       /\ UNCHANGED <<part, seqVars, wasmVars, scriptVars, renderVars, netVars, viewVars>>
    \/ /\ part = "wasm" /\ WasmNext
       /\ UNCHANGED <<part, seqVars, dataServiceVars, scriptVars, renderVars, netVars, viewVars>>
    \/ /\ part = "script" /\ ScriptNext
       /\ UNCHANGED <<part, seqVars, dataServiceVars, wasmVars, renderVars, netVars, viewVars>>
    \/ /\ part = "render" /\ RenderNext
       /\ UNCHANGED <<part, seqVars, dataServiceVars, wasmVars, scriptVars, netVars, viewVars>>
    \/ /\ part = "netsim" /\ NetNext
       /\ UNCHANGED <<part, seqVars, dataServiceVars, wasmVars, scriptVars, renderVars, viewVars>>
    \/ /\ part = "views" /\ ViewNext
       /\ UNCHANGED <<part, seqVars, dataServiceVars, wasmVars, scriptVars, renderVars, netVars>>

sideVars == <<part, seqVars, dataServiceVars, wasmVars, scriptVars, renderVars, netVars, viewVars>>

SideSpec == SideInit /\ [][SideNext]_sideVars

-----------------------------------------------------------------------------
(* The entry store, one caller at a time                                   *)

MCKeys == {1, 2}

Request(kind, puts, dels) ==
    [kind |-> kind, puts |-> puts, dels |-> dels, expect |-> NoExpect, cfg |-> FALSE]

KeySets == SUBSET MCKeys \ {{}}

\* Every argument shape over two keys, with and without a version check.
AllRequests ==
    {Request("set_entry", {k}, {}) : k \in MCKeys}
    \cup {Request("delete_entry", {}, {k}) : k \in MCKeys}
    \cup {Request("batch_delete", {}, K) : K \in KeySets}
    \cup {Request("delete_object", {}, {})}
    \cup {[Request("upsert", K, {}) EXCEPT !.cfg = c] : K \in SUBSET MCKeys, c \in BOOLEAN}
    \cup {[r EXCEPT !.expect = v] :
             r \in {Request(kind, K, L) : kind \in {"mutate", "zbatch"},
                                          K \in SUBSET MCKeys, L \in SUBSET MCKeys}
                   \ {Request(kind, {}, {}) : kind \in {"mutate", "zbatch"}},
             v \in {NoExpect, 1}}

-----------------------------------------------------------------------------
(* The data service                                                        *)

ByteVal(n) == [type |-> "byte", data |-> {n}]
CrdtVal(n) == [type |-> "crdt", data |-> {n}]

\* Characters are numbers; 1 and 11 are the same letter in its two cases.
DIds == {<<11>>, <<11, 12>>, <<12>>}
DNames == {<<1>>, <<11>>, <<12>>, <<11, 12>>}
Entries(f) == [n \in DNames |-> IF n \in DOMAIN f THEN f[n] ELSE NoVal]

Call(o, i) == [op |-> o, id |-> i, here |-> TRUE]
CallValue(o, i, k, v) == Call(o, i) @@ [key |-> k, value |-> v]
CallObject(o, i, v) == Call(o, i) @@ [values |-> v]
CallBatch(i, puts, drops, v) == Call("batch", i) @@ [sets |-> puts, dels |-> drops, expect |-> v]
CallList(i, p, n) == Call("list", i) @@ [prefix |-> p, limit |-> n]

\* Valid and invalid ids and keys, in either case, of existing and other objects.
DRequests ==
    {CallObject("set", <<12>>, Entries([n \in DNames |-> ByteVal(1)])),
     CallObject("set", <<11, 2>>, NoEntries),
     [CallObject("set", <<11>>, NoEntries) EXCEPT !.here = FALSE],
     CallValue("set_value", <<1>>, <<11>>, ByteVal(2)),
     CallValue("set_value", <<1>>, <<2>>, ByteVal(2)),
     CallValue("set_value", <<1>>, <<0>>, ByteVal(2)),
     CallValue("delete_value", <<1>>, <<1>>, NoVal),
     CallValue("delete_value", <<2>>, <<2>>, NoVal),
     Call("delete", <<1>>), Call("delete", <<>>),
     Call("get", <<1>>), Call("get", <<12, 12, 12>>),
     CallBatch(<<1>>, [k \in {<<1>>, <<11>>} |-> ByteVal(Len(k) + k[1])], {}, NoVal),
     CallBatch(<<1>>, [k \in {<<11, 2>>} |-> ByteVal(3)], {<<2>>}, 1),
     CallValue("get_value", <<1>>, <<1>>, NoVal),
     CallObject("merge", <<1>>, Entries([n \in {<<11>>} |-> CrdtVal(1)])),
     CallObject("merge", <<1>>, Entries([n \in {<<11>>, <<1>>} |-> CrdtVal(2)])),
     CallList(<<1>>, NoVal, 0), CallList(<<1>>, <<1>>, 1), CallList(<<1>>, <<0>>, 1)}

-----------------------------------------------------------------------------
(* The WASM host                                                           *)

\* Two functions share an OCI module, one has a file, one has no module at all.
WUrl == [f \in {"f1", "f2", "f3", "f4"} |->
           IF f = "f3" THEN "u2" ELSE IF f = "f4" THEN "none" ELSE "u1"]
WScheme == [u \in {"u1", "u2"} |-> IF u = "u1" THEN "oci" ELSE "file"]
WWorld == [f \in {"f1", "f2", "f3", "f4"} |-> IF f = "f3" THEN "legacy" ELSE "oop"]
WShard == <<"c", "0">>
WRefs == {<< <<"c", "0">>, <<"o">> >>, << <<"c", "1">>, <<"o">> >>}
WStrings == {<<"c", "/", "1", "/", "o">>, <<"c", "/", "o">>, <<"c", "/", "x", "/", "o">>,
             <<"/", "1", "/", "o">>}

-----------------------------------------------------------------------------
(* The script service                                                      *)

\* Two sources that compile to the same module, one of its own, one that fails.
SHash == [s \in {"s1", "s2", "s3", "bad"} |->
            IF s = "s3" THEN "m3" ELSE IF s = "bad" THEN NoFile ELSE "m1"]
SRequest(k, s, c) == [kind |-> k, source |-> s, pkg |-> "p", class |-> c]
SRequests == {SRequest("build", "s1", "c"), SRequest("deploy", "s2", "c"),
              SRequest("deploy", "s3", "d"), SRequest("compile", "bad", "c"),
              SRequest("compile", "s1", "c"), SRequest("deploy", "bad", "c")}

-----------------------------------------------------------------------------
(* Units, runtimes and workloads                                           *)

\* Three functions; the keys of two of them end alike, and the first one sets a
\* variable the CRM also injects.
FAm == <<"A", "m">>
FBm == <<"B", "m">>
FCn == <<"C", "n">>
RFunction(k, how) ==
    [key |-> k, kind |-> how,
     config |-> IF k = FAm THEN ("OTEL" :> "own") @@ ("X" :> "own") ELSE <<>>]
RPackage(how) == <<RFunction(FAm, how[1]), RFunction(FBm, how[2]), RFunction(FCn, how[3])>>
Bind(n, k) == [name |-> n, key |-> k]

RInput ==
    [package |-> RPackage(<<"image", "image", "image">>), functions |-> <<>>,
     bindings |-> <<Bind("m", FBm), Bind("p", FCn)>>, script |-> FALSE,
     class |-> <<"A", ".", "a">>, template |-> NoText, partitions |-> 2, replicas |-> 2,
     nodes |-> <<7, 9, 11>>, strong |-> FALSE, persistent |-> FALSE, options |-> <<>>,
     classOptions |-> <<>>, shardType |-> NoText, telemetry |-> NoText]

RInputs ==
    \* every way to provision the functions and several ways to bind them
    {[RInput EXCEPT !.package = RPackage(how), !.bindings = bound,
                    !.functions = IF given THEN RPackage(how) ELSE <<>>] :
        how \in {"image", "wasm", "none"} \X {"image", "wasm", "none"} \X {"image", "wasm", "none"},
        given \in BOOLEAN,
        bound \in {<<>>, <<Bind("m", FBm)>>, <<Bind("m", FBm), Bind("p", FCn)>>,
                   <<Bind("q", FAm), Bind("m", FCn), Bind("n", FCn)>>}}
    \cup {[RInput EXCEPT !.script = TRUE]}
    \* every class key of up to four characters
    \cup {[RInput EXCEPT !.class = n] :
             n \in UNION {[1 .. len -> {"a", "A", "1", "-", "."}] : len \in 0 .. 4}}
    \* the state the class asks for
    \cup {[RInput EXCEPT !.strong = s, !.persistent = p, !.options = o, !.classOptions = c,
                         !.shardType = t] :
             s \in BOOLEAN, p \in BOOLEAN,
             o \in {<<>>, "storage_path" :> "mine", "event" :> "on"},
             c \in {<<>>, "storage_backend" :> "memory"}, t \in {NoText, "mst"}}
    \cup {[RInput EXCEPT !.partitions = p, !.replicas = r, !.nodes = ns] :
             p \in 0 .. 3, r \in 0 .. 3, ns \in {<<>>, <<7>>, <<7, 9>>}}
    \cup {[RInput EXCEPT !.telemetry = t, !.template = h] :
             t \in {NoText, "unset", "on", "off"}, h \in {NoText, "knative", "edge", "other"}}

RCluster == [profile |-> "full", datacenter |-> FALSE, edge |-> FALSE, knative |-> TRUE,
             nfr |-> FALSE, otel |-> FALSE, odgm |-> TRUE, router |-> TRUE]

RClusters ==
    {[RCluster EXCEPT !.knative = k, !.otel = o] : k \in BOOLEAN, o \in BOOLEAN}
    \cup {[RCluster EXCEPT !.odgm = FALSE, !.router = FALSE]}
    \cup {[RCluster EXCEPT !.profile = p, !.datacenter = d, !.edge = e, !.knative = k, !.nfr = n] :
             p \in {"dev", "edge", "full", "k8s_deployment"}, d \in BOOLEAN, e \in BOOLEAN,
             k \in BOOLEAN, n \in BOOLEAN}

RCases ==
    (RInputs \X {RCluster, [RCluster EXCEPT !.knative = FALSE]})
    \cup ({RInput, [RInput EXCEPT !.functions = RInput.package],
           [RInput EXCEPT !.template = "k8s_deployment"], [RInput EXCEPT !.telemetry = "off"]}
          \X RClusters)

-----------------------------------------------------------------------------
(* The network simulation                                                  *)

NClusters == <<2, 1, 3>>
NProxies == {<<2, 1>>}
NScopes == {<<"link", 1, 2>>, <<"env", 3>>, <<"all">>}

-----------------------------------------------------------------------------
(* Topologies and recommendations                                          *)

VSample == [router |-> NoPart, links |-> {}, next |-> NoPart, topic |-> NoPart]
VSamples ==
    {VSample,
     [VSample EXCEPT !.router = "r1"],
     [VSample EXCEPT !.router = "r1", !.links = {<<"r1", "r2">>, <<"r2", "r3">>}],
     [VSample EXCEPT !.router = "r2", !.next = <<"r2", "r3">>],
     [VSample EXCEPT !.router = "r2", !.topic = <<"invokes", "f">>],
     [VSample EXCEPT !.router = "r3", !.topic = <<"invokes", "f">>],
     [VSample EXCEPT !.router = "r1", !.topic = <<"objects">>],
     [VSample EXCEPT !.router = "r2", !.topic = <<"other">>]}

VDeployment == {[package |-> p, class |-> c, functions |-> <<"f", "g">>, envs |-> e] :
                  p \in {"p", "q"}, c \in {"c", "d"}, e \in {<<"e1">>, <<"e1", "e2">>}}
VDeployments == {<<>>} \cup {<<d>> : d \in VDeployment} \cup (VDeployment \X VDeployment)

VMeasured == ("rps" :> {0, 2, 3}) @@ ("p99" :> {0, 300}) @@ ("cpu" :> {0, 3, 5, 11})
             @@ ("memory" :> {0, 7})
=============================================================================
