------------------------------ MODULE WasmHost ------------------------------
(***************************************************************************)
(* The WASM runtime of a shard.  First its modules are loaded, one per     *)
(* wasm:// route (wasm_bridge.rs, oprc-wasm/src/store.rs), from a file, a  *)
(* web server or an OCI registry that may ask for a token.  Then guests    *)
(* run and reach objects through the host: an object-world guest through   *)
(* proxies bound to one object (object_host.rs), a procedural one by       *)
(* naming class, partition and object in every call (host.rs).  How guests *)
(* invoke functions is in Invocation.                                      *)
(***************************************************************************)
EXTENDS Naturals, Sequences, FiniteSets

CONSTANTS
    WasmFns,      \* functions with a wasm:// route
    ModuleUrl,    \* [WasmFns -> the wasm_module_url of the route, or NoUrl]
    Scheme,       \* [urls -> {"file", "http", "oci", "other"}]
    Credentials,  \* set of BOOLEAN: whether OCI_USERNAME and OCI_PASSWORD are set
    World,        \* [WasmFns -> {"legacy", "oop"}]: what the component exports
    OwnShard,     \* <<class, partition>> of the shard
    Refs,         \* object references <<shard, object id>>
    RefStrings,   \* strings a guest may parse, as sequences of tokens
    Fields,       \* entry keys; "_raw" is one of them
    NoUrl,
    MaxHostCalls  \* bound: calls of guests

\* The module urls of the routes have a scheme, and a reference is a pair.
ASSUME WasmAssumption ==
    /\ NoUrl \notin WasmFns
    /\ \A f \in WasmFns : ModuleUrl[f] # NoUrl =>
          Scheme[ModuleUrl[f]] \in {"file", "http", "oci", "other"}
    /\ Credentials \subseteq BOOLEAN
    /\ \A r \in Refs : r = <<r[1], r[2]>>

VARIABLES
    modules,      \* the module store: [WasmFns -> the url the module came from, or NoUrl]
    loader,       \* setup_wasm_offloader
    fetch,        \* fetch_module of the module being loaded
    guest,        \* the invocation being run
    shards,       \* the objects of every shard: [Refs -> SUBSET (Fields \X Nat)]
    hostCall      \* history: the last data call: the reference it named, what it changed and read

wasmVars == <<modules, loader, fetch, guest, shards, hostCall>>

NoFetch == [pc |-> "none", step |-> "none", sent |-> 0]
NoGuest == [fn |-> NoUrl, proxies |-> {}, calls |-> 0]
NoHostCall == [ref |-> NoUrl, changed |-> {}, read |-> {}, res |-> "none"]

WasmInit ==
    /\ modules = [f \in WasmFns |-> NoUrl]
    /\ loader = [todo |-> WasmFns, now |-> NoUrl, compiled |-> {}]
    /\ fetch = NoFetch
    /\ guest = NoGuest
    /\ shards = [r \in Refs |-> {}]
    /\ hostCall = NoHostCall

-----------------------------------------------------------------------------
(* Loading                                                                 *)

\* The routes are a map, so they come in any order.  A route without a module
\* is skipped; a module compiled for another function is used again.
Load(f) ==
    /\ loader.now = NoUrl /\ f \in loader.todo
    /\ \/ /\ ModuleUrl[f] = NoUrl
          /\ loader' = [loader EXCEPT !.todo = @ \ {f}]
          /\ UNCHANGED <<modules, fetch>>
       \/ /\ ModuleUrl[f] \in loader.compiled
          /\ modules' = [modules EXCEPT ![f] = ModuleUrl[f]]
          /\ loader' = [loader EXCEPT !.todo = @ \ {f}]
          /\ UNCHANGED fetch
       \/ /\ ModuleUrl[f] \notin loader.compiled \cup {NoUrl}
          /\ loader' = [loader EXCEPT !.todo = @ \ {f}, !.now = f]
          /\ fetch' = [NoFetch EXCEPT !.pc = Scheme[ModuleUrl[f]]]
          /\ UNCHANGED modules
    /\ UNCHANGED <<guest, shards, hostCall>>

\* The module is compiled and cached, or the failure is logged and the next
\* route is tried.
Loaded(ok) ==
    /\ modules' = IF ok THEN [modules EXCEPT ![loader.now] = ModuleUrl[loader.now]] ELSE modules
    /\ loader' = [loader EXCEPT !.now = NoUrl,
                                !.compiled = IF ok THEN @ \cup {ModuleUrl[loader.now]} ELSE @]
    /\ fetch' = NoFetch
    /\ UNCHANGED <<guest, shards, hostCall>>

\* fetch_module: a file or a web server answers or fails, an unknown scheme fails.
FetchPlain ==
    /\ \/ fetch.pc \in {"file", "http"} /\ \E ok \in BOOLEAN : Loaded(ok)
       \/ fetch.pc = "other" /\ Loaded(FALSE)

\* fetch_oci_module asks for the manifest, then for the layer's blob.
FetchOci ==
    /\ fetch.pc = "oci"
    /\ fetch' = [fetch EXCEPT !.pc = "get", !.step = "manifest"]
    /\ UNCHANGED <<modules, loader, guest, shards, hostCall>>

Sends(pc) == fetch' = [fetch EXCEPT !.pc = pc, !.sent = @ + 1] /\ UNCHANGED <<modules, loader, guest, shards, hostCall>>

\* oci_get: a 401 leads to a token, by the challenge of the registry or without
\* one, or to basic authentication; the second answer is final.
OciGet ==
    /\ fetch.pc = "get"
    /\ \/ Sends("answered")
       \/ Sends("challenged")
       \/ \E set \in Credentials : Sends(IF set THEN "basic" ELSE "anonymous")
       \/ Loaded(FALSE)

OciAgain ==
    /\ fetch.pc \in {"bearer", "basic"}
    /\ \/ Sends("answered")
       \/ Loaded(FALSE)

\* oci_bearer_token, and the anonymous token of a registry without a challenge.
OciToken ==
    /\ fetch.pc \in {"challenged", "anonymous"}
    /\ \/ Sends("bearer")
       \/ Loaded(FALSE)

\* A manifest without a usable layer, or bytes that do not compile, fail.
OciAnswered ==
    /\ fetch.pc = "answered"
    /\ \/ /\ fetch.step = "manifest"
          /\ fetch' = [fetch EXCEPT !.pc = "get", !.step = "blob"]
          /\ UNCHANGED <<modules, loader, guest, shards, hostCall>>
       \/ fetch.step = "blob" /\ Loaded(TRUE)
       \/ Loaded(FALSE)

-----------------------------------------------------------------------------
(* Guests                                                                  *)

AllLoaded == loader.todo = {} /\ loader.now = NoUrl

Idle == guest.fn = NoUrl

\* Mutant: the partition is not compared.
IsLocalClass(ref) == ref[1][1] = OwnShard[1]

IsLocal(ref) == ref[1] = OwnShard

\* invoke_oop makes the proxy of the object itself; a function whose module is
\* not loaded is refused.
Enter(f, ref) ==
    /\ AllLoaded /\ Idle /\ guest.calls < MaxHostCalls
    /\ ref[1] = OwnShard
    /\ modules[f] # NoUrl
    /\ guest' = [guest EXCEPT !.fn = f, !.proxies = IF World[f] = "oop" THEN {ref} ELSE {}]
    /\ hostCall' = NoHostCall
    /\ UNCHANGED <<modules, loader, fetch, shards>>

\* The instance and its table of proxies go with the store.
Leave ==
    /\ ~Idle
    /\ guest' = [guest EXCEPT !.fn = NoUrl, !.proxies = {}]
    /\ hostCall' = NoHostCall
    /\ UNCHANGED <<modules, loader, fetch, shards>>

Slashes(s) == {i \in DOMAIN s : s[i] = "/"}

\* parse_object_ref_str: the first two slashes split the string.
ParseRef(s) ==
    IF Cardinality(Slashes(s)) < 2 THEN NoUrl
    ELSE LET first  == CHOOSE i \in Slashes(s) : \A j \in Slashes(s) : i <= j
             second == CHOOSE i \in Slashes(s) \ {first} : \A j \in Slashes(s) \ {first} : i <= j
             part   == SubSeq(s, first + 1, second - 1)
         IN  IF first = 1 \/ second = Len(s) \/ Len(part) # 1 \/ part[1] \notin {"0", "1"} THEN NoUrl
             ELSE <<<<s[1], part[1]>>, SubSeq(s, second + 1, Len(s))>>

InOop == ~Idle /\ World[guest.fn] = "oop"

\* object and object_by_str make a proxy for any object.
OpenProxy(s) ==
    /\ InOop
    /\ ParseRef(s) # NoUrl
    /\ guest' = [guest EXCEPT !.proxies = @ \cup {ParseRef(s)}]
    /\ UNCHANGED <<modules, loader, fetch, shards, hostCall>>

DropProxy(ref) ==
    /\ InOop /\ ref \in guest.proxies
    /\ guest' = [guest EXCEPT !.proxies = @ \ {ref}]
    /\ UNCHANGED <<modules, loader, fetch, shards, hostCall>>

\* ShardDataOpsAdapter serves every call from its own shard, whatever class and
\* partition the call names.
Served(ref) == <<OwnShard, ref[2]>>

Values(r, fields) == {e \in shards[r] : e[1] \in fields}
Replaced(r, entries) == {e \in shards[r] : \A n \in entries : n[1] # e[1]} \cup entries

Did(ref, to, read, res) ==
    /\ shards' = [shards EXCEPT ![Served(ref)] = to]
    /\ hostCall' = [ref |-> ref, changed |-> IF to = shards[Served(ref)] THEN {} ELSE {Served(ref)},
                    read |-> read, res |-> res]
    /\ guest' = [guest EXCEPT !.calls = @ + 1]
    /\ UNCHANGED <<modules, loader, fetch>>

GetMany(ref, fields) == Did(ref, shards[Served(ref)], Values(Served(ref), fields), "ok")
SetMany(ref, entries) == Did(ref, Replaced(Served(ref), entries), {}, "ok")
DeleteField(ref, f) == Did(ref, {e \in shards[Served(ref)] : e[1] # f}, {}, "ok")
GetAll(ref) == Did(ref, shards[Served(ref)], Values(Served(ref), Fields), "ok")

\* set_all, and set_object of the procedural world, keep the first entry's bytes
\* under "_raw" and leave the other entries alone.
SetAll(ref, value) == Did(ref, Replaced(Served(ref), {<<"_raw", value>>}), {}, "ok")

\* There is no proxy to other shards: a call that needs it fails.
NoRemote(ref) ==
    /\ hostCall' = [ref |-> ref, changed |-> {}, read |-> {}, res |-> "internal"]
    /\ guest' = [guest EXCEPT !.calls = @ + 1]
    /\ UNCHANGED <<modules, loader, fetch, shards>>

DataCall(ref) ==
    \/ \E fields \in SUBSET Fields : GetMany(ref, fields)
    \/ \E f \in Fields, v \in 1 .. 2 : SetMany(ref, {<<f, v>>})
    \/ \E v \in 1 .. 2 : SetMany(ref, {<<f, v>> : f \in Fields})
    \/ \E f \in Fields : DeleteField(ref, f)
    \/ GetAll(ref)
    \/ \E v \in 1 .. 2 : SetAll(ref, v)

OopCall(ref) ==
    /\ InOop /\ ref \in guest.proxies /\ guest.calls < MaxHostCalls
    /\ IF IsLocal(ref) THEN DataCall(ref) ELSE NoRemote(ref)

\* delete_object and merge_object exist in the procedural world only; its
\* merge_object is set_object and get_object.
LegacyCall(ref) ==
    /\ ~Idle /\ World[guest.fn] = "legacy" /\ guest.calls < MaxHostCalls
    /\ \/ DataCall(ref)
       \/ Did(ref, {}, {}, "ok")
       \/ \E v \in 1 .. 2 : Did(ref, Replaced(Served(ref), {<<"_raw", v>>}), {<<"_raw", v>>}, "ok")

WasmNext ==
    \/ \E f \in WasmFns : Load(f)
    \/ FetchPlain \/ FetchOci \/ OciGet \/ OciAgain \/ OciToken \/ OciAnswered
    \/ \E f \in WasmFns, ref \in Refs : Enter(f, ref)
    \/ Leave
    \/ \E s \in RefStrings : OpenProxy(s)
    \/ \E ref \in Refs : DropProxy(ref) \/ OopCall(ref) \/ LegacyCall(ref)

WasmSpec == WasmInit /\ [][WasmNext]_wasmVars

-----------------------------------------------------------------------------
(* Properties                                                              *)

\* No function runs the module of another route, in whatever order the routes
\* come and whichever loads fail (wasm_bridge.rs:300).
OwnModule == \A f \in WasmFns : modules[f] \in {NoUrl, ModuleUrl[f]}

\* A load ends after a bounded number of requests whatever the registry answers:
\* manifest and blob, each with at most one token and one second try
\* (store.rs oci_get).
FetchBounded == fetch.sent <= 6

\* An object-world guest reads and changes only the object its proxy names: a
\* proxy of another class or partition never falls back on an object of this
\* shard with the same id (object_host.rs is_local).
ProxyBound ==
    InOop /\ hostCall.ref # NoUrl /\ hostCall.ref \in guest.proxies =>
        /\ hostCall.changed \subseteq {hostCall.ref}
        /\ hostCall.ref[1] # OwnShard => hostCall.read = {} /\ hostCall.res = "internal"

\* Whatever a guest of either world names, objects of other shards stay as they
\* are (wasm_bridge.rs: the adapter holds one shard).
ShardConfined == \A r \in Refs : r[1] # OwnShard => shards[r] = {}

\* A function runs its own module, and its guest reaches no object but those its
\* proxies or its shard allow (wasm_bridge.rs, object_host.rs is_local).
GuestsConfined == OwnModule /\ ProxyBound /\ ShardConfined
=============================================================================
