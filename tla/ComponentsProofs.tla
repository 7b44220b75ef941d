-------------------------- MODULE ComponentsProofs --------------------------
(***************************************************************************)
(* Proofs about the WASM host, the network simulation, the script service  *)
(* and the views of a cluster, components MCComponents checks side by side,*)
(* and about the storage backends.                                         *)
(***************************************************************************)
EXTENDS WasmHost, NetworkSim, ScriptService, ClusterViews, Storage, FiniteSetTheorems,
        WellFoundedInduction, TLAPS

-----------------------------------------------------------------------------
(* The WASM host: loading                                                  *)

\* The requests a fetch has sent before it sends the current one: three for the
\* manifest at most, so the blob starts with three.
Base == IF fetch.step = "blob" THEN 3 ELSE 0

FetchPcs == {"none", "file", "http", "oci", "other", "get", "challenged", "anonymous",
             "basic", "bearer", "answered"}

FetchInv ==
    /\ fetch \in [pc : FetchPcs, step : {"none", "manifest", "blob"}, sent : Nat]
    /\ fetch.pc \in {"none", "file", "http", "oci", "other"} => fetch.sent = 0
    /\ fetch.pc = "get" => fetch.sent <= Base
    /\ fetch.pc \in {"challenged", "anonymous", "basic"} => fetch.sent <= Base + 1
    /\ fetch.pc = "bearer" => fetch.sent <= Base + 2
    /\ fetch.pc = "answered" => fetch.sent <= Base + 3

ModulesInv ==
    /\ modules \in [WasmFns -> {NoUrl} \cup {ModuleUrl[f] : f \in WasmFns}]
    /\ OwnModule

\* A load that ended, well or not, leaves every module in its place.
LEMMA LoadedKeeps ==
  ASSUME FetchInv, ModulesInv, NEW ok \in BOOLEAN, Loaded(ok)
  PROVE  FetchInv' /\ ModulesInv'
  <1>1. FetchInv'
    BY DEF Loaded, FetchInv, NoFetch, FetchPcs, Base
  <1>2. ModulesInv'
    BY DEF Loaded, ModulesInv, OwnModule
  <1>3. QED
    BY <1>1, <1>2

LEMMA LoadKeeps ==
  ASSUME FetchInv, ModulesInv, NEW f \in WasmFns, Load(f)
  PROVE  FetchInv' /\ ModulesInv'
  <1>1. FetchInv'
    BY WasmAssumption DEF Load, FetchInv, NoFetch, FetchPcs, Base
  <1>2. ModulesInv'
    BY DEF Load, ModulesInv, OwnModule
  <1>3. QED
    BY <1>1, <1>2

FetchTypes == [pc : FetchPcs, step : {"none", "manifest", "blob"}, sent : Nat]

\* How a record of a fetch changes.
LEMMA FetchMoves ==
  ASSUME fetch \in FetchTypes, NEW pc \in FetchPcs, NEW st \in {"none", "manifest", "blob"},
         NEW n \in Nat, fetch' = [fetch EXCEPT !.pc = pc, !.step = st, !.sent = n]
  PROVE  /\ fetch' \in FetchTypes
         /\ fetch'.pc = pc /\ fetch'.step = st /\ fetch'.sent = n
  BY DEF FetchTypes

LEMMA GetIsPc == "get" \in FetchPcs
  BY DEF FetchPcs

\* What a request may have cost before the fetch is at pc.
Spent(pc) ==
    IF pc = "get" THEN 0
    ELSE IF pc \in {"challenged", "anonymous", "basic"} THEN 1
    ELSE IF pc = "bearer" THEN 2
    ELSE 3

\* Sending a request moves the fetch on, within its budget, and nothing else.
LEMMA SendsKeeps ==
  ASSUME FetchInv, ModulesInv,
         NEW pc \in {"answered", "challenged", "basic", "anonymous", "bearer"}, Sends(pc),
         fetch.sent + 1 <= Base + Spent(pc)
  PROVE  FetchInv' /\ ModulesInv'
  <1>1. fetch \in FetchTypes /\ pc \in FetchPcs
    BY DEF FetchInv, FetchPcs, FetchTypes
  <1>2. /\ fetch.step \in {"none", "manifest", "blob"} /\ fetch.sent \in Nat
        /\ fetch.sent + 1 \in Nat
    BY <1>1 DEF FetchTypes
  <1>3. fetch' = [fetch EXCEPT !.pc = pc, !.sent = fetch.sent + 1]
    BY DEF Sends
  <1>4. fetch' = [fetch EXCEPT !.pc = pc, !.step = fetch.step, !.sent = fetch.sent + 1]
    BY <1>1, <1>3 DEF FetchTypes
  <1>5. /\ fetch' \in FetchTypes
        /\ fetch'.pc = pc /\ fetch'.step = fetch.step /\ fetch'.sent = fetch.sent + 1
    BY <1>1, <1>2, <1>4, FetchMoves
  <1>6. Base' = Base /\ Base \in Nat
    BY <1>5 DEF Base
  <1>7. FetchInv'
    BY <1>2, <1>5, <1>6 DEF FetchInv, FetchTypes, Spent
  <1>8. ModulesInv'
    BY DEF Sends, ModulesInv, OwnModule
  <1>9. QED
    BY <1>7, <1>8

LEMMA FetchStepKeeps ==
  ASSUME FetchInv, ModulesInv,
         FetchPlain \/ FetchOci \/ OciGet \/ OciAgain \/ OciToken \/ OciAnswered
  PROVE  FetchInv' /\ ModulesInv'
  <1>1. CASE FetchPlain
    BY <1>1, LoadedKeeps DEF FetchPlain
  <1>2. ASSUME Loaded(TRUE) \/ Loaded(FALSE)
        PROVE  FetchInv' /\ ModulesInv'
    BY <1>2, LoadedKeeps
  <1>3. fetch.sent \in Nat /\ Base \in Nat /\ fetch.step \in {"none", "manifest", "blob"}
    BY DEF FetchInv, Base
  <1>4. CASE FetchOci
    <2>1. /\ fetch' = [fetch EXCEPT !.pc = "get", !.step = "manifest"]
          /\ fetch.pc = "oci" /\ fetch.sent = 0 /\ fetch \in FetchTypes
      BY <1>4 DEF FetchOci, FetchInv, FetchTypes
    <2>2. fetch' = [fetch EXCEPT !.pc = "get", !.step = "manifest", !.sent = 0] /\ 0 \in Nat
      BY <2>1 DEF FetchTypes
    <2>3. /\ fetch' \in FetchTypes
          /\ fetch'.pc = "get" /\ fetch'.step = "manifest" /\ fetch'.sent = 0
      BY <2>1, <2>2, GetIsPc, FetchMoves
    <2>4. FetchInv'
      BY <2>3 DEF FetchInv, FetchTypes, Base
    <2>5. ModulesInv'
      BY <1>4 DEF FetchOci, ModulesInv, OwnModule
    <2>6. QED
      BY <2>4, <2>5
  <1>5. CASE OciGet
    <2>1. fetch.sent <= Base
      BY <1>5 DEF OciGet, FetchInv
    <2>2. \A pc \in {"answered", "challenged", "basic", "anonymous"} : fetch.sent + 1 <= Base + Spent(pc)
      BY <1>3, <2>1 DEF Spent
    <2>3. \/ Sends("answered") \/ Sends("challenged") \/ Loaded(FALSE)
          \/ Sends("basic") \/ Sends("anonymous")
      BY <1>5, WasmAssumption DEF OciGet
    <2>4. QED
      BY <1>2, <2>2, <2>3, SendsKeeps
  <1>6. CASE OciAgain
    <2>1. fetch.sent <= Base + 2
      BY <1>3, <1>6 DEF OciAgain, FetchInv
    <2>2. fetch.sent + 1 <= Base + Spent("answered")
      BY <1>3, <2>1 DEF Spent
    <2>3. Sends("answered") \/ Loaded(FALSE)
      BY <1>6 DEF OciAgain
    <2>4. QED
      BY <1>2, <2>2, <2>3, SendsKeeps
  <1>7. CASE OciToken
    <2>1. fetch.sent <= Base + 1
      BY <1>7 DEF OciToken, FetchInv
    <2>2. fetch.sent + 1 <= Base + Spent("bearer")
      BY <1>3, <2>1 DEF Spent
    <2>3. Sends("bearer") \/ Loaded(FALSE)
      BY <1>7 DEF OciToken
    <2>4. QED
      BY <1>2, <2>2, <2>3, SendsKeeps
  <1>8. CASE OciAnswered
    <2>1. CASE /\ fetch.step = "manifest"
               /\ fetch' = [fetch EXCEPT !.pc = "get", !.step = "blob"]
               /\ UNCHANGED <<modules, loader, guest, shards, hostCall>>
      <3>1. fetch.sent <= 3 /\ fetch \in FetchTypes
        BY <1>8, <2>1 DEF OciAnswered, FetchInv, Base, FetchTypes
      <3>2. fetch' = [fetch EXCEPT !.pc = "get", !.step = "blob", !.sent = fetch.sent]
        BY <2>1, <3>1 DEF FetchTypes
      <3>3. /\ fetch' \in FetchTypes
            /\ fetch'.pc = "get" /\ fetch'.step = "blob" /\ fetch'.sent = fetch.sent
        BY <1>3, <3>1, <3>2, GetIsPc, FetchMoves
      <3>4. FetchInv'
        BY <3>1, <3>3 DEF FetchInv, FetchTypes, Base
      <3>5. ModulesInv'
        BY <2>1 DEF ModulesInv, OwnModule
      <3>6. QED
        BY <3>4, <3>5
    <2>2. QED
      BY <1>2, <1>8, <2>1 DEF OciAnswered
  <1>9. QED
    BY <1>1, <1>4, <1>5, <1>6, <1>7, <1>8

LEMMA GuestStepKeepsModules ==
  ASSUME NEW ref \in Refs, OopCall(ref) \/ LegacyCall(ref)
  PROVE  UNCHANGED <<modules, fetch>>
  BY DEF OopCall, LegacyCall, DataCall, GetMany, SetMany, DeleteField, GetAll, SetAll, NoRemote, Did

LEMMA WasmStepKeepsLoading ==
  ASSUME FetchInv, ModulesInv, WasmNext \/ UNCHANGED wasmVars
  PROVE  FetchInv' /\ ModulesInv'
  <1>1. CASE UNCHANGED <<modules, fetch>>
    BY <1>1 DEF FetchInv, Base, ModulesInv, OwnModule
  <1>2. CASE \E f \in WasmFns : Load(f)
    BY <1>2, LoadKeeps
  <1>3. CASE \E f \in WasmFns, ref \in Refs : Enter(f, ref)
    BY <1>1, <1>3 DEF Enter
  <1>4. CASE Leave
    BY <1>1, <1>4 DEF Leave
  <1>5. CASE \E s \in RefStrings : OpenProxy(s)
    BY <1>1, <1>5 DEF OpenProxy
  <1>6. CASE \E ref \in Refs : DropProxy(ref) \/ OopCall(ref) \/ LegacyCall(ref)
    BY <1>1, <1>6, GuestStepKeepsModules DEF DropProxy
  <1>7. CASE UNCHANGED wasmVars
    BY <1>1, <1>7 DEF wasmVars
  <1>8. QED
    BY <1>2, <1>3, <1>4, <1>5, <1>6, <1>7, FetchStepKeeps DEF WasmNext

\* A load sends six requests at most, whatever the registry answers: oci_get never
\* answers a second challenge.
THEOREM FetchesEnd == WasmSpec => []FetchBounded
  <1>1. WasmInit => FetchInv /\ ModulesInv
    BY DEF WasmInit, NoFetch, FetchInv, FetchPcs, Base, ModulesInv, OwnModule
  <1>2. FetchInv => FetchBounded
    BY DEF FetchInv, FetchBounded, FetchPcs, Base
  <1>3. QED
    BY <1>1, <1>2, WasmStepKeepsLoading, PTL DEF WasmSpec
-----------------------------------------------------------------------------
(* The WASM host: guests                                                   *)

Reachable == Refs \cup {ParseRef(s) : s \in RefStrings}

\* The last call of an object-world guest stayed within the object it named,
\* whether or not the guest still holds the proxy.
CallInv ==
    InOop /\ hostCall.ref # NoUrl =>
        /\ hostCall.changed \subseteq {hostCall.ref}
        /\ hostCall.ref[1] # OwnShard => hostCall.read = {} /\ hostCall.res = "internal"

GuestType == [fn : WasmFns \cup {NoUrl}, proxies : SUBSET Reachable, calls : Nat]

GuestInv ==
    /\ guest \in GuestType
    /\ DOMAIN shards = Refs /\ shards = [r \in Refs |-> shards[r]]
    /\ CallInv
    /\ ShardConfined

LEMMA GuestFields ==
  ASSUME guest \in GuestType, NEW n \in Nat, guest' = [guest EXCEPT !.calls = n]
  PROVE  guest' \in GuestType /\ guest'.fn = guest.fn
  BY DEF GuestType

\* A call the adapter serves changes the named id in the adapter's own shard.
LEMMA DidKeeps ==
  ASSUME GuestInv, NEW ref \in Refs, NEW to, NEW read, NEW res, Did(ref, to, read, res),
         InOop => IsLocal(ref)
  PROVE  GuestInv'
  <1>1. /\ shards' = [shards EXCEPT ![Served(ref)] = to]
        /\ hostCall'.ref = ref
        /\ hostCall'.changed \subseteq {Served(ref)}
        /\ guest' = [guest EXCEPT !.calls = guest.calls + 1]
    BY DEF Did
  <1>2. guest \in GuestType /\ guest.calls + 1 \in Nat
    BY DEF GuestInv, GuestType
  <1>3. guest' \in GuestType /\ guest'.fn = guest.fn
    BY <1>1, <1>2, GuestFields
  <1>4. DOMAIN shards' = Refs /\ shards' = [r \in Refs |-> shards'[r]]
    BY <1>1 DEF GuestInv
  <1>5. ASSUME NEW r \in Refs, r[1] # OwnShard
        PROVE  shards'[r] = {}
    <2>1. r # Served(ref)
      BY <1>5 DEF Served
    <2>2. shards'[r] = shards[r]
      BY <1>1, <2>1 DEF GuestInv
    <2>3. QED
      BY <1>5, <2>2 DEF GuestInv, ShardConfined
  <1>6. ShardConfined'
    BY <1>5 DEF ShardConfined
  <1>7. InOop' => IsLocal(ref)
    BY <1>3 DEF InOop, Idle
  <1>8. IsLocal(ref) => Served(ref) = ref /\ ref[1] = OwnShard
    BY WasmAssumption DEF IsLocal, Served
  <1>9. CallInv'
    BY <1>1, <1>7, <1>8 DEF CallInv
  <1>10. QED
    BY <1>3, <1>4, <1>6, <1>9 DEF GuestInv

LEMMA DataCallIsDid ==
  ASSUME NEW ref \in Refs, DataCall(ref)
  PROVE  \E to, read, res : Did(ref, to, read, res)
  BY DEF DataCall, GetMany, SetMany, DeleteField, GetAll, SetAll

LEMMA OopCallKeeps ==
  ASSUME GuestInv, NEW ref \in Refs, OopCall(ref)
  PROVE  GuestInv'
  <1>1. CASE IsLocal(ref)
    <2>1. PICK to, read, res : Did(ref, to, read, res)
      BY <1>1, DataCallIsDid DEF OopCall
    <2>2. QED
      BY <1>1, <2>1, DidKeeps
  <1>2. CASE ~IsLocal(ref)
    <2>1. /\ hostCall' = [ref |-> ref, changed |-> {}, read |-> {}, res |-> "internal"]
          /\ guest' = [guest EXCEPT !.calls = guest.calls + 1]
          /\ shards' = shards
      BY <1>2 DEF OopCall, NoRemote
    <2>2. guest \in GuestType /\ guest.calls + 1 \in Nat
      BY DEF GuestInv, GuestType
    <2>3. guest' \in GuestType
      BY <2>1, <2>2, GuestFields
    <2>4. CallInv'
      BY <2>1 DEF CallInv
    <2>5. QED
      BY <2>1, <2>3, <2>4 DEF GuestInv, ShardConfined
  <1>3. QED
    BY <1>1, <1>2

LEMMA LegacyCallKeeps ==
  ASSUME GuestInv, NEW ref \in Refs, LegacyCall(ref)
  PROVE  GuestInv'
  <1>1. ~InOop
    BY DEF LegacyCall, InOop
  <1>2. PICK to, read, res : Did(ref, to, read, res)
    BY DataCallIsDid DEF LegacyCall
  <1>3. QED
    BY <1>1, <1>2, DidKeeps

\* The table of proxies and the running function change, the objects do not.
LEMMA FrameKeeps ==
  ASSUME GuestInv, guest' \in GuestType, UNCHANGED shards,
         \/ hostCall' = NoHostCall
         \/ UNCHANGED hostCall /\ guest'.fn = guest.fn
  PROVE  GuestInv'
  <1>1. CallInv'
    BY DEF GuestInv, CallInv, InOop, Idle, NoHostCall
  <1>2. QED
    BY <1>1 DEF GuestInv, ShardConfined

LEMMA ProxyStepKeeps ==
  ASSUME GuestInv,
         \/ \E f \in WasmFns, ref \in Refs : Enter(f, ref)
         \/ Leave
         \/ \E s \in RefStrings : OpenProxy(s)
         \/ \E ref \in Refs : DropProxy(ref)
  PROVE  GuestInv'
  <1>1. guest \in GuestType
    BY DEF GuestInv
  <1>2. ASSUME NEW f \in WasmFns, NEW ref \in Refs, Enter(f, ref)
        PROVE  GuestInv'
    <2>1. guest' \in GuestType
      BY <1>1, <1>2 DEF Enter, GuestType, Reachable
    <2>2. QED
      BY <1>2, <2>1, FrameKeeps DEF Enter
  <1>3. CASE Leave
    <2>1. guest' \in GuestType
      BY <1>1, <1>3 DEF Leave, GuestType
    <2>2. QED
      BY <1>3, <2>1, FrameKeeps DEF Leave
  <1>4. ASSUME NEW s \in RefStrings, OpenProxy(s)
        PROVE  GuestInv'
    <2>1. ParseRef(s) \in Reachable
      BY DEF Reachable
    <2>2. guest' \in GuestType /\ guest'.fn = guest.fn
      BY <1>1, <1>4, <2>1 DEF OpenProxy, GuestType
    <2>3. QED
      BY <1>4, <2>2, FrameKeeps DEF OpenProxy
  <1>5. ASSUME NEW ref \in Refs, DropProxy(ref)
        PROVE  GuestInv'
    <2>1. guest' \in GuestType /\ guest'.fn = guest.fn
      BY <1>1, <1>5 DEF DropProxy, GuestType
    <2>2. QED
      BY <1>5, <2>1, FrameKeeps DEF DropProxy
  <1>6. QED
    BY <1>2, <1>3, <1>4, <1>5

LEMMA LoadingLeavesGuests ==
  ASSUME \/ \E f \in WasmFns : Load(f)
         \/ FetchPlain \/ FetchOci \/ OciGet \/ OciAgain \/ OciToken \/ OciAnswered
  PROVE  UNCHANGED <<guest, shards, hostCall>>
  BY DEF Load, FetchPlain, FetchOci, OciGet, OciAgain, OciToken, OciAnswered, Loaded, Sends

\* In whatever order the routes come and whichever loads fail, a function runs its own
\* module; whatever a guest of either world names and in whatever order it opens, uses
\* and drops proxies, it reaches no object but the one its proxy names and none outside
\* its shard.
THEOREM GuestsStayConfined == WasmSpec => []GuestsConfined
  <1>0. WasmInit => FetchInv /\ ModulesInv
    BY DEF WasmInit, NoFetch, FetchInv, FetchPcs, Base, ModulesInv, OwnModule
  <1>1. WasmInit => GuestInv
    BY DEF WasmInit, NoGuest, NoHostCall, GuestInv, GuestType, CallInv, InOop, Idle, ShardConfined
  <1>2. ASSUME GuestInv, WasmNext \/ UNCHANGED wasmVars
        PROVE  GuestInv'
    <2>1. CASE UNCHANGED <<guest, shards, hostCall>>
      BY <1>2, <2>1 DEF GuestInv, CallInv, InOop, Idle, ShardConfined
    <2>2. UNCHANGED wasmVars => UNCHANGED <<guest, shards, hostCall>>
      BY DEF wasmVars
    <2>3. QED
      BY <1>2, <2>1, <2>2, LoadingLeavesGuests, ProxyStepKeeps, OopCallKeeps, LegacyCallKeeps DEF WasmNext
  <1>3. GuestInv /\ ModulesInv => GuestsConfined
    BY DEF GuestInv, CallInv, GuestsConfined, ProxyBound, ModulesInv
  <1>4. QED
    BY <1>0, <1>1, <1>2, <1>3, WasmStepKeepsLoading, PTL DEF WasmSpec
-----------------------------------------------------------------------------
(* The network simulation: what a connection carries after a cut           *)

ConnType ==
    [stage : {"none", "connecting", "open"}, ends : (Envs \X Envs) \cup {<<>>},
     pump : [Directions -> {"idle", "read", "checked"}], leaked : [Directions -> Nat]]

\* What a connection through a link that is (not) active may look like.
ConnOK(c, isActive) ==
    /\ c \in ConnType
    /\ c.stage # "none" => c.ends \in Envs \X Envs
    /\ \A d \in Directions :
          \/ c.leaked[d] = 0
          \/ c.leaked[d] = 1 /\ c.pump[d] # "checked" /\ c.stage # "none" /\ ~isActive

ConnInv ==
    /\ DOMAIN link = Envs
    /\ DOMAIN conn = Conns
    /\ \A k \in Conns : ConnOK(conn[k], IsActive(conn[k].ends))

LEMMA NoConnOK == \A b : ConnOK(NoConn, b)
  BY DEF NoConn, ConnOK, ConnType

\* Changing the links, in whatever way, forgets what leaked where it connects.
LEMMA SetLinksKeeps ==
  ASSUME ConnInv, NEW l, DOMAIN l = Envs, SetLinks(l)
  PROVE  ConnInv'
  <1>1. link' = l /\ DOMAIN link' = Envs /\ DOMAIN conn' = Conns
    BY DEF SetLinks
  <1>2. ASSUME NEW k \in Conns
        PROVE  ConnOK(conn'[k], l[conn'[k].ends[1]][conn'[k].ends[2]].connected)
    <2>1. ConnOK(conn[k], IsActive(conn[k].ends))
      BY DEF ConnInv
    <2>2. CASE /\ conn[k].stage # "none" /\ l[conn[k].ends[1]][conn[k].ends[2]].connected
               /\ conn'[k] = [conn[k] EXCEPT !.leaked = [d \in Directions |-> 0]]
      BY <2>1, <2>2 DEF ConnOK, ConnType
    <2>3. CASE /\ ~(conn[k].stage # "none" /\ l[conn[k].ends[1]][conn[k].ends[2]].connected)
               /\ conn'[k] = conn[k]
      BY <2>1, <2>3 DEF ConnOK
    <2>4. QED
      BY <2>2, <2>3 DEF SetLinks
  <1>3. QED
    BY <1>1, <1>2 DEF ConnInv, IsActive

LEMMA OrderStepKeepsConns ==
  ASSUME ConnInv, NEW o \in Operators, NEW kind, NEW s, NEW ms,
         \/ DevOrder(o, kind, s, ms) \/ BeginOrder(o, kind, s, ms)
         \/ DevList(o) \/ BeginStatus(o) \/ SendCmd(o) \/ SendCmdFails(o) \/ SendStatus(o)
         \/ Answered(o)
  PROVE  ConnInv'
  <1>1. CASE UNCHANGED <<link, conn>>
    BY <1>1 DEF ConnInv, IsActive
  <1>2. CASE DevOrder(o, kind, s, ms)
    BY <1>2, SetLinksKeeps DEF DevOrder
  <1>3. CASE Handle(o)
    <2>1. \A x : DOMAIN [link EXCEPT ![Head(order[o].todo)[1]][Head(order[o].todo)[2]] = x] = Envs
      BY DEF ConnInv
    <2>2. QED
      BY <1>3, <2>1, SetLinksKeeps DEF Handle, ConnInv
  <1>4. QED
    BY <1>1, <1>2, <1>3 DEF BeginOrder, DevList, BeginStatus, SendCmd, SendCmdFails, SendStatus, Answered

LEMMA RestartKeepsConns ==
  ASSUME ConnInv, NEW a \in Envs, RouterRestart(a)
  PROVE  ConnInv'
  <1>1. /\ DOMAIN link' = Envs /\ DOMAIN conn' = Conns
        /\ \A e \in Envs : e # a => link'[e] = link[e]
    BY DEF RouterRestart, ConnInv
  <1>2. ASSUME NEW k \in Conns
        PROVE  ConnOK(conn'[k], IsActive(conn[k].ends)')
    <2>1. ConnOK(conn[k], IsActive(conn[k].ends))
      BY DEF ConnInv
    <2>2. CASE conn[k].stage # "none" /\ conn[k].ends[1] = a
      BY <2>2, NoConnOK DEF RouterRestart
    <2>3. CASE conn[k].stage = "none" /\ conn'[k] = conn[k]
      BY <2>1, <2>3 DEF ConnOK
    <2>4. CASE conn[k].stage # "none" /\ conn[k].ends[1] # a
      <3>1. conn[k].ends \in Envs \X Envs /\ conn'[k] = conn[k]
        BY <2>1, <2>4 DEF ConnOK, RouterRestart
      <3>2. link'[conn[k].ends[1]] = link[conn[k].ends[1]]
        BY <1>1, <2>4, <3>1
      <3>3. QED
        BY <2>1, <3>1, <3>2 DEF IsActive
    <2>5. QED
      BY <2>2, <2>3, <2>4 DEF RouterRestart
  <1>3. QED
    BY <1>1, <1>2, NoConnOK DEF ConnInv, IsActive, RouterRestart

\* A step of one connection leaves the links and the other connections alone.
LEMMA OneConnKeeps ==
  ASSUME ConnInv, NEW k \in Conns, NEW c, UNCHANGED link, conn' = [conn EXCEPT ![k] = c],
         ConnOK(c, IsActive(c.ends))
  PROVE  ConnInv'
  BY DEF ConnInv, IsActive

LEMMA ConnStepKeeps ==
  ASSUME ConnInv, NEW k \in Conns,
         \/ \E p \in Proxies : Accept(k, p[1], p[2])
         \/ ConnectTarget(k) \/ CloseConn(k)
         \/ \E d \in Directions : PumpRead(k, d) \/ PumpCheck(k, d) \/ PumpWrite(k, d)
  PROVE  ConnInv'
  <1>0. ConnOK(conn[k], IsActive(conn[k].ends)) /\ DOMAIN conn = Conns
    BY DEF ConnInv
  <1>1. CASE conn' = [conn EXCEPT ![k] = NoConn] /\ UNCHANGED link
    BY <1>1, NoConnOK, OneConnKeeps
  <1>2. ASSUME NEW p \in Proxies, Accept(k, p[1], p[2])
        PROVE  ConnInv'
    <2> DEFINE c == [NoConn EXCEPT !.stage = "connecting", !.ends = <<p[1], p[2]>>]
    <2>1. p[1] \in Envs /\ p[2] \in Envs
      BY NetAssumption
    <2>2. ConnOK(c, IsActive(c.ends))
      BY <2>1 DEF ConnOK, ConnType, NoConn
    <2>3. conn' = [conn EXCEPT ![k] = c] /\ UNCHANGED link
      BY <1>2 DEF Accept, NetUnchanged
    <2>4. QED
      BY <2>2, <2>3, OneConnKeeps
  <1>3. CASE ConnectTarget(k)
    <2> DEFINE c == [conn[k] EXCEPT !.stage = "open"]
    <2>1. ConnOK(c, IsActive(c.ends))
      BY <1>0, <1>3 DEF ConnectTarget, ConnOK, ConnType
    <2>2. conn' = [conn EXCEPT ![k] = c] \/ conn' = [conn EXCEPT ![k] = NoConn]
      BY <1>3 DEF ConnectTarget
    <2>3. UNCHANGED link
      BY <1>3 DEF ConnectTarget, NetUnchanged
    <2>4. QED
      BY <1>1, <2>1, <2>2, <2>3, OneConnKeeps
  <1>4. ASSUME NEW d \in Directions, PumpRead(k, d)
        PROVE  ConnInv'
    <2> DEFINE c == [conn[k] EXCEPT !.pump = [conn[k].pump EXCEPT ![d] = "read"]]
    <2>1. ConnOK(c, IsActive(c.ends))
      BY <1>0, <1>4 DEF PumpRead, ConnOK, ConnType
    <2>2. conn' = [conn EXCEPT ![k] = c] /\ UNCHANGED link
      BY <1>4 DEF PumpRead, NetUnchanged
    <2>3. QED
      BY <2>1, <2>2, OneConnKeeps
  <1>5. ASSUME NEW d \in Directions, PumpCheck(k, d)
        PROVE  ConnInv'
    <2> DEFINE c == [conn[k] EXCEPT !.pump = [conn[k].pump EXCEPT ![d] = "checked"]]
    <2>1. CASE ~IsActive(conn[k].ends)
      BY <1>1, <1>5, <2>1 DEF PumpCheck, NetUnchanged
    <2>2. CASE IsActive(conn[k].ends)
      <3>1. ConnOK(c, IsActive(c.ends))
        BY <1>0, <1>5, <2>2 DEF PumpCheck, ConnOK, ConnType
      <3>2. conn' = [conn EXCEPT ![k] = c] /\ UNCHANGED link
        BY <1>5, <2>2 DEF PumpCheck, NetUnchanged
      <3>3. QED
        BY <3>1, <3>2, OneConnKeeps
    <2>3. QED
      BY <2>1, <2>2
  <1>6. ASSUME NEW d \in Directions, PumpWrite(k, d)
        PROVE  ConnInv'
    <2> DEFINE n == IF IsActive(conn[k].ends) THEN conn[k].leaked[d] ELSE conn[k].leaked[d] + 1
               c == Written(conn[k], d)
    <2>1. conn[k].leaked[d] = 0
      BY <1>0, <1>6 DEF PumpWrite, ConnOK
    <2>2. n \in {0, 1} /\ (n = 1 => ~IsActive(conn[k].ends))
      BY <2>1
    <2> DEFINE pump == [conn[k].pump EXCEPT ![d] = "idle"]
               leaked == [conn[k].leaked EXCEPT ![d] = n]
    <2>3. /\ pump \in [Directions -> {"idle", "read", "checked"}] /\ leaked \in [Directions -> Nat]
          /\ pump[d] = "idle" /\ leaked[d] = n
          /\ \A e \in Directions : e # d => pump[e] = conn[k].pump[e] /\ leaked[e] = conn[k].leaked[e]
      BY <1>0, <2>2 DEF ConnOK, ConnType
    <2>4. /\ c \in ConnType /\ c.stage = conn[k].stage /\ c.ends = conn[k].ends
          /\ c.pump = pump /\ c.leaked = leaked
      <3> HIDE DEF pump, leaked
      <3>1. c = [conn[k] EXCEPT !.pump = pump, !.leaked = leaked]
        BY DEF pump, leaked, n, Written
      <3> HIDE DEF c
      <3>2. conn[k] \in ConnType
        BY <1>0 DEF ConnOK
      <3>3. QED
        BY <2>3, <3>1, <3>2 DEF ConnType
    <2>5. ConnOK(c, IsActive(c.ends))
      <3> HIDE DEF pump, leaked, c, n
      <3>1. conn[k].stage = "open"
        BY <1>6 DEF PumpWrite
      <3>2. QED
        BY <1>0, <2>2, <2>3, <2>4, <3>1 DEF ConnOK
    <2>6. conn' = [conn EXCEPT ![k] = c] /\ UNCHANGED link
      BY <1>6 DEF PumpWrite, NetUnchanged
    <2>7. QED
      BY <2>5, <2>6, OneConnKeeps
  <1>7. CASE CloseConn(k)
    BY <1>1, <1>7 DEF CloseConn, NetUnchanged
  <1>8. QED
    BY <1>2, <1>3, <1>4, <1>5, <1>6, <1>7

LEMMA NetStepKeepsConns ==
  ASSUME ConnInv, NetNext \/ UNCHANGED netVars
  PROVE  ConnInv'
  <1>1. CASE UNCHANGED netVars
    BY <1>1 DEF netVars, ConnInv, IsActive
  <1>2. QED
    BY <1>1, OrderStepKeepsConns, RestartKeepsConns, ConnStepKeeps DEF NetNext

LEMMA NetInitConns == NetInit => ConnInv
  BY NoConnOK DEF NetInit, ConnInv

LEMMA ConnsLeakOnePiece == ConnInv => CutLeaksOnePiece
  BY DEF ConnInv, ConnOK, CutLeaksOnePiece
-----------------------------------------------------------------------------
(* The network simulation: what an undisturbed request achieves            *)

LinkType == [connected : BOOLEAN, latency : Latencies \cup {NoLatency, 0}]

LinksOK(l) == /\ DOMAIN l = Envs
              /\ \A a \in Envs : l[a] \in [Envs \ {a} -> LinkType]

Cmds == {"partition", "heal", "latency"}

OrderFields == {"stage", "kind", "latency", "pairs", "todo", "seen", "clean"}

OrderOK(r) ==
    /\ DOMAIN r = OrderFields
    /\ r.kind \in Cmds \cup {"none", "status"}
    /\ r.kind = "none" => r.todo = <<>>
    /\ r.kind \in Cmds => /\ r.todo \in Seq(Envs \X Envs)
                          /\ r.latency \in Latencies \cup {NoLatency, 0}

\* A request for links that nothing disturbed so far.
Sound(r) == r.stage = "begun" /\ r.clean /\ r.kind \in Cmds

\* The link has what the request asked for.
Reached(r, l) ==
    /\ r.kind = "partition" => ~l.connected
    /\ r.kind = "heal" => l = Up
    /\ r.kind = "latency" => l.latency = r.latency

\* Each end of each link of the request was told, or its command is still ahead.
Progress(r, l) ==
    \A a \in Envs : \A b \in Envs \ {a} :
        Covers(r.pairs, a, b) => Reached(r, l[a][b]) \/ \E i \in DOMAIN r.todo : r.todo[i] = <<a, b>>

OrderInv ==
    /\ LinksOK(link)
    /\ DOMAIN order = Operators
    /\ \A o \in Operators : OrderOK(order[o])
    /\ netMode = "dev" => \A o \in Operators : order[o].todo = <<>>
    /\ \A o \in Operators : Sound(order[o]) =>
          /\ \A p \in Operators \ {o} : order[p].kind \in Cmds => order[p].todo = <<>>
          /\ Progress(order[o], link)

\* Every command leaves a well-formed link that has what was asked for.
LEMMA EffectReaches ==
  ASSUME NEW kind \in Cmds, NEW l \in LinkType, NEW ms \in Latencies \cup {NoLatency, 0}
  PROVE  /\ Effect(kind, l, ms) \in LinkType
         /\ DevEffect(kind, l, ms) \in LinkType
         /\ \A r : r.kind = kind /\ r.latency = ms =>
               Reached(r, Effect(kind, l, ms)) /\ Reached(r, DevEffect(kind, l, ms))
  <1>1. CASE kind = "partition"
    BY <1>1 DEF Effect, DevEffect, LinkType, Reached
  <1>2. CASE kind = "heal"
    BY <1>2 DEF Effect, DevEffect, LinkType, Reached, Up
  <1>3. CASE kind = "latency"
    BY <1>3 DEF Effect, DevEffect, LinkType, Reached
  <1>4. QED
    BY <1>1, <1>2, <1>3 DEF Cmds

\* A request for a sequence of links has a command for each end of each of them.
LEMMA CommandsCover ==
  ASSUME NEW s \in Seq(Envs \X Envs)
  PROVE  /\ Commands(s) \in Seq(Envs \X Envs)
         /\ \A a \in Envs, b \in Envs : Covers(PairsOf(s), a, b) =>
               \E i \in DOMAIN Commands(s) : Commands(s)[i] = <<a, b>>
  <1>1. DOMAIN Commands(s) = 1 .. 2 * Len(s) /\ Len(s) \in Nat /\ DOMAIN s = 1 .. Len(s)
    BY DEF Commands
  <1>2. ASSUME NEW i \in 1 .. 2 * Len(s)
        PROVE  Commands(s)[i] \in Envs \X Envs
    <2>1. (i + 1) \div 2 \in 1 .. Len(s)
      BY <1>1, <1>2
    <2>2. s[(i + 1) \div 2] \in Envs \X Envs
      BY <1>1, <2>1
    <2>3. QED
      BY <1>2, <2>2 DEF Commands
  <1>3. Commands(s) \in Seq(Envs \X Envs)
    BY <1>1, <1>2 DEF Commands
  <1>4. ASSUME NEW a \in Envs, NEW b \in Envs, Covers(PairsOf(s), a, b)
        PROVE  \E i \in DOMAIN Commands(s) : Commands(s)[i] = <<a, b>>
    <2>1. PICK j \in 1 .. Len(s) : s[j] = <<a, b>> \/ s[j] = <<b, a>>
      BY <1>1, <1>4 DEF Covers, PairsOf
    <2>2. /\ 2 * j - 1 \in 1 .. 2 * Len(s) /\ 2 * j \in 1 .. 2 * Len(s)
          /\ ((2 * j - 1) + 1) \div 2 = j /\ (2 * j + 1) \div 2 = j
          /\ (2 * j - 1) % 2 = 1 /\ (2 * j) % 2 # 1
      BY <1>1
    <2>3. CASE s[j] = <<a, b>>
      <3>1. Commands(s)[2 * j - 1] = <<a, b>>
        BY <2>2, <2>3 DEF Commands
      <3>2. QED
        BY <1>1, <2>2, <3>1
    <2>4. CASE s[j] = <<b, a>>
      <3>1. Commands(s)[2 * j] = <<a, b>>
        BY <2>2, <2>4 DEF Commands
      <3>2. QED
        BY <1>1, <2>2, <3>1
    <2>5. QED
      BY <2>1, <2>3, <2>4
  <1>5. QED
    BY <1>3, <1>4

LEMMA NoOrderOK == OrderOK(NoOrder) /\ ~Sound(NoOrder) /\ NoOrder.todo = <<>>
  BY DEF OrderOK, NoOrder, OrderFields, Cmds, Sound

\* A request that ended, or that only asks for the state, changes nothing another
\* request relies on.
LEMMA PassiveKeeps ==
  ASSUME OrderInv, NEW o \in Operators, NEW r, OrderOK(r), ~Sound(r),
         r.kind \in Cmds => r.todo = <<>>, netMode = "dev" => r.todo = <<>>,
         order' = [order EXCEPT ![o] = r], UNCHANGED <<netMode, link>>
  PROVE  OrderInv'
  BY DEF OrderInv

\* A new request disturbs those under way.
LEMMA DisturbedOrders ==
  ASSUME NEW p \in Operators, OrderOK(order[p])
  PROVE  /\ OrderOK(Disturbed(order)[p])
         /\ Disturbed(order)[p].todo = order[p].todo
         /\ Disturbed(order)[p].kind = order[p].kind
         /\ ~Sound(Disturbed(order)[p])
  BY DEF Disturbed, OrderOK, OrderFields, Sound

LEMMA NewOrderKeeps ==
  ASSUME OrderInv, NEW o \in Operators, NEW r, OrderOK(r), UNCHANGED netMode,
         order' = [Disturbed(order) EXCEPT ![o] = r],
         netMode = "dev" => r.todo = <<>>,
         Sound(r) => /\ \A p \in Operators : order[p].todo = <<>>
                     /\ Progress(r, link'),
         LinksOK(link')
  PROVE  OrderInv'
  <1>1. DOMAIN order' = Operators /\ order'[o] = r
    BY DEF Disturbed
  <1>2. ASSUME NEW p \in Operators \ {o}
        PROVE  /\ OrderOK(order'[p]) /\ ~Sound(order'[p])
               /\ order'[p].todo = order[p].todo
    <2>1. order'[p] = Disturbed(order)[p] /\ OrderOK(order[p])
      BY DEF Disturbed, OrderInv
    <2>2. QED
      BY <2>1, DisturbedOrders
  <1>3. QED
    BY <1>1, <1>2 DEF OrderInv

LEMMA DevOrderKeeps ==
  ASSUME OrderInv, NEW o \in Operators, NEW kind \in Cmds, NEW s \in Seq(Envs \X Envs),
         NEW ms \in Latencies \cup {NoLatency, 0}, DevOrder(o, kind, s, ms)
  PROVE  OrderInv'
  <1> DEFINE r == [NoOrder EXCEPT !.stage = "begun", !.kind = kind, !.latency = ms,
                                  !.pairs = PairsOf(s)]
             l == [a \in Envs |-> [b \in Envs \ {a} |->
                     IF Covers(PairsOf(s), a, b) THEN DevEffect(kind, link[a][b], ms) ELSE link[a][b]]]
  <1>1. /\ OrderOK(r) /\ r.todo = <<>> /\ r.kind = kind /\ r.latency = ms /\ r.pairs = PairsOf(s)
    BY DEF OrderOK, OrderFields, NoOrder, Cmds
  <1>2. order' = [Disturbed(order) EXCEPT ![o] = r] /\ link' = l /\ UNCHANGED netMode
    BY DEF DevOrder, SetLinks
  <1>3. ASSUME NEW a \in Envs, NEW b \in Envs \ {a}
        PROVE  /\ l[a][b] \in LinkType
               /\ Covers(PairsOf(s), a, b) => Reached(r, l[a][b])
    <2> HIDE DEF r
    <2>1. link[a][b] \in LinkType
      BY DEF OrderInv, LinksOK
    <2>2. /\ DevEffect(kind, link[a][b], ms) \in LinkType
          /\ Reached(r, DevEffect(kind, link[a][b], ms))
      BY <1>1, <2>1, EffectReaches
    <2>3. l[a][b] = IF Covers(PairsOf(s), a, b) THEN DevEffect(kind, link[a][b], ms) ELSE link[a][b]
      OBVIOUS
    <2>4. QED
      BY <2>1, <2>2, <2>3
  <1>4. LinksOK(l)
    BY <1>3 DEF LinksOK
  <1>5. Progress(r, l)
    <2> HIDE DEF r, l
    <2>1. QED
      BY <1>1, <1>3 DEF Progress
  <1>6. \A p \in Operators : order[p].todo = <<>>
    BY DEF DevOrder, OrderInv
  <1> HIDE DEF r, l
  <1>7. QED
    BY <1>1, <1>2, <1>4, <1>5, <1>6, NewOrderKeeps

LEMMA BeginOrderKeeps ==
  ASSUME OrderInv, NEW o \in Operators, NEW kind \in Cmds, NEW s \in Seq(Envs \X Envs),
         NEW ms \in Latencies \cup {NoLatency, 0}, BeginOrder(o, kind, s, ms)
  PROVE  OrderInv'
  <1> DEFINE r == [NoOrder EXCEPT !.stage = "begun", !.kind = kind, !.latency = ms,
                                  !.pairs = PairsOf(s), !.todo = Commands(s),
                                  !.clean = \A p \in Operators : order[p].todo = <<>>]
  <1>1. /\ DOMAIN r = OrderFields /\ r.kind = kind /\ r.latency = ms /\ r.pairs = PairsOf(s)
        /\ r.todo = Commands(s) /\ r.clean = \A p \in Operators : order[p].todo = <<>>
    BY DEF OrderFields, NoOrder
  <1>2. /\ order' = [Disturbed(order) EXCEPT ![o] = r] /\ netMode = "routers"
        /\ UNCHANGED <<netMode, link>>
    BY DEF BeginOrder
  <1> HIDE DEF r
  <1>3. OrderOK(r)
    BY <1>1, CommandsCover DEF OrderOK, Cmds
  <1>4. Progress(r, link)
    BY <1>1, CommandsCover DEF Progress
  <1>5. LinksOK(link) /\ LinksOK(link')
    BY <1>2 DEF OrderInv
  <1>6. QED
    BY <1>1, <1>2, <1>3, <1>4, <1>5, NewOrderKeeps DEF Sound

\* One command is handled at the router it is for.
LEMMA HandleReaches ==
  ASSUME OrderInv, NEW o \in Operators, order[o].kind \in Cmds, order[o].todo # <<>>, Handle(o)
  PROVE  /\ LinksOK(link')
         /\ Progress(order[o], link) =>
               \A r : /\ r.kind = order[o].kind /\ r.latency = order[o].latency
                      /\ r.pairs = order[o].pairs /\ r.todo = Tail(order[o].todo)
                      => Progress(r, link')
  <1> DEFINE to == Head(order[o].todo)
             new == Effect(order[o].kind, link[to[1]][to[2]], order[o].latency)
  <1>1. /\ order[o].todo \in Seq(Envs \X Envs) /\ order[o].latency \in Latencies \cup {NoLatency, 0}
        /\ LinksOK(link)
    BY DEF OrderInv, OrderOK
  <1>2. /\ to \in Envs \X Envs /\ to = order[o].todo[1]
        /\ Tail(order[o].todo) \in Seq(Envs \X Envs)
    BY <1>1
  <1>3. link' = [link EXCEPT ![to[1]] = [link[to[1]] EXCEPT ![to[2]] = new]]
    BY DEF Handle, SetLinks
  <1>4. ASSUME to[1] # to[2]
        PROVE  /\ new \in LinkType
               /\ \A r : r.kind = order[o].kind /\ r.latency = order[o].latency => Reached(r, new)
    <2>1. link[to[1]][to[2]] \in LinkType
      BY <1>1, <1>2, <1>4 DEF LinksOK
    <2>2. QED
      BY <1>1, <2>1, EffectReaches
  <1>5. \A a \in Envs : \A b \in Envs \ {a} :
           link'[a][b] = IF <<a, b>> = to THEN new ELSE link[a][b]
    <2> HIDE DEF to, new
    <2> SUFFICES ASSUME NEW a \in Envs, NEW b \in Envs \ {a}
                 PROVE  link'[a][b] = IF <<a, b>> = to THEN new ELSE link[a][b]
      OBVIOUS
    <2>1. <<a, b>> = to <=> a = to[1] /\ b = to[2]
      BY <1>2
    <2>2. DOMAIN link[a] = Envs \ {a} /\ DOMAIN link = Envs
      BY <1>1 DEF LinksOK
    <2>3. QED
      BY <1>2, <1>3, <2>1, <2>2
  <1>6. LinksOK(link')
    <2>1. \A a \in Envs : \A b \in Envs \ {a} : link'[a][b] \in LinkType
      <3> HIDE DEF to, new
      <3> SUFFICES ASSUME NEW a \in Envs, NEW b \in Envs \ {a}
                   PROVE  link'[a][b] \in LinkType
        OBVIOUS
      <3>1. link[a][b] \in LinkType
        BY <1>1 DEF LinksOK
      <3>2. <<a, b>> = to => to[1] # to[2]
        OBVIOUS
      <3>3. QED
        BY <1>4, <1>5, <3>1, <3>2
    <2>2. DOMAIN link' = Envs /\ \A a \in Envs : DOMAIN link'[a] = Envs \ {a}
      <3> HIDE DEF to, new
      <3>1. QED
        BY <1>1, <1>2, <1>3 DEF LinksOK
    <2>3. \A a \in Envs : link'[a] = [b \in Envs \ {a} |-> link'[a][b]]
      <3> HIDE DEF to, new
      <3>1. QED
        BY <1>1, <1>2, <1>3 DEF LinksOK
    <2>4. QED
      BY <2>1, <2>2, <2>3 DEF LinksOK
  <1> SUFFICES ASSUME Progress(order[o], link), NEW r, r.kind = order[o].kind,
                      r.latency = order[o].latency, r.pairs = order[o].pairs,
                      r.todo = Tail(order[o].todo)
               PROVE  Progress(r, link')
    BY <1>6
  <1>7. ASSUME NEW a \in Envs, NEW b \in Envs \ {a}, Covers(r.pairs, a, b)
        PROVE  Reached(r, link'[a][b]) \/ \E i \in DOMAIN r.todo : r.todo[i] = <<a, b>>
    <2> HIDE DEF to, new
    <2>1. CASE <<a, b>> = to
      <3>1. to[1] # to[2]
        BY <2>1
      <3>2. QED
        BY <1>4, <1>5, <1>7, <2>1, <3>1
    <2>2. CASE <<a, b>> # to /\ Reached(order[o], link[a][b])
      BY <1>5, <1>7, <2>2 DEF Reached
    <2>3. CASE <<a, b>> # to /\ \E i \in DOMAIN order[o].todo : order[o].todo[i] = <<a, b>>
      <3>1. PICK i \in DOMAIN order[o].todo : order[o].todo[i] = <<a, b>>
        BY <2>3
      <3>2. i # 1 /\ i \in 1 .. Len(order[o].todo) /\ Len(order[o].todo) \in Nat
        BY <1>1, <1>2, <2>3, <3>1
      <3>3. i - 1 \in DOMAIN r.todo /\ r.todo[i - 1] = order[o].todo[i]
        BY <1>1, <1>7, <3>2
      <3>4. QED
        BY <3>1, <3>3
    <2>4. QED
      BY <1>7, <2>1, <2>2, <2>3 DEF Progress
  <1>8. QED
    BY <1>7 DEF Progress

\* The request's next command left its list.
LEMMA SentKeeps ==
  ASSUME OrderInv, NEW o \in Operators, order[o].todo # <<>>, NEW r,
         order' = [order EXCEPT ![o] = r], UNCHANGED netMode,
         DOMAIN r = OrderFields, r.kind = order[o].kind, r.latency = order[o].latency,
         r.todo = Tail(order[o].todo),
         \/ order[o].kind \in Cmds /\ LinksOK(link')
         \/ UNCHANGED link /\ ~Sound(r),
         Sound(r) => Sound(order[o]) /\ Progress(r, link')
  PROVE  OrderInv'
  <1>1. OrderOK(r) /\ order[o].kind # "none" /\ netMode # "dev"
    BY DEF OrderInv, OrderOK
  <1>2. LinksOK(link')
    BY DEF OrderInv
  <1>3. ASSUME NEW p \in Operators \ {o}, Sound(order[p])
        PROVE  order[o].kind \notin Cmds
    BY <1>3 DEF OrderInv
  <1>4. DOMAIN order' = Operators /\ order'[o] = r /\ \A p \in Operators \ {o} : order'[p] = order[p]
    BY DEF OrderInv
  <1>5. ASSUME NEW p \in Operators, Sound(order'[p])
        PROVE  /\ \A q \in Operators \ {p} : order'[q].kind \in Cmds => order'[q].todo = <<>>
               /\ Progress(order'[p], link')
    <2>1. CASE p = o
      <3>1. Sound(order[o]) /\ Progress(r, link')
        BY <1>4, <1>5, <2>1
      <3>2. QED
        BY <1>4, <2>1, <3>1 DEF OrderInv
    <2>2. CASE p # o
      <3>1. Sound(order[p]) /\ order[o].kind \notin Cmds /\ link' = link
        BY <1>3, <1>4, <1>5, <2>2
      <3>2. QED
        BY <1>4, <2>2, <3>1 DEF OrderInv
    <2>3. QED
      BY <2>1, <2>2
  <1>6. QED
    BY <1>1, <1>2, <1>4, <1>5 DEF OrderInv

LEMMA SendCmdKeeps ==
  ASSUME OrderInv, NEW o \in Operators, SendCmd(o)
  PROVE  OrderInv'
  <1> DEFINE r == [order[o] EXCEPT !.todo = Tail(order[o].todo)]
  <1>1. DOMAIN order = Operators /\ OrderOK(order[o])
    BY DEF OrderInv
  <1>2. /\ DOMAIN r = OrderFields /\ r.kind = order[o].kind /\ r.latency = order[o].latency
        /\ r.pairs = order[o].pairs /\ r.todo = Tail(order[o].todo)
        /\ r.stage = order[o].stage /\ r.clean = order[o].clean
    BY <1>1 DEF OrderOK, OrderFields
  <1>3. order' = [order EXCEPT ![o] = r] /\ UNCHANGED netMode /\ order[o].todo # <<>> /\ Handle(o)
    BY DEF SendCmd, Sent
  <1>4. order[o].kind \in Cmds
    BY <1>1, <1>3 DEF SendCmd, OrderOK
  <1> HIDE DEF r
  <1>5. LinksOK(link') /\ (Sound(r) => Sound(order[o]) /\ Progress(r, link'))
    <2>1. Sound(r) => Sound(order[o]) /\ Progress(order[o], link)
      BY <1>2 DEF Sound, OrderInv
    <2>2. QED
      BY <1>2, <1>3, <1>4, <2>1, HandleReaches
  <1>6. QED
    BY <1>2, <1>3, <1>4, <1>5, SentKeeps

LEMMA SendCmdFailsKeeps ==
  ASSUME OrderInv, NEW o \in Operators, SendCmdFails(o)
  PROVE  OrderInv'
  <1> DEFINE r == [order[o] EXCEPT !.todo = Tail(order[o].todo), !.clean = FALSE]
  <1>1. DOMAIN order = Operators /\ OrderOK(order[o])
    BY DEF OrderInv
  <1>2. /\ DOMAIN r = OrderFields /\ r.kind = order[o].kind /\ r.latency = order[o].latency
        /\ r.todo = Tail(order[o].todo) /\ ~r.clean
    BY <1>1 DEF OrderOK, OrderFields
  <1>3. order' = [order EXCEPT ![o] = r] /\ UNCHANGED netMode /\ order[o].todo # <<>>
    BY <1>1 DEF SendCmdFails, Sent
  <1> HIDE DEF r
  <1>4. CASE order[o].kind # "status" /\ Handle(o)
    <2>1. order[o].kind \in Cmds
      BY <1>1, <1>3, <1>4 DEF OrderOK
    <2>2. LinksOK(link')
      BY <1>3, <1>4, <2>1, HandleReaches
    <2>3. QED
      BY <1>2, <1>3, <2>1, <2>2, SentKeeps DEF Sound
  <1>5. CASE UNCHANGED link
    BY <1>2, <1>3, <1>5, SentKeeps DEF Sound
  <1>6. QED
    BY <1>4, <1>5 DEF SendCmdFails

LEMMA SendStatusKeeps ==
  ASSUME OrderInv, NEW o \in Operators, SendStatus(o)
  PROVE  OrderInv'
  <1> DEFINE r == [order[o] EXCEPT !.todo = Tail(order[o].todo),
                                   !.seen = SeenBy(order[o].seen, Head(order[o].todo)[1])]
  <1>1. DOMAIN order = Operators /\ OrderOK(order[o])
    BY DEF OrderInv
  <1>2. DOMAIN r = OrderFields /\ r.kind = order[o].kind /\ r.latency = order[o].latency
        /\ r.todo = Tail(order[o].todo)
    BY <1>1 DEF OrderOK, OrderFields
  <1>3. order' = [order EXCEPT ![o] = r] /\ UNCHANGED <<netMode, link>>
        /\ order[o].kind = "status" /\ order[o].todo # <<>>
    BY <1>1 DEF SendStatus, Sent
  <1> HIDE DEF r
  <1>4. ~Sound(r)
    BY <1>2, <1>3 DEF Sound, Cmds
  <1>5. QED
    BY <1>2, <1>3, <1>4, SentKeeps

LEMMA StatusKeeps ==
  ASSUME OrderInv, NEW o \in Operators, DevList(o) \/ BeginStatus(o) \/ Answered(o)
  PROVE  OrderInv'
  <1>1. ASSUME NEW r, DOMAIN r = OrderFields, r.kind = "status", netMode = "dev" => r.todo = <<>>,
               order' = [order EXCEPT ![o] = r], UNCHANGED <<netMode, link>>
        PROVE  OrderInv'
    <2>1. OrderOK(r) /\ ~Sound(r) /\ r.kind \notin Cmds
      BY <1>1 DEF OrderOK, Sound, Cmds
    <2>2. QED
      BY <1>1, <2>1, PassiveKeeps
  <1>2. CASE DevList(o)
    <2> DEFINE r == [NoOrder EXCEPT !.stage = "begun", !.kind = "status",
                       !.seen = [i \in DOMAIN AllScope |->
                          [a |-> AllScope[i][1], b |-> AllScope[i][2],
                           state |-> link[AllScope[i][1]][AllScope[i][2]]]]]
    <2>1. DOMAIN r = OrderFields /\ r.kind = "status" /\ r.todo = <<>>
      BY DEF NoOrder, OrderFields
    <2>2. order' = [order EXCEPT ![o] = r] /\ UNCHANGED <<netMode, link>>
      BY <1>2 DEF DevList
    <2> HIDE DEF r
    <2>3. QED
      BY <1>1, <2>1, <2>2
  <1>3. CASE BeginStatus(o)
    <2> DEFINE r == [NoOrder EXCEPT !.stage = "begun", !.kind = "status",
                       !.todo = [i \in DOMAIN Clusters |-> <<Clusters[i]>>],
                       !.clean = \A p \in Operators : order[p].todo = <<>>]
    <2>1. DOMAIN r = OrderFields /\ r.kind = "status"
      BY DEF NoOrder, OrderFields
    <2>2. order' = [order EXCEPT ![o] = r] /\ netMode = "routers" /\ UNCHANGED <<netMode, link>>
      BY <1>3 DEF BeginStatus
    <2> HIDE DEF r
    <2>3. QED
      BY <1>1, <2>1, <2>2
  <1>4. CASE Answered(o)
    BY <1>4, NoOrderOK, PassiveKeeps DEF Answered
  <1>5. QED
    BY <1>2, <1>3, <1>4

LEMMA RestartKeepsOrders ==
  ASSUME OrderInv, NEW a \in Envs, RouterRestart(a)
  PROVE  OrderInv'
  <1>1. order' = Disturbed(order) /\ UNCHANGED netMode /\ DOMAIN order' = Operators
    BY DEF RouterRestart, Disturbed
  <1>2. LinksOK(link')
    <2>1. \A b \in Envs \ {a} : Up \in LinkType
      BY DEF Up, LinkType
    <2>2. QED
      BY <2>1 DEF RouterRestart, OrderInv, LinksOK
  <1>3. \A p \in Operators : /\ OrderOK(order'[p]) /\ ~Sound(order'[p])
                             /\ order'[p].todo = order[p].todo
    BY <1>1, DisturbedOrders DEF OrderInv
  <1>4. QED
    BY <1>1, <1>2, <1>3 DEF OrderInv

LEMMA ScopesAreLinks == \A s \in {Scope(x) : x \in Scopes} : s \in Seq(Envs \X Envs)
  BY NetAssumption

LEMMA NetStepKeepsOrders ==
  ASSUME OrderInv, NetNext \/ UNCHANGED netVars
  PROVE  OrderInv'
  <1>1. CASE UNCHANGED <<netMode, link, order>>
    BY <1>1 DEF OrderInv
  <1>2. ASSUME NEW o \in Operators, NEW s \in {Scope(x) : x \in Scopes},
               \/ \E k \in {"partition", "heal"} : DevOrder(o, k, s, NoLatency) \/ BeginOrder(o, k, s, NoLatency)
               \/ \E ms \in Latencies : \/ DevOrder(o, "latency", s, ms) \/ DevOrder(o, "partition", s, ms)
                                        \/ BeginOrder(o, "latency", s, ms)
        PROVE  OrderInv'
    <2>1. s \in Seq(Envs \X Envs)
      BY ScopesAreLinks
    <2>2. {"partition", "heal", "latency"} \subseteq Cmds
      BY DEF Cmds
    <2>3. QED
      BY <1>2, <2>1, <2>2, DevOrderKeeps, BeginOrderKeeps
  <1>3. ASSUME NEW o \in Operators,
               \/ DevList(o) \/ BeginStatus(o)
               \/ SendCmd(o) \/ SendCmdFails(o) \/ SendStatus(o) \/ Answered(o)
        PROVE  OrderInv'
    BY <1>3, StatusKeeps, SendCmdKeeps, SendCmdFailsKeeps, SendStatusKeeps
  <1>4. ASSUME NEW k \in Conns,
               \/ \E p \in Proxies : Accept(k, p[1], p[2])
               \/ ConnectTarget(k) \/ CloseConn(k)
               \/ \E d \in Directions : PumpRead(k, d) \/ PumpCheck(k, d) \/ PumpWrite(k, d)
        PROVE  OrderInv'
    BY <1>1, <1>4 DEF Accept, ConnectTarget, CloseConn, PumpRead, PumpCheck, PumpWrite, NetUnchanged
  <1>5. CASE UNCHANGED netVars
    BY <1>1, <1>5 DEF netVars
  <1>6. QED
    BY <1>2, <1>3, <1>4, <1>5, RestartKeepsOrders DEF NetNext

LEMMA NetInitOrders == NetInit => OrderInv
  <1>1. Up \in LinkType
    BY DEF Up, LinkType
  <1>2. QED
    BY <1>1, NoOrderOK DEF NetInit, OrderInv, LinksOK

LEMMA OrdersReach == OrderInv => OrdersComplete
  <1> SUFFICES ASSUME OrderInv, NEW o \in Operators, Done(o), order[o].clean, order[o].kind # "status",
                      NEW a \in Envs, NEW b \in Envs \ {a}, Covers(order[o].pairs, a, b)
               PROVE  Reached(order[o], link[a][b])
    BY DEF OrdersComplete, Reached
  <1>1. CASE order[o].kind \in Cmds
    BY <1>1 DEF OrderInv, Done, Sound, Progress
  <1>2. CASE order[o].kind = "none"
    BY <1>2 DEF Reached
  <1>3. QED
    BY <1>1, <1>2 DEF OrderInv, OrderOK

\* However requests, restarts, failures and connections interleave, for any number of
\* environments: a cut link carries one more piece per direction at most, and a request
\* nothing disturbed reached both ends of every link it names.
THEOREM LinksStayGoverned == NetSpec => []LinksGoverned
  <1>1. NetInit => ConnInv /\ OrderInv
    BY NetInitConns, NetInitOrders
  <1>2. ConnInv /\ OrderInv /\ [NetNext]_netVars => ConnInv' /\ OrderInv'
    BY NetStepKeepsConns, NetStepKeepsOrders
  <1>3. ConnInv /\ OrderInv => LinksGoverned
    BY ConnsLeakOnePiece, OrdersReach DEF LinksGoverned
  <1>4. QED
    BY <1>1, <1>2, <1>3, PTL DEF NetSpec
-----------------------------------------------------------------------------
(* The script service                                                      *)

JobFields == {"pc", "req", "tries", "file", "found", "res"}
Early == {"idle", "compile", "store", "open"}
Late == {"stored", "source", "look", "package", "deploy"}

\* A file is named after a request that created it for its own module.
MadeFor(f, a) == f \in ScriptJobs /\ scriptJob[f].pc \notin Early /\ Module(f) = a

\* What the requests hold: a request that went past the compiler has a module, and
\* one past the store has stored it.
JobInv ==
    /\ DOMAIN scriptJob = ScriptJobs
    /\ \A j \in ScriptJobs :
          /\ DOMAIN scriptJob[j] = JobFields
          /\ scriptJob[j].pc \in Early \cup Late \cup {"write", "rename", "done"}
          /\ scriptJob[j].pc # "idle" => scriptJob[j].req \in ScriptRequests
          /\ scriptJob[j].pc \notin {"idle", "compile", "done"} => Module(j) \in Modules
          /\ scriptJob[j].pc \in Late => wasmFile[Module(j)] # NoFile

\* What is on disk for a module: nobody else's files, and, while one request writes
\* at a time, a temporary file that only its writer has and a final one that is whole.
FileInv ==
    /\ DOMAIN tmpFile = Modules /\ DOMAIN wasmFile = Modules
    /\ \A a \in Modules :
          /\ tmpFile[a] # NoFile => MadeFor(tmpFile[a], a)
          /\ wasmFile[a] # NoFile => MadeFor(wasmFile[a], a)
          /\ tmpFile[a] # NoFile => tmpFile[a] # wasmFile[a]
          /\ a \notin overlapped =>
                /\ \A j, k \in Writing(a) : j = k
                /\ \A j \in Writing(a) :
                      /\ tmpFile[a] # NoFile /\ tmpFile[a] = scriptJob[j].file
                      /\ scriptJob[j].pc = "rename" => scriptJob[j].file \in wholeFiles
                /\ wasmFile[a] # NoFile => wasmFile[a] \in wholeFiles

\* What the services tell: packages and sources whose module is stored, metadata of
\* the class that built the module.
TellInv ==
    /\ \A p \in Packages : packages[p] # NoFile =>
          packages[p].module \in Modules /\ wasmFile[packages[p].module] # NoFile
    /\ \A k \in DOMAIN sources : sources[k] # NoFile /\ Hash[sources[k]] \in Modules =>
          wasmFile[Hash[sources[k]]] # NoFile
    /\ \A a \in Modules : metas[a] # NoFile =>
          \E r \in ScriptRequests : <<r.pkg, r.class>> = metas[a] /\ Hash[r.source] = a
    /\ DOMAIN packages = Packages /\ DOMAIN metas = Modules

ScriptInv == JobInv /\ FileInv /\ TellInv

\* Request j goes on to pc; its request stays, and the others stay as they are.
GoesTo(j, pc) ==
    /\ DOMAIN scriptJob' = ScriptJobs
    /\ \A k \in ScriptJobs \ {j} : scriptJob'[k] = scriptJob[k]
    /\ DOMAIN scriptJob'[j] = JobFields
    /\ scriptJob'[j].pc = pc
    /\ scriptJob'[j].req = scriptJob[j].req

LEMMA MovesAreGoing ==
  ASSUME JobInv, NEW j \in ScriptJobs, NEW pc, NEW res, NEW v
  PROVE  /\ MoveTo(j, pc) => GoesTo(j, pc) /\ scriptJob'[j].file = scriptJob[j].file
         /\ Ends(j, res) => GoesTo(j, "done")
         /\ scriptJob' = [scriptJob EXCEPT ![j].pc = "write", ![j].file = v]
              => GoesTo(j, "write") /\ scriptJob'[j].file = v
         /\ scriptJob' = [scriptJob EXCEPT ![j].pc = "package", ![j].found = v] => GoesTo(j, "package")
         /\ scriptJob' = [scriptJob EXCEPT ![j].tries = @ + 1] => GoesTo(j, scriptJob[j].pc)
  BY DEF JobInv, JobFields, MoveTo, Ends, GoesTo

\* A request that moves on keeps the facts about the requests.
LEMMA GoingKeepsJobs ==
  ASSUME JobInv, NEW j \in ScriptJobs, NEW pc, GoesTo(j, pc), scriptJob[j].pc # "idle",
         pc \in Early \cup Late \cup {"write", "rename", "done"}, pc # "idle",
         pc \notin {"idle", "compile", "done"} => Module(j) \in Modules,
         \A a \in Modules : wasmFile[a] # NoFile => wasmFile'[a] # NoFile,
         pc \in Late => wasmFile'[Module(j)] # NoFile
  PROVE  JobInv'
  <1>1. \A k \in ScriptJobs : Module(k)' = Module(k)
    BY DEF GoesTo, Module, AskedFor
  <1>2. ASSUME NEW k \in ScriptJobs
        PROVE  /\ DOMAIN scriptJob'[k] = JobFields
               /\ scriptJob'[k].pc \in Early \cup Late \cup {"write", "rename", "done"}
               /\ scriptJob'[k].pc # "idle" => scriptJob'[k].req \in ScriptRequests
               /\ scriptJob'[k].pc \notin {"idle", "compile", "done"} => Module(k) \in Modules
               /\ scriptJob'[k].pc \in Late => wasmFile'[Module(k)] # NoFile
    <2>1. CASE k = j
      BY <2>1 DEF JobInv, GoesTo
    <2>2. CASE k # j
      BY <2>2 DEF JobInv, GoesTo, Late
    <2>3. QED
      BY <2>1, <2>2
  <1>3. QED
    BY <1>1, <1>2 DEF JobInv, GoesTo

\* A request that leaves the files alone and does not start to write keeps the facts
\* about them.
LEMMA GoingKeepsFiles ==
  ASSUME JobInv, FileInv, NEW j \in ScriptJobs, NEW pc, GoesTo(j, pc), UNCHANGED files,
         pc \notin {"write", "rename"}, pc \in Early => scriptJob[j].pc \in Early
  PROVE  FileInv'
  <1>1. \A k \in ScriptJobs : Module(k)' = Module(k)
    BY DEF GoesTo, Module, AskedFor
  <1>2. \A f, a : MadeFor(f, a) => MadeFor(f, a)'
    BY <1>1 DEF MadeFor, GoesTo
  <1>3. \A a : \A k \in Writing(a)' : k \in Writing(a) /\ scriptJob'[k] = scriptJob[k]
    BY <1>1 DEF Writing, GoesTo
  <1>4. QED
    BY <1>2, <1>3 DEF FileInv, files

LEMMA OpenTmpKeepsFiles ==
  ASSUME JobInv, FileInv, NEW j \in ScriptJobs, OpenTmp(j)
  PROVE  FileInv'
  <1>a. PICK a : a = Module(j)
    OBVIOUS
  <1>f. PICK file : file = IF tmpFile[a] = NoFile THEN j ELSE tmpFile[a]
    OBVIOUS
  <1>1. GoesTo(j, "write") /\ scriptJob'[j].file = file /\ scriptJob[j].pc = "open"
    <2>1. scriptJob' = [scriptJob EXCEPT ![j].pc = "write", ![j].file = file]
      BY <1>a, <1>f DEF OpenTmp
    <2>2. QED
      BY <2>1, MovesAreGoing DEF OpenTmp, At
  <1>2. /\ tmpFile' = [tmpFile EXCEPT ![a] = file]
        /\ wholeFiles' = wholeFiles \ {file}
        /\ overlapped' = IF Writing(a) = {} THEN overlapped ELSE overlapped \cup {a}
        /\ UNCHANGED wasmFile
    BY <1>a, <1>f DEF OpenTmp
  <1>3. a \in Modules
    BY <1>1, <1>a DEF JobInv, Early
  <1>4. \A k \in ScriptJobs : Module(k)' = Module(k)
    BY <1>1 DEF GoesTo, Module, AskedFor
  <1>5. \A f, b : MadeFor(f, b) => MadeFor(f, b)' /\ f # j
    BY <1>1, <1>4 DEF MadeFor, GoesTo, Early
  <1>6. MadeFor(file, a)' /\ file # NoFile
    <2>1. MadeFor(j, a)'
      BY <1>1, <1>4, <1>a DEF MadeFor, GoesTo, Early
    <2>2. tmpFile[a] # NoFile => MadeFor(file, a)
      BY <1>3, <1>f DEF FileInv
    <2>3. QED
      BY <1>5, <1>f, <2>1, <2>2, ScriptAssumption
  <1>7. /\ \A b \in Modules : b # a => Writing(b)' = Writing(b)
        /\ \A k \in Writing(a)' : k = j \/ k \in Writing(a)
    BY <1>1, <1>4, <1>a DEF Writing, GoesTo
  <1>8. file # wasmFile[a]
    BY <1>3, <1>5, <1>f, ScriptAssumption DEF FileInv
  <1>9. \A b \in Modules : b # a => file # wasmFile[b] /\ file # tmpFile[b]
    <2>1. \A b \in Modules : MadeFor(file, b)' => b = a
      BY <1>6 DEF MadeFor
    <2>2. QED
      BY <1>5, <1>6, <2>1 DEF FileInv
  <1>10. ASSUME NEW b \in Modules
         PROVE  /\ tmpFile'[b] # NoFile => MadeFor(tmpFile[b], b)'
                /\ wasmFile'[b] # NoFile => MadeFor(wasmFile[b], b)'
                /\ tmpFile'[b] # NoFile => tmpFile'[b] # wasmFile'[b]
    BY <1>2, <1>3, <1>5, <1>6, <1>8 DEF FileInv
  <1>11. ASSUME NEW b \in Modules, b \notin overlapped'
         PROVE  /\ \A i, k \in Writing(b)' : i = k
                /\ \A k \in Writing(b)' :
                      /\ tmpFile'[b] # NoFile /\ tmpFile'[b] = scriptJob'[k].file
                      /\ scriptJob'[k].pc = "rename" => scriptJob'[k].file \in wholeFiles'
                /\ wasmFile'[b] # NoFile => wasmFile'[b] \in wholeFiles'
    <2>1. b \notin overlapped
      BY <1>2, <1>11
    <2>2. CASE b = a
      <3>1. Writing(a) = {} /\ \A k \in Writing(a)' : k = j
        BY <1>2, <1>7, <1>11, <2>2
      <3>2. tmpFile'[a] = file
        BY <1>2, <1>3 DEF FileInv
      <3>3. QED
        BY <1>1, <1>2, <1>6, <1>8, <2>1, <2>2, <3>1, <3>2 DEF FileInv, GoesTo
    <2>3. CASE b # a
      <3>1. tmpFile'[b] = tmpFile[b] /\ file # wasmFile[b] /\ file # tmpFile[b]
        BY <1>2, <1>9, <2>3 DEF FileInv
      <3>2. \A k \in Writing(b) : k # j /\ scriptJob'[k] = scriptJob[k]
        BY <1>1 DEF Writing, GoesTo
      <3>3. QED
        BY <1>2, <1>7, <2>1, <2>3, <3>1, <3>2 DEF FileInv
    <2>4. QED
      BY <2>2, <2>3
  <1>12. DOMAIN tmpFile' = Modules /\ DOMAIN wasmFile' = Modules
    BY <1>2 DEF FileInv
  <1>13. QED
    BY <1>10, <1>11, <1>12 DEF FileInv

LEMMA WriteTmpKeepsFiles ==
  ASSUME JobInv, FileInv, NEW j \in ScriptJobs, WriteTmp(j)
  PROVE  FileInv'
  <1>1. /\ UNCHANGED <<tmpFile, wasmFile, overlapped>> /\ scriptJob[j].pc = "write"
    BY DEF WriteTmp, At
  <1>2. \/ /\ wholeFiles' = wholeFiles \cup {scriptJob[j].file}
           /\ GoesTo(j, "rename") /\ scriptJob'[j].file = scriptJob[j].file
        \/ GoesTo(j, "done") /\ UNCHANGED wholeFiles
    BY MovesAreGoing DEF WriteTmp
  <1>3. CASE GoesTo(j, "done") /\ UNCHANGED wholeFiles
    BY <1>1, <1>3, GoingKeepsFiles DEF Early, files
  <1>4. CASE /\ wholeFiles' = wholeFiles \cup {scriptJob[j].file}
             /\ GoesTo(j, "rename") /\ scriptJob'[j].file = scriptJob[j].file
    <2>1. \A k \in ScriptJobs : Module(k)' = Module(k)
      BY <1>4 DEF GoesTo, Module, AskedFor
    <2>2. \A f, a : MadeFor(f, a) => MadeFor(f, a)'
      BY <1>4, <2>1 DEF MadeFor, GoesTo, Early
    <2>3. \A a : Writing(a)' = Writing(a)
      BY <1>1, <1>4, <2>1 DEF Writing, GoesTo
    <2>4. \A k \in ScriptJobs : /\ scriptJob'[k].file = scriptJob[k].file
                                /\ scriptJob'[k].pc = "rename" => k = j \/ scriptJob[k].pc = "rename"
      BY <1>4 DEF GoesTo
    <2>5. \A a : \A k \in Writing(a) : k \in ScriptJobs
      BY DEF Writing
    <2>6. QED
      BY <1>1, <1>4, <2>2, <2>3, <2>4, <2>5 DEF FileInv
  <1>5. QED
    BY <1>2, <1>3, <1>4

LEMMA RenameTmpKeepsFiles ==
  ASSUME JobInv, FileInv, NEW j \in ScriptJobs, RenameTmp(j)
  PROVE  /\ FileInv'
         /\ \A a \in Modules : wasmFile[a] # NoFile => wasmFile'[a] # NoFile
         /\ \/ GoesTo(j, "done")
            \/ GoesTo(j, "stored") /\ wasmFile'[Module(j)] # NoFile
  <1>a. PICK a : a = Module(j)
    OBVIOUS
  <1>1. scriptJob[j].pc = "rename" /\ UNCHANGED <<wholeFiles, overlapped>> /\ a \in Modules
    BY <1>a DEF RenameTmp, At, JobInv
  <1>2. CASE tmpFile[a] = NoFile
    <2>1. GoesTo(j, "done") /\ UNCHANGED files
      BY <1>1, <1>2, <1>a, MovesAreGoing DEF RenameTmp, files
    <2>2. QED
      BY <2>1, GoingKeepsFiles DEF Early, files
  <1>3. CASE tmpFile[a] # NoFile
    <2>1. /\ wasmFile' = [wasmFile EXCEPT ![a] = tmpFile[a]]
          /\ tmpFile' = [tmpFile EXCEPT ![a] = NoFile]
          /\ GoesTo(j, "stored")
      BY <1>3, <1>a, MovesAreGoing DEF RenameTmp
    <2>2. /\ DOMAIN tmpFile' = Modules /\ DOMAIN wasmFile' = Modules
          /\ wasmFile'[a] = tmpFile[a] /\ tmpFile'[a] = NoFile
          /\ \A b \in Modules \ {a} : wasmFile'[b] = wasmFile[b] /\ tmpFile'[b] = tmpFile[b]
      BY <1>1, <2>1 DEF FileInv
    <2>3. \A k \in ScriptJobs : Module(k)' = Module(k)
      BY <2>1 DEF GoesTo, Module, AskedFor
    <2>4. \A f, b : MadeFor(f, b) => MadeFor(f, b)'
      BY <2>1, <2>3 DEF MadeFor, GoesTo, Early
    <2>5. \A b : \A k \in Writing(b)' : k \in Writing(b) /\ k # j /\ scriptJob'[k] = scriptJob[k]
      BY <2>1, <2>3 DEF Writing, GoesTo
    <2>6. j \in Writing(a)
      BY <1>1, <1>a DEF Writing
    <2>7. ASSUME NEW b \in Modules
          PROVE  /\ tmpFile'[b] # NoFile => MadeFor(tmpFile[b], b)'
                 /\ wasmFile'[b] # NoFile => MadeFor(wasmFile[b], b)'
                 /\ tmpFile'[b] # NoFile => tmpFile'[b] # wasmFile'[b]
      <3>1. PICK t, w : t = tmpFile'[b] /\ w = wasmFile'[b]
        OBVIOUS
      <3>2. (t # NoFile => MadeFor(t, b)) /\ (w # NoFile => MadeFor(w, b)) /\ (t # NoFile => t # w)
        BY <1>3, <2>2, <3>1 DEF FileInv
      <3>3. QED
        BY <2>4, <3>1, <3>2
    <2>8. ASSUME NEW b \in Modules, b \notin overlapped'
          PROVE  /\ \A i, k \in Writing(b)' : i = k
                 /\ \A k \in Writing(b)' :
                       /\ tmpFile'[b] # NoFile /\ tmpFile'[b] = scriptJob'[k].file
                       /\ scriptJob'[k].pc = "rename" => scriptJob'[k].file \in wholeFiles'
                 /\ wasmFile'[b] # NoFile => wasmFile'[b] \in wholeFiles'
      <3>1. CASE b = a
        <4>1. Writing(a)' = {}
          BY <1>1, <2>5, <2>6, <2>8, <3>1 DEF FileInv
        <4>2. tmpFile[a] \in wholeFiles
          BY <1>1, <2>6, <2>8, <3>1 DEF FileInv
        <4>3. QED
          BY <1>1, <2>2, <3>1, <4>1, <4>2
      <3>2. CASE b # a
        BY <1>1, <2>2, <2>5, <2>8, <3>2 DEF FileInv
      <3>3. QED
        BY <3>1, <3>2
    <2>9. FileInv'
      BY <2>2, <2>7, <2>8 DEF FileInv
    <2>10. QED
      BY <1>1, <1>3, <1>a, <2>1, <2>2, <2>9
  <1>4. QED
    BY <1>2, <1>3

\* A crash ends every request where it is, and no file with it.
LEMMA CrashKeeps ==
  ASSUME ScriptInv, Crash
  PROVE  ScriptInv'
  <1>1. UNCHANGED <<tmpFile, wasmFile, wholeFiles, overlapped, metas, sources, packages>>
    BY DEF Crash, files
  <1>2. /\ DOMAIN scriptJob' = ScriptJobs
        /\ \A k \in ScriptJobs :
              /\ DOMAIN scriptJob'[k] = JobFields
              /\ scriptJob'[k].req = scriptJob[k].req
              /\ scriptJob'[k].pc = IF scriptJob[k].pc = "idle" THEN "idle" ELSE "done"
    BY DEF Crash, ScriptInv, JobInv, JobFields
  <1>3. \A k \in ScriptJobs : Module(k)' = Module(k)
    BY <1>2 DEF Module, AskedFor
  <1>4. JobInv'
    BY <1>2 DEF ScriptInv, JobInv, Early, Late
  <1>5. \A f, a : MadeFor(f, a) => MadeFor(f, a)'
    BY <1>2, <1>3 DEF MadeFor, Early
  <1>6. \A a : Writing(a)' = {}
    BY <1>2 DEF Writing
  <1>7. FileInv'
    BY <1>1, <1>5, <1>6 DEF ScriptInv, FileInv
  <1>8. TellInv'
    BY <1>1 DEF ScriptInv, TellInv
  <1>9. QED
    BY <1>4, <1>7, <1>8 DEF ScriptInv

LEMMA BeginKeeps ==
  ASSUME ScriptInv, NEW j \in ScriptJobs, NEW req \in ScriptRequests, ScriptBegin(j, req)
  PROVE  ScriptInv'
  <1>1. UNCHANGED <<tmpFile, wasmFile, wholeFiles, overlapped, metas, sources, packages>>
    BY DEF ScriptBegin, files
  <1>2. /\ DOMAIN scriptJob' = ScriptJobs /\ DOMAIN scriptJob'[j] = JobFields
        /\ scriptJob'[j].pc = "compile" /\ scriptJob'[j].req = req /\ scriptJob[j].pc = "idle"
        /\ \A k \in ScriptJobs \ {j} : scriptJob'[k] = scriptJob[k]
    BY DEF ScriptBegin, At, ScriptInv, JobInv, JobFields
  <1>3. \A k \in ScriptJobs \ {j} : Module(k)' = Module(k)
    BY <1>2 DEF Module, AskedFor
  <1>4. JobInv'
    BY <1>1, <1>2, <1>3 DEF ScriptInv, JobInv, Early, Late
  <1>5. \A f, a : MadeFor(f, a) => MadeFor(f, a)'
    BY <1>2, <1>3 DEF MadeFor, Early
  <1>6. \A a : \A k \in Writing(a)' : k \in Writing(a) /\ scriptJob'[k] = scriptJob[k]
    BY <1>2, <1>3 DEF Writing
  <1>7. FileInv'
    BY <1>1, <1>5, <1>6 DEF ScriptInv, FileInv
  <1>8. TellInv'
    BY <1>1 DEF ScriptInv, TellInv
  <1>9. QED
    BY <1>4, <1>7, <1>8 DEF ScriptInv

\* A stored module stays stored, so what was told of it stays true.
LEMMA StoredStaysTold ==
  ASSUME TellInv, UNCHANGED <<metas, sources, packages>>,
         \A a \in Modules : wasmFile[a] # NoFile => wasmFile'[a] # NoFile
  PROVE  TellInv'
  BY DEF TellInv

\* The requests while their modules are written.
LEMMA StoreStepKeeps ==
  ASSUME ScriptInv, NEW j \in ScriptJobs, OpenTmp(j) \/ WriteTmp(j) \/ RenameTmp(j)
  PROVE  ScriptInv'
  <1>0. JobInv /\ FileInv /\ TellInv
    BY DEF ScriptInv
  <1>1. CASE OpenTmp(j)
    <2>1. GoesTo(j, "write") /\ scriptJob[j].pc = "open" /\ UNCHANGED <<wasmFile, metas, sources, packages>>
      BY <1>0, <1>1, MovesAreGoing DEF OpenTmp, At
    <2>2. JobInv'
      BY <1>0, <2>1, GoingKeepsJobs DEF JobInv, Late
    <2>3. QED
      BY <1>0, <1>1, <2>1, <2>2, OpenTmpKeepsFiles, StoredStaysTold DEF ScriptInv
  <1>2. CASE WriteTmp(j)
    <2>1. /\ GoesTo(j, "rename") \/ GoesTo(j, "done")
          /\ scriptJob[j].pc = "write" /\ UNCHANGED <<wasmFile, metas, sources, packages>>
      BY <1>0, <1>2, MovesAreGoing DEF WriteTmp, At
    <2>2. JobInv'
      BY <1>0, <2>1, GoingKeepsJobs DEF JobInv, Late
    <2>3. QED
      BY <1>0, <1>2, <2>1, <2>2, WriteTmpKeepsFiles, StoredStaysTold DEF ScriptInv
  <1>3. CASE RenameTmp(j)
    <2>1. scriptJob[j].pc = "rename" /\ UNCHANGED <<metas, sources, packages>>
      BY <1>3 DEF RenameTmp, At
    <2>2. Module(j) \in Modules
      BY <1>0, <2>1 DEF JobInv
    <2>3. JobInv'
      BY <1>0, <1>3, <2>1, <2>2, RenameTmpKeepsFiles, GoingKeepsJobs DEF Late
    <2>4. QED
      BY <1>0, <1>3, <2>1, <2>3, RenameTmpKeepsFiles, StoredStaysTold DEF ScriptInv
  <1>4. QED
    BY <1>1, <1>2, <1>3

\* A request that moves on without touching a file.
LEMMA QuietKeeps ==
  ASSUME ScriptInv, NEW j \in ScriptJobs, NEW pc, GoesTo(j, pc), UNCHANGED files,
         scriptJob[j].pc # "idle", pc # "idle",
         pc \in Early => scriptJob[j].pc \in Early,
         pc \in {"compile", "store", "open", "done"} \cup Late,
         pc \notin {"compile", "done"} => Module(j) \in Modules,
         pc \in Late => wasmFile[Module(j)] # NoFile,
         TellInv'
  PROVE  ScriptInv'
  <1>1. JobInv'
    BY GoingKeepsJobs DEF ScriptInv, files, Early, Late
  <1>2. FileInv'
    BY GoingKeepsFiles DEF ScriptInv, Early, Late
  <1>3. QED
    BY <1>1, <1>2 DEF ScriptInv

LEMMA CompileKeeps ==
  ASSUME ScriptInv, NEW j \in ScriptJobs, Compile(j)
  PROVE  ScriptInv'
  <1>1. JobInv /\ scriptJob[j].pc = "compile" /\ UNCHANGED <<files, metas, sources, packages>>
    BY DEF Compile, At, ScriptInv
  <1>2. TellInv'
    BY <1>1 DEF ScriptInv, TellInv, files
  <1>3. scriptJob[j].req \in ScriptRequests
    BY <1>1 DEF JobInv
  <1>4. Module(j) # NoFile => Module(j) \in Modules
    BY <1>3, ScriptAssumption DEF Module, AskedFor, Modules
  <1>5. \/ GoesTo(j, "done") \/ GoesTo(j, "compile") \/ (Module(j) # NoFile /\ GoesTo(j, "store"))
    BY <1>1, MovesAreGoing DEF Compile
  <1>6. QED
    BY <1>1, <1>2, <1>4, <1>5, QuietKeeps DEF Early, Late

LEMMA StoreCheckKeeps ==
  ASSUME ScriptInv, NEW j \in ScriptJobs, StoreCheck(j)
  PROVE  ScriptInv'
  <1>1. JobInv /\ scriptJob[j].pc = "store" /\ UNCHANGED <<files, metas, sources, packages>>
    BY DEF StoreCheck, At, ScriptInv
  <1>2. TellInv'
    BY <1>1 DEF ScriptInv, TellInv, files
  <1>3. Module(j) \in Modules
    BY <1>1 DEF JobInv
  <1>4. \/ wasmFile[Module(j)] # NoFile /\ GoesTo(j, "stored")
        \/ GoesTo(j, "open")
    BY <1>1, MovesAreGoing DEF StoreCheck
  <1>5. QED
    BY <1>1, <1>2, <1>3, <1>4, QuietKeeps DEF Early, Late

\* The steps after the store: the module is on disk.
LEMMA LateStepKeeps ==
  ASSUME ScriptInv, NEW j \in ScriptJobs,
         StoreMeta(j) \/ StoreSource(j) \/ LookPackage(j) \/ PutPackage(j) \/ Deploy(j)
  PROVE  ScriptInv'
  <1>1. JobInv /\ TellInv /\ scriptJob[j].pc \in Late /\ UNCHANGED files
    BY DEF StoreMeta, StoreSource, LookPackage, PutPackage, Deploy, At, ScriptInv, Late
  <1>2. /\ Module(j) \in Modules /\ wasmFile[Module(j)] # NoFile
        /\ scriptJob[j].req \in ScriptRequests
    BY <1>1 DEF JobInv, Late
  <1>3. \E pc \in {"done"} \cup Late : GoesTo(j, pc)
    BY <1>1, MovesAreGoing DEF StoreMeta, StoreSource, LookPackage, PutPackage, Deploy, Late
  <1>4. TellInv'
    <2>1. CASE UNCHANGED <<metas, sources, packages>>
      BY <1>1, <2>1, StoredStaysTold DEF files
    <2>2. CASE /\ metas' = [metas EXCEPT ![Module(j)] = <<AskedFor(j).pkg, AskedFor(j).class>>]
               /\ UNCHANGED <<sources, packages>>
      BY <1>1, <1>2, <2>2 DEF TellInv, files, AskedFor, Module
    <2>3. CASE /\ sources' = [sources EXCEPT ![<<AskedFor(j).pkg, AskedFor(j).class>>] = AskedFor(j).source]
               /\ UNCHANGED <<metas, packages>>
      <3>1. \A k \in DOMAIN sources' : k \in DOMAIN sources /\ sources'[k] \in {sources[k], AskedFor(j).source}
        BY <2>3
      <3>2. wasmFile[Hash[AskedFor(j).source]] # NoFile
        BY <1>2 DEF Module
      <3>3. QED
        BY <1>1, <2>3, <3>1, <3>2 DEF TellInv, files
    <2>4. CASE /\ packages' = [packages EXCEPT ![AskedFor(j).pkg] = [class |-> AskedFor(j).class, module |-> Module(j)]]
               /\ UNCHANGED <<metas, sources>>
      <3>1. /\ DOMAIN packages' = Packages
            /\ \A p \in Packages : \/ packages'[p] = packages[p]
                                   \/ packages'[p].module = Module(j)
        BY <1>1, <2>4 DEF TellInv
      <3>2. QED
        BY <1>1, <1>2, <2>4, <3>1 DEF TellInv, files
    <2>5. QED
      BY <2>1, <2>2, <2>3, <2>4 DEF StoreMeta, StoreSource, LookPackage, PutPackage, Deploy
  <1>5. QED
    BY <1>1, <1>2, <1>3, <1>4, QuietKeeps DEF Early, Late

\* After every failure, crash and interleaving of any number of requests: a package
\* and a source name a stored module, the module served is whole unless two requests
\* wrote it at once, and metadata names the class that built it.
THEOREM ArtifactsStayServed == ScriptSpec => []ArtifactsServed
  <1>1. ScriptInit => ScriptInv
    BY DEF ScriptInit, NoJob, ScriptInv, JobInv, FileInv, TellInv, JobFields, Early, Late, Writing
  <1>2. ScriptInv /\ [ScriptNext]_scriptVars => ScriptInv'
    <2> SUFFICES ASSUME ScriptInv, ScriptNext \/ UNCHANGED scriptVars
                 PROVE  ScriptInv'
      OBVIOUS
    <2>1. CASE UNCHANGED scriptVars
      BY <2>1 DEF scriptVars, ScriptInv, JobInv, FileInv, TellInv, MadeFor, Writing, Module, AskedFor
    <2>2. CASE Crash
      BY <2>2, CrashKeeps
    <2>3. ASSUME NEW j \in ScriptJobs, ScriptStep(j) \/ \E req \in ScriptRequests : ScriptBegin(j, req)
          PROVE  ScriptInv'
      BY <2>3, BeginKeeps, CompileKeeps, StoreCheckKeeps, StoreStepKeeps, LateStepKeeps DEF ScriptStep
    <2>4. QED
      BY <2>1, <2>2, <2>3 DEF ScriptNext
  <1>3. ScriptInv => ArtifactsServed
    <2> SUFFICES ASSUME ScriptInv PROVE ArtifactsServed
      OBVIOUS
    <2>1. PackagesServable
      BY DEF ScriptInv, TellInv, PackagesServable, GetArtifact
    <2>2. WholeUnlessOverlapped
      BY DEF ScriptInv, FileInv, WholeUnlessOverlapped, GetArtifact
    <2>3. SourceHasArtifact
      <3>1. ASSUME NEW k \in DOMAIN sources, sources[k] # NoFile
            PROVE  GetArtifact(Hash[sources[k]]) # "not found"
        BY <3>1 DEF ScriptInv, TellInv, GetArtifact
      <3>2. ASSUME NEW a \in Modules, metas[a] # NoFile
            PROVE  \E r \in ScriptRequests : <<r.pkg, r.class>> = metas[a] /\ Hash[r.source] = a
        BY <3>2 DEF ScriptInv, TellInv
      <3>3. ASSUME NEW e \in ListArtifacts
            PROVE  e.id \in Modules /\ e.has_source = (metas[e.id] # NoFile) /\ e.source = metas[e.id]
        BY <3>3 DEF ListArtifacts
      <3>4. ASSUME NEW e \in ListArtifacts, e.has_source
            PROVE  \E r \in ScriptRequests : <<r.pkg, r.class>> = e.source /\ Hash[r.source] = e.id
        BY <3>2, <3>3, <3>4, ZenonT(60)
      <3>5. QED
        BY <3>1, <3>4 DEF SourceHasArtifact
    <2>4. QED
      BY <2>1, <2>2, <2>3 DEF ArtifactsServed
  <1>4. QED
    BY <1>1, <1>2, <1>3, PTL DEF ScriptSpec

-----------------------------------------------------------------------------
(* Recursions over the numbers up to n                                     *)

\* A set of numbers has a least element.
LEMMA Least == ASSUME NEW S, S \subseteq Nat, S # {} PROVE \E i \in S : \A j \in S : i <= j
  <1> DEFINE R == OpToRel(<, Nat)
  <1>1. IsWellFoundedOn(R, Nat)
    BY NatLessThanWellFounded
  <1>2. PICK x \in S : \A y \in S : ~(<<y, x>> \in R)
    BY <1>1, WFMin, Zenon
  <1>3. \A y \in S : y < x => <<y, x>> \in R
    BY DEF OpToRel
  <1>4. \A y \in S : ~(y < x)
    BY <1>2, <1>3, Zenon
  <1>5. x \in Nat /\ \A y \in S : y \in Nat
    OBVIOUS
  <1> HIDE DEF R
  <1>6. QED
    BY <1>4, <1>5

\* What holds at the start of a recursion and is passed on holds throughout.
LEMMA Passed ==
    ASSUME NEW n \in Nat, NEW g, NEW S, g[0] \in S[0],
           \A i \in 1..n : g[i - 1] \in S[i - 1] => g[i] \in S[i]
    PROVE  \A i \in 0..n : g[i] \in S[i]
  <1> DEFINE Bad == {i \in 0..n : g[i] \notin S[i]}
  <1> SUFFICES ASSUME Bad # {} PROVE FALSE
    OBVIOUS
  <1>1. Bad \subseteq Nat
    OBVIOUS
  <1>2. PICK i \in Bad : \A j \in Bad : i <= j
    <2> HIDE DEF Bad
    <2>1. QED
      BY <1>1, Least
  <1>3. i \in 1..n /\ i - 1 \in 0..n
    OBVIOUS
  <1>4. i - 1 \notin Bad
    <2> HIDE DEF Bad
    <2>1. QED
      BY <1>2, <1>3
  <1>5. g[i - 1] \in S[i - 1]
    BY <1>3, <1>4
  <1>6. QED
    BY <1>3, <1>5

Solves(f, n, s0, G) == f = [i \in 0..n |-> IF i = 0 THEN s0 ELSE G[i][f[i - 1]]]

\* A recursion whose steps lead from S[i - 1] to S[i] has a solution.
LEMMA RecursionExists ==
    ASSUME NEW n \in Nat, NEW S, NEW s0 \in S[0], NEW G,
           \A i \in 1..n : \A s \in S[i - 1] : G[i][s] \in S[i]
    PROVE  \E f : Solves(f, n, s0, G) /\ \A i \in 0..n : f[i] \in S[i]
  <1> DEFINE E(g, i) == IF i = 0 THEN s0 ELSE G[i][g[i - 1]]
             Bad == {c \in Nat : ~\E f : f = [i \in 0..c |-> E(f, i)]}
  <1>1. \E f : f = [i \in 0..n |-> E(f, i)]
    <2>1. SUFFICES ASSUME Bad # {} PROVE FALSE
      BY <2>1
    <2>2. PICK c \in Bad : \A d \in Bad : c <= d
      <3>1. Bad \subseteq Nat
        OBVIOUS
      <3> HIDE DEF Bad
      <3>2. QED
        BY <2>1, <3>1, Least
    <2>3. c \in Nat
      OBVIOUS
    <2>4. c # 0
      <3> SUFFICES ASSUME c = 0 PROVE FALSE
        OBVIOUS
      <3> DEFINE g == [i \in 0..0 |-> s0]
      <3>1. \A i \in 0..0 : i = 0
        OBVIOUS
      <3>2. g = [i \in 0..0 |-> E(g, i)]
        BY <3>1
      <3> HIDE DEF g
      <3>3. QED
        BY <3>2
    <2>5. c - 1 \in Nat
      BY <2>3, <2>4
    <2>6. c - 1 \notin Bad
      <3> HIDE DEF Bad
      <3>1. QED
        BY <2>2, <2>3, <2>5
    <2>7. PICK f : f = [i \in 0..(c - 1) |-> E(f, i)]
      BY <2>5, <2>6
    <2> DEFINE g == [i \in 0..c |-> IF i < c THEN f[i] ELSE E(f, c)]
    <2>8. \A i \in 0..c : g[i] = E(g, i)
      <3> SUFFICES ASSUME NEW i \in 0..c PROVE g[i] = E(g, i)
        OBVIOUS
      <3>1. CASE i = 0
        <4>1. g[i] = f[0] /\ f[0] = E(f, 0)
          BY <3>1, <2>3, <2>4, <2>5, <2>7
        <4>2. QED
          BY <4>1, <3>1
      <3>2. CASE i # 0
        <4>1. i - 1 \in 0..c /\ i - 1 < c
          BY <3>2, <2>3
        <4>2. g[i - 1] = f[i - 1]
          BY <4>1
        <4>3. E(g, i) = E(f, i)
          BY <4>2
        <4>4. CASE i = c
          BY <4>3, <4>4
        <4>5. CASE i # c
          <5>1. i \in 0..(c - 1) /\ i < c
            BY <4>5, <2>3
          <5>2. f[i] = E(f, i)
            BY <5>1, <2>7
          <5>3. g[i] = f[i]
            BY <5>1
          <5>4. QED
            BY <5>2, <5>3, <4>3, Zenon
        <4>6. QED
          BY <4>4, <4>5
      <3>3. QED
        BY <3>1, <3>2
    <2>9. g = [i \in 0..c |-> E(g, i)]
      <3>1. g = [i \in 0..c |-> g[i]]
        OBVIOUS
      <3> HIDE DEF g
      <3>2. QED
        BY <3>1, <2>8
    <2> HIDE DEF g
    <2>10. QED
      BY <2>9, <2>3
  <1>2. PICK f : f = [i \in 0..n |-> E(f, i)]
    BY <1>1
  <1>3. f[0] = s0
    BY <1>2
  <1>4. \A i \in 1..n : f[i - 1] \in S[i - 1] => f[i] \in S[i]
    <2> SUFFICES ASSUME NEW i \in 1..n, f[i - 1] \in S[i - 1] PROVE f[i] \in S[i]
      OBVIOUS
    <2>1. f[i] = G[i][f[i - 1]]
      BY <1>2
    <2>2. QED
      BY <2>1
  <1>5. \A i \in 0..n : f[i] \in S[i]
    BY <1>3, <1>4, Passed
  <1>6. Solves(f, n, s0, G)
    BY <1>2 DEF Solves
  <1>7. QED
    BY <1>5, <1>6

-----------------------------------------------------------------------------
(* Views of a cluster                                                      *)

\* A view is a record of these fields.
Shaped(v) ==
    v = [kind |-> v.kind, taken |-> v.taken, nodes |-> v.nodes, edges |-> v.edges,
         listed |-> v.listed, metrics |-> v.metrics, knative |-> v.knative,
         target |-> v.target, source |-> v.source, recs |-> v.recs]

Observing == view.metrics \in Seq(Nat) /\ Len(view.metrics) <= 4 /\ view.target \in TargetRates

ViewInv ==
    /\ Shaped(view)
    /\ view.kind \in {"observing", "recs"} => Observing
    /\ ViewsHold

\* A quotient rounded up is the least number of pods.
LEMMA CeilDivBounds ==
    ASSUME NEW a \in Nat, NEW b \in Nat, b > 0
    PROVE  /\ CeilDiv(a, b) \in Nat
           /\ CeilDiv(a, b) * b >= a
           /\ CeilDiv(a, b) > 0 => (CeilDiv(a, b) - 1) * b < a
  <1> DEFINE n == (a + b) - 1
             q == n \div b
  <1>1. n \in Nat
    OBVIOUS
  <1>2. q \in Nat /\ n = b * q + (n % b) /\ n % b \in 0..(b - 1)
    BY <1>1, SMT
  <1> HIDE DEF q
  <1>3. q * b >= a
    BY <1>2
  <1>4. (q - 1) * b < a
    BY <1>2
  <1>5. CeilDiv(a, b) = q
    BY DEF CeilDiv, q
  <1>6. QED
    BY <1>2, <1>3, <1>4, <1>5

\* What the CRM's topology is built of.
LEMMA BuildHolds == ASSUME Shaped(view), BuildTopology PROVE ViewInv'
  <1> DEFINE ns == NodesOf(view.taken)
             es == {e \in EdgesOf(view.taken) : e[1] \in ns /\ e[2] \in ns}
  <1>1. /\ Shaped(view') /\ view'.kind = "topology" /\ view'.nodes = ns /\ view'.edges = es
    BY DEF BuildTopology, Shaped
  <1>2. \A n \in ns : n[1] # "router" => \E e \in es : e[2] = n /\ e[1][1] = "router"
    <2> SUFFICES ASSUME NEW n \in ns, n[1] # "router"
                 PROVE  \E e \in es : e[2] = n /\ e[1][1] = "router"
      OBVIOUS
    <2>1. \/ n \in {<<"function", f[2]>> : f \in FunctionsOf(view.taken)}
          \/ n \in {<<"odgm", r>> : r \in OdgmRouters(view.taken)}
      BY DEF NodesOf
    <2>2. CASE n \in {<<"function", f[2]>> : f \in FunctionsOf(view.taken)}
      <3>1. PICK f \in FunctionsOf(view.taken) : n = <<"function", f[2]>>
        BY <2>2
      <3>2. f[1] \in RoutersOf(view.taken)
        BY DEF FunctionsOf, Topics, RoutersOf
      <3> DEFINE e == << <<"router", f[1]>>, <<"function", f[2]>> >>
      <3>3. e \in EdgesOf(view.taken)
        BY DEF EdgesOf
      <3>4. e[1] \in ns /\ e[2] \in ns
        BY <3>2 DEF NodesOf
      <3>5. QED
        BY <3>1, <3>3, <3>4
    <2>3. CASE n \in {<<"odgm", r>> : r \in OdgmRouters(view.taken)}
      <3>1. PICK r \in OdgmRouters(view.taken) : n = <<"odgm", r>>
        BY <2>3
      <3>2. r \in RoutersOf(view.taken)
        BY DEF OdgmRouters, Topics, RoutersOf
      <3> DEFINE e == << <<"router", r>>, <<"odgm", r>> >>
      <3>3. e \in EdgesOf(view.taken)
        BY DEF EdgesOf
      <3>4. e[1] \in ns /\ e[2] \in ns
        BY <3>2 DEF NodesOf
      <3>5. QED
        BY <3>1, <3>3, <3>4
    <2>4. QED
      BY <2>1, <2>2, <2>3
  <1>3. \A e \in es : e[1] \in ns /\ e[2] \in ns
    OBVIOUS
  <1> HIDE DEF ns, es
  <1>4. TopologyWhole'
    BY <1>1, <1>2, <1>3 DEF TopologyWhole
  <1>5. QED
    BY <1>1, <1>4 DEF ViewInv, ViewsHold, GraphWellFormed, ReplicasCarryTheLoad

\* A view that is not finished promises nothing.
LEMMA UnfinishedHolds ==
    ASSUME Shaped(view'), view'.kind \notin {"topology", "graph", "recs"},
           view'.kind = "observing" => Observing'
    PROVE  ViewInv'
  BY DEF ViewInv, ViewsHold, TopologyWhole, GraphWellFormed, ReplicasCarryTheLoad

LEMMA AnswersHold ==
    ASSUME Shaped(view), FetchTopology \/ ViewAnswered \/ \E s \in AdminSamples : TakeSample(s)
    PROVE  ViewInv'
  <1>1. Shaped(view') /\ view'.kind \in {"fetching", "error", "none"}
    <2>1. CASE FetchTopology
      BY <2>1 DEF FetchTopology, NoView, Shaped
    <2>2. CASE ViewAnswered
      BY <2>2 DEF ViewAnswered, NoView, Shaped
    <2>3. CASE \E s \in AdminSamples : TakeSample(s)
      BY <2>3 DEF TakeSample, Shaped
    <2>4. QED
      BY <2>1, <2>2, <2>3
  <1>2. QED
    BY <1>1, UnfinishedHolds

LEMMA ObserveHolds ==
    ASSUME NEW k \in BOOLEAN, NEW t \in TargetRates, Observe(k, t) PROVE ViewInv'
  <1>1. Shaped(view') /\ view'.kind = "observing" /\ view'.target = t
        /\ view'.metrics = IF k THEN <<>> ELSE <<0>>
    BY DEF Observe, NoView, Shaped
  <1>2. Observing'
    BY <1>1 DEF Observing
  <1>3. QED
    BY <1>1, <1>2, UnfinishedHolds

LEMMA QueryHolds ==
    ASSUME ViewInv, NEW v \in Nat, Query(v) PROVE ViewInv'
  <1>1. Shaped(view) /\ Observing /\ view.kind = "observing" /\ Len(view.metrics) < 4
    BY DEF ViewInv, Query
  <1>2. Shaped(view') /\ view'.kind = "observing" /\ view'.target = view.target
        /\ view'.metrics \in {view.metrics, Append(view.metrics, v)}
    <2>1. CASE view.source = "range" /\ v = 0
      BY <1>1, <2>1 DEF Query, Shaped
    <2>2. CASE ~(view.source = "range" /\ v = 0)
      <3>1. view' = [view EXCEPT !.metrics = Append(@, v), !.source = "range"]
        BY <2>2 DEF Query
      <3>2. QED
        BY <1>1, <3>1 DEF Shaped
    <2>3. QED
      BY <2>1, <2>2
  <1>3. \A s \in Seq(Nat) : Append(s, v) \in Seq(Nat) /\ Len(Append(s, v)) = Len(s) + 1
    OBVIOUS
  <1>4. view'.metrics \in Seq(Nat) /\ Len(view'.metrics) <= 4
    <2>1. view.metrics \in Seq(Nat) /\ Len(view.metrics) \in Nat
      BY <1>1 DEF Observing
    <2>2. CASE view'.metrics = view.metrics
      BY <1>1, <2>1, <2>2
    <2>3. CASE view'.metrics = Append(view.metrics, v)
      <3>1. Append(view.metrics, v) \in Seq(Nat) /\ Len(Append(view.metrics, v)) = Len(view.metrics) + 1
        BY <1>3, <2>1
      <3>2. QED
        BY <1>1, <2>1, <2>3, <3>1
    <2>4. QED
      BY <1>2, <2>2, <2>3
  <1>5. Observing'
    BY <1>1, <1>2, <1>4 DEF Observing
  <1>6. QED
    BY <1>2, <1>5, UnfinishedHolds
\* What is recommended is the least that carries the load, and one more when
\* answers are slow.
LEMMA ReplicasBounds ==
    ASSUME NEW rps \in Nat, NEW p99, NEW cpu \in Nat, NEW target \in TargetRates,
           NEW load \in Nat, NEW pod \in Nat, pod > 0, NEW rs,
           rs = Replicas(rps, p99, cpu, target),
           IF target # NoTarget /\ rps > 0 THEN load = target * cpu /\ pod = rps * CpuPerPod
           ELSE load = cpu /\ pod = CpuPerPod
    PROVE  rs \in Nat /\ rs * pod >= load /\ (rs <= 2 \/ (rs - 2) * pod < load)
  <1> DEFINE c == CeilDiv(load, pod)
             d == IF p99 > SlowMs THEN 1 ELSE 0
  <1>1. rs = AtLeast(c, 1) + d
    BY DEF Replicas
  <1>2. c \in Nat /\ c * pod >= load /\ (c > 0 => (c - 1) * pod < load)
    BY CeilDivBounds
  <1>3. d \in {0, 1}
    OBVIOUS
  <1> HIDE DEF c, d
  <1>4. AtLeast(c, 1) = IF c < 1 THEN 1 ELSE c
    BY DEF AtLeast
  <1>5. rs \in Nat /\ rs >= c
    BY <1>1, <1>2, <1>3, <1>4
  <1>6. rs * pod >= c * pod
    BY <1>5, <1>2
  <1>7. ASSUME rs > 2 PROVE (rs - 2) * pod < load
    <2>1. c > 0 /\ rs - 2 <= c - 1
      BY <1>1, <1>2, <1>3, <1>4, <1>7
    <2>2. (rs - 2) * pod <= (c - 1) * pod
      BY <2>1, <1>5, <1>2
    <2>3. (rs - 2) * pod \in Int /\ (c - 1) * pod \in Int
      BY <1>5, <1>2
    <2>4. QED
      BY <2>1, <2>2, <2>3, <1>2
  <1>8. rs * pod \in Int /\ c * pod \in Int
    BY <1>5, <1>2
  <1>9. QED
    BY <1>2, <1>5, <1>6, <1>7, <1>8

LEMMA RecommendHolds == ASSUME ViewInv, Recommend PROVE ViewInv'
  <1> DEFINE m == view.metrics
             scaled == view.target # NoTarget /\ m[1] > 0
             load == IF scaled THEN view.target * m[3] ELSE m[3]
             pod == IF scaled THEN m[1] * CpuPerPod ELSE CpuPerPod
             rs == Replicas(m[1], m[2], m[3], view.target)
             recs == (IF m[3] > 0 THEN {<<"replicas", rs>>, <<"cpu", CeilDiv(m[3] * 13, 10)>>} ELSE {})
                     \cup (IF m[4] > 0 THEN {<<"memory", CeilDiv(m[4] * 12, 10)>>} ELSE {})
  <1>1. Shaped(view) /\ Observing /\ Len(m) = 4
    BY DEF ViewInv, Recommend
  <1>2. view' = [view EXCEPT !.kind = "recs", !.recs = recs]
    BY DEF Recommend
  <1>3. /\ Shaped(view') /\ view'.kind = "recs" /\ view'.recs = recs /\ view'.metrics = m
        /\ view'.target = view.target
    <2> HIDE DEF recs
    <2>1. QED
      BY <1>1, <1>2 DEF Shaped
  <1>4. m[1] \in Nat /\ m[2] \in Nat /\ m[3] \in Nat /\ m[4] \in Nat
    BY <1>1 DEF Observing
  <1>5. view.target \in TargetRates /\ (scaled => view.target \in Nat)
    BY <1>1, ViewAssumption DEF Observing
  <1>6. load \in Nat /\ pod \in Nat /\ pod > 0
    <2>1. CpuPerPod \in Nat /\ CpuPerPod > 0
      BY ViewAssumption
    <2>2. CASE scaled
      <3>1. m[1] > 0 /\ view.target \in Nat
        BY <2>2, <1>5
      <3>2. m[1] * CpuPerPod > 0 /\ m[1] * CpuPerPod \in Nat /\ view.target * m[3] \in Nat
        BY <3>1, <2>1, <1>4
      <3>3. QED
        BY <3>2, <2>2
    <2>3. CASE ~scaled
      BY <2>1, <2>3, <1>4
    <2>4. QED
      BY <2>2, <2>3
  <1>7. rs * pod >= load /\ (rs <= 2 \/ (rs - 2) * pod < load)
    <2>1. IF view.target # NoTarget /\ m[1] > 0
          THEN load = view.target * m[3] /\ pod = m[1] * CpuPerPod
          ELSE load = m[3] /\ pod = CpuPerPod
      OBVIOUS
    <2> HIDE DEF load, pod, rs, m
    <2>2. rs = Replicas(m[1], m[2], m[3], view.target)
      BY DEF rs
    <2>3. QED
      BY <2>1, <2>2, <1>4, <1>5, <1>6, ReplicasBounds
  <1>8. \A r \in recs : r[1] = "replicas" => r[2] = rs
    <2> HIDE DEF rs
    <2>1. QED
      OBVIOUS
  <1>9. m[3] = 0 /\ m[4] = 0 => recs = {}
    OBVIOUS
  <1>10. ReplicasCarryTheLoad'
    <2> HIDE DEF recs, rs
    <2>1. \A r \in recs : r[1] = "replicas" => r[2] * pod >= load /\ (r[2] <= 2 \/ (r[2] - 2) * pod < load)
      <3> HIDE DEF pod, load
      <3>1. QED
        BY <1>7, <1>8
    <2>2. QED
      BY <1>3, <1>9, <2>1 DEF ReplicasCarryTheLoad
  <1>11. Observing'
    <2> HIDE DEF m
    <2>1. QED
      BY <1>1, <1>3 DEF Observing, m
  <1>12. QED
    BY <1>3, <1>10, <1>11 DEF ViewInv, ViewsHold, TopologyWhole, GraphWellFormed
-----------------------------------------------------------------------------
(* The package manager's topology                                          *)

Lists(s, x) == \E i \in DOMAIN s : s[i] = x

\* Packages and environments are listed once.
Once(s) == \A i, j \in DOMAIN s : s[i] = s[j] /\ s[i][1] \in {"package", "env"} => i = j

LEMMA ListOnceDoes ==
    ASSUME NEW N, NEW s \in Seq(N), NEW x \in N, Once(s), NEW t, t = ListOnce(s, x)
    PROVE  t \in Seq(N) /\ Once(t) /\ Lists(t, x) /\ \A y : Lists(s, y) => Lists(t, y)
  <1>1. CASE \E i \in DOMAIN s : s[i] = x
    BY <1>1 DEF ListOnce, Lists
  <1>2. CASE ~\E i \in DOMAIN s : s[i] = x
    <2>1. t = Append(s, x)
      BY <1>2 DEF ListOnce
    <2>2. /\ t \in Seq(N) /\ DOMAIN t = 1..(Len(s) + 1) /\ DOMAIN s = 1..Len(s) /\ Len(s) \in Nat
          /\ \A i \in DOMAIN s : t[i] = s[i]
          /\ t[Len(s) + 1] = x
      BY <2>1
    <2>3. Once(t)
      <3> SUFFICES ASSUME NEW i \in DOMAIN t, NEW j \in DOMAIN t, t[i] = t[j],
                          t[i][1] \in {"package", "env"}
                   PROVE  i = j
        BY DEF Once
      <3>1. CASE i \in DOMAIN s /\ j \in DOMAIN s
        BY <3>1, <2>2 DEF Once
      <3>2. CASE i \notin DOMAIN s \/ j \notin DOMAIN s
        BY <3>2, <2>2, <1>2
      <3>3. QED
        BY <3>1, <3>2
    <2>4. Lists(t, x) /\ \A y : Lists(s, y) => Lists(t, y)
      BY <2>2 DEF Lists
    <2>5. QED
      BY <2>2, <2>3, <2>4
  <1>3. QED
    BY <1>1, <1>2

\* Classes and functions are added without a look.
LEMMA AppendAdds ==
    ASSUME NEW N, NEW s \in Seq(N), NEW x \in N PROVE Append(s, x) = s \o <<x>>
  OBVIOUS

LEMMA AddDoes ==
    ASSUME NEW N, NEW s \in Seq(N), NEW u \in Seq(N), Once(s),
           \A i \in DOMAIN u : u[i][1] \notin {"package", "env"}, NEW t, t = s \o u
    PROVE  t \in Seq(N) /\ Once(t) /\ \A y : Lists(s, y) \/ Lists(u, y) => Lists(t, y)
  <1>1. /\ t \in Seq(N) /\ DOMAIN t = 1..(Len(s) + Len(u)) /\ Len(s) \in Nat /\ Len(u) \in Nat
        /\ DOMAIN s = 1..Len(s) /\ DOMAIN u = 1..Len(u)
        /\ \A i \in DOMAIN s : t[i] = s[i]
    OBVIOUS
  <1>2. \A i \in DOMAIN u : i + Len(s) \in DOMAIN t /\ t[i + Len(s)] = u[i]
    OBVIOUS
  <1>3. \A i \in DOMAIN t : i \notin DOMAIN s => i - Len(s) \in DOMAIN u /\ t[i] = u[i - Len(s)]
    OBVIOUS
  <1>4. Once(t)
    <2> SUFFICES ASSUME NEW i \in DOMAIN t, NEW j \in DOMAIN t, t[i] = t[j],
                        t[i][1] \in {"package", "env"}
                 PROVE  i = j
      BY DEF Once
    <2>1. i \in DOMAIN s /\ j \in DOMAIN s
      BY <1>3
    <2>2. QED
      BY <2>1, <1>1 DEF Once
  <1>5. \A y : Lists(s, y) \/ Lists(u, y) => Lists(t, y)
    <2> SUFFICES ASSUME NEW y, Lists(s, y) \/ Lists(u, y) PROVE Lists(t, y)
      OBVIOUS
    <2>1. CASE Lists(s, y)
      BY <2>1, <1>1 DEF Lists
    <2>2. CASE Lists(u, y)
      BY <2>2, <1>2 DEF Lists
    <2>3. QED
      BY <2>1, <2>2
  <1>6. QED
    BY <1>1, <1>4, <1>5
\* The nodes one deployment brings.
NodesIn(d) ==
    {<<"package", d.package>>, <<"class", d.class>>}
    \cup {<<"function", d.class, d.functions[i]>> : i \in DOMAIN d.functions}
    \cup {<<"env", d.envs[i]>> : i \in DOMAIN d.envs}

LEMMA NodesWithDoes ==
    ASSUME NEW N, NEW s \in Seq(N), NEW d, IsList(d.functions), IsList(d.envs),
           NodesIn(d) \subseteq N, Once(s), NEW t, t = NodesWith(s, d)
    PROVE  /\ t \in Seq(N) /\ Once(t) /\ \A y : Lists(s, y) => Lists(t, y)
           /\ \A e \in EdgesWith(d) : Lists(t, e[1]) /\ Lists(t, e[2])
  <1> DEFINE p == ListOnce(s, <<"package", d.package>>)
             c == Append(p, <<"class", d.class>>)
             u == [i \in DOMAIN d.functions |-> <<"function", d.class, d.functions[i]>>]
             f == c \o u
             n == Len(d.envs)
             g == CHOOSE g : g = [i \in 0..n |-> IF i = 0 THEN f ELSE ListOnce(g[i - 1], <<"env", d.envs[i]>>)]
             S == [i \in 0..n |-> {r \in Seq(N) : /\ Once(r) /\ \A y : Lists(f, y) => Lists(r, y)
                                                  /\ \A j \in 1..i : Lists(r, <<"env", d.envs[j]>>)}]
             G == [i \in 1..n |-> [r \in S[i - 1] |-> ListOnce(r, <<"env", d.envs[i]>>)]]
  <1>1. t = g[n]
    BY DEF NodesWith
  <1>2. n \in Nat /\ DOMAIN d.envs = 1..n
    BY DEF IsList
  <1>3. p \in Seq(N) /\ Once(p) /\ Lists(p, <<"package", d.package>>) /\ \A y : Lists(s, y) => Lists(p, y)
    <2>1. <<"package", d.package>> \in N
      BY DEF NodesIn
    <2> DEFINE x == <<"package", d.package>>
    <2>2. p = ListOnce(s, x)
      OBVIOUS
    <2> HIDE DEF p, x
    <2>3. p \in Seq(N) /\ Once(p) /\ Lists(p, x) /\ \A y : Lists(s, y) => Lists(p, y)
      <3>1. x \in N
        BY <2>1 DEF x
      <3>2. QED
        BY <3>1, <2>2, ListOnceDoes, Zenon
    <2>4. QED
      BY <2>3 DEF x
  <1>4. c \in Seq(N) /\ Once(c) /\ Lists(c, <<"class", d.class>>) /\ \A y : Lists(p, y) => Lists(c, y)
    <2> DEFINE x == <<"class", d.class>>
               o == <<x>>
    <2>1. x \in N
      BY DEF NodesIn
    <2>2. o \in Seq(N) /\ \A i \in DOMAIN o : o[i][1] \notin {"package", "env"}
      BY <2>1
    <2>3. Lists(o, x)
      BY DEF Lists
    <2> HIDE DEF p
    <2>4. c = p \o o
      <3>1. c = Append(p, x)
        OBVIOUS
      <3> HIDE DEF c, x
      <3>2. Append(p, x) = p \o <<x>>
        BY <1>3, <2>1, AppendAdds, Zenon
      <3>3. QED
        BY <3>1, <3>2, Zenon
    <2> HIDE DEF c, o, x
    <2>5. c \in Seq(N) /\ Once(c) /\ \A y : Lists(p, y) \/ Lists(o, y) => Lists(c, y)
      BY <2>2, <2>4, <1>3, AddDoes
    <2>6. QED
      BY <2>3, <2>5 DEF x
  <1>5. /\ f \in Seq(N) /\ Once(f) /\ \A y : Lists(c, y) => Lists(f, y)
        /\ \A i \in DOMAIN d.functions : Lists(f, <<"function", d.class, d.functions[i]>>)
    <2>1. DOMAIN d.functions = 1..Len(d.functions) /\ Len(d.functions) \in Nat
      BY DEF IsList
    <2>2. \A i \in DOMAIN d.functions : u[i] \in N
      BY DEF NodesIn
    <2>3. u \in Seq(N)
      <3>1. u \in [DOMAIN d.functions -> N]
        BY <2>2
      <3> HIDE DEF u
      <3>2. QED
        BY <2>1, <3>1
    <2>4. \A i \in DOMAIN u : u[i][1] \notin {"package", "env"}
      OBVIOUS
    <2>5. \A i \in DOMAIN d.functions : Lists(u, <<"function", d.class, d.functions[i]>>)
      BY DEF Lists
    <2> HIDE DEF c, u
    <2>6. f \in Seq(N) /\ Once(f) /\ \A y : Lists(c, y) \/ Lists(u, y) => Lists(f, y)
      BY <2>3, <2>4, <1>4, AddDoes
    <2>7. QED
      BY <2>5, <2>6
  <1> HIDE DEF f
  <1>6. \A i \in 1..n : \A r \in S[i - 1] : ListOnce(r, <<"env", d.envs[i]>>) \in S[i]
    <2> SUFFICES ASSUME NEW i \in 1..n, NEW r \in S[i - 1]
                 PROVE  ListOnce(r, <<"env", d.envs[i]>>) \in S[i]
      OBVIOUS
    <2> DEFINE x == <<"env", d.envs[i]>>
               q == ListOnce(r, x)
    <2>1. i - 1 \in 0..n /\ i \in 0..n
      BY <1>2
    <2>2. /\ r \in Seq(N) /\ Once(r) /\ \A y : Lists(f, y) => Lists(r, y)
          /\ \A j \in 1..(i - 1) : Lists(r, <<"env", d.envs[j]>>)
      BY <2>1
    <2>3. x \in N
      BY <1>2 DEF NodesIn
    <2>4. q \in Seq(N) /\ Once(q) /\ Lists(q, x) /\ \A y : Lists(r, y) => Lists(q, y)
      <3> HIDE DEF q, x
      <3>1. QED
        BY <2>2, <2>3, ListOnceDoes DEF q
    <2>5. \A j \in 1..i : Lists(q, <<"env", d.envs[j]>>)
      <3> SUFFICES ASSUME NEW j \in 1..i PROVE Lists(q, <<"env", d.envs[j]>>)
        OBVIOUS
      <3> HIDE DEF q
      <3>1. CASE j = i
        BY <3>1, <2>4
      <3>2. CASE j # i
        <4>1. j \in 1..(i - 1)
          BY <3>2, <1>2
        <4>2. Lists(r, <<"env", d.envs[j]>>)
          BY <4>1, <2>2
        <4>3. QED
          BY <4>2, <2>4
      <3>3. QED
        BY <3>1, <3>2
    <2>6. \A y : Lists(f, y) => Lists(q, y)
      BY <2>2, <2>4
    <2> HIDE DEF q
    <2>7. q \in S[i]
      BY <2>1, <2>4, <2>5, <2>6
    <2>8. QED
      BY <2>7 DEF q
  <1>7. f \in S[0]
    <2>1. 0 \in 0..n /\ \A j \in 1..0 : FALSE
      BY <1>2
    <2>2. QED
      BY <2>1, <1>5
  <1>8. g = [i \in 0..n |-> IF i = 0 THEN f ELSE ListOnce(g[i - 1], <<"env", d.envs[i]>>)]
    <2>1. \A i \in 1..n : \A r \in S[i - 1] : G[i][r] = ListOnce(r, <<"env", d.envs[i]>>)
      OBVIOUS
    <2> HIDE DEF S, G
    <2>2. \A i \in 1..n : \A r \in S[i - 1] : G[i][r] \in S[i]
      BY <2>1, <1>6
    <2> HIDE DEF n
    <2>3. PICK h : Solves(h, n, f, G) /\ \A i \in 0..n : h[i] \in S[i]
      BY <2>2, <1>2, <1>7, RecursionExists
    <2>4. \A i \in 0..n : i # 0 => i \in 1..n /\ i - 1 \in 0..n
      BY <1>2
    <2>5. \A i \in 0..n : i # 0 => G[i][h[i - 1]] = ListOnce(h[i - 1], <<"env", d.envs[i]>>)
      BY <2>1, <2>3, <2>4
    <2>6. h = [i \in 0..n |-> IF i = 0 THEN f ELSE ListOnce(h[i - 1], <<"env", d.envs[i]>>)]
      BY <2>3, <2>5 DEF Solves
    <2>7. QED
      BY <2>6
  <1> HIDE DEF g
  <1>9. g[0] = f /\ \A i \in 1..n : g[i] = ListOnce(g[i - 1], <<"env", d.envs[i]>>)
    BY <1>8, <1>2
  <1>10. \A i \in 0..n : g[i] \in S[i]
    <2> HIDE DEF S, G
    <2>1. QED
      BY <1>2, <1>6, <1>7, <1>9, Passed
  <1>11. /\ t \in Seq(N) /\ Once(t) /\ \A y : Lists(f, y) => Lists(t, y)
         /\ \A j \in 1..n : Lists(t, <<"env", d.envs[j]>>)
    <2>1. n \in 0..n /\ t \in S[n]
      BY <1>1, <1>2, <1>10
    <2>2. QED
      BY <2>1
  <1>12. \A e \in EdgesWith(d) : Lists(t, e[1]) /\ Lists(t, e[2])
    <2> HIDE DEF p, c, u, n, S, G
    <2>1. Lists(t, <<"package", d.package>>) /\ Lists(t, <<"class", d.class>>)
      BY <1>3, <1>4, <1>5, <1>11
    <2>2. \A i \in DOMAIN d.functions : Lists(t, <<"function", d.class, d.functions[i]>>)
      BY <1>5, <1>11
    <2>3. \A i \in DOMAIN d.envs : Lists(t, <<"env", d.envs[i]>>)
      BY <1>2, <1>11
    <2> SUFFICES ASSUME NEW e \in EdgesWith(d) PROVE Lists(t, e[1]) /\ Lists(t, e[2])
      OBVIOUS
    <2>4. CASE e = << <<"package", d.package>>, <<"class", d.class>> >>
      BY <2>1, <2>4
    <2>5. CASE \E i \in DOMAIN d.functions : e = << <<"class", d.class>>, <<"function", d.class, d.functions[i]>> >>
      <3>1. PICK i \in DOMAIN d.functions : e = << <<"class", d.class>>, <<"function", d.class, d.functions[i]>> >>
        BY <2>5
      <3>2. e[1] = <<"class", d.class>> /\ e[2] = <<"function", d.class, d.functions[i]>>
        BY <3>1
      <3>3. QED
        BY <2>1, <2>2, <3>2, Zenon
    <2>6. CASE \E i \in DOMAIN d.envs : e = << <<"class", d.class>>, <<"env", d.envs[i]>> >>
      <3>1. PICK i \in DOMAIN d.envs : e = << <<"class", d.class>>, <<"env", d.envs[i]>> >>
        BY <2>6
      <3>2. e[1] = <<"class", d.class>> /\ e[2] = <<"env", d.envs[i]>>
        BY <3>1
      <3>3. QED
        BY <2>1, <2>3, <3>2, Zenon
    <2>7. QED
      BY <2>4, <2>5, <2>6 DEF EdgesWith
  <1>13. \A y : Lists(s, y) => Lists(t, y)
    <2> HIDE DEF p, c, u, n, S, G
    <2>1. QED
      BY <1>3, <1>4, <1>5, <1>11
  <1>14. QED
    BY <1>11, <1>12, <1>13

\* What build_deployment_topology lists.
LEMMA GraphHolds ==
    ASSUME NEW ds \in Deployments, DeploymentTopology(ds) PROVE ViewInv'
  <1> DEFINE n == Len(ds)
             g == CHOOSE g : g = [i \in 0..n |-> IF i = 0 THEN <<>> ELSE NodesWith(g[i - 1], ds[i])]
             N == UNION {NodesIn(ds[i]) : i \in DOMAIN ds}
             S == [i \in 0..n |-> {r \in Seq(N) : /\ Once(r)
                                                  /\ \A j \in 1..i : \A e \in EdgesWith(ds[j]) :
                                                       Lists(r, e[1]) /\ Lists(r, e[2])}]
             G == [i \in 1..n |-> [r \in S[i - 1] |-> NodesWith(r, ds[i])]]
             es == UNION {EdgesWith(ds[i]) : i \in DOMAIN ds}
  <1>1. view' = [NoView EXCEPT !.kind = "graph", !.listed = g[n], !.edges = es]
    BY DEF DeploymentTopology
  <1>2. /\ n \in Nat /\ DOMAIN ds = 1..n
        /\ \A i \in 1..n : IsList(ds[i].functions) /\ IsList(ds[i].envs)
    <2>1. IsList(ds) /\ \A i \in DOMAIN ds : IsList(ds[i].functions) /\ IsList(ds[i].envs)
      BY ViewAssumption
    <2>2. n \in Nat /\ DOMAIN ds = 1..n
      BY <2>1 DEF IsList
    <2>3. QED
      BY <2>1, <2>2
  <1>3. \A i \in 1..n : \A r \in S[i - 1] : NodesWith(r, ds[i]) \in S[i]
    <2> SUFFICES ASSUME NEW i \in 1..n, NEW r \in S[i - 1] PROVE NodesWith(r, ds[i]) \in S[i]
      OBVIOUS
    <2> DEFINE q == NodesWith(r, ds[i])
    <2>1. i - 1 \in 0..n /\ i \in 0..n
      BY <1>2
    <2>2. /\ r \in Seq(N) /\ Once(r)
          /\ \A j \in 1..(i - 1) : \A e \in EdgesWith(ds[j]) : Lists(r, e[1]) /\ Lists(r, e[2])
      BY <2>1
    <2>3. NodesIn(ds[i]) \subseteq N
      BY <1>2
    <2> HIDE DEF N, S, G
    <2>4. /\ q \in Seq(N) /\ Once(q) /\ \A y : Lists(r, y) => Lists(q, y)
          /\ \A e \in EdgesWith(ds[i]) : Lists(q, e[1]) /\ Lists(q, e[2])
      <3> HIDE DEF q
      <3>1. q = NodesWith(r, ds[i])
        BY DEF q
      <3>2. QED
        BY <1>2, <2>2, <2>3, <3>1, NodesWithDoes
    <2> HIDE DEF q
    <2>5. \A j \in 1..i : \A e \in EdgesWith(ds[j]) : Lists(q, e[1]) /\ Lists(q, e[2])
      <3> SUFFICES ASSUME NEW j \in 1..i, NEW e \in EdgesWith(ds[j])
                   PROVE  Lists(q, e[1]) /\ Lists(q, e[2])
        OBVIOUS
      <3>1. CASE j = i
        BY <3>1, <2>4
      <3>2. CASE j # i
        <4>1. j \in 1..(i - 1)
          BY <3>2, <1>2
        <4>2. Lists(r, e[1]) /\ Lists(r, e[2])
          BY <4>1, <2>2
        <4>3. QED
          BY <4>2, <2>4
      <3>3. QED
        BY <3>1, <3>2
    <2>6. q \in S[i]
      BY <2>1, <2>4, <2>5 DEF S
    <2>7. QED
      BY <2>6 DEF q
  <1>4. <<>> \in S[0]
    <2>1. 0 \in 0..n /\ \A j \in 1..0 : FALSE
      BY <1>2
    <2>2. <<>> \in Seq(N) /\ Once(<< >>)
      BY DEF Once
    <2>3. QED
      BY <2>1, <2>2
  <1>5. g = [i \in 0..n |-> IF i = 0 THEN <<>> ELSE NodesWith(g[i - 1], ds[i])]
    <2>1. \A i \in 1..n : \A r \in S[i - 1] : G[i][r] = NodesWith(r, ds[i])
      OBVIOUS
    <2> HIDE DEF S, G
    <2>2. \A i \in 1..n : \A r \in S[i - 1] : G[i][r] \in S[i]
      BY <2>1, <1>3
    <2> HIDE DEF n
    <2>3. PICK h : Solves(h, n, <<>>, G) /\ \A i \in 0..n : h[i] \in S[i]
      BY <2>2, <1>2, <1>4, RecursionExists
    <2>4. \A i \in 0..n : i # 0 => i \in 1..n /\ i - 1 \in 0..n
      BY <1>2
    <2>5. \A i \in 0..n : i # 0 => G[i][h[i - 1]] = NodesWith(h[i - 1], ds[i])
      BY <2>1, <2>3, <2>4
    <2>6. h = [i \in 0..n |-> IF i = 0 THEN <<>> ELSE NodesWith(h[i - 1], ds[i])]
      BY <2>3, <2>5 DEF Solves
    <2>7. QED
      BY <2>6
  <1> HIDE DEF g
  <1>6. g[0] = <<>> /\ \A i \in 1..n : g[i] = NodesWith(g[i - 1], ds[i])
    BY <1>5, <1>2, SMTT(30)
  <1>7. \A i \in 0..n : g[i] \in S[i]
    <2> HIDE DEF S, G
    <2>1. QED
      BY <1>2, <1>3, <1>4, <1>6, Passed
  <1>8. Once(g[n]) /\ \A j \in 1..n : \A e \in EdgesWith(ds[j]) : Lists(g[n], e[1]) /\ Lists(g[n], e[2])
    <2>1. n \in 0..n
      BY <1>2
    <2>2. g[n] \in S[n]
      <3> HIDE DEF n, S
      <3>1. QED
        BY <2>1, <1>7
    <2>3. QED
      BY <2>1, <2>2
  <1>9. \A e \in es : Lists(g[n], e[1]) /\ Lists(g[n], e[2])
    BY <1>2, <1>8
  <1> HIDE DEF n, N, S, G, es
  <1>10. Shaped(view') /\ view'.kind = "graph" /\ view'.listed = g[n] /\ view'.edges = es
    BY <1>1 DEF NoView, Shaped
  <1>11. GraphWellFormed'
    <2>1. \A e \in view'.edges : \A k \in 1..2 : \E i \in DOMAIN view'.listed : view'.listed[i] = e[k]
      <3> SUFFICES ASSUME NEW e \in view'.edges, NEW k \in 1..2
                   PROVE  \E i \in DOMAIN view'.listed : view'.listed[i] = e[k]
        OBVIOUS
      <3>1. k = 1 \/ k = 2
        OBVIOUS
      <3>2. QED
        BY <3>1, <1>9, <1>10 DEF Lists
    <2>2. QED
      BY <2>1, <1>8, <1>10 DEF GraphWellFormed, Once
  <1>12. QED
    BY <1>10, <1>11 DEF ViewInv, ViewsHold, TopologyWhole, ReplicasCarryTheLoad

-----------------------------------------------------------------------------
LEMMA ViewStep == ViewInv /\ [ViewNext]_viewVars => ViewInv'
  <1> SUFFICES ASSUME ViewInv, [ViewNext]_viewVars PROVE ViewInv'
    OBVIOUS
  <1> Shaped(view)
    BY DEF ViewInv
  <1>1. CASE FetchTopology \/ ViewAnswered \/ \E s \in AdminSamples : TakeSample(s)
    BY <1>1, AnswersHold
  <1>2. CASE BuildTopology
    BY <1>2, BuildHolds
  <1>3. CASE Recommend
    BY <1>3, RecommendHolds
  <1>4. CASE \E ds \in Deployments : DeploymentTopology(ds)
    BY <1>4, GraphHolds
  <1>5. CASE \E k \in BOOLEAN, t \in TargetRates : Observe(k, t)
    BY <1>5, ObserveHolds
  <1>6. ASSUME NEW m \in DOMAIN Measured, NEW v \in Measured[m], Query(v) PROVE ViewInv'
    <2>1. v \in Nat
      BY ViewAssumption
    <2>2. QED
      BY <2>1, <1>6, QueryHolds
  <1>7. CASE UNCHANGED viewVars
    BY <1>7 DEF viewVars, ViewInv, Observing, ViewsHold, TopologyWhole, GraphWellFormed,
                ReplicasCarryTheLoad
  <1>8. QED
    BY <1>1, <1>2, <1>3, <1>4, <1>5, <1>6, <1>7 DEF ViewNext

\* Whatever answers arrive, and for any deployments and measurements, the topologies
\* are graphs and the replicas recommended carry the load (topology.rs, nfr/mod.rs).
THEOREM ViewsStayWhole == ViewSpec => []ViewsHold
  <1>1. ViewInit => ViewInv
    <2> SUFFICES ASSUME ViewInit PROVE ViewInv
      OBVIOUS
    <2>1. Shaped(view) /\ view.kind = "none"
      BY DEF ViewInit, NoView, Shaped
    <2>2. QED
      BY <2>1 DEF ViewInv, ViewsHold, TopologyWhole, GraphWellFormed, ReplicasCarryTheLoad
  <1>2. ViewInv => ViewsHold
    BY DEF ViewInv
  <1>3. QED
    BY <1>1, <1>2, ViewStep, PTL DEF ViewSpec

-----------------------------------------------------------------------------
(* The storage backends: keys in order                                     *)

\* The keys of S, each of them and no others.
LEMMA OrderedDoes ==
    ASSUME NEW S, S \subseteq AllKeys, NEW t, t = Ordered(S)
    PROVE  /\ t \in Seq(AllKeys)
           /\ \A i \in DOMAIN t : t[i] \in S
           /\ S # {} => t # <<>>
  <1> DEFINE n == Len(KeyOrder)
             step(r, i) == IF KeyOrder[i] \in S THEN Append(r, KeyOrder[i]) ELSE r
             g == CHOOSE g : g = [i \in 0..n |-> IF i = 0 THEN <<>>
                                  ELSE IF KeyOrder[i] \in S THEN Append(g[i - 1], KeyOrder[i]) ELSE g[i - 1]]
             T == [i \in 0..n |-> {r \in Seq(S) : \A j \in 1..i : KeyOrder[j] \in S => Len(r) > 0}]
             G == [i \in 1..n |-> [r \in T[i - 1] |-> step(r, i)]]
  <1>1. t = g[n]
    BY DEF Ordered
  <1>2. n \in Nat /\ DOMAIN KeyOrder = 1..n
    BY StorageAssumption
  <1>3. \A i \in 1..n : \A r \in T[i - 1] : step(r, i) \in T[i]
    <2> SUFFICES ASSUME NEW i \in 1..n, NEW r \in T[i - 1] PROVE step(r, i) \in T[i]
      OBVIOUS
    <2>1. i - 1 \in 0..n /\ i \in 0..n
      BY <1>2
    <2>2. r \in Seq(S) /\ \A j \in 1..(i - 1) : KeyOrder[j] \in S => Len(r) > 0
      BY <2>1
    <2>3. \A j \in 1..i : j = i \/ j \in 1..(i - 1)
      BY <2>1, <1>2
    <2>4. CASE KeyOrder[i] \in S
      <3>1. Append(r, KeyOrder[i]) \in Seq(S) /\ Len(Append(r, KeyOrder[i])) > 0
        BY <2>2, <2>4
      <3>2. QED
        BY <2>1, <2>4, <3>1
    <2>5. CASE KeyOrder[i] \notin S
      BY <2>1, <2>2, <2>3, <2>5
    <2>6. QED
      BY <2>4, <2>5
  <1>4. <<>> \in T[0]
    <2>1. 0 \in 0..n /\ \A j \in 1..0 : FALSE
      BY <1>2
    <2>2. QED
      BY <2>1
  <1>5. g = [i \in 0..n |-> IF i = 0 THEN <<>> ELSE step(g[i - 1], i)]
    <2>1. \A i \in 1..n : \A r \in T[i - 1] : G[i][r] = step(r, i)
      OBVIOUS
    <2> HIDE DEF T, G
    <2>2. \A i \in 1..n : \A r \in T[i - 1] : G[i][r] \in T[i]
      BY <2>1, <1>3
    <2> HIDE DEF n
    <2>3. PICK h : Solves(h, n, <<>>, G) /\ \A i \in 0..n : h[i] \in T[i]
      BY <2>2, <1>2, <1>4, RecursionExists
    <2>4. \A i \in 0..n : i # 0 => i \in 1..n /\ i - 1 \in 0..n
      BY <1>2
    <2>5. \A i \in 0..n : i # 0 => G[i][h[i - 1]] = step(h[i - 1], i)
      BY <2>1, <2>3, <2>4
    <2>6. h = [i \in 0..n |-> IF i = 0 THEN <<>> ELSE step(h[i - 1], i)]
      BY <2>3, <2>5 DEF Solves
    <2>7. QED
      BY <2>6
  <1> HIDE DEF g
  <1>6. g[0] = <<>> /\ \A i \in 1..n : g[i] = step(g[i - 1], i)
    <2> HIDE DEF n, step
    <2>1. 0 \in 0..n /\ \A i \in 1..n : i \in 0..n /\ i # 0
      BY <1>2
    <2>2. QED
      BY <1>5, <2>1
  <1>7. \A i \in 0..n : g[i] \in T[i]
    <2> HIDE DEF T, G, n, step
    <2>1. g[0] \in T[0] /\ \A i \in 1..n : g[i - 1] \in T[i - 1] => g[i] \in T[i]
      BY <1>3, <1>4, <1>6
    <2>2. QED
      BY <1>2, <2>1, Passed
  <1>8. t \in Seq(S) /\ \A j \in 1..n : KeyOrder[j] \in S => Len(t) > 0
    <2>1. n \in 0..n
      BY <1>2
    <2>2. t \in T[n]
      <3> HIDE DEF n, T
      <3>1. QED
        BY <2>1, <1>1, <1>7
    <2>3. QED
      BY <2>1, <2>2
  <1>9. S # {} => Len(t) > 0
    <2> SUFFICES ASSUME NEW k \in S PROVE Len(t) > 0
      OBVIOUS
    <2>1. PICK i \in 1..n : KeyOrder[i] = k
      BY <1>2, StorageAssumption
    <2>2. QED
      BY <2>1, <1>8
  <1>10. QED
    BY <1>8, <1>9

LEMMA KeysFinite == IsFiniteSet(AllKeys) /\ \A S : S \subseteq AllKeys => IsFiniteSet(S) /\ Cardinality(S) \in Nat
  <1>1. IsFiniteSet(AllKeys)
    BY StorageAssumption DEF IsFiniteSet
  <1>2. QED
    BY <1>1, FS_Subset, FS_CardinalityType
-----------------------------------------------------------------------------
(* The storage backends: the invariant                                     *)

StorePcs == {"idle", "run", "insert", "remove", "sweep", "sweep_all", "stats", "tx", "commit"}
StoreOps == {"none", "put", "delete", "delete_range", "cas", "increment", "tx", "snapshot",
             "restore", "install", "close"}
CallNames == {"put", "delete", "range", "range_all", "cas", "increment", "begin", "snapshot",
              "swap", "set_counts", "lock", "raw", "raw_counted", "clear", "reset", "end"}

CallRecord == [f : CallNames, k : AllKeys, v : Int, e : Int]
BufRecord == [k : AllKeys, v : Int]
TaskRecord ==
    [pc : StorePcs, op : StoreOps, id : 0..MaxReqs, calls : Seq(CallRecord), buf : Seq(BufRecord),
     todo : Seq(AllKeys), delta : Int, copy : Seq(Int), alone : BOOLEAN]

\* The backends whose commit is one step.
Atomic == backend \in {"memory"} \cup SingleWriter

\* The requests whose writes may be seen: no transaction of theirs is open, was
\* undone or will be begun.
Settled ==
    {i \in 1..reqs : /\ status[i] \in {"plain", "done"}
                     /\ \A c \in Clients : task[c].op = "tx" => task[c].id # i}

OkValue(v) == Atomic /\ v # Absent => Number(v) \in Settled
OkMap(m) == m \in [AllKeys -> Int] /\ \A k \in Keys : OkValue(m[k])

\* The requests that replace the map, and the calls of all others.
Replacing == {"restore", "install", "close"}
PlainCalls == {"put", "delete", "cas", "range", "increment", "begin", "snapshot"}

\* A call x of a request op.
StoreCallInv(op, x) ==
    /\ x.f = "begin" => op = "tx"
    /\ x.f = "increment" => op = "increment"
    /\ x.f = "lock" => backend = "memory" /\ op = "install"
    /\ x.f = "swap" => OkMap(snap)
    /\ x.k \in Keys => OkValue(x.v)
    /\ op \notin Replacing =>
         /\ x.f \in PlainCalls
         /\ x.f \in {"put", "delete", "cas"} => x.k \in Keys \/ (op = "increment" /\ backend # "memory")

\* The calls q of a request op.  An installation into memory ends by setting the
\* counts.
CallsInv(op, q) ==
    /\ \A j \in DOMAIN q : StoreCallInv(op, q[j])
    /\ backend = "memory" /\ op = "install" =>
         /\ q # <<>>
         /\ \A j \in DOMAIN q :
              IF j = Len(q) THEN q[j].f = "set_counts" ELSE q[j].f \in {"lock", "raw"}

\* The step a task is at fits its current call.
PcInv(t) ==
    /\ t.pc \notin {"idle", "tx", "commit"} => t.calls # <<>>
    /\ t.pc = "idle" <=> t.op = "none"
    /\ t.pc \in {"tx", "commit"} => t.op = "tx"
    /\ t.pc \in {"insert", "remove", "sweep", "sweep_all"} => backend # "memory"
    /\ t.pc = "insert" => t.calls[1].f = "put"
    /\ t.pc = "remove" => t.calls[1].f = "delete"
    /\ t.pc = "sweep" => t.todo # <<>>
    /\ t.pc \in {"sweep", "sweep_all"} /\ t.op \notin Replacing =>
         \A j \in DOMAIN t.todo : t.todo[j] \in Keys
    /\ backend = "memory" /\ t.op = "install" => t.pc = "run"

\* A transaction has a number of its own and buffers what it wrote.
TxInv(t) ==
    /\ Len(t.buf) <= MaxTxOps
    /\ t.pc \notin {"tx", "commit"} => t.buf = <<>>
    /\ t.op = "tx" => t.id \in 1..reqs /\ status[t.id] \in {"plain", "open"}
    /\ \A j \in DOMAIN t.buf :
         /\ t.buf[j].k \in Keys => t.buf[j].v \in {Absent, t.id}
         /\ t.buf[j].k = Counter => "tx_increment" \in used

TaskInv(t) ==
    /\ PcInv(t) /\ TxInv(t) /\ CallsInv(t.op, t.calls)
    /\ t.op \in Replacing \cup {"increment"} => t.op \in used

TasksInv ==
    /\ task \in [Clients -> TaskRecord]
    /\ \A c \in Clients : TaskInv(task[c])
    /\ \A c, d \in Clients : task[c].op = "tx" /\ task[d].op = "tx" /\ task[c].id = task[d].id => c = d

StoreInv ==
    /\ backend \in Backends
    /\ OkMap(data)
    /\ snap = None \/ OkMap(snap)
    /\ entries \in 0..(Wrap - 1)
    /\ writer \in Clients \cup {None}
    /\ reqs \in 0..MaxReqs
    /\ status \in [Ids -> {"plain", "open", "done", "undone"}]
    /\ \A i \in Ids : i > reqs => status[i] = "plain"
    /\ incs \in Nat
    /\ overlap \in BOOLEAN

LockInv ==
    /\ LockHasOwner
    /\ backend \in SingleWriter => \A c \in Clients : task[c].pc = "tx" => writer = c

\* Nothing but increments has touched the counter.
Calm ==
    /\ \/ backend = "memory" /\ "tx_increment" \notin used
       \/ backend \in SingleWriter /\ "increment" \notin used
    /\ used \cap Replacing = {}

CountInv ==
    Calm =>
      /\ data[Counter] = incs
      /\ \A c \in Clients : task[c].pc = "tx" =>
           Applied(data, task[c].buf)[Counter] = incs + Increments(task[c].buf)

StorageInv == StoreInv /\ TasksInv /\ LockInv /\ CountInv
-----------------------------------------------------------------------------
(* The storage backends: what a transaction buffered                       *)

\* A set of positions that is not empty has a last one.
LEMMA LastOf ==
    ASSUME NEW n \in Nat, NEW S, S \subseteq 1..n, S # {}
    PROVE  \E i \in S : \A j \in S : j <= i
  <1> DEFINE T == {n - i : i \in S}
  <1>1. T \subseteq Nat /\ T # {}
    <2>1. \A i \in S : i \in 1..n
      OBVIOUS
    <2>2. \A i \in S : n - i \in Nat
      BY <2>1
    <2>3. QED
      BY <2>2
  <1>2. PICK a \in T : \A b \in T : a <= b
    BY <1>1, Least
  <1>3. PICK i \in S : a = n - i
    OBVIOUS
  <1>4. \A j \in S : n - j \in T /\ j \in Int /\ i \in Int
    OBVIOUS
  <1> HIDE DEF T
  <1>5. \A j \in S : j <= i
    BY <1>2, <1>3, <1>4
  <1>6. QED
    BY <1>5

Mine(buf, k) == {i \in DOMAIN buf : buf[i].k = k}
LastMine(buf, k) == CHOOSE i \in Mine(buf, k) : \A j \in Mine(buf, k) : j <= i

LEMMA AppliedIs ==
    ASSUME NEW m, NEW buf, NEW k \in AllKeys
    PROVE  Applied(m, buf)[k] = IF Mine(buf, k) = {} THEN m[k] ELSE buf[LastMine(buf, k)].v
  BY DEF Applied, Mine, LastMine

\* A commit leaves at each key what was there or one of the values it wrote.
LEMMA AppliedDoes ==
    ASSUME NEW m \in [AllKeys -> Int], NEW buf \in Seq(BufRecord)
    PROVE  /\ Applied(m, buf) \in [AllKeys -> Int]
           /\ \A k \in AllKeys :
                \/ Mine(buf, k) = {} /\ Applied(m, buf)[k] = m[k]
                \/ \E i \in DOMAIN buf : buf[i].k = k /\ Applied(m, buf)[k] = buf[i].v
  <1>1. DOMAIN buf = 1..Len(buf) /\ Len(buf) \in Nat
    OBVIOUS
  <1>2. ASSUME NEW k \in AllKeys
        PROVE  \/ Mine(buf, k) = {} /\ Applied(m, buf)[k] = m[k]
               \/ \E i \in DOMAIN buf : buf[i].k = k /\ Applied(m, buf)[k] = buf[i].v
    <2>1. CASE Mine(buf, k) = {}
      BY <2>1, AppliedIs
    <2>2. CASE Mine(buf, k) # {}
      <3>1. \A i \in Mine(buf, k) : i \in DOMAIN buf /\ buf[i].k = k
        BY DEF Mine
      <3>2. \E i \in Mine(buf, k) : \A j \in Mine(buf, k) : j <= i
        BY <1>1, <2>2, <3>1, LastOf
      <3>3. LastMine(buf, k) \in Mine(buf, k)
        BY <3>2 DEF LastMine
      <3>4. Applied(m, buf)[k] = buf[LastMine(buf, k)].v
        BY <2>2, AppliedIs
      <3>5. QED
        BY <3>1, <3>3, <3>4
    <2>3. QED
      BY <2>1, <2>2
  <1>3. \A i \in DOMAIN buf : buf[i].v \in Int
    <2>1. \A i \in DOMAIN buf : buf[i] \in BufRecord
      BY <1>1
    <2>2. QED
      BY <2>1 DEF BufRecord
  <1>4. \A k \in AllKeys : Applied(m, buf)[k] \in Int
    BY <1>2, <1>3
  <1>5. Applied(m, buf) = [k \in AllKeys |-> Applied(m, buf)[k]]
    BY DEF Applied
  <1>6. Applied(m, buf) \in [AllKeys -> Int]
    BY <1>4, <1>5
  <1>7. QED
    BY <1>2, <1>6

\* One more operation shows at its key and nowhere else.
LEMMA AppliedAppend ==
    ASSUME NEW m, NEW buf \in Seq(BufRecord), NEW e \in BufRecord, NEW k \in AllKeys
    PROVE  Applied(m, Append(buf, e))[k] = IF e.k = k THEN e.v ELSE Applied(m, buf)[k]
  <1> DEFINE n == Len(buf)
  <1>0. PICK b : b = Append(buf, e)
    OBVIOUS
  <1>1. /\ n \in Nat /\ DOMAIN buf = 1..n /\ DOMAIN b = 1..(n + 1)
        /\ b[n + 1] = e /\ \A i \in 1..n : b[i] = buf[i]
    BY <1>0
  <1> HIDE DEF n
  <1>2. CASE e.k = k
    <2>1. n + 1 \in Mine(b, k) /\ \A j \in Mine(b, k) : j \in Nat /\ j <= n + 1
      BY <1>1, <1>2 DEF Mine
    <2>2. LastMine(b, k) \in Mine(b, k) /\ \A j \in Mine(b, k) : j <= LastMine(b, k)
      BY <2>1 DEF LastMine
    <2>3. LastMine(b, k) = n + 1
      BY <2>1, <2>2, <1>1
    <2>4. Applied(m, b)[k] = b[LastMine(b, k)].v
      BY <2>1, AppliedIs
    <2>5. QED
      BY <1>0, <1>1, <1>2, <2>3, <2>4
  <1>3. CASE e.k # k
    <2>1. Mine(b, k) = Mine(buf, k)
      BY <1>1, <1>3 DEF Mine
    <2>2. LastMine(b, k) = LastMine(buf, k)
      BY <2>1 DEF LastMine
    <2>3. CASE Mine(buf, k) = {}
      BY <1>0, <1>3, <2>1, <2>3, AppliedIs
    <2>4. CASE Mine(buf, k) # {}
      <3>1. \A i \in Mine(buf, k) : i \in 1..n
        BY <1>1 DEF Mine
      <3>2. LastMine(buf, k) \in 1..n
        <4>1. \E i \in Mine(buf, k) : \A j \in Mine(buf, k) : j <= i
          BY <1>1, <2>4, <3>1, LastOf
        <4>2. QED
          BY <4>1, <3>1 DEF LastMine
      <3>3. b[LastMine(buf, k)].v = buf[LastMine(buf, k)].v
        BY <1>1, <3>2
      <3>4. QED
        BY <1>0, <1>3, <2>1, <2>2, <2>4, <3>3, AppliedIs
    <2>5. QED
      BY <2>3, <2>4
  <1>4. QED
    BY <1>2, <1>3

\* Only the counter's own value and operations decide what a commit leaves there.
LEMMA AppliedSame ==
    ASSUME NEW m, NEW l, NEW buf, NEW k \in AllKeys, m[k] = l[k]
    PROVE  Applied(m, buf)[k] = Applied(l, buf)[k]
  BY AppliedIs

LEMMA IncrementsDoes ==
    ASSUME NEW buf \in Seq(BufRecord)
    PROVE  /\ Increments(buf) \in Nat
           /\ Mine(buf, Counter) = {} => Increments(buf) = 0
           /\ \A e \in BufRecord :
                Increments(Append(buf, e)) = IF e.k = Counter THEN Increments(buf) + 1 ELSE Increments(buf)
  <1> DEFINE n == Len(buf)
  <1>1. n \in Nat /\ DOMAIN buf = 1..n
    OBVIOUS
  <1>2. Increments(buf) = Cardinality(Mine(buf, Counter))
    BY DEF Increments, Mine
  <1>3. Mine(buf, Counter) \subseteq 1..n
    BY <1>1 DEF Mine
  <1>4. IsFiniteSet(Mine(buf, Counter))
    <2>1. IsFiniteSet(1..n)
      <3> HIDE DEF n
      <3>1. QED
        BY <1>1, FS_Interval
    <2>2. QED
      BY <2>1, <1>3, FS_Subset
  <1>5. ASSUME NEW e \in BufRecord
        PROVE  Increments(Append(buf, e)) = IF e.k = Counter THEN Increments(buf) + 1 ELSE Increments(buf)
    <2>0. PICK b : b = Append(buf, e)
      OBVIOUS
    <2>1. DOMAIN b = 1..(n + 1) /\ b[n + 1] = e /\ \A i \in 1..n : b[i] = buf[i]
      BY <2>0
    <2> HIDE DEF n
    <2>2. Increments(b) = Cardinality(Mine(b, Counter))
      BY DEF Increments, Mine
    <2>3. CASE e.k = Counter
      <3>1. Mine(b, Counter) = Mine(buf, Counter) \cup {n + 1} /\ n + 1 \notin Mine(buf, Counter)
        BY <1>1, <2>1, <2>3 DEF Mine
      <3>2. Cardinality(Mine(b, Counter)) = Cardinality(Mine(buf, Counter)) + 1
        BY <3>1, <1>4, FS_AddElement
      <3>3. QED
        BY <2>0, <2>2, <2>3, <3>2, <1>2
    <2>4. CASE e.k # Counter
      <3>1. Mine(b, Counter) = Mine(buf, Counter)
        BY <1>1, <2>1, <2>4 DEF Mine
      <3>2. QED
        BY <2>0, <2>2, <2>4, <3>1, <1>2
    <2>5. QED
      BY <2>3, <2>4
  <1>6. QED
    BY <1>2, <1>4, <1>5, FS_CardinalityType, FS_EmptySet
-----------------------------------------------------------------------------
(* The storage backends: tasks                                             *)

LEMMA TailDoes ==
    ASSUME NEW X, NEW q \in Seq(X), Len(q) # 1, q # <<>>, NEW r, r = Tail(q)
    PROVE  /\ r \in Seq(X) /\ r # <<>> /\ Len(r) = Len(q) - 1
           /\ DOMAIN r = 1..Len(r) /\ DOMAIN q = 1..Len(q) /\ Len(q) \in Nat
           /\ \A j \in DOMAIN r : r[j] = q[j + 1] /\ j + 1 \in DOMAIN q
  <1>1. Len(q) \in Nat /\ Len(q) > 1
    <2>1. Len(q) \in Nat
      OBVIOUS
    <2>2. Len(q) # 0
      OBVIOUS
    <2>3. \A n \in Nat : n # 0 /\ n # 1 => n > 1
      OBVIOUS
    <2>4. QED
      BY <2>1, <2>2, <2>3, Zenon
  <1>2. r \in Seq(X) /\ Len(r) = Len(q) - 1
    BY <1>1
  <1>3. DOMAIN r = 1..Len(r) /\ DOMAIN q = 1..Len(q) /\ r # <<>>
    BY <1>1, <1>2
  <1>4. \A j \in DOMAIN r : r[j] = q[j + 1] /\ j + 1 \in DOMAIN q
    BY <1>1, <1>2, <1>3
  <1>5. QED
    BY <1>1, <1>2, <1>3, <1>4

LEMMA TaskFields ==
    ASSUME NEW t \in TaskRecord
    PROVE  /\ t.pc \in StorePcs /\ t.op \in StoreOps /\ t.id \in 0..MaxReqs
           /\ t.calls \in Seq(CallRecord) /\ t.buf \in Seq(BufRecord) /\ t.todo \in Seq(AllKeys)
           /\ t.delta \in Int /\ t.copy \in Seq(Int) /\ t.alone \in BOOLEAN
  BY DEF TaskRecord

LEMMA NoTaskOk ==
    /\ NoTask \in TaskRecord /\ TaskInv(NoTask)
    /\ NoTask.pc = "idle" /\ NoTask.op = "none" /\ NoTask.buf = <<>>
  <1>1. /\ NoTask.pc = "idle" /\ NoTask.op = "none" /\ NoTask.id = 0 /\ NoTask.calls = <<>>
        /\ NoTask.buf = <<>>
    BY DEF NoTask
  <1>2. NoTask \in TaskRecord
    <2>1. <<>> \in Seq(CallRecord) /\ <<>> \in Seq(BufRecord) /\ <<>> \in Seq(AllKeys) /\ <<>> \in Seq(Int)
      OBVIOUS
    <2>2. 0 \in 0..MaxReqs
      BY StorageAssumption
    <2>3. QED
      BY <2>1, <2>2 DEF NoTask, TaskRecord, StorePcs, StoreOps
  <1>3. PcInv(NoTask)
    BY <1>1 DEF PcInv
  <1>4. TxInv(NoTask)
    BY <1>1, StorageAssumption DEF TxInv
  <1>5. CallsInv("none", <<>>)
    BY DEF CallsInv
  <1>6. QED
    BY <1>1, <1>2, <1>3, <1>4, <1>5 DEF TaskInv, Replacing

\* What a task is after a step that leaves the others alone.
Follows(s, t) ==
    \/ t = NoTask
    \/ /\ t \in TaskRecord /\ TaskInv(t)
       /\ t.op = s.op /\ t.id = s.id /\ t.buf = s.buf /\ t.pc \notin {"tx", "commit", "idle"}

\* A step that does not end an installation into memory.
Moves(s, t) == Follows(s, t) /\ (backend = "memory" /\ s.op = "install" => t.op = "install")

Running(s) == s \in TaskRecord /\ TaskInv(s) /\ s.pc \notin {"idle", "tx", "commit"}

\* The first call of a running task.
LEMMA FirstCall ==
    ASSUME NEW s, Running(s)
    PROVE  /\ s.calls # <<>> /\ 1 \in DOMAIN s.calls
           /\ Head(s.calls) = s.calls[1] /\ s.calls[1] \in CallRecord
           /\ StoreCallInv(s.op, s.calls[1])
           /\ backend = "memory" /\ s.op = "install" =>
                s.pc = "run" /\ s.calls[1].f \in {"lock", "raw", "set_counts"}
  <1>0. PICK q : q = s.calls
    OBVIOUS
  <1>1. q # <<>> /\ q \in Seq(CallRecord)
    BY <1>0, TaskFields DEF Running, TaskInv, PcInv
  <1>2. 1 \in DOMAIN q /\ Head(q) = q[1] /\ q[1] \in CallRecord
    BY <1>1
  <1>3. CallsInv(s.op, q)
    BY <1>0 DEF Running, TaskInv
  <1>4. StoreCallInv(s.op, q[1])
    BY <1>2, <1>3 DEF CallsInv
  <1>5. backend = "memory" /\ s.op = "install" => q[1].f \in {"lock", "raw", "set_counts"}
    BY <1>2, <1>3 DEF CallsInv
  <1>6. backend = "memory" /\ s.op = "install" => s.pc = "run"
    BY DEF Running, TaskInv, PcInv
  <1>7. QED
    BY <1>0, <1>1, <1>2, <1>4, <1>5, <1>6

\* A call is over.
LEMMA AfterOk ==
    ASSUME NEW s, Running(s), NEW t, t = After(s)
    PROVE  /\ Follows(s, t)
           /\ s.calls[1].f # "set_counts" => Moves(s, t)
  <1>0. PICK q : q = s.calls
    OBVIOUS
  <1>1. q # <<>> /\ q \in Seq(CallRecord)
    BY <1>0, TaskFields, FirstCall DEF Running
  <1>2. CallsInv(s.op, q)
    BY <1>0 DEF Running, TaskInv
  <1>3. CASE Len(q) = 1
    <2>1. t = NoTask
      BY <1>0, <1>3 DEF After
    <2>2. 1 \in DOMAIN q
      BY <1>1
    <2>3. backend = "memory" /\ s.op = "install" => q[1].f = "set_counts"
      BY <1>2, <1>3, <2>2 DEF CallsInv
    <2>4. QED
      BY <1>0, <2>1, <2>3 DEF Follows, Moves
  <1>4. CASE Len(q) # 1
    <2>0. PICK r : r = Tail(q)
      OBVIOUS
    <2>1. t = [s EXCEPT !.pc = "run", !.calls = r, !.todo = <<>>, !.delta = 0]
      BY <1>0, <1>4, <2>0 DEF After
    <2>2. /\ r \in Seq(CallRecord) /\ r # <<>> /\ Len(r) = Len(q) - 1
          /\ DOMAIN r = 1..Len(r) /\ DOMAIN q = 1..Len(q) /\ Len(q) \in Nat
          /\ \A j \in DOMAIN r : r[j] = q[j + 1] /\ j + 1 \in DOMAIN q
      BY <1>1, <1>4, <2>0, TailDoes
    <2>3. /\ t \in TaskRecord /\ t.op = s.op /\ t.id = s.id /\ t.buf = s.buf /\ t.pc = "run"
          /\ t.calls = r
      <3>1. PICK z \in Int : z = 0
        OBVIOUS
      <3>2. t = [s EXCEPT !.pc = "run", !.calls = r, !.todo = <<>>, !.delta = z]
        BY <2>1, <3>1
      <3>3. <<>> \in Seq(AllKeys)
        OBVIOUS
      <3>4. s \in TaskRecord /\ "run" \in StorePcs /\ r \in Seq(CallRecord)
        BY <2>2 DEF Running, StorePcs
      <3>5. QED
        BY <3>2, <3>3, <3>4 DEF TaskRecord
    <2>4. CallsInv(t.op, r)
      <3>1. \A j \in DOMAIN r : StoreCallInv(s.op, r[j])
        BY <1>2, <2>2 DEF CallsInv
      <3>2. \A j \in DOMAIN r : j = Len(r) <=> j + 1 = Len(q)
        BY <2>2
      <3>3. QED
        BY <1>2, <2>2, <2>3, <3>1, <3>2 DEF CallsInv
    <2>5. PcInv(t)
      BY <2>2, <2>3 DEF PcInv, Running, TaskInv
    <2>6. TxInv(t)
      BY <2>3 DEF TxInv, Running, TaskInv
    <2>7. TaskInv(t)
      BY <2>3, <2>4, <2>5, <2>6 DEF Running, TaskInv
    <2>8. QED
      BY <2>3, <2>7 DEF Follows, Moves
  <1>5. QED
    BY <1>3, <1>4

\* A call goes on with another step.
LEMMA PcOk ==
    ASSUME NEW s, Running(s), ~(backend = "memory" /\ s.op = "install"),
           NEW pc \in StorePcs, pc \notin {"idle", "tx", "commit"},
           NEW d \in Int, NEW todo \in Seq(AllKeys),
           NEW t, t = [s EXCEPT !.pc = pc, !.todo = todo, !.delta = d],
           pc \in {"insert", "remove", "sweep", "sweep_all"} => backend # "memory",
           pc = "insert" => s.calls[1].f = "put",
           pc = "remove" => s.calls[1].f = "delete",
           pc = "sweep" => todo # <<>>,
           pc \in {"sweep", "sweep_all"} /\ s.op \notin Replacing => \A j \in DOMAIN todo : todo[j] \in Keys
    PROVE  Moves(s, t)
  <1>1. /\ t \in TaskRecord /\ t.op = s.op /\ t.id = s.id /\ t.buf = s.buf /\ t.pc = pc
        /\ t.calls = s.calls /\ t.todo = todo
    BY DEF Running, TaskRecord
  <1>2. TxInv(t)
    BY <1>1 DEF TxInv, Running, TaskInv
  <1>3. PcInv(t)
    BY <1>1, FirstCall DEF PcInv, Running, TaskInv
  <1>4. TaskInv(t)
    BY <1>1, <1>2, <1>3 DEF Running, TaskInv
  <1>5. QED
    BY <1>1, <1>4 DEF Follows, Moves

\* A request of one call goes on with another call.
LEMMA CallOk ==
    ASSUME NEW s, Running(s), s.pc = "run", ~(backend = "memory" /\ s.op = "install"),
           NEW x \in CallRecord, StoreCallInv(s.op, x), NEW t, t = [s EXCEPT !.calls = <<x>>]
    PROVE  Moves(s, t)
  <1>0. PICK q : q = <<x>>
    OBVIOUS
  <1>1. q \in Seq(CallRecord) /\ q # <<>> /\ DOMAIN q = {1} /\ q[1] = x
    BY <1>0
  <1>2. /\ t \in TaskRecord /\ t.op = s.op /\ t.id = s.id /\ t.buf = s.buf /\ t.pc = "run"
        /\ t.calls = q
    BY <1>0, <1>1 DEF Running, TaskRecord
  <1>3. TxInv(t)
    BY <1>2 DEF TxInv, Running, TaskInv
  <1>4. PcInv(t)
    BY <1>1, <1>2 DEF PcInv, Running, TaskInv
  <1>5. CallsInv(t.op, q)
    BY <1>1, <1>2 DEF CallsInv
  <1>6. TaskInv(t)
    BY <1>2, <1>3, <1>4, <1>5 DEF Running, TaskInv
  <1>7. QED
    BY <1>2, <1>6 DEF Follows, Moves
-----------------------------------------------------------------------------
(* The storage backends: what a step does not undo                         *)

\* Requests are settled for good, and what was used stays used.
Grows ==
    /\ backend' = backend /\ used \subseteq used'
    /\ reqs \in Nat /\ reqs' \in Nat /\ reqs <= reqs'
    /\ Settled \subseteq Settled'

LEMMA GrowsValues ==
    ASSUME Grows
    PROVE  /\ \A v : OkValue(v) => OkValue(v)'
           /\ \A m : OkMap(m) => OkMap(m)'
  <1>1. \A v : Number(v)' = Number(v)
    BY DEF Number
  <1>2. Atomic' <=> Atomic
    BY DEF Grows, Atomic
  <1>3. \A v : OkValue(v) => OkValue(v)'
    BY <1>2 DEF Grows, OkValue, Number
  <1>4. QED
    BY <1>3 DEF OkMap

LEMMA GrowsCalls ==
    ASSUME Grows, snap' = snap \/ OkMap(snap')
    PROVE  /\ \A op, x : StoreCallInv(op, x) => StoreCallInv(op, x)'
           /\ \A op, q : CallsInv(op, q) => CallsInv(op, q)'
  <1>1. /\ \A v : OkValue(v) => OkValue(v)'
        /\ \A m : OkMap(m) => OkMap(m)'
    BY GrowsValues
  <1>2. OkMap(snap) => OkMap(snap)'
    BY <1>1
  <1>3. backend' = backend
    BY DEF Grows
  <1>4. \A op, x : StoreCallInv(op, x) => StoreCallInv(op, x)'
    BY <1>1, <1>2, <1>3 DEF StoreCallInv
  <1>5. QED
    BY <1>3, <1>4 DEF CallsInv

LEMMA GrowsTask ==
    ASSUME Grows, snap' = snap \/ OkMap(snap'),
           NEW t \in TaskRecord, TaskInv(t), t.op = "tx" => status'[t.id] \in {"plain", "open"}
    PROVE  TaskInv(t)'
  <1>1. PcInv(t)'
    BY DEF TaskInv, PcInv, Grows
  <1>2. CallsInv(t.op, t.calls)'
    BY GrowsCalls DEF TaskInv
  <1>3. t.op = "tx" => t.id \in 1..reqs'
    BY DEF TaskInv, TxInv, Grows
  <1>4. TxInv(t)'
    BY <1>3 DEF TaskInv, TxInv, Grows
  <1>5. QED
    BY <1>1, <1>2, <1>4 DEF TaskInv, Grows

LEMMA CalmStays == Grows /\ Calm' => Calm
  BY DEF Grows, Calm

\* A request that is settled stays settled when its task goes on or ends.
LEMMA FollowsGrows ==
    ASSUME StorageInv, NEW c \in Clients, NEW t, task' = [task EXCEPT ![c] = t],
           t.op = "tx" => task[c].op = "tx" /\ t.id = task[c].id,
           UNCHANGED <<backend, reqs>>, used \subseteq used',
           \A i \in Settled : status'[i] \in {"plain", "done"}
    PROVE  Grows
  <1>1. \A d \in Clients : task'[d].op = "tx" => task[d].op = "tx" /\ task'[d].id = task[d].id
    BY DEF StorageInv, TasksInv
  <1>2. Settled \subseteq Settled'
    BY <1>1 DEF Settled
  <1>3. reqs \in Nat
    BY StorageAssumption DEF StorageInv, StoreInv
  <1>4. QED
    BY <1>2, <1>3 DEF Grows

\* The counter after a step of a task that is in no transaction.
CounterKept ==
    Calm =>
      \/ data'[Counter] = data[Counter] /\ incs' = incs
      \/ backend = "memory" /\ data'[Counter] = data[Counter] + 1 /\ incs' = incs + 1

LEMMA NothingAdded == \A n \in Nat : n + 0 = n
  OBVIOUS

LEMMA CountersAgree ==
    ASSUME StorageInv, Grows, CounterKept, incs' \in Nat,
           \A d \in Clients : task'[d].pc = "tx" => task[d].pc = "tx" /\ task'[d].buf = task[d].buf
    PROVE  CountInv'
  <1>1. SUFFICES ASSUME Calm'
        PROVE  /\ data'[Counter] = incs'
               /\ \A d \in Clients : task'[d].pc = "tx" =>
                    Applied(data', task'[d].buf)[Counter] = incs' + Increments(task'[d].buf)
    BY DEF CountInv, Applied, Increments
  <1>2. Calm
    BY <1>1, CalmStays
  <1>3. /\ data[Counter] = incs /\ incs \in Nat
        /\ \A d \in Clients : task[d].pc = "tx" =>
             Applied(data, task[d].buf)[Counter] = incs + Increments(task[d].buf)
    BY <1>2 DEF StorageInv, StoreInv, CountInv
  <1>4. data'[Counter] = incs'
    BY <1>2, <1>3 DEF CounterKept
  <1>5. ASSUME NEW d \in Clients, task'[d].pc = "tx"
        PROVE  Applied(data', task'[d].buf)[Counter] = incs' + Increments(task'[d].buf)
    <2>0. PICK b : b = task[d].buf
      OBVIOUS
    <2>1. task[d].pc = "tx" /\ task'[d].buf = b /\ b \in Seq(BufRecord) /\ TxInv(task[d])
      BY <1>5, <2>0, TaskFields DEF StorageInv, TasksInv, TaskInv
    <2>2. Counter \in AllKeys
      BY DEF AllKeys
    <2>3. CASE data'[Counter] = data[Counter] /\ incs' = incs
      <3>1. Applied(data', b)[Counter] = Applied(data, b)[Counter]
        BY <2>2, <2>3, AppliedSame
      <3>2. QED
        BY <1>3, <2>0, <2>1, <2>3, <3>1
    <2>4. CASE backend = "memory"
      <3>1. "tx_increment" \notin used
        BY <1>2, <2>4 DEF Calm, SingleWriter
      <3>2. Mine(b, Counter) = {}
        <4>1. \A j \in DOMAIN b : b[j].k # Counter
          BY <2>0, <2>1, <3>1 DEF TxInv
        <4>2. QED
          BY <4>1 DEF Mine
      <3>3. Increments(b) = 0
        BY <2>1, <3>2, IncrementsDoes
      <3>4. Applied(data', b)[Counter] = data'[Counter]
        BY <2>2, <3>2, AppliedIs
      <3>5. incs' + 0 = incs'
        BY NothingAdded, Zenon
      <3>6. Applied(data', b)[Counter] = incs' + Increments(b)
        BY <1>4, <3>3, <3>4, <3>5, Zenon
      <3>7. QED
        BY <2>1, <3>6
    <2>5. QED
      BY <1>2, <2>3, <2>4 DEF CounterKept
  <1>6. QED
    BY <1>4, <1>5

\* What a step does to the lock: nothing, or its holder frees it, or an
\* installation into memory takes it.
LockMoves(c, t) ==
    \/ writer' = writer /\ (backend = "memory" /\ task[c].op = "install" => t.op = "install")
    \/ writer' = IF writer = c THEN None ELSE writer
    \/ writer' = c /\ backend = "memory" /\ t.op = "install"

LEMMA LockKept ==
    ASSUME StorageInv, NEW c \in Clients, NEW t, task' = [task EXCEPT ![c] = t],
           task[c].pc # "tx", t.pc # "tx", backend' = backend, LockMoves(c, t),
           backend = "memory" /\ t.op = "install" => t.pc = "run"
    PROVE  LockInv' /\ writer' \in Clients \cup {None}
  <1>1. /\ \A d \in Clients : d # c => task'[d] = task[d]
        /\ task'[c] = t
    BY DEF StorageInv, TasksInv
  <1>2. /\ writer \in Clients \cup {None} /\ None \notin Clients
        /\ writer # None =>
             \/ backend \in SingleWriter /\ task[writer].pc = "tx"
             \/ backend = "memory" /\ task[writer].op = "install" /\ task[writer].pc = "run"
        /\ backend \in SingleWriter => \A d \in Clients : task[d].pc = "tx" => writer = d
    BY StorageAssumption DEF StorageInv, StoreInv, LockInv, LockHasOwner
  <1>3. "memory" \notin SingleWriter
    BY DEF SingleWriter
  <1>4. LockHasOwner' /\ writer' \in Clients \cup {None}
    BY <1>1, <1>2, <1>3 DEF LockMoves, LockHasOwner
  <1>5. backend \in SingleWriter => \A d \in Clients : task'[d].pc = "tx" => writer' = d
    BY <1>1, <1>2, <1>3 DEF LockMoves
  <1>6. QED
    BY <1>4, <1>5 DEF LockInv

\* A step of a task that is in no transaction.
LEMMA PlainStep ==
    ASSUME StorageInv, NEW c \in Clients, Running(task[c]),
           NEW t, task' = [task EXCEPT ![c] = t], Follows(task[c], t), LockMoves(c, t),
           UNCHANGED <<backend, reqs, status, used, overlap>>,
           snap' = snap \/ OkMap(snap'),
           OkMap(data'), entries' \in 0..(Wrap - 1), incs' \in Nat, CounterKept
    PROVE  StorageInv'
  <1>1. /\ t \in TaskRecord /\ TaskInv(t) /\ t.pc \notin {"tx", "commit"}
        /\ t.op = "tx" => task[c].op = "tx" /\ t.id = task[c].id
    BY NoTaskOk DEF Follows
  <1>2. Grows
    BY <1>1, FollowsGrows DEF Settled
  <1>3. /\ \A d \in Clients : d # c => task'[d] = task[d]
        /\ task'[c] = t
        /\ task' \in [Clients -> TaskRecord]
    BY <1>1 DEF StorageInv, TasksInv
  <1>4. ASSUME NEW d \in Clients PROVE TaskInv(task[d])'
    <2>0. PICK u : u = task'[d]
      OBVIOUS
    <2>1. u \in TaskRecord /\ TaskInv(u)
      BY <1>1, <1>3, <2>0 DEF StorageInv, TasksInv
    <2>2. u.op = "tx" => status'[u.id] \in {"plain", "open"}
      BY <2>1 DEF TaskInv, TxInv
    <2>3. TaskInv(u)'
      BY <1>2, <2>1, <2>2, GrowsTask
    <2>4. QED
      BY <2>0, <2>3
  <1>5. TasksInv'
    <2>1. \A d, e \in Clients :
            task'[d].op = "tx" /\ task'[e].op = "tx" /\ task'[d].id = task'[e].id => d = e
      BY <1>1, <1>3 DEF StorageInv, TasksInv
    <2>2. QED
      BY <1>3, <1>4, <2>1 DEF TasksInv
  <1>6. LockInv' /\ writer' \in Clients \cup {None}
    <2>1. backend = "memory" /\ t.op = "install" => t.pc = "run"
      BY <1>1 DEF TaskInv, PcInv
    <2>2. QED
      BY <1>1, <2>1, LockKept DEF Running
  <1>7. CountInv'
    BY <1>1, <1>2, <1>3, CountersAgree
  <1>8. StoreInv'
    <2>1. \A m : OkMap(m) => OkMap(m)'
      BY <1>2, GrowsValues
    <2>2. OkMap(data)' /\ (snap' = None \/ OkMap(snap)')
      BY <2>1 DEF StorageInv, StoreInv
    <2>3. QED
      BY <1>6, <2>2 DEF StorageInv, StoreInv, Wrap, Ids
  <1>9. QED
    BY <1>5, <1>6, <1>7, <1>8 DEF StorageInv
-----------------------------------------------------------------------------
(* The storage backends: single operations                                 *)

\* The task of c moves, and no other.
Advances(c) == \E t : task' = [task EXCEPT ![c] = t] /\ Moves(task[c], t)

LEMMA TaskRuns ==
    ASSUME StorageInv, NEW c \in Clients, task[c].pc \notin {"idle", "tx", "commit"}
    PROVE  Running(task[c])
  BY DEF StorageInv, TasksInv, Running

LEMMA CurrentIs ==
    ASSUME NEW c \in Clients, Running(task[c])
    PROVE  /\ Current(c) = task[c].calls[1]
           /\ Current(c).f \in CallNames /\ Current(c).k \in AllKeys /\ Current(c).v \in Int
           /\ StoreCallInv(task[c].op, Current(c))
  BY FirstCall DEF Current, CallRecord

LEMMA ReturnDoes ==
    ASSUME NEW c \in Clients, Running(task[c]), Return(c)
    PROVE  /\ \E t : task' = [task EXCEPT ![c] = t] /\ Follows(task[c], t)
           /\ Current(c).f # "set_counts" => Advances(c)
  <1>1. PICK t : t = After(task[c])
    OBVIOUS
  <1>2. task' = [task EXCEPT ![c] = t]
    BY <1>1 DEF Return
  <1>3. Follows(task[c], t) /\ (task[c].calls[1].f # "set_counts" => Moves(task[c], t))
    BY <1>1, AfterOk
  <1>4. QED
    BY <1>2, <1>3, CurrentIs DEF Advances

LEMMA RecordDoes ==
    ASSUME StorageInv, NEW c \in Clients, Running(task[c]), NEW n \in Int, Record(c, n),
           Current(c).f # "set_counts" \/ backend # "memory",
           n # 0 => ~(backend = "memory" /\ task[c].op = "install")
    PROVE  Advances(c)
  <1>1. CASE n = 0
    <2>1. PICK t : task' = [task EXCEPT ![c] = t] /\ Follows(task[c], t)
      BY <1>1, ReturnDoes DEF Record
    <2>2. backend # "memory" => Advances(c)
      BY <2>1 DEF Advances, Moves
    <2>3. QED
      BY <1>1, <2>2, ReturnDoes DEF Record
  <1>2. CASE n # 0
    <2>1. PICK s : s = task[c]
      OBVIOUS
    <2>2. PICK t : t = [s EXCEPT !.pc = "stats", !.todo = s.todo, !.delta = n]
      OBVIOUS
    <2>3. s \in TaskRecord /\ "stats" \in StorePcs /\ s.todo \in Seq(AllKeys)
      BY <2>1, TaskFields DEF Running, StorePcs
    <2>4. t = [s EXCEPT !.pc = "stats", !.delta = n]
      BY <2>2, <2>3 DEF TaskRecord
    <2>5. task' = [task EXCEPT ![c] = t]
      BY <1>2, <2>1, <2>4 DEF Record, StorageInv, TasksInv
    <2>6. Moves(s, t)
      BY <1>2, <2>1, <2>2, <2>3, PcOk
    <2>7. QED
      BY <2>1, <2>5, <2>6 DEF Advances
  <1>3. QED
    BY <1>1, <1>2

\* A step to another point of the same call.
LEMMA PointDoes ==
    ASSUME StorageInv, NEW c \in Clients, Running(task[c]), backend # "memory",
           NEW pc \in {"insert", "remove", "sweep", "sweep_all"},
           NEW d \in Int, NEW todo \in Seq(AllKeys),
           pc = "insert" => Current(c).f = "put",
           pc = "remove" => Current(c).f = "delete",
           pc = "sweep" => todo # <<>>,
           pc \in {"sweep", "sweep_all"} /\ task[c].op \notin Replacing => \A j \in DOMAIN todo : todo[j] \in Keys,
           NEW t, t = [task[c] EXCEPT !.pc = pc, !.todo = todo, !.delta = d],
           task' = [task EXCEPT ![c] = t]
    PROVE  Advances(c)
  <1>1. PICK s : s = task[c]
    OBVIOUS
  <1>2. pc \in StorePcs /\ pc \notin {"idle", "tx", "commit"}
    BY DEF StorePcs
  <1>3. /\ Running(s) /\ ~(backend = "memory" /\ s.op = "install")
        /\ t = [s EXCEPT !.pc = pc, !.todo = todo, !.delta = d]
        /\ pc = "insert" => s.calls[1].f = "put"
        /\ pc = "remove" => s.calls[1].f = "delete"
        /\ pc \in {"sweep", "sweep_all"} /\ s.op \notin Replacing =>
             \A j \in DOMAIN todo : todo[j] \in Keys
    BY <1>1, CurrentIs
  <1>4. Moves(s, t)
    BY <1>2, <1>3, PcOk
  <1>5. QED
    BY <1>1, <1>4 DEF Advances

LEMMA AdvanceStep ==
    ASSUME StorageInv, NEW c \in Clients, Running(task[c]), Advances(c), writer' = writer, Quiet,
           OkMap(data'), entries' \in 0..(Wrap - 1), incs' \in Nat, CounterKept
    PROVE  StorageInv'
  <1>1. PICK t : task' = [task EXCEPT ![c] = t] /\ Moves(task[c], t)
    BY DEF Advances
  <1>2. Follows(task[c], t) /\ LockMoves(c, t)
    BY <1>1 DEF Moves, LockMoves
  <1>3. UNCHANGED <<backend, reqs, status, used, overlap>> /\ snap' = snap
    BY DEF Quiet
  <1>4. QED
    BY <1>1, <1>2, <1>3, PlainStep

\* A step that leaves the map alone.
LEMMA StillStep ==
    ASSUME StorageInv, NEW c \in Clients, Running(task[c]), Advances(c), Quiet,
           UNCHANGED <<data, writer, incs>>, entries' \in 0..(Wrap - 1)
    PROVE  StorageInv'
  <1>1. OkMap(data') /\ incs' \in Nat /\ CounterKept
    BY DEF StorageInv, StoreInv, CounterKept
  <1>2. QED
    BY <1>1, AdvanceStep

LEMMA SetOk ==
    ASSUME StorageInv, NEW k \in AllKeys, NEW v \in Int, k \in Keys => OkValue(v), Set(k, v)
    PROVE  /\ OkMap(data')
           /\ data'[Counter] = IF k = Counter THEN v ELSE data[Counter]
  <1>1. data \in [AllKeys -> Int] /\ \A l \in Keys : OkValue(data[l])
    BY DEF StorageInv, StoreInv, OkMap
  <1>2. data' = [data EXCEPT ![k] = v]
    BY DEF Set
  <1>3. data' \in [AllKeys -> Int] /\ \A l \in AllKeys : data'[l] = IF l = k THEN v ELSE data[l]
    BY <1>1, <1>2
  <1>4. \A l \in Keys : l \in AllKeys /\ Counter \in AllKeys
    BY DEF AllKeys
  <1>5. Counter \in AllKeys
    BY DEF AllKeys
  <1>6. QED
    BY <1>1, <1>3, <1>4, <1>5 DEF OkMap

LEMMA AbsentOk == OkValue(Absent) /\ Absent \in Int
  BY DEF OkValue, Absent

LEMMA WithoutOk ==
    ASSUME StorageInv, NEW S, Without(S)
    PROVE  /\ OkMap(data')
           /\ data'[Counter] = IF Counter \in S THEN Absent ELSE data[Counter]
  <1>1. data \in [AllKeys -> Int] /\ \A l \in Keys : OkValue(data[l])
    BY DEF StorageInv, StoreInv, OkMap
  <1>2. data' = [k \in AllKeys |-> IF k \in S THEN Absent ELSE data[k]]
    BY DEF Without
  <1>3. (\A l \in Keys : l \in AllKeys) /\ Counter \in AllKeys
    BY DEF AllKeys
  <1>4. data' \in [AllKeys -> Int]
    BY <1>1, <1>2, AbsentOk
  <1>5. QED
    BY <1>1, <1>2, <1>3, <1>4, AbsentOk DEF OkMap

\* A request that replaces the map was used; so was an increment.
LEMMA ReplacingUsed ==
    ASSUME NEW s, Running(s), Calm
    PROVE  s.op \notin Replacing /\ (s.op = "increment" => backend = "memory")
  BY DEF Running, TaskInv, Calm, Replacing

LEMMA CalmCall ==
    ASSUME NEW c \in Clients, Running(task[c]), Calm
    PROVE  /\ Current(c).f \in PlainCalls
           /\ Current(c).f \in {"put", "delete", "cas"} => Current(c).k \in Keys
  BY ReplacingUsed, CurrentIs DEF StoreCallInv

\* A step that writes or removes the key of its call.
LEMMA KeyStep ==
    ASSUME StorageInv, NEW c \in Clients, Running(task[c]), Advances(c), Quiet,
           Current(c).f \in {"put", "delete", "cas", "raw", "raw_counted"},
           NEW v \in {Current(c).v, Absent}, Set(Current(c).k, v),
           CountInc(Current(c).k) \/ incs' = incs, UNCHANGED <<entries, writer>>
    PROVE  StorageInv'
  <1>1. PICK k : k = Current(c).k
    OBVIOUS
  <1>2. k \in AllKeys /\ v \in Int /\ (k \in Keys => OkValue(v)) /\ Set(k, v)
    BY <1>1, CurrentIs, AbsentOk DEF StoreCallInv
  <1>3. OkMap(data') /\ data'[Counter] = IF k = Counter THEN v ELSE data[Counter]
    BY <1>2, SetOk
  <1>4. incs \in Nat /\ entries \in 0..(Wrap - 1)
    BY DEF StorageInv, StoreInv
  <1>5. incs' \in Nat /\ (k # Counter => incs' = incs)
    BY <1>1, <1>4 DEF CountInc
  <1>6. Calm => k \in Keys
    BY <1>1, CalmCall DEF PlainCalls
  <1>7. CounterKept
    BY <1>3, <1>5, <1>6, StorageAssumption DEF CounterKept
  <1>8. QED
    BY <1>3, <1>4, <1>5, <1>7, AdvanceStep

\* On memory, an installation makes none of these calls.
LEMMA NotInstalling ==
    ASSUME NEW c \in Clients, Running(task[c]),
           task[c].pc # "run" \/ Current(c).f \notin {"lock", "raw", "set_counts"}
    PROVE  ~(backend = "memory" /\ task[c].op = "install")
  BY FirstCall, CurrentIs

LEMMA ReadyRuns ==
    ASSUME StorageInv, NEW c \in Clients, NEW f, Ready(c, f)
    PROVE  Running(task[c]) /\ task[c].pc = "run" /\ Current(c).f = f
  <1>1. task[c].pc = "run" /\ Current(c).f = f
    BY DEF Ready
  <1>2. QED
    BY <1>1, TaskRuns

LEMMA NewIs == \A k : New(k) \in Int /\ New(k) - 1 \in Int
  BY DEF New

LEMMA EntriesOk == StorageInv => entries \in 0..(Wrap - 1)
  BY DEF StorageInv, StoreInv

LEMMA CountsWrap ==
    /\ \A e \in 0..(Wrap - 1), n \in Int : (e + n) % Wrap \in 0..(Wrap - 1)
    /\ \A n \in Nat : n % Wrap \in 0..(Wrap - 1)
    /\ 0 \in 0..(Wrap - 1)
  <1>1. \A n \in Int : n % 256 \in 0..255
    OBVIOUS
  <1>2. \A e \in 0..255, n \in Int : e + n \in Int
    OBVIOUS
  <1>3. \A n \in Nat : n \in Int
    OBVIOUS
  <1>4. Wrap = 256 /\ Wrap - 1 = 255
    BY DEF Wrap
  <1>5. ASSUME NEW e \in 0..(Wrap - 1), NEW n \in Int PROVE (e + n) % Wrap \in 0..(Wrap - 1)
    <2>1. e \in 0..255
      BY <1>4
    <2>2. e + n \in Int
      BY <1>2, <2>1
    <2>3. (e + n) % 256 \in 0..255
      BY <1>1, <2>2, Zenon
    <2>4. QED
      BY <1>4, <2>3
  <1>6. ASSUME NEW n \in Nat PROVE n % Wrap \in 0..(Wrap - 1)
    <2>1. n % 256 \in 0..255
      BY <1>1, <1>3, Zenon
    <2>2. QED
      BY <1>4, <2>1
  <1>7. 0 \in 0..(Wrap - 1)
    BY <1>4
  <1>8. QED
    BY <1>5, <1>6, <1>7

LEMMA LookThenInsertStep ==
    ASSUME StorageInv, NEW c \in Clients, LookThenInsert(c), backend # "memory"
    PROVE  StorageInv'
  <1>1. Running(task[c]) /\ Current(c).f = "put"
    BY ReadyRuns DEF LookThenInsert
  <1>2. PICK d \in Int : d = New(Current(c).k)
    BY NewIs
  <1>3. PICK todo \in Seq(AllKeys) : todo = task[c].todo
    BY <1>1, TaskFields DEF Running
  <1>4. PICK t : t = [task[c] EXCEPT !.pc = "insert", !.todo = todo, !.delta = d]
    OBVIOUS
  <1>5. task' = [task EXCEPT ![c] = t]
    BY <1>2, <1>3, <1>4 DEF LookThenInsert, StorageInv, TasksInv, TaskRecord
  <1>6. Advances(c)
    BY <1>1, <1>4, <1>5, PointDoes
  <1>7. QED
    BY <1>1, <1>6, StillStep, EntriesOk DEF LookThenInsert

\* A step to the removal of the key.
LEMMA RemovePoint ==
    ASSUME StorageInv, NEW c \in Clients, Running(task[c]), Current(c).f = "delete", backend # "memory",
           NEW d \in Int, task' = [task EXCEPT ![c].pc = "remove", ![c].delta = d]
    PROVE  Advances(c)
  <1>1. PICK todo \in Seq(AllKeys) : todo = task[c].todo
    BY TaskFields DEF Running
  <1>2. PICK t : t = [task[c] EXCEPT !.pc = "remove", !.todo = todo, !.delta = d]
    OBVIOUS
  <1>3. task' = [task EXCEPT ![c] = t]
    BY <1>1, <1>2 DEF StorageInv, TasksInv, TaskRecord
  <1>4. QED
    BY <1>2, <1>3, PointDoes

LEMMA LookThenRemoveStep ==
    ASSUME StorageInv, NEW c \in Clients, LookThenRemove(c), backend # "memory"
    PROVE  StorageInv'
  <1>1. Running(task[c]) /\ Current(c).f = "delete"
    BY ReadyRuns DEF LookThenRemove
  <1>2. PICK d \in Int : d = IF data[Current(c).k] > 0 THEN -1 ELSE 0
    OBVIOUS
  <1>3. task' = [task EXCEPT ![c].pc = "remove", ![c].delta = d]
    BY <1>2 DEF LookThenRemove
  <1>4. Advances(c)
    BY <1>1, <1>3, RemovePoint
  <1>5. QED
    BY <1>1, <1>4, StillStep, EntriesOk DEF LookThenRemove

LEMMA SkipListDeleteStep ==
    ASSUME StorageInv, NEW c \in Clients, SkipListDelete(c)
    PROVE  StorageInv'
  <1>1. Running(task[c]) /\ Current(c).f = "delete" /\ backend # "memory"
    BY ReadyRuns DEF SkipListDelete, SkipList
  <1>2. CASE Return(c)
    BY <1>1, <1>2, ReturnDoes, StillStep, EntriesOk DEF SkipListDelete
  <1>3. CASE task' = [task EXCEPT ![c].pc = "remove", ![c].delta = -1]
    <2>1. PICK d \in Int : d = -1
      OBVIOUS
    <2>2. task' = [task EXCEPT ![c].pc = "remove", ![c].delta = d]
      BY <1>3, <2>1
    <2>3. Advances(c)
      BY <1>1, <2>2, RemovePoint
    <2>4. QED
      BY <1>1, <2>3, StillStep, EntriesOk DEF SkipListDelete
  <1>4. QED
    BY <1>2, <1>3 DEF SkipListDelete

LEMMA RecordStatsStep ==
    ASSUME StorageInv, NEW c \in Clients, RecordStats(c)
    PROVE  StorageInv'
  <1>1. Running(task[c]) /\ task[c].pc = "stats"
    BY TaskRuns DEF RecordStats
  <1>2. ~(backend = "memory" /\ task[c].op = "install")
    BY <1>1, NotInstalling
  <1>3. PICK t : task' = [task EXCEPT ![c] = t] /\ Follows(task[c], t)
    BY <1>1, ReturnDoes DEF RecordStats
  <1>4. Advances(c)
    BY <1>2, <1>3 DEF Advances, Moves
  <1>5. entries' \in 0..(Wrap - 1)
    <2>1. PICK e, n : e = entries /\ n = task[c].delta
      OBVIOUS
    <2>2. e \in 0..(Wrap - 1) /\ n \in Int
      BY <1>1, <2>1, TaskFields, EntriesOk DEF Running
    <2>3. (e + n) % Wrap \in 0..(Wrap - 1)
      BY <2>2, CountsWrap
    <2>4. QED
      BY <2>1, <2>3 DEF RecordStats
  <1>6. QED
    BY <1>1, <1>4, <1>5, StillStep DEF RecordStats

\* The steps that write the key of a put.
LEMMA PutStep ==
    ASSUME StorageInv, NEW c \in Clients, MemoryPut(c) \/ RedbPut(c) \/ Insert(c)
    PROVE  StorageInv'
  <1>1. CASE MemoryPut(c)
    <2>1. Running(task[c]) /\ Current(c).f = "put"
      BY <1>1, ReadyRuns DEF MemoryPut
    <2>2. PICK n \in Int : n = New(Current(c).k)
      BY NewIs
    <2>3. Record(c, n)
      BY <1>1, <2>2 DEF MemoryPut
    <2>4. Advances(c)
      BY <2>1, <2>3, RecordDoes, NotInstalling
    <2>5. QED
      BY <1>1, <2>1, <2>4, KeyStep DEF MemoryPut
  <1>2. CASE RedbPut(c)
    <2>1. Running(task[c]) /\ Current(c).f = "put"
      BY <1>2, ReadyRuns DEF RedbPut
    <2>2. Advances(c)
      BY <1>2, <2>1, ReturnDoes DEF RedbPut
    <2>3. QED
      BY <1>2, <2>1, <2>2, KeyStep DEF RedbPut
  <1>3. CASE Insert(c)
    <2>1. Running(task[c]) /\ task[c].pc = "insert"
      BY <1>3, TaskRuns DEF Insert
    <2>2. Current(c).f = "put"
      BY <2>1, CurrentIs DEF Running, TaskInv, PcInv
    <2>3. PICK n \in Int : n = task[c].delta
      BY <2>1, TaskFields DEF Running
    <2>4. Record(c, n)
      BY <1>3, <2>3 DEF Insert
    <2>5. Advances(c)
      BY <2>1, <2>2, <2>4, RecordDoes, NotInstalling
    <2>6. QED
      BY <1>3, <2>1, <2>2, <2>5, KeyStep DEF Insert
  <1>4. QED
    BY <1>1, <1>2, <1>3

\* The steps that remove the key of a delete.
LEMMA DeleteStep ==
    ASSUME StorageInv, NEW c \in Clients, MemoryDelete(c) \/ RedbDelete(c) \/ Remove(c)
    PROVE  StorageInv'
  <1>1. CASE MemoryDelete(c)
    <2>1. Running(task[c]) /\ Current(c).f = "delete"
      BY <1>1, ReadyRuns DEF MemoryDelete
    <2>2. PICK n \in Int : n = New(Current(c).k) - 1
      BY NewIs
    <2>3. Record(c, n)
      BY <1>1, <2>2, Zenon DEF MemoryDelete
    <2>4. Advances(c)
      BY <2>1, <2>3, RecordDoes, NotInstalling
    <2>5. QED
      <3>1. /\ Set(Current(c).k, Absent) /\ Quiet /\ UNCHANGED <<entries, writer>>
            /\ incs' = incs
        BY <1>1, Zenon DEF MemoryDelete
      <3>2. QED
        BY <2>1, <2>4, <3>1, KeyStep
  <1>2. CASE RedbDelete(c)
    <2>1. Running(task[c]) /\ Current(c).f = "delete"
      BY <1>2, ReadyRuns DEF RedbDelete
    <2>2. Advances(c)
      BY <1>2, <2>1, ReturnDoes DEF RedbDelete
    <2>3. QED
      BY <1>2, <2>1, <2>2, KeyStep DEF RedbDelete
  <1>3. CASE Remove(c)
    <2>1. Running(task[c]) /\ task[c].pc = "remove"
      BY <1>3, TaskRuns DEF Remove
    <2>2. Current(c).f = "delete"
      BY <2>1, CurrentIs DEF Running, TaskInv, PcInv
    <2>3. PICK n \in Int : n = task[c].delta
      BY <2>1, TaskFields DEF Running
    <2>4. Record(c, n)
      BY <1>3, <2>3 DEF Remove
    <2>5. Advances(c)
      BY <2>1, <2>2, <2>4, RecordDoes, NotInstalling
    <2>6. QED
      BY <1>3, <2>1, <2>2, <2>5, KeyStep DEF Remove
  <1>4. QED
    BY <1>1, <1>2, <1>3

LEMMA RangeCalls ==
    ASSUME StorageInv, NEW c \in Clients, DeletesRange(c)
    PROVE  /\ Running(task[c]) /\ Current(c).f \in {"range", "range_all"}
           /\ Calm \/ task[c].op \notin Replacing => Current(c).f = "range"
           /\ InRange(c) \subseteq AllKeys
           /\ Current(c).f = "range" => InRange(c) \subseteq Keys
           /\ Cardinality(InRange(c)) \in Nat
  <1>1. Running(task[c]) /\ Current(c).f \in {"range", "range_all"}
    BY ReadyRuns DEF DeletesRange
  <1>2. task[c].op \notin Replacing => Current(c).f \in PlainCalls
    BY <1>1, CurrentIs DEF StoreCallInv
  <1>3. Calm => task[c].op \notin Replacing
    BY <1>1, ReplacingUsed
  <1>4. InRange(c) \subseteq AllKeys /\ (Current(c).f = "range" => InRange(c) \subseteq Keys)
    BY DEF InRange, Present, AllKeys
  <1>5. Cardinality(InRange(c)) \in Nat
    BY <1>4, KeysFinite
  <1>6. QED
    BY <1>1, <1>2, <1>3, <1>4, <1>5 DEF PlainCalls

\* A step that removes a set of keys.
LEMMA RangeStep ==
    ASSUME StorageInv, NEW c \in Clients, Running(task[c]), Advances(c), Quiet,
           NEW S, Without(S), Calm => Counter \notin S, UNCHANGED <<entries, writer, incs>>
    PROVE  StorageInv'
  <1>1. OkMap(data') /\ data'[Counter] = IF Counter \in S THEN Absent ELSE data[Counter]
    BY WithoutOk
  <1>2. incs' \in Nat /\ entries' \in 0..(Wrap - 1)
    BY DEF StorageInv, StoreInv
  <1>3. CounterKept
    BY <1>1 DEF CounterKept
  <1>4. QED
    BY <1>1, <1>2, <1>3, AdvanceStep

LEMMA DeleteRangeStep ==
    ASSUME StorageInv, NEW c \in Clients, MemoryDeleteRange(c) \/ RedbDeleteRange(c)
    PROVE  StorageInv'
  <1>0. PICK S : S = InRange(c)
    OBVIOUS
  <1>1. DeletesRange(c) /\ Without(S) /\ UNCHANGED <<entries, writer, incs>> /\ Quiet
    BY <1>0 DEF MemoryDeleteRange, RedbDeleteRange
  <1>2. /\ Running(task[c]) /\ Current(c).f \in {"range", "range_all"}
        /\ Calm => S \subseteq Keys
        /\ Cardinality(S) \in Nat
    BY <1>0, <1>1, RangeCalls
  <1>3. Calm => Counter \notin S
    BY <1>2, StorageAssumption
  <1>4. Advances(c)
    <2>1. CASE MemoryDeleteRange(c)
      <3>1. PICK n \in Int : n = - Cardinality(S)
        BY <1>2
      <3>2. Record(c, n)
        BY <1>0, <2>1, <3>1 DEF MemoryDeleteRange
      <3>3. QED
        BY <1>2, <3>2, RecordDoes, NotInstalling
    <2>2. CASE RedbDeleteRange(c)
      BY <1>2, <2>2, ReturnDoes DEF RedbDeleteRange
    <2>3. QED
      BY <2>1, <2>2
  <1>5. QED
    BY <1>1, <1>2, <1>3, <1>4, RangeStep

LEMMA CollectStep ==
    ASSUME StorageInv, NEW c \in Clients, NEW pc \in {"sweep", "sweep_all"}, Collect(c, pc),
           backend # "memory"
    PROVE  StorageInv'
  <1>0. PICK S : S = InRange(c)
    OBVIOUS
  <1>1. /\ Running(task[c]) /\ Current(c).f \in {"range", "range_all"}
        /\ S \subseteq AllKeys /\ Cardinality(S) \in Nat
        /\ task[c].op \notin Replacing => S \subseteq Keys
    BY <1>0, RangeCalls DEF Collect
  <1>2. CASE S = {}
    <2>1. Return(c)
      BY <1>0, <1>2 DEF Collect
    <2>2. QED
      BY <1>1, <2>1, ReturnDoes, StillStep, EntriesOk DEF Collect
  <1>3. CASE S # {}
    <2>1. PICK todo : todo = Ordered(S)
      OBVIOUS
    <2>2. todo \in Seq(AllKeys) /\ todo # <<>> /\ \A j \in DOMAIN todo : todo[j] \in S
      BY <1>1, <1>3, <2>1, OrderedDoes
    <2>3. PICK d \in Int : d = - Cardinality(S)
      BY <1>1
    <2>4. PICK t : t = [task[c] EXCEPT !.pc = pc, !.todo = todo, !.delta = d]
      OBVIOUS
    <2>5. task' = [task EXCEPT ![c].pc = pc, ![c].todo = todo, ![c].delta = d]
      BY <1>0, <1>3, <2>1, <2>3 DEF Collect
    <2>6. task' = [task EXCEPT ![c] = t]
      BY <2>4, <2>5 DEF StorageInv, TasksInv, TaskRecord
    <2>7. Advances(c)
      BY <1>1, <2>2, <2>4, <2>6, PointDoes
    <2>8. QED
      BY <1>1, <2>7, StillStep, EntriesOk DEF Collect
  <1>4. QED
    BY <1>2, <1>3

LEMMA SweepStep ==
    ASSUME StorageInv, NEW c \in Clients, Sweep(c)
    PROVE  StorageInv'
  <1>1. Running(task[c]) /\ task[c].pc = "sweep"
    BY TaskRuns DEF Sweep
  <1>2. PICK q : q = task[c].todo
    OBVIOUS
  <1>3. /\ q \in Seq(AllKeys) /\ q # <<>> /\ backend # "memory"
        /\ task[c].op \notin Replacing => \A j \in DOMAIN q : q[j] \in Keys
    BY <1>1, <1>2, TaskFields DEF Running, TaskInv, PcInv
  <1>4. PICK k : k = Head(q)
    OBVIOUS
  <1>5. k \in AllKeys /\ k = q[1] /\ 1 \in DOMAIN q
    BY <1>3, <1>4
  <1>6. Set(k, Absent) /\ UNCHANGED <<entries, writer, incs>> /\ Quiet
    BY <1>2, <1>4 DEF Sweep
  <1>7. OkMap(data') /\ data'[Counter] = IF k = Counter THEN Absent ELSE data[Counter]
    BY <1>5, <1>6, AbsentOk, SetOk
  <1>8. CounterKept
    BY <1>1, <1>3, <1>5, <1>6, <1>7, ReplacingUsed, StorageAssumption DEF CounterKept
  <1>9. Advances(c)
    <2>1. CASE Len(q) = 1
      <3>1. PICK n \in Int : n = task[c].delta
        BY <1>1, TaskFields DEF Running
      <3>2. Record(c, n)
        BY <1>2, <2>1, <3>1 DEF Sweep
      <3>3. QED
        BY <1>1, <1>3, <3>2, RecordDoes
    <2>2. CASE Len(q) # 1
      <3>1. PICK r : r = Tail(q)
        OBVIOUS
      <3>2. r \in Seq(AllKeys) /\ r # <<>> /\ \A j \in DOMAIN r : r[j] = q[j + 1] /\ j + 1 \in DOMAIN q
        BY <1>3, <2>2, <3>1, TailDoes
      <3>3. PICK d \in Int : d = task[c].delta
        BY <1>1, TaskFields DEF Running
      <3>4. PICK t : t = [task[c] EXCEPT !.pc = "sweep", !.todo = r, !.delta = d]
        OBVIOUS
      <3>5. task' = [task EXCEPT ![c].todo = r]
        BY <1>2, <2>2, <3>1 DEF Sweep
      <3>6. task' = [task EXCEPT ![c] = t]
        BY <1>1, <3>3, <3>4, <3>5 DEF StorageInv, TasksInv, TaskRecord
      <3>7. task[c].op \notin Replacing => \A j \in DOMAIN r : r[j] \in Keys
        BY <1>3, <3>2
      <3>8. QED
        BY <1>1, <1>3, <3>2, <3>4, <3>6, <3>7, PointDoes
    <2>3. QED
      BY <2>1, <2>2
  <1>10. incs' \in Nat /\ entries' \in 0..(Wrap - 1)
    BY <1>6 DEF StorageInv, StoreInv
  <1>11. QED
    BY <1>1, <1>6, <1>7, <1>8, <1>9, <1>10, AdvanceStep

LEMMA SweepAllStep ==
    ASSUME StorageInv, NEW c \in Clients, SweepAll(c)
    PROVE  StorageInv'
  <1>1. Running(task[c]) /\ task[c].pc = "sweep_all"
    BY TaskRuns DEF SweepAll
  <1>2. PICK q : q = task[c].todo
    OBVIOUS
  <1>3. /\ backend # "memory"
        /\ task[c].op \notin Replacing => \A j \in DOMAIN q : q[j] \in Keys
    BY <1>1, <1>2 DEF Running, TaskInv, PcInv
  <1>4. PICK S : S = {q[j] : j \in DOMAIN q}
    OBVIOUS
  <1>5. Without(S) /\ UNCHANGED <<entries, writer, incs>> /\ Quiet
    BY <1>2, <1>4 DEF SweepAll
  <1>6. Calm => Counter \notin S
    BY <1>1, <1>3, <1>4, ReplacingUsed, StorageAssumption
  <1>7. Advances(c)
    <2>1. PICK n \in Int : n = task[c].delta
      BY <1>1, TaskFields DEF Running
    <2>2. Record(c, n)
      BY <2>1 DEF SweepAll
    <2>3. QED
      BY <1>1, <1>3, <2>2, RecordDoes
  <1>8. QED
    BY <1>1, <1>5, <1>6, <1>7, RangeStep

LEMMA MemoryCasStep ==
    ASSUME StorageInv, NEW c \in Clients, MemoryCas(c)
    PROVE  StorageInv'
  <1>1. Running(task[c]) /\ Current(c).f = "cas"
    BY ReadyRuns DEF MemoryCas
  <1>2. UNCHANGED <<entries, writer, incs>> /\ Quiet
    BY DEF MemoryCas
  <1>3. CASE data[Current(c).k] # Current(c).e
    <2>1. Return(c) /\ UNCHANGED data
      BY <1>3 DEF MemoryCas
    <2>2. QED
      BY <1>1, <1>2, <2>1, ReturnDoes, StillStep, EntriesOk
  <1>4. CASE data[Current(c).k] = Current(c).e
    <2>1. PICK n \in Int : n = IF Current(c).v = Absent THEN New(Current(c).k) - 1 ELSE New(Current(c).k)
      BY NewIs
    <2>2. Record(c, n) /\ Set(Current(c).k, Current(c).v)
      BY <1>4, <2>1 DEF MemoryCas
    <2>3. Advances(c)
      BY <1>1, <2>2, RecordDoes, NotInstalling
    <2>4. QED
      BY <1>1, <1>2, <2>2, <2>3, KeyStep
  <1>5. QED
    BY <1>3, <1>4

\* A step that replaces the calls of its request by one.
LEMMA CallDoes ==
    ASSUME StorageInv, NEW c \in Clients, Running(task[c]), task[c].pc = "run",
           Current(c).f \notin {"lock", "raw", "set_counts"},
           NEW x \in CallRecord, StoreCallInv(task[c].op, x), task' = [task EXCEPT ![c].calls = <<x>>]
    PROVE  Advances(c)
  <1>1. PICK s : s = task[c]
    OBVIOUS
  <1>2. PICK t : t = [s EXCEPT !.calls = <<x>>]
    OBVIOUS
  <1>3. task' = [task EXCEPT ![c] = t]
    BY <1>1, <1>2 DEF StorageInv, TasksInv
  <1>4. Running(s) /\ s.pc = "run" /\ ~(backend = "memory" /\ s.op = "install") /\ StoreCallInv(s.op, x)
    BY <1>1, NotInstalling
  <1>5. Moves(s, t)
    BY <1>2, <1>4, CallOk
  <1>6. QED
    BY <1>1, <1>3, <1>5 DEF Advances

LEMMA ReadThenSwapStep ==
    ASSUME StorageInv, NEW c \in Clients, ReadThenSwap(c)
    PROVE  StorageInv'
  <1>1. Running(task[c]) /\ task[c].pc = "run" /\ Current(c).f = "cas"
    BY ReadyRuns DEF ReadThenSwap
  <1>2. UNCHANGED <<data, entries, writer, incs>> /\ Quiet
    BY DEF ReadThenSwap
  <1>3. CASE Return(c)
    BY <1>1, <1>2, <1>3, ReturnDoes, StillStep, EntriesOk
  <1>4. CASE task' = [task EXCEPT ![c].calls = <<PutOrDelete(Current(c).k, Current(c).v)>>]
    <2>1. PICK x : x = PutOrDelete(Current(c).k, Current(c).v)
      OBVIOUS
    <2>2. /\ x \in CallRecord /\ x.f \in {"put", "delete"}
          /\ x.k = Current(c).k /\ x.v = Current(c).v
      BY <1>1, <2>1, CurrentIs, AbsentOk DEF PutOrDelete, Call, CallRecord, CallNames
    <2>3. StoreCallInv(task[c].op, x)
      BY <1>1, <2>2, CurrentIs DEF StoreCallInv, PlainCalls
    <2>4. Advances(c)
      BY <1>1, <1>4, <2>1, <2>2, <2>3, CallDoes
    <2>5. QED
      BY <1>1, <1>2, <2>4, StillStep, EntriesOk
  <1>5. QED
    BY <1>3, <1>4 DEF ReadThenSwap

LEMMA ReadThenPutStep ==
    ASSUME StorageInv, NEW c \in Clients, ReadThenPut(c), backend # "memory"
    PROVE  StorageInv'
  <1>1. Running(task[c]) /\ task[c].pc = "run" /\ Current(c).f = "increment"
    BY ReadyRuns DEF ReadThenPut
  <1>2. UNCHANGED <<data, entries, writer, incs>> /\ Quiet
    BY DEF ReadThenPut
  <1>3. PICK v \in Int : v = data[Counter] + 1
    BY DEF StorageInv, StoreInv, OkMap, AllKeys
  <1>4. PICK x : x = Call("put", Counter, v, Absent)
    OBVIOUS
  <1>5. x \in CallRecord /\ x.f = "put" /\ x.k = Counter /\ Counter \notin Keys
    BY <1>4, AbsentOk, StorageAssumption DEF Call, CallRecord, CallNames, AllKeys
  <1>6. StoreCallInv(task[c].op, x)
    BY <1>1, <1>5, CurrentIs DEF StoreCallInv, PlainCalls
  <1>7. Advances(c)
    BY <1>1, <1>3, <1>4, <1>5, <1>6, CallDoes DEF ReadThenPut
  <1>8. QED
    BY <1>1, <1>2, <1>7, StillStep, EntriesOk

LEMMA MemoryIncrementStep ==
    ASSUME StorageInv, NEW c \in Clients, MemoryIncrement(c)
    PROVE  StorageInv'
  <1>1. Running(task[c]) /\ Current(c).f = "increment" /\ backend = "memory"
    BY ReadyRuns DEF MemoryIncrement
  <1>2. UNCHANGED <<entries, writer>> /\ Quiet
    BY DEF MemoryIncrement
  <1>3. PICK v \in Int : v = data[Counter] + 1
    BY DEF StorageInv, StoreInv, OkMap, AllKeys
  <1>4. Set(Counter, v) /\ incs' = incs + 1 /\ incs \in Nat
    BY <1>3 DEF MemoryIncrement, CountInc, StorageInv, StoreInv
  <1>5. OkMap(data') /\ data'[Counter] = v
    BY <1>4, SetOk, StorageAssumption DEF AllKeys
  <1>6. incs' \in Nat /\ CounterKept
    BY <1>1, <1>3, <1>4, <1>5 DEF CounterKept
  <1>7. PICK n \in Int : n = New(Counter)
    BY NewIs
  <1>8. Advances(c)
    BY <1>1, <1>7, RecordDoes, NotInstalling DEF MemoryIncrement
  <1>9. QED
    BY <1>1, <1>2, <1>5, <1>6, <1>8, AdvanceStep, EntriesOk

LEMMA WriteKeeps ==
    ASSUME StorageInv, NEW c \in Clients, Write(c)
    PROVE  StorageInv'
  <1>1. "memory" \notin SkipList \cup Fjall \cup {"fjall_tx"}
    BY DEF SkipList, Fjall
  <1>2. CASE MemoryPut(c) \/ RedbPut(c) \/ Insert(c)
    BY <1>2, PutStep
  <1>3. CASE MemoryDelete(c) \/ RedbDelete(c) \/ Remove(c)
    BY <1>3, DeleteStep
  <1>4. CASE SkipListPut(c) \/ FjallPut(c) \/ FjallTxPut(c)
    BY <1>1, <1>4, LookThenInsertStep DEF SkipListPut, FjallPut, FjallTxPut
  <1>5. CASE SkipListDelete(c)
    BY <1>5, SkipListDeleteStep
  <1>6. CASE FjallDelete(c) \/ FjallTxDelete(c)
    BY <1>1, <1>6, LookThenRemoveStep DEF FjallDelete, FjallTxDelete
  <1>7. CASE MemoryDeleteRange(c) \/ RedbDeleteRange(c)
    BY <1>7, DeleteRangeStep
  <1>8. CASE SkipListDeleteRange(c) \/ FjallDeleteRange(c) \/ FjallTxDeleteRange(c)
    BY <1>1, <1>8, CollectStep DEF SkipListDeleteRange, FjallDeleteRange, FjallTxDeleteRange
  <1>9. CASE Sweep(c)
    BY <1>9, SweepStep
  <1>10. CASE SweepAll(c)
    BY <1>10, SweepAllStep
  <1>11. CASE RecordStats(c)
    BY <1>11, RecordStatsStep
  <1>12. QED
    BY <1>2, <1>3, <1>4, <1>5, <1>6, <1>7, <1>8, <1>9, <1>10, <1>11 DEF Write

LEMMA UpdateKeeps ==
    ASSUME StorageInv, NEW c \in Clients, Update(c)
    PROVE  StorageInv'
  <1>1. "memory" \notin Any \cup {"fjall", "fjall_tx"}
    BY DEF Any
  <1>2. CASE MemoryCas(c)
    BY <1>2, MemoryCasStep
  <1>3. CASE FjallCas(c) \/ FjallTxCas(c) \/ AnyCas(c)
    BY <1>3, ReadThenSwapStep DEF FjallCas, FjallTxCas, AnyCas
  <1>4. CASE MemoryIncrement(c)
    BY <1>4, MemoryIncrementStep
  <1>5. CASE FjallIncrement(c) \/ FjallTxIncrement(c) \/ AnyIncrement(c)
    BY <1>1, <1>5, ReadThenPutStep DEF FjallIncrement, FjallTxIncrement, AnyIncrement
  <1>6. QED
    BY <1>2, <1>3, <1>4, <1>5 DEF Update
-----------------------------------------------------------------------------
(* The storage backends: snapshots                                         *)

LEMMA TakesStep ==
    ASSUME StorageInv, NEW c \in Clients, Takes(c), Ready(c, "snapshot")
    PROVE  StorageInv'
  <1>1. Running(task[c]) /\ Current(c).f = "snapshot"
    BY ReadyRuns
  <1>2. PICK t : task' = [task EXCEPT ![c] = t] /\ Moves(task[c], t)
    BY <1>1, ReturnDoes DEF Takes, Advances
  <1>3. Follows(task[c], t) /\ LockMoves(c, t)
    BY <1>2 DEF Moves, LockMoves, Takes
  <1>4. OkMap(snap') /\ OkMap(data') /\ incs' \in Nat /\ entries' \in 0..(Wrap - 1) /\ CounterKept
    BY DEF Takes, StorageInv, StoreInv, CounterKept
  <1>5. UNCHANGED <<backend, reqs, status, used, overlap>>
    BY DEF Takes
  <1>6. QED
    BY <1>1, <1>2, <1>3, <1>4, <1>5, PlainStep

LEMMA SkipListSnapshotStep ==
    ASSUME StorageInv, NEW c \in Clients, SkipListSnapshot(c)
    PROVE  StorageInv'
  <1>1. Running(task[c]) /\ Current(c).f = "snapshot" /\ task[c].pc = "run"
    BY ReadyRuns DEF SkipListSnapshot
  <1>2. backend # "memory" /\ ~Atomic
    BY DEF SkipListSnapshot, SkipList, Atomic, SingleWriter
  <1>3. OkMap(data') /\ incs' \in Nat /\ entries' \in 0..(Wrap - 1) /\ CounterKept
    BY DEF SkipListSnapshot, StorageInv, StoreInv, CounterKept
  <1>4. UNCHANGED <<backend, reqs, status, used, overlap>> /\ writer' = writer
    BY DEF SkipListSnapshot
  <1>5. PICK s : s = task[c]
    OBVIOUS
  <1>6. PICK q : q = s.copy
    OBVIOUS
  <1>7. q \in Seq(Int) /\ Len(q) \in Nat /\ s \in TaskRecord /\ TaskInv(s)
    BY <1>1, <1>5, <1>6, TaskFields DEF Running
  <1>8. /\ Len(KeyOrder) \in Nat /\ DOMAIN KeyOrder = 1..Len(KeyOrder)
        /\ \A i \in DOMAIN KeyOrder : KeyOrder[i] \in AllKeys
    BY StorageAssumption
  <1>9. PICK t : /\ task' = [task EXCEPT ![c] = t] /\ Follows(task[c], t)
                 /\ snap' = snap \/ OkMap(snap')
    <2>1. CASE Len(q) + 1 <= Len(KeyOrder)
      <3>1. PICK v : v = data[KeyOrder[Len(q) + 1]]
        OBVIOUS
      <3>2. v \in Int
        <4>1. Len(q) + 1 \in DOMAIN KeyOrder
          BY <1>7, <1>8, <2>1
        <4>2. QED
          BY <1>8, <3>1, <4>1 DEF StorageInv, StoreInv, OkMap
      <3>3. PICK r : r = Append(q, v)
        OBVIOUS
      <3>4. r \in Seq(Int)
        BY <1>7, <3>2, <3>3
      <3>5. PICK t : t = [s EXCEPT !.copy = r]
        OBVIOUS
      <3>6. task' = [task EXCEPT ![c] = t] /\ snap' = snap
        BY <1>5, <1>6, <2>1, <3>1, <3>3, <3>5 DEF SkipListSnapshot, StorageInv, TasksInv
      <3>7. /\ t \in TaskRecord /\ t.pc = s.pc /\ t.op = s.op /\ t.id = s.id /\ t.buf = s.buf
            /\ t.calls = s.calls /\ t.todo = s.todo
        BY <1>7, <3>4, <3>5 DEF TaskRecord
      <3>8. TaskInv(t)
        BY <1>7, <3>7 DEF TaskInv, PcInv, TxInv
      <3>9. Follows(task[c], t)
        BY <1>1, <1>5, <3>7, <3>8 DEF Follows
      <3>10. QED
        BY <3>6, <3>9
    <2>2. CASE ~(Len(q) + 1 <= Len(KeyOrder))
      <3>1. snap' = [k \in AllKeys |-> q[CHOOSE i \in DOMAIN KeyOrder : KeyOrder[i] = k]] /\ Return(c)
        BY <1>5, <1>6, <2>2 DEF SkipListSnapshot
      <3>2. \A k \in AllKeys : (CHOOSE i \in DOMAIN KeyOrder : KeyOrder[i] = k) \in DOMAIN KeyOrder
        BY StorageAssumption
      <3>3. \A i \in DOMAIN KeyOrder : i \in 1..Len(q)
        BY <1>7, <1>8, <2>2
      <3>4. \A i \in 1..Len(q) : q[i] \in Int
        BY <1>7
      <3>5. snap' \in [AllKeys -> Int]
        BY <3>1, <3>2, <3>3, <3>4
      <3>6. OkMap(snap')
        BY <1>2, <3>5 DEF OkMap, OkValue
      <3>7. QED
        BY <1>1, <3>1, <3>6, ReturnDoes
    <2>3. QED
      BY <2>1, <2>2
  <1>10. LockMoves(c, t)
    BY <1>2, <1>4 DEF LockMoves
  <1>11. QED
    BY <1>1, <1>3, <1>4, <1>9, <1>10, PlainStep

\* The calls that only replacing requests make.
LEMMA ReplacingCall ==
    ASSUME NEW c \in Clients, Running(task[c]), Current(c).f \notin PlainCalls
    PROVE  CounterKept /\ ~Calm
  BY CalmCall DEF CounterKept

LEMMA SwapStep ==
    ASSUME StorageInv, NEW c \in Clients, Swap(c)
    PROVE  StorageInv'
  <1>1. Running(task[c]) /\ Current(c).f = "swap"
    BY ReadyRuns DEF Swap
  <1>2. OkMap(data')
    BY <1>1, CurrentIs DEF Swap, StoreCallInv
  <1>3. Advances(c)
    BY <1>1, ReturnDoes DEF Swap
  <1>4. CounterKept
    BY <1>1, ReplacingCall DEF PlainCalls
  <1>5. writer' = writer /\ Quiet /\ entries' \in 0..(Wrap - 1) /\ incs' \in Nat
    BY DEF Swap, StorageInv, StoreInv
  <1>6. QED
    BY <1>1, <1>2, <1>3, <1>4, <1>5, AdvanceStep

LEMMA LockStep ==
    ASSUME StorageInv, NEW c \in Clients, Lock(c)
    PROVE  StorageInv'
  <1>1. Running(task[c]) /\ Current(c).f = "lock"
    BY ReadyRuns DEF Lock
  <1>2. PICK t : task' = [task EXCEPT ![c] = t] /\ Moves(task[c], t)
    BY <1>1, ReturnDoes DEF Lock, Advances
  <1>3. backend = "memory" /\ task[c].op = "install"
    BY <1>1, CurrentIs DEF StoreCallInv
  <1>4. Follows(task[c], t) /\ LockMoves(c, t)
    BY <1>2, <1>3 DEF Moves, LockMoves, Lock
  <1>5. OkMap(data')
    BY WithoutOk DEF Lock
  <1>6. CounterKept
    BY <1>1, ReplacingCall DEF PlainCalls
  <1>7. entries' \in 0..(Wrap - 1) /\ incs' \in Nat
    BY CountsWrap DEF Lock, StorageInv, StoreInv
  <1>8. UNCHANGED <<backend, reqs, status, used, overlap>> /\ snap' = snap
    BY DEF Lock, Quiet
  <1>9. QED
    BY <1>1, <1>2, <1>4, <1>5, <1>6, <1>7, <1>8, PlainStep

LEMMA ClearStep ==
    ASSUME StorageInv, NEW c \in Clients, Clear(c)
    PROVE  StorageInv'
  <1>1. Running(task[c]) /\ Current(c).f = "clear"
    BY ReadyRuns DEF Clear
  <1>2. UNCHANGED <<entries, writer, incs>> /\ Quiet
    BY DEF Clear
  <1>3. ~Calm
    BY <1>1, ReplacingCall DEF PlainCalls
  <1>4. CASE backend = "memory" \/ Present = {}
    <2>1. Without(AllKeys) /\ Return(c)
      BY <1>4 DEF Clear
    <2>2. QED
      BY <1>1, <1>2, <1>3, <2>1, ReturnDoes, RangeStep
  <1>5. CASE ~(backend = "memory" \/ Present = {})
    <2>1. PICK todo : todo = Ordered(Present)
      OBVIOUS
    <2>2. Present \subseteq AllKeys
      BY DEF Present
    <2>3. todo \in Seq(AllKeys) /\ todo # <<>>
      BY <1>5, <2>1, <2>2, OrderedDoes
    <2>4. PICK d \in Int : d = task[c].delta
      BY <1>1, TaskFields DEF Running
    <2>5. PICK t : t = [task[c] EXCEPT !.pc = "sweep", !.todo = todo, !.delta = d]
      OBVIOUS
    <2>6. task' = [task EXCEPT ![c].pc = "sweep", ![c].todo = todo] /\ data' = data
      BY <1>5, <2>1 DEF Clear
    <2>7. task' = [task EXCEPT ![c] = t]
      BY <2>4, <2>5, <2>6 DEF StorageInv, TasksInv, TaskRecord
    <2>8. task[c].op \in Replacing
      BY <1>1, CurrentIs DEF StoreCallInv, PlainCalls
    <2>9. Advances(c)
      BY <1>1, <1>5, <2>3, <2>5, <2>7, <2>8, PointDoes
    <2>10. QED
      BY <1>1, <1>2, <2>6, <2>9, StillStep, EntriesOk
  <1>6. QED
    BY <1>4, <1>5

LEMMA RawInsertStep ==
    ASSUME StorageInv, NEW c \in Clients, RawInsert(c)
    PROVE  StorageInv'
  <1>1. Running(task[c]) /\ Current(c).f \in {"raw", "raw_counted"}
    BY ReadyRuns DEF RawInsert
  <1>2. PICK n \in Int : n = IF Current(c).f = "raw" THEN 0 ELSE 1
    OBVIOUS
  <1>3. Record(c, n)
    BY <1>2 DEF RawInsert
  <1>4. n # 0 => ~(backend = "memory" /\ task[c].op = "install")
    BY <1>1, <1>2, NotInstalling
  <1>5. Advances(c)
    BY <1>1, <1>3, <1>4, RecordDoes
  <1>6. Set(Current(c).k, Current(c).v) /\ UNCHANGED <<entries, writer, incs>> /\ Quiet
    BY DEF RawInsert
  <1>7. QED
    BY <1>1, <1>5, <1>6, KeyStep

LEMMA EndStep ==
    ASSUME StorageInv, NEW c \in Clients, Reset(c) \/ StreamEnds(c)
    PROVE  StorageInv'
  <1>1. Running(task[c]) /\ Current(c).f \in {"reset", "end"} /\ Return(c)
    BY ReadyRuns DEF Reset, StreamEnds
  <1>2. UNCHANGED <<data, writer, incs>> /\ Quiet /\ entries' \in 0..(Wrap - 1)
    BY EntriesOk, CountsWrap DEF Reset, StreamEnds
  <1>3. QED
    BY <1>1, <1>2, ReturnDoes, StillStep

LEMMA SetCountsStep ==
    ASSUME StorageInv, NEW c \in Clients, SetCounts(c)
    PROVE  StorageInv'
  <1>1. Running(task[c]) /\ Current(c).f = "set_counts"
    BY ReadyRuns DEF SetCounts
  <1>2. PICK t : task' = [task EXCEPT ![c] = t] /\ Follows(task[c], t)
    BY <1>1, ReturnDoes DEF SetCounts
  <1>3. LockMoves(c, t)
    BY DEF LockMoves, SetCounts
  <1>4. OkMap(data') /\ incs' \in Nat /\ CounterKept
    BY DEF SetCounts, StorageInv, StoreInv, CounterKept
  <1>5. entries' \in 0..(Wrap - 1)
    <2>1. {k \in AllKeys : snap[k] # Absent} \subseteq AllKeys
      OBVIOUS
    <2>2. SnapSize \in Nat
      BY <2>1, KeysFinite DEF SnapSize
    <2>3. QED
      BY <2>2, CountsWrap DEF SetCounts
  <1>6. UNCHANGED <<backend, reqs, status, used, overlap>> /\ snap' = snap
    BY DEF SetCounts, Quiet
  <1>7. QED
    BY <1>1, <1>2, <1>3, <1>4, <1>5, <1>6, PlainStep

LEMMA StreamFailsStep ==
    ASSUME StorageInv, NEW c \in Clients, StreamFails(c)
    PROVE  StorageInv'
  <1>1. Running(task[c])
    BY TaskRuns DEF StreamFails
  <1>2. task' = [task EXCEPT ![c] = NoTask] /\ Follows(task[c], NoTask) /\ LockMoves(c, NoTask)
    BY DEF StreamFails, Finish, Follows, LockMoves
  <1>3. OkMap(data') /\ incs' \in Nat /\ CounterKept /\ entries' \in 0..(Wrap - 1)
    BY DEF StreamFails, StorageInv, StoreInv, CounterKept
  <1>4. UNCHANGED <<backend, reqs, status, used, overlap>> /\ snap' = snap
    BY DEF StreamFails, Quiet
  <1>5. QED
    BY <1>1, <1>2, <1>3, <1>4, PlainStep

LEMMA SnapshotsKeep ==
    ASSUME StorageInv, NEW c \in Clients, Snapshots(c)
    PROVE  StorageInv'
  <1>1. CASE MemorySnapshot(c) \/ FjallSnapshot(c)
    BY <1>1, TakesStep DEF MemorySnapshot, FjallSnapshot
  <1>2. QED
    BY <1>1, SkipListSnapshotStep, SwapStep, LockStep, ClearStep, EndStep, RawInsertStep,
       SetCountsStep, StreamFailsStep DEF Snapshots
-----------------------------------------------------------------------------
(* The storage backends: transactions                                      *)

\* A transaction is not settled, whatever becomes of it.
LEMMA TxGrows ==
    ASSUME StorageInv, NEW c \in Clients, task[c].op = "tx",
           NEW t, task' = [task EXCEPT ![c] = t], t.op = "tx" => t.id = task[c].id,
           UNCHANGED <<backend, reqs>>, used \subseteq used',
           NEW st, status' = [status EXCEPT ![task[c].id] = st]
    PROVE  Grows
  <1>1. \A i \in Settled : i # task[c].id /\ status[i] \in {"plain", "done"}
    BY DEF Settled
  <1>2. \A i \in Settled : status'[i] \in {"plain", "done"}
    <2>1. \A i \in Settled : i \in Ids
      BY StorageAssumption DEF StorageInv, StoreInv, Settled, Ids
    <2>2. QED
      BY <1>1, <2>1 DEF StorageInv, StoreInv
  <1>3. QED
    BY <1>2, FollowsGrows

\* A step of a transaction keeps the types and leaves the other tasks alone.
LEMMA TxTasks ==
    ASSUME StorageInv, NEW c \in Clients, task[c].op = "tx",
           NEW t \in TaskRecord, task' = [task EXCEPT ![c] = t], t.op = "tx" => t.id = task[c].id,
           TaskInv(t)', Grows, UNCHANGED <<backend, reqs, snap>>,
           NEW st, status' = [status EXCEPT ![task[c].id] = st]
    PROVE  TasksInv'
  <1>1. /\ \A d \in Clients : d # c => task'[d] = task[d]
        /\ task'[c] = t
        /\ task' \in [Clients -> TaskRecord]
    BY DEF StorageInv, TasksInv
  <1>2. ASSUME NEW d \in Clients PROVE TaskInv(task[d])'
    <2>1. CASE d = c
      BY <1>1, <2>1
    <2>2. CASE d # c
      <3>0. PICK u : u = task[d]
        OBVIOUS
      <3>1. u \in TaskRecord /\ TaskInv(u) /\ task'[d] = u
        BY <1>1, <2>2, <3>0 DEF StorageInv, TasksInv
      <3>2. u.op = "tx" => status'[u.id] \in {"plain", "open"}
        <4>1. SUFFICES ASSUME u.op = "tx" PROVE status'[u.id] = status[u.id]
          BY <3>1 DEF TaskInv, TxInv
        <4>2. u.id # task[c].id
          BY <2>2, <3>0, <4>1 DEF StorageInv, TasksInv
        <4>3. u.id \in Ids
          BY <3>1, <4>1, StorageAssumption DEF TaskInv, TxInv, StorageInv, StoreInv, Ids
        <4>4. QED
          BY <4>2, <4>3 DEF StorageInv, StoreInv
      <3>3. TaskInv(u)'
        BY <3>1, <3>2, GrowsTask
      <3>4. QED
        BY <3>1, <3>3
    <2>3. QED
      BY <2>1, <2>2
  <1>3. \A d, e \in Clients :
          task'[d].op = "tx" /\ task'[e].op = "tx" /\ task'[d].id = task'[e].id => d = e
    BY <1>1 DEF StorageInv, TasksInv
  <1>4. QED
    BY <1>1, <1>2, <1>3 DEF TasksInv

LEMMA TxStore ==
    ASSUME StorageInv, NEW c \in Clients, task[c].op = "tx", Grows,
           UNCHANGED <<backend, reqs, snap, entries, overlap>>,
           OkMap(data)', incs' \in Nat, writer' \in Clients \cup {None},
           NEW st \in {"plain", "open", "done", "undone"}, status' = [status EXCEPT ![task[c].id] = st]
    PROVE  StoreInv'
  <1>1. \A m : OkMap(m) => OkMap(m)'
    BY GrowsValues
  <1>2. snap' = None \/ OkMap(snap)'
    BY <1>1 DEF StorageInv, StoreInv
  <1>3. task[c].id \in 1..reqs
    BY DEF StorageInv, TasksInv, TaskInv, TxInv
  <1>4. \A i \in Ids : i > reqs => i # task[c].id
    BY <1>3, StorageAssumption DEF StorageInv, StoreInv, Ids
  <1>5. /\ status' \in [Ids -> {"plain", "open", "done", "undone"}]
        /\ \A i \in Ids : i > reqs => status'[i] = "plain"
    BY <1>4 DEF StorageInv, StoreInv
  <1>6. QED
    BY <1>2, <1>5 DEF StorageInv, StoreInv, Wrap, Ids

\* The end of a transaction and the lock.
LEMMA TxEndsLock ==
    ASSUME StorageInv, NEW c \in Clients, task[c].op = "tx", task' = [task EXCEPT ![c] = NoTask],
           backend' = backend,
           \/ writer' = None /\ (backend \in SingleWriter => task[c].pc = "tx")
           \/ writer' = IF writer = c THEN None ELSE writer
           \/ writer' = writer /\ (backend \in SingleWriter => task[c].pc # "tx")
    PROVE  LockInv' /\ writer' \in Clients \cup {None}
  <1>1. /\ \A d \in Clients : d # c => task'[d] = task[d]
        /\ task'[c].pc = "idle"
    BY NoTaskOk DEF StorageInv, TasksInv
  <1>2. /\ writer \in Clients \cup {None} /\ None \notin Clients
        /\ writer # None =>
             \/ backend \in SingleWriter /\ task[writer].pc = "tx"
             \/ backend = "memory" /\ task[writer].op = "install" /\ task[writer].pc = "run"
        /\ backend \in SingleWriter => \A d \in Clients : task[d].pc = "tx" => writer = d
    BY StorageAssumption DEF StorageInv, StoreInv, LockInv, LockHasOwner
  <1>3. "memory" \notin SingleWriter
    BY DEF SingleWriter
  <1>4. LockHasOwner' /\ writer' \in Clients \cup {None}
    BY <1>1, <1>2, <1>3 DEF LockHasOwner
  <1>5. backend \in SingleWriter => \A d \in Clients : task'[d].pc = "tx" => writer' = d
    BY <1>1, <1>2, <1>3
  <1>6. QED
    BY <1>4, <1>5 DEF LockInv

\* A transaction ends without writing.
LEMMA TxDropped ==
    ASSUME StorageInv, NEW c \in Clients, task[c].pc \in {"tx", "commit"}, Finish(c),
           UNCHANGED <<backend, reqs, snap, entries, overlap, used, data, incs>>,
           NEW st \in {"done", "undone"}, Resolve(c, st),
           \/ writer' = None /\ (backend \in SingleWriter => task[c].pc = "tx")
           \/ writer' = IF writer = c THEN None ELSE writer
           \/ writer' = writer /\ (backend \in SingleWriter => task[c].pc # "tx")
    PROVE  StorageInv'
  <1>1. task[c].op = "tx"
    BY DEF StorageInv, TasksInv, TaskInv, PcInv
  <1>2. task' = [task EXCEPT ![c] = NoTask] /\ status' = [status EXCEPT ![task[c].id] = st]
    BY DEF Finish, Resolve
  <1>3. NoTask \in TaskRecord /\ NoTask.op = "none" /\ NoTask.pc = "idle" /\ TaskInv(NoTask)
    BY NoTaskOk
  <1>4. Grows
    BY <1>1, <1>2, <1>3, TxGrows
  <1>5. TaskInv(NoTask)'
    BY <1>3, <1>4, GrowsTask
  <1>6. TasksInv'
    BY <1>1, <1>2, <1>3, <1>4, <1>5, TxTasks
  <1>7. LockInv' /\ writer' \in Clients \cup {None}
    BY <1>1, <1>2, TxEndsLock
  <1>8. OkMap(data)' /\ incs' \in Nat
    BY <1>4, GrowsValues DEF StorageInv, StoreInv
  <1>9. StoreInv'
    BY <1>1, <1>2, <1>4, <1>7, <1>8, TxStore
  <1>10. CountInv'
    <2>1. \A d \in Clients : task'[d].pc = "tx" => task[d].pc = "tx" /\ task'[d].buf = task[d].buf
      BY <1>2, <1>3 DEF StorageInv, TasksInv
    <2>2. CounterKept
      BY DEF CounterKept
    <2>3. QED
      BY <1>4, <1>8, <2>1, <2>2, CountersAgree
  <1>11. QED
    BY <1>6, <1>7, <1>9, <1>10 DEF StorageInv

LEMMA NothingBuffered ==
    ASSUME NEW m
    PROVE  Applied(m, <<>>)[Counter] = m[Counter] /\ Increments(<<>>) = 0
  <1>1. Mine(<<>>, Counter) = {}
    BY DEF Mine
  <1>2. <<>> \in Seq(BufRecord)
    OBVIOUS
  <1>3. QED
    BY <1>1, <1>2, AppliedIs, IncrementsDoes DEF AllKeys

LEMMA TxBeginStep ==
    ASSUME StorageInv, NEW c \in Clients, TxBegin(c)
    PROVE  StorageInv'
  <1>0. PICK s : s = task[c]
    OBVIOUS
  <1>1. Running(s) /\ s.pc = "run" /\ s.op = "tx"
    BY <1>0, ReadyRuns, CurrentIs DEF TxBegin, StoreCallInv
  <1>2. PICK t : t = [s EXCEPT !.pc = "tx"]
    OBVIOUS
  <1>3. /\ t \in TaskRecord /\ t.pc = "tx" /\ t.op = "tx" /\ t.id = s.id /\ t.buf = s.buf
        /\ t.calls = s.calls /\ s.buf = <<>>
    BY <1>1, <1>2 DEF Running, TaskRecord, StorePcs, TaskInv, TxInv
  <1>4. task' = [task EXCEPT ![c] = t] /\ status' = [status EXCEPT ![s.id] = "open"]
    BY <1>0, <1>2 DEF TxBegin, Resolve, StorageInv, TasksInv
  <1>5. UNCHANGED <<backend, data, entries, snap, reqs, incs, used, overlap>>
    BY DEF TxBegin
  <1>6. s.id \in 1..reqs /\ s.id \in Ids
    BY <1>1, StorageAssumption DEF Running, TaskInv, TxInv, Ids, StorageInv, StoreInv
  <1>7. Grows
    BY <1>0, <1>1, <1>3, <1>4, <1>5, TxGrows
  <1>8. TaskInv(t)'
    <2>1. PcInv(t)'
      BY <1>3 DEF PcInv
    <2>2. CallsInv(t.op, t.calls)'
      BY <1>1, <1>3, <1>5, <1>7, GrowsCalls DEF Running, TaskInv
    <2>3. status'[t.id] = "open"
      BY <1>3, <1>4, <1>6 DEF StorageInv, StoreInv
    <2>4. TxInv(t)'
      BY <1>1, <1>3, <1>5, <1>6, <2>3 DEF Running, TaskInv, TxInv
    <2>5. QED
      BY <1>3, <2>1, <2>2, <2>4 DEF TaskInv, Replacing
  <1>9. TasksInv'
    BY <1>0, <1>1, <1>3, <1>4, <1>5, <1>7, <1>8, TxTasks
  <1>10. /\ \A d \in Clients : d # c => task'[d] = task[d]
         /\ task'[c] = t
    BY <1>4 DEF StorageInv, TasksInv
  <1>11. LockInv' /\ writer' \in Clients \cup {None}
    <2>1. /\ writer \in Clients \cup {None} /\ None \notin Clients
          /\ writer # None =>
               \/ backend \in SingleWriter /\ task[writer].pc = "tx"
               \/ backend = "memory" /\ task[writer].op = "install" /\ task[writer].pc = "run"
          /\ backend \in SingleWriter => \A d \in Clients : task[d].pc = "tx" => writer = d
      BY StorageAssumption DEF StorageInv, StoreInv, LockInv, LockHasOwner
    <2>2. /\ backend \in SingleWriter => writer = None /\ writer' = c
          /\ backend \notin SingleWriter => writer' = writer
      BY DEF TxBegin
    <2>3. LockHasOwner'
      BY <1>0, <1>1, <1>3, <1>5, <1>10, <2>1, <2>2 DEF LockHasOwner
    <2>4. backend \in SingleWriter => \A d \in Clients : task'[d].pc = "tx" => writer' = d
      BY <1>10, <2>1, <2>2
    <2>5. QED
      BY <1>5, <2>1, <2>2, <2>3, <2>4 DEF LockInv
  <1>12. OkMap(data)' /\ incs' \in Nat
    BY <1>5, <1>7, GrowsValues DEF StorageInv, StoreInv
  <1>13. StoreInv'
    BY <1>0, <1>1, <1>4, <1>5, <1>7, <1>11, <1>12, TxStore
  <1>14. CountInv'
    <2>1. SUFFICES ASSUME Calm'
          PROVE  /\ data'[Counter] = incs'
                 /\ \A d \in Clients : task'[d].pc = "tx" =>
                      Applied(data', task'[d].buf)[Counter] = incs' + Increments(task'[d].buf)
      BY DEF CountInv, Applied, Increments
    <2>2. Calm
      BY <1>7, <2>1, CalmStays
    <2>3. /\ data[Counter] = incs /\ incs \in Nat
          /\ \A d \in Clients : task[d].pc = "tx" =>
               Applied(data, task[d].buf)[Counter] = incs + Increments(task[d].buf)
      BY <2>2 DEF StorageInv, StoreInv, CountInv
    <2>4. Applied(data, <<>>)[Counter] = incs + Increments(<<>>)
      <3>1. incs + 0 = incs
        BY <2>3, NothingAdded, Zenon
      <3>2. QED
        BY <2>3, <3>1, NothingBuffered, Zenon
    <2>5. QED
      BY <1>3, <1>5, <1>10, <2>3, <2>4
  <1>15. QED
    BY <1>9, <1>11, <1>13, <1>14 DEF StorageInv

\* A transaction goes on, holding what it held.
LEMMA TxGoesOn ==
    ASSUME StorageInv, NEW c \in Clients, task[c].pc \in {"tx", "commit"},
           NEW t \in TaskRecord, task' = [task EXCEPT ![c] = t],
           t.op = task[c].op, t.id = task[c].id, t.pc \in {"tx", "commit"}, t.calls = task[c].calls,
           Len(t.buf) <= MaxTxOps,
           \A j \in DOMAIN t.buf :
             /\ t.buf[j].k \in Keys => t.buf[j].v \in {Absent, t.id}
             /\ t.buf[j].k = Counter => "tx_increment" \in used',
           backend \in SingleWriter => t.pc = task[c].pc,
           UNCHANGED <<backend, reqs, snap, entries, overlap, status, writer>>, used \subseteq used',
           OkMap(data'), incs' \in Nat
    PROVE  Grows /\ StoreInv' /\ TasksInv' /\ LockInv'
  <1>1. task[c].op = "tx" /\ TaskInv(task[c])
    BY DEF StorageInv, TasksInv, TaskInv, PcInv
  <1>2. PICK st : st = status[task[c].id]
    OBVIOUS
  <1>3. task[c].id \in 1..reqs /\ task[c].id \in Ids /\ st \in {"plain", "open"}
    BY <1>1, <1>2, StorageAssumption DEF TaskInv, TxInv, Ids, StorageInv, StoreInv
  <1>4. status' = [status EXCEPT ![task[c].id] = st]
    BY <1>2, <1>3 DEF StorageInv, StoreInv
  <1>5. Grows
    BY <1>1, <1>4, TxGrows
  <1>6. TaskInv(t)'
    <2>1. PcInv(t)'
      BY <1>1 DEF PcInv
    <2>2. CallsInv(t.op, t.calls)'
      BY <1>1, <1>5, GrowsCalls DEF TaskInv
    <2>3. TxInv(t)'
      BY <1>2, <1>3 DEF TxInv
    <2>4. QED
      BY <1>1, <2>1, <2>2, <2>3 DEF TaskInv, Replacing
  <1>7. TasksInv'
    BY <1>1, <1>4, <1>5, <1>6, TxTasks
  <1>8. OkMap(data)'
    BY <1>5, GrowsValues
  <1>9. StoreInv'
    <2>1. writer' \in Clients \cup {None}
      BY DEF StorageInv, StoreInv
    <2>2. QED
      BY <1>1, <1>3, <1>4, <1>5, <1>8, <2>1, TxStore
  <1>10. LockInv'
    <2>1. /\ \A d \in Clients : d # c => task'[d] = task[d]
          /\ task'[c] = t
      BY DEF StorageInv, TasksInv
    <2>2. QED
      BY <1>1, <2>1 DEF StorageInv, StoreInv, LockInv, LockHasOwner
  <1>11. QED
    BY <1>5, <1>7, <1>9, <1>10

\* One more operation of a transaction.
LEMMA TxWriteStep ==
    ASSUME StorageInv, NEW c \in Clients, InTx(c), NEW k \in AllKeys, NEW v \in Int, TxWrite(c, k, v),
           k \in Keys => v \in {Absent, task[c].id},
           k = Counter => /\ "tx_increment" \in used' /\ backend \notin SkipList
                          /\ Calm' => v = incs + Increments(task[c].buf) + 1,
           used \subseteq used', TxFrame
    PROVE  StorageInv'
  <1>1. PICK s : s = task[c]
    OBVIOUS
  <1>2. PICK b : b = s.buf
    OBVIOUS
  <1>3. s \in TaskRecord /\ TaskInv(s) /\ s.pc = "tx" /\ b \in Seq(BufRecord) /\ Len(b) < MaxTxOps
    BY <1>1, <1>2, TaskFields DEF InTx, StorageInv, TasksInv
  <1>4. PICK e : e = [k |-> k, v |-> v]
    OBVIOUS
  <1>5. e \in BufRecord /\ e.k = k /\ e.v = v
    BY <1>4 DEF BufRecord
  <1>6. PICK q : q = Append(b, e)
    OBVIOUS
  <1>7. /\ q \in Seq(BufRecord) /\ Len(q) = Len(b) + 1 /\ Len(b) \in Nat
        /\ DOMAIN q = 1..(Len(b) + 1) /\ DOMAIN b = 1..Len(b)
        /\ q[Len(b) + 1] = e /\ \A j \in 1..Len(b) : q[j] = b[j]
    BY <1>3, <1>5, <1>6
  <1>8. PICK t : t = [s EXCEPT !.buf = q]
    OBVIOUS
  <1>9. /\ t \in TaskRecord /\ t.pc = s.pc /\ t.op = s.op /\ t.id = s.id /\ t.buf = q
        /\ t.calls = s.calls
    BY <1>3, <1>7, <1>8 DEF TaskRecord
  <1>10. task' = [task EXCEPT ![c] = t] /\ incs' = incs
    BY <1>1, <1>2, <1>4, <1>6, <1>8 DEF TxWrite, StorageInv, TasksInv
  <1>11. \A j \in DOMAIN q :
           /\ q[j].k \in Keys => q[j].v \in {Absent, s.id}
           /\ q[j].k = Counter => "tx_increment" \in used'
    <2>1. ASSUME NEW j \in DOMAIN q
          PROVE  /\ q[j].k \in Keys => q[j].v \in {Absent, s.id}
                 /\ q[j].k = Counter => "tx_increment" \in used'
      <3>1. CASE j = Len(b) + 1
        BY <1>1, <1>5, <1>7, <3>1
      <3>2. CASE j # Len(b) + 1
        <4>1. j \in DOMAIN b /\ q[j] = b[j]
          BY <1>7, <3>2
        <4>2. QED
          BY <1>2, <1>3, <4>1 DEF TaskInv, TxInv
      <3>3. QED
        BY <3>1, <3>2
    <2>2. QED
      BY <2>1
  <1>12. Len(q) <= MaxTxOps
    BY <1>3, <1>7, StorageAssumption
  <1>13. OkMap(data')
    <2>1. CASE backend \in SkipList
      <3>1. ~Atomic
        BY <2>1 DEF Atomic, SkipList, SingleWriter
      <3>2. Set(k, v)
        BY <2>1 DEF TxWrite
      <3>3. OkValue(v)
        BY <3>1 DEF OkValue
      <3>4. QED
        BY <3>2, <3>3, SetOk
    <2>2. CASE backend \notin SkipList
      BY <2>2 DEF TxWrite, StorageInv, StoreInv
    <2>3. QED
      BY <2>1, <2>2
  <1>14. Grows /\ StoreInv' /\ TasksInv' /\ LockInv'
    <2>1. UNCHANGED <<backend, reqs, snap, entries, overlap, status, writer>>
      BY DEF TxFrame
    <2>2. incs' \in Nat
      BY <1>10 DEF StorageInv, StoreInv
    <2>3. /\ task[c].pc \in {"tx", "commit"} /\ t.pc \in {"tx", "commit"} /\ t.pc = task[c].pc
          /\ t.op = task[c].op /\ t.id = task[c].id /\ t.calls = task[c].calls
          /\ Len(t.buf) <= MaxTxOps
      BY <1>1, <1>3, <1>9, <1>12
    <2>4. \A j \in DOMAIN t.buf :
             /\ t.buf[j].k \in Keys => t.buf[j].v \in {Absent, t.id}
             /\ t.buf[j].k = Counter => "tx_increment" \in used'
      BY <1>9, <1>11
    <2>5. QED
      BY <1>9, <1>10, <1>13, <2>1, <2>2, <2>3, <2>4, TxGoesOn
  <1>15. CountInv'
    <2>1. SUFFICES ASSUME Calm'
          PROVE  /\ data'[Counter] = incs'
                 /\ \A d \in Clients : task'[d].pc = "tx" =>
                      Applied(data', task'[d].buf)[Counter] = incs' + Increments(task'[d].buf)
      BY DEF CountInv, Applied, Increments
    <2>2. Calm
      BY <1>14, <2>1, CalmStays
    <2>3. data' = data
      <3>1. backend \notin SkipList
        BY <2>2 DEF Calm, SkipList, SingleWriter
      <3>2. QED
        BY <3>1 DEF TxWrite
    <2>4. /\ data[Counter] = incs /\ incs \in Nat
          /\ \A d \in Clients : task[d].pc = "tx" =>
               Applied(data, task[d].buf)[Counter] = incs + Increments(task[d].buf)
      BY <2>2 DEF StorageInv, StoreInv, CountInv
    <2>5. /\ \A d \in Clients : d # c => task'[d] = task[d]
          /\ task'[c] = t
      BY <1>10 DEF StorageInv, TasksInv
    <2>6. Applied(data, q)[Counter] = incs + Increments(q)
      <3>1. Counter \in AllKeys
        BY DEF AllKeys
      <3>2. Applied(data, b)[Counter] = incs + Increments(b)
        BY <1>1, <1>2, <1>3, <2>4
      <3>3. Applied(data, q)[Counter] = IF k = Counter THEN v ELSE Applied(data, b)[Counter]
        <4>0. b \in Seq(BufRecord) /\ e \in BufRecord
          BY <1>3, <1>5
        <4>1. Applied(data, Append(b, e))[Counter] = IF e.k = Counter THEN e.v ELSE Applied(data, b)[Counter]
          BY <3>1, <4>0, AppliedAppend, ZenonT(30)
        <4>2. e.k = k /\ e.v = v
          BY <1>5
        <4>3. q = Append(b, e)
          BY <1>6
        <4>4. QED
          BY <4>1, <4>2, <4>3
      <3>4. /\ Increments(q) = IF k = Counter THEN Increments(b) + 1 ELSE Increments(b)
            /\ Increments(b) \in Nat
        BY <1>3, <1>5, <1>6, IncrementsDoes
      <3>5. k = Counter => v = incs + Increments(b) + 1
        BY <1>1, <1>2, <2>1
      <3>6. \A m, n \in Nat : m + n + 1 = m + (n + 1)
        OBVIOUS
      <3>7. CASE k = Counter
        BY <2>4, <3>3, <3>4, <3>5, <3>6, <3>7
      <3>8. CASE k # Counter
        BY <3>2, <3>3, <3>4, <3>8
      <3>9. QED
        BY <3>7, <3>8
    <2>7. QED
      BY <1>9, <1>10, <2>3, <2>4, <2>5, <2>6
  <1>16. QED
    BY <1>14, <1>15 DEF StorageInv

\* A transaction that increments the counter it read.
LEMMA TxIncrementStep ==
    ASSUME StorageInv, NEW c \in Clients, TxCas(c) \/ TxGetPut(c)
    PROVE  StorageInv'
  <1>1. /\ InTx(c) /\ used' = used \cup {"tx_increment"} /\ TxFrame
        /\ backend \notin Any \cup SkipList
        /\ TxWrite(c, Counter, View(c, Counter) + 1)
    BY DEF TxCas, TxGetPut, Any, SkipList
  <1>2. PICK b : b = task[c].buf
    OBVIOUS
  <1>3. b \in Seq(BufRecord) /\ data \in [AllKeys -> Int] /\ Counter \in AllKeys /\ Counter \notin Keys
    BY <1>2, TaskFields, StorageAssumption DEF StorageInv, StoreInv, TasksInv, OkMap, AllKeys
  <1>4. PICK w : w = View(c, Counter)
    OBVIOUS
  <1>5. w \in Int
    <2>1. Applied(data, b)[Counter] \in Int /\ data[Counter] \in Int
      BY <1>3, AppliedDoes
    <2>2. QED
      BY <1>2, <1>4, <2>1 DEF View, TxGet
  <1>6. PICK v \in Int : v = w + 1
    BY <1>5
  <1>7. Calm' => v = incs + Increments(b) + 1
    <2>1. SUFFICES ASSUME Calm' PROVE w = incs + Increments(b)
      BY <1>6
    <2>2. Calm /\ backend \in SingleWriter
      BY <1>1, <2>1 DEF Calm, TxFrame
    <2>3. w = Applied(data, b)[Counter]
      BY <1>2, <1>4, <2>2 DEF View, TxGet, SingleWriter, Fjall, SkipList
    <2>4. QED
      BY <1>1, <1>2, <2>2, <2>3 DEF StorageInv, CountInv, InTx
  <1>8. QED
    BY <1>1, <1>2, <1>3, <1>4, <1>6, <1>7, TxWriteStep

LEMMA TxPutStep ==
    ASSUME StorageInv, NEW c \in Clients, TxPut(c) \/ TxDelete(c)
    PROVE  StorageInv'
  <1>1. InTx(c) /\ used' = used /\ TxFrame
    BY DEF TxPut, TxDelete
  <1>2. PICK k \in Keys, v \in {Absent, task[c].id} : TxWrite(c, k, v)
    BY DEF TxPut, TxDelete
  <1>3. k \in AllKeys /\ k # Counter
    BY StorageAssumption DEF AllKeys
  <1>4. v \in Int
    BY TaskFields, AbsentOk, StorageAssumption DEF StorageInv, TasksInv
  <1>5. QED
    BY <1>1, <1>2, <1>3, <1>4, TxWriteStep

\* A transaction is applied in one step.
LEMMA CommitsStep ==
    ASSUME StorageInv, NEW c \in Clients, task[c].pc = "tx", Commits(c), Atomic,
           \/ writer' = None /\ backend \in SingleWriter
           \/ writer' = writer /\ backend = "memory"
    PROVE  StorageInv'
  <1>1. PICK s : s = task[c]
    OBVIOUS
  <1>2. PICK b : b = s.buf
    OBVIOUS
  <1>3. s \in TaskRecord /\ TaskInv(s) /\ s.pc = "tx" /\ s.op = "tx" /\ b \in Seq(BufRecord)
    BY <1>1, <1>2, TaskFields DEF StorageInv, TasksInv, TaskInv, PcInv
  <1>4. /\ data' = Applied(data, b) /\ incs' = incs + Increments(b)
        /\ status' = [status EXCEPT ![s.id] = "done"] /\ task' = [task EXCEPT ![c] = NoTask]
        /\ UNCHANGED <<backend, entries, snap, reqs, used, overlap>>
    BY <1>1, <1>2 DEF Commits, Resolve, Finish
  <1>5. NoTask \in TaskRecord /\ NoTask.op = "none" /\ NoTask.pc = "idle" /\ TaskInv(NoTask)
    BY NoTaskOk
  <1>6. Grows
    BY <1>1, <1>3, <1>4, <1>5, TxGrows
  <1>7. TaskInv(NoTask)'
    BY <1>4, <1>5, <1>6, GrowsTask
  <1>8. TasksInv'
    BY <1>1, <1>3, <1>4, <1>5, <1>6, <1>7, TxTasks
  <1>9. LockInv' /\ writer' \in Clients \cup {None}
    <2>1. \/ writer' = None /\ (backend \in SingleWriter => task[c].pc = "tx")
          \/ writer' = writer /\ (backend \in SingleWriter => task[c].pc # "tx")
      BY DEF SingleWriter
    <2>2. QED
      BY <1>1, <1>3, <1>4, <2>1, TxEndsLock
  <1>10. s.id \in 1..reqs /\ s.id \in Ids /\ s.id \in Nat /\ s.id # 0
    BY <1>3, StorageAssumption DEF TaskInv, TxInv, Ids, StorageInv, StoreInv
  <1>11. s.id \in Settled'
    <2>1. \A d \in Clients : task'[d].op = "tx" => d # c /\ task'[d] = task[d]
      BY <1>4, <1>5 DEF StorageInv, TasksInv
    <2>2. \A d \in Clients : task'[d].op = "tx" => task'[d].id # s.id
      BY <1>1, <1>3, <2>1 DEF StorageInv, TasksInv
    <2>3. status'[s.id] = "done"
      BY <1>4, <1>10 DEF StorageInv, StoreInv
    <2>4. QED
      BY <1>4, <1>10, <2>2, <2>3 DEF Settled
  <1>12. data \in [AllKeys -> Int] /\ \A k \in Keys : OkValue(data[k])
    BY DEF StorageInv, StoreInv, OkMap
  <1>13. OkMap(data)'
    <2>1. data' \in [AllKeys -> Int]
      BY <1>3, <1>4, <1>12, AppliedDoes
    <2>2. ASSUME NEW k \in Keys, NEW v, v = data'[k] PROVE OkValue(v)'
      <3>1. k \in AllKeys
        BY DEF AllKeys
      <3>2. CASE v = data[k]
        BY <1>6, <1>12, <3>2, GrowsValues
      <3>3. CASE \E i \in DOMAIN b : b[i].k = k /\ v = b[i].v
        <4>1. v \in {Absent, s.id}
          BY <1>2, <1>3, <3>3 DEF TaskInv, TxInv
        <4>2. Number(s.id)' = s.id
          BY <1>10 DEF Number
        <4>3. QED
          BY <1>11, <4>1, <4>2 DEF OkValue, Number
      <3>4. \/ Applied(data, b)[k] = data[k]
            \/ \E i \in DOMAIN b : b[i].k = k /\ Applied(data, b)[k] = b[i].v
        BY <1>3, <1>12, <3>1, AppliedDoes, Zenon
      <3>5. v = Applied(data, b)[k]
        BY <1>4, <2>2, Zenon
      <3>6. QED
        BY <3>2, <3>3, <3>4, <3>5, Zenon
    <2>3. QED
      BY <2>1, <2>2 DEF OkMap
  <1>14. incs' \in Nat /\ Increments(b) \in Nat /\ incs \in Nat
    BY <1>3, <1>4, IncrementsDoes DEF StorageInv, StoreInv
  <1>15. StoreInv'
    BY <1>1, <1>3, <1>4, <1>6, <1>9, <1>13, <1>14, TxStore
  <1>16. CountInv'
    <2>1. \A d \in Clients : task'[d].pc = "tx" => d # c /\ task'[d] = task[d]
      BY <1>4, <1>5 DEF StorageInv, TasksInv
    <2>2. CASE backend = "memory"
      <3>1. CounterKept
        <4>1. SUFFICES ASSUME Calm PROVE data'[Counter] = data[Counter] /\ incs' = incs
          BY DEF CounterKept
        <4>2. "tx_increment" \notin used
          BY <2>2, <4>1 DEF Calm, SingleWriter
        <4>3. \A j \in DOMAIN b : b[j].k # Counter
          BY <1>2, <1>3, <4>2 DEF TaskInv, TxInv
        <4>4. Mine(b, Counter) = {}
          BY <4>3 DEF Mine
        <4>5. Increments(b) = 0
          BY <1>3, <4>4, IncrementsDoes
        <4>6. incs + 0 = incs
          BY <1>14, NothingAdded, Zenon
        <4>7. incs' = incs
          BY <1>4, <4>5, <4>6, Zenon
        <4>8. QED
          BY <1>4, <4>4, <4>7, AppliedIs DEF AllKeys
      <3>2. QED
        BY <1>6, <1>14, <2>1, <3>1, CountersAgree
    <2>3. CASE backend \in SingleWriter
      <3>1. \A d \in Clients : task'[d].pc # "tx"
        BY <2>1, <2>3 DEF StorageInv, LockInv
      <3>2. SUFFICES ASSUME Calm' PROVE data'[Counter] = incs'
        BY <3>1 DEF CountInv
      <3>3. Calm
        BY <1>6, <3>2, CalmStays
      <3>4. QED
        BY <1>1, <1>2, <1>4, <3>3 DEF StorageInv, CountInv
    <2>4. QED
      BY <2>2, <2>3
  <1>17. QED
    BY <1>8, <1>9, <1>15, <1>16 DEF StorageInv

LEMMA RestDoes ==
    ASSUME NEW X, NEW q \in Seq(X), q # <<>>, NEW r, r = Tail(q)
    PROVE  /\ r \in Seq(X) /\ Len(r) = Len(q) - 1 /\ Len(q) \in Nat
           /\ Head(q) = q[1] /\ 1 \in DOMAIN q /\ q[1] \in X
           /\ \A j \in DOMAIN r : r[j] = q[j + 1] /\ j + 1 \in DOMAIN q
  <1>1. Len(q) \in Nat /\ Len(q) # 0
    OBVIOUS
  <1>2. r \in Seq(X) /\ Len(r) = Len(q) - 1
    BY <1>1
  <1>3. DOMAIN r = 1..Len(r) /\ DOMAIN q = 1..Len(q)
    BY <1>2
  <1>4. \A j \in DOMAIN r : r[j] = q[j + 1] /\ j + 1 \in DOMAIN q
    BY <1>1, <1>2, <1>3
  <1>5. Head(q) = q[1] /\ 1 \in DOMAIN q /\ q[1] \in X
    BY <1>1
  <1>6. QED
    BY <1>1, <1>2, <1>4, <1>5

LEMMA FjallCommitStep ==
    ASSUME StorageInv, NEW c \in Clients, FjallCommit(c)
    PROVE  StorageInv'
  <1>1. PICK s : s = task[c]
    OBVIOUS
  <1>2. PICK b : b = s.buf
    OBVIOUS
  <1>3. s \in TaskRecord /\ TaskInv(s) /\ s.pc \in {"tx", "commit"} /\ s.op = "tx" /\ b \in Seq(BufRecord)
    BY <1>1, <1>2, TaskFields DEF FjallCommit, StorageInv, TasksInv, TaskInv, PcInv
  <1>4. ~Atomic /\ ~Calm /\ backend \notin SingleWriter
    BY DEF FjallCommit, Fjall, Atomic, SingleWriter, Calm
  <1>5. UNCHANGED <<backend, entries, writer, snap, reqs, used, overlap>>
    BY DEF FjallCommit
  <1>6. CASE b = <<>>
    <2>1. Resolve(c, "done") /\ Finish(c) /\ UNCHANGED <<data, incs>>
      BY <1>1, <1>2, <1>6 DEF FjallCommit
    <2>2. QED
      BY <1>1, <1>3, <1>4, <1>5, <2>1, TxDropped
  <1>7. CASE b # <<>>
    <2>1. PICK r : r = Tail(b)
      OBVIOUS
    <2>2. /\ r \in Seq(BufRecord) /\ Len(r) = Len(b) - 1 /\ Len(b) \in Nat
          /\ Head(b) \in BufRecord
          /\ \A j \in DOMAIN r : r[j] = b[j + 1] /\ j + 1 \in DOMAIN b
      BY <1>3, <1>7, <2>1, RestDoes
    <2>3. PICK k \in AllKeys, v \in Int : k = Head(b).k /\ v = Head(b).v
      BY <2>2 DEF BufRecord
    <2>4. Set(k, v) /\ CountInc(k) /\ task' = [task EXCEPT ![c].pc = "commit", ![c].buf = r] /\ status' = status
      BY <1>1, <1>2, <1>7, <2>1, <2>3 DEF FjallCommit
    <2>5. PICK t : t = [s EXCEPT !.pc = "commit", !.buf = r]
      OBVIOUS
    <2>6. task' = [task EXCEPT ![c] = t]
      BY <1>1, <2>4, <2>5 DEF StorageInv, TasksInv
    <2>7. /\ t \in TaskRecord /\ t.pc = "commit" /\ t.op = s.op /\ t.id = s.id /\ t.buf = r
          /\ t.calls = s.calls
      BY <1>3, <2>2, <2>5 DEF TaskRecord, StorePcs
    <2>8. OkMap(data')
      <3>1. OkValue(v)
        BY <1>4 DEF OkValue
      <3>2. QED
        BY <2>4, <3>1, SetOk
    <2>9. incs' \in Nat
      BY <2>4 DEF CountInc, StorageInv, StoreInv
    <2>10. Len(r) <= MaxTxOps
      BY <1>2, <1>3, <2>2, StorageAssumption DEF TaskInv, TxInv
    <2>11. \A j \in DOMAIN r :
             /\ r[j].k \in Keys => r[j].v \in {Absent, s.id}
             /\ r[j].k = Counter => "tx_increment" \in used'
      <3>1. \A j \in DOMAIN b :
               /\ b[j].k \in Keys => b[j].v \in {Absent, s.id}
               /\ b[j].k = Counter => "tx_increment" \in used'
        BY <1>2, <1>3, <1>5 DEF TaskInv, TxInv
      <3>2. QED
        BY <2>2, <3>1, Zenon
    <2>12. Grows /\ StoreInv' /\ TasksInv' /\ LockInv'
      <3>1. /\ task[c].pc \in {"tx", "commit"} /\ t.pc \in {"tx", "commit"} /\ t \in TaskRecord
            /\ t.op = task[c].op /\ t.id = task[c].id /\ t.calls = task[c].calls
            /\ Len(t.buf) <= MaxTxOps
        BY <1>1, <1>3, <2>7, <2>10
      <3>2. \A j \in DOMAIN t.buf :
               /\ t.buf[j].k \in Keys => t.buf[j].v \in {Absent, t.id}
               /\ t.buf[j].k = Counter => "tx_increment" \in used'
        BY <2>7, <2>11
      <3>3. UNCHANGED <<backend, reqs, snap, entries, overlap, status, writer>> /\ used \subseteq used'
        BY <1>5, <2>4
      <3>4. QED
        BY <1>4, <2>6, <2>8, <2>9, <3>1, <3>2, <3>3, TxGoesOn
    <2>13. CountInv'
      BY <1>4, <2>12, CalmStays DEF CountInv
    <2>14. QED
      BY <2>12, <2>13 DEF StorageInv
  <1>8. QED
    BY <1>6, <1>7

LEMMA TransactionKeeps ==
    ASSUME StorageInv, NEW c \in Clients, Transaction(c)
    PROVE  StorageInv'
  <1>1. CASE TxBegin(c)
    BY <1>1, TxBeginStep
  <1>2. CASE TxPut(c) \/ TxDelete(c)
    BY <1>2, TxPutStep
  <1>3. CASE TxCas(c) \/ TxGetPut(c)
    BY <1>3, TxIncrementStep
  <1>4. CASE MemoryCommit(c) \/ FjallTxCommit(c) \/ RedbCommit(c)
    BY <1>4, CommitsStep DEF MemoryCommit, FjallTxCommit, RedbCommit, Atomic, SingleWriter
  <1>5. CASE NativeCommitFails(c)
    <2>1. writer' = None /\ task[c].pc = "tx"
      BY <1>5 DEF NativeCommitFails
    <2>2. QED
      BY <1>5, <2>1, TxDropped DEF NativeCommitFails
  <1>6. CASE FjallCommit(c)
    BY <1>6, FjallCommitStep
  <1>7. CASE FjallCommitFails(c)
    BY <1>7, TxDropped DEF FjallCommitFails
  <1>8. CASE SkipListCommit(c)
    <2>1. backend \notin SingleWriter
      BY <1>8 DEF SkipListCommit, SkipList, SingleWriter
    <2>2. QED
      BY <1>8, <2>1, TxDropped DEF SkipListCommit
  <1>9. CASE Rollback(c)
    BY <1>9, TxDropped DEF Rollback
  <1>10. QED
    BY <1>1, <1>2, <1>3, <1>4, <1>5, <1>6, <1>7, <1>8, <1>9 DEF Transaction
-----------------------------------------------------------------------------
(* The storage backends: requests                                          *)

\* The task of a request that was started.
Begun(op, q, t) ==
    /\ t \in TaskRecord /\ t.pc = "run" /\ t.op = op /\ t.id = reqs + 1 /\ t.calls = q
    /\ t.buf = <<>>

\* A client that starts a request was idle.
LEMMA StartDoes ==
    ASSUME StorageInv, NEW c \in Clients, NEW op \in StoreOps, NEW q \in Seq(CallRecord), Start(c, op, q)
    PROVE  /\ Begun(op, q, task'[c])
           /\ task[c].pc = "idle" /\ task[c].op = "none"
           /\ task' \in [Clients -> TaskRecord]
           /\ \A d \in Clients : d # c =>
                \/ task'[d] = NoTask /\ task[d].pc = "idle" /\ task[d].op = "none"
                \/ task'[d] = [task[d] EXCEPT !.alone = FALSE] /\ task[d].pc # "idle"
           /\ reqs' = reqs + 1 /\ reqs' \in 0..MaxReqs
  <1>1. task[c].pc = "idle"
    BY DEF Start
  <1>2. reqs' = reqs + 1 /\ reqs' \in 0..MaxReqs
    <2>1. reqs' = reqs + 1 /\ reqs < MaxReqs
      BY Zenon DEF Start
    <2>2. reqs \in 0..MaxReqs
      BY DEF StorageInv, StoreInv
    <2>3. QED
      BY <2>1, <2>2, StorageAssumption
  <1>3. PICK al \in BOOLEAN : al = (\A o \in Clients \ {c} : task[o].pc = "idle")
    OBVIOUS
  <1>4. PICK n \in 0..MaxReqs : n = reqs + 1
    BY <1>2
  <1>5. PICK t : t = [NoTask EXCEPT !.pc = "run", !.op = op, !.id = n, !.calls = q, !.alone = al]
    OBVIOUS
  <1>6. /\ t \in TaskRecord /\ t.pc = "run" /\ t.op = op /\ t.id = n /\ t.calls = q /\ t.buf = <<>>
    <2>1. NoTask \in TaskRecord /\ NoTask.buf = <<>> /\ "run" \in StorePcs
      BY NoTaskOk DEF StorePcs
    <2>2. QED
      BY <1>5, <2>1 DEF TaskRecord
  <1>7. task' = [d \in Clients |->
           IF d = c THEN t
           ELSE IF task[d].pc = "idle" THEN NoTask ELSE [task[d] EXCEPT !.alone = FALSE]]
    <2>1. PICK u : u = [NoTask EXCEPT !.pc = "run", !.op = op, !.id = reqs + 1, !.calls = q,
                            !.alone = \A o \in Clients \ {c} : task[o].pc = "idle"]
      OBVIOUS
    <2>2. u = t
      BY <1>3, <1>4, <1>5, <2>1, Zenon
    <2>3. QED
      BY <2>1, <2>2, Zenon DEF Start
  <1>8. \A d \in Clients : task[d] \in TaskRecord /\ (task[d].pc = "idle" => task[d].op = "none")
    BY DEF StorageInv, TasksInv, TaskInv, PcInv
  <1>9. \A s \in TaskRecord : [s EXCEPT !.alone = FALSE] \in TaskRecord
    BY DEF TaskRecord
  <1>10. task' \in [Clients -> TaskRecord]
    BY <1>6, <1>7, <1>8, <1>9, NoTaskOk
  <1>11. \A d \in Clients : d # c =>
           \/ task'[d] = NoTask /\ task[d].pc = "idle" /\ task[d].op = "none"
           \/ task'[d] = [task[d] EXCEPT !.alone = FALSE] /\ task[d].pc # "idle"
    BY <1>7, <1>8
  <1>12. task'[c] = t /\ task[c].op = "none"
    BY <1>1, <1>7, <1>8
  <1>13. Begun(op, q, t)
    BY <1>4, <1>6 DEF Begun
  <1>14. QED
    BY <1>1, <1>2, <1>10, <1>11, <1>12, <1>13

LEMMA AloneOnly ==
    ASSUME NEW s \in TaskRecord, NEW t, t = [s EXCEPT !.alone = FALSE]
    PROVE  /\ t \in TaskRecord
           /\ t.pc = s.pc /\ t.op = s.op /\ t.id = s.id /\ t.buf = s.buf /\ t.calls = s.calls
           /\ t.todo = s.todo
           /\ TaskInv(s) => TaskInv(t)
  <1>1. /\ t \in TaskRecord
        /\ t.pc = s.pc /\ t.op = s.op /\ t.id = s.id /\ t.buf = s.buf /\ t.calls = s.calls
        /\ t.todo = s.todo
    BY DEF TaskRecord
  <1>2. TaskInv(s) => TaskInv(t)
    BY <1>1 DEF TaskInv, PcInv, TxInv
  <1>3. QED
    BY <1>1, <1>2

\* What the others are after a request was started.
LEMMA StartOthers ==
    ASSUME StorageInv, NEW c \in Clients, NEW op \in StoreOps, NEW q \in Seq(CallRecord), Start(c, op, q),
           NEW d \in Clients, d # c
    PROVE  /\ task'[d] \in TaskRecord /\ TaskInv(task'[d])
           /\ task'[d].op = task[d].op /\ task'[d].pc = task[d].pc
           /\ task[d].pc # "idle" => task'[d].id = task[d].id /\ task'[d].buf = task[d].buf
  <1>1. PICK s : s = task[d]
    OBVIOUS
  <1>2. PICK t : t = task'[d]
    OBVIOUS
  <1>3. s \in TaskRecord /\ TaskInv(s)
    BY <1>1 DEF StorageInv, TasksInv
  <1>4. \/ t = NoTask /\ s.pc = "idle" /\ s.op = "none"
        \/ t = [s EXCEPT !.alone = FALSE] /\ s.pc # "idle"
    BY <1>1, <1>2, StartDoes
  <1>5. /\ t \in TaskRecord /\ TaskInv(t) /\ t.op = s.op /\ t.pc = s.pc
        /\ s.pc # "idle" => t.id = s.id /\ t.buf = s.buf
    BY <1>3, <1>4, NoTaskOk, AloneOnly
  <1>6. QED
    BY <1>1, <1>2, <1>5

LEMMA StartGrows ==
    ASSUME StorageInv, NEW c \in Clients, NEW op \in StoreOps, NEW q \in Seq(CallRecord), Start(c, op, q),
           used \subseteq used'
    PROVE  /\ Grows /\ reqs' = reqs + 1 /\ reqs \in Nat
           /\ op # "tx" => reqs + 1 \in Settled'
  <1>1. PICK t : /\ t.op = op /\ t.id = reqs + 1 /\ task'[c] = t
                 /\ reqs' = reqs + 1 /\ reqs' \in 0..MaxReqs
    BY StartDoes DEF Begun
  <1>2. reqs \in Nat /\ backend' = backend /\ status' = status
    <2>1. backend' = backend /\ status' = status
      BY Zenon DEF Start
    <2>2. reqs \in 0..MaxReqs
      BY DEF StorageInv, StoreInv
    <2>3. QED
      BY <2>1, <2>2, StorageAssumption
  <1>3. \A d \in Clients : task'[d].op = "tx" /\ d # c => task'[d].id = task[d].id /\ task[d].op = "tx" /\ task[d].id \in 1..reqs
    <2>1. ASSUME NEW d \in Clients, task'[d].op = "tx", d # c
          PROVE  task'[d].id = task[d].id /\ task[d].op = "tx" /\ task[d].id \in 1..reqs
      <3>1. task[d].op = "tx"
        BY <2>1, StartOthers
      <3>2. task[d].id \in 1..reqs /\ task[d].pc # "idle"
        BY <3>1 DEF StorageInv, TasksInv, TaskInv, TxInv, PcInv
      <3>3. QED
        BY <2>1, <3>1, <3>2, StartOthers
    <2>2. QED
      BY <2>1
  <1>4. Settled \subseteq Settled'
    <2>1. ASSUME NEW i \in Settled PROVE i \in Settled'
      <3>1. i \in 1..reqs /\ status[i] \in {"plain", "done"} /\ \A d \in Clients : task[d].op = "tx" => task[d].id # i
        BY DEF Settled
      <3>2. i \in 1..reqs' /\ i # reqs + 1
        BY <1>1, <1>2, <3>1
      <3>3. \A d \in Clients : task'[d].op = "tx" => task'[d].id # i
        BY <1>1, <1>3, <3>1, <3>2
      <3>4. QED
        BY <1>2, <3>1, <3>2, <3>3 DEF Settled
    <2>2. QED
      BY <2>1
  <1>5. op # "tx" => reqs + 1 \in Settled'
    <2>1. SUFFICES ASSUME op # "tx" PROVE reqs + 1 \in Settled'
      OBVIOUS
    <2>2. reqs + 1 \in 1..reqs' /\ reqs + 1 \in Ids /\ reqs + 1 > reqs
      BY <1>1, <1>2, StorageAssumption DEF Ids
    <2>3. status'[reqs + 1] = "plain"
      BY <1>2, <2>2 DEF StorageInv, StoreInv
    <2>4. \A d \in Clients : task'[d].op = "tx" => task'[d].id \in 1..reqs
      BY <1>1, <1>3, <2>1
    <2>5. \A d \in Clients : task'[d].op = "tx" => task'[d].id # reqs + 1
      BY <1>2, <2>4
    <2>6. QED
      BY <2>2, <2>3, <2>5 DEF Settled
  <1>6. QED
    BY <1>1, <1>2, <1>4, <1>5 DEF Grows

LEMMA StartStep ==
    ASSUME StorageInv, NEW c \in Clients, NEW op \in StoreOps, op # "none",
           NEW q \in Seq(CallRecord), q # <<>>, Start(c, op, q),
           used \subseteq used', op \in Replacing \cup {"increment"} => op \in used', CallsInv(op, q)'
    PROVE  StorageInv'
  <1>1. Grows /\ reqs' = reqs + 1 /\ reqs \in Nat
    BY StartGrows
  <1>2. UNCHANGED <<backend, data, entries, writer, snap, status, incs>> /\ overlap' \in BOOLEAN
    BY Zenon DEF Start, StorageInv, StoreInv
  <1>3. PICK t : t = task'[c]
    OBVIOUS
  <1>4. /\ Begun(op, q, t) /\ task[c].pc = "idle" /\ task[c].op = "none"
        /\ task' \in [Clients -> TaskRecord] /\ reqs' \in 0..MaxReqs
    BY <1>3, StartDoes
  <1>5. reqs + 1 \in Ids /\ status[reqs + 1] = "plain"
    <2>1. reqs + 1 \in Ids /\ reqs + 1 > reqs
      BY <1>1, <1>4, StorageAssumption DEF Ids
    <2>2. QED
      BY <2>1 DEF StorageInv, StoreInv
  <1>6. TaskInv(t)'
    <2>1. t.pc = "run" /\ t.op = op /\ t.calls = q /\ t.buf = <<>> /\ t.id = reqs + 1
      BY <1>4 DEF Begun
    <2>2. PcInv(t)'
      BY <2>1 DEF PcInv
    <2>3. TxInv(t)'
      <3>1. t.id \in 1..reqs' /\ status'[t.id] = "plain"
        BY <1>1, <1>2, <1>5, <2>1
      <3>2. Len(t.buf) = 0 /\ \A j \in DOMAIN t.buf : FALSE
        BY <2>1
      <3>3. QED
        BY <2>1, <3>1, <3>2, StorageAssumption DEF TxInv
    <2>4. QED
      BY <2>1, <2>2, <2>3 DEF TaskInv
  <1>7. ASSUME NEW d \in Clients PROVE TaskInv(task[d])'
    <2>1. CASE d = c
      BY <1>3, <1>6, <2>1
    <2>2. CASE d # c
      <3>1. PICK u : u = task'[d]
        OBVIOUS
      <3>2. u \in TaskRecord /\ TaskInv(u)
        BY <2>2, <3>1, StartOthers
      <3>3. u.op = "tx" => status'[u.id] \in {"plain", "open"}
        BY <1>2, <3>2 DEF TaskInv, TxInv
      <3>4. TaskInv(u)'
        BY <1>1, <1>2, <3>2, <3>3, GrowsTask
      <3>5. QED
        BY <3>1, <3>4
    <2>3. QED
      BY <2>1, <2>2
  <1>8. TasksInv'
    <2>1. \A d \in Clients : d # c /\ task'[d].op = "tx" =>
            task[d].op = "tx" /\ task'[d].id = task[d].id /\ task[d].id \in 1..reqs
      <3>1. ASSUME NEW d \in Clients, d # c, task'[d].op = "tx"
            PROVE  task[d].op = "tx" /\ task'[d].id = task[d].id /\ task[d].id \in 1..reqs
        <4>1. task[d].op = "tx"
          BY <3>1, StartOthers
        <4>2. task[d].id \in 1..reqs /\ task[d].pc # "idle"
          BY <4>1 DEF StorageInv, TasksInv, TaskInv, TxInv, PcInv
        <4>3. QED
          BY <3>1, <4>1, <4>2, StartOthers
      <3>2. QED
        BY <3>1
    <2>2. task'[c].id = reqs + 1
      BY <1>3, <1>4 DEF Begun
    <2>3. \A i \in 1..reqs : i # reqs + 1
      BY <1>1
    <2>4. \A d, e \in Clients :
            task'[d].op = "tx" /\ task'[e].op = "tx" /\ task'[d].id = task'[e].id => d = e
      BY <2>1, <2>2, <2>3 DEF StorageInv, TasksInv
    <2>5. QED
      BY <1>4, <1>7, <2>4 DEF TasksInv
  <1>9. \A d \in Clients :
          /\ task'[d].pc = "tx" => task[d].pc = "tx" /\ task'[d].buf = task[d].buf
          /\ task[d].pc # "idle" => task'[d].pc = task[d].pc /\ task'[d].op = task[d].op
    <2>1. ASSUME NEW d \in Clients
          PROVE  /\ task'[d].pc = "tx" => task[d].pc = "tx" /\ task'[d].buf = task[d].buf
                 /\ task[d].pc # "idle" => task'[d].pc = task[d].pc /\ task'[d].op = task[d].op
      <3>1. CASE d = c
        BY <1>3, <1>4, <3>1 DEF Begun
      <3>2. CASE d # c
        BY <3>2, StartOthers
      <3>3. QED
        BY <3>1, <3>2
    <2>2. QED
      BY <2>1
  <1>10. LockInv'
    <2>1. writer \in Clients \cup {None}
      BY DEF StorageInv, StoreInv
    <2>2. QED
      BY <1>2, <1>9, <2>1 DEF StorageInv, LockInv, LockHasOwner
  <1>11. CountInv'
    <2>1. incs' \in Nat /\ CounterKept
      BY <1>2 DEF CounterKept, StorageInv, StoreInv
    <2>2. QED
      BY <1>1, <1>9, <2>1, CountersAgree
  <1>12. StoreInv'
    <2>1. \A m : OkMap(m) => OkMap(m)'
      BY <1>1, GrowsValues
    <2>2. OkMap(data)' /\ (snap' = None \/ OkMap(snap)')
      BY <1>2, <2>1 DEF StorageInv, StoreInv
    <2>3. \A i \in Ids : i > reqs' => status'[i] = "plain"
      <3>1. \A i \in Ids : i > reqs + 1 => i > reqs
        BY <1>1 DEF Ids
      <3>2. QED
        BY <1>1, <1>2, <3>1 DEF StorageInv, StoreInv
    <2>4. QED
      BY <1>2, <1>4, <2>2, <2>3 DEF StorageInv, StoreInv, Wrap, Ids
  <1>13. QED
    BY <1>8, <1>10, <1>11, <1>12 DEF StorageInv

\* A request of one call.
LEMMA StartCall ==
    ASSUME StorageInv, NEW c \in Clients, NEW op \in StoreOps, op # "none", op # "install",
           NEW x \in CallRecord, Start(c, op, <<x>>),
           used \subseteq used', op \in Replacing \cup {"increment"} => op \in used', StoreCallInv(op, x)'
    PROVE  StorageInv'
  <1>1. PICK q : q = <<x>>
    OBVIOUS
  <1>2. q \in Seq(CallRecord) /\ q # <<>> /\ DOMAIN q = {1} /\ q[1] = x
    BY <1>1
  <1>3. CallsInv(op, q)'
    BY <1>2 DEF CallsInv
  <1>4. Start(c, op, q)
    BY <1>1
  <1>5. QED
    BY <1>2, <1>3, <1>4, StartStep

\* A call that carries the number of its request.
LEMMA OwnValue ==
    ASSUME StorageInv, NEW c \in Clients, NEW op \in StoreOps, NEW q \in Seq(CallRecord), Start(c, op, q),
           used \subseteq used', op # "tx", NEW v \in {Absent, reqs + 1, - (reqs + 1)}
    PROVE  OkValue(v)'
  <1>1. reqs + 1 \in Settled' /\ reqs \in Nat
    BY StartGrows
  <1>2. v = Absent \/ Number(v)' = reqs + 1
    BY <1>1 DEF Number
  <1>3. QED
    BY <1>1, <1>2 DEF OkValue

LEMMA PlainIs ==
    ASSUME NEW f \in CallNames
    PROVE  Plain(f) \in CallRecord /\ Plain(f).f = f /\ Plain(f).k \notin Keys
  BY StorageAssumption, AbsentOk DEF Plain, Call, CallRecord, AllKeys

LEMMA CallIs ==
    ASSUME NEW f \in CallNames, NEW k \in AllKeys, NEW v \in Int, NEW e \in Int
    PROVE  /\ Call(f, k, v, e) \in CallRecord
           /\ Call(f, k, v, e).f = f /\ Call(f, k, v, e).k = k /\ Call(f, k, v, e).v = v
  BY DEF Call, CallRecord

\* A request with one call on a key.
LEMMA StartKeyCall ==
    ASSUME StorageInv, NEW c \in Clients, NEW f \in {"put", "delete", "cas"},
           NEW k \in Keys, NEW v \in {Absent, reqs + 1, - (reqs + 1)}, NEW e \in Int,
           Start(c, f, <<Call(f, k, v, e)>>), used \subseteq used'
    PROVE  StorageInv'
  <1>1. PICK x : x = Call(f, k, v, e)
    OBVIOUS
  <1>2. PICK q : q = <<x>>
    OBVIOUS
  <1>3. f \in CallNames /\ f \in StoreOps /\ k \in AllKeys
    BY DEF CallNames, StoreOps, AllKeys
  <1>4. v \in Int
    BY AbsentOk, StorageAssumption DEF StorageInv, StoreInv
  <1>5. x \in CallRecord /\ x.f = f /\ x.k = k /\ x.v = v
    BY <1>1, <1>3, <1>4, CallIs
  <1>6. q \in Seq(CallRecord) /\ Start(c, f, q)
    BY <1>1, <1>2, <1>5
  <1>7. OkValue(v)'
    BY <1>3, <1>6, OwnValue
  <1>8. StoreCallInv(f, x)'
    BY <1>5, <1>7 DEF StoreCallInv, PlainCalls
  <1>9. QED
    BY <1>1, <1>3, <1>5, <1>8, StartCall DEF Replacing

\* A request with one call on no key.
LEMMA StartPlain ==
    ASSUME StorageInv, NEW c \in Clients, NEW op \in StoreOps, NEW f \in CallNames,
           Start(c, op, <<Plain(f)>>), used \subseteq used',
           \/ op = "delete_range" /\ f = "range"
           \/ op = "increment" /\ f = "increment" /\ op \in used'
           \/ op = "tx" /\ f = "begin"
           \/ op = "snapshot" /\ f = "snapshot"
           \/ op = "close" /\ f = "clear" /\ op \in used'
    PROVE  StorageInv'
  <1>1. PICK x : x = Plain(f)
    OBVIOUS
  <1>2. x \in CallRecord /\ x.f = f /\ x.k \notin Keys
    BY <1>1, PlainIs
  <1>3. StoreCallInv(op, x)'
    BY <1>2 DEF StoreCallInv, PlainCalls, Replacing
  <1>4. QED
    BY <1>1, <1>2, <1>3, StartCall DEF Replacing

LEMMA AppendHolds ==
    ASSUME NEW X, NEW r \in Seq(X), NEW e \in X
    PROVE  /\ Append(r, e)[Len(r) + 1] = e
           /\ \A j \in 1..Len(r) : Append(r, e)[j] = r[j]
  OBVIOUS

\* Every element of a joined list is one of the parts'.
LEMMA JoinDoes ==
    ASSUME NEW X, NEW h \in Seq(X), NEW p \in Seq(X), NEW e \in X, NEW q, q = h \o p \o <<e>>
    PROVE  /\ q \in Seq(X) /\ q # <<>>
           /\ \A j \in DOMAIN q :
                IF j = Len(q) THEN q[j] = e
                ELSE (\E i \in DOMAIN h : q[j] = h[i]) \/ (\E i \in DOMAIN p : q[j] = p[i])
  <1>1. PICK r : r = h \o p
    OBVIOUS
  <1>2. Len(h) \in Nat /\ DOMAIN h = 1..Len(h) /\ Len(p) \in Nat /\ DOMAIN p = 1..Len(p)
    OBVIOUS
  <1>3. /\ r \in Seq(X) /\ Len(r) = Len(h) + Len(p) /\ DOMAIN r = 1..(Len(h) + Len(p))
        /\ \A j \in DOMAIN r : r[j] = IF j <= Len(h) THEN h[j] ELSE p[j - Len(h)]
    BY <1>1, <1>2
  <1>4. \A j \in DOMAIN r : (\E i \in DOMAIN h : r[j] = h[i]) \/ (\E i \in DOMAIN p : r[j] = p[i])
    <2>1. \A j \in DOMAIN r : j \in DOMAIN h \/ (~(j <= Len(h)) /\ j - Len(h) \in DOMAIN p)
      BY <1>2, <1>3
    <2>2. \A j \in DOMAIN h : j <= Len(h)
      BY <1>2
    <2>3. QED
      BY <1>3, <2>1, <2>2
  <1>5. q = Append(r, e)
    BY <1>1, <1>3
  <1>6. /\ q \in Seq(X) /\ Len(q) = Len(r) + 1 /\ DOMAIN q = 1..(Len(r) + 1) /\ Len(r) \in Nat
        /\ DOMAIN r = 1..Len(r)
        /\ q[Len(r) + 1] = e /\ \A j \in 1..Len(r) : q[j] = r[j]
    <2>1. r \in Seq(X)
      BY <1>3
    <2>2. q \in Seq(X) /\ Len(q) = Len(r) + 1 /\ Len(r) \in Nat
      BY <1>5, <2>1
    <2>3. DOMAIN q = 1..(Len(r) + 1) /\ DOMAIN r = 1..Len(r)
      BY <2>1, <2>2
    <2>4. q[Len(r) + 1] = e /\ \A j \in 1..Len(r) : q[j] = r[j]
      <3>1. Append(r, e)[Len(r) + 1] = e /\ \A j \in 1..Len(r) : Append(r, e)[j] = r[j]
        BY <2>1, AppendHolds, Zenon
      <3>2. QED
        BY <1>5, <3>1, Zenon
    <2>5. QED
      BY <2>2, <2>3, <2>4
  <1>7. q # <<>>
    BY <1>6
  <1>8. \A j \in DOMAIN q : j = Len(q) \/ j \in DOMAIN r
    BY <1>6
  <1>9. ASSUME NEW j \in DOMAIN q, j # Len(q)
        PROVE  (\E i \in DOMAIN h : q[j] = h[i]) \/ (\E i \in DOMAIN p : q[j] = p[i])
    <2>1. j \in DOMAIN r /\ q[j] = r[j]
      BY <1>6, <1>8, <1>9
    <2>2. QED
      BY <1>4, <2>1
  <1>10. q[Len(q)] = e /\ q \in Seq(X)
    BY <1>6
  <1>11. QED
    BY <1>7, <1>9, <1>10

LEMMA PairsDoes ==
    ASSUME OkMap(snap), NEW f \in CallNames, NEW p, p = Pairs(f)
    PROVE  /\ p \in Seq(CallRecord)
           /\ \A j \in DOMAIN p : p[j].f = f /\ (p[j].k \in Keys => OkValue(p[j].v))
  <1>1. PICK ks : ks = Ordered({k \in AllKeys : snap[k] # Absent})
    OBVIOUS
  <1>2. ks \in Seq(AllKeys)
    <2>1. {k \in AllKeys : snap[k] # Absent} \subseteq AllKeys
      OBVIOUS
    <2>2. QED
      BY <1>1, <2>1, OrderedDoes
  <1>3. Len(ks) \in Nat /\ DOMAIN ks = 1..Len(ks) /\ \A i \in DOMAIN ks : ks[i] \in AllKeys
    BY <1>2
  <1>4. p = [i \in DOMAIN ks |-> Call(f, ks[i], snap[ks[i]], Absent)]
    BY <1>1 DEF Pairs
  <1>5. snap \in [AllKeys -> Int] /\ \A k \in Keys : OkValue(snap[k])
    BY DEF OkMap
  <1>6. ASSUME NEW j \in DOMAIN ks
        PROVE  p[j] \in CallRecord /\ p[j].f = f /\ p[j].k = ks[j] /\ p[j].v = snap[ks[j]]
    <2>1. PICK k \in AllKeys : k = ks[j]
      BY <1>3
    <2>2. PICK v \in Int : v = snap[k]
      BY <1>5
    <2>3. p[j] = Call(f, k, v, Absent)
      BY <1>4, <2>1, <2>2
    <2>4. QED
      BY <2>1, <2>2, <2>3, CallIs, AbsentOk
  <1>7. p \in Seq(CallRecord) /\ DOMAIN p = DOMAIN ks
    <2>1. DOMAIN p = DOMAIN ks
      BY <1>4
    <2>2. p = [i \in 1..Len(ks) |-> p[i]]
      BY <1>3, <1>4
    <2>3. \A i \in 1..Len(ks) : p[i] \in CallRecord
      BY <1>3, <1>6
    <2>4. QED
      BY <1>3, <2>1, <2>2, <2>3
  <1>8. \A j \in DOMAIN ks : p[j].k \in Keys => OkValue(p[j].v)
    BY <1>5, <1>6
  <1>9. QED
    BY <1>6, <1>7, <1>8

\* A call of a request that replaces the map.
LEMMA ReplacingCalls ==
    ASSUME NEW op \in Replacing, NEW x, x.k \in Keys => OkValue(x.v),
           x.f \notin {"begin", "increment"},
           x.f = "lock" => backend = "memory" /\ op = "install",
           x.f = "swap" => OkMap(snap)
    PROVE  StoreCallInv(op, x)
  BY DEF StoreCallInv

\* The calls of a restore or an installation that clears with h and then writes
\* each pair with f.
LEMMA ListOk ==
    ASSUME OkMap(snap), NEW op \in {"restore", "install"}, NEW h \in Seq(CallRecord),
           NEW f \in {"raw", "raw_counted", "put"}, NEW g \in {"set_counts", "end"},
           NEW q, q = h \o Pairs(f) \o <<Plain(g)>>,
           \A i \in DOMAIN h : /\ h[i].k \notin Keys
                               /\ h[i].f \in {"lock", "clear", "reset", "range_all"}
                               /\ h[i].f = "lock" => backend = "memory" /\ op = "install",
           backend = "memory" /\ op = "install" =>
             /\ f = "raw" /\ g = "set_counts"
             /\ \A i \in DOMAIN h : h[i].f = "lock"
    PROVE  q \in Seq(CallRecord) /\ q # <<>> /\ CallsInv(op, q)
  <1>1. PICK p : p = Pairs(f)
    OBVIOUS
  <1>2. PICK e : e = Plain(g)
    OBVIOUS
  <1>3. f \in CallNames /\ g \in CallNames /\ op \in Replacing
    BY DEF CallNames, Replacing
  <1>4. /\ p \in Seq(CallRecord)
        /\ \A j \in DOMAIN p : p[j].f = f /\ (p[j].k \in Keys => OkValue(p[j].v))
    BY <1>1, <1>3, PairsDoes
  <1>5. e \in CallRecord /\ e.f = g /\ e.k \notin Keys
    BY <1>2, <1>3, PlainIs
  <1>6. /\ q \in Seq(CallRecord) /\ q # <<>>
        /\ \A j \in DOMAIN q :
             IF j = Len(q) THEN q[j] = e
             ELSE (\E i \in DOMAIN h : q[j] = h[i]) \/ (\E i \in DOMAIN p : q[j] = p[i])
    BY <1>1, <1>2, <1>4, <1>5, JoinDoes
  <1>7. /\ \A i \in DOMAIN h : StoreCallInv(op, h[i])
        /\ \A i \in DOMAIN p : StoreCallInv(op, p[i])
        /\ StoreCallInv(op, e)
    BY <1>3, <1>4, <1>5, ReplacingCalls
  <1>8. \A j \in DOMAIN q : StoreCallInv(op, q[j])
    BY <1>6, <1>7
  <1>9. backend = "memory" /\ op = "install" =>
          \A j \in DOMAIN q : IF j = Len(q) THEN q[j].f = "set_counts" ELSE q[j].f \in {"lock", "raw"}
    <2>1. SUFFICES ASSUME backend = "memory", op = "install", NEW j \in DOMAIN q
                   PROVE  IF j = Len(q) THEN q[j].f = "set_counts" ELSE q[j].f \in {"lock", "raw"}
      OBVIOUS
    <2>2. CASE j = Len(q)
      BY <1>5, <1>6, <2>1, <2>2
    <2>3. CASE j # Len(q)
      <3>1. (\E i \in DOMAIN h : q[j] = h[i]) \/ (\E i \in DOMAIN p : q[j] = p[i])
        BY <1>6, <2>3
      <3>2. \A i \in DOMAIN p : p[i].f = "raw"
        BY <1>4, <2>1
      <3>3. \A i \in DOMAIN h : h[i].f = "lock"
        BY <2>1
      <3>4. QED
        BY <2>3, <3>1, <3>2, <3>3
    <2>4. QED
      BY <2>2, <2>3
  <1>10. QED
    BY <1>6, <1>8, <1>9 DEF CallsInv

LEMMA HeadCall ==
    ASSUME NEW f \in CallNames, NEW h, h = <<Plain(f)>>
    PROVE  h \in Seq(CallRecord) /\ \A i \in DOMAIN h : h[i].f = f /\ h[i].k \notin Keys
  <1>1. PICK x : x = Plain(f)
    OBVIOUS
  <1>2. x \in CallRecord /\ x.f = f /\ x.k \notin Keys
    BY <1>1, PlainIs
  <1>3. h = <<x>> /\ h \in Seq(CallRecord) /\ DOMAIN h = {1} /\ h[1] = x
    BY <1>1, <1>2
  <1>4. QED
    BY <1>2, <1>3

LEMMA RestoreCallsOk ==
    ASSUME OkMap(snap), NEW op \in {"restore", "install"}, NEW q, q = RestoreCalls(op)
    PROVE  q \in Seq(CallRecord) /\ q # <<>> /\ CallsInv(op, q)
  <1>1. "memory" \notin Any /\ "memory" # "skiplist"
    BY DEF Any
  <1>2. CASE backend \in Any
    <2>1. q = <<Plain("range_all")>> \o Pairs("put") \o <<Plain("end")>>
      BY <1>2 DEF RestoreCalls, AnyInstall, Any
    <2>2. PICK h : h = <<Plain("range_all")>>
      OBVIOUS
    <2>3. h \in Seq(CallRecord) /\ \A i \in DOMAIN h : h[i].f = "range_all" /\ h[i].k \notin Keys
      BY <2>2, HeadCall DEF CallNames
    <2>4. q = h \o Pairs("put") \o <<Plain("end")>>
      BY <2>1, <2>2
    <2>5. QED
      BY <1>1, <1>2, <2>3, <2>4, ListOk
  <1>3. CASE backend = "memory" /\ op = "install"
    <2>1. q = <<Plain("lock")>> \o Pairs("raw") \o <<Plain("set_counts")>>
      BY <1>1, <1>3 DEF RestoreCalls, MemoryInstall
    <2>2. PICK h : h = <<Plain("lock")>>
      OBVIOUS
    <2>3. h \in Seq(CallRecord) /\ \A i \in DOMAIN h : h[i].f = "lock" /\ h[i].k \notin Keys
      BY <2>2, HeadCall DEF CallNames
    <2>4. q = h \o Pairs("raw") \o <<Plain("set_counts")>>
      BY <2>1, <2>2
    <2>5. QED
      BY <1>3, <2>3, <2>4, ListOk
  <1>4. CASE backend = "memory" /\ op = "restore"
    <2>1. q = <<Plain("swap"), Plain("set_counts")>>
      BY <1>1, <1>4 DEF RestoreCalls, MemoryRestore
    <2>2. PICK a, b : a = Plain("swap") /\ b = Plain("set_counts")
      OBVIOUS
    <2>3. "swap" \in CallNames /\ "set_counts" \in CallNames /\ op \in Replacing
      BY DEF CallNames, Replacing
    <2>4. a \in CallRecord /\ a.f = "swap" /\ a.k \notin Keys /\ b \in CallRecord /\ b.f = "set_counts" /\ b.k \notin Keys
      BY <2>2, <2>3, PlainIs
    <2>5. StoreCallInv(op, a) /\ StoreCallInv(op, b)
      BY <2>3, <2>4, ReplacingCalls
    <2>6. q = <<a, b>>
      BY <2>1, <2>2
    <2>7. q \in Seq(CallRecord) /\ q # <<>> /\ DOMAIN q = 1..2 /\ q[1] = a /\ q[2] = b
      BY <2>4, <2>6
    <2>8. \A j \in DOMAIN q : q[j] = a \/ q[j] = b
      <3>1. \A j \in 1..2 : j = 1 \/ j = 2
        OBVIOUS
      <3>2. QED
        BY <2>7, <3>1
    <2>9. QED
      BY <1>4, <2>5, <2>7, <2>8 DEF CallsInv
  <1>5. CASE backend = "skiplist"
    <2>1. \/ q = <<Plain("clear")>> \o Pairs("raw") \o <<Plain("set_counts")>>
          \/ q = <<Plain("clear"), Plain("reset")>> \o Pairs("raw_counted") \o <<Plain("end")>>
      BY <1>5 DEF RestoreCalls, SkipListRestore, SkipListInstall, Any
    <2>2. CASE q = <<Plain("clear")>> \o Pairs("raw") \o <<Plain("set_counts")>>
      <3>1. PICK h : h = <<Plain("clear")>>
        OBVIOUS
      <3>2. h \in Seq(CallRecord) /\ \A i \in DOMAIN h : h[i].f = "clear" /\ h[i].k \notin Keys
        BY <3>1, HeadCall DEF CallNames
      <3>3. q = h \o Pairs("raw") \o <<Plain("set_counts")>>
        BY <2>2, <3>1
      <3>4. QED
        BY <1>5, <3>2, <3>3, ListOk
    <2>3. CASE q = <<Plain("clear"), Plain("reset")>> \o Pairs("raw_counted") \o <<Plain("end")>>
      <3>1. PICK h : h = <<Plain("clear"), Plain("reset")>>
        OBVIOUS
      <3>2. PICK a, b : a = Plain("clear") /\ b = Plain("reset")
        OBVIOUS
      <3>3. /\ a \in CallRecord /\ a.f = "clear" /\ a.k \notin Keys
            /\ b \in CallRecord /\ b.f = "reset" /\ b.k \notin Keys
        <4>1. "clear" \in CallNames /\ "reset" \in CallNames
          BY DEF CallNames
        <4>2. QED
          BY <3>2, <4>1, PlainIs
      <3>4. h = <<a, b>>
        BY <3>1, <3>2
      <3>5. h \in Seq(CallRecord) /\ DOMAIN h = 1..2 /\ h[1] = a /\ h[2] = b
        BY <3>3, <3>4
      <3>6. \A j \in 1..2 : j = 1 \/ j = 2
        OBVIOUS
      <3>7. \A i \in DOMAIN h : h[i].f \in {"clear", "reset"} /\ h[i].k \notin Keys
        BY <3>3, <3>5, <3>6
      <3>8. q = h \o Pairs("raw_counted") \o <<Plain("end")>>
        BY <2>3, <3>1
      <3>9. QED
        BY <1>5, <3>5, <3>7, <3>8, ListOk
    <2>4. QED
      BY <2>1, <2>2, <2>3
  <1>6. CASE backend \notin Any \cup {"memory", "skiplist"}
    <2>1. q = <<Plain("clear")>> \o Pairs("raw") \o <<Plain("end")>>
      BY <1>6 DEF RestoreCalls, FjallRestore
    <2>2. PICK h : h = <<Plain("clear")>>
      OBVIOUS
    <2>3. h \in Seq(CallRecord) /\ \A i \in DOMAIN h : h[i].f = "clear" /\ h[i].k \notin Keys
      BY <2>2, HeadCall DEF CallNames
    <2>4. q = h \o Pairs("raw") \o <<Plain("end")>>
      BY <2>1, <2>2
    <2>5. QED
      BY <1>6, <2>3, <2>4, ListOk
  <1>7. QED
    BY <1>2, <1>3, <1>4, <1>5, <1>6

LEMMA RequestKeeps ==
    ASSUME StorageInv, NEW c \in Clients, Request(c)
    PROVE  StorageInv'
  <1>1. CASE RequestPut(c)
    <2>1. PICK k \in Keys, v \in {reqs + 1, - (reqs + 1)} : Start(c, "put", <<Call("put", k, v, Absent)>>)
      BY <1>1, Zenon DEF RequestPut
    <2>2. used \subseteq used'
      BY <1>1 DEF RequestPut
    <2>3. QED
      BY <2>1, <2>2, StartKeyCall, AbsentOk
  <1>2. CASE RequestDelete(c)
    <2>1. PICK k \in Keys : Start(c, "delete", <<Call("delete", k, Absent, Absent)>>)
      BY <1>2, Zenon DEF RequestDelete
    <2>2. used \subseteq used'
      BY <1>2 DEF RequestDelete
    <2>3. QED
      BY <2>1, <2>2, StartKeyCall, AbsentOk
  <1>3. CASE RequestDeleteRange(c)
    BY <1>3, StartPlain DEF RequestDeleteRange, StoreOps, CallNames
  <1>4. CASE RequestCas(c)
    <2>0. PICK k \in Keys, v \in {Absent, reqs + 1} :
            \E e \in {Absent, data[k]} : Start(c, "cas", <<Call("cas", k, v, e)>>)
      BY <1>4, Zenon DEF RequestCas
    <2>1. PICK e \in {Absent, data[k]} : Start(c, "cas", <<Call("cas", k, v, e)>>)
      BY <2>0, Zenon
    <2>2. used \subseteq used'
      BY <1>4 DEF RequestCas
    <2>3. e \in Int
      BY AbsentOk DEF StorageInv, StoreInv, OkMap, AllKeys
    <2>4. QED
      BY <2>1, <2>2, <2>3, StartKeyCall
  <1>5. CASE RequestIncrement(c)
    BY <1>5, StartPlain DEF RequestIncrement, StoreOps, CallNames
  <1>6. CASE RequestTransaction(c)
    BY <1>6, StartPlain DEF RequestTransaction, StoreOps, CallNames
  <1>7. CASE RequestSnapshot(c)
    BY <1>7, StartPlain DEF RequestSnapshot, StoreOps, CallNames
  <1>8. CASE RequestRestore(c)
    <2>1. PICK op \in {"restore", "install"} : Start(c, op, RestoreCalls(op)) /\ used' = used \cup {op}
      BY <1>8, Zenon DEF RequestRestore
    <2>2. PICK q : q = RestoreCalls(op)
      OBVIOUS
    <2>3. OkMap(snap) /\ snap' = snap
      <3>1. snap # None
        BY <1>8, Zenon DEF RequestRestore
      <3>2. snap' = snap
        BY <2>1, Zenon DEF Start
      <3>3. QED
        BY <3>1, <3>2 DEF StorageInv, StoreInv
    <2>4. q \in Seq(CallRecord) /\ q # <<>> /\ CallsInv(op, q)
      BY <2>2, <2>3, RestoreCallsOk
    <2>5. op \in StoreOps /\ op # "none" /\ Start(c, op, q) /\ used \subseteq used' /\ op \in used'
      BY <2>1, <2>2 DEF StoreOps
    <2>6. Grows
      BY <2>4, <2>5, StartGrows
    <2>7. CallsInv(op, q)'
      BY <2>3, <2>4, <2>6, GrowsCalls
    <2>8. QED
      BY <2>4, <2>5, <2>7, StartStep
  <1>9. CASE RequestClose(c)
    BY <1>9, StartPlain DEF RequestClose, StoreOps, CallNames
  <1>10. QED
    BY <1>1, <1>2, <1>3, <1>4, <1>5, <1>6, <1>7, <1>8, <1>9 DEF Request

LEMMA StorageInitOk == Init => StorageInv
  <1> SUFFICES ASSUME Init PROVE StorageInv
    OBVIOUS
  <1>1. NoTask \in TaskRecord /\ TaskInv(NoTask) /\ NoTask.op = "none" /\ NoTask.pc = "idle"
    BY NoTaskOk
  <1>2. TasksInv
    BY <1>1 DEF Init, TasksInv
  <1>3. OkMap(data) /\ data[Counter] = 0
    BY AbsentOk DEF Init, OkMap, AllKeys, Absent
  <1>4. StoreInv
    <2>1. status \in [Ids -> {"plain", "open", "done", "undone"}]
      BY DEF Init
    <2>2. \A i \in Ids : status[i] = "plain"
      BY DEF Init
    <2>3. reqs \in 0..MaxReqs /\ incs \in Nat
      <3>1. MaxReqs \in Nat /\ reqs = 0 /\ incs = 0
        BY StorageAssumption, Zenon DEF Init
      <3>2. QED
        BY <3>1
    <2>4. entries \in 0..(Wrap - 1)
      BY CountsWrap, Zenon DEF Init
    <2>5. /\ writer \in Clients \cup {None} /\ snap = None
          /\ backend \in Backends /\ overlap \in BOOLEAN
      BY Zenon DEF Init
    <2>6. QED
      BY <1>3, <2>1, <2>2, <2>3, <2>4, <2>5, Zenon DEF StoreInv
  <1>5. LockInv
    BY <1>1 DEF Init, LockInv, LockHasOwner
  <1>6. CountInv
    BY <1>1, <1>3 DEF Init, CountInv
  <1>7. QED
    BY <1>2, <1>4, <1>5, <1>6 DEF StorageInv

LEMMA StorageNextOk == StorageInv /\ [Next]_vars => StorageInv'
  <1> SUFFICES ASSUME StorageInv, [Next]_vars PROVE StorageInv'
    OBVIOUS
  <1>1. CASE UNCHANGED vars
    <2>1. Settled' = Settled
      BY <1>1 DEF vars, Settled
    <2>2. reqs \in Nat
      BY StorageAssumption DEF StorageInv, StoreInv
    <2>3. Grows
      BY <1>1, <2>1, <2>2 DEF vars, Grows
    <2>4. StoreInv'
      <3>1. OkMap(data)' /\ (snap' = None \/ OkMap(snap)')
        BY <1>1, <2>3, GrowsValues DEF vars, StorageInv, StoreInv
      <3>2. QED
        BY <1>1, <3>1 DEF vars, StorageInv, StoreInv
    <2>5. TasksInv'
      <3>1. ASSUME NEW d \in Clients PROVE TaskInv(task[d])'
        <4>1. PICK u : u = task[d]
          OBVIOUS
        <4>2. u \in TaskRecord /\ TaskInv(u) /\ u = task'[d] /\ snap' = snap /\ status' = status
          BY <1>1, <4>1 DEF vars, StorageInv, TasksInv
        <4>3. u.op = "tx" => status'[u.id] \in {"plain", "open"}
          BY <4>2 DEF TaskInv, TxInv
        <4>4. TaskInv(u)'
          BY <2>3, <4>2, <4>3, GrowsTask
        <4>5. QED
          BY <4>2, <4>4
      <3>2. QED
        BY <1>1, <3>1 DEF vars, StorageInv, TasksInv
    <2>6. LockInv'
      BY <1>1 DEF vars, StorageInv, LockInv, LockHasOwner
    <2>7. CountInv'
      <3>1. CounterKept /\ incs' \in Nat
        BY <1>1 DEF vars, CounterKept, StorageInv, StoreInv
      <3>2. task' = task
        BY <1>1 DEF vars
      <3>3. QED
        BY <2>3, <3>1, <3>2, CountersAgree
    <2>8. QED
      BY <2>4, <2>5, <2>6, <2>7 DEF StorageInv
  <1>2. ASSUME NEW c \in Clients, Request(c) \/ Step(c) PROVE StorageInv'
    BY <1>2, RequestKeeps, WriteKeeps, UpdateKeeps, TransactionKeeps, SnapshotsKeep DEF Step
  <1>3. QED
    BY <1>1, <1>2 DEF Next

LEMMA StorageInvIsolates == StorageInv => TransactionsIsolated
  <1> SUFFICES ASSUME StorageInv PROVE TransactionsIsolated
    OBVIOUS
  <1>1. data \in [AllKeys -> Int] /\ \A k \in Keys : OkValue(data[k])
    BY DEF StorageInv, StoreInv, OkMap
  <1>2. TypeOK
    <2>1. ASSUME NEW c \in Clients
          PROVE  /\ task[c].pc \in StorePcs /\ task[c].id \in 0..MaxReqs /\ task[c].alone \in BOOLEAN
                 /\ Len(task[c].buf) <= MaxTxOps
                 /\ task[c].pc \notin {"idle", "tx", "commit"} => task[c].calls # <<>>
      <3>1. task[c] \in TaskRecord /\ TaskInv(task[c])
        BY DEF StorageInv, TasksInv
      <3>2. QED
        BY <3>1, TaskFields DEF TaskInv, PcInv, TxInv
    <2>2. snap = None \/ snap \in [AllKeys -> Int]
      BY DEF StorageInv, StoreInv, OkMap
    <2>3. QED
      BY <1>1, <2>1, <2>2 DEF StorageInv, StoreInv, TypeOK, StorePcs
  <1>3. UncommittedInvisible
    BY <1>1 DEF UncommittedInvisible, OkValue, Atomic, Settled
  <1>4. IncrementsKept
    BY DEF IncrementsKept, StorageInv, CountInv, Calm, Replacing
  <1>5. LockHasOwner
    BY DEF StorageInv, LockInv
  <1>6. QED
    BY <1>2, <1>3, <1>4, <1>5 DEF TransactionsIsolated

\* On every backend, for any number of clients, keys and requests: the writes of a
\* transaction that is open, was rolled back or whose commit failed are in no state of
\* the map of a backend that commits in one step; no acknowledged increment is lost
\* there, while the counter is only incremented in the ways that are atomic and the map
\* is not replaced; and the write lock is held only by a transaction or an installation
\* that will release it (the write transactions of oprc-dp-storage).
THEOREM TransactionsStayIsolated == Spec => []TransactionsIsolated
  <1>1. Init => StorageInv
    BY StorageInitOk
  <1>2. StorageInv /\ [Next]_vars => StorageInv'
    BY StorageNextOk
  <1>3. StorageInv => TransactionsIsolated
    BY StorageInvIsolates
  <1>4. QED
    BY <1>1, <1>2, <1>3, PTL DEF Spec
=============================================================================
