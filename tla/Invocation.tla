----------------------------- MODULE Invocation -----------------------------
(***************************************************************************)
(* A request on its way from a client to a function or an object and back: *)
(* the gateway's REST and gRPC handlers (oprc-gateway/src/handler), the    *)
(* proxy that turns them into Zenoh queries (oprc-invoke/src/proxy.rs),    *)
(* the workers of the shard that answer them (oprc-invoke/src/handler.rs), *)
(* the offloader (shard/invocation/exec.rs) with its connection pools      *)
(* (oprc-invoke/src/conn.rs) and the WASM runtime (oprc-wasm/src).         *)
(*                                                                         *)
(* One shard, one object.  An invocation is a call; a function's body may  *)
(* invoke further functions, a WASM guest through the host, a remote       *)
(* function through a query of its own.  Every `.await` is a step.         *)
(*                                                                         *)
(* build_router hands the REST handlers `retries` = 0 (mod.rs:93, the      *)
(* inner layer wins over the configured value), so their loops run once.   *)
(***************************************************************************)
EXTENDS Naturals, Sequences, FiniteSets

CONSTANTS
    Clients,    \* client requests, one each
    Fns,        \* function names
    Route,      \* [Fns -> {"wasm", "grpc", "none"}]: fn_routes of the shard
    Body,       \* [Fns -> SUBSET Fns]: the functions a body may invoke
    Requests,   \* the requests clients may send: records [via, op, fn]
    Workers,    \* concurrency of a function's managed queryable
    MaxOpen,    \* offload_max_pool_size
    MaxDepth,   \* DEFAULT_MAX_REENTRANT_DEPTH
    MaxCalls,   \* bound: calls in a behaviour
    None        \* no client

Calls == 1 .. MaxCalls

\* via: the gateway's "rest" and "grpc", ODGM's own "odgm" gRPC service, and
\* "zenoh" for an asynchronous invocation published directly.
Request == [via : {"rest", "grpc", "odgm", "zenoh"},
            op  : {"invoke", "async", "get", "put", "del", "bad"},
            fn  : Fns]

ASSUME InvocationAssumption ==
    /\ Route \in [Fns -> {"wasm", "grpc", "none"}]
    /\ Body \in [Fns -> SUBSET Fns]
    /\ Requests \subseteq Request
    /\ Workers \in Nat \ {0}
    /\ MaxOpen \in Nat \ {0}
    /\ MaxDepth \in Nat
    /\ MaxCalls \in Nat
    /\ None \notin Clients

VARIABLES
    client,     \* the client's request: [pc, req, out]
    reply,      \* the first reply in the channel of the client's query
    call,       \* the invocations at the shard
    waiting,    \* tokio RwLock of pool_map: the queue of waiters, first come first served
    readers,    \* calls that hold its read guard
    writer,     \* the call that holds its write guard, or 0
    pool,       \* pool_map: the number of the pool in the map per function, 0 is none
    wasm,       \* the local offloader: attached or not, and the modules it has loaded
    stored,     \* the object is stored
    deleting,   \* deletes published and not yet applied
    applied     \* how often the shard applied the client's put

lockVars == <<waiting, readers, writer>>
dataVars == <<stored, deleting, applied>>
vars == <<client, reply, call, lockVars, pool, wasm, dataVars>>

NoReq == [via |-> "none", op |-> "none", fn |-> "none"]
Free == [pc |-> "free", fn |-> "none", by |-> "none", for |-> None, parent |-> 0, child |-> 0,
         depth |-> 0, conn |-> 0, ran |-> FALSE, event |-> "none", res |-> "none"]

Init ==
    /\ client = [c \in Clients |-> [pc |-> "idle", req |-> NoReq, out |-> "none"]]
    /\ reply = [c \in Clients |-> "none"]
    /\ call = [i \in Calls |-> Free]
    /\ waiting = <<>> /\ readers = {} /\ writer = 0
    /\ pool = [f \in Fns |-> 0]
    /\ wasm = [on |-> FALSE, mods |-> {}]
    /\ stored = FALSE /\ deleting = 0
    /\ applied = [c \in Clients |-> 0]

-----------------------------------------------------------------------------
(* Calls and replies                                                       *)

FreeCalls == {i \in Calls : call[i].pc = "free"}
NextCall == CHOOSE i \in FreeCalls : \A j \in FreeCalls : i <= j

NewCall(fn, by, for, parent) ==
    [Free EXCEPT !.pc = "queued", !.fn = fn, !.by = by, !.for = for, !.parent = parent]

\* The channel of a query keeps what arrives first; nobody reads it after the
\* client gave up.
Put(chan, c, what) ==
    IF c \in Clients /\ chan[c] = "none" /\ client[c].pc = "wait"
    THEN [chan EXCEPT ![c] = what] ELSE chan

-----------------------------------------------------------------------------
(* The clients: rest.rs and grpc.rs of the gateway, InvocationService      *)

SetClient(c, pc, req, out) == client' = [client EXCEPT ![c] = [pc |-> pc, req |-> req, out |-> out]]

\* ObjectProxy::call_zenoh: a query for a function without a route matches no
\* queryable and Zenoh closes the reply channel.
Query(c, fn) ==
    IF Route[fn] = "none"
    THEN reply' = [reply EXCEPT ![c] = "closed"] /\ UNCHANGED call
    ELSE /\ FreeCalls # {}
         /\ call' = [call EXCEPT ![NextCall] = NewCall(fn, "worker", c, 0)]
         /\ UNCHANGED reply

RestInvoke(c, req) ==
    /\ req.op = "invoke" /\ req.via = "rest"
    /\ SetClient(c, "wait", req, "none")
    /\ Query(c, req.fn)
    /\ UNCHANGED dataVars

GrpcInvoke(c, req) ==
    /\ req.op = "invoke" /\ req.via = "grpc"
    /\ SetClient(c, "wait", req, "none")
    /\ Query(c, req.fn)
    /\ UNCHANGED dataVars

\* ODGM's own gRPC service calls the shard's offloader itself.
OdgmInvoke(c, req) ==
    /\ req.op = "invoke" /\ req.via = "odgm"
    /\ FreeCalls # {}
    /\ SetClient(c, "wait", req, "none")
    /\ call' = [call EXCEPT ![NextCall] = NewCall(req.fn, "direct", c, 0)]
    /\ UNCHANGED <<reply, dataVars>>

\* A put on the asynchronous key: nobody waits for it.
SendAsync(c, req) ==
    /\ req.op = "async"
    /\ Route[req.fn] # "none"
    /\ FreeCalls # {}
    /\ SetClient(c, "done", req, "sent")
    /\ call' = [call EXCEPT ![NextCall] = NewCall(req.fn, "worker", None, 0)]
    /\ UNCHANGED <<reply, dataVars>>

SendGet(c, req) ==
    /\ req.op = "get"
    /\ SetClient(c, "wait", req, "none")
    /\ UNCHANGED <<reply, call, dataVars>>

SendPut(c, req) ==
    /\ req.op = "put"
    /\ SetClient(c, "wait", req, "none")
    /\ UNCHANGED <<reply, call, dataVars>>

\* del_obj publishes the delete and answers without waiting for the shard.
SendDelete(c, req) ==
    /\ req.op = "del"
    /\ SetClient(c, "done", req, "204")
    /\ deleting' = deleting + 1
    /\ UNCHANGED <<reply, call, stored, applied>>

\* REST refuses an object id that is empty, too long or has other characters.
Reject(c, req) ==
    /\ req.op = "bad" /\ req.via = "rest"
    /\ SetClient(c, "done", req, "400")
    /\ UNCHANGED <<reply, call, dataVars>>

Send(c) ==
    /\ client[c].pc = "idle"
    /\ \E req \in Requests :
          \/ RestInvoke(c, req)
          \/ GrpcInvoke(c, req)
          \/ OdgmInvoke(c, req)
          \/ SendAsync(c, req)
          \/ SendGet(c, req)
          \/ SendPut(c, req)
          \/ SendDelete(c, req)
          \/ Reject(c, req)
    /\ UNCHANGED <<lockVars, pool, wasm>>

\* Zenoh's own query timeout arrives as an error reply.
ZenohTimeout(c) ==
    /\ client[c].pc = "wait" /\ client[c].req.via # "odgm"
    /\ reply[c] = "none"
    /\ reply' = [reply EXCEPT ![c] = "err"]
    /\ UNCHANGED <<client, call, lockVars, pool, wasm, dataVars>>

\* A response, whatever its status says.
IsResponse(what) == what \in {"ok", "app", "sys"}

\* get_obj takes every error reply for "not there".
GetAnswer(what) == CASE what = "found" -> "200" [] what = "err" -> "404" [] OTHER -> "502"
PutAnswer(what) == IF what = "ok" THEN "200" ELSE "502"
\* REST does not look at the status of the response; gRPC hands it on.
RestAnswer(what) == IF IsResponse(what) THEN "200" ELSE "502"
GrpcAnswer(what) == IF IsResponse(what) THEN what ELSE "internal"
OdgmAnswer(what) == IF what = "ok" THEN "ok" ELSE "status"

Answers(req, what) ==
    IF req.op = "get" THEN GetAnswer(what)
    ELSE IF req.op = "put" THEN PutAnswer(what)
    ELSE CASE req.via = "rest" -> RestAnswer(what)
           [] req.via = "grpc" -> GrpcAnswer(what)
           [] OTHER -> OdgmAnswer(what)

Answer(c) ==
    /\ client[c].pc = "wait"
    /\ reply[c] # "none"
    /\ SetClient(c, "done", client[c].req, Answers(client[c].req, reply[c]))
    /\ UNCHANGED <<reply, call, lockVars, pool, wasm, dataVars>>

\* tokio::time::timeout around the proxy: the query is dropped, the call is not.
Deadline(c) ==
    /\ client[c].pc = "wait" /\ client[c].req.via # "odgm"
    /\ SetClient(c, "done", client[c].req, "504")
    /\ UNCHANGED <<reply, call, lockVars, pool, wasm, dataVars>>

-----------------------------------------------------------------------------
(* The object handlers of the shard: getter.rs and setter.rs               *)

\* Mutant: the answer goes out before the object is stored.
ServePutEarly(c) ==
    /\ client[c].req.op = "put" /\ applied[c] = 0
    /\ reply' = Put(reply, c, "ok")
    /\ UNCHANGED <<client, call, lockVars, pool, wasm, dataVars>>

\* A query that timed out at the client is still served.
ServePut(c) ==
    /\ client[c].req.op = "put" /\ applied[c] = 0
    /\ stored' = TRUE
    /\ applied' = [applied EXCEPT ![c] = @ + 1]
    /\ reply' = Put(reply, c, "ok")
    /\ UNCHANGED <<client, call, lockVars, pool, wasm, deleting>>

\* A missing object is an error reply.
ServeGet(c) ==
    /\ client[c].pc = "wait" /\ client[c].req.op = "get"
    /\ reply[c] = "none"
    /\ reply' = Put(reply, c, IF stored THEN "found" ELSE "err")
    /\ UNCHANGED <<client, call, lockVars, pool, wasm, dataVars>>

ApplyDelete ==
    /\ deleting > 0
    /\ deleting' = deleting - 1
    /\ stored' = FALSE
    /\ UNCHANGED <<client, reply, call, lockVars, pool, wasm, applied>>

-----------------------------------------------------------------------------
(* The offloader: InvocationOffloader::invoke_fn and invoke_obj            *)

IsWasmFn(f) == Route[f] = "wasm"

\* The end of a call: the worker (or InvocationService) answers with the
\* response, or with the error as a response of status AppError or SystemError.
Finished(i, res) ==
    [call EXCEPT ![i].pc = "done", ![i].res = res, ![i].conn = 0, ![i].depth = 0, ![i].child = 0]

Finish(i, res) ==
    /\ call' = Finished(i, res)
    /\ reply' = Put(reply, call[i].for, res)

\* Messages in the channel of a function's queryable are taken in order, one
\* per worker.
Busy(f) == {i \in Calls : call[i].fn = f /\ call[i].by = "worker" /\ call[i].pc \notin {"free", "queued", "done"}}
Turn(i) ==
    call[i].by = "worker" =>
        /\ Cardinality(Busy(call[i].fn)) < Workers
        /\ \A j \in 1 .. (i - 1) :
              ~(call[j].pc = "queued" /\ call[j].by = "worker" /\ call[j].fn = call[i].fn)

\* The workers of the queryables send wasm:// to the local offloader once it is
\* attached; the shard's own invoke_fn and invoke_obj, which ODGM's gRPC service
\* and the guests use, send it everything, whatever its route.
Local(i) == wasm.on /\ (call[i].by = "worker" => IsWasmFn(call[i].fn))

\* A function whose module is not loaded is an error.  What is not local asks
\* for a pooled connection.
Dispatch(i) ==
    /\ call[i].pc = "queued"
    /\ Turn(i)
    /\ IF Local(i)
       THEN /\ IF call[i].fn \in wasm.mods
               THEN call' = [call EXCEPT ![i].pc = "guest"] /\ UNCHANGED reply
               ELSE Finish(i, "sys")
            /\ UNCHANGED waiting
       ELSE /\ call' = [call EXCEPT ![i].pc = "wantRead"]
            /\ waiting' = Append(waiting, i)
            /\ UNCHANGED reply
    /\ UNCHANGED <<client, readers, writer, pool, wasm, dataVars>>

\* setup_wasm_offloader, after the endpoints of the shard are declared: modules
\* that fail to load are only logged.  A shard without a wasm:// route has none.
AttachWasm ==
    /\ ~wasm.on /\ \E f \in Fns : IsWasmFn(f)
    /\ \E mods \in SUBSET {f \in Fns : IsWasmFn(f)} : wasm' = [on |-> TRUE, mods |-> mods]
    /\ UNCHANGED <<client, reply, call, lockVars, pool, dataVars>>

-----------------------------------------------------------------------------
(* ConnManager::get                                                        *)

IsHead(i) == waiting # <<>> /\ Head(waiting) = i

\* With a pool in the map the read guard is kept until a connection is there;
\* without one it is dropped and the write guard asked for.
GrantRead(i) ==
    /\ call[i].pc = "wantRead" /\ IsHead(i)
    /\ writer = 0
    /\ IF pool[call[i].fn] # 0
       THEN /\ readers' = readers \cup {i}
            /\ waiting' = Tail(waiting)
            /\ call' = [call EXCEPT ![i].pc = "wait"]
       ELSE /\ waiting' = Append(Tail(waiting), i)
            /\ call' = [call EXCEPT ![i].pc = "wantWrite"]
            /\ UNCHANGED readers
    /\ UNCHANGED <<client, reply, writer, pool, wasm, dataVars>>

\* The map is not looked at again: a pool that another call put there in the
\* meantime is replaced.  The write guard is kept until a connection is there.
GrantWrite(i) ==
    /\ call[i].pc = "wantWrite" /\ IsHead(i)
    /\ writer = 0 /\ readers = {}
    /\ waiting' = Tail(waiting)
    /\ IF Route[call[i].fn] = "none"
       THEN Finish(i, "sys") /\ UNCHANGED <<writer, pool>>
       ELSE /\ writer' = i
            /\ pool' = [pool EXCEPT ![call[i].fn] = @ + 1]
            /\ call' = [call EXCEPT ![i].pc = "wait"]
            /\ UNCHANGED reply
    /\ UNCHANGED <<client, readers, wasm, dataVars>>

\* Connections of the pool now in the map; those of a replaced pool do not count.
InPool(f) == {i \in Calls : call[i].fn = f /\ call[i].conn = pool[f] /\ call[i].conn # 0}

ReleaseLock(i) ==
    /\ readers' = readers \ {i}
    /\ writer' = IF writer = i THEN 0 ELSE writer
    /\ UNCHANGED waiting

\* pool.get(): only an http:// route can be connected to.
Connect(i) ==
    /\ call[i].pc = "wait"
    /\ Route[call[i].fn] = "grpc"
    /\ Cardinality(InPool(call[i].fn)) < MaxOpen
    /\ call' = [call EXCEPT ![i].pc = "remote", ![i].conn = pool[call[i].fn]]
    /\ ReleaseLock(i)
    /\ UNCHANGED <<client, reply, pool, wasm, dataVars>>

\* Mutant: the guard stays behind when no connection could be had.
PoolFailsHeld(i) ==
    /\ call[i].pc = "wait"
    /\ \E res \in {"sys", "app"} : Finish(i, res)
    /\ UNCHANGED <<client, lockVars, pool, wasm, dataVars>>

\* The connect fails ("sys"), or the pool's get_timeout passes ("app").
PoolFails(i) ==
    /\ call[i].pc = "wait"
    /\ \E res \in {"sys", "app"} : Finish(i, res)
    /\ ReleaseLock(i)
    /\ UNCHANGED <<client, pool, wasm, dataVars>>

-----------------------------------------------------------------------------
(* Running the function                                                    *)

\* The function takes effect: the guest or the remote pod runs.
Run(i) ==
    /\ call[i].pc \in {"guest", "remote"} /\ ~call[i].ran
    /\ call' = [call EXCEPT ![i].ran = TRUE]
    /\ UNCHANGED <<client, reply, lockVars, pool, wasm, dataVars>>

ChildDone(i) == \A j \in Calls : call[i].child = j => call[j].pc = "done"

\* The pod invokes another function through a query of its own.
RemoteInvoke(i) ==
    /\ call[i].pc = "remote" /\ call[i].ran /\ call[i].child = 0
    /\ FreeCalls # {}
    /\ \E f \in Body[call[i].fn] :
          /\ Route[f] # "none"
          /\ call' = [call EXCEPT ![i].child = NextCall, ![NextCall] = NewCall(f, "worker", None, i)]
    /\ UNCHANGED <<client, reply, lockVars, pool, wasm, dataVars>>

\* FunctionComplete or FunctionError, by the result.
FunctionEvent(res, answered) == IF res = "ok" THEN "complete" ELSE "error"

\* The pod answers, fails with a status, or the 300 s of the request pass.  The
\* connection goes back to its pool and the event manager is told.
RemoteEnd(i) ==
    /\ call[i].pc = "remote"
    /\ \E answered \in BOOLEAN, res \in {"ok", "app"} :
          /\ (answered => call[i].ran /\ ChildDone(i)) /\ (res = "ok" => answered)
          /\ call' = [Finished(i, res) EXCEPT ![i].event = FunctionEvent(res, answered)]
          /\ reply' = Put(reply, call[i].for, res)
    /\ UNCHANGED <<client, lockVars, pool, wasm, dataVars>>

HostAllows(i) == call[i].depth < MaxDepth

\* HostObjectProxy::invoke on an object of this shard: a new host state, with a
\* depth of its own, runs the callee.
HostInvokeLocal(i) ==
    /\ call[i].pc = "guest" /\ call[i].ran
    /\ HostAllows(i)
    /\ FreeCalls # {}
    /\ \E f \in Body[call[i].fn] :
          call' = [call EXCEPT ![i].pc = "hosted", ![i].depth = @ + 1, ![i].child = NextCall,
                               ![NextCall] = NewCall(f, "host", None, i)]
    /\ UNCHANGED <<client, reply, lockVars, pool, wasm, dataVars>>

\* On an object of another shard: there is no remote proxy, and the `?` leaves
\* with the depth still counted.
HostInvokeRemote(i) ==
    /\ call[i].pc = "guest" /\ call[i].ran
    /\ HostAllows(i)
    /\ call' = [call EXCEPT ![i].depth = @ + 1]
    /\ UNCHANGED <<client, reply, lockVars, pool, wasm, dataVars>>

\* Mutant: only a successful callee is returned to the guest.
HostReturnOk(i) ==
    /\ call[i].pc = "hosted" /\ ChildDone(i)
    /\ call[call[i].child].res = "ok"
    /\ call' = [call EXCEPT ![i].pc = "guest", ![i].depth = @ - 1, ![i].child = 0]
    /\ UNCHANGED <<client, reply, lockVars, pool, wasm, dataVars>>

HostReturn(i) ==
    /\ call[i].pc = "hosted" /\ ChildDone(i)
    /\ call' = [call EXCEPT ![i].pc = "guest", ![i].depth = @ - 1, ![i].child = 0]
    /\ UNCHANGED <<client, reply, lockVars, pool, wasm, dataVars>>

\* The guest returns its own status, or traps (out of fuel included).
GuestEnd(i) ==
    /\ call[i].pc = "guest"
    /\ \E res \in {"ok", "app", "sys"} : (res # "sys" => call[i].ran) /\ Finish(i, res)
    /\ UNCHANGED <<client, lockVars, pool, wasm, dataVars>>

-----------------------------------------------------------------------------
ClientStep(c) == Answer(c) \/ Deadline(c) \/ ServePut(c) \/ ServeGet(c)
CallStep(i) ==
    \/ Dispatch(i) \/ GrantRead(i) \/ GrantWrite(i) \/ Connect(i) \/ PoolFails(i)
    \/ Run(i) \/ RemoteInvoke(i) \/ RemoteEnd(i)
    \/ HostInvokeLocal(i) \/ HostInvokeRemote(i) \/ HostReturn(i) \/ GuestEnd(i)

Next ==
    \/ \E c \in Clients : Send(c) \/ ZenohTimeout(c) \/ ClientStep(c)
    \/ \E i \in Calls : CallStep(i)
    \/ AttachWasm
    \/ ApplyDelete

Spec == Init /\ [][Next]_vars

\* tokio runs every task that can run; the pool's get_timeout, the request's
\* 300 s and the guest's fuel end what does not end by itself.
FairSpec == Spec /\ WF_vars(\E i \in Calls : CallStep(i))

-----------------------------------------------------------------------------
(* Properties                                                              *)

TypeOK ==
    /\ client \in [Clients -> [pc : {"idle", "wait", "done"}, req : Requests \cup {NoReq},
                               out : {"none", "sent", "200", "204", "400", "404", "502", "504",
                                      "ok", "app", "sys", "internal", "status"}]]
    /\ reply \in [Clients -> {"none", "closed", "err", "found", "ok", "app", "sys"}]
    /\ call \in [Calls -> [pc : {"free", "queued", "wantRead", "wantWrite", "wait", "remote",
                                 "guest", "hosted", "done"},
                           fn : Fns \cup {"none"},
                           by : {"none", "worker", "direct", "host"},
                           for : Clients \cup {None},
                           parent : 0 .. MaxCalls, child : 0 .. MaxCalls,
                           depth : 0 .. MaxDepth, conn : Nat, ran : BOOLEAN,
                           event : {"none", "complete", "error"},
                           res : {"none", "ok", "app", "sys"}]]
    /\ waiting \in Seq(Calls) /\ readers \subseteq Calls /\ writer \in 0 .. MaxCalls
    /\ pool \in [Fns -> Nat]
    /\ wasm \in [on : BOOLEAN, mods : SUBSET Fns]
    /\ stored \in BOOLEAN /\ deleting \in Nat
    /\ applied \in [Clients -> Nat]

\* The calls made for a client's request that took effect.
Ran(c) == {i \in Calls : call[i].for = c /\ call[i].ran}

\* A put answered 200 is in the shard, and an invocation whose answer says OKAY
\* ran its function: timeouts, late replies and error replies never turn into
\* a success (rest.rs put_obj, grpc.rs invoke_fn, invocation.rs).
AckImpliesEffect ==
    \A c \in Clients :
        /\ client[c].req.op = "put" /\ client[c].out = "200" => applied[c] = 1
        /\ client[c].req.op = "invoke" /\ client[c].out = "ok" => Ran(c) # {}

\* However a request times out or fails on its way, its function runs at most
\* once: nothing on the path sends it again (rest.rs retry condition, mod.rs:93).
EffectAtMostOnce == \A c \in Clients : Cardinality(Ran(c)) <= 1

\* The function event tells the truth: complete only for a call that ran and
\* succeeded, error only for one whose caller was told of the failure
\* (exec.rs:167).
EventTruthful ==
    \A i \in Calls :
        /\ call[i].event = "complete" => call[i].ran /\ call[i].res = "ok"
        /\ call[i].event = "error" => call[i].res = "app"

\* A call that ended holds neither a guard of the pool map nor a connection and
\* does not stand in the lock's queue, whichever way it ended (conn.rs:78).
NothingHeld ==
    \A i \in Calls : call[i].pc = "done" =>
        /\ i \notin readers /\ writer # i /\ call[i].conn = 0
        /\ \A n \in DOMAIN waiting : waiting[n] # i

\* Every call ends, although calls wait for connections while they hold the
\* pool map's lock, and for calls they made themselves (conn.rs:78, exec.rs:135).
EveryCallEnds == []<>(\A i \in Calls : call[i].pc \in {"free", "done"})

\* What clients and subscribers are told of a call is what happened: an acknowledged
\* call took effect, once, and its event reports its outcome.
AnswersTruthful == TypeOK /\ AckImpliesEffect /\ EffectAtMostOnce /\ EventTruthful
=============================================================================
