----------------------------- MODULE NetworkSim -----------------------------
(***************************************************************************)
(* The network simulation that cuts and delays the links between           *)
(* environments.  In the development server one matrix holds the links and *)
(* a handler changes it under its lock (commons/oprc-netsim/src/state.rs); *)
(* in a cluster the package manager tells the router of each end, one      *)
(* after the other (oprc-pm/src/services/netsim.rs, oprc-crm/src/grpc/     *)
(* netsim.rs, oprc-router/src/netsim.rs).  The TCP proxies in between look *)
(* the state up as bytes pass (commons/oprc-netsim/src/proxy.rs).          *)
(***************************************************************************)
EXTENDS Naturals, Sequences, FiniteSets

CONSTANTS
    Clusters,          \* the environments, numbers for their names, in the order
                       \* of the CRM manager's map
    Operators,         \* clients of the simulation's REST API
    Proxies,           \* the links <<a, b>> whose proxies are looked at
    Conns,             \* connections through them
    Directions,        \* their directions that are looked at
    Scopes,            \* what requests are about: <<"link", a, b>>, <<"env", a>>, <<"all">>
    Latencies,         \* latencies asked for, in milliseconds
    NoLatency,         \* "no latency in the request"
    MaxOrders,         \* bound on the requests
    MaxNetFaults       \* bound on the restarts of routers and commands that fail

VARIABLES
    netMode,   \* "dev": one matrix, "routers": one map per router
    link,      \* link[a][b]: [connected, latency], what a's side knows of b
    order,     \* order[o]: what operator o's request is doing
    conn,      \* conn[k]: a proxied connection and its two pumps
    orders, netFaults

netVars == <<netMode, link, order, conn, orders, netFaults>>

Envs == {Clusters[i] : i \in DOMAIN Clusters}
Up == [connected |-> TRUE, latency |-> 0]

NoOrder == [stage |-> "none", kind |-> "none", latency |-> NoLatency, pairs |-> {},
            todo |-> <<>>, seen |-> <<>>, clean |-> TRUE]
NoConn == [stage |-> "none", ends |-> <<>>, pump |-> [d \in Directions |-> "idle"],
           leaked |-> [d \in Directions |-> 0]]

NetInit ==
    /\ netMode \in {"dev", "routers"}
    /\ link = [a \in Envs |-> [b \in Envs \ {a} |-> Up]]
    /\ order = [o \in Operators |-> NoOrder]
    /\ conn = [k \in Conns |-> NoConn]
    /\ orders = 0 /\ netFaults = 0

-----------------------------------------------------------------------------
(* What a request is about                                                 *)

\* The links of a request: one, those of an environment, or all of them, as the
\* pairs <<a, b>> in the order the package manager goes through them.
LinkScope(a, b) == << <<a, b>> >>

EnvScope(e) ==
    LET others == SelectSeq(Clusters, LAMBDA c : c # e)
    IN  [i \in DOMAIN others |-> <<e, others[i]>>]

AllScope ==
    LET after(i) == [j \in 1 .. Len(Clusters) - i |-> <<Clusters[i], Clusters[i + j]>>]
        upTo[i \in 0 .. Len(Clusters)] == IF i = 0 THEN <<>> ELSE upTo[i - 1] \o after(i)
    IN  upTo[Len(Clusters)]

Scope(s) == CASE s[1] = "link" -> LinkScope(s[2], s[3])
              [] s[1] = "env"  -> EnvScope(s[2])
              [] s[1] = "all"  -> AllScope

\* A proxy connects two environments, and a request is about links between them.
ASSUME NetAssumption ==
    /\ Proxies \subseteq Envs \X Envs
    /\ \A s \in Scopes : Scope(s) \in Seq(Envs \X Envs)

\* What a command does to a link.
Effect(kind, l, ms) ==
    CASE kind = "partition" -> [l EXCEPT !.connected = FALSE]
      [] kind = "heal"      -> Up
      [] kind = "latency"   -> [l EXCEPT !.latency = ms]

\* A partition request to the development server may carry a latency.
DevEffect(kind, l, ms) ==
    IF kind = "partition" /\ ms # NoLatency THEN [connected |-> FALSE, latency |-> ms]
    ELSE Effect(kind, l, ms)

\* A request's commands are all sent and its answer not read yet.
Done(o) == order[o].stage = "begun" /\ order[o].todo = <<>>

\* Every request under way is no longer the only one.
Disturbed(ord) == [o \in Operators |-> IF ord[o].stage = "none" THEN ord[o]
                                       ELSE [ord[o] EXCEPT !.clean = FALSE]]

\* The links become l; a healed link starts a new count of leaked bytes.
SetLinks(l) ==
    /\ link' = l
    /\ conn' = [k \in Conns |->
                  IF conn[k].stage # "none" /\ l[conn[k].ends[1]][conn[k].ends[2]].connected
                  THEN [conn[k] EXCEPT !.leaked = [d \in Directions |-> 0]] ELSE conn[k]]

-----------------------------------------------------------------------------
(* The development server: one step under the write lock                   *)

PairsOf(scope) == {scope[i] : i \in DOMAIN scope}
Covers(pairs, a, b) == <<a, b>> \in pairs \/ <<b, a>> \in pairs

DevOrder(o, kind, scope, ms) ==
    /\ netMode = "dev" /\ order[o].stage = "none" /\ orders < MaxOrders
    /\ order' = [Disturbed(order) EXCEPT ![o] = [NoOrder EXCEPT !.stage = "begun",
                     !.kind = kind, !.latency = ms, !.pairs = PairsOf(scope)]]
    /\ SetLinks([a \in Envs |-> [b \in Envs \ {a} |->
           IF Covers(PairsOf(scope), a, b) THEN DevEffect(kind, link[a][b], ms) ELSE link[a][b]]])
    /\ orders' = orders + 1
    /\ UNCHANGED <<netMode, netFaults>>

\* list_network_state.
DevList(o) ==
    /\ netMode = "dev" /\ order[o].stage = "none" /\ orders < MaxOrders
    /\ order' = [order EXCEPT ![o] = [NoOrder EXCEPT !.stage = "begun", !.kind = "status",
                     !.seen = [i \in DOMAIN AllScope |->
                        [a |-> AllScope[i][1], b |-> AllScope[i][2],
                         state |-> link[AllScope[i][1]][AllScope[i][2]]]]]]
    /\ orders' = orders + 1
    /\ UNCHANGED <<netMode, link, conn, netFaults>>

-----------------------------------------------------------------------------
(* The package manager: a command to each end of each link, in turn        *)

\* The commands of a request: for each link, first to one end, then to the other.
Commands(scope) ==
    [i \in 1 .. 2 * Len(scope) |->
        LET p == scope[(i + 1) \div 2] IN IF i % 2 = 1 THEN p ELSE <<p[2], p[1]>>]

BeginOrder(o, kind, scope, ms) ==
    /\ netMode = "routers" /\ order[o].stage = "none" /\ orders < MaxOrders
    /\ order' = [Disturbed(order) EXCEPT ![o] = [NoOrder EXCEPT !.stage = "begun",
                     !.kind = kind, !.latency = ms, !.pairs = PairsOf(scope),
                     !.todo = Commands(scope),
                     !.clean = \A p \in Operators : order[p].todo = <<>>]]
    /\ orders' = orders + 1
    /\ UNCHANGED <<netMode, link, conn, netFaults>>

\* get_network_state asks every CRM for its router's status.
BeginStatus(o) ==
    /\ netMode = "routers" /\ order[o].stage = "none" /\ orders < MaxOrders
    /\ order' = [order EXCEPT ![o] = [NoOrder EXCEPT !.stage = "begun", !.kind = "status",
                     !.todo = [i \in DOMAIN Clusters |-> <<Clusters[i]>>],
                     !.clean = \A p \in Operators : order[p].todo = <<>>]]
    /\ orders' = orders + 1
    /\ UNCHANGED <<netMode, link, conn, netFaults>>

Sent(o) == [order EXCEPT ![o].todo = Tail(@)]

\* Mutant: only the first end of a link is told.
HandleFirstEnd(o) ==
    LET to == Head(order[o].todo)
    IN  SetLinks(IF Len(order[o].todo) % 2 = 1 THEN link
                 ELSE [link EXCEPT ![to[1]][to[2]] = Effect(order[o].kind, @, order[o].latency)])

\* RouterNetsimState::handle; a peer the router does not know is ignored.
Handle(o) ==
    LET to == Head(order[o].todo)
    IN  SetLinks([link EXCEPT ![to[1]][to[2]] = Effect(order[o].kind, @, order[o].latency)])

SendCmd(o) ==
    /\ order[o].kind # "status" /\ order[o].todo # <<>>
    /\ order' = Sent(o)
    /\ Handle(o)
    /\ UNCHANGED <<netMode, orders, netFaults>>

\* A command fails, before or after it took effect; the error is logged only.
SendCmdFails(o) ==
    /\ order[o].todo # <<>> /\ netFaults < MaxNetFaults
    /\ order' = [Sent(o) EXCEPT ![o].clean = FALSE]
    /\ \/ order[o].kind # "status" /\ Handle(o)
       \/ UNCHANGED <<link, conn>>
    /\ netFaults' = netFaults + 1
    /\ UNCHANGED <<netMode, orders>>

\* Mutant: the links the other end has reported are reported again.
SeenByBoth(seen, a) ==
    LET peers == SelectSeq(Clusters, LAMBDA b : b # a)
    IN  seen \o [i \in DOMAIN peers |-> [a |-> a, b |-> peers[i], state |-> link[a][peers[i]]]]

\* The links of router a that no earlier router reported.
SeenBy(seen, a) ==
    LET known(b) == \E i \in DOMAIN seen : {seen[i].a, seen[i].b} = {a, b}
        peers == SelectSeq(Clusters, LAMBDA b : b # a /\ ~known(b))
    IN  seen \o [i \in DOMAIN peers |-> [a |-> a, b |-> peers[i], state |-> link[a][peers[i]]]]

SendStatus(o) ==
    /\ order[o].kind = "status" /\ order[o].todo # <<>>
    /\ order' = [Sent(o) EXCEPT ![o].seen = SeenBy(@, Head(order[o].todo)[1])]
    /\ UNCHANGED <<netMode, link, conn, orders, netFaults>>

\* The operator reads the answer.
Answered(o) ==
    /\ Done(o)
    /\ order' = [order EXCEPT ![o] = NoOrder]
    /\ UNCHANGED <<netMode, link, conn, orders, netFaults>>

\* A router starts again: RouterNetsimState::new connects every link.
RouterRestart(a) ==
    /\ netMode = "routers" /\ netFaults < MaxNetFaults
    /\ link' = [link EXCEPT ![a] = [b \in Envs \ {a} |-> Up]]
    /\ conn' = [k \in Conns |-> IF conn[k].stage # "none" /\ conn[k].ends[1] = a
                                THEN NoConn ELSE conn[k]]
    /\ order' = Disturbed(order)
    /\ netFaults' = netFaults + 1
    /\ UNCHANGED <<netMode, orders>>

-----------------------------------------------------------------------------
(* A proxy                                                                 *)

\* LinkChecker::is_active, by the state of the proxy's own side.
IsActive(ends) == link[ends[1]][ends[2]].connected

NetUnchanged == UNCHANGED <<netMode, link, order, orders, netFaults>>

\* accept_loop: refused while the link is cut, else the target is connected to.
Accept(k, a, b) ==
    /\ conn[k].stage = "none" /\ IsActive(<<a, b>>)
    /\ conn' = [conn EXCEPT ![k] = [NoConn EXCEPT !.stage = "connecting", !.ends = <<a, b>>]]
    /\ NetUnchanged

ConnectTarget(k) ==
    /\ conn[k].stage = "connecting"
    /\ \/ conn' = [conn EXCEPT ![k].stage = "open"]
       \/ conn' = [conn EXCEPT ![k] = NoConn]
    /\ NetUnchanged

\* pump: bytes are read, ...
PumpRead(k, d) ==
    /\ conn[k].stage = "open" /\ conn[k].pump[d] = "idle"
    /\ conn' = [conn EXCEPT ![k].pump[d] = "read"]
    /\ NetUnchanged

\* ... the link is looked up, which ends the connection and the other pump with
\* it when the link is cut, ...
PumpCheck(k, d) ==
    /\ conn[k].stage = "open" /\ conn[k].pump[d] = "read"
    /\ conn' = [conn EXCEPT ![k] = IF IsActive(conn[k].ends)
                                   THEN [conn[k] EXCEPT !.pump[d] = "checked"] ELSE NoConn]
    /\ NetUnchanged

\* ... and after the latency, if any, they are written.
Written(c, d) ==
    [c EXCEPT !.pump[d] = "idle", !.leaked[d] = IF IsActive(c.ends) THEN @ ELSE @ + 1]

PumpWrite(k, d) ==
    /\ conn[k].stage = "open" /\ conn[k].pump[d] = "checked"
    /\ conn' = [conn EXCEPT ![k] = Written(conn[k], d)]
    /\ NetUnchanged

\* An end closes or fails.
CloseConn(k) ==
    /\ conn[k].stage = "open"
    /\ conn' = [conn EXCEPT ![k] = NoConn]
    /\ NetUnchanged

-----------------------------------------------------------------------------
NetNext ==
    \/ \E o \in Operators : \E s \in {Scope(x) : x \in Scopes} :
         \/ \E k \in {"partition", "heal"} : DevOrder(o, k, s, NoLatency) \/ BeginOrder(o, k, s, NoLatency)
         \/ \E ms \in Latencies :
              Len(s) = 1 /\ (\/ DevOrder(o, "latency", s, ms) \/ DevOrder(o, "partition", s, ms)
                             \/ BeginOrder(o, "latency", s, ms))
    \/ \E o \in Operators :
         \/ DevList(o) \/ BeginStatus(o)
         \/ SendCmd(o) \/ SendCmdFails(o) \/ SendStatus(o) \/ Answered(o)
    \/ \E a \in Envs : RouterRestart(a)
    \/ \E k \in Conns :
         \/ \E p \in Proxies : Accept(k, p[1], p[2])
         \/ ConnectTarget(k) \/ CloseConn(k)
         \/ \E d \in Directions : PumpRead(k, d) \/ PumpCheck(k, d) \/ PumpWrite(k, d)

NetSpec == NetInit /\ [][NetNext]_netVars

-----------------------------------------------------------------------------
(* Properties                                                              *)

\* Once a link is cut, a connection carries at most one more piece in each
\* direction, the one that had passed the check before: nothing tears an idle
\* connection down, so only the check on the next read does (proxy.rs pump).
CutLeaksOnePiece ==
    \A k \in Conns, d \in Directions : conn[k].leaked[d] <= 1

\* A request that no failed command, restarted router or other request disturbed
\* did what it says to every link it names, at both ends: with one end missed the
\* two routers would disagree and traffic would pass one way (services/netsim.rs
\* partition_link and its callers).
OrdersComplete ==
    \A o \in Operators :
        Done(o) /\ order[o].clean /\ order[o].kind # "status" =>
            \A a \in Envs : \A b \in Envs \ {a} :
                Covers(order[o].pairs, a, b) =>
                    /\ order[o].kind = "partition" => ~link[a][b].connected
                    /\ order[o].kind = "heal" => link[a][b] = Up
                    /\ order[o].kind = "latency" => link[a][b].latency = order[o].latency

\* A request governs the links it names: traffic stops at a cut and both ends agree.
LinksGoverned == CutLeaksOnePiece /\ OrdersComplete

\* The overview lists a link once, whichever routers answer, and every link when
\* all of them do (services/netsim.rs get_network_state).
OverviewListsLinksOnce ==
    \A o \in Operators :
        LET seen == order[o].seen
        IN  Done(o) /\ order[o].kind = "status" =>
              /\ \A i, j \in DOMAIN seen :
                   {seen[i].a, seen[i].b} = {seen[j].a, seen[j].b} => i = j
              /\ order[o].clean => 2 * Len(seen) = Len(Clusters) * (Len(Clusters) - 1)
=============================================================================
