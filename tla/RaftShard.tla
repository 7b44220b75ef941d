------------------------------ MODULE RaftShard ------------------------------
(***************************************************************************)
(* A shard replicated with Raft (replication/raft/).                       *)
(*                                                                         *)
(* The consensus engine is the openraft library; its steps (an election, a *)
(* log message and its answer) are modelled from the interfaces the code   *)
(* gives it: the network of raft_network.rs, the log store of raft_log.rs  *)
(* and the state machine of state_machine.rs. Around it are the code's own *)
(* steps: starting and initializing a replica, executing or forwarding a   *)
(* request, linearizable reads, applying entries, building and serving     *)
(* snapshots.                                                              *)
(*                                                                         *)
(* A log entry keeps its place in log[n] when it is purged: purged[n] says *)
(* which prefix can no longer be read.                                     *)
(***************************************************************************)
EXTENDS Integers, Sequences, FiniteSets

CONSTANTS
    Nodes,        \* the owners of the replicas, 1..N
    Primary,      \* the owner of the primary replica
    Requests,     \* the requests clients may make, each at most once
    Kind,         \* Requests -> {"write", "batch", "read"}
    Writes,       \* Requests -> the keys it writes, in order
    Entry,        \* Requests -> the replicas its client may reach
    Keys,         \* the keys
    InitAll,      \* does every replica initialize (raft_init_leader_only = false)?
    MaxBallot,    \* how high ballots get
    LogsSinceLast, \* after how many applied entries a snapshot is built
    MaxBuilds,    \* how many snapshots are built
    KeepLogs,     \* how many entries a purge leaves below the snapshot
    Stopping      \* the replicas that may stop for good

ASSUME RaftAssumption ==
    /\ IsFiniteSet(Nodes) /\ Nodes = 1..Cardinality(Nodes)
    /\ Primary \in Nodes
    /\ {"members", "blank"} \cap Requests = {}
    /\ Kind \in [Requests -> {"write", "batch", "read"}]
    /\ Writes \in [Requests -> Seq(Keys)]
    /\ Entry \in [Requests -> SUBSET Nodes]
    /\ InitAll \in BOOLEAN
    /\ {MaxBallot, LogsSinceLast, MaxBuilds, KeepLogs} \subseteq Nat
    /\ Stopping \subseteq Nodes

VARIABLES
    phase,    \* node -> "new", "started", "up", "failed" or "down"
    vote,     \* node -> the ballot it voted for (save_vote), 0 before
    known,    \* node -> the leader of that ballot it knows of, 0 for none
    log,      \* node -> its entries [bal, req]
    purged,   \* node -> the entries 1..purged[n] are deleted
    commit,   \* node -> how many entries it knows to be committed
    applied,  \* node -> last_applied_log_id
    store,    \* node -> key -> the request that wrote the value, None if none
    building, \* node -> [on, at]: a builder and the last_applied it was cloned with
    snap,     \* node -> the last index of the snapshot the engine knows of
    current,  \* node -> current_snapshot, [on, data]
    req,      \* request -> where it is and what its client was told
    builds    \* how many snapshots were begun

engineVars == <<vote, known, log>>
machineVars == <<applied, store, current>>
snapVars == <<building, snap, purged, builds>>
vars == <<phase, engineVars, commit, machineVars, snapVars, req>>

None == "none"
NoStore == [k \in Keys |-> None]
NoSnapshot == [on |-> FALSE, data |-> NoStore]

\* The smallest majorities.
Quorums == {Q \in SUBSET Nodes : Cardinality(Q) = Cardinality(Nodes) \div 2 + 1}

\* Ballots are totally ordered pairs (term, node): ballot b belongs to Owner(b).
Owner(b) == ((b - 1) % Cardinality(Nodes)) + 1

Reachable(n) == phase[n] \in {"started", "up"}
Leads(n) == Reachable(n) /\ known[n] = n

LastBallot(l) == IF l = <<>> THEN -1 ELSE l[Len(l)].bal

\* The position of a log: by the ballot of its last entry, then by its length.
AtLeast(a, b) == \/ LastBallot(a) > LastBallot(b)
                 \/ LastBallot(a) = LastBallot(b) /\ Len(a) >= Len(b)

\* How long the common prefix of two logs is.
Common(a, b) ==
    LET differ == {i \in 1..Len(a) : i > Len(b) \/ a[i] # b[i]}
    IN IF differ = {} THEN Len(a) ELSE (CHOOSE i \in differ : \A j \in differ : i <= j) - 1

-----------------------------------------------------------------------------
(* The log store.                                                          *)

\* append: entries go to their index and are flushed before the callback.
AppendLog(l, entries) == l \o entries

\* Mutant: the entry at index i itself stays.
TruncateAfter(l, i) == IF i <= Len(l) THEN SubSeq(l, 1, i) ELSE l

\* truncate: everything from index i on is deleted.
TruncateLog(l, i) == IF i <= Len(l) THEN SubSeq(l, 1, i - 1) ELSE l

\* try_get_log_entries: only what was not purged can be read.
CanRead(n, from) == from > purged[n]

\* purge: last_purged is stored, then the entries up to it are deleted.
PurgeLog(n, upto) == purged' = [purged EXCEPT ![n] = IF upto > @ THEN upto ELSE @]

\* What a replica remembers of vote and log when it starts again: nothing,
\* both log backends are created in memory.
FreshVote == 0
FreshLog == <<>>

-----------------------------------------------------------------------------
(* The state machine.                                                      *)

\* apply_shard_request: a write or a batch puts its keys in order, a read
\* changes nothing.
ApplyShardRequest(st, r) ==
    [k \in Keys |-> IF \E i \in DOMAIN Writes[r] : Writes[r][i] = k THEN r ELSE st[k]]

ApplyEntry(st, e) == IF e.req \in Requests THEN ApplyShardRequest(st, e.req) ELSE st

\* apply: the entries in order.
ApplyAll(st, entries) ==
    LET after[i \in 0..Len(entries)] == IF i = 0 THEN st ELSE ApplyEntry(after[i - 1], entries[i])
    IN after[Len(entries)]

-----------------------------------------------------------------------------
(* Start and initialization.                                               *)

NewRequest == [pc |-> "idle", via |-> 0, at |-> 0, idx |-> 0, bal |-> 0,
               floor |-> 0, stale |-> FALSE, told |-> None]

Init ==
    /\ phase = [n \in Nodes |-> "new"]
    /\ vote = [n \in Nodes |-> FreshVote]
    /\ known = [n \in Nodes |-> 0]
    /\ log = [n \in Nodes |-> FreshLog]
    /\ purged = [n \in Nodes |-> 0]
    /\ commit = [n \in Nodes |-> 0]
    /\ applied = [n \in Nodes |-> 0]
    /\ store = [n \in Nodes |-> NoStore]
    /\ building = [n \in Nodes |-> [on |-> FALSE, at |-> 0]]
    /\ snap = [n \in Nodes |-> 0]
    /\ current = [n \in Nodes |-> NoSnapshot]
    /\ req = [r \in Requests |-> NewRequest]
    /\ builds = 0

Initializes(n) == InitAll \/ n = Primary

\* initialize starts the RPC services first: from here on the replica answers
\* the messages of the others. One that does not initialize is done.
StartServices(n) ==
    /\ phase[n] = "new"
    /\ phase' = [phase EXCEPT ![n] = IF Initializes(n) THEN "started" ELSE "up"]
    /\ UNCHANGED <<engineVars, commit, machineVars, snapVars, req>>

\* The engine accepts initialize only while vote and log are pristine.
Pristine(n) == vote[n] = FreshVote /\ log[n] = FreshLog

\* The rest of initialize: the primary (or everyone) stores the membership as
\* the first entry. When the engine refuses, the primary gives up the shard and
\* the others go on as followers.
Initialize(n) ==
    /\ phase[n] = "started"
    /\ phase' = [phase EXCEPT ![n] =
                   IF ~Pristine(n) /\ n = Primary THEN "failed" ELSE "up"]
    /\ log' = [log EXCEPT ![n] =
                 IF Pristine(n)
                 THEN AppendLog(@, <<[bal |-> 0, req |-> "members"]>>) ELSE @]
    /\ UNCHANGED <<vote, known, commit, machineVars, snapVars, req>>

-----------------------------------------------------------------------------
(* The consensus engine.                                                   *)

\* A candidate asks a quorum for ballot b; a node that reaches a quorum starts
\* to lead with a blank entry. A replica without a membership is no candidate.
Elect(n, b, Q) ==
    /\ phase[n] = "up"
    /\ log[n] # <<>>
    /\ Owner(b) = n
    /\ n \in Q
    /\ \A m \in Q : Reachable(m) /\ vote[m] < b /\ AtLeast(log[n], log[m])
    /\ vote' = [m \in Nodes |-> IF m \in Q THEN b ELSE vote[m]]
    /\ known' = [m \in Nodes |-> IF m = n THEN n ELSE IF m \in Q THEN 0 ELSE known[m]]
    /\ log' = [log EXCEPT ![n] = AppendLog(@, <<[bal |-> b, req |-> "blank"]>>)]
    /\ UNCHANGED <<phase, commit, machineVars, snapVars, req>>

\* The most a quorum acknowledged of the leader's own entries, given the logs
\* and the ballots of all.
CommitOf(n, logs, votes) ==
    LET l == logs[n]
        held == {k \in 1..Len(l) :
                   /\ l[k].bal = vote[n]
                   /\ \E Q \in Quorums : \A m \in Q : votes[m] = votes[n] /\ Common(logs[m], l) >= k}
    IN IF held = {} THEN commit[n]
       ELSE LET k == CHOOSE k \in held : \A j \in held : j <= k
            IN IF k > commit[n] THEN k ELSE commit[n]

\* install_snapshot: the store is replaced and a snapshot of it is kept.
InstallSnapshot(f, data, upto) ==
    /\ store' = [store EXCEPT ![f] = data]
    /\ applied' = [applied EXCEPT ![f] = upto]
    /\ current' = [current EXCEPT ![f] = [on |-> TRUE, data |-> data]]

\* get_current_snapshot: the tracked snapshot under the last applied index, if
\* there is one.
GetCurrentSnapshot(n) == [on |-> current[n].on, data |-> current[n].data, at |-> applied[n]]

\* One log message of leader l to f and its answer: f follows the ballot, drops
\* what conflicts and appends what it lacks. When what it lacks is purged the
\* leader sends its current snapshot instead.
Replicate(l, f) ==
    /\ Leads(l) /\ f # l /\ Reachable(f)
    /\ vote[f] <= vote[l]
    /\ LET k == Common(log[f], log[l])
           s == GetCurrentSnapshot(l)
       IN /\ \/ k < Len(log[l]) \/ commit[f] < commit[l] \/ known[f] # l
          /\ IF CanRead(l, k + 1)
             THEN /\ log' = [log EXCEPT ![f] = AppendLog(TruncateLog(@, k + 1),
                                                         SubSeq(log[l], k + 1, Len(log[l])))]
                  /\ UNCHANGED <<machineVars, purged>>
             ELSE /\ s.on
                  /\ InstallSnapshot(f, s.data, s.at)
                  /\ log' = [log EXCEPT ![f] = SubSeq(log[l], 1, s.at)]
                  /\ purged' = [purged EXCEPT ![f] = s.at]
    /\ vote' = [vote EXCEPT ![f] = vote[l]]
    /\ known' = [known EXCEPT ![f] = l]
    /\ LET leader == CommitOf(l, log', vote')
           follower == IF commit[l] < Len(log'[f]) THEN commit[l] ELSE Len(log'[f])
       IN commit' = [commit EXCEPT ![l] = leader,
                                   ![f] = IF follower > @ THEN follower ELSE @]
    /\ UNCHANGED <<phase, building, snap, builds, req>>

\* apply: the engine hands over every entry committed since; each sets
\* last_applied and is applied. The tracked snapshot is no longer current.
Apply(n) ==
    /\ Reachable(n)
    /\ applied[n] < commit[n]
    /\ applied' = [applied EXCEPT ![n] = commit[n]]
    /\ store' = [store EXCEPT ![n] = ApplyAll(@, SubSeq(log[n], applied[n] + 1, commit[n]))]
    /\ current' = [current EXCEPT ![n] = NoSnapshot]
    /\ UNCHANGED <<phase, engineVars, commit, snapVars, req>>

-----------------------------------------------------------------------------
(* Snapshots.                                                              *)

\* get_snapshot_builder: the builder is a copy of the state machine that shares
\* the storage; it keeps the last_applied of this moment.
GetSnapshotBuilder(n) ==
    /\ phase[n] = "up"
    /\ builds < MaxBuilds
    /\ ~building[n].on
    /\ applied[n] - snap[n] >= LogsSinceLast
    /\ building' = [building EXCEPT ![n] = [on |-> TRUE, at |-> applied[n]]]
    /\ builds' = builds + 1
    /\ UNCHANGED <<phase, engineVars, commit, machineVars, snap, purged, req>>

\* build_snapshot: a copy of the storage as it is now under the remembered
\* index. Only the builder's own current_snapshot is set. The engine learns the
\* index and purges what the snapshot covers, but for the last KeepLogs.
BuildSnapshot(n) ==
    /\ Reachable(n) /\ building[n].on
    /\ building' = [building EXCEPT ![n] = [on |-> FALSE, at |-> 0]]
    /\ snap' = [snap EXCEPT ![n] = building[n].at]
    /\ PurgeLog(n, building[n].at - KeepLogs)
    /\ UNCHANGED <<phase, engineVars, commit, machineVars, builds, req>>

-----------------------------------------------------------------------------
(* Requests.                                                               *)

Update(r, new) == req' = [req EXCEPT ![r] = new]

\* How request r ends. A client that was given up on is told nothing more.
Ended(r, told) == [NewRequest EXCEPT !.pc = "done", !.told = IF req[r].told = None THEN told ELSE req[r].told]

\* A write keeps its place in the log; a read keeps whether it was served at
\* an index that covers what was acknowledged before it began.
Succeed(r, served) ==
    req' = [req EXCEPT ![r] =
              IF Kind[r] = "read" THEN [Ended(r, "ok") EXCEPT !.stale = served < req[r].floor]
              ELSE [Ended(r, "ok") EXCEPT !.idx = req[r].idx, !.bal = req[r].bal]]

Fail(r) == req' = [req EXCEPT ![r] = Ended(r, "err")]

\* The largest index of a write whose client was told it was applied.
AckedIndex ==
    LET acked == {req[r].idx : r \in {s \in Requests : req[s].told = "ok" /\ Kind[s] # "read"}}
    IN IF acked = {} THEN 0 ELSE CHOOSE i \in acked : \A j \in acked : j <= i

\* client_write on the leader: the entry is appended and the call waits for it.
ClientWrite(n, r) ==
    /\ log' = [log EXCEPT ![n] = AppendLog(@, <<[bal |-> vote[n], req |-> r]>>)]
    /\ commit' = [commit EXCEPT ![n] = CommitOf(n, log', vote)]
    /\ Update(r, [req[r] EXCEPT !.pc = "wait", !.at = n, !.idx = Len(log[n]) + 1, !.bal = vote[n]])

\* exec: try here; a replica that does not lead forwards to the leader it knows
\* of, once, and fails if it knows none.
Exec(n, r, via) ==
    IF Leads(n) THEN ClientWrite(n, r) /\ UNCHANGED <<vote, known>>
    ELSE /\ IF known[n] # 0
            THEN Update(r, [req[r] EXCEPT !.pc = "forward", !.via = via, !.at = known[n]])
            ELSE Fail(r)
         /\ UNCHANGED <<engineVars, commit>>

\* replicate_write
ReplicateWrite(n, r) ==
    /\ phase[n] = "up"
    /\ n \in Entry[r]
    /\ req[r].pc = "idle" /\ Kind[r] # "read"
    /\ Exec(n, r, n)
    /\ UNCHANGED <<phase, machineVars, snapVars>>

\* replicate_read begins with ensure_linearizable: the leader notes the index to
\* wait for, its commit index or the blank entry of its ballot; any other
\* replica executes the read as an entry of the log.
ReplicateRead(n, r) ==
    /\ phase[n] = "up"
    /\ n \in Entry[r]
    /\ req[r].pc = "idle" /\ Kind[r] = "read"
    /\ IF Leads(n)
       THEN LET blank == CHOOSE i \in 1..Len(log[n]) : log[n][i] = [bal |-> vote[n], req |-> "blank"]
            IN /\ Update(r, [req[r] EXCEPT !.pc = "confirm", !.at = n, !.via = n, !.bal = vote[n],
                                        !.floor = AckedIndex,
                                        !.idx = IF commit[n] > blank THEN commit[n] ELSE blank])
               /\ UNCHANGED <<engineVars, commit>>
       ELSE IF known[n] # 0
            THEN /\ Update(r, [req[r] EXCEPT !.pc = "forward", !.via = n, !.at = known[n],
                                          !.floor = AckedIndex])
                 /\ UNCHANGED <<engineVars, commit>>
            ELSE /\ Fail(r)
                 /\ UNCHANGED <<engineVars, commit>>
    /\ UNCHANGED <<phase, machineVars, snapVars>>

\* The heartbeats of ensure_linearizable reach a quorum that knows no higher
\* ballot, and the index is applied.
ConfirmLeader(r) ==
    LET n == req[r].at
    IN /\ req[r].pc = "confirm" /\ Leads(n) /\ vote[n] = req[r].bal
       /\ \E Q \in Quorums : n \in Q /\ \A m \in Q : Reachable(m) /\ vote[m] <= vote[n]
       /\ Update(r, [req[r] EXCEPT !.pc = "confirmed"])
       /\ UNCHANGED <<phase, engineVars, commit, machineVars, snapVars>>

\* The value is then read from the store of this replica.
ServeRead(r) ==
    LET n == req[r].at
    IN /\ req[r].pc = "confirmed" /\ Reachable(n)
       /\ applied[n] >= req[r].idx
       /\ Succeed(r, applied[n])
       /\ UNCHANGED <<phase, engineVars, commit, machineVars, snapVars>>

\* Mutant: a failed ensure_linearizable is not followed by exec.
NoFallBack(r) ==
    LET n == req[r].at
    IN /\ req[r].pc = "confirm" /\ Leads(n)
       /\ ~(Leads(n) /\ vote[n] = req[r].bal)
       /\ Exec(n, r, n)
       /\ UNCHANGED <<phase, machineVars, snapVars>>

\* ensure_linearizable fails on a replica that leads no more: the read goes
\* through the log.
FallBack(r) ==
    LET n == req[r].at
    IN /\ req[r].pc = "confirm" /\ Reachable(n)
       /\ ~(Leads(n) /\ vote[n] = req[r].bal)
       /\ Exec(n, r, n)
       /\ UNCHANGED <<phase, machineVars, snapVars>>

\* The handler of a forwarded request: client_write here, whoever leads now.
HandleForwarded(r) ==
    LET n == req[r].at
    IN /\ req[r].pc = "forward" /\ Reachable(n)
       /\ IF Leads(n)
          THEN ClientWrite(n, r) /\ UNCHANGED <<vote, known>>
          ELSE /\ Fail(r)
               /\ UNCHANGED <<engineVars, commit>>
       /\ UNCHANGED <<phase, machineVars, snapVars>>

\* The call of forward_to_leader times out; the request may still be handled.
ForwardTimesOut(r) ==
    /\ req[r].told = None
    /\ \/ req[r].pc = "forward"
       \/ req[r].pc = "wait" /\ req[r].via \notin {0, req[r].at}
    /\ Update(r, [req[r] EXCEPT !.told = "err"])
    /\ UNCHANGED <<phase, engineVars, commit, machineVars, snapVars>>

\* Mutant: the answer does not wait for the entry to be applied.
AnswerEarly(r) ==
    LET n == req[r].at
        i == req[r].idx
    IN /\ req[r].pc = "wait" /\ Reachable(n)
       /\ Succeed(r, i)
       /\ UNCHANGED <<phase, engineVars, commit, machineVars, snapVars>>

\* client_write returns: with the response of apply, or with an error when the
\* entry was replaced by one of another leader.
AnswerWrite(r) ==
    LET n == req[r].at
        i == req[r].idx
        mine == i <= Len(log[n]) /\ log[n][i] = [bal |-> req[r].bal, req |-> r]
    IN /\ req[r].pc = "wait" /\ Reachable(n)
       /\ \/ /\ mine /\ applied[n] >= i
             /\ Succeed(r, i)
          \/ /\ ~mine
             /\ Fail(r)
       /\ UNCHANGED <<phase, engineVars, commit, machineVars, snapVars>>

-----------------------------------------------------------------------------
(* Failures.                                                               *)

\* The requests a replica was working on end without an answer of its own.
Abandon(n) ==
    req' = [r \in Requests |->
              IF \/ req[r].pc \in {"confirm", "confirmed", "wait"} /\ req[r].at = n
                 \/ req[r].pc = "forward" /\ req[r].via = n
              THEN Ended(r, "err")
              ELSE req[r]]

\* A replica stops for good.
Stop(n) ==
    /\ n \in Stopping
    /\ Reachable(n)
    /\ phase' = [phase EXCEPT ![n] = "down"]
    /\ Abandon(n)
    /\ UNCHANGED <<engineVars, commit, machineVars, snapVars>>

-----------------------------------------------------------------------------
\* The steps the engine and the tasks of a replica take by themselves. Every
\* one of them brings something forward for good: they come to an end.
Progress ==
    \/ \E n \in Nodes : StartServices(n) \/ Initialize(n) \/ Apply(n)
    \/ \E l, f \in Nodes : Replicate(l, f)
    \/ \E r \in Requests :
         \/ ConfirmLeader(r) \/ ServeRead(r) \/ FallBack(r)
         \/ HandleForwarded(r) \/ ForwardTimesOut(r) \/ AnswerWrite(r)

\* Replicas fail by stopping.
Next ==
    \/ Progress
    \/ \E n \in Nodes : GetSnapshotBuilder(n) \/ BuildSnapshot(n) \/ Stop(n)
    \/ \E n \in Nodes, b \in 1..MaxBallot, Q \in Quorums : Elect(n, b, Q)
    \/ \E n \in Nodes, r \in Requests : ReplicateWrite(n, r) \/ ReplicateRead(n, r)

Spec == Init /\ [][Next]_vars

-----------------------------------------------------------------------------
(* Properties.                                                             *)

Entries == [bal : 0..MaxBallot, req : Requests \cup {"members", "blank"}]

\* The variables keep their types; a replica has applied no more than it knows
\* to be committed, and only applied entries are purged.
TypeOK ==
    /\ phase \in [Nodes -> {"new", "started", "up", "failed", "down"}]
    /\ vote \in [Nodes -> 0..MaxBallot]
    /\ known \in [Nodes -> Nodes \cup {0}]
    /\ log \in [Nodes -> Seq(Entries)]
    /\ store \in [Nodes -> [Keys -> Requests \cup {None}]]
    /\ \A n \in Nodes : /\ purged[n] <= applied[n]
                        /\ applied[n] <= commit[n]
                        /\ commit[n] <= Len(log[n])

\* Every replica's store is what its applied entries leave in an empty store,
\* and any two replicas agree on the entries both applied: apply, the
\* truncation of conflicts and snapshots never let two replicas diverge.
ReplicasAgree ==
    /\ \A n \in Nodes : store[n] = ApplyAll(NoStore, SubSeq(log[n], 1, applied[n]))
    /\ \A n, m \in Nodes : \A i \in 1..applied[n] : i <= applied[m] => log[n][i] = log[m][i]

\* Leader n is not stale: a quorum has voted for no higher ballot.
LeadsQuorum(n) == Leads(n) /\ \E Q \in Quorums : \A m \in Q : vote[m] <= vote[n]

\* A write whose client was told it was applied is in the log of every leader
\* that is not stale, at the index it was given: client_write's answer is final
\* whatever elections, truncations and crashes follow.
AcknowledgedSurvives ==
    \A r \in Requests : req[r].told = "ok" /\ Kind[r] # "read" =>
      \A n \in Nodes : LeadsQuorum(n) =>
        /\ req[r].idx \in 1..Len(log[n])
        /\ log[n][req[r].idx] = [bal |-> req[r].bal, req |-> r]

\* A read that was answered saw every write acknowledged before it began,
\* whether the leader served it from its store or it went through the log.
ReadsAreFresh ==
    \A r \in Requests : req[r].told = "ok" => ~req[r].stale

\* A replica leader l cannot bring up to date: what it lacks is purged and l
\* has no current snapshot.
Stalled(l, n) == Leads(l) /\ ~CanRead(l, Common(log[n], log[l]) + 1) /\ ~GetCurrentSnapshot(l).on

\* Some leader reaches a quorum it can bring up to date.
Serviceable ==
    \E l \in Nodes : /\ Leads(l)
                     /\ \E Q \in Quorums : /\ l \in Q
                                           /\ \A m \in Q : /\ Reachable(m)
                                                           /\ vote[m] <= vote[l]
                                                           /\ ~Stalled(l, m)

\* While a leader reaches a quorum, a request without an answer never waits for
\* nothing: some step of the engine, of a replica or of its own is enabled.
\* As such steps come to an end every request is answered, forwarded ones, reads
\* that fall back and entries that are replaced included. The exception is a
\* request that waits on a replica that cannot be caught up.
RequestsAnswered ==
    \A r \in Requests :
      /\ req[r].pc # "idle" /\ req[r].told = None
      /\ Serviceable
      /\ ~\E l, n \in Nodes : req[r].at = n /\ Stalled(l, n)
      => ENABLED Progress

\* What clients were told stays true: acknowledged writes are in the log of every
\* later leader, and no read that was answered missed one.
Linearizable == AcknowledgedSurvives /\ ReadsAreFresh
=============================================================================
