--------------------------- MODULE RaftShardProofs ---------------------------
(***************************************************************************)
(* That the replicas of a Raft shard agree and that what its clients are   *)
(* told stays true, for every number of replicas, requests and elections.  *)
(***************************************************************************)
EXTENDS RaftShard, FiniteSetTheorems, WellFoundedInduction, TLAPS

-----------------------------------------------------------------------------
(* The inductive invariant                                                 *)

Prefix(p, l) == Len(p) <= Len(l) /\ \A i \in 1..Len(p) : p[i] = l[i]

\* The ballot of the last entry of a log that is not empty.
Bal(p) == p[Len(p)].bal

\* A beginning of a log that no election can lose: a quorum has it and voted for
\* its ballot, every log that goes on with a higher ballot has it, and the
\* leader of its ballot knows it to be committed.
Chosen(p) ==
    /\ p \in Seq(Entries) /\ Len(p) > 0
    /\ \E Q \in Quorums : \A q \in Q : vote[q] >= Bal(p) /\ Prefix(p, log[q])
    /\ \A n \in Nodes : (\E j \in 1..Len(log[n]) : log[n][j].bal > Bal(p)) => Prefix(p, log[n])
    /\ \A n \in Nodes : known[n] = n /\ vote[n] = Bal(p) => Len(p) <= commit[n]

EngineType ==
    /\ vote \in [Nodes -> 0..MaxBallot]
    /\ known \in [Nodes -> Nodes \cup {0}]
    /\ log \in [Nodes -> Seq(Entries)]
    /\ commit \in [Nodes -> Nat]
    /\ \A n \in Nodes : commit[n] <= Len(log[n])

\* The ballots of a log never fall, and its replica voted for each of them.
Sorted ==
    \A n \in Nodes : \A j \in 1..Len(log[n]) :
      /\ log[n][j].bal <= vote[n]
      /\ \A i \in 1..j : log[n][i].bal <= log[n][j].bal

\* Only the membership has ballot 0; every other ballot is one that its owner
\* and a quorum voted for.
Elected ==
    \A n \in Nodes : \A j \in 1..Len(log[n]) :
      LET b == log[n][j].bal
      IN \/ b = 0 /\ j = 1 /\ log[n][j].req = "members"
         \/ /\ b > 0
            /\ vote[Owner(b)] >= b
            /\ \E Q \in Quorums : \A q \in Q : vote[q] >= b

\* The entries of one ballot come from one growing log.
Matching ==
    \A n, m \in Nodes : \A i \in 1..Len(log[n]), j \in 1..Len(log[m]) :
      i <= j /\ log[n][i].bal = log[m][j].bal => \A k \in 1..i : log[n][k] = log[m][k]

\* A leader owns its ballot, began it with a blank entry and has every entry
\* of it.
Leading ==
    \A n \in Nodes : known[n] = n =>
      /\ vote[n] > 0 /\ Owner(vote[n]) = n
      /\ Len(log[n]) > 0 /\ Bal(log[n]) = vote[n]
      /\ \E i \in 1..Len(log[n]) : log[n][i] = [bal |-> vote[n], req |-> "blank"]
      /\ \A m \in Nodes : \A j \in 1..Len(log[m]) : log[m][j].bal = vote[n] => j <= Len(log[n])

\* What a replica takes for committed is the beginning of a chosen log.
CommittedAt(n) ==
    commit[n] = 0 \/
      \E p \in Seq(Entries) : /\ Chosen(p) /\ commit[n] <= Len(p) /\ Bal(p) <= vote[n]
                              /\ \A i \in 1..commit[n] : p[i] = log[n][i]

Committed == \A n \in Nodes : CommittedAt(n)

EngineInv == EngineType /\ Sorted /\ Elected /\ Matching /\ Leading /\ Committed

\* What is applied, purged and kept for others.
MachineInv ==
    \A n \in Nodes :
      /\ purged[n] \in Nat /\ applied[n] \in Nat
      /\ purged[n] <= applied[n] /\ applied[n] <= commit[n]
      /\ building[n].on => building[n].at \in Nat /\ building[n].at <= applied[n]
      /\ current[n].on => current[n].data = store[n]

MachineType ==
    /\ purged \in [Nodes -> Nat] /\ applied \in [Nodes -> Nat]
    /\ building \in [Nodes -> [on : BOOLEAN, at : Nat]]
    /\ DOMAIN store = Nodes /\ store = [n \in Nodes |-> store[n]]
    /\ DOMAIN current = Nodes /\ DOMAIN snap = Nodes

\* A store is what the applied entries leave in an empty one.
Replayed == \A n \in Nodes : store[n] = ApplyAll(NoStore, SubSeq(log[n], 1, applied[n]))

RequestRecord ==
    [pc : {"idle", "forward", "confirm", "confirmed", "wait", "done"},
     via : Nodes \cup {0}, at : Nodes \cup {0}, idx : Nat, bal : Nat,
     floor : Nat, stale : BOOLEAN, told : {None, "ok", "err"}]

RequestType == req \in [Requests -> RequestRecord]

\* Everything acknowledged is chosen at its index.
AckedChosen(r) ==
    req[r].told = "ok" =>
      /\ req[r].pc = "done"
      /\ ~req[r].stale
      /\ Kind[r] # "read" =>
           \E p \in Seq(Entries) : /\ Chosen(p) /\ req[r].idx \in 1..Len(p)
                                   /\ p[req[r].idx] = [bal |-> req[r].bal, req |-> r]

\* A request that is not yet executed is in no log.
NotLogged(r) ==
    req[r].pc \in {"idle", "forward", "confirm", "confirmed"} =>
      \A n \in Nodes : \A j \in 1..Len(log[n]) : log[n][j].req # r

\* What was acknowledged before a read began was chosen without the read.
FloorChosen(r) ==
    req[r].pc \in {"idle", "forward", "confirm", "confirmed", "wait"} =>
      \/ req[r].floor = 0
      \/ \E p \in Seq(Entries) : /\ Chosen(p) /\ req[r].floor <= Len(p)
                                 /\ \A j \in 1..req[r].floor : p[j].req # r

\* The index a leader waits for covers that, or it will not be confirmed.
ReadCovered(r) ==
    /\ req[r].pc = "confirm" =>
         \/ req[r].floor <= req[r].idx
         \/ \E Q \in Quorums : \A q \in Q : vote[q] > req[r].bal
    /\ req[r].pc = "confirmed" => req[r].floor <= req[r].idx

\* A request in progress is at a replica, one that waits has a place in the
\* log, and only reads are confirmed.
Placed(r) ==
    /\ req[r].pc \in {"forward", "confirm", "confirmed", "wait"} => req[r].at \in Nodes
    /\ req[r].pc = "wait" => req[r].idx > 0
    /\ req[r].pc \in {"confirm", "confirmed"} => Kind[r] = "read"

RequestHolds(r) == AckedChosen(r) /\ NotLogged(r) /\ FloorChosen(r) /\ ReadCovered(r) /\ Placed(r)

RequestInv == \A r \in Requests : RequestHolds(r)

PhaseType == phase \in [Nodes -> {"new", "started", "up", "failed", "down"}]

IInv == EngineInv /\ PhaseType /\ MachineType /\ MachineInv /\ Replayed /\ RequestType /\ RequestInv

-----------------------------------------------------------------------------
(* Numbers, quorums and logs                                               *)

\* A set of numbers has a least element.
LEMMA Least == ASSUME NEW S, S \subseteq Nat, S # {} PROVE \E i \in S : \A j \in S : i <= j
  <1> DEFINE R == OpToRel(<, Nat)
  <1>1. IsWellFoundedOn(R, Nat)
    BY NatLessThanWellFounded
  <1>2. PICK x \in S : \A y \in S : ~(<<y, x>> \in R)
    BY <1>1, WFMin, Zenon
  <1>3. \A y \in S : y < x => <<y, x>> \in R
    BY DEF OpToRel
  <1>4. \A y \in S : ~(y < x)
    BY <1>2, <1>3, Zenon
  <1>5. x \in Nat /\ \A y \in S : y \in Nat
    OBVIOUS
  <1> HIDE DEF R
  <1>6. QED
    BY <1>4, <1>5

\* A bounded set of numbers has a greatest element.
LEMMA Greatest ==
    ASSUME NEW S, S \subseteq Nat, S # {}, NEW b \in Nat, \A i \in S : i <= b
    PROVE  \E i \in S : \A j \in S : j <= i
  <1> DEFINE T == {b - i : i \in S}
  <1>1. T \subseteq Nat /\ T # {}
    <2>1. \A i \in S : i \in Nat /\ i <= b
      OBVIOUS
    <2>2. \A i \in S : b - i \in Nat
      BY <2>1
    <2>3. QED
      BY <2>2
  <1>2. PICK t \in T : \A u \in T : t <= u
    BY <1>1, Least
  <1>3. PICK i \in S : t = b - i
    OBVIOUS
  <1>4. \A j \in S : b - i <= b - j
    BY <1>2, <1>3
  <1>5. QED
    BY <1>4

\* A function from the replicas to numbers is bounded.
LEMMA NodesBounded ==
    ASSUME NEW f, \A n \in Nodes : f[n] \in Nat
    PROVE  \E b \in Nat : \A n \in Nodes : f[n] <= b
  <1> DEFINE N == Cardinality(Nodes)
             Bad == {c \in Nat : c <= N /\ ~\E b \in Nat : \A n \in 1..c : f[n] <= b}
  <1>0. N \in Nat /\ Nodes = 1..N
    BY RaftAssumption, FS_CardinalityType
  <1> HIDE DEF N
  <1>1. SUFFICES N \notin Bad
    BY <1>0
  <1>2. SUFFICES ASSUME N \in Bad PROVE FALSE
    OBVIOUS
  <1>3. PICK c \in Bad : \A d \in Bad : c <= d
    BY <1>2, Least
  <1>4. c # 0
    <2>1. \A n \in 1..0 : f[n] <= 0
      OBVIOUS
    <2>2. QED
      BY <2>1, <1>3
  <1>5. c - 1 \in Nat /\ c - 1 \notin Bad /\ c - 1 <= N
    <2>1. c \in Nat /\ c <= N
      OBVIOUS
    <2>2. c - 1 \in Nat /\ c - 1 <= N
      BY <2>1, <1>4, <1>0
    <2>3. \A d \in Bad : d \in Nat
      OBVIOUS
    <2> HIDE DEF Bad
    <2>4. QED
      BY <2>1, <2>2, <2>3, <1>3
  <1>6. PICK b \in Nat : \A n \in 1..(c - 1) : f[n] <= b
    BY <1>5
  <1>7. f[c] \in Nat
    BY <1>3, <1>4, <1>0
  <1>8. \A n \in 1..c : f[n] <= b + f[c]
    <2>1. \A n \in 1..c : n = c \/ n \in 1..(c - 1)
      BY <1>4
    <2>2. \A n \in 1..c : f[n] \in Nat
      BY <1>0, <1>3
    <2>3. QED
      BY <2>1, <2>2, <1>6, <1>7
  <1>9. QED
    BY <1>8, <1>3, <1>7

\* Any two quorums have a replica in common.
LEMMA QuorumsMeet == ASSUME NEW Q \in Quorums, NEW R \in Quorums PROVE \E q \in Nodes : q \in Q /\ q \in R
  <1> DEFINE N == Cardinality(Nodes)
  <1>1. N \in Nat /\ IsFiniteSet(Nodes)
    BY RaftAssumption, FS_CardinalityType
  <1>2. /\ Q \subseteq Nodes /\ R \subseteq Nodes
        /\ Cardinality(Q) = N \div 2 + 1 /\ Cardinality(R) = N \div 2 + 1
    BY DEF Quorums
  <1>3. IsFiniteSet(Q) /\ IsFiniteSet(R) /\ IsFiniteSet(Q \cup R) /\ Q \cup R \subseteq Nodes
    BY <1>1, <1>2, FS_Subset, FS_Union
  <1>4. Cardinality(Q \cup R) = Cardinality(Q) + Cardinality(R) - Cardinality(Q \cap R)
    BY <1>3, FS_Union
  <1>5. Cardinality(Q \cup R) <= N
    BY <1>1, <1>3, FS_Subset
  <1>6. Cardinality(Q \cap R) # 0
    BY <1>1, <1>2, <1>4, <1>5
  <1>7. Q \cap R # {}
    BY <1>6, FS_EmptySet
  <1>8. QED
    BY <1>7, <1>2
-----------------------------------------------------------------------------
(* Applying entries                                                        *)

\* f is what applying the entries of s one after the other to st gives.
Follows(f, st, s) ==
    /\ f[0] = st
    /\ \A i \in 1..Len(s) : f[i] = ApplyEntry(f[i - 1], s[i])

\* The recursion of apply.
Recursion(f, st, s) == f = [i \in 0..Len(s) |-> IF i = 0 THEN st ELSE ApplyEntry(f[i - 1], s[i])]

\* The stores that apply goes through exist.
LEMMA StoresExist ==
    ASSUME NEW st, NEW s, Len(s) \in Nat
    PROVE  \E f : Recursion(f, st, s)
  <1> DEFINE E(g, i) == IF i = 0 THEN st ELSE ApplyEntry(g[i - 1], s[i])
             Bad == {c \in Nat : ~\E f : f = [i \in 0..c |-> E(f, i)]}
  <1>1. SUFFICES ASSUME Bad # {} PROVE FALSE
    <2>1. Len(s) \notin Bad
      BY <1>1, Zenon
    <2>2. PICK f : f = [i \in 0..Len(s) |-> E(f, i)]
      BY <2>1
    <2>3. Recursion(f, st, s)
      BY <2>2 DEF Recursion
    <2>4. QED
      BY <2>3
  <1>2. PICK c \in Bad : \A d \in Bad : c <= d
    <2>1. Bad \subseteq Nat
      OBVIOUS
    <2> HIDE DEF Bad
    <2>2. QED
      BY <1>1, <2>1, Least
  <1>3. c \in Nat
    OBVIOUS
  <1>4. c # 0
    <2> SUFFICES ASSUME c = 0 PROVE FALSE
      OBVIOUS
    <2> DEFINE g == [i \in 0..0 |-> st]
    <2>1. \A i \in 0..0 : i = 0
      OBVIOUS
    <2>2. g = [i \in 0..0 |-> E(g, i)]
      BY <2>1
    <2> HIDE DEF g
    <2>3. QED
      BY <2>2
  <1>5. c - 1 \in Nat
    BY <1>3, <1>4
  <1>6. c - 1 \notin Bad
    <2> HIDE DEF Bad
    <2>1. QED
      BY <1>2, <1>3, <1>5
  <1>7. PICK f : f = [i \in 0..(c - 1) |-> E(f, i)]
    BY <1>5, <1>6
  <1> DEFINE g == [i \in 0..c |-> IF i < c THEN f[i] ELSE E(f, c)]
  <1>8. \A i \in 0..c : g[i] = E(g, i)
    <2> SUFFICES ASSUME NEW i \in 0..c PROVE g[i] = E(g, i)
      OBVIOUS
    <2>1. CASE i = 0
      <3>1. g[i] = f[0] /\ f[0] = E(f, 0)
        BY <2>1, <1>3, <1>4, <1>5, <1>7
      <3>2. QED
        BY <3>1, <2>1
    <2>2. CASE i # 0
      <3>1. i - 1 \in 0..c /\ i - 1 < c
        BY <2>2, <1>3
      <3>2. g[i - 1] = f[i - 1]
        BY <3>1
      <3>3. E(g, i) = E(f, i)
        BY <3>2
      <3>4. CASE i = c
        BY <3>3, <3>4
      <3>5. CASE i # c
        <4>1. i \in 0..(c - 1) /\ i < c
          BY <3>5, <1>3
        <4>2. f[i] = E(f, i)
          BY <4>1, <1>7
        <4>3. g[i] = f[i]
          BY <4>1
        <4>4. QED
          BY <4>2, <4>3, <3>3, Zenon
      <3>6. QED
        BY <3>4, <3>5
    <2>3. QED
      BY <2>1, <2>2
  <1>9. g = [i \in 0..c |-> E(g, i)]
    <2>1. g = [i \in 0..c |-> g[i]]
      OBVIOUS
    <2> HIDE DEF g
    <2>2. QED
      BY <2>1, <1>8
  <1> HIDE DEF g
  <1>10. QED
    BY <1>9, <1>3

\* apply ends with the last of them.
LEMMA ApplyEnds ==
    ASSUME NEW st, NEW s, Len(s) \in Nat, NEW f, Follows(f, st, s)
    PROVE  ApplyAll(st, s) = f[Len(s)]
  <1> DEFINE g == CHOOSE g : g = [i \in 0..Len(s) |-> IF i = 0 THEN st ELSE ApplyEntry(g[i - 1], s[i])]
  <1>1. ApplyAll(st, s) = g[Len(s)]
    BY DEF ApplyAll
  <1>2. g = [i \in 0..Len(s) |-> IF i = 0 THEN st ELSE ApplyEntry(g[i - 1], s[i])]
    <2>1. \E h : Recursion(h, st, s)
      BY StoresExist
    <2>2. g = CHOOSE h : Recursion(h, st, s)
      BY DEF Recursion
    <2> HIDE DEF g
    <2>3. Recursion(g, st, s)
      BY <2>1, <2>2
    <2>4. QED
      BY <2>3 DEF Recursion
  <1> HIDE DEF g
  <1> DEFINE Bad == {c \in Nat : c <= Len(s) /\ g[c] # f[c]}
  <1>3. SUFFICES ASSUME Bad # {} PROVE FALSE
    <2>1. Len(s) \notin Bad
      BY <1>3, Zenon
    <2>2. QED
      BY <2>1, <1>1
  <1>4. PICK c \in Bad : \A d \in Bad : c <= d
    <2>1. Bad \subseteq Nat
      OBVIOUS
    <2> HIDE DEF Bad
    <2>2. QED
      BY <1>3, <2>1, Least
  <1>5. c \in Nat /\ c <= Len(s) /\ g[c] # f[c]
    OBVIOUS
  <1>6. c # 0
    BY <1>2, <1>5 DEF Follows
  <1>7. c - 1 \in Nat /\ c - 1 <= Len(s) /\ c \in 1..Len(s) /\ c \in 0..Len(s)
    BY <1>5, <1>6
  <1>8. g[c - 1] = f[c - 1]
    <2>1. c - 1 \notin Bad
      <3> HIDE DEF Bad
      <3>1. QED
        BY <1>4, <1>5, <1>7
    <2>2. QED
      BY <2>1, <1>7
  <1>9. g[c] = ApplyEntry(g[c - 1], s[c])
    BY <1>2, <1>6, <1>7
  <1>10. f[c] = ApplyEntry(f[c - 1], s[c])
    BY <1>7 DEF Follows
  <1>11. QED
    BY <1>5, <1>8, <1>9, <1>10

\* Applying a log in two parts is applying it in one.
LEMMA ApplySplit ==
    ASSUME NEW st, NEW s \in Seq(Entries), NEW a \in Nat, NEW c \in Nat, a <= c, c <= Len(s)
    PROVE  ApplyAll(ApplyAll(st, SubSeq(s, 1, a)), SubSeq(s, a + 1, c)) = ApplyAll(st, SubSeq(s, 1, c))
  <1>0. Len(s) \in Nat
    OBVIOUS
  <1>1. PICK f : Recursion(f, st, s)
    BY <1>0, StoresExist
  <1>2. f[0] = st /\ \A i \in 1..Len(s) : f[i] = ApplyEntry(f[i - 1], s[i])
    BY <1>0, <1>1 DEF Recursion
  <1>3. ASSUME NEW d \in Nat, d <= Len(s) PROVE ApplyAll(st, SubSeq(s, 1, d)) = f[d]
    <2>1. Len(SubSeq(s, 1, d)) = d /\ \A i \in 1..d : SubSeq(s, 1, d)[i] = s[i]
      BY <1>3
    <2>2. Follows(f, st, SubSeq(s, 1, d))
      BY <1>0, <1>2, <1>3, <2>1 DEF Follows
    <2>3. QED
      BY <2>1, <2>2, ApplyEnds
  <1> DEFINE t == SubSeq(s, a + 1, c)
             g == [i \in 0..(c - a) |-> f[i + a]]
  <1>4. Len(t) = c - a /\ \A i \in 1..(c - a) : t[i] = s[a + i]
    OBVIOUS
  <1>5. g[0] = f[a]
    OBVIOUS
  <1>6. ASSUME NEW i \in 1..(c - a) PROVE g[i] = ApplyEntry(g[i - 1], t[i])
    <2>1. i + a \in 1..Len(s) /\ i - 1 \in 0..(c - a) /\ i \in 0..(c - a) /\ (i - 1) + a = (i + a) - 1 /\ i + a = a + i
      BY <1>0
    <2>2. g[i] = f[i + a] /\ g[i - 1] = f[(i + a) - 1]
      BY <2>1
    <2>3. f[i + a] = ApplyEntry(f[(i + a) - 1], s[i + a])
      BY <1>2, <2>1
    <2>4. QED
      BY <2>1, <2>2, <2>3, <1>4
  <1>7. Follows(g, f[a], t)
    BY <1>4, <1>5, <1>6 DEF Follows
  <1>8. ApplyAll(f[a], t) = g[Len(t)]
    <2>1. Len(t) \in Nat
      BY <1>4
    <2> HIDE DEF g, t
    <2>2. QED
      BY <2>1, <1>7, ApplyEnds
  <1>9. g[Len(t)] = f[c]
    BY <1>4
  <1>10. QED
    BY <1>3, <1>8, <1>9, <1>0
-----------------------------------------------------------------------------
(* Logs                                                                    *)

\* Entries and their ballots.
LEMMA EntryTypes ==
    ASSUME EngineType
    PROVE  \A m \in Nodes : /\ Len(log[m]) \in Nat
                            /\ \A j \in 1..Len(log[m]) : log[m][j] \in Entries /\ log[m][j].bal \in Nat
  <1>1. MaxBallot \in Nat
    BY RaftAssumption
  <1>2. SUFFICES ASSUME NEW m \in Nodes
                 PROVE  Len(log[m]) \in Nat /\ \A j \in 1..Len(log[m]) : log[m][j] \in Entries /\ log[m][j].bal \in Nat
    OBVIOUS
  <1>3. log[m] \in Seq(Entries)
    BY DEF EngineType
  <1>4. Len(log[m]) \in Nat /\ \A j \in 1..Len(log[m]) : log[m][j] \in Entries
    BY <1>3
  <1>5. QED
    BY <1>1, <1>4 DEF Entries

\* A log with one more entry.
LEMMA Grown ==
    ASSUME EngineType, NEW n \in Nodes, NEW e \in Entries,
           log' = [log EXCEPT ![n] = AppendLog(@, <<e>>)]
    PROVE  /\ log' \in [Nodes -> Seq(Entries)]
           /\ Len(log'[n]) = Len(log[n]) + 1 /\ log'[n][Len(log[n]) + 1] = e
           /\ \A m \in Nodes : m # n => log'[m] = log[m]
           /\ \A m \in Nodes : Len(log[m]) <= Len(log'[m]) /\ \A j \in 1..Len(log[m]) : log'[m][j] = log[m][j]
           /\ \A m \in Nodes : \A j \in 1..Len(log'[m]) :
                j \in 1..Len(log[m]) \/ (m = n /\ j = Len(log[n]) + 1)
  <1>1. log[n] \in Seq(Entries) /\ Len(log[n]) \in Nat
    BY DEF EngineType
  <1>2. /\ log[n] \o <<e>> \in Seq(Entries) /\ Len(log[n] \o <<e>>) = Len(log[n]) + 1
        /\ (log[n] \o <<e>>)[Len(log[n]) + 1] = e
        /\ \A j \in 1..Len(log[n]) : (log[n] \o <<e>>)[j] = log[n][j]
    BY <1>1
  <1>3. log'[n] = log[n] \o <<e>> /\ \A m \in Nodes : m # n => log'[m] = log[m]
    BY DEF EngineType, AppendLog
  <1>4. log' \in [Nodes -> Seq(Entries)]
    BY <1>2 DEF EngineType, AppendLog
  <1>5. \A m \in Nodes : Len(log[m]) \in Nat
    BY DEF EngineType
  <1>6. \A m \in Nodes : Len(log[m]) <= Len(log'[m]) /\ \A j \in 1..Len(log[m]) : log'[m][j] = log[m][j]
    BY <1>2, <1>3, <1>5
  <1>7. \A m \in Nodes : \A j \in 1..Len(log'[m]) :
          j \in 1..Len(log[m]) \/ (m = n /\ j = Len(log[n]) + 1)
    BY <1>2, <1>3, <1>5
  <1>8. QED
    BY <1>2, <1>3, <1>4, <1>6, <1>7

\* Two sequences with the same elements are the same.
LEMMA SameSequence ==
    ASSUME NEW S, NEW a \in Seq(S), NEW b \in Seq(S), Len(a) = Len(b), \A i \in 1..Len(a) : a[i] = b[i]
    PROVE  a = b
  OBVIOUS

\* What two logs have in common.
LEMMA CommonIs ==
    ASSUME NEW a \in Seq(Entries), NEW b \in Seq(Entries)
    PROVE  /\ Common(a, b) \in Nat /\ Common(a, b) <= Len(a) /\ Common(a, b) <= Len(b)
           /\ \A i \in 1..Common(a, b) : a[i] = b[i]
           /\ \A c \in Nat : c <= Len(a) /\ c <= Len(b) /\ (\A i \in 1..c : a[i] = b[i]) => c <= Common(a, b)
  <1> DEFINE differ == {i \in 1..Len(a) : i > Len(b) \/ a[i] # b[i]}
  <1>0. Len(a) \in Nat /\ Len(b) \in Nat
    OBVIOUS
  <1>1. CASE differ = {}
    <2>1. Common(a, b) = Len(a)
      BY <1>1 DEF Common
    <2>2. \A i \in 1..Len(a) : i <= Len(b) /\ a[i] = b[i]
      BY <1>0, <1>1
    <2>3. Len(a) <= Len(b)
      BY <1>0, <2>2
    <2>4. QED
      BY <1>0, <2>1, <2>2, <2>3
  <1>2. CASE differ # {}
    <2>1. differ \subseteq Nat
      OBVIOUS
    <2>2. \E i \in differ : \A j \in differ : i <= j
      <3> HIDE DEF differ
      <3>1. QED
        BY <1>2, <2>1, Least
    <2> DEFINE d == CHOOSE i \in differ : \A j \in differ : i <= j
    <2>3. d \in differ /\ \A j \in differ : d <= j
      BY <2>2
    <2>4. Common(a, b) = d - 1
      BY <1>2 DEF Common
    <2> HIDE DEF d
    <2>5. d \in 1..Len(a) /\ (d > Len(b) \/ a[d] # b[d])
      BY <2>3
    <2>6. \A i \in 1..Len(a) : i < d => i <= Len(b) /\ a[i] = b[i]
      BY <2>3, <2>5
    <2> HIDE DEF differ
    <2>7. \A i \in 1..(d - 1) : a[i] = b[i]
      BY <1>0, <2>5, <2>6
    <2>8. d - 1 <= Len(b)
      <3>1. d = 1 \/ d - 1 \in 1..Len(a)
        BY <1>0, <2>5
      <3>2. QED
        BY <1>0, <2>5, <2>6, <3>1
    <2>9. \A c \in Nat : c <= Len(a) /\ c <= Len(b) /\ (\A i \in 1..c : a[i] = b[i]) => c <= d - 1
      BY <1>0, <2>5
    <2>10. QED
      BY <1>0, <2>4, <2>5, <2>7, <2>8, <2>9
  <1>3. QED
    BY <1>1, <1>2

\* Dropping what conflicts and appending what is missing makes the logs equal.
LEMMA CopyIsEqual ==
    ASSUME NEW a \in Seq(Entries), NEW b \in Seq(Entries), NEW k, k = Common(a, b)
    PROVE  AppendLog(TruncateLog(a, k + 1), SubSeq(b, k + 1, Len(b))) = b
  <1> DEFINE t == TruncateLog(a, k + 1)
             u == SubSeq(b, k + 1, Len(b))
  <1>1. k \in Nat /\ k <= Len(a) /\ k <= Len(b) /\ \A i \in 1..k : a[i] = b[i]
    BY CommonIs
  <1>2. t \in Seq(Entries) /\ Len(t) = k /\ \A i \in 1..k : t[i] = a[i]
    <2>1. CASE k + 1 <= Len(a)
      <3>1. t = SubSeq(a, 1, k)
        BY <2>1, <1>1 DEF TruncateLog
      <3> HIDE DEF t
      <3>2. k <= Len(a) /\ k \in Nat /\ \A i \in 1..k : 1 <= i /\ i <= Len(a)
        BY <1>1
      <3>3. Len(SubSeq(a, 1, k)) = k /\ SubSeq(a, 1, k) \in Seq(Entries)
        BY <3>2
      <3>4. \A i \in 1..k : SubSeq(a, 1, k)[i] = a[i]
        BY <3>2
      <3>5. QED
        BY <3>1, <3>3, <3>4
    <2>2. CASE ~(k + 1 <= Len(a))
      <3>1. t = a /\ Len(a) = k
        BY <2>2, <1>1 DEF TruncateLog
      <3>2. QED
        BY <3>1
    <2>3. QED
      BY <2>1, <2>2
  <1>3. u \in Seq(Entries) /\ Len(u) = Len(b) - k /\ \A i \in 1..(Len(b) - k) : u[i] = b[k + i]
    BY <1>1
  <1> HIDE DEF t, u
  <1>4. t \o u \in Seq(Entries) /\ Len(t \o u) = Len(b)
    BY <1>1, <1>2, <1>3
  <1>5. ASSUME NEW i \in 1..Len(b) PROVE (t \o u)[i] = b[i]
    <2>1. CASE i <= k
      BY <2>1, <1>1, <1>2, <1>3
    <2>2. CASE i > k
      <3>1. i - k \in 1..(Len(b) - k) /\ k + (i - k) = i
        BY <2>2, <1>1
      <3>2. (t \o u)[i] = u[i - k]
        BY <2>2, <1>1, <1>2, <1>3, <1>4
      <3>3. QED
        BY <3>1, <3>2, <1>3
    <2>3. i <= k \/ i > k
      BY <1>1
    <2>4. QED
      BY <2>1, <2>2, <2>3, Zenon
  <1>6. t \o u = b
    BY <1>4, <1>5, SameSequence
  <1>7. QED
    BY <1>6 DEF AppendLog, t, u
-----------------------------------------------------------------------------
(* Chosen logs                                                             *)

LEMMA ChosenTypes ==
    ASSUME NEW p, Chosen(p)
    PROVE  p \in Seq(Entries) /\ Len(p) \in Nat /\ Len(p) \in 1..Len(p) /\ Bal(p) \in Nat
  <1>1. MaxBallot \in Nat
    BY RaftAssumption
  <1>2. p \in Seq(Entries) /\ Len(p) > 0
    BY DEF Chosen
  <1>3. Len(p) \in Nat /\ Len(p) \in 1..Len(p)
    BY <1>2
  <1>4. p[Len(p)] \in Entries
    BY <1>2, <1>3
  <1>5. QED
    BY <1>1, <1>2, <1>3, <1>4 DEF Bal, Entries

\* Where a log has a chosen one, the ballot is known.
LEMMA HeldBallot ==
    ASSUME NEW p, Chosen(p), NEW l \in Seq(Entries), Prefix(p, l)
    PROVE  Len(p) \in 1..Len(l) /\ l[Len(p)].bal = Bal(p)
  BY ChosenTypes DEF Prefix, Bal

\* Some replica has it.
LEMMA Holder ==
    ASSUME NEW p, Chosen(p), EngineType
    PROVE  \E q \in Nodes : Prefix(p, log[q]) /\ vote[q] >= Bal(p)
  <1>1. PICK Q \in Quorums : \A q \in Q : vote[q] >= Bal(p) /\ Prefix(p, log[q])
    BY DEF Chosen
  <1>2. PICK q \in Nodes : q \in Q
    BY QuorumsMeet
  <1>3. QED
    BY <1>1, <1>2

\* A log with an entry of the ballot at a place at or after its end has it too.
LEMMA SameBallotHas ==
    ASSUME NEW p, Chosen(p), EngineType, Matching, NEW n \in Nodes,
           NEW j \in 1..Len(log[n]), Len(p) <= j, log[n][j].bal = Bal(p)
    PROVE  Prefix(p, log[n])
  <1>1. PICK q \in Nodes : Prefix(p, log[q])
    BY Holder
  <1>2. log[q] \in Seq(Entries) /\ Len(log[n]) \in Nat
    BY DEF EngineType
  <1>3. Len(p) \in 1..Len(log[q]) /\ log[q][Len(p)].bal = Bal(p) /\ Len(p) \in Nat
    BY <1>1, <1>2, HeldBallot, ChosenTypes
  <1>4. \A k \in 1..Len(p) : log[q][k] = log[n][k]
    BY <1>3 DEF Matching
  <1>5. \A k \in 1..Len(p) : p[k] = log[q][k]
    BY <1>1 DEF Prefix
  <1>6. Len(p) <= Len(log[n])
    BY <1>2, <1>3
  <1>7. QED
    BY <1>4, <1>5, <1>6 DEF Prefix

\* A leader of its ballot or of a higher one has every chosen log.
LEMMA LeaderHas ==
    ASSUME NEW p, Chosen(p), EngineType, Matching, Leading, NEW l \in Nodes,
           known[l] = l, vote[l] >= Bal(p)
    PROVE  Prefix(p, log[l])
  <1>1. /\ Len(log[l]) \in Nat /\ vote[l] \in Nat
        /\ Len(log[l]) > 0 /\ log[l][Len(log[l])].bal = vote[l]
        /\ \A m \in Nodes : \A j \in 1..Len(log[m]) : log[m][j].bal = vote[l] => j <= Len(log[l])
    <2>1. Len(log[l]) \in Nat /\ vote[l] \in 0..MaxBallot /\ MaxBallot \in Nat
      BY RaftAssumption DEF EngineType
    <2>2. Len(log[l]) > 0 /\ Bal(log[l]) = vote[l]
      BY DEF Leading
    <2>3. \A m \in Nodes : \A j \in 1..Len(log[m]) : log[m][j].bal = vote[l] => j <= Len(log[l])
      BY DEF Leading
    <2>4. QED
      BY <2>1, <2>2, <2>3 DEF Bal
  <1>2. Bal(p) \in Nat
    BY ChosenTypes
  <1>3. CASE vote[l] > Bal(p)
    BY <1>1, <1>3 DEF Chosen
  <1>4. CASE vote[l] = Bal(p)
    <2>1. PICK q \in Nodes : Prefix(p, log[q])
      BY Holder
    <2>2. log[q] \in Seq(Entries)
      BY DEF EngineType
    <2>3. Len(p) \in 1..Len(log[q]) /\ log[q][Len(p)].bal = vote[l]
      BY <1>4, <2>1, <2>2, HeldBallot
    <2>4. Len(p) <= Len(log[l])
      BY <1>1, <2>3
    <2>5. QED
      BY <1>1, <1>4, <2>4, SameBallotHas
  <1>5. QED
    BY <1>1, <1>2, <1>3, <1>4

\* Two chosen logs agree as far as both go.
LEMMA ChosenAgree ==
    ASSUME NEW p, NEW r, Chosen(p), Chosen(r), EngineType, Matching
    PROVE  \A i \in Nat : 1 <= i /\ i <= Len(p) /\ i <= Len(r) => p[i] = r[i]
  <1>1. ASSUME NEW a, NEW b, Chosen(a), Chosen(b), Bal(a) < Bal(b)
        PROVE  \A i \in Nat : 1 <= i /\ i <= Len(a) /\ i <= Len(b) => a[i] = b[i]
    <2>1. PICK q \in Nodes : Prefix(b, log[q])
      BY <1>1, Holder
    <2>2. log[q] \in Seq(Entries)
      BY DEF EngineType
    <2>3. Len(b) \in 1..Len(log[q]) /\ log[q][Len(b)].bal > Bal(a)
      BY <1>1, <2>1, <2>2, HeldBallot, ChosenTypes
    <2>4. Prefix(a, log[q])
      BY <1>1, <2>3 DEF Chosen
    <2>5. Len(a) \in Nat /\ Len(b) \in Nat
      BY <1>1, ChosenTypes
    <2>6. QED
      BY <2>1, <2>4, <2>5 DEF Prefix
  <1>2. CASE Bal(p) = Bal(r)
    <2>1. PICK q \in Nodes : Prefix(p, log[q])
      BY Holder
    <2>2. PICK s \in Nodes : Prefix(r, log[s])
      BY Holder
    <2>3. log[q] \in Seq(Entries) /\ log[s] \in Seq(Entries)
      BY DEF EngineType
    <2>4. Len(p) \in 1..Len(log[q]) /\ log[q][Len(p)].bal = Bal(p)
      BY <2>1, <2>3, HeldBallot
    <2>5. Len(r) \in 1..Len(log[s]) /\ log[s][Len(r)].bal = Bal(p)
      BY <1>2, <2>2, <2>3, HeldBallot
    <2>6. Len(p) \in Nat /\ Len(r) \in Nat
      BY ChosenTypes
    <2>7. CASE Len(p) <= Len(r)
      <3>1. Prefix(p, log[s])
        BY <2>5, <2>7, SameBallotHas
      <3>2. QED
        BY <3>1, <2>2, <2>6 DEF Prefix
    <2>8. CASE Len(r) <= Len(p)
      <3>1. Prefix(r, log[q])
        BY <1>2, <2>4, <2>8, SameBallotHas
      <3>2. QED
        BY <3>1, <2>1, <2>6 DEF Prefix
    <2>9. QED
      BY <2>6, <2>7, <2>8
  <1>3. Bal(p) \in Nat /\ Bal(r) \in Nat /\ Len(p) \in Nat /\ Len(r) \in Nat
    BY ChosenTypes
  <1>4. CASE Bal(p) < Bal(r)
    BY <1>1, <1>4
  <1>5. CASE Bal(r) < Bal(p)
    BY <1>1, <1>5
  <1>6. QED
    BY <1>2, <1>3, <1>4, <1>5
-----------------------------------------------------------------------------
(* The engine: elections                                                   *)

\* What an election does to votes and logs.
ElectFacts(n, b, Q) ==
    /\ b \in Nat /\ b > 0 /\ Owner(b) = n /\ Q \subseteq Nodes /\ n \in Q
    /\ \A m \in Nodes : vote[m] \in Nat /\ vote'[m] \in Nat /\ vote[m] <= vote'[m]
    /\ \A m \in Q : vote[m] < b /\ vote'[m] = b /\ AtLeast(log[n], log[m])
    /\ \A m \in Nodes : m \notin Q => vote'[m] = vote[m] /\ known'[m] = known[m]
    /\ known'[n] = n
    /\ \A m \in Q : m # n => known'[m] = 0
    /\ commit' = commit
    /\ Len(log'[n]) = Len(log[n]) + 1
    /\ log'[n][Len(log[n]) + 1] = [bal |-> b, req |-> "blank"]
    /\ \A m \in Nodes : m # n => log'[m] = log[m]
    /\ \A m \in Nodes : Len(log[m]) <= Len(log'[m]) /\ \A j \in 1..Len(log[m]) : log'[m][j] = log[m][j]
    /\ \A m \in Nodes : \A j \in 1..Len(log'[m]) :
         j \in 1..Len(log[m]) \/ (m = n /\ j = Len(log[n]) + 1)

LEMMA ElectDoes ==
    ASSUME EngineType, NEW n \in Nodes, NEW b \in 1..MaxBallot, NEW Q \in Quorums, Elect(n, b, Q)
    PROVE  EngineType' /\ ElectFacts(n, b, Q)
  <1> DEFINE e == [bal |-> b, req |-> "blank"]
  <1>0. MaxBallot \in Nat /\ Q \subseteq Nodes /\ 0 \notin Nodes
    BY RaftAssumption, FS_CardinalityType DEF Quorums
  <1>1. e \in Entries
    BY <1>0 DEF Entries
  <1>2. log' = [log EXCEPT ![n] = AppendLog(@, <<e>>)]
    BY DEF Elect
  <1> HIDE DEF e
  <1>3. /\ log' \in [Nodes -> Seq(Entries)]
        /\ Len(log'[n]) = Len(log[n]) + 1 /\ log'[n][Len(log[n]) + 1] = e
        /\ \A m \in Nodes : m # n => log'[m] = log[m]
        /\ \A m \in Nodes : Len(log[m]) <= Len(log'[m]) /\ \A j \in 1..Len(log[m]) : log'[m][j] = log[m][j]
        /\ \A m \in Nodes : \A j \in 1..Len(log'[m]) :
             j \in 1..Len(log[m]) \/ (m = n /\ j = Len(log[n]) + 1)
    BY <1>1, <1>2, Grown
  <1>4. /\ vote' = [m \in Nodes |-> IF m \in Q THEN b ELSE vote[m]]
        /\ known' = [m \in Nodes |-> IF m = n THEN n ELSE IF m \in Q THEN 0 ELSE known[m]]
        /\ commit' = commit /\ Owner(b) = n /\ n \in Q
        /\ \A m \in Q : vote[m] < b /\ AtLeast(log[n], log[m])
    BY DEF Elect
  <1>5. vote' \in [Nodes -> 0..MaxBallot] /\ known' \in [Nodes -> Nodes \cup {0}]
    BY <1>0, <1>4 DEF EngineType
  <1>6. \A m \in Nodes : vote[m] \in Nat
    BY <1>0 DEF EngineType
  <1>7. \A m \in Nodes : vote'[m] \in Nat /\ vote[m] <= vote'[m]
    BY <1>0, <1>4, <1>6
  <1>8. \A m \in Nodes : commit'[m] <= Len(log'[m])
    <2>1. \A m \in Nodes : /\ commit[m] \in Nat /\ commit[m] <= Len(log[m])
                           /\ Len(log[m]) \in Nat /\ Len(log'[m]) \in Nat
      BY <1>3 DEF EngineType
    <2> SUFFICES ASSUME NEW m \in Nodes PROVE commit[m] <= Len(log'[m])
      BY <1>4
    <2>2. Len(log[m]) <= Len(log'[m])
      BY <1>3
    <2>3. QED
      BY <2>1, <2>2
  <1>9. EngineType'
    BY <1>3, <1>4, <1>5, <1>8 DEF EngineType
  <1>10. QED
    BY <1>0, <1>3, <1>4, <1>6, <1>7, <1>9 DEF ElectFacts, e

\* The ballot is new.
LEMMA BallotIsNew ==
    ASSUME EngineType, Elected, NEW n \in Nodes, NEW b \in Nat, NEW Q, b > 0, ElectFacts(n, b, Q)
    PROVE  \A m \in Nodes : \A j \in 1..Len(log[m]) : log[m][j].bal # b
  <1>1. vote[n] < b /\ vote[n] \in Nat /\ Owner(b) = n
    BY DEF ElectFacts
  <1>2. QED
    BY <1>1 DEF Elected

LEMMA ElectSorted ==
    ASSUME EngineType, Sorted, NEW n \in Nodes, NEW b \in Nat, NEW Q, ElectFacts(n, b, Q)
    PROVE  Sorted'
  <1>1. \A m \in Nodes : Len(log[m]) \in Nat /\ \A j \in 1..Len(log[m]) : log[m][j].bal \in Nat
    BY EntryTypes
  <1>2. SUFFICES ASSUME NEW m \in Nodes, NEW j \in 1..Len(log'[m])
                 PROVE  /\ log'[m][j].bal <= vote'[m]
                        /\ \A i \in 1..j : log'[m][i].bal <= log'[m][j].bal
    BY DEF Sorted
  <1>3. CASE j \in 1..Len(log[m])
    <2>1. log'[m][j] = log[m][j] /\ \A i \in 1..j : i \in 1..Len(log[m]) /\ log'[m][i] = log[m][i]
      BY <1>1, <1>3 DEF ElectFacts
    <2>2. log[m][j].bal <= vote[m] /\ \A i \in 1..j : log[m][i].bal <= log[m][j].bal
      BY <1>3 DEF Sorted
    <2>3. vote[m] <= vote'[m] /\ vote[m] \in Nat /\ vote'[m] \in Nat
      BY DEF ElectFacts
    <2>4. log[m][j].bal \in Nat
      BY <1>1, <1>3
    <2>5. log'[m][j].bal <= vote'[m]
      BY <2>1, <2>2, <2>3, <2>4
    <2>6. QED
      BY <2>1, <2>2, <2>5
  <1>4. CASE m = n /\ j = Len(log[n]) + 1
    <2>1. log'[m][j].bal = b /\ vote'[n] = b /\ vote[n] < b /\ vote[n] \in Nat
      BY <1>4 DEF ElectFacts
    <2>2. \A i \in 1..Len(log[n]) : log'[n][i] = log[n][i] /\ log[n][i].bal <= vote[n]
      BY DEF Sorted, ElectFacts
    <2>3. \A i \in 1..j : i = j \/ i \in 1..Len(log[n])
      BY <1>1, <1>4
    <2>4. ASSUME NEW i \in 1..j PROVE log'[n][i].bal <= b
      <3>1. CASE i = j
        BY <1>4, <2>1, <3>1
      <3>2. CASE i \in 1..Len(log[n])
        <4>1. log'[n][i].bal = log[n][i].bal /\ log[n][i].bal <= vote[n] /\ log[n][i].bal \in Nat
          BY <1>1, <2>2, <3>2
        <4>2. QED
          BY <2>1, <4>1
      <3>3. QED
        BY <2>3, <3>1, <3>2
    <2>5. b <= vote'[n]
      BY <2>1
    <2>6. QED
      BY <1>4, <2>1, <2>4, <2>5
  <1>5. QED
    BY <1>3, <1>4 DEF ElectFacts

LEMMA ElectElected ==
    ASSUME EngineType, Elected, NEW n \in Nodes, NEW b \in Nat, NEW Q \in Quorums, ElectFacts(n, b, Q)
    PROVE  Elected'
  <1>1. SUFFICES ASSUME NEW m \in Nodes, NEW j \in 1..Len(log'[m]), NEW c, c = log'[m][j].bal
                 PROVE  \/ c = 0 /\ j = 1 /\ log'[m][j].req = "members"
                        \/ /\ c > 0 /\ vote'[Owner(c)] >= c
                           /\ \E R \in Quorums : \A q \in R : vote'[q] >= c
    BY DEF Elected
  <1>2. CASE j \in 1..Len(log[m])
    <2>1. log'[m][j] = log[m][j] /\ c \in Nat
      BY <1>1, <1>2, EntryTypes DEF ElectFacts
    <2>2. CASE c = 0 /\ j = 1 /\ log[m][j].req = "members"
      BY <2>1, <2>2
    <2>3. CASE c > 0 /\ vote[Owner(c)] >= c /\ \E R \in Quorums : \A q \in R : vote[q] >= c
      <3>1. Owner(c) \in Nodes
        <4>1. Nodes = 1..Cardinality(Nodes) /\ Cardinality(Nodes) \in Nat /\ Cardinality(Nodes) > 0
          BY RaftAssumption, FS_CardinalityType
        <4>2. QED
          BY <4>1, <2>1, <2>3 DEF Owner
      <3>2. \A q \in Nodes : vote[q] <= vote'[q] /\ vote[q] \in Nat /\ vote'[q] \in Nat
        BY DEF ElectFacts
      <3>3. vote'[Owner(c)] >= c
        BY <2>1, <2>3, <3>1, <3>2
      <3>4. PICK R \in Quorums : \A q \in R : vote[q] >= c
        BY <2>3
      <3>5. \A q \in R : vote'[q] >= c
        BY <2>1, <3>2, <3>4 DEF Quorums
      <3>6. QED
        BY <2>3, <3>3, <3>5
    <2>4. QED
      BY <1>1, <1>2, <2>1, <2>2, <2>3 DEF Elected
  <1>3. CASE m = n /\ j = Len(log[n]) + 1
    <2>1. c = b /\ b > 0 /\ Owner(b) = n /\ vote'[n] = b /\ \A q \in Q : vote'[q] = b
      BY <1>1, <1>3 DEF ElectFacts
    <2>2. QED
      BY <2>1
  <1>4. QED
    BY <1>2, <1>3 DEF ElectFacts

LEMMA ElectMatching ==
    ASSUME EngineType, Elected, Matching, NEW n \in Nodes, NEW b \in Nat, NEW Q, b > 0, ElectFacts(n, b, Q)
    PROVE  Matching'
  <1>1. SUFFICES ASSUME NEW x \in Nodes, NEW y \in Nodes,
                        NEW i \in 1..Len(log'[x]), NEW j \in 1..Len(log'[y]), i <= j,
                        log'[x][i].bal = log'[y][j].bal, NEW k \in 1..i
                 PROVE  log'[x][k] = log'[y][k]
    BY DEF Matching
  <1>2. \A m \in Nodes : \A h \in 1..Len(log[m]) : log[m][h].bal # b
    BY BallotIsNew
  <1>3. \A m \in Nodes : Len(log[m]) \in Nat
    BY DEF EngineType
  <1>4. \A m \in Nodes : \A h \in 1..Len(log'[m]) :
          \/ h \in 1..Len(log[m]) /\ log'[m][h] = log[m][h] /\ log'[m][h].bal # b
          \/ m = n /\ h = Len(log[n]) + 1 /\ log'[m][h].bal = b
    BY <1>2 DEF ElectFacts
  <1>5. CASE log'[x][i].bal = b
    BY <1>1, <1>4, <1>5
  <1>6. CASE log'[x][i].bal # b
    <2>1. /\ i \in 1..Len(log[x]) /\ log'[x][i] = log[x][i]
          /\ j \in 1..Len(log[y]) /\ log'[y][j] = log[y][j]
      BY <1>1, <1>4, <1>6
    <2>2. log[x][k] = log[y][k]
      BY <1>1, <2>1, SMTT(30) DEF Matching
    <2>3. k \in 1..Len(log[x]) /\ k \in 1..Len(log[y])
      <3>1. Len(log[x]) \in Nat /\ Len(log[y]) \in Nat
        BY <1>3
      <3>2. i <= Len(log[x]) /\ j <= Len(log[y]) /\ i \in Nat /\ j \in Nat
        BY <2>1, <3>1
      <3>3. k \in Nat /\ k >= 1 /\ k <= i
        BY <3>2
      <3>4. QED
        BY <1>1, <3>1, <3>2, <3>3
    <2>4. QED
      BY <2>2, <2>3 DEF ElectFacts
  <1>7. QED
    BY <1>5, <1>6

LEMMA ElectLeading ==
    ASSUME EngineType, EngineType', Elected, Leading, NEW n \in Nodes, NEW b \in Nat, NEW Q, b > 0, ElectFacts(n, b, Q)
    PROVE  Leading'
  <1>1. \A m \in Nodes : \A h \in 1..Len(log[m]) : log[m][h].bal # b
    BY BallotIsNew
  <1>2. \A m \in Nodes : Len(log[m]) \in Nat /\ Len(log'[m]) \in Nat
    BY DEF EngineType
  <1>3. \A m \in Nodes : \A h \in 1..Len(log'[m]) :
          \/ h \in 1..Len(log[m]) /\ log'[m][h] = log[m][h] /\ log'[m][h].bal # b
          \/ m = n /\ h = Len(log[n]) + 1 /\ log'[m][h].bal = b
    BY <1>1 DEF ElectFacts
  <1>4. SUFFICES ASSUME NEW x \in Nodes, known'[x] = x
                 PROVE  /\ vote'[x] > 0 /\ Owner(vote'[x]) = x
                        /\ Len(log'[x]) > 0 /\ Bal(log'[x]) = vote'[x]
                        /\ \E i \in 1..Len(log'[x]) : log'[x][i] = [bal |-> vote'[x], req |-> "blank"]
                        /\ \A m \in Nodes : \A j \in 1..Len(log'[m]) : log'[m][j].bal = vote'[x] => j <= Len(log'[x])
    BY DEF Leading, Bal
  <1>5. CASE x = n
    <2>1. /\ vote'[n] = b /\ Owner(b) = n /\ Len(log'[n]) = Len(log[n]) + 1
          /\ log'[n][Len(log[n]) + 1] = [bal |-> b, req |-> "blank"]
      BY DEF ElectFacts
    <2>2. Len(log[n]) + 1 \in 1..Len(log'[n])
      BY <1>2, <2>1
    <2>3. \A m \in Nodes : \A j \in 1..Len(log'[m]) : log'[m][j].bal = b => j <= Len(log'[n])
      BY <1>2, <1>3, <2>1
    <2>4. QED
      BY <1>2, <1>5, <2>1, <2>2, <2>3 DEF Bal
  <1>6. CASE x # n
    <2>1. 0 \notin Nodes
      BY RaftAssumption, FS_CardinalityType
    <2>2. x \notin Q /\ known[x] = x /\ vote'[x] = vote[x] /\ log'[x] = log[x]
      BY <1>4, <1>6, <2>1 DEF ElectFacts
    <2>3. vote[x] > 0 /\ Owner(vote[x]) = x /\ Len(log[x]) > 0 /\ Bal(log[x]) = vote[x]
      BY <2>2 DEF Leading
    <2>4. \E i \in 1..Len(log[x]) : log[x][i] = [bal |-> vote[x], req |-> "blank"]
      BY <2>2 DEF Leading
    <2>5. \A m \in Nodes : \A j \in 1..Len(log[m]) : log[m][j].bal = vote[x] => j <= Len(log[x])
      BY <2>2 DEF Leading
    <2>6. vote[x] # b
      BY <1>6, <2>3 DEF ElectFacts
    <2>7. \A m \in Nodes : \A j \in 1..Len(log'[m]) : log'[m][j].bal = vote'[x] => j <= Len(log'[x])
      BY <1>3, <2>2, <2>5, <2>6
    <2>8. QED
      BY <2>2, <2>3, <2>4, <2>7
  <1>7. QED
    BY <1>5, <1>6
\* No step unchooses a log.
ChosenKept == \A p \in Seq(Entries) : Chosen(p) => Chosen(p)'

\* A replica whose committed entries stay knows them to be chosen afterwards.
LEMMA CommittedKept ==
    ASSUME EngineType, ChosenKept, NEW n \in Nodes, CommittedAt(n), commit'[n] = commit[n],
           vote[n] <= vote'[n], vote'[n] \in Nat, \A i \in 1..commit[n] : log'[n][i] = log[n][i]
    PROVE  CommittedAt(n)'
  <1>1. CASE commit[n] = 0
    BY <1>1 DEF CommittedAt
  <1>2. CASE commit[n] # 0
    <2>1. PICK p \in Seq(Entries) : /\ Chosen(p) /\ commit[n] <= Len(p) /\ Bal(p) <= vote[n]
                                    /\ \A i \in 1..commit[n] : p[i] = log[n][i]
      BY <1>2 DEF CommittedAt
    <2>2. Bal(p) \in Nat /\ vote[n] \in Nat
      BY <2>1, ChosenTypes, RaftAssumption DEF EngineType
    <2>3. Chosen(p)' /\ Bal(p) <= vote'[n]
      BY <2>1, <2>2 DEF ChosenKept
    <2>4. \A i \in 1..commit'[n] : p[i] = log'[n][i]
      BY <2>1
    <2>5. QED
      BY <2>1, <2>3, <2>4 DEF CommittedAt, Bal
  <1>3. QED
    BY <1>1, <1>2

\* Who can win an election has every chosen log, and its ballot is higher.
LEMMA WinnerHas ==
    ASSUME EngineType, Sorted, Matching, NEW p, Chosen(p),
           NEW n \in Nodes, NEW b \in Nat, NEW Q \in Quorums, ElectFacts(n, b, Q)
    PROVE  Bal(p) < b /\ Prefix(p, log[n])
  <1>1. PICK R \in Quorums : \A q \in R : vote[q] >= Bal(p) /\ Prefix(p, log[q])
    BY DEF Chosen
  <1>2. PICK q \in Nodes : q \in Q /\ q \in R
    BY QuorumsMeet
  <1>3. /\ vote[q] < b /\ vote[q] >= Bal(p) /\ vote[q] \in Nat /\ Bal(p) \in Nat
        /\ AtLeast(log[n], log[q]) /\ Prefix(p, log[q])
    BY <1>1, <1>2, ChosenTypes DEF ElectFacts
  <1>4. /\ log[q] \in Seq(Entries) /\ log[n] \in Seq(Entries) /\ Len(log[q]) \in Nat /\ Len(log[n]) \in Nat
        /\ \A j \in 1..Len(log[n]) : log[n][j].bal \in Nat
        /\ \A j \in 1..Len(log[q]) : log[q][j].bal \in Nat
    BY EntryTypes DEF EngineType
  <1>5. Len(p) \in 1..Len(log[q]) /\ log[q][Len(p)].bal = Bal(p) /\ Len(p) \in Nat
    BY <1>3, <1>4, HeldBallot, ChosenTypes
  <1>6. Len(log[q]) > 0 /\ log[q][Len(log[q])].bal >= Bal(p) /\ log[q][Len(log[q])].bal \in Nat
    <2>1. Len(log[q]) \in 1..Len(log[q]) /\ Len(p) \in 1..Len(log[q])
      BY <1>4, <1>5
    <2>2. QED
      BY <2>1, <1>4, <1>5 DEF Sorted
  <1>7. LastBallot(log[q]) = log[q][Len(log[q])].bal
    BY <1>6, <1>4 DEF LastBallot
  <1>8. Len(log[n]) > 0 /\ LastBallot(log[n]) = log[n][Len(log[n])].bal
    <2>1. log[n] # <<>>
      <3>1. CASE log[n] = <<>>
        BY <3>1, <1>3, <1>6, <1>7 DEF AtLeast, LastBallot
      <3>2. QED
        BY <3>1
    <2>2. QED
      BY <2>1, <1>4 DEF LastBallot
  <1>9. Len(log[n]) \in 1..Len(log[n]) /\ log[n][Len(log[n])].bal \in Nat
    BY <1>4, <1>8
  <1>10. CASE log[n][Len(log[n])].bal > Bal(p)
    BY <1>3, <1>9, <1>10 DEF Chosen
  <1>11. CASE log[n][Len(log[n])].bal = Bal(p)
    <2>1. Len(log[n]) >= Len(log[q])
      BY <1>3, <1>4, <1>6, <1>7, <1>8, <1>9, <1>11 DEF AtLeast
    <2>2. Len(p) <= Len(log[n])
      BY <2>1, <1>4, <1>5
    <2>3. Prefix(p, log[n])
      BY <2>2, <1>9, <1>11, SameBallotHas
    <2>4. QED
      BY <2>3, <1>3
  <1>12. log[n][Len(log[n])].bal >= Bal(p)
    BY <1>3, <1>6, <1>7, <1>8, <1>9 DEF AtLeast
  <1>13. QED
    BY <1>3, <1>9, <1>10, <1>11, <1>12

LEMMA ElectKeepsChosen ==
    ASSUME EngineType, EngineType', Sorted, Matching,
           NEW n \in Nodes, NEW b \in Nat, NEW Q \in Quorums, ElectFacts(n, b, Q)
    PROVE  ChosenKept
  <1>1. SUFFICES ASSUME NEW p \in Seq(Entries), Chosen(p) PROVE Chosen(p)'
    BY DEF ChosenKept
  <1>2. Bal(p) < b /\ Prefix(p, log[n])
    BY <1>1, WinnerHas
  <1>3. Len(p) \in Nat /\ Len(p) > 0 /\ Bal(p) \in Nat
    BY <1>1, ChosenTypes
  <1>4. \A m \in Nodes : Len(log[m]) \in Nat /\ Len(log'[m]) \in Nat
    BY DEF EngineType
  <1>5. \A m \in Nodes : Prefix(p, log[m]) => Prefix(p, log'[m])
    <2>1. SUFFICES ASSUME NEW m \in Nodes, Prefix(p, log[m]) PROVE Prefix(p, log'[m])
      OBVIOUS
    <2>2. Len(p) <= Len(log[m]) /\ \A i \in 1..Len(p) : p[i] = log[m][i] /\ i \in 1..Len(log[m])
      BY <1>3, <1>4, <2>1 DEF Prefix
    <2>3. Len(log[m]) <= Len(log'[m]) /\ \A j \in 1..Len(log[m]) : log'[m][j] = log[m][j]
      BY DEF ElectFacts
    <2>4. QED
      BY <1>3, <1>4, <2>2, <2>3 DEF Prefix
  <1>6. \E R \in Quorums : \A q \in R : vote'[q] >= Bal(p) /\ Prefix(p, log'[q])
    <2>1. PICK R \in Quorums : \A q \in R : vote[q] >= Bal(p) /\ Prefix(p, log[q])
      BY <1>1 DEF Chosen
    <2>2. ASSUME NEW q \in R PROVE vote'[q] >= Bal(p) /\ Prefix(p, log'[q])
      <3>1. q \in Nodes
        BY DEF Quorums
      <3>2. vote[q] <= vote'[q] /\ vote[q] \in Nat /\ vote'[q] \in Nat
        BY <3>1 DEF ElectFacts
      <3>3. QED
        BY <1>3, <1>5, <2>1, <3>1, <3>2
    <2>3. QED
      BY <2>2
  <1>7. \A m \in Nodes : (\E j \in 1..Len(log'[m]) : log'[m][j].bal > Bal(p)) => Prefix(p, log'[m])
    <2>1. SUFFICES ASSUME NEW m \in Nodes, NEW j \in 1..Len(log'[m]), log'[m][j].bal > Bal(p)
                   PROVE  Prefix(p, log'[m])
      OBVIOUS
    <2>2. CASE m = n
      BY <1>2, <1>5, <2>2
    <2>3. CASE m # n
      BY <1>1, <2>1, <2>3 DEF Chosen, ElectFacts
    <2>4. QED
      BY <2>2, <2>3
  <1>8. \A m \in Nodes : known'[m] = m /\ vote'[m] = Bal(p) => Len(p) <= commit'[m]
    <2>1. SUFFICES ASSUME NEW m \in Nodes, known'[m] = m, vote'[m] = Bal(p) PROVE Len(p) <= commit'[m]
      OBVIOUS
    <2>2. m \notin Q
      BY <1>2, <1>3, <2>1 DEF ElectFacts
    <2>3. known[m] = m /\ vote[m] = Bal(p) /\ commit'[m] = commit[m]
      BY <2>1, <2>2 DEF ElectFacts
    <2>4. QED
      BY <1>1, <2>3 DEF Chosen
  <1>9. QED
    BY <1>1, <1>3, <1>6, <1>7, <1>8 DEF Chosen, Bal

\* An election keeps the engine's invariant and everything chosen.
LEMMA ElectStep ==
    ASSUME EngineInv, NEW n \in Nodes, NEW b \in 1..MaxBallot, NEW Q \in Quorums, Elect(n, b, Q)
    PROVE  EngineInv' /\ ChosenKept /\ \A m \in Nodes : \A i \in 1..commit[m] : log'[m][i] = log[m][i]
  <1>1. EngineType /\ Sorted /\ Elected /\ Matching /\ Leading /\ Committed
    BY DEF EngineInv
  <1>2. EngineType' /\ ElectFacts(n, b, Q) /\ b \in Nat /\ b > 0
    BY <1>1, ElectDoes, RaftAssumption
  <1>3. Sorted' /\ Elected' /\ Matching' /\ Leading' /\ ChosenKept
    BY <1>1, <1>2, ElectSorted, ElectElected, ElectMatching, ElectLeading, ElectKeepsChosen
  <1>4. \A m \in Nodes : \A i \in 1..commit[m] : log'[m][i] = log[m][i]
    <2>1. SUFFICES ASSUME NEW m \in Nodes PROVE \A i \in 1..commit[m] : log'[m][i] = log[m][i]
      OBVIOUS
    <2>2. commit[m] \in Nat /\ commit[m] <= Len(log[m]) /\ Len(log[m]) \in Nat
      BY <1>1 DEF EngineType
    <2>3. \A i \in 1..commit[m] : i \in 1..Len(log[m])
      BY <2>2
    <2>4. QED
      BY <1>2, <2>3 DEF ElectFacts
  <1>5. Committed'
    <2>1. SUFFICES ASSUME NEW m \in Nodes PROVE CommittedAt(m)'
      BY DEF Committed
    <2>2. vote[m] <= vote'[m] /\ vote'[m] \in Nat /\ commit'[m] = commit[m]
      BY <1>2 DEF ElectFacts
    <2>3. CommittedAt(m)
      BY <1>1 DEF Committed
    <2>4. QED
      BY <1>1, <1>3, <1>4, <2>2, <2>3, CommittedKept
  <1>6. QED
    BY <1>2, <1>3, <1>4, <1>5 DEF EngineInv
-----------------------------------------------------------------------------
(* The engine: a leader appends, a replica stores the first membership     *)

\* Replica n appends entry e as a leader, or e is the membership and its first.
GrowFacts(n, e) ==
    /\ vote' = vote /\ known' = known
    /\ \/ known[n] = n /\ e.bal = vote[n]
       \/ Len(log[n]) = 0 /\ e = [bal |-> 0, req |-> "members"]
    /\ log' \in [Nodes -> Seq(Entries)]
    /\ Len(log'[n]) = Len(log[n]) + 1
    /\ log'[n][Len(log[n]) + 1] = e
    /\ \A m \in Nodes : m # n => log'[m] = log[m]
    /\ \A m \in Nodes : Len(log[m]) <= Len(log'[m]) /\ \A j \in 1..Len(log[m]) : log'[m][j] = log[m][j]
    /\ \A m \in Nodes : \A j \in 1..Len(log'[m]) :
         j \in 1..Len(log[m]) \/ (m = n /\ j = Len(log[n]) + 1)

\* What a leader's log ends with.
LEMMA LeaderEnds ==
    ASSUME EngineType, Leading, NEW n \in Nodes, known[n] = n
    PROVE  /\ Len(log[n]) \in 1..Len(log[n]) /\ log[n][Len(log[n])].bal = vote[n]
           /\ vote[n] \in Nat /\ vote[n] > 0
           /\ \A m \in Nodes : \A j \in 1..Len(log[m]) : log[m][j].bal = vote[n] => j <= Len(log[n])
  <1>1. Len(log[n]) \in Nat /\ vote[n] \in 0..MaxBallot /\ MaxBallot \in Nat
    BY RaftAssumption DEF EngineType
  <1>2. Len(log[n]) > 0 /\ Bal(log[n]) = vote[n] /\ vote[n] > 0
    BY DEF Leading
  <1>3. \A m \in Nodes : \A j \in 1..Len(log[m]) : log[m][j].bal = vote[n] => j <= Len(log[n])
    BY DEF Leading
  <1>4. Len(log[n]) \in 1..Len(log[n]) /\ vote[n] \in Nat
    BY <1>1, <1>2
  <1>5. log[n][Len(log[n])].bal = vote[n]
    BY <1>2 DEF Bal
  <1>6. QED
    BY <1>2, <1>3, <1>4, <1>5, Zenon

LEMMA GrowSorted ==
    ASSUME EngineType, Sorted, Leading, NEW n \in Nodes, NEW e, GrowFacts(n, e)
    PROVE  Sorted'
  <1>1. \A m \in Nodes : Len(log[m]) \in Nat /\ vote[m] \in Nat /\ \A j \in 1..Len(log[m]) : log[m][j].bal \in Nat
    BY EntryTypes, RaftAssumption, SMTT(30) DEF EngineType
  <1>2. SUFFICES ASSUME NEW m \in Nodes, NEW j \in 1..Len(log'[m])
                 PROVE  /\ log'[m][j].bal <= vote'[m]
                        /\ \A i \in 1..j : log'[m][i].bal <= log'[m][j].bal
    BY DEF Sorted
  <1>3. CASE j \in 1..Len(log[m])
    <2>1. log'[m][j] = log[m][j] /\ \A i \in 1..j : i \in 1..Len(log[m]) /\ log'[m][i] = log[m][i]
      BY <1>1, <1>3 DEF GrowFacts
    <2>2. log[m][j].bal <= vote[m] /\ \A i \in 1..j : log[m][i].bal <= log[m][j].bal
      BY <1>3 DEF Sorted
    <2>3. vote'[m] = vote[m]
      BY DEF GrowFacts
    <2>4. QED
      BY <1>1, <1>3, <2>1, <2>2, <2>3
  <1>4. CASE m = n /\ j = Len(log[n]) + 1
    <2>1. log'[m][j] = e /\ vote'[n] = vote[n]
      BY <1>4 DEF GrowFacts
    <2>2. \A i \in 1..j : i = j \/ i \in 1..Len(log[n])
      BY <1>1, <1>4
    <2>3. \A i \in 1..Len(log[n]) : log'[n][i] = log[n][i] /\ log[n][i].bal <= vote[n]
      BY DEF Sorted, GrowFacts
    <2>4. CASE known[n] = n /\ e.bal = vote[n]
      BY <1>1, <1>4, <2>1, <2>2, <2>3, <2>4
    <2>5. CASE Len(log[n]) = 0 /\ e = [bal |-> 0, req |-> "members"]
      <3>1. j = 1 /\ e.bal = 0 /\ \A i \in 1..j : i = j
        BY <1>4, <2>5
      <3>2. QED
        BY <1>1, <1>4, <2>1, <3>1
    <2>6. QED
      BY <2>4, <2>5 DEF GrowFacts
  <1>5. QED
    BY <1>3, <1>4 DEF GrowFacts

LEMMA GrowElected ==
    ASSUME EngineType, Elected, Leading, NEW n \in Nodes, NEW e, GrowFacts(n, e)
    PROVE  Elected'
  <1>1. SUFFICES ASSUME NEW m \in Nodes, NEW j \in 1..Len(log'[m]), NEW c, c = log'[m][j].bal
                 PROVE  \/ c = 0 /\ j = 1 /\ log'[m][j].req = "members"
                        \/ /\ c > 0 /\ vote'[Owner(c)] >= c
                           /\ \E R \in Quorums : \A q \in R : vote'[q] >= c
    BY DEF Elected
  <1>2. vote' = vote
    BY DEF GrowFacts
  <1>3. CASE j \in 1..Len(log[m])
    <2>1. log'[m][j] = log[m][j]
      BY <1>3 DEF GrowFacts
    <2>2. QED
      BY <1>1, <1>2, <1>3, <2>1 DEF Elected
  <1>4. CASE m = n /\ j = Len(log[n]) + 1
    <2>1. log'[m][j] = e
      BY <1>4 DEF GrowFacts
    <2>2. CASE known[n] = n /\ e.bal = vote[n]
      <3>1. Len(log[n]) \in 1..Len(log[n]) /\ log[n][Len(log[n])].bal = vote[n] /\ vote[n] \in Nat /\ vote[n] > 0
        BY <2>2, LeaderEnds
      <3>2. c = log[n][Len(log[n])].bal /\ c # 0
        BY <1>1, <2>1, <2>2, <3>1
      <3>3. c > 0 /\ vote[Owner(c)] >= c /\ \E R \in Quorums : \A q \in R : vote[q] >= c
        BY <3>1, <3>2 DEF Elected
      <3>4. QED
        BY <1>2, <3>3
    <2>3. CASE Len(log[n]) = 0 /\ e = [bal |-> 0, req |-> "members"]
      BY <1>1, <1>4, <2>1, <2>3
    <2>4. QED
      BY <2>2, <2>3 DEF GrowFacts
  <1>5. QED
    BY <1>3, <1>4 DEF GrowFacts

LEMMA GrowMatching ==
    ASSUME EngineType, Elected, Matching, Leading, NEW n \in Nodes, NEW e, GrowFacts(n, e)
    PROVE  Matching'
  <1>1. SUFFICES ASSUME NEW x \in Nodes, NEW y \in Nodes,
                        NEW i \in 1..Len(log'[x]), NEW j \in 1..Len(log'[y]), i <= j,
                        log'[x][i].bal = log'[y][j].bal, NEW k \in 1..i
                 PROVE  log'[x][k] = log'[y][k]
    BY DEF Matching
  <1>2. \A m \in Nodes : Len(log[m]) \in Nat
    BY DEF EngineType
  <1>3. \A m \in Nodes : \A h \in 1..Len(log'[m]) :
          \/ h \in 1..Len(log[m]) /\ log'[m][h] = log[m][h]
          \/ m = n /\ h = Len(log[n]) + 1 /\ log'[m][h] = e
    BY DEF GrowFacts
  <1>4. CASE known[n] = n /\ e.bal = vote[n]
    <2>1. /\ Len(log[n]) \in 1..Len(log[n]) /\ log[n][Len(log[n])].bal = vote[n]
          /\ \A m \in Nodes : \A h \in 1..Len(log[m]) : log[m][h].bal = vote[n] => h <= Len(log[n])
      BY <1>4, LeaderEnds
    <2>2. CASE i \in 1..Len(log[x]) /\ j \in 1..Len(log[y])
      <3>1. log[x][k] = log[y][k]
        <4>1. log[x][i].bal = log[y][j].bal
          BY <1>1, <2>2 DEF GrowFacts
        <4>2. QED
          BY <1>1, <2>2, <4>1 DEF Matching
      <3>2. k \in 1..Len(log[x]) /\ k \in 1..Len(log[y])
        BY <1>1, <1>2, <2>2
      <3>3. QED
        BY <3>1, <3>2 DEF GrowFacts
    <2>3. CASE i \in 1..Len(log[x]) /\ y = n /\ j = Len(log[n]) + 1
      <3>1. log[x][i].bal = vote[n] /\ i <= Len(log[n])
        BY <1>1, <1>4, <2>1, <2>3 DEF GrowFacts
      <3>2. log[x][k] = log[n][k]
        BY <2>1, <2>3, <3>1 DEF Matching
      <3>3. k \in 1..Len(log[x]) /\ k \in 1..Len(log[n])
        BY <1>1, <1>2, <2>3, <3>1
      <3>4. QED
        BY <2>3, <3>2, <3>3 DEF GrowFacts
    <2>4. CASE x = n /\ i = Len(log[n]) + 1
      <3>1. CASE y = n /\ j = Len(log[n]) + 1
        BY <2>4, <3>1
      <3>2. CASE j \in 1..Len(log[y])
        <4>1. log[y][j].bal = vote[n] /\ j <= Len(log[n])
          BY <1>1, <1>4, <2>1, <2>4, <3>2 DEF GrowFacts
        <4>2. QED
          BY <1>1, <1>2, <2>4, <4>1
      <3>3. QED
        BY <1>3, <3>1, <3>2
    <2>5. QED
      BY <1>3, <2>2, <2>3, <2>4
  <1>5. CASE Len(log[n]) = 0 /\ e = [bal |-> 0, req |-> "members"]
    <2>1. CASE log'[x][i].bal = 0
      <3>1. \A m \in Nodes : \A h \in 1..Len(log'[m]) :
              log'[m][h].bal = 0 => h = 1 /\ log'[m][h].req = "members"
        <4>1. SUFFICES ASSUME NEW m \in Nodes, NEW h \in 1..Len(log'[m]), log'[m][h].bal = 0
                       PROVE  h = 1 /\ log'[m][h].req = "members"
          OBVIOUS
        <4>2. CASE h \in 1..Len(log[m]) /\ log'[m][h] = log[m][h]
          <5>1. log[m][h].bal = 0
            BY <4>1, <4>2
          <5>2. QED
            BY <4>2, <5>1 DEF Elected
        <4>3. CASE h = Len(log[n]) + 1 /\ log'[m][h] = e
          BY <1>5, <4>3
        <4>4. QED
          BY <1>3, <4>2, <4>3
      <3>2. i = 1 /\ j = 1 /\ k = 1
        <4>1. i = 1
          BY <2>1, <3>1
        <4>2. log'[y][j].bal = 0
          BY <1>1, <2>1
        <4>3. j = 1
          BY <3>1, <4>2
        <4>4. QED
          BY <4>1, <4>3
      <3>3. log'[x][1] \in Entries /\ log'[y][1] \in Entries
        <4>1. log'[x] \in Seq(Entries) /\ log'[y] \in Seq(Entries)
          BY DEF GrowFacts
        <4>2. QED
          BY <4>1, <3>2
      <3>4. log'[x][1].bal = log'[y][1].bal /\ log'[x][1].req = log'[y][1].req
        BY <1>1, <2>1, <3>1, <3>2
      <3>5. QED
        BY <3>2, <3>3, <3>4 DEF Entries
    <2>2. CASE log'[x][i].bal # 0
      <3>1. i \in 1..Len(log[x]) /\ j \in 1..Len(log[y])
        BY <1>1, <1>3, <1>5, <2>2
      <3>2. log[x][k] = log[y][k]
        <4>1. log[x][i].bal = log[y][j].bal
          BY <1>1, <3>1 DEF GrowFacts
        <4>2. QED
          BY <1>1, <3>1, <4>1 DEF Matching
      <3>3. k \in 1..Len(log[x]) /\ k \in 1..Len(log[y])
        BY <1>1, <1>2, <3>1
      <3>4. QED
        BY <3>2, <3>3 DEF GrowFacts
    <2>3. QED
      BY <2>1, <2>2
  <1>6. QED
    BY <1>4, <1>5 DEF GrowFacts

LEMMA GrowLeading ==
    ASSUME EngineType, Leading, NEW n \in Nodes, NEW e, GrowFacts(n, e)
    PROVE  Leading'
  <1>1. SUFFICES ASSUME NEW x \in Nodes, known[x] = x
                 PROVE  /\ vote[x] > 0 /\ Owner(vote[x]) = x
                        /\ Len(log'[x]) > 0 /\ Bal(log'[x]) = vote[x]
                        /\ \E i \in 1..Len(log'[x]) : log'[x][i] = [bal |-> vote[x], req |-> "blank"]
                        /\ \A m \in Nodes : \A j \in 1..Len(log'[m]) : log'[m][j].bal = vote[x] => j <= Len(log'[x])
    BY DEF Leading, Bal, GrowFacts
  <1>2. \A m \in Nodes : Len(log[m]) \in Nat /\ Len(log'[m]) \in Nat
    BY DEF EngineType, GrowFacts
  <1>3. /\ Len(log[x]) \in 1..Len(log[x]) /\ log[x][Len(log[x])].bal = vote[x]
        /\ vote[x] \in Nat /\ vote[x] > 0
        /\ \A m \in Nodes : \A j \in 1..Len(log[m]) : log[m][j].bal = vote[x] => j <= Len(log[x])
    BY <1>1, LeaderEnds
  <1>4. Owner(vote[x]) = x
    BY <1>1 DEF Leading
  <1>5. PICK i \in 1..Len(log[x]) : log[x][i] = [bal |-> vote[x], req |-> "blank"]
    BY <1>1 DEF Leading
  <1>6. i \in 1..Len(log'[x]) /\ log'[x][i] = log[x][i] /\ Len(log[x]) <= Len(log'[x])
    BY <1>2 DEF GrowFacts
  <1>7. CASE x = n
    <2>1. e.bal = vote[n] /\ Len(log'[n]) = Len(log[n]) + 1 /\ log'[n][Len(log[n]) + 1] = e
      BY <1>2, <1>3, <1>7 DEF GrowFacts
    <2>2. \A m \in Nodes : \A j \in 1..Len(log'[m]) : log'[m][j].bal = vote[x] => j <= Len(log'[x])
      <3>1. SUFFICES ASSUME NEW m \in Nodes, NEW j \in 1..Len(log'[m]), log'[m][j].bal = vote[x]
                     PROVE  j <= Len(log'[x])
        OBVIOUS
      <3>2. CASE j \in 1..Len(log[m])
        <4>1. log[m][j].bal = vote[x]
          BY <3>1, <3>2 DEF GrowFacts
        <4>2. QED
          BY <1>2, <1>3, <1>6, <3>2, <4>1
      <3>3. CASE m = n /\ j = Len(log[n]) + 1
        BY <1>2, <1>7, <2>1, <3>3
      <3>4. QED
        BY <3>2, <3>3 DEF GrowFacts
    <2>3. QED
      BY <1>2, <1>3, <1>4, <1>5, <1>6, <1>7, <2>1, <2>2 DEF Bal
  <1>8. CASE x # n
    <2>1. log'[x] = log[x]
      BY <1>8 DEF GrowFacts
    <2>2. \A m \in Nodes : \A j \in 1..Len(log'[m]) : log'[m][j].bal = vote[x] => j <= Len(log'[x])
      <3>1. SUFFICES ASSUME NEW m \in Nodes, NEW j \in 1..Len(log'[m]), log'[m][j].bal = vote[x]
                     PROVE  j <= Len(log'[x])
        OBVIOUS
      <3>2. CASE j \in 1..Len(log[m])
        <4>1. log[m][j].bal = vote[x]
          BY <3>1, <3>2 DEF GrowFacts
        <4>2. QED
          BY <1>3, <2>1, <3>2, <4>1
      <3>3. CASE m = n /\ j = Len(log[n]) + 1
        <4>1. e.bal = vote[x]
          BY <3>1, <3>3 DEF GrowFacts
        <4>2. CASE known[n] = n /\ e.bal = vote[n]
          BY <1>4, <1>8, <4>1, <4>2 DEF Leading
        <4>3. CASE Len(log[n]) = 0 /\ e = [bal |-> 0, req |-> "members"]
          BY <1>3, <4>1, <4>3
        <4>4. QED
          BY <4>2, <4>3 DEF GrowFacts
      <3>4. QED
        BY <3>2, <3>3 DEF GrowFacts
    <2>3. QED
      BY <1>2, <1>3, <1>4, <1>5, <2>1, <2>2 DEF Bal
  <1>9. QED
    BY <1>7, <1>8

LEMMA GrowKeepsChosen ==
    ASSUME EngineType, Leading, NEW n \in Nodes, NEW e, GrowFacts(n, e),
           \A m \in Nodes : commit[m] <= commit'[m] /\ commit[m] \in Nat /\ commit'[m] \in Nat
    PROVE  ChosenKept
  <1>1. SUFFICES ASSUME NEW p \in Seq(Entries), Chosen(p) PROVE Chosen(p)'
    BY DEF ChosenKept
  <1>2. Len(p) \in Nat /\ Len(p) > 0 /\ Bal(p) \in Nat
    BY <1>1, ChosenTypes
  <1>3. \A m \in Nodes : Len(log[m]) \in Nat /\ Len(log'[m]) \in Nat
    BY DEF EngineType, GrowFacts
  <1>4. ASSUME NEW m \in Nodes, Prefix(p, log[m]) PROVE Prefix(p, log'[m])
    <2>1. Len(p) <= Len(log[m]) /\ \A i \in 1..Len(p) : p[i] = log[m][i] /\ i \in 1..Len(log[m])
      BY <1>2, <1>3, <1>4 DEF Prefix
    <2>2. Len(log[m]) <= Len(log'[m]) /\ \A j \in 1..Len(log[m]) : log'[m][j] = log[m][j]
      BY DEF GrowFacts
    <2>3. QED
      BY <1>2, <1>3, <2>1, <2>2 DEF Prefix
  <1>5. vote' = vote /\ known' = known
    BY DEF GrowFacts
  <1>6. \E R \in Quorums : \A q \in R : vote'[q] >= Bal(p) /\ Prefix(p, log'[q])
    <2>1. PICK R \in Quorums : \A q \in R : vote[q] >= Bal(p) /\ Prefix(p, log[q])
      BY <1>1 DEF Chosen
    <2>2. R \subseteq Nodes
      BY DEF Quorums
    <2>3. QED
      BY <1>4, <1>5, <2>1, <2>2
  <1>7. \A m \in Nodes : (\E j \in 1..Len(log'[m]) : log'[m][j].bal > Bal(p)) => Prefix(p, log'[m])
    <2>1. SUFFICES ASSUME NEW m \in Nodes, NEW j \in 1..Len(log'[m]), log'[m][j].bal > Bal(p)
                   PROVE  Prefix(p, log'[m])
      OBVIOUS
    <2>2. CASE j \in 1..Len(log[m])
      <3>1. log[m][j].bal > Bal(p)
        BY <2>1, <2>2 DEF GrowFacts
      <3>2. Prefix(p, log[m])
        BY <1>1, <2>2, <3>1 DEF Chosen
      <3>3. QED
        BY <1>4, <3>2
    <2>3. CASE m = n /\ j = Len(log[n]) + 1
      <3>1. log'[m][j] = e
        BY <2>3 DEF GrowFacts
      <3>2. CASE known[n] = n /\ e.bal = vote[n]
        <4>1. Len(log[n]) \in 1..Len(log[n]) /\ log[n][Len(log[n])].bal = vote[n]
          BY <3>2, LeaderEnds
        <4>2. Prefix(p, log[n])
          BY <1>1, <2>1, <3>1, <3>2, <4>1 DEF Chosen
        <4>3. QED
          BY <1>4, <2>3, <4>2
      <3>3. CASE Len(log[n]) = 0 /\ e = [bal |-> 0, req |-> "members"]
        BY <1>2, <2>1, <3>1, <3>3
      <3>4. QED
        BY <3>2, <3>3 DEF GrowFacts
    <2>4. QED
      BY <2>2, <2>3 DEF GrowFacts
  <1>8. \A m \in Nodes : known'[m] = m /\ vote'[m] = Bal(p) => Len(p) <= commit'[m]
    <2>1. SUFFICES ASSUME NEW m \in Nodes, known[m] = m, vote[m] = Bal(p) PROVE Len(p) <= commit'[m]
      BY <1>5
    <2>2. Len(p) <= commit[m]
      BY <1>1, <2>1 DEF Chosen
    <2>3. QED
      BY <1>2, <2>2
  <1>9. QED
    BY <1>1, <1>2, <1>6, <1>7, <1>8 DEF Chosen, Bal
-----------------------------------------------------------------------------
(* The engine: what a leader commits                                       *)

\* The largest index a quorum acknowledged, if it is larger than before.
LEMMA CommitIs ==
    ASSUME NEW n \in Nodes, NEW logs, NEW votes, NEW k, k = CommitOf(n, logs, votes),
           Len(logs[n]) \in Nat, commit[n] \in Nat
    PROVE  /\ k \in Nat /\ commit[n] <= k
           /\ \/ k = commit[n]
              \/ /\ k \in 1..Len(logs[n]) /\ logs[n][k].bal = vote[n]
                 /\ \E Q \in Quorums : \A m \in Q : votes[m] = votes[n] /\ Common(logs[m], logs[n]) >= k
  <1> DEFINE Acked(h) == \E Q \in Quorums : \A m \in Q : votes[m] = votes[n] /\ Common(logs[m], logs[n]) >= h
             held == {h \in 1..Len(logs[n]) : logs[n][h].bal = vote[n] /\ Acked(h)}
  <1>1. CASE held = {}
    <2>1. k = commit[n]
      BY <1>1 DEF CommitOf
    <2>2. QED
      BY <2>1
  <1>2. CASE held # {}
    <2>1. held \subseteq Nat /\ \A i \in held : i <= Len(logs[n])
      OBVIOUS
    <2>2. \E i \in held : \A j \in held : j <= i
      <3> HIDE DEF held
      <3>1. QED
        BY <1>2, <2>1, Greatest
    <2> DEFINE g == CHOOSE h \in held : \A j \in held : j <= h
    <2>3. g \in held
      BY <2>2
    <2>4. k = IF g > commit[n] THEN g ELSE commit[n]
      BY <1>2 DEF CommitOf
    <2> HIDE DEF g
    <2>5. g \in 1..Len(logs[n]) /\ logs[n][g].bal = vote[n] /\ Acked(g)
      BY <2>3
    <2> HIDE DEF Acked, held
    <2>6. CASE g > commit[n]
      <3>1. k = g /\ g \in Nat
        BY <2>4, <2>5, <2>6
      <3>2. QED
        BY <2>5, <2>6, <3>1 DEF Acked
    <2>7. CASE ~(g > commit[n])
      BY <2>4, <2>7
    <2>8. QED
      BY <2>6, <2>7
  <1>3. QED
    BY <1>1, <1>2

\* What a quorum has of a leader's own ballot is chosen.
LEMMA QuorumChooses ==
    ASSUME EngineType', Elected', Leading', NEW l \in Nodes, known'[l] = l,
           NEW k \in 1..Len(log'[l]), log'[l][k].bal = vote'[l], k <= commit'[l],
           NEW Q \in Quorums, \A m \in Q : vote'[m] = vote'[l] /\ Common(log'[m], log'[l]) >= k
    PROVE  CommittedAt(l)' \/ commit'[l] # k
  <1>1. SUFFICES ASSUME commit'[l] = k PROVE CommittedAt(l)'
    OBVIOUS
  <1>2. log'[l] \in Seq(Entries) /\ Len(log'[l]) \in Nat /\ k \in Nat /\ k > 0 /\ k <= Len(log'[l])
    BY DEF EngineType
  <1>3. PICK p \in Seq(Entries) : Len(p) = k /\ \A i \in 1..k : p[i] = log'[l][i]
    <2>1. /\ SubSeq(log'[l], 1, k) \in Seq(Entries) /\ Len(SubSeq(log'[l], 1, k)) = k
          /\ \A i \in 1..k : SubSeq(log'[l], 1, k)[i] = log'[l][i]
      BY <1>2
    <2>2. QED
      BY <2>1
  <1>4. vote'[l] \in Nat
    BY RaftAssumption DEF EngineType
  <1>5. Bal(p) = vote'[l]
    BY <1>2, <1>3 DEF Bal
  <1>6. \A m \in Q : vote'[m] >= Bal(p) /\ Prefix(p, log'[m])
    <2>1. SUFFICES ASSUME NEW m \in Q PROVE vote'[m] >= Bal(p) /\ Prefix(p, log'[m])
      OBVIOUS
    <2>2. m \in Nodes
      BY DEF Quorums
    <2>3. log'[m] \in Seq(Entries) /\ Len(log'[m]) \in Nat
      BY <2>2 DEF EngineType
    <2>4. /\ Common(log'[m], log'[l]) \in Nat /\ Common(log'[m], log'[l]) <= Len(log'[m])
          /\ \A i \in 1..Common(log'[m], log'[l]) : log'[m][i] = log'[l][i]
      BY <1>2, <2>3, CommonIs
    <2>5. k <= Common(log'[m], log'[l]) /\ vote'[m] = vote'[l]
      BY <1>2, <2>4
    <2>6. \A i \in 1..k : i \in 1..Common(log'[m], log'[l])
      BY <1>2, <2>4, <2>5
    <2>7. k <= Len(log'[m])
      BY <1>2, <2>3, <2>4, <2>5
    <2>8. QED
      BY <1>3, <1>4, <1>5, <2>4, <2>5, <2>6, <2>7 DEF Prefix
  <1>7. \A m \in Nodes : ~\E j \in 1..Len(log'[m]) : log'[m][j].bal > Bal(p)
    <2>1. SUFFICES ASSUME NEW m \in Nodes, NEW j \in 1..Len(log'[m]), log'[m][j].bal > vote'[l] PROVE FALSE
      BY <1>5
    <2>2. log'[m][j].bal \in Nat
      <3>1. log'[m] \in Seq(Entries) /\ MaxBallot \in Nat
        BY RaftAssumption DEF EngineType
      <3>2. log'[m][j] \in Entries
        BY <3>1
      <3>3. QED
        BY <3>1, <3>2 DEF Entries
    <2>3. log'[m][j].bal # 0
      BY <1>4, <2>1, <2>2
    <2>4. PICK R \in Quorums : \A q \in R : vote'[q] >= log'[m][j].bal
      BY <2>3 DEF Elected
    <2>5. PICK q \in Nodes : q \in Q /\ q \in R
      BY QuorumsMeet
    <2>6. vote'[q] = vote'[l] /\ vote'[q] >= log'[m][j].bal
      BY <2>4, <2>5
    <2>7. QED
      BY <1>4, <2>1, <2>2, <2>6
  <1>8. \A m \in Nodes : known'[m] = m /\ vote'[m] = Bal(p) => Len(p) <= commit'[m]
    <2>1. SUFFICES ASSUME NEW m \in Nodes, known'[m] = m, vote'[m] = vote'[l] PROVE k <= commit'[m]
      BY <1>3, <1>5
    <2>2. Owner(vote'[m]) = m /\ Owner(vote'[l]) = l
      BY <2>1 DEF Leading
    <2>3. QED
      BY <2>1, <2>2
  <1>9. Chosen(p)'
    BY <1>2, <1>3, <1>6, <1>7, <1>8 DEF Chosen, Bal
  <1>10. Bal(p) <= vote'[l] /\ commit'[l] <= Len(p) /\ \A i \in 1..commit'[l] : p[i] = log'[l][i]
    BY <1>1, <1>2, <1>3, <1>4, <1>5
  <1>11. QED
    BY <1>3, <1>9, <1>10 DEF CommittedAt, Bal

\* A leader appends an entry and commits what a quorum of its own already has.
LEMMA WriteStep ==
    ASSUME EngineInv, NEW n \in Nodes, NEW r \in Requests, known[n] = n,
           ClientWrite(n, r), vote' = vote, known' = known
    PROVE  /\ EngineInv' /\ ChosenKept
           /\ \A m \in Nodes : commit[m] <= commit'[m] /\ \A i \in 1..commit[m] : log'[m][i] = log[m][i]
           /\ GrowFacts(n, [bal |-> vote[n], req |-> r])
  <1> DEFINE e == [bal |-> vote[n], req |-> r]
  <1>1. EngineType /\ Sorted /\ Elected /\ Matching /\ Leading /\ Committed
    BY DEF EngineInv
  <1>2. e \in Entries /\ log' = [log EXCEPT ![n] = AppendLog(@, <<e>>)]
    BY <1>1 DEF EngineType, Entries, ClientWrite
  <1>3. e.bal = vote[n]
    OBVIOUS
  <1> HIDE DEF e
  <1>4. GrowFacts(n, e)
    BY <1>1, <1>2, <1>3, Grown DEF GrowFacts
  <1>5. Sorted' /\ Elected' /\ Matching' /\ Leading'
    BY <1>1, <1>4, GrowSorted, GrowElected, GrowMatching, GrowLeading
  <1> DEFINE k == CommitOf(n, log', vote)
  <1>6. \A m \in Nodes : Len(log[m]) \in Nat /\ Len(log'[m]) \in Nat /\ commit[m] \in Nat /\ commit[m] <= Len(log[m])
    BY <1>1, <1>4 DEF EngineType, GrowFacts
  <1>7. /\ k \in Nat /\ commit[n] <= k
        /\ \/ k = commit[n]
           \/ /\ k \in 1..Len(log'[n]) /\ log'[n][k].bal = vote[n]
              /\ \E Q \in Quorums : \A m \in Q : vote[m] = vote[n] /\ Common(log'[m], log'[n]) >= k
    BY <1>6, CommitIs
  <1>8. commit' = [commit EXCEPT ![n] = k]
    BY DEF ClientWrite
  <1> HIDE DEF k
  <1>9. commit' \in [Nodes -> Nat] /\ commit'[n] = k /\ \A m \in Nodes : m # n => commit'[m] = commit[m]
    BY <1>1, <1>7, <1>8 DEF EngineType
  <1>10. \A m \in Nodes : commit[m] <= commit'[m] /\ commit'[m] \in Nat
    BY <1>6, <1>7, <1>9
  <1>11. \A m \in Nodes : Len(log[m]) <= Len(log'[m])
    BY <1>4 DEF GrowFacts
  <1>12. \A m \in Nodes : commit'[m] <= Len(log'[m])
    BY <1>6, <1>7, <1>9, <1>11
  <1>13. EngineType'
    BY <1>1, <1>4, <1>9, <1>12 DEF EngineType, GrowFacts
  <1>14. ChosenKept
    BY <1>1, <1>4, <1>6, <1>10, GrowKeepsChosen
  <1>15. \A m \in Nodes : \A i \in 1..commit[m] : log'[m][i] = log[m][i]
    <2>1. \A m \in Nodes : \A i \in 1..commit[m] : i \in 1..Len(log[m])
      BY <1>6
    <2>2. QED
      BY <1>4, <2>1 DEF GrowFacts
  <1>16. Committed'
    <2>1. SUFFICES ASSUME NEW m \in Nodes PROVE CommittedAt(m)'
      BY DEF Committed
    <2>2. CommittedAt(m) /\ vote[m] <= vote'[m] /\ vote'[m] \in Nat
      BY <1>1, RaftAssumption DEF Committed, EngineType
    <2>3. CASE commit'[m] = commit[m]
      BY <1>1, <1>14, <1>15, <2>2, <2>3, CommittedKept
    <2>4. CASE commit'[m] # commit[m]
      <3>1. m = n /\ k \in 1..Len(log'[n]) /\ log'[n][k].bal = vote'[n] /\ k <= commit'[n] /\ known'[n] = n
        BY <1>6, <1>7, <1>9, <2>4
      <3>2. PICK Q \in Quorums : \A q \in Q : vote'[q] = vote'[n] /\ Common(log'[q], log'[n]) >= k
        BY <1>7, <1>9, <2>4, <3>1
      <3>3. CommittedAt(n)' \/ commit'[n] # k
        BY <1>5, <1>13, <3>1, <3>2, QuorumChooses
      <3>4. QED
        BY <1>9, <3>1, <3>3
    <2>5. QED
      BY <2>3, <2>4
  <1>17. QED
    BY <1>4, <1>5, <1>10, <1>13, <1>14, <1>15, <1>16 DEF EngineInv, e

\* What is not touched stays as it is.
LEMMA EngineUnchanged ==
    ASSUME EngineInv, UNCHANGED <<vote, known, log, commit>>
    PROVE  EngineInv' /\ ChosenKept
  <1>1. EngineType'
    BY DEF EngineInv, EngineType
  <1>2. Sorted'
    BY DEF EngineInv, Sorted
  <1>3. Elected'
    BY DEF EngineInv, Elected
  <1>4. Matching'
    BY DEF EngineInv, Matching
  <1>5. Leading'
    BY DEF EngineInv, Leading, Bal
  <1>6. ChosenKept
    BY DEF ChosenKept, Chosen, Bal, Prefix
  <1>7. Committed'
    <2>1. SUFFICES ASSUME NEW n \in Nodes PROVE CommittedAt(n)'
      BY DEF Committed
    <2>2. EngineType /\ CommittedAt(n)
      BY DEF EngineInv, Committed
    <2>3. vote[n] <= vote'[n] /\ vote'[n] \in Nat
      BY <2>2, RaftAssumption DEF EngineType
    <2>4. QED
      BY <1>6, <2>2, <2>3, CommittedKept
  <1>8. QED
    BY <1>1, <1>2, <1>3, <1>4, <1>5, <1>6, <1>7 DEF EngineInv

\* The membership as the first entry.
LEMMA InitializeStep ==
    ASSUME EngineInv, NEW n \in Nodes, Initialize(n)
    PROVE  /\ EngineInv' /\ ChosenKept
           /\ \A m \in Nodes : \A i \in 1..commit[m] : log'[m][i] = log[m][i]
           /\ \A m \in Nodes : \A j \in 1..Len(log'[m]) :
                (j \in 1..Len(log[m]) /\ log'[m][j] = log[m][j]) \/ log'[m][j].req = "members"
  <1> DEFINE e == [bal |-> 0, req |-> "members"]
  <1>1. EngineType /\ Sorted /\ Elected /\ Matching /\ Leading /\ Committed
    BY DEF EngineInv
  <1>2. vote' = vote /\ known' = known /\ commit' = commit
    BY DEF Initialize
  <1>3. CASE Pristine(n)
    <2>1. e \in Entries /\ log' = [log EXCEPT ![n] = AppendLog(@, <<e>>)]
      BY <1>3, RaftAssumption DEF Entries, Initialize
    <2>2. Len(log[n]) = 0
      BY <1>3 DEF Pristine, FreshLog
    <2>3. e.req = "members"
      OBVIOUS
    <2>4. GrowFacts(n, e)
      BY <1>1, <1>2, <2>1, <2>2, Grown DEF GrowFacts
    <2> HIDE DEF e
    <2>5. Sorted' /\ Elected' /\ Matching' /\ Leading'
      BY <1>1, <2>4, GrowSorted, GrowElected, GrowMatching, GrowLeading
    <2>6. \A m \in Nodes : /\ Len(log[m]) \in Nat /\ Len(log'[m]) \in Nat /\ commit[m] \in Nat
                           /\ commit[m] <= Len(log[m]) /\ Len(log[m]) <= Len(log'[m])
      BY <1>1, <2>4 DEF EngineType, GrowFacts
    <2>7. ChosenKept
      BY <1>1, <1>2, <2>4, <2>6, GrowKeepsChosen
    <2>8. \A m \in Nodes : commit'[m] <= Len(log'[m])
      BY <1>2, <2>6
    <2>9. EngineType'
      BY <1>1, <1>2, <2>4, <2>8 DEF EngineType, GrowFacts
    <2>10. \A m \in Nodes : \A i \in 1..commit[m] : log'[m][i] = log[m][i]
      <3>1. \A m \in Nodes : \A i \in 1..commit[m] : i \in 1..Len(log[m])
        BY <2>6
      <3>2. QED
        BY <2>4, <3>1 DEF GrowFacts
    <2>11. Committed'
      <3>1. SUFFICES ASSUME NEW m \in Nodes PROVE CommittedAt(m)'
        BY DEF Committed
      <3>2. CommittedAt(m) /\ vote[m] <= vote'[m] /\ vote'[m] \in Nat /\ commit'[m] = commit[m]
        BY <1>1, <1>2, RaftAssumption DEF Committed, EngineType
      <3>3. QED
        BY <1>1, <2>7, <2>10, <3>2, CommittedKept
    <2>12. \A m \in Nodes : \A j \in 1..Len(log'[m]) :
             (j \in 1..Len(log[m]) /\ log'[m][j] = log[m][j]) \/ log'[m][j].req = "members"
      BY <2>3, <2>4 DEF GrowFacts
    <2>13. QED
      BY <2>5, <2>7, <2>9, <2>10, <2>11, <2>12 DEF EngineInv
  <1>4. CASE ~Pristine(n)
    <2>1. log' = log
      BY <1>1, <1>4 DEF Initialize, EngineType
    <2>2. EngineInv' /\ ChosenKept
      BY <1>2, <2>1, EngineUnchanged
    <2>3. QED
      BY <2>1, <2>2
  <1>5. QED
    BY <1>3, <1>4
-----------------------------------------------------------------------------
(* The engine: a log message                                               *)

\* Replica f takes the first c entries of leader l's log, at least what the two
\* logs have in common.
CopyFacts(l, f, c) ==
    /\ l # f /\ known[l] = l /\ vote[f] <= vote[l]
    /\ vote' = [vote EXCEPT ![f] = vote[l]] /\ known' = [known EXCEPT ![f] = l]
    /\ c \in Nat /\ c <= Len(log[l]) /\ Common(log[f], log[l]) <= c
    /\ log' \in [Nodes -> Seq(Entries)]
    /\ \A m \in Nodes : m # f => log'[m] = log[m] /\ vote'[m] = vote[m] /\ known'[m] = known[m]
    /\ Len(log'[f]) = c /\ \A i \in 1..c : log'[f][i] = log[l][i]
    /\ vote'[f] = vote[l] /\ known'[f] = l
    /\ \A m \in Nodes : vote[m] \in Nat /\ vote'[m] \in Nat /\ vote[m] <= vote'[m]
    /\ \A m \in Nodes : Len(log[m]) \in Nat /\ commit[m] \in Nat /\ commit[m] <= Len(log[m])
    /\ commit' = [commit EXCEPT ![l] = CommitOf(l, log', vote'),
                                ![f] = LET follower == IF commit[l] < Len(log'[f]) THEN commit[l] ELSE Len(log'[f])
                                       IN IF follower > @ THEN follower ELSE @]

\* Every entry is one of the old state, at the same place.
LEMMA CopiedEntries ==
    ASSUME NEW l \in Nodes, NEW f \in Nodes, NEW c, CopyFacts(l, f, c), NEW m \in Nodes
    PROVE  \E s \in Nodes : /\ (s = m \/ (m = f /\ s = l)) /\ Len(log'[m]) <= Len(log[s])
                            /\ \A j \in 1..Len(log'[m]) : j \in 1..Len(log[s]) /\ log'[m][j] = log[s][j]
  <1>1. CASE m = f
    <2>1. c \in Nat /\ c <= Len(log[l]) /\ Len(log[l]) \in Nat /\ Len(log'[f]) = c
      BY DEF CopyFacts
    <2>2. \A j \in 1..c : j \in 1..Len(log[l]) /\ log'[f][j] = log[l][j]
      BY <2>1 DEF CopyFacts
    <2>3. QED
      BY <1>1, <2>1, <2>2
  <1>2. CASE m # f
    <2>1. log'[m] = log[m] /\ Len(log[m]) \in Nat
      BY <1>2 DEF CopyFacts
    <2>2. QED
      BY <2>1
  <1>3. QED
    BY <1>1, <1>2

LEMMA CopySorted ==
    ASSUME EngineType, Sorted, NEW l \in Nodes, NEW f \in Nodes, NEW c, CopyFacts(l, f, c)
    PROVE  Sorted'
  <1>1. SUFFICES ASSUME NEW m \in Nodes, NEW j \in 1..Len(log'[m])
                 PROVE  /\ log'[m][j].bal <= vote'[m]
                        /\ \A i \in 1..j : log'[m][i].bal <= log'[m][j].bal
    BY DEF Sorted
  <1>2. PICK s \in Nodes : /\ (s = m \/ (m = f /\ s = l)) /\ Len(log'[m]) <= Len(log[s])
                           /\ \A h \in 1..Len(log'[m]) : h \in 1..Len(log[s]) /\ log'[m][h] = log[s][h]
    BY CopiedEntries
  <1>3. \A m1 \in Nodes : \A h \in 1..Len(log[m1]) : log[m1][h].bal \in Nat
    BY EntryTypes
  <1>4. vote[s] <= vote'[m] /\ vote[s] \in Nat /\ vote'[m] \in Nat
    BY <1>2 DEF CopyFacts
  <1>5. log'[m] \in Seq(Entries)
    BY DEF CopyFacts
  <1>6. \A i \in 1..j : i \in 1..Len(log'[m])
    BY <1>5
  <1>7. log[s][j].bal <= vote[s] /\ \A i \in 1..j : log[s][i].bal <= log[s][j].bal
    BY <1>2 DEF Sorted
  <1>8. log'[m][j] = log[s][j] /\ j \in 1..Len(log[s]) /\ \A i \in 1..j : log'[m][i] = log[s][i]
    BY <1>2, <1>6
  <1>9. log[s][j].bal \in Nat
    BY <1>3, <1>8
  <1>10. QED
    BY <1>4, <1>7, <1>8, <1>9

LEMMA CopyElected ==
    ASSUME EngineType, Elected, NEW l \in Nodes, NEW f \in Nodes, NEW c, CopyFacts(l, f, c)
    PROVE  Elected'
  <1>1. SUFFICES ASSUME NEW m \in Nodes, NEW j \in 1..Len(log'[m]), NEW b, b = log'[m][j].bal
                 PROVE  \/ b = 0 /\ j = 1 /\ log'[m][j].req = "members"
                        \/ /\ b > 0 /\ vote'[Owner(b)] >= b
                           /\ \E R \in Quorums : \A q \in R : vote'[q] >= b
    BY DEF Elected
  <1>2. PICK s \in Nodes : \A h \in 1..Len(log'[m]) : h \in 1..Len(log[s]) /\ log'[m][h] = log[s][h]
    BY CopiedEntries
  <1>3. j \in 1..Len(log[s]) /\ log'[m][j] = log[s][j] /\ b \in Nat
    BY <1>1, <1>2, EntryTypes
  <1>4. CASE b = 0 /\ j = 1 /\ log[s][j].req = "members"
    BY <1>3, <1>4
  <1>5. CASE b > 0 /\ vote[Owner(b)] >= b /\ \E R \in Quorums : \A q \in R : vote[q] >= b
    <2>1. Owner(b) \in Nodes
      <3>1. Nodes = 1..Cardinality(Nodes) /\ Cardinality(Nodes) \in Nat /\ Cardinality(Nodes) > 0
        BY RaftAssumption, FS_CardinalityType
      <3>2. QED
        BY <3>1, <1>3, <1>5 DEF Owner
    <2>2. \A q \in Nodes : vote[q] <= vote'[q] /\ vote[q] \in Nat /\ vote'[q] \in Nat
      BY DEF CopyFacts
    <2>3. vote'[Owner(b)] >= b
      BY <1>3, <1>5, <2>1, <2>2
    <2>4. PICK R \in Quorums : \A q \in R : vote[q] >= b
      BY <1>5
    <2>5. \A q \in R : vote'[q] >= b
      BY <1>3, <2>2, <2>4 DEF Quorums
    <2>6. QED
      BY <1>5, <2>3, <2>5
  <1>6. QED
    BY <1>1, <1>3, <1>4, <1>5 DEF Elected

LEMMA CopyMatching ==
    ASSUME EngineType, Matching, NEW l \in Nodes, NEW f \in Nodes, NEW c, CopyFacts(l, f, c)
    PROVE  Matching'
  <1>1. SUFFICES ASSUME NEW x \in Nodes, NEW y \in Nodes,
                        NEW i \in 1..Len(log'[x]), NEW j \in 1..Len(log'[y]), i <= j,
                        log'[x][i].bal = log'[y][j].bal, NEW k \in 1..i
                 PROVE  log'[x][k] = log'[y][k]
    BY DEF Matching
  <1>2. PICK s \in Nodes : \A h \in 1..Len(log'[x]) : h \in 1..Len(log[s]) /\ log'[x][h] = log[s][h]
    BY CopiedEntries
  <1>3. PICK t \in Nodes : \A h \in 1..Len(log'[y]) : h \in 1..Len(log[t]) /\ log'[y][h] = log[t][h]
    <2>1. \E t \in Nodes : /\ (t = y \/ (y = f /\ t = l)) /\ Len(log'[y]) <= Len(log[t])
                           /\ \A h \in 1..Len(log'[y]) : h \in 1..Len(log[t]) /\ log'[y][h] = log[t][h]
      BY CopiedEntries
    <2>2. QED
      BY <2>1
  <1>4. log'[x] \in Seq(Entries) /\ log'[y] \in Seq(Entries)
    BY DEF CopyFacts
  <1>5. k \in 1..Len(log'[x]) /\ k \in 1..Len(log'[y])
    BY <1>1, <1>4
  <1>6. log[s][i].bal = log[t][j].bal /\ i \in 1..Len(log[s]) /\ j \in 1..Len(log[t])
    BY <1>1, <1>2, <1>3
  <1>7. log[s][k] = log[t][k]
    BY <1>1, <1>6 DEF Matching
  <1>8. QED
    BY <1>2, <1>3, <1>5, <1>7

LEMMA CopyLeading ==
    ASSUME EngineType, Leading, NEW l \in Nodes, NEW f \in Nodes, NEW c, CopyFacts(l, f, c)
    PROVE  Leading'
  <1>1. SUFFICES ASSUME NEW x \in Nodes, known'[x] = x
                 PROVE  /\ vote'[x] > 0 /\ Owner(vote'[x]) = x
                        /\ Len(log'[x]) > 0 /\ Bal(log'[x]) = vote'[x]
                        /\ \E i \in 1..Len(log'[x]) : log'[x][i] = [bal |-> vote'[x], req |-> "blank"]
                        /\ \A m \in Nodes : \A j \in 1..Len(log'[m]) : log'[m][j].bal = vote'[x] => j <= Len(log'[x])
    BY DEF Leading, Bal
  <1>2. x # f /\ known[x] = x /\ vote'[x] = vote[x] /\ log'[x] = log[x]
    BY <1>1 DEF CopyFacts
  <1>3. vote[x] > 0 /\ Owner(vote[x]) = x /\ Len(log[x]) > 0 /\ Bal(log[x]) = vote[x]
    BY <1>2 DEF Leading
  <1>4. \E i \in 1..Len(log[x]) : log[x][i] = [bal |-> vote[x], req |-> "blank"]
    BY <1>2 DEF Leading
  <1>5. \A m \in Nodes : \A j \in 1..Len(log[m]) : log[m][j].bal = vote[x] => j <= Len(log[x])
    BY <1>2 DEF Leading
  <1>6. ASSUME NEW m \in Nodes, NEW j \in 1..Len(log'[m]), log'[m][j].bal = vote[x]
        PROVE  j <= Len(log[x])
    <2>1. PICK s \in Nodes : \A h \in 1..Len(log'[m]) : h \in 1..Len(log[s]) /\ log'[m][h] = log[s][h]
      BY CopiedEntries
    <2>2. QED
      BY <1>5, <1>6, <2>1
  <1>7. QED
    BY <1>2, <1>3, <1>4, <1>6

\* What f holds of a chosen log it keeps.
LEMMA CopyKeeps ==
    ASSUME EngineType, Matching, Leading, NEW l \in Nodes, NEW f \in Nodes, NEW c, CopyFacts(l, f, c),
           NEW p, Chosen(p), Bal(p) <= vote[l],
           NEW d \in Nat, d <= Len(p), d <= Len(log[f]), \A i \in 1..d : p[i] = log[f][i]
    PROVE  d <= c /\ \A i \in 1..d : log'[f][i] = log[f][i]
  <1>1. Len(p) \in Nat /\ Bal(p) \in Nat /\ vote[l] \in Nat
    BY ChosenTypes DEF CopyFacts
  <1>2. Prefix(p, log[l])
    BY <1>1, LeaderHas DEF CopyFacts
  <1>3. log[l] \in Seq(Entries) /\ log[f] \in Seq(Entries) /\ Len(log[l]) \in Nat /\ Len(log[f]) \in Nat
    BY DEF EngineType
  <1>4. d <= Len(log[l]) /\ \A i \in 1..d : log[f][i] = log[l][i]
    BY <1>1, <1>2, <1>3 DEF Prefix
  <1>5. d <= Common(log[f], log[l]) /\ Common(log[f], log[l]) \in Nat
    <2>1. Common(log[f], log[l]) \in Nat
      BY <1>3, CommonIs
    <2>2. \A h \in Nat : h <= Len(log[f]) /\ h <= Len(log[l]) /\ (\A i \in 1..h : log[f][i] = log[l][i])
                        => h <= Common(log[f], log[l])
      BY <1>3, CommonIs
    <2>3. QED
      BY <1>4, <2>1, <2>2
  <1>6. d <= c /\ c \in Nat
    BY <1>5 DEF CopyFacts
  <1>7. \A i \in 1..d : i \in 1..c
    BY <1>6
  <1>8. QED
    BY <1>4, <1>6, <1>7 DEF CopyFacts

\* Commit indices only grow.
LEMMA CopyCommits ==
    ASSUME EngineType, NEW l \in Nodes, NEW f \in Nodes, NEW c, CopyFacts(l, f, c)
    PROVE  /\ commit' \in [Nodes -> Nat]
           /\ \A m \in Nodes : m # l /\ m # f => commit'[m] = commit[m]
           /\ commit[l] <= commit'[l]
           /\ \/ commit'[l] = commit[l]
              \/ /\ commit'[l] \in 1..Len(log'[l]) /\ log'[l][commit'[l]].bal = vote'[l]
                 /\ \E Q \in Quorums : \A m \in Q :
                      vote'[m] = vote'[l] /\ Common(log'[m], log'[l]) >= commit'[l]
           /\ commit[f] <= commit'[f]
           /\ commit'[f] = commit[f] \/ (commit'[f] <= commit[l] /\ commit'[f] <= c)
           /\ (commit[l] <= c => commit[l] <= commit'[f]) /\ (c <= commit[l] => c <= commit'[f])
  <1> DEFINE k == CommitOf(l, log', vote')
             follower == IF commit[l] < Len(log'[f]) THEN commit[l] ELSE Len(log'[f])
             g == IF follower > commit[f] THEN follower ELSE commit[f]
  <1>1. /\ commit[l] \in Nat /\ commit[f] \in Nat /\ Len(log'[f]) = c /\ c \in Nat /\ l # f
        /\ log'[l] = log[l] /\ Len(log[l]) \in Nat /\ vote'[l] = vote[l]
    BY DEF CopyFacts
  <1>2. /\ k \in Nat /\ commit[l] <= k
        /\ \/ k = commit[l]
           \/ /\ k \in 1..Len(log'[l]) /\ log'[l][k].bal = vote[l]
              /\ \E Q \in Quorums : \A m \in Q : vote'[m] = vote'[l] /\ Common(log'[m], log'[l]) >= k
    BY <1>1, CommitIs
  <1>3. g \in Nat /\ commit[f] <= g /\ (g = commit[f] \/ (g <= commit[l] /\ g <= c))
        /\ (commit[l] <= c => commit[l] <= g) /\ (c <= commit[l] => c <= g)
    BY <1>1
  <1>4. commit' = [commit EXCEPT ![l] = k, ![f] = g]
    BY <1>1 DEF CopyFacts
  <1> HIDE DEF k, g
  <1>5. /\ commit' \in [Nodes -> Nat] /\ commit'[l] = k /\ commit'[f] = g
        /\ \A m \in Nodes : m # l /\ m # f => commit'[m] = commit[m]
    BY <1>1, <1>2, <1>3, <1>4 DEF EngineType
  <1>6. QED
    BY <1>1, <1>2, <1>3, <1>5

LEMMA CopyKeepsChosen ==
    ASSUME EngineType, Sorted, Matching, Leading,
           NEW l \in Nodes, NEW f \in Nodes, NEW c, CopyFacts(l, f, c)
    PROVE  ChosenKept
  <1>1. SUFFICES ASSUME NEW p \in Seq(Entries), Chosen(p) PROVE Chosen(p)'
    BY DEF ChosenKept
  <1>2. Len(p) \in Nat /\ Len(p) > 0 /\ Bal(p) \in Nat
    BY <1>1, ChosenTypes
  <1>3. \A m \in Nodes : /\ Len(log[m]) \in Nat /\ log[m] \in Seq(Entries) /\ vote[m] \in Nat /\ vote'[m] \in Nat
                         /\ vote[m] <= vote'[m]
    BY DEF EngineType, CopyFacts
  <1>4. \E R \in Quorums : \A q \in R : vote'[q] >= Bal(p) /\ Prefix(p, log'[q])
    <2>1. PICK R \in Quorums : \A q \in R : vote[q] >= Bal(p) /\ Prefix(p, log[q])
      BY <1>1 DEF Chosen
    <2>2. ASSUME NEW q \in R PROVE vote'[q] >= Bal(p) /\ Prefix(p, log'[q])
      <3>1. q \in Nodes
        BY DEF Quorums
      <3>2. vote'[q] >= Bal(p)
        BY <1>2, <1>3, <2>1, <3>1
      <3>3. CASE q # f
        BY <2>1, <3>1, <3>2, <3>3 DEF CopyFacts
      <3>4. CASE q = f
        <4>1. Bal(p) <= vote[l]
          BY <1>2, <1>3, <2>1, <3>4 DEF CopyFacts
        <4>2. Len(p) <= Len(log[f]) /\ \A i \in 1..Len(p) : p[i] = log[f][i]
          BY <2>1, <3>4 DEF Prefix
        <4>3. Len(p) <= c /\ \A i \in 1..Len(p) : log'[f][i] = log[f][i]
          BY <1>1, <1>2, <4>1, <4>2, CopyKeeps
        <4>4. Len(log'[f]) = c
          BY DEF CopyFacts
        <4>5. QED
          BY <3>2, <3>4, <4>2, <4>3, <4>4 DEF Prefix
      <3>5. QED
        BY <3>3, <3>4
    <2>3. QED
      BY <2>2
  <1>5. \A m \in Nodes : (\E j \in 1..Len(log'[m]) : log'[m][j].bal > Bal(p)) => Prefix(p, log'[m])
    <2>1. SUFFICES ASSUME NEW m \in Nodes, NEW j \in 1..Len(log'[m]), log'[m][j].bal > Bal(p)
                   PROVE  Prefix(p, log'[m])
      OBVIOUS
    <2>2. CASE m # f
      BY <1>1, <2>1, <2>2 DEF Chosen, CopyFacts
    <2>3. CASE m = f
      <3>1. /\ Len(log'[f]) = c /\ c \in Nat /\ c <= Len(log[l])
            /\ \A i \in 1..c : log'[f][i] = log[l][i]
        BY DEF CopyFacts
      <3>2. j \in 1..Len(log[l]) /\ log[l][j].bal > Bal(p) /\ j <= c
        BY <1>3, <2>1, <2>3, <3>1
      <3>3. Prefix(p, log[l])
        BY <1>1, <3>2 DEF Chosen
      <3>4. Len(p) \in 1..Len(log[l]) /\ log[l][Len(p)].bal = Bal(p)
        BY <1>1, <1>3, <3>3, HeldBallot
      <3>5. ~(j <= Len(p))
        <4>1. SUFFICES ASSUME j <= Len(p) PROVE FALSE
          OBVIOUS
        <4>2. j \in 1..Len(p)
          BY <1>2, <3>2, <4>1
        <4>3. log[l][j].bal <= log[l][Len(p)].bal
          BY <3>4, <4>2 DEF Sorted
        <4>4. log[l][j].bal \in Nat
          BY <3>2, EntryTypes
        <4>5. QED
          BY <1>2, <3>2, <3>4, <4>3, <4>4
      <3>6. Len(p) <= c
        BY <1>2, <3>1, <3>2, <3>5
      <3>7. \A i \in 1..Len(p) : p[i] = log[l][i] /\ i \in 1..c
        BY <1>2, <3>1, <3>3, <3>6 DEF Prefix
      <3>8. QED
        BY <2>3, <3>1, <3>6, <3>7 DEF Prefix
    <2>4. QED
      BY <2>2, <2>3
  <1>6. \A m \in Nodes : known'[m] = m /\ vote'[m] = Bal(p) => Len(p) <= commit'[m]
    <2>1. SUFFICES ASSUME NEW m \in Nodes, known'[m] = m, vote'[m] = Bal(p) PROVE Len(p) <= commit'[m]
      OBVIOUS
    <2>2. m # f /\ known[m] = m /\ vote[m] = Bal(p)
      BY <2>1 DEF CopyFacts
    <2>3. Len(p) <= commit[m] /\ commit[m] \in Nat
      BY <1>1, <2>2 DEF Chosen, EngineType
    <2>4. commit[m] <= commit'[m] /\ commit'[m] \in Nat
      BY <2>2, <2>3, CopyCommits
    <2>5. QED
      BY <1>2, <2>3, <2>4
  <1>7. QED
    BY <1>1, <1>2, <1>4, <1>5, <1>6 DEF Chosen, Bal
\* A log message copies the leader's log, or what its snapshot covers.
LEMMA ReplicateDoes ==
    ASSUME EngineType, MachineInv, NEW l \in Nodes, NEW f \in Nodes, Replicate(l, f)
    PROVE  \E c \in Nat :
             /\ CopyFacts(l, f, c)
             /\ \/ c = Len(log[l]) /\ UNCHANGED <<applied, store, current, purged>>
                \/ /\ c = applied[l] /\ Common(log[f], log[l]) < c /\ current[l].on
                   /\ InstallSnapshot(f, current[l].data, c)
                   /\ purged' = [purged EXCEPT ![f] = c]
                   /\ log'[f] = SubSeq(log[l], 1, c)
  <1> DEFINE k == Common(log[f], log[l])
  <1>1. /\ log[l] \in Seq(Entries) /\ log[f] \in Seq(Entries) /\ l # f /\ known[l] = l /\ vote[f] <= vote[l]
        /\ vote' = [vote EXCEPT ![f] = vote[l]] /\ known' = [known EXCEPT ![f] = l]
    BY DEF EngineType, Replicate, Leads
  <1>2. k \in Nat /\ k <= Len(log[l]) /\ Len(log[l]) \in Nat
    BY <1>1, CommonIs
  <1>3. /\ purged[l] \in Nat /\ applied[l] \in Nat /\ purged[l] <= applied[l] /\ applied[l] <= commit[l]
        /\ commit[l] <= Len(log[l]) /\ commit[l] \in Nat
    BY DEF MachineInv, EngineType
  <1>4. commit' = [commit EXCEPT ![l] = CommitOf(l, log', vote'),
                                 ![f] = LET follower == IF commit[l] < Len(log'[f]) THEN commit[l] ELSE Len(log'[f])
                                        IN IF follower > @ THEN follower ELSE @]
    BY DEF Replicate
  <1>5. ASSUME NEW c \in Nat, c <= Len(log[l]), k <= c, NEW s \in Seq(Entries), log' = [log EXCEPT ![f] = s],
               Len(s) = c, \A i \in 1..c : s[i] = log[l][i]
        PROVE  CopyFacts(l, f, c)
    <2>1. \A m \in Nodes : vote[m] \in Nat /\ Len(log[m]) \in Nat /\ commit[m] \in Nat /\ commit[m] <= Len(log[m])
      BY RaftAssumption DEF EngineType
    <2>2. /\ \A m \in Nodes : m # f => vote'[m] = vote[m] /\ known'[m] = known[m]
          /\ vote'[f] = vote[l] /\ known'[f] = l
      BY <1>1 DEF EngineType
    <2>3. \A m \in Nodes : vote'[m] \in Nat /\ vote[m] <= vote'[m]
      BY <1>1, <2>1, <2>2
    <2>4. /\ log' \in [Nodes -> Seq(Entries)] /\ log'[f] = s
          /\ \A m \in Nodes : m # f => log'[m] = log[m]
      BY <1>5 DEF EngineType
    <2>5. QED
      BY <1>1, <1>4, <1>5, <2>1, <2>2, <2>3, <2>4 DEF CopyFacts
  <1>6. CASE CanRead(l, k + 1)
    <2>1. /\ log' = [log EXCEPT ![f] = AppendLog(TruncateLog(@, k + 1), SubSeq(log[l], k + 1, Len(log[l])))]
          /\ UNCHANGED <<applied, store, current, purged>>
      BY <1>6 DEF Replicate, machineVars
    <2>2. AppendLog(TruncateLog(log[f], k + 1), SubSeq(log[l], k + 1, Len(log[l]))) = log[l]
      BY <1>1, CopyIsEqual
    <2>3. log' = [log EXCEPT ![f] = log[l]]
      BY <2>1, <2>2 DEF EngineType
    <2>4. CopyFacts(l, f, Len(log[l]))
      <3>1. Len(log[l]) <= Len(log[l]) /\ \A i \in 1..Len(log[l]) : log[l][i] = log[l][i]
        BY <1>2
      <3> HIDE DEF k
      <3>2. QED
        BY <1>1, <1>2, <1>5, <2>3, <3>1, Zenon
    <2>5. QED
      BY <1>2, <2>1, <2>4
  <1>7. CASE ~CanRead(l, k + 1)
    <2>1. /\ current[l].on /\ InstallSnapshot(f, current[l].data, applied[l])
          /\ log' = [log EXCEPT ![f] = SubSeq(log[l], 1, applied[l])]
          /\ purged' = [purged EXCEPT ![f] = applied[l]]
      BY <1>7 DEF Replicate, GetCurrentSnapshot
    <2>2. k < applied[l]
      BY <1>2, <1>3, <1>7 DEF CanRead
    <2>3. applied[l] <= Len(log[l])
      BY <1>2, <1>3
    <2>4. /\ SubSeq(log[l], 1, applied[l]) \in Seq(Entries) /\ Len(SubSeq(log[l], 1, applied[l])) = applied[l]
          /\ \A i \in 1..applied[l] : SubSeq(log[l], 1, applied[l])[i] = log[l][i]
      BY <1>1, <1>2, <1>3, <2>3
    <2>5. CopyFacts(l, f, applied[l])
      <3>1. k <= applied[l]
        BY <1>2, <1>3, <2>2
      <3> HIDE DEF k
      <3>2. QED
        BY <1>3, <1>5, <2>1, <2>3, <2>4, <3>1, Zenon
    <2>6. log'[f] = SubSeq(log[l], 1, applied[l])
      BY <2>1 DEF EngineType
    <2>7. QED
      BY <1>3, <2>1, <2>2, <2>5, <2>6
  <1>8. QED
    BY <1>6, <1>7

\* It keeps the engine's invariant, everything chosen and what is committed.
LEMMA CopyStep ==
    ASSUME EngineInv, NEW l \in Nodes, NEW f \in Nodes, NEW c, CopyFacts(l, f, c)
    PROVE  /\ EngineInv' /\ ChosenKept /\ commit[f] <= c
           /\ \A m \in Nodes : commit[m] <= commit'[m] /\ \A i \in 1..commit[m] : log'[m][i] = log[m][i]
  <1>1. EngineType /\ Sorted /\ Elected /\ Matching /\ Leading /\ Committed
    BY DEF EngineInv
  <1>2. Sorted' /\ Elected' /\ Matching' /\ Leading' /\ ChosenKept
    BY <1>1, CopySorted, CopyElected, CopyMatching, CopyLeading, CopyKeepsChosen
  <1>3. /\ \A m \in Nodes : /\ vote[m] \in Nat /\ vote'[m] \in Nat /\ vote[m] <= vote'[m] /\ commit[m] \in Nat
                            /\ Len(log[m]) \in Nat /\ commit[m] <= Len(log[m])
        /\ l # f /\ known[l] = l /\ vote[f] <= vote[l] /\ vote'[f] = vote[l] /\ vote'[l] = vote[l] /\ known'[l] = l
        /\ c \in Nat /\ Len(log'[f]) = c /\ c <= Len(log[l])
        /\ \A m \in Nodes : m # f => log'[m] = log[m]
        /\ \A i \in 1..c : log'[f][i] = log[l][i]
    BY DEF CopyFacts
  <1>4. /\ commit' \in [Nodes -> Nat]
        /\ \A m \in Nodes : m # l /\ m # f => commit'[m] = commit[m]
        /\ commit[l] <= commit'[l]
        /\ \/ commit'[l] = commit[l]
           \/ /\ commit'[l] \in 1..Len(log'[l]) /\ log'[l][commit'[l]].bal = vote'[l]
              /\ \E Q \in Quorums : \A m \in Q :
                   vote'[m] = vote'[l] /\ Common(log'[m], log'[l]) >= commit'[l]
        /\ commit[f] <= commit'[f]
        /\ commit'[f] = commit[f] \/ (commit'[f] <= commit[l] /\ commit'[f] <= c)
    BY <1>1, CopyCommits
  <1>5. commit[f] <= c /\ \A i \in 1..commit[f] : log'[f][i] = log[f][i]
    <2>1. CASE commit[f] = 0
      BY <1>3, <2>1
    <2>2. CASE commit[f] # 0
      <3>1. PICK p \in Seq(Entries) : /\ Chosen(p) /\ commit[f] <= Len(p) /\ Bal(p) <= vote[f]
                                      /\ \A i \in 1..commit[f] : p[i] = log[f][i]
        BY <1>1, <2>2 DEF Committed, CommittedAt
      <3>2. Bal(p) <= vote[l]
        BY <1>3, <3>1, ChosenTypes
      <3>3. commit[f] \in Nat /\ commit[f] <= Len(log[f])
        BY <1>3
      <3>4. \A d \in Nat : d <= Len(p) /\ d <= Len(log[f]) /\ (\A i \in 1..d : p[i] = log[f][i])
              => d <= c /\ \A i \in 1..d : log'[f][i] = log[f][i]
        BY <1>1, <3>1, <3>2, CopyKeeps
      <3>5. QED
        BY <3>1, <3>3, <3>4
    <2>3. QED
      BY <2>1, <2>2
  <1>6. \A m \in Nodes : commit[m] <= commit'[m] /\ \A i \in 1..commit[m] : log'[m][i] = log[m][i]
    <2>1. SUFFICES ASSUME NEW m \in Nodes
                   PROVE  commit[m] <= commit'[m] /\ \A i \in 1..commit[m] : log'[m][i] = log[m][i]
      OBVIOUS
    <2>2. CASE m = f
      BY <1>4, <1>5, <2>2
    <2>3. CASE m # f
      <3>1. log'[m] = log[m]
        BY <1>3, <2>3
      <3>2. commit[m] <= commit'[m]
        BY <1>3, <1>4, <2>3
      <3>3. QED
        BY <3>1, <3>2
    <2>4. QED
      BY <2>2, <2>3
  <1>7. \A m \in Nodes : commit'[m] <= Len(log'[m])
    <2>1. SUFFICES ASSUME NEW m \in Nodes PROVE commit'[m] <= Len(log'[m])
      OBVIOUS
    <2>2. CASE m = f
      BY <1>3, <1>4, <1>5, <2>2
    <2>3. CASE m = l
      <3>1. log'[l] = log[l]
        BY <1>3
      <3>2. commit'[l] = commit[l] \/ commit'[l] \in 1..Len(log'[l])
        BY <1>4
      <3>3. QED
        BY <1>3, <2>3, <3>1, <3>2
    <2>4. CASE m # f /\ m # l
      BY <1>3, <1>4, <2>4
    <2>5. QED
      BY <2>2, <2>3, <2>4
  <1>8. EngineType'
    <2>1. vote' \in [Nodes -> 0..MaxBallot] /\ known' \in [Nodes -> Nodes \cup {0}]
      BY <1>1 DEF CopyFacts, EngineType
    <2>2. log' \in [Nodes -> Seq(Entries)]
      BY DEF CopyFacts
    <2>3. QED
      BY <1>4, <1>7, <2>1, <2>2 DEF EngineType
  <1>9. Committed'
    <2>1. SUFFICES ASSUME NEW m \in Nodes PROVE CommittedAt(m)'
      BY DEF Committed
    <2>2. CommittedAt(m) /\ vote[m] <= vote'[m] /\ vote'[m] \in Nat
      BY <1>1, <1>3 DEF Committed
    <2>3. CASE commit'[m] = commit[m]
      BY <1>1, <1>2, <1>6, <2>2, <2>3, CommittedKept
    <2>4. CASE commit'[m] # commit[m] /\ m = l
      <3>1. commit'[l] \in 1..Len(log'[l]) /\ log'[l][commit'[l]].bal = vote'[l]
        BY <1>4, <2>4
      <3>2. PICK Q \in Quorums : \A q \in Q : vote'[q] = vote'[l] /\ Common(log'[q], log'[l]) >= commit'[l]
        BY <1>4, <2>4
      <3>3. commit'[l] <= commit'[l]
        BY <1>4
      <3>4. CommittedAt(l)' \/ commit'[l] # commit'[l]
        BY <1>2, <1>3, <1>8, <3>1, <3>2, <3>3, QuorumChooses
      <3>5. QED
        BY <2>4, <3>4
    <2>5. CASE commit'[m] # commit[m] /\ m = f
      <3>1. commit'[f] <= commit[l] /\ commit'[f] <= c /\ commit'[f] \in Nat /\ commit[l] # 0
        BY <1>3, <1>4, <2>5
      <3>2. PICK p \in Seq(Entries) : /\ Chosen(p) /\ commit[l] <= Len(p) /\ Bal(p) <= vote[l]
                                      /\ \A i \in 1..commit[l] : p[i] = log[l][i]
        BY <1>1, <3>1 DEF Committed, CommittedAt
      <3>3. Chosen(p)' /\ Len(p) \in Nat
        BY <1>2, <3>2, ChosenTypes DEF ChosenKept
      <3>4. \A i \in 1..commit'[f] : i \in 1..c /\ i \in 1..commit[l]
        BY <1>3, <3>1
      <3>5. \A i \in 1..commit'[f] : p[i] = log'[f][i]
        BY <1>3, <3>2, <3>4
      <3>6. commit'[f] <= Len(p)
        BY <1>3, <3>1, <3>2, <3>3
      <3>7. QED
        BY <1>3, <2>5, <3>2, <3>3, <3>5, <3>6 DEF CommittedAt, Bal
    <2>6. QED
      BY <1>4, <2>3, <2>4, <2>5
  <1>10. QED
    BY <1>2, <1>5, <1>6, <1>8, <1>9 DEF EngineInv
-----------------------------------------------------------------------------
(* What every step does for the engine                                     *)

\* The engine's invariant and everything chosen are kept, ballots and commit
\* indices only grow, and committed entries stay.
EngineStep ==
    /\ EngineInv' /\ ChosenKept
    /\ \A m \in Nodes : /\ vote[m] <= vote'[m] /\ commit[m] <= commit'[m]
                        /\ \A i \in 1..commit[m] : log'[m][i] = log[m][i]

\* A step that appends no entry of request r.
NotAppended(r) ==
    \A n \in Nodes : \A j \in 1..Len(log'[n]) :
      log'[n][j].req = r => \E m \in Nodes : \E i \in 1..Len(log[m]) : log[m][i].req = r

\* A step that leaves the engine alone.
LEMMA EngineSame ==
    ASSUME EngineInv, UNCHANGED <<vote, known, log, commit>>
    PROVE  EngineStep /\ \A r \in Requests : NotAppended(r)
  <1>1. EngineInv' /\ ChosenKept
    BY EngineUnchanged
  <1>2. \A m \in Nodes : vote[m] \in Nat /\ commit[m] \in Nat
    BY RaftAssumption DEF EngineInv, EngineType
  <1>3. \A m \in Nodes : vote[m] <= vote'[m] /\ commit[m] <= commit'[m]
    BY <1>2
  <1>4. \A r \in Requests : NotAppended(r)
    BY DEF NotAppended
  <1>5. QED
    BY <1>1, <1>3, <1>4 DEF EngineStep

LEMMA ElectEngine ==
    ASSUME EngineInv, NEW n \in Nodes, NEW b \in 1..MaxBallot, NEW Q \in Quorums, Elect(n, b, Q)
    PROVE  EngineStep /\ \A r \in Requests : NotAppended(r)
  <1>1. EngineType
    BY DEF EngineInv
  <1>2. EngineInv' /\ ChosenKept /\ \A m \in Nodes : \A i \in 1..commit[m] : log'[m][i] = log[m][i]
    BY ElectStep
  <1>3. \A m \in Nodes : vote[m] \in Nat /\ commit[m] \in Nat /\ commit[m] <= commit'[m]
    BY <1>1, RaftAssumption DEF EngineType, Elect
  <1>4. \A m \in Nodes : vote[m] <= vote'[m]
    <2>1. b \in Nat
      BY RaftAssumption
    <2>2. \A m \in Q : vote[m] < b
      BY DEF Elect
    <2>3. \A m \in Nodes : vote'[m] = IF m \in Q THEN b ELSE vote[m]
      BY DEF Elect
    <2>4. QED
      BY <1>3, <2>1, <2>2, <2>3
  <1>5. ASSUME NEW r \in Requests PROVE NotAppended(r)
    <2> DEFINE e == [bal |-> b, req |-> "blank"]
    <2>1. e \in Entries /\ log' = [log EXCEPT ![n] = AppendLog(@, <<e>>)] /\ e.req # r
      BY RaftAssumption DEF Entries, Elect
    <2> HIDE DEF e
    <2>2. /\ log'[n][Len(log[n]) + 1] = e
          /\ \A m \in Nodes : \A j \in 1..Len(log[m]) : log'[m][j] = log[m][j]
          /\ \A m \in Nodes : \A j \in 1..Len(log'[m]) : j \in 1..Len(log[m]) \/ (m = n /\ j = Len(log[n]) + 1)
      BY <1>1, <2>1, Grown
    <2>3. QED
      BY <2>1, <2>2 DEF NotAppended
  <1>6. QED
    BY <1>2, <1>3, <1>4, <1>5 DEF EngineStep

LEMMA InitializeEngine ==
    ASSUME EngineInv, NEW n \in Nodes, Initialize(n)
    PROVE  EngineStep /\ \A r \in Requests : NotAppended(r)
  <1>1. /\ EngineInv' /\ ChosenKept
        /\ \A m \in Nodes : \A i \in 1..commit[m] : log'[m][i] = log[m][i]
        /\ \A m \in Nodes : \A j \in 1..Len(log'[m]) :
             (j \in 1..Len(log[m]) /\ log'[m][j] = log[m][j]) \/ log'[m][j].req = "members"
    BY InitializeStep
  <1>2. vote' = vote /\ commit' = commit
    BY DEF Initialize
  <1>3. \A m \in Nodes : vote[m] \in Nat /\ commit[m] \in Nat
    BY RaftAssumption DEF EngineInv, EngineType
  <1>4. \A m \in Nodes : vote[m] <= vote'[m] /\ commit[m] <= commit'[m]
    BY <1>2, <1>3
  <1>5. \A r \in Requests : r # "members"
    BY RaftAssumption
  <1>6. \A r \in Requests : NotAppended(r)
    BY <1>1, <1>5 DEF NotAppended
  <1>7. QED
    BY <1>1, <1>4, <1>6 DEF EngineStep

LEMMA WriteEngine ==
    ASSUME EngineInv, NEW n \in Nodes, NEW r \in Requests, known[n] = n,
           ClientWrite(n, r), vote' = vote, known' = known
    PROVE  EngineStep /\ \A s \in Requests : s # r => NotAppended(s)
  <1>1. /\ EngineInv' /\ ChosenKept
        /\ \A m \in Nodes : commit[m] <= commit'[m] /\ \A i \in 1..commit[m] : log'[m][i] = log[m][i]
        /\ GrowFacts(n, [bal |-> vote[n], req |-> r])
    BY WriteStep
  <1>2. \A m \in Nodes : vote[m] \in Nat
    BY RaftAssumption DEF EngineInv, EngineType
  <1>3. \A m \in Nodes : vote[m] <= vote'[m]
    BY <1>2
  <1>4. ASSUME NEW s \in Requests, s # r PROVE NotAppended(s)
    <2>1. /\ log'[n][Len(log[n]) + 1].req = r
          /\ \A m \in Nodes : \A j \in 1..Len(log[m]) : log'[m][j] = log[m][j]
          /\ \A m \in Nodes : \A j \in 1..Len(log'[m]) : j \in 1..Len(log[m]) \/ (m = n /\ j = Len(log[n]) + 1)
      BY <1>1 DEF GrowFacts
    <2>2. QED
      BY <1>4, <2>1 DEF NotAppended
  <1>5. QED
    BY <1>1, <1>3, <1>4 DEF EngineStep

LEMMA CopyEngine ==
    ASSUME EngineInv, NEW l \in Nodes, NEW f \in Nodes, NEW c, CopyFacts(l, f, c)
    PROVE  EngineStep /\ commit[f] <= c /\ \A r \in Requests : NotAppended(r)
  <1>1. /\ EngineInv' /\ ChosenKept /\ commit[f] <= c
        /\ \A m \in Nodes : commit[m] <= commit'[m] /\ \A i \in 1..commit[m] : log'[m][i] = log[m][i]
    BY CopyStep
  <1>2. \A m \in Nodes : vote[m] <= vote'[m]
    BY DEF CopyFacts
  <1>3. ASSUME NEW r \in Requests PROVE NotAppended(r)
    <2>1. SUFFICES ASSUME NEW m \in Nodes, NEW j \in 1..Len(log'[m]), log'[m][j].req = r
                   PROVE  \E s \in Nodes : \E i \in 1..Len(log[s]) : log[s][i].req = r
      BY DEF NotAppended
    <2>2. PICK s \in Nodes : \A i \in 1..Len(log'[m]) : i \in 1..Len(log[s]) /\ log'[m][i] = log[s][i]
      BY CopiedEntries
    <2>3. QED
      BY <2>1, <2>2
  <1>4. QED
    BY <1>1, <1>2, <1>3 DEF EngineStep
-----------------------------------------------------------------------------
(* The state machine                                                       *)

MachineHolds == MachineType /\ MachineInv /\ Replayed

\* A log's first entries, when they stay.
LEMMA SameBeginning ==
    ASSUME NEW a \in Seq(Entries), NEW b \in Seq(Entries), NEW k \in Nat, k <= Len(a), k <= Len(b),
           \A i \in 1..k : a[i] = b[i]
    PROVE  SubSeq(a, 1, k) = SubSeq(b, 1, k)
  <1> DEFINE s == SubSeq(a, 1, k)
             t == SubSeq(b, 1, k)
  <1>1. s \in Seq(Entries) /\ Len(s) = k /\ \A i \in 1..k : s[i] = a[i]
    OBVIOUS
  <1>2. t \in Seq(Entries) /\ Len(t) = k /\ \A i \in 1..k : t[i] = b[i]
    OBVIOUS
  <1> HIDE DEF s, t
  <1>3. s = t
    BY <1>1, <1>2, SameSequence
  <1>4. QED
    BY <1>3 DEF s, t

\* A replica that applies nothing has the entries it applied.
LEMMA AppliedStays ==
    ASSUME EngineInv, EngineStep, MachineInv, NEW m \in Nodes
    PROVE  SubSeq(log'[m], 1, applied[m]) = SubSeq(log[m], 1, applied[m])
  <1>1. /\ log[m] \in Seq(Entries) /\ log'[m] \in Seq(Entries) /\ Len(log[m]) \in Nat /\ Len(log'[m]) \in Nat
        /\ commit[m] \in Nat /\ commit'[m] \in Nat /\ commit[m] <= Len(log[m]) /\ commit'[m] <= Len(log'[m])
    BY DEF EngineInv, EngineType, EngineStep
  <1>2. applied[m] \in Nat /\ applied[m] <= commit[m]
    BY DEF MachineInv
  <1>3. commit[m] <= commit'[m] /\ \A i \in 1..commit[m] : log'[m][i] = log[m][i]
    BY DEF EngineStep
  <1>4. \A i \in 1..applied[m] : log'[m][i] = log[m][i]
    BY <1>1, <1>2, <1>3
  <1>5. applied[m] <= Len(log[m]) /\ applied[m] <= Len(log'[m])
    BY <1>1, <1>2, <1>3
  <1>6. QED
    BY <1>1, <1>2, <1>4, <1>5, SameBeginning

\* A step that leaves the state machine and its snapshots alone.
LEMMA MachineSame ==
    ASSUME EngineInv, EngineStep, MachineHolds, UNCHANGED <<applied, store, current, purged, building, snap>>
    PROVE  MachineHolds'
  <1>1. MachineType /\ MachineInv /\ Replayed
    BY DEF MachineHolds
  <1>2. MachineType'
    BY <1>1 DEF MachineType
  <1>3. \A m \in Nodes : applied[m] \in Nat /\ applied[m] <= commit'[m]
    <2>1. \A m \in Nodes : commit[m] \in Nat /\ commit'[m] \in Nat /\ commit[m] <= commit'[m]
      BY DEF EngineInv, EngineType, EngineStep
    <2>2. QED
      BY <1>1, <2>1 DEF MachineInv
  <1>4. MachineInv'
    BY <1>1, <1>3 DEF MachineInv
  <1>5. Replayed'
    BY <1>1, AppliedStays DEF Replayed
  <1>6. QED
    BY <1>2, <1>4, <1>5 DEF MachineHolds

LEMMA ApplyMachine ==
    ASSUME EngineInv, MachineHolds, NEW n \in Nodes, Apply(n)
    PROVE  MachineHolds'
  <1>1. MachineType /\ MachineInv /\ Replayed
    BY DEF MachineHolds
  <1>2. /\ applied' = [applied EXCEPT ![n] = commit[n]]
        /\ store' = [store EXCEPT ![n] = ApplyAll(@, SubSeq(log[n], applied[n] + 1, commit[n]))]
        /\ current' = [current EXCEPT ![n] = NoSnapshot]
        /\ log' = log /\ commit' = commit /\ purged' = purged /\ building' = building /\ snap' = snap
    BY DEF Apply, engineVars, snapVars
  <1>3. /\ log[n] \in Seq(Entries) /\ commit[n] \in Nat /\ commit[n] <= Len(log[n])
        /\ applied[n] \in Nat /\ applied[n] <= commit[n]
    BY <1>1 DEF EngineInv, EngineType, MachineInv
  <1>4. MachineType'
    BY <1>1, <1>2, <1>3 DEF MachineType
  <1>5. MachineInv'
    <2>1. SUFFICES ASSUME NEW m \in Nodes
                   PROVE  /\ purged[m] \in Nat /\ applied'[m] \in Nat
                          /\ purged[m] <= applied'[m] /\ applied'[m] <= commit[m]
                          /\ building[m].on => building[m].at \in Nat /\ building[m].at <= applied'[m]
                          /\ current'[m].on => current'[m].data = store'[m]
      BY <1>2 DEF MachineInv
    <2>2. CASE m = n
      <3>1. applied'[n] = commit[n] /\ ~current'[n].on
        BY <1>1, <1>2 DEF MachineType, NoSnapshot
      <3>2. QED
        BY <1>1, <1>3, <2>2, <3>1 DEF MachineInv
    <2>3. CASE m # n
      BY <1>1, <1>2, <2>3 DEF MachineInv, MachineType
    <2>4. QED
      BY <2>2, <2>3
  <1>6. Replayed'
    <2>1. SUFFICES ASSUME NEW m \in Nodes
                   PROVE  store'[m] = ApplyAll(NoStore, SubSeq(log[m], 1, applied'[m]))
      BY <1>2 DEF Replayed
    <2>2. CASE m = n
      <3>1. store[n] = ApplyAll(NoStore, SubSeq(log[n], 1, applied[n])) /\ applied'[n] = commit[n]
        BY <1>1, <1>2 DEF Replayed, MachineType
      <3>2. store'[n] = ApplyAll(store[n], SubSeq(log[n], applied[n] + 1, commit[n]))
        BY <1>1, <1>2 DEF MachineType
      <3>3. QED
        BY <1>3, <2>2, <3>1, <3>2, ApplySplit
    <2>3. CASE m # n
      <3>1. store'[m] = store[m] /\ applied'[m] = applied[m]
        BY <1>1, <1>2, <2>3 DEF MachineType
      <3>2. QED
        BY <1>1, <3>1 DEF Replayed
    <2>4. QED
      BY <2>2, <2>3
  <1>7. QED
    BY <1>4, <1>5, <1>6 DEF MachineHolds

LEMMA BuilderMachine ==
    ASSUME MachineHolds, NEW n \in Nodes, GetSnapshotBuilder(n)
    PROVE  MachineHolds'
  <1>1. MachineType /\ MachineInv /\ Replayed
    BY DEF MachineHolds
  <1>2. /\ building' = [building EXCEPT ![n] = [on |-> TRUE, at |-> applied[n]]]
        /\ log' = log /\ commit' = commit /\ purged' = purged /\ snap' = snap
        /\ applied' = applied /\ store' = store /\ current' = current
    BY DEF GetSnapshotBuilder, engineVars, machineVars
  <1>3. MachineType'
    BY <1>1, <1>2 DEF MachineType
  <1>4. \A m \in Nodes : building'[m].on => building'[m].at \in Nat /\ building'[m].at <= applied[m]
    BY <1>1, <1>2 DEF MachineType, MachineInv
  <1>5. MachineInv'
    BY <1>1, <1>2, <1>4 DEF MachineInv
  <1>6. Replayed'
    BY <1>1, <1>2 DEF Replayed
  <1>7. QED
    BY <1>3, <1>5, <1>6 DEF MachineHolds

LEMMA BuildMachine ==
    ASSUME MachineHolds, NEW n \in Nodes, BuildSnapshot(n)
    PROVE  MachineHolds'
  <1>1. MachineType /\ MachineInv /\ Replayed
    BY DEF MachineHolds
  <1> DEFINE upto == building[n].at - KeepLogs
  <1>2. /\ building' = [building EXCEPT ![n] = [on |-> FALSE, at |-> 0]]
        /\ purged' = [purged EXCEPT ![n] = IF upto > @ THEN upto ELSE @]
        /\ snap' = [snap EXCEPT ![n] = building[n].at]
        /\ log' = log /\ commit' = commit
        /\ applied' = applied /\ store' = store /\ current' = current
    BY DEF BuildSnapshot, PurgeLog, engineVars, machineVars
  <1>3. /\ purged[n] \in Nat /\ applied[n] \in Nat /\ building[n].at \in Nat /\ building[n].at <= applied[n]
        /\ purged[n] <= applied[n] /\ KeepLogs \in Nat
    BY <1>1, RaftAssumption DEF MachineInv, BuildSnapshot
  <1>4. (IF upto > purged[n] THEN upto ELSE purged[n]) \in Nat
        /\ (IF upto > purged[n] THEN upto ELSE purged[n]) <= applied[n]
    BY <1>3
  <1> HIDE DEF upto
  <1>5. /\ purged' \in [Nodes -> Nat] /\ purged'[n] <= applied[n]
        /\ \A m \in Nodes : m # n => purged'[m] = purged[m]
    BY <1>1, <1>2, <1>4 DEF MachineType
  <1>6. MachineType'
    BY <1>1, <1>2, <1>5 DEF MachineType
  <1>7. \A m \in Nodes : purged'[m] \in Nat /\ purged'[m] <= applied[m]
    BY <1>1, <1>5 DEF MachineInv
  <1>8. \A m \in Nodes : building'[m].on => building[m].on /\ building'[m] = building[m]
    BY <1>1, <1>2 DEF MachineType
  <1>9. MachineInv'
    BY <1>1, <1>2, <1>7, <1>8 DEF MachineInv
  <1>10. Replayed'
    BY <1>1, <1>2 DEF Replayed
  <1>11. QED
    BY <1>6, <1>9, <1>10 DEF MachineHolds

\* A log message, or the snapshot sent in its place.
LEMMA ReplicateStep ==
    ASSUME EngineInv, MachineHolds, NEW l \in Nodes, NEW f \in Nodes, Replicate(l, f)
    PROVE  EngineStep /\ MachineHolds' /\ \A r \in Requests : NotAppended(r)
  <1>1. MachineType /\ MachineInv /\ Replayed /\ EngineType
    BY DEF MachineHolds, EngineInv
  <1>2. PICK c \in Nat :
          /\ CopyFacts(l, f, c)
          /\ \/ c = Len(log[l]) /\ UNCHANGED <<applied, store, current, purged>>
             \/ /\ c = applied[l] /\ Common(log[f], log[l]) < c /\ current[l].on
                /\ InstallSnapshot(f, current[l].data, c)
                /\ purged' = [purged EXCEPT ![f] = c]
                /\ log'[f] = SubSeq(log[l], 1, c)
    BY <1>1, ReplicateDoes
  <1>3. EngineStep /\ commit[f] <= c /\ \A r \in Requests : NotAppended(r)
    BY <1>2, CopyEngine
  <1>4. building' = building /\ snap' = snap
    BY DEF Replicate
  <1>5. CASE UNCHANGED <<applied, store, current, purged>>
    BY <1>3, <1>4, <1>5, MachineSame
  <1>6. CASE /\ c = applied[l] /\ Common(log[f], log[l]) < c /\ current[l].on
             /\ InstallSnapshot(f, current[l].data, c)
             /\ purged' = [purged EXCEPT ![f] = c]
             /\ log'[f] = SubSeq(log[l], 1, c)
    <2>1. /\ store' = [store EXCEPT ![f] = store[l]]
          /\ applied' = [applied EXCEPT ![f] = c]
          /\ current' = [current EXCEPT ![f] = [on |-> TRUE, data |-> store[l]]]
      BY <1>1, <1>6 DEF InstallSnapshot, MachineInv
    <2>2. MachineType'
      BY <1>1, <1>4, <1>6, <2>1 DEF MachineType
    <2>3. /\ store'[f] = store[l] /\ applied'[f] = c /\ purged'[f] = c /\ current'[f].data = store[l]
          /\ \A m \in Nodes : m # f => /\ store'[m] = store[m] /\ applied'[m] = applied[m]
                                       /\ purged'[m] = purged[m] /\ current'[m] = current[m]
      BY <1>1, <1>6, <2>1 DEF MachineType
    <2>4. \A m \in Nodes : /\ commit[m] \in Nat /\ commit'[m] \in Nat /\ commit[m] <= commit'[m]
                           /\ applied[m] \in Nat /\ applied[m] <= commit[m]
      BY <1>1, <1>3 DEF EngineInv, EngineType, EngineStep, MachineInv
    <2>5. c <= commit'[f]
      <3>1. c <= commit[l]
        BY <1>6, <2>4
      <3>2. QED
        BY <1>1, <1>2, <3>1, CopyCommits
    <2>6. MachineInv'
      <3>1. SUFFICES ASSUME NEW m \in Nodes
                     PROVE  /\ purged'[m] \in Nat /\ applied'[m] \in Nat
                            /\ purged'[m] <= applied'[m] /\ applied'[m] <= commit'[m]
                            /\ building[m].on => building[m].at \in Nat /\ building[m].at <= applied'[m]
                            /\ current'[m].on => current'[m].data = store'[m]
        BY <1>4 DEF MachineInv
      <3>2. CASE m = f
        <4>1. applied[f] <= c
          BY <1>3, <2>4
        <4>2. building[f].on => building[f].at \in Nat /\ building[f].at <= c
          BY <1>1, <2>4, <4>1 DEF MachineInv
        <4>3. QED
          BY <2>3, <2>5, <3>2, <4>2
      <3>3. CASE m # f
        <4>1. applied[m] <= commit'[m]
          BY <2>4
        <4>2. QED
          BY <1>1, <2>3, <3>3, <4>1 DEF MachineInv
      <3>4. QED
        BY <3>2, <3>3
    <2>7. Replayed'
      <3>1. SUFFICES ASSUME NEW m \in Nodes
                     PROVE  store'[m] = ApplyAll(NoStore, SubSeq(log'[m], 1, applied'[m]))
        BY DEF Replayed
      <3>2. CASE m = f
        <4>1. store[l] = ApplyAll(NoStore, SubSeq(log[l], 1, c))
          BY <1>1, <1>6 DEF Replayed
        <4>2. SubSeq(log'[f], 1, c) = log'[f]
          <5>1. log'[f] \in Seq(Entries) /\ Len(log'[f]) = c
            BY <1>2 DEF CopyFacts
          <5>2. QED
            BY <5>1
        <4>3. QED
          BY <1>6, <2>3, <3>2, <4>1, <4>2
      <3>3. CASE m # f
        <4>1. log'[m] = log[m]
          BY <1>2, <3>3 DEF CopyFacts
        <4>2. QED
          BY <1>1, <2>3, <3>3, <4>1 DEF Replayed
      <3>4. QED
        BY <3>2, <3>3
    <2>8. QED
      BY <1>3, <2>2, <2>6, <2>7 DEF MachineHolds
  <1>7. QED
    BY <1>2, <1>3, <1>5, <1>6
-----------------------------------------------------------------------------
(* Requests                                                                *)

\* What is chosen stays with a request that a step leaves alone.
LEMMA RequestSame ==
    ASSUME EngineInv, EngineStep, NEW r \in Requests, RequestType, RequestHolds(r), req'[r] = req[r],
           req[r].pc \in {"idle", "forward", "confirm", "confirmed"} => NotAppended(r)
    PROVE  RequestHolds(r)'
  <1>1. AckedChosen(r) /\ NotLogged(r) /\ FloorChosen(r) /\ ReadCovered(r) /\ Placed(r)
    BY DEF RequestHolds
  <1>2. ChosenKept
    BY DEF EngineStep
  <1>3. AckedChosen(r)'
    BY <1>1, <1>2 DEF AckedChosen, ChosenKept
  <1>4. NotLogged(r)'
    BY <1>1 DEF NotLogged, NotAppended
  <1>5. FloorChosen(r)'
    BY <1>1, <1>2 DEF FloorChosen, ChosenKept
  <1>6. ReadCovered(r)'
    <2>1. \A q \in Nodes : vote[q] \in Nat /\ vote'[q] \in Nat /\ vote[q] <= vote'[q]
      BY RaftAssumption DEF EngineInv, EngineType, EngineStep
    <2>2. req[r].bal \in Nat
      BY DEF RequestType, RequestRecord
    <2>3. \A Q \in Quorums : \A q \in Q : q \in Nodes
      BY DEF Quorums
    <2>4. ASSUME NEW Q \in Quorums, \A q \in Q : vote[q] > req[r].bal
          PROVE  \A q \in Q : vote'[q] > req[r].bal
      BY <2>1, <2>2, <2>3, <2>4
    <2>5. QED
      BY <1>1, <2>4 DEF ReadCovered
  <1>7. Placed(r)'
    BY <1>1 DEF Placed
  <1>8. QED
    BY <1>3, <1>4, <1>5, <1>6, <1>7 DEF RequestHolds

\* A request that ends with an error promises nothing.
LEMMA RequestFails ==
    ASSUME NEW r \in Requests, RequestType, RequestHolds(r), req[r].pc # "done", req'[r] = Ended(r, "err")
    PROVE  RequestHolds(r)'
  <1>1. req[r].told # "ok"
    BY DEF RequestHolds, AckedChosen
  <1>2. req'[r].pc = "done" /\ req'[r].told # "ok"
    BY <1>1 DEF Ended, NewRequest, None
  <1>3. QED
    BY <1>2 DEF RequestHolds, AckedChosen, NotLogged, FloorChosen, ReadCovered, Placed

\* The types a request keeps when it ends.
LEMMA EndedType ==
    ASSUME NEW r \in Requests, RequestType, NEW t \in {"ok", "err"}
    PROVE  Ended(r, t) \in RequestRecord
  <1>1. req[r].told \in {None, "ok", "err"}
    BY DEF RequestType, RequestRecord
  <1>2. QED
    BY <1>1 DEF Ended, NewRequest, RequestRecord

\* The index of what was acknowledged is one a chosen log has.
LEMMA AckedIndexChosen ==
    ASSUME EngineInv, RequestType, RequestInv
    PROVE  /\ AckedIndex \in Nat
           /\ AckedIndex = 0 \/ \E p \in Seq(Entries) : Chosen(p) /\ AckedIndex <= Len(p)
  <1> DEFINE writes == {s \in Requests : req[s].told = "ok" /\ Kind[s] # "read"}
             acked == {req[s].idx : s \in writes}
  <1>1. CASE acked = {}
    <2>1. AckedIndex = 0
      BY <1>1 DEF AckedIndex
    <2>2. QED
      BY <2>1
  <1>2. CASE acked # {}
    <2>1. \A s \in writes : /\ req[s].idx \in Nat
                            /\ \E p \in Seq(Entries) : Chosen(p) /\ req[s].idx <= Len(p)
      <3>1. SUFFICES ASSUME NEW s \in writes
                     PROVE  req[s].idx \in Nat /\ \E p \in Seq(Entries) : Chosen(p) /\ req[s].idx <= Len(p)
        OBVIOUS
      <3>2. PICK p \in Seq(Entries) : Chosen(p) /\ req[s].idx \in 1..Len(p)
        BY DEF RequestInv, RequestHolds, AckedChosen
      <3>3. Len(p) \in Nat
        OBVIOUS
      <3>4. QED
        BY <3>2, <3>3
    <2>2. PICK b \in Nat : \A n \in Nodes : Len(log[n]) <= b
      <3> DEFINE f == [n \in Nodes |-> Len(log[n])]
      <3>1. \A n \in Nodes : f[n] \in Nat
        BY DEF EngineInv, EngineType
      <3>2. \E b \in Nat : \A n \in Nodes : f[n] <= b
        <4> HIDE DEF f
        <4>1. QED
          BY <3>1, NodesBounded
      <3>3. QED
        BY <3>2
    <2>3. \A s \in writes : req[s].idx <= b
      <3>1. SUFFICES ASSUME NEW s \in writes PROVE req[s].idx <= b
        OBVIOUS
      <3>2. PICK p \in Seq(Entries) : Chosen(p) /\ req[s].idx <= Len(p)
        BY <2>1
      <3>3. PICK q \in Nodes : Prefix(p, log[q])
        BY <3>2, Holder DEF EngineInv
      <3>4. Len(p) <= Len(log[q]) /\ Len(p) \in Nat /\ Len(log[q]) \in Nat
        BY <3>3 DEF Prefix, EngineInv, EngineType
      <3>5. QED
        BY <2>1, <2>2, <3>2, <3>4
    <2>4. acked \subseteq Nat /\ \A i \in acked : i <= b
      BY <2>1, <2>3
    <2>5. \E i \in acked : \A j \in acked : j <= i
      <3> HIDE DEF acked, writes
      <3>1. QED
        BY <1>2, <2>4, Greatest
    <2>6. AckedIndex = CHOOSE i \in acked : \A j \in acked : j <= i
      BY <1>2 DEF AckedIndex
    <2>7. AckedIndex \in acked
      <3> HIDE DEF acked
      <3>1. QED
        BY <2>5, <2>6
    <2>8. PICK s \in writes : AckedIndex = req[s].idx
      BY <2>7
    <2>9. QED
      BY <2>1, <2>8
  <1>3. QED
    BY <1>1, <1>2

\* When a request that is in no log notes it, it is chosen without the request.
LEMMA FloorStarts ==
    ASSUME EngineInv, RequestType, RequestInv, NEW r \in Requests,
           req[r].pc \in {"idle", "forward", "confirm", "confirmed"}
    PROVE  \/ AckedIndex = 0
           \/ \E p \in Seq(Entries) : Chosen(p) /\ AckedIndex <= Len(p) /\ \A j \in 1..AckedIndex : p[j].req # r
  <1>1. SUFFICES ASSUME AckedIndex # 0
                 PROVE  \E p \in Seq(Entries) : Chosen(p) /\ AckedIndex <= Len(p) /\ \A j \in 1..AckedIndex : p[j].req # r
    OBVIOUS
  <1>2. PICK p \in Seq(Entries) : Chosen(p) /\ AckedIndex <= Len(p)
    BY <1>1, AckedIndexChosen
  <1>3. AckedIndex \in Nat /\ Len(p) \in Nat
    BY AckedIndexChosen
  <1>4. PICK q \in Nodes : Prefix(p, log[q])
    BY <1>2, Holder DEF EngineInv
  <1>5. \A j \in 1..Len(log[q]) : log[q][j].req # r
    BY DEF RequestInv, RequestHolds, NotLogged
  <1>6. Len(log[q]) \in Nat
    BY DEF EngineInv, EngineType
  <1>7. \A j \in 1..AckedIndex : j \in 1..Len(p) /\ j \in 1..Len(log[q])
    BY <1>2, <1>3, <1>4, <1>6 DEF Prefix
  <1>8. \A j \in 1..AckedIndex : p[j].req # r
    BY <1>4, <1>5, <1>7 DEF Prefix
  <1>9. QED
    BY <1>2, <1>8

\* The index that a leader waits for covers what was acknowledged, unless
\* a quorum left its ballot.
LEMMA ReadIndexCovers ==
    ASSUME EngineInv, RequestType, RequestInv, NEW n \in Nodes, known[n] = n,
           NEW blank, blank = CHOOSE i \in 1..Len(log[n]) : log[n][i] = [bal |-> vote[n], req |-> "blank"],
           NEW idx, idx = IF commit[n] > blank THEN commit[n] ELSE blank
    PROVE  /\ idx \in Nat
           /\ AckedIndex <= idx \/ \E Q \in Quorums : \A q \in Q : vote[q] > vote[n]
  <1>1. EngineType /\ Sorted /\ Elected /\ Matching /\ Leading
    BY DEF EngineInv
  <1>2. Len(log[n]) \in Nat /\ log[n] \in Seq(Entries) /\ commit[n] \in Nat /\ vote[n] \in Nat
    BY <1>1, RaftAssumption DEF EngineType
  <1>3. \E i \in 1..Len(log[n]) : log[n][i] = [bal |-> vote[n], req |-> "blank"]
    BY <1>1 DEF Leading
  <1>4. blank \in 1..Len(log[n]) /\ log[n][blank] = [bal |-> vote[n], req |-> "blank"]
    BY <1>3
  <1>5. idx \in Nat /\ commit[n] <= idx /\ blank <= idx
    <2>1. blank \in Nat
      BY <1>2, <1>4
    <2>2. QED
      BY <1>2, <2>1
  <1>6. CASE AckedIndex = 0
    BY <1>5, <1>6
  <1>7. CASE AckedIndex # 0
    <2>1. PICK p \in Seq(Entries) : Chosen(p) /\ AckedIndex <= Len(p)
      BY <1>7, AckedIndexChosen
    <2>2. Len(p) \in Nat /\ Len(p) > 0 /\ Bal(p) \in Nat /\ AckedIndex \in Nat
      BY <2>1, AckedIndexChosen, ChosenTypes
    <2>3. CASE Bal(p) > vote[n]
      <3>1. PICK Q \in Quorums : \A q \in Q : vote[q] >= Bal(p)
        BY <2>1 DEF Chosen
      <3>2. \A q \in Q : vote[q] \in Nat
        BY <1>1, RaftAssumption DEF EngineType, Quorums
      <3>3. \A q \in Q : vote[q] > vote[n]
        BY <1>2, <2>2, <2>3, <3>1, <3>2
      <3>4. QED
        BY <1>5, <3>3, Zenon
    <2>4. CASE Bal(p) = vote[n]
      <3>1. Len(p) <= commit[n]
        BY <2>1, <2>4 DEF Chosen
      <3>2. AckedIndex <= idx
        BY <1>2, <1>5, <2>1, <2>2, <3>1
      <3>3. QED
        BY <1>5, <3>2, Zenon
    <2>5. CASE Bal(p) < vote[n]
      <3>1. Prefix(p, log[n])
        BY <1>1, <1>2, <2>1, <2>2, <2>5, LeaderHas
      <3>2. Len(p) \in 1..Len(log[n]) /\ log[n][Len(p)].bal = Bal(p)
        BY <1>2, <2>1, <3>1, HeldBallot
      <3>3. log[n][blank].bal = vote[n]
        BY <1>4
      <3>4. ~(blank <= Len(p))
        <4>1. SUFFICES ASSUME blank <= Len(p) PROVE FALSE
          OBVIOUS
        <4>2. blank \in 1..Len(p)
          BY <1>4, <2>2, <4>1
        <4>3. log[n][blank].bal <= log[n][Len(p)].bal
          BY <1>1, <3>2, <4>2 DEF Sorted
        <4>4. QED
          BY <1>2, <2>2, <2>5, <3>2, <3>3, <4>3
      <3>5. AckedIndex <= idx
        BY <1>2, <1>4, <1>5, <2>1, <2>2, <3>4
      <3>6. QED
        BY <1>5, <3>5
    <2>6. QED
      BY <1>2, <2>2, <2>3, <2>4, <2>5
  <1>8. QED
    BY <1>6, <1>7

\* A step on one request, when that request is right afterwards.
LEMMA OneRequest ==
    ASSUME EngineInv, EngineStep, RequestType, RequestInv, NEW r \in Requests,
           NEW new \in RequestRecord, req' = [req EXCEPT ![r] = new],
           RequestHolds(r)', \A s \in Requests : s # r => NotAppended(s)
    PROVE  RequestType' /\ RequestInv'
  <1>1. RequestType'
    BY DEF RequestType
  <1>2. ASSUME NEW s \in Requests, s # r PROVE RequestHolds(s)'
    <2>1. req'[s] = req[s]
      BY <1>2 DEF RequestType
    <2>2. RequestHolds(s) /\ NotAppended(s)
      BY <1>2 DEF RequestInv
    <2>3. QED
      BY <2>1, <2>2, RequestSame
  <1>3. QED
    BY <1>1, <1>2 DEF RequestInv

\* A step on none.
LEMMA NoRequest ==
    ASSUME EngineInv, EngineStep, RequestType, RequestInv, req' = req, \A r \in Requests : NotAppended(r)
    PROVE  RequestType' /\ RequestInv'
  <1>1. RequestType'
    BY DEF RequestType
  <1>2. ASSUME NEW s \in Requests PROVE RequestHolds(s)'
    <2>1. RequestHolds(s) /\ NotAppended(s) /\ req'[s] = req[s]
      BY DEF RequestInv
    <2>2. QED
      BY <2>1, RequestSame
  <1>3. QED
    BY <1>1, <1>2 DEF RequestInv

LEMMA FailRequests ==
    ASSUME EngineInv, EngineStep, RequestType, RequestInv, NEW r \in Requests, req[r].pc # "done", Fail(r),
           \A s \in Requests : NotAppended(s)
    PROVE  RequestType' /\ RequestInv'
  <1>1. req' = [req EXCEPT ![r] = Ended(r, "err")] /\ Ended(r, "err") \in RequestRecord
    BY EndedType DEF Fail
  <1>2. req'[r] = Ended(r, "err") /\ RequestHolds(r)
    BY <1>1 DEF RequestType, RequestInv
  <1>3. RequestHolds(r)'
    BY <1>2, RequestFails
  <1>4. QED
    BY <1>1, <1>3, OneRequest

LEMMA WriteRequests ==
    ASSUME EngineInv, RequestType, RequestInv, NEW n \in Nodes, NEW r \in Requests,
           req[r].pc \in {"idle", "forward", "confirm"}, known[n] = n,
           ClientWrite(n, r), vote' = vote, known' = known
    PROVE  EngineStep /\ RequestType' /\ RequestInv'
  <1> DEFINE new == [req[r] EXCEPT !.pc = "wait", !.at = n, !.idx = Len(log[n]) + 1, !.bal = vote[n]]
  <1>1. EngineStep /\ \A s \in Requests : s # r => NotAppended(s)
    BY WriteEngine
  <1>2. Len(log[n]) + 1 \in Nat /\ vote[n] \in Nat
    BY RaftAssumption DEF EngineInv, EngineType
  <1>3. req[r] \in RequestRecord /\ RequestHolds(r)
    BY DEF RequestType, RequestInv
  <1>4. new \in RequestRecord
    BY <1>2, <1>3 DEF RequestRecord
  <1>5. req' = [req EXCEPT ![r] = new]
    BY DEF ClientWrite, Update
  <1>6. req'[r] = new
    BY <1>5 DEF RequestType
  <1>7. /\ req'[r].pc = "wait" /\ req'[r].at = n /\ req'[r].told = req[r].told /\ req'[r].floor = req[r].floor
        /\ req'[r].idx > 0
    <2>1. /\ req'[r].pc = "wait" /\ req'[r].at = n /\ req'[r].told = req[r].told /\ req'[r].floor = req[r].floor
          /\ req'[r].idx = Len(log[n]) + 1
      BY <1>3, <1>6 DEF RequestRecord
    <2>2. Len(log[n]) \in Nat
      BY DEF EngineInv, EngineType
    <2>3. QED
      BY <2>1, <2>2
  <1>8. req[r].told # "ok"
    BY <1>3 DEF RequestHolds, AckedChosen
  <1>9. FloorChosen(r)'
    <2>1. FloorChosen(r) /\ ChosenKept
      BY <1>1, <1>3 DEF RequestHolds, EngineStep
    <2>2. QED
      BY <1>7, <2>1 DEF FloorChosen, ChosenKept
  <1>10. RequestHolds(r)'
    BY <1>7, <1>8, <1>9 DEF RequestHolds, AckedChosen, NotLogged, ReadCovered, Placed
  <1> HIDE DEF new
  <1>11. QED
    BY <1>1, <1>4, <1>5, <1>10, OneRequest

LEMMA ExecRequests ==
    ASSUME EngineInv, RequestType, RequestInv, NEW n \in Nodes, NEW r \in Requests,
           req[r].pc \in {"idle", "confirm"}, Exec(n, r, n)
    PROVE  EngineStep /\ RequestType' /\ RequestInv'
  <1>1. req[r] \in RequestRecord /\ RequestHolds(r)
    BY DEF RequestType, RequestInv
  <1>2. CASE Leads(n)
    <2>1. ClientWrite(n, r) /\ vote' = vote /\ known' = known /\ known[n] = n
      BY <1>2 DEF Exec, Leads
    <2>2. QED
      BY <2>1, WriteRequests
  <1>3. CASE ~Leads(n) /\ known[n] # 0
    <2> DEFINE new == [req[r] EXCEPT !.pc = "forward", !.via = n, !.at = known[n]]
    <2>1. req' = [req EXCEPT ![r] = new] /\ UNCHANGED <<vote, known, log, commit>>
      BY <1>3 DEF Exec, Update, engineVars
    <2>2. EngineStep /\ \A s \in Requests : NotAppended(s)
      BY <2>1, EngineSame
    <2>3. known[n] \in Nodes
      BY <1>3 DEF EngineInv, EngineType
    <2>4. new \in RequestRecord
      BY <1>1, <2>3 DEF RequestRecord
    <2>5. req'[r] = new
      BY <2>1 DEF RequestType
    <2>6. /\ req'[r].pc = "forward" /\ req'[r].at = known[n]
          /\ req'[r].told = req[r].told /\ req'[r].floor = req[r].floor
      BY <1>1, <2>5 DEF RequestRecord
    <2>7. req[r].told # "ok"
      BY <1>1 DEF RequestHolds, AckedChosen
    <2>8. FloorChosen(r)'
      <3>1. FloorChosen(r) /\ ChosenKept
        BY <1>1, <2>2 DEF RequestHolds, EngineStep
      <3>2. QED
        BY <2>6, <3>1 DEF FloorChosen, ChosenKept
    <2>9. NotLogged(r)'
      BY <1>1, <2>1 DEF RequestHolds, NotLogged
    <2>10. RequestHolds(r)'
      BY <2>3, <2>6, <2>7, <2>8, <2>9 DEF RequestHolds, AckedChosen, ReadCovered, Placed
    <2> HIDE DEF new
    <2>11. QED
      BY <2>1, <2>2, <2>4, <2>10, OneRequest
  <1>4. CASE ~Leads(n) /\ known[n] = 0
    <2>1. Fail(r) /\ UNCHANGED <<vote, known, log, commit>>
      BY <1>4 DEF Exec, engineVars
    <2>2. EngineStep /\ \A s \in Requests : NotAppended(s)
      BY <2>1, EngineSame
    <2>3. QED
      BY <2>1, <2>2, FailRequests
  <1>5. QED
    BY <1>2, <1>3, <1>4

LEMMA ReplicateReadRequests ==
    ASSUME EngineInv, RequestType, RequestInv, NEW n \in Nodes, NEW r \in Requests, ReplicateRead(n, r)
    PROVE  EngineStep /\ RequestType' /\ RequestInv'
  <1>1. /\ req[r] \in RequestRecord /\ RequestHolds(r) /\ req[r].pc = "idle" /\ Kind[r] = "read"
        /\ req[r].told # "ok"
    BY DEF RequestType, RequestInv, ReplicateRead, RequestHolds, AckedChosen
  <1>2. UNCHANGED <<vote, known, log, commit>>
    BY DEF ReplicateRead, engineVars
  <1>3. EngineStep /\ \A s \in Requests : NotAppended(s)
    BY <1>2, EngineSame
  <1>4. AckedIndex \in Nat
    BY AckedIndexChosen
  <1>5. ASSUME NEW new \in RequestRecord, req' = [req EXCEPT ![r] = new], new.pc \in {"forward", "confirm"},
               new.told = req[r].told, new.floor = AckedIndex, new.at \in Nodes, ReadCovered(r)'
        PROVE  RequestType' /\ RequestInv'
    <2>1. req'[r] = new
      BY <1>5 DEF RequestType
    <2>2. NotLogged(r)'
      BY <1>1, <1>2 DEF RequestHolds, NotLogged
    <2>3. FloorChosen(r)'
      <3>1. \/ AckedIndex = 0
            \/ \E p \in Seq(Entries) : Chosen(p) /\ AckedIndex <= Len(p) /\ \A j \in 1..AckedIndex : p[j].req # r
        BY <1>1, FloorStarts
      <3>2. CASE AckedIndex = 0
        BY <1>5, <2>1, <3>2 DEF FloorChosen
      <3>3. CASE AckedIndex # 0
        <4>1. PICK p \in Seq(Entries) : Chosen(p) /\ AckedIndex <= Len(p) /\ \A j \in 1..AckedIndex : p[j].req # r
          BY <3>1, <3>3
        <4>2. Chosen(p)'
          BY <1>3, <4>1 DEF EngineStep, ChosenKept
        <4>3. QED
          BY <1>5, <2>1, <4>1, <4>2 DEF FloorChosen
      <3>4. QED
        BY <3>2, <3>3
    <2>4. AckedChosen(r)' /\ Placed(r)'
      BY <1>1, <1>5, <2>1 DEF AckedChosen, Placed
    <2>5. RequestHolds(r)'
      BY <1>5, <2>2, <2>3, <2>4 DEF RequestHolds
    <2>6. QED
      BY <1>3, <1>5, <2>5, OneRequest
  <1>6. CASE Leads(n)
    <2> DEFINE blank == CHOOSE i \in 1..Len(log[n]) : log[n][i] = [bal |-> vote[n], req |-> "blank"]
               idx == IF commit[n] > blank THEN commit[n] ELSE blank
               new == [req[r] EXCEPT !.pc = "confirm", !.at = n, !.via = n, !.bal = vote[n],
                                     !.floor = AckedIndex, !.idx = idx]
    <2>1. known[n] = n
      BY <1>6 DEF Leads
    <2>2. req' = [req EXCEPT ![r] = new]
      BY <1>6 DEF ReplicateRead, Update
    <2>3. idx \in Nat /\ (AckedIndex <= idx \/ \E Q \in Quorums : \A q \in Q : vote[q] > vote[n])
      BY <2>1, ReadIndexCovers
    <2> HIDE DEF idx
    <2>4. vote[n] \in Nat
      BY RaftAssumption DEF EngineInv, EngineType
    <2>5. /\ new \in RequestRecord /\ new.pc = "confirm" /\ new.told = req[r].told /\ new.floor = AckedIndex
          /\ new.at = n /\ new.bal = vote[n] /\ new.idx = idx
      BY <1>1, <1>4, <2>3, <2>4 DEF RequestRecord
    <2> HIDE DEF new
    <2>6. req'[r] = new
      BY <2>2 DEF RequestType
    <2>7. ReadCovered(r)'
      BY <1>2, <2>3, <2>5, <2>6 DEF ReadCovered
    <2>8. QED
      BY <1>3, <1>5, <2>2, <2>5, <2>7
  <1>7. CASE ~Leads(n) /\ known[n] # 0
    <2> DEFINE new == [req[r] EXCEPT !.pc = "forward", !.via = n, !.at = known[n], !.floor = AckedIndex]
    <2>1. req' = [req EXCEPT ![r] = new]
      BY <1>7 DEF ReplicateRead, Update
    <2>2. known[n] \in Nodes
      BY <1>7 DEF EngineInv, EngineType
    <2>3. /\ new \in RequestRecord /\ new.pc = "forward" /\ new.told = req[r].told /\ new.floor = AckedIndex
          /\ new.at = known[n]
      BY <1>1, <1>4, <2>2 DEF RequestRecord
    <2> HIDE DEF new
    <2>4. req'[r] = new
      BY <2>1 DEF RequestType
    <2>5. ReadCovered(r)'
      BY <2>3, <2>4 DEF ReadCovered
    <2>6. QED
      BY <1>3, <1>5, <2>1, <2>2, <2>3, <2>5
  <1>8. CASE ~Leads(n) /\ known[n] = 0
    <2>1. Fail(r)
      BY <1>8 DEF ReplicateRead
    <2>2. QED
      BY <1>1, <1>3, <2>1, FailRequests
  <1>9. QED
    BY <1>6, <1>7, <1>8

LEMMA ConfirmRequests ==
    ASSUME EngineInv, RequestType, RequestInv, NEW r \in Requests, ConfirmLeader(r)
    PROVE  EngineStep /\ RequestType' /\ RequestInv'
  <1> DEFINE n == req[r].at
             new == [req[r] EXCEPT !.pc = "confirmed"]
  <1>1. req[r] \in RequestRecord /\ RequestHolds(r) /\ req[r].pc = "confirm" /\ vote[n] = req[r].bal /\ n \in Nodes
    BY DEF RequestType, RequestInv, ConfirmLeader, RequestHolds, Placed
  <1>2. UNCHANGED <<vote, known, log, commit>> /\ req' = [req EXCEPT ![r] = new]
    BY DEF ConfirmLeader, engineVars, Update
  <1>3. EngineStep /\ \A s \in Requests : NotAppended(s)
    BY <1>2, EngineSame
  <1>4. new \in RequestRecord /\ req'[r] = new
    BY <1>1, <1>2 DEF RequestRecord, RequestType
  <1>5. /\ req'[r].pc = "confirmed" /\ req'[r].told = req[r].told /\ req'[r].floor = req[r].floor
        /\ req'[r].idx = req[r].idx /\ req'[r].at = req[r].at
    BY <1>1, <1>4 DEF RequestRecord
  <1>6. req[r].floor <= req[r].idx
    <2>1. SUFFICES ASSUME NEW R \in Quorums, \A q \in R : vote[q] > req[r].bal PROVE FALSE
      BY <1>1 DEF RequestHolds, ReadCovered
    <2>2. PICK Q \in Quorums : \A m \in Q : vote[m] <= vote[n]
      BY DEF ConfirmLeader
    <2>3. PICK q \in Nodes : q \in Q /\ q \in R
      BY <2>1, <2>2, QuorumsMeet
    <2>4. vote[q] \in Nat /\ vote[n] \in Nat
      BY <1>1, RaftAssumption DEF EngineInv, EngineType
    <2>5. vote[q] > vote[n] /\ vote[q] <= vote[n]
      BY <1>1, <2>1, <2>2, <2>3
    <2>6. QED
      BY <2>4, <2>5
  <1>7. FloorChosen(r)'
    <2>1. FloorChosen(r) /\ ChosenKept
      BY <1>1, <1>3 DEF RequestHolds, EngineStep
    <2>2. QED
      BY <1>1, <1>5, <2>1 DEF FloorChosen, ChosenKept
  <1>8. AckedChosen(r)' /\ NotLogged(r)' /\ Placed(r)' /\ ReadCovered(r)'
    BY <1>1, <1>2, <1>5, <1>6 DEF RequestHolds, AckedChosen, NotLogged, Placed, ReadCovered
  <1>9. RequestHolds(r)'
    BY <1>7, <1>8 DEF RequestHolds
  <1> HIDE DEF new
  <1>10. QED
    BY <1>2, <1>3, <1>4, <1>9, OneRequest

LEMMA ServeRequests ==
    ASSUME EngineInv, MachineInv, RequestType, RequestInv, NEW r \in Requests, ServeRead(r)
    PROVE  EngineStep /\ RequestType' /\ RequestInv'
  <1> DEFINE n == req[r].at
             new == [Ended(r, "ok") EXCEPT !.stale = applied[n] < req[r].floor]
  <1>1. req[r] \in RequestRecord /\ RequestHolds(r) /\ req[r].pc = "confirmed" /\ n \in Nodes /\ Kind[r] = "read"
    BY DEF RequestType, RequestInv, ServeRead, RequestHolds, Placed
  <1>2. UNCHANGED <<vote, known, log, commit>> /\ req' = [req EXCEPT ![r] = new] /\ applied[n] >= req[r].idx
    BY <1>1 DEF ServeRead, Succeed, engineVars
  <1>3. EngineStep /\ \A s \in Requests : NotAppended(s)
    BY <1>2, EngineSame
  <1>4. ~(applied[n] < req[r].floor)
    <2>1. applied[n] \in Nat /\ req[r].floor \in Nat /\ req[r].idx \in Nat
      BY <1>1 DEF MachineInv, RequestRecord
    <2>2. req[r].floor <= req[r].idx
      BY <1>1 DEF RequestHolds, ReadCovered
    <2>3. QED
      BY <1>2, <2>1, <2>2
  <1>5. new = [Ended(r, "ok") EXCEPT !.stale = FALSE]
    <2>1. (applied[n] < req[r].floor) = FALSE
      BY <1>4
    <2>2. QED
      BY <2>1
  <1> HIDE DEF new
  <1>6. Ended(r, "ok") \in RequestRecord /\ Ended(r, "ok").pc = "done"
    <2>1. Ended(r, "ok").pc = "done"
      BY DEF Ended, NewRequest
    <2>2. QED
      BY <2>1, EndedType
  <1>7. new \in RequestRecord /\ new.pc = "done" /\ ~new.stale
    BY <1>5, <1>6 DEF RequestRecord
  <1>8. req'[r] = new
    BY <1>2 DEF RequestType
  <1>9. RequestHolds(r)'
    BY <1>1, <1>7, <1>8 DEF RequestHolds, AckedChosen, NotLogged, FloorChosen, Placed, ReadCovered
  <1>10. QED
    BY <1>2, <1>3, <1>7, <1>9, OneRequest

LEMMA FallBackRequests ==
    ASSUME EngineInv, RequestType, RequestInv, NEW r \in Requests, FallBack(r)
    PROVE  EngineStep /\ RequestType' /\ RequestInv'
  <1>1. req[r].at \in Nodes /\ req[r].pc = "confirm" /\ Exec(req[r].at, r, req[r].at)
    BY DEF FallBack, RequestInv, RequestHolds, Placed
  <1>2. QED
    BY <1>1, ExecRequests

LEMMA ForwardedRequests ==
    ASSUME EngineInv, RequestType, RequestInv, NEW r \in Requests, HandleForwarded(r)
    PROVE  EngineStep /\ RequestType' /\ RequestInv'
  <1> DEFINE n == req[r].at
  <1>1. n \in Nodes /\ req[r].pc = "forward"
    BY DEF HandleForwarded, RequestInv, RequestHolds, Placed
  <1>2. CASE Leads(n)
    <2>1. ClientWrite(n, r) /\ vote' = vote /\ known' = known /\ known[n] = n
      BY <1>2 DEF HandleForwarded, Leads
    <2> HIDE DEF n
    <2>2. QED
      BY <1>1, <2>1, WriteRequests
  <1>3. CASE ~Leads(n)
    <2>1. Fail(r) /\ UNCHANGED <<vote, known, log, commit>>
      BY <1>3 DEF HandleForwarded, engineVars
    <2>2. EngineStep /\ \A s \in Requests : NotAppended(s)
      BY <2>1, EngineSame
    <2>3. QED
      BY <1>1, <2>1, <2>2, FailRequests
  <1>4. QED
    BY <1>2, <1>3

LEMMA TimeOutRequests ==
    ASSUME EngineInv, RequestType, RequestInv, NEW r \in Requests, ForwardTimesOut(r)
    PROVE  EngineStep /\ RequestType' /\ RequestInv'
  <1> DEFINE new == [req[r] EXCEPT !.told = "err"]
  <1>1. req[r] \in RequestRecord /\ RequestHolds(r)
    BY DEF RequestType, RequestInv
  <1>2. UNCHANGED <<vote, known, log, commit>> /\ req' = [req EXCEPT ![r] = new]
    BY DEF ForwardTimesOut, engineVars, Update
  <1>3. EngineStep /\ \A s \in Requests : NotAppended(s)
    BY <1>2, EngineSame
  <1>4. new \in RequestRecord /\ req'[r] = new
    BY <1>1, <1>2 DEF RequestRecord, RequestType
  <1>5. /\ req'[r].told = "err" /\ req'[r].pc = req[r].pc /\ req'[r].floor = req[r].floor
        /\ req'[r].idx = req[r].idx /\ req'[r].at = req[r].at /\ req'[r].bal = req[r].bal
    BY <1>1, <1>4 DEF RequestRecord
  <1>6. FloorChosen(r)'
    <2>1. FloorChosen(r) /\ ChosenKept
      BY <1>1, <1>3 DEF RequestHolds, EngineStep
    <2>2. QED
      BY <1>5, <2>1 DEF FloorChosen, ChosenKept
  <1>7. AckedChosen(r)' /\ NotLogged(r)' /\ Placed(r)' /\ ReadCovered(r)'
    BY <1>1, <1>2, <1>5 DEF RequestHolds, AckedChosen, NotLogged, Placed, ReadCovered
  <1>8. RequestHolds(r)'
    BY <1>6, <1>7 DEF RequestHolds
  <1> HIDE DEF new
  <1>9. QED
    BY <1>2, <1>3, <1>4, <1>8, OneRequest

\* An entry that is applied is chosen at its index.
LEMMA AppliedChosen ==
    ASSUME EngineInv, MachineInv, NEW n \in Nodes, NEW i \in Nat, i > 0, i <= applied[n]
    PROVE  \E p \in Seq(Entries) : Chosen(p) /\ i <= Len(p) /\ p[i] = log[n][i]
  <1>1. applied[n] \in Nat /\ commit[n] \in Nat /\ applied[n] <= commit[n]
    BY DEF EngineInv, EngineType, MachineInv
  <1>2. commit[n] # 0 /\ i \in 1..commit[n]
    BY <1>1
  <1>3. PICK p \in Seq(Entries) : Chosen(p) /\ commit[n] <= Len(p) /\ \A k \in 1..commit[n] : p[k] = log[n][k]
    BY <1>2 DEF EngineInv, Committed, CommittedAt
  <1>4. Len(p) \in Nat
    OBVIOUS
  <1>5. QED
    BY <1>1, <1>2, <1>3, <1>4

LEMMA AnswerRequests ==
    ASSUME EngineInv, MachineInv, RequestType, RequestInv, NEW r \in Requests, AnswerWrite(r)
    PROVE  EngineStep /\ RequestType' /\ RequestInv'
  <1> DEFINE n == req[r].at
             i == req[r].idx
             mine == i <= Len(log[n]) /\ log[n][i] = [bal |-> req[r].bal, req |-> r]
  <1>1. req[r] \in RequestRecord /\ RequestHolds(r) /\ req[r].pc = "wait" /\ n \in Nodes /\ i > 0
    BY DEF RequestType, RequestInv, AnswerWrite, RequestHolds, Placed
  <1>2. UNCHANGED <<vote, known, log, commit>>
    BY DEF AnswerWrite, engineVars
  <1>3. EngineStep /\ \A s \in Requests : NotAppended(s)
    BY <1>2, EngineSame
  <1>4. i \in Nat /\ req[r].bal \in Nat /\ req[r].floor \in Nat
    BY <1>1 DEF RequestRecord
  <1>5. CASE mine /\ applied[n] >= i /\ Succeed(r, i)
    <2>1. i <= applied[n]
      <3>1. applied[n] \in Nat
        BY <1>1 DEF MachineInv
      <3>2. QED
        BY <1>4, <1>5, <3>1
    <2>2. \E p \in Seq(Entries) : Chosen(p) /\ i <= Len(p) /\ p[i] = log[n][i]
      <3> HIDE DEF n, i
      <3>1. QED
        BY <1>1, <1>4, <2>1, AppliedChosen
    <2>3. PICK p \in Seq(Entries) : Chosen(p) /\ i <= Len(p) /\ p[i] = [bal |-> req[r].bal, req |-> r]
      BY <1>5, <2>2
    <2>4. Chosen(p)' /\ i \in 1..Len(p)
      <3>1. Len(p) \in Nat
        OBVIOUS
      <3>2. QED
        BY <1>1, <1>3, <1>4, <2>3, <3>1 DEF EngineStep, ChosenKept
    <2>5. ~(i < req[r].floor)
      <3>1. SUFFICES ASSUME i < req[r].floor PROVE FALSE
        OBVIOUS
      <3>2. req[r].floor # 0
        BY <1>4, <3>1
      <3>3. PICK q \in Seq(Entries) : /\ Chosen(q) /\ req[r].floor <= Len(q)
                                      /\ \A j \in 1..req[r].floor : q[j].req # r
        BY <1>1, <3>2 DEF RequestHolds, FloorChosen
      <3>4. i \in 1..req[r].floor /\ i <= Len(q) /\ 1 <= i
        <4>1. Len(q) \in Nat
          OBVIOUS
        <4>2. QED
          BY <1>1, <1>4, <3>1, <3>3, <4>1
      <3>5. \A k \in Nat : 1 <= k /\ k <= Len(p) /\ k <= Len(q) => p[k] = q[k]
        BY <2>3, <3>3, ChosenAgree DEF EngineInv
      <3>6. p[i] = q[i]
        BY <1>4, <2>3, <3>4, <3>5
      <3>7. p[i].req = r
        BY <2>3
      <3>8. QED
        BY <3>3, <3>4, <3>6, <3>7
    <2>6. /\ Ended(r, "ok") \in RequestRecord /\ Ended(r, "ok").pc = "done" /\ ~Ended(r, "ok").stale
          /\ Ended(r, "ok").told \in {"ok", req[r].told}
      <3>1. Ended(r, "ok").pc = "done" /\ ~Ended(r, "ok").stale /\ Ended(r, "ok").told \in {"ok", req[r].told}
        BY DEF Ended, NewRequest
      <3>2. QED
        BY <3>1, EndedType
    <2>7. CASE Kind[r] = "read"
      <3> DEFINE new == [Ended(r, "ok") EXCEPT !.stale = i < req[r].floor]
      <3>1. req' = [req EXCEPT ![r] = new]
        BY <1>5, <2>7 DEF Succeed
      <3>2. (i < req[r].floor) = FALSE
        BY <2>5
      <3>3. new = [Ended(r, "ok") EXCEPT !.stale = FALSE]
        BY <3>2
      <3> HIDE DEF new
      <3>4. new \in RequestRecord /\ new.pc = "done" /\ ~new.stale
        BY <2>6, <3>3 DEF RequestRecord
      <3>5. req'[r] = new
        BY <3>1 DEF RequestType
      <3>6. RequestHolds(r)'
        BY <2>7, <3>4, <3>5 DEF RequestHolds, AckedChosen, NotLogged, FloorChosen, Placed, ReadCovered
      <3>7. QED
        BY <1>3, <3>1, <3>4, <3>6, OneRequest
    <2>8. CASE Kind[r] # "read"
      <3> DEFINE new == [Ended(r, "ok") EXCEPT !.idx = req[r].idx, !.bal = req[r].bal]
      <3>1. req' = [req EXCEPT ![r] = new]
        BY <1>5, <2>8 DEF Succeed
      <3>2. new \in RequestRecord /\ new.pc = "done" /\ ~new.stale /\ new.idx = i /\ new.bal = req[r].bal
        BY <1>4, <2>6 DEF RequestRecord
      <3> HIDE DEF new
      <3>3. req'[r] = new
        BY <3>1 DEF RequestType
      <3>4. AckedChosen(r)'
        BY <2>3, <2>4, <3>2, <3>3 DEF AckedChosen
      <3>5. RequestHolds(r)'
        BY <3>2, <3>3, <3>4 DEF RequestHolds, NotLogged, FloorChosen, Placed, ReadCovered
      <3>6. QED
        BY <1>3, <3>1, <3>2, <3>5, OneRequest
    <2>9. QED
      BY <2>7, <2>8
  <1>6. CASE Fail(r)
    BY <1>1, <1>3, <1>6, FailRequests
  <1>7. QED
    BY <1>5, <1>6 DEF AnswerWrite

LEMMA StopRequests ==
    ASSUME EngineInv, RequestType, RequestInv, NEW n \in Nodes, Stop(n)
    PROVE  EngineStep /\ RequestType' /\ RequestInv'
  <1>1. UNCHANGED <<vote, known, log, commit>> /\ Abandon(n)
    BY DEF Stop, engineVars
  <1>2. EngineStep /\ \A s \in Requests : NotAppended(s)
    BY <1>1, EngineSame
  <1>3. ASSUME NEW r \in Requests
        PROVE  req'[r] = req[r] \/ (req'[r] = Ended(r, "err") /\ req[r].pc # "done")
    BY <1>1 DEF Abandon
  <1>4. RequestType'
    <2>1. \A r \in Requests : req'[r] \in RequestRecord
      BY <1>3, EndedType DEF RequestType
    <2>2. req' = [r \in Requests |-> req'[r]]
      BY <1>1 DEF Abandon
    <2>3. QED
      BY <2>1, <2>2 DEF RequestType
  <1>5. ASSUME NEW r \in Requests PROVE RequestHolds(r)'
    <2>1. RequestHolds(r)
      BY DEF RequestInv
    <2>2. CASE req'[r] = req[r]
      BY <1>2, <2>1, <2>2, RequestSame
    <2>3. CASE req'[r] = Ended(r, "err") /\ req[r].pc # "done"
      BY <2>1, <2>3, RequestFails
    <2>4. QED
      BY <1>3, <2>2, <2>3
  <1>6. QED
    BY <1>2, <1>4, <1>5 DEF RequestInv
-----------------------------------------------------------------------------
(* The theorems                                                            *)

LEMMA InitHolds == Init => IInv
  <1>1. SUFFICES ASSUME Init PROVE IInv
    OBVIOUS
  <1>2. \A n \in Nodes : /\ log[n] = <<>> /\ vote[n] = 0 /\ known[n] = 0 /\ commit[n] = 0 /\ n # 0
                         /\ applied[n] = 0 /\ purged[n] = 0 /\ store[n] = NoStore
                         /\ ~building[n].on /\ ~current[n].on /\ Len(log[n]) = 0
    <2>1. \A n \in Nodes : n # 0
      BY RaftAssumption, FS_CardinalityType
    <2>2. \A n \in Nodes : /\ log[n] = <<>> /\ vote[n] = 0 /\ known[n] = 0 /\ commit[n] = 0
                           /\ applied[n] = 0 /\ purged[n] = 0 /\ store[n] = NoStore
      BY <1>1 DEF Init, FreshLog, FreshVote
    <2>3. \A n \in Nodes : ~building[n].on /\ ~current[n].on
      BY <1>1 DEF Init, NoSnapshot
    <2>4. Len(<<>>) = 0
      OBVIOUS
    <2>5. QED
      BY <2>1, <2>2, <2>3, <2>4
  <1>3. EngineType
    <2>1. <<>> \in Seq(Entries) /\ 0 \in 0..MaxBallot
      BY RaftAssumption
    <2>2. QED
      BY <1>1, <1>2, <2>1 DEF EngineType, Init, FreshLog, FreshVote
  <1>4. Sorted /\ Elected /\ Matching /\ Leading /\ Committed
    BY <1>2 DEF Sorted, Elected, Matching, Leading, Committed, CommittedAt
  <1>5. PhaseType /\ MachineType
    BY <1>1 DEF Init, PhaseType, MachineType
  <1>6. MachineInv
    BY <1>2 DEF MachineInv
  <1>7. Replayed
    <2> DEFINE f == [i \in 0..0 |-> NoStore]
    <2>1. SubSeq(<<>>, 1, 0) = <<>> /\ Len(<<>>) = 0 /\ Len(<<>>) \in Nat
      OBVIOUS
    <2>2. f[0] = NoStore /\ Follows(f, NoStore, <<>>)
      BY <2>1 DEF Follows
    <2> HIDE DEF f
    <2>3. ApplyAll(NoStore, <<>>) = NoStore
      BY <2>1, <2>2, ApplyEnds
    <2>4. QED
      BY <1>2, <2>1, <2>3 DEF Replayed
  <1>8. RequestType
    BY <1>1 DEF Init, RequestType, RequestRecord, NewRequest
  <1>9. RequestInv
    <2>1. \A r \in Requests : req[r].pc = "idle" /\ req[r].told = None /\ req[r].floor = 0
      BY <1>1 DEF Init, NewRequest
    <2>2. QED
      BY <1>2, <2>1 DEF RequestInv, RequestHolds, AckedChosen, NotLogged, FloorChosen, ReadCovered, Placed, None
  <1>10. QED
    BY <1>3, <1>4, <1>5, <1>6, <1>7, <1>8, <1>9 DEF IInv, EngineInv

\* The phase of a replica.
LEMMA PhaseStays == PhaseType /\ [Next]_vars => PhaseType'
  <1>1. SUFFICES ASSUME PhaseType, [Next]_vars PROVE PhaseType'
    OBVIOUS
  <1>2. ASSUME NEW n \in Nodes, NEW v \in {"started", "up", "failed", "down"}, phase' = [phase EXCEPT ![n] = v]
        PROVE  PhaseType'
    BY <1>1, <1>2 DEF PhaseType
  <1>3. CASE phase' = phase
    BY <1>1, <1>3 DEF PhaseType
  <1>4. ASSUME NEW n \in Nodes, StartServices(n) \/ Initialize(n) \/ Stop(n) PROVE PhaseType'
    BY <1>2, <1>4 DEF StartServices, Initialize, Stop
  <1>5. CASE Progress
    <2>1. (\E n \in Nodes : StartServices(n) \/ Initialize(n)) \/ phase' = phase
      BY <1>5 DEF Progress, Apply, Replicate, ConfirmLeader, ServeRead, FallBack,
                  HandleForwarded, ForwardTimesOut, AnswerWrite
    <2>2. QED
      BY <1>3, <1>4, <2>1
  <1>6. CASE Next /\ ~Progress
    <2>1. (\E n \in Nodes : Stop(n)) \/ phase' = phase
      <3>1. ASSUME NEW n \in Nodes, GetSnapshotBuilder(n) \/ BuildSnapshot(n) PROVE phase' = phase
        BY <3>1 DEF GetSnapshotBuilder, BuildSnapshot
      <3>2. ASSUME NEW n \in Nodes, NEW b \in 1..MaxBallot, NEW Q \in Quorums, Elect(n, b, Q) PROVE phase' = phase
        BY <3>2 DEF Elect
      <3>3. ASSUME NEW n \in Nodes, NEW r \in Requests, ReplicateWrite(n, r) \/ ReplicateRead(n, r)
            PROVE  phase' = phase
        BY <3>3 DEF ReplicateWrite, ReplicateRead
      <3>4. QED
        BY <1>6, <3>1, <3>2, <3>3 DEF Next
    <2>2. QED
      BY <1>3, <1>4, <2>1
  <1>7. QED
    BY <1>1, <1>3, <1>5, <1>6 DEF vars

\* What a step establishes.
Kept == EngineInv' /\ MachineHolds' /\ RequestType' /\ RequestInv'

\* A step that only changes requests, and the engine along with them.
LEMMA RequestStep ==
    ASSUME EngineInv, MachineHolds, EngineStep, RequestType', RequestInv', UNCHANGED <<machineVars, snapVars>>
    PROVE  Kept
  <1>1. UNCHANGED <<applied, store, current, purged, building, snap>>
    BY DEF machineVars, snapVars
  <1>2. MachineHolds'
    BY <1>1, MachineSame
  <1>3. QED
    BY <1>2 DEF Kept, EngineStep

\* A step of a replica that no request takes part in.
LEMMA QuietStep ==
    ASSUME EngineInv, MachineHolds, MachineHolds', EngineStep, RequestType, RequestInv, req' = req,
           \A r \in Requests : NotAppended(r)
    PROVE  Kept
  BY NoRequest DEF Kept, EngineStep

LEMMA ReplicaKeeps ==
    ASSUME EngineInv, MachineHolds, RequestType, RequestInv, NEW n \in Nodes,
           \/ StartServices(n) \/ Initialize(n) \/ Apply(n)
           \/ GetSnapshotBuilder(n) \/ BuildSnapshot(n) \/ Stop(n)
    PROVE  Kept
  <1>1. CASE StartServices(n)
    <2>1. UNCHANGED <<vote, known, log, commit>> /\ req' = req
          /\ UNCHANGED <<applied, store, current, purged, building, snap>>
      BY <1>1 DEF StartServices, engineVars, machineVars, snapVars
    <2>2. QED
      BY <2>1, EngineSame, MachineSame, QuietStep
  <1>2. CASE Initialize(n)
    <2>1. EngineStep /\ \A r \in Requests : NotAppended(r)
      BY <1>2, InitializeEngine
    <2>2. req' = req /\ UNCHANGED <<applied, store, current, purged, building, snap>>
      BY <1>2 DEF Initialize, machineVars, snapVars
    <2>3. QED
      BY <2>1, <2>2, MachineSame, QuietStep
  <1>3. CASE Apply(n)
    <2>1. UNCHANGED <<vote, known, log, commit>> /\ req' = req
      BY <1>3 DEF Apply, engineVars
    <2>2. QED
      BY <1>3, <2>1, EngineSame, ApplyMachine, QuietStep
  <1>4. CASE GetSnapshotBuilder(n)
    <2>1. UNCHANGED <<vote, known, log, commit>> /\ req' = req
      BY <1>4 DEF GetSnapshotBuilder, engineVars
    <2>2. QED
      BY <1>4, <2>1, EngineSame, BuilderMachine, QuietStep
  <1>5. CASE BuildSnapshot(n)
    <2>1. UNCHANGED <<vote, known, log, commit>> /\ req' = req
      BY <1>5 DEF BuildSnapshot, engineVars
    <2>2. QED
      BY <1>5, <2>1, EngineSame, BuildMachine, QuietStep
  <1>6. CASE Stop(n)
    <2>1. UNCHANGED <<machineVars, snapVars>>
      BY <1>6 DEF Stop
    <2>2. QED
      BY <1>6, <2>1, StopRequests, RequestStep
  <1>7. QED
    BY <1>1, <1>2, <1>3, <1>4, <1>5, <1>6

LEMMA ReplicateKeeps ==
    ASSUME EngineInv, MachineHolds, RequestType, RequestInv, NEW l \in Nodes, NEW f \in Nodes, Replicate(l, f)
    PROVE  Kept
  <1>1. req' = req
    BY DEF Replicate
  <1>2. QED
    BY <1>1, ReplicateStep, QuietStep

LEMMA ElectKeeps ==
    ASSUME EngineInv, MachineHolds, RequestType, RequestInv,
           NEW n \in Nodes, NEW b \in 1..MaxBallot, NEW Q \in Quorums, Elect(n, b, Q)
    PROVE  Kept
  <1>1. req' = req /\ UNCHANGED <<applied, store, current, purged, building, snap>>
    BY DEF Elect, machineVars, snapVars
  <1>2. QED
    BY <1>1, ElectEngine, MachineSame, QuietStep

LEMMA RequestKeeps ==
    ASSUME EngineInv, MachineHolds, RequestType, RequestInv, NEW r \in Requests,
           \/ ConfirmLeader(r) \/ ServeRead(r) \/ FallBack(r)
           \/ HandleForwarded(r) \/ ForwardTimesOut(r) \/ AnswerWrite(r)
    PROVE  Kept
  <1>1. UNCHANGED <<machineVars, snapVars>>
    BY DEF ConfirmLeader, ServeRead, FallBack, HandleForwarded, ForwardTimesOut, AnswerWrite
  <1>2. MachineInv
    BY DEF MachineHolds
  <1>3. EngineStep /\ RequestType' /\ RequestInv'
    BY <1>2, ConfirmRequests, ServeRequests, FallBackRequests, ForwardedRequests, TimeOutRequests, AnswerRequests
  <1>4. QED
    BY <1>1, <1>3, RequestStep

LEMMA ClientKeeps ==
    ASSUME EngineInv, MachineHolds, RequestType, RequestInv, NEW n \in Nodes, NEW r \in Requests,
           ReplicateWrite(n, r) \/ ReplicateRead(n, r)
    PROVE  Kept
  <1>1. UNCHANGED <<machineVars, snapVars>>
    BY DEF ReplicateWrite, ReplicateRead
  <1>2. CASE ReplicateWrite(n, r)
    <2>1. req[r].pc = "idle" /\ Exec(n, r, n)
      BY <1>2 DEF ReplicateWrite
    <2>2. QED
      BY <1>1, <2>1, ExecRequests, RequestStep
  <1>3. CASE ReplicateRead(n, r)
    BY <1>1, <1>3, ReplicateReadRequests, RequestStep
  <1>4. QED
    BY <1>2, <1>3

LEMMA StepHolds == IInv /\ [Next]_vars => IInv'
  <1>1. SUFFICES ASSUME IInv, [Next]_vars PROVE IInv'
    OBVIOUS
  <1>2. EngineInv /\ MachineHolds /\ RequestType /\ RequestInv /\ PhaseType
    BY <1>1 DEF IInv, MachineHolds
  <1>3. CASE Next
    <2>1. ASSUME Progress PROVE Kept
      <3>1. ASSUME NEW n \in Nodes, StartServices(n) \/ Initialize(n) \/ Apply(n) PROVE Kept
        BY <1>2, <3>1, ReplicaKeeps
      <3>2. ASSUME NEW l \in Nodes, NEW f \in Nodes, Replicate(l, f) PROVE Kept
        BY <1>2, <3>2, ReplicateKeeps
      <3>3. ASSUME NEW r \in Requests, \/ ConfirmLeader(r) \/ ServeRead(r) \/ FallBack(r)
                                      \/ HandleForwarded(r) \/ ForwardTimesOut(r) \/ AnswerWrite(r)
            PROVE  Kept
        BY <1>2, <3>3, RequestKeeps
      <3>4. QED
        BY <2>1, <3>1, <3>2, <3>3 DEF Progress
    <2>2. ASSUME NEW n \in Nodes, GetSnapshotBuilder(n) \/ BuildSnapshot(n) \/ Stop(n) PROVE Kept
      BY <1>2, <2>2, ReplicaKeeps
    <2>3. ASSUME NEW n \in Nodes, NEW b \in 1..MaxBallot, NEW Q \in Quorums, Elect(n, b, Q) PROVE Kept
      BY <1>2, <2>3, ElectKeeps
    <2>4. ASSUME NEW n \in Nodes, NEW r \in Requests, ReplicateWrite(n, r) \/ ReplicateRead(n, r) PROVE Kept
      BY <1>2, <2>4, ClientKeeps
    <2>5. Kept
      BY <1>3, <2>1, <2>2, <2>3, <2>4 DEF Next
    <2>6. PhaseType'
      BY <1>1, <1>2, PhaseStays
    <2>7. QED
      BY <2>5, <2>6 DEF Kept, IInv, MachineHolds
  <1>4. CASE UNCHANGED vars
    <2>1. /\ UNCHANGED <<vote, known, log, commit>> /\ req' = req
          /\ UNCHANGED <<applied, store, current, purged, building, snap>>
      BY <1>4 DEF vars, engineVars, machineVars, snapVars
    <2>2. Kept
      BY <1>2, <2>1, EngineSame, MachineSame, QuietStep
    <2>3. PhaseType'
      BY <1>1, <1>2, PhaseStays
    <2>4. QED
      BY <2>2, <2>3 DEF Kept, IInv, MachineHolds
  <1>5. QED
    BY <1>1, <1>3, <1>4

LEMMA Inductive == Spec => []IInv
  BY InitHolds, StepHolds, PTL DEF Spec

\* Applying entries to a store gives a store.
LEMMA ApplyType ==
    ASSUME NEW st \in [Keys -> Requests \cup {None}], NEW s \in Seq(Entries)
    PROVE  ApplyAll(st, s) \in [Keys -> Requests \cup {None}]
  <1>1. PICK f : Recursion(f, st, s)
    <2>1. Len(s) \in Nat
      OBVIOUS
    <2>2. QED
      BY <2>1, StoresExist
  <1>2. Len(s) \in Nat
    OBVIOUS
  <1>3. f[0] = st /\ \A i \in 1..Len(s) : f[i] = ApplyEntry(f[i - 1], s[i])
    BY <1>1, <1>2 DEF Recursion
  <1>4. ApplyAll(st, s) = f[Len(s)]
    <2>1. Follows(f, st, s)
      BY <1>3 DEF Follows
    <2>2. QED
      BY <1>2, <2>1, ApplyEnds
  <1> DEFINE Bad == {c \in Nat : c <= Len(s) /\ f[c] \notin [Keys -> Requests \cup {None}]}
  <1>5. SUFFICES ASSUME Bad # {} PROVE FALSE
    BY <1>2, <1>4
  <1>6. PICK c \in Bad : \A d \in Bad : c <= d
    <2>1. Bad \subseteq Nat
      OBVIOUS
    <2> HIDE DEF Bad
    <2>2. QED
      BY <1>5, <2>1, Least
  <1>7. c \in Nat /\ c <= Len(s) /\ c # 0 /\ c \in 1..Len(s)
    BY <1>2, <1>3
  <1>8. c - 1 \in Nat /\ c - 1 \notin Bad /\ c - 1 <= Len(s)
    <2>1. c - 1 \in Nat /\ c - 1 <= Len(s) /\ ~(c <= c - 1)
      BY <1>2, <1>7
    <2> HIDE DEF Bad
    <2>2. QED
      BY <1>6, <2>1
  <1>9. f[c - 1] \in [Keys -> Requests \cup {None}]
    BY <1>8
  <1>10. f[c] = ApplyEntry(f[c - 1], s[c])
    BY <1>3, <1>7
  <1>11. ApplyEntry(f[c - 1], s[c]) \in [Keys -> Requests \cup {None}]
    BY <1>9 DEF ApplyEntry, ApplyShardRequest
  <1>12. QED
    BY <1>10, <1>11

\* The variables of a Raft shard keep their types: a replica applies only what it
\* knows to be committed, purges only what it applied, and never takes for
\* committed more than its log holds, snapshots and truncations included.
THEOREM TypeCorrect == Spec => []TypeOK
  <1>1. IInv => TypeOK
    <2>1. SUFFICES ASSUME IInv PROVE TypeOK
      OBVIOUS
    <2>2. EngineType /\ MachineInv /\ MachineType /\ Replayed /\ PhaseType
      BY <2>1 DEF IInv, EngineInv
    <2>3. store \in [Nodes -> [Keys -> Requests \cup {None}]]
      <3>1. ASSUME NEW n \in Nodes PROVE store[n] \in [Keys -> Requests \cup {None}]
        <4>1. /\ log[n] \in Seq(Entries) /\ Len(log[n]) \in Nat /\ commit[n] \in Nat /\ applied[n] \in Nat
              /\ applied[n] <= commit[n] /\ commit[n] <= Len(log[n])
          BY <2>2 DEF EngineType, MachineInv
        <4>2. SubSeq(log[n], 1, applied[n]) \in Seq(Entries)
          BY <4>1
        <4>3. NoStore \in [Keys -> Requests \cup {None}]
          BY DEF NoStore
        <4>4. store[n] = ApplyAll(NoStore, SubSeq(log[n], 1, applied[n]))
          BY <2>2 DEF Replayed
        <4>5. QED
          BY <4>2, <4>3, <4>4, ApplyType, Zenon
      <3>2. store = [n \in Nodes |-> store[n]]
        BY <2>2 DEF MachineType
      <3>3. QED
        BY <3>1, <3>2
    <2>4. QED
      BY <2>2, <2>3 DEF TypeOK, EngineType, MachineInv, PhaseType
  <1>2. QED
    BY <1>1, Inductive, PTL

\* The replicas of a shard never diverge: every store is what its applied entries
\* leave in an empty one, and two replicas agree on every entry both applied,
\* whatever elections, conflicting logs, snapshots and crashes there were.
THEOREM ReplicasAlwaysAgree == Spec => []ReplicasAgree
  <1>1. IInv => ReplicasAgree
    <2>1. SUFFICES ASSUME IInv PROVE ReplicasAgree
      OBVIOUS
    <2>2. EngineInv /\ MachineInv /\ Replayed
      BY <2>1 DEF IInv
    <2>3. ASSUME NEW n \in Nodes, NEW m \in Nodes, NEW i \in 1..applied[n], i <= applied[m]
          PROVE  log[n][i] = log[m][i]
      <3>1. i \in Nat /\ i > 0 /\ i <= applied[n]
        <4>1. applied[n] \in Nat
          BY <2>2 DEF MachineInv
        <4>2. QED
          BY <4>1
      <3>2. PICK p \in Seq(Entries) : Chosen(p) /\ i <= Len(p) /\ p[i] = log[n][i]
        BY <2>2, <3>1, AppliedChosen
      <3>3. PICK q \in Seq(Entries) : Chosen(q) /\ i <= Len(q) /\ q[i] = log[m][i]
        BY <2>2, <2>3, <3>1, AppliedChosen
      <3>4. \A k \in Nat : 1 <= k /\ k <= Len(p) /\ k <= Len(q) => p[k] = q[k]
        BY <2>2, <3>2, <3>3, ChosenAgree DEF EngineInv
      <3>5. QED
        BY <3>1, <3>2, <3>3, <3>4
    <2>4. QED
      BY <2>2, <2>3 DEF ReplicasAgree, Replayed
  <1>2. QED
    BY <1>1, Inductive, PTL

\* What clients were told stays true: an acknowledged write is at its index in
\* the log of every leader that is not stale, and no read that was answered
\* missed a write acknowledged before it began.
THEOREM AlwaysLinearizable == Spec => []Linearizable
  <1>1. IInv => Linearizable
    <2>1. SUFFICES ASSUME IInv PROVE Linearizable
      OBVIOUS
    <2>2. EngineInv /\ EngineType /\ Matching /\ Leading /\ RequestInv
      BY <2>1 DEF IInv, EngineInv
    <2>3. ReadsAreFresh
      BY <2>2 DEF ReadsAreFresh, RequestInv, RequestHolds, AckedChosen
    <2>4. AcknowledgedSurvives
      <3>1. SUFFICES ASSUME NEW r \in Requests, req[r].told = "ok", Kind[r] # "read", NEW n \in Nodes, LeadsQuorum(n)
                     PROVE  req[r].idx \in 1..Len(log[n]) /\ log[n][req[r].idx] = [bal |-> req[r].bal, req |-> r]
        BY DEF AcknowledgedSurvives
      <3>2. PICK p \in Seq(Entries) : /\ Chosen(p) /\ req[r].idx \in 1..Len(p)
                                      /\ p[req[r].idx] = [bal |-> req[r].bal, req |-> r]
        BY <2>2, <3>1 DEF RequestInv, RequestHolds, AckedChosen
      <3>3. PICK Q \in Quorums : \A m \in Q : vote[m] <= vote[n]
        BY <3>1 DEF LeadsQuorum
      <3>4. PICK R \in Quorums : \A q \in R : vote[q] >= Bal(p)
        BY <3>2 DEF Chosen
      <3>5. PICK q \in Nodes : q \in Q /\ q \in R
        BY <3>3, <3>4, QuorumsMeet
      <3>6. vote[q] \in Nat /\ vote[n] \in Nat /\ Bal(p) \in Nat
        BY <2>2, <3>2, ChosenTypes, RaftAssumption DEF EngineType
      <3>7. vote[n] >= Bal(p) /\ known[n] = n
        BY <3>1, <3>3, <3>4, <3>5, <3>6 DEF LeadsQuorum, Leads
      <3>8. Prefix(p, log[n])
        BY <2>2, <3>2, <3>7, LeaderHas
      <3>9. Len(p) \in Nat /\ Len(log[n]) \in Nat
        BY <2>2 DEF EngineType
      <3>10. QED
        BY <3>2, <3>8, <3>9 DEF Prefix
    <2>5. QED
      BY <2>3, <2>4 DEF Linearizable
  <1>2. QED
    BY <1>1, Inductive, PTL
=============================================================================
