-------------------------- MODULE InvocationProofs --------------------------
(***************************************************************************)
(* Proofs about Invocation for any number of clients, functions, calls,    *)
(* workers and connections and any nesting of calls, and about             *)
(* ShardManager, which builds the shards that are called, for any plans,   *)
(* members, failures and peers.                                            *)
(***************************************************************************)
EXTENDS Invocation, ShardManager, FiniteSetTheorems, WellFoundedInduction, TLAPS

CallRecord ==
    [pc : {"free", "queued", "wantRead", "wantWrite", "wait", "remote",
           "guest", "hosted", "done"},
     fn : Fns \cup {"none"},
     by : {"none", "worker", "direct", "host"},
     for : Clients \cup {None},
     parent : 0 .. MaxCalls, child : 0 .. MaxCalls,
     depth : 0 .. MaxDepth, conn : Nat, ran : BOOLEAN,
     event : {"none", "complete", "error"},
     res : {"none", "ok", "app", "sys"}]

-----------------------------------------------------------------------------
(* The inductive invariant                                                 *)

\* What a call's record says of itself.
Sound(r) ==
    /\ r.pc = "free" => r = Free
    /\ r.pc # "free" => r.fn \in Fns
    /\ r.pc = "hosted" => r.depth > 0
    /\ r.conn # 0 => r.pc = "remote"
    /\ r.event = "complete" => r.ran /\ r.res = "ok"
    /\ r.event = "error" => r.res = "app"
    /\ r.event # "none" => r.pc = "done"

CallsSound == \A i \in Calls : Sound(call[i])

\* No call stands twice in the lock's queue.
Distinct(s) == \A m, n \in DOMAIN s : s[m] = s[n] => m = n

\* Who waits for the pool map's lock, and who holds it.
LockInv ==
    /\ \A n \in DOMAIN waiting : call[waiting[n]].pc \in {"wantRead", "wantWrite"}
    /\ Distinct(waiting)
    /\ \A i \in readers : call[i].pc = "wait"
    /\ \A i \in Calls : writer = i => call[i].pc = "wait"

\* At most one call is made for a client, and what the client has been told, or
\* finds in its channel, has happened.
ClientInv ==
    \A c \in Clients :
        /\ client[c].pc = "idle" => client[c].req = NoReq /\ client[c].out = "none"
        /\ \A i \in Calls : call[i].for = c => client[c].req.op = "invoke"
        /\ \A i, j \in Calls : call[i].for = c /\ call[j].for = c => i = j
        /\ applied[c] \in {0, 1}
        /\ client[c].req.op = "put" /\ (reply[c] = "ok" \/ client[c].out = "200")
              => applied[c] = 1
        /\ client[c].req.op = "invoke" /\ (reply[c] = "ok" \/ client[c].out = "ok")
              => \E i \in Calls : call[i].for = c /\ call[i].ran
        /\ client[c].pc = "idle" => reply[c] = "none"

IInv == TypeOK /\ CallsSound /\ LockInv /\ ClientInv

-----------------------------------------------------------------------------
(* Numbers and queues                                                      *)

\* A set of numbers has a least element.
LEMMA Least == ASSUME NEW S, S \subseteq Nat, S # {} PROVE \E i \in S : \A j \in S : i <= j
  <1> DEFINE R == OpToRel(<, Nat)
  <1>1. IsWellFoundedOn(R, Nat)
    BY NatLessThanWellFounded
  <1>2. PICK x \in S : \A y \in S : ~(<<y, x>> \in R)
    BY <1>1, WFMin, Zenon
  <1>3. \A y \in S : y < x => <<y, x>> \in R
    BY DEF OpToRel
  <1>4. \A y \in S : ~(y < x)
    BY <1>2, <1>3, Zenon
  <1>5. x \in Nat /\ \A y \in S : y \in Nat
    OBVIOUS
  <1> HIDE DEF R
  <1>6. QED
    BY <1>4, <1>5

\* A new call takes a number that is free.
LEMMA NextCallFree == ASSUME FreeCalls # {} PROVE NextCall \in Calls /\ call[NextCall].pc = "free"
  <1>1. FreeCalls \subseteq Nat
    BY InvocationAssumption DEF FreeCalls, Calls
  <1>2. \E i \in FreeCalls : \A j \in FreeCalls : i <= j
    BY <1>1, Least
  <1>3. NextCall \in FreeCalls
    BY <1>2 DEF NextCall
  <1>4. QED
    BY <1>3 DEF FreeCalls

\* A call that joins the queue stands in it once.
LEMMA Join ==
    ASSUME NEW s \in Seq(Calls), Distinct(s), NEW i \in Calls, \A n \in DOMAIN s : s[n] # i
    PROVE  /\ Append(s, i) \in Seq(Calls) /\ Distinct(Append(s, i))
           /\ \A n \in DOMAIN Append(s, i) :
                 Append(s, i)[n] = i \/ \E m \in DOMAIN s : Append(s, i)[n] = s[m]
  <1>1. /\ Append(s, i) \in Seq(Calls) /\ DOMAIN Append(s, i) = 1..(Len(s) + 1)
        /\ DOMAIN s = 1..Len(s) /\ Len(s) \in Nat
        /\ Append(s, i)[Len(s) + 1] = i
        /\ \A n \in 1..Len(s) : Append(s, i)[n] = s[n]
    OBVIOUS
  <1>2. Distinct(Append(s, i))
    BY <1>1 DEF Distinct
  <1>3. QED
    BY <1>1, <1>2

\* The head of the queue is gone from its tail.
LEMMA TailOf ==
    ASSUME NEW s \in Seq(Calls), Distinct(s), s # <<>>
    PROVE  /\ Tail(s) \in Seq(Calls) /\ Distinct(Tail(s))
           /\ \A n \in DOMAIN Tail(s) : Tail(s)[n] # Head(s) /\ \E m \in DOMAIN s : Tail(s)[n] = s[m]
           /\ Head(s) = s[1] /\ 1 \in DOMAIN s
  <1>1. /\ Tail(s) \in Seq(Calls) /\ DOMAIN Tail(s) = 1..(Len(s) - 1)
        /\ DOMAIN s = 1..Len(s) /\ Len(s) \in Nat \ {0}
        /\ Head(s) = s[1]
        /\ \A n \in 1..(Len(s) - 1) : Tail(s)[n] = s[n + 1]
    OBVIOUS
  <1>2. \A n \in 1..(Len(s) - 1) : n + 1 \in 1..Len(s) /\ n + 1 # 1
    BY <1>1
  <1>3. Distinct(Tail(s))
    <2>1. SUFFICES ASSUME NEW m \in 1..(Len(s) - 1), NEW n \in 1..(Len(s) - 1), s[m + 1] = s[n + 1]
                   PROVE  m = n
      BY <1>1 DEF Distinct
    <2>2. m + 1 = n + 1
      BY <1>1, <1>2, <2>1 DEF Distinct
    <2>3. QED
      BY <1>1, <2>2
  <1>4. 1 \in 1..Len(s)
    BY <1>1
  <1>5. \A n \in 1..(Len(s) - 1) : Tail(s)[n] # Head(s)
    BY <1>1, <1>2, <1>4 DEF Distinct
  <1>6. QED
    BY <1>1, <1>2, <1>3, <1>4, <1>5

-----------------------------------------------------------------------------
(* What the invariant gives                                                *)

\* The type invariant, with a name for the record of a call.
LEMMA TypeIs == TypeOK <=> /\ client \in [Clients -> [pc : {"idle", "wait", "done"},
                                               req : Requests \cup {NoReq},
                                               out : {"none", "sent", "200", "204", "400", "404",
                                                      "502", "504", "ok", "app", "sys",
                                                      "internal", "status"}]]
                           /\ reply \in [Clients -> {"none", "closed", "err", "found", "ok",
                                                     "app", "sys"}]
                           /\ call \in [Calls -> CallRecord]
                           /\ waiting \in Seq(Calls) /\ readers \subseteq Calls
                           /\ writer \in 0 .. MaxCalls
                           /\ pool \in [Fns -> Nat]
                           /\ wasm \in [on : BOOLEAN, mods : SUBSET Fns]
                           /\ stored \in BOOLEAN /\ deleting \in Nat
                           /\ applied \in [Clients -> Nat]
  BY DEF TypeOK, CallRecord

\* The invariant says that a call that ended holds nothing.
LEMMA HeldNothing == IInv => NothingHeld
  BY DEF IInv, CallsSound, Sound, LockInv, NothingHeld

\* At most one call is made for a client, so at most one runs.
LEMMA RanOnce == IInv => EffectAtMostOnce
  <1> SUFFICES ASSUME IInv, NEW c \in Clients PROVE Cardinality(Ran(c)) <= 1
    BY DEF EffectAtMostOnce
  <1>1. \A i, j \in Ran(c) : i = j
    BY DEF IInv, ClientInv, Ran
  <1>2. CASE Ran(c) = {}
    BY <1>2, FS_EmptySet
  <1>3. CASE Ran(c) # {}
    <2>1. PICK i : i \in Ran(c)
      BY <1>3
    <2>2. Ran(c) = {i}
      BY <1>1, <2>1
    <2>3. Cardinality({i}) = 1
      BY FS_Singleton
    <2>4. QED
      BY <2>2, <2>3
  <1>4. QED
    BY <1>2, <1>3

\* The invariant says that what is told happened.
LEMMA ToldTruth == IInv => AnswersTruthful
  <1> SUFFICES ASSUME IInv PROVE AnswersTruthful
    OBVIOUS
  <1>1. AckImpliesEffect
    BY DEF IInv, ClientInv, AckImpliesEffect, Ran
  <1>2. EventTruthful
    BY DEF IInv, CallsSound, Sound, EventTruthful
  <1>3. QED
    BY <1>1, <1>2, RanOnce DEF AnswersTruthful, IInv

\* Before the first request there are no calls and nobody holds the lock.
LEMMA InitInv == Init => IInv
  <1> SUFFICES ASSUME Init PROVE IInv
    OBVIOUS
  <1>1. Free \in CallRecord
    BY InvocationAssumption DEF Free, CallRecord
  <1>2. TypeOK
    <2>1. client \in [Clients -> [pc : {"idle", "wait", "done"}, req : Requests \cup {NoReq},
                               out : {"none", "sent", "200", "204", "400", "404", "502", "504",
                                      "ok", "app", "sys", "internal", "status"}]]
      BY DEF Init
    <2>2. writer \in 0..MaxCalls
      BY InvocationAssumption DEF Init
    <2>3. call \in [Calls -> CallRecord]
      BY <1>1 DEF Init
    <2>4. waiting \in Seq(Calls) /\ readers \subseteq Calls
      BY DEF Init
    <2>5. /\ reply \in [Clients -> {"none", "closed", "err", "found", "ok", "app", "sys"}]
          /\ pool \in [Fns -> Nat] /\ wasm \in [on : BOOLEAN, mods : SUBSET Fns]
          /\ stored \in BOOLEAN /\ deleting \in Nat /\ applied \in [Clients -> Nat]
      BY DEF Init
    <2>6. QED
      BY <2>1, <2>2, <2>3, <2>4, <2>5, TypeIs
  <1>3. CallsSound
    BY DEF Init, CallsSound, Sound, Free
  <1>4. LockInv
    BY InvocationAssumption DEF Init, LockInv, Distinct, Calls
  <1>5. ClientInv
    BY InvocationAssumption DEF Init, ClientInv, Free, NoReq
  <1>6. QED
    BY <1>2, <1>3, <1>4, <1>5 DEF IInv

-----------------------------------------------------------------------------
(* Parts of a step                                                         *)

\* One call's record is replaced.
LEMMA OneCall ==
    ASSUME TypeOK, CallsSound, NEW i \in Calls, NEW r \in CallRecord, Sound(r),
           call' = [call EXCEPT ![i] = r]
    PROVE  /\ call' \in [Calls -> CallRecord] /\ CallsSound'
           /\ call'[i] = r /\ \A j \in Calls : j # i => call'[j] = call[j]
  <1>1. call \in [Calls -> CallRecord]
    BY TypeIs
  <1>2. call'[i] = r /\ \A j \in Calls : j # i => call'[j] = call[j]
    BY <1>1
  <1>3. call' \in [Calls -> CallRecord]
    BY <1>1
  <1>4. CallsSound'
    BY <1>2 DEF CallsSound
  <1>5. QED
    BY <1>2, <1>3, <1>4

\* A step that leaves the lock alone, and the calls that want or hold it where
\* they are.
LEMMA LockKept ==
    ASSUME TypeOK, LockInv, UNCHANGED lockVars,
           \A j \in Calls : call[j].pc \in {"wantRead", "wantWrite", "wait"}
                              => call'[j].pc = call[j].pc
    PROVE  LockInv'
  <1>1. /\ waiting' = waiting /\ readers' = readers /\ writer' = writer
        /\ \A n \in DOMAIN waiting : waiting[n] \in Calls
        /\ readers \subseteq Calls
    BY TypeIs DEF lockVars
  <1>2. QED
    BY <1>1 DEF LockInv, Distinct

\* A step that tells no client of a success that did not happen.
LEMMA ToldKept ==
    ASSUME TypeOK, ClientInv, client' = client, applied' = applied,
           \A j \in Calls : call'[j].for = call[j].for /\ (call[j].ran => call'[j].ran),
           \A c \in Clients :
              \/ reply'[c] = reply[c]
              \/ /\ client[c].pc = "wait"
                 /\ reply'[c] = "ok" => \E i \in Calls : call[i].for = c /\ call[i].ran
    PROVE  ClientInv'
  <1> SUFFICES ASSUME NEW c \in Clients
               PROVE  /\ client[c].pc = "idle" => client[c].req = NoReq /\ client[c].out = "none"
                      /\ \A i \in Calls : call'[i].for = c => client[c].req.op = "invoke"
                      /\ \A i, j \in Calls : call'[i].for = c /\ call'[j].for = c => i = j
                      /\ applied[c] \in {0, 1}
                      /\ client[c].req.op = "put" /\ (reply'[c] = "ok" \/ client[c].out = "200")
                            => applied[c] = 1
                      /\ client[c].req.op = "invoke" /\ (reply'[c] = "ok" \/ client[c].out = "ok")
                            => \E i \in Calls : call'[i].for = c /\ call'[i].ran
                      /\ client[c].pc = "idle" => reply'[c] = "none"
    BY DEF ClientInv
  <1>1. \A i \in Calls : call[i].for = c => client[c].req.op = "invoke"
    BY DEF ClientInv
  <1>2. CASE reply'[c] = reply[c]
    BY <1>2 DEF ClientInv
  <1>3. CASE /\ client[c].pc = "wait"
             /\ reply'[c] = "ok" => \E i \in Calls : call[i].for = c /\ call[i].ran
    <2>1. client[c].req.op = "put" /\ reply'[c] = "ok" => FALSE
      BY <1>1, <1>3
    <2>2. QED
      BY <1>1, <1>3, <2>1 DEF ClientInv
  <1>4. QED
    BY <1>2, <1>3

\* The answer of a call that ends.
LEMMA AnswerKept ==
    ASSUME TypeOK, ClientInv, client' = client, applied' = applied,
           \A j \in Calls : call'[j].for = call[j].for /\ (call[j].ran => call'[j].ran),
           NEW i \in Calls, NEW res \in {"ok", "app", "sys"}, res = "ok" => call[i].ran,
           reply' = Put(reply, call[i].for, res)
    PROVE  /\ ClientInv'
           /\ reply' \in [Clients -> {"none", "closed", "err", "found", "ok", "app", "sys"}]
  <1>1. reply \in [Clients -> {"none", "closed", "err", "found", "ok", "app", "sys"}]
    BY TypeIs
  <1>2. reply' \in [Clients -> {"none", "closed", "err", "found", "ok", "app", "sys"}]
    BY <1>1 DEF Put
  <1>3. ASSUME NEW c \in Clients, reply'[c] # reply[c]
        PROVE  c = call[i].for /\ client[c].pc = "wait" /\ reply'[c] = res
    BY <1>1, <1>3 DEF Put
  <1>4. QED
    BY <1>2, <1>3, ToldKept

-----------------------------------------------------------------------------
(* Steps of a call                                                         *)

\* The part of the type invariant that most steps leave alone.
LEMMA TypeKept ==
    ASSUME TypeOK, UNCHANGED <<client, wasm, dataVars>>,
           reply' \in [Clients -> {"none", "closed", "err", "found", "ok", "app", "sys"}],
           call' \in [Calls -> CallRecord], pool' \in [Fns -> Nat],
           waiting' \in Seq(Calls), readers' \subseteq Calls, writer' \in 0 .. MaxCalls
    PROVE  TypeOK'
  BY DEF TypeOK, CallRecord, dataVars

\* A call moves on without the lock and without an answer.
LEMMA Moves ==
    ASSUME IInv, NEW i \in Calls, call[i].pc \notin {"wantRead", "wantWrite", "wait"},
           NEW r \in CallRecord, Sound(r), r.for = call[i].for, call[i].ran => r.ran,
           call' = [call EXCEPT ![i] = r],
           UNCHANGED <<client, reply, lockVars, pool, wasm, dataVars>>
    PROVE  IInv'
  <1>1. /\ call' \in [Calls -> CallRecord] /\ CallsSound'
        /\ call'[i] = r /\ \A j \in Calls : j # i => call'[j] = call[j]
    BY OneCall DEF IInv
  <1>2. LockInv'
    <2>1. \A j \in Calls : call[j].pc \in {"wantRead", "wantWrite", "wait"}
                              => call'[j].pc = call[j].pc
      BY <1>1
    <2>2. QED
      BY <2>1, LockKept DEF IInv
  <1>3. ClientInv'
    <2>1. \A j \in Calls : call'[j].for = call[j].for /\ (call[j].ran => call'[j].ran)
      BY <1>1
    <2>2. QED
      BY <2>1, ToldKept DEF IInv, dataVars
  <1>4. TypeOK'
    BY <1>1, TypeKept, TypeIs DEF IInv, lockVars
  <1>5. QED
    BY <1>1, <1>2, <1>3, <1>4 DEF IInv

\* A call that holds no lock ends and answers.
LEMMA Ends ==
    ASSUME IInv, NEW i \in Calls, call[i].pc \notin {"wantRead", "wantWrite", "wait"},
           NEW r \in CallRecord, Sound(r), r.for = call[i].for, call[i].ran => r.ran,
           call' = [call EXCEPT ![i] = r],
           NEW res \in {"ok", "app", "sys"}, res = "ok" => call[i].ran,
           reply' = Put(reply, call[i].for, res),
           UNCHANGED <<client, lockVars, pool, wasm, dataVars>>
    PROVE  IInv'
  <1>1. /\ call' \in [Calls -> CallRecord] /\ CallsSound'
        /\ call'[i] = r /\ \A j \in Calls : j # i => call'[j] = call[j]
    BY OneCall DEF IInv
  <1>2. LockInv'
    <2>1. \A j \in Calls : call[j].pc \in {"wantRead", "wantWrite", "wait"}
                              => call'[j].pc = call[j].pc
      BY <1>1
    <2>2. QED
      BY <2>1, LockKept DEF IInv
  <1>3. /\ ClientInv'
        /\ reply' \in [Clients -> {"none", "closed", "err", "found", "ok", "app", "sys"}]
    <2>1. \A j \in Calls : call'[j].for = call[j].for /\ (call[j].ran => call'[j].ran)
      BY <1>1
    <2>2. QED
      BY <2>1, AnswerKept DEF IInv, dataVars
  <1>4. TypeOK'
    BY <1>1, <1>3, TypeKept, TypeIs DEF IInv, lockVars
  <1>5. QED
    BY <1>1, <1>2, <1>3, <1>4 DEF IInv

\* The record of a call that ends, before and after its event.
Ended(i, res) ==
    [call[i] EXCEPT !.pc = "done", !.res = res, !.conn = 0, !.depth = 0, !.child = 0]
Reported(i, res, e) == [Ended(i, res) EXCEPT !.event = e]

\* Finish replaces the record of a call that has sent no event.
LEMMA EndedRecord ==
    ASSUME IInv, NEW i \in Calls, NEW res \in {"ok", "app", "sys"}, call[i].pc \notin {"free", "done"}
    PROVE  /\ Ended(i, res) \in CallRecord /\ Sound(Ended(i, res))
           /\ Ended(i, res).for = call[i].for /\ Ended(i, res).ran = call[i].ran
           /\ Ended(i, res).pc = "done" /\ Ended(i, res).conn = 0 /\ Ended(i, res).res = res
           /\ Ended(i, res).fn \in Fns
           /\ Finished(i, res) = [call EXCEPT ![i] = Ended(i, res)]
  <1>1. call \in [Calls -> CallRecord] /\ call[i] \in CallRecord
    BY TypeIs DEF IInv
  <1>2. 0 \in 0..MaxDepth /\ 0 \in 0..MaxCalls
    BY InvocationAssumption
  <1>3. call[i].event = "none" /\ call[i].fn \in Fns
    BY <1>1 DEF IInv, CallsSound, Sound, CallRecord
  <1>4. Ended(i, res) \in CallRecord
    BY <1>1, <1>2 DEF Ended, CallRecord
  <1>5. /\ Ended(i, res).pc = "done" /\ Ended(i, res).conn = 0
        /\ Ended(i, res).event = "none" /\ Ended(i, res).res = res /\ Ended(i, res).fn \in Fns
        /\ Ended(i, res).for = call[i].for /\ Ended(i, res).ran = call[i].ran
    BY <1>1, <1>3 DEF Ended, CallRecord
  <1>6. Sound(Ended(i, res))
    BY <1>5 DEF Sound
  <1>7. Finished(i, res) = [call EXCEPT ![i] = Ended(i, res)]
    BY <1>1 DEF Finished, Ended
  <1>8. QED
    BY <1>4, <1>5, <1>6, <1>7

\* The same for a remote call, which reports its outcome.
LEMMA ReportedRecord ==
    ASSUME IInv, NEW i \in Calls, NEW res \in {"ok", "app"}, call[i].pc \notin {"free", "done"},
           NEW e \in {"complete", "error"}, e = "complete" => call[i].ran /\ res = "ok",
           e = "error" => res = "app"
    PROVE  /\ Reported(i, res, e) \in CallRecord /\ Sound(Reported(i, res, e))
           /\ Reported(i, res, e).for = call[i].for /\ Reported(i, res, e).ran = call[i].ran
           /\ [Finished(i, res) EXCEPT ![i].event = e] = [call EXCEPT ![i] = Reported(i, res, e)]
  <1>1. /\ Ended(i, res) \in CallRecord
        /\ Ended(i, res).for = call[i].for /\ Ended(i, res).ran = call[i].ran
        /\ Ended(i, res).pc = "done" /\ Ended(i, res).conn = 0 /\ Ended(i, res).res = res
        /\ Ended(i, res).fn \in Fns
        /\ Finished(i, res) = [call EXCEPT ![i] = Ended(i, res)]
    BY EndedRecord
  <1>2. Reported(i, res, e) \in CallRecord
    BY <1>1 DEF Reported, CallRecord
  <1>3. /\ Reported(i, res, e).pc = "done" /\ Reported(i, res, e).conn = 0
        /\ Reported(i, res, e).event = e /\ Reported(i, res, e).res = res
        /\ Reported(i, res, e).fn \in Fns
        /\ Reported(i, res, e).for = call[i].for /\ Reported(i, res, e).ran = call[i].ran
    BY <1>1 DEF Reported, CallRecord
  <1>4. Sound(Reported(i, res, e))
    BY <1>3 DEF Sound
  <1>5. call \in [Calls -> CallRecord]
    BY TypeIs DEF IInv
  <1>6. [Finished(i, res) EXCEPT ![i].event = e] = [call EXCEPT ![i] = Reported(i, res, e)]
    BY <1>1, <1>5 DEF Reported
  <1>7. QED
    BY <1>2, <1>3, <1>4, <1>6

\* A step of a call that only changes the call.
LEMMA RunInv == ASSUME IInv, NEW i \in Calls, Run(i) PROVE IInv'
  <1> DEFINE r == [call[i] EXCEPT !.ran = TRUE]
  <1>1. call \in [Calls -> CallRecord] /\ call[i] \in CallRecord
    BY TypeIs DEF IInv
  <1>2. r \in CallRecord
    BY <1>1 DEF CallRecord
  <1>3. /\ r.pc = call[i].pc /\ r.fn = call[i].fn /\ r.for = call[i].for /\ r.ran = TRUE /\ r.event = call[i].event
        /\ r.depth = call[i].depth /\ r.conn = call[i].conn /\ r.res = call[i].res
    BY <1>1 DEF CallRecord
  <1>4. call[i].pc \in {"guest", "remote"} /\ call' = [call EXCEPT ![i] = r]
    BY <1>1 DEF Run
  <1>5. Sound(call[i])
    BY DEF IInv, CallsSound
  <1> HIDE DEF r
  <1>6. Sound(r)
    BY <1>3, <1>4, <1>5 DEF Sound
  <1>7. UNCHANGED <<client, reply, lockVars, pool, wasm, dataVars>>
    BY DEF Run
  <1>8. QED
    BY <1>2, <1>3, <1>4, <1>6, <1>7, Moves

\* The depth the host counts stays within its limit.
LEMMA HostInvokeRemoteInv == ASSUME IInv, NEW i \in Calls, HostInvokeRemote(i) PROVE IInv'
  <1> DEFINE r == [call[i] EXCEPT !.depth = @ + 1]
  <1>1. call \in [Calls -> CallRecord] /\ call[i] \in CallRecord
    BY TypeIs DEF IInv
  <1>2. call[i].depth + 1 \in 0..MaxDepth
    BY <1>1, InvocationAssumption DEF HostInvokeRemote, HostAllows, CallRecord
  <1>3. r \in CallRecord
    BY <1>1, <1>2 DEF CallRecord
  <1>4. /\ r.pc = call[i].pc /\ r.fn = call[i].fn /\ r.for = call[i].for /\ r.ran = call[i].ran
        /\ r.event = call[i].event /\ r.conn = call[i].conn /\ r.res = call[i].res
    BY <1>1 DEF CallRecord
  <1>5. call[i].pc = "guest" /\ call' = [call EXCEPT ![i] = r]
    BY <1>1 DEF HostInvokeRemote
  <1>6. Sound(call[i])
    BY DEF IInv, CallsSound
  <1> HIDE DEF r
  <1>7. Sound(r)
    BY <1>4, <1>5, <1>6 DEF Sound
  <1>8. UNCHANGED <<client, reply, lockVars, pool, wasm, dataVars>>
    BY DEF HostInvokeRemote
  <1>9. QED
    BY <1>3, <1>4, <1>5, <1>7, <1>8, Moves

\* A callee that ended gives its level back.
LEMMA HostReturnInv == ASSUME IInv, NEW i \in Calls, HostReturn(i) PROVE IInv'
  <1> DEFINE r == [call[i] EXCEPT !.pc = "guest", !.depth = @ - 1, !.child = 0]
  <1>1. call \in [Calls -> CallRecord] /\ call[i] \in CallRecord
    BY TypeIs DEF IInv
  <1>2. Sound(call[i]) /\ call[i].pc = "hosted"
    BY DEF IInv, CallsSound, HostReturn
  <1>3. call[i].depth - 1 \in 0..MaxDepth /\ 0 \in 0..MaxCalls
    BY <1>1, <1>2, InvocationAssumption DEF Sound, CallRecord
  <1>4. r \in CallRecord
    BY <1>1, <1>3 DEF CallRecord
  <1>5. /\ r.pc = "guest" /\ r.fn = call[i].fn /\ r.for = call[i].for /\ r.ran = call[i].ran
        /\ r.event = call[i].event /\ r.conn = call[i].conn /\ r.res = call[i].res
    BY <1>1 DEF CallRecord
  <1>6. call' = [call EXCEPT ![i] = r]
    BY <1>1 DEF HostReturn
  <1> HIDE DEF r
  <1>7. Sound(r)
    BY <1>2, <1>5 DEF Sound
  <1>8. UNCHANGED <<client, reply, lockVars, pool, wasm, dataVars>>
    BY DEF HostReturn
  <1>9. QED
    BY <1>2, <1>4, <1>5, <1>6, <1>7, <1>8, Moves

\* A call that ran ends: in the guest, or in the pod that answers or does not.
LEMMA GuestEndInv == ASSUME IInv, NEW i \in Calls, GuestEnd(i) PROVE IInv'
  <1>1. PICK res \in {"ok", "app", "sys"} : (res # "sys" => call[i].ran) /\ Finish(i, res)
    BY DEF GuestEnd
  <1>2. call[i].pc = "guest" /\ UNCHANGED <<client, lockVars, pool, wasm, dataVars>>
    BY DEF GuestEnd
  <1>3. call' = [call EXCEPT ![i] = Ended(i, res)] /\ reply' = Put(reply, call[i].for, res)
    BY <1>1, <1>2, EndedRecord DEF Finish
  <1>4. /\ Ended(i, res) \in CallRecord /\ Sound(Ended(i, res))
        /\ Ended(i, res).for = call[i].for /\ Ended(i, res).ran = call[i].ran
    BY <1>2, EndedRecord
  <1>5. QED
    BY <1>1, <1>2, <1>3, <1>4, Ends

\* A remote call answers only after its function ran.
LEMMA RemoteEndInv == ASSUME IInv, NEW i \in Calls, RemoteEnd(i) PROVE IInv'
  <1>1. PICK answered \in BOOLEAN, res \in {"ok", "app"} :
          /\ (answered => call[i].ran /\ ChildDone(i)) /\ (res = "ok" => answered)
          /\ call' = [Finished(i, res) EXCEPT ![i].event = FunctionEvent(res, answered)]
          /\ reply' = Put(reply, call[i].for, res)
    BY DEF RemoteEnd
  <1>2. call[i].pc = "remote" /\ UNCHANGED <<client, lockVars, pool, wasm, dataVars>>
    BY DEF RemoteEnd
  <1>3. PICK e \in {"complete", "error"} : e = FunctionEvent(res, answered)
    BY DEF FunctionEvent
  <1>4. (e = "complete" => call[i].ran /\ res = "ok") /\ (e = "error" => res = "app")
    BY <1>1, <1>3 DEF FunctionEvent
  <1>5. /\ Reported(i, res, e) \in CallRecord /\ Sound(Reported(i, res, e))
        /\ Reported(i, res, e).for = call[i].for /\ Reported(i, res, e).ran = call[i].ran
        /\ call' = [call EXCEPT ![i] = Reported(i, res, e)]
    BY <1>1, <1>2, <1>3, <1>4, ReportedRecord
  <1>6. res \in {"ok", "app", "sys"} /\ (res = "ok" => call[i].ran)
    BY <1>1
  <1>7. QED
    BY <1>1, <1>2, <1>5, <1>6, Ends

-----------------------------------------------------------------------------
(* Steps with the pool map's lock                                          *)

\* What is left to show of a step that changes the lock or the pools.
LEMMA Locks ==
    ASSUME IInv, NEW i \in Calls,
           NEW r \in CallRecord, Sound(r), r.for = call[i].for, call[i].ran => r.ran,
           call' = [call EXCEPT ![i] = r],
           \/ reply' = reply
           \/ \E res \in {"app", "sys"} : reply' = Put(reply, call[i].for, res),
           UNCHANGED <<client, wasm, dataVars>>, pool' \in [Fns -> Nat],
           waiting' \in Seq(Calls), readers' \subseteq Calls, writer' \in 0 .. MaxCalls,
           LockInv'
    PROVE  IInv'
  <1>1. /\ call' \in [Calls -> CallRecord] /\ CallsSound'
        /\ call'[i] = r /\ \A j \in Calls : j # i => call'[j] = call[j]
    BY OneCall DEF IInv
  <1>2. \A j \in Calls : call'[j].for = call[j].for /\ (call[j].ran => call'[j].ran)
    BY <1>1
  <1>3. /\ ClientInv'
        /\ reply' \in [Clients -> {"none", "closed", "err", "found", "ok", "app", "sys"}]
    <2>1. CASE reply' = reply
      BY <1>2, <2>1, ToldKept, TypeIs DEF IInv, dataVars
    <2>2. CASE \E res \in {"app", "sys"} : reply' = Put(reply, call[i].for, res)
      BY <1>2, <2>2, AnswerKept DEF IInv, dataVars
    <2>3. QED
      BY <2>1, <2>2
  <1>4. TypeOK'
    BY <1>1, <1>3, TypeKept DEF IInv
  <1>5. QED
    BY <1>1, <1>3, <1>4 DEF IInv

\* A record of which only the place changes.
LEMMA PlaceRecord ==
    ASSUME IInv, NEW i \in Calls, call[i].pc \notin {"free", "remote", "done"},
           NEW to \in {"guest", "wantRead", "wantWrite", "wait"}, call' = [call EXCEPT ![i].pc = to]
    PROVE  \E r \in CallRecord : /\ Sound(r) /\ r.for = call[i].for /\ r.ran = call[i].ran
                                 /\ r.pc = to /\ call' = [call EXCEPT ![i] = r]
  <1> DEFINE r == [call[i] EXCEPT !.pc = to]
  <1>1. call \in [Calls -> CallRecord] /\ call[i] \in CallRecord
    BY TypeIs DEF IInv
  <1>2. r \in CallRecord
    BY <1>1 DEF CallRecord
  <1>3. /\ r.pc = to /\ r.fn = call[i].fn /\ r.for = call[i].for /\ r.ran = call[i].ran
        /\ r.event = call[i].event /\ r.conn = call[i].conn /\ r.res = call[i].res
    BY <1>1 DEF CallRecord
  <1>4. call' = [call EXCEPT ![i] = r]
    BY <1>1
  <1>5. Sound(call[i])
    BY DEF IInv, CallsSound
  <1> HIDE DEF r
  <1>6. Sound(r)
    BY <1>3, <1>5 DEF Sound
  <1>7. QED
    BY <1>2, <1>3, <1>4, <1>6

\* A call begins in the guest, ends for want of a module, or joins the queue.
LEMMA DispatchInv == ASSUME IInv, NEW i \in Calls, Dispatch(i) PROVE IInv'
  <1>1. call[i].pc = "queued" /\ UNCHANGED <<client, readers, writer, pool, wasm, dataVars>>
    BY DEF Dispatch
  <1>2. CASE Local(i) /\ call[i].fn \in wasm.mods
    <2>1. /\ call' = [call EXCEPT ![i].pc = "guest"]
          /\ UNCHANGED <<client, reply, lockVars, pool, wasm, dataVars>>
      BY <1>1, <1>2 DEF Dispatch, lockVars
    <2>2. PICK r \in CallRecord : /\ Sound(r) /\ r.for = call[i].for /\ r.ran = call[i].ran
                                  /\ r.pc = "guest" /\ call' = [call EXCEPT ![i] = r]
      BY <1>1, <2>1, PlaceRecord
    <2>3. QED
      BY <1>1, <2>1, <2>2, Moves
  <1>3. CASE Local(i) /\ call[i].fn \notin wasm.mods
    <2>1. Finish(i, "sys") /\ UNCHANGED <<client, lockVars, pool, wasm, dataVars>>
      BY <1>1, <1>3 DEF Dispatch, lockVars
    <2>2. /\ Ended(i, "sys") \in CallRecord /\ Sound(Ended(i, "sys"))
          /\ Ended(i, "sys").for = call[i].for /\ Ended(i, "sys").ran = call[i].ran
          /\ call' = [call EXCEPT ![i] = Ended(i, "sys")] /\ reply' = Put(reply, call[i].for, "sys")
      BY <1>1, <2>1, EndedRecord DEF Finish
    <2>3. QED
      BY <1>1, <2>1, <2>2, Ends
  <1>4. CASE ~Local(i)
    <2>1. /\ call' = [call EXCEPT ![i].pc = "wantRead"]
          /\ waiting' = Append(waiting, i) /\ reply' = reply
          /\ readers' = readers /\ writer' = writer
      BY <1>1, <1>4 DEF Dispatch
    <2>2. PICK r \in CallRecord : /\ Sound(r) /\ r.for = call[i].for /\ r.ran = call[i].ran
                                  /\ r.pc = "wantRead" /\ call' = [call EXCEPT ![i] = r]
      BY <1>1, <2>1, PlaceRecord
    <2>3. call'[i] = r /\ \A j \in Calls : j # i => call'[j] = call[j]
      BY <2>2, OneCall DEF IInv
    <2>4. waiting \in Seq(Calls) /\ Distinct(waiting) /\ \A n \in DOMAIN waiting : waiting[n] # i
      BY <1>1, TypeIs DEF IInv, LockInv
    <2>5. /\ waiting' \in Seq(Calls) /\ Distinct(waiting')
          /\ \A n \in DOMAIN waiting' : waiting'[n] = i \/ \E m \in DOMAIN waiting : waiting'[n] = waiting[m]
      BY <2>1, <2>4, Join
    <2>6. readers \subseteq Calls /\ writer \in 0 .. MaxCalls /\ pool \in [Fns -> Nat]
      BY TypeIs DEF IInv
    <2>7. LockInv'
      <3>1. \A n \in DOMAIN waiting : waiting[n] \in Calls /\ waiting[n] # i
        BY <2>4
      <3>2. \A n \in DOMAIN waiting' : call'[waiting'[n]].pc \in {"wantRead", "wantWrite"}
        BY <2>2, <2>3, <2>5, <3>1 DEF IInv, LockInv
      <3>3. \A j \in readers' : call'[j].pc = "wait"
        BY <1>1, <2>1, <2>3, <2>6 DEF IInv, LockInv
      <3>4. \A j \in Calls : writer' = j => call'[j].pc = "wait"
        BY <1>1, <2>1, <2>3 DEF IInv, LockInv
      <3>5. QED
        BY <2>5, <3>2, <3>3, <3>4 DEF LockInv
    <2>8. QED
      BY <1>1, <2>1, <2>2, <2>5, <2>6, <2>7, Locks
  <1>5. QED
    BY <1>2, <1>3, <1>4

\* The head of the queue is taken out of it.
LEMMA Dequeued ==
    ASSUME IInv, NEW i \in Calls, IsHead(i)
    PROVE  /\ Tail(waiting) \in Seq(Calls) /\ Distinct(Tail(waiting))
           /\ \A n \in DOMAIN Tail(waiting) :
                 /\ Tail(waiting)[n] \in Calls /\ Tail(waiting)[n] # i
                 /\ call[Tail(waiting)[n]].pc \in {"wantRead", "wantWrite"}
  <1>1. waiting \in Seq(Calls) /\ Distinct(waiting) /\ waiting # <<>> /\ Head(waiting) = i
    BY TypeIs DEF IInv, LockInv, IsHead
  <1>2. /\ Tail(waiting) \in Seq(Calls) /\ Distinct(Tail(waiting))
        /\ \A n \in DOMAIN Tail(waiting) :
              Tail(waiting)[n] # i /\ \E m \in DOMAIN waiting : Tail(waiting)[n] = waiting[m]
    BY <1>1, TailOf
  <1>3. \A m \in DOMAIN waiting : waiting[m] \in Calls /\ call[waiting[m]].pc \in {"wantRead", "wantWrite"}
    BY <1>1 DEF IInv, LockInv
  <1>4. QED
    BY <1>2, <1>3

\* The head of the queue gets the read guard, or goes to the end of the queue.
LEMMA GrantReadInv == ASSUME IInv, NEW i \in Calls, GrantRead(i) PROVE IInv'
  <1>1. /\ call[i].pc = "wantRead" /\ IsHead(i) /\ writer = 0
        /\ UNCHANGED <<client, reply, writer, pool, wasm, dataVars>>
    BY DEF GrantRead
  <1>2. readers \subseteq Calls /\ writer \in 0 .. MaxCalls /\ pool \in [Fns -> Nat]
    BY TypeIs DEF IInv
  <1>3. /\ Tail(waiting) \in Seq(Calls) /\ Distinct(Tail(waiting))
        /\ \A n \in DOMAIN Tail(waiting) :
              /\ Tail(waiting)[n] \in Calls /\ Tail(waiting)[n] # i
              /\ call[Tail(waiting)[n]].pc \in {"wantRead", "wantWrite"}
    BY <1>1, Dequeued
  <1>4. \A j \in Calls : writer' # j
    BY <1>1, InvocationAssumption DEF Calls
  <1>5. \A j \in readers : call[j].pc = "wait"
    BY DEF IInv, LockInv
  <1>6. CASE pool[call[i].fn] # 0
    <2>1. /\ readers' = readers \cup {i} /\ waiting' = Tail(waiting)
          /\ call' = [call EXCEPT ![i].pc = "wait"]
      BY <1>6 DEF GrantRead
    <2>2. PICK r \in CallRecord : /\ Sound(r) /\ r.for = call[i].for /\ r.ran = call[i].ran
                                  /\ r.pc = "wait" /\ call' = [call EXCEPT ![i] = r]
      BY <1>1, <2>1, PlaceRecord
    <2>3. call'[i] = r /\ \A j \in Calls : j # i => call'[j] = call[j]
      BY <2>2, OneCall DEF IInv
    <2>4. \A n \in DOMAIN waiting' : call'[waiting'[n]].pc \in {"wantRead", "wantWrite"}
      BY <1>3, <2>1, <2>3
    <2>5. \A j \in readers' : call'[j].pc = "wait"
      BY <1>2, <1>5, <2>1, <2>2, <2>3
    <2>6. LockInv'
      BY <1>3, <1>4, <2>1, <2>4, <2>5 DEF LockInv
    <2>7. QED
      BY <1>1, <1>2, <1>3, <2>1, <2>2, <2>6, Locks
  <1>7. CASE pool[call[i].fn] = 0
    <2>1. /\ readers' = readers /\ waiting' = Append(Tail(waiting), i)
          /\ call' = [call EXCEPT ![i].pc = "wantWrite"]
      BY <1>7 DEF GrantRead
    <2>2. PICK r \in CallRecord : /\ Sound(r) /\ r.for = call[i].for /\ r.ran = call[i].ran
                                  /\ r.pc = "wantWrite" /\ call' = [call EXCEPT ![i] = r]
      BY <1>1, <2>1, PlaceRecord
    <2>3. call'[i] = r /\ \A j \in Calls : j # i => call'[j] = call[j]
      BY <2>2, OneCall DEF IInv
    <2>4. /\ waiting' \in Seq(Calls) /\ Distinct(waiting')
          /\ \A n \in DOMAIN waiting' :
                waiting'[n] = i \/ \E m \in DOMAIN Tail(waiting) : waiting'[n] = Tail(waiting)[m]
      <3>1. PICK t \in Seq(Calls) : t = Tail(waiting)
        BY <1>3
      <3>2. Distinct(t) /\ \A n \in DOMAIN t : t[n] # i
        BY <1>3, <3>1
      <3>3. QED
        BY <2>1, <3>1, <3>2, Join
    <2>5. \A n \in DOMAIN waiting' : call'[waiting'[n]].pc \in {"wantRead", "wantWrite"}
      BY <1>3, <2>2, <2>3, <2>4
    <2>6. \A j \in readers' : call'[j].pc = "wait"
      BY <1>1, <1>2, <1>5, <2>1, <2>3
    <2>7. LockInv'
      BY <1>4, <2>4, <2>5, <2>6 DEF LockInv
    <2>8. QED
      BY <1>1, <1>2, <2>1, <2>2, <2>4, <2>7, Locks
  <1>8. QED
    BY <1>6, <1>7

\* The head of the queue gets the write guard, or ends without a route.
LEMMA GrantWriteInv == ASSUME IInv, NEW i \in Calls, GrantWrite(i) PROVE IInv'
  <1>1. /\ call[i].pc = "wantWrite" /\ IsHead(i) /\ writer = 0 /\ readers = {}
        /\ waiting' = Tail(waiting)
        /\ UNCHANGED <<client, readers, wasm, dataVars>>
    BY DEF GrantWrite
  <1>2. pool \in [Fns -> Nat] /\ writer \in 0..MaxCalls
    BY TypeIs DEF IInv
  <1>3. /\ waiting' \in Seq(Calls) /\ Distinct(waiting')
        /\ \A n \in DOMAIN waiting' :
              /\ waiting'[n] \in Calls /\ waiting'[n] # i
              /\ call[waiting'[n]].pc \in {"wantRead", "wantWrite"}
    BY <1>1, Dequeued
  <1>4. readers' = {} /\ readers' \subseteq Calls
    BY <1>1
  <1>5. CASE Route[call[i].fn] = "none"
    <2>1. Finish(i, "sys") /\ writer' = writer /\ pool' = pool
      BY <1>5 DEF GrantWrite
    <2>2. /\ Ended(i, "sys") \in CallRecord /\ Sound(Ended(i, "sys"))
          /\ Ended(i, "sys").for = call[i].for /\ Ended(i, "sys").ran = call[i].ran
          /\ call' = [call EXCEPT ![i] = Ended(i, "sys")] /\ reply' = Put(reply, call[i].for, "sys")
      BY <1>1, <2>1, EndedRecord DEF Finish
    <2>3. \A j \in Calls : j # i => call'[j] = call[j]
      BY <2>2, OneCall DEF IInv
    <2>4. \A j \in Calls : writer' # j
      BY <1>1, <2>1, InvocationAssumption DEF Calls
    <2>5. LockInv'
      BY <1>3, <1>4, <2>3, <2>4 DEF LockInv
    <2>6. QED
      BY <1>1, <1>2, <1>3, <1>4, <2>1, <2>2, <2>5, Locks
  <1>6. CASE Route[call[i].fn] # "none"
    <2>1. /\ writer' = i /\ pool' = [pool EXCEPT ![call[i].fn] = @ + 1]
          /\ call' = [call EXCEPT ![i].pc = "wait"] /\ reply' = reply
      BY <1>6 DEF GrantWrite
    <2>2. PICK r \in CallRecord : /\ Sound(r) /\ r.for = call[i].for /\ r.ran = call[i].ran
                                  /\ r.pc = "wait" /\ call' = [call EXCEPT ![i] = r]
      BY <1>1, <2>1, PlaceRecord
    <2>3. call'[i] = r /\ \A j \in Calls : j # i => call'[j] = call[j]
      BY <2>2, OneCall DEF IInv
    <2>4. pool' \in [Fns -> Nat]
      <3>1. call[i].fn \in Fns
        BY <1>1 DEF IInv, CallsSound, Sound
      <3>2. QED
        BY <1>2, <2>1, <3>1
    <2>5. writer' \in 0..MaxCalls
      BY <2>1, InvocationAssumption DEF Calls
    <2>6. LockInv'
      <3>1. \A n \in DOMAIN waiting' : call'[waiting'[n]].pc \in {"wantRead", "wantWrite"}
        BY <1>3, <2>3
      <3>2. \A j \in Calls : writer' = j => call'[j].pc = "wait"
        BY <2>1, <2>2, <2>3
      <3>3. QED
        BY <1>3, <1>4, <3>1, <3>2 DEF LockInv
    <2>7. QED
      BY <1>1, <1>3, <1>4, <2>1, <2>2, <2>4, <2>5, <2>6, Locks
  <1>7. QED
    BY <1>5, <1>6

\* A call that lets go of the lock, whichever guard it held.
LEMMA Released ==
    ASSUME IInv, NEW i \in Calls, call[i].pc = "wait", ReleaseLock(i),
           \A j \in Calls : j # i => call'[j] = call[j]
    PROVE  /\ LockInv' /\ waiting' \in Seq(Calls)
           /\ readers' \subseteq Calls /\ writer' \in 0 .. MaxCalls
  <1>1. /\ waiting \in Seq(Calls) /\ readers \subseteq Calls /\ writer \in 0..MaxCalls
        /\ \A n \in DOMAIN waiting : waiting[n] \in Calls
    BY TypeIs DEF IInv
  <1>2. /\ readers' = readers \ {i} /\ writer' = IF writer = i THEN 0 ELSE writer
        /\ waiting' = waiting
    BY DEF ReleaseLock
  <1>3. 0 \in 0..MaxCalls /\ \A j \in Calls : j # 0
    BY InvocationAssumption DEF Calls
  <1>4. \A n \in DOMAIN waiting' : waiting'[n] # i /\ call'[waiting'[n]].pc \in {"wantRead", "wantWrite"}
    BY <1>1, <1>2 DEF IInv, LockInv
  <1>5. \A j \in readers' : call'[j].pc = "wait"
    BY <1>1, <1>2 DEF IInv, LockInv
  <1>6. \A j \in Calls : writer' = j => call'[j].pc = "wait"
    BY <1>2, <1>3 DEF IInv, LockInv
  <1>7. Distinct(waiting')
    BY <1>2 DEF IInv, LockInv
  <1>8. QED
    BY <1>1, <1>2, <1>3, <1>4, <1>5, <1>6, <1>7 DEF LockInv

\* A connection is had and the lock let go.
LEMMA ConnectInv == ASSUME IInv, NEW i \in Calls, Connect(i) PROVE IInv'
  <1> DEFINE r == [call[i] EXCEPT !.pc = "remote", !.conn = pool[call[i].fn]]
  <1>1. /\ call[i].pc = "wait" /\ Route[call[i].fn] = "grpc" /\ ReleaseLock(i)
        /\ UNCHANGED <<client, reply, pool, wasm, dataVars>>
    BY DEF Connect
  <1>2. call \in [Calls -> CallRecord] /\ call[i] \in CallRecord /\ pool \in [Fns -> Nat]
    BY TypeIs DEF IInv
  <1>3. call[i].fn \in Fns
    BY <1>1 DEF IInv, CallsSound, Sound
  <1>4. r \in CallRecord
    BY <1>2, <1>3 DEF CallRecord
  <1>5. /\ r.pc = "remote" /\ r.fn = call[i].fn /\ r.for = call[i].for /\ r.ran = call[i].ran
        /\ r.event = call[i].event /\ r.res = call[i].res
    BY <1>2 DEF CallRecord
  <1>6. call' = [call EXCEPT ![i] = r]
    BY <1>2 DEF Connect
  <1>7. Sound(call[i])
    BY DEF IInv, CallsSound
  <1> HIDE DEF r
  <1>8. Sound(r)
    BY <1>1, <1>5, <1>7 DEF Sound
  <1>9. \A j \in Calls : j # i => call'[j] = call[j]
    BY <1>4, <1>6, <1>8, OneCall DEF IInv
  <1>10. /\ LockInv' /\ waiting' \in Seq(Calls)
         /\ readers' \subseteq Calls /\ writer' \in 0 .. MaxCalls
    BY <1>1, <1>9, Released
  <1>11. QED
    BY <1>1, <1>2, <1>4, <1>5, <1>6, <1>8, <1>10, Locks

\* No connection is had; the lock is let go all the same.
LEMMA PoolFailsInv == ASSUME IInv, NEW i \in Calls, PoolFails(i) PROVE IInv'
  <1>1. PICK res \in {"sys", "app"} : Finish(i, res)
    BY DEF PoolFails
  <1>2. call[i].pc = "wait" /\ ReleaseLock(i) /\ UNCHANGED <<client, pool, wasm, dataVars>>
    BY DEF PoolFails
  <1>3. /\ Ended(i, res) \in CallRecord /\ Sound(Ended(i, res))
        /\ Ended(i, res).for = call[i].for /\ Ended(i, res).ran = call[i].ran
        /\ call' = [call EXCEPT ![i] = Ended(i, res)] /\ reply' = Put(reply, call[i].for, res)
    BY <1>1, <1>2, EndedRecord DEF Finish
  <1>4. \A j \in Calls : j # i => call'[j] = call[j]
    BY <1>3, OneCall DEF IInv
  <1>5. /\ LockInv' /\ waiting' \in Seq(Calls)
        /\ readers' \subseteq Calls /\ writer' \in 0 .. MaxCalls
    BY <1>2, <1>4, Released
  <1>6. pool' \in [Fns -> Nat]
    BY <1>2, TypeIs DEF IInv
  <1>7. QED
    BY <1>2, <1>3, <1>5, <1>6, Locks

-----------------------------------------------------------------------------
(* New calls                                                               *)

\* The record of a new call.
LEMMA NewRecord ==
    ASSUME NEW fn \in Fns, NEW by \in {"worker", "direct", "host"},
           NEW for \in Clients \cup {None}, NEW parent \in 0..MaxCalls
    PROVE  /\ NewCall(fn, by, for, parent) \in CallRecord
           /\ Sound(NewCall(fn, by, for, parent))
           /\ NewCall(fn, by, for, parent).for = for
           /\ NewCall(fn, by, for, parent).pc = "queued"
           /\ ~NewCall(fn, by, for, parent).ran
  <1>1. PICK q : q = NewCall(fn, by, for, parent)
    OBVIOUS
  <1>2. q = [pc |-> "queued", fn |-> fn, by |-> by, for |-> for, parent |-> parent, child |-> 0,
             depth |-> 0, conn |-> 0, ran |-> FALSE, event |-> "none", res |-> "none"]
    BY <1>1 DEF NewCall, Free
  <1>3. 0 \in 0..MaxCalls /\ 0 \in 0..MaxDepth
    BY InvocationAssumption
  <1>4. q \in CallRecord
    BY <1>2, <1>3 DEF CallRecord
  <1>5. /\ q.pc = "queued" /\ q.fn = fn /\ q.for = for /\ q.conn = 0
        /\ ~q.ran /\ q.event = "none"
    BY <1>2
  <1>6. Sound(q)
    BY <1>5 DEF Sound
  <1>7. QED
    BY <1>1, <1>4, <1>5, <1>6

\* A number that is free belongs to no client.
LEMMA FreeRecord ==
    ASSUME IInv, NEW n \in Calls, call[n].pc = "free"
    PROVE  call[n].for = None /\ ~call[n].ran
  BY DEF IInv, CallsSound, Sound, Free

\* A call makes another one, which no client waits for.
LEMMA Spawns ==
    ASSUME IInv, NEW i \in Calls, call[i].pc \notin {"free", "wantRead", "wantWrite", "wait"},
           NEW n \in Calls, call[n].pc = "free",
           NEW r \in CallRecord, Sound(r), r.for = call[i].for, r.ran = call[i].ran,
           NEW q \in CallRecord, Sound(q), q.for = None,
           call' = [call EXCEPT ![i] = r, ![n] = q],
           UNCHANGED <<client, reply, lockVars, pool, wasm, dataVars>>
    PROVE  IInv'
  <1>1. call \in [Calls -> CallRecord] /\ i # n
    BY TypeIs DEF IInv
  <1>2. /\ call'[i] = r /\ call'[n] = q
        /\ \A j \in Calls : j # i /\ j # n => call'[j] = call[j]
    BY <1>1
  <1>3. call' \in [Calls -> CallRecord]
    BY <1>1
  <1>4. CallsSound'
    BY <1>2 DEF IInv, CallsSound
  <1>5. LockInv'
    <2>1. \A j \in Calls : call[j].pc \in {"wantRead", "wantWrite", "wait"}
                              => call'[j].pc = call[j].pc
      BY <1>2
    <2>2. QED
      BY <2>1, LockKept DEF IInv
  <1>6. ClientInv'
    <2>1. \A j \in Calls : call'[j].for = call[j].for /\ (call[j].ran => call'[j].ran)
      BY <1>2, FreeRecord
    <2>2. QED
      BY <2>1, ToldKept DEF IInv, dataVars
  <1>7. TypeOK'
    BY <1>3, TypeKept, TypeIs DEF IInv, lockVars
  <1>8. QED
    BY <1>4, <1>5, <1>6, <1>7 DEF IInv

\* A pod invokes another function.
LEMMA RemoteInvokeInv == ASSUME IInv, NEW i \in Calls, RemoteInvoke(i) PROVE IInv'
  <1>1. /\ call[i].pc = "remote" /\ FreeCalls # {}
        /\ UNCHANGED <<client, reply, lockVars, pool, wasm, dataVars>>
    BY DEF RemoteInvoke
  <1>2. PICK f \in Body[call[i].fn] :
          call' = [call EXCEPT ![i].child = NextCall, ![NextCall] = NewCall(f, "worker", None, i)]
    BY DEF RemoteInvoke
  <1>3. PICK n \in Calls : n = NextCall /\ call[n].pc = "free"
    BY <1>1, NextCallFree
  <1>4. call \in [Calls -> CallRecord] /\ call[i] \in CallRecord /\ Sound(call[i])
    BY TypeIs DEF IInv, CallsSound
  <1>5. f \in Fns
    BY <1>1, <1>2, <1>4, InvocationAssumption DEF Sound
  <1>6. PICK q \in CallRecord : q = NewCall(f, "worker", None, i) /\ Sound(q) /\ q.for = None
    <2>1. i \in 0..MaxCalls
      BY InvocationAssumption DEF Calls
    <2>2. QED
      BY <1>5, <2>1, NewRecord
  <1> DEFINE r == [call[i] EXCEPT !.child = n]
  <1>7. n \in 0..MaxCalls
    BY InvocationAssumption DEF Calls
  <1>8. r \in CallRecord
    BY <1>4, <1>7 DEF CallRecord
  <1>9. /\ r.pc = "remote" /\ r.fn = call[i].fn /\ r.for = call[i].for /\ r.ran = call[i].ran
        /\ r.event = call[i].event /\ r.res = call[i].res
    BY <1>1, <1>4 DEF CallRecord
  <1>10. call' = [call EXCEPT ![i] = r, ![n] = q]
    BY <1>1, <1>2, <1>3, <1>4, <1>6
  <1> HIDE DEF r
  <1>11. Sound(r)
    BY <1>1, <1>4, <1>9 DEF Sound
  <1>12. QED
    BY <1>1, <1>3, <1>6, <1>8, <1>9, <1>10, <1>11, Spawns

\* A guest invokes another function.
LEMMA HostInvokeLocalInv == ASSUME IInv, NEW i \in Calls, HostInvokeLocal(i) PROVE IInv'
  <1>1. /\ call[i].pc = "guest" /\ FreeCalls # {} /\ HostAllows(i)
        /\ UNCHANGED <<client, reply, lockVars, pool, wasm, dataVars>>
    BY DEF HostInvokeLocal
  <1>2. PICK f \in Body[call[i].fn] :
          call' = [call EXCEPT ![i].pc = "hosted", ![i].depth = @ + 1, ![i].child = NextCall,
                               ![NextCall] = NewCall(f, "host", None, i)]
    BY DEF HostInvokeLocal
  <1>3. PICK n \in Calls : n = NextCall /\ call[n].pc = "free"
    BY <1>1, NextCallFree
  <1>4. call \in [Calls -> CallRecord] /\ call[i] \in CallRecord /\ Sound(call[i])
    BY TypeIs DEF IInv, CallsSound
  <1>5. f \in Fns
    BY <1>1, <1>2, <1>4, InvocationAssumption DEF Sound
  <1>6. PICK q \in CallRecord : q = NewCall(f, "host", None, i) /\ Sound(q) /\ q.for = None
    <2>1. i \in 0..MaxCalls
      BY InvocationAssumption DEF Calls
    <2>2. QED
      BY <1>5, <2>1, NewRecord
  <1> DEFINE r == [call[i] EXCEPT !.pc = "hosted", !.depth = @ + 1, !.child = n]
  <1>7. n \in 0..MaxCalls
    BY InvocationAssumption DEF Calls
  <1>8. call[i].depth + 1 \in 0..MaxDepth /\ call[i].depth + 1 > 0
    BY <1>1, <1>4, InvocationAssumption DEF HostAllows, CallRecord
  <1>9. r \in CallRecord
    BY <1>4, <1>7, <1>8, ZenonT(30) DEF CallRecord
  <1>10. /\ r.pc = "hosted" /\ r.fn = call[i].fn /\ r.for = call[i].for /\ r.ran = call[i].ran
         /\ r.event = call[i].event /\ r.res = call[i].res /\ r.conn = call[i].conn
         /\ r.depth = call[i].depth + 1
    BY <1>1, <1>4 DEF CallRecord
  <1>11. call' = [call EXCEPT ![i] = r, ![n] = q]
    BY <1>1, <1>2, <1>3, <1>4, <1>6
  <1> HIDE DEF r
  <1>12. Sound(r)
    BY <1>1, <1>4, <1>8, <1>10 DEF Sound
  <1>13. QED
    BY <1>1, <1>3, <1>6, <1>9, <1>10, <1>11, <1>12, Spawns

\* Every step of a call keeps the invariant.
LEMMA CallStepInv == ASSUME IInv, NEW i \in Calls, CallStep(i) PROVE IInv'
  BY DispatchInv, GrantReadInv, GrantWriteInv, ConnectInv, PoolFailsInv, RunInv, RemoteInvokeInv,
     RemoteEndInv, HostInvokeLocalInv, HostInvokeRemoteInv, HostReturnInv, GuestEndInv
     DEF CallStep

-----------------------------------------------------------------------------
(* Steps of a client and of the object handlers                            *)

\* ClientInv of one client.
ClientOk(c) ==
    /\ client[c].pc = "idle" => client[c].req = NoReq /\ client[c].out = "none"
    /\ \A i \in Calls : call[i].for = c => client[c].req.op = "invoke"
    /\ \A i, j \in Calls : call[i].for = c /\ call[j].for = c => i = j
    /\ applied[c] \in {0, 1}
    /\ client[c].req.op = "put" /\ (reply[c] = "ok" \/ client[c].out = "200") => applied[c] = 1
    /\ client[c].req.op = "invoke" /\ (reply[c] = "ok" \/ client[c].out = "ok")
          => \E i \in Calls : call[i].for = c /\ call[i].ran
    /\ client[c].pc = "idle" => reply[c] = "none"

\* A step that concerns one client does not concern the others.
LEMMA OneClient ==
    ASSUME ClientInv, NEW c \in Clients, ClientOk(c)',
           \A d \in Clients : d # c =>
              client'[d] = client[d] /\ reply'[d] = reply[d] /\ applied'[d] = applied[d],
           \A j \in Calls :
              /\ call[j].ran => call'[j].ran
              /\ call'[j].for = call[j].for \/ (call[j].for = None /\ call'[j].for = c)
    PROVE  ClientInv'
  <1> SUFFICES ASSUME NEW d \in Clients, d # c PROVE ClientOk(d)'
    BY DEF ClientInv, ClientOk
  <1>1. \A j \in Calls : call'[j].for = d <=> call[j].for = d
    BY InvocationAssumption
  <1>2. ClientOk(d)
    BY DEF ClientInv, ClientOk
  <1>3. QED
    BY <1>1, <1>2 DEF ClientOk

\* Nothing was sent for a client before its request.
LEMMA Unsent ==
    ASSUME IInv, NEW c \in Clients, client[c].pc = "idle"
    PROVE  reply[c] = "none" /\ \A i \in Calls : call[i].for # c
  BY DEF IInv, ClientInv, NoReq

\* The types of a step that changes clients, replies and the object.
LEMMA ClientType ==
    ASSUME TypeOK, NEW c \in Clients, NEW pc \in {"wait", "done"}, NEW req \in Requests \cup {NoReq},
           NEW out \in {"none", "sent", "200", "204", "400", "404", "502", "504",
                        "ok", "app", "sys", "internal", "status"},
           SetClient(c, pc, req, out)
    PROVE  /\ client' \in [Clients -> [pc : {"idle", "wait", "done"}, req : Requests \cup {NoReq},
                               out : {"none", "sent", "200", "204", "400", "404", "502", "504",
                                      "ok", "app", "sys", "internal", "status"}]]
           /\ client'[c].pc = pc /\ client'[c].req = req /\ client'[c].out = out
           /\ \A d \in Clients : d # c => client'[d] = client[d]
  <1>1. PICK r : r = [pc |-> pc, req |-> req, out |-> out]
    OBVIOUS
  <1>2. /\ r \in [pc : {"idle", "wait", "done"}, req : Requests \cup {NoReq},
                    out : {"none", "sent", "200", "204", "400", "404", "502", "504",
                           "ok", "app", "sys", "internal", "status"}]
        /\ r.pc = pc /\ r.req = req /\ r.out = out
    BY <1>1
  <1>3. client' = [client EXCEPT ![c] = r]
    BY <1>1 DEF SetClient
  <1>4. QED
    BY <1>2, <1>3, TypeIs

\* A request that is sent on: a query that reaches a shard begins a call, one
\* that matches no queryable closes the channel.
LEMMA QueryInv ==
    ASSUME IInv, NEW c \in Clients, client[c].pc = "idle", NEW req \in Requests, req.op = "invoke",
           SetClient(c, "wait", req, "none"),
           NEW by \in {"worker", "direct"},
           \/ reply' = [reply EXCEPT ![c] = "closed"] /\ UNCHANGED call
           \/ /\ FreeCalls # {} /\ UNCHANGED reply
              /\ call' = [call EXCEPT ![NextCall] = NewCall(req.fn, by, c, 0)],
           UNCHANGED <<lockVars, pool, wasm, dataVars>>
    PROVE  IInv'
  <1>1. /\ client' \in [Clients -> [pc : {"idle", "wait", "done"}, req : Requests \cup {NoReq},
                              out : {"none", "sent", "200", "204", "400", "404", "502", "504",
                                     "ok", "app", "sys", "internal", "status"}]]
        /\ client'[c].pc = "wait" /\ client'[c].req = req /\ client'[c].out = "none"
        /\ \A d \in Clients : d # c => client'[d] = client[d]
    BY ClientType DEF IInv
  <1>2. reply[c] = "none" /\ \A i \in Calls : call[i].for # c
    BY Unsent
  <1>3. /\ reply \in [Clients -> {"none", "closed", "err", "found", "ok", "app", "sys"}]
        /\ call \in [Calls -> CallRecord]
    BY TypeIs DEF IInv
  <1>4. applied' = applied /\ applied[c] \in {0, 1}
    BY DEF dataVars, IInv, ClientInv
  <1>5. CASE reply' = [reply EXCEPT ![c] = "closed"] /\ UNCHANGED call
    <2>1. /\ reply' \in [Clients -> {"none", "closed", "err", "found", "ok", "app", "sys"}]
          /\ reply'[c] = "closed" /\ \A d \in Clients : d # c => reply'[d] = reply[d]
      BY <1>3, <1>5
    <2>2. ClientOk(c)'
      BY <1>1, <1>2, <1>4, <1>5, <2>1 DEF ClientOk
    <2>3. ClientInv'
      BY <1>1, <1>4, <1>5, <2>1, <2>2, OneClient DEF IInv
    <2>4. TypeOK'
      BY <1>1, <1>5, <2>1 DEF IInv, TypeOK, lockVars, dataVars
    <2>5. CallsSound' /\ LockInv'
      BY <1>5, LockKept DEF IInv, CallsSound
    <2>6. QED
      BY <2>3, <2>4, <2>5 DEF IInv
  <1>6. CASE /\ FreeCalls # {} /\ UNCHANGED reply
             /\ call' = [call EXCEPT ![NextCall] = NewCall(req.fn, by, c, 0)]
    <2>1. PICK n \in Calls : n = NextCall /\ call[n].pc = "free"
      BY <1>6, NextCallFree
    <2>2. PICK q \in CallRecord : /\ q = NewCall(req.fn, by, c, 0) /\ Sound(q)
                                  /\ q.for = c /\ q.pc = "queued" /\ ~q.ran
      <3>1. PICK z \in 0..MaxCalls : z = 0
        BY InvocationAssumption
      <3>2. PICK f \in Fns : f = req.fn
        BY InvocationAssumption DEF Request
      <3>3. PICK q : q = NewCall(f, by, c, z)
        OBVIOUS
      <3>4. /\ q \in CallRecord /\ Sound(q)
            /\ q.for = c /\ q.pc = "queued" /\ ~q.ran
        BY <3>3, NewRecord
      <3>5. q = NewCall(req.fn, by, c, 0)
        BY <3>1, <3>2, <3>3
      <3>6. QED
        BY <3>4, <3>5
    <2>3. call' = [call EXCEPT ![n] = q]
      BY <1>6, <2>1, <2>2
    <2>4. /\ call' \in [Calls -> CallRecord] /\ CallsSound'
          /\ call'[n] = q /\ \A j \in Calls : j # n => call'[j] = call[j]
      BY <2>2, <2>3, OneCall DEF IInv
    <2>5. call[n].for = None /\ ~call[n].ran
      BY <2>1, FreeRecord
    <2>6. ClientOk(c)'
      BY <1>1, <1>2, <1>4, <1>6, <2>2, <2>4 DEF ClientOk
    <2>7. ClientInv'
      BY <1>1, <1>4, <1>6, <2>2, <2>4, <2>5, <2>6, OneClient DEF IInv
    <2>8. TypeOK'
      BY <1>1, <1>6, <2>4 DEF IInv, TypeOK, CallRecord, lockVars, dataVars
    <2>9. LockInv'
      <3>1. \A j \in Calls : call[j].pc \in {"wantRead", "wantWrite", "wait"}
                                => call'[j].pc = call[j].pc
        BY <2>1, <2>4
      <3>2. QED
        BY <3>1, LockKept DEF IInv
    <2>10. QED
      BY <2>4, <2>7, <2>8, <2>9 DEF IInv
  <1>7. QED
    BY <1>5, <1>6

\* Requests that nothing is sent for, or that nobody waits for.
LEMMA QuietSend ==
    ASSUME IInv, NEW c \in Clients, client[c].pc = "idle", NEW req \in Requests,
           req.op \notin {"invoke"},
           NEW pc \in {"wait", "done"}, NEW out \in {"none", "sent", "204", "400"},
           SetClient(c, pc, req, out), reply' = reply, applied' = applied,
           call' \in [Calls -> CallRecord], CallsSound',
           \A j \in Calls : /\ call'[j].for = call[j].for /\ (call[j].ran => call'[j].ran)
                            /\ call[j].pc \in {"wantRead", "wantWrite", "wait"}
                                  => call'[j].pc = call[j].pc,
           stored' \in BOOLEAN, deleting' \in Nat,
           UNCHANGED <<lockVars, pool, wasm>>
    PROVE  IInv'
  <1>1. /\ client' \in [Clients -> [pc : {"idle", "wait", "done"}, req : Requests \cup {NoReq},
                              out : {"none", "sent", "200", "204", "400", "404", "502", "504",
                                     "ok", "app", "sys", "internal", "status"}]]
        /\ client'[c].pc = pc /\ client'[c].req = req /\ client'[c].out = out
        /\ \A d \in Clients : d # c => client'[d] = client[d]
    BY ClientType DEF IInv
  <1>2. reply[c] = "none" /\ \A i \in Calls : call[i].for # c
    BY Unsent
  <1>3. applied[c] \in {0, 1}
    BY DEF IInv, ClientInv
  <1>4. ClientOk(c)'
    BY <1>1, <1>2, <1>3 DEF ClientOk
  <1>5. ClientInv'
    BY <1>1, <1>4, OneClient DEF IInv
  <1>6. TypeOK'
    BY <1>1 DEF IInv, TypeOK, CallRecord, lockVars
  <1>7. LockInv'
    BY LockKept DEF IInv
  <1>8. QED
    BY <1>5, <1>6, <1>7 DEF IInv

\* Every request a client may send keeps the invariant.
LEMMA SendInv == ASSUME IInv, NEW c \in Clients, Send(c) PROVE IInv'
  <1>1. PICK req \in Requests :
          \/ RestInvoke(c, req) \/ GrpcInvoke(c, req) \/ OdgmInvoke(c, req)
          \/ SendAsync(c, req) \/ SendGet(c, req) \/ SendPut(c, req)
          \/ SendDelete(c, req) \/ Reject(c, req)
    BY DEF Send
  <1>2. client[c].pc = "idle" /\ UNCHANGED <<lockVars, pool, wasm>>
    BY DEF Send
  <1>3. /\ call \in [Calls -> CallRecord] /\ CallsSound
        /\ stored \in BOOLEAN /\ deleting \in Nat
    BY TypeIs DEF IInv
  <1>4. CASE RestInvoke(c, req) \/ GrpcInvoke(c, req)
    <2>1. /\ req.op = "invoke" /\ SetClient(c, "wait", req, "none") /\ Query(c, req.fn)
          /\ UNCHANGED dataVars
      BY <1>4 DEF RestInvoke, GrpcInvoke
    <2>2. QED
      BY <1>2, <2>1, QueryInv DEF Query
  <1>5. CASE OdgmInvoke(c, req)
    BY <1>2, <1>5, QueryInv DEF OdgmInvoke
  <1>6. CASE SendAsync(c, req)
    <2>1. /\ req.op = "async" /\ FreeCalls # {} /\ SetClient(c, "done", req, "sent")
          /\ call' = [call EXCEPT ![NextCall] = NewCall(req.fn, "worker", None, 0)]
          /\ reply' = reply /\ applied' = applied /\ stored' = stored /\ deleting' = deleting
      BY <1>6 DEF SendAsync, dataVars
    <2>2. PICK n \in Calls : n = NextCall /\ call[n].pc = "free"
      BY <2>1, NextCallFree
    <2>3. PICK q \in CallRecord : /\ q = NewCall(req.fn, "worker", None, 0) /\ Sound(q)
                                  /\ q.for = None /\ q.pc = "queued"
      <3>1. PICK z \in 0..MaxCalls : z = 0
        BY InvocationAssumption
      <3>2. PICK f \in Fns : f = req.fn
        BY InvocationAssumption DEF Request
      <3>3. PICK q : q = NewCall(f, "worker", None, z)
        OBVIOUS
      <3>4. /\ q \in CallRecord /\ Sound(q)
            /\ q.for = None /\ q.pc = "queued" /\ ~q.ran
        BY <3>3, NewRecord
      <3>5. q = NewCall(req.fn, "worker", None, 0)
        BY <3>1, <3>2, <3>3
      <3>6. QED
        BY <3>4, <3>5
    <2>4. call' = [call EXCEPT ![n] = q]
      BY <2>1, <2>2, <2>3
    <2>5. /\ call' \in [Calls -> CallRecord] /\ CallsSound'
          /\ call'[n] = q /\ \A j \in Calls : j # n => call'[j] = call[j]
      BY <2>3, <2>4, OneCall DEF IInv
    <2>6. \A j \in Calls : /\ call'[j].for = call[j].for /\ (call[j].ran => call'[j].ran)
                           /\ call[j].pc \in {"wantRead", "wantWrite", "wait"}
                                 => call'[j].pc = call[j].pc
      BY <2>2, <2>3, <2>5, FreeRecord
    <2>7. QED
      BY <1>2, <1>3, <2>1, <2>5, <2>6, QuietSend
  <1>7. ASSUME call' = call PROVE CallsSound'
    BY <1>3, <1>7 DEF CallsSound
  <1>8. CASE SendGet(c, req) \/ SendPut(c, req)
    <2>1. /\ req.op \in {"get", "put"} /\ SetClient(c, "wait", req, "none")
          /\ reply' = reply /\ call' = call
          /\ applied' = applied /\ stored' = stored /\ deleting' = deleting
      BY <1>8 DEF SendGet, SendPut, dataVars
    <2>2. QED
      BY <1>2, <1>3, <1>7, <2>1, QuietSend
  <1>9. CASE SendDelete(c, req)
    <2>1. /\ req.op = "del" /\ SetClient(c, "done", req, "204")
          /\ reply' = reply /\ call' = call
          /\ applied' = applied /\ stored' = stored /\ deleting' = deleting + 1
      BY <1>9 DEF SendDelete
    <2>2. deleting' \in Nat
      BY <1>3, <2>1
    <2>3. QED
      BY <1>2, <1>3, <1>7, <2>1, <2>2, QuietSend
  <1>10. CASE Reject(c, req)
    <2>1. /\ req.op = "bad" /\ SetClient(c, "done", req, "400")
          /\ reply' = reply /\ call' = call
          /\ applied' = applied /\ stored' = stored /\ deleting' = deleting
      BY <1>10 DEF Reject, dataVars
    <2>2. QED
      BY <1>2, <1>3, <1>7, <2>1, QuietSend
  <1>11. QED
    BY <1>1, <1>4, <1>5, <1>6, <1>8, <1>9, <1>10

\* A step that leaves calls, lock and pools alone.
LEMMA Elsewhere ==
    ASSUME IInv, UNCHANGED <<call, lockVars, pool>>, wasm' \in [on : BOOLEAN, mods : SUBSET Fns],
           client' \in [Clients -> [pc : {"idle", "wait", "done"}, req : Requests \cup {NoReq},
                              out : {"none", "sent", "200", "204", "400", "404", "502", "504",
                                     "ok", "app", "sys", "internal", "status"}]],
           reply' \in [Clients -> {"none", "closed", "err", "found", "ok", "app", "sys"}],
           stored' \in BOOLEAN, deleting' \in Nat, applied' \in [Clients -> Nat],
           ClientInv'
    PROVE  IInv'
  <1>1. TypeOK'
    BY DEF IInv, TypeOK, lockVars
  <1>2. CallsSound' /\ LockInv'
    BY LockKept DEF IInv, CallsSound
  <1>3. QED
    BY <1>1, <1>2 DEF IInv

\* An answer is one the client may be given.
LEMMA AnswersAre ==
    ASSUME NEW req, NEW what \in {"closed", "err", "found", "ok", "app", "sys"}
    PROVE  /\ Answers(req, what) \in {"200", "404", "502", "ok", "app", "sys", "internal", "status"}
           /\ req.op = "put" /\ Answers(req, what) = "200" => what = "ok"
           /\ req.op = "invoke" /\ Answers(req, what) = "ok" => what = "ok"
  <1>1. CASE req.op = "get"
    BY <1>1 DEF Answers, GetAnswer
  <1>2. CASE req.op = "put"
    BY <1>2 DEF Answers, PutAnswer
  <1>3. CASE req.op \notin {"get", "put"} /\ req.via = "rest"
    BY <1>3 DEF Answers, RestAnswer, IsResponse
  <1>4. CASE req.op \notin {"get", "put"} /\ req.via = "grpc"
    BY <1>4 DEF Answers, GrpcAnswer, IsResponse
  <1>5. CASE req.op \notin {"get", "put"} /\ req.via \notin {"rest", "grpc"}
    BY <1>5 DEF Answers, OdgmAnswer
  <1>6. QED
    BY <1>1, <1>2, <1>3, <1>4, <1>5

\* So do answers, timeouts and the object handlers.
LEMMA ClientStepInv == ASSUME IInv, NEW c \in Clients, ClientStep(c) \/ ZenohTimeout(c) PROVE IInv'
  <1>1. /\ client \in [Clients -> [pc : {"idle", "wait", "done"}, req : Requests \cup {NoReq},
                              out : {"none", "sent", "200", "204", "400", "404", "502", "504",
                                     "ok", "app", "sys", "internal", "status"}]]
        /\ reply \in [Clients -> {"none", "closed", "err", "found", "ok", "app", "sys"}]
        /\ stored \in BOOLEAN /\ deleting \in Nat /\ applied \in [Clients -> Nat]
        /\ wasm \in [on : BOOLEAN, mods : SUBSET Fns]
    BY TypeIs DEF IInv
  <1>2. client[c].req \in Requests \cup {NoReq} /\ ClientOk(c)
    BY <1>1 DEF IInv, ClientInv, ClientOk
  <1>3. CASE Answer(c)
    <2>1. /\ client[c].pc = "wait" /\ reply[c] # "none"
          /\ SetClient(c, "done", client[c].req, Answers(client[c].req, reply[c]))
          /\ UNCHANGED <<reply, call, lockVars, pool, wasm, dataVars>>
      BY <1>3 DEF Answer
    <2>2. PICK out \in {"200", "404", "502", "ok", "app", "sys", "internal", "status"} :
            /\ out = Answers(client[c].req, reply[c])
            /\ client[c].req.op = "put" /\ out = "200" => reply[c] = "ok"
            /\ client[c].req.op = "invoke" /\ out = "ok" => reply[c] = "ok"
      BY <1>1, <2>1, AnswersAre
    <2>3. /\ client' \in [Clients -> [pc : {"idle", "wait", "done"}, req : Requests \cup {NoReq},
                                out : {"none", "sent", "200", "204", "400", "404", "502", "504",
                                       "ok", "app", "sys", "internal", "status"}]]
          /\ client'[c].pc = "done" /\ client'[c].req = client[c].req /\ client'[c].out = out
          /\ \A d \in Clients : d # c => client'[d] = client[d]
      BY <1>2, <2>1, <2>2, ClientType DEF IInv
    <2>4. ClientOk(c)'
      BY <1>2, <2>1, <2>2, <2>3 DEF ClientOk, dataVars
    <2>5. ClientInv'
      BY <2>1, <2>3, <2>4, OneClient DEF IInv, dataVars
    <2>6. QED
      BY <1>1, <2>1, <2>3, <2>5, Elsewhere DEF dataVars
  <1>4. CASE Deadline(c)
    <2>1. /\ client[c].pc = "wait" /\ SetClient(c, "done", client[c].req, "504")
          /\ UNCHANGED <<reply, call, lockVars, pool, wasm, dataVars>>
      BY <1>4 DEF Deadline
    <2>2. /\ client' \in [Clients -> [pc : {"idle", "wait", "done"}, req : Requests \cup {NoReq},
                                out : {"none", "sent", "200", "204", "400", "404", "502", "504",
                                       "ok", "app", "sys", "internal", "status"}]]
          /\ client'[c].pc = "done" /\ client'[c].req = client[c].req /\ client'[c].out = "504"
          /\ \A d \in Clients : d # c => client'[d] = client[d]
      BY <1>2, <2>1, ClientType DEF IInv
    <2>3. ClientOk(c)'
      BY <1>2, <2>1, <2>2 DEF ClientOk, dataVars
    <2>4. ClientInv'
      BY <2>1, <2>2, <2>3, OneClient DEF IInv, dataVars
    <2>5. QED
      BY <1>1, <2>1, <2>2, <2>4, Elsewhere DEF dataVars
  <1>5. CASE ServePut(c)
    <2>1. /\ client[c].req.op = "put" /\ applied[c] = 0 /\ stored' = TRUE
          /\ applied' = [applied EXCEPT ![c] = @ + 1] /\ reply' = Put(reply, c, "ok")
          /\ UNCHANGED <<client, call, lockVars, pool, wasm, deleting>>
      BY <1>5 DEF ServePut
    <2>2. /\ applied' \in [Clients -> Nat] /\ applied'[c] = 1
          /\ \A d \in Clients : d # c => applied'[d] = applied[d]
      BY <1>1, <2>1
    <2>3. /\ reply' \in [Clients -> {"none", "closed", "err", "found", "ok", "app", "sys"}]
          /\ \A d \in Clients : d # c => reply'[d] = reply[d]
          /\ client[c].pc = "idle" => reply'[c] = reply[c]
      BY <1>1, <2>1 DEF Put
    <2>4. ClientOk(c)'
      BY <1>2, <2>1, <2>2, <2>3 DEF ClientOk
    <2>5. ClientInv'
      BY <2>1, <2>2, <2>3, <2>4, OneClient DEF IInv
    <2>6. QED
      BY <1>1, <2>1, <2>2, <2>3, <2>5, Elsewhere
  <1>6. CASE ServeGet(c)
    <2>1. /\ client[c].pc = "wait" /\ client[c].req.op = "get"
          /\ UNCHANGED <<client, call, lockVars, pool, wasm, dataVars>>
      BY <1>6 DEF ServeGet
    <2>2. /\ reply' \in [Clients -> {"none", "closed", "err", "found", "ok", "app", "sys"}]
          /\ \A d \in Clients : d # c => reply'[d] = reply[d]
      BY <1>1, <1>6 DEF ServeGet, Put
    <2>3. ClientOk(c)'
      BY <1>2, <2>1, <2>2 DEF ClientOk, dataVars
    <2>4. ClientInv'
      BY <2>1, <2>2, <2>3, OneClient DEF IInv, dataVars
    <2>5. QED
      BY <1>1, <2>1, <2>2, <2>4, Elsewhere DEF dataVars
  <1>7. CASE ZenohTimeout(c)
    <2>1. /\ client[c].pc = "wait" /\ reply' = [reply EXCEPT ![c] = "err"]
          /\ UNCHANGED <<client, call, lockVars, pool, wasm, dataVars>>
      BY <1>7 DEF ZenohTimeout
    <2>2. /\ reply' \in [Clients -> {"none", "closed", "err", "found", "ok", "app", "sys"}]
          /\ reply'[c] = "err" /\ \A d \in Clients : d # c => reply'[d] = reply[d]
      BY <1>1, <2>1
    <2>3. ClientOk(c)'
      BY <1>2, <2>1, <2>2 DEF ClientOk, dataVars
    <2>4. ClientInv'
      BY <2>1, <2>2, <2>3, OneClient DEF IInv, dataVars
    <2>5. QED
      BY <1>1, <2>1, <2>2, <2>4, Elsewhere DEF dataVars
  <1>8. QED
    BY <1>3, <1>4, <1>5, <1>6, <1>7 DEF ClientStep

\* The late attachment of the WASM runtime, and a published delete that arrives.
LEMMA OthersInv == ASSUME IInv, AttachWasm \/ ApplyDelete PROVE IInv'
  <1>1. /\ client \in [Clients -> [pc : {"idle", "wait", "done"}, req : Requests \cup {NoReq},
                              out : {"none", "sent", "200", "204", "400", "404", "502", "504",
                                     "ok", "app", "sys", "internal", "status"}]]
        /\ reply \in [Clients -> {"none", "closed", "err", "found", "ok", "app", "sys"}]
        /\ stored \in BOOLEAN /\ deleting \in Nat /\ applied \in [Clients -> Nat]
        /\ wasm \in [on : BOOLEAN, mods : SUBSET Fns]
    BY TypeIs DEF IInv
  <1>2. UNCHANGED <<client, reply, call, lockVars, pool, applied>>
    BY DEF AttachWasm, ApplyDelete, dataVars
  <1>3. ClientInv'
    BY <1>2 DEF IInv, ClientInv
  <1>4. CASE AttachWasm
    <2>1. wasm' \in [on : BOOLEAN, mods : SUBSET Fns]
      BY <1>4 DEF AttachWasm
    <2>2. stored' = stored /\ deleting' = deleting
      BY <1>4 DEF AttachWasm, dataVars
    <2>3. QED
      BY <1>1, <1>2, <1>3, <2>1, <2>2, Elsewhere
  <1>5. CASE ApplyDelete
    <2>1. deleting' \in Nat /\ stored' = FALSE /\ wasm' = wasm
      BY <1>1, <1>5 DEF ApplyDelete
    <2>2. QED
      BY <1>1, <1>2, <1>3, <2>1, Elsewhere
  <1>6. QED
    BY <1>4, <1>5

\* The invariant is inductive.
LEMMA NextInv == IInv /\ [Next]_vars => IInv'
  <1> SUFFICES ASSUME IInv, [Next]_vars PROVE IInv'
    OBVIOUS
  <1>1. CASE UNCHANGED vars
    BY <1>1 DEF IInv, TypeOK, CallsSound, LockInv, ClientInv, vars, lockVars, dataVars
  <1>2. ASSUME NEW c \in Clients, Send(c) \/ ZenohTimeout(c) \/ ClientStep(c) PROVE IInv'
    BY <1>2, SendInv, ClientStepInv
  <1>3. ASSUME NEW i \in Calls, CallStep(i) PROVE IInv'
    BY <1>3, CallStepInv
  <1>4. CASE AttachWasm \/ ApplyDelete
    BY <1>4, OthersInv
  <1>5. QED
    BY <1>1, <1>2, <1>3, <1>4 DEF Next

\* The invariant always holds.
LEMMA AlwaysInv == Spec => []IInv
  BY InitInv, NextInv, PTL DEF Spec

-----------------------------------------------------------------------------
(* The theorems                                                            *)

\* What clients and subscribers are told happened, for any number of clients,
\* functions and nested calls: a put answered 200 was applied, an invocation
\* answered OKAY ran, no request runs its function twice, and function events
\* report the outcome, whatever times out (rest.rs, grpc.rs, exec.rs).
THEOREM AnswersStayTruthful == Spec => []AnswersTruthful
  BY AlwaysInv, ToldTruth, PTL

\* No call that ended keeps a connection, a guard of the pool map's lock or a
\* place in its queue, for any pool size and number of workers (conn.rs).
THEOREM NothingStaysHeld == Spec => []NothingHeld
  BY AlwaysInv, HeldNothing, PTL

-----------------------------------------------------------------------------
(* The shard manager: the invariant                                        *)

\* A sequence, whatever its elements are.
Listed(s) == s \in Seq({s[i] : i \in DOMAIN s})

IsShard(r) ==
    r = [meta |-> r.meta, net |-> r.net, fns |-> r.fns, task |-> r.task, live |-> r.live,
         inbox |-> r.inbox, cancelled |-> r.cancelled]

\* The records have their fields.
FieldsInv ==
    /\ loop = [pc |-> loop.pc, last |-> loop.last, todo |-> loop.todo, cur |-> loop.cur]
    /\ closer = [pc |-> closer.pc, todo |-> closer.todo]
    /\ stats = [created |-> stats.created, active |-> stats.active, failed |-> stats.failed]
    /\ Listed(inst) /\ \A i \in DOMAIN inst : IsShard(inst[i])

\* Metadata is stored under the id it has, and the loop works on this node's.
MetaInv ==
    /\ \A id \in DOMAIN shards : shards[id].id = id
    /\ \A id \in DOMAIN local : local[id].id = id
    /\ loop.todo \subseteq DOMAIN local

Building == loop.pc \in {"init", "network", "insert"}

\* Every shard built is in the map, but for the last one while the loop has not put it
\* there.
BuiltInv ==
    /\ IsFiniteSet(DOMAIN active)
    /\ stats.active = Cardinality(DOMAIN active) - (IF loop.pc = "count" THEN 1 ELSE 0)
    /\ loop.pc \in {"build", "init", "network", "insert"} => loop.cur.id \notin DOMAIN active
    /\ Building => inst # <<>> /\ inst[Len(inst)].meta = loop.cur
    /\ \A i \in DOMAIN inst : inst[i].meta.id \in DOMAIN active \/ (Building /\ i = Len(inst))
    /\ \A i, j \in DOMAIN inst : inst[i].meta.id = inst[j].meta.id => i = j

ManagerInv == FieldsInv /\ MetaInv /\ (Running => BuiltInv)

\* A step that leaves the shards there are with the metadata they have.
SameShards ==
    /\ Listed(inst)' /\ DOMAIN inst' = DOMAIN inst /\ Len(inst') = Len(inst)
    /\ inst' = <<>> => inst = <<>>
    /\ \A i \in DOMAIN inst : IsShard(inst'[i]) /\ inst'[i].meta = inst[i].meta

-----------------------------------------------------------------------------
(* The shard manager: sequences and maps                                   *)

LEMMA ListedFacts ==
    ASSUME NEW s, Listed(s)
    PROVE  Len(s) \in Nat /\ DOMAIN s = 1..Len(s) /\ (s # <<>> => Len(s) \in DOMAIN s)
  <1>1. PICK S : S = {s[i] : i \in DOMAIN s}
    OBVIOUS
  <1>2. s \in Seq(S)
    BY <1>1 DEF Listed
  <1>3. QED
    BY <1>2

LEMMA MapListed ==
    ASSUME NEW n \in Nat, NEW s, DOMAIN s = 1..n, s = [i \in 1..n |-> s[i]]
    PROVE  Listed(s) /\ Len(s) = n
  <1>1. PICK S : S = {s[i] : i \in DOMAIN s}
    OBVIOUS
  <1>2. \A i \in 1..n : s[i] \in S
    BY <1>1
  <1>3. s \in Seq(S)
    BY <1>2
  <1>4. QED
    BY <1>1, <1>3 DEF Listed

LEMMA SeqListed == ASSUME NEW S, NEW s \in Seq(S) PROVE Listed(s)
  <1>1. Len(s) \in Nat /\ DOMAIN s = 1..Len(s)
    OBVIOUS
  <1>2. s = [i \in 1..Len(s) |-> s[i]]
    BY <1>1
  <1>3. QED
    BY <1>1, <1>2, MapListed

LEMMA AddedLast ==
    ASSUME NEW S, NEW s \in Seq(S), NEW e \in S
    PROVE  Append(s, e)[Len(s) + 1] = e /\ \A i \in 1..Len(s) : Append(s, e)[i] = s[i]
  OBVIOUS

Longer(s, e, t) ==
    /\ Listed(t) /\ Len(t) = Len(s) + 1 /\ DOMAIN t = 1..(Len(s) + 1) /\ t # <<>>
    /\ t[Len(s) + 1] = e /\ \A i \in DOMAIN s : t[i] = s[i]

Shorter(s, t) ==
    /\ Listed(t) /\ Len(t) = Len(s) - 1 /\ DOMAIN t = 1..(Len(s) - 1)
    /\ \A i \in DOMAIN t : t[i] = s[i] /\ i \in DOMAIN s /\ i # Len(s)

LEMMA AppendListed ==
    ASSUME NEW s, Listed(s), NEW e
    PROVE  Longer(s, e, Append(s, e))
  <1>1. PICK t : t = Append(s, e)
    OBVIOUS
  <1>2. PICK S : S = {s[i] : i \in DOMAIN s} \cup {e}
    OBVIOUS
  <1>3. s \in Seq({s[i] : i \in DOMAIN s}) /\ Len(s) \in Nat /\ DOMAIN s = 1..Len(s)
    BY ListedFacts DEF Listed
  <1>4. s \in Seq(S) /\ e \in S
    <2>1. \A i \in 1..Len(s) : s[i] \in S
      BY <1>2, <1>3
    <2>2. s = [i \in 1..Len(s) |-> s[i]]
      BY <1>3
    <2>3. QED
      BY <1>2, <1>3, <2>1, <2>2
  <1>5. /\ t \in Seq(S) /\ Len(t) = Len(s) + 1 /\ DOMAIN t = 1..(Len(s) + 1)
        /\ t[Len(s) + 1] = e /\ \A i \in 1..Len(s) : t[i] = s[i]
    <2>1. t \in Seq(S) /\ Len(t) = Len(s) + 1
      BY <1>1, <1>4
    <2>2. DOMAIN t = 1..(Len(s) + 1)
      BY <2>1
    <2>3. Append(s, e)[Len(s) + 1] = e /\ \A i \in 1..Len(s) : Append(s, e)[i] = s[i]
      BY <1>4, AddedLast
    <2>4. QED
      BY <1>1, <2>1, <2>2, <2>3
  <1>6. Listed(t)
    BY <1>5, SeqListed
  <1>7. t # <<>>
    BY <1>3, <1>5
  <1>8. Longer(s, e, t)
    BY <1>3, <1>5, <1>6, <1>7 DEF Longer
  <1>9. QED
    BY <1>1, <1>8

\* Dropping the last element.
LEMMA FrontListed ==
    ASSUME NEW s, Listed(s), s # <<>>
    PROVE  Shorter(s, SubSeq(s, 1, Len(s) - 1))
  <1>1. PICK t : t = SubSeq(s, 1, Len(s) - 1)
    OBVIOUS
  <1>2. PICK S : S = {s[i] : i \in DOMAIN s}
    OBVIOUS
  <1>3. s \in Seq(S) /\ Len(s) \in Nat /\ DOMAIN s = 1..Len(s) /\ Len(s) # 0
    <2>1. s \in Seq(S)
      BY <1>2 DEF Listed
    <2>2. QED
      BY <2>1
  <1>4. /\ t \in Seq(S) /\ Len(t) = Len(s) - 1 /\ DOMAIN t = 1..(Len(s) - 1)
        /\ \A i \in 1..(Len(s) - 1) : t[i] = s[i]
    <2>1. PICK n : n = Len(s) - 1
      OBVIOUS
    <2>2. n \in Nat /\ \A i \in 1..n : i \in 1..Len(s)
      BY <1>3, <2>1
    <2>3. t = [i \in 1..n |-> s[i]]
      <3>1. t = SubSeq(s, 1, n)
        BY <1>1, <2>1
      <3>2. SubSeq(s, 1, n) = [i \in 1..(n - 1 + 1) |-> s[1 + i - 1]]
        BY <2>2, <1>3
      <3>3. n - 1 + 1 = n /\ \A i \in 1..n : 1 + i - 1 = i
        BY <2>2
      <3>4. QED
        BY <3>1, <3>2, <3>3
    <2>4. \A i \in 1..n : s[i] \in S
      BY <1>3, <2>2
    <2>5. t \in Seq(S) /\ DOMAIN t = 1..n /\ Len(t) = n
      BY <2>2, <2>3, <2>4
    <2>6. QED
      BY <2>1, <2>3, <2>5
  <1>5. Len(s) - 1 \in Nat
    BY <1>3
  <1>6. Listed(t)
    BY <1>4, SeqListed
  <1>7. Shorter(s, t)
    BY <1>3, <1>4, <1>5, <1>6 DEF Shorter
  <1>8. QED
    BY <1>1, <1>7

LEMMA EmptyFront == SubSeq(<<>>, 1, Len(<<>>) - 1) = <<>>
  OBVIOUS

LEMMA OverlayFacts ==
    ASSUME NEW f, NEW g
    PROVE  /\ DOMAIN Overlay(f, g) = DOMAIN f \cup DOMAIN g
           /\ \A x \in DOMAIN g : Overlay(f, g)[x] = g[x]
           /\ \A x \in DOMAIN f : x \notin DOMAIN g => Overlay(f, g)[x] = f[x]
  BY DEF Overlay

LEMMA OverlayNamed ==
    ASSUME NEW f, NEW g, NEW h, h = Overlay(f, g),
           \A x \in DOMAIN f : f[x].id = x, \A x \in DOMAIN g : g[x].id = x
    PROVE  DOMAIN f \subseteq DOMAIN h /\ \A x \in DOMAIN h : h[x].id = x
  <1>1. /\ DOMAIN h = DOMAIN f \cup DOMAIN g
        /\ \A x \in DOMAIN g : h[x] = g[x]
        /\ \A x \in DOMAIN f : x \notin DOMAIN g => h[x] = f[x]
    BY DEF Overlay
  <1>2. QED
    BY <1>1

-----------------------------------------------------------------------------
(* The shard manager: its steps                                            *)

\* What follows for a step that changes neither the map nor what was built.
LEMMA SameKeeps ==
    ASSUME ManagerInv, SameShards, UNCHANGED <<active, stats, loop>>, Running' => Running
    PROVE  Running' => BuiltInv'
  <1> SUFFICES ASSUME Running' PROVE BuiltInv'
    OBVIOUS
  <1>1. BuiltInv
    BY DEF ManagerInv
  <1>2. Listed(inst)
    BY DEF ManagerInv, FieldsInv
  <1>3. inst # <<>> => Len(inst) \in DOMAIN inst
    BY <1>2, ListedFacts
  <1>4. (Building => inst # <<>> /\ inst[Len(inst)].meta = loop.cur)'
    BY <1>1, <1>3 DEF BuiltInv, SameShards, Building
  <1>5. \A i \in DOMAIN inst' : inst'[i].meta.id \in DOMAIN active' \/ (Building' /\ i = Len(inst'))
    BY <1>1 DEF BuiltInv, SameShards, Building
  <1>6. \A i, j \in DOMAIN inst' : inst'[i].meta.id = inst'[j].meta.id => i = j
    BY <1>1 DEF BuiltInv, SameShards
  <1>7. QED
    BY <1>1, <1>4, <1>5, <1>6 DEF BuiltInv

LEMMA SameFields ==
    ASSUME FieldsInv, SameShards, UNCHANGED <<stats, loop>>, 
           closer' = [pc |-> closer'.pc, todo |-> closer'.todo]
    PROVE  FieldsInv'
  BY DEF FieldsInv, SameShards

\* Nothing is built or changed.
LEMMA InstSame ==
    ASSUME FieldsInv, inst' = inst PROVE SameShards
  BY DEF FieldsInv, SameShards, Listed

\* Every shard becomes one with its metadata.
LEMMA InstMapped ==
    ASSUME FieldsInv, NEW t, inst' = t, t = [i \in DOMAIN inst |-> t[i]],
           \A i \in DOMAIN inst : IsShard(t[i]) /\ t[i].meta = inst[i].meta
    PROVE  SameShards
  <1>1. Len(inst) \in Nat /\ DOMAIN inst = 1..Len(inst)
    BY ListedFacts DEF FieldsInv
  <1>2. DOMAIN t = 1..Len(inst) /\ t = [i \in 1..Len(inst) |-> t[i]]
    BY <1>1
  <1>3. Listed(t) /\ Len(t) = Len(inst)
    BY <1>1, <1>2, MapListed
  <1>4. inst' = <<>> => inst = <<>>
    <2>1. t = <<>> => Len(inst) = 0
      BY <1>3
    <2>2. PICK S : inst \in Seq(S)
      BY DEF FieldsInv, Listed
    <2>3. Len(inst) = 0 => inst = <<>>
      BY <2>2
    <2>4. QED
      BY <2>1, <2>3
  <1>5. Listed(inst)'
    BY <1>3 DEF Listed
  <1>6. QED
    BY <1>1, <1>2, <1>3, <1>4, <1>5 DEF SameShards

\* One shard becomes one with its metadata.
LEMMA InstExcept ==
    ASSUME FieldsInv, NEW i, NEW r, inst' = [inst EXCEPT ![i] = r],
           i \in DOMAIN inst => IsShard(r) /\ r.meta = inst[i].meta
    PROVE  SameShards
  <1>1. PICK t : t = inst'
    OBVIOUS
  <1>2. t = [j \in DOMAIN inst |-> t[j]]
    BY <1>1
  <1>3. \A j \in DOMAIN inst : IsShard(t[j]) /\ t[j].meta = inst[j].meta
    BY <1>1 DEF FieldsInv
  <1>4. QED
    BY <1>1, <1>2, <1>3, InstMapped

\* A step of others leaves the invariant.
LEMMA SameStep ==
    ASSUME ManagerInv, SameShards, UNCHANGED <<metaVars, managerVars, closer>>
    PROVE  ManagerInv'
  <1>1. FieldsInv'
    BY SameFields DEF ManagerInv, managerVars, FieldsInv
  <1>2. Running' => BuiltInv'
    BY SameKeeps DEF managerVars, Running
  <1>3. MetaInv'
    BY DEF ManagerInv, MetaInv, metaVars, managerVars
  <1>4. QED
    BY <1>1, <1>2, <1>3 DEF ManagerInv

\* No field but the metadata matters.
LEMMA FieldSet ==
    ASSUME NEW r, IsShard(r), NEW v
    PROVE  /\ IsShard([r EXCEPT !.fns = v]) /\ [r EXCEPT !.fns = v].meta = r.meta
           /\ IsShard([r EXCEPT !.task = v]) /\ [r EXCEPT !.task = v].meta = r.meta
           /\ IsShard([r EXCEPT !.live = v]) /\ [r EXCEPT !.live = v].meta = r.meta
           /\ IsShard([r EXCEPT !.inbox = v]) /\ [r EXCEPT !.inbox = v].meta = r.meta
           /\ IsShard([r EXCEPT !.net = v]) /\ [r EXCEPT !.net = v].meta = r.meta
           /\ IsShard([r EXCEPT !.cancelled = v]) /\ [r EXCEPT !.cancelled = v].meta = r.meta
  BY DEF IsShard

LEMMA NotifySame ==
    ASSUME FieldsInv, NEW m, NEW b, NEW t, t = Notify(inst, m, b)
    PROVE  /\ DOMAIN t = DOMAIN inst /\ t = [i \in DOMAIN inst |-> t[i]]
           /\ \A i \in DOMAIN inst : IsShard(t[i]) /\ t[i].meta = inst[i].meta
  <1>1. DOMAIN t = DOMAIN inst /\ t = [i \in DOMAIN inst |-> t[i]]
    BY DEF Notify
  <1>2. ASSUME NEW i \in DOMAIN inst
        PROVE  IsShard(t[i]) /\ t[i].meta = inst[i].meta
    <2>1. IsShard(inst[i])
      BY DEF FieldsInv
    <2>2. CASE t[i] = inst[i]
      BY <2>1, <2>2
    <2>3. ASSUME NEW v, t[i] = [inst[i] EXCEPT !.inbox = v]
          PROVE  IsShard(t[i]) /\ t[i].meta = inst[i].meta
      <3>1. PICK u : u = [inst[i] EXCEPT !.inbox = v]
        OBVIOUS
      <3>2. IsShard(u) /\ u.meta = inst[i].meta
        BY <2>1, <3>1, FieldSet
      <3>3. QED
        BY <2>3, <3>1, <3>2
    <2>4. t[i] = inst[i] \/ \E v : t[i] = [inst[i] EXCEPT !.inbox = v]
      BY Zenon DEF Notify
    <2>5. QED
      BY <2>2, <2>3, <2>4, Zenon
  <1>3. QED
    BY <1>1, <1>2

\* The loader adds metadata under its ids.
LEMMA LoadKeeps == ASSUME ManagerInv, Load PROVE ManagerInv'
  <1>1. UNCHANGED <<managerVars, inst, closer>>
    BY DEF Load, CreateCollection, UpdateLocalShards, SendVersion
  <1>2. SameShards
    BY <1>1, InstSame DEF ManagerInv
  <1>3. FieldsInv'
    BY <1>1, <1>2, SameFields DEF ManagerInv, managerVars, FieldsInv
  <1>4. Running' => BuiltInv'
    BY <1>1, <1>2, SameKeeps DEF managerVars, Running
  <1>5. MetaInv'
    <2>1. CASE CreateCollection
      <3>1. local' = local /\ loop' = loop
        BY <2>1 DEF CreateCollection, managerVars
      <3>2. \A id \in DOMAIN shards' : shards'[id].id = id
        <4>1. CASE shards' = shards
          BY <4>1 DEF ManagerInv, MetaInv
        <4>2. ASSUME NEW req, NEW assigns, shards' = Overlay(shards, NewShards(req, assigns))
              PROVE  \A id \in DOMAIN shards' : shards'[id].id = id
          <5>1. PICK g : g = NewShards(req, assigns)
            OBVIOUS
          <5>2. \A id \in DOMAIN g : g[id].id = id
            BY <5>1 DEF NewShards
          <5>3. QED
            BY <4>2, <5>1, <5>2, OverlayNamed DEF ManagerInv, MetaInv
        <4>3. QED
          BY <2>1, <4>1, <4>2, Zenon DEF CreateCollection
      <3>3. QED
        BY <3>1, <3>2 DEF ManagerInv, MetaInv
    <2>2. CASE UpdateLocalShards
      <3>1. PICK g : g = [id \in {d \in DOMAIN shards : shards[d].owner = Node} |-> shards[id]]
        OBVIOUS
      <3>2. local' = Overlay(local, g) /\ shards' = shards /\ loop' = loop
        BY <2>2, <3>1 DEF UpdateLocalShards, managerVars
      <3>3. \A id \in DOMAIN g : g[id].id = id
        BY <3>1 DEF ManagerInv, MetaInv
      <3>4. DOMAIN local \subseteq DOMAIN local' /\ \A id \in DOMAIN local' : local'[id].id = id
        BY <3>2, <3>3, OverlayNamed DEF ManagerInv, MetaInv
      <3>5. QED
        BY <3>2, <3>4 DEF ManagerInv, MetaInv
    <2>3. CASE SendVersion
      BY <2>3 DEF SendVersion, managerVars, ManagerInv, MetaInv
    <2>4. QED
      BY <2>1, <2>2, <2>3 DEF Load
  <1>6. QED
    BY <1>3, <1>4, <1>5 DEF ManagerInv

\* The tasks of a shard leave it its metadata.
LEMMA TaskSame ==
    ASSUME FieldsInv, NEW i \in DOMAIN inst, ShardTask(i)
    PROVE  SameShards
  <1>1. FieldsInv /\ IsShard(inst[i])
    BY DEF FieldsInv
  <1>2. CASE Subscribe(i)
    <2>1. inst' = [inst EXCEPT ![i] = [inst[i] EXCEPT !.task = "idle"]]
      BY <1>2 DEF Subscribe
    <2>2. QED
      BY <1>1, <2>1, FieldSet, InstExcept
  <1>3. CASE TakeSample(i)
    <2>1. PICK q, l, k : inst' = [inst EXCEPT ![i].inbox = q, ![i].live = l, ![i].task = k]
      BY <1>3 DEF TakeSample
    <2>2. PICK a : a = [inst[i] EXCEPT !.inbox = q]
      OBVIOUS
    <2>3. PICK b : b = [a EXCEPT !.live = l]
      OBVIOUS
    <2>4. PICK c : c = [b EXCEPT !.task = k]
      OBVIOUS
    <2>5. inst' = [inst EXCEPT ![i] = c]
      BY <2>1, <2>2, <2>3, <2>4
    <2>6. IsShard(a) /\ a.meta = inst[i].meta
      BY <1>1, <2>2, FieldSet
    <2>7. IsShard(b) /\ b.meta = inst[i].meta
      BY <2>3, <2>6, FieldSet
    <2>8. IsShard(c) /\ c.meta = inst[i].meta
      BY <2>4, <2>7, FieldSet
    <2>9. QED
      BY <1>1, <2>5, <2>8, InstExcept
  <1>4. CASE UpdateStandby(i)
    <2>1. PICK a : a = SwitchStandby(inst[i])
      OBVIOUS
    <2>2. inst' = [inst EXCEPT ![i] = [a EXCEPT !.task = "idle"]]
      BY <1>4, <2>1 DEF UpdateStandby
    <2>3. PICK v : a = [inst[i] EXCEPT !.fns = v]
      BY <2>1, Zenon DEF SwitchStandby, StartLoops, StopLoops
    <2>4. IsShard(a) /\ a.meta = inst[i].meta
      BY <1>1, <2>3, FieldSet
    <2>5. IsShard([a EXCEPT !.task = "idle"]) /\ [a EXCEPT !.task = "idle"].meta = inst[i].meta
      BY <2>4, FieldSet
    <2>6. QED
      BY <1>1, <2>2, <2>5, InstExcept
  <1>5. CASE TaskExit(i)
    <2>1. inst' = [inst EXCEPT ![i] = [inst[i] EXCEPT !.task = "done"]]
      BY <1>5 DEF TaskExit
    <2>2. QED
      BY <1>1, <2>1, FieldSet, InstExcept
  <1>6. QED
    BY <1>2, <1>3, <1>4, <1>5 DEF ShardTask

LEMMA TaskKeeps ==
    ASSUME ManagerInv, NEW i \in DOMAIN inst, ShardTask(i)
    PROVE  ManagerInv'
  <1>1. UNCHANGED <<metaVars, relayed, managerVars, closer, up, events>>
    BY Zenon DEF ShardTask, Subscribe, TakeSample, UpdateStandby, TaskExit
  <1>2. FieldsInv /\ IsShard(inst[i])
    BY DEF ManagerInv, FieldsInv
  <1>3. SameShards
    BY <1>2, TaskSame
  <1>4. QED
    BY <1>1, <1>2, <1>3, SameStep

\* A step of the loop that builds nothing and changes no map.
LEMMA LoopMoves ==
    ASSUME ManagerInv, SameShards, UNCHANGED <<metaVars, active, stats, closer>>,
           loop' = [pc |-> loop'.pc, last |-> loop'.last, todo |-> loop'.todo, cur |-> loop'.cur],
           loop'.todo \subseteq DOMAIN local,
           loop'.pc \notin {"init", "count"} /\ loop.pc # "count",
           Building <=> Building',
           Building => loop'.cur = loop.cur,
           loop'.pc \in {"build", "network", "insert"} => loop'.cur.id \notin DOMAIN active
    PROVE  ManagerInv'
  <1>1. FieldsInv'
    BY DEF ManagerInv, FieldsInv, SameShards
  <1>2. MetaInv'
    BY DEF ManagerInv, MetaInv, metaVars
  <1>3. ASSUME Running' PROVE BuiltInv'
    <2>1. BuiltInv
      BY <1>3 DEF ManagerInv, Running
    <2>2. inst # <<>> => Len(inst) \in DOMAIN inst
      BY ListedFacts DEF ManagerInv, FieldsInv
    <2>3. /\ IsFiniteSet(DOMAIN active')
          /\ stats'.active = Cardinality(DOMAIN active') - (IF loop'.pc = "count" THEN 1 ELSE 0)
      BY <2>1 DEF BuiltInv
    <2>4. Building' => inst' # <<>> /\ inst'[Len(inst')].meta = loop'.cur
      BY <2>1, <2>2 DEF BuiltInv, SameShards
    <2>5. \A i \in DOMAIN inst' : inst'[i].meta.id \in DOMAIN active' \/ (Building' /\ i = Len(inst'))
      BY <2>1 DEF BuiltInv, SameShards
    <2>6. \A i, j \in DOMAIN inst' : inst'[i].meta.id = inst'[j].meta.id => i = j
      BY <2>1 DEF BuiltInv, SameShards
    <2>7. loop'.pc \in {"build", "init", "network", "insert"} => loop'.cur.id \notin DOMAIN active'
      OBVIOUS
    <2>8. QED
      BY <2>3, <2>4, <2>5, <2>6, <2>7 DEF BuiltInv
  <1>4. QED
    BY <1>1, <1>2, <1>3 DEF ManagerInv

\* A step in the middle of building.
LEMMA BuildMoves ==
    ASSUME ManagerInv, SameShards, UNCHANGED <<metaVars, active, stats, closer>>,
           loop' = [pc |-> loop'.pc, last |-> loop'.last, todo |-> loop'.todo, cur |-> loop'.cur],
           loop'.todo \subseteq DOMAIN local, Building, Building',
           loop'.pc \in {"network", "insert"}, loop'.cur = loop.cur
    PROVE  ManagerInv'
  <1>1. CASE Running
    <2>1. loop.cur.id \notin DOMAIN active
      BY <1>1 DEF ManagerInv, BuiltInv, Building
    <2>2. loop'.pc \notin {"init", "count"} /\ loop.pc # "count"
      BY DEF Building
    <2>3. QED
      BY <2>1, <2>2, LoopMoves
  <1>2. CASE ~Running
    BY <1>2 DEF ManagerInv, FieldsInv, MetaInv, SameShards, Running, metaVars
  <1>3. QED
    BY <1>1, <1>2

\* Looking at the next local shard.
LEMMA SyncLooks ==
    ASSUME ManagerInv, SyncBegin \/ SyncNext \/ SyncEnd \/ LoopExit
    PROVE  ManagerInv'
  <1>1. UNCHANGED <<metaVars, active, stats, closer>> /\ inst' = inst
    BY DEF SyncBegin, SyncNext, SyncEnd, LoopExit
  <1>2. SameShards
    BY <1>1, InstSame DEF ManagerInv
  <1>3. loop = [pc |-> loop.pc, last |-> loop.last, todo |-> loop.todo, cur |-> loop.cur]
    BY DEF ManagerInv, FieldsInv
  <1>4. /\ loop' = [pc |-> loop'.pc, last |-> loop'.last, todo |-> loop'.todo, cur |-> loop'.cur]
        /\ loop'.todo \subseteq DOMAIN local
        /\ loop'.pc \in {"wait", "next", "build", "exit"} /\ loop.pc \in {"wait", "next"}
        /\ loop'.pc = "build" => loop'.cur.id \notin DOMAIN active
    <2>1. CASE SyncBegin
      BY <1>3, <2>1 DEF SyncBegin
    <2>2. CASE SyncNext
      <3>1. PICK id \in loop.todo :
               loop' = [loop EXCEPT !.todo = @ \ {id},
                                    !.cur = IF id \in DOMAIN active THEN NoMeta ELSE local[id],
                                    !.pc = IF id \in DOMAIN active THEN "next" ELSE "build"]
        BY <2>2 DEF SyncNext
      <3>2. id \in DOMAIN local /\ local[id].id = id /\ loop.todo \subseteq DOMAIN local
        BY DEF ManagerInv, MetaInv
      <3>3. loop.pc = "next"
        BY <2>2 DEF SyncNext
      <3>4. CASE id \in DOMAIN active
        BY <1>3, <3>1, <3>2, <3>3, <3>4
      <3>5. CASE id \notin DOMAIN active
        BY <1>3, <3>1, <3>2, <3>3, <3>5
      <3>6. QED
        BY <3>4, <3>5
    <2>3. CASE SyncEnd
      BY <1>3, <2>3 DEF SyncEnd, ManagerInv, MetaInv
    <2>4. CASE LoopExit
      BY <1>3, <2>4 DEF LoopExit, ManagerInv, MetaInv
    <2>5. QED
      BY <2>1, <2>2, <2>3, <2>4
  <1>5. ~Building /\ ~Building'
    BY <1>4 DEF Building
  <1>6. QED
    BY <1>1, <1>2, <1>4, <1>5, LoopMoves

\* Building, and failing to.
LEMMA BuildKeeps == ASSUME ManagerInv, BuildShard PROVE ManagerInv'
  <1>1. PICK r : r = NewShard(loop.cur)
    OBVIOUS
  <1>2. IsShard(r) /\ r.meta = loop.cur
    BY <1>1 DEF NewShard, IsShard
  <1>3. PICK t : t = Append(inst, r)
    OBVIOUS
  <1>4. /\ inst' = t /\ loop.pc = "build" /\ loop' = [loop EXCEPT !.pc = "init"]
        /\ UNCHANGED <<metaVars, active, stats, closer>>
    BY <1>1, <1>3 DEF BuildShard
  <1>5. /\ Listed(t) /\ Len(t) = Len(inst) + 1 /\ DOMAIN t = 1..(Len(inst) + 1) /\ t # <<>>
        /\ t[Len(inst) + 1] = r /\ \A i \in DOMAIN inst : t[i] = inst[i]
    <2>1. Listed(inst)
      BY DEF ManagerInv, FieldsInv
    <2>2. Longer(inst, r, t)
      BY <1>3, <2>1, AppendListed, Zenon
    <2>3. QED
      BY <2>2 DEF Longer
  <1>6. Len(inst) \in Nat /\ DOMAIN inst = 1..Len(inst)
    BY ListedFacts DEF ManagerInv, FieldsInv
  <1>7. \A i \in DOMAIN t : i = Len(t) \/ i \in DOMAIN inst
    BY <1>5, <1>6
  <1>8. loop'.pc = "init" /\ loop'.cur = loop.cur /\ loop'.todo = loop.todo
    BY <1>4 DEF ManagerInv, FieldsInv
  <1>9. FieldsInv'
    <2>1. \A i \in DOMAIN t : IsShard(t[i])
      BY <1>2, <1>5, <1>7 DEF ManagerInv, FieldsInv
    <2>2. loop' = [pc |-> loop'.pc, last |-> loop'.last, todo |-> loop'.todo, cur |-> loop'.cur]
      BY <1>4 DEF ManagerInv, FieldsInv
    <2>3. Listed(inst)'
      BY <1>4, <1>5 DEF Listed
    <2>4. QED
      BY <1>4, <2>1, <2>2, <2>3 DEF ManagerInv, FieldsInv
  <1>10. MetaInv'
    BY <1>4, <1>8 DEF ManagerInv, MetaInv, metaVars
  <1>11. ASSUME Running' PROVE BuiltInv'
    <2>1. BuiltInv /\ ~Building /\ Building' /\ loop.cur.id \notin DOMAIN active
      BY <1>4, <1>8, <1>11 DEF ManagerInv, Running, BuiltInv, Building
    <2>2. \A i \in DOMAIN inst : inst[i].meta.id \in DOMAIN active
      BY <2>1 DEF BuiltInv
    <2>3. \A i \in DOMAIN t : i = Len(t) \/ t[i].meta.id \in DOMAIN active
      BY <1>5, <1>7, <2>2
    <2>4. t[Len(t)].meta = loop.cur
      BY <1>2, <1>5
    <2>5. \A i, j \in DOMAIN t : t[i].meta.id = t[j].meta.id => i = j
      <3>1. \A i, j \in DOMAIN inst : inst[i].meta.id = inst[j].meta.id => i = j
        BY <2>1 DEF BuiltInv
      <3>2. ASSUME NEW i \in DOMAIN t, NEW j \in DOMAIN t, t[i].meta.id = t[j].meta.id
            PROVE  i = j
        <4>1. CASE i = Len(t) /\ j \in DOMAIN inst
          BY <1>5, <2>1, <2>2, <2>4, <3>2, <4>1
        <4>2. CASE j = Len(t) /\ i \in DOMAIN inst
          BY <1>5, <2>1, <2>2, <2>4, <3>2, <4>2
        <4>3. CASE i \in DOMAIN inst /\ j \in DOMAIN inst
          BY <1>5, <3>1, <3>2, <4>3
        <4>4. QED
          BY <1>7, <4>1, <4>2, <4>3
      <3>3. QED
        BY <3>2
    <2>6. stats'.active = Cardinality(DOMAIN active') - (IF loop'.pc = "count" THEN 1 ELSE 0)
      BY <1>4, <1>8, <2>1 DEF BuiltInv
    <2>7. QED
      BY <1>4, <1>5, <1>8, <2>1, <2>3, <2>4, <2>5, <2>6 DEF BuiltInv
  <1>12. QED
    BY <1>9, <1>10, <1>11 DEF ManagerInv

LEMMA InitSame == ASSUME FieldsInv, InitShard PROVE SameShards
  <1>1. FieldsInv
    OBVIOUS
  <1>2. PICK n : n = Len(inst)
    OBVIOUS
  <1>3. PICK a : a = StartLoops(inst[n], StartedFns(loop.cur))
    OBVIOUS
  <1>4. inst' = [inst EXCEPT ![n] = a]
    BY <1>2, <1>3 DEF InitShard
  <1>5. PICK v : a = [inst[n] EXCEPT !.fns = v]
    BY <1>3, Zenon DEF StartLoops
  <1>6. n \in DOMAIN inst => IsShard(a) /\ a.meta = inst[n].meta
    BY <1>1, <1>5, FieldSet DEF FieldsInv
  <1>7. QED
    BY <1>1, <1>4, <1>6, InstExcept

LEMMA InitKeeps == ASSUME ManagerInv, InitShard PROVE ManagerInv'
  <1>1. /\ loop.pc = "init" /\ loop' = [loop EXCEPT !.pc = "network"]
        /\ UNCHANGED <<metaVars, active, stats, closer>>
    BY DEF InitShard
  <1>2. FieldsInv
    BY DEF ManagerInv
  <1>3. SameShards
    BY <1>2, InitSame
  <1>4. /\ loop' = [pc |-> loop'.pc, last |-> loop'.last, todo |-> loop'.todo, cur |-> loop'.cur]
        /\ loop'.pc = "network" /\ loop'.cur = loop.cur /\ loop'.todo = loop.todo
    BY <1>1, <1>2 DEF FieldsInv
  <1>5. loop'.todo \subseteq DOMAIN local /\ Building /\ Building'
    BY <1>1, <1>4 DEF ManagerInv, MetaInv, Building
  <1>6. QED
    BY <1>1, <1>3, <1>4, <1>5, BuildMoves

LEMMA NetworkSame == ASSUME FieldsInv, StartNetwork PROVE SameShards
  <1>1. FieldsInv
    OBVIOUS
  <1>2. PICK n : n = Len(inst)
    OBVIOUS
  <1>3. CASE inst' = inst
    BY <1>1, <1>3, InstSame
  <1>4. CASE inst' = [Notify(inst, loop.cur, TRUE) EXCEPT
                         ![n] = [StartObjectEndpoints(@) EXCEPT !.task = "subscribe"]]
    <2>1. PICK s : s = Notify(inst, loop.cur, TRUE)
      OBVIOUS
    <2>2. /\ DOMAIN s = DOMAIN inst /\ s = [i \in DOMAIN inst |-> s[i]]
          /\ \A i \in DOMAIN inst : IsShard(s[i]) /\ s[i].meta = inst[i].meta
      <3>1. PICK y : y = TRUE
        OBVIOUS
      <3>2. s = Notify(inst, loop.cur, y)
        BY <2>1, <3>1
      <3>3. QED
        BY <1>1, <3>2, NotifySame
    <2>3. PICK a : a = [s[n] EXCEPT !.net = TRUE]
      OBVIOUS
    <2>4. PICK b : b = [a EXCEPT !.task = "subscribe"]
      OBVIOUS
    <2>5. n \in DOMAIN inst => IsShard(a) /\ a.meta = s[n].meta
      BY <2>2, <2>3, FieldSet
    <2>6. n \in DOMAIN inst => IsShard(b) /\ b.meta = s[n].meta
      BY <2>4, <2>5, FieldSet
    <2>7. PICK t : t = [s EXCEPT ![n] = b]
      OBVIOUS
    <2>8. inst' = t
      BY <1>4, <2>1, <2>3, <2>4, <2>7 DEF StartObjectEndpoints
    <2>9. t = [i \in DOMAIN inst |-> t[i]]
      BY <2>2, <2>7
    <2>10. \A i \in DOMAIN inst : IsShard(t[i]) /\ t[i].meta = inst[i].meta
      BY <2>2, <2>6, <2>7
    <2>11. QED
      BY <1>1, <2>8, <2>9, <2>10, InstMapped
  <1>5. QED
    BY <1>2, <1>3, <1>4, Zenon DEF StartNetwork

LEMMA NetworkKeeps == ASSUME ManagerInv, StartNetwork PROVE ManagerInv'
  <1>1. /\ loop.pc = "network" /\ loop' = [loop EXCEPT !.pc = "insert"]
        /\ UNCHANGED <<metaVars, active, stats, closer>>
    BY DEF StartNetwork
  <1>2. FieldsInv
    BY DEF ManagerInv
  <1>3. SameShards
    BY <1>2, NetworkSame
  <1>4. /\ loop' = [pc |-> loop'.pc, last |-> loop'.last, todo |-> loop'.todo, cur |-> loop'.cur]
        /\ loop'.pc = "insert" /\ loop'.cur = loop.cur /\ loop'.todo = loop.todo
    BY <1>1, <1>2 DEF FieldsInv
  <1>5. loop'.todo \subseteq DOMAIN local /\ Building /\ Building'
    BY <1>1, <1>4 DEF ManagerInv, MetaInv, Building
  <1>6. QED
    BY <1>1, <1>3, <1>4, <1>5, BuildMoves

\* The shard that failed to initialize was the last one, and no other has its id.
LEMMA FailsKeeps == ASSUME ManagerInv, CreateFails PROVE ManagerInv'
  <1>1. /\ loop.pc \in {"build", "init"} /\ loop' = [loop EXCEPT !.pc = "next", !.cur = NoMeta]
        /\ inst' = IF loop.pc = "init" THEN SubSeq(inst, 1, Len(inst) - 1) ELSE inst
        /\ stats' = [stats EXCEPT !.failed = @ + 1]
        /\ UNCHANGED <<metaVars, active, closer>>
    BY DEF CreateFails
  <1>2. FieldsInv
    BY DEF ManagerInv
  <1>3. /\ loop' = [pc |-> loop'.pc, last |-> loop'.last, todo |-> loop'.todo, cur |-> loop'.cur]
        /\ loop'.pc = "next" /\ loop'.todo = loop.todo
    BY <1>1, <1>2 DEF FieldsInv
  <1>4. /\ stats' = [created |-> stats'.created, active |-> stats'.active, failed |-> stats'.failed]
        /\ stats'.active = stats.active
    BY <1>1, <1>2 DEF FieldsInv
  <1>5. MetaInv'
    BY <1>1, <1>3 DEF ManagerInv, MetaInv, metaVars
  <1>6. CASE loop.pc = "build"
    <2>1. inst' = inst
      BY <1>1, <1>6
    <2>2. FieldsInv'
      <3>1. Listed(inst)'
        BY <1>2, <2>1 DEF FieldsInv, Listed
      <3>2. QED
        BY <1>1, <1>2, <1>3, <1>4, <2>1, <3>1 DEF FieldsInv
    <2>3. ASSUME Running' PROVE BuiltInv'
      <3>1. BuiltInv /\ ~Building /\ ~Building'
        BY <1>1, <1>3, <1>6, <2>3 DEF ManagerInv, Running, Building
      <3>2. QED
        BY <1>1, <1>3, <1>4, <1>6, <2>1, <3>1 DEF BuiltInv
    <2>4. QED
      BY <1>5, <2>2, <2>3 DEF ManagerInv
  <1>7. CASE loop.pc = "init"
    <2>1. CASE inst = <<>>
      <3>1. inst' = <<>>
        <4>1. SubSeq(<<>>, 1, Len(<<>>) - 1) = <<>>
          BY EmptyFront
        <4>2. QED
          BY <1>1, <1>7, <2>1, <4>1
      <3>2. FieldsInv'
        BY <1>1, <1>2, <1>3, <1>4, <2>1, <3>1 DEF FieldsInv, Listed
      <3>3. ~Running'
        BY <1>1, <1>7, <2>1 DEF ManagerInv, BuiltInv, Running, Building
      <3>4. QED
        BY <1>5, <3>2, <3>3 DEF ManagerInv
    <2>2. CASE inst # <<>>
      <3>1. PICK t : t = SubSeq(inst, 1, Len(inst) - 1)
        OBVIOUS
      <3>2. inst' = t
        BY <1>1, <1>7, <3>1
      <3>3. /\ Listed(t) /\ Len(t) = Len(inst) - 1 /\ DOMAIN t = 1..(Len(inst) - 1)
            /\ \A i \in DOMAIN t : t[i] = inst[i] /\ i \in DOMAIN inst /\ i # Len(inst)
        <4>1. Listed(inst)
          BY <1>2 DEF FieldsInv
        <4>2. Shorter(inst, t)
          BY <2>2, <3>1, <4>1, FrontListed, Zenon
        <4>3. QED
          BY <4>2 DEF Shorter
      <3>4. FieldsInv'
        <4>1. Listed(inst)'
          BY <3>2, <3>3 DEF Listed
        <4>2. \A i \in DOMAIN inst' : IsShard(inst'[i])
          BY <1>2, <3>2, <3>3 DEF FieldsInv
        <4>3. QED
          BY <1>1, <1>2, <1>3, <1>4, <4>1, <4>2 DEF FieldsInv
      <3>5. ASSUME Running' PROVE BuiltInv'
        <4>1. BuiltInv /\ ~Building'
          BY <1>1, <1>3, <3>5 DEF ManagerInv, Running, Building
        <4>2. \A i \in DOMAIN t : t[i].meta.id \in DOMAIN active
          BY <3>3, <4>1 DEF BuiltInv
        <4>3. \A i, j \in DOMAIN t : t[i].meta.id = t[j].meta.id => i = j
          BY <3>3, <4>1 DEF BuiltInv
        <4>4. stats'.active = Cardinality(DOMAIN active') - (IF loop'.pc = "count" THEN 1 ELSE 0)
          BY <1>1, <1>3, <1>4, <1>7, <4>1 DEF BuiltInv
        <4>5. IsFiniteSet(DOMAIN active')
          BY <1>1, <4>1 DEF BuiltInv
        <4>6. QED
          BY <1>1, <1>3, <3>2, <4>1, <4>2, <4>3, <4>4, <4>5 DEF BuiltInv
      <3>6. QED
        BY <1>5, <3>4, <3>5 DEF ManagerInv
    <2>3. QED
      BY <2>1, <2>2
  <1>8. QED
    BY <1>1, <1>6, <1>7

\* The shard enters the map, which had none of its id, and is counted.
LEMMA InsertKeeps == ASSUME ManagerInv, InsertShard PROVE ManagerInv'
  <1>1. PICK x : x = loop.cur.id
    OBVIOUS
  <1>2. PICK g : g = [id \in {x} |-> Len(inst)]
    OBVIOUS
  <1>3. /\ loop.pc = "insert" /\ active' = Overlay(active, g) /\ loop' = [loop EXCEPT !.pc = "count"]
        /\ UNCHANGED <<metaVars, stats, inst, closer>>
    BY <1>1, <1>2 DEF InsertShard
  <1>4. FieldsInv
    BY DEF ManagerInv
  <1>5. /\ loop' = [pc |-> loop'.pc, last |-> loop'.last, todo |-> loop'.todo, cur |-> loop'.cur]
        /\ loop'.pc = "count" /\ loop'.todo = loop.todo
    BY <1>3, <1>4 DEF FieldsInv
  <1>6. FieldsInv'
    <2>1. Listed(inst)'
      BY <1>3, <1>4 DEF FieldsInv, Listed
    <2>2. QED
      BY <1>3, <1>4, <1>5, <2>1 DEF FieldsInv
  <1>7. MetaInv'
    BY <1>3, <1>5 DEF ManagerInv, MetaInv, metaVars
  <1>8. DOMAIN active' = DOMAIN active \cup {x}
    BY <1>2, <1>3 DEF Overlay
  <1>9. ASSUME Running' PROVE BuiltInv'
    <2>1. BuiltInv /\ Building /\ ~Building' /\ x \notin DOMAIN active
      BY <1>1, <1>3, <1>5, <1>9 DEF ManagerInv, Running, BuiltInv, Building
    <2>2. /\ IsFiniteSet(DOMAIN active) /\ stats.active = Cardinality(DOMAIN active) - 0
          /\ inst # <<>> /\ inst[Len(inst)].meta = loop.cur
      BY <1>3, <2>1 DEF BuiltInv
    <2>3. /\ IsFiniteSet(DOMAIN active') /\ Cardinality(DOMAIN active') = Cardinality(DOMAIN active) + 1
          /\ Cardinality(DOMAIN active) \in Nat
      BY <1>8, <2>1, <2>2, FS_AddElement, FS_CardinalityType
    <2>4. stats'.active = Cardinality(DOMAIN active') - (IF loop'.pc = "count" THEN 1 ELSE 0)
      BY <1>3, <1>5, <2>2, <2>3
    <2>5. \A i \in DOMAIN inst : inst[i].meta.id \in DOMAIN active \/ i = Len(inst)
      BY <2>1 DEF BuiltInv
    <2>6. inst[Len(inst)].meta.id = x
      BY <1>1, <2>2
    <2>7. \A i \in DOMAIN inst' : inst'[i].meta.id \in DOMAIN active'
      BY <1>3, <1>8, <2>5, <2>6
    <2>8. \A i, j \in DOMAIN inst' : inst'[i].meta.id = inst'[j].meta.id => i = j
      BY <1>3, <2>1 DEF BuiltInv
    <2>9. QED
      BY <1>5, <2>1, <2>3, <2>4, <2>7, <2>8 DEF BuiltInv
  <1>10. QED
    BY <1>6, <1>7, <1>9 DEF ManagerInv

LEMMA CountKeeps == ASSUME ManagerInv, CountShard PROVE ManagerInv'
  <1>1. /\ loop.pc = "count" /\ loop' = [loop EXCEPT !.pc = "next", !.cur = NoMeta]
        /\ stats' = [stats EXCEPT !.created = @ + 1, !.active = @ + 1]
        /\ UNCHANGED <<metaVars, active, inst, closer>>
    BY DEF CountShard
  <1>2. FieldsInv
    BY DEF ManagerInv
  <1>3. /\ loop' = [pc |-> loop'.pc, last |-> loop'.last, todo |-> loop'.todo, cur |-> loop'.cur]
        /\ loop'.pc = "next" /\ loop'.todo = loop.todo
    BY <1>1, <1>2 DEF FieldsInv
  <1>4. /\ stats' = [created |-> stats'.created, active |-> stats'.active, failed |-> stats'.failed]
        /\ stats'.active = stats.active + 1
    BY <1>1, <1>2 DEF FieldsInv
  <1>5. FieldsInv'
    <2>1. Listed(inst)'
      BY <1>1, <1>2 DEF FieldsInv, Listed
    <2>2. QED
      BY <1>1, <1>2, <1>3, <1>4, <2>1 DEF FieldsInv
  <1>6. MetaInv'
    BY <1>1, <1>3 DEF ManagerInv, MetaInv, metaVars
  <1>7. ASSUME Running' PROVE BuiltInv'
    <2>1. BuiltInv /\ ~Building /\ ~Building'
      BY <1>1, <1>3, <1>7 DEF ManagerInv, Running, BuiltInv, Building
    <2>2. IsFiniteSet(DOMAIN active) /\ stats.active = Cardinality(DOMAIN active) - 1
      BY <1>1, <2>1 DEF BuiltInv
    <2>3. Cardinality(DOMAIN active) \in Nat
      BY <2>2, FS_CardinalityType
    <2>4. stats'.active = Cardinality(DOMAIN active') - (IF loop'.pc = "count" THEN 1 ELSE 0)
      BY <1>1, <1>3, <1>4, <2>2, <2>3
    <2>5. QED
      BY <1>1, <1>3, <2>1, <2>4 DEF BuiltInv
  <1>8. QED
    BY <1>5, <1>6, <1>7 DEF ManagerInv

LEMMA ClosingSame == ASSUME FieldsInv, CloseBegin \/ Close PROVE SameShards
  <1>1. FieldsInv
    OBVIOUS
  <1>2. CASE CloseShard
    <2>1. PICK i \in closer.todo :
            inst' = [inst EXCEPT ![i] = [StopLoops(@, Functions) EXCEPT !.cancelled = TRUE]]
      BY <1>2, Zenon DEF CloseShard
    <2>2. PICK a : a = StopLoops(inst[i], Functions)
      OBVIOUS
    <2>3. PICK v : a = [inst[i] EXCEPT !.fns = v]
      BY <2>2, Zenon DEF StopLoops
    <2>4. PICK y : y = TRUE
      OBVIOUS
    <2>5. PICK b : b = [a EXCEPT !.cancelled = y]
      OBVIOUS
    <2>6. inst' = [inst EXCEPT ![i] = b]
      BY <2>1, <2>2, <2>4, <2>5
    <2>7. i \in DOMAIN inst => IsShard(a) /\ a.meta = inst[i].meta
      BY <1>1, <2>3, FieldSet DEF FieldsInv
    <2>8. i \in DOMAIN inst => IsShard(b) /\ b.meta = inst[i].meta
      BY <2>5, <2>7, FieldSet
    <2>9. QED
      BY <1>1, <2>6, <2>8, InstExcept
  <1>3. CASE ~CloseShard
    <2>1. inst' = inst
      BY <1>3 DEF CloseBegin, Close, CloseCollect, CloseClear, CloseEnd
    <2>2. QED
      BY <1>1, <2>1, InstSame
  <1>4. QED
    BY <1>2, <1>3

\* Once it is closing the node never runs again.
LEMMA ClosingKeeps == ASSUME ManagerInv, CloseBegin \/ Close PROVE ManagerInv'
  <1>1. FieldsInv
    BY DEF ManagerInv
  <1>2. UNCHANGED metaVars /\ loop' = loop
    BY DEF CloseBegin, Close, CloseCollect, CloseClear, CloseShard, CloseEnd, managerVars
  <1>3. closer' = [pc |-> closer'.pc, todo |-> closer'.todo] /\ closer'.pc # "run"
    <2>1. closer = [pc |-> closer.pc, todo |-> closer.todo]
      BY <1>1 DEF FieldsInv
    <2>2. CASE CloseShard
      <3>1. PICK i \in closer.todo : closer' = [closer EXCEPT !.todo = @ \ {i}]
        BY <2>2 DEF CloseShard
      <3>2. closer.pc = "stop"
        BY <2>2 DEF CloseShard
      <3>3. QED
        BY <2>1, <3>1, <3>2
    <2>3. QED
      BY <2>1, <2>2 DEF CloseBegin, Close, CloseCollect, CloseClear, CloseEnd
  <1>4. stats' = [created |-> stats'.created, active |-> stats'.active, failed |-> stats'.failed]
    <2>1. CASE CloseEnd
      BY <1>1, <2>1 DEF FieldsInv, CloseEnd
    <2>2. CASE ~CloseEnd
      <3>1. stats' = stats
        BY <2>2 DEF CloseBegin, Close, CloseCollect, CloseClear, CloseShard, managerVars
      <3>2. QED
        BY <1>1, <3>1 DEF FieldsInv
    <2>3. QED
      BY <2>1, <2>2
  <1>5. SameShards
    BY <1>1, ClosingSame
  <1>6. FieldsInv'
    BY <1>1, <1>2, <1>3, <1>4, <1>5 DEF FieldsInv, SameShards
  <1>7. MetaInv'
    BY <1>2 DEF ManagerInv, MetaInv, metaVars
  <1>8. QED
    BY <1>3, <1>6, <1>7 DEF ManagerInv, Running

LEMMA OutsideSame ==
    ASSUME FieldsInv, RelayVersion \/ \E id \in DOMAIN shards : PeerChange(id)
    PROVE  SameShards
  <1>1. FieldsInv
    OBVIOUS
  <1>2. CASE RelayVersion
    BY <1>1, <1>2, InstSame DEF RelayVersion
  <1>3. ASSUME NEW id \in DOMAIN shards, PeerChange(id) PROVE SameShards
    <2>1. PICK y : y = (id \notin up)
      OBVIOUS
    <2>2. PICK t : t = Notify(inst, shards[id], y)
      OBVIOUS
    <2>3. inst' = t
      BY <1>3, <2>1, <2>2, Zenon DEF PeerChange
    <2>4. /\ DOMAIN t = DOMAIN inst /\ t = [i \in DOMAIN inst |-> t[i]]
          /\ \A i \in DOMAIN inst : IsShard(t[i]) /\ t[i].meta = inst[i].meta
      BY <1>1, <2>2, NotifySame
    <2>5. QED
      BY <1>1, <2>3, <2>4, InstMapped
  <1>4. QED
    BY <1>2, <1>3

\* A peer comes or goes, or a version is relayed.
LEMMA OutsideKeeps ==
    ASSUME ManagerInv, RelayVersion \/ \E id \in DOMAIN shards : PeerChange(id)
    PROVE  ManagerInv'
  <1>1. UNCHANGED <<metaVars, managerVars, closer>>
    BY DEF RelayVersion, PeerChange
  <1>2. FieldsInv
    BY DEF ManagerInv
  <1>3. SameShards
    BY <1>2, OutsideSame
  <1>4. QED
    BY <1>1, <1>3, SameStep

LEMMA ManagerInitOk == ShardsInit => ManagerInv
  <1> SUFFICES ASSUME ShardsInit PROVE ManagerInv
    OBVIOUS
  <1>1. inst = <<>> /\ DOMAIN inst = {}
    BY DEF ShardsInit
  <1>2. Listed(inst)
    <2>1. <<>> \in Seq({})
      OBVIOUS
    <2>2. QED
      BY <1>1, <2>1, SeqListed
  <1>3. FieldsInv
    BY <1>1, <1>2 DEF ShardsInit, FieldsInv
  <1>4. DOMAIN shards = {} /\ DOMAIN local = {} /\ DOMAIN active = {}
    BY DEF ShardsInit, EmptyMap
  <1>5. MetaInv
    BY <1>4 DEF ShardsInit, MetaInv
  <1>6. BuiltInv
    BY <1>1, <1>4, FS_EmptySet DEF ShardsInit, BuiltInv, Building
  <1>7. QED
    BY <1>3, <1>5, <1>6 DEF ManagerInv

LEMMA ManagerNextOk == ManagerInv /\ [ShardsNext]_shardVars => ManagerInv'
  <1> SUFFICES ASSUME ManagerInv, [ShardsNext]_shardVars PROVE ManagerInv'
    OBVIOUS
  <1>1. CASE UNCHANGED shardVars
    <2>1. UNCHANGED <<metaVars, managerVars, closer>> /\ inst' = inst
      BY <1>1 DEF shardVars
    <2>2. SameShards
      BY <2>1, InstSame DEF ManagerInv
    <2>3. QED
      BY <2>1, <2>2, SameStep
  <1>2. CASE Sync
    BY <1>2, SyncLooks, BuildKeeps, InitKeeps, FailsKeeps, NetworkKeeps, InsertKeeps, CountKeeps
       DEF Sync
  <1>3. QED
    BY <1>1, <1>2, LoadKeeps, SyncLooks, ClosingKeeps, OutsideKeeps, TaskKeeps DEF ShardsNext

\* For any plans, failures and shutdowns and any number of shards: while the node is not
\* closing, active_shards is the number of shards in the map, the watch loop builds none
\* that is in the map, and no shard is built twice, however many versions it was sent
\* and whichever steps of building failed (sync_shards and create_shard of manager.rs).
THEOREM ShardsStayCounted == ShardsSpec => []ActiveCounted
  <1>1. ShardsInit => ManagerInv
    BY ManagerInitOk
  <1>2. ManagerInv /\ [ShardsNext]_shardVars => ManagerInv'
    BY ManagerNextOk
  <1>3. ManagerInv => ActiveCounted
    BY DEF ManagerInv, BuiltInv, ActiveCounted
  <1>4. QED
    BY <1>1, <1>2, <1>3, PTL DEF ShardsSpec

-----------------------------------------------------------------------------
(* The shard manager: whose shard a lookup finds                           *)

LEMMA LargestOf ==
    ASSUME NEW S, S \subseteq Nat, S # {}, NEW n \in Nat, \A x \in S : x <= n
    PROVE  \E m \in S : \A x \in S : x <= m
  <1> DEFINE T == {n - x : x \in S}
  <1>1. T \subseteq Nat /\ T # {}
    <2>1. \A x \in S : n - x \in Nat
      OBVIOUS
    <2>2. QED
      BY <2>1
  <1>2. PICK a \in T : \A b \in T : a <= b
    BY <1>1, Least
  <1>3. PICK m \in S : a = n - m
    OBVIOUS
  <1>4. \A x \in S : n - x \in T /\ x \in Int /\ m \in Int
    OBVIOUS
  <1> HIDE DEF T
  <1>5. \A x \in S : x <= m
    BY <1>2, <1>3, <1>4
  <1>6. QED
    BY <1>5

\* The largest key of a map whose keys are bounded.
LEMMA LastKeyIs ==
    ASSUME NEW f, DOMAIN f \subseteq Nat, NEW n \in Nat, \A x \in DOMAIN f : x <= n, NEW d \in Nat
    PROVE  LastKey(f, d) \in Nat /\ \A x \in DOMAIN f : x <= LastKey(f, d)
  <1>1. CASE DOMAIN f = {}
    BY <1>1 DEF LastKey
  <1>2. CASE DOMAIN f # {}
    <2>1. \E m \in DOMAIN f : \A x \in DOMAIN f : x <= m
      BY <1>2, LargestOf
    <2>2. LastKey(f, d) = CHOOSE m \in DOMAIN f : \A x \in DOMAIN f : x <= m
      BY <1>2 DEF LastKey
    <2>3. QED
      BY <2>1, <2>2
  <1>3. QED
    BY <1>1, <1>2

\* Finitely many numbers are bounded.
LEMMA BoundedUpTo ==
    ASSUME NEW n \in Nat, NEW f, \A i \in 1..n : f[i] \in Nat
    PROVE  \E b \in Nat : \A i \in 1..n : f[i] <= b
  <1> DEFINE Unbounded(k) == \A b \in Nat : \E i \in 1..k : ~(f[i] <= b)
             S == {k \in 0..n : Unbounded(k)}
  <1>1. SUFFICES ASSUME n \in S PROVE FALSE
    BY DEF S
  <1>2. PICK k \in S : \A j \in S : k <= j
    <2>1. S \subseteq Nat /\ S # {}
      BY <1>1
    <2> HIDE DEF S
    <2>2. QED
      BY <2>1, Least
  <1>3. k \in 0..n /\ Unbounded(k)
    OBVIOUS
  <1>4. k # 0
    <2>1. \A i \in 1..0 : FALSE
      OBVIOUS
    <2>2. 0 \in Nat
      OBVIOUS
    <2>3. QED
      BY <1>3, <2>1, <2>2
  <1>5. k - 1 \in 0..n /\ k - 1 \notin S /\ k \in 1..n
    <2>1. k - 1 \in 0..n /\ k \in 1..n /\ ~(k <= k - 1)
      BY <1>3, <1>4
    <2> HIDE DEF S
    <2>2. QED
      BY <1>2, <2>1
  <1>6. PICK b \in Nat : \A i \in 1..(k - 1) : f[i] <= b
    BY <1>5
  <1>7. PICK c \in Nat : f[k] <= c /\ b <= c
    <2>1. f[k] \in Nat
      BY <1>5
    <2>2. CASE f[k] <= b
      BY <2>2
    <2>3. CASE ~(f[k] <= b)
      BY <2>1, <2>3
    <2>4. QED
      BY <2>2, <2>3
  <1>8. \A i \in 1..k : f[i] <= c
    <2>1. \A i \in 1..k : i = k \/ i \in 1..(k - 1)
      BY <1>5
    <2>2. \A i \in 1..k : f[i] \in Nat
      BY <1>5
    <2>3. ASSUME NEW i \in 1..k, i \in 1..(k - 1) PROVE f[i] <= c
      <3>1. f[i] <= b /\ f[i] \in Nat /\ b \in Nat /\ b <= c
        BY <1>6, <1>7, <2>2, <2>3
      <3>2. \A x, y, z \in Nat : x <= y /\ y <= z => x <= z
        OBVIOUS
      <3>3. QED
        BY <3>1, <3>2
    <2>4. QED
      BY <1>7, <2>1, <2>3
  <1>9. QED
    BY <1>3, <1>7, <1>8

\* A list of numbers.
Numbers(s) == \E n \in Nat : DOMAIN s = 1..n /\ \A i \in 1..n : s[i] \in Nat

LEMMA NumbersBounded ==
    ASSUME NEW n \in Nat, NEW G, \A p \in 1..n : Numbers(G[p])
    PROVE  \E b \in Nat : \A p \in 1..n : \A i \in DOMAIN G[p] : G[p][i] <= b
  <1> DEFINE Top(p, b) == \A i \in DOMAIN G[p] : G[p][i] <= b
             B == [p \in 1..n |-> CHOOSE b \in Nat : Top(p, b)]
  <1>1. \A p \in 1..n : \E b \in Nat : Top(p, b)
    <2> SUFFICES ASSUME NEW p \in 1..n PROVE \E b \in Nat : Top(p, b)
      OBVIOUS
    <2>1. PICK m \in Nat : DOMAIN G[p] = 1..m /\ \A i \in 1..m : G[p][i] \in Nat
      BY DEF Numbers
    <2>2. PICK f : f = G[p]
      OBVIOUS
    <2>3. \E b \in Nat : \A i \in 1..m : f[i] <= b
      BY <2>1, <2>2, BoundedUpTo
    <2>4. QED
      BY <2>1, <2>2, <2>3
  <1> HIDE DEF Top
  <1>2. \A p \in 1..n : B[p] \in Nat /\ Top(p, B[p])
    BY <1>1
  <1> HIDE DEF B
  <1>3. PICK b \in Nat : \A p \in 1..n : B[p] <= b
    BY <1>2, BoundedUpTo
  <1>4. ASSUME NEW p \in 1..n, NEW i \in DOMAIN G[p] PROVE G[p][i] <= b
    <2>1. G[p][i] <= B[p] /\ B[p] <= b /\ B[p] \in Nat
      BY <1>2, <1>3 DEF Top
    <2>2. G[p][i] \in Nat
      BY DEF Numbers
    <2>3. QED
      BY <2>1, <2>2
  <1>5. QED
    BY <1>4

\* A request as the plans have them.
RequestOk(req) ==
    /\ req.partitions \in Nat /\ req.replicas \in Nat
    /\ req.assigns \in Seq(Range(req.assigns))
    /\ \A p \in DOMAIN req.assigns : req.assigns[p].ids \in Seq(Nat)

Apart(ids, p, q) ==
    \A i \in DOMAIN ids[p], j \in DOMAIN ids[q] : ids[p][i] = ids[q][j] => p = q

\* The groups ids of a collection that is created: lists of numbers, no two of them with
\* a common one and none with one that is used.
GroupsOk(ids, n) ==
    /\ \A p \in 1..n : Numbers(ids[p])
    /\ \A p \in 1..n : \A i \in DOMAIN ids[p] : ids[p][i] \notin DOMAIN shards
    /\ \A p, q \in 1..n : Apart(ids, p, q)

\* Every id has its metadata, the groups of the collections too, and the copies of the
\* metadata that the node works with are those of their id.
IdsInv == /\ DOMAIN shards \subseteq Nat
          /\ \E n \in Nat : \A id \in DOMAIN shards : id <= n

PlanOk(rest) == \E S : rest \in Seq(S) /\ \A req \in S : RequestOk(req)

PlanInv ==
    /\ loader = [pc |-> loader.pc, rest |-> loader.rest]
    /\ PlanOk(loader.rest)
    /\ loader.pc \in {"update", "send"} => loader.rest # <<>>

OwnsGroup(meta, name, p, g) ==
    /\ Numbers(g)
    /\ \A i \in DOMAIN g : /\ g[i] \in DOMAIN meta
                           /\ meta[g[i]].coll = name /\ meta[g[i]].part = p

CollInv ==
    \A name \in DOMAIN collections : \A p \in DOMAIN collections[name] :
        OwnsGroup(shards, name, p, collections[name][p])

LocalInv == \A id \in DOMAIN local : id \in DOMAIN shards /\ local[id] = shards[id]

CurInv ==
    loop.pc \in {"build", "init", "network", "insert"} =>
        loop.cur.id \in DOMAIN shards /\ loop.cur = shards[loop.cur.id]

\* The map leads from an id to the shard built from its metadata.
MapInv ==
    /\ Building => inst # <<>> /\ inst[Len(inst)].meta = loop.cur
    /\ \A id \in DOMAIN active : /\ id \in DOMAIN shards /\ active[id] \in DOMAIN inst
                                 /\ inst[active[id]].meta = shards[id]
                                 /\ Building => active[id] # Len(inst)

RouteInv == IdsInv /\ PlanInv /\ CollInv /\ LocalInv /\ CurInv /\ MapInv

-----------------------------------------------------------------------------
(* The shard manager: the ids of a collection                              *)

\* Two groups of generated ids have none in common.
LEMMA GroupsApart ==
    ASSUME NEW R \in Nat, NEW p \in Nat, NEW q \in Nat, p < q, NEW r \in 1..R, NEW t \in 1..R
    PROVE  (p - 1) * R + r < (q - 1) * R + t
  <1>1. PICK d \in Nat : q - 1 = (p - 1) + d /\ d >= 1
    <2>1. q - p \in Nat /\ q - p >= 1 /\ q - 1 = (p - 1) + (q - p)
      OBVIOUS
    <2>2. QED
      BY <2>1
  <1>2. (q - 1) * R = (p - 1) * R + d * R
    BY <1>1
  <1>3. d * R >= R
    BY <1>1
  <1>4. (p - 1) * R \in Int /\ d * R \in Int
    OBVIOUS
  <1>5. QED
    BY <1>2, <1>3, <1>4

LEMMA DefaultGroups ==
    ASSUME IdsInv, NEW req, RequestOk(req), NEW assigns, assigns = GenerateDefault(req),
           NEW ids, ids = [p \in 1..req.partitions |-> GroupIds(req, assigns, p)]
    PROVE  GroupsOk(ids, req.partitions)
  <1>1. PICK P \in Nat, R \in Nat : P = req.partitions /\ R = req.replicas
    BY DEF RequestOk
  <1>2. PICK L \in Nat : L = LastKey(shards, 0) /\ \A x \in DOMAIN shards : x <= L
    BY LastKeyIs DEF IdsInv
  <1> DEFINE H == [p \in 1..P |-> [r \in 1..R |-> L + 1 + (p - 1) * R + r - 1]]
  <1>3. \A p \in 1..P : assigns[p].ids = H[p]
    BY <1>1, <1>2 DEF GenerateDefault
  <1>4. \A p \in 1..P : \A r \in 1..R : H[p][r] = L + 1 + (p - 1) * R + r - 1
    OBVIOUS
  <1>5. \A p \in 1..P : DOMAIN H[p] = 1..R
    OBVIOUS
  <1> HIDE DEF H
  <1>6. \A p \in 1..P : assigns[p].ids = H[p] /\ DOMAIN H[p] = 1..R
    BY <1>3, <1>5
  <1>7. ASSUME NEW p \in 1..P
        PROVE  DOMAIN ids[p] = 1..R /\ \A r \in 1..R : ids[p][r] = H[p][r]
    <2>1. CASE assigns[p].ids # <<>>
      <3>1. ids[p] = assigns[p].ids
        BY <1>1, <2>1 DEF GroupIds
      <3>2. QED
        BY <1>6, <3>1
    <2>2. CASE assigns[p].ids = <<>>
      <3>1. R = 0
        <4>1. DOMAIN assigns[p].ids = 1..R
          BY <1>6
        <4>2. DOMAIN assigns[p].ids = {}
          BY <2>2
        <4>3. R # 0 => 1 \in 1..R
          OBVIOUS
        <4>4. QED
          BY <4>1, <4>2, <4>3
      <3>2. DOMAIN ids[p] = 1..R
        BY <1>1, <2>2 DEF GroupIds
      <3>3. 1..0 = {}
        OBVIOUS
      <3>4. QED
        BY <3>1, <3>2, <3>3
    <2>3. QED
      BY <2>1, <2>2
  <1>8. \A p \in 1..P : \A r \in 1..R : (p - 1) * R \in Nat /\ ids[p][r] = L + (p - 1) * R + r
    <2> SUFFICES ASSUME NEW p \in 1..P, NEW r \in 1..R
                 PROVE  (p - 1) * R \in Nat /\ ids[p][r] = L + (p - 1) * R + r
      OBVIOUS
    <2>1. p - 1 \in Nat
      OBVIOUS
    <2>2. PICK m \in Nat : m = (p - 1) * R
      BY <2>1
    <2>3. ids[p][r] = L + 1 + m + r - 1
      <3>1. ids[p][r] = H[p][r]
        BY <1>7
      <3>2. H[p][r] = L + 1 + (p - 1) * R + r - 1
        BY <1>4
      <3>3. QED
        BY <2>2, <3>1, <3>2
    <2>4. QED
      BY <2>2, <2>3
  <1>9. \A p \in 1..P : \A r \in 1..R : ids[p][r] \in Nat /\ ids[p][r] > L
    <2> SUFFICES ASSUME NEW p \in 1..P, NEW r \in 1..R
                 PROVE  ids[p][r] \in Nat /\ ids[p][r] > L
      OBVIOUS
    <2>1. PICK m \in Nat : m = (p - 1) * R
      BY <1>8
    <2>2. ids[p][r] = L + m + r
      BY <1>8, <2>1
    <2>3. QED
      BY <2>2
  <1>10. \A p \in 1..P : Numbers(ids[p])
    BY <1>7, <1>9 DEF Numbers
  <1>11. \A p \in 1..P : \A i \in DOMAIN ids[p] : ids[p][i] \notin DOMAIN shards
    <2>1. \A x \in DOMAIN shards : x \in Nat /\ x <= L
      BY <1>2 DEF IdsInv
    <2>2. \A p \in 1..P : \A i \in DOMAIN ids[p] : ids[p][i] \in Nat /\ ids[p][i] > L
      BY <1>7, <1>9
    <2>3. QED
      BY <2>1, <2>2
  <1>12. ASSUME NEW p \in 1..P, NEW q \in 1..P, NEW i \in 1..R, NEW j \in 1..R, p < q
        PROVE  ids[p][i] # ids[q][j]
    <2>1. (p - 1) * R + i < (q - 1) * R + j
      BY <1>12, GroupsApart
    <2>2. PICK m \in Nat, n \in Nat : m = (p - 1) * R /\ n = (q - 1) * R
      BY <1>8
    <2>3. ids[p][i] = L + m + i /\ ids[q][j] = L + n + j
      BY <1>8, <2>2
    <2>4. QED
      BY <2>1, <2>2, <2>3
  <1>13. \A p, q \in 1..P : \A i \in DOMAIN ids[p], j \in DOMAIN ids[q] : ids[p][i] = ids[q][j] => p = q
    <2> SUFFICES ASSUME NEW p \in 1..P, NEW q \in 1..P, NEW i \in DOMAIN ids[p], NEW j \in DOMAIN ids[q],
                        ids[p][i] = ids[q][j]
                 PROVE  p = q
      OBVIOUS
    <2>1. i \in 1..R /\ j \in 1..R
      BY <1>7
    <2>2. ~(p < q) /\ ~(q < p)
      BY <1>12, <2>1
    <2>3. QED
      BY <2>2
  <1>14. GroupsOk(ids, P)
    BY <1>10, <1>11, <1>13, Zenon DEF GroupsOk, Apart
  <1>15. QED
    BY <1>1, <1>14

\* The groups ids given with a request, and what IdsUnused says of them.
GivenTo(req, ids, n) ==
    /\ n = req.partitions /\ Len(req.assigns) >= req.partitions
    /\ ids = [p \in 1..n |-> GroupIds(req, req.assigns, p)]

Unshared(ids, n) ==
    /\ \A p \in 1..n : Range(ids[p]) \cap DOMAIN shards = {}
    /\ \A p \in 1..n : \A q \in 1..n : p # q => Range(ids[p]) \cap Range(ids[q]) = {}

LEMMA GivenGroups ==
    ASSUME IdsInv, NEW req, RequestOk(req), NEW ids, NEW n, GivenTo(req, ids, n), Unshared(ids, n)
    PROVE  GroupsOk(ids, n)
  <1>1. n \in Nat /\ req.replicas \in Nat
    BY DEF RequestOk, GivenTo
  <1>2. \A p \in 1..n : p \in DOMAIN req.assigns /\ req.assigns[p].ids \in Seq(Nat)
    <2>1. PICK a, S : a = req.assigns /\ a \in Seq(S)
      BY DEF RequestOk
    <2>2. DOMAIN a = 1..Len(a) /\ Len(a) \in Nat
      BY <2>1
    <2>3. \A p \in 1..n : p \in DOMAIN a
      BY <1>1, <2>1, <2>2 DEF GivenTo
    <2>4. QED
      BY <2>1, <2>3 DEF RequestOk
  <1>3. \A p \in 1..n : Numbers(req.assigns[p].ids)
    <2>1. \A s \in Seq(Nat) : Len(s) \in Nat /\ DOMAIN s = 1..Len(s) /\ \A i \in 1..Len(s) : s[i] \in Nat
      OBVIOUS
    <2>2. \A s \in Seq(Nat) : Numbers(s)
      BY <2>1 DEF Numbers
    <2>3. QED
      BY <1>2, <2>2
  <1>4. ASSUME NEW p \in 1..n PROVE Numbers(ids[p])
    <2>1. CASE req.assigns[p].ids # <<>>
      BY <1>3, <2>1 DEF GroupIds, GivenTo
    <2>2. CASE req.assigns[p].ids = <<>>
      <3>1. PICK before : before = DOMAIN shards
                 \cup UNION {{req.assigns[q].ids[i] : i \in DOMAIN req.assigns[q].ids} : q \in 1..(p - 1)}
        OBVIOUS
      <3>2. PICK f : f = [id \in before |-> id]
        OBVIOUS
      <3>3. ids[p] = [r \in 1..req.replicas |-> LastKey(f, 1)]
        BY <2>2, <3>1, <3>2 DEF GroupIds, GivenTo
      <3>4. PICK G : G = [q \in 1..(p - 1) |-> req.assigns[q].ids]
        OBVIOUS
      <3>5. p - 1 \in Nat /\ \A q \in 1..(p - 1) : q \in 1..n
        BY <1>1
      <3>6. \A q \in 1..(p - 1) : Numbers(G[q])
        BY <1>3, <3>4, <3>5
      <3>7. PICK b \in Nat : \A q \in 1..(p - 1) : \A i \in DOMAIN G[q] : G[q][i] <= b
        BY <3>5, <3>6, NumbersBounded
      <3>8. PICK c \in Nat : \A id \in DOMAIN shards : id <= c
        BY DEF IdsInv
      <3>9. \A x \in before : x \in DOMAIN shards \/ \E q \in 1..(p - 1) : \E i \in DOMAIN G[q] : x = G[q][i]
        BY <3>1, <3>4
      <3>10. \A x \in before : x \in Nat /\ x <= b + c
        <4>1. \A x \in DOMAIN shards : x \in Nat /\ x <= b + c
          BY <3>7, <3>8 DEF IdsInv
        <4>2. \A q \in 1..(p - 1) : \A i \in DOMAIN G[q] : G[q][i] \in Nat
          BY <3>6 DEF Numbers
        <4>3. \A q \in 1..(p - 1) : \A i \in DOMAIN G[q] : G[q][i] <= b + c
          <5> SUFFICES ASSUME NEW q \in 1..(p - 1), NEW i \in DOMAIN G[q] PROVE G[q][i] <= b + c
            OBVIOUS
          <5>1. PICK x \in Nat : x = G[q][i]
            BY <4>2
          <5>2. x <= b
            BY <3>7, <5>1
          <5>3. QED
            BY <5>1, <5>2
        <4>4. QED
          BY <3>9, <4>1, <4>2, <4>3
      <3>11. PICK d \in Nat : d = b + c
        OBVIOUS
      <3>12. DOMAIN f \subseteq Nat /\ \A x \in DOMAIN f : x <= d
        BY <3>2, <3>10, <3>11
      <3>13. PICK y \in Nat : y = LastKey(f, 1)
        <4>1. PICK one \in Nat : one = 1
          OBVIOUS
        <4>2. LastKey(f, one) \in Nat
          BY <3>12, LastKeyIs
        <4>3. QED
          BY <4>1, <4>2
      <3>14. QED
        BY <1>1, <3>3, <3>13 DEF Numbers
    <2>3. QED
      BY <2>1, <2>2
  <1>5. \A p \in 1..n : \A i \in DOMAIN ids[p] : ids[p][i] \in Range(ids[p])
    BY DEF Range
  <1>6. \A p \in 1..n : \A i \in DOMAIN ids[p] : ids[p][i] \notin DOMAIN shards
    BY <1>5 DEF Unshared
  <1>7. ASSUME NEW p \in 1..n, NEW q \in 1..n, NEW i \in DOMAIN ids[p], NEW j \in DOMAIN ids[q],
               ids[p][i] = ids[q][j]
        PROVE  p = q
    <2>1. PICK x : x = ids[p][i]
      OBVIOUS
    <2>2. x \in Range(ids[p]) /\ x \in Range(ids[q])
      BY <1>5, <1>7, <2>1
    <2>3. p # q => Range(ids[p]) \cap Range(ids[q]) = {}
      BY Zenon DEF Unshared
    <2>4. QED
      BY <2>2, <2>3, Zenon
  <1>8. \A p \in 1..n : Numbers(ids[p])
    BY <1>4
  <1>9. ASSUME NEW p \in 1..n, NEW q \in 1..n PROVE Apart(ids, p, q)
    BY <1>7, Zenon DEF Apart
  <1>10. QED
    BY <1>6, <1>8, <1>9, Zenon DEF GroupsOk

\* The metadata g of the groups ids of the collection name.
Describes(g, name, ids, n) ==
    /\ \A id \in DOMAIN g : \E p \in 1..n : \E i \in DOMAIN ids[p] : id = ids[p][i]
    /\ \A p \in 1..n : \A i \in DOMAIN ids[p] :
          /\ ids[p][i] \in DOMAIN g
          /\ g[ids[p][i]].coll = name /\ g[ids[p][i]].part = p

\* What create_collection inserts.
LEMMA NewShardsAre ==
    ASSUME NEW req, NEW assigns, NEW n, n = req.partitions,
           NEW ids, ids = [p \in 1..n |-> GroupIds(req, assigns, p)], GroupsOk(ids, n),
           NEW g, g = NewShards(req, assigns)
    PROVE  Describes(g, req.name, ids, n)
  <1> DEFINE gi(p) == GroupIds(req, assigns, p)
             places == UNION {{<<p, i>> : i \in DOMAIN gi(p)} : p \in 1..req.partitions}
             idAt(pl) == gi(pl[1])[pl[2]]
             after(a, b) == a[1] > b[1] \/ (a[1] = b[1] /\ a[2] >= b[2])
             good(a, id) == idAt(a) = id /\ \A b \in places : idAt(b) = id => after(a, b)
             last(id) == CHOOSE a \in places : good(a, id)
  <1>1. /\ DOMAIN g = {idAt(pl) : pl \in places}
        /\ \A id \in DOMAIN g : g[id].coll = req.name /\ g[id].part = last(id)[1]
    <2> DEFINE rec(id) == [id      |-> id,
                           coll    |-> req.name,
                           part    |-> last(id)[1],
                           owner   |-> Cyclic(assigns[last(id)[1]].owners, last(id)[2] - 1),
                           primary |-> assigns[last(id)[1]].primary,
                           replica |-> gi(last(id)[1])]
    <2>1. NewShards(req, assigns) = [id \in {idAt(pl) : pl \in places} |-> rec(id)]
      BY Zenon DEF NewShards
    <2>2. \A id : rec(id).coll = req.name /\ rec(id).part = last(id)[1]
      OBVIOUS
    <2> HIDE DEF rec, last, places, idAt
    <2>3. QED
      BY <2>1, <2>2
  <1>2. \A p \in 1..n : gi(p) = ids[p]
    OBVIOUS
  <1>3. \A a \in places : \E p \in 1..n : \E i \in DOMAIN ids[p] : a = <<p, i>> /\ idAt(a) = ids[p][i]
    BY <1>2
  <1>4. \A p \in 1..n : \A i \in DOMAIN ids[p] : <<p, i>> \in places /\ idAt(<<p, i>>) = ids[p][i]
    BY <1>2
  <1> HIDE DEF places, idAt, gi
  <1> (\A p \in 1..n : Numbers(ids[p])) /\ (\A p, q \in 1..n : Apart(ids, p, q))
    BY Zenon DEF GroupsOk
  <1>5. ASSUME NEW id \in DOMAIN g PROVE \E p \in 1..n : \E i \in DOMAIN ids[p] : id = ids[p][i]
    <2>1. PICK a \in places : id = idAt(a)
      BY <1>1
    <2>2. QED
      BY <1>3, <2>1
  <1>6. ASSUME NEW p \in 1..n, NEW i \in DOMAIN ids[p]
        PROVE  /\ ids[p][i] \in DOMAIN g
               /\ g[ids[p][i]].coll = req.name /\ g[ids[p][i]].part = p
    <2>1. PICK id : id = ids[p][i]
      OBVIOUS
    <2>2. id \in DOMAIN g
      <3>1. PICK a : a = <<p, i>>
        OBVIOUS
      <3>2. a \in places /\ idAt(a) = id
        BY <1>4, <2>1, <3>1
      <3>3. QED
        BY <1>1, <3>2
    <2>3. PICK m \in Nat : DOMAIN ids[p] = 1..m
      BY DEF Numbers
    <2>4. PICK Q : Q = {j \in DOMAIN ids[p] : ids[p][j] = id}
      OBVIOUS
    <2>5. Q \subseteq Nat /\ Q # {} /\ \A x \in Q : x <= m
      <3>1. Q \subseteq 1..m /\ i \in Q
        BY <2>1, <2>3, <2>4
      <3>2. QED
        BY <3>1
    <2>6. PICK j \in Q : \A x \in Q : x <= j
      BY <2>5, LargestOf
    <2>7. j \in DOMAIN ids[p] /\ ids[p][j] = id
      BY <2>4
    <2>8. PICK a : a = <<p, j>>
      OBVIOUS
    <2>9. a \in places /\ idAt(a) = id /\ a[1] = p /\ a[2] = j
      BY <1>4, <2>7, <2>8
    <2>10. ASSUME NEW b \in places, idAt(b) = id PROVE after(a, b)
      <3>1. PICK q \in 1..n : \E k \in DOMAIN ids[q] : b = <<q, k>> /\ idAt(b) = ids[q][k]
        BY <1>3
      <3>2. PICK k \in DOMAIN ids[q] : b = <<q, k>> /\ idAt(b) = ids[q][k]
        BY <3>1
      <3>3. q = p
        <4>1. ids[p][j] = ids[q][k]
          BY <2>7, <2>10, <3>2
        <4>2. Apart(ids, p, q)
          OBVIOUS
        <4>3. QED
          BY <2>7, <4>1, <4>2 DEF Apart
      <3>4. k \in Q
        BY <2>4, <2>10, <3>2, <3>3
      <3>5. j \in Nat /\ k \in Nat /\ k <= j
        BY <2>5, <2>6, <3>4
      <3>6. b[1] = p /\ b[2] = k
        BY <3>2, <3>3
      <3>7. QED
        BY <2>9, <3>5, <3>6
    <2>11. good(a, id)
      BY <2>9, <2>10
    <2> HIDE DEF good
    <2>12. last(id) \in places /\ good(last(id), id)
      BY <2>9, <2>11
    <2> HIDE DEF last
    <2>13. idAt(last(id)) = id
      BY <2>12 DEF good
    <2>14. PICK q \in 1..n : \E k \in DOMAIN ids[q] : last(id) = <<q, k>> /\ idAt(last(id)) = ids[q][k]
      BY <1>3, <2>12
    <2>15. PICK k \in DOMAIN ids[q] : last(id) = <<q, k>> /\ idAt(last(id)) = ids[q][k]
      BY <2>14
    <2>16. q = p
      <3>1. ids[p][j] = ids[q][k]
        BY <2>7, <2>13, <2>15
      <3>2. Apart(ids, p, q)
        OBVIOUS
      <3>3. QED
        BY <2>7, <3>1, <3>2 DEF Apart
    <2>17. last(id)[1] = p
      BY <2>15, <2>16
    <2>18. QED
      BY <1>1, <2>1, <2>2, <2>17
  <1>7. QED
    BY <1>5, <1>6, Zenon DEF Describes

-----------------------------------------------------------------------------
(* The shard manager: lookups stay with their collection                   *)

\* A step that creates no collection, builds nothing and puts nothing into the map.
LEMMA RouteSame ==
    ASSUME FieldsInv, RouteInv, SameShards, UNCHANGED metaVars,
           \A id \in DOMAIN active' : id \in DOMAIN active /\ active'[id] = active[id],
           CurInv', Building' => Building /\ loop'.cur = loop.cur
    PROVE  RouteInv'
  <1>1. IdsInv' /\ LocalInv'
    BY DEF RouteInv, IdsInv, LocalInv, metaVars
  <1>2. PlanInv'
    BY DEF RouteInv, PlanInv, metaVars
  <1>3. CollInv'
    BY DEF RouteInv, CollInv, metaVars
  <1>4. MapInv'
    <2>1. MapInv /\ (inst # <<>> => Len(inst) \in DOMAIN inst)
      BY ListedFacts DEF RouteInv, FieldsInv
    <2>2. Building' => inst' # <<>> /\ inst'[Len(inst')].meta = loop'.cur
      BY <2>1 DEF MapInv, SameShards
    <2>3. ASSUME NEW id \in DOMAIN active'
          PROVE  /\ id \in DOMAIN shards' /\ active'[id] \in DOMAIN inst'
                 /\ inst'[active'[id]].meta = shards'[id]
                 /\ Building' => active'[id] # Len(inst')
      BY <2>1 DEF MapInv, SameShards, metaVars
    <2>4. QED
      BY <2>2, <2>3 DEF MapInv
  <1>5. QED
    BY <1>1, <1>2, <1>3, <1>4 DEF RouteInv

\* A step that leaves the loop where it is.
LEMMA LoopSame == ASSUME RouteInv, UNCHANGED <<metaVars, loop>> PROVE CurInv' /\ (Building' => Building)
  BY DEF RouteInv, CurInv, Building, metaVars

\* New metadata under new ids.
LEMMA ShardsGrow ==
    ASSUME RouteInv, UNCHANGED <<local, loop, active, inst>>,
           \A id \in DOMAIN shards : id \in DOMAIN shards' /\ shards'[id] = shards[id]
    PROVE  LocalInv' /\ CurInv' /\ MapInv'
  <1>1. LocalInv'
    BY DEF RouteInv, LocalInv
  <1>2. CurInv'
    BY DEF RouteInv, CurInv
  <1>3. MapInv'
    BY DEF RouteInv, MapInv, Building
  <1>4. QED
    BY <1>1, <1>2, <1>3

LEMMA PlanHead ==
    ASSUME NEW rest, PlanOk(rest), rest # <<>>
    PROVE  RequestOk(Head(rest)) /\ PlanOk(Tail(rest))
  <1>1. PICK S : rest \in Seq(S) /\ \A req \in S : RequestOk(req)
    BY DEF PlanOk
  <1>2. Head(rest) \in S /\ Tail(rest) \in Seq(S)
    BY <1>1
  <1>3. QED
    BY <1>1, <1>2 DEF PlanOk

\* The ids a collection is created with are fresh: the generated ones always, the given
\* ones when IdsUnused says so.
LEMMA CreatedGroups ==
    ASSUME RouteInv, IdsUnused, loader.pc = "idle", loader.rest # <<>>,
           NEW req, req = Head(loader.rest), NEW assigns, assigns = Assignments(req),
           Len(assigns) >= req.partitions, NEW n, n = req.partitions,
           NEW ids, ids = [p \in 1..n |-> GroupIds(req, assigns, p)]
    PROVE  n \in Nat /\ GroupsOk(ids, n)
  <1>1. RequestOk(req)
    BY PlanHead DEF RouteInv, PlanInv
  <1>2. n \in Nat /\ IdsInv
    BY <1>1 DEF RequestOk, RouteInv
  <1>3. CASE req.assigns = <<>>
    <2>1. assigns = GenerateDefault(req)
      BY <1>3 DEF Assignments
    <2>2. QED
      BY <1>1, <1>2, <2>1, DefaultGroups
  <1>4. CASE req.assigns # <<>>
    <2>1. assigns = req.assigns
      BY <1>4 DEF Assignments
    <2>2. \A p \in 1..n : /\ Range(GroupIds(req, assigns, p)) \cap DOMAIN shards = {}
                          /\ \A q \in 1..n : p # q =>
                                Range(GroupIds(req, assigns, p)) \cap Range(GroupIds(req, assigns, q)) = {}
      BY <1>4, <2>1 DEF IdsUnused
    <2>3. \A p \in 1..n : ids[p] = GroupIds(req, assigns, p)
      OBVIOUS
    <2>4. \A p \in 1..n : Range(ids[p]) \cap DOMAIN shards = {}
      BY <2>2, <2>3
    <2>5. \A p \in 1..n : \A q \in 1..n : p # q => Range(ids[p]) \cap Range(ids[q]) = {}
      BY <2>2, <2>3
    <2>6. Unshared(ids, n)
      BY <2>4, <2>5, Zenon DEF Unshared
    <2>7. GivenTo(req, ids, n)
      BY <2>1, Zenon DEF GivenTo
    <2>8. GroupsOk(ids, n)
      BY <1>1, <1>2, <2>6, <2>7, GivenGroups, Zenon
    <2>9. QED
      BY <1>2, <2>8
  <1>5. QED
    BY <1>3, <1>4

LEMMA MetaGrows ==
    ASSUME IdsInv, NEW n \in Nat, NEW ids, GroupsOk(ids, n),
           NEW g, NEW name, Describes(g, name, ids, n), shards' = Overlay(shards, g)
    PROVE  /\ IdsInv'
           /\ \A id \in DOMAIN shards : id \in DOMAIN shards' /\ shards'[id] = shards[id]
           /\ \A id \in DOMAIN g : id \in DOMAIN shards' /\ shards'[id] = g[id]
  <1>1. \A p \in 1..n : Numbers(ids[p])
    BY Zenon DEF GroupsOk
  <1>2. \A id \in DOMAIN g : \E p \in 1..n : \E i \in DOMAIN ids[p] : id = ids[p][i]
    BY Zenon DEF Describes
  <1>3. \A id \in DOMAIN g : id \notin DOMAIN shards
    BY <1>2, Zenon DEF GroupsOk
  <1>4. /\ DOMAIN shards' = DOMAIN shards \cup DOMAIN g
        /\ \A id \in DOMAIN shards : shards'[id] = shards[id]
        /\ \A id \in DOMAIN g : shards'[id] = g[id]
    BY <1>3 DEF Overlay
  <1>5. PICK b \in Nat : \A p \in 1..n : \A i \in DOMAIN ids[p] : ids[p][i] <= b
    BY <1>1, NumbersBounded
  <1>6. PICK c \in Nat : \A id \in DOMAIN shards : id <= c
    BY DEF IdsInv
  <1>7. \A p \in 1..n : \A i \in DOMAIN ids[p] : ids[p][i] \in Nat
    BY <1>1 DEF Numbers
  <1>8. \A id \in DOMAIN g : id \in Nat /\ id <= b
    BY <1>2, <1>5, <1>7
  <1>9. \A id \in DOMAIN shards : id \in Nat
    BY DEF IdsInv
  <1>10. \A id \in DOMAIN shards' : id \in Nat /\ id <= b + c
    BY <1>4, <1>6, <1>8, <1>9
  <1>11. b + c \in Nat
    OBVIOUS
  <1>12. IdsInv'
    BY <1>10, <1>11 DEF IdsInv
  <1>13. QED
    BY <1>4, <1>12

LEMMA CollectionsGrow ==
    ASSUME CollInv, NEW n, NEW ids, ids = [p \in 1..n |-> ids[p]], GroupsOk(ids, n),
           NEW g, NEW new, Describes(g, new, ids, n),
           \A id \in DOMAIN shards : id \in DOMAIN shards' /\ shards'[id] = shards[id],
           \A id \in DOMAIN g : id \in DOMAIN shards' /\ shards'[id] = g[id],
           new \notin DOMAIN collections,
           collections' = Overlay(collections, [c \in {new} |-> ids])
    PROVE  CollInv'
  <1>1. PICK h : h = [c \in {new} |-> ids]
    OBVIOUS
  <1>2. DOMAIN h = {new} /\ h[new] = ids
    BY <1>1
  <1>3. /\ DOMAIN collections' = DOMAIN collections \cup {new}
        /\ collections'[new] = ids
        /\ \A name \in DOMAIN collections : collections'[name] = collections[name]
    BY <1>1, <1>2 DEF Overlay
  <1>4. ASSUME NEW p \in 1..n PROVE OwnsGroup(shards', new, p, ids[p])
    <2>1. Numbers(ids[p])
      BY Zenon DEF GroupsOk
    <2>2. ASSUME NEW i \in DOMAIN ids[p]
          PROVE  /\ ids[p][i] \in DOMAIN shards'
                 /\ shards'[ids[p][i]].coll = new /\ shards'[ids[p][i]].part = p
      <3>1. ids[p][i] \in DOMAIN g /\ g[ids[p][i]].coll = new /\ g[ids[p][i]].part = p
        BY Zenon DEF Describes
      <3>2. PICK id : id = ids[p][i]
        OBVIOUS
      <3>3. QED
        BY <3>1, <3>2, Zenon
    <2>3. QED
      BY <2>1, <2>2, Zenon DEF OwnsGroup
  <1>5. ASSUME NEW name \in DOMAIN collections, NEW p \in DOMAIN collections[name]
        PROVE  OwnsGroup(shards', name, p, collections[name][p])
    <2>1. PICK grp : grp = collections[name][p]
      OBVIOUS
    <2>2. OwnsGroup(shards, name, p, grp)
      BY <2>1 DEF CollInv
    <2>3. OwnsGroup(shards', name, p, grp)
      BY <2>2 DEF OwnsGroup
    <2>4. QED
      BY <2>1, <2>3
  <1>6. ASSUME NEW name \in DOMAIN collections', NEW p \in DOMAIN collections'[name]
        PROVE  OwnsGroup(shards', name, p, collections'[name][p])
    <2>1. CASE name = new
      <3>1. p \in 1..n /\ collections'[name][p] = ids[p]
        BY <1>3, <2>1
      <3>2. QED
        BY <1>4, <2>1, <3>1
    <2>2. CASE name # new
      <3>1. name \in DOMAIN collections /\ collections'[name] = collections[name]
        BY <1>3, <2>2
      <3>2. QED
        BY <1>5, <3>1, Zenon
    <2>3. QED
      BY <2>1, <2>2
  <1>7. QED
    BY <1>6, Zenon DEF CollInv

LEMMA CreateRoutes == ASSUME RouteInv, IdsUnused, CreateCollection PROVE RouteInv'
  <1>1. PICK req, assigns : req = Head(loader.rest) /\ assigns = Assignments(req)
    OBVIOUS
  <1>2. loader.pc = "idle" /\ loader.rest # <<>> /\ UNCHANGED <<local, loop, active, inst>>
    BY DEF CreateCollection, managerVars
  <1>3. CASE /\ req.name \notin DOMAIN collections /\ Len(assigns) >= req.partitions
             /\ shards' = Overlay(shards, NewShards(req, assigns))
             /\ collections' = Overlay(collections,
                    [c \in {req.name} |-> [p \in 1..req.partitions |-> GroupIds(req, assigns, p)]])
             /\ loader' = [loader EXCEPT !.pc = "update"]
    <2>1. PICK n : n = req.partitions
      OBVIOUS
    <2>2. PICK ids : ids = [p \in 1..n |-> GroupIds(req, assigns, p)]
      OBVIOUS
    <2>3. PICK g : g = NewShards(req, assigns)
      OBVIOUS
    <2>4. shards' = Overlay(shards, g)
      BY <1>3, <2>3, Zenon
    <2>5. PICK name : name = req.name
      OBVIOUS
    <2>6. name \notin DOMAIN collections /\ collections' = Overlay(collections, [c \in {name} |-> ids])
      BY <1>3, <2>1, <2>2, <2>5, Zenon
    <2>7. Len(assigns) >= req.partitions
      BY <1>3, Zenon
    <2>8. n \in Nat /\ GroupsOk(ids, n)
      BY <1>1, <1>2, <2>1, <2>2, <2>7, CreatedGroups, Zenon
    <2>9. Describes(g, name, ids, n)
      BY <2>1, <2>2, <2>3, <2>5, <2>8, NewShardsAre, Zenon
    <2>10. IdsInv /\ CollInv /\ PlanInv
      BY DEF RouteInv
    <2>11. /\ IdsInv'
           /\ \A id \in DOMAIN shards : id \in DOMAIN shards' /\ shards'[id] = shards[id]
           /\ \A id \in DOMAIN g : id \in DOMAIN shards' /\ shards'[id] = g[id]
      BY <2>4, <2>8, <2>9, <2>10, MetaGrows, Zenon
    <2>12. ids = [p \in 1..n |-> ids[p]]
      BY <2>2
    <2>13. CollInv'
      BY <2>6, <2>8, <2>9, <2>10, <2>11, <2>12, CollectionsGrow, Zenon
    <2>14. LocalInv' /\ CurInv' /\ MapInv'
      BY <1>2, <2>11, ShardsGrow, Zenon
    <2>15. PlanInv'
      <3>1. loader' = [loader EXCEPT !.pc = "update"]
        BY <1>3, Zenon
      <3>2. QED
        BY <1>2, <2>10, <3>1 DEF PlanInv
    <2>16. QED
      BY <2>11, <2>13, <2>14, <2>15 DEF RouteInv
  <1>4. CASE loader' = [loader EXCEPT !.pc = "panicked"] /\ UNCHANGED <<shards, collections>>
    <2>1. LocalInv' /\ CurInv' /\ MapInv'
      BY <1>2, <1>4, ShardsGrow
    <2>2. PlanInv' /\ IdsInv'
      BY <1>4 DEF RouteInv, PlanInv, IdsInv
    <2>3. CollInv'
      BY <1>4 DEF RouteInv, CollInv
    <2>4. QED
      BY <2>1, <2>2, <2>3 DEF RouteInv
  <1>5. QED
    BY <1>1, <1>3, <1>4 DEF CreateCollection

\* The rest of create_collection.
LEMMA LoadRoutes == ASSUME RouteInv, UpdateLocalShards \/ SendVersion PROVE RouteInv'
  <1>1. UNCHANGED <<collections, shards, loop, active, inst>>
    BY DEF UpdateLocalShards, SendVersion, managerVars
  <1>2. IdsInv' /\ CurInv' /\ MapInv'
    BY <1>1 DEF RouteInv, IdsInv, CurInv, MapInv, Building
  <1>3. CollInv'
    BY <1>1 DEF RouteInv, CollInv
  <1>4. CASE UpdateLocalShards
    <2>1. PICK own : own \subseteq DOMAIN shards /\ local' = Overlay(local, [id \in own |-> shards[id]])
      <3>1. {id \in DOMAIN shards : shards[id].owner = Node} \subseteq DOMAIN shards
        OBVIOUS
      <3>2. QED
        BY <1>4, <3>1 DEF UpdateLocalShards
    <2>2. LocalInv'
      BY <1>1, <2>1 DEF RouteInv, LocalInv, Overlay
    <2>3. PlanInv'
      BY <1>4 DEF UpdateLocalShards, RouteInv, PlanInv
    <2>4. QED
      BY <1>2, <1>3, <2>2, <2>3 DEF RouteInv
  <1>5. CASE SendVersion
    <2>1. LocalInv'
      BY <1>1, <1>5 DEF SendVersion, RouteInv, LocalInv
    <2>2. loader.rest # <<>> /\ PlanOk(loader.rest) /\ loader' = [pc |-> "idle", rest |-> Tail(loader.rest)]
      BY <1>5 DEF SendVersion, RouteInv, PlanInv
    <2>3. PlanOk(Tail(loader.rest))
      BY <2>2, PlanHead
    <2>4. PlanInv'
      BY <2>2, <2>3 DEF PlanInv
    <2>5. QED
      BY <1>2, <1>3, <2>1, <2>4 DEF RouteInv
  <1>6. QED
    BY <1>4, <1>5

\* The steps of the shards, of the shutdown, of the relay and of the peers.
LEMMA OthersRoute ==
    ASSUME FieldsInv, RouteInv, SameShards, UNCHANGED <<metaVars, loop>>,
           \A id \in DOMAIN active' : id \in DOMAIN active /\ active'[id] = active[id]
    PROVE  RouteInv'
  <1>1. UNCHANGED metaVars /\ loop'.cur = loop.cur
    OBVIOUS
  <1>2. CurInv' /\ (Building' => Building)
    BY LoopSame
  <1>3. QED
    BY <1>1, <1>2, RouteSame

LEMMA ClosingRoutes == ASSUME FieldsInv, RouteInv, CloseBegin \/ Close PROVE RouteInv'
  <1>1. UNCHANGED <<metaVars, loop>>
    BY DEF CloseBegin, Close, CloseCollect, CloseClear, CloseShard, CloseEnd, managerVars
  <1>2. \A id \in DOMAIN active' : id \in DOMAIN active /\ active'[id] = active[id]
    <2>1. CASE CloseClear
      BY <2>1 DEF CloseClear
    <2>2. CASE ~CloseClear
      <3>1. active' = active
        BY <2>2 DEF CloseBegin, Close, CloseCollect, CloseShard, CloseEnd, managerVars
      <3>2. QED
        BY <3>1
    <2>3. QED
      BY <2>1, <2>2
  <1>3. SameShards
    BY ClosingSame
  <1>4. QED
    BY <1>1, <1>2, <1>3, OthersRoute

\* The watch loop looks at the next local shard, or goes on with the one it builds.
LEMMA LookRoutes ==
    ASSUME ManagerInv, RouteInv, SyncBegin \/ SyncNext \/ SyncEnd \/ LoopExit PROVE RouteInv'
  <1>1. FieldsInv /\ MetaInv /\ LocalInv
    BY DEF ManagerInv, RouteInv
  <1>2. UNCHANGED <<metaVars, active>> /\ inst' = inst
    BY Zenon DEF SyncBegin, SyncNext, SyncEnd, LoopExit
  <1>3. SameShards
    BY <1>1, <1>2, InstSame
  <1>4. CurInv' /\ ~Building'
    <2>1. loop = [pc |-> loop.pc, last |-> loop.last, todo |-> loop.todo, cur |-> loop.cur]
      BY <1>1 DEF FieldsInv
    <2>2. CASE SyncNext
      <3>1. PICK id \in loop.todo :
               loop' = [loop EXCEPT !.todo = @ \ {id},
                                    !.cur = IF id \in DOMAIN active THEN NoMeta ELSE local[id],
                                    !.pc = IF id \in DOMAIN active THEN "next" ELSE "build"]
        BY <2>2, Zenon DEF SyncNext
      <3>2. id \in DOMAIN local /\ local[id].id = id /\ id \in DOMAIN shards /\ local[id] = shards[id]
        BY <1>1 DEF MetaInv, LocalInv
      <3>3. CASE id \in DOMAIN active
        <4>1. loop'.pc = "next"
          BY <2>1, <3>1, <3>3
        <4>2. QED
          BY <4>1 DEF CurInv, Building
      <3>4. CASE id \notin DOMAIN active
        <4>1. loop'.pc = "build" /\ loop'.cur = local[id]
          BY <2>1, <3>1, <3>4
        <4>2. QED
          BY <1>2, <3>2, <4>1 DEF CurInv, Building, metaVars
      <3>5. QED
        BY <3>3, <3>4
    <2>3. CASE SyncBegin \/ SyncEnd \/ LoopExit
      <3>1. loop'.pc \in {"wait", "next", "exit"}
        BY <2>1, <2>3 DEF SyncBegin, SyncEnd, LoopExit
      <3>2. QED
        BY <3>1 DEF CurInv, Building
    <2>4. QED
      BY <2>2, <2>3
  <1>5. \A id \in DOMAIN active' : id \in DOMAIN active /\ active'[id] = active[id]
    BY <1>2
  <1>6. QED
    BY <1>1, <1>2, <1>3, <1>4, <1>5, RouteSame

LEMMA MoveRoutes ==
    ASSUME FieldsInv, RouteInv, InitShard \/ StartNetwork \/ CountShard PROVE RouteInv'
  <1>1. UNCHANGED <<metaVars, active>>
    BY DEF InitShard, StartNetwork, CountShard
  <1>2. SameShards
    <2>1. CASE CountShard
      BY <2>1, InstSame DEF CountShard
    <2>2. QED
      BY <2>1, InitSame, NetworkSame
  <1>3. loop = [pc |-> loop.pc, last |-> loop.last, todo |-> loop.todo, cur |-> loop.cur]
    BY DEF FieldsInv
  <1>4. CASE InitShard
    <2>1. loop.pc = "init" /\ loop'.pc = "network" /\ loop'.cur = loop.cur
      BY <1>3, <1>4 DEF InitShard
    <2>2. CurInv' /\ Building
      BY <1>1, <2>1 DEF CurInv, Building, RouteInv, metaVars
    <2>3. QED
      BY <1>1, <1>2, <2>1, <2>2, RouteSame
  <1>5. CASE StartNetwork
    <2>1. loop.pc = "network" /\ loop'.pc = "insert" /\ loop'.cur = loop.cur
      BY <1>3, <1>5 DEF StartNetwork
    <2>2. CurInv' /\ Building
      BY <1>1, <2>1 DEF CurInv, Building, RouteInv, metaVars
    <2>3. QED
      BY <1>1, <1>2, <2>1, <2>2, RouteSame
  <1>6. CASE CountShard
    <2>1. loop'.pc = "next"
      BY <1>3, <1>6 DEF CountShard
    <2>2. CurInv' /\ ~Building'
      BY <2>1 DEF CurInv, Building
    <2>3. QED
      BY <1>1, <1>2, <2>2, RouteSame
  <1>7. QED
    BY <1>4, <1>5, <1>6

\* What the steps that build and drop shards leave alone.
LEMMA MetaSame ==
    ASSUME RouteInv, UNCHANGED metaVars PROVE IdsInv' /\ PlanInv' /\ CollInv' /\ LocalInv'
  <1>1. IdsInv' /\ LocalInv'
    BY DEF RouteInv, IdsInv, LocalInv, metaVars
  <1>2. PlanInv'
    BY DEF RouteInv, PlanInv, metaVars
  <1>3. CollInv'
    BY DEF RouteInv, CollInv, metaVars
  <1>4. QED
    BY <1>1, <1>2, <1>3

LEMMA BuildRoutes == ASSUME FieldsInv, RouteInv, BuildShard PROVE RouteInv'
  <1>1. PICK r : r = NewShard(loop.cur)
    OBVIOUS
  <1>2. r.meta = loop.cur
    BY <1>1 DEF NewShard
  <1>3. PICK t : t = Append(inst, r)
    OBVIOUS
  <1>4. /\ inst' = t /\ loop.pc = "build" /\ loop' = [loop EXCEPT !.pc = "init"]
        /\ UNCHANGED <<metaVars, active>>
    BY <1>1, <1>3 DEF BuildShard
  <1>5. /\ Len(t) = Len(inst) + 1 /\ DOMAIN t = 1..(Len(inst) + 1) /\ t # <<>>
        /\ t[Len(inst) + 1] = r /\ \A i \in DOMAIN inst : t[i] = inst[i]
    <2>1. Listed(inst)
      BY DEF FieldsInv
    <2>2. Longer(inst, r, t)
      BY <1>3, <2>1, AppendListed, Zenon
    <2>3. QED
      BY <2>2 DEF Longer
  <1>6. Len(inst) \in Nat /\ DOMAIN inst = 1..Len(inst)
    BY ListedFacts DEF FieldsInv
  <1>7. loop'.pc = "init" /\ loop'.cur = loop.cur
    BY <1>4 DEF FieldsInv
  <1>8. CurInv'
    BY <1>4, <1>7 DEF RouteInv, CurInv, metaVars
  <1>9. MapInv'
    <2>1. ASSUME NEW id \in DOMAIN active
          PROVE  /\ id \in DOMAIN shards /\ active[id] \in DOMAIN t
                 /\ t[active[id]].meta = shards[id] /\ active[id] # Len(t)
      <3>1. id \in DOMAIN shards /\ active[id] \in DOMAIN inst /\ inst[active[id]].meta = shards[id]
        BY DEF RouteInv, MapInv
      <3>2. \A i \in 1..Len(inst) : i \in 1..(Len(inst) + 1) /\ i # Len(inst) + 1
        BY <1>6
      <3>3. QED
        BY <1>5, <1>6, <3>1, <3>2
    <2>2. t[Len(t)].meta = loop.cur
      BY <1>2, <1>5
    <2>3. QED
      BY <1>4, <1>5, <1>7, <2>1, <2>2 DEF MapInv, metaVars
  <1>10. QED
    BY <1>4, <1>8, <1>9, MetaSame DEF RouteInv

\* A shard whose creation fails is dropped before it is in the map.
LEMMA FailsRoutes == ASSUME FieldsInv, RouteInv, CreateFails PROVE RouteInv'
  <1>1. /\ loop.pc \in {"build", "init"} /\ loop' = [loop EXCEPT !.pc = "next", !.cur = NoMeta]
        /\ inst' = IF loop.pc = "init" THEN SubSeq(inst, 1, Len(inst) - 1) ELSE inst
        /\ UNCHANGED <<metaVars, active>>
    BY DEF CreateFails
  <1>2. loop'.pc = "next"
    BY <1>1 DEF FieldsInv
  <1>3. CurInv' /\ ~Building'
    BY <1>2 DEF CurInv, Building
  <1>4. CASE loop.pc = "build"
    <2>1. inst' = inst
      BY <1>1, <1>4
    <2>2. SameShards
      BY <2>1, InstSame
    <2>3. QED
      BY <1>1, <1>3, <2>2, RouteSame
  <1>5. CASE loop.pc = "init"
    <2>1. MapInv /\ Building
      BY <1>5 DEF RouteInv, Building
    <2>2. inst # <<>>
      BY <2>1 DEF MapInv
    <2>3. PICK t : t = SubSeq(inst, 1, Len(inst) - 1)
      OBVIOUS
    <2>4. inst' = t
      BY <1>1, <1>5, <2>3
    <2>5. /\ DOMAIN t = 1..(Len(inst) - 1)
          /\ \A i \in DOMAIN t : t[i] = inst[i]
      <3>1. Listed(inst)
        BY DEF FieldsInv
      <3>2. Shorter(inst, t)
        BY <2>2, <2>3, <3>1, FrontListed, Zenon
      <3>3. QED
        BY <3>2 DEF Shorter
    <2>6. Len(inst) \in Nat /\ DOMAIN inst = 1..Len(inst)
      BY ListedFacts DEF FieldsInv
    <2>7. \A i \in DOMAIN inst : i # Len(inst) => i \in DOMAIN t
      BY <2>5, <2>6
    <2>8. MapInv'
      BY <1>1, <1>3, <2>1, <2>4, <2>5, <2>7 DEF MapInv, metaVars
    <2>9. QED
      BY <1>1, <1>3, <2>8, MetaSame DEF RouteInv
  <1>6. QED
    BY <1>1, <1>4, <1>5

LEMMA InsertRoutes == ASSUME FieldsInv, RouteInv, InsertShard PROVE RouteInv'
  <1>1. /\ loop.pc = "insert" /\ active' = Overlay(active, [id \in {loop.cur.id} |-> Len(inst)])
        /\ loop' = [loop EXCEPT !.pc = "count"] /\ inst' = inst /\ UNCHANGED metaVars
    BY DEF InsertShard
  <1>2. loop'.pc = "count"
    BY <1>1 DEF FieldsInv
  <1>3. CurInv' /\ ~Building'
    BY <1>2 DEF CurInv, Building
  <1>4. MapInv /\ Building /\ CurInv
    BY <1>1 DEF RouteInv, Building
  <1>5. PICK new : new = loop.cur.id
    OBVIOUS
  <1>6. /\ new \in DOMAIN shards /\ Len(inst) \in DOMAIN inst
        /\ inst[Len(inst)].meta = shards[new]
    <2>1. loop.cur.id \in DOMAIN shards /\ loop.cur = shards[loop.cur.id]
      BY <1>1, <1>4 DEF CurInv
    <2>2. inst # <<>> /\ inst[Len(inst)].meta = loop.cur
      BY <1>4 DEF MapInv
    <2>3. Len(inst) \in DOMAIN inst
      BY <2>2, ListedFacts DEF FieldsInv
    <2>4. QED
      BY <1>5, <2>1, <2>2, <2>3
  <1>7. PICK n : n = Len(inst)
    OBVIOUS
  <1>8. /\ DOMAIN active' = DOMAIN active \cup {new} /\ active'[new] = n
        /\ \A id \in DOMAIN active : id # new => active'[id] = active[id]
    BY <1>1, <1>5, <1>7 DEF Overlay
  <1>9. \A id \in DOMAIN active : /\ id \in DOMAIN shards /\ active[id] \in DOMAIN inst
                                  /\ inst[active[id]].meta = shards[id]
    BY <1>4 DEF MapInv
  <1>10. ASSUME NEW id \in DOMAIN active'
         PROVE  /\ id \in DOMAIN shards /\ active'[id] \in DOMAIN inst
                /\ inst[active'[id]].meta = shards[id]
    BY <1>6, <1>7, <1>8, <1>9
  <1>11. MapInv'
    BY <1>1, <1>3, <1>10 DEF MapInv, metaVars
  <1>12. QED
    BY <1>1, <1>3, <1>11, MetaSame DEF RouteInv

LEMMA RouteInitOk == ShardsInit => RouteInv
  <1> SUFFICES ASSUME ShardsInit PROVE RouteInv
    OBVIOUS
  <1>1. DOMAIN shards = {} /\ DOMAIN local = {} /\ DOMAIN active = {} /\ DOMAIN collections = {}
    BY DEF ShardsInit, EmptyMap
  <1>2. loop.pc = "wait"
    BY DEF ShardsInit
  <1>3. CurInv /\ MapInv /\ LocalInv /\ CollInv
    BY <1>1, <1>2 DEF CurInv, MapInv, LocalInv, CollInv, Building
  <1>4. IdsInv
    <2>1. 0 \in Nat
      OBVIOUS
    <2>2. QED
      BY <1>1, <2>1 DEF IdsInv
  <1>5. PlanInv
    <2>1. PICK plan \in Plans : loader = [pc |-> "idle", rest |-> plan]
      BY DEF ShardsInit
    <2>2. PICK S : S = Range(plan)
      OBVIOUS
    <2>3. plan \in Seq(S)
      BY <2>2, ManagerAssumption
    <2>4. ASSUME NEW req \in S PROVE RequestOk(req)
      <3>1. /\ req.partitions \in Nat /\ req.replicas \in Nat
            /\ req.assigns \in Seq(Range(req.assigns))
            /\ \A group \in Range(req.assigns) : group.ids \in Seq(Nat)
        BY <2>2, ManagerAssumption, Zenon
      <3>2. \A p \in DOMAIN req.assigns : req.assigns[p] \in Range(req.assigns)
        BY DEF Range
      <3>3. QED
        BY <3>1, <3>2, Zenon DEF RequestOk
    <2>5. PlanOk(plan)
      BY <2>3, <2>4, Zenon DEF PlanOk
    <2>6. QED
      BY <2>1, <2>5 DEF PlanInv
  <1>6. QED
    BY <1>3, <1>4, <1>5 DEF RouteInv

LEMMA RouteNextOk == ManagerInv /\ RouteInv /\ IdsUnused /\ [ShardsNext]_shardVars => RouteInv'
  <1> SUFFICES ASSUME ManagerInv, RouteInv, IdsUnused, [ShardsNext]_shardVars PROVE RouteInv'
    OBVIOUS
  <1>1. FieldsInv
    BY DEF ManagerInv
  <1>2. ASSUME UNCHANGED <<metaVars, managerVars>>, SameShards PROVE RouteInv'
    <2>1. UNCHANGED <<metaVars, loop>>
      BY <1>2 DEF managerVars
    <2>2. \A id \in DOMAIN active' : id \in DOMAIN active /\ active'[id] = active[id]
      BY <1>2 DEF managerVars
    <2>3. QED
      BY <1>1, <1>2, <2>1, <2>2, OthersRoute
  <1>3. CASE UNCHANGED shardVars
    BY <1>1, <1>2, <1>3, InstSame DEF shardVars
  <1>4. CASE Load
    BY <1>4, CreateRoutes, LoadRoutes DEF Load
  <1>5. CASE Sync \/ LoopExit
    BY <1>1, <1>5, LookRoutes, BuildRoutes, MoveRoutes, FailsRoutes, InsertRoutes DEF Sync
  <1>6. CASE CloseBegin \/ Close
    BY <1>1, <1>6, ClosingRoutes
  <1>7. ASSUME NEW i \in DOMAIN inst, ShardTask(i) PROVE RouteInv'
    <2>1. UNCHANGED <<metaVars, relayed, managerVars, closer, up, events>>
      BY <1>7, Zenon DEF ShardTask, Subscribe, TakeSample, UpdateStandby, TaskExit
    <2>2. SameShards
      BY <1>1, <1>7, TaskSame
    <2>3. QED
      BY <1>2, <2>1, <2>2
  <1>8. CASE RelayVersion \/ \E id \in DOMAIN shards : PeerChange(id)
    <2>1. UNCHANGED <<metaVars, managerVars>>
      BY <1>8 DEF RelayVersion, PeerChange
    <2>2. SameShards
      BY <1>1, <1>8, OutsideSame
    <2>3. QED
      BY <1>2, <2>1, <2>2
  <1>9. QED
    BY <1>3, <1>4, <1>5, <1>6, <1>7, <1>8 DEF ShardsNext

\* What the map has for an id of a group is a shard of that group.
LEMMA RouteFound == RouteInv => RoutedToOwnShard
  <1> SUFFICES ASSUME RouteInv PROVE RoutedToOwnShard
    OBVIOUS
  <1>1. ASSUME NEW name \in DOMAIN collections, NEW p \in DOMAIN collections[name],
               NEW k, k = GetLocalShard(name, p), k # 0
        PROVE  inst[k].meta.coll = name /\ inst[k].meta.part = p
    <2> DEFINE grp == collections[name][p]
               found == {i \in DOMAIN grp : grp[i] \in DOMAIN active}
    <2>1. k = IF found = {} THEN 0 ELSE active[grp[CHOOSE i \in found : \A j \in found : i <= j]]
      BY <1>1, Zenon DEF GetLocalShard
    <2>2. OwnsGroup(shards, name, p, grp)
      BY DEF RouteInv, CollInv
    <2>3. \A i \in found : i \in DOMAIN grp /\ grp[i] \in DOMAIN active
      OBVIOUS
    <2> HIDE DEF grp, found
    <2>4. \A i \in found : i \in Nat
      <3>1. PICK m \in Nat : DOMAIN grp = 1..m
        BY <2>2 DEF OwnsGroup, Numbers
      <3>2. QED
        BY <2>3, <3>1
    <2>5. found # {}
      BY <1>1, <2>1
    <2>6. \E i \in found : \A j \in found : i <= j
      BY <2>4, <2>5, Least
    <2>7. PICK i \in found : k = active[grp[i]]
      BY <2>1, <2>5, <2>6
    <2>8. PICK id : id = grp[i]
      OBVIOUS
    <2>9. id \in DOMAIN active /\ shards[id].coll = name /\ shards[id].part = p
      BY <2>2, <2>3, <2>8 DEF OwnsGroup
    <2>10. inst[active[id]].meta = shards[id]
      BY <2>9 DEF RouteInv, MapInv
    <2>11. QED
      BY <2>7, <2>8, <2>9, <2>10
  <1>2. QED
    BY <1>1, Zenon DEF RoutedToOwnShard

\* For any plans and members, whatever is built, fails or is closed and in whatever order:
\* as long as the ids a request brings along are unused (those the node generates always
\* are), a lookup by collection and partition never leads to a shard of another one,
\* even while a sync or the creation of the next collection is under way
\* (create_collection of metadata/mod.rs, get_local_shard of cluster.rs).
THEOREM LookupsStayOwn == ShardsSpec /\ []IdsUnused => []RoutedToOwnShard
  <1>1. ShardsInit => ManagerInv /\ RouteInv
    BY ManagerInitOk, RouteInitOk
  <1>2. ManagerInv /\ RouteInv /\ IdsUnused /\ [ShardsNext]_shardVars => (ManagerInv /\ RouteInv)'
    BY ManagerNextOk, RouteNextOk
  <1>3. ManagerInv /\ RouteInv => RoutedToOwnShard
    BY RouteFound
  <1>4. QED
    BY <1>1, <1>2, <1>3, PTL DEF ShardsSpec
=============================================================================
