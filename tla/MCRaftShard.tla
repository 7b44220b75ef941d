----------------------------- MODULE MCRaftShard -----------------------------
(***************************************************************************)
(* Three replicas; a batch of two keys and a read of them.                 *)
(***************************************************************************)
EXTENDS RaftShard

MCRequests == {"batch", "read"}
MCKind == [r \in Requests |-> r]
MCWrites == [r \in Requests |-> IF r = "batch" THEN <<"k1", "k2">> ELSE <<>>]
MCEntry == [r \in Requests |-> IF r = "batch" THEN {1, 3} ELSE {1}]
=============================================================================
