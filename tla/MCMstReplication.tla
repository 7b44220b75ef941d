-------------------------- MODULE MCMstReplication --------------------------
(***************************************************************************)
(* Instances of MstReplication.                                            *)
(***************************************************************************)
EXTENDS MstReplication, TLC

MCNodes == {1, 2}
MCKeys  == {1}

\* One writer per replica.
MCHome == (1 :> 1) @@ (2 :> 2)

\* Timestamps in the order of the writes.
InOrder(v) == v
=============================================================================
