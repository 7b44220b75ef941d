----------------------------- MODULE MCStorage -----------------------------
(* Instances of Storage for TLC.                                           *)
EXTENDS Storage

MCKeyOrder == <<"a", "b", "n">>
MCBackends == {"memory"} \cup SkipList \cup Fjall \cup SingleWriter
=============================================================================
