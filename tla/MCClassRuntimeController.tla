---------------------- MODULE MCClassRuntimeController ----------------------
(***************************************************************************)
(* Small instances of ClassRuntimeController: one or two functions and an  *)
(* ODGM child, metrics that ask for one or three replicas of at most two.  *)
(***************************************************************************)
EXTENDS ClassRuntimeController

MCSamples == {[cpu |-> 501, p99 |-> 251]}
=============================================================================
