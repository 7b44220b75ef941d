------------------------- MODULE MCEventDispatcher -------------------------
(***************************************************************************)
(* Instances of EventDispatcher.                                           *)
(***************************************************************************)
EXTENDS EventDispatcher

\* Contexts with as many keys as the cap of two lets through, and with more; keys
\* with no, one and two matching targets.
MCContexts == {<<2, 1>>, <<1, 0, 1>>}
=============================================================================
