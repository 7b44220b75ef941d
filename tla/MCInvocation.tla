---------------------------- MODULE MCInvocation ----------------------------
(* Instances of Invocation for TLC.                                        *)
EXTENDS Invocation

\* A WASM function that invokes itself and a remote one, a remote one that
\* invokes itself, and one without a route.
MCRoute == [f \in Fns |-> CASE f = "w" -> "wasm" [] f = "r" -> "grpc" [] OTHER -> "none"]
MCBody == [f \in Fns |-> CASE f = "w" -> {"w", "r"} [] f = "r" -> {"r"} [] OTHER -> {}]

MCRequests ==
    {[via |-> "rest", op |-> "invoke", fn |-> "r"], [via |-> "grpc", op |-> "invoke", fn |-> "w"],
     [via |-> "odgm", op |-> "invoke", fn |-> "x"], [via |-> "grpc", op |-> "invoke", fn |-> "x"],
     [via |-> "odgm", op |-> "invoke", fn |-> "r"], [via |-> "zenoh", op |-> "async", fn |-> "r"],
     [via |-> "rest", op |-> "get", fn |-> "x"], [via |-> "rest", op |-> "put", fn |-> "x"],
     [via |-> "grpc", op |-> "del", fn |-> "x"], [via |-> "rest", op |-> "bad", fn |-> "x"]}
=============================================================================
