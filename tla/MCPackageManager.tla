-------------------------- MODULE MCPackageManager --------------------------
(***************************************************************************)
(* Instances of PackageManager.                                            *)
(***************************************************************************)
EXTENDS PackageManager, TLC

Ask(kind, key, package, targets, available) ==
    [kind |-> kind, key |-> key, package |-> package, targets |-> targets,
     available |-> available]

MCDeps == "app" :> {}

MCPackageOf == "k" :> "app"

\* The package is stored; its class is deployed to as many environments as the
\* availability asks for, deployed again to one, and the package is deleted with
\* whatever is deployed by then.
AllArgs ==
    ("app" :> Ask("create", "k", "app", {}, {}))
    @@ ("first" :> Ask("deploy", "k", "app", {}, {}))
    @@ ("second" :> Ask("deploy", "k", "app", {"e1"}, {}))
    @@ ("drop" :> Ask("drop", "k", "app", {}, {}))

MCArgs == [r \in Requests |-> AllArgs[r]]

\* What the environments may report: alike, so that three of four are needed.
MCAvailabilities == {[e \in Envs |-> 80]}
=============================================================================
