--------------------------- MODULE MCShardManager ---------------------------
(***************************************************************************)
(* Instances of ShardManager: two members, and the requests the node loads.*)
(***************************************************************************)
EXTENDS ShardManager

MCMembers == <<1, 2>>
MCFunctions == {"get", "spare"}
MCStandby == {"spare"}

Default(name, replicas) ==
    [name |-> name, partitions |-> 1, replicas |-> replicas, assigns |-> <<>>]

\* Two collections without assignments, one of them replicated: the node owns
\* shards 1 and 2, its peer shard 3.
DefaultPlan == <<Default("a", 1), Default("b", 2)>>

Explicit(name, partitions, assigns) ==
    [name |-> name, partitions |-> partitions, replicas |-> 1, assigns |-> assigns]
Group(ids) == [ids |-> ids, owners |-> <<1>>, primary |-> 1]

\* Assignments given with the request, with and without ids.
GivenPlan == <<Explicit("a", 1, <<Group(<<3>>)>>)>>
NoIdsPlan == <<Explicit("a", 1, <<Group(<<>>)>>)>>

\* The errors of create_collection: a name twice and too few assignments.
DuplicatePlan == <<Default("a", 1), Default("a", 1)>>
ShortPlan == <<Explicit("a", 2, <<Group(<<1>>)>>)>>

MCPlans == {DefaultPlan, GivenPlan, NoIdsPlan, DuplicatePlan, ShortPlan}
=============================================================================
