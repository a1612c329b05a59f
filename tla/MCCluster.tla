----------------------------- MODULE MCCluster -----------------------------
EXTENDS Cluster, TLC

Default == [suppress |-> TRUE, grace |-> FALSE, skipL2 |-> FALSE, quiet |-> FALSE]

DefaultOnly == {Default}
SomeOptions == {Default, [Default EXCEPT !.skipL2 = TRUE],
                [Default EXCEPT !.suppress = FALSE, !.grace = TRUE, !.quiet = TRUE]}
AllKinds == {"get", "pull", "set", "delete", "expire", "clear"}
ReadAndClear == {"get", "clear"}

Symmetry == Permutations(Procs) \cup Permutations(Calls)
=============================================================================
