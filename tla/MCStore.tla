------------------------------ MODULE MCStore ------------------------------
(***************************************************************************)
(* Instances of Store for TLC: any client, any call, any order.            *)
(***************************************************************************)
EXTENDS Store, TLC

CONSTANTS k1, k2, p1

MCRoutes == {[key |-> k, provider |-> p1, review |-> FALSE] : k \in Keys}
MCProviderLimit == [p \in Providers |-> GlobalLimit]
Symmetry == Permutations(Jobs) \cup Permutations(Keys)
=============================================================================
