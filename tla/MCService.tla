----------------------------- MODULE MCService -----------------------------
(***************************************************************************)
(* Instances of Service for TLC.                                           *)
(***************************************************************************)
EXTENDS Service, TLC

CONSTANTS k1, k2, p1, o1, o2, w1, w2, t1, t2, c1, c2, c3

MCRoute(k, r) == [key |-> k, provider |-> p1, review |-> r]
PlainRoute == {MCRoute(k1, FALSE)}
ReviewedRoute == {MCRoute(k1, TRUE)}
ReviewedKeys == {MCRoute(k1, TRUE), MCRoute(k2, TRUE)}
MCProviderLimit == [p \in Providers |-> GlobalLimit]
OneProcess == [w \in Workers |-> o1]
OneProcessThreads == [t \in Threads |-> o1]
TwoProcesses == [w \in Workers |-> IF w = w1 THEN o1 ELSE o2]
TwoProcessThreads == [t \in Threads |-> IF t = t1 THEN o1 ELSE o2]

\* Sound for safety when all workers belong to one process.
WorkerSymmetry == Permutations(Workers)
=============================================================================
