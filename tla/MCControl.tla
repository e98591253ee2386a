----------------------------- MODULE MCControl -----------------------------
(***************************************************************************)
(* Instances of ControlInbox for TLC: t1 answers the webhooks of the one   *)
(* process, t2 is the timer of the other.                                  *)
(***************************************************************************)
EXTENDS ControlInbox

CONSTANTS k1, p1, p2, o1, o2, t1, t2, j1

MCRoutes == {[key |-> k1, provider |-> p1, review |-> TRUE]}
MCProviderLimit == [p \in Providers |-> GlobalLimit]
MCProcessOf == [t \in Threads |-> IF t = t2 THEN o2 ELSE o1]
OneIssue == [c \in Comments |-> j1]
PauseResume == [c \in Comments |-> IF c = 1 THEN "pause" ELSE "resume"]
Required == {Agent("ready"), Agent(p1), Review("required")}
SomeReviewer == {{p1}, {p1, p2}}
=============================================================================
