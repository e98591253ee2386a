------------------------------ MODULE Routing ------------------------------
(***************************************************************************)
(* What the labels of an issue ask for (intake.py): whether it may be      *)
(* worked on autonomously, by whom, and who reviews it.                    *)
(***************************************************************************)

CONSTANTS
  Providers,  \* provider names
  None        \* no provider

\* A label is "agent:<x>" or "review:<x>".
Agent(x) == <<"agent", x>>
Review(x) == <<"review", x>>
RoutingLabels ==
  {Agent(x) : x \in {"ready", "paused", "manual-only"} \cup Providers}
    \cup {Review(x) : x \in {"required"} \cup Providers}

Implementers(labels) == {p \in Providers : Agent(p) \in labels}
Reviewers(labels) == {p \in Providers : Review(p) \in labels}

Ineligible == [eligible |-> FALSE, provider |-> None, review |-> FALSE, reviewer |-> None]

\* One of a set of names; the code takes the first in alphabetical order.
OneOf(S) == CHOOSE p \in S : TRUE

\* The implementer reviews its own work only if nobody else can.
ChooseReviewer(implementer, available) ==
  IF available \ {implementer} # {} THEN OneOf(available \ {implementer})
  ELSE IF implementer \in available THEN implementer
  ELSE None

RequestedReviewer(labels, available) ==
  IF Reviewers(labels) # {} THEN OneOf(Reviewers(labels))
  ELSE ChooseReviewer(OneOf(Implementers(labels)), available)

MayRun(open, labels) ==
  open /\ Agent("ready") \in labels
       /\ Agent("paused") \notin labels /\ Agent("manual-only") \notin labels

Single(S) == \E p \in S : S = {p}

Selects(labels, available) ==
  /\ Single(Implementers(labels))
  /\ Reviewers(labels) # {} =>
       Single(Reviewers(labels)) /\ Review("required") \in labels
  /\ Review("required") \in labels => RequestedReviewer(labels, available) # None

route(open, labels, available) ==
  IF ~(MayRun(open, labels) /\ Selects(labels, available)) THEN Ineligible
  ELSE [eligible |-> TRUE,
        provider |-> OneOf(Implementers(labels)),
        review   |-> Review("required") \in labels,
        reviewer |-> IF Review("required") \in labels
                     THEN RequestedReviewer(labels, available) ELSE None]

\* Mutant of StillRouted: no reviewer is taken to be available.
StillRoutedAlone(open, labels, decision) == route(open, labels, {}) = decision

\* guard_code_mutation: the live labels must still give the accepted decision,
\* with the accepted reviewer alone taken to be available.
StillRouted(open, labels, decision) ==
  route(open, labels, {decision.reviewer} \ {None}) = decision

\* What the guard owes to labels that did not change.
GuardAgreesOn(open, labels) ==
  \A available \in SUBSET Providers :
    LET d == route(open, labels, available)
    IN  d.eligible => StillRouted(open, labels, d)
=============================================================================
