-------------------------- MODULE RoutingTheorems --------------------------
(***************************************************************************)
(* What label routing promises, for every set of labels and of available   *)
(* reviewers.                                                              *)
(***************************************************************************)
EXTENDS Routing, TLAPS

\* An issue is accepted only when it is open, marked ready, neither paused nor
\* manual-only, and names exactly one implementer, who is the one selected
\* (intake.py, route; docs/github-contract.md: "It never silently falls back for
\* implementation").
THEOREM RouteExact ==
  ASSUME NEW open \in BOOLEAN, NEW labels, NEW available \in SUBSET Providers,
         route(open, labels, available).eligible
  PROVE  /\ MayRun(open, labels)
         /\ Implementers(labels) = {route(open, labels, available).provider}
<1>1. MayRun(open, labels) /\ Selects(labels, available)
  BY DEF route, Ineligible
<1>2. PICK p \in Implementers(labels) : Implementers(labels) = {p}
  BY <1>1 DEF Selects, Single
<1>3. OneOf(Implementers(labels)) = p
  BY <1>2 DEF OneOf
<1> QED BY <1>1, <1>2, <1>3 DEF route

\* The same for one set of labels and one set of available reviewers.
LEMMA SameDecision ==
  ASSUME NEW labels, NEW available \in SUBSET Providers,
         route(TRUE, labels, available).eligible
  PROVE  StillRouted(TRUE, labels, route(TRUE, labels, available))
<1> DEFINE d == route(TRUE, labels, available)
           impl == OneOf(Implementers(labels))
           only == {d.reviewer} \ {None}
<1>1. MayRun(TRUE, labels) /\ Selects(labels, available)
  BY DEF route, Ineligible
<1>2. PICK p \in Implementers(labels) : Implementers(labels) = {p}
  BY <1>1 DEF Selects, Single
<1>3. impl = p /\ p \in Providers
  BY <1>2 DEF OneOf, Implementers
<1>4. d.review = (Review("required") \in labels) /\ d.provider = impl
  BY <1>1 DEF route
<1>5. CASE Review("required") \notin labels
  <2>1. Reviewers(labels) = {}
    BY <1>1, <1>5 DEF Selects
  <2>2. Selects(labels, only)
    BY <1>1, <1>5, <2>1 DEF Selects
  <2> QED BY <1>1, <1>5, <2>2 DEF StillRouted, route
<1>6. CASE Review("required") \in labels /\ Reviewers(labels) # {}
  <2>1. RequestedReviewer(labels, only) = RequestedReviewer(labels, available)
    BY <1>6 DEF RequestedReviewer
  <2>2. Selects(labels, only)
    BY <1>1, <1>6, <2>1 DEF Selects
  <2> QED BY <1>1, <1>6, <2>1, <2>2 DEF StillRouted, route
<1>7. CASE Review("required") \in labels /\ Reviewers(labels) = {}
  <2>1. d.reviewer = ChooseReviewer(impl, available)
    BY <1>1, <1>7 DEF route, RequestedReviewer
  <2>2. d.reviewer # None
    BY <1>1, <1>7, <2>1 DEF Selects, RequestedReviewer
  <2>3. only = {d.reviewer}
    BY <2>2
  <2>4. ChooseReviewer(impl, only) = d.reviewer
    <3>1. CASE available \ {impl} # {}
      <4>1. d.reviewer \in available \ {impl}
        BY <2>1, <3>1 DEF ChooseReviewer, OneOf
      <4>2. only \ {impl} = {d.reviewer}
        BY <2>3, <4>1
      <4> QED BY <4>2 DEF ChooseReviewer, OneOf
    <3>2. CASE available \ {impl} = {}
      <4>1. d.reviewer = impl
        BY <2>1, <2>2, <3>2 DEF ChooseReviewer
      <4> QED BY <2>3, <4>1 DEF ChooseReviewer
    <3> QED BY <3>1, <3>2
  <2>5. RequestedReviewer(labels, only) = RequestedReviewer(labels, available)
    BY <1>7, <2>1, <2>4 DEF RequestedReviewer
  <2>6. Selects(labels, only)
    BY <1>1, <1>7, <2>2, <2>1, <2>5 DEF Selects, RequestedReviewer
  <2> QED BY <1>1, <1>7, <2>5, <2>6 DEF StillRouted, route
<1> QED BY <1>5, <1>6, <1>7

\* The last-moment guard never refuses an issue whose labels did not change,
\* whichever reviewer was chosen for it and whoever is available by now
\* (github.py, guard_code_mutation).
THEOREM GuardAgreesEverywhere ==
  ASSUME NEW open \in BOOLEAN, NEW labels
  PROVE  GuardAgreesOn(open, labels)
<1> SUFFICES ASSUME NEW available \in SUBSET Providers,
                    route(open, labels, available).eligible
             PROVE  StillRouted(open, labels, route(open, labels, available))
  BY DEF GuardAgreesOn
<1>1. open
  BY RouteExact DEF MayRun
<1>2. open = TRUE
  BY <1>1
<1> QED BY <1>2, SameDecision
=============================================================================
