-------------------------- MODULE EdgeRoutingProofs -------------------------
(***************************************************************************)
(* Theorems about EdgeRouting for any regions, edges, sites and requests,  *)
(* whatever the edges are wired to unless a theorem says otherwise.        *)
(***************************************************************************)
EXTENDS EdgeRouting, TLAPS

LEMMA RoutingInit == Init => RoutingInv
<1> SUFFICES ASSUME Init PROVE RoutingInv
  OBVIOUS
<1>1. TypeOK
  BY RoutingAssumption DEF Init, TypeOK, Homes
<1>2. \A q \in Requests : ~calm[q]
  BY DEF Init
<1>3. \A q \in Requests : calm[q] => Agreed(slug[q])
  BY <1>2, Zenon
<1>4. \A q \in Requests : calm[q] /\ hops[q] > 0 =>
        hops[q] = 1 /\ home[slug[q]] = LocalRegion[at[q]]
  BY <1>2, Zenon
<1> QED
  BY <1>1, <1>3, <1>4 DEF RoutingInv

LEMMA PlaceStep ==
  ASSUME RoutingInv, NEW s \in Slugs, NEW r \in Homes, Place(s, r)
  PROVE  RoutingInv'
<1>1. TypeOK'
  <2>1. moves' \in 0..MaxMoves
    BY RoutingAssumption DEF RoutingInv, TypeOK, Place
  <2>2. home' \in [Slugs -> Homes]
    BY DEF RoutingInv, TypeOK, Place
  <2>3. calm' \in [Requests -> BOOLEAN]
    BY DEF RoutingInv, TypeOK, Place
  <2> QED
    BY <2>1, <2>2, <2>3 DEF RoutingInv, TypeOK, Place, routing
<1>2. \A q \in Requests : calm'[q] => calm[q] /\ slug[q] # s
  BY DEF Place
<1>3. UNCHANGED <<view, slug, at, hops>> /\ \A t \in Slugs : t # s => home'[t] = home[t]
  BY DEF Place, routing, RoutingInv, TypeOK
<1>4. \A q \in Requests : slug[q] \in Slugs
  BY DEF RoutingInv, TypeOK
<1> QED
  BY <1>1, <1>2, <1>3, <1>4 DEF RoutingInv, Agreed, Wired

LEMMA SetLocationStep ==
  ASSUME RoutingInv, NEW e \in Edges, NEW s \in Slugs, SetLocation(e, s)
  PROVE  RoutingInv'
<1>1. TypeOK'
  BY DEF RoutingInv, TypeOK, SetLocation, routing, Homes
<1>2. \A q \in Requests : calm[q] => slug[q] # s
  BY DEF RoutingInv, Agreed, SetLocation
<1>3. /\ UNCHANGED <<home, calm, slug, at, hops>>
      /\ \A d \in Edges, t \in Slugs : t # s => view'[d][t] = view[d][t]
  BY DEF SetLocation, routing, RoutingInv, TypeOK
<1>4. \A q \in Requests : slug[q] \in Slugs
  BY DEF RoutingInv, TypeOK
<1> QED
  BY <1>1, <1>2, <1>3, <1>4 DEF RoutingInv, Agreed, Wired

LEMMA ArriveStep ==
  ASSUME RoutingInv, NEW q \in Requests, NEW e \in Edges, NEW s \in Slugs, Arrive(q, e, s)
  PROVE  RoutingInv'
<1>1. TypeOK'
  BY RoutingAssumption DEF RoutingInv, TypeOK, Arrive, Agreed
<1>2. UNCHANGED <<home, view>>
  BY DEF Arrive
<1>3. \A p \in Requests : p # q =>
        calm'[p] = calm[p] /\ slug'[p] = slug[p] /\ hops'[p] = hops[p] /\ at'[p] = at[p]
  BY DEF Arrive, RoutingInv, TypeOK
<1>4. hops'[q] = 0 /\ slug'[q] = s /\ calm'[q] = Agreed(s)
  BY DEF Arrive, RoutingInv, TypeOK
<1>5. \A p \in Requests : calm'[p] => Agreed(slug'[p])
  BY <1>3, <1>4 DEF RoutingInv
<1>6. \A t \in Slugs : Agreed(t) = Agreed(t)'
  BY <1>2 DEF Agreed
<1>7. \A p \in Requests : slug'[p] \in Slugs
  BY <1>1 DEF TypeOK
<1>8. \A p \in Requests : calm'[p] => (\A d \in Edges : view'[d][slug'[p]] = home'[slug'[p]])
  BY <1>2, <1>5 DEF Agreed
<1>9. Wired => \A p \in Requests : calm'[p] /\ hops'[p] > 0 =>
        hops'[p] = 1 /\ home'[slug'[p]] = LocalRegion[at'[p]]
  BY <1>2, <1>3, <1>4 DEF RoutingInv
<1> QED
  BY <1>1, <1>8, <1>9 DEF RoutingInv, Agreed, Wired

(* A calm request that is forwarded arrives in the site's home region, and  *)
(* one that is there already is not forwarded.                              *)
LEMMA ForwardStep ==
  ASSUME RoutingInv, Wired, NEW q \in Requests, calm[q],
         Remote(q), Reachable(q), Forward(q)
  PROVE  hops[q] = 0 /\ hops'[q] = 1 /\ home[slug[q]] = LocalRegion[at'[q]]
<1>1. /\ at[q] \in Edges /\ slug[q] \in Slugs /\ hops[q] \in 0..MaxHops
      /\ at \in [Requests -> Edges] /\ hops \in [Requests -> 0..MaxHops]
      /\ MaxHops \in Nat \ {0}
  BY RoutingAssumption DEF RoutingInv, TypeOK
<1>2. Located(q) = home[slug[q]] /\ home[slug[q]] \in Homes
  BY <1>1 DEF Located, RoutingInv, Agreed, TypeOK
<1>3. home[slug[q]] \in Regions /\ home[slug[q]] # LocalRegion[at[q]]
  BY <1>2 DEF Remote, Homes
<1>4. hops[q] = 0
  BY <1>1, <1>3 DEF RoutingInv
<1>5. at'[q] = Upstream[at[q]][home[slug[q]]] /\ hops'[q] = 1
  BY <1>1, <1>2, <1>4 DEF Forward
<1> QED
  BY <1>1, <1>2, <1>3, <1>4, <1>5 DEF Wired, Reachable

LEMMA RequestStepInv ==
  ASSUME RoutingInv, NEW q \in Requests, RequestStep(q)
  PROVE  RoutingInv'
<1>1. UNCHANGED <<home, moves, view, slug, calm>>
  BY DEF RequestStep, Resolve, Dispatch
<1>2. CASE ~(Dispatch(q) /\ Remote(q) /\ Reachable(q) /\ Forward(q))
  <2>1. UNCHANGED <<at, hops>>
    BY <1>2 DEF RequestStep, Resolve, Dispatch, Answer
  <2>2. pc' \in [Requests -> {"idle", "resolve", "dispatch"}]
    BY <1>2 DEF RequestStep, Resolve, Dispatch, Answer, RoutingInv, TypeOK
  <2>3. answer' \in [Requests -> {"none", "served", "unavailable", "limited", "unreachable"}]
    BY <1>2 DEF RequestStep, Resolve, Dispatch, Answer, RoutingInv, TypeOK
  <2>4. TypeOK'
    BY <1>1, <2>1, <2>2, <2>3 DEF RoutingInv, TypeOK
  <2>5. \A p \in Requests : calm'[p] => \A e \in Edges : view'[e][slug'[p]] = home'[slug'[p]]
    BY <1>1 DEF RoutingInv, Agreed
  <2>6. Wired => \A p \in Requests : calm'[p] /\ hops'[p] > 0 =>
          hops'[p] = 1 /\ home'[slug'[p]] = LocalRegion[at'[p]]
    BY <1>1, <2>1 DEF RoutingInv
  <2> QED
    BY <2>4, <2>5, <2>6 DEF RoutingInv, Agreed, Wired
<1>3. CASE Dispatch(q) /\ Remote(q) /\ Reachable(q) /\ Forward(q)
  <2>1. /\ at[q] \in Edges /\ Located(q) \in Regions
        /\ at \in [Requests -> Edges] /\ hops \in [Requests -> 0..MaxHops]
        /\ MaxHops \in Nat
    BY <1>3, RoutingAssumption DEF RoutingInv, TypeOK, Located, Remote, Homes
  <2>2. Upstream[at[q]][Located(q)] \in Edges
    BY <1>3, <2>1, RoutingAssumption DEF Reachable
  <2>3. at' \in [Requests -> Edges] /\ hops' \in [Requests -> 0..MaxHops]
    BY <1>3, <2>1, <2>2 DEF Forward
  <2>4. TypeOK'
    BY <1>1, <1>3, <2>3 DEF RoutingInv, TypeOK, Forward
  <2>5. \A p \in Requests : p # q => at'[p] = at[p] /\ hops'[p] = hops[p]
    BY <1>3, <2>1 DEF Forward
  <2>6. Wired /\ calm[q] => hops'[q] = 1 /\ home[slug[q]] = LocalRegion[at'[q]]
    BY <1>3, ForwardStep
  <2> QED
    BY <1>1, <2>4, <2>5, <2>6 DEF RoutingInv, Agreed, Wired
<1> QED
  BY <1>2, <1>3

LEMMA RoutingStep == RoutingInv /\ [Next]_vars => RoutingInv'
<1>1. RoutingInv /\ UNCHANGED vars => RoutingInv'
  BY DEF vars, routing, RoutingInv, TypeOK, Agreed, Wired
<1> QED
  BY <1>1, PlaceStep, SetLocationStep, ArriveStep, RequestStepInv DEF Next

(* RoutingCorrect: RoutingInv holds for any edges and wiring.               *)
THEOREM RoutingCorrect == Spec => []RoutingInv
  BY RoutingInit, RoutingStep, PTL DEF Spec

(* OneHopHolds: a request for a site that stays put is forwarded once at    *)
(* most where every edge is wired.                                          *)
THEOREM OneHopHolds == Spec => []OneHop
<1>1. RoutingInv => OneHop
  <2> SUFFICES ASSUME RoutingInv, Wired, NEW q \in Requests, calm[q] PROVE hops[q] <= 1
    BY DEF OneHop
  <2>1. hops[q] \in Nat
    BY RoutingAssumption DEF RoutingInv, TypeOK
  <2> QED
    BY <2>1 DEF RoutingInv
<1> QED
  BY <1>1, RoutingCorrect, PTL

(* A request is only answered by its own handler, which has found the site   *)
(* where it is if the request is calm.                                       *)
LEMMA AnsweredByItself ==
  ASSUME RoutingInv, Next, NEW q \in Requests, calm[q], Answers(q)
  PROVE  RequestStep(q) /\ Located(q) = home[slug[q]] /\ Located(q) \in Homes
<1>1. pc \in [Requests -> {"idle", "resolve", "dispatch"}]
      /\ at[q] \in Edges /\ slug[q] \in Slugs
  BY DEF RoutingInv, TypeOK
<1>2. RequestStep(q)
  <2>1. CASE \E s \in Slugs, r \in Homes : Place(s, r)
    BY <2>1 DEF Place, Answers
  <2>2. CASE \E e \in Edges, s \in Slugs : SetLocation(e, s)
    BY <2>2 DEF SetLocation, Answers
  <2>3. ASSUME NEW p \in Requests, NEW e \in Edges, NEW s \in Slugs, Arrive(p, e, s)
        PROVE  FALSE
    BY <2>3, <1>1 DEF Arrive, Answers
  <2>4. ASSUME NEW p \in Requests, p # q, RequestStep(p) PROVE FALSE
    BY <2>4, <1>1 DEF RequestStep, Resolve, Dispatch, Answer, Forward, Answers
  <2> QED
    BY <2>1, <2>2, <2>3, <2>4 DEF Next
<1>3. Located(q) = home[slug[q]] /\ Located(q) \in Homes
  BY <1>1 DEF RoutingInv, Agreed, Located, TypeOK
<1> QED
  BY <1>2, <1>3

(* ServedAtHomeHolds: and it is only ever proxied to a backend of the home  *)
(* region (property ServedAtHome).                                          *)
THEOREM ServedAtHomeHolds == Spec => ServedAtHome
<1> DEFINE A == \A q \in Requests : LET h == home[slug[q]] IN
              calm[q] /\ Answers(q) /\ answer'[q] = "served" =>
                h # None /\ (h = NoRegion \/ LocalRegion[at[q]] \in {NoRegion, h})
<1>1. RoutingInv /\ [Next]_vars => [A]_vars
  <2> SUFFICES ASSUME RoutingInv, Next, NEW q \in Requests,
                      calm[q], Answers(q), answer'[q] = "served"
               PROVE  /\ home[slug[q]] # None
                      /\ \/ home[slug[q]] = NoRegion
                         \/ LocalRegion[at[q]] \in {NoRegion, home[slug[q]]}
    OBVIOUS
  <2>1. RequestStep(q) /\ Located(q) = home[slug[q]]
    BY AnsweredByItself
  <2>2. Local(q)
    BY <2>1 DEF RoutingInv, TypeOK, RequestStep, Resolve, Dispatch, Answer, Forward, Answers
  <2> QED
    BY <2>1, <2>2 DEF Local
<1> QED
  BY <1>1, RoutingCorrect, PTL DEF Spec, ServedAtHome

(* CalmIsAvailableHolds: and it only ends in a 503 where the site is down or *)
(* the edge knows no edge of the home region, whatever the edges are wired   *)
(* to (property CalmIsAvailable).                                            *)
THEOREM CalmIsAvailableHolds == Spec => CalmIsAvailable
<1> DEFINE A == \A q \in Requests : LET h == home[slug[q]] IN
              calm[q] /\ Answers(q) /\ answer'[q] = "unavailable" =>
                h = None \/ (h \in Regions /\ Upstream[at[q]][h] = None)
<1>1. RoutingInv /\ [Next]_vars => [A]_vars
  <2> SUFFICES ASSUME RoutingInv, Next, NEW q \in Requests,
                      calm[q], Answers(q), answer'[q] = "unavailable"
               PROVE  \/ home[slug[q]] = None
                      \/ /\ home[slug[q]] \in Regions
                         /\ Upstream[at[q]][home[slug[q]]] = None
    OBVIOUS
  <2>1. RequestStep(q) /\ Located(q) = home[slug[q]] /\ Located(q) \in Homes
    BY AnsweredByItself
  <2>2. Located(q) = None \/ (Remote(q) /\ ~Reachable(q))
    BY <2>1 DEF RoutingInv, TypeOK, RequestStep, Resolve, Dispatch, Answer, Forward, Answers
  <2> QED
    BY <2>1, <2>2 DEF Remote, Reachable, Homes
<1> QED
  BY <1>1, RoutingCorrect, PTL DEF Spec, CalmIsAvailable

=============================================================================
