---------------------------- MODULE EdgeRouting -----------------------------
(***************************************************************************)
(* Region-aware edge routing: every region's edge resolves the slug of a   *)
(* request against its own SiteLocator and proxies it to the local backend *)
(* or forwards it to the home region's edge, which resolves it again.      *)
(*                                                                         *)
(* The locators are updated one by one while requests are under way, and a *)
(* request reads its edge's locator twice: once for the SubdomainResolver  *)
(* and once to be dispatched.                                              *)
(***************************************************************************)
EXTENDS Naturals

CONSTANTS
  Edges, Slugs, Regions, Requests,
  NoRegion,     \* Region "": an unplaced site; LocalRegion "" at an edge
  LocalRegion,  \* LocalRegion[e]: Router.LocalRegion
  Upstream,     \* Upstream[e][r]: what Router.Regions resolves r to, or None
  Limited,      \* Router.RateLimiter # nil
  MaxMoves,     \* bound on placements, removals included
  MaxHops,      \* bound up to which hops are counted
  None

Homes == Regions \cup {NoRegion, None}

ASSUME RoutingAssumption ==
  /\ LocalRegion \in [Edges -> Regions \cup {NoRegion}]
  /\ Upstream \in [Edges -> [Regions -> Edges \cup {None}]]
  /\ Limited \in BOOLEAN
  /\ MaxMoves \in Nat /\ MaxHops \in Nat \ {0}
  /\ NoRegion \notin Regions /\ None \notin Regions \cup Edges \cup {NoRegion}

VARIABLES
  home,      \* home[s]: where the site is placed, None when it does not run
  moves,
  view,      \* view[e][s]: the Region e's locator has for s, None when it has none
  pc,        \* pc[q]: "resolve" or "dispatch" in the handler chain of at[q]
  at,
  slug,
  hops,      \* hops[q]: times q was forwarded
  answer,    \* answer[q]: the outcome of q's last request
  calm       \* history: the site stayed put, and all locators knew, since q arrived

routing == <<at, slug, hops, answer>>
vars == <<home, moves, view, pc, at, slug, hops, answer, calm>>

(* TypeOK: the type invariant.                                              *)
TypeOK ==
  /\ home \in [Slugs -> Homes] /\ moves \in 0..MaxMoves
  /\ view \in [Edges -> [Slugs -> Homes]]
  /\ pc \in [Requests -> {"idle", "resolve", "dispatch"}]
  /\ at \in [Requests -> Edges] /\ slug \in [Requests -> Slugs]
  /\ hops \in [Requests -> 0..MaxHops]
  /\ answer \in [Requests -> {"none", "served", "unavailable", "limited", "unreachable"}]
  /\ calm \in [Requests -> BOOLEAN]

Init ==
  /\ home = [s \in Slugs |-> None] /\ moves = 0
  /\ view = [e \in Edges |-> [s \in Slugs |-> None]]
  /\ pc = [q \in Requests |-> "idle"]
  /\ at \in [Requests -> Edges] /\ slug \in [Requests -> Slugs]
  /\ hops = [q \in Requests |-> 0]
  /\ answer = [q \in Requests |-> "none"]
  /\ calm = [q \in Requests |-> FALSE]

Agreed(s) == \A e \in Edges : view[e][s] = home[s]

-----------------------------------------------------------------------------
(* The sites and the locators. *)

(* The host places s, moves it or takes it down. *)
Place(s, r) ==
  /\ moves < MaxMoves /\ r # home[s]
  /\ moves' = moves + 1
  /\ home' = [home EXCEPT ![s] = r]
  /\ calm' = [q \in Requests |-> calm[q] /\ slug[q] # s]
  /\ UNCHANGED <<view, pc, routing>>

(* ... and tells e's locator: MemoryLocator.Set, with port 0 for a removal. *)
SetLocation(e, s) ==
  /\ view[e][s] # home[s]
  /\ view' = [view EXCEPT ![e][s] = home[s]]
  /\ UNCHANGED <<home, moves, pc, routing, calm>>

-----------------------------------------------------------------------------
(* A request. *)

(* q arrives at the edge nearest to its user, any edge. *)
Arrive(q, e, s) ==
  /\ pc[q] = "idle"
  /\ pc' = [pc EXCEPT ![q] = "resolve"]
  /\ at' = [at EXCEPT ![q] = e] /\ slug' = [slug EXCEPT ![q] = s]
  /\ hops' = [hops EXCEPT ![q] = 0] /\ answer' = [answer EXCEPT ![q] = "none"]
  /\ calm' = [calm EXCEPT ![q] = Agreed(s)]
  /\ UNCHANGED <<home, moves, view>>

Located(q) == view[at[q]][slug[q]]

Answer(q, a) ==
  /\ pc' = [pc EXCEPT ![q] = "idle"]
  /\ answer' = [answer EXCEPT ![q] = a]
  /\ UNCHANGED <<at, hops>>

(* The SubdomainResolver asks exists. *)
Resolve(q) ==
  /\ pc[q] = "resolve"
  /\ \/ Located(q) = None /\ Answer(q, "unavailable")
     \/ /\ Located(q) # None /\ pc' = [pc EXCEPT ![q] = "dispatch"]
        /\ UNCHANGED <<at, hops, answer>>
  /\ UNCHANGED <<home, moves, view, slug, calm>>

(* Mutants: a site is proxied wherever it is found; it is forwarded         *)
(* wherever it is found; the upstream is the edge itself; the next edge does *)
(* not get the Host.                                                        *)
LocalAnywhere(q) == Located(q) # None
RemoteAnywhere(q) == Located(q) \in Regions
ForwardToSelf(q) ==
  /\ pc' = [pc EXCEPT ![q] = "resolve"]
  /\ hops' = [hops EXCEPT ![q] = IF @ < MaxHops THEN @ + 1 ELSE @]
  /\ UNCHANGED <<at, answer>>
ForwardWithoutHost(q) == Answer(q, "unavailable")

(* Proxied to the local backend: homed here or unplaced, or the edge is in  *)
(* single-region mode.                                                      *)
Local(q) ==
  /\ Located(q) # None
  /\ LocalRegion[at[q]] = NoRegion \/ Located(q) \in {NoRegion, LocalRegion[at[q]]}

Remote(q) ==
  /\ Located(q) # None
  /\ LocalRegion[at[q]] # NoRegion /\ Located(q) \notin {NoRegion, LocalRegion[at[q]]}

Reachable(q) == Upstream[at[q]][Located(q)] # None

(* The reverse proxy keeps the Host header: the next edge starts over.      *)
Forward(q) ==
  /\ pc' = [pc EXCEPT ![q] = "resolve"]
  /\ at' = [at EXCEPT ![q] = Upstream[@][Located(q)]]
  /\ hops' = [hops EXCEPT ![q] = IF @ < MaxHops THEN @ + 1 ELSE @]
  /\ UNCHANGED answer

(* dispatch and dispatchRegionAware: the limit, then the second lookup.  A  *)
(* forward may fail on its way (502).                                       *)
Dispatch(q) ==
  /\ pc[q] = "dispatch"
  /\ \/ Limited /\ Answer(q, "limited")
     \/ Located(q) = None /\ Answer(q, "unavailable")
     \/ Local(q) /\ Answer(q, "served")
     \/ Remote(q) /\ ~Reachable(q) /\ Answer(q, "unavailable")
     \/ Remote(q) /\ Reachable(q) /\ (Forward(q) \/ Answer(q, "unreachable"))
  /\ UNCHANGED <<home, moves, view, slug, calm>>

RequestStep(q) == Resolve(q) \/ Dispatch(q)

Next ==
  \/ \E s \in Slugs, r \in Homes : Place(s, r)
  \/ \E e \in Edges, s \in Slugs : SetLocation(e, s)
  \/ \E q \in Requests, e \in Edges, s \in Slugs : Arrive(q, e, s)
  \/ \E q \in Requests : RequestStep(q)

Spec == Init /\ [][Next]_vars

(* Handlers return and every locator is eventually told.                    *)
FairSpec ==
  /\ Spec
  /\ \A q \in Requests : WF_vars(RequestStep(q))
  /\ \A e \in Edges, s \in Slugs : WF_vars(SetLocation(e, s))

-----------------------------------------------------------------------------
(* Properties. *)

(* Wired: every edge is region-aware, and what it takes for another         *)
(* region's edge, if it knows one, is that.                                 *)
Wired ==
  \A e \in Edges :
    /\ LocalRegion[e] # NoRegion
    /\ \A r \in Regions : Upstream[e][r] # None => LocalRegion[Upstream[e][r]] = r

Answers(q) == pc[q] # "idle" /\ pc'[q] = "idle"

(* ServedAtHome: a calm request is only proxied to a backend in the site's  *)
(* home region, from whichever edge it entered at; one for a site that was  *)
(* taken down everywhere is not.                                            *)
ServedAtHome ==
  [][\A q \in Requests : LET h == home[slug[q]] IN
       calm[q] /\ Answers(q) /\ answer'[q] = "served" =>
         h # None /\ (h = NoRegion \/ LocalRegion[at[q]] \in {NoRegion, h})]_vars

(* CalmIsAvailable: nor does it end in a 503 while the site is placed in a  *)
(* region the edge it is at can reach.                                      *)
CalmIsAvailable ==
  [][\A q \in Requests : LET h == home[slug[q]] IN
       calm[q] /\ Answers(q) /\ answer'[q] = "unavailable" =>
         h = None \/ (h \in Regions /\ Upstream[at[q]][h] = None)]_vars

(* OneHop: where every edge is wired it is not forwarded more than once.    *)
OneHop == Wired => \A q \in Requests : calm[q] => hops[q] <= 1

(* EveryRequestAnswered: edges whose locators disagree about a moving site  *)
(* may forward a request to each other, but not for ever.                   *)
EveryRequestAnswered == \A q \in Requests : pc[q] # "idle" ~> pc[q] = "idle"

-----------------------------------------------------------------------------
(* RoutingInv: the inductive invariant: what a calm request can still meet. *)
RoutingInv ==
  /\ TypeOK
  /\ \A q \in Requests : calm[q] => Agreed(slug[q])
  /\ Wired => \A q \in Requests : calm[q] /\ hops[q] > 0 =>
       hops[q] = 1 /\ home[slug[q]] = LocalRegion[at[q]]

=============================================================================
