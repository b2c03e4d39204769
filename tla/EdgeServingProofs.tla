-------------------------- MODULE EdgeServingProofs -------------------------
(***************************************************************************)
(* Theorems about EdgeServing: the edges leave the watchers' guarantees in *)
(* place, and what follows from these for requests, for any number of      *)
(* edges and connections.                                                  *)
(***************************************************************************)
EXTENDS EdgeServing, RouteProofs

-----------------------------------------------------------------------------
(* The edges only read what the watchers keep. *)

LEMMA ServeReads ==
  ASSUME NEW q \in Requests, Serve(q) PROVE UNCHANGED vars
  BY DEF Serve, Connect, Handshake, Issue, Request, Resolve, Dispatch, Dial

LEMMA ServingMaps == [ServingNext]_servingVars => [Next]_vars
<1> SUFFICES ASSUME [ServingNext]_servingVars PROVE [Next]_vars
  OBVIOUS
<1>1. CASE World
  BY <1>1 DEF World, Next
<1>2. ASSUME NEW w \in Watchers, Restart(w) PROVE Next
  BY <1>2 DEF Restart, Next
<1>3. ASSUME NEW q \in Requests, Serve(q) PROVE UNCHANGED vars
  BY <1>3, ServeReads
<1>4. CASE UNCHANGED servingVars
  BY <1>4 DEF servingVars
<1> QED
  BY <1>1, <1>2, <1>3, <1>4 DEF ServingNext

(* ServingImplementsWatcher: a deployment with edges and users is one of     *)
(* Watcher, so every theorem of Watcher's Spec holds in it.                  *)
THEOREM ServingImplementsWatcher == ServingSpec => Spec
<1>1. ServingInit => Init
  BY DEF ServingInit
<1> QED
  BY <1>1, ServingMaps, PTL DEF ServingSpec, Spec

-----------------------------------------------------------------------------
(* Type correctness. *)

LEMMA ServingTypeStep ==
  TypeOK /\ ServingTypeOK /\ [ServingNext]_servingVars => ServingTypeOK'
<1> SUFFICES ASSUME TypeOK, ServingTypeOK, [ServingNext]_servingVars PROVE ServingTypeOK'
  OBVIOUS
<1> USE DEF ServingTypeOK, Stages, Answers, InFlight, Names
<1>1. CASE World
  BY <1>1 DEF World, Age, kept, connection
<1>2. ASSUME NEW w \in Watchers, Restart(w) PROVE ServingTypeOK'
  BY <1>2 DEF Restart, Hangup
<1>3. ASSUME NEW q \in Requests, Serve(q) PROVE ServingTypeOK'
  <2> USE DEF To, Hangup, kept
  <2>1. ASSUME NEW w \in Watchers, NEW n \in Names, Connect(q, w, n) PROVE ServingTypeOK'
    BY <2>1 DEF Connect
  <2>2. CASE Handshake(q)
    BY <2>2 DEF Handshake, HostPolicy
  <2>3. CASE Issue(q)
    <3>1. name[q] \in Sites /\ HostOf[edge[q]] \in Hosts
      BY <2>3, WatcherAssumption DEF Issue
    <3> QED
      BY <2>3, <3>1 DEF Issue
  <2>4. ASSUME NEW n \in Names, Request(q, n) PROVE ServingTypeOK'
    BY <2>4 DEF Request, Fate
  <2>5. CASE Resolve(q)
    BY <2>5 DEF Resolve, Lookup, TypeOK, PublishedTypeOK
  <2>6. CASE Dispatch(q)
    BY <2>6 DEF Dispatch
  <2>7. CASE Dial(q)
    BY <2>7 DEF Dial
  <2> QED
    BY <1>3, <2>1, <2>2, <2>3, <2>4, <2>5, <2>6, <2>7 DEF Serve
<1>4. CASE UNCHANGED servingVars
  BY <1>4 DEF servingVars
<1> QED
  BY <1>1, <1>2, <1>3, <1>4 DEF ServingNext

LEMMA ServingTypeInit == ServingInit => ServingTypeOK
  BY DEF ServingInit, ServingTypeOK, Stages, Names

(* ServingTypeCorrect: every reachable state of the edges has the types of   *)
(* ServingTypeOK.                                                            *)
THEOREM ServingTypeCorrect == ServingSpec => []ServingTypeOK
<1>1. ServingSpec => []TypeOK
  BY ServingImplementsWatcher, TypeCorrect, PTL
<1> QED
  BY <1>1, ServingTypeInit, ServingTypeStep, PTL DEF ServingSpec

-----------------------------------------------------------------------------
(* Requests for Stopped sites. *)

LEMMA RefusedStep ==
  ASSUME IInv, ServingTypeOK, RefusedInv, [ServingNext]_servingVars
  PROVE  RefusedInv'
<1> USE DEF ServingTypeOK, RefusedInv
<1>1. CASE World
  BY <1>1 DEF World, Age, kept, connection, Fate, InFlight
<1>2. ASSUME NEW w \in Watchers, Restart(w) PROVE RefusedInv'
  BY <1>2 DEF Restart, Crash, Hangup
<1>3. ASSUME NEW q \in Requests, Serve(q) PROVE RefusedInv'
  <2> USE DEF To, Hangup, kept
  <2>1. UNCHANGED row
    BY <1>3, ServeReads DEF vars
  <2>2. ASSUME NEW w \in Watchers, NEW n \in Names, Connect(q, w, n) PROVE RefusedInv'
    BY <2>1, <2>2 DEF Connect
  <2>3. CASE Handshake(q) \/ Issue(q)
    BY <2>1, <2>3 DEF Handshake, Issue
  <2>4. ASSUME NEW n \in Names, Request(q, n) PROVE RefusedInv'
    BY <2>1, <2>4 DEF Request, Fate
  <2>5. CASE Resolve(q)
    <3>1. fate[q] = "stopped" => ~Lookup(q)
      BY <2>5 DEF Resolve, Lookup, IInv, RowsGone
    <3> QED
      BY <2>1, <2>5, <3>1 DEF Resolve
  <2>6. CASE Dispatch(q) \/ Dial(q)
    BY <2>1, <2>6 DEF Dispatch, Dial
  <2> QED
    BY <1>3, <2>2, <2>3, <2>4, <2>5, <2>6 DEF Serve
<1>4. CASE UNCHANGED servingVars
  BY <1>4 DEF servingVars, vars
<1> QED
  BY <1>1, <1>2, <1>3, <1>4 DEF ServingNext

(* StoppedRefused: where each Site has one watcher at most, no container is  *)
(* ever reached by a request for a Site that is Stopped from the moment it   *)
(* is asked on, for any edges, connections, failures and restarts.           *)
THEOREM StoppedRefused == ASSUME ExclusiveScopes PROVE ServingSpec => []StoppedIsRefused
<1>1. ServingSpec => []IInv
  BY ServingImplementsWatcher, Invariance, PTL
<1>2. ServingInit => RefusedInv
  BY DEF ServingInit, RefusedInv
<1>3. IInv /\ ServingTypeOK /\ RefusedInv /\ [ServingNext]_servingVars => RefusedInv'
  BY RefusedStep
<1>4. RefusedInv => StoppedIsRefused
  BY DEF RefusedInv, StoppedIsRefused
<1> QED
  BY <1>1, <1>2, <1>3, <1>4, ServingTypeCorrect, PTL DEF ServingSpec

-----------------------------------------------------------------------------
(* Certificates and buckets. *)

(* No step makes a row absent, and only a site with a row is published.      *)
LEMMA RowsStay ==
  ASSUME ExclusiveScopes, IInv, [Next]_vars, NEW s \in Sites, row'[s] = "absent"
  PROVE  /\ row[s] = "absent"
         /\ \A v \in Watchers : s \in port'[v] => s \in port[v]
<1> USE DEF IInv, TypeOK
<1>1. ASSUME NEW w \in Watchers, WatcherStep(w) \/ Crash(w)
      PROVE  row[s] = "absent" /\ \A v \in Watchers : s \in port'[v] => s \in port[v]
  <2>1. Footprint(w)
    BY <1>1, StepFootprint
  <2>2. CASE s # cur[w] \/ HandEmpty(w)
    BY <2>1, <2>2 DEF Footprint, HandEmpty
  <2>3. CASE s = cur[w] /\ ~HandEmpty(w)
    <3>1. row[s] # "absent"
      BY <2>3, Hand DEF Unsettled
    <3>2. pc[w] = "save" /\ copy[w] = "absent"
      BY <1>1, <2>3, <3>1, HandRow
    <3> QED
      BY <3>2 DEF Shape, ShapeOf
  <2> QED
    BY <2>2, <2>3
<1>2. ASSUME NEW t \in Sites, Dashboard(t) PROVE row[s] = "absent" /\ UNCHANGED port
  BY <1>2
  DEF Dashboard, Insert, RequestTeardown, Requeue, Ask, Update, RepoTypeOK
<1> QED
  BY <1>1, <1>2 DEF Next, ContainerDies, vars

LEMMA KeptStep ==
  ASSUME ExclusiveScopes, IInv, ServingTypeOK, KeptInv, [ServingNext]_servingVars
  PROVE  KeptInv'
<1> USE DEF ServingTypeOK
<1> SUFFICES ASSUME NEW s \in Sites, row'[s] = "absent"
             PROVE  /\ \A h \in Hosts : s \notin certs'[h]
                    /\ \A w \in Watchers : s \notin buckets'[w] \cup port'[w]
                    /\ \A q \in Requests : stage'[q] \in {"issue", "dispatch"} => name'[q] # s
  BY DEF KeptInv
<1>1. row[s] = "absent" /\ \A w \in Watchers : s \in port'[w] => s \in port[w]
  BY RowsStay, ServingMaps
<1>2. /\ \A h \in Hosts : s \notin certs[h]
      /\ \A w \in Watchers : s \notin buckets[w] \cup port'[w]
      /\ \A w \in Watchers : s \notin port[w]
      /\ \A q \in Requests : stage[q] \in {"issue", "dispatch"} => name[q] # s
  BY <1>1 DEF KeptInv
<1>3. CASE World
  BY <1>2, <1>3 DEF World, Age, kept, connection
<1>4. ASSUME NEW w \in Watchers, Restart(w)
      PROVE  /\ UNCHANGED certs
             /\ \A v \in Watchers : buckets'[v] \subseteq buckets[v]
             /\ \A q \in Requests : stage'[q] \in {"issue", "dispatch"} =>
                  stage'[q] = stage[q] /\ name'[q] = name[q]
  BY <1>4 DEF Restart, Hangup
<1>5. ASSUME NEW q \in Requests, Serve(q)
      PROVE  /\ \A h \in Hosts : s \notin certs'[h]
             /\ \A w \in Watchers : s \notin buckets'[w]
             /\ \A p \in Requests : stage'[p] \in {"issue", "dispatch"} => name'[p] # s
  <2> USE DEF To, Hangup, kept
  <2>1. CASE \E w \in Watchers, n \in Names : Connect(q, w, n)
    BY <1>2, <2>1 DEF Connect
  <2>2. CASE Handshake(q)
    <3>1. HostPolicy(q) => name[q] # s
      BY <1>2, <2>2 DEF Handshake, HostPolicy, Lookup
    <3> QED
      BY <1>2, <2>2, <3>1 DEF Handshake
  <2>3. CASE Issue(q)
    BY <1>2, <2>3 DEF Issue
  <2>4. CASE \E n \in Names : Request(q, n)
    BY <1>2, <2>4 DEF Request
  <2>5. CASE Resolve(q)
    <3>1. Lookup(q) => name[q] # s
      BY <1>2, <2>5 DEF Resolve, Lookup
    <3> QED
      BY <1>2, <2>5, <3>1 DEF Resolve
  <2>6. CASE Dispatch(q)
    BY <1>2, <2>6 DEF Dispatch
  <2>7. CASE Dial(q)
    BY <1>2, <2>7 DEF Dial
  <2> QED
    BY <1>5, <2>1, <2>2, <2>3, <2>4, <2>5, <2>6, <2>7 DEF Serve
<1>6. CASE UNCHANGED servingVars
  BY <1>2, <1>6 DEF servingVars
<1> QED
  BY <1>2, <1>3, <1>4, <1>5, <1>6 DEF ServingNext

(* TenantsOnly: no slug without a row ever gets a certificate or a bucket,   *)
(* whatever server names and hosts the edges are asked for (property         *)
(* KeptForTenants).                                                          *)
THEOREM TenantsOnly == ASSUME ExclusiveScopes PROVE ServingSpec => []KeptForTenants
<1>1. ServingSpec => []IInv
  BY ServingImplementsWatcher, Invariance, PTL
<1>2. ServingInit => KeptInv
  BY DEF ServingInit, Init, KeptInv
<1>3. IInv /\ ServingTypeOK /\ KeptInv /\ [ServingNext]_servingVars => KeptInv'
  BY KeptStep
<1>4. KeptInv => KeptForTenants
  BY DEF KeptInv, KeptForTenants
<1> QED
  BY <1>1, <1>2, <1>3, <1>4, ServingTypeCorrect, PTL DEF ServingSpec

-----------------------------------------------------------------------------
(* Requests for published sites. *)

LEMMA RoutedStep ==
  ASSUME TypeOK, RouteInv, ServingTypeOK, RoutedInv, [ServingNext]_servingVars
  PROVE  RoutedInv'
<1> USE DEF ServingTypeOK, RoutedInv
<1>1. spent'.deaths = 0 => spent.deaths = 0
  BY SpentGrows, ServingMaps DEF TypeOK, SpentTypeOK
<1>2. CASE World
  BY <1>1, <1>2 DEF World, Age, kept, connection, Fate
<1>3. ASSUME NEW w \in Watchers, Restart(w) PROVE RoutedInv'
  BY <1>1, <1>3
  DEF Restart, Crash, Hangup, InFlight, Answers, TypeOK, PublishedTypeOK
<1>4. ASSUME NEW q \in Requests, Serve(q) PROVE RoutedInv'
  <2> USE DEF To, Hangup, kept
  <2>1. UNCHANGED <<port, spent>>
    BY <1>4, ServeReads DEF vars
  <2>2. CASE (\E w \in Watchers, n \in Names : Connect(q, w, n)) \/ Handshake(q) \/ Issue(q)
    BY <2>1, <2>2 DEF Connect, Handshake, Issue, InFlight, Answers
  <2>3. ASSUME NEW n \in Names, Request(q, n) PROVE RoutedInv'
    BY <2>1, <2>3 DEF Request, Fate, InFlight, Answers
  <2>4. CASE Resolve(q) \/ Dispatch(q)
    BY <2>1, <2>4 DEF Resolve, Dispatch, Lookup, InFlight, Answers
  <2>5. CASE Dial(q)
    <3>1. fate[q] = "routed" /\ spent.deaths = 0 => name[q] \in PortHolders(HostOf[edge[q]])
      BY <2>5
      DEF Dial, InFlight, RouteInv, RoutedRuns, PortHolders, TypeOK, PublishedTypeOK
    <3> QED
      BY <2>1, <2>5, <3>1 DEF Dial, InFlight, Answers
  <2> QED
    BY <1>4, <2>2, <2>3, <2>4, <2>5 DEF Serve
<1>5. CASE UNCHANGED servingVars
  BY <1>5 DEF servingVars, vars
<1> QED
  BY <1>2, <1>3, <1>4, <1>5 DEF ServingNext

(* RoutedServed: a request whose site stays published from the moment it is  *)
(* asked until it is answered reaches the site's own container, for any      *)
(* edges, connections, failed calls, teardowns and restarts, as long as no   *)
(* container exits and no Update is lost (property RoutedIsServed).          *)
THEOREM RoutedServed ==
  ASSUME ExclusiveScopes, UpdatesLand PROVE ServingSpec => []RoutedIsServed
<1>1. ServingSpec => [](TypeOK /\ RouteInv)
  BY ServingImplementsWatcher, TypeCorrect, Routing, PTL
<1>2. ServingInit => RoutedInv
  BY DEF ServingInit, RoutedInv
<1>3. TypeOK /\ RouteInv /\ ServingTypeOK /\ RoutedInv /\ [ServingNext]_servingVars
        => RoutedInv'
  BY RoutedStep
<1>4. RoutedInv => RoutedIsServed
  BY DEF RoutedInv, RoutedIsServed
<1> QED
  BY <1>1, <1>2, <1>3, <1>4, ServingTypeCorrect, PTL DEF ServingSpec

=============================================================================
