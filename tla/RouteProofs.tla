---------------------------- MODULE RouteProofs -----------------------------
(***************************************************************************)
(* Theorems about what Watcher leaves in the port maps and in the zone:    *)
(* routes of Running and of Failed sites, the one host port behind a       *)
(* route, records of Stopped sites; for any sets of sites, hosts and       *)
(* watchers, any scopes, faults and budgets.                               *)
(***************************************************************************)
EXTENDS WatcherProofs, FiniteSetTheorems

-----------------------------------------------------------------------------
(* Which step touches what. *)

LEMMA SpentGrows ==
  ASSUME TypeOK, [Next]_vars
  PROVE  /\ spent'.faults >= spent.faults
         /\ spent'.crashes >= spent.crashes
         /\ spent'.deaths >= spent.deaths
<1> USE DEF TypeOK, SpentTypeOK
<1>1. UNCHANGED spent \/ (\E kind \in Faults : Fault(kind)) =>
        /\ spent'.faults >= spent.faults
        /\ spent'.crashes >= spent.crashes
        /\ spent'.deaths >= spent.deaths
  BY DEF Fault
<1>2. ASSUME NEW w \in Watchers, WatcherStep(w)
      PROVE  UNCHANGED spent \/ \E kind \in Faults : Fault(kind)
  BY <1>2
  DEF WatcherStep, Tick, ListDeprovisioning, List, EndTick, Take, EnsureSlug, Pull,
      RemoveOld, RunContainer, HealthCheck, Publish, Unpublish, RemoveContainer,
      RemoveSlug, Save, NoFault, Fault
<1> QED
  BY <1>1, <1>2 DEF Next, Crash, Dashboard, ContainerDies, vars

(* A container changes at the hand of its watcher, between the health check *)
(* and the calls around it, or exits and is counted.  It starts only where   *)
(* the host port is free.                                                    *)
LEMMA BoxMoves ==
  ASSUME IInv, [Next]_vars, NEW h \in Hosts, NEW s \in Sites, box'[h][s] # box[h][s]
  PROVE  \/ /\ \E w \in Watchers : /\ h = HostOf[w] /\ s = cur[w]
                                   /\ pc[w] \in {"clear", "run", "remove"}
            /\ box'[h][s] \in {"absent", "created", "running"}
            /\ box'[h][s] = "running" =>
                 /\ PortHolders(h) = {}
                 /\ \A t \in Sites \ {s} : box'[h][t] = box[h][t]
         \/ spent'.deaths > 0 /\ box'[h][s] = "exited"
<1> USE DEF IInv, TypeOK, BoxTypeOK, SetBox
<1>1. ASSUME NEW w \in Watchers, RemoveOld(w) \/ RunContainer(w) \/ RemoveContainer(w)
      PROVE  /\ h = HostOf[w] /\ s = cur[w] /\ pc[w] \in {"clear", "run", "remove"}
             /\ box'[h][s] \in {"absent", "created", "running"}
             /\ box'[h][s] = "running" =>
                  /\ PortHolders(h) = {}
                  /\ \A t \in Sites \ {s} : box'[h][t] = box[h][t]
  <2>1. pc[w] \in {"clear", "run", "remove"}
    BY <1>1 DEF RemoveOld, RunContainer, RemoveContainer, Fail, Goto, At
  <2>2. h = HostOf[w] /\ s = cur[w]
    BY <1>1, StepFootprint DEF Footprint, WatcherStep
  <2>3. CASE RemoveOld(w) \/ RemoveContainer(w)
    BY <2>1, <2>2, <2>3 DEF RemoveOld, RemoveContainer, Rm
  <2>4. CASE RunContainer(w)
    BY <2>1, <2>2, <2>4 DEF RunContainer, RunStarts, RunRefused, RunInterrupted, CanRun
  <2> QED
    BY <1>1, <2>3, <2>4
<1>2. ASSUME NEW g \in Hosts, NEW t \in Sites, ContainerDies(g, t)
      PROVE  spent'.deaths > 0 /\ box'[h][s] = "exited"
  BY <1>2 DEF ContainerDies, Exits, SpentTypeOK
<1>3. ASSUME NEW w \in Watchers, WatcherStep(w) \/ Crash(w), ~RemoveOld(w), ~RunContainer(w),
             ~RemoveContainer(w)
      PROVE  UNCHANGED box
  BY <1>3
  DEF WatcherStep, Crash, Tick, ListDeprovisioning, List, EndTick, Take, EnsureSlug, Pull,
      HealthCheck, Publish, Unpublish, RemoveSlug, Save
<1> QED
  BY <1>1, <1>2, <1>3 DEF Next, Dashboard, vars

-----------------------------------------------------------------------------
(* Running sites are published. *)

LEMMA PublishStep ==
  ASSUME ExclusiveScopes, IInv, PublishInv, [Next]_vars PROVE PublishInv'
<1> USE DEF IInv, TypeOK
<1>1. ASSUME NEW w \in Watchers, WatcherStep(w) \/ Crash(w),
             pc'[w] = "save", copy'[w] = "running"
      PROVE  cur'[w] \in port'[w]
  <2> USE DEF Goto, At, ControlTypeOK
  <2>1. CASE Publish(w)
    BY <1>1, <2>1 DEF Publish, PublishedTypeOK
  <2>2. CASE EnsureSlug(w) \/ Pull(w) \/ RemoveOld(w) \/ RunContainer(w) \/ HealthCheck(w)
    BY <1>1, <2>2 DEF EnsureSlug, Pull, RemoveOld, RunContainer, HealthCheck, Fail, SetCopy
  <2>3. CASE Unpublish(w) \/ RemoveContainer(w)
    BY <1>1, <2>3 DEF Unpublish, RemoveContainer, Fail, SetCopy
  <2>4. CASE RemoveSlug(w)
    BY <1>1, <2>4 DEF RemoveSlug, Shape, ShapeOf
  <2>5. CASE Tick(w) \/ ListDeprovisioning(w) \/ EndTick(w) \/ Save(w) \/ Crash(w)
    BY <1>1, <2>5 DEF Tick, ListDeprovisioning, List, EndTick, Save, Crash
  <2>6. CASE \E s \in Sites : Take(w, s)
    BY <1>1, <2>6 DEF Take, FirstCall
  <2> QED
    BY <1>1, <2>1, <2>2, <2>3, <2>4, <2>5, <2>6 DEF WatcherStep
<1>2. ASSUME NEW v \in Watchers, pc'[v] = "save", copy'[v] = "running"
      PROVE  cur'[v] \in port'[v]
  <2>1. ASSUME NEW w \in Watchers, WatcherStep(w) \/ Crash(w), w # v
        PROVE  cur'[v] \in port'[v]
    BY <1>2, <2>1, StepFootprint, StepMoves DEF Footprint, OnlyMoves, Idles, PublishInv
  <2>2. CASE UNCHANGED <<pc, copy, cur, port>>
    BY <1>2, <2>2 DEF PublishInv
  <2> QED
    BY <1>1, <1>2, <2>1, <2>2 DEF Next, Dashboard, ContainerDies, vars
<1>3. ASSUME NEW v \in Watchers, NEW s \in Sites, Owns(v, s), row'[s] = "running",
             spent'.crashes = 0
      PROVE  s \in port'[v]
  <2>1. spent.crashes = 0
    BY <1>3, SpentGrows DEF SpentTypeOK
  <2>2. CASE row[s] = "running"
    BY <1>3, <2>1, <2>2, UnpublishStep DEF PublishInv, RunningIsPublished
  <2>3. ASSUME NEW w \in Watchers, WatcherStep(w) \/ Crash(w), row[s] # "running"
        PROVE  s \in port'[v]
    <3>1. s = cur[w] /\ pc[w] = "save"
      BY <1>3, <2>3, StepFootprint DEF Footprint
    <3>2. copy[w] = "running" /\ UNCHANGED port
      BY <1>3, <2>3, <3>1, HandRow DEF HandEmpty
    <3>3. v = w
      BY <1>3, <3>1, Hand DEF ExclusiveScopes, HandEmpty
    <3> QED
      BY <3>1, <3>2, <3>3 DEF PublishInv
  <2>4. ASSUME NEW t \in Sites, Dashboard(t) PROVE row[s] = "running"
    BY <1>3, <2>4
    DEF Dashboard, Insert, RequestTeardown, Requeue, Ask, Update, RepoTypeOK
  <2> QED
    BY <1>3, <2>2, <2>3, <2>4 DEF Next, ContainerDies, vars
<1> QED
  BY <1>2, <1>3 DEF PublishInv, RunningIsPublished

(* RunningPublished: as long as no watcher's process was restarted, the edge *)
(* next to its watcher routes every Running Site, whatever calls failed and  *)
(* whichever Updates were lost (property RunningIsPublished).                *)
THEOREM RunningPublished == ASSUME ExclusiveScopes PROVE Spec => []RunningIsPublished
<1>1. Init => PublishInv
  BY DEF Init, RepoInit, PublishInv, RunningIsPublished
<1>2. IInv /\ PublishInv /\ [Next]_vars => PublishInv'
  BY PublishStep
<1>3. PublishInv => RunningIsPublished
  BY DEF PublishInv
<1> QED
  BY Invariance, <1>1, <1>2, <1>3, PTL DEF Spec

-----------------------------------------------------------------------------
(* Failed sites are not published, and the host port behind a route is the  *)
(* route's own.                                                             *)

(* One container of a host runs at most, and no exit goes uncounted.         *)
LEMMA PortStep ==
  ASSUME IInv, OnePort, ExitsCounted, [Next]_vars PROVE (OnePort /\ ExitsCounted)'
<1>1. ASSUME NEW h \in Hosts, NEW s \in Sites, NEW t \in Sites,
             box'[h][s] = "running", box'[h][t] = "running", box[h][s] # "running", s # t
      PROVE  FALSE
  <2>1. PortHolders(h) = {} /\ box'[h][t] = box[h][t]
    BY <1>1, BoxMoves
  <2> QED
    BY <1>1, <2>1 DEF PortHolders
<1>2. OnePort'
  BY <1>1 DEF OnePort
<1>3. ExitsCounted'
  <2> SUFFICES ASSUME spent'.deaths = 0, NEW h \in Hosts, NEW s \in Sites,
                      box'[h][s] = "exited"
               PROVE  FALSE
    BY DEF ExitsCounted
  <2>1. box'[h][s] = box[h][s]
    BY BoxMoves
  <2>2. spent.deaths = 0
    BY SpentGrows DEF IInv, TypeOK, SpentTypeOK
  <2> QED
    BY <2>1, <2>2 DEF ExitsCounted
<1> QED
  BY <1>2, <1>3

(* A route is set while its container runs, and the container of a route    *)
(* is in no watcher's hands but for its health check and its teardown.       *)
LEMMA RunsStep ==
  ASSUME ExclusiveScopes, IInv, RouteInv, [Next]_vars PROVE RoutedRuns'
<1> SUFFICES ASSUME spent'.deaths = 0, NEW w \in Watchers, NEW s \in port'[w]
             PROVE  box'[HostOf[w]][s] = "running"
  BY DEF RoutedRuns
<1> USE DEF IInv, TypeOK
<1>1. spent.deaths = 0 /\ s \in Sites /\ HostOf[w] \in Hosts
  BY SpentGrows, TypeStep, WatcherAssumption DEF SpentTypeOK, PublishedTypeOK
<1>2. CASE s \in port[w]
  <2>1. box[HostOf[w]][s] = "running"
    BY <1>1, <1>2 DEF RouteInv, RoutedRuns
  <2>2. ASSUME NEW v \in Watchers, s = cur[v], pc[v] \in {"clear", "run", "remove"}
        PROVE  FALSE
    <3>1. v = w
      BY <1>2, <2>2, Apart DEF HandEmpty
    <3> QED
      BY <1>2, <2>2, <3>1 DEF RouteInv, Unrouted, ProvisionPC, AllProgress, Progress
  <2> QED
    BY <1>1, <2>1, <2>2, BoxMoves
<1>3. CASE s \notin port[w]
  <2>1. s = cur[w] /\ pc[w] = "publish" /\ UNCHANGED box
    <3>1. PICK v \in Watchers : WatcherStep(v) \/ Crash(v)
      BY <1>3 DEF Next, Dashboard, ContainerDies, vars
    <3>2. v = w /\ s = cur[w] /\ pc[w] = "publish"
      BY <1>3, <3>1, StepFootprint, StepPort DEF Footprint
    <3>3. ~RemoveOld(w) /\ ~RunContainer(w) /\ ~RemoveContainer(w)
      BY <3>2 DEF RemoveOld, RunContainer, RemoveContainer, Fail, Goto, At
    <3> QED
      BY <3>1, <3>2, <3>3
      DEF WatcherStep, Crash, Tick, ListDeprovisioning, List, EndTick, Take, EnsureSlug,
          Pull, HealthCheck, Publish, Unpublish, RemoveSlug, Save
  <2>2. box[HostOf[w]][s] \in {"running", "exited"}
    BY <2>1 DEF AllProgress, Progress, Backed
  <2> QED
    BY <1>1, <2>1, <2>2 DEF RouteInv, ExitsCounted
<1> QED
  BY <1>2, <1>3

LEMMA UnroutedStep ==
  ASSUME ExclusiveScopes, IInv, RouteInv, NEW w \in Watchers, WatcherStep(w) \/ Crash(w)
  PROVE  Unrouted(w)'
<1> USE DEF IInv, TypeOK
<1>1. Footprint(w)
  BY StepFootprint
<1>2. phase'[w] = "provision" => todo'[w] \cap port'[w] = {}
  <2> SUFFICES ASSUME phase'[w] = "provision", NEW s \in todo'[w], s \in port'[w]
               PROVE  FALSE
    OBVIOUS
  <2>1. s \in todo[w] => s # cur[w]
    BY DEF Shape, ShapeOf
  <2>2. CASE s \in todo[w]
    <3>1. phase[w] # "provision"
      BY <1>1, <2>1, <2>2 DEF Footprint, RouteInv, Unrouted
    <3> QED
      BY <2>2, <3>1, StepHand DEF Listed, ByStatus, WorkUnsettled, Unsettled
  <2>3. CASE s \notin todo[w]
    <3>1. HandEmpty(w) /\ row[s] = "pending" /\ s \in Sites
      BY <2>3, StepHand DEF Listed, ByStatus
    <3>2. s \in port[w] /\ s # cur[w]
      BY <1>1, <3>1, WatcherAssumption DEF Footprint, Shape, ShapeOf
    <3> QED
      BY <3>1, <3>2 DEF RouteInv, RowsRouted
  <2> QED
    BY <2>2, <2>3
<1>3. ASSUME pc'[w] \in ProvisionPC \/ (pc'[w] = "save" /\ copy'[w] # "running")
      PROVE  cur'[w] \notin port'[w]
  <2> USE DEF Goto, At, ControlTypeOK, ProvisionPC, RouteInv, Unrouted
  <2>1. CASE \E s \in Sites : Take(w, s)
    BY <1>3, <2>1 DEF Take, FirstCall, Phase
  <2>2. CASE EnsureSlug(w) \/ Pull(w) \/ RemoveOld(w) \/ RunContainer(w) \/ HealthCheck(w)
    BY <1>3, <2>2 DEF EnsureSlug, Pull, RemoveOld, RunContainer, HealthCheck, Fail
  <2>3. CASE Publish(w) \/ Unpublish(w)
    BY <1>3, <2>3 DEF Publish, Unpublish, Shape, ShapeOf
  <2>4. CASE RemoveContainer(w) \/ RemoveSlug(w)
    BY <1>3, <2>4 DEF RemoveContainer, RemoveSlug, Fail, AllProgress, Progress
  <2>5. CASE Tick(w) \/ ListDeprovisioning(w) \/ EndTick(w) \/ Save(w) \/ Crash(w)
    BY <1>3, <2>5 DEF Tick, ListDeprovisioning, List, EndTick, Save, Crash
  <2> QED
    BY <2>1, <2>2, <2>3, <2>4, <2>5 DEF WatcherStep
<1> QED
  BY <1>2, <1>3 DEF Unrouted

(* The Update that ends a pass is the one that decides what a route says.    *)
LEMMA RowsRoutedStep ==
  ASSUME ExclusiveScopes, UpdatesLand, IInv, RouteInv,
         NEW w \in Watchers, WatcherStep(w) \/ Crash(w)
  PROVE  RowsRouted'
<1> SUFFICES ASSUME NEW v \in Watchers, NEW s \in port'[v]
             PROVE  row'[s] \in {"running", "deprovisioning"} \/ cur'[v] = s
  BY DEF RowsRouted
<1> USE DEF IInv, TypeOK
<1>1. Footprint(w) /\ OnlyMoves(w) /\ s \in Sites
  BY StepFootprint, StepMoves, TypeStep DEF PublishedTypeOK, Next
<1>2. CASE v # w
  <2>1. s \in port[v] /\ cur'[v] = cur[v]
    BY <1>1, <1>2 DEF Footprint, OnlyMoves, Idles
  <2>2. row'[s] = row[s]
    BY <1>1, <1>2, <2>1, Apart DEF Footprint, HandEmpty
  <2> QED
    BY <2>1, <2>2 DEF RouteInv, RowsRouted
<1>3. CASE v = w /\ s # cur[w]
  BY <1>1, <1>3 DEF Footprint, RouteInv, RowsRouted
<1>4. CASE v = w /\ s = cur[w]
  <2>1. ~HandEmpty(w)
    BY <1>1, <1>4, WatcherAssumption DEF Shape, ShapeOf
  <2>2. CASE Save(w)
    <3>1. row'[s] = copy[w] /\ s \in port[w] /\ pc[w] = "save"
      BY <1>1, <1>4, <2>2 DEF Save, At, Fault, UpdatesLand, Update, RepoTypeOK
    <3>2. copy[w] = "running"
      BY <1>4, <3>1 DEF RouteInv, Unrouted
    <3> QED
      BY <3>1, <3>2
  <2>3. CASE Crash(w)
    BY <1>4, <2>3 DEF Crash, PublishedTypeOK
  <2>4. CASE ~Save(w) /\ ~Crash(w)
    <3>1. UNCHANGED cur
      BY <2>1, <2>4
      DEF WatcherStep, Tick, ListDeprovisioning, EndTick, Take, EnsureSlug, Pull,
          RemoveOld, RunContainer, HealthCheck, Publish, Unpublish, RemoveContainer,
          RemoveSlug, Fail, Goto, At, HandEmpty
    <3> QED
      BY <1>4, <3>1
  <2> QED
    BY <2>2, <2>3, <2>4
<1> QED
  BY <1>2, <1>3, <1>4

LEMMA RouteStep ==
  ASSUME ExclusiveScopes, UpdatesLand, IInv, RouteInv, [Next]_vars PROVE RouteInv'
<1> USE DEF IInv, TypeOK
<1>1. (OnePort /\ ExitsCounted /\ RoutedRuns)'
  BY PortStep, RunsStep DEF RouteInv
<1>2. ASSUME NEW w \in Watchers, WatcherStep(w) \/ Crash(w)
      PROVE  (\A v \in Watchers : Unrouted(v))' /\ RowsRouted'
  <2>1. ASSUME NEW v \in Watchers, v # w PROVE Unrouted(v)'
    BY <1>2, <2>1, StepFootprint, StepMoves
    DEF Footprint, OnlyMoves, Idles, RouteInv, Unrouted
  <2> QED
    BY <1>2, <2>1, UnroutedStep, RowsRoutedStep
<1>3. ASSUME UNCHANGED <<port, pc, phase, todo, cur, copy>>
      PROVE  (\A v \in Watchers : Unrouted(v))'
  BY <1>3 DEF RouteInv, Unrouted
<1>4. ASSUME NEW s \in Sites, Dashboard(s)
      PROVE  (\A v \in Watchers : Unrouted(v))' /\ RowsRouted'
  <2>1. \A t \in Sites : t # s => row'[t] = row[t]
    BY <1>4
    DEF Dashboard, Insert, RequestTeardown, Requeue, Ask, Update, RepoTypeOK
  <2>2. row[s] \notin {"running", "deprovisioning"} \/ row'[s] = "deprovisioning"
    BY <1>4, RepoAssumption
    DEF Dashboard, Insert, RequestTeardown, Requeue, Ask, Update, RepoTypeOK, UpdatesLand,
        Settled
  <2> QED
    BY <1>3, <1>4, <2>1, <2>2
    DEF Dashboard, RouteInv, RowsRouted, PublishedTypeOK
<1>5. CASE UNCHANGED <<row, port, pc, phase, todo, cur, copy>>
  BY <1>1, <1>3, <1>5 DEF RouteInv, RowsRouted
<1> QED
  BY <1>1, <1>2, <1>4, <1>5 DEF Next, ContainerDies, vars, RouteInv

LEMMA RouteInit == Init => RouteInv
  BY WatcherAssumption
  DEF Init, BoxInit, RouteInv, Unrouted, RowsRouted, OnePort, ExitsCounted, RoutedRuns,
      ProvisionPC

(* Routing: where no Update is lost and no Running Site is sent back to      *)
(* pending, a route belongs to a site that is up, on its way down or in its  *)
(* watcher's hand, and its container runs until one exits.                   *)
THEOREM Routing == ASSUME ExclusiveScopes, UpdatesLand PROVE Spec => []RouteInv
<1>1. IInv /\ RouteInv /\ [Next]_vars => RouteInv'
  BY RouteStep
<1> QED
  BY Invariance, RouteInit, <1>1, PTL DEF Spec

(* FailedUnpublished: no slug of a Failed Site is in a port map, though its  *)
(* container may have been started and its health check passed late          *)
(* (property FailedNotPublished).                                            *)
THEOREM FailedUnpublished ==
  ASSUME ExclusiveScopes, UpdatesLand PROVE Spec => []FailedNotPublished
<1>1. IInv /\ RouteInv => FailedNotPublished
  BY DEF IInv, RouteInv, RowsRouted, WorkUnsettled, Unsettled, FailedNotPublished
<1> QED
  BY Invariance, Routing, <1>1, PTL

(* RoutedToOwn: until a container exits, whatever container holds the host   *)
(* port that every published slug is proxied to is the slug's own (property  *)
(* RoutedHome).                                                              *)
THEOREM RoutedToOwn == ASSUME ExclusiveScopes, UpdatesLand PROVE Spec => []RoutedHome
<1>1. IInv /\ RouteInv => RoutedHome
  BY WatcherAssumption
  DEF IInv, TypeOK, PublishedTypeOK, RouteInv, OnePort, RoutedRuns, RoutedHome, PortHolders
<1> QED
  BY Invariance, Routing, <1>1, PTL

-----------------------------------------------------------------------------
(* Records of Stopped sites. *)

(* A ghost that was none before the step is the record of the site in hand,  *)
(* and the call to remove it has just failed.                                *)
LEMMA NewGhost ==
  ASSUME ExclusiveScopes, IInv, GhostInv, NEW w \in Watchers, WatcherStep(w) \/ Crash(w),
         NEW x \in Ghosts', x \notin Ghosts
  PROVE  x = cur[w] /\ spent'.faults = spent.faults + 1
<1> USE DEF IInv, TypeOK
<1>1. Footprint(w) /\ OnlyMoves(w)
  BY StepFootprint, StepMoves
<1>2. x \in Sites /\ x \in zone' /\ (row'[x] = "stopped" \/ \E v \in Watchers : Leaving(v, x)')
  BY TypeStep DEF Ghosts, PublishedTypeOK, Next
<1>3. \A v \in Watchers \ {w} : Leaving(v, x)' <=> Leaving(v, x)
  BY <1>1 DEF OnlyMoves, Idles, Leaving
<1>4. CASE x # cur[w] \/ HandEmpty(w)
  <2>1. x \in zone /\ row'[x] = row[x]
    BY <1>1, <1>2, <1>4 DEF Footprint, HandEmpty
  <2>2. ~Leaving(w, x)'
    <3>1. CASE \E s \in Sites : Take(w, s)
      BY <3>1 DEF Take, FirstCall, Leaving, ControlTypeOK
    <3>2. CASE ~\E s \in Sites : Take(w, s)
      <4>1. HandEmpty(w) => HandEmpty(w)'
        BY <3>2
        DEF WatcherStep, Tick, ListDeprovisioning, List, EndTick, EnsureSlug, Pull,
            RemoveOld, RunContainer, HealthCheck, Publish, Unpublish, RemoveContainer,
            RemoveSlug, Save, Crash, Fail, Goto, At, HandEmpty, ControlTypeOK
      <4> QED
        BY <1>2, <1>4, <4>1, StepHand, WatcherAssumption DEF Leaving, HandEmpty
    <3> QED
      BY <3>1, <3>2
  <2> QED
    BY <1>2, <1>3, <2>1, <2>2 DEF Ghosts
<1>5. CASE x = cur[w] /\ ~HandEmpty(w)
  <2>1. row'[x] # "stopped"
    BY <1>2, <1>5, Hand, HandRow DEF Ghosts, Leaving, Unsettled
  <2>2. \A v \in Watchers \ {w} : ~Leaving(v, x)
    BY <1>5, Apart DEF Leaving
  <2>3. pc'[w] = "save" /\ copy'[w] = "stopped"
    BY <1>2, <1>3, <2>1, <2>2 DEF Leaving
  <2>4. CASE RemoveContainer(w)
    BY <1>2, <2>3, <2>4
    DEF RemoveContainer, AfterRemove, Fail, Goto, SetCopy, ControlTypeOK, GhostInv
  <2>5. CASE RemoveSlug(w)
    BY <1>2, <1>5, <2>5 DEF RemoveSlug, Fault, SpentTypeOK
  <2>6. CASE Tick(w) \/ ListDeprovisioning(w) \/ EndTick(w) \/ Save(w) \/ Crash(w)
    BY <2>3, <2>6 DEF Tick, ListDeprovisioning, List, EndTick, Save, Crash, ControlTypeOK
  <2>7. CASE EnsureSlug(w) \/ Pull(w) \/ RemoveOld(w) \/ RunContainer(w) \/ HealthCheck(w)
    BY <2>3, <2>7
    DEF EnsureSlug, Pull, RemoveOld, RunContainer, HealthCheck, Fail, Goto, At, SetCopy,
        ControlTypeOK
  <2>8. CASE Publish(w) \/ Unpublish(w) \/ \E s \in Sites : Take(w, s)
    BY <2>3, <2>8
    DEF Publish, Unpublish, Take, FirstCall, Goto, At, ControlTypeOK, Shape, ShapeOf
  <2> QED
    BY <2>4, <2>5, <2>6, <2>7, <2>8 DEF WatcherStep
<1> QED
  BY <1>4, <1>5

(* With DNS off there is no record, and nobody asks for one. *)
LEMMA DNSOffStep ==
  ASSUME IInv, GhostInv, [Next]_vars, ~DNSOn
  PROVE  zone' = {} /\ \A w \in Watchers : pc'[w] \notin {"dns", "undns"}
<1> USE DEF GhostInv, IInv, TypeOK, ControlTypeOK
<1>1. ASSUME NEW w \in Watchers, WatcherStep(w) \/ Crash(w)
      PROVE  zone' = {} /\ pc'[w] \notin {"dns", "undns"}
  <2>1. CASE \E s \in Sites : Take(w, s)
    BY <2>1 DEF Take, FirstCall
  <2>2. CASE Pull(w) \/ RemoveOld(w) \/ RunContainer(w) \/ HealthCheck(w)
    BY <2>2 DEF Pull, RemoveOld, RunContainer, HealthCheck, Fail, Goto, At
  <2>3. CASE Publish(w) \/ Unpublish(w) \/ RemoveContainer(w)
    BY <2>3 DEF Publish, Unpublish, RemoveContainer, AfterRemove, Fail, Goto, At
  <2>4. CASE Tick(w) \/ ListDeprovisioning(w) \/ EndTick(w) \/ Save(w) \/ Crash(w)
    BY <2>4 DEF Tick, ListDeprovisioning, List, EndTick, Save, Crash
  <2>5. ~EnsureSlug(w) /\ ~RemoveSlug(w)
    BY DEF EnsureSlug, RemoveSlug, Fail, Goto, At
  <2> QED
    BY <1>1, <2>1, <2>2, <2>3, <2>4, <2>5 DEF WatcherStep
<1>2. ASSUME NEW w \in Watchers, WatcherStep(w) \/ Crash(w), NEW v \in Watchers, v # w
      PROVE  pc'[v] = pc[v]
  BY <1>2, StepMoves DEF OnlyMoves, Idles
<1> QED
  BY <1>1, <1>2 DEF Next, Dashboard, ContainerDies, vars

LEMMA GhostStep ==
  ASSUME ExclusiveScopes, IInv, GhostInv, [Next]_vars PROVE GhostInv'
<1>1. IsFiniteSet(Ghosts)
  BY FS_Subset DEF Ghosts, GhostInv
<1>2. spent'.faults \in Nat /\ spent'.faults >= spent.faults /\ spent.faults \in Nat
  BY SpentGrows, TypeStep, WatcherAssumption DEF IInv, TypeOK, SpentTypeOK
<1>3. CASE Ghosts' \subseteq Ghosts /\ zone' = zone
  <2>1. Cardinality(Ghosts') <= Cardinality(Ghosts)
    BY <1>1, <1>3, FS_Subset
  <2>2. Cardinality(Ghosts) \in Nat /\ Cardinality(Ghosts') \in Nat
    BY <1>1, <1>3, FS_Subset, FS_CardinalityType
  <2>3. Cardinality(Ghosts') <= spent'.faults
    BY <1>2, <2>1, <2>2 DEF GhostInv
  <2> QED
    BY <1>3, <2>3, DNSOffStep DEF GhostInv
<1>4. ASSUME NEW w \in Watchers, WatcherStep(w) \/ Crash(w) PROVE GhostInv'
  <2>1. zone' \subseteq zone \cup {cur[w]}
    BY <1>4, StepFootprint, TypeStep
    DEF Footprint, IInv, TypeOK, PublishedTypeOK, Next
  <2>2. IsFiniteSet(zone \cup {cur[w]}) /\ IsFiniteSet(Ghosts \cup {cur[w]})
    BY <1>1, FS_AddElement DEF GhostInv
  <2>3. IsFiniteSet(zone')
    BY <2>1, <2>2, FS_Subset
  <2>4. IsFiniteSet(Ghosts')
    BY <2>3, FS_Subset DEF Ghosts
  <2>5. /\ Cardinality(Ghosts) \in Nat /\ Cardinality(Ghosts') \in Nat
        /\ Cardinality(Ghosts \cup {cur[w]}) \in Nat
        /\ Cardinality(Ghosts \cup {cur[w]}) <= Cardinality(Ghosts) + 1
    <3>1. /\ Cardinality(Ghosts) \in Nat /\ Cardinality(Ghosts') \in Nat
          /\ Cardinality(Ghosts \cup {cur[w]}) \in Nat
      BY <1>1, <2>2, <2>4, FS_CardinalityType
    <3>2. Cardinality(Ghosts \cup {cur[w]}) =
            IF cur[w] \in Ghosts THEN Cardinality(Ghosts) ELSE Cardinality(Ghosts) + 1
      BY <1>1, FS_AddElement
    <3> QED
      BY <3>1, <3>2
  <2>6. Cardinality(Ghosts') <= spent'.faults
    <3>1. CASE Ghosts' \subseteq Ghosts
      <4>1. Cardinality(Ghosts') <= Cardinality(Ghosts)
        BY <1>1, <3>1, FS_Subset
      <4> QED
        BY <1>2, <2>5, <4>1 DEF GhostInv
    <3>2. CASE ~(Ghosts' \subseteq Ghosts)
      <4>1. Ghosts' \subseteq Ghosts \cup {cur[w]} /\ spent'.faults = spent.faults + 1
        BY <1>4, <3>2, NewGhost
      <4>2. Cardinality(Ghosts') <= Cardinality(Ghosts \cup {cur[w]})
        BY <2>2, <4>1, FS_Subset
      <4> QED
        BY <1>2, <2>5, <4>1, <4>2 DEF GhostInv
    <3> QED
      BY <3>1, <3>2
  <2> QED
    BY <2>3, <2>6, DNSOffStep DEF GhostInv
<1>5. ASSUME NEW s \in Sites, Dashboard(s) PROVE GhostInv'
  <2>1. \A t \in Sites : row'[t] = "stopped" => row[t] = "stopped"
    BY <1>5
    DEF Dashboard, Insert, RequestTeardown, Requeue, Ask, Update, IInv, TypeOK, RepoTypeOK
  <2> QED
    BY <1>3, <1>5, <2>1
    DEF Dashboard, Ghosts, Leaving, IInv, TypeOK, PublishedTypeOK
<1>6. CASE UNCHANGED <<row, zone, pc, cur, copy>>
  BY <1>3, <1>6 DEF Ghosts, Leaving
<1> QED
  BY <1>4, <1>5, <1>6 DEF Next, ContainerDies, vars

(* GhostsCounted: the records of Stopped Sites are never more than the calls *)
(* that failed, through any restarts, requeues and teardowns begun twice     *)
(* (property GhostsAreFaults).                                               *)
THEOREM GhostsCounted == ASSUME ExclusiveScopes PROVE Spec => []GhostsAreFaults
<1>1. Init => GhostInv
  <2> SUFFICES ASSUME Init PROVE GhostInv
    OBVIOUS
  <2>1. Ghosts = {} /\ zone = {} /\ spent.faults = 0
    BY DEF Init, Ghosts
  <2> QED
    BY <2>1, FS_EmptySet DEF Init, GhostInv
<1>2. IInv /\ GhostInv /\ [Next]_vars => GhostInv'
  BY GhostStep
<1>3. IInv /\ GhostInv => GhostsAreFaults
  <2> SUFFICES ASSUME IInv, GhostInv PROVE GhostsAreFaults
    OBVIOUS
  <2> DEFINE Left == {s \in zone : row[s] = "stopped"}
  <2>1. IsFiniteSet(Ghosts) /\ Left \subseteq Ghosts
    BY FS_Subset DEF Ghosts, GhostInv
  <2>2. /\ Cardinality(Left) <= Cardinality(Ghosts)
        /\ Cardinality(Left) \in Nat /\ Cardinality(Ghosts) \in Nat
    BY <2>1, FS_Subset, FS_CardinalityType
  <2>3. Cardinality(Left) <= spent.faults
    BY <2>2, WatcherAssumption DEF GhostInv, IInv, TypeOK, SpentTypeOK
  <2> QED
    BY <2>3 DEF GhostsAreFaults
<1> QED
  BY Invariance, <1>1, <1>2, <1>3, PTL DEF Spec

=============================================================================
