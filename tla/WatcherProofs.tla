--------------------------- MODULE WatcherProofs ----------------------------
(***************************************************************************)
(* Theorems about Watcher, for any sets of sites, hosts and watchers, any  *)
(* scopes, any faults and any budgets.                                     *)
(***************************************************************************)
EXTENDS WatcherInv, TLAPS

-----------------------------------------------------------------------------
(* Type correctness: what the shared parts of the actions preserve, then    *)
(* one step per action.                                                     *)

LEMMA TypeInit == Init => TypeOK
<1> SUFFICES ASSUME Init PROVE TypeOK
  OBVIOUS
<1> USE RepoAssumption, WatcherAssumption DEF Init
<1>1. RepoTypeOK
  BY DEF RepoInit, RepoTypeOK
<1>2. BoxTypeOK
  BY DEF BoxInit, BoxTypeOK, BoxState
<1>3. PublishedTypeOK
  BY DEF PublishedTypeOK
<1>4. ControlTypeOK
  BY DEF ControlTypeOK, PC, Phase
<1>5. SpentTypeOK
  BY DEF SpentTypeOK
<1> QED
  BY <1>1, <1>2, <1>3, <1>4, <1>5 DEF TypeOK

LEMMA SpentTyped ==
  ASSUME SpentTypeOK, NoFault \/ \E kind \in Faults : Fault(kind)
  PROVE  SpentTypeOK'
  BY WatcherAssumption DEF SpentTypeOK, NoFault, Fault

LEMMA BoxTyped ==
  ASSUME BoxTypeOK, NEW h \in Hosts, NEW s \in Sites, NEW b \in BoxState, SetBox(h, s, b)
  PROVE  BoxTypeOK'
  BY DEF BoxTypeOK, SetBox

LEMMA GotoTyped ==
  ASSUME ControlTypeOK, NEW w \in Watchers, NEW l \in PC, NEW m \in PC, Goto(w, l, m),
         UNCHANGED copy \/ \E st \in SiteStatus : SetCopy(w, st)
  PROVE  ControlTypeOK'
  BY DEF ControlTypeOK, Goto, SetCopy

LEMMA HandTyped ==
  ASSUME ControlTypeOK, NEW w \in Watchers, ~HandEmpty(w), ShapeOf(w)
  PROVE  cur[w] \in Sites
  BY DEF ControlTypeOK, ShapeOf

LEMMA TypeStep == TypeOK /\ Shape /\ [Next]_vars => TypeOK'
<1> SUFFICES ASSUME TypeOK, Shape, [Next]_vars PROVE TypeOK'
  OBVIOUS
<1> USE DEF TypeOK
<1>h. ASSUME NEW w \in Watchers, ~HandEmpty(w) PROVE cur[w] \in Sites /\ HostOf[w] \in Hosts
  BY <1>h, HandTyped, WatcherAssumption DEF Shape
<1>1. ASSUME NEW w \in Watchers, Tick(w) \/ ListDeprovisioning(w) PROVE TypeOK'
  <2>1. SpentTypeOK'
    BY <1>1, SpentTyped DEF Tick, ListDeprovisioning, List, NoFault, Fault
  <2>2. ControlTypeOK'
    BY <1>1 DEF Tick, ListDeprovisioning, List, Listed, ByStatus, ControlTypeOK, PC, Phase
  <2>3. RepoTypeOK' /\ BoxTypeOK' /\ PublishedTypeOK'
    BY <1>1 DEF Tick, ListDeprovisioning, List, RepoTypeOK, BoxTypeOK, PublishedTypeOK
  <2> QED
    BY <2>1, <2>2, <2>3
<1>2. ASSUME NEW w \in Watchers, EndTick(w) PROVE TypeOK'
  BY <1>2 DEF EndTick, ControlTypeOK, PC, RepoTypeOK, BoxTypeOK, PublishedTypeOK, SpentTypeOK
<1>3. ASSUME NEW w \in Watchers, NEW s \in Sites, Take(w, s) PROVE TypeOK'
  <2>1. ControlTypeOK'
    BY <1>3 DEF Take, FirstCall, ControlTypeOK, PC, ProvisionPC, DeprovisionPC, SiteStatus
  <2> QED
    BY <2>1, <1>3 DEF Take, RepoTypeOK, BoxTypeOK, PublishedTypeOK, SpentTypeOK
<1>4. ASSUME NEW w \in Watchers, EnsureSlug(w) PROVE TypeOK'
  <2>1. SpentTypeOK'
    BY <1>4, SpentTyped DEF EnsureSlug, NoFault, Fault
  <2>2. ControlTypeOK'
    BY <1>4, GotoTyped
    DEF EnsureSlug, Fail, SetCopy, PC, ProvisionPC, SiteStatus
  <2>3. cur[w] \in Sites
    BY <1>4, <1>h DEF EnsureSlug, Fail, Goto, At, HandEmpty
  <2> QED
    BY <2>1, <2>2, <2>3, <1>4 DEF EnsureSlug, RepoTypeOK, BoxTypeOK, PublishedTypeOK
<1>5. ASSUME NEW w \in Watchers, Pull(w) \/ HealthCheck(w) PROVE TypeOK'
  <2>1. SpentTypeOK'
    BY <1>5, SpentTyped DEF Pull, HealthCheck, NoFault, Fault
  <2>2. ControlTypeOK'
    BY <1>5, GotoTyped DEF Pull, HealthCheck, Fail, SetCopy, PC, ProvisionPC, SiteStatus
  <2> QED
    BY <2>1, <2>2, <1>5 DEF Pull, HealthCheck, RepoTypeOK, BoxTypeOK, PublishedTypeOK
<1>6. ASSUME NEW w \in Watchers, RemoveOld(w) \/ RunContainer(w) \/ RemoveContainer(w)
      PROVE  TypeOK'
  <2>1. SpentTypeOK'
    BY <1>6, SpentTyped DEF RemoveOld, RunContainer, RemoveContainer, NoFault, Fault
  <2>2. ControlTypeOK'
    BY <1>6, GotoTyped
    DEF RemoveOld, RunContainer, RemoveContainer, AfterRemove, Fail, SetCopy, PC,
        ProvisionPC, DeprovisionPC, SiteStatus
  <2>3. cur[w] \in Sites /\ HostOf[w] \in Hosts
    BY <1>6, <1>h DEF RemoveOld, RunContainer, RemoveContainer, Fail, Goto, At, HandEmpty
  <2>4. box[HostOf[w]][cur[w]] \in BoxState
    BY <2>3 DEF BoxTypeOK
  <2>5. UNCHANGED box \/ \E b \in BoxState : SetBox(HostOf[w], cur[w], b)
    BY <1>6, <2>4
    DEF RemoveOld, RunContainer, RemoveContainer, Rm, RunStarts, RunRefused,
        RunInterrupted, BoxState
  <2>6. BoxTypeOK'
    BY <2>3, <2>5, BoxTyped DEF BoxTypeOK
  <2> QED
    BY <2>1, <2>2, <2>6, <1>6
    DEF RemoveOld, RunContainer, RemoveContainer, RepoTypeOK, PublishedTypeOK
<1>7. ASSUME NEW w \in Watchers, Publish(w) \/ Unpublish(w) PROVE TypeOK'
  <2>1. ControlTypeOK'
    BY <1>7, GotoTyped DEF Publish, Unpublish, PC, ProvisionPC, DeprovisionPC
  <2>2. cur[w] \in Sites
    BY <1>7, <1>h DEF Publish, Unpublish, Goto, At, HandEmpty
  <2>3. PublishedTypeOK'
    BY <1>7, <2>2 DEF Publish, Unpublish, PublishedTypeOK
  <2> QED
    BY <2>1, <2>3, <1>7 DEF Publish, Unpublish, RepoTypeOK, BoxTypeOK, SpentTypeOK
<1>8. ASSUME NEW w \in Watchers, RemoveSlug(w) PROVE TypeOK'
  <2>1. SpentTypeOK'
    BY <1>8, SpentTyped DEF RemoveSlug, NoFault, Fault
  <2>2. ControlTypeOK'
    BY <1>8, GotoTyped DEF RemoveSlug, PC, DeprovisionPC
  <2> QED
    BY <2>1, <2>2, <1>8 DEF RemoveSlug, RepoTypeOK, BoxTypeOK, PublishedTypeOK
<1>9. ASSUME NEW w \in Watchers, Save(w) PROVE TypeOK'
  <2>1. SpentTypeOK'
    BY <1>9, SpentTyped DEF Save, NoFault, Fault
  <2>2. cur[w] \in Sites /\ copy[w] \in SiteStatus
    BY <1>9, <1>h DEF Save, At, HandEmpty, Shape, ShapeOf, SiteStatus
  <2>3. RepoTypeOK'
    BY <1>9, <2>2 DEF Save, Update, repoVars, RepoTypeOK
  <2>4. ControlTypeOK'
    BY <1>9 DEF Save, ControlTypeOK, PC
  <2> QED
    BY <2>1, <2>3, <2>4, <1>9 DEF Save, BoxTypeOK, PublishedTypeOK
<1>10. ASSUME NEW w \in Watchers, Crash(w) PROVE TypeOK'
  <2>1. SpentTypeOK'
    BY <1>10, WatcherAssumption DEF Crash, SpentTypeOK
  <2>2. ControlTypeOK'
    BY <1>10 DEF Crash, ControlTypeOK, PC
  <2> QED
    BY <2>1, <2>2, <1>10 DEF Crash, RepoTypeOK, BoxTypeOK, PublishedTypeOK
<1>11. ASSUME NEW s \in Sites, Dashboard(s) PROVE TypeOK'
  <2>1. RepoTypeOK'
    BY <1>11, RepoAssumption
    DEF Dashboard, Insert, RequestTeardown, Requeue, Ask, Update, RepoTypeOK, SiteStatus
  <2> QED
    BY <2>1, <1>11 DEF Dashboard, BoxTypeOK, PublishedTypeOK, ControlTypeOK, SpentTypeOK
<1>12. ASSUME NEW h \in Hosts, NEW s \in Sites, ContainerDies(h, s) PROVE TypeOK'
  <2>1. SpentTypeOK'
    BY <1>12, WatcherAssumption DEF ContainerDies, SpentTypeOK
  <2>2. BoxTypeOK'
    BY <1>12, BoxTyped DEF ContainerDies, Exits, BoxState
  <2> QED
    BY <2>1, <2>2, <1>12 DEF ContainerDies, RepoTypeOK, PublishedTypeOK, ControlTypeOK
<1>13. CASE UNCHANGED vars
  BY <1>13
  DEF vars, RepoTypeOK, BoxTypeOK, PublishedTypeOK, ControlTypeOK, SpentTypeOK
<1> QED
  BY <1>1, <1>2, <1>3, <1>4, <1>5, <1>6, <1>7, <1>8, <1>9, <1>10, <1>11, <1>12, <1>13
  DEF Next, WatcherStep


-----------------------------------------------------------------------------
(* Shape: a step changes the control state of one watcher at most.          *)

Idles(v) ==
  pc'[v] = pc[v] /\ phase'[v] = phase[v] /\ todo'[v] = todo[v] /\ cur'[v] = cur[v] /\ copy'[v] = copy[v]

OnlyMoves(w) == \A v \in Watchers \ {w} : Idles(v)

LEMMA ShapeFrame ==
  ASSUME Shape, NEW w \in Watchers, OnlyMoves(w), ShapeOf(w)' PROVE Shape'
<1>1. ASSUME NEW v \in Watchers, v # w PROVE ShapeOf(v)'
  BY <1>1 DEF Shape, ShapeOf, HandEmpty, OnlyMoves, Idles
<1> QED
  BY <1>1 DEF Shape

(* Which watcher moves, and that no other does. *)
LEMMA StepMoves ==
  ASSUME ControlTypeOK, NEW w \in Watchers, WatcherStep(w) \/ Crash(w)
  PROVE  OnlyMoves(w)
<1> USE DEF OnlyMoves, Idles, ControlTypeOK
<1>1. CASE Tick(w) \/ ListDeprovisioning(w) \/ EndTick(w)
  BY <1>1 DEF Tick, ListDeprovisioning, EndTick, List
<1>2. CASE \E s \in Sites : Take(w, s)
  BY <1>2 DEF Take
<1>3. CASE EnsureSlug(w) \/ Pull(w) \/ RemoveOld(w) \/ RunContainer(w) \/ HealthCheck(w)
  BY <1>3
  DEF EnsureSlug, Pull, RemoveOld, RunContainer, HealthCheck, Fail, Goto, SetCopy
<1>4. CASE Publish(w) \/ Unpublish(w) \/ RemoveContainer(w) \/ RemoveSlug(w)
  BY <1>4 DEF Publish, Unpublish, RemoveContainer, RemoveSlug, Fail, Goto, SetCopy
<1>5. CASE Save(w) \/ Crash(w)
  BY <1>5 DEF Save, Crash
<1> QED
  BY <1>1, <1>2, <1>3, <1>4, <1>5 DEF WatcherStep

LEMMA ShapeInit == Init => Shape
  BY WatcherAssumption
  DEF Init, Shape, ShapeOf, HandEmpty, ProvisionPC, DeprovisionPC, SiteStatus

LEMMA ShapeStep == TypeOK /\ Shape /\ [Next]_vars => Shape'
<1> SUFFICES ASSUME TypeOK, Shape, [Next]_vars PROVE Shape'
  OBVIOUS
<1> USE DEF TypeOK
<1>1. ASSUME NEW w \in Watchers, WatcherStep(w) \/ Crash(w) PROVE ShapeOf(w)'
  <2> USE DEF Shape, ShapeOf, HandEmpty, ControlTypeOK, PC, ProvisionPC, DeprovisionPC, Phase
  <2>1. CASE Tick(w) \/ ListDeprovisioning(w) \/ EndTick(w)
    <3>1. Listed(w, "pending") \subseteq Sites /\ Listed(w, "deprovisioning") \subseteq Sites
      BY DEF Listed, ByStatus
    <3> QED
      BY <2>1, <3>1, WatcherAssumption DEF Tick, ListDeprovisioning, EndTick, List, At
  <2>2. ASSUME NEW s \in Sites, Take(w, s) PROVE ShapeOf(w)'
    BY <2>2, WatcherAssumption DEF Take, At, FirstCall
  <2>3. CASE EnsureSlug(w)
    BY <2>3 DEF EnsureSlug, Fail, Goto, At, SetCopy
  <2>4. CASE Pull(w)
    BY <2>4 DEF Pull, Fail, Goto, At, SetCopy
  <2>5. CASE RemoveOld(w)
    BY <2>5 DEF RemoveOld, Goto, At
  <2>6. CASE RunContainer(w)
    BY <2>6 DEF RunContainer, Fail, Goto, At, SetCopy
  <2>7. CASE HealthCheck(w)
    BY <2>7 DEF HealthCheck, Fail, Goto, At, SetCopy
  <2>8. CASE Publish(w) \/ Unpublish(w)
    BY <2>8 DEF Publish, Unpublish, Goto, At
  <2>9. CASE RemoveContainer(w)
    BY <2>9 DEF RemoveContainer, AfterRemove, Fail, Goto, At, SetCopy
  <2>10. CASE RemoveSlug(w)
    BY <2>10 DEF RemoveSlug, Goto, At
  <2>11. CASE Save(w) \/ Crash(w)
    BY <2>11, WatcherAssumption DEF Save, Crash, At, SiteStatus
  <2> QED
    BY <1>1, <2>1, <2>2, <2>3, <2>4, <2>5, <2>6, <2>7, <2>8, <2>9, <2>10, <2>11
    DEF WatcherStep
<1>2. ASSUME NEW w \in Watchers, WatcherStep(w) \/ Crash(w) PROVE Shape'
  BY <1>1, <1>2, StepMoves, ShapeFrame
<1>3. ASSUME UNCHANGED <<pc, phase, todo, cur, copy>> PROVE Shape'
  BY <1>3 DEF Shape, ShapeOf, HandEmpty
<1>4. ASSUME NEW s \in Sites, Dashboard(s) PROVE Shape'
  BY <1>3, <1>4 DEF Dashboard
<1>5. ASSUME NEW h \in Hosts, NEW s \in Sites, ContainerDies(h, s) PROVE Shape'
  BY <1>3, <1>5 DEF ContainerDies
<1>6. CASE UNCHANGED vars
  BY <1>3, <1>6 DEF vars
<1> QED
  BY <1>2, <1>4, <1>5, <1>6 DEF Next


THEOREM TypeAndShape == Spec => [](TypeOK /\ Shape)
<1>1. TypeOK /\ Shape /\ [Next]_vars => (TypeOK /\ Shape)'
  BY TypeStep, ShapeStep
<1> QED
  BY TypeInit, ShapeInit, <1>1, PTL DEF Spec

(* TypeCorrect: every reachable state has the types of TypeOK.              *)
THEOREM TypeCorrect == Spec => []TypeOK
  BY TypeAndShape, PTL

-----------------------------------------------------------------------------
(* TeardownSafe: between the request and its answer only Save may touch the  *)
(* row, and the hand it empties is one of a teardown.                        *)
LEMMA TeardownStep ==
  ASSUME TypeOK, Shape, [Next]_vars, NEW s \in Sites, TeardownSafe(s)
  PROVE  row'[s] \in {"deprovisioning", "stopped", "failed"}
<1> USE DEF TypeOK, RepoTypeOK, ControlTypeOK
<1>1. CASE UNCHANGED row
  BY <1>1 DEF TeardownSafe
<1>2. ASSUME NEW w \in Watchers, Save(w)
      PROVE  row'[s] \in {"deprovisioning", "stopped", "failed"}
  <2>1. CASE cur[w] # s
    BY <1>2, <2>1, <1>1 DEF Save, Update, repoVars, TeardownSafe
  <2>2. CASE cur[w] = s
    <3>1. phase[w] # "provision"
      BY <2>2 DEF TeardownSafe, Holds
    <3>2. copy[w] \in {"stopped", "failed"}
      BY <1>2, <3>1 DEF Save, At, Shape, ShapeOf
    <3> QED
      BY <1>2, <2>2, <3>2, <1>1 DEF Save, Update, repoVars
  <2> QED
    BY <2>1, <2>2
<1>3. ASSUME NEW t \in Sites, Dashboard(t)
      PROVE  row'[s] \in {"deprovisioning", "stopped", "failed"}
  BY <1>3, RepoAssumption
  DEF Dashboard, Insert, RequestTeardown, Requeue, Ask, Update, TeardownSafe, Settled
<1>4. ASSUME NEW w \in Watchers, WatcherStep(w) \/ Crash(w), ~Save(w) PROVE UNCHANGED row
  BY <1>4
  DEF WatcherStep, Crash, Tick, ListDeprovisioning, List, EndTick, Take, EnsureSlug,
      Pull, RemoveOld, RunContainer, HealthCheck, Publish, Unpublish, RemoveContainer,
      RemoveSlug
<1> QED
  BY <1>1, <1>2, <1>3, <1>4 DEF Next, ContainerDies, vars

(* NoTeardownLost: for any number of watchers, however their scopes overlap, *)
(* a teardown request that no provisioning pass holds is never overwritten   *)
(* with anything but Stopped or Failed (property TeardownNotLost).           *)
THEOREM NoTeardownLost == Spec => TeardownNotLost
<1>1. TypeOK /\ Shape /\ [Next]_vars =>
        [\A s \in Sites : TeardownSafe(s) =>
           row'[s] \in {"deprovisioning", "stopped", "failed"}]_vars
  BY TeardownStep
<1> QED
  BY <1>1, TypeAndShape, PTL DEF Spec, TeardownNotLost


-----------------------------------------------------------------------------
(* The inductive invariant, for deployments with ExclusiveScopes.  A watcher *)
(* only ever changes the world at the site it has in hand, and no other      *)
(* watcher has claims on that site.                                          *)

LEMMA Hand ==
  ASSUME IInv, NEW w \in Watchers, ~HandEmpty(w)
  PROVE  /\ cur[w] \in Sites
         /\ HostOf[w] \in Hosts
         /\ Owns(w, cur[w])
         /\ row[cur[w]] \in Unsettled(phase[w])
  BY HandTyped, WatcherAssumption DEF IInv, TypeOK, Shape, OwnHand, WorkUnsettled

(* What a step of w leaves alone. *)
Footprint(w) ==
  /\ \A h \in Hosts, t \in Sites :
       h # HostOf[w] \/ t # cur[w] \/ HandEmpty(w) => box'[h][t] = box[h][t]
  /\ \A t \in Sites : t # cur[w] \/ HandEmpty(w) => (t \in zone' <=> t \in zone)
  /\ \A t \in Sites : t # cur[w] \/ pc[w] # "save" => row'[t] = row[t]
  /\ \A v \in Watchers \ {w} : port'[v] = port[v]
  /\ port'[w] \subseteq port[w] \cup (IF HandEmpty(w) THEN {} ELSE {cur[w]})

LEMMA StepFootprint ==
  ASSUME IInv, NEW w \in Watchers, WatcherStep(w) \/ Crash(w)
  PROVE  Footprint(w)
<1> USE DEF Footprint, IInv, TypeOK
<1>1. ASSUME UNCHANGED <<row, box, zone, port>> PROVE Footprint(w)
  BY <1>1
<1>2. CASE Tick(w) \/ ListDeprovisioning(w) \/ EndTick(w) \/ Pull(w) \/ HealthCheck(w)
  BY <1>1, <1>2 DEF Tick, ListDeprovisioning, EndTick, List, Pull, HealthCheck
<1>3. CASE \E s \in Sites : Take(w, s)
  BY <1>1, <1>3 DEF Take
<1>4. CASE EnsureSlug(w) \/ RemoveSlug(w)
  BY <1>4 DEF EnsureSlug, RemoveSlug, Fail, Goto, At, HandEmpty
<1>5. CASE RemoveOld(w) \/ RunContainer(w) \/ RemoveContainer(w)
  <2>1. ~HandEmpty(w) /\ UNCHANGED <<row, zone, port>>
    BY <1>5 DEF RemoveOld, RunContainer, RemoveContainer, Fail, Goto, At, HandEmpty
  <2>2. UNCHANGED box \/ \E b : SetBox(HostOf[w], cur[w], b)
    BY <1>5
    DEF RemoveOld, RunContainer, RemoveContainer, Rm, RunStarts, RunRefused, RunInterrupted
  <2>3. \A h \in Hosts, t \in Sites : h # HostOf[w] \/ t # cur[w] => box'[h][t] = box[h][t]
    BY <2>2 DEF SetBox, BoxTypeOK
  <2> QED
    BY <2>1, <2>3
<1>6. CASE Publish(w) \/ Unpublish(w)
  BY <1>6 DEF Publish, Unpublish, Goto, At, HandEmpty, PublishedTypeOK
<1>7. CASE Save(w)
  BY <1>7 DEF Save, At, Update, repoVars, RepoTypeOK
<1>8. CASE Crash(w)
  BY <1>8 DEF Crash, PublishedTypeOK
<1> QED
  BY <1>2, <1>3, <1>4, <1>5, <1>6, <1>7, <1>8 DEF WatcherStep

(* A site another watcher holds or publishes is not the one w has in hand.  *)
LEMMA Apart ==
  ASSUME ExclusiveScopes, IInv, NEW w \in Watchers, ~HandEmpty(w),
         NEW v \in Watchers, v # w
  PROVE  /\ ~Owns(v, cur[w])
         /\ cur[w] \notin todo[v] \cup port[v] \cup {cur[v]}
<1>1. ~Owns(v, cur[w])
  BY Hand DEF ExclusiveScopes
<1>2. cur[w] \in Sites
  BY Hand
<1>3. cur[w] # cur[v]
  <2>1. CASE HandEmpty(v)
    BY <2>1, <1>2, WatcherAssumption DEF IInv, Shape, ShapeOf
  <2>2. CASE ~HandEmpty(v)
    BY <2>2, <1>1 DEF IInv, OwnHand
  <2> QED
    BY <2>1, <2>2
<1> QED
  BY <1>1, <1>3 DEF IInv, OwnWork


(* How a step of w changes what it has listed and in hand. *)
LEMMA StepHand ==
  ASSUME IInv, NEW w \in Watchers, WatcherStep(w) \/ Crash(w)
  PROVE  \/ /\ UNCHANGED <<row, cur, todo>> /\ phase'[w] = phase[w]
            /\ ~HandEmpty(w) /\ ~HandEmpty(w)'
         \/ /\ HandEmpty(w) /\ UNCHANGED <<row, cur>>
            /\ todo'[w] \subseteq Listed(w, IF phase'[w] = "provision" THEN "pending" ELSE "deprovisioning")
            /\ HandEmpty(w)'
         \/ /\ HandEmpty(w) /\ UNCHANGED row /\ phase'[w] = phase[w]
            /\ cur'[w] \in todo[w] /\ todo'[w] = todo[w] \ {cur'[w]}
            /\ ~HandEmpty(w)'
         \/ /\ cur'[w] = None /\ todo'[w] \subseteq todo[w] /\ phase'[w] = phase[w]
            /\ HandEmpty(w)'
<1> USE DEF IInv, TypeOK, ControlTypeOK, HandEmpty
<1>1. CASE Tick(w) \/ ListDeprovisioning(w) \/ EndTick(w)
  BY <1>1 DEF Tick, ListDeprovisioning, EndTick, List, At
<1>2. ASSUME NEW s \in Sites, Take(w, s)
      PROVE  /\ HandEmpty(w) /\ UNCHANGED row /\ phase'[w] = phase[w]
             /\ cur'[w] \in todo[w] /\ todo'[w] = todo[w] \ {cur'[w]}
             /\ ~HandEmpty(w)'
  BY <1>2 DEF Take, At, FirstCall
<1>3. CASE Save(w) \/ Crash(w)
  BY <1>3 DEF Save, Crash
<1>4. CASE EnsureSlug(w) \/ Pull(w) \/ RemoveOld(w) \/ RunContainer(w) \/ HealthCheck(w)
  BY <1>4 DEF EnsureSlug, Pull, RemoveOld, RunContainer, HealthCheck, Fail, Goto, At
<1>5. CASE Publish(w) \/ Unpublish(w) \/ RemoveContainer(w) \/ RemoveSlug(w)
  BY <1>5
  DEF Publish, Unpublish, RemoveContainer, RemoveSlug, AfterRemove, Fail, Goto, At
<1> QED
  BY <1>1, <1>2, <1>3, <1>4, <1>5 DEF WatcherStep

LEMMA OwnStep ==
  ASSUME ExclusiveScopes, IInv, NEW w \in Watchers, WatcherStep(w) \/ Crash(w)
  PROVE  (OwnWork /\ OwnHand /\ OwnBoxes /\ OwnRecords)'
<1>1. Footprint(w) /\ OnlyMoves(w)
  BY StepFootprint, StepMoves DEF IInv, TypeOK
<1>2. ~HandEmpty(w) => cur[w] \in Sites /\ HostOf[w] \in Hosts /\ Owns(w, cur[w])
  BY Hand
<1>3. \A st : \A s \in Listed(w, st) : Owns(w, s)
  BY DEF Listed
<1>4. \A s \in todo'[w] \cup port'[w] : Owns(w, s)
  BY <1>1, <1>2, <1>3, StepHand DEF Footprint, IInv, OwnWork
<1>5. OwnWork'
  BY <1>1, <1>4 DEF Footprint, OnlyMoves, Idles, IInv, OwnWork
<1>6. ~HandEmpty(w)' => Owns(w, cur'[w])
  BY <1>2, StepHand DEF IInv, OwnWork
<1>7. OwnHand'
  BY <1>1, <1>6 DEF OnlyMoves, Idles, IInv, OwnHand, HandEmpty
<1>8. OwnBoxes'
  BY <1>1, <1>2 DEF Footprint, IInv, OwnBoxes
<1>9. OwnRecords'
  BY <1>1, <1>2, TypeStep DEF Footprint, IInv, OwnRecords, TypeOK, PublishedTypeOK, Next
<1> QED
  BY <1>5, <1>7, <1>8, <1>9


LEMMA UnsettledStep ==
  ASSUME ExclusiveScopes, IInv, NEW w \in Watchers, WatcherStep(w) \/ Crash(w)
  PROVE  WorkUnsettled'
<1>1. Footprint(w) /\ OnlyMoves(w)
  BY StepFootprint, StepMoves DEF IInv, TypeOK
<1>2. ASSUME NEW v \in Watchers, v # w, NEW s \in Sites, (s \in todo[v] \cup {cur[v]})'
      PROVE  row'[s] \in Unsettled(phase'[v])
  <2>1. s \in todo[v] \cup {cur[v]} /\ phase'[v] = phase[v]
    BY <1>1, <1>2 DEF OnlyMoves, Idles
  <2>2. s # cur[w] \/ HandEmpty(w)
    BY <2>1, <1>2, Apart
  <2>3. row'[s] = row[s]
    BY <1>1, <2>2 DEF Footprint, HandEmpty
  <2> QED
    BY <2>1, <2>3 DEF IInv, WorkUnsettled
<1>3. ASSUME NEW s \in Sites, (s \in todo[w] \cup {cur[w]})'
      PROVE  row'[s] \in Unsettled(phase'[w])
  <2>1. \A st : \A t \in Listed(w, st) : row[t] = st
    BY DEF Listed, ByStatus
  <2>2. s \in todo[w] => s # cur[w]
    BY DEF IInv, Shape, ShapeOf
  <2>3. s # None
    BY WatcherAssumption
  <2>4. s # cur[w] => row'[s] = row[s]
    BY <1>1 DEF Footprint
  <2> QED
    BY <1>3, <2>1, <2>2, <2>3, <2>4, StepHand DEF IInv, WorkUnsettled, Unsettled, Shape,
       ShapeOf
<1> QED
  BY <1>2, <1>3 DEF WorkUnsettled

LEMMA ProgressStep ==
  ASSUME ExclusiveScopes, IInv, NEW w \in Watchers, WatcherStep(w) \/ Crash(w)
  PROVE  AllProgress'
<1>1. Footprint(w) /\ OnlyMoves(w)
  BY StepFootprint, StepMoves DEF IInv, TypeOK
<1>2. ASSUME NEW v \in Watchers, v # w PROVE Progress(v)'
  <2>1. CASE HandEmpty(v)
    BY <1>1, <1>2, <2>1 DEF OnlyMoves, Idles, HandEmpty, Progress, ProvisionPC
  <2>2. CASE ~HandEmpty(v)
    <3>1. cur[v] \in Sites /\ HostOf[v] \in Hosts
      BY <2>2, Hand
    <3>2. cur[v] # cur[w] \/ HandEmpty(w)
      BY <1>2, <2>2, Apart
    <3>3. /\ box'[HostOf[v]][cur[v]] = box[HostOf[v]][cur[v]]
          /\ cur[v] \in zone' <=> cur[v] \in zone
          /\ port'[v] = port[v]
      BY <1>1, <1>2, <3>1, <3>2 DEF Footprint
    <3> QED
      BY <1>1, <1>2, <3>3 DEF OnlyMoves, Idles, IInv, AllProgress, Progress, Backed
  <2> QED
    BY <2>1, <2>2
<1>3. Progress(w)'
  <2> USE DEF IInv, TypeOK, ControlTypeOK, AllProgress, Progress, Backed, ProvisionPC
  <2>1. CASE Tick(w) \/ ListDeprovisioning(w) \/ EndTick(w) \/ Save(w) \/ Crash(w)
    BY <2>1 DEF Tick, ListDeprovisioning, EndTick, List, Save, Crash
  <2>2. ASSUME NEW s \in Sites, Take(w, s) PROVE Progress(w)'
    BY <2>2 DEF Take, FirstCall
  <2>3. CASE EnsureSlug(w)
    BY <2>3 DEF EnsureSlug, Fail, Goto, At, SetCopy
  <2>4. CASE Pull(w)
    BY <2>4 DEF Pull, Fail, Goto, At, SetCopy
  <2>5. CASE RemoveOld(w)
    BY <2>5 DEF RemoveOld, Goto, At
  <2>6. CASE RunContainer(w)
    <3>1. cur[w] \in Sites /\ HostOf[w] \in Hosts
      BY <2>6, Hand DEF RunContainer, Fail, Goto, At, HandEmpty
    <3> QED
      BY <2>6, <3>1
      DEF RunContainer, RunStarts, SetBox, BoxTypeOK, Fail, Goto, At, SetCopy
  <2>7. CASE HealthCheck(w)
    BY <2>7 DEF HealthCheck, Fail, Goto, At, SetCopy
  <2>8. CASE Publish(w)
    BY <2>8 DEF Publish, Goto, At, Shape, ShapeOf
  <2>9. CASE Unpublish(w)
    BY <2>9 DEF Unpublish, Goto, At, PublishedTypeOK
  <2>10. CASE RemoveContainer(w)
    <3>1. cur[w] \in Sites /\ HostOf[w] \in Hosts
      BY <2>10, Hand DEF RemoveContainer, Fail, Goto, At, HandEmpty
    <3> QED
      BY <2>10, <3>1
      DEF RemoveContainer, AfterRemove, Rm, SetBox, BoxTypeOK, Fail, Goto, At, SetCopy
  <2>11. CASE RemoveSlug(w)
    BY <2>11 DEF RemoveSlug, Goto, At, Shape, ShapeOf
  <2> QED
    BY <1>1, <2>1, <2>2, <2>3, <2>4, <2>5, <2>6, <2>7, <2>8, <2>9, <2>10, <2>11
    DEF WatcherStep
<1> QED
  BY <1>2, <1>3 DEF AllProgress


(* The row of the site in hand changes by Save only, to the copy's status.  *)
LEMMA HandRow ==
  ASSUME IInv, NEW w \in Watchers, WatcherStep(w) \/ Crash(w), ~HandEmpty(w)
  PROVE  \/ row'[cur[w]] = row[cur[w]]
         \/ /\ pc[w] = "save" /\ row'[cur[w]] = copy[w]
            /\ UNCHANGED <<box, zone, port>>
<1> USE DEF IInv, TypeOK, RepoTypeOK
<1>1. CASE Save(w)
  BY <1>1, Hand DEF Save, Update, repoVars, At
<1>2. CASE ~Save(w)
  BY <1>2
  DEF WatcherStep, Crash, Tick, ListDeprovisioning, List, EndTick, Take, EnsureSlug,
      Pull, RemoveOld, RunContainer, HealthCheck, Publish, Unpublish, RemoveContainer,
      RemoveSlug
<1> QED
  BY <1>1, <1>2

LEMMA RunningStep ==
  ASSUME ExclusiveScopes, IInv, NEW w \in Watchers, WatcherStep(w) \/ Crash(w)
  PROVE  RowsBacked'
<1> SUFFICES ASSUME NEW v \in Watchers, NEW s \in Sites, Owns(v, s), row'[s] = "running"
             PROVE  Backed(v, s)'
  BY DEF RowsBacked
<1>1. Footprint(w) /\ HostOf[v] \in Hosts
  BY StepFootprint, WatcherAssumption
<1>2. CASE s # cur[w] \/ HandEmpty(w)
  <2>1. /\ row'[s] = row[s]
        /\ box'[HostOf[v]][s] = box[HostOf[v]][s]
        /\ s \in zone' <=> s \in zone
    BY <1>1, <1>2 DEF Footprint, HandEmpty
  <2> QED
    BY <2>1 DEF IInv, RowsBacked, Backed
<1>3. CASE s = cur[w] /\ ~HandEmpty(w)
  <2>1. v = w
    BY <1>3, Hand DEF ExclusiveScopes
  <2>2. row[s] # "running"
    BY <1>3, Hand DEF Unsettled
  <2>3. pc[w] = "save" /\ copy[w] = "running" /\ UNCHANGED <<box, zone>>
    BY <1>3, <2>2, HandRow
  <2> QED
    BY <1>3, <2>1, <2>3 DEF IInv, AllProgress, Progress, Backed
<1> QED
  BY <1>2, <1>3

LEMMA StoppedStep ==
  ASSUME ExclusiveScopes, IInv, NEW w \in Watchers, WatcherStep(w) \/ Crash(w)
  PROVE  RowsGone'
<1> SUFFICES ASSUME NEW s \in Sites, row'[s] = "stopped"
             PROVE  /\ \A h \in Hosts : box'[h][s] = "absent"
                    /\ \A v \in Watchers : s \notin port'[v]
  BY DEF RowsGone
<1>1. Footprint(w)
  BY StepFootprint
<1>2. CASE s # cur[w] \/ HandEmpty(w)
  <2>1. row'[s] = row[s] /\ \A h \in Hosts : box'[h][s] = box[h][s]
    BY <1>1, <1>2 DEF Footprint, HandEmpty
  <2>2. \A v \in Watchers : s \in port'[v] => s \in port[v]
    BY <1>1, <1>2 DEF Footprint
  <2> QED
    BY <2>1, <2>2 DEF IInv, RowsGone
<1>3. CASE s = cur[w] /\ ~HandEmpty(w)
  <2>1. row[s] # "stopped"
    BY <1>3, Hand DEF Unsettled
  <2>2. pc[w] = "save" /\ copy[w] = "stopped" /\ UNCHANGED <<box, port>>
    BY <1>3, <2>1, HandRow
  <2>3. box[HostOf[w]][s] = "absent" /\ s \notin port[w]
    BY <1>3, <2>2 DEF IInv, AllProgress, Progress
  <2>4. \A v \in Watchers \ {w} : ~Owns(v, s) /\ s \notin port[v]
    BY <1>3, Apart
  <2>5. \A h \in Hosts : box[h][s] = "absent"
    BY <2>3, <2>4 DEF IInv, OwnBoxes
  <2> QED
    BY <2>2, <2>3, <2>4, <2>5
<1> QED
  BY <1>2, <1>3

(* The steps that publish a slug, and those that remove a record.           *)
LEMMA StepPort ==
  ASSUME IInv, NEW w \in Watchers, WatcherStep(w) \/ Crash(w), pc[w] # "publish"
  PROVE  port'[w] \subseteq port[w]
<1> USE DEF IInv, TypeOK, PublishedTypeOK
<1>1. CASE Unpublish(w) \/ Crash(w)
  BY <1>1 DEF Unpublish, Crash
<1>2. CASE ~Unpublish(w) /\ ~Crash(w)
  BY <1>2
  DEF WatcherStep, Tick, ListDeprovisioning, List, EndTick, Take, EnsureSlug, Pull,
      RemoveOld, RunContainer, HealthCheck, Publish, RemoveContainer, RemoveSlug, Save,
      Goto, At
<1> QED
  BY <1>1, <1>2

LEMMA StepZone ==
  ASSUME NEW w \in Watchers, WatcherStep(w) \/ Crash(w), pc[w] # "undns"
  PROVE  zone \subseteq zone'
<1>1. CASE EnsureSlug(w)
  BY <1>1 DEF EnsureSlug
<1>2. CASE ~EnsureSlug(w)
  BY <1>2
  DEF WatcherStep, Crash, Tick, ListDeprovisioning, List, EndTick, Take, Pull, RemoveOld,
      RunContainer, HealthCheck, Publish, Unpublish, RemoveContainer, RemoveSlug, Save,
      Goto, At
<1> QED
  BY <1>1, <1>2

(* A record is only removed by the step at "undns", after its route.        *)
LEMMA RecordedStep ==
  ASSUME ExclusiveScopes, IInv, NEW w \in Watchers, WatcherStep(w) \/ Crash(w)
  PROVE  PublishedIsRecorded'
<1> SUFFICES ASSUME DNSOn, NEW v \in Watchers, NEW s \in Sites, s \in port'[v]
             PROVE  s \in zone'
  BY TypeStep DEF PublishedIsRecorded, IInv, TypeOK, PublishedTypeOK, Next
<1>1. Footprint(w)
  BY StepFootprint
<1>2. CASE s # cur[w] \/ HandEmpty(w)
  <2>1. s \in port[v]
    BY <1>1, <1>2 DEF Footprint
  <2> QED
    BY <1>1, <1>2, <2>1 DEF Footprint, IInv, PublishedIsRecorded
<1>3. CASE s = cur[w] /\ ~HandEmpty(w)
  <2>1. v = w
    BY <1>1, <1>3, Apart DEF Footprint
  <2>2. CASE pc[w] = "undns"
    BY <1>1, <1>3, <2>1, <2>2, StepPort DEF IInv, AllProgress, Progress
  <2>3. CASE pc[w] # "undns"
    <3>1. zone \subseteq zone'
      BY <1>3, <2>3, StepZone
    <3>2. CASE s \in port[w]
      BY <3>1, <3>2 DEF IInv, PublishedIsRecorded
    <3>3. CASE s \notin port[w]
      BY <1>3, <2>1, <3>1, <3>3, StepPort DEF IInv, AllProgress, Progress, ProvisionPC
    <3> QED
      BY <3>2, <3>3
  <2> QED
    BY <2>2, <2>3
<1> QED
  BY <1>2, <1>3

LEMMA IInvStep == ExclusiveScopes /\ IInv /\ [Next]_vars => IInv'
<1> SUFFICES ASSUME ExclusiveScopes, IInv, [Next]_vars PROVE IInv'
  OBVIOUS
<1>1. TypeOK' /\ Shape'
  BY TypeStep, ShapeStep DEF IInv
<1>2. ASSUME NEW w \in Watchers, WatcherStep(w) \/ Crash(w) PROVE IInv'
  BY <1>1, <1>2, OwnStep, UnsettledStep, ProgressStep, RunningStep, StoppedStep,
     RecordedStep DEF IInv
<1>3. ASSUME NEW s \in Sites, Dashboard(s) PROVE IInv'
  <2>1. UNCHANGED <<box, zone, port, pc, phase, todo, cur, copy>>
    BY <1>3 DEF Dashboard
  <2>2. \A t \in Sites : t # s => row'[t] = row[t]
    BY <1>3
    DEF Dashboard, Insert, RequestTeardown, Requeue, Ask, Update, IInv, TypeOK, RepoTypeOK
  <2>3. \/ row[s] \notin {"pending", "deprovisioning"} /\ row'[s] = "pending"
        \/ row[s] # "deprovisioning" /\ row'[s] = "deprovisioning"
    BY <1>3, RepoAssumption
    DEF Dashboard, Insert, RequestTeardown, Requeue, Ask, Update, IInv, TypeOK,
        RepoTypeOK, Settled
  <2>4. WorkUnsettled'
    BY <2>1, <2>2, <2>3 DEF IInv, WorkUnsettled, Unsettled
  <2>5. (RowsBacked /\ RowsGone /\ PublishedIsRecorded)'
    BY <2>1, <2>2, <2>3 DEF IInv, RowsBacked, Backed, RowsGone, PublishedIsRecorded
  <2>6. (OwnWork /\ OwnHand /\ OwnBoxes /\ OwnRecords /\ AllProgress)'
    BY <2>1
    DEF IInv, OwnWork, OwnHand, OwnBoxes, OwnRecords, AllProgress, Progress, Backed,
        HandEmpty
  <2> QED
    BY <1>1, <2>4, <2>5, <2>6 DEF IInv
<1>4. ASSUME NEW h \in Hosts, NEW s \in Sites, ContainerDies(h, s) PROVE IInv'
  <2>1. UNCHANGED <<row, zone, port, pc, phase, todo, cur, copy>>
    BY <1>4 DEF ContainerDies
  <2>2. /\ box[h][s] = "running" /\ box'[h][s] = "exited"
        /\ \A g \in Hosts, t \in Sites : g # h \/ t # s => box'[g][t] = box[g][t]
    BY <1>4 DEF ContainerDies, Exits, SetBox, IInv, TypeOK, BoxTypeOK
  <2>3. (WorkUnsettled /\ OwnWork /\ OwnHand /\ OwnRecords)'
    BY <2>1 DEF IInv, WorkUnsettled, OwnWork, OwnHand, OwnRecords, HandEmpty
  <2>4. OwnBoxes'
    BY <2>2 DEF IInv, OwnBoxes
  <2>5. AllProgress'
    <3> SUFFICES ASSUME NEW w \in Watchers PROVE Progress(w)'
      BY DEF AllProgress
    <3>1. CASE HandEmpty(w)
      BY <2>1, <3>1 DEF HandEmpty, Progress, ProvisionPC
    <3>2. CASE ~HandEmpty(w)
      <4>1. cur[w] \in Sites /\ HostOf[w] \in Hosts
        BY <3>2, Hand
      <4> QED
        BY <2>1, <2>2, <4>1 DEF IInv, AllProgress, Progress, Backed
    <3> QED
      BY <3>1, <3>2
  <2>6. (RowsBacked /\ RowsGone /\ PublishedIsRecorded)'
    BY <2>1, <2>2, WatcherAssumption
    DEF IInv, RowsBacked, Backed, RowsGone, PublishedIsRecorded
  <2> QED
    BY <1>1, <2>3, <2>4, <2>5, <2>6 DEF IInv
<1>5. CASE UNCHANGED vars
  BY <1>1, <1>5
  DEF vars, IInv, WorkUnsettled, OwnWork, OwnHand, OwnBoxes, OwnRecords, HandEmpty,
      AllProgress, Progress, Backed, RowsBacked, RowsGone, PublishedIsRecorded
<1> QED
  BY <1>2, <1>3, <1>4, <1>5 DEF Next

LEMMA IInvInit == Init => IInv
<1> SUFFICES ASSUME Init PROVE IInv
  OBVIOUS
<1>1. TypeOK /\ Shape
  BY TypeInit, ShapeInit
<1>2. OwnWork /\ OwnHand /\ OwnBoxes /\ OwnRecords
  BY DEF Init, BoxInit, OwnWork, OwnHand, OwnBoxes, OwnRecords, HandEmpty
<1>3. WorkUnsettled
  BY WatcherAssumption DEF Init, WorkUnsettled
<1>4. AllProgress
  BY DEF Init, AllProgress, Progress, ProvisionPC
<1>5. RowsBacked /\ RowsGone /\ PublishedIsRecorded
  BY DEF Init, RepoInit, RowsBacked, RowsGone, PublishedIsRecorded
<1> QED
  BY <1>1, <1>2, <1>3, <1>4, <1>5 DEF IInv

(* Invariance: IInv is an invariant of every deployment whose scopes give    *)
(* each Site one watcher at most.                                            *)
THEOREM Invariance == ASSUME ExclusiveScopes PROVE Spec => []IInv
<1>1. IInv /\ [Next]_vars => IInv'
  BY IInvStep
<1> QED
  BY IInvInit, <1>1, PTL DEF Spec

(* A copy that says Running or Stopped is as good as the row it will become. *)
LEMMA ShownRunning == ASSUME ExclusiveScopes, IInv PROVE RunningIsBacked
<1> SUFFICES ASSUME NEW v \in Watchers, NEW s \in Sites, Owns(v, s), "running" \in Shown(s)
             PROVE  Backed(v, s)
  BY DEF RunningIsBacked, Backed
<1>1. CASE row[s] = "running"
  BY <1>1 DEF IInv, RowsBacked
<1>2. ASSUME NEW w \in Watchers, cur[w] = s, copy[w] = "running" PROVE Backed(v, s)
  <2>1. pc[w] \in {"publish", "save"} /\ ~HandEmpty(w)
    BY <1>2 DEF IInv, Shape, ShapeOf, HandEmpty
  <2>2. v = w
    BY <1>2, <2>1, Hand DEF ExclusiveScopes
  <2> QED
    BY <1>2, <2>1, <2>2 DEF IInv, AllProgress, Progress
<1> QED
  BY <1>1, <1>2 DEF Shown

LEMMA ShownStopped == ASSUME ExclusiveScopes, IInv PROVE StoppedIsGone
<1> SUFFICES ASSUME NEW s \in Sites, "stopped" \in Shown(s)
             PROVE  /\ \A h \in Hosts : box[h][s] = "absent"
                    /\ \A v \in Watchers : s \notin port[v]
  BY DEF StoppedIsGone
<1>1. CASE row[s] = "stopped"
  BY <1>1 DEF IInv, RowsGone
<1>2. ASSUME NEW w \in Watchers, cur[w] = s, copy[w] = "stopped"
      PROVE  /\ \A h \in Hosts : box[h][s] = "absent"
             /\ \A v \in Watchers : s \notin port[v]
  <2>1. pc[w] \in {"undns", "save"} /\ ~HandEmpty(w)
    BY <1>2 DEF IInv, Shape, ShapeOf, HandEmpty
  <2>2. box[HostOf[w]][s] = "absent" /\ s \notin port[w]
    BY <1>2, <2>1 DEF IInv, AllProgress, Progress
  <2>3. \A v \in Watchers \ {w} : ~Owns(v, s) /\ s \notin port[v]
    BY <1>2, <2>1, Apart
  <2> QED
    BY <2>2, <2>3 DEF IInv, OwnBoxes
<1> QED
  BY <1>1, <1>2 DEF Shown

(* RunningBacked: a Site shown as Running has a container its watcher        *)
(* started and its A record, through any failed calls and restarts.          *)
THEOREM RunningBacked == ASSUME ExclusiveScopes PROVE Spec => []RunningIsBacked
<1>1. IInv => RunningIsBacked
  BY ShownRunning
<1> QED
  BY Invariance, <1>1, PTL

(* StoppedGone: a Stopped Site has no container on any host and no route.    *)
THEOREM StoppedGone == ASSUME ExclusiveScopes PROVE Spec => []StoppedIsGone
<1>1. IInv => StoppedIsGone
  BY ShownStopped
<1> QED
  BY Invariance, <1>1, PTL

(* RecordOutlivesRoute: with DNS on, every published slug has its record     *)
(* (property PublishedIsRecorded).                                           *)
THEOREM RecordOutlivesRoute == ASSUME ExclusiveScopes PROVE Spec => []PublishedIsRecorded
<1>1. IInv => PublishedIsRecorded
  BY DEF IInv
<1> QED
  BY Invariance, <1>1, PTL

(* A step that takes a route away is a restart or the teardown of its site.  *)
LEMMA UnpublishStep ==
  ASSUME IInv, [Next]_vars, NEW w \in Watchers, NEW s \in port[w], s \notin port'[w]
  PROVE  row[s] = "deprovisioning" \/ spent'.crashes > spent.crashes
<1> USE DEF IInv, TypeOK, PublishedTypeOK
<1>1. ASSUME NEW v \in Watchers, Unpublish(v)
      PROVE  row[s] = "deprovisioning"
  <2>1. v = w /\ s = cur[w] /\ pc[w] = "unpublish"
    BY <1>1 DEF Unpublish, Goto, At
  <2>2. phase[w] = "deprovision"
    BY <2>1 DEF Shape, ShapeOf, DeprovisionPC
  <2> QED
    BY <2>1, <2>2, Hand DEF Unsettled, HandEmpty
<1>2. ASSUME NEW v \in Watchers, Crash(v) PROVE spent'.crashes > spent.crashes
  BY <1>2 DEF Crash, SpentTypeOK
<1>3. ASSUME NEW v \in Watchers, Publish(v) PROVE s \in port'[w]
  BY <1>3 DEF Publish
<1>4. ASSUME NEW v \in Watchers, WatcherStep(v), ~Unpublish(v), ~Publish(v)
      PROVE  UNCHANGED port
  BY <1>4
  DEF WatcherStep, Tick, ListDeprovisioning, List, EndTick, Take, EnsureSlug, Pull,
      RemoveOld, RunContainer, HealthCheck, RemoveContainer, RemoveSlug, Save
<1> QED
  BY <1>1, <1>2, <1>3, <1>4 DEF Next, Dashboard, ContainerDies, vars

(* RoutesOutliveFaults: no failed call takes a route away, only a restart    *)
(* and the site's own teardown do (property OnlyTeardownUnpublishes).        *)
THEOREM RoutesOutliveFaults == ASSUME ExclusiveScopes PROVE Spec => OnlyTeardownUnpublishes
<1>1. IInv /\ [Next]_vars =>
        [\A w \in Watchers : \A s \in port[w] :
           s \notin port'[w] => row[s] = "deprovisioning" \/ spent'.crashes > spent.crashes]_vars
  BY UnpublishStep
<1> QED
  BY <1>1, Invariance, PTL DEF Spec, OnlyTeardownUnpublishes

(* OneHost: no Site ever has containers on two hosts.                        *)
THEOREM OneHost == ASSUME ExclusiveScopes PROVE Spec => []NoDoubleProvision
<1>1. IInv => NoDoubleProvision
  BY DEF IInv, OwnBoxes, NoDoubleProvision, ExclusiveScopes
<1> QED
  BY Invariance, <1>1, PTL

(* OutOfScope: a Site in no watcher's scope is never acted on.               *)
THEOREM OutOfScope == ASSUME ExclusiveScopes PROVE Spec => []UnplacedUntouched
<1>1. IInv => UnplacedUntouched
  BY DEF IInv, OwnWork, OwnBoxes, OwnRecords, UnplacedUntouched
<1> QED
  BY Invariance, <1>1, PTL

=============================================================================
