----------------------- MODULE WatcherLifecycleProofs -----------------------
(* Every deployment with ExclusiveScopes implements SiteLifecycle.          *)
EXTENDS WatcherLifecycle, WatcherProofs

LEMMA HeldInit == Init => Lifecycle!Init
<1> SUFFICES ASSUME Init PROVE Lifecycle!Init
  OBVIOUS
<1>1. Held = {}
  BY WatcherAssumption DEF Init, Held, Holds
<1> QED
  BY <1>1 DEF Init, RepoInit, Lifecycle!Init

(* A site in the hand of w is held through w alone. *)
LEMMA HeldThrough ==
  ASSUME ExclusiveScopes, IInv, NEW w \in Watchers, ~HandEmpty(w)
  PROVE  cur[w] \in Held <=> phase[w] = "provision"
<1>1. cur[w] \in Sites
  BY Hand
<1>2. \A v \in Watchers \ {w} : ~Holds(v, "provision", cur[w])
  BY Apart DEF Holds
<1> QED
  BY <1>1, <1>2 DEF Held, Holds

(* Steps that change neither a row nor what is held are stutters. *)
LEMMA Stutter ==
  ASSUME UNCHANGED <<row, phase, todo, cur>> PROVE UNCHANGED <<row, Held>>
  BY DEF Held, Holds

LEMMA TickClaims ==
  ASSUME IInv, NEW w \in Watchers, Tick(w)
  PROVE  \E S \in SUBSET Sites : Lifecycle!Claim(S)
<1>1. OnlyMoves(w) /\ UNCHANGED <<row, cur>>
  BY StepMoves DEF WatcherStep, IInv, TypeOK, Tick, List
<1>2. todo[w] = {} /\ cur[w] = None
  BY DEF Tick, At, IInv, Shape, ShapeOf, HandEmpty
<1>3. todo'[w] \subseteq Listed(w, "pending") /\ phase'[w] = "provision"
  BY DEF Tick, List, IInv, TypeOK, ControlTypeOK
<1>4. Listed(w, "pending") \subseteq {s \in Sites : row[s] = "pending"}
  BY DEF Listed, ByStatus
<1>5. Held' = Held \cup todo'[w]
  BY <1>1, <1>2, <1>3, <1>4, WatcherAssumption DEF OnlyMoves, Idles, Held, Holds
<1>6. Lifecycle!Claim(todo'[w])
  BY <1>1, <1>3, <1>4, <1>5 DEF Lifecycle!Claim
<1> QED
  BY <1>3, <1>4, <1>6

LEMMA CrashReleases ==
  ASSUME IInv, NEW w \in Watchers, Crash(w)
  PROVE  \E S \in SUBSET Sites : Lifecycle!Release(S)
<1>1. OnlyMoves(w) /\ UNCHANGED <<row, phase>> /\ todo'[w] = {} /\ cur'[w] = None
  BY StepMoves DEF Crash, IInv, TypeOK, ControlTypeOK
<1>2. Held' \subseteq Held
  BY <1>1, WatcherAssumption DEF OnlyMoves, Idles, Held, Holds
<1>3. Lifecycle!Release(Held \ Held')
  BY <1>1, <1>2 DEF Lifecycle!Release
<1> QED
  BY <1>3 DEF Held

LEMMA SaveAnswers ==
  ASSUME ExclusiveScopes, IInv, NEW w \in Watchers, Save(w)
  PROVE  [Lifecycle!Next]_<<row, Held>>
<1>1. OnlyMoves(w) /\ UNCHANGED <<phase, todo>> /\ cur'[w] = None /\ pc[w] = "save"
  BY StepMoves DEF WatcherStep, Save, At, IInv, TypeOK, ControlTypeOK
<1>2. ~HandEmpty(w) /\ cur[w] \notin todo[w]
  BY <1>1 DEF HandEmpty, IInv, Shape, ShapeOf
<1>3. /\ cur[w] \in Sites /\ row[cur[w]] \in Unsettled(phase[w])
      /\ cur[w] \in Held <=> phase[w] = "provision"
  BY <1>2, Hand, HeldThrough
<1>4. \A v \in Watchers \ {w} : cur[w] \notin todo[v] \cup {cur[v]}
  BY <1>2, Apart
<1>5. Held' = Held \ {cur[w]}
  BY <1>1, <1>2, <1>4, WatcherAssumption DEF OnlyMoves, Idles, Held, Holds
<1>6. CASE UNCHANGED repoVars
  <2>1. Lifecycle!Release(Held \cap {cur[w]})
    BY <1>5, <1>6 DEF repoVars, Lifecycle!Release
  <2> QED
    BY <1>3, <2>1 DEF Lifecycle!Next
<1>7. CASE Update(cur[w], copy[w])
  <2>1. row' = [row EXCEPT ![cur[w]] = copy[w]]
    BY <1>7 DEF Update
  <2>2. CASE phase[w] = "provision"
    <3>1. copy[w] \in {"running", "failed"}
      BY <1>1, <2>2 DEF IInv, Shape, ShapeOf
    <3>2. Lifecycle!Answer(cur[w])
      BY <1>3, <1>5, <2>1, <2>2, <3>1 DEF Lifecycle!Answer, Lifecycle!Becomes, Unsettled
    <3> QED
      BY <1>3, <3>2 DEF Lifecycle!Next
  <2>3. CASE phase[w] # "provision"
    <3>1. copy[w] \in {"stopped", "failed"}
      BY <1>1, <2>3 DEF IInv, Shape, ShapeOf
    <3>2. Lifecycle!TearDown(cur[w])
      BY <1>3, <1>5, <2>1, <2>3, <3>1 DEF Lifecycle!TearDown, Lifecycle!Becomes, Unsettled
    <3> QED
      BY <1>3, <3>2 DEF Lifecycle!Next
  <2> QED
    BY <2>2, <2>3
<1> QED
  BY <1>6, <1>7 DEF Save

LEMMA LifecycleStep ==
  ASSUME ExclusiveScopes, IInv, [Next]_vars PROVE [Lifecycle!Next]_<<row, Held>>
<1>1. ASSUME NEW w \in Watchers, Tick(w) PROVE Lifecycle!Next
  BY <1>1, TickClaims DEF Lifecycle!Next
<1>2. ASSUME NEW w \in Watchers, Crash(w) PROVE Lifecycle!Next
  BY <1>2, CrashReleases DEF Lifecycle!Next
<1>3. ASSUME NEW w \in Watchers, ListDeprovisioning(w) PROVE UNCHANGED <<row, Held>>
  <2>1. OnlyMoves(w) /\ UNCHANGED <<row, cur>> /\ phase'[w] = "deprovision"
    BY <1>3, StepMoves DEF WatcherStep, ListDeprovisioning, List, IInv, TypeOK, ControlTypeOK
  <2>2. todo[w] = {} /\ cur[w] = None
    BY <1>3 DEF ListDeprovisioning, At, IInv, Shape, ShapeOf, HandEmpty
  <2> QED
    BY <2>1, <2>2, WatcherAssumption DEF OnlyMoves, Idles, Held, Holds
<1>4. ASSUME NEW w \in Watchers, NEW s \in Sites, Take(w, s) PROVE UNCHANGED <<row, Held>>
  <2>1. OnlyMoves(w) /\ UNCHANGED <<row, phase>>
    BY <1>4, StepMoves DEF WatcherStep, Take, IInv, TypeOK
  <2>2. s \in todo[w] /\ todo'[w] = todo[w] \ {s} /\ cur[w] = None /\ cur'[w] = s
    BY <1>4 DEF Take, At, IInv, Shape, ShapeOf, HandEmpty, TypeOK, ControlTypeOK
  <2> QED
    BY <2>1, <2>2, WatcherAssumption DEF OnlyMoves, Idles, Held, Holds
<1>5. ASSUME NEW w \in Watchers,
             \/ EndTick(w) \/ EnsureSlug(w) \/ Pull(w) \/ RemoveOld(w) \/ RunContainer(w)
             \/ HealthCheck(w) \/ Publish(w) \/ Unpublish(w) \/ RemoveContainer(w)
             \/ RemoveSlug(w)
      PROVE  UNCHANGED <<row, Held>>
  BY <1>5, Stutter
  DEF EndTick, EnsureSlug, Pull, RemoveOld, RunContainer, HealthCheck, Publish,
      Unpublish, RemoveContainer, RemoveSlug, Fail, Goto
<1>6. ASSUME NEW s \in Sites, Dashboard(s) PROVE Lifecycle!Next
  <2>1. UNCHANGED Held
    BY <1>6 DEF Dashboard, Held, Holds
  <2>2. Lifecycle!Request(s)
    BY <1>6, <2>1
    DEF Dashboard, Insert, RequestTeardown, Requeue, Ask, Update, Lifecycle!Request,
        Lifecycle!Becomes
  <2> QED
    BY <2>2 DEF Lifecycle!Next
<1>7. ASSUME NEW h \in Hosts, NEW s \in Sites, ContainerDies(h, s) PROVE UNCHANGED <<row, Held>>
  BY <1>7, Stutter DEF ContainerDies
<1>8. CASE UNCHANGED vars
  BY <1>8, Stutter DEF vars
<1> QED
  BY <1>1, <1>2, <1>3, <1>4, <1>5, <1>6, <1>7, <1>8, SaveAnswers DEF Next, WatcherStep

(* ImplementsLifecycle: the watchers, with every fault and restart, refine  *)
(* SiteLifecycle.                                                           *)
THEOREM ImplementsLifecycle == ASSUME ExclusiveScopes PROVE Spec => LifecycleSpec
<1>1. IInv /\ [Next]_vars => [Lifecycle!Next]_<<row, Held>>
  BY LifecycleStep
<1> QED
  BY HeldInit, Invariance, <1>1, PTL DEF Spec, LifecycleSpec, Lifecycle!Spec, Lifecycle!vars

=============================================================================
