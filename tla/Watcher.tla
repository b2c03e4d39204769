------------------------------ MODULE Watcher -------------------------------
(***************************************************************************)
(* The provisioning control loop: watchers poll the Site table and drive   *)
(* each pending Site through DNS, docker and the edge port map to Running, *)
(* and each deprovisioning Site back down to Stopped.                      *)
(*                                                                         *)
(* One action is one call that leaves the process (a listing, a DNS or     *)
(* docker call, an Update) together with the assignments around it, so the *)
(* dashboard, the other watchers, a crash and a tenant's own exit fall     *)
(* between any two calls.                                                  *)
(***************************************************************************)
EXTENDS SiteRepo, DockerHost, FiniteSets

CONSTANTS
  Watchers,     \* Watcher values, each in a process of its own with an edge
  HostOf,       \* HostOf[w]: the host w's Provisioner and edge run on
  Scope,        \* Scope[w]: Watcher.Region, NoRegion when empty
  Region,       \* Region[s]: the Site's Region, NoRegion when unplaced
  NoRegion,
  DNSOn,        \* Watcher.DNS # nil
  Faults,       \* the kinds of call that may fail
  MaxFaults,    \* bounds on failed calls, crashes of watcher processes and
  MaxCrashes,   \* tenants' processes that exit
  MaxDeaths,
  None          \* "no site in hand", "no copy"

FaultKinds == {"list", "dns", "docker", "update"}

ASSUME WatcherAssumption ==
  /\ HostOf \in [Watchers -> Hosts]
  /\ DNSOn \in BOOLEAN
  /\ Faults \subseteq FaultKinds
  /\ MaxFaults \in Nat /\ MaxCrashes \in Nat /\ MaxDeaths \in Nat
  /\ None \notin Sites \cup SiteStatus

VARIABLES
  zone,     \* slugs with an A record that points at the edge
  port,     \* port[w]: slugs published in the port map of w's process
  pc,       \* pc[w]: the next call of w
  phase,    \* phase[w]: which of the two listings of tick is drained
  todo,     \* todo[w]: listed sites not taken yet (Go map/SQL order: any)
  cur,      \* cur[w]: the site in hand
  copy,     \* copy[w]: Status of the private copy of the site in hand, or None
  spent     \* budgets used: faults, crashes, deaths

vars == <<row, asks, box, zone, port, pc, phase, todo, cur, copy, spent>>

ProvisionPC == {"dns", "pull", "clear", "run", "health", "publish"}
DeprovisionPC == {"unpublish", "remove", "undns"}
PC == {"idle", "loop", "save"} \cup ProvisionPC \cup DeprovisionPC
Phase == {"provision", "deprovision"}

PublishedTypeOK == zone \subseteq Sites /\ port \in [Watchers -> SUBSET Sites]

ControlTypeOK ==
  /\ pc \in [Watchers -> PC]
  /\ phase \in [Watchers -> Phase]
  /\ todo \in [Watchers -> SUBSET Sites]
  /\ cur \in [Watchers -> Sites \cup {None}]
  /\ copy \in [Watchers -> SiteStatus \cup {None}]

SpentTypeOK ==
  spent \in [faults : 0..MaxFaults, crashes : 0..MaxCrashes, deaths : 0..MaxDeaths]

(* TypeOK: the type invariant of the composed state, the Site table and the *)
(* docker hosts included.                                                   *)
TypeOK ==
  RepoTypeOK /\ BoxTypeOK /\ PublishedTypeOK /\ ControlTypeOK /\ SpentTypeOK

Init ==
  /\ RepoInit
  /\ BoxInit
  /\ zone = {}
  /\ port = [w \in Watchers |-> {}]
  /\ pc = [w \in Watchers |-> "idle"]
  /\ phase = [w \in Watchers |-> "provision"]
  /\ todo = [w \in Watchers |-> {}]
  /\ cur = [w \in Watchers |-> None]
  /\ copy = [w \in Watchers |-> None]
  /\ spent = [faults |-> 0, crashes |-> 0, deaths |-> 0]

(* Mutant: the scope is not looked at. *)
OwnsAll(w, s) == TRUE

(* The Region scope of Watcher.owns. *)
Owns(w, s) == Scope[w] = NoRegion \/ Region[s] = Scope[w]

(* Mutants: a listing without the status filter, one that lets only placed  *)
(* sites through, one that lets unplaced sites through.                    *)
ListedWhatever(w, st) == {s \in Sites : row[s] \notin {"absent", "stopped"} /\ Owns(w, s)}
ListedPlaced(w, st) == {s \in ByStatus(st) : Region[s] = Scope[w]}
ListedUnplaced(w, st) == {s \in ByStatus(st) : Owns(w, s) \/ Region[s] = NoRegion}

Listed(w, st) == {s \in ByStatus(st) : Owns(w, s)}

-----------------------------------------------------------------------------
(* Steps of a watcher's handlers. *)

At(w, l) == pc[w] = l

(* The call at l returns and the handler goes on at m. *)
Goto(w, l, m) ==
  /\ At(w, l)
  /\ pc' = [pc EXCEPT ![w] = m]
  /\ UNCHANGED <<phase, todo, cur>>

(* ... with a new Status in the private copy. *)
SetCopy(w, st) == copy' = [copy EXCEPT ![w] = st]

(* Mutant: a status the Site thread does not have. *)
FailAsError(w, l) == Goto(w, l, "save") /\ SetCopy(w, "error")

(* The call at l fails: the copy is marked Failed and goes to Update. *)
Fail(w, l) == Goto(w, l, "save") /\ SetCopy(w, "failed")

NoFault == UNCHANGED spent

Fault(kind) ==
  /\ kind \in Faults
  /\ spent.faults < MaxFaults
  /\ spent' = [spent EXCEPT !.faults = @ + 1]

-----------------------------------------------------------------------------
(* tick: list, then drain what was listed. *)

(* A listing puts the owned rows in todo, or nothing when it fails. *)
List(w, st) ==
  /\ \/ todo' = [todo EXCEPT ![w] = Listed(w, st)] /\ NoFault
     \/ todo' = [todo EXCEPT ![w] = {}] /\ Fault("list")
  /\ pc' = [pc EXCEPT ![w] = "loop"]
  /\ UNCHANGED <<row, asks, box, zone, port, cur, copy>>

Tick(w) ==
  /\ At(w, "idle")
  /\ phase' = [phase EXCEPT ![w] = "provision"]
  /\ List(w, "pending")

ListDeprovisioning(w) ==
  /\ At(w, "loop") /\ phase[w] = "provision" /\ todo[w] = {}
  /\ phase' = [phase EXCEPT ![w] = "deprovision"]
  /\ List(w, "deprovisioning")

EndTick(w) ==
  /\ At(w, "loop") /\ phase[w] = "deprovision" /\ todo[w] = {}
  /\ pc' = [pc EXCEPT ![w] = "idle"]
  /\ UNCHANGED <<row, asks, box, zone, port, phase, todo, cur, copy, spent>>

(* Mutant: deprovisioning sites are drained by provisionOne too. *)
FirstCallSamePath(ph) == IF DNSOn THEN "dns" ELSE "pull"

FirstCall(ph) ==
  IF ph = "deprovision" THEN "unpublish" ELSE IF DNSOn THEN "dns" ELSE "pull"

(* The next listed site; the row is not read again.  A step runs on to the  *)
(* next call: without DNS the copy is marked Provisioning for docker pull.  *)
Take(w, s) ==
  /\ At(w, "loop") /\ s \in todo[w]
  /\ todo' = [todo EXCEPT ![w] = @ \ {s}]
  /\ cur' = [cur EXCEPT ![w] = s]
  /\ copy' = [copy EXCEPT ![w] =
                IF phase[w] = "deprovision" THEN "deprovisioning"
                ELSE IF DNSOn THEN "pending" ELSE "provisioning"]
  /\ pc' = [pc EXCEPT ![w] = FirstCall(phase[w])]
  /\ UNCHANGED <<row, asks, box, zone, port, phase, spent>>

-----------------------------------------------------------------------------
(* provisionOne and the Provisioner's Provision. *)

(* Mutant: a failed EnsureSlug is logged and the container is started. *)
EnsureSlugLogged(w) ==
  /\ Goto(w, "dns", "pull") /\ SetCopy(w, "provisioning")
  /\ \/ zone' = zone \cup {cur[w]} /\ NoFault
     \/ UNCHANGED zone /\ Fault("dns")
  /\ UNCHANGED <<row, asks, box, port>>

(* A failed Upsert may still have reached the zone. *)
EnsureSlug(w) ==
  /\ \/ /\ Goto(w, "dns", "pull") /\ SetCopy(w, "provisioning") /\ NoFault
        /\ zone' = zone \cup {cur[w]}
     \/ /\ Fail(w, "dns") /\ Fault("dns")
        /\ zone' \in {zone, zone \cup {cur[w]}}
  /\ UNCHANGED <<row, asks, box, port>>

Pull(w) ==
  /\ \/ Goto(w, "pull", "clear") /\ UNCHANGED copy /\ NoFault
     \/ Fail(w, "pull") /\ Fault("docker")
  /\ UNCHANGED <<row, asks, box, zone, port>>

(* Mutant: whatever holds the host port is removed to make room. *)
RemoveOldByPort(w) ==
  /\ Goto(w, "clear", "run")
  /\ \/ /\ \E s \in PortHolders(HostOf[w]) \cup {cur[w]} : Rm(HostOf[w], s)
        /\ NoFault
     \/ UNCHANGED box /\ Fault("docker")
  /\ UNCHANGED <<row, asks, zone, port, copy>>

(* docker rm -f of the previous container; its outcome is not looked at. *)
RemoveOld(w) ==
  /\ Goto(w, "clear", "run")
  /\ \/ Rm(HostOf[w], cur[w]) /\ NoFault
     \/ UNCHANGED box /\ Fault("docker")
  /\ UNCHANGED <<row, asks, zone, port, copy>>

RunContainer(w) ==
  /\ \/ /\ Goto(w, "run", "health") /\ UNCHANGED copy /\ NoFault
        /\ RunStarts(HostOf[w], cur[w])
     \/ /\ Fail(w, "run") /\ NoFault
        /\ RunRefused(HostOf[w], cur[w])
     \/ /\ Fail(w, "run") /\ Fault("docker")
        /\ RunInterrupted(HostOf[w], cur[w])
  /\ UNCHANGED <<row, asks, zone, port>>

(* Mutant: the route is set however the health check ended. *)
HealthCheckIgnored(w) ==
  /\ Goto(w, "health", "publish")
  /\ \/ box[HostOf[w]][cur[w]] = "running" /\ SetCopy(w, "running") /\ NoFault
     \/ SetCopy(w, "failed") /\ Fault("docker")
  /\ UNCHANGED <<row, asks, box, zone, port>>

(* The polls of one health check: one of them sees the container running,  *)
(* or the deadline passes.  A failing inspect counts as "not running".     *)
HealthCheck(w) ==
  /\ \/ /\ Goto(w, "health", "publish") /\ SetCopy(w, "running") /\ NoFault
        /\ box[HostOf[w]][cur[w]] = "running"
     \/ /\ Fail(w, "health") /\ NoFault
        /\ box[HostOf[w]][cur[w]] # "running"
     \/ Fail(w, "health") /\ Fault("docker")
  /\ UNCHANGED <<row, asks, box, zone, port>>

(* Mutants: PortMap.Set is forgotten, on the way up or on the way down. *)
PublishForgotten(w) ==
  Goto(w, "publish", "save") /\ UNCHANGED <<repoVars, box, zone, port, copy, spent>>
UnpublishForgotten(w) ==
  Goto(w, "unpublish", "remove") /\ UNCHANGED <<repoVars, box, zone, port, copy, spent>>

(* Mutant: the port map is replaced, not extended. *)
PublishAlone(w) ==
  /\ Goto(w, "publish", "save")
  /\ port' = [port EXCEPT ![w] = {cur[w]}]
  /\ UNCHANGED <<row, asks, box, zone, copy, spent>>

Publish(w) ==
  /\ Goto(w, "publish", "save")
  /\ port' = [port EXCEPT ![w] = @ \cup {cur[w]}]
  /\ UNCHANGED <<row, asks, box, zone, copy, spent>>

-----------------------------------------------------------------------------
(* deprovisionOne and the Provisioner's Deprovision. *)

Unpublish(w) ==
  /\ Goto(w, "unpublish", "remove")
  /\ port' = [port EXCEPT ![w] = @ \ {cur[w]}]
  /\ UNCHANGED <<row, asks, box, zone, copy, spent>>

(* Mutant: the record is forgotten. *)
AfterRemoveSave == "save"

AfterRemove == IF DNSOn THEN "undns" ELSE "save"

(* Mutants: a failed docker rm is logged and the site marked Stopped; a    *)
(* removed container leaves the status as it was.                          *)
RemoveContainerLogged(w) ==
  /\ Goto(w, "remove", AfterRemove) /\ SetCopy(w, "stopped")
  /\ \/ Rm(HostOf[w], cur[w]) /\ NoFault
     \/ UNCHANGED box /\ Fault("docker")
  /\ UNCHANGED <<row, asks, zone, port>>

RemoveContainerUnmarked(w) ==
  /\ \/ Goto(w, "remove", AfterRemove) /\ UNCHANGED copy /\ NoFault
        /\ Rm(HostOf[w], cur[w])
     \/ /\ Fail(w, "remove") /\ Fault("docker")
        /\ UNCHANGED box \/ Rm(HostOf[w], cur[w])
  /\ UNCHANGED <<row, asks, zone, port>>

(* A failed docker rm may still have removed the container. *)
RemoveContainer(w) ==
  /\ \/ /\ Goto(w, "remove", AfterRemove) /\ SetCopy(w, "stopped") /\ NoFault
        /\ Rm(HostOf[w], cur[w])
     \/ /\ Fail(w, "remove") /\ Fault("docker")
        /\ UNCHANGED box \/ Rm(HostOf[w], cur[w])
  /\ UNCHANGED <<row, asks, zone, port>>

(* RemoveSlug; a failure is logged and the teardown goes on. *)
RemoveSlug(w) ==
  /\ Goto(w, "undns", "save")
  /\ \/ zone' = zone \ {cur[w]} /\ NoFault
     \/ zone' \in {zone, zone \ {cur[w]}} /\ Fault("dns")
  /\ UNCHANGED <<row, asks, box, port, copy>>

-----------------------------------------------------------------------------
(* The Update that ends either handler; its error is dropped. *)
Save(w) ==
  /\ At(w, "save")
  /\ \/ Update(cur[w], copy[w]) /\ NoFault
     \/ UNCHANGED repoVars /\ Fault("update")
  /\ pc' = [pc EXCEPT ![w] = "loop"]
  /\ cur' = [cur EXCEPT ![w] = None]
  /\ copy' = [copy EXCEPT ![w] = None]
  /\ UNCHANGED <<box, zone, port, phase, todo>>

(* The process dies and is started again: the tick in progress and the      *)
(* in-memory port map are gone, containers and records stay.                *)
Crash(w) ==
  /\ spent.crashes < MaxCrashes
  /\ spent' = [spent EXCEPT !.crashes = @ + 1]
  /\ pc' = [pc EXCEPT ![w] = "idle"]
  /\ todo' = [todo EXCEPT ![w] = {}]
  /\ cur' = [cur EXCEPT ![w] = None]
  /\ copy' = [copy EXCEPT ![w] = None]
  /\ port' = [port EXCEPT ![w] = {}]
  /\ UNCHANGED <<row, asks, box, zone, phase>>

(* A tenant's process exits; nobody watches it after the health check. *)
ContainerDies(h, s) ==
  /\ spent.deaths < MaxDeaths
  /\ spent' = [spent EXCEPT !.deaths = @ + 1]
  /\ Exits(h, s)
  /\ UNCHANGED <<row, asks, zone, port, pc, phase, todo, cur, copy>>

Dashboard(s) ==
  /\ Insert(s) \/ RequestTeardown(s) \/ Requeue(s)
  /\ UNCHANGED <<box, zone, port, pc, phase, todo, cur, copy, spent>>

-----------------------------------------------------------------------------
WatcherStep(w) ==
  \/ Tick(w) \/ ListDeprovisioning(w) \/ EndTick(w)
  \/ \E s \in Sites : Take(w, s)
  \/ EnsureSlug(w) \/ Pull(w) \/ RemoveOld(w) \/ RunContainer(w)
  \/ HealthCheck(w) \/ Publish(w)
  \/ Unpublish(w) \/ RemoveContainer(w) \/ RemoveSlug(w)
  \/ Save(w)

Next ==
  \/ \E w \in Watchers : WatcherStep(w) \/ Crash(w)
  \/ \E s \in Sites : Dashboard(s)
  \/ \E h \in Hosts, s \in Sites : ContainerDies(h, s)

Spec == Init /\ [][Next]_vars

(* The ticker keeps firing and every call returns (docker inspect within   *)
(* the health check's deadline, HTTP within its client's); a crash and the *)
(* dashboard are never obliged to happen.                                  *)
FairSpec == Spec /\ \A w \in Watchers : WF_vars(WatcherStep(w))

-----------------------------------------------------------------------------
(* Properties. *)

(* w has s listed or in hand in the draining of phase ph. *)
Holds(w, ph, s) == phase[w] = ph /\ s \in todo[w] \cup {cur[w]}

(* The deployments the doc of Watcher.Region asks for: one watcher a site.  *)
ExclusiveScopes ==
  \A v, w \in Watchers, s \in Sites : Owns(v, s) /\ Owns(w, s) => v = w

(* The statuses a reader of the Site table may be shown for s: the row, or, *)
(* from MemorySiteRepo, which hands out the pointers it stores, whatever    *)
(* the watcher that has s in hand has assigned to it so far.                *)
Shown(s) == {row[s]} \cup {copy[w] : w \in {v \in Watchers : cur[v] = s}}

(* RunningIsBacked: a Site the dashboard shows as Running has a container   *)
(* that was started on its watcher's host and, with DNS on, an A record,    *)
(* whatever calls failed, wherever the process was restarted and whichever  *)
(* SiteRepo is read.                                                        *)
RunningIsBacked ==
  \A w \in Watchers, s \in Sites :
    Owns(w, s) /\ "running" \in Shown(s) =>
      /\ box[HostOf[w]][s] \in {"running", "exited"}
      /\ DNSOn => s \in zone

(* RunningIsPublished: the edge next to its watcher routes a Running Site,  *)
(* until a restart empties the port map.                                    *)
RunningIsPublished ==
  \A w \in Watchers, s \in Sites :
    Owns(w, s) /\ row[s] = "running" /\ spent.crashes = 0 => s \in port[w]

(* PublishedIsRecorded: with DNS on, a published slug resolves: the record  *)
(* is there before the route and outlives it, through failed calls and      *)
(* restarts.                                                                *)
PublishedIsRecorded == DNSOn => \A w \in Watchers : port[w] \subseteq zone

(* OnlyTeardownUnpublishes: a route leaves a port map with a restart of its *)
(* process, which takes them all, or in the teardown of its own site.       *)
OnlyTeardownUnpublishes ==
  [][\A w \in Watchers : \A s \in port[w] :
       s \notin port'[w] => row[s] = "deprovisioning" \/ spent'.crashes > spent.crashes]_vars

(* StoppedIsGone: once a Site is shown as Stopped no container of it is     *)
(* left on any host and no edge routes to it.                               *)
StoppedIsGone ==
  \A s \in Sites : "stopped" \in Shown(s) =>
    /\ \A h \in Hosts : box[h][s] = "absent"
    /\ \A w \in Watchers : s \notin port[w]

(* GhostsAreFaults: deprovisionOne goes on to Stopped when RemoveSlug       *)
(* fails, so a Stopped Site may keep its record for good; but there are     *)
(* never more such records than calls have failed: no restart, retry or     *)
(* teardown begun twice leaves one behind.                                  *)
GhostsAreFaults == Cardinality({s \in zone : row[s] = "stopped"}) <= spent.faults

(* FailedNotPublished: the port map does not publish a Failed slug.         *)
FailedNotPublished ==
  \A w \in Watchers, s \in Sites : row[s] = "failed" => s \notin port[w]

(* RoutedHome: the edge proxies every published slug to the one host port,  *)
(* so whatever container holds that port is the slug's own, until a         *)
(* container exits and leaves its route behind.                             *)
RoutedHome ==
  spent.deaths = 0 =>
    \A w \in Watchers : \A s \in port[w] : PortHolders(HostOf[w]) \subseteq {s}

(* NoDoubleProvision: region-scoped watchers never have containers of one   *)
(* Site on two hosts.                                                       *)
NoDoubleProvision ==
  \A s \in Sites : \A g, h \in Hosts :
    box[g][s] # "absent" /\ box[h][s] # "absent" => g = h

(* UnplacedUntouched: a Site outside every watcher's scope is never acted   *)
(* on: no container, no record, no route.                                   *)
UnplacedUntouched ==
  \A s \in Sites : (\A w \in Watchers : ~Owns(w, s)) =>
    /\ s \notin zone
    /\ \A h \in Hosts : box[h][s] = "absent"
    /\ \A w \in Watchers : s \notin port[w]

(* A teardown request no provisioning pass can still overwrite. *)
TeardownSafe(s) ==
  row[s] = "deprovisioning" /\ \A w \in Watchers : ~Holds(w, "provision", s)

(* TeardownNotLost: such a request is only ever answered by Stopped or      *)
(* Failed; no watcher turns the Site back into a live one.                  *)
TeardownNotLost ==
  [][\A s \in Sites : TeardownSafe(s) =>
       row'[s] \in {"deprovisioning", "stopped", "failed"}]_vars

(* PendingIsDecided: a pending Site some watcher owns is eventually taken   *)
(* out of pending, as long as only finitely many calls fail.                *)
PendingIsDecided ==
  \A s \in Sites :
    row[s] = "pending" /\ (\E w \in Watchers : Owns(w, s)) ~> row[s] # "pending"

(* TeardownIsDecided: a teardown request made while no provisioning pass    *)
(* holds the Site eventually ends in Stopped or Failed.                     *)
TeardownIsDecided ==
  \A s \in Sites :
    TeardownSafe(s) /\ (\E w \in Watchers : Owns(w, s)) ~> row[s] \in {"stopped", "failed"}

(* TeardownRequestIsDecided: every teardown request on an owned Site does.  *)
TeardownRequestIsDecided ==
  \A s \in Sites :
    row[s] = "deprovisioning" /\ (\E w \in Watchers : Owns(w, s)) ~> row[s] \in {"stopped", "failed"}

=============================================================================
