----------------------------- MODULE WatcherInv -----------------------------
(***************************************************************************)
(* The inductive invariants behind Watcher's safety properties.  Shape     *)
(* holds for any deployment; IInv needs ExclusiveScopes.                   *)
(***************************************************************************)
EXTENDS Watcher

HandEmpty(w) == pc[w] \in {"idle", "loop"}

(* How a watcher's control state, hand and private copy go together. *)
ShapeOf(w) ==
  /\ cur[w] = None <=> HandEmpty(w)
  /\ cur[w] \notin todo[w]
  /\ pc[w] = "idle" => todo[w] = {}
  /\ pc[w] \in ProvisionPC => phase[w] = "provision"
  /\ pc[w] \in DeprovisionPC => phase[w] = "deprovision"
  /\ pc[w] = "publish" => copy[w] = "running"
  /\ pc[w] = "undns" => copy[w] = "stopped"
  /\ copy[w] = "running" => pc[w] \in {"publish", "save"}
  /\ copy[w] = "stopped" => pc[w] \in {"undns", "save"}
  /\ pc[w] = "save" =>
       copy[w] \in {"failed", IF phase[w] = "provision" THEN "running" ELSE "stopped"}

Shape == \A w \in Watchers : ShapeOf(w)

(* Watchers touch only what they own, wherever it is kept. *)
OwnWork == \A w \in Watchers : \A s \in todo[w] \cup port[w] : Owns(w, s)
OwnHand == \A w \in Watchers : ~HandEmpty(w) => Owns(w, cur[w])
OwnBoxes ==
  \A h \in Hosts, s \in Sites : box[h][s] # "absent" =>
    \E w \in Watchers : Owns(w, s) /\ HostOf[w] = h
OwnRecords == \A s \in zone : \E w \in Watchers : Owns(w, s)

(* A listed site's row has not been settled since it was listed. *)
Unsettled(ph) ==
  IF ph = "provision" THEN {"pending", "deprovisioning"} ELSE {"deprovisioning"}

WorkUnsettled ==
  \A w \in Watchers, s \in Sites :
    s \in todo[w] \cup {cur[w]} => row[s] \in Unsettled(phase[w])

(* What the calls made so far have left behind. *)
Backed(w, s) ==
  /\ box[HostOf[w]][s] \in {"running", "exited"}
  /\ DNSOn => s \in zone

Progress(w) ==
  /\ DNSOn /\ pc[w] \in ProvisionPC \ {"dns"} => cur[w] \in zone
  /\ pc[w] \in {"health", "publish"} => Backed(w, cur[w])
  /\ pc[w] = "save" /\ copy[w] = "running" => Backed(w, cur[w])
  /\ pc[w] \in {"remove", "undns"} => cur[w] \notin port[w]
  /\ pc[w] = "undns" \/ (pc[w] = "save" /\ copy[w] = "stopped") =>
       /\ box[HostOf[w]][cur[w]] = "absent"
       /\ cur[w] \notin port[w]

AllProgress == \A w \in Watchers : Progress(w)

(* What the rows promise. *)
RowsBacked ==
  \A w \in Watchers, s \in Sites : Owns(w, s) /\ row[s] = "running" => Backed(w, s)
RowsGone ==
  \A s \in Sites : row[s] = "stopped" =>
    /\ \A h \in Hosts : box[h][s] = "absent"
    /\ \A w \in Watchers : s \notin port[w]

(* IInv: the inductive invariant of RunningIsBacked, StoppedIsGone and      *)
(* PublishedIsRecorded; it relates every watcher's place in its handler to  *)
(* the Site table, the docker hosts, the zone and the port maps.            *)
IInv ==
  /\ TypeOK
  /\ Shape
  /\ OwnWork /\ OwnHand /\ OwnBoxes /\ OwnRecords
  /\ WorkUnsettled
  /\ AllProgress
  /\ RowsBacked /\ RowsGone
  /\ PublishedIsRecorded

-----------------------------------------------------------------------------
(* Routes, beyond IInv. *)

(* PublishInv: a route is set before the row says so, and the row loses it  *)
(* before the route goes, until a restart empties the port map.             *)
PublishInv ==
  /\ \A w \in Watchers : pc[w] = "save" /\ copy[w] = "running" => cur[w] \in port[w]
  /\ RunningIsPublished

(* UpdatesLand: no Update is lost, and a Running Site is not sent back to   *)
(* pending past its watcher.  Either leaves a route behind whose row says   *)
(* otherwise.                                                               *)
UpdatesLand == "update" \notin Faults /\ "running" \notin RequeueFrom

(* A site that is listed to be provisioned, or not there yet, has no route; *)
(* nor has one whose pass ends otherwise than Running.                      *)
Unrouted(w) ==
  /\ phase[w] = "provision" => todo[w] \cap port[w] = {}
  /\ pc[w] \in ProvisionPC \/ (pc[w] = "save" /\ copy[w] # "running") => cur[w] \notin port[w]

RowsRouted ==
  \A w \in Watchers : \A s \in port[w] : row[s] \in {"running", "deprovisioning"} \/ cur[w] = s

(* One container of a host runs at most; none exits unseen; while none has, *)
(* what is published is running.                                            *)
OnePort ==
  \A h \in Hosts : \A s, t \in Sites : box[h][s] = "running" /\ box[h][t] = "running" => s = t
ExitsCounted == spent.deaths = 0 => \A h \in Hosts, s \in Sites : box[h][s] # "exited"
RoutedRuns ==
  spent.deaths = 0 => \A w \in Watchers : \A s \in port[w] : box[HostOf[w]][s] = "running"

(* RouteInv: the inductive invariant of FailedNotPublished and RoutedHome.  *)
RouteInv ==
  /\ \A w \in Watchers : Unrouted(w)
  /\ RowsRouted
  /\ OnePort /\ ExitsCounted /\ RoutedRuns

-----------------------------------------------------------------------------
(* Records that outlive their site, beyond IInv. *)

(* The ghosts there are, and those a Save is about to make.                 *)
Leaving(w, s) == cur[w] = s /\ pc[w] = "save" /\ copy[w] = "stopped"
Ghosts == {s \in zone : row[s] = "stopped" \/ \E w \in Watchers : Leaving(w, s)}

(* GhostInv: the inductive invariant of GhostsAreFaults.                    *)
GhostInv ==
  /\ IsFiniteSet(zone)
  /\ ~DNSOn => zone = {} /\ \A w \in Watchers : pc[w] \notin {"dns", "undns"}
  /\ Cardinality(Ghosts) <= spent.faults

=============================================================================
