------------------------------ MODULE MCWatcher ------------------------------
(* Instances of Watcher for TLC. *)
EXTENDS WatcherLifecycle, TLC

CONSTANTS w1, w2, s1, s2, s3, h1, h2, r1, r2

SettledStatuses == {"running", "failed", "stopped"}
OnlyFailed == {"failed"}
NoStatuses == {}
EveryFault == {"list", "dns", "docker", "update"}
ButUpdateFault == {"list", "dns", "docker"}
NoFaults == {}

(* One unscoped watcher on one host, or two of them. *)
SameHost == [w \in Watchers |-> h1]
Unscoped == [w \in Watchers |-> NoRegion]
Unplaced == [s \in Sites |-> NoRegion]

(* One watcher and one host a region; s1 and s2 placed, s3 not. *)
RegionHosts == (w1 :> h1) @@ (w2 :> h2)
RegionScopes == (w1 :> r1) @@ (w2 :> r2)
Placement == (s1 :> r1) @@ (s2 :> r2) @@ (s3 :> NoRegion)

SiteSymmetry == Permutations(Sites)

=============================================================================
