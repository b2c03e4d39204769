-------------------------- MODULE WatcherLifecycle --------------------------
(***************************************************************************)
(* The watchers implement SiteLifecycle: a Site is held when a watcher has *)
(* it listed or in hand in the provisioning half of a tick.                *)
(***************************************************************************)
EXTENDS WatcherInv

Held == {s \in Sites : \E w \in Watchers : Holds(w, "provision", s)}

Lifecycle == INSTANCE SiteLifecycle WITH held <- Held

(* LifecycleSpec: every change of the Site table and of what the passes     *)
(* hold is a step SiteLifecycle allows: no Site goes live without a pending *)
(* listing, and none is torn down while a provisioning pass holds it.       *)
LifecycleSpec == Lifecycle!Spec

=============================================================================
