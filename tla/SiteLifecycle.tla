--------------------------- MODULE SiteLifecycle ----------------------------
(***************************************************************************)
(* What the control loop promises the dashboard about a Site's status: a   *)
(* Site leaves pending or deprovisioning only as the answer to a request,  *)
(* and a request is answered by the pass that holds the Site.              *)
(*                                                                         *)
(* The one promise the loop does not make is visible in Answer: a pass     *)
(* that has held a Site since it was pending answers without reading the   *)
(* row again, so it may overrule a teardown requested in the meantime.     *)
(***************************************************************************)
EXTENDS Hosting

CONSTANT RequeueFrom   \* settled statuses an operator may send back to pending

VARIABLES
  row,    \* row[s]: status of s, "absent" before the INSERT
  held    \* the sites some provisioning pass has listed and not answered

vars == <<row, held>>

Init == row = [s \in Sites |-> "absent"] /\ held = {}

Becomes(s, S) == \E st \in S : row' = [row EXCEPT ![s] = st]

(* The dashboard's and the operators' requests. *)
Request(s) ==
  /\ UNCHANGED held
  /\ \/ row[s] = "absent" /\ Becomes(s, {"pending"})
     \/ row[s] \notin {"absent", "deprovisioning", "stopped"} /\ Becomes(s, {"deprovisioning"})
     \/ row[s] \in RequeueFrom /\ Becomes(s, {"pending"})

(* A pass lists pending sites, or lets go of some unanswered. *)
Claim(S) == S \subseteq {s \in Sites : row[s] = "pending"} /\ held' = held \cup S /\ UNCHANGED row
Release(S) == S \subseteq held /\ held' = held \ S /\ UNCHANGED row

(* The answer of the pass that holds s. *)
Answer(s) ==
  /\ s \in held /\ row[s] \in {"pending", "deprovisioning"}
  /\ held' = held \ {s}
  /\ Becomes(s, {"running", "failed"})

TearDown(s) ==
  /\ s \notin held /\ row[s] = "deprovisioning"
  /\ UNCHANGED held
  /\ Becomes(s, {"stopped", "failed"})

Next ==
  \/ \E s \in Sites : Request(s) \/ Answer(s) \/ TearDown(s)
  \/ \E S \in SUBSET Sites : Claim(S) \/ Release(S)

Spec == Init /\ [][Next]_vars

=============================================================================
