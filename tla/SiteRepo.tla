------------------------------ MODULE SiteRepo ------------------------------
(***************************************************************************)
(* The Site table shared by the dashboard and the watchers.                *)
(*                                                                         *)
(* A row is reduced to its status: the status is the only field a watcher  *)
(* branches on.  Reads hand out private copies and Update overwrites the   *)
(* row without looking at it, which is what the SiteRepo interface says of *)
(* its production (SQL) implementation.  The dashboard and the operators   *)
(* are not part of the repository: Insert, RequestTeardown and Requeue are *)
(* the row changes the watcher's comments attribute to them.               *)
(***************************************************************************)
EXTENDS Hosting, Naturals

CONSTANTS
  RequeueFrom,  \* settled statuses an operator may send back to pending
  MaxAsks       \* bound on teardown and requeue requests

Settled == {"running", "failed", "stopped"}

ASSUME RepoAssumption ==
  /\ RequeueFrom \subseteq Settled
  /\ MaxAsks \in Nat

VARIABLES
  row,          \* row[s]: persisted status of s, "absent" before the INSERT
  asks          \* requests made so far

repoVars == <<row, asks>>

RepoTypeOK ==
  /\ row \in [Sites -> SiteStatus \cup {"absent"}]
  /\ asks \in 0..MaxAsks

RepoInit ==
  /\ row = [s \in Sites |-> "absent"]
  /\ asks = 0

(* The rows a listing by status returns. *)
ByStatus(st) == {s \in Sites : row[s] = st}

(* Update(ctx, site): the row takes the status of the caller's copy. *)
Update(s, st) ==
  /\ row' = [row EXCEPT ![s] = st]
  /\ UNCHANGED asks

-----------------------------------------------------------------------------
(* The dashboard and the operators. *)

Ask(s, st) ==
  /\ asks < MaxAsks
  /\ asks' = asks + 1
  /\ row' = [row EXCEPT ![s] = st]

Insert(s) ==
  /\ row[s] = "absent"
  /\ Update(s, "pending")

RequestTeardown(s) ==
  /\ row[s] \notin {"absent", "deprovisioning", "stopped"}
  /\ Ask(s, "deprovisioning")

Requeue(s) ==
  /\ row[s] \in RequeueFrom
  /\ Ask(s, "pending")

=============================================================================
