----------------------------- MODULE DockerHost -----------------------------
(***************************************************************************)
(* The docker daemons the Provisioner shells out to, one per host.         *)
(*                                                                         *)
(* A container is named after its site's slug, so box[h][s] is the one     *)
(* container of site s on host h.  Every container is started with         *)
(* "-p HostPort:HostPort" and all of them share the Provisioner's HostPort *)
(* (8080 by default), so a host runs at most one of them at a time: the    *)
(* daemon creates the next one and then refuses to start it.               *)
(***************************************************************************)
EXTENDS Hosting

CONSTANT Hosts

VARIABLE box

BoxState == {"absent", "created", "running", "exited"}

BoxTypeOK == box \in [Hosts -> [Sites -> BoxState]]

BoxInit == box = [h \in Hosts |-> [s \in Sites |-> "absent"]]

SetBox(h, s, b) == box' = [box EXCEPT ![h][s] = b]

(* The containers that hold the host port of h. *)
PortHolders(h) == {s \in Sites : box[h][s] = "running"}

(* docker rm -f: removes the container whatever its state; no error when   *)
(* there is none.                                                          *)
Rm(h, s) == SetBox(h, s, "absent")

(* docker run -d can only succeed when the name and the port are free. *)
CanRun(h, s) == box[h][s] = "absent" /\ PortHolders(h) = {}

RunStarts(h, s) == CanRun(h, s) /\ SetBox(h, s, "running")

(* A name conflict changes nothing; a port conflict leaves a container that *)
(* was created and never started.                                           *)
RunRefused(h, s) ==
  /\ ~CanRun(h, s)
  /\ SetBox(h, s, IF box[h][s] = "absent" THEN "created" ELSE box[h][s])

(* docker run was killed or timed out: it may have got to any point. *)
RunInterrupted(h, s) ==
  /\ CanRun(h, s)
  /\ \E b \in {"absent", "created", "running"} : SetBox(h, s, b)

(* The tenant's process ends; nothing restarts it. *)
Exits(h, s) == box[h][s] = "running" /\ SetBox(h, s, "exited")

=============================================================================
