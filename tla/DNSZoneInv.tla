----------------------------- MODULE DNSZoneInv -----------------------------
(***************************************************************************)
(* The inductive invariants behind the properties of DNSZone: of any       *)
(* callers, of callers that Agree, and of callers that are Apart.          *)
(***************************************************************************)
EXTENDS DNSZone

-----------------------------------------------------------------------------
(* Any callers. *)

IdsTell == \A r, q \in zone : r.id = q.id => r = q

(* The zone refuses a second record of the same name and address.           *)
PairsTell == \A r, q \in zone : r.name = q.name /\ r.ip = q.ip => r = q

(* Records are only written for slugs the caller was asked about.           *)
Asked(c) ==
  /\ \A t \in todo[c] : t.ip # None => t.name \in Fleet[c] /\ t.ip \in Addresses(c)
  /\ pc[c] = "list" \/ want[c] # None => want[c] \subseteq Fleet[c]

(* A job has no result until it ends.  A write is of a call still to do, to *)
(* a record that has its name, if it is still there.                        *)
InWork(c) ==
  /\ pc[c] # "idle" => result[c] = "none"
  /\ pc[c] = "write" =>
       /\ cur[c] \in todo[c]
       /\ cur[c].ip = None => found[c] # None
       /\ \A r \in zone : r.id = found[c] => r.name = cur[c].name

ZoneInv == TypeOK /\ IdsTell /\ PairsTell /\ \A c \in Clients : Asked(c) /\ InWork(c)

-----------------------------------------------------------------------------
(* Callers that Agree. *)

NamesTell == \A r, q \in zone : r.name = q.name => r = q

(* What was created since the lookup found nothing has the same address.    *)
Unfound(c) ==
  pc[c] = "write" /\ found[c] = None => \A r \in zone : r.name = cur[c].name => r.ip = cur[c].ip

OneInv == ZoneInv /\ NamesTell /\ \A c \in Clients : Unfound(c)

-----------------------------------------------------------------------------
(* Callers that are Apart. *)

(* No other fleet's slug is at the edge of c.                               *)
OwnEdge(c) == \A d \in Clients : \A r \in zone : d # c /\ r.name \in Fleet[d] => r.ip # EdgeIP[c]

(* What c still has to delete is its own, by the slug or by the address.    *)
OwnWork(c) ==
  \A t \in todo[c] :
    \/ t.name \in Fleet[c]
    \/ /\ \A d \in Clients : t.name \notin Fleet[d]
       /\ \A r \in zone : r.name = t.name => r.ip = EdgeIP[c]

(* The pages read tell what is at the edge: all of it on them, unless a     *)
(* record was deleted meanwhile.                                            *)
Reading(c) ==
  /\ pc[c] # "list" => page[c] = 1 /\ mine[c] = {}
  /\ \A n \in mine[c] : AtEdge(c, n)
  /\ pc[c] = "list" /\ ~slipped[c] =>
       \A r \in zone : r.ip = EdgeIP[c] /\ Position(r) <= (page[c] - 1) * PageSize
                      => r.name \in mine[c]

Due(c, n) == \E t \in todo[c] : t.name = n

(* Reconcile's drift is what it has still to do.                            *)
Converging(c) ==
  want[c] # None /\ pc[c] \in {"work", "write"} =>
    /\ \A n \in want[c] : AtEdge(c, n) \/ Due(c, n)
    /\ \A n \in Names : AtEdge(c, n) => n \in want[c] \/ slipped[c] \/ Due(c, n)
    /\ \A t \in todo[c] : IF t.ip = None THEN t.name \notin want[c]
                          ELSE t.name \in want[c] /\ t.ip = EdgeIP[c]

ApartInv ==
  OneInv /\ \A c \in Clients : OwnEdge(c) /\ OwnWork(c) /\ Reading(c) /\ Converging(c)

=============================================================================
