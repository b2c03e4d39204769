----------------------------- MODULE MCDNSZone ------------------------------
(* Instances of DNSZone for TLC: a manager of a regional fleet of two slugs *)
(* next to another fleet of one; two threads of one manager.                *)
EXTENDS DNSZoneInv, TLC

CONSTANTS c1, c2, n1, n2, n3, edge, east, other

TwoFleets == (c1 :> {n1, n2}) @@ (c2 :> {n3})
TwoEdges == (c1 :> edge) @@ (c2 :> other)
OneRegional == (c1 :> {east}) @@ (c2 :> {})

OneFleet == [c \in Clients |-> Names]
OneEdge == [c \in Clients |-> edge]
Unregional == [c \in Clients |-> {}]

=============================================================================
