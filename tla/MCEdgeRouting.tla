--------------------------- MODULE MCEdgeRouting ----------------------------
(* An instance of EdgeRouting for TLC: an edge in each of three regions, of *)
(* which the first has not been told of the third.                          *)
EXTENDS EdgeRouting, TLC

CONSTANTS e1, e2, e3, r1, r2, r3, s1, q1

EdgePerRegion == (e1 :> r1) @@ (e2 :> r2) @@ (e3 :> r3)
AllButOneWired ==
  [e \in Edges |-> (r1 :> e1) @@ (r2 :> e2) @@ (r3 :> IF e = e1 THEN None ELSE e3)]

=============================================================================
