------------------------------ MODULE MCBilling ------------------------------
(* Instances of Billing for TLC at the default prices.  An event reports    *)
(* 1,001,000 requests, which on the starter plan is a thousand past what is *)
(* included and half a cent, or 600 runs, of which two events are past it.  *)
EXTENDS BillingInv, Plans

CONSTANTS a, b, a1, a2, b1

ApiAndRuns == {"api_request", "agent_run"}
RunsOnly == {"agent_run"}
EventSizes == [k \in Kinds |-> IF k = "api_request" THEN 1001000 ELSE 600]

OneSiteEach == [s \in Sites |-> IF s = b1 THEN b ELSE a]
AllStarter == [s \in Sites |-> "starter"]

Prices == [p \in Plans |-> [k \in Kinds |-> DefaultPrices[p][k]]]
Inclusions == [p \in Plans |-> [k \in Kinds |-> DefaultIncluded[p][k]]]

=============================================================================
