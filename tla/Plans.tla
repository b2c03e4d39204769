------------------------------- MODULE Plans --------------------------------
(***************************************************************************)
(* The default price table and included quantities of package billing, in  *)
(* hundred-thousandths of a cent so that every default price is a whole    *)
(* number: $0.000005 for a request is 50 of them.  0 stands for a kind     *)
(* without an entry.                                                       *)
(***************************************************************************)
EXTENDS Naturals

UnitsPerCent == 100000

PlanNames == {"free", "starter", "pro", "enterprise"}

Rates(request, agentRun, gbHour) ==
  [api_request |-> request, agent_run |-> agentRun, storage_gb_hour |-> gbHour]

DefaultPrices ==
  [free       |-> Rates(0, 0, 0),
   starter    |-> Rates(50, 10000, 1500),
   pro        |-> Rates(30, 8000, 1000),
   enterprise |-> Rates(10, 5000, 500)]

DefaultIncluded ==
  [free       |-> Rates(100000, 100, 0),
   starter    |-> Rates(1000000, 1000, 0),
   pro        |-> Rates(5000000, 10000, 0),
   enterprise |-> Rates(0, 0, 0)]

=============================================================================
