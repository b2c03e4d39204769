------------------------------ MODULE Billing -------------------------------
(***************************************************************************)
(* Monthly billing: usage events are recorded per tenant, a cron job runs  *)
(* the Reconciler over the month that just ended, and the StripeInvoicer   *)
(* turns each active Site's usage into invoice items and an invoice.       *)
(*                                                                         *)
(* Every call to the usage store, the Site table or Stripe is an action,   *)
(* so usage is recorded, Sites come and go and the process may die between *)
(* any two of them.  Stripe is modelled from the calls made to it: an      *)
(* invoice takes every open item of its customer.                          *)
(***************************************************************************)
EXTENDS Integers, FiniteSets, Functions

CONSTANTS
  Sites, Tenants, Kinds, Plans,
  TenantOf,     \* TenantOf[s], PlanOf[s]: the SiteBillingInfo of s
  PlanOf,
  Price,        \* Price[p][k]: price of a unit, in 1/CentUnits of a cent,
                \* 0 where the price table has no entry
  Included,     \* Included[p][k]: free quantity a month
  CentUnits,
  Quantity,     \* Quantity[k]: what one usage event of kind k reports
  Customers,    \* the tenants CustomerLookup finds at Stripe
  MonthLen,     \* days a month
  MaxDay,       \* bounds on the calendar, on recorded events, on failed
  MaxEvents,    \* calls, on crashes and on runs by hand
  MaxFaults,
  MaxCrashes,
  MaxReruns,
  LateRecords,  \* may Record be called with an OccurredAt in the past?
  None

Days == 0..MaxDay
MonthOf(d) == d \div MonthLen
Months == 0..MonthOf(MaxDay)

ASSUME BillingAssumption ==
  /\ TenantOf \in [Sites -> Tenants]
  /\ PlanOf \in [Sites -> Plans]
  /\ Price \in [Plans -> [Kinds -> Nat]]
  /\ Included \in [Plans -> [Kinds -> Nat]]
  /\ Quantity \in [Kinds -> Nat \ {0}]
  /\ CentUnits \in Nat \ {0} /\ MonthLen \in Nat \ {0}
  /\ Customers \subseteq Tenants
  /\ MaxDay \in Nat /\ MaxEvents \in Nat /\ MaxReruns \in Nat
  /\ MaxFaults \in Nat /\ MaxCrashes \in Nat
  /\ LateRecords \in BOOLEAN
  /\ None \notin Sites

VARIABLES
  day,       \* today
  usage,     \* usage[t][k][d]: quantity recorded for day d
  active,    \* the Sites AllActive returns
  pc,        \* the Reconciler's next call, "idle" between runs
  run,       \* number of the current or last run
  period,    \* its month
  started,   \* the months the cron job was run for
  listed,    \* the Sites its AllActive returned
  queue,     \* those of them not taken yet (any order)
  site,      \* the one in hand
  totals,    \* its tenant's totals by kind, as Range returned them
  kinds,     \* the kinds left to charge (Go map order: any)
  failed,    \* <<run, site>>: "tenant reconcile failed" was logged
  items,     \* Stripe: the invoice items posted
  invoices,  \* Stripe: the invoices created, with the items they took
  finalized, \* Stripe: <<run, site>> of the finalized ones
  spent      \* budgets used: faults, crashes, reruns

calendar == <<day, usage, active>>
stripe == <<items, invoices, finalized>>
local == <<period, listed, site, totals, kinds>>
vars == <<day, usage, active, pc, run, period, started, listed, queue, site, totals,
          kinds, failed, items, invoices, finalized, spent>>

PC == {"idle", "list", "next", "range", "item", "finalize"}
MaxRuns == Cardinality(Months) + MaxReruns

Item == [id : Nat \ {0}, run : 1..MaxRuns, site : Sites, kind : Kinds, period : Months,
         cents : Nat \ {0}]
Invoice == [id : Nat \ {0}, run : 1..MaxRuns, site : Sites, period : Months,
            lines : SUBSET Item]

(* Locals of reconcileTenant before Range. *)
NoTotals == [k \in Kinds |-> 0]
Fresh == totals' = NoTotals /\ kinds' = {}

(* BillingTypeOK: the type invariant.                                      *)
BillingTypeOK ==
  /\ day \in Days
  /\ usage \in [Tenants -> [Kinds -> [Days -> Nat]]]
  /\ active \subseteq Sites
  /\ pc \in PC
  /\ run \in 0..MaxRuns
  /\ period \in Months
  /\ started \subseteq Months
  /\ listed \subseteq Sites /\ queue \subseteq Sites
  /\ site \in Sites \cup {None}
  /\ totals \in [Kinds -> Nat]
  /\ kinds \subseteq Kinds
  /\ failed \subseteq (1..MaxRuns) \X Sites
  /\ items \subseteq Item
  /\ invoices \subseteq Invoice
  /\ finalized \subseteq (1..MaxRuns) \X Sites
  /\ spent \in [faults : 0..MaxFaults, crashes : 0..MaxCrashes, reruns : 0..MaxReruns]

Init ==
  /\ day = 0
  /\ usage = [t \in Tenants |-> [k \in Kinds |-> [d \in Days |-> 0]]]
  /\ active \in SUBSET Sites
  /\ pc = "idle" /\ run = 0 /\ period = 0 /\ started = {}
  /\ listed = {} /\ queue = {} /\ site = None
  /\ totals = NoTotals /\ kinds = {}
  /\ failed = {} /\ items = {} /\ invoices = {} /\ finalized = {}
  /\ spent = [faults |-> 0, crashes |-> 0, reruns |-> 0]

Tenant == TenantOf[site]
ItemTenant(i) == TenantOf[i.site]

Fault ==
  /\ spent.faults < MaxFaults
  /\ spent' = [spent EXCEPT !.faults = @ + 1]

Goto(l, m) == pc = l /\ pc' = m

-----------------------------------------------------------------------------
(* The world around the Reconciler. *)

NextDay ==
  /\ day < MaxDay
  /\ day' = day + 1
  /\ UNCHANGED <<usage, active, pc, run, local, started, queue, failed, stripe, spent>>

(* How many events have been recorded. *)
Recorded ==
  LET eventsOf(t, k) == SumFunction(usage[t][k]) \div Quantity[k]
  IN SumFunction([t \in Tenants |-> SumFunction([k \in Kinds |-> eventsOf(t, k)])])

(* UsageStore.Record of one event, with OccurredAt on day d. *)
Record(t, k, d) ==
  /\ Recorded < MaxEvents
  /\ d = day \/ (LateRecords /\ d < day)
  /\ usage' = [usage EXCEPT ![t][k][d] = @ + Quantity[k]]
  /\ UNCHANGED <<day, active, pc, run, local, started, queue, failed, stripe, spent>>

(* A Site goes Running or stops being it. *)
Toggle(s) ==
  /\ active' = IF s \in active THEN active \ {s} ELSE active \cup {s}
  /\ UNCHANGED <<day, usage, pc, run, local, started, queue, failed, stripe, spent>>

-----------------------------------------------------------------------------
(* Reconcile. *)

Begin(m) ==
  /\ Goto("idle", "list")
  /\ run' = run + 1
  /\ period' = m
  /\ UNCHANGED <<calendar, listed, queue, site, totals, kinds, failed, stripe>>

(* The cron job, on the first of a month, closes the month before. *)
ScheduledJob ==
  LET thisMonth == MonthOf(day)
  IN /\ day % MonthLen = 0 /\ thisMonth > 0
     /\ thisMonth - 1 \notin started
     /\ started' = started \cup {thisMonth - 1}
     /\ Begin(thisMonth - 1)
     /\ UNCHANGED spent

(* An operator calls Reconcile again for a month the job was run for. *)
Rerun(m) ==
  /\ m \in started
  /\ spent.reruns < MaxReruns
  /\ spent' = [spent EXCEPT !.reruns = @ + 1]
  /\ Begin(m)
  /\ UNCHANGED started

(* AllActive; its failure ends the run. *)
ListSites ==
  /\ \/ Goto("list", "next") /\ listed' = active /\ UNCHANGED spent
     \/ Goto("list", "idle") /\ listed' = {} /\ Fault
  /\ queue' = listed'
  /\ UNCHANGED <<calendar, run, period, started, site, totals, kinds, failed, stripe>>

(* Mutant: the site stays queued, to be taken again. *)
TakeSiteKept(s) ==
  /\ s \in queue
  /\ Goto("next", "range")
  /\ site' = s
  /\ Fresh
  /\ UNCHANGED <<calendar, run, period, started, listed, queue, failed, stripe, spent>>

TakeSite(s) ==
  /\ s \in queue
  /\ Goto("next", "range")
  /\ site' = s
  /\ queue' = queue \ {s}
  /\ Fresh
  /\ UNCHANGED <<calendar, run, period, started, listed, failed, stripe, spent>>

EndRun ==
  /\ queue = {}
  /\ Goto("next", "idle")
  /\ site' = None
  /\ Fresh
  /\ UNCHANGED <<calendar, run, period, started, listed, queue, failed, stripe, spent>>

(* Mutant: the call is made again until it succeeds. *)
FailSiteRetried(l) == Goto(l, l) /\ UNCHANGED failed

(* A step of reconcileTenant fails: it is logged and the loop goes on. *)
FailSite(l) ==
  /\ Goto(l, "next")
  /\ failed' = failed \cup {<<run, site>>}

-----------------------------------------------------------------------------
(* reconcileTenant. *)

(* Mutants: the period without its first instant, or with its last.         *)
UsageInOpen(t, k, m) ==
  SumFunctionOnSet(usage[t][k], {d \in Days : m * MonthLen < d /\ d < (m + 1) * MonthLen})
UsageInClosed(t, k, m) ==
  SumFunctionOnSet(usage[t][k], {d \in Days : m * MonthLen <= d /\ d <= (m + 1) * MonthLen})

(* Range: what tenant t used of kind k in [Start, End) of month m. *)
UsageIn(t, k, m) ==
  SumFunctionOnSet(usage[t][k], {d \in Days : m * MonthLen <= d /\ d < (m + 1) * MonthLen})

RangeUsage ==
  /\ \/ /\ Goto("range", "item") /\ UNCHANGED <<failed, spent>>
        /\ totals' = [k \in Kinds |-> UsageIn(Tenant, k, period)]
        /\ kinds' = {k \in Kinds : totals'[k] > 0}
     \/ FailSite("range") /\ Fault /\ UNCHANGED <<totals, kinds>>
  /\ UNCHANGED <<calendar, run, period, started, listed, queue, site, stripe>>

(* The billable quantity of kind k, clamped at zero, and its price. *)
Billable(p, k, q) == IF q > Included[p][k] THEN q - Included[p][k] ELSE 0
Cents(p, k, q) == (Billable(p, k, q) * Price[p][k]) \div CentUnits

(* AddInvoiceItem is called for a priced, billable kind only.               *)
Called(p, k, q) == Billable(p, k, q) > 0 /\ Price[p][k] > 0

NewItem(k) ==
  [id |-> Cardinality(items) + 1, run |-> run, site |-> site, kind |-> k,
   period |-> period, cents |-> Cents(PlanOf[site], k, totals[k])]

(* Mutant: what is less than a cent is posted as zero. *)
PostedAtZero(k) ==
  {i \in {NewItem(k)} : Called(PlanOf[site], k, totals[k]) /\ Tenant \in Customers}

(* The item it posts: none for a tenant not at Stripe or less than a cent.  *)
Posted(k) ==
  {i \in {NewItem(k)} :
     Called(PlanOf[site], k, totals[k]) /\ Tenant \in Customers /\ i.cents > 0}

(* A POST that fails may have reached Stripe.                               *)
AddInvoiceItem(k) ==
  /\ pc = "item" /\ k \in kinds
  /\ kinds' = kinds \ {k}
  /\ \/ /\ Goto("item", "item") /\ UNCHANGED <<failed, spent>>
        /\ items' = items \cup Posted(k)
     \/ /\ Called(PlanOf[site], k, totals[k]) /\ FailSite("item") /\ Fault
        /\ items' \in {items, items \cup Posted(k)}
  /\ UNCHANGED <<calendar, run, period, started, listed, queue, site, totals,
                 invoices, finalized>>

(* The items no invoice has taken. *)
Open(t) == {i \in items : ItemTenant(i) = t /\ \A v \in invoices : i \notin v.lines}

(* FinalizeInvoice, first call: create the invoice.                         *)
CreateInvoice ==
  LET new == [id |-> Cardinality(invoices) + 1, run |-> run, site |-> site, period |-> period,
              lines |-> Open(Tenant)]
  IN /\ pc = "item" /\ kinds = {}
     /\ \/ /\ Tenant \notin Customers
           /\ Goto("item", "next") /\ UNCHANGED <<failed, invoices, spent>>
        \/ /\ Tenant \in Customers
           /\ Goto("item", "finalize") /\ UNCHANGED <<failed, spent>>
           /\ invoices' = invoices \cup {new}
        \/ /\ FailSite("item") /\ Fault
           /\ \/ UNCHANGED invoices
              \/ Tenant \in Customers /\ invoices' = invoices \cup {new}
     /\ UNCHANGED <<calendar, run, local, started, queue, items, finalized>>

(* FinalizeInvoice, second call.                                            *)
Finalize ==
  /\ \/ /\ Goto("finalize", "next") /\ UNCHANGED <<failed, spent>>
        /\ finalized' = finalized \cup {<<run, site>>}
     \/ /\ FailSite("finalize") /\ Fault
        /\ finalized' \in {finalized, finalized \cup {<<run, site>>}}
  /\ UNCHANGED <<calendar, run, local, started, queue, items, invoices>>

(* The process dies in the middle of a run. *)
Crash ==
  /\ pc # "idle"
  /\ spent.crashes < MaxCrashes
  /\ spent' = [spent EXCEPT !.crashes = @ + 1]
  /\ pc' = "idle" /\ site' = None
  /\ queue' = {} /\ listed' = {}
  /\ Fresh
  /\ UNCHANGED <<calendar, run, period, started, failed, stripe>>

-----------------------------------------------------------------------------
ReconcileStep ==
  \/ ListSites \/ EndRun \/ RangeUsage \/ CreateInvoice \/ Finalize
  \/ \E s \in Sites : TakeSite(s)
  \/ \E k \in Kinds : AddInvoiceItem(k)

Next ==
  \/ NextDay
  \/ \E t \in Tenants, k \in Kinds, d \in Days : Record(t, k, d)
  \/ \E s \in Sites : Toggle(s)
  \/ ScheduledJob
  \/ \E m \in Months : Rerun(m)
  \/ ReconcileStep
  \/ Crash

Spec == Init /\ [][Next]_vars

-----------------------------------------------------------------------------
(* Properties. *)

(* SoleSites: every tenant has one Site at most. *)
SoleSites == \A s, t \in Sites : TenantOf[s] = TenantOf[t] => s = t

(* What tenant TenantOf[s] owes for kind k of month m at the plan of s.     *)
Due(s, k, m) ==
  Cents(PlanOf[s], k, SumFunctionOnSet(usage[TenantOf[s]][k], {d \in Days : MonthOf(d) = m}))

(* ChargedOnce: a tenant is never charged twice for one kind of one month,  *)
(* even where a run failed or died half way.                                *)
ChargedOnce ==
  \A i, j \in items :
    ItemTenant(i) = ItemTenant(j) /\ i.kind = j.kind /\ i.period = j.period => i = j

(* ChargedOncePerRun: nor twice in one run, even where a month is           *)
(* reconciled again by hand: a second run posts a second item of its own,   *)
(* since no idempotency key ties it to the first, but never a third.        *)
ChargedOncePerRun ==
  \A i, j \in items :
    ItemTenant(i) = ItemTenant(j) /\ i.kind = j.kind /\ i.run = j.run => i = j

(* InvoicedOnce: nor gets it two invoices for one month.                    *)
InvoicedOnce ==
  \A v, u \in invoices :
    TenantOf[v.site] = TenantOf[u.site] /\ v.period = u.period => v = u

(* ChargedFairly: no item charges more than the tenant's usage of the month *)
(* is worth, however late the usage is recorded.                            *)
ChargedFairly == \A i \in items : i.cents <= Due(i.site, i.kind, i.period)

(* NoneForgotten: when a run ends, each customer it listed has been charged *)
(* all it owes and sent a finalized invoice, unless its failure was logged  *)
(* (where usage is recorded on the day it occurs).                          *)
NoneForgotten ==
  pc = "idle" =>
    \A s \in listed : TenantOf[s] \in Customers /\ <<run, s>> \notin failed =>
      /\ <<run, s>> \in finalized
      /\ \A k \in Kinds : Due(s, k, period) > 0 =>
           \E i \in items : /\ i.site = s /\ i.kind = k /\ i.period = period
                            /\ i.cents = Due(s, k, period)

=============================================================================
