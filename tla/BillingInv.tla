----------------------------- MODULE BillingInv -----------------------------
(***************************************************************************)
(* The inductive invariants behind Billing's properties: NeverTwice behind *)
(* ChargedOnce and InvoicedOnce, OncePerRun behind ChargedOncePerRun,      *)
(* FairInv behind ChargedFairly and DoneInv behind NoneForgotten, the last *)
(* two with TypeInv.                                                       *)
(***************************************************************************)
EXTENDS Billing

SpentOK == spent \in [faults : Nat, crashes : Nat, reruns : Nat]

InHand == pc \in {"range", "item", "finalize"}

SitesOK ==
  /\ active \subseteq Sites /\ queue \subseteq Sites
  /\ InHand => site \in Sites /\ site \notin queue

Begun == pc # "idle" => period \in started

ItemsSoFar ==
  \A i \in items :
    /\ i.site \in Sites /\ i.period \in started
    /\ pc # "idle" /\ i.period = period =>
         /\ pc # "list" /\ i.site \notin queue
         /\ i.site = site => pc # "range" /\ (pc = "item" => i.kind \notin kinds)

InvoicesSoFar ==
  \A v \in invoices :
    /\ v.site \in Sites /\ v.period \in started
    /\ pc # "idle" /\ v.period = period =>
         /\ pc # "list" /\ v.site \notin queue
         /\ v.site = site => pc \notin {"range", "item"}

ItemsDistinct ==
  \A i, j \in items : i.site = j.site /\ i.kind = j.kind /\ i.period = j.period => i = j

InvoicesDistinct == \A v, u \in invoices : v.site = u.site /\ v.period = u.period => v = u

(* NeverTwice: nothing of the month a run closes was charged or invoiced    *)
(* before the run, and what the run has charged and invoiced is what it has *)
(* taken from its queue so far.                                             *)
NeverTwice ==
  /\ SpentOK /\ SitesOK /\ Begun
  /\ ItemsSoFar /\ ItemsDistinct
  /\ InvoicesSoFar /\ InvoicesDistinct

-----------------------------------------------------------------------------
(* The same of one run, which nothing but its number ties to its items: a   *)
(* month may have been reconciled before it.                                *)
ItemsOfRun ==
  \A i \in items :
    /\ i.site \in Sites /\ i.run \in Nat /\ i.run <= run
    /\ pc # "idle" /\ i.run = run =>
         /\ pc # "list" /\ i.site \notin queue
         /\ i.site = site => pc # "range" /\ (pc = "item" => i.kind \notin kinds)

DistinctInRun ==
  \A i, j \in items : i.site = j.site /\ i.kind = j.kind /\ i.run = j.run => i = j

OncePerRun == run \in Nat /\ SitesOK /\ ItemsOfRun /\ DistinctInRun

-----------------------------------------------------------------------------
(* TypeInv: BillingTypeOK needs that runs are counted by what starts them, and      *)
(* that Stripe's ids are.                                                    *)
RunsCounted ==
  /\ run = Cardinality(started) + spent.reruns
  /\ pc # "idle" => run > 0
  /\ InHand => site \in Sites
  /\ IsFiniteSet(items) /\ IsFiniteSet(invoices)

TypeInv == BillingTypeOK /\ RunsCounted

-----------------------------------------------------------------------------
(* FairInv: since Range was called for the site in hand, usage can only      *)
(* have grown; behind ChargedFairly.                                         *)
TotalsPast == pc = "item" => \A k \in Kinds : totals[k] <= UsageIn(Tenant, k, period)

FairInv == TotalsPast /\ ChargedFairly

-----------------------------------------------------------------------------
(* Behind NoneForgotten: the month a run closes is over, and where usage is  *)
(* recorded on the day it occurs nothing is added to it any more.            *)
MonthsOver ==
  /\ \A m \in started : m < MonthOf(day)
  /\ listed # {} \/ pc # "idle" => period \in started

ItemOfDue(s, k) ==
  Due(s, k, period) > 0 =>
    \E i \in items : i.site = s /\ i.kind = k /\ i.period = period /\ i.cents = Due(s, k, period)

SiteDone(s) ==
  TenantOf[s] \in Customers /\ <<run, s>> \notin failed =>
    <<run, s>> \in finalized /\ \A k \in Kinds : ItemOfDue(s, k)

(* Every listed site that is neither queued nor in hand is done with; of     *)
(* the one in hand, the kinds that are not to charge any more are.           *)
ListedDone == pc # "list" => \A s \in listed \ queue : s # site \/ ~InHand => SiteDone(s)
HandDone ==
  /\ pc = "item" =>
       /\ \A k \in Kinds : totals[k] = UsageIn(Tenant, k, period)
       /\ Tenant \in Customers => \A k \in Kinds \ kinds : ItemOfDue(site, k)
  /\ pc = "finalize" => \A k \in Kinds : ItemOfDue(site, k)

(* DoneInv: the inductive invariant of NoneForgotten.                        *)
DoneInv == MonthsOver /\ (pc = "idle" => queue = {}) /\ ListedDone /\ HandDone

=============================================================================
