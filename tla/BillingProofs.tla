--------------------------- MODULE BillingProofs ----------------------------
(***************************************************************************)
(* Theorems about Billing, for any Sites, prices, calendar, failures and   *)
(* crashes.  Where no month is reconciled by hand again, no tenant with    *)
(* one Site is charged or invoiced twice for a month; where one is, no     *)
(* single run charges such a tenant twice.  No tenant is charged more than *)
(* it owes, and where usage is recorded on the day it occurs no run leaves *)
(* a customer out.                                                         *)
(*                                                                         *)
(* The last two compare sums over the days of a month; the lemmas about    *)
(* sums do by least counterexamples what induction over sets would.        *)
(***************************************************************************)
EXTENDS BillingInv, FiniteSetTheorems, TLAPS

LEMMA NeverTwiceInit == Init => NeverTwice
  BY BillingAssumption
  DEF Init, NeverTwice, SpentOK, SitesOK, InHand, Begun, ItemsSoFar, ItemsDistinct,
      InvoicesSoFar, InvoicesDistinct

(* What leaves the run, its items and its invoices alone keeps NeverTwice. *)
LEMMA SpentStep ==
  ASSUME SpentOK, UNCHANGED spent \/ Fault
  PROVE  SpentOK'
  BY DEF SpentOK, Fault

(* Steps that change neither the items nor the invoices. *)
LEMMA QuietStep ==
  ASSUME NeverTwice, MaxReruns = 0,
         \/ NextDay \/ ScheduledJob \/ ListSites \/ EndRun \/ RangeUsage \/ Finalize \/ Crash
         \/ \E t \in Tenants, k \in Kinds, d \in Days : Record(t, k, d)
         \/ \E s \in Sites : Toggle(s) \/ TakeSite(s)
         \/ \E m \in Months : Rerun(m)
         \/ UNCHANGED vars
  PROVE  NeverTwice'
<1> USE DEF NeverTwice
<1>1. CASE NextDay \/ (\E t \in Tenants, k \in Kinds, d \in Days : Record(t, k, d))
           \/ UNCHANGED vars
  BY <1>1 DEF NextDay, Record, vars, local, stripe, calendar, SpentOK, SitesOK, InHand,
     Begun, ItemsSoFar, ItemsDistinct, InvoicesSoFar, InvoicesDistinct
<1>2. CASE \E s \in Sites : Toggle(s)
  BY <1>2 DEF Toggle, local, stripe, SpentOK, SitesOK, InHand,
     Begun, ItemsSoFar, ItemsDistinct, InvoicesSoFar, InvoicesDistinct
<1>3. CASE ScheduledJob
  BY <1>3 DEF ScheduledJob, Begin, Goto, calendar, stripe, SpentOK, SitesOK, InHand,
     Begun, ItemsSoFar, ItemsDistinct, InvoicesSoFar, InvoicesDistinct
<1>4. CASE \E m \in Months : Rerun(m)
  BY <1>4 DEF Rerun, SpentOK
<1>5. CASE ListSites
  <2>1. SpentOK'
    BY <1>5, SpentStep DEF ListSites
  <2> QED
    BY <1>5, <2>1 DEF ListSites, Goto, calendar, stripe, SitesOK, InHand,
       Begun, ItemsSoFar, ItemsDistinct, InvoicesSoFar, InvoicesDistinct
<1>6. CASE \E s \in Sites : TakeSite(s)
  BY <1>6 DEF TakeSite, Goto, calendar, stripe, SpentOK, SitesOK, InHand,
     Begun, ItemsSoFar, ItemsDistinct, InvoicesSoFar, InvoicesDistinct
<1>7. CASE EndRun
  BY <1>7 DEF EndRun, Goto, calendar, stripe, SpentOK, SitesOK, InHand,
     Begun, ItemsSoFar, ItemsDistinct, InvoicesSoFar, InvoicesDistinct
<1>8. CASE RangeUsage \/ Finalize
  <2>1. SpentOK'
    BY <1>8, SpentStep DEF RangeUsage, Finalize
  <2>2. /\ pc \in {"range", "finalize"} /\ pc' \in {"item", "next"}
        /\ UNCHANGED <<active, period, started, queue, site, items, invoices>>
        /\ pc' = "item" => pc = "range"
    BY <1>8 DEF RangeUsage, Finalize, FailSite, Goto, local, calendar, stripe
  <2> QED
    BY <2>1, <2>2 DEF SitesOK, InHand,
       Begun, ItemsSoFar, ItemsDistinct, InvoicesSoFar, InvoicesDistinct
<1>9. CASE Crash
  BY <1>9 DEF Crash, calendar, stripe, SpentOK, SitesOK, InHand,
     Begun, ItemsSoFar, ItemsDistinct, InvoicesSoFar, InvoicesDistinct
<1> QED
  BY <1>1, <1>2, <1>3, <1>4, <1>5, <1>6, <1>7, <1>8, <1>9

(* A kind is charged once a run: it leaves kinds as its item is posted.     *)
LEMMA ItemStep ==
  ASSUME NeverTwice, NEW k \in Kinds, AddInvoiceItem(k)
  PROVE  NeverTwice'
<1> USE DEF NeverTwice
<1>1. SpentOK'
  BY SpentStep DEF AddInvoiceItem
<1>2. /\ pc = "item" /\ k \in kinds /\ kinds' = kinds \ {k}
      /\ pc' \in {"item", "next"}
      /\ items' \in {items, items \cup Posted(k)}
      /\ UNCHANGED <<active, period, started, queue, site, invoices>>
  BY DEF AddInvoiceItem, FailSite, Goto, calendar
<1>3. \A i \in Posted(k) : i.site = site /\ i.kind = k /\ i.period = period
  BY DEF Posted, NewItem
<1>4. \A i, j \in Posted(k) : i = j
  BY DEF Posted
<1>5. SitesOK' /\ Begun' /\ InvoicesSoFar' /\ InvoicesDistinct'
  BY <1>2 DEF SitesOK, InHand, Begun, InvoicesSoFar, InvoicesDistinct
<1>6. ItemsSoFar'
  BY <1>2, <1>3 DEF ItemsSoFar, SitesOK, InHand, Begun
<1>7. ItemsDistinct'
  BY <1>2, <1>3, <1>4 DEF ItemsDistinct, ItemsSoFar
<1> QED
  BY <1>1, <1>5, <1>6, <1>7

(* A site is invoiced once a run: creating the invoice is its last but one  *)
(* call, and a failure goes on to the next site.                            *)
LEMMA InvoiceStep == NeverTwice /\ CreateInvoice => NeverTwice'
<1> SUFFICES ASSUME NeverTwice, CreateInvoice PROVE NeverTwice'
  OBVIOUS
<1> USE DEF NeverTwice
<1> DEFINE new == [id |-> Cardinality(invoices) + 1, run |-> run, site |-> site,
                   period |-> period, lines |-> Open(Tenant)]
<1>1. SpentOK'
  BY SpentStep DEF CreateInvoice
<1>2. /\ pc = "item" /\ pc' \in {"next", "finalize"}
      /\ invoices' \in {invoices, invoices \cup {new}}
      /\ UNCHANGED <<active, period, started, queue, site, kinds, items>>
  BY DEF CreateInvoice, FailSite, Goto, calendar, local
<1>3. new.site = site /\ new.period = period
  OBVIOUS
<1> HIDE DEF new
<1>4. SitesOK' /\ Begun' /\ ItemsSoFar' /\ ItemsDistinct'
  BY <1>2 DEF SitesOK, InHand, Begun, ItemsSoFar, ItemsDistinct
<1>5. InvoicesSoFar'
  BY <1>2, <1>3 DEF InvoicesSoFar, SitesOK, InHand, Begun
<1>6. InvoicesDistinct'
  BY <1>2, <1>3 DEF InvoicesDistinct, InvoicesSoFar
<1> QED
  BY <1>1, <1>4, <1>5, <1>6

(* NeverTwiceHolds: NeverTwice is an invariant when nobody reconciles a     *)
(* month again, whatever calls fail and wherever the process dies.          *)
THEOREM NeverTwiceHolds == ASSUME MaxReruns = 0 PROVE Spec => []NeverTwice
<1>1. NeverTwice /\ [Next]_vars => NeverTwice'
  BY QuietStep, ItemStep, InvoiceStep DEF Next, ReconcileStep
<1> QED
  BY <1>1, NeverTwiceInit, PTL DEF Spec

(* ChargedOnceHolds: and then no tenant with one Site is ever charged twice *)
(* for one kind of usage of one month.                                      *)
THEOREM ChargedOnceHolds ==
  ASSUME MaxReruns = 0, SoleSites
  PROVE  Spec => []ChargedOnce
<1>1. NeverTwice => ChargedOnce
  BY SoleSites DEF NeverTwice, ItemsSoFar, ItemsDistinct, ChargedOnce, ItemTenant, SoleSites
<1> QED
  BY <1>1, NeverTwiceHolds, PTL

(* InvoicedOnceHolds: nor sent two invoices for one month.                  *)
THEOREM InvoicedOnceHolds ==
  ASSUME MaxReruns = 0, SoleSites
  PROVE  Spec => []InvoicedOnce
<1>1. NeverTwice => InvoicedOnce
  BY SoleSites DEF NeverTwice, InvoicesSoFar, InvoicesDistinct, InvoicedOnce, SoleSites
<1> QED
  BY <1>1, NeverTwiceHolds, PTL

-----------------------------------------------------------------------------
(* Months reconciled again. *)

(* Steps that post no item.                                                 *)
LEMMA QuietRunStep ==
  ASSUME OncePerRun,
         \/ NextDay \/ ScheduledJob \/ ListSites \/ EndRun \/ RangeUsage \/ Finalize \/ Crash
         \/ CreateInvoice
         \/ \E t \in Tenants, k \in Kinds, d \in Days : Record(t, k, d)
         \/ \E s \in Sites : Toggle(s) \/ TakeSite(s)
         \/ \E m \in Months : Rerun(m)
         \/ UNCHANGED vars
  PROVE  OncePerRun'
<1> USE DEF OncePerRun
<1>1. CASE NextDay \/ (\E t \in Tenants, k \in Kinds, d \in Days : Record(t, k, d))
           \/ UNCHANGED vars
  BY <1>1 DEF NextDay, Record, vars, local, stripe, calendar, SitesOK, InHand,
     ItemsOfRun, DistinctInRun
<1>2. CASE \E s \in Sites : Toggle(s)
  BY <1>2 DEF Toggle, local, stripe, SitesOK, InHand, ItemsOfRun, DistinctInRun
<1>3. CASE ScheduledJob \/ \E m \in Months : Rerun(m)
  <2>1. /\ pc = "idle" /\ pc' = "list" /\ run' = run + 1
        /\ UNCHANGED <<active, queue, site, kinds, items>>
    BY <1>3 DEF ScheduledJob, Rerun, Begin, Goto, calendar, stripe
  <2>2. \A i \in items : i.run # run'
    BY <2>1 DEF ItemsOfRun
  <2> QED
    BY <2>1, <2>2 DEF SitesOK, InHand, ItemsOfRun, DistinctInRun
<1>4. CASE ListSites
  BY <1>4 DEF ListSites, Goto, calendar, stripe, SitesOK, InHand, ItemsOfRun, DistinctInRun
<1>5. CASE (\E s \in Sites : TakeSite(s)) \/ EndRun
  BY <1>5 DEF TakeSite, EndRun, Goto, calendar, stripe, SitesOK, InHand,
     ItemsOfRun, DistinctInRun
<1>6. CASE RangeUsage \/ Finalize \/ CreateInvoice
  <2>1. /\ InHand /\ pc' \in {"item", "next", "finalize"}
        /\ UNCHANGED <<active, run, queue, site, items>>
        /\ pc' = "item" => pc = "range"
    BY <1>6 DEF RangeUsage, Finalize, CreateInvoice, FailSite, Goto, local, calendar, stripe,
       InHand
  <2> QED
    BY <2>1 DEF SitesOK, InHand, ItemsOfRun, DistinctInRun
<1>7. CASE Crash
  BY <1>7 DEF Crash, calendar, stripe, SitesOK, InHand, ItemsOfRun, DistinctInRun
<1> QED
  BY <1>1, <1>2, <1>3, <1>4, <1>5, <1>6, <1>7

(* A kind leaves kinds as its item of the run is posted.                    *)
LEMMA ItemRunStep ==
  ASSUME OncePerRun, NEW k \in Kinds, AddInvoiceItem(k)
  PROVE  OncePerRun'
<1> USE DEF OncePerRun
<1>1. /\ pc = "item" /\ k \in kinds /\ kinds' = kinds \ {k}
      /\ pc' \in {"item", "next"}
      /\ items' \in {items, items \cup Posted(k)}
      /\ UNCHANGED <<active, run, queue, site>>
  BY DEF AddInvoiceItem, FailSite, Goto, calendar
<1>2. \A i \in Posted(k) : i.site = site /\ i.kind = k /\ i.run = run
  BY DEF Posted, NewItem
<1>3. \A i, j \in Posted(k) : i = j
  BY DEF Posted
<1>4. SitesOK'
  BY <1>1 DEF SitesOK, InHand
<1>5. ItemsOfRun'
  BY <1>1, <1>2 DEF ItemsOfRun, SitesOK, InHand
<1>6. DistinctInRun'
  BY <1>1, <1>2, <1>3 DEF DistinctInRun, ItemsOfRun
<1> QED
  BY <1>1, <1>4, <1>5, <1>6

(* ChargedOncePerRunHolds: no run charges a tenant with one Site twice for  *)
(* a kind of usage, however often its month has been reconciled before.     *)
THEOREM ChargedOncePerRunHolds ==
  ASSUME SoleSites
  PROVE  Spec => []ChargedOncePerRun
<1>1. Init => OncePerRun
  BY BillingAssumption DEF Init, OncePerRun, SitesOK, InHand, ItemsOfRun, DistinctInRun
<1>2. OncePerRun /\ [Next]_vars => OncePerRun'
  BY QuietRunStep, ItemRunStep DEF Next, ReconcileStep
<1>3. OncePerRun => ChargedOncePerRun
  BY SoleSites DEF OncePerRun, ItemsOfRun, DistinctInRun, ChargedOncePerRun, ItemTenant,
     SoleSites
<1> QED
  BY <1>1, <1>2, <1>3, PTL DEF Spec

-----------------------------------------------------------------------------
(* Sums over finite sets. *)

(* Induction in first-order form: a set of numbers that holds 0 and the      *)
(* successor of each of its members is Nat, or Nat without it had a least.   *)
LEMMA NatMin ==
  ASSUME NEW A \in SUBSET Nat, A # {}
  PROVE  \E n \in A : \A m \in A : n <= m
<1>1. IsWellFoundedOn(OpToRel(<, Nat), Nat)
  BY NatLessThanWellFounded
<1>2. PICK n \in A : \A m \in A : <<m, n>> \notin OpToRel(<, Nat)
  BY <1>1, WFMin
<1>3. \A m \in A : ~(m < n)
  BY <1>2 DEF OpToRel
<1> QED
  BY <1>3

LEMMA NatClosed ==
  ASSUME NEW A \in SUBSET Nat, 0 \in A, \A n \in A : n + 1 \in A
  PROVE  A = Nat
<1> SUFFICES ASSUME Nat \ A # {} PROVE FALSE
  OBVIOUS
<1>1. PICK n \in Nat \ A : \A m \in Nat \ A : n <= m
  BY NatMin
<1>2. n - 1 \in Nat /\ n - 1 \notin Nat \ A
  BY <1>1
<1> QED
  BY <1>1, <1>2

(* How SumFunctionOnSet(f, S) is computed: g[s] is the sum over s, one      *)
(* picked element at a time.                                                *)
Picked(s) == CHOOSE x \in s : TRUE
Step(f, g, s) == IF s = {} THEN 0 ELSE f[Picked(s)] + g[s \ {Picked(s)}]
Sums(f, g, S) == g = [s \in SUBSET S |-> Step(f, g, s)]

LEMMA PickedOne ==
  ASSUME NEW S, IsFiniteSet(S), NEW s \in SUBSET S, s # {}
  PROVE  /\ Picked(s) \in s /\ s \ {Picked(s)} \in SUBSET S
         /\ Cardinality(s) \in Nat /\ Cardinality(s \ {Picked(s)}) = Cardinality(s) - 1
<1>1. Picked(s) \in s
  BY DEF Picked
<1> QED
  BY <1>1, FS_Subset, FS_CardinalityType, FS_RemoveElement

LEMMA SubsetSize ==
  ASSUME NEW S, IsFiniteSet(S), NEW s \in SUBSET S
  PROVE  /\ Cardinality(s) \in Nat /\ Cardinality(s) <= Cardinality(S)
         /\ Cardinality(S) \in Nat
         /\ Cardinality(s) = 0 => s = {}
  BY FS_Subset, FS_CardinalityType, FS_EmptySet

(* The recursion defines a function: one that is right up to size n is made  *)
(* right up to n + 1 by one more step.                                       *)
LEMMA SumsExist ==
  ASSUME NEW S, IsFiniteSet(S), NEW f, \A x \in S : f[x] \in Nat
  PROVE  \E g : Sums(f, g, S)
<1> DEFINE UpTo(g, n) == \A s \in SUBSET S : Cardinality(s) <= n => g[s] = Step(f, g, s)
           Good == {n \in Nat : \E g \in [SUBSET S -> Nat] : UpTo(g, n)}
<1>1. 0 \in Good
  <2> DEFINE g == [s \in SUBSET S |-> 0]
  <2>1. UpTo(g, 0)
    BY SubsetSize DEF Step
  <2> QED
    BY <2>1
<1>2. ASSUME NEW n \in Good PROVE n + 1 \in Good
  <2>1. PICK g \in [SUBSET S -> Nat] : UpTo(g, n)
    OBVIOUS
  <2> DEFINE h == [s \in SUBSET S |-> IF Cardinality(s) <= n THEN g[s] ELSE Step(f, g, s)]
  <2>2. ASSUME NEW s \in SUBSET S PROVE Step(f, g, s) \in Nat
    <3>1. CASE s = {}
      BY <3>1 DEF Step
    <3>2. CASE s # {}
      <4>1. Picked(s) \in S /\ s \ {Picked(s)} \in SUBSET S
        BY <3>2, PickedOne
      <4>2. f[Picked(s)] \in Nat /\ g[s \ {Picked(s)}] \in Nat
        BY <4>1
      <4> QED
        BY <3>2, <4>2 DEF Step
    <3> QED
      BY <3>1, <3>2
  <2>3. h \in [SUBSET S -> Nat]
    BY <2>2
  <2>4. ASSUME NEW s \in SUBSET S, Cardinality(s) <= n + 1 PROVE h[s] = Step(f, h, s)
    <3>1. h[s] = Step(f, g, s)
      BY <2>1
    <3>2. s # {} => h[s \ {Picked(s)}] = g[s \ {Picked(s)}]
      BY <2>4, PickedOne
    <3> QED
      BY <3>1, <3>2 DEF Step
  <2> HIDE DEF h
  <2>5. UpTo(h, n + 1)
    BY <2>4
  <2>6. n + 1 \in Nat
    OBVIOUS
  <2> HIDE DEF UpTo
  <2> QED
    BY <2>3, <2>5, <2>6
<1>3. Cardinality(S) \in Good
  <2> HIDE DEF Good
  <2>1. Good \in SUBSET Nat
    BY DEF Good
  <2> QED
    BY <1>1, <1>2, <2>1, NatClosed, FS_CardinalityType
<1>4. PICK g \in [SUBSET S -> Nat] : UpTo(g, Cardinality(S))
  BY <1>3
<1>5. Sums(f, g, S)
  BY <1>4, SubsetSize DEF Sums
<1> QED
  BY <1>5

LEMMA SumIs ==
  ASSUME NEW f, NEW S, \E g : Sums(f, g, S)
  PROVE  \E g : Sums(f, g, S) /\ SumFunctionOnSet(f, S) = g[S]
  BY DEF SumFunctionOnSet, FoldFunctionOnSet, MapThenFoldSet, Sums, Step, Picked

(* Sums of natural numbers are natural, and grow with what is summed.        *)
LEMMA SumMonotone ==
  ASSUME NEW S, IsFiniteSet(S), NEW e, NEW f,
         \A x \in S : e[x] \in Nat /\ f[x] \in Nat /\ e[x] <= f[x]
  PROVE  /\ SumFunctionOnSet(e, S) \in Nat /\ SumFunctionOnSet(f, S) \in Nat
         /\ SumFunctionOnSet(e, S) <= SumFunctionOnSet(f, S)
<1>1. PICK g : Sums(e, g, S) /\ SumFunctionOnSet(e, S) = g[S]
  BY SumsExist, SumIs
<1>2. PICK h : Sums(f, h, S) /\ SumFunctionOnSet(f, S) = h[S]
  BY SumsExist, SumIs
<1> DEFINE Below(s) == g[s] \in Nat /\ h[s] \in Nat /\ g[s] <= h[s]
           Good == {n \in Nat : \A s \in SUBSET S : Cardinality(s) <= n => Below(s)}
<1>3. ASSUME NEW s \in SUBSET S PROVE g[s] = Step(e, g, s) /\ h[s] = Step(f, h, s)
  BY <1>1, <1>2 DEF Sums
<1>0. Below({})
  <2>1. Step(e, g, {}) = 0 /\ Step(f, h, {}) = 0
    BY DEF Step
  <2> QED
    BY <1>3, <2>1
<1>4. 0 \in Good
  <2> HIDE DEF Below
  <2> QED
    BY <1>0, SubsetSize
<1>5. ASSUME NEW n \in Good PROVE n + 1 \in Good
  <2> SUFFICES ASSUME NEW s \in SUBSET S, Cardinality(s) <= n + 1 PROVE Below(s)
    OBVIOUS
  <2>1. CASE s = {}
    BY <1>0, <2>1
  <2>2. CASE s # {}
    <3> DEFINE rest == s \ {Picked(s)}
    <3>1. Below(rest)
      BY <2>2, PickedOne
    <3>2. g[s] = e[Picked(s)] + g[rest] /\ h[s] = f[Picked(s)] + h[rest]
      BY <1>3, <2>2 DEF Step
    <3>3. Picked(s) \in S
      BY <2>2, PickedOne
    <3> HIDE DEF rest
    <3> QED
      BY <3>1, <3>2, <3>3
  <2> QED
    BY <2>1, <2>2
<1>6. Cardinality(S) \in Good
  <2> HIDE DEF Good
  <2>1. Good \in SUBSET Nat
    BY DEF Good
  <2> QED
    BY <1>4, <1>5, <2>1, NatClosed, FS_CardinalityType
<1>7. Below(S)
  BY <1>6, FS_CardinalityType
<1> QED
  BY <1>1, <1>2, <1>7

-----------------------------------------------------------------------------
(* Arithmetic of months and of prices. *)

LEMMA DivMono ==
  ASSUME NEW a \in Nat, NEW b \in Nat, NEW c \in Nat \ {0}, a <= b
  PROVE a \div c <= b \div c /\ a \div c \in Nat /\ b \div c \in Nat
  OBVIOUS

LEMMA DivIs ==
  ASSUME NEW d \in Nat, NEW m \in Nat, NEW c \in Nat \ {0}
  PROVE d \div c = m <=> m * c <= d /\ d < (m + 1) * c
  OBVIOUS

LEMMA MulMono ==
  ASSUME NEW a \in Nat, NEW b \in Nat, NEW c \in Nat, a <= b
  PROVE a * c <= b * c /\ a * c \in Nat /\ b * c \in Nat
  OBVIOUS

LEMMA CentsGrow ==
  ASSUME NEW p \in Plans, NEW k \in Kinds, NEW q \in Nat, NEW r \in Nat, q <= r
  PROVE  /\ Cents(p, k, q) \in Nat /\ Cents(p, k, r) \in Nat
         /\ Cents(p, k, q) <= Cents(p, k, r)
<1>1. Price[p][k] \in Nat /\ Included[p][k] \in Nat /\ CentUnits \in Nat \ {0}
  BY BillingAssumption
<1>2. /\ Billable(p, k, q) \in Nat /\ Billable(p, k, r) \in Nat
      /\ Billable(p, k, q) <= Billable(p, k, r)
  BY <1>1 DEF Billable
<1>3. /\ Billable(p, k, q) * Price[p][k] \in Nat /\ Billable(p, k, r) * Price[p][k] \in Nat
      /\ Billable(p, k, q) * Price[p][k] <= Billable(p, k, r) * Price[p][k]
  BY <1>1, <1>2, MulMono
<1> QED
  BY <1>1, <1>3, DivMono DEF Cents

(* Nothing is due for nothing, and only for what AddInvoiceItem is called    *)
(* for.                                                                      *)
LEMMA CentsCalled ==
  ASSUME NEW p \in Plans, NEW k \in Kinds, NEW q \in Nat, Cents(p, k, q) > 0
  PROVE  Called(p, k, q) /\ q > 0
<1>1. Price[p][k] \in Nat /\ Included[p][k] \in Nat /\ CentUnits \in Nat \ {0}
  BY BillingAssumption
<1>2. Billable(p, k, q) \in Nat /\ (Billable(p, k, q) > 0 => q > 0)
  BY <1>1 DEF Billable
<1>3. 0 \div CentUnits = 0
  BY <1>1, DivIs
<1>4. Billable(p, k, q) # 0 /\ Price[p][k] # 0
  <2>1. \A x \in Nat : x * 0 = 0 /\ 0 * x = 0
    OBVIOUS
  <2> QED
    BY <1>1, <1>2, <1>3, <2>1 DEF Cents
<1> QED
  BY <1>1, <1>2, <1>4 DEF Called

(* The days of a month, and that there are finitely many.                    *)
DaysOf(m) == {d \in Days : m * MonthLen <= d /\ d < (m + 1) * MonthLen}

LEMMA MonthDays ==
  ASSUME NEW m \in Nat
  PROVE  /\ IsFiniteSet(DaysOf(m)) /\ DaysOf(m) \subseteq Days
         /\ {d \in Days : MonthOf(d) = m} = DaysOf(m)
<1>1. IsFiniteSet(Days) /\ Days \subseteq Nat
  BY BillingAssumption, FS_Interval DEF Days
<1>2. \A d \in Days : MonthOf(d) = m <=> m * MonthLen <= d /\ d < (m + 1) * MonthLen
  BY <1>1, BillingAssumption, DivIs DEF MonthOf
<1>3. DaysOf(m) \subseteq Days
  BY DEF DaysOf
<1> QED
  BY <1>1, <1>2, <1>3, FS_Subset DEF DaysOf

LEMMA MonthsBounded ==
  /\ Months \subseteq Nat /\ IsFiniteSet(Months) /\ MonthOf(MaxDay) \in Nat
  /\ \A d \in Days : MonthOf(d) \in Months
  /\ \A c, d \in Days : c <= d => MonthOf(c) <= MonthOf(d)
<1>1. Days \subseteq Nat /\ MaxDay \in Days /\ MonthLen \in Nat \ {0}
  BY BillingAssumption DEF Days
<1>2. \A c, d \in Days : c <= d => MonthOf(c) <= MonthOf(d)
  BY <1>1, DivMono DEF MonthOf
<1>3. \A d \in Days : MonthOf(d) \in Nat
  BY <1>1, DivMono DEF MonthOf
<1>4. \A d \in Days : MonthOf(d) <= MonthOf(MaxDay)
  BY <1>1, <1>2, BillingAssumption DEF Days
<1>5. IsFiniteSet(Months)
  BY <1>1, <1>3, FS_Interval DEF Months
<1>6. Months \subseteq Nat /\ \A d \in Days : MonthOf(d) \in Months
  BY <1>1, <1>3, <1>4 DEF Months
<1> QED
  BY <1>1, <1>2, <1>3, <1>5, <1>6

-----------------------------------------------------------------------------
(* Usage. *)

LEMMA UsageTyped ==
  ASSUME usage \in [Tenants -> [Kinds -> [Days -> Nat]]],
         NEW t \in Tenants, NEW k \in Kinds, NEW m \in Nat
  PROVE  UsageIn(t, k, m) \in Nat
<1>1. \A d \in DaysOf(m) : usage[t][k][d] \in Nat
  BY MonthDays
<1>2. SumFunctionOnSet(usage[t][k], DaysOf(m)) \in Nat
  BY <1>1, MonthDays, SumMonotone
<1> QED
  BY <1>2 DEF UsageIn, DaysOf

(* A step changes usage by recording an event, which only adds to it.        *)
LEMMA UsageStep ==
  ASSUME BillingTypeOK, [Next]_vars
  PROVE  \/ UNCHANGED usage
         \/ \E t \in Tenants, k \in Kinds, d \in Days :
              /\ Record(t, k, d)
              /\ usage' = [usage EXCEPT ![t][k][d] = @ + Quantity[k]]
  BY DEF Next, ReconcileStep, NextDay, Record, Toggle, ScheduledJob, Rerun, Begin, ListSites,
     EndRun, RangeUsage, CreateInvoice, Finalize, TakeSite, AddInvoiceItem, Crash, calendar,
     vars

LEMMA DayUsage ==
  ASSUME BillingTypeOK, [Next]_vars, NEW t \in Tenants, NEW k \in Kinds, NEW d \in Days
  PROVE  /\ usage[t][k][d] \in Nat /\ usage'[t][k][d] \in Nat
         /\ usage[t][k][d] <= usage'[t][k][d]
         /\ usage'[t][k][d] # usage[t][k][d] /\ ~LateRecords => d = day
<1>1. CASE UNCHANGED usage
  BY <1>1 DEF BillingTypeOK
<1>2. ASSUME NEW u \in Tenants, NEW j \in Kinds, NEW c \in Days, Record(u, j, c)
      PROVE  /\ usage[t][k][d] \in Nat /\ usage'[t][k][d] \in Nat
             /\ usage[t][k][d] <= usage'[t][k][d]
             /\ usage'[t][k][d] # usage[t][k][d] /\ ~LateRecords => d = day
  <2>1. Quantity[j] \in Nat /\ (c = day \/ LateRecords)
    BY <1>2, BillingAssumption DEF Record
  <2>2. usage'[t][k][d] = IF u = t /\ j = k /\ c = d THEN usage[t][k][d] + Quantity[j]
                          ELSE usage[t][k][d]
    BY <1>2 DEF Record, BillingTypeOK
  <2> QED
    BY <2>1, <2>2 DEF BillingTypeOK
<1> QED
  BY <1>1, <1>2, UsageStep

LEMMA UsageGrows ==
  ASSUME BillingTypeOK, [Next]_vars, NEW t \in Tenants, NEW k \in Kinds, NEW m \in Nat
  PROVE  /\ UsageIn(t, k, m) \in Nat /\ UsageIn(t, k, m)' \in Nat
         /\ UsageIn(t, k, m) <= UsageIn(t, k, m)'
<1>1. \A d \in DaysOf(m) : /\ usage[t][k][d] \in Nat /\ usage'[t][k][d] \in Nat
                           /\ usage[t][k][d] <= usage'[t][k][d]
  BY MonthDays, DayUsage
<1>2. /\ SumFunctionOnSet(usage[t][k], DaysOf(m)) \in Nat
      /\ SumFunctionOnSet(usage'[t][k], DaysOf(m)) \in Nat
      /\ SumFunctionOnSet(usage[t][k], DaysOf(m)) <= SumFunctionOnSet(usage'[t][k], DaysOf(m))
  BY <1>1, MonthDays, SumMonotone
<1> QED
  BY <1>2 DEF UsageIn, DaysOf

(* What is recorded on the day it occurs adds nothing to a month that is     *)
(* over.                                                                     *)
LEMMA UsageClosed ==
  ASSUME BillingTypeOK, ~LateRecords, [Next]_vars, NEW t \in Tenants, NEW k \in Kinds,
         NEW m \in Nat, m < MonthOf(day)
  PROVE  UsageIn(t, k, m)' = UsageIn(t, k, m)
<1>1. \A d \in DaysOf(m) : MonthOf(d) = m
  BY MonthDays
<1>2. \A d \in DaysOf(m) : usage[t][k][d] \in Nat /\ usage'[t][k][d] = usage[t][k][d]
  BY <1>1, MonthDays, MonthsBounded, DayUsage DEF BillingTypeOK
<1>3. /\ SumFunctionOnSet(usage[t][k], DaysOf(m)) \in Nat
      /\ SumFunctionOnSet(usage'[t][k], DaysOf(m)) \in Nat
      /\ SumFunctionOnSet(usage[t][k], DaysOf(m)) <= SumFunctionOnSet(usage'[t][k], DaysOf(m))
      /\ SumFunctionOnSet(usage'[t][k], DaysOf(m)) <= SumFunctionOnSet(usage[t][k], DaysOf(m))
  BY <1>2, MonthDays, SumMonotone
<1> QED
  BY <1>3 DEF UsageIn, DaysOf

LEMMA DueIs ==
  ASSUME NEW s \in Sites, NEW k \in Kinds, NEW m \in Nat
  PROVE  /\ Due(s, k, m) = Cents(PlanOf[s], k, UsageIn(TenantOf[s], k, m))
         /\ Due(s, k, m)' = Cents(PlanOf[s], k, UsageIn(TenantOf[s], k, m)')
  BY MonthDays DEF Due, UsageIn, DaysOf

-----------------------------------------------------------------------------
(* Type correctness: one step per group of actions that touch the same       *)
(* variables.                                                                *)

Budgets == [faults : 0..MaxFaults, crashes : 0..MaxCrashes, reruns : 0..MaxReruns]

LEMMA SpentTyped ==
  ASSUME spent \in Budgets
  PROVE  /\ UNCHANGED spent \/ Fault \/ Crash => spent' \in Budgets /\ spent'.reruns = spent.reruns
         /\ \A m : Rerun(m) => spent' \in Budgets /\ spent'.reruns = spent.reruns + 1
<1>1. UNCHANGED spent \/ Fault \/ Crash => spent' \in Budgets /\ spent'.reruns = spent.reruns
  BY BillingAssumption DEF Budgets, Fault, Crash
<1>2. ASSUME NEW m, Rerun(m) PROVE spent' \in Budgets /\ spent'.reruns = spent.reruns + 1
  <2>1. spent.reruns < MaxReruns /\ spent' = [spent EXCEPT !.reruns = @ + 1]
    BY <1>2 DEF Rerun
  <2> QED
    BY <2>1, BillingAssumption DEF Budgets
<1> QED
  BY <1>1, <1>2

(* Runs are counted by the months the job was run for and the runs by hand.  *)
LEMMA RunsBounded ==
  ASSUME NEW S \in SUBSET Months, NEW n \in 0..MaxReruns
  PROVE  Cardinality(S) + n \in 0..MaxRuns /\ IsFiniteSet(S) /\ Cardinality(S) \in Nat
<1>1. IsFiniteSet(S) /\ Cardinality(S) <= Cardinality(Months)
  BY MonthsBounded, FS_Subset
<1>2. Cardinality(S) \in Nat /\ Cardinality(Months) \in Nat
  BY <1>1, MonthsBounded, FS_CardinalityType
<1> QED
  BY <1>1, <1>2, BillingAssumption DEF MaxRuns

LEMMA RunTyped ==
  ASSUME TypeInv
  PROVE  /\ MaxRuns \in Nat /\ run \in Nat
         /\ pc # "idle" => run \in 1..MaxRuns
  BY RunsBounded, MonthsBounded, BillingAssumption, FS_CardinalityType
  DEF TypeInv, BillingTypeOK, RunsCounted, MaxRuns

LEMMA WorldTyped ==
  ASSUME TypeInv,
         \/ NextDay \/ (\E t \in Tenants, k \in Kinds, d \in Days : Record(t, k, d))
         \/ \E s \in Sites : Toggle(s)
  PROVE  TypeInv'
<1> USE DEF TypeInv, BillingTypeOK, RunsCounted, InHand, local, stripe
<1>1. CASE NextDay
  <2>1. day' \in Days
    BY <1>1, BillingAssumption DEF NextDay, Days
  <2> QED
    BY <1>1, <2>1 DEF NextDay
<1>2. ASSUME NEW t \in Tenants, NEW k \in Kinds, NEW d \in Days, Record(t, k, d)
      PROVE  TypeInv'
  <2>1. usage' \in [Tenants -> [Kinds -> [Days -> Nat]]]
    BY <1>2, BillingAssumption DEF Record
  <2> QED
    BY <1>2, <2>1 DEF Record
<1>3. CASE \E s \in Sites : Toggle(s)
  BY <1>3 DEF Toggle
<1> QED
  BY <1>1, <1>2, <1>3

LEMMA BeginTyped ==
  ASSUME TypeInv, ScheduledJob \/ \E m \in Months : Rerun(m)
  PROVE  TypeInv'
<1> USE DEF TypeInv, BillingTypeOK, RunsCounted, InHand, Begin, Goto, calendar, stripe
<1>1. IsFiniteSet(started) /\ Cardinality(started) \in Nat
  BY RunsBounded
<1>2. CASE ScheduledJob
  <2> DEFINE last == MonthOf(day) - 1
  <2>1. last \in Months /\ last \notin started /\ started' = started \cup {last}
    <3>1. MonthOf(day) \in Months /\ MonthOf(MaxDay) \in Nat
      BY MonthsBounded
    <3> QED
      BY <1>2, <3>1 DEF ScheduledJob, Months
  <2> HIDE DEF last
  <2>2. Cardinality(started') = Cardinality(started) + 1
    BY <1>1, <2>1, FS_AddElement
  <2>3. started' \subseteq Months /\ run' = Cardinality(started') + spent'.reruns
    <3>1. spent.reruns \in Nat
      BY BillingAssumption
    <3>2. run' = run + 1 /\ UNCHANGED spent
      BY <1>2 DEF ScheduledJob
    <3>3. started' \subseteq Months
      BY <2>1
    <3> QED
      BY <1>1, <2>2, <3>1, <3>2, <3>3
  <2>4. run' \in 0..MaxRuns
    BY <1>2, <2>3, RunsBounded DEF ScheduledJob
  <2>5. period' \in Months
    BY <1>2, <2>1 DEF ScheduledJob, last
  <2> QED
    BY <1>2, <2>3, <2>4, <2>5, RunTyped DEF ScheduledJob, PC
<1>3. ASSUME NEW m \in Months, Rerun(m) PROVE TypeInv'
  <2>1. spent' \in Budgets /\ spent'.reruns = spent.reruns + 1
    BY <1>3, SpentTyped DEF Budgets
  <2>2. run' = Cardinality(started) + spent'.reruns
    BY <1>1, <1>3, <2>1 DEF Rerun
  <2>3. run' \in 0..MaxRuns
    BY <2>1, <2>2, RunsBounded DEF Budgets
  <2> QED
    BY <1>3, <2>1, <2>2, <2>3, RunTyped DEF Rerun, PC, Budgets
<1> QED
  BY <1>2, <1>3

(* The steps between the calls to Stripe.                                    *)
LEMMA LoopTyped ==
  ASSUME TypeInv, ListSites \/ EndRun \/ Crash \/ \E s \in Sites : TakeSite(s)
  PROVE  TypeInv'
<1> USE DEF TypeInv, BillingTypeOK, RunsCounted, InHand, Goto, Fresh, NoTotals, PC, calendar, stripe
<1>1. CASE ListSites
  BY <1>1, SpentTyped DEF ListSites, Budgets
<1>2. CASE EndRun \/ \E s \in Sites : TakeSite(s)
  BY <1>2 DEF EndRun, TakeSite
<1>3. CASE Crash
  BY <1>3, SpentTyped DEF Crash, Budgets
<1> QED
  BY <1>1, <1>2, <1>3

(* A failed step of reconcileTenant.                                         *)
LEMMA FailTyped ==
  ASSUME TypeInv, InHand, NEW l \in {"range", "item", "finalize"},
         FailSite(l) \/ UNCHANGED failed, UNCHANGED <<run, site>>
  PROVE  failed' \subseteq (1..MaxRuns) \X Sites
  BY RunTyped DEF TypeInv, BillingTypeOK, RunsCounted, InHand, FailSite

LEMMA RangeTyped ==
  ASSUME TypeInv, RangeUsage PROVE TypeInv'
<1> USE DEF TypeInv, BillingTypeOK, RunsCounted, InHand
<1>1. failed' \subseteq (1..MaxRuns) \X Sites
  BY FailTyped DEF RangeUsage, Goto, FailSite
<1>2. \A k \in Kinds : UsageIn(Tenant, k, period) \in Nat
  BY UsageTyped, MonthsBounded, BillingAssumption DEF RangeUsage, FailSite, Goto, Tenant
<1>3. totals' \in [Kinds -> Nat] /\ kinds' \subseteq Kinds
  BY <1>2 DEF RangeUsage
<1>4. spent' \in Budgets /\ spent'.reruns = spent.reruns
  BY SpentTyped DEF RangeUsage, Budgets
<1> QED
  BY <1>1, <1>3, <1>4 DEF RangeUsage, FailSite, Goto, PC, calendar, stripe, Budgets

LEMMA ItemTyped ==
  ASSUME TypeInv, NEW k \in Kinds, AddInvoiceItem(k) PROVE TypeInv'
<1> USE DEF TypeInv, BillingTypeOK, RunsCounted, InHand
<1>1. failed' \subseteq (1..MaxRuns) \X Sites
  BY FailTyped DEF AddInvoiceItem, Goto, FailSite
<1>2. Posted(k) \subseteq Item
  <2>1. site \in Sites /\ PlanOf[site] \in Plans /\ run \in 1..MaxRuns
    BY RunTyped, BillingAssumption DEF AddInvoiceItem
  <2>2. Cents(PlanOf[site], k, totals[k]) \in Nat
    BY <2>1, CentsGrow
  <2>3. Cardinality(items) + 1 \in Nat \ {0}
    BY FS_CardinalityType
  <2> QED
    BY <2>1, <2>2, <2>3 DEF Posted, NewItem, Item
<1>3. IsFiniteSet(items \cup Posted(k))
  <2>1. Posted(k) \subseteq {NewItem(k)} /\ IsFiniteSet(items \cup {NewItem(k)})
    BY FS_AddElement DEF Posted
  <2> QED
    BY <2>1, FS_Subset
<1>4. items' \subseteq Item /\ IsFiniteSet(items')
  BY <1>2, <1>3 DEF AddInvoiceItem
<1>5. spent' \in Budgets /\ spent'.reruns = spent.reruns
  BY SpentTyped DEF AddInvoiceItem, Budgets
<1> QED
  BY <1>1, <1>4, <1>5 DEF AddInvoiceItem, FailSite, Goto, PC, calendar, Budgets

LEMMA InvoiceTyped == TypeInv /\ CreateInvoice => TypeInv'
<1> SUFFICES ASSUME TypeInv, CreateInvoice PROVE TypeInv'
  OBVIOUS
<1> USE DEF TypeInv, BillingTypeOK, RunsCounted, InHand
<1> DEFINE new == [id |-> Cardinality(invoices) + 1, run |-> run, site |-> site,
                   period |-> period, lines |-> Open(Tenant)]
<1>1. /\ pc = "item" /\ pc' \in {"next", "finalize"}
      /\ invoices' \in {invoices, invoices \cup {new}}
      /\ UNCHANGED <<failed, spent>> \/ (FailSite("item") /\ Fault)
      /\ UNCHANGED <<calendar, run, local, started, queue, kinds, items, finalized>>
  BY DEF CreateInvoice, FailSite, Goto, local
<1>2. new \in Invoice
  <2>1. site \in Sites /\ run \in 1..MaxRuns
    BY <1>1, RunTyped
  <2>2. Cardinality(invoices) + 1 \in Nat \ {0}
    BY FS_CardinalityType
  <2>3. Open(Tenant) \subseteq Item
    BY DEF Open
  <2> QED
    BY <2>1, <2>2, <2>3 DEF Invoice
<1>3. IsFiniteSet(invoices \cup {new})
  BY FS_AddElement
<1> HIDE DEF new
<1>4. invoices' \subseteq Invoice /\ IsFiniteSet(invoices')
  BY <1>1, <1>2, <1>3
<1>5. failed' \subseteq (1..MaxRuns) \X Sites
  BY <1>1, FailTyped DEF local
<1>6. spent' \in Budgets /\ spent'.reruns = spent.reruns
  BY <1>1, SpentTyped DEF Budgets
<1> QED
  BY <1>1, <1>4, <1>5, <1>6 DEF PC, calendar, local, Budgets

LEMMA FinalizeTyped == TypeInv /\ Finalize => TypeInv'
<1> SUFFICES ASSUME TypeInv, Finalize PROVE TypeInv'
  OBVIOUS
<1> USE DEF TypeInv, BillingTypeOK, RunsCounted, InHand
<1>1. pc = "finalize" /\ pc' = "next" /\ UNCHANGED <<calendar, run, local, started, queue, items, invoices>>
  BY DEF Finalize, FailSite, Goto
<1>2. failed' \subseteq (1..MaxRuns) \X Sites
  BY <1>1, FailTyped DEF Finalize, local
<1>3. finalized' \subseteq (1..MaxRuns) \X Sites
  BY <1>1, RunTyped DEF Finalize
<1>4. spent' \in Budgets /\ spent'.reruns = spent.reruns
  BY SpentTyped DEF Finalize, Budgets
<1> QED
  BY <1>1, <1>2, <1>3, <1>4 DEF PC, calendar, local, Budgets

LEMMA TypeInvStep == TypeInv /\ [Next]_vars => TypeInv'
<1>1. TypeInv /\ UNCHANGED vars => TypeInv'
  BY DEF vars, TypeInv, BillingTypeOK, RunsCounted, InHand
<1> QED
  BY <1>1, WorldTyped, BeginTyped, LoopTyped, RangeTyped, ItemTyped, InvoiceTyped,
     FinalizeTyped DEF Next, ReconcileStep

LEMMA TypeInvInit == Init => TypeInv
<1> SUFFICES ASSUME Init PROVE TypeInv
  OBVIOUS
<1>1. IsFiniteSet({}) /\ Cardinality({}) = 0
  BY FS_EmptySet
<1>2. 0 \in Days /\ 0 \in Months /\ 0 \in 0..MaxRuns
  <2>1. MonthOf(MaxDay) \in Nat /\ MaxRuns \in Nat
    BY MonthsBounded, FS_CardinalityType, BillingAssumption DEF MaxRuns
  <2> QED
    BY <2>1, BillingAssumption DEF Days, Months
<1> QED
  BY <1>1, <1>2, BillingAssumption
  DEF Init, TypeInv, BillingTypeOK, RunsCounted, InHand, PC, NoTotals

(* TypeInvariance: TypeInv holds for any constants; BillingTypeCorrect and   *)
(* the theorems below rest on it.                                            *)
THEOREM TypeInvariance == Spec => []TypeInv
  BY TypeInvInit, TypeInvStep, PTL DEF Spec

(* BillingTypeCorrect: every reachable state has the types of               *)
(* BillingTypeOK: ids, run numbers and months stay in range, no quantity is *)
(* negative and no item of less than a cent is posted.                      *)
THEOREM BillingTypeCorrect == Spec => []BillingTypeOK
<1>1. TypeInv => BillingTypeOK
  BY DEF TypeInv
<1> QED
  BY <1>1, TypeInvariance, PTL

-----------------------------------------------------------------------------
(* No tenant is charged more than it owes. *)

LEMMA DueGrows ==
  ASSUME BillingTypeOK, [Next]_vars, NEW s \in Sites, NEW k \in Kinds, NEW m \in Months
  PROVE  /\ Due(s, k, m) \in Nat /\ Due(s, k, m)' \in Nat
         /\ Due(s, k, m) <= Due(s, k, m)'
<1>1. TenantOf[s] \in Tenants /\ PlanOf[s] \in Plans /\ m \in Nat
  BY BillingAssumption, MonthsBounded
<1>2. /\ UsageIn(TenantOf[s], k, m) \in Nat /\ UsageIn(TenantOf[s], k, m)' \in Nat
      /\ UsageIn(TenantOf[s], k, m) <= UsageIn(TenantOf[s], k, m)'
  BY <1>1, UsageGrows
<1> QED
  BY <1>1, <1>2, DueIs, CentsGrow

(* What has been read of the usage of the site in hand.                      *)
LEMMA AtItem ==
  ASSUME [Next]_vars, pc' = "item"
  PROVE  \/ /\ RangeUsage /\ pc = "range" /\ UNCHANGED <<calendar, site, period, items>>
            /\ totals' = [k \in Kinds |-> UsageIn(Tenant, k, period)]
            /\ kinds' = {k \in Kinds : totals'[k] > 0}
         \/ /\ pc = "item" /\ UNCHANGED <<totals, site, period>>
            /\ \/ UNCHANGED <<kinds, items>>
               \/ \E k \in kinds : /\ AddInvoiceItem(k) /\ kinds' = kinds \ {k}
                                   /\ items' = items \cup Posted(k)
<1>1. CASE RangeUsage
  BY <1>1 DEF RangeUsage, Goto, FailSite, stripe
<1>2. ASSUME NEW k \in Kinds, AddInvoiceItem(k)
      PROVE  /\ pc = "item" /\ UNCHANGED <<totals, site, period>>
             /\ k \in kinds /\ kinds' = kinds \ {k} /\ items' = items \cup Posted(k)
  BY <1>2 DEF AddInvoiceItem, Goto, FailSite
<1>3. CASE UNCHANGED vars \/ NextDay
           \/ (\E t \in Tenants, k \in Kinds, d \in Days : Record(t, k, d))
           \/ \E s \in Sites : Toggle(s)
  BY <1>3 DEF vars, NextDay, Record, Toggle, local, stripe
<1>4. ~ScheduledJob /\ ~ListSites /\ ~EndRun /\ ~CreateInvoice /\ ~Finalize /\ ~Crash
      /\ (\A m \in Months : ~Rerun(m)) /\ \A s \in Sites : ~TakeSite(s)
  BY DEF ScheduledJob, Rerun, Begin, ListSites, EndRun, CreateInvoice, Finalize, Crash,
     TakeSite, FailSite, Goto
<1> QED
  BY <1>1, <1>2, <1>3, <1>4 DEF Next, ReconcileStep

(* Items are posted by AddInvoiceItem and never taken back.                  *)
LEMMA ItemsStep ==
  ASSUME [Next]_vars
  PROVE  \/ UNCHANGED items
         \/ \E k \in kinds \cap Kinds : /\ pc = "item" /\ UNCHANGED usage
                                        /\ items' = items \cup Posted(k)
  BY DEF Next, ReconcileStep, NextDay, Record, Toggle, ScheduledJob, Rerun, Begin, ListSites,
     EndRun, RangeUsage, CreateInvoice, Finalize, TakeSite, AddInvoiceItem, Crash, calendar,
     stripe, vars

LEMMA FairStep == TypeInv /\ FairInv /\ [Next]_vars => FairInv'
<1> SUFFICES ASSUME TypeInv, FairInv, [Next]_vars PROVE FairInv'
  OBVIOUS
<1> USE DEF TypeInv, BillingTypeOK
<1>1. TotalsPast'
  <2> SUFFICES ASSUME pc' = "item", NEW k \in Kinds
               PROVE  totals'[k] <= UsageIn(Tenant, k, period)'
    BY DEF TotalsPast
  <2>1. /\ site \in Sites /\ Tenant \in Tenants /\ period \in Nat
        /\ Tenant' = Tenant /\ period' = period
    BY AtItem, MonthsBounded, BillingAssumption DEF RunsCounted, InHand, Tenant
  <2>2. /\ UsageIn(Tenant, k, period) \in Nat
        /\ UsageIn(Tenant, k, period)' \in Nat
        /\ UsageIn(Tenant, k, period) <= UsageIn(Tenant, k, period)'
    <3> DEFINE t == Tenant
               m == period
    <3>1. t \in Tenants /\ m \in Nat /\ t' = t /\ m' = m
      BY <2>1
    <3>2. /\ UsageIn(t, k, m) \in Nat
          /\ SumFunctionOnSet(usage'[t][k], DaysOf(m)) \in Nat
          /\ UsageIn(t, k, m) <= SumFunctionOnSet(usage'[t][k], DaysOf(m))
      BY <2>1, UsageGrows DEF UsageIn, DaysOf
    <3> QED
      BY <3>1, <3>2 DEF UsageIn, DaysOf
  <2>3. totals'[k] <= UsageIn(Tenant, k, period) /\ totals'[k] \in Nat
    BY <2>2, AtItem DEF FairInv, TotalsPast
  <2> QED
    BY <2>2, <2>3
<1>2. ChargedFairly'
  <2> SUFFICES ASSUME NEW i \in items' PROVE i.cents <= Due(i.site, i.kind, i.period)'
    BY DEF ChargedFairly
  <2>1. CASE i \in items
    <3>1. i.site \in Sites /\ i.kind \in Kinds /\ i.period \in Months /\ i.cents \in Nat
      BY <2>1 DEF Item
    <3>2. i.cents <= Due(i.site, i.kind, i.period)
      BY <2>1 DEF FairInv, ChargedFairly
    <3> QED
      BY <3>1, <3>2, DueGrows
  <2>2. CASE i \notin items
    <3>1. PICK k \in Kinds : pc = "item" /\ UNCHANGED usage /\ i \in Posted(k)
      BY <2>2, ItemsStep
    <3>2. /\ site \in Sites /\ Tenant \in Tenants /\ PlanOf[site] \in Plans /\ period \in Months
          /\ period \in Nat
      BY <3>1, MonthsBounded, BillingAssumption DEF RunsCounted, InHand, Tenant
    <3>3. /\ i.site = site /\ i.kind = k /\ i.period = period
          /\ i.cents = Cents(PlanOf[site], k, totals[k])
      BY <3>1 DEF Posted, NewItem
    <3>4. totals[k] <= UsageIn(Tenant, k, period) /\ totals[k] \in Nat
      BY <3>1 DEF FairInv, TotalsPast
    <3>5. UsageIn(Tenant, k, period) \in Nat
      BY <3>2, UsageTyped
    <3>6. i.cents <= Due(site, k, period) /\ i.cents \in Nat
      BY <3>2, <3>3, <3>4, <3>5, CentsGrow, DueIs DEF Tenant
    <3>7. Due(site, k, period) \in Nat /\ i.site = site /\ Due(i.site, i.kind, i.period)' \in Nat
          /\ Due(i.site, i.kind, i.period) <= Due(i.site, i.kind, i.period)'
      BY <3>2, <3>3, DueGrows
    <3> QED
      BY <3>3, <3>6, <3>7
  <2> QED
    BY <2>1, <2>2
<1> QED
  BY <1>1, <1>2 DEF FairInv

(* ChargedFairlyHolds: no item ever charges more than what the tenant used   *)
(* in its month is worth, for any prices and plans, however often calls      *)
(* fail and runs die or are repeated, and however late usage is recorded     *)
(* (property ChargedFairly).                                                 *)
THEOREM ChargedFairlyHolds == Spec => []ChargedFairly
<1>1. Init => FairInv
  BY DEF Init, FairInv, TotalsPast, ChargedFairly
<1>2. FairInv => ChargedFairly
  BY DEF FairInv
<1> QED
  BY TypeInvariance, FairStep, <1>1, <1>2, PTL DEF Spec

-----------------------------------------------------------------------------
(* A run leaves none of its customers out. *)

LEMMA OnlyGrow ==
  ASSUME [Next]_vars
  PROVE  items \subseteq items' /\ finalized \subseteq finalized' /\ failed \subseteq failed'
<1>1. items \subseteq items'
  BY ItemsStep
<1>2. finalized \subseteq finalized' /\ failed \subseteq failed'
  BY DEF Next, ReconcileStep, NextDay, Record, Toggle, ScheduledJob, Rerun, Begin, ListSites,
     EndRun, RangeUsage, CreateInvoice, Finalize, TakeSite, AddInvoiceItem, Crash, FailSite,
     calendar, stripe, vars
<1> QED
  BY <1>1, <1>2

LEMMA MonthsOverStep == TypeInv /\ MonthsOver /\ [Next]_vars => MonthsOver'
<1> SUFFICES ASSUME TypeInv, MonthsOver, [Next]_vars PROVE MonthsOver'
  OBVIOUS
<1> USE DEF TypeInv, BillingTypeOK
<1>1. MonthOf(day) \in Nat /\ started \subseteq Nat
  BY MonthsBounded
<1>2. CASE NextDay
  <2>1. day' \in Days /\ day <= day'
    BY <1>2, BillingAssumption DEF NextDay, Days
  <2>2. MonthOf(day') \in Nat /\ MonthOf(day) <= MonthOf(day')
    BY <2>1, MonthsBounded
  <2>3. UNCHANGED <<started, listed, pc, period>> /\ MonthOf(day)' = MonthOf(day')
    BY <1>2 DEF NextDay, local, MonthOf
  <2> QED
    BY <1>1, <2>2, <2>3 DEF MonthsOver
<1>3. CASE ScheduledJob
  <2>1. started' = started \cup {MonthOf(day) - 1} /\ period' = MonthOf(day) - 1
        /\ MonthOf(day)' = MonthOf(day)
    BY <1>3 DEF ScheduledJob, Begin, calendar, MonthOf
  <2> QED
    BY <1>1, <2>1 DEF MonthsOver
<1>4. CASE ~NextDay /\ ~ScheduledJob
  <2>1. UNCHANGED <<day, started>>
    BY <1>4 DEF Next, ReconcileStep, Record, Toggle, Rerun, Begin, ListSites, EndRun,
       RangeUsage, CreateInvoice, Finalize, TakeSite, AddInvoiceItem, Crash, calendar, vars
  <2>2. MonthOf(day)' = MonthOf(day)
    BY <2>1 DEF MonthOf
  <2>3. listed' # {} \/ pc' # "idle" => period' \in started
    BY <1>4 DEF MonthsOver, Next, ReconcileStep, Record, Toggle, Rerun, Begin, ListSites,
       EndRun, RangeUsage, CreateInvoice, Finalize, TakeSite, AddInvoiceItem, Crash, FailSite,
       Goto, local, calendar, vars
  <2> QED
    BY <2>1, <2>2, <2>3 DEF MonthsOver
<1> QED
  BY <1>2, <1>3, <1>4

(* What is due for a month that is over stays what it is, and so does the    *)
(* item that charges it.                                                     *)
LEMMA DueStays ==
  ASSUME BillingTypeOK, ~LateRecords, [Next]_vars, NEW s \in Sites, NEW k \in Kinds,
         NEW m \in Months, m < MonthOf(day)
  PROVE  Due(s, k, m)' = Due(s, k, m)
<1>1. TenantOf[s] \in Tenants /\ m \in Nat
  BY BillingAssumption, MonthsBounded
<1> QED
  BY <1>1, UsageClosed, DueIs

LEMMA ItemKept ==
  ASSUME BillingTypeOK, MonthsOver, ~LateRecords, [Next]_vars, NEW s \in Sites, NEW k \in Kinds,
         period \in started, UNCHANGED period, ItemOfDue(s, k)
  PROVE  ItemOfDue(s, k)'
<1> DEFINE m == period
<1>1. m \in Months /\ m < MonthOf(day) /\ period' = m
  BY DEF BillingTypeOK, MonthsOver
<1>2. Due(s, k, m) > 0 =>
        \E i \in items : i.site = s /\ i.kind = k /\ i.period = m /\ i.cents = Due(s, k, m)
  BY DEF ItemOfDue
<1> HIDE DEF m
<1>3. ASSUME NEW n \in Months, n = m
      PROVE  Due(s, k, n)' = Due(s, k, n)
  BY <1>1, <1>3, DueStays
<1>4. ItemOfDue(s, k)' <=>
        (Due(s, k, period)' > 0 =>
          \E i \in items' : /\ i.site = s /\ i.kind = k /\ i.period = period'
                            /\ i.cents = Due(s, k, period)')
  BY DEF ItemOfDue
<1>5. Due(s, k, period)' = Due(s, k, period)
  BY <1>1, <1>3 DEF Due, m
<1> QED
  BY <1>1, <1>2, <1>4, <1>5, OnlyGrow DEF m

LEMMA SiteKept ==
  ASSUME BillingTypeOK, MonthsOver, ~LateRecords, [Next]_vars, NEW s \in Sites,
         period \in started, UNCHANGED <<run, period>>, SiteDone(s)
  PROVE  SiteDone(s)'
<1>1. \A k \in Kinds : ItemOfDue(s, k) => ItemOfDue(s, k)'
  BY ItemKept
<1>2. finalized \subseteq finalized' /\ failed \subseteq failed'
  BY OnlyGrow
<1> QED
  BY <1>1, <1>2 DEF SiteDone

(* Steps inside a run keep what is done; the site in hand joins it when the  *)
(* run lets go of it.                                                        *)
LEMMA ListedKept ==
  ASSUME TypeInv, DoneInv, ~LateRecords, [Next]_vars, pc # "list",
         UNCHANGED <<run, period, listed>>, queue \ queue' \subseteq {site'},
         queue' # queue => InHand',
         InHand => site' = site /\ (InHand' \/ SiteDone(site)')
  PROVE  ListedDone'
<1> SUFFICES ASSUME NEW s \in listed \ queue', s # site' \/ ~InHand'
             PROVE  SiteDone(s)'
  BY DEF ListedDone
<1> USE DEF TypeInv, BillingTypeOK
<1>1. period \in started /\ s \in Sites /\ s \in listed \ queue
  BY DEF DoneInv, MonthsOver
<1>2. CASE InHand /\ s = site
  BY <1>2
<1>3. CASE s # site \/ ~InHand
  <2>1. SiteDone(s)
    BY <1>1, <1>3 DEF DoneInv, ListedDone
  <2> QED
    BY <1>1, <2>1, SiteKept DEF DoneInv
<1> QED
  BY <1>2, <1>3

(* What the world does beside a run changes nothing of what the run charged. *)
LEMMA DoneWorld ==
  ASSUME TypeInv, DoneInv, ~LateRecords, [Next]_vars,
         \/ NextDay \/ (\E t \in Tenants, k \in Kinds, d \in Days : Record(t, k, d))
         \/ (\E s \in Sites : Toggle(s)) \/ UNCHANGED vars
  PROVE  DoneInv'
<1>1. UNCHANGED <<pc, run, local, started, queue, failed, stripe>>
  BY DEF NextDay, Record, Toggle, vars, local, stripe
<1>2. MonthsOver' /\ (pc = "idle" => queue = {})'
  BY <1>1, MonthsOverStep DEF DoneInv
<1>3. ListedDone'
  <2>1. CASE pc = "list"
    BY <1>1, <2>1 DEF ListedDone
  <2>2. CASE pc # "list"
    BY <1>1, <2>2, ListedKept DEF local, InHand
  <2> QED
    BY <2>1, <2>2
<1>4. HandDone'
  <2>1. CASE ~InHand
    BY <1>1, <2>1 DEF HandDone, InHand
  <2>2. CASE InHand
    <3>1. /\ site \in Sites /\ period \in started /\ period \in Months /\ period \in Nat
          /\ period < MonthOf(day) /\ Tenant \in Tenants /\ UNCHANGED <<site, period, kinds, totals>>
      BY <1>1, <2>2, BillingAssumption, MonthsBounded
      DEF TypeInv, BillingTypeOK, RunsCounted, DoneInv, MonthsOver, InHand, Tenant, local
    <3>2. \A k \in Kinds : ItemOfDue(site, k) => ItemOfDue(site, k)'
      <4> TAKE k \in Kinds
      <4>1. ASSUME NEW s \in Sites, s = site, ItemOfDue(s, k) PROVE ItemOfDue(s, k)'
        BY <3>1, <4>1, ItemKept DEF TypeInv, DoneInv
      <4> QED
        BY <3>1, <4>1 DEF ItemOfDue, Due
    <3>3. \A k \in Kinds : UsageIn(Tenant, k, period)' = UsageIn(Tenant, k, period)
      <4> TAKE k \in Kinds
      <4>1. ASSUME NEW t \in Tenants, NEW m \in Nat, m < MonthOf(day)
            PROVE  UsageIn(t, k, m)' = UsageIn(t, k, m)
        BY <4>1, UsageClosed DEF TypeInv
      <4> QED
        BY <3>1, <4>1 DEF UsageIn, Tenant
    <3>4. Tenant' = Tenant
      BY <3>1 DEF Tenant
    <3> QED
      BY <1>1, <3>1, <3>2, <3>3, <3>4 DEF HandDone, DoneInv
  <2> QED
    BY <2>1, <2>2
<1> QED
  BY <1>2, <1>3, <1>4 DEF DoneInv

(* Between sites nothing is in hand.                                         *)
LEMMA DoneLoop ==
  ASSUME TypeInv, DoneInv, ~LateRecords, [Next]_vars,
         \/ ScheduledJob \/ (\E m \in Months : Rerun(m)) \/ ListSites \/ EndRun \/ Crash
         \/ \E s \in Sites : TakeSite(s)
  PROVE  DoneInv'
<1>1. MonthsOver'
  BY MonthsOverStep DEF DoneInv
<1>2. HandDone' /\ (pc = "idle" => queue = {})'
  BY DEF ScheduledJob, Rerun, Begin, ListSites, EndRun, Crash, TakeSite, Goto, HandDone, DoneInv
<1>3. ListedDone'
  <2>1. CASE ScheduledJob \/ (\E m \in Months : Rerun(m)) \/ ListSites \/ Crash
    BY <2>1 DEF ScheduledJob, Rerun, Begin, ListSites, Crash, Goto, ListedDone
  <2>2. CASE EndRun \/ \E s \in Sites : TakeSite(s)
    BY <2>2, ListedKept DEF EndRun, TakeSite, Goto, InHand
  <2> QED
    BY <2>1, <2>2
<1> QED
  BY <1>1, <1>2, <1>3 DEF DoneInv

(* Of the site in hand, Range finds out what is due, ...                     *)
LEMMA DoneRange ==
  ASSUME TypeInv, DoneInv, ~LateRecords, [Next]_vars, RangeUsage
  PROVE  DoneInv'
<1> USE DEF TypeInv, BillingTypeOK, RunsCounted, InHand
<1>1. /\ pc = "range" /\ UNCHANGED <<calendar, run, period, started, listed, queue, site, stripe>>
      /\ site \in Sites /\ Tenant \in Tenants /\ PlanOf[site] \in Plans
      /\ period \in Nat
  BY MonthsBounded, BillingAssumption DEF RangeUsage, FailSite, Goto, Tenant
<1>2. CASE pc' = "item"
  <2>1. /\ totals' = [k \in Kinds |-> UsageIn(Tenant, k, period)]
        /\ kinds' = {k \in Kinds : totals'[k] > 0}
    BY <1>2, AtItem DEF RangeUsage, Goto, FailSite
  <2>2. ASSUME NEW k \in Kinds \ kinds' PROVE ItemOfDue(site, k)
    <3>1. UsageIn(Tenant, k, period) \in Nat /\ ~(UsageIn(Tenant, k, period) > 0)
      BY <1>1, <2>1, <2>2, UsageTyped
    <3>2. ~(Due(site, k, period) > 0)
      BY <1>1, <2>2, <3>1, DueIs, CentsCalled DEF Tenant
    <3> QED
      BY <3>2 DEF ItemOfDue
  <2>3. UNCHANGED <<usage, site, period, items>>
    BY <1>1 DEF calendar, stripe
  <2>4. \A k \in Kinds : /\ UsageIn(Tenant, k, period)' = UsageIn(Tenant, k, period)
                         /\ ItemOfDue(site, k) => ItemOfDue(site, k)'
    BY <2>3 DEF UsageIn, Tenant, ItemOfDue, Due
  <2>5. HandDone'
    BY <1>2, <2>1, <2>2, <2>4 DEF HandDone
  <2>6. ListedDone'
    BY <1>1, <1>2, ListedKept
  <2> QED
    BY <1>1, <1>2, <2>5, <2>6, MonthsOverStep DEF DoneInv
<1>3. CASE pc' # "item"
  <2>1. pc' = "next" /\ failed' = failed \cup {<<run, site>>}
    BY <1>3 DEF RangeUsage, Goto, FailSite
  <2>2. SiteDone(site)'
    BY <1>1, <2>1 DEF SiteDone
  <2>3. ListedDone'
    BY <1>1, <2>1, <2>2, ListedKept
  <2> QED
    BY <1>1, <2>1, <2>3, MonthsOverStep DEF DoneInv, HandDone
<1> QED
  BY <1>2, <1>3

(* ... AddInvoiceItem charges it kind by kind, ...                           *)
LEMMA DoneItem ==
  ASSUME TypeInv, DoneInv, ~LateRecords, [Next]_vars, NEW k \in Kinds, AddInvoiceItem(k)
  PROVE  DoneInv'
<1> USE DEF TypeInv, BillingTypeOK, RunsCounted, InHand
<1>1. /\ pc = "item" /\ UNCHANGED <<calendar, run, period, started, listed, queue, site, totals>>
      /\ site \in Sites /\ Tenant \in Tenants /\ PlanOf[site] \in Plans
      /\ period \in Nat /\ period \in started
      /\ UNCHANGED <<usage, Tenant>>
  BY MonthsBounded, BillingAssumption
  DEF AddInvoiceItem, FailSite, Goto, Tenant, DoneInv, MonthsOver, calendar
<1>2. CASE pc' = "item"
  <2>1. kinds' = kinds \ {k} /\ items' = items \cup Posted(k)
    BY <1>2 DEF AddInvoiceItem, Goto, FailSite
  <2>2. \A j \in Kinds : UsageIn(Tenant, j, period)' = UsageIn(Tenant, j, period)
    BY <1>1 DEF UsageIn
  <2>3. Tenant \in Customers => ItemOfDue(site, k)'
    <3> SUFFICES ASSUME Tenant \in Customers, Due(site, k, period) > 0
                 PROVE  \E i \in items' : /\ i.site = site /\ i.kind = k /\ i.period = period
                                          /\ i.cents = Due(site, k, period)
      BY <1>1 DEF ItemOfDue, Due
    <3>1. totals[k] = UsageIn(Tenant, k, period) /\ totals[k] \in Nat
      BY <1>1 DEF HandDone, DoneInv
    <3>2. Due(site, k, period) = Cents(PlanOf[site], k, totals[k])
      BY <1>1, <3>1, DueIs DEF Tenant
    <3>3. Called(PlanOf[site], k, totals[k])
      BY <1>1, <3>1, <3>2, CentsCalled
    <3>4. NewItem(k) \in items'
      BY <2>1, <3>2, <3>3 DEF Posted, NewItem
    <3> QED
      BY <3>2, <3>4 DEF NewItem
  <2>4. ASSUME NEW j \in Kinds, ItemOfDue(site, j) PROVE ItemOfDue(site, j)'
    BY <1>1, <2>1, <2>4 DEF ItemOfDue, Due
  <2>5. HandDone'
    BY <1>1, <1>2, <2>1, <2>2, <2>3, <2>4 DEF HandDone, DoneInv
  <2>6. ListedDone'
    BY <1>1, <1>2, ListedKept
  <2> QED
    BY <1>1, <1>2, <2>5, <2>6, MonthsOverStep DEF DoneInv
<1>3. CASE pc' # "item"
  <2>1. pc' = "next" /\ failed' = failed \cup {<<run, site>>}
    BY <1>3 DEF AddInvoiceItem, Goto, FailSite
  <2>2. SiteDone(site)'
    BY <1>1, <2>1 DEF SiteDone
  <2>3. ListedDone'
    BY <1>1, <2>1, <2>2, ListedKept
  <2> QED
    BY <1>1, <2>1, <2>3, MonthsOverStep DEF DoneInv, HandDone
<1> QED
  BY <1>2, <1>3

(* ... and the invoice is created once no kind is left, and finalized.       *)
LEMMA DoneInvoice ==
  ASSUME TypeInv, DoneInv, ~LateRecords, [Next]_vars, CreateInvoice \/ Finalize
  PROVE  DoneInv'
<1> USE DEF TypeInv, BillingTypeOK, RunsCounted, InHand
<1>1. /\ pc \in {"item", "finalize"} /\ pc' \in {"next", "finalize"}
      /\ UNCHANGED <<calendar, run, period, started, listed, queue, site, kinds, items>>
      /\ UNCHANGED <<usage, Tenant>>
      /\ site \in Sites
  BY DEF CreateInvoice, Finalize, FailSite, Goto, local, Tenant, calendar
<1>2. \A k \in Kinds : ItemOfDue(site, k) => ItemOfDue(site, k)'
  BY <1>1 DEF ItemOfDue, Due
<1>3. HandDone'
  <2> SUFFICES ASSUME pc' = "finalize" PROVE \A k \in Kinds : ItemOfDue(site, k)
    BY <1>1, <1>2 DEF HandDone
  <2>1. pc = "item" /\ kinds = {} /\ Tenant \in Customers
    BY DEF CreateInvoice, Finalize, FailSite, Goto
  <2> QED
    BY <2>1 DEF HandDone, DoneInv
<1>4. ASSUME pc' = "next" PROVE SiteDone(site)'
  <2>1. \/ Tenant \notin Customers
        \/ <<run, site>> \in failed'
        \/ pc = "finalize" /\ <<run, site>> \in finalized'
    BY <1>4 DEF CreateInvoice, Finalize, FailSite, Goto
  <2>2. pc = "finalize" => \A k \in Kinds : ItemOfDue(site, k)'
    BY <1>2 DEF HandDone, DoneInv
  <2> QED
    BY <1>1, <2>1, <2>2 DEF SiteDone, Tenant
<1>5. ListedDone'
  BY <1>1, <1>4, ListedKept
<1> QED
  BY <1>1, <1>3, <1>5, MonthsOverStep DEF DoneInv

(* NoneForgottenHolds: where usage is recorded on the day it occurs, every   *)
(* run that ends has charged each customer it listed all that it owes for    *)
(* the month and sent it a finalized invoice, unless it logged that it       *)
(* failed, for any Sites, prices and number of failures, crashes and runs by *)
(* hand (property NoneForgotten).                                            *)
THEOREM NoneForgottenHolds ==
  ASSUME ~LateRecords
  PROVE  Spec => []NoneForgotten
<1>1. Init => DoneInv
  BY DEF Init, DoneInv, MonthsOver, ListedDone, HandDone
<1>2. TypeInv /\ DoneInv /\ [Next]_vars => DoneInv'
  BY DoneWorld, DoneLoop, DoneRange, DoneItem, DoneInvoice DEF Next, ReconcileStep
<1>3. DoneInv => NoneForgotten
  BY DEF DoneInv, ListedDone, SiteDone, ItemOfDue, InHand, NoneForgotten
<1> QED
  BY TypeInvariance, <1>1, <1>2, <1>3, PTL DEF Spec

=============================================================================
