# loom-cloud in TLA+

Models, model-checking runs and proofs for loom-cloud, the hosted Loom runtime:
the loop that provisions tenants' sites, the DNS records, containers and routes
it leaves behind, the edge that uses them, and the monthly billing.

`tlc -config <run>.cfg <MC module>` checks a run, `tlapm <module>Proofs.tla` the
proofs. `PROJECT.json` lists the runs, what each definition stands for in the
source, the hazards and the findings.

## The system

| Part | Source | State | Operations | Talks to |
|---|---|---|---|---|
| watcher | `internal/watcher/watcher.go` | ticker, the listing being drained, a private copy of the site in hand | `tick`, `provisionOne`, `deprovisionOne` | SiteRepo, DNS manager, provisioner, port map |
| SiteRepo | `watcher.go:40-67`, `252-312` | rows of the Site table | `Pending`, `Deprovisioning`, `Update`, (dashboard) insert, teardown, requeue | database |
| provisioner | `internal/docker/provisioner.go` | none; containers belong to docker | `Provision`, `Deprovision`, `Status` (no caller) | docker CLI |
| DNS manager | `internal/dns/dns.go`, `region.go` | none | `EnsureSlug`, `EnsureSlugInRegion`, `RemoveSlug`, `Reconcile` | Provider |
| Cloudflare provider | `internal/dns/cloudflare.go` | none | `Upsert`, `Delete`, `List` | the zone, by HTTP |
| port map | `internal/edge/router.go:45-74` | slug to port, in memory | `Set`, `Lookup` | |
| edge router | `router.go`, `internal/edge/region.go` | none; one locator an edge | `Handler`, both dispatches, forwarding | locator, port map, rate limiter, other edges, backends |
| rate limiter | `internal/edge/ratelimit.go` | a token bucket a slug | `Allow` | clock |
| billing reconciler | `internal/billing/billing.go` | none that outlives a run | `ScheduledJob`, `Reconcile`, `reconcileTenant` | usage store, Site table, invoicer |
| usage store | `billing/memory.go`, `sql_usage_store.go` | usage events | `Record`, `Range` | database |
| Stripe invoicer | `internal/billing/stripe.go` | none | `AddInvoiceItem`, `FinalizeInvoice` | Stripe |
| TLS manager | `internal/tls/` | autocert's cache, on disk | `hostPolicy`, `Start`; autocert's handshake | port map (`AllowSlug`), ACME |
| edge binary | `apps/cloud/main.go` | the process | wiring, start, shutdown | router, TLS, port map |

What is hard about each, and what makes it right:

- *Watcher.* A pass works through copies listed at its start; every call may fail
  or be the last before a crash; the dashboard, a second watcher and the tenant's
  own process act between any two calls. Right: Running means started and
  recorded, Stopped means gone, Failed is not routed, a teardown is not undone,
  scoped watchers keep apart, and what is pending is decided.
- *Docker.* All containers of a host publish one host port, so who holds it
  matters to whoever is routed to it.
- *DNS.* A provider call is a lookup and a write by id, with other callers in
  between; Reconcile acts on an old listing. Right: a provider call is atomic as
  far as its caller can tell, a name has one record, and nobody's record but
  one's own is touched.
- *Edge.* Locators change while requests are under way, each request asks twice,
  and edges may disagree. Right: no request circles for ever, and one whose site
  stays put finds it, in its home region, in one hop.
- *TLS and the process.* A handshake, the resolver and the dispatch ask the port map
  one after the other while the watcher writes it, the dial comes after all of
  them, and a restart empties the map but not the certificates. Right: a site
  that stays published is served, one that is stopped reaches nobody, and what
  strangers ask for costs the edge nothing.
- *Rate limiter.* The clock is read outside the lock. Right: never more than
  burst and refill over any stretch of time, and never less than the burst.
- *Billing.* Charges are posted one by one to a service that cannot be rolled
  back, in a run that may fail, die, or be repeated. Right: nobody is charged
  twice or too much, and nobody who was not logged as failed is left out.

The binary starts the router and the TLS listener only: neither the watcher nor
the DNS manager nor billing is wired in `main.go`, and `Reconcile` and
`EnsureSlugInRegion` have no caller. The models compose the packages the way
their comments and tests do.

## Modules

| Module | What it is |
|---|---|
| `Hosting` | the Site statuses of `site.yaml` |
| `SiteRepo` | Site table with the copies a production repository hands out, and the dashboard |
| `DockerHost` | docker on one or more hosts, from the commands the provisioner sends (external) |
| `Watcher` | extends both: the control loop, the zone as the watcher sees it, the port maps; its properties |
| `WatcherInv` | the inductive invariants: `IInv`; `PublishInv`, `RouteInv` and `GhostInv` on top of it |
| `EdgeServing` | extends `Watcher`: handshakes and requests at the edge of a watcher's process |
| `EdgeServingProofs` | that it implements `Watcher`; theorems about requests, which use those about routes |
| `SiteLifecycle` | abstract: what the loop promises about a Site's status |
| `WatcherLifecycle` | `Watcher` with the refinement mapping to `SiteLifecycle` |
| `WatcherProofs`, `WatcherLifecycleProofs` | theorems: containers, rows and records; the refinement |
| `RouteProofs` | theorems: routes and ghost records |
| `Plans` | the default prices and included quantities |
| `Billing`, `BillingInv`, `BillingProofs` | a month's billing; `NeverTwice`, `OncePerRun`, `FairInv`, `DoneInv`; theorems and the lemmas about sums |
| `RateLimiter`, `RateLimiterProofs` | `TokenBucketLimiter`, `LimiterInv`, theorems |
| `EdgeRouting`, `EdgeRoutingProofs` | requests between regions' edges, `RoutingInv`, theorems |
| `ZoneContract` | abstract: what `dns.Provider` promises callers whose calls overlap; `MemoryProvider` is its error-free case |
| `DNSZone` | managers over Cloudflare, with the refinement mapping to `ZoneContract` |
| `DNSZoneInv`, `DNSZoneProofs` | `ZoneInv`, `OneInv`, `ApartInv`; theorems |
| `MC*` | instances for TLC |

Definitions marked "Mutant" are wrong on purpose and used by nothing: each is
the body a definition would have with a plausible bug, and the property named
with it in `PROJECT.json` fails when it is put in its place.

### Watcher

One action is one call that leaves the process, with the assignments around it.
`pc[w]` is the next call of watcher `w`: `Tick` lists pending sites, `Take` picks
one (rows come in no promised order), then `EnsureSlug`, `Pull`, `RemoveOld`,
`RunContainer`, `HealthCheck`, `Publish` and `Save` are `provisionOne` and
`docker.Provision`; `ListDeprovisioning`, `Unpublish`, `RemoveContainer`,
`RemoveSlug` and `Save` are the other half. `copy[w]` is the status of the private
copy; only `Save` writes the row. A failed call is a disjunct of its action and
takes one of `MaxFaults`; where the call may have worked (docker run, an HTTP
request), both outcomes are there. `Crash` forgets everything in the process,
the port map too. `port[w]` is the port map of `w`'s process; all sites share one
port, so membership is all there is to it.

Points where the code and its comments differ and the model follows the code: a
tick drains everything it listed ("claims one per tick"); teardown unpublishes
before it removes the container (`watcher.go:105` has the other order); the
watcher calls `EnsureSlug`, not `EnsureSlugInRegion`, for placed sites too.

Left out: `LastError`, `LastDeployedAt`, logging. A cancelled context makes the
remaining calls fail and ends the loop, which failing calls and `Crash` cover.

`MemorySiteRepo` hands out its stored pointers, so what a watcher assigns to a
site in hand is seen at once by whoever reads that repository, before `Update`.
`Shown(s)` is the set of statuses a reader of either repository may see; the
properties of Running and Stopped are stated of it, and so hold of both.

### EdgeServing

A watcher's process also serves the edge, as the package comments have it: TLS
manager, router and watcher share one `MemoryPortMap`. `Connect` opens a
connection with any server name; `Handshake` is autocert's use of the cache and
of `hostPolicy`, `Issue` the order of a certificate; `Request` names any host on
an open connection; `Resolve` is the `SubdomainResolver`'s lookup, `Dispatch` the
limiter and the second lookup, `Dial` the reverse proxy's connection to the one
host port, where whatever container holds it answers. Each is one step, with
every step of `Watcher` in between. `Restart` is `Crash` with the connections of
that process cut, as they are on SIGTERM too (`main.go:83-88` does not wait for
`Shutdown`); `certs[h]` stays, being on disk. `fate[q]` is history: what has held
of the site ever since the request was asked. Certificates do not expire here.

### Billing

An action is one call to the store, the Site table or Stripe. `AddInvoiceItem`
and `CreateInvoice` may fail with or without having worked. Days are counted
from 0, a month has `MonthLen`; money is in 1/`CentUnits` of a cent and `Cents`
truncates as the code does, so float rounding is abstracted. Prices and included
quantities are those of `Plans`; events come in sizes (`Quantity`) around what the
plan includes. `items`, `invoices` and `finalized` are Stripe's side; an invoice
takes every open item of its customer. Items carry the run that posted them, as
history.

### RateLimiter

`ReadClock` is `l.now()` before the lock, `Decide` the critical section. Tokens are
integers in 1/`Unit`, where the code has float64. `granted`, `since` and `counted`
are history.

### EdgeRouting

`Resolve` is the `SubdomainResolver`'s question, `Dispatch` the handler behind it,
on whichever path `LocalRegion` selects. A forwarded request starts over at the
next edge since the reverse proxy keeps its Host. `view[e]` is the locator of `e`;
the host tells locators one at a time (`SetLocation`) after it has moved a site
(`Place`). The rate limiter is a choice here. `calm[q]` is history: since `q`
arrived all locators have agreed about its site and it has not moved. The
backend's own answer is external; the `PortMap` path is the single-region case
with another table.

### DNSZone

A caller asks its manager for a job; `todo` holds the provider calls it has still
to make, deletions first, as `Reconcile` makes them. `Find` is `findRecord` of the
next call, or the no-op where nothing needs writing; `Write` is the PUT, POST or
DELETE. A request may fail, and a write that failed may have worked by the time
it returns (not later). The zone refuses a second record of the same name and
address and a write to an id that is gone. The TTL is left at its default.

`ZoneContract` is an atomic store with calls under way. A call takes effect at one
instant (`Succeed`), or does nothing where the zone is as it wants it (`AtOnce`), and
must succeed unless a request is lost (`Outage`) or another call for its name took
effect meanwhile (`Refuse`). So the no-ops the contract insists on are part of what
is checked. `Refuse` is what `dns.go:40-43` does not allow and `do`
(`cloudflare.go:195-199`) does: the 404 of the DELETE and error 81057 are returned.
`Calling` is `cur` between lookup and write, `Overtaken` says that the record found
is gone, or that there is one where none was found, and `faults` are the outages.

`List` reads a page an action. Other callers write between pages, so a record
deleted meanwhile moves those behind it up, past what has been read; `slipped[c]`
is history of that. The provider's order is unspecified; the model takes that
of ids.

## Runs

| Run | Instance | Shows |
|---|---|---|
| `watcher_single` | one watcher, two sites, two failures of any kind, a crash, an exit, two requests of the dashboard, fair | `RunningIsBacked`, `StoppedIsGone`, `GhostsAreFaults`, `TeardownNotLost`, `OnlyTeardownUnpublishes`, that the loop implements `SiteLifecycle`, `PendingIsDecided` and `TeardownIsDecided` |
| `watcher_routing` | the same watcher with its edge and one connection, two failures but of Update, a crash, an exit, three requests of the dashboard, limiter on | `RunningIsPublished`, `FailedNotPublished`, `RoutedHome`, `RoutedIsServed`, `StoppedIsRefused`, `KeptForTenants` |
| `watcher_regions` | two scoped watchers on two hosts, three sites, one of them unplaced, a failure, a crash | `IInv`, `PublishedIsRecorded`, `NoDoubleProvision`, `UnplacedUntouched` |
| `billing_run` | two sites, one without a Stripe customer, three events, a failure and a month run again by hand, default prices | `NoneForgotten`, `ChargedOncePerRun` |
| `billing_faults` | one site, months of two days, three events, two failures, a crash, late usage | `ChargedOnce`, `InvoicedOnce`, `ChargedFairly`, `NeverTwice` |
| `rate_limiter` | three callers, two slugs, bursts of two, half a token a tick, three ticks | `LimiterInv`, `WithinAllowance`, `BurstServed` |
| `edge_routing` | three regions, of which the first does not know the third; three moves; limiter on; fair | `RoutingInv`, `OneHop`, `ServedAtHome`, `CalmIsAvailable`, `EveryRequestAnswered` |
| `dns_fleets` | a regional fleet of two slugs and one of one slug, pages of two records, a failed request | `ReconcileConverges`, `OthersUntouched` |
| `dns_threads` | two threads of one manager, two slugs, a failed request | `OneRecordPerName`, `DeletedIsGone` and, refusals included, `ContractHolds`, with every race between lookup and write |

Three more runs hold a statement of the repository against the code and end in
its violation:

| Run | The source says | What happens |
|---|---|---|
| `watcher_pair` | running two watchers against one SiteRepo "is safe" | one starts the container of a site the other has torn down |
| `watcher_lost_teardown` | deprovisioning sites are drained and marked Stopped | a teardown requested during provisioning is overwritten by the pass's Update |
| `billing_two_sites` | an invoice per tenant | a tenant with two sites is charged its whole usage for each |

Bounds. Two sites or two watchers are the fewest that interfere; a third site is
there only to be unplaced. Two failures let a retry fail again; one crash
restarts between any two calls. Each request, move, event or fault beyond that
repeats a state the others already reach, and for the safety properties that are
proved the bounds do not matter. Requests share no state at the edge but the
certificate cache and the limiter's map, which only grow within a process and
which one connection fills in turn, so one is enough. A page of two records
(100 in the code) with three names lets the zone fill a page, and pass it. Three
moves let a site leave and return while two edges still disagree. `MaxHops` only stops counting: 2 is already one too many for `OneHop`.
Billing's three events fill two kinds over two months; the billing runs do not
check for deadlock since the calendar ends. Symmetry is used over sites (in
`watcher_routing`) and over callers, in runs without liveness. `watcher_routing` is
the largest run, with 2.2 million states.

### Gaps

Several properties hold only in the instances above, and the source promises
more. Changing the instance shows each:

| Where | Change | What fails |
|---|---|---|
| `router.go:39-40`, `Lookup` finds every Running site | drop `spent.crashes = 0` from `RunningIsPublished` | the map is empty after a restart and `Set` is called for pending sites only |
| `watcher_test.go:136`, no Failed slug is published | a failing Update in `watcher_routing` | `FailedNotPublished`: the site is provisioned again and fails with its route in place |
| `router.go:1-3`, traffic reaches "the right tenant's container" | drop `spent.deaths = 0` from `RoutedHome` | another site takes the one host port (`provisioner.go:70-71`) |
| `billing.go:88-90`, idempotency is the implementation's | a rerun in `billing_faults` | `ChargedOnce`: `stripe.go` sends no idempotency key |
| `dns.go:45-46`, Upsert updates a record in place | a region in `dns_threads` | `OneRecordPerName`: both lookups find nothing, both post |
| `dns.go:106-110`, surplus records "are deleted" | drop `slipped[c]` from `ReconcileConverges` | a record another caller deletes between two pages moves a surplus one past the pages read (`cloudflare.go:141-174`); Reconcile returns no error and leaves it |

and, from reading the model along with the code:

- A record whose `RemoveSlug` failed stays for good (`watcher.go:213-214` and
  `dns.go:4-6` expect it to be reconciled); `GhostsAreFaults` is what holds instead.
- The row is never Provisioning, only the copy is (`watcher.go:43-45`).
- Once a route is gone, requests are said to get 503 while the container stops
  (`watcher.go:201-203`). A request past its second lookup still dials: it gets a
  502, or whichever container holds the port then. `RoutedIsServed` and
  `StoppedIsRefused` speak of sites that are published, or Stopped, throughout.
- `tls.go:59-60` says `AllowSlug` asks the Site table; `main.go:100` asks the port
  map. After a restart Running sites have their handshakes refused unless their
  certificate is cached; a cached certificate outlives its site.
- `main.go:83-88` returns when the listener closes, not when `Shutdown` is done, so
  requests in flight are cut.
- `filepath.Clean("")` is `"."`: an empty `-tls-cache` passes `NewManager`'s check.
- A failed month is not run again, "next reconcile run" or not (`billing.go:209-212`);
  items left open by a failure end up on the next month's invoice
  (`stripe.go:122-125`); overage on the free plan is not billed, since its price
  table is empty (`billing.go:128-131`).
- "Cloudflare's 404 maps to nil" (`cloudflare.go:101`) and "Delete must succeed when
  the record is already gone" (`dns.go:42-43`) hold of the lookup only: of two racing
  RemoveSlugs or EnsureSlugs one gets an error. Without `Refuse` in `ZoneContract`
  `ContractHolds` fails in `dns_threads`, in seven states.
- Reconcile moves a wanted slug's regional record back to `EdgeIP` (`dns.go:112`).

Hazards without a property: a `docker pull` that hangs (`provisioner.go:59`), which
the fairness below assumes away, and, where the code has no answer that could be
checked, the routes a restart forgets, usage recorded late, usage of a site that
stopped within the month, a cron firing that is missed (`billing.go:306`), and an
Upsert that rewrites a record at another address (`dns.go:134`), as it is asked to.

## Fairness

Only `FairSpec`s are used for liveness. Watcher: weak fairness of a watcher's
steps, as the ticker keeps firing and every call returns (HTTP clients and the
health check have timeouts; `docker pull` has none and is assumed to return).
Nothing obliges the dashboard to act or a call to fail; failures are bounded, so
the liveness properties read "once failures stop". Edge: handlers return and
every locator is eventually told of a move. Billing is checked for safety only.

## Proofs

| Theorem | For every | Assuming |
|---|---|---|
| `TypeCorrect`, `NoTeardownLost` | deployment, any number of watchers, overlapping scopes included | |
| `Invariance`, `RunningBacked`, `StoppedGone`, `OneHost`, `OutOfScope`, `RecordOutlivesRoute`, `RoutesOutliveFaults` | deployment | `ExclusiveScopes` (one watcher a site, what the comment on `Region` asks for) |
| `ImplementsLifecycle` | deployment | `ExclusiveScopes` |
| `RunningPublished`, `GhostsCounted` | deployment | `ExclusiveScopes` |
| `Routing`, `FailedUnpublished`, `RoutedToOwn` | deployment | `ExclusiveScopes`, `UpdatesLand` (no Update is lost, no Running site requeued) |
| `ServingImplementsWatcher`, `ServingTypeCorrect` | deployment, connections | |
| `StoppedRefused`, `TenantsOnly` | same | `ExclusiveScopes` |
| `RoutedServed` | same | `ExclusiveScopes`, `UpdatesLand` |
| `NeverTwiceHolds` | tenants, sites, plans and faults | `MaxReruns = 0` |
| `ChargedOnceHolds`, `InvoicedOnceHolds` | same | `MaxReruns = 0`, `SoleSites` (one site a tenant) |
| `ChargedOncePerRunHolds` | same, reruns included | `SoleSites` |
| `TypeInvariance`, `BillingTypeCorrect`, `ChargedFairlyHolds` | same, prices, calendars and late usage included | |
| `NoneForgottenHolds` | same | `~LateRecords` (usage is recorded on the day it occurs) |
| `LimiterCorrect`, `AllowanceHolds`, `BurstHolds` | rate, burst, callers, slugs | |
| `RoutingCorrect`, `ServedAtHomeHolds`, `CalmIsAvailableHolds` | edges, regions, wiring | |
| `OneHopHolds` | same | `Wired` (in the property) |
| `ZoneTypeCorrect` | callers, fleets, page size, faults | |
| `OneRecord`, `DeletedGone`, `ImplementsContract` | same | `Agree` (callers asked about one slug publish it at one address) |
| `OthersUntouchedHolds`, `ReconcileConvergesHolds` | same | `Apart` (no slug and no edge shared) |

The assumptions are not conveniences: `watcher_pair`, `billing_two_sites` and the
gaps of a rerun, of a failing Update and of a shared slug's two addresses are
what happens without them. Usage recorded for a month that was billed already is
charged by nobody, which is why `NoneForgotten` asks for `~LateRecords`.

- *Watcher.* `RunningIsBacked` and `StoppedIsGone` say nothing about a pass that is
  half done, so they are not inductive. `IInv` adds what a watcher's place in its
  handler says of the world (`Progress`: at `health` the container was started, at
  `undns` it is gone), that listed rows are still to be decided (`WorkUnsettled`), and
  that only a site's own watcher leaves anything behind (`Own...`). The proof has a
  lemma an action. The refinement maps `held` to what some provisioning pass has
  listed or in hand; with it every step is a step of `SiteLifecycle` or a stutter.
- *Routes.* `RunningPublished` needs only that the route is set before the row says
  Running and that the row loses it before the route goes. `RouteInv` is about all
  the routes there are: no site waiting to be provisioned has one (`Unrouted`), a row
  behind a route is running or on its way down (`RowsRouted`), and the one container
  that holds a host's port is the one routed to (`OnePort`, `RoutedRuns`). A lost
  Update breaks `RowsRouted`: the site is pending with its route in place, and so is a
  Running site an operator sends back; hence `UpdatesLand`. `RoutedHome` carries
  `spent.deaths = 0` itself, counting the exits.
- *Ghost records.* `GhostInv` bounds the set of ghosts, with the one a Save is about
  to make, by the failures so far: only a RemoveSlug that failed adds one,
  and it took a fault.
- *EdgeServing.* Every step is a step of `Watcher` or leaves its variables alone, so
  every theorem about `Watcher` holds of the composition. `RefusedInv` and
  `KeptInv` then say where a stopped or unknown slug's requests can be, `RoutedInv`
  that a request whose site stays published has found its route at every step.
- *Billing.* What keeps a charge from being posted twice is spread over the
  run's queue, the kinds left and the months started: `NeverTwice` ties every item
  to a site taken from the queue and a kind taken from `kinds`. `FairInv`: what
  Range returned for the site in hand is at most what Range would return now, and the
  charge is monotone in it (`UsageGrows`, `CentsGrow`). `DoneInv`: the month being
  closed is over, so what is due for it no longer changes (`UsageClosed`); every
  listed site neither queued nor in hand is done with; of the one in hand, the kinds
  not left are charged. Both compare sums over the days of a month. The sums are
  the community module's recursive function over subsets; that the recursion defines a
  function (`SumsExist`) and grows with what is summed (`SumMonotone`) is proved by a
  least counterexample in the sizes of subsets (`NatMin`, `NatClosed`), with no
  induction principle that takes an operator.
- *RateLimiter.* What was granted since any moment plus what is left is at most
  a full bucket plus the refill up to the last refill; a late clock reading
  leaves both sides alone.
- *EdgeRouting.* A calm request that was forwarded is in its site's region; its
  own handler's lookup returns where the site is, so it is served at home or the
  edge has no way there.
- *DNSZone.* Three invariants, each holding the one before. `ZoneInv`, of any callers:
  ids tell records apart, and a write under way is of a call still to do.
  `OneInv`, of callers that agree: what was created since a lookup found nothing
  has the address that is about to be posted, so the zone refuses the post. The
  contract follows: a write that takes effect changes what was found, or not found,
  of calls for its own name only (`WriteEffect`), and what the zone refuses was
  overtaken (`RefusedOvertaken`). `ApartInv`, of fleets that are apart: the pages read
  hold what is at the edge (`Reading`: only a deletion moves a record to an earlier
  page, and nobody else posts at the edge), and the calls left make up the drift
  (`Converging`).

Every invariant and action property the passing runs check is the conclusion of a
theorem. Only model-checked are the liveness properties `PendingIsDecided`,
`TeardownIsDecided` and `EveryRequestAnswered`, since neither fairness nor ENABLED is
in the prover's reach. Of the inductive invariants, `IInv`, `NeverTwice`, `LimiterInv` and
`RoutingInv` are also invariants of the runs.

## Not modelled

Of the TLS manager: expiry and renewal of certificates, the staging directory,
the redirects of the http-01 listener; autocert itself is external. Of the
binary: flags, environment, `-no-tls` (requests without a handshake) and the
entry of `LOOM_CLOUD_DEMO_PORT`, a port that no container holds. Build scripts,
`docker.Status` (no caller), HTTP and JSON encoding, validation of empty fields,
event metadata, rounding of float cents. The limiter's map grows by tenants only
(`KeptForTenants`), but its buckets are never evicted within a process.

The models wire the watcher, the limiter, DNS and billing where the comments do;
the shipped binary wires none of them yet.

## Plan

Done in this order: `Watcher` with its abstract specification and proofs, `Billing`,
`RateLimiter`, `EdgeRouting`, `DNSZone`, `EdgeServing`, the pages of `List` and the
proofs about `DNSZone`, those about routes and ghost records, and the sums of
`Billing`. Next:

1. What remains true of routes when an Update is lost: how many Failed sites can
   have one, as `GhostsAreFaults` does for records.
2. What remains of `NoneForgotten` when usage is recorded late: each customer is
   charged what was due when Range was called.
3. `FairSpec`'s safety part of `PendingIsDecided`: that a pass's work only shrinks
   between two ticks.
