---------------------------- MODULE EdgeServing -----------------------------
(***************************************************************************)
(* What a tenant's users meet: the process of a watcher also serves        *)
(* *.BaseDomain, over TLS with certificates its Manager gets on demand,    *)
(* and proxies each request by the watcher's port map (Router without a    *)
(* Locator) to the one host port of its host.                              *)
(*                                                                         *)
(* A connection is served while the watchers, the dashboard and other      *)
(* connections go on: it reads the port map for its handshake, again for   *)
(* the SubdomainResolver and again to be dispatched, and it is dialled     *)
(* after that.                                                             *)
(***************************************************************************)
EXTENDS WatcherInv

CONSTANTS
  Requests,     \* connections of users, with one request at a time
  Limited       \* Router.RateLimiter # nil

VARIABLES
  certs,    \* certs[h]: slugs the certificate cache of the edge on h holds
  buckets,  \* buckets[w]: slugs the limiter of w's edge keeps a bucket for
  stage,    \* stage[q]: where q is: closed, in a handshake, asking, answered
  edge,     \* edge[q]: the process q is connected to
  name,     \* name[q]: the slug of the server name, then of the Host asked for;
            \*   None for the apex, a nested or a foreign host
  fate      \* history: what has held of the site ever since q asked

connection == <<stage, edge, name>>
kept == <<certs, buckets>>
servingVars == <<vars, certs, buckets, stage, edge, name, fate>>

Names == Sites \cup {None}   \* a slug without a row is a made-up one
Answers == {"served", "misrouted", "badGateway", "limited", "unavailable"}
InFlight == {"resolve", "dispatch", "dial"}
Stages == {"closed", "hello", "issue", "ready"} \cup InFlight \cup Answers

(* ServingTypeOK: the type invariant of what this module adds.              *)
ServingTypeOK ==
  /\ certs \in [Hosts -> SUBSET Sites] /\ buckets \in [Watchers -> SUBSET Sites]
  /\ stage \in [Requests -> Stages]
  /\ edge \in [Requests -> Watchers \cup {None}] /\ name \in [Requests -> Names]
  /\ fate \in [Requests -> {"routed", "stopped", "other"}]
  /\ \A q \in Requests :
       /\ stage[q] # "closed" => edge[q] \in Watchers
       /\ stage[q] \in {"issue", "dispatch"} => name[q] \in Sites

ServingInit ==
  /\ Init
  /\ certs = [h \in Hosts |-> {}] /\ buckets = [w \in Watchers |-> {}]
  /\ stage = [q \in Requests |-> "closed"]
  /\ edge = [q \in Requests |-> None] /\ name = [q \in Requests |-> None]
  /\ fate = [q \in Requests |-> "other"]

(* Router.exists and lookupPort without a Locator: MemoryPortMap.Lookup.    *)
Lookup(q) == name[q] \in port[edge[q]]

Fate(w, n) ==
  IF n \in Sites /\ row[n] = "stopped" THEN "stopped"
  ELSE IF n \in port[w] THEN "routed" ELSE "other"

-----------------------------------------------------------------------------
(* Handshakes. *)

To(q, st) == stage' = [stage EXCEPT ![q] = st] /\ UNCHANGED <<edge, name>>

Hangup(S) ==
  /\ stage' = [q \in Requests |-> IF q \in S THEN "closed" ELSE stage[q]]
  /\ edge' = [q \in Requests |-> IF q \in S THEN None ELSE edge[q]]
  /\ name' = [q \in Requests |-> IF q \in S THEN None ELSE name[q]]
  /\ fate' = [q \in Requests |-> IF q \in S THEN "other" ELSE fate[q]]

(* A user connects to an edge with any server name. *)
Connect(q, w, n) ==
  /\ stage[q] = "closed"
  /\ stage' = [stage EXCEPT ![q] = "hello"]
  /\ edge' = [edge EXCEPT ![q] = w]
  /\ name' = [name EXCEPT ![q] = n]
  /\ UNCHANGED <<vars, kept, fate>>

Cached(q) == name[q] \in certs[HostOf[edge[q]]]

(* Mutant: AllowSlug is nil, every single-label name of the domain passes.  *)
HostPolicyNil(q) == name[q] \in Sites

(* hostPolicy with the AllowSlug of the edge binary, a port map lookup.     *)
HostPolicy(q) == name[q] \in Sites /\ Lookup(q)

(* The certificate of the name: a cached one is used without asking the     *)
(* policy, a new one is only ordered for a name that passes it.             *)
Handshake(q) ==
  /\ stage[q] = "hello"
  /\ \/ Cached(q) /\ To(q, "ready") /\ UNCHANGED fate
     \/ ~Cached(q) /\ HostPolicy(q) /\ To(q, "issue") /\ UNCHANGED fate
     \/ ~Cached(q) /\ ~HostPolicy(q) /\ Hangup({q})
  /\ UNCHANGED <<vars, kept>>

(* The order: Let's Encrypt issues to whoever answers at the name, which    *)
(* the manager's record, a wildcard or a stranger may have pointed at the   *)
(* edge; or it refuses, and the handshake fails.                            *)
Issue(q) ==
  /\ stage[q] = "issue"
  /\ \/ /\ certs' = [certs EXCEPT ![HostOf[edge[q]]] = @ \cup {name[q]}]
        /\ To(q, "ready") /\ UNCHANGED fate
     \/ Hangup({q}) /\ UNCHANGED certs
  /\ UNCHANGED <<vars, buckets>>

-----------------------------------------------------------------------------
(* Requests. *)

(* The next request of a connection, for any host whatever its server name. *)
Request(q, n) ==
  /\ stage[q] \in {"ready"} \cup Answers
  /\ stage' = [stage EXCEPT ![q] = "resolve"]
  /\ name' = [name EXCEPT ![q] = n]
  /\ fate' = [fate EXCEPT ![q] = Fate(edge[q], n)]
  /\ UNCHANGED <<vars, kept, edge>>

(* The SubdomainResolver asks exists; a host without a slug goes on to      *)
(* dispatch, which has no tenant in its context and answers the same.       *)
Resolve(q) ==
  /\ stage[q] = "resolve"
  /\ To(q, IF Lookup(q) THEN "dispatch" ELSE "unavailable")
  /\ UNCHANGED <<vars, kept, fate>>

(* dispatch: the limiter, which makes a bucket for a slug it sees first,    *)
(* then the second lookup.                                                  *)
Dispatch(q) ==
  /\ stage[q] = "dispatch"
  /\ \/ Limited /\ To(q, "limited")
     \/ To(q, IF Lookup(q) THEN "dial" ELSE "unavailable")
  /\ buckets' = IF Limited THEN [buckets EXCEPT ![edge[q]] = @ \cup {name[q]}] ELSE buckets
  /\ UNCHANGED <<vars, certs, fate>>

(* The reverse proxy dials the host port: the request goes to whichever     *)
(* container holds it then.  "served" is the answer of the site's own       *)
(* container, even an error of it.                                          *)
Dial(q) ==
  /\ stage[q] = "dial"
  /\ LET holders == PortHolders(HostOf[edge[q]]) IN
       To(q, IF holders = {} THEN "badGateway"
             ELSE IF name[q] \in holders THEN "served" ELSE "misrouted")
  /\ UNCHANGED <<vars, kept, fate>>

-----------------------------------------------------------------------------
(* The rest of the process and of the world. *)

(* What no longer holds of a request's site since it was asked.             *)
Age ==
  /\ UNCHANGED <<kept, connection>>
  /\ fate' = [q \in Requests |->
       IF stage[q] \in InFlight /\ Fate(edge[q], name[q])' # fate[q] THEN "other" ELSE fate[q]]

World ==
  /\ \/ \E w \in Watchers : WatcherStep(w)
     \/ \E s \in Sites : Dashboard(s)
     \/ \E h \in Hosts, s \in Sites : ContainerDies(h, s)
  /\ Age

(* The process ends and is started again.  On SIGTERM, too, main returns as *)
(* soon as Shutdown has closed the listener: requests in flight are cut.    *)
(* The certificate cache is on disk.                                        *)
Restart(w) ==
  /\ Crash(w)
  /\ Hangup({q \in Requests : edge[q] = w})
  /\ buckets' = [buckets EXCEPT ![w] = {}]
  /\ UNCHANGED certs

Serve(q) ==
  \/ \E w \in Watchers, n \in Names : Connect(q, w, n)
  \/ Handshake(q) \/ Issue(q)
  \/ \E n \in Names : Request(q, n)
  \/ Resolve(q) \/ Dispatch(q) \/ Dial(q)

ServingNext ==
  \/ World
  \/ \E w \in Watchers : Restart(w)
  \/ \E q \in Requests : Serve(q)

ServingSpec == ServingInit /\ [][ServingNext]_servingVars

-----------------------------------------------------------------------------
(* Properties. *)

(* RoutedIsServed: a request whose site is published from the moment it is  *)
(* asked until it is answered is answered by the site's own container, or   *)
(* told that the tenant is over its rate, as long as no container exits.    *)
RoutedIsServed ==
  \A q \in Requests :
    fate[q] = "routed" /\ stage[q] \in Answers /\ spent.deaths = 0 =>
      stage[q] \in {"served", "limited"}

(* StoppedIsRefused: a request for a Site that is Stopped from the moment   *)
(* it is asked on reaches no container, though its certificate may still be *)
(* cached and its connection open.                                          *)
StoppedIsRefused ==
  \A q \in Requests :
    fate[q] = "stopped" => stage[q] \in {"resolve", "unavailable"}

(* KeptForTenants: certificates are cached and buckets kept for slugs of    *)
(* the Site table only: strangers who point names at the edge or ask for    *)
(* made-up ones cost it neither a certificate nor memory.                   *)
KeptForTenants ==
  \A s \in Sites : row[s] = "absent" =>
    /\ \A h \in Hosts : s \notin certs[h]
    /\ \A w \in Watchers : s \notin buckets[w]

-----------------------------------------------------------------------------
(* What keeps a Stopped site's requests away from its edge's port map.      *)
RefusedInv ==
  \A q \in Requests : fate[q] = "stopped" =>
    /\ stage[q] \in {"resolve", "unavailable"}
    /\ stage[q] = "resolve" => name[q] \in Sites /\ row[name[q]] = "stopped"

(* What a slug without a row never gets into.                               *)
KeptInv ==
  \A s \in Sites : row[s] = "absent" =>
    /\ \A h \in Hosts : s \notin certs[h]
    /\ \A w \in Watchers : s \notin buckets[w] \cup port[w]
    /\ \A q \in Requests : stage[q] \in {"issue", "dispatch"} => name[q] # s

(* What a request whose site stays published can still meet.                *)
RoutedInv ==
  \A q \in Requests : fate[q] = "routed" =>
    /\ stage[q] \in InFlight => name[q] \in port[edge[q]]
    /\ stage[q] \in Answers /\ spent.deaths = 0 => stage[q] \in {"served", "limited"}

=============================================================================
