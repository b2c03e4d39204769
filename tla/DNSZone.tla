------------------------------ MODULE DNSZone -------------------------------
(***************************************************************************)
(* The callers of dns.Manager and the zone they share, behind              *)
(* CloudflareProvider, whose Upsert and Delete are two HTTP requests: the  *)
(* record is looked up by name and then written by its id.                 *)
(*                                                                         *)
(* A record is an A record; the TTL is the provider's default, so a record *)
(* with the right address needs no write.                                  *)
(***************************************************************************)
EXTENDS Naturals, FiniteSets

CONSTANTS
  Clients,    \* managers, or threads that share one
  Names, IPs,
  Fleet,      \* Fleet[c]: the names of the slugs c is asked about
  EdgeIP,     \* EdgeIP[c]: Manager.EdgeIP
  RegionIPs,  \* RegionIPs[c]: the addresses Manager.Regions selects
  PageSize,   \* records on a page of CloudflareProvider.List
  MaxFaults,  \* bound on requests that fail though nothing refused them
  None

(* A provider call: an Upsert of name to ip, a Delete where ip is None.     *)
Calls == [name : Names, ip : IPs \cup {None}]

ASSUME ZoneAssumption ==
  /\ Fleet \in [Clients -> SUBSET Names]
  /\ EdgeIP \in [Clients -> IPs] /\ RegionIPs \in [Clients -> SUBSET IPs]
  /\ PageSize \in Nat \ {0} /\ MaxFaults \in Nat /\ None \notin IPs \cup Nat \cup Calls
  /\ IsFiniteSet(Names) /\ IsFiniteSet(IPs) /\ IsFiniteSet(Clients)

(* An id that no record has and nobody holds is as good as a new one.       *)
Ids == 1..(Cardinality(Names) * Cardinality(IPs) + Cardinality(Clients))

VARIABLES
  zone,    \* the records: [id, name, ip]
  pc,      \* "idle"; "list": Reconcile lists; "work": todo; "write": of cur
  page,    \* page[c]: the page of the zone that List reads next
  mine,    \* mine[c]: the names at the edge of c on the pages read
  slipped, \* history: a record was deleted while c had pages still to read
  want,    \* want[c]: the names Reconcile was given, None in another job
  todo,    \* todo[c]: the provider calls the job has still to make
  cur,     \* cur[c]: the provider call between its lookup and its write
  found,   \* found[c]: the id the lookup returned, or None
  result,  \* result[c]: what the last job returned; "refused", "gone": errors
  acked,   \* history: the last provider call of c that succeeded
  faults

vars == <<zone, pc, page, mine, slipped, want, todo, cur, found, result, acked, faults>>

Named(n) == {r \in zone : r.name = n}
IdsInUse == {r.id : r \in zone}

(* TypeOK: the type invariant.                                              *)
TypeOK ==
  /\ zone \subseteq [id : Ids, name : Names, ip : IPs]
  /\ pc \in [Clients -> {"idle", "list", "work", "write"}]
  /\ page \in [Clients -> Nat \ {0}] /\ mine \in [Clients -> SUBSET Names]
  /\ slipped \in [Clients -> BOOLEAN]
  /\ want \in [Clients -> (SUBSET Names) \cup {None}]
  /\ todo \in [Clients -> SUBSET Calls]
  /\ cur \in [Clients -> Calls \cup {None}]
  /\ found \in [Clients -> Ids \cup {None}]
  /\ result \in [Clients -> {"none", "ok", "error", "refused", "gone"}]
  /\ acked \in [Clients -> Calls \cup {None}]
  /\ faults \in 0..MaxFaults

(* One record for a name at most, and no fleet's at another's edge.         *)
Init ==
  /\ \E at \in [Names -> IPs \cup {None}], id \in [Names -> Ids] :
       /\ \A c, d \in Clients : c # d => \A n \in Fleet[c] \ Fleet[d] : at[n] # EdgeIP[d]
       /\ id = CHOOSE f \in [Names -> Ids] : \A m, n \in Names : m # n => f[m] # f[n]
       /\ zone = {[id |-> id[n], name |-> n, ip |-> at[n]] : n \in {m \in Names : at[m] # None}}
  /\ pc = [c \in Clients |-> "idle"]
  /\ page = [c \in Clients |-> 1] /\ mine = [c \in Clients |-> {}]
  /\ slipped = [c \in Clients |-> FALSE]
  /\ want = [c \in Clients |-> None] /\ todo = [c \in Clients |-> {}]
  /\ cur = [c \in Clients |-> None] /\ found = [c \in Clients |-> None]
  /\ result = [c \in Clients |-> "none"] /\ acked = [c \in Clients |-> None]
  /\ faults = 0

-----------------------------------------------------------------------------
(* Jobs: what a caller asks of its Manager. *)

Start(c, step, names, calls) ==
  /\ pc[c] = "idle"
  /\ pc' = [pc EXCEPT ![c] = step]
  /\ want' = [want EXCEPT ![c] = names]
  /\ todo' = [todo EXCEPT ![c] = calls]
  /\ result' = [result EXCEPT ![c] = "none"]
  /\ slipped' = [slipped EXCEPT ![c] = FALSE]
  /\ UNCHANGED <<zone, page, mine, cur, found, acked, faults>>

EnsureSlug(c, n) == Start(c, "work", None, {[name |-> n, ip |-> EdgeIP[c]]})

EnsureSlugInRegion(c, n) ==
  \E ip \in RegionIPs[c] : Start(c, "work", None, {[name |-> n, ip |-> ip]})

RemoveSlug(c, n) == Start(c, "work", None, {[name |-> n, ip |-> None]})

Reconcile(c, W) == Start(c, "list", W, {})

(* The job ends: with an error it leaves the rest of its calls undone.      *)
Return(c, r) ==
  /\ pc' = [pc EXCEPT ![c] = "idle"]
  /\ want' = [want EXCEPT ![c] = None] /\ todo' = [todo EXCEPT ![c] = {}]
  /\ cur' = [cur EXCEPT ![c] = None] /\ found' = [found EXCEPT ![c] = None]
  /\ result' = [result EXCEPT ![c] = r]

(* A request fails on its way there or back.                                *)
Fault(c) ==
  /\ faults < MaxFaults /\ faults' = faults + 1
  /\ Return(c, "error")
  /\ acked' = [acked EXCEPT ![c] = None]

-----------------------------------------------------------------------------
(* Reconcile's listing. *)

(* The provider lists the zone in an order of its own, here that of ids.    *)
Position(r) == Cardinality({id \in IdsInUse : id <= r.id})

OnPage(c) == {r \in zone : Position(r) > (page[c] - 1) * PageSize /\ Position(r) <= page[c] * PageSize}

(* The page is full, so List reads the next.                                *)
More(c) == page[c] * PageSize <= Cardinality(IdsInUse)

(* Mutant: every record of the zone is Reconcile's own.                     *)
MineAll(c) == mine[c] \cup {r.name : r \in OnPage(c)}

Mine(c) == mine[c] \cup {r.name : r \in {s \in OnPage(c) : s.ip = EdgeIP[c]}}

(* Mutant: what is surplus stays.                                           *)
MissingOnly(c) == {[name |-> n, ip |-> EdgeIP[c]] : n \in want[c] \ Mine(c)}

Drift(c) ==
  {[name |-> n, ip |-> None] : n \in Mine(c) \ want[c]}
    \cup {[name |-> n, ip |-> EdgeIP[c]] : n \in want[c] \ Mine(c)}

NextPage(c) ==
  /\ More(c)
  /\ page' = [page EXCEPT ![c] = @ + 1]
  /\ mine' = [mine EXCEPT ![c] = Mine(c)]
  /\ UNCHANGED <<pc, todo, want, cur, found, result, acked, faults>>

(* The last page tells Reconcile what there is to do.                       *)
LastPage(c) ==
  /\ ~More(c)
  /\ pc' = [pc EXCEPT ![c] = "work"]
  /\ todo' = [todo EXCEPT ![c] = Drift(c)]
  /\ UNCHANGED <<want, cur, found, result, acked, faults>>

(* Other callers write between the pages of a List.                         *)
List(c) ==
  /\ pc[c] = "list"
  /\ \/ NextPage(c)
     \/ /\ LastPage(c) \/ Fault(c)
        /\ page' = [page EXCEPT ![c] = 1]
        /\ mine' = [mine EXCEPT ![c] = {}]
  /\ UNCHANGED <<zone, slipped>>

-----------------------------------------------------------------------------
(* Upsert and Delete. *)

(* The call of c succeeds and the job goes on.                              *)
Done(c, t) ==
  /\ pc' = [pc EXCEPT ![c] = "work"]
  /\ todo' = [todo EXCEPT ![c] = @ \ {t}]
  /\ cur' = [cur EXCEPT ![c] = None] /\ found' = [found EXCEPT ![c] = None]
  /\ acked' = [acked EXCEPT ![c] = t]
  /\ UNCHANGED <<want, result, faults>>

WriteNext(c, t, id) ==
  /\ pc' = [pc EXCEPT ![c] = "write"]
  /\ cur' = [cur EXCEPT ![c] = t] /\ found' = [found EXCEPT ![c] = id]
  /\ UNCHANGED <<todo, want, result, acked, faults>>

(* findRecord: the first of the records the provider returns for the name.  *)
Found(n) == IF Named(n) = {} THEN {None} ELSE {r.id : r \in Named(n)}

(* There is nothing to write: the record has the address, or is gone.       *)
Settled(t, id) ==
  \/ t.ip = None /\ id = None
  \/ \E r \in Named(t.name) : r.id = id /\ r.ip = t.ip

(* Mutant: a Delete that finds nothing is an error.                         *)
ProceedOrGone(c, t, id) ==
  IF t.ip = None /\ id = None
  THEN Return(c, "gone") /\ acked' = [acked EXCEPT ![c] = None] /\ UNCHANGED faults
  ELSE WriteNext(c, t, id)

Proceed(c, t, id) == IF Settled(t, id) THEN Done(c, t) ELSE WriteNext(c, t, id)

(* The lookup of the next call, deletions first.                            *)
Find(c) ==
  /\ pc[c] = "work"
  /\ \E t \in todo[c] :
       /\ t.ip = None \/ \A u \in todo[c] : u.ip # None
       /\ (\E id \in Found(t.name) : Proceed(c, t, id)) \/ Fault(c)
  /\ UNCHANGED <<zone, page, mine, slipped>>

NewId == CHOOSE id \in Ids : id \notin IdsInUse \cup {found[c] : c \in Clients}

Rest(c) == {r \in zone : r.id # found[c]}

(* Mutants: an Upsert posts a record whatever the lookup returned; a Delete *)
(* blanks the record.                                                       *)
WrittenByPost(c) ==
  IF cur[c].ip = None THEN Rest(c)
  ELSE zone \cup {[id |-> NewId, name |-> cur[c].name, ip |-> cur[c].ip]}
WrittenBlank(c) ==
  Rest(c) \cup {[id |-> IF found[c] = None THEN NewId ELSE found[c],
                 name |-> cur[c].name, ip |-> cur[c].ip]}

(* The zone after the write of cur[c]: DELETE or PUT of the record found,   *)
(* or POST of a new one.                                                    *)
Written(c) ==
  IF cur[c].ip = None THEN Rest(c)
  ELSE Rest(c) \cup {[id |-> IF found[c] = None THEN NewId ELSE found[c],
                      name |-> cur[c].name, ip |-> cur[c].ip]}

(* The provider refuses a second record of the same name and address, and a *)
(* write to a record that is gone.                                          *)
Exists(c) == \E r \in Named(cur[c].name) : r.ip = cur[c].ip /\ r.id # found[c]

Gone(c) == found[c] # None /\ \A r \in zone : r.id # found[c]

(* Behind a record that is deleted the others move up, past the pages that  *)
(* a listing has read.                                                      *)
Slip(c) ==
  slipped' = IF cur[c].ip = None
             THEN [d \in Clients |-> slipped[d] \/ (pc[d] = "list" /\ page[d] > 1)]
             ELSE slipped

Refused(c) ==
  /\ UNCHANGED <<zone, slipped>>
  /\ \/ Exists(c) /\ Return(c, "refused")
     \/ Gone(c) /\ Return(c, "gone")
  /\ acked' = [acked EXCEPT ![c] = None]
  /\ UNCHANGED faults

Write(c) ==
  /\ pc[c] = "write"
  /\ \/ Refused(c)
     \/ /\ ~Exists(c) /\ ~Gone(c)
        /\ zone' = Written(c) /\ Slip(c)
        /\ Done(c, cur[c]) \/ Fault(c)
     \/ UNCHANGED <<zone, slipped>> /\ Fault(c)
  /\ UNCHANGED <<page, mine>>

Finish(c) ==
  /\ pc[c] = "work" /\ todo[c] = {}
  /\ Return(c, "ok")
  /\ UNCHANGED <<zone, page, mine, slipped, acked, faults>>

Job(c) ==
  \/ \E n \in Fleet[c] : EnsureSlug(c, n) \/ EnsureSlugInRegion(c, n) \/ RemoveSlug(c, n)
  \/ \E W \in SUBSET Fleet[c] : Reconcile(c, W)

Step(c) == List(c) \/ Find(c) \/ Write(c) \/ Finish(c)

Next == \E c \in Clients : Job(c) \/ Step(c)

Spec == Init /\ [][Next]_vars
-----------------------------------------------------------------------------
(* Properties. *)

(* The addresses c publishes slugs at.                                      *)
Addresses(c) == {EdgeIP[c]} \cup RegionIPs[c]

(* Agree: clients that are asked about the same slug publish it at the same *)
(* one address, as two threads of a single-region manager do.               *)
Agree ==
  \A c, d \in Clients : c # d /\ Fleet[c] \cap Fleet[d] # {} =>
    \A a \in Addresses(c), b \in Addresses(d) : a = b

(* Apart: clients are asked about slugs of their own and none publishes at  *)
(* another's edge: fleets that share a zone.                                *)
Apart ==
  \A c, d \in Clients : c # d =>
    Fleet[c] \cap Fleet[d] = {} /\ EdgeIP[c] \notin Addresses(d)

(* OneRecordPerName: whatever fails on the way, a slug has one record.      *)
OneRecordPerName == \A n \in Names : Cardinality(Named(n)) <= 1

AtEdge(c, n) == \E r \in zone : r.name = n /\ r.ip = EdgeIP[c]

(* ReconcileConverges: a Reconcile that returns no error leaves the names   *)
(* it was given at its edge and, unless a record was deleted while it read  *)
(* its pages, no others.                                                    *)
ReconcileConverges ==
  [][\A c \in Clients : want[c] # None /\ pc[c] # "idle" /\ result'[c] = "ok" =>
       \A n \in Names : /\ n \in want[c] => AtEdge(c, n)
                        /\ AtEdge(c, n) => n \in want[c] \/ slipped[c]]_vars

Writes(c) == pc[c] = "write" /\ pc'[c] # "write"

(* OthersUntouched: no client changes or removes a record of a name that is *)
(* neither in its fleet nor at its edge, another fleet's or hand-made.      *)
OthersUntouched ==
  [][\A c \in Clients : Writes(c) =>
       \A r \in zone \ zone' : r.name \in Fleet[c] \/ r.ip = EdgeIP[c]]_vars

(* The zone as ZoneContract sees it: the address of each name.  A name with *)
(* more than one record has all their ids instead, which no contract state  *)
(* has.                                                                     *)
Records ==
  [n \in Names |-> IF Named(n) = {} THEN None
                   ELSE IF Cardinality(Named(n)) = 1 THEN (CHOOSE r \in Named(n) : TRUE).ip
                   ELSE {r.id : r \in Named(n)}]

(* A call is under way from its lookup to its write, and overtaken when the *)
(* record it found is gone or there is one where it found none.             *)
Calling == [c \in Clients |-> IF pc[c] = "write" THEN cur[c] ELSE None]

Overtaken ==
  [c \in Clients |->
    pc[c] = "write" /\ IF found[c] = None THEN Named(cur[c].name) # {} ELSE Gone(c)]

Contract == INSTANCE ZoneContract
              WITH records <- Records, calling <- Calling, overtaken <- Overtaken,
                   outages <- faults

(* ContractHolds: where Agree, lookups and writes implement what            *)
(* dns.Provider promises: a name keeps one record, a call takes effect at   *)
(* one instant, and without an outage only a call overtaken by another for  *)
(* the same name fails, so that no-ops succeed.                             *)
ContractHolds == Contract!Spec

(* DeletedIsGone: where a Delete takes effect the name has no record left.   *)
DeletedIsGone ==
  [][\A c \in Clients : Writes(c) /\ cur[c].ip = None /\ zone' # zone =>
       \A r \in zone' : r.name # cur[c].name]_vars

=============================================================================
