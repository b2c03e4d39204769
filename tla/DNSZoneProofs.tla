--------------------------- MODULE DNSZoneProofs ----------------------------
(***************************************************************************)
(* Theorems about DNSZone for any callers, names and addresses: callers    *)
(* that Agree leave a name one record and implement ZoneContract, callers  *)
(* that are Apart converge and leave each other's records alone.           *)
(***************************************************************************)
EXTENDS DNSZoneInv, FiniteSetTheorems, FunctionTheorems, TLAPS

-----------------------------------------------------------------------------
(* Ids: there are enough of them. *)

LEMMA IdsCount ==
  /\ Ids \subseteq Nat \ {0} /\ IsFiniteSet(Ids)
  /\ Cardinality(Ids) = Cardinality(Names \X IPs) + Cardinality(Clients)
  /\ Cardinality(Names) \in Nat /\ Cardinality(Names \X IPs) \in Nat
  /\ Cardinality(Clients) \in Nat /\ IsFiniteSet(Names \X IPs)
<1>1. /\ Cardinality(Names) \in Nat /\ Cardinality(IPs) \in Nat /\ Cardinality(Clients) \in Nat
      /\ IsFiniteSet(Names \X IPs)
      /\ Cardinality(Names \X IPs) = Cardinality(Names) * Cardinality(IPs)
      /\ Cardinality(Names \X IPs) \in Nat
  BY ZoneAssumption, FS_CardinalityType, FS_Product
<1> DEFINE m == Cardinality(Names) * Cardinality(IPs) + Cardinality(Clients)
<1>2. m \in Nat
  BY <1>1
<1>3. Ids = 1..m
  BY DEF Ids
<1>4. IsFiniteSet(1..m) /\ Cardinality(1..m) = IF 1 > m THEN 0 ELSE m - 1 + 1
  <2> HIDE DEF m
  <2> QED
    BY <1>2, FS_Interval
<1>5. Cardinality(1..m) = m /\ 1..m \subseteq Nat \ {0}
  <2> HIDE DEF m
  <2> QED
    BY <1>2, <1>4
<1> QED
  BY <1>1, <1>3, <1>4, <1>5

(* A one-to-one numbering of the names exists where there is an address.    *)
LEMMA Numbering ==
  ASSUME IPs # {}
  PROVE  \E f \in [Names -> Ids] : \A m, n \in Names : m # n => f[m] # f[n]
<1>1. PICK a : a \in IPs
  OBVIOUS
<1> DEFINE pair == [n \in Names |-> <<n, a>>]
<1>2. pair \in Injection(Names, Names \X IPs)
  BY <1>1, Fun_IsInj
<1>3. Cardinality(Names) <= Cardinality(Names \X IPs)
  BY <1>2, IdsCount, FS_Injection
<1>4. PICK b : b \in Bijection(1..Cardinality(Names), Names)
  BY ZoneAssumption, FS_CardinalityType DEF ExistsBijection
<1> DEFINE f == Inverse(b, 1..Cardinality(Names), Names)
<1>5. f \in Bijection(Names, 1..Cardinality(Names))
  BY <1>4, Fun_BijInverse
<1> HIDE DEF f
<1>6. f \in [Names -> 1..Cardinality(Names)] /\ \A m, n \in Names : f[m] = f[n] => m = n
  BY <1>5 DEF Bijection, Injection, IsInjective
<1>7. 1..Cardinality(Names) \subseteq Ids
  <2> DEFINE k == Cardinality(Names)  p == Cardinality(Names) * Cardinality(IPs)
             q == Cardinality(Clients)
  <2>1. k \in Nat /\ p \in Nat /\ q \in Nat /\ k <= p
    BY <1>3, IdsCount, FS_Product, ZoneAssumption
  <2>2. Ids = 1..(p + q)
    BY DEF Ids
  <2> HIDE DEF k, p, q
  <2>3. 1..k \subseteq Ids
    BY <2>1, <2>2
  <2> QED
    BY <2>3 DEF k
<1>8. f \in [Names -> Ids] /\ \A m, n \in Names : m # n => f[m] # f[n]
  BY <1>6, <1>7
<1> QED
  BY <1>8

(* When c has found nothing, some id is neither in the zone nor held.       *)
LEMMA NewIdIsNew ==
  ASSUME TypeOK, IdsTell, PairsTell, NEW c \in Clients, found[c] = None
  PROVE  /\ NewId \in Ids
         /\ \A r \in zone : r.id # NewId
         /\ \A d \in Clients : found[d] # NewId
<1> DEFINE used == {r.id : r \in zone}
           held == {found[d] : d \in Clients}
           A == {i \in Ids : i \in used}
           B == {i \in Ids : i \in held}
           at == [i \in A |-> CHOOSE p \in Names \X IPs :
                                \E r \in zone : r.id = i /\ p = <<r.name, r.ip>>]
           by == [i \in B |-> CHOOSE d \in Clients : found[d] = i]
<1>1. at \in Injection(A, Names \X IPs)
  <2> DEFINE Of(i, p) == \E r \in zone : r.id = i /\ p = <<r.name, r.ip>>
  <2>1. ASSUME NEW i \in A PROVE \E p \in Names \X IPs : Of(i, p)
    <3>1. PICK r \in zone : r.id = i
      OBVIOUS
    <3>2. <<r.name, r.ip>> \in Names \X IPs
      BY <3>1 DEF TypeOK
    <3> QED
      BY <3>1, <3>2
  <2> HIDE DEF Of
  <2>2. \A i \in A : at[i] \in Names \X IPs /\ Of(i, at[i])
    <3> SUFFICES ASSUME NEW i \in A PROVE at[i] \in Names \X IPs /\ Of(i, at[i])
      OBVIOUS
    <3>1. at[i] = CHOOSE p \in Names \X IPs : Of(i, p)
      BY DEF Of
    <3> QED
      BY <2>1, <3>1
  <2> HIDE DEF at
  <2>3. \A i, j \in A : at[i] = at[j] => i = j
    BY <2>2 DEF PairsTell, Of
  <2>4. at \in [A -> Names \X IPs]
    BY <2>2 DEF at
  <2> HIDE DEF A
  <2> QED
    BY <2>3, <2>4, Fun_IsInj
<1>2. by \in Injection(B, Clients \ {c})
  <2>1. \A i \in B : \E d \in Clients : found[d] = i
    OBVIOUS
  <2>2. \A i \in B : by[i] \in Clients /\ found[by[i]] = i
    BY <2>1
  <2>3. \A i \in B : i # None
    BY IdsCount, ZoneAssumption
  <2>4. \A i \in B : by[i] # c
    BY <2>2, <2>3
  <2>5. \A i, j \in B : by[i] = by[j] => i = j
    BY <2>2
  <2> QED
    BY <2>2, <2>4, <2>5, Fun_IsInj
<1>3. IsFiniteSet(A) /\ Cardinality(A) <= Cardinality(Names \X IPs) /\ Cardinality(A) \in Nat
  BY <1>1, IdsCount, FS_Injection, FS_CardinalityType
<1>4. /\ IsFiniteSet(Clients \ {c}) /\ Cardinality(Clients \ {c}) = Cardinality(Clients) - 1
  BY ZoneAssumption, FS_RemoveElement
<1>5. IsFiniteSet(B) /\ Cardinality(B) <= Cardinality(Clients) - 1 /\ Cardinality(B) \in Nat
  BY <1>2, <1>4, FS_Injection, FS_CardinalityType
<1>6. Cardinality(A \cup B) < Cardinality(Ids)
  <2> HIDE DEF A, B
  <2>1. IsFiniteSet(A \cap B)
    BY <1>3, FS_Subset
  <2>2. /\ Cardinality(A \cup B) = Cardinality(A) + Cardinality(B) - Cardinality(A \cap B)
        /\ Cardinality(A \cap B) \in Nat
    BY <1>3, <1>5, <2>1, FS_Union, FS_CardinalityType
  <2> QED
    BY <2>2, <1>3, <1>5, IdsCount
<1>7. \E id \in Ids : id \notin used \cup held
  <2>1. A \cup B # Ids
    <3> HIDE DEF A, B
    <3>1. Cardinality(Ids) \in Nat
      BY IdsCount
    <3> QED
      BY <1>6, <3>1
  <2> QED
    BY <2>1
<1> QED
  BY <1>7 DEF NewId, IdsInUse

-----------------------------------------------------------------------------
(* Any callers. *)

LEMMA InitZone ==
  ASSUME Init
  PROVE  /\ zone \subseteq [id : Ids, name : Names, ip : IPs]
         /\ IdsTell /\ NamesTell
         /\ \A c \in Clients : OwnEdge(c) \/ \E d \in Clients : d # c /\ Fleet[c] \cap Fleet[d] # {}
<1>1. PICK at \in [Names -> IPs \cup {None}], id \in [Names -> Ids] :
        /\ \A c, d \in Clients : c # d => \A n \in Fleet[c] \ Fleet[d] : at[n] # EdgeIP[d]
        /\ id = CHOOSE f \in [Names -> Ids] : \A m, n \in Names : m # n => f[m] # f[n]
        /\ zone = {[id |-> id[n], name |-> n, ip |-> at[n]] : n \in {m \in Names : at[m] # None}}
  BY DEF Init
<1>2. \A r \in zone : \E n \in Names : at[n] \in IPs /\ r = [id |-> id[n], name |-> n, ip |-> at[n]]
  BY <1>1
<1>3. \A r \in zone : r.name \in Names /\ r.id = id[r.name] /\ r.ip = at[r.name] /\ r.ip \in IPs
  BY <1>2
<1>4. zone \subseteq [id : Ids, name : Names, ip : IPs]
  BY <1>2
<1>5. ASSUME zone # {} PROVE \A m, n \in Names : m # n => id[m] # id[n]
  <2>1. IPs # {}
    BY <1>3, <1>5
  <2> QED
    BY <2>1, <1>1, Numbering
<1>6. NamesTell
  BY <1>2 DEF NamesTell
<1>7. IdsTell
  BY <1>3, <1>5, <1>6 DEF IdsTell, NamesTell
<1>8. ASSUME NEW c \in Clients, \A d \in Clients : d # c => Fleet[c] \cap Fleet[d] = {}
      PROVE  OwnEdge(c)
  BY <1>1, <1>3, <1>8 DEF OwnEdge
<1> QED
  BY <1>4, <1>6, <1>7, <1>8

LEMMA ZoneInvInit == Init => ZoneInv
<1> SUFFICES ASSUME Init PROVE ZoneInv
  OBVIOUS
<1>1. PairsTell
  BY InitZone DEF PairsTell, NamesTell
<1>2. TypeOK
  <2>1. /\ pc \in [Clients -> {"idle", "list", "work", "write"}]
        /\ page \in [Clients -> Nat \ {0}] /\ mine \in [Clients -> SUBSET Names]
        /\ slipped \in [Clients -> BOOLEAN]
        /\ result \in [Clients -> {"none", "ok", "error", "refused", "gone"}]
        /\ faults \in 0..MaxFaults
    BY ZoneAssumption DEF Init
  <2>2. want \in [Clients -> (SUBSET Names) \cup {None}]
    <3> DEFINE W == (SUBSET Names) \cup {None}
    <3>1. None \in W
      OBVIOUS
    <3> HIDE DEF W
    <3>2. want \in [Clients -> W]
      BY <3>1 DEF Init
    <3> QED
      BY <3>2 DEF W
  <2>3. todo \in [Clients -> SUBSET Calls]
    BY DEF Init
  <2>4. /\ cur \in [Clients -> Calls \cup {None}] /\ found \in [Clients -> Ids \cup {None}]
        /\ acked \in [Clients -> Calls \cup {None}]
    BY DEF Init
  <2> QED
    BY InitZone, <2>1, <2>2, <2>3, <2>4 DEF TypeOK
<1>3. \A c \in Clients : InWork(c)
  BY DEF Init, InWork
<1>4. \A c \in Clients : Asked(c)
  BY DEF Init, Asked
<1> QED
  BY InitZone, <1>1, <1>2, <1>3, <1>4 DEF ZoneInv

(* What a step of c leaves alone. *)
Others(c) ==
  \A d \in Clients : d # c =>
    /\ pc'[d] = pc[d] /\ want'[d] = want[d] /\ todo'[d] = todo[d]
    /\ cur'[d] = cur[d] /\ found'[d] = found[d] /\ result'[d] = result[d]
    /\ page'[d] = page[d] /\ mine'[d] = mine[d]
    /\ slipped'[d] = slipped[d] \/ pc[d] = "list"

LEMMA OthersKept ==
  ASSUME TypeOK, NEW c \in Clients, Job(c) \/ Step(c)
  PROVE  Others(c)
<1> USE DEF Others, TypeOK
<1>1. CASE Job(c)
  BY <1>1 DEF Job, EnsureSlug, EnsureSlugInRegion, RemoveSlug, Reconcile, Start
<1>2. CASE List(c)
  BY <1>2 DEF List, NextPage, LastPage, Fault, Return
<1>3. CASE Find(c)
  BY <1>3 DEF Find, Proceed, Done, WriteNext, Fault, Return
<1>4. CASE Write(c)
  BY <1>4 DEF Write, Slip, Refused, Done, Fault, Return
<1>5. CASE Finish(c)
  BY <1>5 DEF Finish, Return
<1> QED
  BY <1>1, <1>2, <1>3, <1>4, <1>5 DEF Step

(* A job that ends.                                                         *)
LEMMA ReturnTyped ==
  ASSUME TypeOK, NEW c \in Clients, NEW r \in {"ok", "error", "refused", "gone"}, Return(c, r)
  PROVE  /\ pc' \in [Clients -> {"idle", "list", "work", "write"}]
         /\ want' \in [Clients -> (SUBSET Names) \cup {None}]
         /\ todo' \in [Clients -> SUBSET Calls]
         /\ cur' \in [Clients -> Calls \cup {None}]
         /\ found' \in [Clients -> Ids \cup {None}]
         /\ result' \in [Clients -> {"none", "ok", "error", "refused", "gone"}]
         /\ pc'[c] = "idle" /\ todo'[c] = {} /\ want'[c] = None
<1> USE DEF TypeOK, Return
<1>1. pc' \in [Clients -> {"idle", "list", "work", "write"}] /\ pc'[c] = "idle"
  OBVIOUS
<1>2. want' \in [Clients -> (SUBSET Names) \cup {None}] /\ want'[c] = None
  <2> DEFINE W == (SUBSET Names) \cup {None}
  <2>1. None \in W /\ want \in [Clients -> W]
    OBVIOUS
  <2> HIDE DEF W
  <2>2. want' \in [Clients -> W] /\ want'[c] = None
    BY <2>1
  <2> QED
    BY <2>2 DEF W
<1>3. todo' \in [Clients -> SUBSET Calls] /\ todo'[c] = {}
  OBVIOUS
<1>4. cur' \in [Clients -> Calls \cup {None}] /\ found' \in [Clients -> Ids \cup {None}]
  OBVIOUS
<1>5. result' \in [Clients -> {"none", "ok", "error", "refused", "gone"}]
  OBVIOUS
<1> QED
  BY <1>1, <1>2, <1>3, <1>4, <1>5

LEMMA FaultTyped ==
  ASSUME TypeOK, NEW c \in Clients, Fault(c)
  PROVE  /\ Return(c, "error") /\ acked'[c] = None
         /\ acked' \in [Clients -> Calls \cup {None}] /\ faults' \in 0..MaxFaults
  BY ZoneAssumption DEF TypeOK, Fault

(* A job is asked for.                                                      *)
LEMMA JobStarts ==
  ASSUME TypeOK, NEW c \in Clients, Job(c)
  PROVE  /\ pc[c] = "idle" /\ pc'[c] \in {"list", "work"}
         /\ UNCHANGED <<zone, page, mine, acked, faults>> /\ slipped'[c] = FALSE
         /\ todo'[c] \subseteq Calls
         /\ \A t \in todo'[c] : t.name \in Fleet[c] /\ (t.ip # None => t.ip \in Addresses(c))
         /\ result'[c] = "none"
         /\ IF pc'[c] = "list" THEN want'[c] \subseteq Fleet[c] ELSE want'[c] = None
         /\ TypeOK'
<1>1. ASSUME NEW step \in {"list", "work"}, NEW W \in (SUBSET Names) \cup {None},
             NEW T \in SUBSET Calls, Start(c, step, W, T)
      PROVE  /\ pc[c] = "idle" /\ pc'[c] = step /\ want'[c] = W /\ todo'[c] = T
             /\ result'[c] = "none"
             /\ UNCHANGED <<zone, page, mine, acked, faults>> /\ slipped'[c] = FALSE /\ TypeOK'
  <2> USE DEF Start, TypeOK
  <2>1. pc' \in [Clients -> {"idle", "list", "work", "write"}] /\ pc'[c] = step
    BY <1>1
  <2>2. want' \in [Clients -> (SUBSET Names) \cup {None}] /\ want'[c] = W
    BY <1>1
  <2>3. todo' \in [Clients -> SUBSET Calls] /\ todo'[c] = T
    BY <1>1
  <2>4. /\ result' \in [Clients -> {"none", "ok", "error", "refused", "gone"}] /\ result'[c] = "none"
        /\ slipped' \in [Clients -> BOOLEAN] /\ slipped'[c] = FALSE
    BY <1>1
  <2> QED
    BY <1>1, <2>1, <2>2, <2>3, <2>4
<1>2. Fleet[c] \subseteq Names /\ Addresses(c) \subseteq IPs
  BY ZoneAssumption DEF Addresses
<1>3. CASE \E n \in Fleet[c] : EnsureSlug(c, n) \/ EnsureSlugInRegion(c, n) \/ RemoveSlug(c, n)
  <2>1. PICK n \in Fleet[c], ip \in Addresses(c) \cup {None} :
          Start(c, "work", None, {[name |-> n, ip |-> ip]})
    <3>1. PICK n \in Fleet[c] : EnsureSlug(c, n) \/ EnsureSlugInRegion(c, n) \/ RemoveSlug(c, n)
      BY <1>3
    <3>2. \E ip \in Addresses(c) \cup {None} : Start(c, "work", None, {[name |-> n, ip |-> ip]})
      BY <3>1 DEF EnsureSlug, EnsureSlugInRegion, RemoveSlug, Addresses
    <3> QED
      BY <3>2
  <2> DEFINE t == [name |-> n, ip |-> ip]
  <2>2. t \in Calls /\ t.name = n /\ t.ip = ip
    BY <1>2 DEF Calls
  <2> HIDE DEF t
  <2>3. {t} \in SUBSET Calls /\ Start(c, "work", None, {t})
    BY <2>1, <2>2 DEF t
  <2>4. None \in (SUBSET Names) \cup {None}
    OBVIOUS
  <2>5. /\ pc[c] = "idle" /\ pc'[c] = "work" /\ want'[c] = None /\ todo'[c] = {t}
        /\ result'[c] = "none"
        /\ UNCHANGED <<zone, page, mine, acked, faults>> /\ slipped'[c] = FALSE /\ TypeOK'
    BY <2>3, <2>4, <1>1
  <2>6. \A u \in todo'[c] : u.name \in Fleet[c] /\ (u.ip # None => u.ip \in Addresses(c))
    BY <2>2, <2>5
  <2>7. todo'[c] \subseteq Calls
    BY <2>3, <2>5
  <2>8. pc'[c] # "list" /\ pc'[c] \in {"list", "work"}
    BY <2>5
  <2> QED
    BY <2>5, <2>6, <2>7, <2>8
<1>4. CASE \E W \in SUBSET Fleet[c] : Reconcile(c, W)
  <2>1. PICK W \in SUBSET Fleet[c] : Start(c, "list", W, {})
    BY <1>4 DEF Reconcile
  <2>2. W \in (SUBSET Names) \cup {None} /\ {} \in SUBSET Calls
    BY <1>2
  <2> QED
    BY <2>1, <2>2, <1>1
<1> QED
  BY <1>3, <1>4 DEF Job

(* The zone a write makes: without the record found, with one of the call's *)
(* name and address and of an id that nobody else is after.                 *)
LEMMA WrittenZone ==
  ASSUME ZoneInv, NEW c \in Clients, pc[c] = "write"
  PROVE  /\ cur[c] \in Calls /\ cur[c] \in todo[c] /\ cur[c].name \in Names
         /\ \/ cur[c].ip = None /\ found[c] # None /\ Written(c) = Rest(c)
            \/ /\ cur[c].ip \in IPs /\ cur[c].ip # None
               /\ \E i \in Ids :
                    /\ Written(c) = Rest(c) \cup {[id |-> i, name |-> cur[c].name, ip |-> cur[c].ip]}
                    /\ \A q \in Rest(c) : q.id # i
                    /\ found[c] # None => i = found[c]
                    /\ found[c] = None => \A d \in Clients : found[d] # i
<1>1. cur[c] \in todo[c] /\ cur[c] \in Calls /\ (cur[c].ip = None => found[c] # None)
  BY DEF ZoneInv, InWork, TypeOK
<1>2. cur[c].name \in Names /\ cur[c].ip \in IPs \cup {None}
  BY <1>1 DEF Calls
<1>3. CASE cur[c].ip = None
  BY <1>1, <1>2, <1>3 DEF Written
<1>4. CASE cur[c].ip # None
  <2>1. CASE found[c] = None
    <3>1. NewId \in Ids /\ (\A r \in zone : r.id # NewId) /\ \A d \in Clients : found[d] # NewId
      BY <2>1, NewIdIsNew DEF ZoneInv
    <3>2. Written(c) = Rest(c) \cup {[id |-> NewId, name |-> cur[c].name, ip |-> cur[c].ip]}
      BY <1>4, <2>1 DEF Written
    <3>3. \A q \in Rest(c) : q.id # NewId
      BY <3>1 DEF Rest
    <3> QED
      BY <1>1, <1>2, <1>4, <2>1, <3>1, <3>2, <3>3
  <2>2. CASE found[c] # None
    <3>1. found[c] \in Ids
      BY <2>2 DEF ZoneInv, TypeOK
    <3>2. Written(c) = Rest(c) \cup {[id |-> found[c], name |-> cur[c].name, ip |-> cur[c].ip]}
      BY <1>4, <2>2 DEF Written
    <3>3. \A q \in Rest(c) : q.id # found[c]
      BY DEF Rest
    <3> QED
      BY <1>1, <1>2, <1>4, <2>2, <3>1, <3>2, <3>3
  <2> QED
    BY <2>1, <2>2
<1> QED
  BY <1>3, <1>4

LEMMA WrittenKeeps ==
  ASSUME ZoneInv, NEW c \in Clients, pc[c] = "write", ~Exists(c), ~Gone(c), zone' = Written(c)
  PROVE  /\ zone' \subseteq [id : Ids, name : Names, ip : IPs]
         /\ IdsTell' /\ PairsTell'
         /\ \A d \in Clients : pc[d] = "write" =>
              \A r \in zone' : r.id = found[d] => r.name = cur[d].name
<1>1. cur[c].name \in Names
  BY WrittenZone
<1>2. \A q \in Rest(c) : q \in zone /\ q.id # found[c]
  BY DEF Rest
<1>3. \A d \in Clients : pc[d] = "write" => \A r \in zone : r.id = found[d] => r.name = cur[d].name
  BY DEF ZoneInv, InWork
<1>4. CASE zone' = Rest(c)
  BY <1>2, <1>3, <1>4 DEF ZoneInv, TypeOK, IdsTell, PairsTell
<1>5. ASSUME NEW i \in Ids, cur[c].ip \in IPs,
             zone' = Rest(c) \cup {[id |-> i, name |-> cur[c].name, ip |-> cur[c].ip]},
             \A q \in Rest(c) : q.id # i, found[c] # None => i = found[c],
             found[c] = None => \A d \in Clients : found[d] # i
      PROVE  /\ zone' \subseteq [id : Ids, name : Names, ip : IPs]
             /\ IdsTell' /\ PairsTell'
             /\ \A d \in Clients : pc[d] = "write" =>
                  \A r \in zone' : r.id = found[d] => r.name = cur[d].name
  <2>1. \A r \in zone' : \/ r \in Rest(c)
                         \/ /\ r = [id |-> i, name |-> cur[c].name, ip |-> cur[c].ip]
                            /\ r.id = i /\ r.name = cur[c].name /\ r.ip = cur[c].ip
    BY <1>5
  <2>2. zone' \subseteq [id : Ids, name : Names, ip : IPs]
    <3>1. [id |-> i, name |-> cur[c].name, ip |-> cur[c].ip] \in [id : Ids, name : Names, ip : IPs]
      BY <1>1, <1>5
    <3>2. Rest(c) \subseteq [id : Ids, name : Names, ip : IPs]
      BY <1>2 DEF ZoneInv, TypeOK
    <3> QED
      BY <3>1, <3>2, <1>5
  <2>3. IdsTell'
    BY <2>1, <1>2, <1>5 DEF IdsTell, ZoneInv
  <2>4. PairsTell'
    <3>1. \A q \in Rest(c) : ~(q.name = cur[c].name /\ q.ip = cur[c].ip)
      BY <1>2 DEF Exists, Named
    <3> QED
      BY <2>1, <3>1, <1>2 DEF PairsTell, ZoneInv
  <2>5. ASSUME NEW d \in Clients, pc[d] = "write", NEW r \in zone', r.id = found[d]
        PROVE  r.name = cur[d].name
    <3>1. CASE r \in Rest(c)
      BY <3>1, <1>2, <1>3, <2>5
    <3>2. CASE r.id = i /\ r.name = cur[c].name
      <4>1. found[c] # None /\ i = found[c] /\ found[d] = found[c]
        BY <3>2, <2>5, <1>5
      <4>2. PICK q \in zone : q.id = found[c]
        BY <4>1 DEF Gone
      <4>3. q.name = cur[c].name /\ q.name = cur[d].name
        BY <4>1, <4>2, <1>3, <2>5
      <4> QED
        BY <3>2, <4>3
    <3> QED
      BY <2>1, <3>1, <3>2
  <2> QED
    BY <2>2, <2>3, <2>4, <2>5
<1> QED
  BY <1>4, <1>5, WrittenZone

(* The invariant of one caller reads its own state and the zone.            *)
LEMMA Elsewhere ==
  ASSUME ZoneInv, NEW c \in Clients, Others(c), NEW d \in Clients, d # c,
         pc[d] = "write" => \A r \in zone' : r.id = found[d] => r.name = cur[d].name
  PROVE  Asked(d)' /\ InWork(d)'
  BY DEF Others, ZoneInv, Asked, InWork

LEMMA FaultAsked ==
  ASSUME NEW c \in Clients, pc'[c] = "idle", todo'[c] = {}, want'[c] = None
  PROVE  Asked(c)' /\ InWork(c)'
  BY DEF Asked, InWork

(* What List tells Reconcile to be its own. *)
LEMMA MineTyped ==
  ASSUME TypeOK, NEW c \in Clients
  PROVE  /\ Mine(c) \subseteq Names
         /\ \A n \in Mine(c) : n \in mine[c] \/ AtEdge(c, n)
<1>1. \A n \in Mine(c) : n \in mine[c] \/ \E s \in zone : s.name = n /\ s.ip = EdgeIP[c]
  BY DEF Mine, OnPage
<1>2. mine[c] \subseteq Names /\ \A s \in zone : s.name \in Names
  BY DEF TypeOK
<1> QED
  BY <1>1, <1>2 DEF AtEdge

LEMMA ListStep ==
  ASSUME ZoneInv, NEW c \in Clients, List(c)
  PROVE  TypeOK' /\ Asked(c)' /\ InWork(c)'
<1>1. /\ zone' = zone /\ slipped' = slipped
      /\ pc[c] = "list" /\ result[c] = "none"
  BY DEF List, ZoneInv, InWork
<1>2. ASSUME LastPage(c) \/ Fault(c), page' = [page EXCEPT ![c] = 1], mine' = [mine EXCEPT ![c] = {}]
      PROVE  page' \in [Clients -> Nat \ {0}] /\ mine' \in [Clients -> SUBSET Names]
  BY <1>2 DEF ZoneInv, TypeOK
<1>3. CASE NextPage(c)
  <2>1. page' \in [Clients -> Nat \ {0}] /\ mine' \in [Clients -> SUBSET Names]
    BY <1>3, MineTyped DEF NextPage, ZoneInv, TypeOK
  <2>2. TypeOK'
    BY <1>1, <1>3, <2>1 DEF NextPage, ZoneInv, TypeOK
  <2> QED
    BY <1>1, <1>3, <2>2 DEF NextPage, ZoneInv, Asked, InWork
<1>4. CASE Fault(c) /\ page' \in [Clients -> Nat \ {0}] /\ mine' \in [Clients -> SUBSET Names]
  <2>1. TypeOK'
    BY <1>1, <1>4, FaultTyped, ReturnTyped DEF ZoneInv, TypeOK
  <2> QED
    BY <1>4, <2>1, FaultTyped, ReturnTyped, FaultAsked DEF ZoneInv
<1>5. CASE LastPage(c) /\ page' \in [Clients -> Nat \ {0}] /\ mine' \in [Clients -> SUBSET Names]
  <2>1. want[c] \subseteq Fleet[c] /\ Fleet[c] \subseteq Names /\ EdgeIP[c] \in IPs
    BY <1>1, ZoneAssumption DEF ZoneInv, Asked
  <2>2. \A n \in Mine(c) : n \in Names
    BY MineTyped DEF ZoneInv
  <2>3. \A t \in Drift(c) : /\ t \in Calls
                            /\ t.ip # None => t.name \in Fleet[c] /\ t.ip = EdgeIP[c]
    <3>1. ASSUME NEW t \in Drift(c)
          PROVE  \E n \in Names, ip \in IPs \cup {None} :
                   t = [name |-> n, ip |-> ip] /\ (ip # None => n \in Fleet[c] /\ ip = EdgeIP[c])
      BY <2>1, <2>2 DEF Drift
    <3>2. \A t \in Drift(c) : t \in Calls
      BY <3>1 DEF Calls
    <3>3. \A t \in Drift(c) : t.ip # None => t.name \in Fleet[c] /\ t.ip = EdgeIP[c]
      BY <3>1
    <3> QED
      BY <3>2, <3>3
  <2>4. /\ todo' \in [Clients -> SUBSET Calls] /\ todo'[c] = Drift(c)
        /\ pc' \in [Clients -> {"idle", "list", "work", "write"}] /\ pc'[c] = "work"
        /\ UNCHANGED <<want, cur, found, result, acked, faults>>
    BY <1>5, <2>3 DEF LastPage, ZoneInv, TypeOK
  <2>5. TypeOK'
    BY <1>1, <1>5, <2>4 DEF ZoneInv, TypeOK
  <2>6. Asked(c)'
    BY <2>1, <2>3, <2>4 DEF Asked, Addresses
  <2>7. InWork(c)'
    BY <1>1, <2>4 DEF InWork
  <2> QED
    BY <2>5, <2>6, <2>7
<1> QED
  BY <1>2, <1>3, <1>4, <1>5 DEF List

(* What a call that succeeds leaves the caller with.                        *)
LEMMA DoneTyped ==
  ASSUME ZoneInv, NEW c \in Clients, NEW t \in todo[c], Done(c, t), pc[c] \in {"work", "write"}
  PROVE  /\ pc' \in [Clients -> {"idle", "list", "work", "write"}] /\ pc'[c] = "work"
         /\ todo' \in [Clients -> SUBSET Calls] /\ todo'[c] = todo[c] \ {t}
         /\ cur' \in [Clients -> Calls \cup {None}] /\ found' \in [Clients -> Ids \cup {None}]
         /\ acked' \in [Clients -> Calls \cup {None}] /\ UNCHANGED <<want, result, faults>>
         /\ Asked(c)' /\ InWork(c)'
<1>1. t \in Calls
  BY DEF ZoneInv, TypeOK
<1>2. /\ pc' \in [Clients -> {"idle", "list", "work", "write"}] /\ pc'[c] = "work"
      /\ todo' \in [Clients -> SUBSET Calls] /\ todo'[c] = todo[c] \ {t}
      /\ cur' \in [Clients -> Calls \cup {None}] /\ found' \in [Clients -> Ids \cup {None}]
      /\ acked' \in [Clients -> Calls \cup {None}] /\ UNCHANGED <<want, result, faults>>
  BY <1>1 DEF Done, ZoneInv, TypeOK
<1>3. Asked(c)'
  BY <1>2 DEF ZoneInv, Asked
<1>4. InWork(c)'
  BY <1>2 DEF ZoneInv, InWork
<1> QED
  BY <1>2, <1>3, <1>4

(* The lookup returns a record of the name, if there is one.                *)
LEMMA FoundOfName ==
  ASSUME ZoneInv, NEW n \in Names, NEW id \in Found(n)
  PROVE  /\ id \in Ids \cup {None}
         /\ id = None => Named(n) = {}
         /\ \A r \in zone : r.id = id => r.name = n
<1>1. \A r \in zone : r.id \in Ids /\ r.id # None
  BY IdsCount, ZoneAssumption DEF ZoneInv, TypeOK
<1>2. CASE Named(n) = {}
  BY <1>1, <1>2 DEF Found
<1>3. CASE Named(n) # {}
  <2>1. PICK q \in zone : q.name = n /\ id = q.id
    BY <1>3 DEF Found, Named
  <2> QED
    BY <2>1, <1>1 DEF ZoneInv, IdsTell
<1> QED
  BY <1>2, <1>3

LEMMA FindStep ==
  ASSUME ZoneInv, NEW c \in Clients, Find(c)
  PROVE  TypeOK' /\ Asked(c)' /\ InWork(c)'
<1>1. pc[c] = "work" /\ UNCHANGED <<zone, page, mine, slipped>>
  BY DEF Find
<1>2. CASE Fault(c)
  <2>1. TypeOK'
    BY <1>1, <1>2, FaultTyped, ReturnTyped DEF ZoneInv, TypeOK
  <2> QED
    BY <1>2, <2>1, FaultTyped, ReturnTyped, FaultAsked DEF ZoneInv
<1>3. ASSUME NEW t \in todo[c], Done(c, t)
      PROVE  TypeOK' /\ Asked(c)' /\ InWork(c)'
  <2>1. TypeOK'
    BY <1>1, <1>3, DoneTyped DEF ZoneInv, TypeOK
  <2> QED
    BY <1>1, <1>3, <2>1, DoneTyped
<1>4. ASSUME NEW t \in todo[c], NEW id \in Found(t.name), ~Settled(t, id), WriteNext(c, t, id)
      PROVE  TypeOK' /\ Asked(c)' /\ InWork(c)'
  <2>1. t \in Calls /\ t.name \in Names
    BY DEF ZoneInv, TypeOK, Calls
  <2>2. id \in Ids \cup {None} /\ \A r \in zone : r.id = id => r.name = t.name
    BY <2>1, FoundOfName
  <2>3. /\ pc' \in [Clients -> {"idle", "list", "work", "write"}] /\ pc'[c] = "write"
        /\ cur' \in [Clients -> Calls \cup {None}] /\ cur'[c] = t
        /\ found' \in [Clients -> Ids \cup {None}] /\ found'[c] = id
        /\ UNCHANGED <<todo, want, result, acked, faults>>
    BY <1>4, <2>1, <2>2 DEF WriteNext, ZoneInv, TypeOK
  <2>4. TypeOK'
    BY <1>1, <2>3 DEF ZoneInv, TypeOK
  <2>5. Asked(c)'
    BY <1>1, <2>3 DEF ZoneInv, Asked
  <2>6. t.ip = None => id # None
    BY <1>4 DEF Settled
  <2>7. InWork(c)'
    BY <1>1, <1>4, <2>2, <2>3, <2>6 DEF ZoneInv, InWork
  <2> QED
    BY <2>4, <2>5, <2>7
<1>5. \/ Fault(c)
      \/ \E t \in todo[c] : Done(c, t)
      \/ \E t \in todo[c] : \E id \in Found(t.name) : ~Settled(t, id) /\ WriteNext(c, t, id)
  BY DEF Find, Proceed
<1> QED
  BY <1>2, <1>3, <1>4, <1>5

LEMMA WriteStep ==
  ASSUME ZoneInv, NEW c \in Clients, Write(c)
  PROVE  /\ TypeOK' /\ IdsTell' /\ PairsTell' /\ Asked(c)' /\ InWork(c)'
         /\ \A d \in Clients : pc[d] = "write" =>
              \A r \in zone' : r.id = found[d] => r.name = cur[d].name
<1> DEFINE Held == \A d \in Clients : pc[d] = "write" =>
                     \A r \in zone' : r.id = found[d] => r.name = cur[d].name
<1>1. /\ pc[c] = "write" /\ cur[c] \in todo[c] /\ UNCHANGED <<page, mine>>
      /\ slipped' \in [Clients -> BOOLEAN]
  <2>1. slipped' = slipped \/ Slip(c)
    BY DEF Write, Refused
  <2>2. slipped' \in [Clients -> BOOLEAN]
    BY <2>1 DEF Slip, ZoneInv, TypeOK
  <2> QED
    BY <2>2 DEF Write, ZoneInv, InWork
<1>2. /\ zone' \subseteq [id : Ids, name : Names, ip : IPs] /\ IdsTell' /\ PairsTell' /\ Held
  <2>1. CASE zone' = zone
    BY <2>1 DEF ZoneInv, TypeOK, IdsTell, PairsTell, InWork
  <2>2. CASE ~Exists(c) /\ ~Gone(c) /\ zone' = Written(c)
    BY <1>1, <2>2, WrittenKeeps
  <2> QED
    BY <2>1, <2>2 DEF Write, Refused
<1> HIDE DEF Held
<1>3. CASE Fault(c)
  <2>1. TypeOK'
    BY <1>1, <1>2, <1>3, FaultTyped, ReturnTyped DEF ZoneInv, TypeOK
  <2> QED
    BY <1>2, <1>3, <2>1, FaultTyped, ReturnTyped, FaultAsked DEF ZoneInv, Held
<1>4. CASE Done(c, cur[c])
  <2>1. TypeOK'
    BY <1>1, <1>2, <1>4, DoneTyped DEF ZoneInv, TypeOK
  <2> QED
    BY <1>1, <1>2, <1>4, <2>1, DoneTyped DEF Held
<1>5. CASE Refused(c)
  <2>1. PICK r \in {"none", "ok", "error", "refused", "gone"} : Return(c, r) /\ r # "none"
    BY <1>5 DEF Refused
  <2>2. faults' = faults /\ acked' \in [Clients -> Calls \cup {None}]
    BY <1>5 DEF Refused, ZoneInv, TypeOK
  <2>3. TypeOK'
    BY <1>1, <1>2, <2>1, <2>2, ReturnTyped DEF ZoneInv, TypeOK
  <2> QED
    BY <1>2, <2>1, <2>3, ReturnTyped, FaultAsked DEF ZoneInv, Held
<1> QED
  BY <1>3, <1>4, <1>5 DEF Write

LEMMA FinishStep ==
  ASSUME ZoneInv, NEW c \in Clients, Finish(c)
  PROVE  TypeOK' /\ Asked(c)' /\ InWork(c)'
<1>1. TypeOK'
  BY ReturnTyped DEF Finish, ZoneInv, TypeOK
<1> QED
  BY <1>1, ReturnTyped, FaultAsked DEF Finish, ZoneInv

(* The zone's invariant holds whoever calls and whatever fails.             *)
LEMMA ZoneInvNext == ZoneInv /\ [Next]_vars => ZoneInv'
<1> SUFFICES ASSUME ZoneInv, [Next]_vars PROVE ZoneInv'
  OBVIOUS
<1>1. ASSUME UNCHANGED vars PROVE ZoneInv'
  BY <1>1 DEF vars, ZoneInv, TypeOK, IdsTell, PairsTell, Asked, InWork
<1>2. ASSUME NEW c \in Clients, Job(c) PROVE ZoneInv'
  <2>1. Others(c)
    BY <1>2, OthersKept DEF ZoneInv
  <2>2. zone' = zone /\ TypeOK' /\ Asked(c)' /\ InWork(c)'
    BY <1>2, JobStarts DEF ZoneInv, Asked, InWork
  <2>3. \A d \in Clients : d # c => Asked(d)' /\ InWork(d)'
    BY <2>1, <2>2, Elsewhere DEF ZoneInv, InWork
  <2> QED
    BY <2>2, <2>3 DEF ZoneInv, IdsTell, PairsTell
<1>3. ASSUME NEW c \in Clients, List(c) \/ Find(c) \/ Finish(c) PROVE ZoneInv'
  <2>1. Others(c)
    BY <1>3, OthersKept DEF ZoneInv, Step
  <2>2. zone' = zone
    BY <1>3 DEF List, Find, Finish
  <2>3. TypeOK' /\ Asked(c)' /\ InWork(c)'
    BY <1>3, ListStep, FindStep, FinishStep
  <2>4. \A d \in Clients : d # c => Asked(d)' /\ InWork(d)'
    BY <2>1, <2>2, Elsewhere DEF ZoneInv, InWork
  <2> QED
    BY <2>2, <2>3, <2>4 DEF ZoneInv, IdsTell, PairsTell
<1>4. ASSUME NEW c \in Clients, Write(c) PROVE ZoneInv'
  <2>1. Others(c)
    BY <1>4, OthersKept DEF ZoneInv, Step
  <2>2. \A d \in Clients : d # c => Asked(d)' /\ InWork(d)'
    BY <1>4, <2>1, WriteStep, Elsewhere
  <2> QED
    BY <1>4, <2>2, WriteStep DEF ZoneInv
<1> QED
  BY <1>1, <1>2, <1>3, <1>4 DEF Next, Step

(* ZoneTypeCorrect: every state of the callers and their zone has its type: *)
(* no POST runs out of ids, no write leaves a record without an address.    *)
THEOREM ZoneTypeCorrect == Spec => []TypeOK
<1>1. ZoneInv => TypeOK
  BY DEF ZoneInv
<1> QED
  BY ZoneInvInit, ZoneInvNext, <1>1, PTL DEF Spec

-----------------------------------------------------------------------------
(* Callers that Agree. *)

LEMMA OneInvInit == Init => OneInv
  BY ZoneInvInit, InitZone DEF Init, OneInv, Unfound

(* A name's only record makes way for the write of another.                 *)
LEMMA WrittenAlone ==
  ASSUME OneInv, NEW c \in Clients, pc[c] = "write", ~Exists(c), ~Gone(c)
  PROVE  \A q \in Rest(c) : q.name # cur[c].name
<1> SUFFICES ASSUME NEW q \in Rest(c), q.name = cur[c].name PROVE FALSE
  OBVIOUS
<1>1. q \in zone /\ q.id # found[c]
  BY DEF Rest
<1>2. CASE found[c] = None
  BY <1>1, <1>2 DEF OneInv, Unfound, Exists, Named
<1>3. CASE found[c] # None
  <2>1. PICK p \in zone : p.id = found[c]
    BY <1>3 DEF Gone
  <2>2. p.name = cur[c].name
    BY <2>1 DEF OneInv, ZoneInv, InWork
  <2> QED
    BY <1>1, <2>1, <2>2 DEF OneInv, NamesTell
<1> QED
  BY <1>2, <1>3

(* A record that is new or changed has the name and the address of the call.*)
LEMMA WrittenNew ==
  ASSUME ZoneInv, NEW c \in Clients, pc[c] = "write", NEW r \in Written(c)
  PROVE  \/ r \in Rest(c)
         \/ /\ r.name = cur[c].name /\ r.ip = cur[c].ip
            /\ r.name \in Fleet[c] /\ r.ip \in Addresses(c)
<1>1. r \in Rest(c) \/ (cur[c].ip # None /\ r.name = cur[c].name /\ r.ip = cur[c].ip)
  BY WrittenZone
<1>2. cur[c] \in todo[c] /\ Asked(c)
  BY DEF ZoneInv, InWork
<1> QED
  BY <1>1, <1>2 DEF Asked

LEMMA WriteOne ==
  ASSUME OneInv, Agree, NEW c \in Clients, Write(c), Others(c)
  PROVE  NamesTell' /\ \A d \in Clients : Unfound(d)'
<1>1. CASE zone' = zone
  <2>1. pc'[c] # "write"
    BY DEF Write, Refused, Done, Fault, Return, OneInv, ZoneInv, TypeOK
  <2> QED
    BY <1>1, <2>1 DEF OneInv, NamesTell, Unfound, Others
<1>2. CASE ~Exists(c) /\ ~Gone(c) /\ zone' = Written(c)
  <2>1. pc[c] = "write" /\ pc'[c] # "write"
    BY DEF Write, Refused, Done, Fault, Return, OneInv, ZoneInv, TypeOK
  <2>2. \A q \in Rest(c) : q \in zone /\ q.name # cur[c].name
    BY <1>2, <2>1, WrittenAlone DEF Rest
  <2>3. NamesTell'
    <3>1. zone' = Rest(c) \/ \E r : zone' = Rest(c) \cup {r} /\ r.name = cur[c].name
      <4>1. Written(c) = Rest(c) \/ \E r : Written(c) = Rest(c) \cup {r} /\ r.name = cur[c].name
        <5>1. ASSUME NEW i \in Ids,
                     Written(c) = Rest(c) \cup {[id |-> i, name |-> cur[c].name, ip |-> cur[c].ip]}
              PROVE  \E r : Written(c) = Rest(c) \cup {r} /\ r.name = cur[c].name
          <6> DEFINE r == [id |-> i, name |-> cur[c].name, ip |-> cur[c].ip]
          <6>1. r.name = cur[c].name /\ Written(c) = Rest(c) \cup {r}
            BY <5>1
          <6> HIDE DEF r
          <6> QED
            BY <6>1
        <5> QED
          BY <2>1, <5>1, WrittenZone DEF OneInv
      <4> QED
        BY <1>2, <4>1
    <3> QED
      BY <2>2, <3>1 DEF OneInv, NamesTell
  <2>4. ASSUME NEW d \in Clients, d # c, pc[d] = "write", found[d] = None,
               NEW r \in zone', r.name = cur[d].name
        PROVE  r.ip = cur[d].ip
    <3>1. CASE r \in Rest(c)
      BY <2>2, <2>4, <3>1 DEF OneInv, Unfound
    <3>2. CASE r.name \in Fleet[c] /\ r.ip \in Addresses(c)
      <4>1. cur[d] \in todo[d] /\ cur[d].ip # None /\ Asked(d)
        BY <2>4 DEF OneInv, ZoneInv, InWork
      <4>2. cur[d].name \in Fleet[d] /\ cur[d].ip \in Addresses(d)
        BY <4>1 DEF Asked
      <4>3. Fleet[c] \cap Fleet[d] # {}
        BY <2>4, <3>2, <4>2
      <4> QED
        BY <2>4, <3>2, <4>2, <4>3 DEF Agree
    <3> QED
      BY <1>2, <2>1, <3>1, <3>2, WrittenNew DEF OneInv
  <2>5. \A d \in Clients : Unfound(d)'
    BY <2>1, <2>4 DEF Unfound, Others
  <2> QED
    BY <2>3, <2>5
<1> QED
  BY <1>1, <1>2 DEF Write, Refused

LEMMA OneInvNext == Agree /\ OneInv /\ [Next]_vars => OneInv'
<1> SUFFICES ASSUME Agree, OneInv, [Next]_vars PROVE OneInv'
  OBVIOUS
<1>1. ZoneInv'
  BY ZoneInvNext DEF OneInv
<1>2. ASSUME UNCHANGED vars PROVE NamesTell' /\ \A d \in Clients : Unfound(d)'
  BY <1>2 DEF vars, OneInv, NamesTell, Unfound
<1>3. ASSUME NEW c \in Clients, Job(c) \/ List(c) \/ Finish(c)
      PROVE  NamesTell' /\ \A d \in Clients : Unfound(d)'
  <2>1. Others(c) /\ zone' = zone
    BY <1>3, OthersKept, JobStarts DEF OneInv, ZoneInv, Step, List, Finish
  <2>2. pc'[c] # "write"
    BY <1>3, JobStarts DEF List, NextPage, LastPage, Finish, Fault, Return, OneInv, ZoneInv, TypeOK
  <2> QED
    BY <2>1, <2>2 DEF OneInv, NamesTell, Unfound, Others
<1>4. ASSUME NEW c \in Clients, Find(c) PROVE NamesTell' /\ \A d \in Clients : Unfound(d)'
  <2>1. Others(c) /\ zone' = zone
    BY <1>4, OthersKept DEF OneInv, ZoneInv, Step, Find
  <2>2. Unfound(c)'
    <3>1. CASE Fault(c) \/ \E t \in todo[c] : Done(c, t)
      <4>1. pc'[c] # "write"
        BY <3>1 DEF Done, Fault, Return, OneInv, ZoneInv, TypeOK
      <4> QED
        BY <4>1 DEF Unfound
    <3>2. ASSUME NEW t \in todo[c], NEW id \in Found(t.name), WriteNext(c, t, id)
          PROVE  Unfound(c)'
      <4>1. t.name \in Names /\ cur'[c] = t /\ found'[c] = id
        BY <3>2 DEF WriteNext, OneInv, ZoneInv, TypeOK, Calls
      <4>2. id = None => \A r \in zone : r.name # t.name
        BY <4>1, FoundOfName DEF Named, OneInv
      <4> QED
        BY <2>1, <4>1, <4>2 DEF Unfound
    <3> QED
      BY <1>4, <3>1, <3>2 DEF Find, Proceed
  <2> QED
    BY <2>1, <2>2 DEF OneInv, NamesTell, Unfound, Others
<1>5. ASSUME NEW c \in Clients, Write(c) PROVE NamesTell' /\ \A d \in Clients : Unfound(d)'
  BY <1>5, OthersKept, WriteOne DEF OneInv, ZoneInv, Step
<1> QED
  BY <1>1, <1>2, <1>3, <1>4, <1>5 DEF Next, Step, OneInv

LEMMA OneInvAlways == Agree => (Spec => []OneInv)
<1> SUFFICES ASSUME Agree PROVE Spec => []OneInv
  OBVIOUS
<1>1. OneInv /\ [Next]_vars => OneInv'
  BY OneInvNext
<1> QED
  BY OneInvInit, <1>1, PTL DEF Spec

(* A name with a record has one, and Named is its singleton.                *)
LEMMA OneNamed ==
  ASSUME NamesTell, NEW n
  PROVE  /\ \A r \in Named(n) : Named(n) = {r}
         /\ Cardinality(Named(n)) <= 1
         /\ Named(n) # {} => Cardinality(Named(n)) = 1
<1>1. \A r \in Named(n) : Named(n) = {r}
  BY DEF Named, NamesTell
<1>2. CASE Named(n) = {}
  BY <1>2, FS_EmptySet
<1>3. ASSUME NEW r \in Named(n) PROVE Cardinality(Named(n)) = 1
  BY <1>1, <1>3, FS_Singleton
<1> QED
  BY <1>1, <1>2, <1>3

(* OneRecord: callers that agree on where a slug is served never leave it   *)
(* with two records, whatever is lost, raced or refused between the lookup  *)
(* and the write of an Upsert.                                              *)
THEOREM OneRecord == Agree => (Spec => []OneRecordPerName)
<1> SUFFICES ASSUME Agree PROVE Spec => []OneRecordPerName
  OBVIOUS
<1>1. OneInv => OneRecordPerName
  BY OneNamed DEF OneInv, OneRecordPerName
<1> QED
  BY OneInvAlways, <1>1, PTL

LEMMA OneDeletes ==
  ASSUME OneInv, [Next]_vars, NEW c \in Clients, Writes(c), cur[c].ip = None, zone' # zone
  PROVE  \A r \in zone' : r.name # cur[c].name
<1>1. Write(c)
  <2>1. PICK d \in Clients : Job(d) \/ Step(d)
    BY DEF Next, vars
  <2>2. Others(d)
    BY <2>1, OthersKept DEF OneInv, ZoneInv
  <2>3. d = c
    BY <2>2 DEF Writes, Others
  <2> QED
    BY <2>1, <2>3 DEF Writes, Job, EnsureSlug, EnsureSlugInRegion, RemoveSlug, Reconcile, Start,
                      Step, List, Find, Finish
<1>2. ~Exists(c) /\ ~Gone(c) /\ zone' = Written(c) /\ pc[c] = "write"
  BY <1>1 DEF Write, Refused
<1>3. zone' = Rest(c)
  BY <1>2 DEF Written
<1> QED
  BY <1>2, <1>3, WrittenAlone

(* DeletedGone: a Delete that takes effect leaves no record of the name for *)
(* a resolver to find.                                                      *)
THEOREM DeletedGone == Agree => (Spec => DeletedIsGone)
<1> SUFFICES ASSUME Agree PROVE Spec => DeletedIsGone
  OBVIOUS
<1> DEFINE Q == \A c \in Clients : Writes(c) /\ cur[c].ip = None /\ zone' # zone =>
                  \A r \in zone' : r.name # cur[c].name
<1>1. OneInv /\ [Next]_vars => Q
  BY OneDeletes
<1>2. OneInv /\ [Next]_vars => [Q]_vars
  BY <1>1
<1> QED
  BY OneInvAlways, <1>2, PTL DEF Spec, DeletedIsGone

-----------------------------------------------------------------------------
(* The zone of callers that Agree implements ZoneContract. *)

LEMMA RecordsOf ==
  ASSUME NamesTell
  PROVE  /\ \A n \in Names : Named(n) = {} => Records[n] = None
         /\ \A r \in zone : r.name \in Names => Records[r.name] = r.ip
<1>1. \A n \in Names : Named(n) = {} => Records[n] = None
  BY DEF Records
<1>2. ASSUME NEW r \in zone, r.name \in Names PROVE Records[r.name] = r.ip
  <2>1. Named(r.name) = {r} /\ Cardinality(Named(r.name)) = 1
    BY OneNamed DEF Named
  <2> QED
    BY <1>2, <2>1 DEF Records
<1> QED
  BY <1>1, <1>2

LEMMA ContractInit == Init => Contract!Init
<1> SUFFICES ASSUME Init PROVE Contract!Init
  OBVIOUS
<1>1. NamesTell /\ \A r \in zone : r.ip \in IPs
  BY InitZone
<1>2. ASSUME NEW n \in Names PROVE Records[n] \in IPs \cup {None}
  BY <1>1, RecordsOf DEF Named
<1>3. Records \in [Names -> IPs \cup {None}]
  BY <1>2 DEF Records
<1>4. /\ Calling = [c \in Clients |-> None] /\ Overtaken = [c \in Clients |-> FALSE]
  BY DEF Init, Calling, Overtaken
<1> QED
  BY <1>3, <1>4 DEF Init, Contract!Init

LEMMA RecordsNext ==
  ASSUME NamesTell', NEW n \in Names
  PROVE  /\ (\A r \in zone' : r.name # n) => Records'[n] = None
         /\ \A r \in zone' : r.name = n => Records'[n] = r.ip
         /\ (\A r : r.name = n => (r \in zone' <=> r \in zone)) => Records'[n] = Records[n]
<1> DEFINE N == {r \in zone' : r.name = n}
           R(S) == IF S = {} THEN None
                   ELSE IF Cardinality(S) = 1 THEN (CHOOSE r \in S : TRUE).ip
                   ELSE {r.id : r \in S}
<1>1. Records'[n] = R(N) /\ Records[n] = R(Named(n))
  BY DEF Records, Named
<1>2. ASSUME NEW r \in N PROVE N = {r} /\ Cardinality(N) = 1
  <2>1. N = {r}
    BY DEF NamesTell
  <2> HIDE DEF N
  <2> QED
    BY <2>1, FS_Singleton
<1>3. (\A r \in zone' : r.name # n) => N = {}
  OBVIOUS
<1>4. (\A r : r.name = n => (r \in zone' <=> r \in zone)) => N = Named(n)
  BY DEF Named
<1>5. \A r \in zone' : r.name = n => r \in N
  OBVIOUS
<1> HIDE DEF N
<1>6. N = {} => R(N) = None
  OBVIOUS
<1>7. ASSUME NEW r \in N PROVE R(N) = r.ip
  <2>1. N = {r} /\ Cardinality(N) = 1
    BY <1>2
  <2>2. N # {} /\ (CHOOSE q \in N : TRUE) = r
    BY <2>1
  <2> QED
    BY <2>1, <2>2
<1> HIDE DEF R
<1> QED
  BY <1>1, <1>3, <1>4, <1>5, <1>6, <1>7

(* A write gives the name the address of the call and leaves other names.   *)
LEMMA WriteTakesEffect ==
  ASSUME OneInv, NamesTell', NEW c \in Clients, pc[c] = "write", ~Exists(c), ~Gone(c),
         zone' = Written(c)
  PROVE  /\ Records' = [Records EXCEPT ![cur[c].name] = cur[c].ip]
         /\ \A r : r.name # cur[c].name => (r \in zone' <=> r \in zone)
<1>1. cur[c] \in Calls /\ cur[c].name \in Names
  BY WrittenZone DEF OneInv
<1>2. \A q \in Rest(c) : q \in zone /\ q.name # cur[c].name
  BY WrittenAlone DEF Rest
<1>3. \A q \in zone : q.name # cur[c].name => q \in zone'
  <2>1. \A q \in zone : q.id = found[c] => q.name = cur[c].name
    BY DEF OneInv, ZoneInv, InWork
  <2> QED
    BY <2>1 DEF Rest, Written
<1>4. \A q \in zone' : q.name # cur[c].name => q \in zone
  BY <1>2, WrittenNew DEF OneInv
<1>5. \A r : r.name # cur[c].name => (r \in zone' <=> r \in zone)
  BY <1>3, <1>4
<1>6. \A n \in Names : n # cur[c].name => Records'[n] = Records[n]
  BY <1>5, RecordsNext
<1>7. Records'[cur[c].name] = cur[c].ip
  <2>1. CASE cur[c].ip = None
    <3>1. zone' = Rest(c)
      BY <2>1 DEF Written
    <3> QED
      BY <1>1, <1>2, <2>1, <3>1, RecordsNext
  <2>2. CASE cur[c].ip # None
    <3>1. PICK i \in Ids : Written(c) = Rest(c) \cup {[id |-> i, name |-> cur[c].name, ip |-> cur[c].ip]}
      BY <2>2, WrittenZone DEF OneInv
    <3> DEFINE r == [id |-> i, name |-> cur[c].name, ip |-> cur[c].ip]
    <3>2. r \in zone' /\ r.name = cur[c].name /\ r.ip = cur[c].ip
      BY <3>1
    <3> HIDE DEF r
    <3> QED
      BY <1>1, <3>2, RecordsNext
  <2> QED
    BY <2>1, <2>2
<1>8. Records' = [Records EXCEPT ![cur[c].name] = cur[c].ip]
  BY <1>1, <1>6, <1>7 DEF Records
<1> QED
  BY <1>5, <1>8

LEMMA SameRecords ==
  ASSUME zone' = zone
  PROVE  Records' = Records
  BY DEF Records, Named

LEMMA CallsAreCalls == Calls = Contract!Calls /\ None \notin Calls
  BY ZoneAssumption DEF Calls, Contract!Calls

(* What the contract sees of the callers after a step of c that writes      *)
(* nothing and leaves it without a call under way.                          *)
LEMMA StepNoEffect ==
  ASSUME NEW c \in Clients, Others(c), zone' = zone, pc'[c] # "write"
  PROVE  Calling' = [Calling EXCEPT ![c] = None] /\ Contract!NoEffect(c)
<1>1. \A d \in Clients : d # c => pc'[d] = pc[d] /\ cur'[d] = cur[d] /\ found'[d] = found[d]
  BY DEF Others
<1>2. Calling' = [Calling EXCEPT ![c] = None]
  BY <1>1 DEF Calling
<1>3. Overtaken' = [Overtaken EXCEPT ![c] = FALSE]
  <2>1. ASSUME NEW d \in Clients, d # c PROVE Overtaken'[d] = Overtaken[d]
    BY <1>1, <2>1 DEF Overtaken, Named, Gone
  <2>2. Overtaken'[c] = FALSE
    BY DEF Overtaken
  <2> QED
    BY <2>1, <2>2 DEF Overtaken
<1> QED
  BY <1>2, <1>3, SameRecords DEF Contract!NoEffect

(* A step of a caller that has no call under way and begins none.           *)
LEMMA StepUnseen ==
  ASSUME NEW c \in Clients, Others(c), zone' = zone, pc[c] # "write", pc'[c] # "write"
  PROVE  UNCHANGED <<Records, Calling, Overtaken>>
<1>1. \A d \in Clients : d # c => pc'[d] = pc[d] /\ cur'[d] = cur[d] /\ found'[d] = found[d]
  BY DEF Others
<1>2. Calling' = Calling
  BY <1>1 DEF Calling
<1>3. ASSUME NEW d \in Clients PROVE Overtaken'[d] = Overtaken[d]
  BY <1>1 DEF Overtaken, Named, Gone
<1>4. Overtaken' = Overtaken
  BY <1>3 DEF Overtaken
<1> QED
  BY <1>2, <1>4, SameRecords

(* A write takes effect between the two requests of other callers, and      *)
(* overtakes none but those that are after the same name.                   *)
LEMMA WriteEffect ==
  ASSUME OneInv, NamesTell', NEW c \in Clients, Others(c), pc[c] = "write", pc'[c] # "write",
         ~Exists(c), ~Gone(c), zone' = Written(c)
  PROVE  Contract!Effect(c)
<1>1. cur[c] \in Calls /\ Calling[c] = cur[c] /\ cur[c] # None
  <2>1. cur[c] \in Calls
    BY WrittenZone DEF OneInv
  <2> QED
    BY <2>1, CallsAreCalls DEF Calling
<1>2. Records' = [Records EXCEPT ![Calling[c].name] = Calling[c].ip]
  BY <1>1, WriteTakesEffect
<1>3. Overtaken' \in [Clients -> BOOLEAN] /\ ~Overtaken'[c]
  BY DEF Overtaken
<1>4. ASSUME NEW d \in Clients, d # c, Overtaken'[d]
      PROVE  Overtaken[d] \/ (Calling[d] # None /\ Calling[d].name = Calling[c].name)
  <2>1. pc[d] = "write" /\ cur'[d] = cur[d] /\ found'[d] = found[d]
    BY <1>4 DEF Overtaken, Others
  <2>2. Calling[d] = cur[d] /\ cur[d] \in Calls /\ cur[d] # None
    <3>1. cur[d] \in Calls
      BY <2>1, WrittenZone DEF OneInv
    <3> QED
      BY <2>1, <3>1, CallsAreCalls DEF Calling
  <2>3. CASE cur[d].name = cur[c].name
    BY <1>1, <2>2, <2>3
  <2>4. CASE cur[d].name # cur[c].name
    <3>1. \A r : r.name = cur[d].name => (r \in zone' <=> r \in zone)
      BY <2>4, WriteTakesEffect
    <3>2. CASE found[d] = None
      <4>1. \E r \in zone' : r.name = cur[d].name
        BY <1>4, <2>1, <3>2 DEF Overtaken, Named
      <4>2. Named(cur[d].name) # {}
        BY <3>1, <4>1 DEF Named
      <4>3. Overtaken[d]
        BY <2>1, <3>2, <4>2 DEF Overtaken
      <4> QED
        BY <4>3
    <3>3. CASE found[d] # None
      <4>1. \A r \in zone' : r.id # found[d]
        BY <1>4, <2>1, <3>3 DEF Overtaken, Gone
      <4>2. \A r \in zone : r.id = found[d] => r.name = cur[d].name
        BY <2>1 DEF OneInv, ZoneInv, InWork
      <4>3. \A r \in zone : r.id # found[d]
        BY <3>1, <4>1, <4>2
      <4>4. Overtaken[d]
        BY <2>1, <3>3, <4>3 DEF Overtaken, Gone
      <4> QED
        BY <4>4
    <3> QED
      BY <3>2, <3>3
  <2> QED
    BY <2>3, <2>4
<1> QED
  BY <1>1, <1>2, <1>3, <1>4 DEF Contract!Effect

(* The provider refuses a write only to a call that was overtaken: where    *)
(* the lookup found a record of the name, that one is gone.                 *)
LEMMA RefusedOvertaken ==
  ASSUME OneInv, NEW c \in Clients, pc[c] = "write", Exists(c) \/ Gone(c)
  PROVE  Overtaken[c]
<1>1. CASE Gone(c)
  BY <1>1 DEF Overtaken, Gone
<1>2. CASE Exists(c) /\ found[c] = None
  BY <1>2 DEF Overtaken, Exists
<1>3. CASE Exists(c) /\ found[c] # None /\ ~Gone(c)
  <2>1. PICK r \in zone : r.name = cur[c].name /\ r.id # found[c]
    BY <1>3 DEF Exists, Named
  <2>2. PICK q \in zone : q.id = found[c]
    BY <1>3 DEF Gone
  <2>3. q.name = cur[c].name
    BY <2>2 DEF OneInv, ZoneInv, InWork
  <2> QED
    BY <2>1, <2>2, <2>3 DEF OneInv, NamesTell
<1> QED
  BY <1>1, <1>2, <1>3

LEMMA ContractFind ==
  ASSUME OneInv, NEW c \in Clients, Others(c), Find(c)
  PROVE  Contract!Next
<1>1. pc[c] = "work" /\ zone' = zone /\ Calling[c] = None
  BY DEF Find, Calling
<1>2. CASE Fault(c)
  <2>1. pc'[c] # "write"
    BY <1>2 DEF Fault, Return, OneInv, ZoneInv, TypeOK
  <2> QED
    BY <1>1, <1>2, <2>1, StepNoEffect DEF Fault, Contract!Outage, Contract!End, Contract!Next
<1>3. ASSUME NEW t \in todo[c], NEW id \in Found(t.name), Settled(t, id), Done(c, t)
      PROVE  Contract!Next
  <2>1. t \in Calls /\ t.name \in Names
    BY DEF OneInv, ZoneInv, TypeOK, Calls
  <2>2. Records[t.name] = t.ip
    <3>1. CASE t.ip = None /\ id = None
      BY <2>1, <3>1, FoundOfName, RecordsOf DEF OneInv
    <3>2. CASE \E r \in Named(t.name) : r.ip = t.ip
      BY <2>1, <3>2, RecordsOf DEF OneInv, Named
    <3> QED
      BY <1>3, <3>1, <3>2 DEF Settled
  <2>3. pc'[c] # "write" /\ acked' = [acked EXCEPT ![c] = t] /\ faults' = faults
    BY <1>3 DEF Done, OneInv, ZoneInv, TypeOK
  <2>4. Contract!AtOnce(c, t)
    BY <1>1, <2>2, <2>3, StepNoEffect DEF Contract!AtOnce, Contract!End
  <2> QED
    BY <2>1, <2>4, CallsAreCalls DEF Contract!Next
<1>4. ASSUME NEW t \in todo[c], NEW id \in Found(t.name), WriteNext(c, t, id)
      PROVE  Contract!Next
  <2>1. t \in Calls /\ t.name \in Names
    BY DEF OneInv, ZoneInv, TypeOK, Calls
  <2>2. /\ pc'[c] = "write" /\ cur'[c] = t /\ found'[c] = id
        /\ UNCHANGED <<acked, faults>>
    BY <1>4 DEF WriteNext, OneInv, ZoneInv, TypeOK
  <2>3. \A d \in Clients : d # c => pc'[d] = pc[d] /\ cur'[d] = cur[d] /\ found'[d] = found[d]
    BY DEF Others
  <2>4. Calling' = [Calling EXCEPT ![c] = t]
    BY <2>2, <2>3 DEF Calling
  <2>5. ~Overtaken'[c]
    <3>1. id = None => Named(t.name) = {}
      BY <2>1, FoundOfName DEF OneInv
    <3>2. id # None => \E r \in zone : r.id = id
      BY <1>4 DEF Found, Named
    <3> QED
      BY <1>1, <2>2, <3>1, <3>2 DEF Overtaken, Named, Gone
  <2>6. Overtaken' = [Overtaken EXCEPT ![c] = FALSE]
    <3>1. ASSUME NEW d \in Clients, d # c PROVE Overtaken'[d] = Overtaken[d]
      BY <1>1, <2>3, <3>1 DEF Overtaken, Named, Gone
    <3>2. Overtaken'[c] = FALSE
      BY <2>5 DEF Overtaken
    <3> QED
      BY <3>1, <3>2 DEF Overtaken
  <2>7. Contract!Begin(c, t)
    BY <1>1, <2>2, <2>4, <2>6, SameRecords DEF Contract!Begin
  <2> QED
    BY <2>1, <2>7, CallsAreCalls DEF Contract!Next
<1> QED
  BY <1>2, <1>3, <1>4 DEF Find, Proceed

LEMMA ContractWrite ==
  ASSUME OneInv, NamesTell', NEW c \in Clients, Others(c), Write(c)
  PROVE  Contract!Next
<1>1. pc[c] = "write" /\ pc'[c] # "write" /\ Calling[c] = cur[c]
  BY DEF Write, Refused, Done, Fault, Return, OneInv, ZoneInv, TypeOK, Calling
<1>2. Calling' = [Calling EXCEPT ![c] = None]
  <2>1. \A d \in Clients : d # c => pc'[d] = pc[d] /\ cur'[d] = cur[d]
    BY DEF Others
  <2> QED
    BY <1>1, <2>1 DEF Calling
<1>3. CASE Refused(c)
  <2>1. zone' = zone /\ acked' = [acked EXCEPT ![c] = None] /\ faults' = faults /\ Overtaken[c]
    BY <1>1, <1>3, RefusedOvertaken DEF Refused
  <2>2. Contract!Refuse(c)
    BY <1>1, <2>1, StepNoEffect DEF Contract!Refuse, Contract!End
  <2> QED
    BY <2>2 DEF Contract!Next
<1>4. CASE Fault(c) /\ zone' = zone
  <2>1. Contract!Outage(c)
    BY <1>1, <1>4, StepNoEffect DEF Fault, Contract!Outage, Contract!End
  <2> QED
    BY <2>1 DEF Contract!Next
<1>5. CASE ~Exists(c) /\ ~Gone(c) /\ zone' = Written(c) /\ (Done(c, cur[c]) \/ Fault(c))
  <2>1. Contract!Effect(c)
    BY <1>1, <1>5, WriteEffect
  <2>2. CASE Done(c, cur[c])
    <3>1. Contract!Succeed(c)
      BY <1>1, <1>2, <2>1, <2>2 DEF Done, Contract!Succeed, Contract!End
    <3> QED
      BY <3>1 DEF Contract!Next
  <2>3. CASE Fault(c)
    <3>1. Contract!Outage(c)
      BY <1>2, <2>1, <2>3 DEF Fault, Contract!Outage, Contract!End
    <3> QED
      BY <3>1 DEF Contract!Next
  <2> QED
    BY <1>5, <2>2, <2>3
<1> QED
  BY <1>3, <1>4, <1>5 DEF Write

LEMMA ContractNext ==
  ASSUME Agree, OneInv, [Next]_vars
  PROVE  [Contract!Next]_<<Records, Calling, Overtaken, acked, faults>>
<1>1. ASSUME UNCHANGED vars PROVE UNCHANGED <<Records, Calling, Overtaken, acked, faults>>
  <2>1. Calling' = Calling /\ Overtaken' = Overtaken
    BY <1>1 DEF vars, Calling, Overtaken, Named, Gone
  <2> QED
    BY <1>1, <2>1, SameRecords DEF vars
<1>2. ASSUME NEW c \in Clients, Job(c) \/ Step(c) PROVE Others(c)
  BY <1>2, OthersKept DEF OneInv, ZoneInv
<1>3. ASSUME NEW c \in Clients, Job(c) \/ Finish(c)
      PROVE  UNCHANGED <<Records, Calling, Overtaken, acked, faults>>
  <2>1. /\ zone' = zone /\ UNCHANGED <<acked, faults>>
        /\ pc[c] # "write" /\ pc'[c] # "write"
    BY <1>3, JobStarts DEF Finish, Return, OneInv, ZoneInv, TypeOK
  <2> QED
    BY <1>2, <1>3, <2>1, StepUnseen DEF Step
<1>4. ASSUME NEW c \in Clients, List(c)
      PROVE  Contract!Next \/ UNCHANGED <<Records, Calling, Overtaken, acked, faults>>
  <2>1. pc[c] = "list" /\ zone' = zone /\ Others(c)
    BY <1>2, <1>4 DEF List, Step
  <2>2. pc'[c] # "write"
    BY <1>4 DEF List, NextPage, LastPage, Fault, Return, OneInv, ZoneInv, TypeOK
  <2>3. CASE Fault(c)
    BY <2>1, <2>2, <2>3, StepNoEffect DEF Fault, Contract!Outage, Contract!End, Contract!Next
  <2>4. CASE UNCHANGED <<acked, faults>>
    BY <2>1, <2>2, <2>4, StepUnseen
  <2> QED
    BY <1>4, <2>3, <2>4 DEF List, NextPage, LastPage
<1>5. ASSUME NEW c \in Clients, Find(c) PROVE Contract!Next
  BY <1>2, <1>5, ContractFind DEF Step
<1>6. ASSUME NEW c \in Clients, Write(c) PROVE Contract!Next
  <2>1. NamesTell'
    BY <1>6, OneInvNext DEF OneInv, Next, Step
  <2> QED
    BY <1>2, <1>6, <2>1, ContractWrite DEF Step
<1> QED
  BY <1>1, <1>3, <1>4, <1>5, <1>6 DEF Next, Step

(* ImplementsContract: for callers that agree, the lookups and writes of    *)
(* CloudflareProvider implement what dns.Provider promises: each call takes *)
(* effect at one instant, at most once, and where no request is lost only a *)
(* call that another for its name overtook fails, so that no-ops succeed.   *)
THEOREM ImplementsContract == Agree => (Spec => ContractHolds)
<1> SUFFICES ASSUME Agree PROVE Spec => ContractHolds
  OBVIOUS
<1>1. OneInv /\ [Next]_vars =>
        [Contract!Next]_<<Records, Calling, Overtaken, acked, faults>>
  BY ContractNext
<1> QED
  BY ContractInit, OneInvAlways, <1>1, PTL DEF Spec, ContractHolds, Contract!Spec

-----------------------------------------------------------------------------
(* Callers that are Apart. *)

LEMMA ApartAgree == Apart => Agree
  BY DEF Apart, Agree

LEMMA ApartInvInit == Apart /\ Init => ApartInv
<1> SUFFICES ASSUME Apart, Init PROVE ApartInv
  OBVIOUS
<1>1. \A c \in Clients : OwnEdge(c)
  BY InitZone DEF Apart
<1>2. \A c \in Clients : OwnWork(c) /\ Reading(c) /\ Converging(c)
  BY DEF Init, OwnWork, Reading, Converging
<1> QED
  BY OneInvInit, <1>1, <1>2 DEF ApartInv

(* A write removes a record of the call's name only, the caller's own.      *)
LEMMA WriteOwn ==
  ASSUME ApartInv, NEW c \in Clients, pc[c] = "write", zone' = Written(c),
         NEW r \in zone, r \notin zone'
  PROVE  r.name = cur[c].name /\ (r.name \in Fleet[c] \/ r.ip = EdgeIP[c])
<1>1. r.id = found[c]
  BY DEF Written, Rest
<1>2. r.name = cur[c].name /\ cur[c] \in todo[c]
  BY <1>1 DEF ApartInv, OneInv, ZoneInv, InWork
<1> QED
  BY <1>2 DEF ApartInv, OwnWork

(* So it neither brings a record to another's edge nor takes one from it.   *)
LEMMA EdgesApart ==
  ASSUME Apart, ApartInv, NEW c \in Clients, pc[c] = "write", zone' = Written(c),
         NEW d \in Clients, d # c
  PROVE  \A r : r.ip = EdgeIP[d] => (r \in zone' <=> r \in zone)
<1>1. EdgeIP[d] \notin Addresses(c)
  BY DEF Apart
<1>2. ASSUME NEW r \in zone, r.ip = EdgeIP[d], r \notin zone' PROVE FALSE
  <2>1. r.name \in Fleet[c] \/ r.ip = EdgeIP[c]
    BY <1>2, WriteOwn
  <2>2. r.ip # EdgeIP[c]
    BY <1>1, <1>2 DEF Addresses
  <2> QED
    BY <1>2, <2>1, <2>2 DEF ApartInv, OwnEdge
<1>3. ASSUME NEW r \in zone', r.ip = EdgeIP[d] PROVE r \in zone
  BY <1>1, <1>3, WrittenNew DEF ApartInv, OneInv, Rest
<1> QED
  BY <1>2, <1>3

LEMMA OwnEdgeNext ==
  ASSUME Apart, ApartInv, NEW c \in Clients, pc[c] = "write", zone' = Written(c), NEW d \in Clients
  PROVE  OwnEdge(d)'
<1> SUFFICES ASSUME NEW e \in Clients, NEW r \in zone', e # d, r.name \in Fleet[e]
             PROVE  r.ip # EdgeIP[d]
  BY DEF OwnEdge
<1>1. CASE r \in Rest(c)
  BY <1>1 DEF Rest, ApartInv, OwnEdge
<1>2. CASE r.name \in Fleet[c] /\ r.ip \in Addresses(c)
  <2>1. e = c
    BY <1>2 DEF Apart
  <2> QED
    BY <1>2, <2>1 DEF Apart
<1> QED
  BY <1>1, <1>2, WrittenNew DEF ApartInv, OneInv

(* The work of any caller that the step does not add to stays its own.      *)
LEMMA OwnWorkKept ==
  ASSUME Apart, ApartInv, NEW d \in Clients, todo'[d] \subseteq todo[d],
         \/ zone' = zone
         \/ \E c \in Clients : pc[c] = "write" /\ zone' = Written(c)
  PROVE  OwnWork(d)'
<1> SUFFICES ASSUME NEW t \in todo[d], t.name \notin Fleet[d]
             PROVE  /\ \A e \in Clients : t.name \notin Fleet[e]
                    /\ \A r \in zone' : r.name = t.name => r.ip = EdgeIP[d]
  BY DEF OwnWork
<1>1. /\ \A e \in Clients : t.name \notin Fleet[e]
      /\ \A r \in zone : r.name = t.name => r.ip = EdgeIP[d]
  BY DEF ApartInv, OwnWork
<1>2. CASE zone' = zone
  BY <1>1, <1>2
<1>3. ASSUME NEW c \in Clients, pc[c] = "write", zone' = Written(c), NEW r \in zone', r.name = t.name
      PROVE  r.ip = EdgeIP[d]
  <2>1. r \in Rest(c) \/ r.name \in Fleet[c]
    BY <1>3, WrittenNew DEF ApartInv, OneInv
  <2> QED
    BY <1>1, <1>3, <2>1 DEF Rest
<1> QED
  BY <1>1, <1>2, <1>3

(* Records are counted from one.                                            *)
LEMMA CountedOf ==
  ASSUME NEW S \in SUBSET Ids
  PROVE  /\ IsFiniteSet(S) /\ Cardinality(S) \in Nat
         /\ \A i \in S : /\ Cardinality({id \in S : id <= i}) \in Nat \ {0}
                         /\ Cardinality({id \in S : id <= i}) <= Cardinality(S)
<1>1. IsFiniteSet(S) /\ Cardinality(S) \in Nat
  BY IdsCount, FS_Subset, FS_CardinalityType
<1>2. ASSUME NEW i \in S
      PROVE  /\ Cardinality({id \in S : id <= i}) \in Nat \ {0}
             /\ Cardinality({id \in S : id <= i}) <= Cardinality(S)
  <2> DEFINE B == {id \in S : id <= i}
  <2>1. i \in B /\ B \subseteq S
    BY IdsCount
  <2> HIDE DEF B
  <2>2. IsFiniteSet(B) /\ Cardinality(B) <= Cardinality(S) /\ Cardinality(B) \in Nat
    BY <1>1, <2>1, FS_Subset, FS_CardinalityType
  <2>3. Cardinality(B) # 0
    BY <2>1, <2>2, FS_EmptySet
  <2> QED
    BY <2>2, <2>3 DEF B
<1> QED
  BY <1>1, <1>2

LEMMA Counted ==
  ASSUME zone \subseteq [id : Ids, name : Names, ip : IPs]
  PROVE  /\ IsFiniteSet(IdsInUse) /\ Cardinality(IdsInUse) \in Nat
         /\ \A r \in zone : Position(r) \in Nat \ {0} /\ Position(r) <= Cardinality(IdsInUse)
<1>1. IdsInUse \in SUBSET Ids /\ \A r \in zone : r.id \in IdsInUse
  BY DEF IdsInUse
<1> QED
  BY <1>1, CountedOf DEF Position

LEMMA CountedNext ==
  ASSUME zone' \subseteq [id : Ids, name : Names, ip : IPs]
  PROVE  \A r \in zone' : Position(r)' \in Nat \ {0}
<1>1. IdsInUse' \in SUBSET Ids /\ \A r \in zone' : r.id \in IdsInUse'
  BY DEF IdsInUse
<1> QED
  BY <1>1, CountedOf DEF Position

(* What is on the pages up to this one is known once it is read.            *)
LEMMA PageRead ==
  ASSUME ApartInv, NEW c \in Clients, pc[c] = "list"
  PROVE  /\ page[c] \in Nat \ {0} /\ page[c] * PageSize \in Nat
         /\ \A n \in Mine(c) : AtEdge(c, n)
         /\ ~slipped[c] => \A r \in zone : r.ip = EdgeIP[c] /\ Position(r) <= page[c] * PageSize
                                         => r.name \in Mine(c)
<1>1. page[c] \in Nat \ {0} /\ PageSize \in Nat \ {0}
  BY ZoneAssumption DEF ApartInv, OneInv, ZoneInv, TypeOK
<1> DEFINE before == (page[c] - 1) * PageSize
           upto == page[c] * PageSize
<1>2. before \in Nat /\ upto \in Nat
  <2>1. \A k \in Nat : k * PageSize \in Nat
    BY <1>1
  <2> QED
    BY <1>1, <2>1
<1>3. \A n \in Mine(c) : AtEdge(c, n)
  BY MineTyped DEF ApartInv, OneInv, ZoneInv, Reading
<1>4. ASSUME ~slipped[c], NEW r \in zone, r.ip = EdgeIP[c], Position(r) <= upto
      PROVE  r.name \in Mine(c)
  <2>1. Position(r) \in Nat
    BY Counted DEF ApartInv, OneInv, ZoneInv, TypeOK
  <2>2. CASE Position(r) <= before
    BY <1>4, <2>2 DEF ApartInv, Reading, Mine
  <2>3. CASE Position(r) > before
    BY <1>4, <2>3 DEF Mine, OnPage
  <2> HIDE DEF before
  <2> QED
    BY <1>2, <2>1, <2>2, <2>3
<1> QED
  BY <1>1, <1>2, <1>3, <1>4

LEMMA NextPageReading ==
  ASSUME ApartInv, NEW c \in Clients, pc[c] = "list", NextPage(c), UNCHANGED <<zone, slipped>>
  PROVE  Reading(c)'
<1>1. page'[c] = page[c] + 1 /\ mine'[c] = Mine(c) /\ pc'[c] = "list"
  BY DEF NextPage, ApartInv, OneInv, ZoneInv, TypeOK
<1>2. (page'[c] - 1) * PageSize = page[c] * PageSize
  BY <1>1, PageRead
<1>3. \A r : Position(r)' = Position(r)
  BY DEF Position, IdsInUse
<1>4. \A n : AtEdge(c, n)' <=> AtEdge(c, n)
  BY DEF AtEdge
<1>5. \A n \in mine'[c] : AtEdge(c, n)'
  BY <1>1, <1>4, PageRead
<1>6. ~slipped'[c] => \A r \in zone' : r.ip = EdgeIP[c] /\ Position(r)' <= (page'[c] - 1) * PageSize
                                     => r.name \in mine'[c]
  BY <1>1, <1>2, <1>3, PageRead
<1> QED
  BY <1>1, <1>5, <1>6 DEF Reading

(* The drift of c is its own and all that Reconcile has to do.              *)
LEMMA DriftOwn ==
  ASSUME Apart, ApartInv, NEW c \in Clients, pc[c] = "list", ~More(c), zone' = zone,
         slipped' = slipped, todo'[c] = Drift(c), want'[c] = want[c]
  PROVE  OwnWork(c)' /\ Converging(c)'
<1>1. want[c] \subseteq Fleet[c] /\ Fleet[c] \subseteq Names /\ EdgeIP[c] \in IPs
  BY ZoneAssumption DEF ApartInv, OneInv, ZoneInv, Asked
<1>2. \A n \in Mine(c) : \E s \in zone : s.name = n /\ s.ip = EdgeIP[c]
  BY PageRead DEF AtEdge
<1>3. /\ \A t \in Drift(c) : IF t.ip = None THEN t.name \in Mine(c) \ want[c]
                             ELSE t.name \in want[c] \ Mine(c) /\ t.ip = EdgeIP[c]
      /\ \A n \in Mine(c) \ want[c] : \E t \in Drift(c) : t.name = n
      /\ \A n \in want[c] \ Mine(c) : \E t \in Drift(c) : t.name = n
  <2>1. EdgeIP[c] # None
    BY <1>1, ZoneAssumption
  <2>2. \A t \in Drift(c) :
          \/ \E n \in Mine(c) \ want[c] : t.name = n /\ t.ip = None
          \/ \E n \in want[c] \ Mine(c) : t.name = n /\ t.ip = EdgeIP[c]
    BY DEF Drift
  <2>3. ASSUME NEW n \in Mine(c) \ want[c] PROVE \E t \in Drift(c) : t.name = n
    <3>1. [name |-> n, ip |-> None] \in Drift(c)
      BY DEF Drift
    <3> QED
      BY <3>1
  <2>4. ASSUME NEW n \in want[c] \ Mine(c) PROVE \E t \in Drift(c) : t.name = n
    <3>1. [name |-> n, ip |-> EdgeIP[c]] \in Drift(c)
      BY DEF Drift
    <3> QED
      BY <3>1
  <2> QED
    BY <2>1, <2>2, <2>3, <2>4
<1>4. OwnWork(c)'
  <2> SUFFICES ASSUME NEW t \in Drift(c), t.name \notin Fleet[c]
               PROVE  /\ \A e \in Clients : t.name \notin Fleet[e]
                      /\ \A r \in zone : r.name = t.name => r.ip = EdgeIP[c]
    BY DEF OwnWork
  <2>1. t.name \in Mine(c)
    BY <1>1, <1>3
  <2>2. PICK s \in zone : s.name = t.name /\ s.ip = EdgeIP[c]
    BY <1>2, <2>1
  <2>3. \A e \in Clients : t.name \notin Fleet[e]
    BY <2>2 DEF ApartInv, OwnEdge
  <2>4. \A r \in zone : r.name = t.name => r = s
    BY <2>2 DEF ApartInv, OneInv, NamesTell
  <2> QED
    BY <2>2, <2>3, <2>4
<1>5. Converging(c)'
  <2>1. \A n : AtEdge(c, n)' <=> AtEdge(c, n)
    BY DEF AtEdge
  <2>2. \A n \in want[c] : AtEdge(c, n)' \/ Due(c, n)'
    BY <1>3, <2>1, PageRead DEF Due
  <2>3. ASSUME ~slipped[c], NEW n \in Names, AtEdge(c, n)
        PROVE  n \in Mine(c)
    <3>1. PICK r \in zone : r.name = n /\ r.ip = EdgeIP[c]
      BY <2>3 DEF AtEdge
    <3>2. Position(r) \in Nat /\ Position(r) <= Cardinality(IdsInUse) /\ Cardinality(IdsInUse) \in Nat
      BY Counted DEF ApartInv, OneInv, ZoneInv, TypeOK
    <3>3. Position(r) <= page[c] * PageSize
      <4> DEFINE upto == page[c] * PageSize
      <4>1. upto \in Nat /\ ~(upto <= Cardinality(IdsInUse))
        BY PageRead DEF More
      <4> HIDE DEF upto
      <4>2. Position(r) <= upto
        BY <3>2, <4>1
      <4> QED
        BY <4>2 DEF upto
    <3> QED
      BY <2>3, <3>1, <3>3, PageRead
  <2>4. \A n \in Names : AtEdge(c, n)' => n \in want'[c] \/ slipped'[c] \/ Due(c, n)'
    BY <1>3, <2>1, <2>3 DEF Due
  <2>5. \A t \in todo'[c] : IF t.ip = None THEN t.name \notin want[c]
                            ELSE t.name \in want[c] /\ t.ip = EdgeIP[c]
    BY <1>3
  <2> QED
    BY <2>2, <2>4, <2>5 DEF Converging
<1> QED
  BY <1>4, <1>5

(* A write that is not a deletion moves no record forward.                  *)
LEMMA PositionKept ==
  ASSUME ZoneInv, ZoneInv', NEW c \in Clients, pc[c] = "write", ~Gone(c), cur[c].ip # None,
         zone' = Written(c), NEW r \in zone, r \in zone'
  PROVE  Position(r)' \in Nat /\ Position(r) \in Nat /\ Position(r)' >= Position(r)
<1>1. IdsInUse \subseteq IdsInUse'
  <2>1. PICK i \in Ids :
          /\ zone' = Rest(c) \cup {[id |-> i, name |-> cur[c].name, ip |-> cur[c].ip]}
          /\ found[c] # None => i = found[c]
    BY WrittenZone
  <2> DEFINE new == [id |-> i, name |-> cur[c].name, ip |-> cur[c].ip]
  <2>2. new \in zone' /\ new.id = i /\ zone' = Rest(c) \cup {new}
    BY <2>1
  <2> HIDE DEF new
  <2>3. \A q \in zone : q.id # None
    BY IdsCount, ZoneAssumption DEF ZoneInv, TypeOK
  <2>4. ASSUME NEW q \in zone PROVE q.id \in IdsInUse'
    <3>1. CASE q.id = found[c]
      BY <2>1, <2>2, <2>3, <3>1 DEF IdsInUse
    <3>2. CASE q.id # found[c]
      BY <2>2, <3>2 DEF Rest, IdsInUse
    <3> QED
      BY <3>1, <3>2
  <2> QED
    BY <2>4 DEF IdsInUse
<1>2. IsFiniteSet(IdsInUse')
  <2>1. IdsInUse' \subseteq Ids
    BY DEF IdsInUse, ZoneInv, TypeOK
  <2> QED
    BY <2>1, IdsCount, FS_Subset
<1> DEFINE A == {id \in IdsInUse : id <= r.id}
           B == {id \in IdsInUse' : id <= r.id}
<1>3. A \subseteq B /\ B \subseteq IdsInUse'
  BY <1>1
<1> HIDE DEF A, B
<1>4. Cardinality(A) <= Cardinality(B) /\ Cardinality(A) \in Nat /\ Cardinality(B) \in Nat
  BY <1>2, <1>3, FS_Subset, FS_CardinalityType
<1> QED
  BY <1>4 DEF A, B, Position

(* Another caller's listing reads on, and its work converges, as if the     *)
(* step had not been taken, or it knows that records have slipped.          *)
LEMMA NeighbourReads ==
  ASSUME Apart, ApartInv, ZoneInv', NEW c \in Clients, Others(c),
         NEW d \in Clients, d # c,
         \/ zone' = zone /\ slipped'[d] = slipped[d]
         \/ pc[c] = "write" /\ ~Gone(c) /\ zone' = Written(c) /\ Slip(c)
  PROVE  Reading(d)' /\ Converging(d)'
<1>1. \A r : r.ip = EdgeIP[d] => (r \in zone' <=> r \in zone)
  BY EdgesApart
<1>2. \A n : AtEdge(d, n)' <=> AtEdge(d, n)
  BY <1>1 DEF AtEdge
<1>3. Converging(d)'
  BY <1>2 DEF Others, ApartInv, Converging, Due
<1>4. /\ pc'[d] # "list" => page'[d] = 1 /\ mine'[d] = {}
      /\ \A n \in mine'[d] : AtEdge(d, n)'
  BY <1>2 DEF Others, ApartInv, Reading
<1>5. ASSUME pc[d] = "list", ~slipped'[d], NEW r \in zone, r \in zone', r.ip = EdgeIP[d],
             Position(r)' <= (page[d] - 1) * PageSize
      PROVE  r.name \in mine[d]
  <2>0. page[d] \in Nat \ {0} /\ PageSize \in Nat \ {0} /\ slipped \in [Clients -> BOOLEAN]
    BY ZoneAssumption DEF ApartInv, OneInv, ZoneInv, TypeOK
  <2> DEFINE read == (page[d] - 1) * PageSize
  <2>1. read \in Nat
    <3>1. \A k \in Nat : k * PageSize \in Nat
      BY <2>0
    <3> QED
      BY <2>0, <3>1
  <2>2. CASE zone' = zone /\ slipped'[d] = slipped[d]
    BY <1>5, <2>2 DEF ApartInv, Reading, Position, IdsInUse
  <2>3. CASE pc[c] = "write" /\ ~Gone(c) /\ zone' = Written(c) /\ Slip(c)
    <3>1. CASE cur[c].ip = None
      <4>1. page[d] = 1
        <5>1. slipped' = [e \in Clients |-> slipped[e] \/ (pc[e] = "list" /\ page[e] > 1)]
          BY <2>3, <3>1 DEF Slip
        <5>2. slipped'[d] = (slipped[d] \/ (pc[d] = "list" /\ page[d] > 1))
          BY <5>1
        <5>3. ~(page[d] > 1)
          BY <1>5, <5>2
        <5> QED
          BY <2>0, <5>3
      <4>2. Position(r)' \in Nat \ {0}
        BY CountedNext, <1>5 DEF ZoneInv, TypeOK
      <4> QED
        BY <1>5, <2>0, <4>1, <4>2
    <3>2. CASE cur[c].ip # None
      <4>1. ~slipped[d]
        BY <1>5, <2>3, <3>2 DEF Slip
      <4>2. Position(r)' \in Nat /\ Position(r) \in Nat /\ Position(r)' >= Position(r)
        BY <1>5, <2>3, <3>2, PositionKept DEF ApartInv, OneInv
      <4>3. Position(r) <= read
        <5>1. Position(r)' <= read
          BY <1>5
        <5> HIDE DEF read
        <5> QED
          BY <2>1, <4>2, <5>1
      <4> QED
        BY <1>5, <4>1, <4>3 DEF ApartInv, Reading
    <3> QED
      BY <3>1, <3>2
  <2> QED
    BY <2>2, <2>3
<1>6. Reading(d)'
  BY <1>1, <1>4, <1>5 DEF Others, Reading
<1> QED
  BY <1>3, <1>6

(* A call that succeeds is off the list when its name is as it should be.   *)
LEMMA DoneConverges ==
  ASSUME ApartInv, NEW c \in Clients, NEW t \in todo[c], pc[c] \in {"work", "write"}, Done(c, t),
         slipped'[c] = slipped[c],
         \A n : n # t.name => (AtEdge(c, n)' <=> AtEdge(c, n)),
         AtEdge(c, t.name)' <=> t.ip = EdgeIP[c]
  PROVE  Converging(c)'
<1> DEFINE Left(n) == \E u \in todo[c] \ {t} : u.name = n
<1>0. want'[c] = want[c] /\ slipped'[c] = slipped[c] /\ todo'[c] = todo[c] \ {t}
  BY DoneTyped DEF ApartInv, OneInv
<1> SUFFICES ASSUME want[c] # None
             PROVE  /\ \A n \in want[c] : AtEdge(c, n)' \/ Left(n)
                    /\ \A n \in Names : AtEdge(c, n)' => n \in want[c] \/ slipped[c] \/ Left(n)
                    /\ \A u \in todo[c] \ {t} : IF u.ip = None THEN u.name \notin want[c]
                                                ELSE u.name \in want[c] /\ u.ip = EdgeIP[c]
  BY <1>0 DEF Converging, Due
<1>1. /\ \A n \in want[c] : AtEdge(c, n) \/ \E u \in todo[c] : u.name = n
      /\ \A n \in Names : AtEdge(c, n) => n \in want[c] \/ slipped[c] \/ \E u \in todo[c] : u.name = n
      /\ \A u \in todo[c] : IF u.ip = None THEN u.name \notin want[c]
                            ELSE u.name \in want[c] /\ u.ip = EdgeIP[c]
  BY DEF ApartInv, Converging, Due
<1>2. EdgeIP[c] # None
  BY ZoneAssumption
<1>3. t.name \in want[c] <=> AtEdge(c, t.name)'
  BY <1>1, <1>2
<1>4. \A n : n # t.name => (Left(n) <=> \E u \in todo[c] : u.name = n)
  OBVIOUS
<1> HIDE DEF Left
<1>5. ASSUME NEW n \in want[c] PROVE AtEdge(c, n)' \/ Left(n)
  <2>1. CASE n = t.name
    BY <1>3, <2>1
  <2>2. CASE n # t.name
    BY <1>1, <1>4, <2>2
  <2> QED
    BY <2>1, <2>2
<1>6. ASSUME NEW n \in Names, AtEdge(c, n)' PROVE n \in want[c] \/ slipped[c] \/ Left(n)
  <2>1. CASE n = t.name
    BY <1>3, <1>6, <2>1
  <2>2. CASE n # t.name
    BY <1>1, <1>4, <1>6, <2>2
  <2> QED
    BY <2>1, <2>2
<1> QED
  BY <1>1, <1>5, <1>6

LEMMA FindConverges ==
  ASSUME ApartInv, NEW c \in Clients, pc[c] = "work", zone' = zone, want[c] # None,
         slipped' = slipped,
         NEW t \in todo[c], NEW id \in Found(t.name), Settled(t, id), Done(c, t)
  PROVE  Converging(c)'
<1>1. \A n : AtEdge(c, n)' <=> AtEdge(c, n)
  BY DEF AtEdge
<1>2. t.name \in Names /\ t.ip \in IPs \cup {None} /\ EdgeIP[c] # None
  BY ZoneAssumption DEF ApartInv, OneInv, ZoneInv, TypeOK, Calls
<1>3. AtEdge(c, t.name) <=> t.ip = EdgeIP[c]
  <2>1. CASE t.ip = None /\ id = None
    <3>1. Named(t.name) = {}
      BY <1>2, <2>1, FoundOfName DEF ApartInv, OneInv
    <3> QED
      BY <1>2, <2>1, <3>1 DEF Named, AtEdge
  <2>2. ASSUME NEW r \in Named(t.name), r.ip = t.ip
        PROVE  AtEdge(c, t.name) <=> t.ip = EdgeIP[c]
    BY <2>2 DEF Named, AtEdge, ApartInv, OneInv, NamesTell
  <2> QED
    BY <2>1, <2>2 DEF Settled
<1> QED
  BY <1>1, <1>3, DoneConverges

LEMMA WriteConverges ==
  ASSUME ApartInv, NEW c \in Clients, pc[c] = "write", ~Exists(c), ~Gone(c), zone' = Written(c),
         Done(c, cur[c]), slipped'[c] = slipped[c]
  PROVE  Converging(c)'
<1> DEFINE t == cur[c]
<1>1. t \in todo[c] /\ EdgeIP[c] # None
  BY WrittenZone, ZoneAssumption DEF ApartInv, OneInv
<1>2. \A q \in Rest(c) : q \in zone /\ q.name # t.name
  BY WrittenAlone DEF ApartInv, Rest
<1>3. \A r \in zone' : r \in Rest(c) \/ (r.name = t.name /\ r.ip = t.ip)
  BY WrittenNew DEF ApartInv, OneInv
<1>4. \A r \in zone : r.name # t.name => r \in zone'
  BY WriteOwn
<1>5. \A n : n # t.name => (AtEdge(c, n)' <=> AtEdge(c, n))
  BY <1>2, <1>3, <1>4 DEF AtEdge
<1>6. t.ip # None => \E r \in zone' : r.name = t.name /\ r.ip = t.ip
  <2>1. ASSUME NEW i \in Ids,
               Written(c) = Rest(c) \cup {[id |-> i, name |-> cur[c].name, ip |-> cur[c].ip]}
        PROVE  \E r \in zone' : r.name = cur[c].name /\ r.ip = cur[c].ip
    <3> DEFINE r == [id |-> i, name |-> cur[c].name, ip |-> cur[c].ip]
    <3>1. r \in zone' /\ r.name = cur[c].name /\ r.ip = cur[c].ip
      BY <2>1
    <3> HIDE DEF r
    <3> QED
      BY <3>1
  <2> QED
    BY <2>1, WrittenZone DEF ApartInv, OneInv
<1>7. (\E r \in zone' : r.name = t.name /\ r.ip = EdgeIP[c]) <=> t.ip = EdgeIP[c]
  BY <1>1, <1>2, <1>3, <1>6
<1>8. \A n : n = t.name => (AtEdge(c, n)' <=> t.ip = EdgeIP[c])
  BY <1>7 DEF AtEdge
<1> HIDE DEF t
<1>9. Done(c, t)
  BY DEF t
<1> QED
  BY <1>1, <1>5, <1>8, <1>9, DoneConverges

LEMMA ApartInvNext == Apart /\ ApartInv /\ [Next]_vars => ApartInv'
<1> SUFFICES ASSUME Apart, ApartInv, [Next]_vars PROVE ApartInv'
  OBVIOUS
<1>1. OneInv' /\ ZoneInv'
  BY ApartAgree, OneInvNext DEF ApartInv, OneInv
<1>2. CASE UNCHANGED vars
  <2>1. \A r : Position(r)' = Position(r)
    BY <1>2 DEF vars, Position, IdsInUse
  <2> QED
    BY <1>1, <1>2, <2>1
       DEF vars, ApartInv, OwnEdge, OwnWork, Reading, Converging, AtEdge, Due
<1>3. ASSUME NEW c \in Clients, Others(c), OwnWork(c)', Reading(c)', Converging(c)',
             \/ zone' = zone /\ \A d \in Clients : d # c => slipped'[d] = slipped[d]
             \/ pc[c] = "write" /\ ~Gone(c) /\ zone' = Written(c) /\ Slip(c)
      PROVE  ApartInv'
  <2>1. \A d \in Clients : OwnEdge(d)'
    BY <1>3, OwnEdgeNext DEF ApartInv, OwnEdge
  <2>2. \A d \in Clients : OwnWork(d)'
    <3>1. ASSUME NEW d \in Clients, d # c PROVE todo'[d] \subseteq todo[d]
      BY <1>3, <3>1 DEF Others
    <3> QED
      BY <1>3, <3>1, OwnWorkKept
  <2>3. \A d \in Clients : Reading(d)' /\ Converging(d)'
    BY <1>1, <1>3, NeighbourReads
  <2> QED
    BY <1>1, <2>1, <2>2, <2>3 DEF ApartInv
<1>4. ASSUME NEW c \in Clients, Job(c) PROVE ApartInv'
  <2>1. UNCHANGED <<zone, page, mine>> /\ Others(c) /\ pc[c] = "idle"
    BY <1>4, JobStarts, OthersKept DEF ApartInv, OneInv, ZoneInv
  <2>2. OwnWork(c)'
    BY <1>4, JobStarts DEF OwnWork, ApartInv, OneInv, ZoneInv
  <2>3. Converging(c)'
    BY <1>4, JobStarts DEF Converging, ApartInv, OneInv, ZoneInv
  <2>4. Reading(c)'
    <3>1. page'[c] = 1 /\ mine'[c] = {}
      BY <2>1 DEF ApartInv, Reading
    <3>2. \A r \in zone' : Position(r)' \in Nat \ {0}
      BY <1>1, CountedNext DEF ZoneInv, TypeOK
    <3>3. \A r \in zone' : ~(Position(r)' <= (page'[c] - 1) * PageSize)
      BY <3>1, <3>2, ZoneAssumption
    <3> QED
      BY <3>1, <3>3 DEF Reading
  <2>5. \A d \in Clients : d # c => slipped'[d] = slipped[d]
    BY <1>4 DEF Job, EnsureSlug, EnsureSlugInRegion, RemoveSlug, Reconcile, Start,
                ApartInv, OneInv, ZoneInv, TypeOK
  <2> QED
    BY <1>3, <2>1, <2>2, <2>3, <2>4, <2>5
<1>5. ASSUME NEW c \in Clients, NEW r \in {"ok", "error", "refused", "gone"}, Return(c, r), Step(c),
             page'[c] = 1, mine'[c] = {},
             \/ UNCHANGED <<zone, slipped>>
             \/ pc[c] = "write" /\ ~Gone(c) /\ zone' = Written(c) /\ Slip(c)
      PROVE  ApartInv'
  <2>1. Others(c)
    BY <1>5, OthersKept DEF ApartInv, OneInv, ZoneInv
  <2>2. pc'[c] = "idle" /\ todo'[c] = {}
    BY <1>5, ReturnTyped DEF ApartInv, OneInv, ZoneInv
  <2>3. OwnWork(c)' /\ Reading(c)' /\ Converging(c)'
    BY <1>5, <2>2 DEF OwnWork, Reading, Converging
  <2> QED
    BY <1>3, <1>5, <2>1, <2>3
<1>6. ASSUME NEW c \in Clients, List(c) PROVE ApartInv'
  <2>1. UNCHANGED <<zone, slipped>> /\ Others(c) /\ pc[c] = "list"
    BY <1>6, OthersKept DEF ApartInv, OneInv, ZoneInv, Step, List
  <2>2. CASE NextPage(c)
    <3>1. Reading(c)'
      BY <2>1, <2>2, NextPageReading
    <3>2. todo' = todo /\ pc' = pc
      BY <2>2 DEF NextPage
    <3>3. OwnWork(c)' /\ Converging(c)'
      BY <2>1, <3>2, OwnWorkKept DEF Converging
    <3> QED
      BY <1>3, <2>1, <3>1, <3>3
  <2>3. CASE (LastPage(c) \/ Fault(c)) /\ page'[c] = 1 /\ mine'[c] = {}
    <3>1. CASE Fault(c)
      BY <1>5, <1>6, <2>1, <2>3, <3>1 DEF Fault, Step
    <3>2. CASE LastPage(c)
      <4>1. todo'[c] = Drift(c) /\ want'[c] = want[c] /\ ~More(c) /\ pc'[c] = "work"
        BY <3>2 DEF LastPage, ApartInv, OneInv, ZoneInv, TypeOK
      <4>2. OwnWork(c)' /\ Converging(c)'
        BY <2>1, <4>1, DriftOwn
      <4>3. Reading(c)'
        BY <2>3, <4>1 DEF Reading
      <4> QED
        BY <1>3, <2>1, <4>2, <4>3
    <3> QED
      BY <2>3, <3>1, <3>2
  <2>4. page \in [Clients -> Nat \ {0}] /\ mine \in [Clients -> SUBSET Names]
    BY DEF ApartInv, OneInv, ZoneInv, TypeOK
  <2> QED
    BY <1>6, <2>2, <2>3, <2>4 DEF List
<1>7. ASSUME NEW c \in Clients, pc[c] # "list" PROVE page[c] = 1 /\ mine[c] = {}
  BY <1>7 DEF ApartInv, Reading
<1>8. ASSUME NEW c \in Clients, Find(c) PROVE ApartInv'
  <2>1. UNCHANGED <<zone, page, mine, slipped>> /\ Others(c) /\ pc[c] = "work"
    BY <1>8, OthersKept DEF ApartInv, OneInv, ZoneInv, Step, Find
  <2>2. CASE Fault(c)
    BY <1>5, <1>7, <1>8, <2>1, <2>2 DEF Fault, Step
  <2>3. ASSUME NEW t \in todo[c], NEW id \in Found(t.name), Settled(t, id), Done(c, t)
        PROVE  ApartInv'
    <3>1. todo'[c] \subseteq todo[c] /\ want'[c] = want[c] /\ pc'[c] = "work"
      BY <2>1, <2>3, DoneTyped DEF ApartInv, OneInv
    <3>2. OwnWork(c)'
      BY <2>1, <3>1, OwnWorkKept
    <3>3. Converging(c)'
      BY <2>1, <2>3, <3>1, FindConverges DEF Converging
    <3>4. Reading(c)'
      BY <1>7, <2>1, <3>1 DEF Reading
    <3> QED
      BY <1>3, <2>1, <3>2, <3>3, <3>4
  <2>4. ASSUME NEW t \in todo[c], NEW id \in Found(t.name), WriteNext(c, t, id)
        PROVE  ApartInv'
    <3>1. todo' = todo /\ want' = want /\ pc'[c] = "write"
      BY <2>4 DEF WriteNext, ApartInv, OneInv, ZoneInv, TypeOK
    <3>2. OwnWork(c)' /\ Converging(c)'
      BY <2>1, <3>1 DEF OwnWork, Converging, AtEdge, Due, ApartInv
    <3>3. Reading(c)'
      BY <1>7, <2>1, <3>1 DEF Reading
    <3> QED
      BY <1>3, <2>1, <3>2, <3>3
  <2> QED
    BY <1>8, <2>2, <2>3, <2>4 DEF Find, Proceed
<1>9. ASSUME NEW c \in Clients, Write(c) PROVE ApartInv'
  <2>1. Others(c) /\ pc[c] = "write" /\ cur[c] \in todo[c] /\ UNCHANGED <<page, mine>>
    BY <1>9, OthersKept, WrittenZone DEF ApartInv, OneInv, ZoneInv, Step, Write
  <2>2. \/ UNCHANGED <<zone, slipped>> /\ (Fault(c) \/ Refused(c))
        \/ ~Exists(c) /\ ~Gone(c) /\ zone' = Written(c) /\ Slip(c) /\ (Done(c, cur[c]) \/ Fault(c))
    BY <1>9 DEF Write, Refused
  <2>3. CASE Fault(c) \/ Refused(c)
    <3>1. PICK r \in {"ok", "error", "refused", "gone"} : Return(c, r)
      BY <2>3 DEF Fault, Refused
    <3>2. \/ UNCHANGED <<zone, slipped>>
          \/ pc[c] = "write" /\ ~Gone(c) /\ zone' = Written(c) /\ Slip(c)
      BY <2>1, <2>2
    <3> QED
      BY <1>5, <1>7, <1>9, <2>1, <3>1, <3>2 DEF Step
  <2>4. CASE ~Exists(c) /\ ~Gone(c) /\ zone' = Written(c) /\ Slip(c) /\ Done(c, cur[c])
    <3>1. todo'[c] \subseteq todo[c] /\ pc'[c] = "work"
      BY <2>1, <2>4, DoneTyped DEF ApartInv, OneInv
    <3>2. OwnWork(c)'
      BY <2>1, <2>4, <3>1, OwnWorkKept
    <3>3. slipped'[c] = slipped[c]
      <4>1. slipped[c] \in BOOLEAN
        BY DEF ApartInv, OneInv, ZoneInv, TypeOK
      <4> QED
        BY <2>1, <2>4, <4>1 DEF Slip
    <3>4. Converging(c)'
      BY <2>1, <2>4, <3>3, WriteConverges
    <3>5. Reading(c)'
      BY <1>7, <2>1, <3>1 DEF Reading
    <3> QED
      BY <1>3, <2>1, <2>4, <3>2, <3>4, <3>5
  <2> QED
    BY <2>2, <2>3, <2>4
<1>10. ASSUME NEW c \in Clients, Finish(c) PROVE ApartInv'
  BY <1>5, <1>7, <1>10 DEF Finish, Step
<1> QED
  BY <1>2, <1>4, <1>6, <1>8, <1>9, <1>10 DEF Next, Step

LEMMA ApartInvAlways == Apart => (Spec => []ApartInv)
<1> SUFFICES ASSUME Apart PROVE Spec => []ApartInv
  OBVIOUS
<1>1. ApartInv /\ [Next]_vars => ApartInv'
  BY ApartInvNext
<1>2. Init => ApartInv
  BY ApartInvInit
<1> QED
  BY <1>1, <1>2, PTL DEF Spec

(* OthersUntouchedHolds: fleets that keep to their own slugs and edges can  *)
(* share a zone: Reconcile's deletions and every Upsert leave the other's   *)
(* records alone.                                                           *)
THEOREM OthersUntouchedHolds == Apart => (Spec => OthersUntouched)
<1> SUFFICES ASSUME Apart PROVE Spec => OthersUntouched
  OBVIOUS
<1> DEFINE Q == \A c \in Clients : Writes(c) =>
                  \A r \in zone \ zone' : r.name \in Fleet[c] \/ r.ip = EdgeIP[c]
<1>1. ASSUME ApartInv, [Next]_vars, NEW c \in Clients, Writes(c), NEW r \in zone \ zone'
      PROVE  r.name \in Fleet[c] \/ r.ip = EdgeIP[c]
  <2>1. PICK d \in Clients : Job(d) \/ Step(d)
    BY <1>1 DEF Next, vars
  <2>2. Others(d)
    BY <1>1, <2>1, OthersKept DEF ApartInv, OneInv, ZoneInv
  <2>3. d = c
    BY <1>1, <2>2 DEF Writes, Others
  <2>4. Write(c)
    BY <1>1, <2>1, <2>3 DEF Writes, Job, EnsureSlug, EnsureSlugInRegion, RemoveSlug, Reconcile,
                            Start, Step, List, Find, Finish
  <2>5. zone' = Written(c) /\ pc[c] = "write"
    BY <1>1, <2>4 DEF Write, Refused
  <2> QED
    BY <1>1, <2>5, WriteOwn
<1>2. ApartInv /\ [Next]_vars => [Q]_vars
  BY <1>1
<1> QED
  BY ApartInvAlways, <1>2, PTL DEF Spec, OthersUntouched

(* ReconcileConvergesHolds: among such fleets a Reconcile that returns no   *)
(* error leaves the names it was given at its edge, whatever the other      *)
(* fleets do between its pages and its writes; no others, unless a record   *)
(* was deleted between its pages.                                           *)
THEOREM ReconcileConvergesHolds == Apart => (Spec => ReconcileConverges)
<1> SUFFICES ASSUME Apart PROVE Spec => ReconcileConverges
  OBVIOUS
<1> DEFINE Q == \A c \in Clients : want[c] # None /\ pc[c] # "idle" /\ result'[c] = "ok" =>
                  \A n \in Names : /\ n \in want[c] => AtEdge(c, n)
                                   /\ AtEdge(c, n) => n \in want[c] \/ slipped[c]
<1>1. ASSUME ApartInv, [Next]_vars, NEW c \in Clients, want[c] # None, pc[c] # "idle",
             result'[c] = "ok", NEW n \in Names
      PROVE  /\ n \in want[c] => AtEdge(c, n)
             /\ AtEdge(c, n) => n \in want[c] \/ slipped[c]
  <2>1. result[c] = "none"
    BY <1>1 DEF ApartInv, OneInv, ZoneInv, InWork
  <2>2. PICK d \in Clients : Job(d) \/ Step(d)
    BY <1>1, <2>1 DEF Next, vars
  <2>3. d = c
    BY <1>1, <2>1, <2>2, OthersKept DEF Others, ApartInv, OneInv, ZoneInv
  <2>4. Step(c)
    BY <1>1, <2>2, <2>3, JobStarts DEF ApartInv, OneInv, ZoneInv
  <2>5. result \in [Clients -> {"none", "ok", "error", "refused", "gone"}]
    BY <1>1 DEF ApartInv, OneInv, ZoneInv, TypeOK
  <2>6. ~List(c)
    BY <1>1, <2>1, <2>5 DEF List, NextPage, LastPage, Fault, Return
  <2>7. ~Find(c) /\ ~Write(c)
    BY <1>1, <2>1, <2>5 DEF Find, Proceed, Write, Refused, Done, WriteNext, Fault, Return
  <2>8. pc[c] = "work" /\ todo[c] = {}
    BY <2>4, <2>6, <2>7 DEF Step, Finish
  <2> QED
    BY <1>1, <2>8 DEF ApartInv, Converging, Due
<1>2. ApartInv /\ [Next]_vars => [Q]_vars
  BY <1>1
<1> QED
  BY ApartInvAlways, <1>2, PTL DEF Spec, ReconcileConverges

=============================================================================
