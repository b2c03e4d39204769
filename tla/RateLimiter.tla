---------------------------- MODULE RateLimiter -----------------------------
(***************************************************************************)
(* The edge router's TokenBucketLimiter, called from one goroutine per     *)
(* request.  Allow reads the clock before it takes the lock, so a request  *)
(* may enter the critical section with a reading older than the last one   *)
(* the bucket was refilled at.                                             *)
(*                                                                         *)
(* Tokens are counted in 1/Unit of a token, so that a clock tick refills   *)
(* Rate of them; float64 rounding is not modelled.                         *)
(***************************************************************************)
EXTENDS Integers

CONSTANTS
  Slugs,
  Callers,   \* goroutines that may be inside Allow at the same time
  Unit,      \* one token
  Burst,     \* capacity of a bucket
  Rate,      \* refill per clock tick
  MaxTime    \* bound on the clock

ASSUME LimiterAssumption ==
  /\ Unit \in Nat \ {0} /\ Burst \in Nat /\ Rate \in Nat
  /\ MaxTime \in Nat

VARIABLES
  now,       \* the monotonic clock
  known,     \* slugs that have a bucket
  tokens,    \* tokens[s], last[s]: the bucket of s
  last,
  slug,      \* slug[c]: what c calls Allow for
  seen,      \* seen[c]: the clock c read, -1 when c is not inside Allow
  granted,   \* history: granted[s] requests of s were allowed
  since,     \* history: start of an observation, any time
  counted    \* history: counted[s] of them arrived at since or later

bucket == <<known, tokens, last>>
vars == <<now, known, tokens, last, slug, seen, granted, since, counted>>

(* TypeOK: the type invariant; a bucket never holds more than Burst, nor a  *)
(* negative number of tokens.                                               *)
TypeOK ==
  /\ now \in 0..MaxTime /\ since \in 0..MaxTime
  /\ known \subseteq Slugs
  /\ tokens \in [Slugs -> 0..Burst]
  /\ last \in [Slugs -> 0..MaxTime]
  /\ slug \in [Callers -> Slugs]
  /\ seen \in [Callers -> -1..MaxTime]
  /\ granted \in [Slugs -> Nat] /\ counted \in [Slugs -> Nat]

Init ==
  /\ now = 0 /\ since \in 0..MaxTime
  /\ known = {}
  /\ tokens = [s \in Slugs |-> 0] /\ last = [s \in Slugs |-> 0]
  /\ slug \in [Callers -> Slugs]
  /\ seen = [c \in Callers |-> -1]
  /\ granted = [s \in Slugs |-> 0] /\ counted = [s \in Slugs |-> 0]

Tick ==
  /\ now < MaxTime
  /\ now' = now + 1
  /\ UNCHANGED <<bucket, slug, seen, granted, since, counted>>

(* A request for s: Allow reads the clock. *)
ReadClock(c, s) ==
  /\ seen[c] = -1
  /\ seen' = [seen EXCEPT ![c] = now]
  /\ slug' = [slug EXCEPT ![c] = s]
  /\ UNCHANGED <<now, bucket, granted, since, counted>>

Capped(n) == IF n > Burst THEN Burst ELSE n

(* Mutants: a late reading takes tokens back; it moves last back; a refill  *)
(* is not capped.                                                           *)
RefilledBackwards(s, t) ==
  IF s \notin known THEN [tokens |-> Burst, last |-> t]
  ELSE [tokens |-> Capped(tokens[s] + Rate * (t - last[s])), last |-> t]
RefilledRewound(s, t) ==
  IF s \notin known THEN [tokens |-> Burst, last |-> t]
  ELSE IF t > last[s]
       THEN [tokens |-> Capped(tokens[s] + Rate * (t - last[s])), last |-> t]
       ELSE [tokens |-> tokens[s], last |-> t]
RefilledUncapped(s, t) ==
  IF s \notin known THEN [tokens |-> Burst, last |-> t]
  ELSE IF t > last[s] THEN [tokens |-> tokens[s] + Rate * (t - last[s]), last |-> t]
  ELSE [tokens |-> tokens[s], last |-> last[s]]

(* The bucket of s refilled for a clock reading t; a new one is full, and a *)
(* reading not later than the last one changes nothing.                     *)
Refilled(s, t) ==
  IF s \notin known THEN [tokens |-> Burst, last |-> t]
  ELSE IF t > last[s]
       THEN [tokens |-> Capped(tokens[s] + Rate * (t - last[s])), last |-> t]
       ELSE [tokens |-> tokens[s], last |-> last[s]]

(* The critical section: refill, take a token if there is one. *)
Decide(c) ==
  LET s == slug[c]
      b == Refilled(s, seen[c])
      allowed == b.tokens >= Unit
  IN /\ seen[c] # -1
     /\ known' = known \cup {s}
     /\ last' = [last EXCEPT ![s] = b.last]
     /\ tokens' = [tokens EXCEPT ![s] = IF allowed THEN b.tokens - Unit ELSE b.tokens]
     /\ granted' = [granted EXCEPT ![s] = IF allowed THEN @ + 1 ELSE @]
     /\ counted' = [counted EXCEPT ![s] = IF allowed /\ seen[c] >= since THEN @ + 1 ELSE @]
     /\ seen' = [seen EXCEPT ![c] = -1]
     /\ UNCHANGED <<now, slug, since>>

Next ==
  \/ Tick
  \/ \E c \in Callers, s \in Slugs : ReadClock(c, s)
  \/ \E c \in Callers : Decide(c)

Spec == Init /\ [][Next]_vars

-----------------------------------------------------------------------------
(* Properties. *)

(* WithinAllowance: of the requests that arrive at some time or later, no   *)
(* more are allowed than a full bucket and the refill since that time, in   *)
(* whatever order they reach the lock.                                      *)
WithinAllowance ==
  \A s \in Slugs : counted[s] > 0 => counted[s] * Unit <= Burst + Rate * (now - since)

(* BurstServed: a request is refused only once the tenant has been granted  *)
(* its whole burst; a late clock reading never costs it tokens.             *)
BurstServed == \A s \in known : granted[s] * Unit + tokens[s] >= Burst

-----------------------------------------------------------------------------
(* LimiterInv: the inductive invariant: what was granted since the start of *)
(* the observation and what is left is covered up to the last refill.       *)
LimiterInv ==
  /\ TypeOK
  /\ \A c \in Callers : seen[c] <= now
  /\ \A s \in Slugs : last[s] <= now
  /\ \A s \in Slugs : counted[s] > 0 =>
       /\ s \in known /\ since <= last[s]
       /\ counted[s] * Unit + tokens[s] <= Burst + Rate * (last[s] - since)
  /\ BurstServed

=============================================================================
