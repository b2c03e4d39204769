------------------------- MODULE RateLimiterProofs --------------------------
(***************************************************************************)
(* Theorems about RateLimiter for any rate, burst and number of callers.   *)
(***************************************************************************)
EXTENDS RateLimiter, TLAPS

LEMMA LimiterInit == Init => LimiterInv
  BY LimiterAssumption DEF Init, LimiterInv, TypeOK, BurstServed

(* What a refill adds is what the clock allows for, and nothing is lost     *)
(* except to the cap.                                                       *)
LEMMA RefillBounds ==
  ASSUME NEW s \in Slugs, NEW t \in 0..MaxTime, TypeOK
  PROVE  /\ Refilled(s, t).tokens \in 0..Burst
         /\ Refilled(s, t).last \in 0..MaxTime
         /\ Refilled(s, t).last >= t
         /\ Refilled(s, t).last = t \/ Refilled(s, t).last = last[s]
         /\ s \in known =>
              /\ Refilled(s, t).last >= last[s]
              /\ Refilled(s, t).tokens <= tokens[s] + Rate * (Refilled(s, t).last - last[s])
              /\ Refilled(s, t).tokens >= tokens[s]
         /\ s \notin known => Refilled(s, t).tokens = Burst
<1>1. /\ tokens[s] \in 0..Burst /\ last[s] \in 0..MaxTime
      /\ Burst \in Nat /\ Rate \in Nat /\ MaxTime \in Nat
  BY LimiterAssumption DEF TypeOK
<1>2. CASE s \notin known
  BY <1>1, <1>2 DEF Refilled
<1>3. CASE s \in known /\ t > last[s]
  <2> DEFINE r == Rate * (t - last[s])
  <2>1. r \in Nat
    BY <1>1, <1>3
  <2>2. Refilled(s, t) = [tokens |-> Capped(tokens[s] + r), last |-> t]
    BY <1>3 DEF Refilled
  <2> HIDE DEF r
  <2>3. /\ Capped(tokens[s] + r) \in 0..Burst
        /\ Capped(tokens[s] + r) >= tokens[s] /\ Capped(tokens[s] + r) <= tokens[s] + r
    BY <1>1, <2>1 DEF Capped
  <2> QED
    BY <1>1, <1>3, <2>2, <2>3 DEF r
<1>4. CASE s \in known /\ ~(t > last[s])
  <2>1. Refilled(s, t) = [tokens |-> tokens[s], last |-> last[s]]
    BY <1>4 DEF Refilled
  <2>2. Rate * (last[s] - last[s]) = 0
    BY <1>1
  <2> QED
    BY <1>1, <1>4, <2>1, <2>2
<1> QED
  BY <1>2, <1>3, <1>4

LEMMA DecideStep ==
  ASSUME LimiterInv, NEW c \in Callers, Decide(c)
  PROVE  LimiterInv'
<1> DEFINE s == slug[c]
           t == seen[c]
           b == Refilled(s, t)
           allowed == b.tokens >= Unit
<1>1. /\ s \in Slugs /\ t \in 0..MaxTime /\ t <= now
      /\ now \in 0..MaxTime /\ since \in 0..MaxTime
      /\ granted[s] \in Nat /\ counted[s] \in Nat
      /\ tokens[s] \in 0..Burst /\ last[s] \in 0..MaxTime /\ last[s] <= now
      /\ Unit \in Nat \ {0} /\ Burst \in Nat /\ Rate \in Nat /\ MaxTime \in Nat
  BY LimiterAssumption DEF LimiterInv, TypeOK, Decide
<1>2. /\ b.tokens \in 0..Burst /\ b.last \in 0..MaxTime /\ b.last >= t
      /\ b.last = t \/ b.last = last[s]
      /\ s \in known =>
           /\ b.last >= last[s] /\ b.tokens >= tokens[s]
           /\ b.tokens <= tokens[s] + Rate * (b.last - last[s])
      /\ s \notin known => b.tokens = Burst
  BY <1>1, RefillBounds DEF LimiterInv
<1>3. /\ known' = known \cup {s}
      /\ last' = [last EXCEPT ![s] = b.last]
      /\ tokens' = [tokens EXCEPT ![s] = IF allowed THEN b.tokens - Unit ELSE b.tokens]
      /\ granted' = [granted EXCEPT ![s] = IF allowed THEN @ + 1 ELSE @]
      /\ counted' = [counted EXCEPT ![s] = IF allowed /\ t >= since THEN @ + 1 ELSE @]
      /\ seen' = [seen EXCEPT ![c] = -1]
      /\ UNCHANGED <<now, slug, since>>
  BY DEF Decide
<1> HIDE DEF s, t, b
<1>4. TypeOK'
  BY <1>1, <1>2, <1>3 DEF LimiterInv, TypeOK
<1>5. (\A d \in Callers : seen'[d] <= now') /\ (\A r \in Slugs : last'[r] <= now')
  BY <1>1, <1>2, <1>3 DEF LimiterInv, TypeOK
<1>6. BurstServed'
  <2> SUFFICES ASSUME NEW r \in known' PROVE granted'[r] * Unit + tokens'[r] >= Burst
    BY DEF BurstServed
  <2>1. CASE r # s
    BY <2>1, <1>1, <1>3 DEF LimiterInv, BurstServed, TypeOK
  <2>2. CASE r = s
    <3>1. granted[s] * Unit \in Nat /\ (granted[s] + 1) * Unit = granted[s] * Unit + Unit
      BY <1>1
    <3>2. granted[s] * Unit + b.tokens >= Burst
      BY <1>1, <1>2, <3>1 DEF LimiterInv, BurstServed
    <3>3. CASE allowed
      <4>1. granted'[s] = granted[s] + 1 /\ tokens'[s] = b.tokens - Unit
        BY <1>1, <1>3, <3>3 DEF LimiterInv, TypeOK
      <4> QED
        BY <1>1, <1>2, <2>2, <3>1, <3>2, <4>1
    <3>4. CASE ~allowed
      <4>1. granted'[s] = granted[s] /\ tokens'[s] = b.tokens
        BY <1>1, <1>3, <3>4 DEF LimiterInv, TypeOK
      <4> QED
        BY <2>2, <3>2, <4>1
    <3> QED
      BY <3>3, <3>4
  <2> QED
    BY <2>1, <2>2
<1>7. ASSUME NEW r \in Slugs, counted'[r] > 0
      PROVE  /\ r \in known' /\ since' <= last'[r]
             /\ counted'[r] * Unit + tokens'[r] <= Burst + Rate * (last'[r] - since')
  <2>1. CASE r # s
    BY <1>7, <2>1, <1>1, <1>3 DEF LimiterInv, TypeOK
  <2>2. CASE r = s
    <3>1. counted[s] * Unit \in Nat /\ (counted[s] + 1) * Unit = counted[s] * Unit + Unit
      BY <1>1
    <3>2. last'[s] = b.last /\ since' = since /\ s \in known'
      BY <1>1, <1>3 DEF LimiterInv, TypeOK
    <3>3. ASSUME counted[s] > 0
          PROVE  /\ since <= b.last
                 /\ counted[s] * Unit + b.tokens <= Burst + Rate * (b.last - since)
      <4>1. /\ s \in known /\ since <= last[s]
            /\ counted[s] * Unit + tokens[s] <= Burst + Rate * (last[s] - since)
        BY <1>1, <3>3 DEF LimiterInv
      <4>2. Rate * (b.last - since) = Rate * (last[s] - since) + Rate * (b.last - last[s])
        BY <1>1, <1>2
      <4>3. Rate * (last[s] - since) \in Int /\ Rate * (b.last - last[s]) \in Int
        BY <1>1, <1>2
      <4> QED
        BY <1>1, <1>2, <3>1, <4>1, <4>2, <4>3
    <3>4. ASSUME counted[s] = 0, t >= since
          PROVE  /\ since <= b.last
                 /\ counted[s] * Unit + b.tokens <= Burst + Rate * (b.last - since)
      <4>1. since <= b.last
        BY <1>1, <1>2, <3>4
      <4>2. Rate * (b.last - since) \in Nat /\ counted[s] * Unit = 0
        BY <1>1, <1>2, <3>4, <4>1
      <4> QED
        BY <1>1, <1>2, <4>1, <4>2
    <3>5. CASE allowed /\ t >= since
      <4>1. counted'[s] = counted[s] + 1 /\ tokens'[s] = b.tokens - Unit
        BY <1>1, <1>3, <3>5 DEF LimiterInv, TypeOK
      <4>2. /\ since <= b.last
            /\ counted[s] * Unit + b.tokens <= Burst + Rate * (b.last - since)
        BY <1>1, <3>3, <3>4, <3>5
      <4> QED
        BY <1>1, <1>2, <2>2, <3>1, <3>2, <4>1, <4>2
    <3>6. CASE ~(allowed /\ t >= since)
      <4>1. counted'[s] = counted[s] /\ tokens'[s] <= b.tokens /\ tokens'[s] \in Int
        BY <1>1, <1>2, <1>3, <3>6 DEF LimiterInv, TypeOK
      <4>2. /\ since <= b.last
            /\ counted[s] * Unit + b.tokens <= Burst + Rate * (b.last - since)
        BY <1>1, <1>7, <2>2, <3>3, <4>1
      <4>3. Rate * (b.last - since) \in Int
        BY <1>1, <1>2
      <4> QED
        BY <1>1, <1>2, <2>2, <3>1, <3>2, <4>1, <4>2, <4>3
    <3> QED
      BY <3>5, <3>6
  <2> QED
    BY <2>1, <2>2
<1> QED
  BY <1>4, <1>5, <1>6, <1>7 DEF LimiterInv

LEMMA LimiterStep == LimiterInv /\ [Next]_vars => LimiterInv'
<1> SUFFICES ASSUME LimiterInv, [Next]_vars PROVE LimiterInv'
  OBVIOUS
<1>1. CASE Tick
  BY <1>1, LimiterAssumption DEF Tick, bucket, LimiterInv, TypeOK, BurstServed
<1>2. ASSUME NEW c \in Callers, NEW s \in Slugs, ReadClock(c, s) PROVE LimiterInv'
  BY <1>2, LimiterAssumption DEF ReadClock, bucket, LimiterInv, TypeOK, BurstServed
<1>3. ASSUME NEW c \in Callers, Decide(c) PROVE LimiterInv'
  BY <1>3, DecideStep
<1>4. CASE UNCHANGED vars
  BY <1>4 DEF vars, LimiterInv, TypeOK, BurstServed
<1> QED
  BY <1>1, <1>2, <1>3, <1>4 DEF Next

(* LimiterCorrect: LimiterInv holds whatever the rate, the burst and the    *)
(* order in which the callers reach the lock.                               *)
THEOREM LimiterCorrect == Spec => []LimiterInv
  BY LimiterInit, LimiterStep, PTL DEF Spec

(* AllowanceHolds: no tenant is ever allowed more than its burst and its    *)
(* rate permit, over any stretch of time.                                   *)
THEOREM AllowanceHolds == Spec => []WithinAllowance
<1>1. LimiterInv => WithinAllowance
  <2> SUFFICES ASSUME LimiterInv, NEW s \in Slugs, counted[s] > 0
               PROVE  counted[s] * Unit <= Burst + Rate * (now - since)
    BY DEF WithinAllowance
  <2>1. /\ since <= last[s] /\ last[s] <= now
        /\ counted[s] * Unit + tokens[s] <= Burst + Rate * (last[s] - since)
    BY DEF LimiterInv
  <2>2. /\ counted[s] \in Nat /\ tokens[s] \in Nat /\ last[s] \in Nat /\ now \in Nat
        /\ since \in Nat /\ Unit \in Nat /\ Burst \in Nat /\ Rate \in Nat
    BY LimiterAssumption DEF LimiterInv, TypeOK
  <2>3. /\ Rate * (now - since) = Rate * (last[s] - since) + Rate * (now - last[s])
        /\ Rate * (now - last[s]) \in Nat /\ Rate * (last[s] - since) \in Nat
        /\ counted[s] * Unit \in Nat
    BY <2>1, <2>2
  <2> QED
    BY <2>1, <2>2, <2>3
<1> QED
  BY <1>1, LimiterCorrect, PTL

(* BurstHolds: and none is refused before it has had its burst.             *)
THEOREM BurstHolds == Spec => []BurstServed
<1>1. LimiterInv => BurstServed
  BY DEF LimiterInv
<1> QED
  BY <1>1, LimiterCorrect, PTL

=============================================================================
