---------------------------- MODULE ZoneContract ----------------------------
(***************************************************************************)
(* What dns.Provider promises its callers, with calls of several clients   *)
(* under way at once: one record for a name at most, and a call that takes *)
(* effect once or not at all, at one instant while it is under way.        *)
(*                                                                         *)
(* A call fails only where a request is lost or where another call for the *)
(* same name took effect while it was under way.  Every other call must    *)
(* succeed, an Upsert of what is there and a Delete of what is not         *)
(* included, however the calls before it have ended.                       *)
(***************************************************************************)
EXTENDS Naturals

CONSTANTS Clients, Names, IPs, None

(* Provider calls: an Upsert of name to ip, a Delete where ip is None.      *)
Calls == [name : Names, ip : IPs \cup {None}]

VARIABLES
  records,    \* records[n]: the address of n, or None
  calling,    \* calling[c]: the call of c under way, or None
  overtaken,  \* overtaken[c]: a call for its name has taken effect meanwhile
  acked,      \* acked[c]: the call that c was last told had succeeded
  outages     \* requests lost so far

Init ==
  /\ records \in [Names -> IPs \cup {None}]
  /\ calling = [c \in Clients |-> None] /\ overtaken = [c \in Clients |-> FALSE]
  /\ acked = [c \in Clients |-> None] /\ outages = 0

Begin(c, t) ==
  /\ calling[c] = None
  /\ calling' = [calling EXCEPT ![c] = t]
  /\ overtaken' = [overtaken EXCEPT ![c] = FALSE]
  /\ UNCHANGED <<records, acked, outages>>

(* The call of c takes effect, and may overtake those for the same name.    *)
Effect(c) ==
  /\ calling[c] # None
  /\ records' = [records EXCEPT ![calling[c].name] = calling[c].ip]
  /\ overtaken' \in [Clients -> BOOLEAN] /\ ~overtaken'[c]
  /\ \A d \in Clients :
       overtaken'[d] => \/ overtaken[d]
                        \/ calling[d] # None /\ calling[d].name = calling[c].name

NoEffect(c) == UNCHANGED records /\ overtaken' = [overtaken EXCEPT ![c] = FALSE]

End(c, told) ==
  calling' = [calling EXCEPT ![c] = None] /\ acked' = [acked EXCEPT ![c] = told]

Succeed(c) == Effect(c) /\ End(c, calling[c]) /\ UNCHANGED outages

(* A no-op: the zone is as the call wants it.                               *)
AtOnce(c, t) ==
  /\ calling[c] = None /\ records[t.name] = t.ip
  /\ NoEffect(c) /\ End(c, t) /\ UNCHANGED outages

(* A request is lost, the answer to a call that has taken effect included.  *)
Outage(c) ==
  /\ outages' = outages + 1
  /\ Effect(c) \/ NoEffect(c)
  /\ End(c, None)

Refuse(c) == overtaken[c] /\ NoEffect(c) /\ End(c, None) /\ UNCHANGED outages

Next ==
  \E c \in Clients :
    \/ Succeed(c) \/ Outage(c) \/ Refuse(c)
    \/ \E t \in Calls : Begin(c, t) \/ AtOnce(c, t)

Spec == Init /\ [][Next]_<<records, calling, overtaken, acked, outages>>
=============================================================================
