------------------------------- MODULE Health -------------------------------
(***************************************************************************)
(* The probe of readiness (platform/health): its answer is kept for a TTL,  *)
(* probes that miss it share one ping of the database.                     *)
(***************************************************************************)
EXTENDS EdgeClock

CONSTANTS ReadyTTL, ReadyTimeout

ASSUME HealthAssumption == ReadyTTL \in Nat /\ ReadyTimeout \in Nat

VARIABLES
  database,  \* does it answer
  ready,     \* last and expires of Cached; asked: when that ping began, ended
  ping,      \* the shared check of singleflight
  probe      \* probe[c]: the probe of client c

health == <<database, ready, ping, probe>>

NoPing  == [pc |-> "none", at |-> 0, early |-> FALSE]
NoProbe == [pc |-> "idle", ok |-> FALSE, asked |-> 0]

HealthTypeOK ==
  /\ database \in BOOLEAN /\ ready.ok \in BOOLEAN /\ {ready.expires, ready.asked} \subseteq Int
  /\ ping.pc \in {"none", "new", "query"}
  /\ \A c \in Clients : probe[c].pc \in {"idle", "miss", "wait", "told"}

HealthInit ==
  /\ database = TRUE /\ ready = [ok |-> FALSE, expires |-> 0, asked |-> -1, ended |-> -ReadyTTL]
  /\ ping = NoPing /\ probe = [c \in Clients |-> NoProbe]

Told(ok, asked) == [pc |-> "told", ok |-> ok, asked |-> asked]

Wavers == plan.part = "health" /\ Arrival("health") /\ database' = ~database /\ UNCHANGED <<ready, ping, probe>>

(* A look into what is kept; or on to the shared check.                     *)
StillFresh == now < ready.expires
Probe(c) ==
  /\ Arrival("health") /\ probe[c] = NoProbe
  /\ probe' = [probe EXCEPT ![c] = IF StillFresh THEN Told(ready.ok, ready.asked) ELSE [NoProbe EXCEPT !.pc = "miss"]]
  /\ UNCHANGED <<database, ready, ping>>
Joins(c) ==
  /\ probe[c].pc = "miss" /\ probe' = [probe EXCEPT ![c].pc = "wait"]
  /\ ping' = IF ping = NoPing THEN [NoPing EXCEPT !.pc = "new"] ELSE ping
  /\ UNCHANGED <<clock, database, ready>>

(* The check looks again: a probe may be late for one that has just ended.  *)
Answer(ok, asked) == probe' = [c \in Clients |-> IF probe[c].pc = "wait" THEN Told(ok, asked) ELSE probe[c]]
LooksNoMore == FALSE
LooksAgain == StillFresh
CheckAgain ==
  /\ ping.pc = "new"
  /\ IF LooksAgain
       THEN Answer(ready.ok, ready.asked) /\ ping' = NoPing
       ELSE /\ ping' = [pc |-> "query", at |-> now, early |-> now < ready.ended + ReadyTTL] /\ UNCHANGED probe
  /\ UNCHANGED <<clock, database, ready>>
Pinged(ok) ==
  /\ ping.pc = "query" /\ (ok => database) /\ ready' = [ok |-> ok, expires |-> now + ReadyTTL, asked |-> ping.at, ended |-> now]
  /\ Answer(ok, ping.at) /\ ping' = NoPing /\ UNCHANGED <<clock, database>>
Leave(c) ==
  /\ probe[c].pc = "told" /\ probe' = [probe EXCEPT ![c] = NoProbe] /\ UNCHANGED <<clock, database, ready, ping>>

HealthInTime ==
  /\ ping.pc = "query" => now + Micro <= ping.at + ReadyTimeout
  /\ \A c \in Clients : probe[c].pc # "told"

HealthNext ==
  \/ Wavers \/ CheckAgain \/ (\E ok \in BOOLEAN : Pinged(ok))
  \/ \E c \in Clients : Probe(c) \/ Joins(c) \/ Leave(c)

-----------------------------------------------------------------------------
(* However many probes there are, the database is pinged once in a TTL; and *)
(* what a probe is told is no older than a TTL and a ping.                  *)
PingedRarely ==
  /\ ~ping.early
  /\ \A c \in Clients : probe[c].pc = "told" => now <= probe[c].asked + ReadyTTL + ReadyTimeout
=============================================================================
