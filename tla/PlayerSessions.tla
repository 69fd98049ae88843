--------------------------- MODULE PlayerSessions ---------------------------
(***************************************************************************)
(* The cache of players' sessions in a process of the public API            *)
(* (backend/internal/platform/auth/loader.go): what was loaded is served    *)
(* for a TTL, requests that miss the same session share one load, and at    *)
(* most MaxEntries are kept.  The sessions themselves are external (no      *)
(* loader of identity exists yet): one is valid until it is revoked, and a  *)
(* load keeps the deadline it is given.                                    *)
(***************************************************************************)
EXTENDS EdgeClock, FiniteSets, Functions

CONSTANTS Sessions, CacheTTL, MaxEntries

ASSUME PlayersAssumption == CacheTTL \in Nat \ {0} /\ MaxEntries \in Nat \ {0}

VARIABLES
  revoked,  \* revoked[s]: when session s was revoked, or Never
  entries,  \* cachedLoader.entries: each session cached, until when
  load,     \* load[s]: the load of singleflight for s
  call      \* call[c]: the call of LoadSession by client c

players == <<revoked, entries, load, call>>

Never  == -1
NoLoad == [pc |-> "none", start |-> 0, ok |-> FALSE]
NoCall == [pc |-> "idle", of |-> None, since |-> 0]

PlayersTypeOK ==
  /\ revoked \in [Sessions -> Nat \cup {Never}]
  /\ DOMAIN entries \subseteq Sessions /\ \A s \in DOMAIN entries : entries[s] \in Nat
  /\ load \in [Sessions -> [pc : {"none", "new", "query", "answer"}, start : Nat, ok : BOOLEAN]]
  /\ call \in [Clients -> [pc : {"idle", "miss", "wait", "served"}, of : Sessions \cup {None}, since : Nat]]

PlayersInit ==
  /\ revoked = [s \in Sessions |-> Never] /\ entries = <<>>
  /\ load = [s \in Sessions |-> NoLoad] /\ call = [c \in Clients |-> NoCall]

(* Somebody signs out everywhere, changes the password, is banned.         *)
Revoke(s) ==
  /\ plan.part = "players" /\ revoked[s] = Never /\ revoked' = [revoked EXCEPT ![s] = now]
  /\ UNCHANGED <<clock, entries, load, call>>

(* A look into the map: served, or on to the shared load.                  *)
LoadSession(c, s) ==
  LET hit == s \in DOMAIN entries /\ now < entries[s] IN
  /\ Arrival("players") /\ call[c] = NoCall
  /\ call' = [call EXCEPT ![c] = [pc |-> IF hit THEN "served" ELSE "miss", of |-> s, since |-> now]]
  /\ UNCHANGED <<revoked, entries, load>>
DoChan(c) ==
  LET s == call[c].of IN
  /\ call[c].pc = "miss" /\ call' = [call EXCEPT ![c].pc = "wait"]
  /\ load' = IF load[s] = NoLoad THEN [load EXCEPT ![s].pc = "new"] ELSE load
  /\ UNCHANGED <<clock, revoked, entries>>

(* The goroutine of the load: it reads the clock, asks the database, gives  *)
(* the answer to all who wait and keeps it.                                *)
Begin(s) ==
  /\ load[s].pc = "new" /\ load' = [load EXCEPT ![s].pc = "query", ![s].start = now]
  /\ UNCHANGED <<clock, revoked, entries, call>>
Query(s) ==
  /\ load[s].pc = "query" /\ load' = [load EXCEPT ![s].pc = "answer", ![s].ok = (revoked[s] = Never)]
  /\ UNCHANGED <<clock, revoked, entries, call>>

Answered(s, pc) ==
  call' = [c \in Clients |-> IF call[c].pc = "wait" /\ call[c].of = s
                               THEN IF pc = "idle" THEN NoCall ELSE [call[c] EXCEPT !.pc = pc]
                               ELSE call[c]]

(* The entry lives a TTL from the beginning of the load.                   *)
ExpiresFromEnd(s) == now + CacheTTL
Expires(s) == load[s].start + CacheTTL

(* put: with as many as MaxEntries, those that are over go; or else all.   *)
Fresh == {s \in DOMAIN entries : now < entries[s]}
Kept ==
  IF Cardinality(DOMAIN entries) < MaxEntries THEN DOMAIN entries
  ELSE IF Cardinality(Fresh) < MaxEntries THEN Fresh ELSE {}
PutEntry(s) ==
  entries' = IF now < Expires(s)
               THEN [q \in Kept \cup {s} |-> IF q = s THEN Expires(s) ELSE entries[q]]
               ELSE entries
Done(s) ==
  /\ load[s].pc = "answer" /\ load[s].ok /\ PutEntry(s) /\ Answered(s, "served")
  /\ load' = [load EXCEPT ![s] = NoLoad] /\ UNCHANGED <<clock, revoked>>

(* ErrSessionInvalid; or the database fails, the load panics, its deadline  *)
(* has come: nothing is kept.                                              *)
LoadFails(s) ==
  /\ load[s].pc \in {"query", "answer"} /\ (load[s].pc = "answer" => ~load[s].ok)
  /\ Answered(s, "idle") /\ load' = [load EXCEPT ![s] = NoLoad] /\ UNCHANGED <<clock, revoked, entries>>

(* The caller goes: with its answer, or because its own deadline came; the  *)
(* load goes on for the others.                                            *)
Leaves(c) ==
  /\ call[c].pc \in {"wait", "served"} /\ call' = [call EXCEPT ![c] = NoCall]
  /\ UNCHANGED <<clock, revoked, entries, load>>

(* The deadline of a load: it has answered or failed by then.              *)
InTime == \A s \in Sessions : load[s].pc \in {"query", "answer"} => now + Micro <= load[s].start + CacheTTL

PlayersNext ==
  \/ \E s \in Sessions : Revoke(s) \/ Begin(s) \/ Query(s) \/ Done(s) \/ LoadFails(s)
                         \/ \E c \in Clients : LoadSession(c, s)
  \/ \E c \in Clients : DoChan(c) \/ Leaves(c)

-----------------------------------------------------------------------------
(* A ban, "sign out everywhere", a new password hold after a TTL: a request *)
(* that came later is not served; and the map does not outgrow MaxEntries.  *)
ServedInTime ==
  /\ \A c \in Clients : call[c].pc = "served" /\ revoked[call[c].of] # Never =>
       call[c].since <= revoked[call[c].of] + CacheTTL
  /\ Cardinality(DOMAIN entries) <= MaxEntries
=============================================================================
