---------------------------- MODULE AdminCookies ----------------------------
(***************************************************************************)
(* The session layer of admin-api for cookies that stand for no session     *)
(* (backend/internal/httpapi/admin/session.go): the limit of the address    *)
(* is looked at (Over), then the cache of recent refusals, then the         *)
(* database; a refusal is remembered and counted in the same limit, on the  *)
(* row that RateLimit models.  A valid cookie, and one just replaced,       *)
(* changes nothing here.                                                   *)
(***************************************************************************)
EXTENDS RateLimit, Functions

CONSTANTS
  Cookies,  \* hashes of tokens no session stands behind
  NegTTL,
  MaxNeg

ASSUME CookiesAssumption == NegTTL \in Nat \ {0} /\ MaxNeg \in Nat \ {0}

VARIABLES
  visit,    \* visit[c]: the request of client c in the session layer
  until,    \* negCache.until: the hashes refused lately, each until when
  order,    \* negCache.order: the entries as they were put
  refusals  \* all that were put

cookies == <<visit, until, order, refusals>>

Away == [pc |-> "idle", key |-> None, since |-> 0, at |-> 0, row |-> NoRow]
Unread == -2
NegEntry == [key : Cookies, until : Nat]

CookiesTypeOK ==
  /\ visit \in [Clients -> [pc : {"idle", "over", "load", "put", "add"}, key : Cookies \cup {None},
                            since : Nat, at : Nat, row : Nat \cup {NoRow, Unread}]]
  /\ DOMAIN until \subseteq Cookies /\ \A k \in DOMAIN until : until[k] \in Nat
  /\ order \in Seq(NegEntry) /\ refusals \in Seq(NegEntry)

CookiesInit == visit = [c \in Clients |-> Away] /\ until = <<>> /\ order = <<>> /\ refusals = <<>>

Cached == <<until, order, refusals>>

(* Over reads the row, then the clock.                                     *)
Visit(c, k) ==
  /\ Arrival("cookies") /\ visit[c] = Away
  /\ visit' = [visit EXCEPT ![c] = [pc |-> "over", key |-> k, since |-> now, at |-> 0, row |-> tat]]
  /\ UNCHANGED <<limits, Cached>>
Over(row) == row # NoRow /\ row - now > Window - Interval
TooMany(c) ==
  /\ visit[c].pc = "over" /\ Over(visit[c].row)
  /\ visit' = [visit EXCEPT ![c] = Away] /\ UNCHANGED <<clock, limits, Cached>>

(* Past the limit, or with its store not available, to negCache.has: a hash *)
(* whose time is over leaves the map, its entry stays in the queue.        *)
Has(c, row) ==
  LET k == visit[c].key
      known == k \in DOMAIN until /\ now < until[k] IN
  /\ visit[c].pc = "over" /\ (row = Unread \/ (row = visit[c].row /\ ~Over(row)))
  /\ until' = IF known THEN until ELSE Restrict(until, DOMAIN until \ {k})
  /\ visit' = [visit EXCEPT ![c].pc = IF known THEN "add" ELSE "load", ![c].row = row, ![c].at = now]
  /\ UNCHANGED <<clock, limits, order, refusals>>

(* ErrSessionInvalid: put reads the clock before it takes the lock.        *)
Invalid(c) ==
  /\ visit[c].pc = "load" /\ visit' = [visit EXCEPT ![c].pc = "put", ![c].at = now]
  /\ UNCHANGED <<clock, limits, Cached>>

(* What goes with the first n entries of the queue: a hash whose entry it   *)
(* is, not one that was put again since.                                   *)
GoneAnyway(n) == {k \in DOMAIN until : \E i \in 1..n : order[i].key = k}
Gone(n) == {k \in DOMAIN until : \E i \in 1..n : order[i] = [key |-> k, until |-> until[k]]}
Enough(n, t) == n = Len(order) \/ (Cardinality(DOMAIN until \ Gone(n)) < MaxNeg /\ t < order[n + 1].until)
Popped(t) == CHOOSE n \in 0..Len(order) : Enough(n, t) /\ \A m \in 0..(n - 1) : ~Enough(m, t)
Put(c) ==
  LET n == Popped(visit[c].at)
      k == visit[c].key
      e == [key |-> k, until |-> visit[c].at + NegTTL] IN
  /\ visit[c].pc = "put"
  /\ until' = [q \in (DOMAIN until \ Gone(n)) \cup {k} |-> IF q = k THEN e.until ELSE until[q]]
  /\ order' = Append(SubSeq(order, n + 1, Len(order)), e)
  /\ refusals' = Append(refusals, e)
  /\ visit' = [visit EXCEPT ![c].pc = "add", ![c].at = now] /\ UNCHANGED <<clock, limits>>

(* Limiter.Add, its clock read at once: it spends whatever was spent before; *)
(* the cookie is erased.                                                   *)
Add(c) ==
  /\ visit[c].pc = "add" /\ Spends(visit[c].at, IF visit[c].row = Unread THEN "unchecked" ELSE "add") /\ visit' = [visit EXCEPT ![c] = Away]
  /\ UNCHANGED <<clock, asks, purge, told, Cached>>

(* The database fails: the loader's error ends the request, a refusal that  *)
(* could not be counted is only logged.                                    *)
VisitFails(c) == visit[c].pc \in {"load", "add"} /\ visit' = [visit EXCEPT ![c] = Away] /\ UNCHANGED <<clock, limits, Cached>>

CookiesNext == \E c \in Clients :
  \/ \E k \in Cookies : Visit(c, k)
  \/ TooMany(c) \/ \E row \in {visit[c].row, Unread} : Has(c, row)
  \/ Invalid(c) \/ Put(c) \/ Add(c) \/ VisitFails(c)

-----------------------------------------------------------------------------
(* The map and the queue agree: what is in the map will be evicted in its   *)
(* turn, and is no more than MaxNeg.                                       *)
QueueCovers ==
  /\ Cardinality(DOMAIN until) <= MaxNeg
  /\ \A k \in DOMAIN until : \E i \in DOMAIN order : order[i] = [key |-> k, until |-> until[k]]

(* A refusal is forgotten before its time only when other hashes were put   *)
(* MaxNeg times after it.                                                  *)
Remembered ==
  \A i \in DOMAIN refusals :
    LET e == refusals[i] IN
    /\ now < e.until /\ e.key \notin DOMAIN until
    /\ \A j \in 1..i - 1 : refusals[j] # e
    /\ \A j \in i + 1..Len(refusals) : refusals[j].key = e.key => refusals[j] = e
    => Cardinality({j \in i + 1..Len(refusals) : refusals[j].key # e.key}) >= MaxNeg
=============================================================================
