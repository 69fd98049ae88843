-------------------------------- MODULE Lists --------------------------------
(***************************************************************************)
(* The lists of the APIs, read page by page while rows come, change and go: *)
(* approvals, the audit log, employees, cities (platform/page, and List,    *)
(* Accounts, ListCities with their queries).  A page is one statement that  *)
(* asks for a row more than it shows; the cursor is the place of the last   *)
(* row shown.  at is requested_at, created_at, or the population of a city. *)
(***************************************************************************)
EXTENDS EdgeClock, Rights, Sequences, FiniteSetsExt, SequencesExt

CONSTANTS
  Ids,       \* bound: identifiers of rows
  Late,      \* bound: how long before its commit a transaction reads the clock
  LifeOfRow  \* the term of an approval

ASSUME ListsAssumption == Ids \subseteq Nat \ {0} /\ Late \in Nat /\ LifeOfRow \in Nat

VARIABLES
  list,   \* which list this is
  table,  \* its rows
  moved,  \* rows whose place in the order has changed, or that are gone
  walk,   \* the reader: the filter, the cursor, what was shown
  steady  \* rows that belong to the list asked for since the first page

lists == <<list, table, moved, walk, steady>>

Statuses(l) ==
  CASE l = "approvals" -> {"pending", "executed", "expired"}
    [] l = "audit"     -> {"written"}
    [] l = "accounts"  -> {"active", "disabled"}
    [] l = "cities"    -> {"live", "pilot"}
Lists == {"approvals", "audit", "accounts", "cities"}

NoWalk == [pc |-> "idle", filter |-> "", size |-> 1, after |-> <<>>, shown |-> <<>>, page |-> {}]

ListsTypeOK ==
  /\ list \in Lists \cup {None} /\ moved \subseteq Ids /\ steady \subseteq Ids
  /\ \A r \in table : r.id \in Ids /\ r.status \in Statuses(list)
  /\ walk.pc \in {"idle", "page", "done"} /\ walk.shown \in Seq(Ids)

ListsInit == list = None /\ table = {} /\ moved = {} /\ walk = NoWalk /\ steady = {}

-----------------------------------------------------------------------------
(* The order of each list, and the place of a row in it.                   *)
Rank(r) == IF list = "cities" /\ r.status # "live" THEN 1 ELSE 0
Place(r) == [rank |-> Rank(r), at |-> r.at, id |-> r.id]
TornPlaces(p, q) == p.at > q.at
NewestFirst(p, q) == p.at > q.at \/ (p.at = q.at /\ p.id > q.id)
CitiesFirst(p, q) ==
  p.rank < q.rank \/ (p.rank = q.rank /\ (p.at > q.at \/ (p.at = q.at /\ p.id < q.id)))
Ahead(p, q) == IF list = "cities" THEN CitiesFirst(p, q) ELSE NewestFirst(p, q)

(* The filter of ListApprovals: one whose time is over counts as expired    *)
(* whether or not the sweep has come to it; what the list says of it agrees. *)
Overdue(r, t) == r.status = "pending" /\ r.due <= t
WaitsInFilter(r, f, t) == f = "" \/ r.status = f
ApprovalIn(r, f, t) ==
  \/ f = ""
  \/ f = "pending" /\ r.status = "pending" /\ r.due > t
  \/ f = "expired" /\ (r.status = "expired" \/ Overdue(r, t))
  \/ f \notin {"pending", "expired"} /\ r.status = f
Effective(r, t) == IF Overdue(r, t) THEN "expired" ELSE r.status
Belongs(r, f, t) == IF list = "approvals" THEN ApprovalIn(r, f, t) ELSE f = "" \/ r.status = f
Said(r, t) == IF list = "approvals" THEN Effective(r, t) ELSE r.status

(* ORDER BY: no row comes after one it is ahead of.  A page has LIMIT       *)
(* size + 1, the row in excess is not shown.                               *)
InOrder(S) ==
  CHOOSE rows \in [1..Cardinality(S) -> S] :
    IsInjective(rows) /\ \A i, j \in DOMAIN rows : i < j => ~Ahead(Place(rows[j]), Place(rows[i]))
Found(f, after) == InOrder({r \in table : Belongs(r, f, now) /\ (after = <<>> \/ Ahead(after[1], Place(r)))})
CursorBeyond(rows, size) == <<Place(rows[size + 1])>>
Cursor(rows, size) == <<Place(rows[size])>>
Page(f, size, after) ==
  LET rows == Found(f, after)
      more == Len(rows) > size
      page == SubSeq(rows, 1, IF more THEN size ELSE Len(rows)) IN
  walk' = [pc |-> IF more THEN "page" ELSE "done", filter |-> f, size |-> size,
           after |-> IF more THEN Cursor(rows, size) ELSE <<>>,
           shown |-> walk.shown \o [i \in DOMAIN page |-> page[i].id],
           page |-> {[id |-> page[i].id, says |-> Said(page[i], now)] : i \in DOMAIN page}]

FirstPage(f, size) ==
  /\ Arrival("lists") /\ list # None /\ walk = NoWalk /\ Page(f, size, <<>>)
  /\ steady' = {r.id : r \in {s \in table : Belongs(s, f, now)}} /\ UNCHANGED <<list, table, moved>>
NextPage ==
  /\ walk.pc = "page" /\ Page(walk.filter, walk.size, walk.after)
  /\ UNCHANGED <<clock, list, table, moved, steady>>

-----------------------------------------------------------------------------
(* What others do meanwhile.  A row that stops belonging, or moves, is not  *)
(* promised to the reader any more.                                        *)
Still(T, t) == {i \in steady : \E r \in T : r.id = i /\ Belongs(r, walk.filter, t)}
Changed(T, m) == table' = T /\ moved' = m /\ steady' = Still(T, now) \ m /\ UNCHANGED <<list, walk>>

(* A transaction commits a row with the time it read before: a population   *)
(* is any.                                                                 *)
Insert(l, i, at, status) ==
  /\ Arrival("lists") /\ list \in {None, l} /\ i \notin {r.id : r \in table} \cup moved
  /\ status \in Statuses(l) /\ (l = "approvals" => status = "pending")
  /\ (l # "cities" => at <= now /\ now - at <= Late)
  /\ list' = l /\ table' = table \cup {[id |-> i, at |-> at, status |-> status, due |-> at + LifeOfRow]}
  /\ UNCHANGED <<moved, walk, steady>>

(* Decide, ExpireDueBatch, PurgeDecidedBatch.                              *)
With(r, status) == (table \ {r}) \cup {[r EXCEPT !.status = status]}
Settle(r) ==
  /\ list = "approvals" /\ r.status = "pending" /\ r.due > now /\ Arrival("lists")
  /\ Changed(With(r, "executed"), moved)
Expire(r) ==
  /\ list = "approvals" /\ Overdue(r, now) /\ Changed(With(r, "expired"), moved) /\ UNCHANGED clock
Purge(r) ==
  /\ list = "approvals" /\ r.status # "pending" /\ Arrival("lists") /\ Changed(table \ {r}, moved \cup {r.id})

(* An employee is disabled or back; a city opens, or an import counts its   *)
(* people again: it has another place.                                     *)
Switch(r, status) ==
  /\ list \in {"accounts", "cities"} /\ status \in Statuses(list) \ {r.status} /\ Arrival("lists")
  /\ Changed(With(r, status), IF list = "cities" THEN moved \cup {r.id} ELSE moved)
Recount(r, at) ==
  /\ list = "cities" /\ at # r.at /\ Arrival("lists")
  /\ Changed((table \ {r}) \cup {[r EXCEPT !.at = at]}, moved \cup {r.id})

ListsTick == steady' = Still(table, now') /\ UNCHANGED <<list, table, moved, walk>>

(* Nothing matters once the reader has come to the end.                    *)
ListsNext ==
  /\ walk.pc # "done"
  /\ \/ \E l \in Lists, i \in Ids, at \in {now, now - Late} : \E s \in Statuses(l) : Insert(l, i, at, s)
     \/ list # None /\ \E f \in Statuses(list) \cup {""}, size \in 1..2 : FirstPage(f, size)
     \/ NextPage
     \/ \E r \in table : \/ Settle(r) \/ Expire(r) \/ Purge(r) \/ Recount(r, r.at + Late)
                         \/ list # None /\ \E s \in Statuses(list) : Switch(r, s)

-----------------------------------------------------------------------------
(* A reader who goes to the end has seen every row that belonged to the     *)
(* list all the while, and none twice unless it moved; every page but the   *)
(* last is full; a row says it is what was asked for; and the rights in the *)
(* queries are the rights of the gate and of the scenarios.                *)
ListsWhole ==
  /\ walk.pc = "done" => steady \subseteq ToSet(walk.shown)
  /\ \A i, j \in DOMAIN walk.shown : i # j /\ walk.shown[i] = walk.shown[j] => walk.shown[i] \in moved
  /\ walk.pc = "page" => Len(walk.shown) % walk.size = 0
  /\ walk.filter # "" => \A p \in walk.page : p.says = walk.filter
  /\ plan.part = "lists" /\ list = None => RightsAgree
=============================================================================
