--------------------------- MODULE GeoImportProofs ---------------------------
(***************************************************************************)
(* Theorems about GeoImport for every source, every number of places,      *)
(* cities, regions and rows of the journal, and whatever the clocks show.  *)
(*                                                                         *)
(* A row is closed once because it is closed by who finds it open, and the *)
(* next one is opened only when none is (Journal).  What a transaction     *)
(* prepared stays true until its commit, because it alone writes (Writing) *)
(* and because cities keep the places they have (Linking).  That the share *)
(* of places was checked against the success that is the last one still at *)
(* the commit is Dated: while clocks agree, rows, starts and ends of       *)
(* successes are in one order.                                             *)
(*                                                                         *)
(* A request beside the imports adds up statements of different moments.   *)
(* What it was told at each of them is the truth of that moment            *)
(* (Answering); if nothing of it changed until the end, the moments agree. *)
(***************************************************************************)
EXTENDS GeoReads, FiniteSetTheorems, SequenceTheorems, WellFoundedInduction, TLAPS

Inside == {"mark", "gone", "match", "link"}
Parsed == {"check", "write"} \cup Inside

(* The journal: one open row, none before it is; what an import knows of   *)
(* its row and its source.                                                 *)
Journal ==
  /\ ClosedOnce
  /\ \A r \in Rows : journal[r].status \in {"none", "running"} => journal[r].error = ""
  /\ \A q, r \in Rows : q < r /\ journal[q].status = "none" => journal[r].status = "none"
  /\ \A q, r \in Rows : q < r /\ journal[r].status # "none" => ~Open(q)
Known(x) ==
  /\ exec[x].pc # "idle" =>
       /\ exec[x].row \in Rows /\ journal[exec[x].row].status # "none"
       /\ journal[exec[x].row].job = exec[x].job
       /\ exec[x].job = NoJob <=> x = Operator
  /\ exec[x].pc \in Parsed => exec[x].src \in Feeds /\ Admin1Refs(SetOf[exec[x].src])
  /\ exec[x].error = "rejected" => exec[x].src \in Feeds /\ Rejected(Given[exec[x].src])
  /\ exec[x].pc # "fail" => exec[x].error = ""

(* What a transaction has written it keeps: nobody else writes.            *)
Writing(x) ==
  /\ exec[x].pc \in Inside => writer = {x}
  /\ exec[x].pc \in {"gone", "match", "link"} => exec[x].held \subseteq Lost(x)
  /\ exec[x].pc \in {"match", "link"} =>
       exec[x].gone \subseteq Lost(x) /\ \A p \in Lost(x) \ exec[x].gone : ~Free(p)

(* The second part of WholeSources.                                        *)
Whole ==
  won # <<>> =>
    LET S == SetOf[Last(won)] IN
    /\ \A p \in DOMAIN S.places :
         /\ p \in DOMAIN places /\ places[p].names = S.places[p].names /\ ~places[p].missing
         /\ places[p].admin1 \in DOMAIN admin1 \cup {NoCode}
    /\ \A p \in DOMAIN places \ DOMAIN S.places : ~Free(p)
    /\ admin1 = S.admin1

(* The last success: the row opened last, and while clocks agree the one   *)
(* that ended last.                                                        *)
Brings(f) == Cardinality(DOMAIN SetOf[f].places)
LastRow(r) == r \in Succeeded(journal) /\ \A q \in Succeeded(journal) : q <= r
Counted ==
  /\ won = <<>> => Succeeded(journal) = {}
  /\ won # <<>> => \E r \in Rows : LastRow(r) /\ journal[r].places = Brings(Last(won))
Ordered ==
  /\ \A r \in Rows : journal[r].start <= now
  /\ \A r \in Succeeded(journal) : journal[r].start <= journal[r].fin /\ journal[r].fin <= now
  /\ \A q \in Succeeded(journal), r \in Rows :
       q < r /\ journal[r].status # "none" => journal[q].fin <= journal[r].start
Enough(f) == won # <<>> => Share(Brings(f), Brings(Last(won)))
Timely(x) ==
  Open(exec[x].row) =>
    /\ exec[x].pc \in Parsed => journal[exec[x].row].start <= exec[x].at /\ exec[x].at <= now
    /\ exec[x].pc \in Parsed \ {"check"} => Enough(exec[x].src)
Shares ==
  \A i \in 1..(Len(won) - 1) : Share(Brings(won[i + 1]), Brings(won[i]))
Dated ==
  /\ Counted
  /\ plan.skew = 0 => Ordered /\ Shares /\ \A x \in Execs : exec[x].pc # "idle" => Timely(x)

(* Links: a pair that is done or to do is the only one of its city and of  *)
(* its place; one that is done finds both still free.                      *)
Codes1(R) ==
  /\ \A q, r \in Regions : R[q].code = R[r].code /\ R[q].code # NoCode => q = r
  /\ \A r \in Regions : FirstCode[r] # NoCode => R[r].code = FirstCode[r]
Paired(x) ==
  /\ exec[x].said = exec[x].done
  /\ exec[x].pc # "link" => exec[x].done = {} /\ exec[x].todo = {}
  /\ \A m \in exec[x].done \cup exec[x].todo :
       RegionOf[m[1]] # NoRegion /\ m[2] \in DOMAIN Table(x)
  /\ \A m, n \in exec[x].done \cup exec[x].todo : m[1] = n[1] \/ m[2] = n[2] => m = n
  /\ \A m \in exec[x].done : ~ToTaken(m[1], m[2])
  /\ exec[x].pc = "link" => Codes1(exec[x].regions)
Linking ==
  /\ LinksTold
  /\ \A c \in Cities : city[c].version >= 1 /\ (city[c].place = NoPlace => city[c].version = 1)
  /\ \A c \in Cities : DOMAIN HandNames[c] \subseteq DOMAIN city[c].names

(* A job that may be taken has an attempt left.                            *)
Tried ==
  \A j \in Jobs :
    /\ job[j].state = "none" => job[j].tries = 0
    /\ job[j].state = "available" => job[j].tries < MaxAttempts

Inv ==
  /\ TypeOK /\ Tried /\ Journal /\ Whole /\ Dated /\ Linking
  /\ \A x \in Execs : Known(x) /\ Writing(x) /\ Paired(x)

-----------------------------------------------------------------------------
(* What a source brings has its types; names merge with names.             *)
LEMMA NamesType ==
  /\ \A f \in Names : DOMAIN f \subseteq Locales /\ f \in [DOMAIN f -> NameIds]
  /\ \A L \in SUBSET Locales : [L -> NameIds] \subseteq Names
  BY DEF Names

LEMMA NoNamesType == NoNames \in Names
<1>1. NoNames \in [{} -> NameIds]
  BY DEF NoNames
<1> QED
  BY <1>1, NamesType

LEMMA OverType == ASSUME NEW f \in Names, NEW g \in Names PROVE Over(f, g) \in Names
<1> DEFINE L == DOMAIN f \cup DOMAIN g
<1>1. L \in SUBSET Locales /\ f \in [DOMAIN f -> NameIds] /\ g \in [DOMAIN g -> NameIds]
  BY NamesType
<1>2. Over(f, g) \in [L -> NameIds]
  BY <1>1 DEF Over
<1> QED
  BY <1>1, <1>2, NamesType

LEMMA OverNothing == ASSUME NEW f \in Names PROVE Over(NoNames, f) = f
<1>1. f \in [DOMAIN f -> NameIds] /\ DOMAIN NoNames = {}
  BY NamesType DEF NoNames
<1> QED
  BY <1>1 DEF Over

LEMMA NamesOfType == ASSUME NEW f \in Feeds, NEW o PROVE NamesOf(Given[f], o) \in Names
<1> DEFINE s == Given[f]
           alts == {a \in s.alts : a.of = o}
           chosen(l) == ChooseName(alts, l, Fallback(l))
           L == {k \in Locales : chosen(k) # {}}
<1>1. \A a \in alts : a.id \in NameIds
  BY DEF NameIds
<1>2. \A pool : BestOf(pool) \subseteq {a.id : a \in pool}
  BY DEF BestOf
<1>3. ASSUME NEW l PROVE chosen(l) \subseteq NameIds
  <2>1. Fallback(l) \subseteq NameIds
    BY DEF Fallback, NameIds
  <2>2. \A pool \in SUBSET alts : BestOf(pool) \subseteq NameIds
    BY <1>1, <1>2
  <2> QED
    BY <2>1, <2>2 DEF ChooseName
<1>4. NamesOf(s, o) = [l \in L |-> CHOOSE n \in chosen(l) : TRUE]
  BY DEF NamesOf
<1>5. \A l \in L : (CHOOSE n \in chosen(l) : TRUE) \in NameIds
  BY <1>3
<1>6. NamesOf(s, o) \in [L -> NameIds]
  BY <1>4, <1>5
<1> QED
  BY <1>6, NamesType

PlaceRow == [admin1 : Codes \cup {NoCode}, pop : Nat, names : Names]
LEMMA SourceType ==
  ASSUME NEW f \in Feeds
  PROVE  /\ SetOf[f].places \in [PlacesOf(Given[f]) -> PlaceRow]
         /\ PlacesOf(Given[f]) \subseteq Places /\ IsFiniteSet(PlacesOf(Given[f]))
         /\ SetOf[f].admin1 \in [DOMAIN SetOf[f].admin1 -> Names]
         /\ DOMAIN SetOf[f].admin1 \subseteq Codes
         /\ Brings(f) \in Nat
<1> DEFINE s == Given[f]
<1>1. s.rows \in Seq(Row) /\ s.codes \subseteq Codes
  BY SourceAssumption
<1>2. /\ SetOf[f].places = [p \in PlacesOf(s) |-> [admin1 |-> RowOf(s, p).admin1, pop |-> RowOf(s, p).pop,
                                                   names |-> NamesOf(s, p)]]
      /\ SetOf[f].admin1 = [c \in s.codes |-> NamesOf(s, c)]
  BY DEF SetOf, Prepared
<1>3. Kept(s) \subseteq DOMAIN s.rows /\ \A i \in DOMAIN s.rows : s.rows[i] \in Row
  BY <1>1 DEF Kept
<1>4. FirstRows(s) \subseteq Row
  BY <1>3 DEF FirstRows
<1>5. \A p \in PlacesOf(s) : RowOf(s, p) \in FirstRows(s)
  BY DEF PlacesOf, RowOf
<1>6. \A p \in PlacesOf(s) : RowOf(s, p).admin1 \in Codes \cup {NoCode} /\ RowOf(s, p).pop \in Nat
  BY <1>4, <1>5 DEF Row
<1>7. SetOf[f].places \in [PlacesOf(s) -> PlaceRow]
  <2>1. \A p \in PlacesOf(s) : NamesOf(s, p) \in Names
    BY NamesOfType
  <2> HIDE DEF s
  <2> QED
    BY <1>2, <1>6, <2>1 DEF PlaceRow
<1>8. PlacesOf(s) \subseteq Places
  BY <1>4 DEF PlacesOf, Row
<1>9. IsFiniteSet(PlacesOf(s))
  <2> DEFINE K == {k \in Kept(s) : \A j \in Kept(s) : s.rows[j].id = s.rows[k].id => k <= j}
             Q == {q \in FirstRows(s) : q.zone}
             g == [k \in K |-> s.rows[k]]
             h == [q \in Q |-> q.id]
  <2>1. IsFiniteSet(DOMAIN s.rows)
    <3>1. DOMAIN s.rows = 1..Len(s.rows) /\ Len(s.rows) \in Int
      BY <1>1
    <3>2. IsFiniteSet(1..Len(s.rows))
      BY <3>1, FS_Interval
    <3> QED
      BY <3>1, <3>2
  <2>2. IsFiniteSet(K)
    BY <1>3, <2>1, FS_Subset
  <2>3. IsFiniteSet(FirstRows(s))
    <3>1. g \in Surjection(K, FirstRows(s))
      BY DEF FirstRows, Surjection
    <3> QED
      BY <2>2, <3>1, FS_Surjection
  <2>4. IsFiniteSet(Q)
    BY <2>3, FS_Subset
  <2>5. h \in Surjection(Q, PlacesOf(s))
    BY DEF PlacesOf, Surjection
  <2> QED
    BY <2>4, <2>5, FS_Surjection
<1>10. SetOf[f].admin1 \in [s.codes -> Names]
  BY <1>2, NamesOfType
<1>11. Brings(f) \in Nat
  BY <1>7, <1>9, FS_CardinalityType DEF Brings
<1> QED
  BY <1>1, <1>7, <1>8, <1>9, <1>10, <1>11

-----------------------------------------------------------------------------
(* The tables a transaction prepares: the rows of the source as it has     *)
(* them, the other places as they were, marked if held, without the gone.  *)
PlaceEntry == [admin1 : Codes \cup {NoCode}, pop : Nat, missing : BOOLEAN, names : Names]
TableType(T) == DOMAIN T \subseteq Places /\ \A p \in DOMAIN T : T[p] \in PlaceEntry
Entered(rows, p) ==
  [admin1 |-> rows[p].admin1, pop |-> rows[p].pop, missing |-> FALSE, names |-> rows[p].names]

LEMMA WritePlacesGives ==
  ASSUME TableType(places), NEW f \in Feeds
  PROVE  LET rows == SetOf[f].places
             T == WritePlaces(SetOf[f]) IN
         /\ DOMAIN T = DOMAIN rows \cup DOMAIN places
         /\ \A p \in DOMAIN rows : T[p] = Entered(rows, p) /\ T[p] \in PlaceEntry
         /\ \A p \in DOMAIN places \ DOMAIN rows : T[p] = places[p]
<1> DEFINE rows == SetOf[f].places
           D == DOMAIN rows \cup DOMAIN places
           U == ImportUpsertPlaces(places, rows)
           V == ImportDeletePlaceNames(U, DOMAIN rows)
           T == ImportInsertPlaceNames(V, rows)
           At0(p, n) == [admin1 |-> rows[p].admin1, pop |-> rows[p].pop, missing |-> FALSE, names |-> n]
<1>1. \A p \in DOMAIN rows : rows[p] \in PlaceRow
  BY SourceType
<1>2. \A p \in DOMAIN rows, n \in Names : At0(p, n) \in PlaceEntry
  BY <1>1 DEF PlaceRow, PlaceEntry
<1>3. \A p \in DOMAIN rows : rows[p].names \in Names
  BY <1>1 DEF PlaceRow
<1>4. /\ DOMAIN U = D
      /\ \A p \in DOMAIN rows : \E n \in Names : U[p] = At0(p, n)
      /\ \A p \in DOMAIN places \ DOMAIN rows : U[p] = places[p]
  <2>1. \A p \in DOMAIN places : places[p].names \in Names
    BY DEF TableType, PlaceEntry
  <2> HIDE DEF rows
  <2>2. \A p \in DOMAIN rows : \E n \in Names : U[p] = At0(p, n)
    <3> TAKE p \in DOMAIN rows
    <3> DEFINE n == IF p \in DOMAIN places THEN places[p].names ELSE NoNames
    <3>1. n \in Names
      BY <2>1, NoNamesType
    <3>2. U[p] = At0(p, n)
      BY DEF ImportUpsertPlaces, Over
    <3> QED
      BY <3>1, <3>2
  <2> QED
    BY <2>2 DEF ImportUpsertPlaces, Over
<1>5. /\ DOMAIN V = D
      /\ \A p \in DOMAIN rows : V[p] = At0(p, NoNames)
      /\ \A p \in DOMAIN places \ DOMAIN rows : V[p] = places[p]
  <2>1. DOMAIN V = D /\ \A p \in D : V[p] = IF p \in DOMAIN rows THEN [U[p] EXCEPT !.names = NoNames] ELSE U[p]
    BY <1>4 DEF ImportDeletePlaceNames
  <2>2. ASSUME NEW p \in DOMAIN rows PROVE V[p] = At0(p, NoNames)
    <3>1. PICK n \in Names : U[p] = At0(p, n)
      BY <1>4
    <3>2. V[p] = [At0(p, n) EXCEPT !.names = NoNames]
      BY <2>1, <3>1
    <3> HIDE DEF rows
    <3> QED
      BY <3>2
  <2> QED
    BY <1>4, <2>1, <2>2
<1>6. /\ DOMAIN T = D
      /\ \A p \in DOMAIN rows : T[p] = Entered(rows, p)
      /\ \A p \in DOMAIN places \ DOMAIN rows : T[p] = places[p]
  <2>1. DOMAIN T = D /\ \A p \in D : T[p] = IF p \in DOMAIN rows
                                          THEN [V[p] EXCEPT !.names = Over(@, rows[p].names)] ELSE V[p]
    BY <1>5 DEF ImportInsertPlaceNames
  <2>2. ASSUME NEW p \in DOMAIN rows PROVE T[p] = Entered(rows, p)
    <3>1. T[p] = [At0(p, NoNames) EXCEPT !.names = Over(@, rows[p].names)]
      BY <1>5, <2>1
    <3>2. Over(NoNames, rows[p].names) = rows[p].names
      BY <1>3, OverNothing
    <3> HIDE DEF rows, T
    <3>3. T[p] = At0(p, Over(NoNames, rows[p].names))
      BY <3>1
    <3> QED
      BY <3>2, <3>3 DEF Entered
  <2> QED
    BY <1>5, <2>1, <2>2
<1>7. T = WritePlaces(SetOf[f])
  BY DEF WritePlaces
<1>8. \A p \in DOMAIN rows : Entered(rows, p) \in PlaceEntry
  BY <1>2, <1>3 DEF Entered
<1> HIDE DEF rows, T
<1> QED
  BY <1>6, <1>7, <1>8 DEF rows

LEMMA WriteAdmin1Gives == ASSUME NEW f \in Feeds PROVE WriteAdmin1(SetOf[f]) = SetOf[f].admin1
<1> DEFINE N == SetOf[f].admin1
           C == DOMAIN N
           A == ImportUpsertAdmin1(ImportDeleteAdmin1Names(admin1), C)
           B == ImportDeleteStaleAdmin1(A, C)
<1>1. N \in [C -> Names]
  BY SourceType
<1>2. DOMAIN A = DOMAIN admin1 \cup C /\ \A c \in DOMAIN A : A[c] = NoNames
  BY DEF ImportUpsertAdmin1, ImportDeleteAdmin1Names, Over
<1> HIDE DEF A
<1>3. DOMAIN B = C /\ \A c \in C : B[c] = NoNames
  BY <1>2 DEF ImportDeleteStaleAdmin1, Without
<1> HIDE DEF B
<1>4. ImportInsertAdmin1Names(B, N) = [c \in C |-> Over(NoNames, N[c])]
  BY <1>3 DEF ImportInsertAdmin1Names
<1>5. \A c \in C : Over(NoNames, N[c]) = N[c]
  BY <1>1, OverNothing
<1>6. [c \in C |-> N[c]] = N
  BY <1>1
<1>7. WriteAdmin1(SetOf[f]) = ImportInsertAdmin1Names(B, N)
  BY DEF WriteAdmin1, A, B
<1> HIDE DEF N, C
<1> QED
  BY <1>4, <1>5, <1>6, <1>7 DEF N

LEMMA TableGives ==
  ASSUME TableType(places), NEW x \in Execs, exec[x].src \in Feeds,
         exec[x].held \subseteq Lost(x), exec[x].gone \subseteq Lost(x)
  PROVE  LET rows == Brought(x).places
             T == Table(x) IN
         /\ DOMAIN T = (DOMAIN rows \cup DOMAIN places) \ exec[x].gone
         /\ DOMAIN rows \subseteq DOMAIN T
         /\ \A p \in DOMAIN rows : T[p] = Entered(rows, p)
         /\ TableType(T)
<1> DEFINE rows == SetOf[exec[x].src].places
           W == WritePlaces(SetOf[exec[x].src])
           M == ImportMarkMissing(W, exec[x].held)
           T == ImportDeleteGone(M, exec[x].gone)
<1>1. rows = Brought(x).places /\ T = Table(x)
  BY DEF Brought, Table
<1>2. Lost(x) = DOMAIN places \ DOMAIN rows
  BY DEF Lost, Brought
<1>3. DOMAIN rows \subseteq Places
  BY SourceType
<1>4. /\ DOMAIN W = DOMAIN rows \cup DOMAIN places
      /\ \A p \in DOMAIN rows : W[p] = Entered(rows, p) /\ W[p] \in PlaceEntry
      /\ \A p \in DOMAIN places \ DOMAIN rows : W[p] = places[p]
  BY WritePlacesGives
<1> HIDE DEF W, rows
<1>5. TableType(W)
  BY <1>3, <1>4 DEF TableType
<1>6. /\ DOMAIN M = DOMAIN W
      /\ \A p \in DOMAIN rows : M[p] = Entered(rows, p)
      /\ \A p \in DOMAIN W : M[p] \in PlaceEntry
  <2>1. /\ DOMAIN M = DOMAIN W
        /\ \A p \in DOMAIN W : M[p] = IF p \in exec[x].held THEN [W[p] EXCEPT !.missing = TRUE] ELSE W[p]
    BY DEF ImportMarkMissing
  <2>2. \A p \in DOMAIN W : W[p] \in PlaceEntry /\ [W[p] EXCEPT !.missing = TRUE] \in PlaceEntry
    BY <1>5 DEF TableType, PlaceEntry
  <2> QED
    BY <1>2, <1>4, <2>1, <2>2
<1> HIDE DEF M
<1>7. /\ DOMAIN T = DOMAIN M \ exec[x].gone
      /\ \A p \in DOMAIN T : T[p] = M[p]
  BY DEF ImportDeleteGone, Without
<1> HIDE DEF T
<1>8. TableType(T)
  BY <1>5, <1>6, <1>7 DEF TableType
<1> QED
  BY <1>1, <1>2, <1>4, <1>6, <1>7, <1>8

-----------------------------------------------------------------------------
(* What the statements on the journal do to a row.                         *)
Journals == [Rows -> Entry]
Whys == {"", "rejected", "other"}
Tolds == [Rows -> Seq({"succeeded", "failed"})]
Evidences == SUBSET (Feeds \X DOMAIN Files)
Restarted(entry, t) == [entry EXCEPT !.start = t]
Stale(entry, t) == [entry EXCEPT !.status = "failed", !.fin = t, !.error = "stale"]
Opened(entry, t, j) == [entry EXCEPT !.status = "running", !.start = t, !.job = j]
Failed(entry, t, S, error) ==
  [entry EXCEPT !.status = "failed", !.fin = t, !.error = error, !.files = IF S = {} THEN entry.files ELSE S]

LEMMA RestartGives ==
  ASSUME NEW J \in Journals, NEW r \in Rows, NEW t \in Nat
  PROVE  LET K == ImportRestart(J, r, t) IN
         /\ K \in Journals
         /\ \A q \in Rows \ {r} : K[q] = J[q]
         /\ K[r] = Restarted(J[r], t)
  BY DEF Journals, ImportRestart, Entry, Restarted

LEMMA FailStaleGives ==
  ASSUME NEW J \in Journals, NEW S \in SUBSET Rows, NEW t \in Nat
  PROVE  LET K == ImportFailStale(J, S, t) IN
         /\ K \in Journals
         /\ \A q \in Rows \ S : K[q] = J[q]
         /\ \A q \in S : K[q] = Stale(J[q], t)
<1> DEFINE K == ImportFailStale(J, S, t)
<1>1. \A q \in Rows : J[q] \in Entry
  BY DEF Journals
<1>2. ASSUME NEW e \in Entry PROVE Stale(e, t) \in Entry
  BY DEF Entry, Stale
<1>3. K = [q \in Rows |-> IF q \in S THEN Stale(J[q], t) ELSE J[q]]
  BY DEF Journals, ImportFailStale, Stale
<1>4. K \in Journals
  BY <1>1, <1>2, <1>3 DEF Journals
<1> QED
  BY <1>3, <1>4

LEMMA StartGives ==
  ASSUME NEW J \in Journals, NEW r \in Rows, NEW t \in Nat, NEW j \in Jobs \cup {NoJob}
  PROVE  LET K == ImportStart(J, r, t, j) IN
         /\ K \in Journals
         /\ \A q \in Rows \ {r} : K[q] = J[q]
         /\ K[r] = Opened(J[r], t, j)
<1> DEFINE e == [J[r] EXCEPT !.status = "running", !.start = t, !.job = j]
<1>1. J[r] \in Entry
  BY DEF Journals
<1>2. e \in Entry
  BY <1>1 DEF Entry
<1>3. ImportStart(J, r, t, j) = [J EXCEPT ![r] = e]
  BY DEF Journals, ImportStart
<1> HIDE DEF e
<1> QED
  BY <1>2, <1>3 DEF Journals, e, Opened

LEMMA FailGives ==
  ASSUME NEW J \in Journals, NEW r \in Rows, NEW t \in Nat, NEW S \in Evidences,
         NEW error \in Whys
  PROVE  LET K == ImportFail(J, r, t, S, error) IN
         /\ K \in Journals
         /\ \A q \in Rows \ {r} : K[q] = J[q]
         /\ K[r] = Failed(J[r], t, S, error)
<1> DEFINE e == [J[r] EXCEPT !.status = "failed", !.fin = t, !.error = error,
                             !.files = IF S = {} THEN J[r].files ELSE S]
<1>1. J[r] \in Entry
  BY DEF Journals
<1>2. e \in Entry
  BY <1>1 DEF Entry, Evidences, Whys
<1>3. ImportFail(J, r, t, S, error) = [J EXCEPT ![r] = e]
  BY DEF Journals, ImportFail
<1> HIDE DEF e
<1> QED
  BY <1>2, <1>3 DEF Journals, e, Failed

Succeeds(entry, t, f, n) ==
  [entry EXCEPT !.status = "succeeded", !.fin = t, !.places = n, !.files = {<<f, i>> : i \in DOMAIN Files}]
LEMMA SucceedGives ==
  ASSUME NEW J \in Journals, NEW r \in Rows, NEW t \in Nat, NEW f \in Feeds, NEW n \in Nat
  PROVE  LET K == ImportSucceed(J, r, t, f, n) IN
         /\ K \in Journals
         /\ \A q \in Rows \ {r} : K[q] = J[q]
         /\ K[r] = Succeeds(J[r], t, f, n)
<1> DEFINE S == {<<f, i>> : i \in DOMAIN Files}
<1>1. S \in Evidences
  BY DEF Evidences
<1>2. ImportSucceed(J, r, t, f, n) =
        [J EXCEPT ![r].status = "succeeded", ![r].fin = t, ![r].places = n, ![r].files = S]
  BY DEF ImportSucceed
<1> DEFINE e == [J[r] EXCEPT !.status = "succeeded", !.fin = t, !.places = n, !.files = S]
<1> HIDE DEF S
<1>3. J[r] \in Entry
  BY DEF Journals
<1>4. e \in Entry
  BY <1>1, <1>3 DEF Entry, Evidences
<1>5. ImportSucceed(J, r, t, f, n) = [J EXCEPT ![r] = e]
  BY <1>2 DEF Journals
<1> HIDE DEF e
<1> QED
  BY <1>4, <1>5 DEF Journals, e, S, Succeeds

LEMMA IdleType == Idle \in Import
<1>1. NoRegions \in [Regions -> [code : Codes \cup {NoCode}, names : Names]]
  BY NoNamesType DEF NoRegions
<1> HIDE DEF NoRegions
<1> QED
  BY <1>1 DEF Idle, Import

(* Imports that write nothing change only their own memory.                *)
Others(x) == \A y \in Execs \ {x} : exec'[y] = exec[y]
Keeps(x) ==
  /\ Others(x) /\ exec'[x].job = exec[x].job /\ exec'[x].row = exec[x].row /\ exec'[x].begun = exec[x].begun

GaveUp(x, f, w) == [Idle EXCEPT !.pc = "fail", !.job = exec[x].job, !.row = exec[x].row,
                                !.begun = exec[x].begun, !.src = f, !.error = w]
LEMMA GivesGives ==
  ASSUME TypeOK, NEW x \in Execs, NEW f \in Feeds \cup {NoFeed}, NEW w \in {"", "rejected", "other"},
         GivesFor(x, f, w)
  PROVE  /\ exec' \in [Execs -> Import] /\ Keeps(x)
         /\ exec'[x] = GaveUp(x, f, w)
<1>1. exec \in [Execs -> Import] /\ exec[x] \in Import /\ Idle \in Import
  BY IdleType DEF TypeOK
<1>2. exec' = [exec EXCEPT ![x] = [Idle EXCEPT !.pc = "fail", !.job = exec[x].job, !.row = exec[x].row,
                                    !.begun = exec[x].begun, !.src = f, !.error = w]]
  BY DEF GivesFor
<1> DEFINE e == [Idle EXCEPT !.pc = "fail", !.job = exec[x].job, !.row = exec[x].row,
                             !.begun = exec[x].begun, !.src = f, !.error = w]
<1>3. e \in Import /\ e.job = exec[x].job /\ e.row = exec[x].row /\ e.begun = exec[x].begun
  BY <1>1 DEF Import
<1> HIDE DEF e
<1>4. exec' = [exec EXCEPT ![x] = e]
  BY <1>2 DEF e
<1>5. exec' \in [Execs -> Import] /\ Keeps(x) /\ exec'[x] = e
  BY <1>1, <1>3, <1>4 DEF Keeps, Others
<1> QED
  BY <1>5 DEF e, GaveUp

LEMMA Sets ==
  ASSUME TypeOK, NEW x \in Execs, NEW e \in Import, exec' = [exec EXCEPT ![x] = e]
  PROVE  exec' \in [Execs -> Import] /\ Others(x) /\ exec'[x] = e
  BY DEF TypeOK, Others

LEMMA ClockType == ASSUME TypeOK, NEW x PROVE Clock(x) \in Nat /\ (plan.skew = 0 => Clock(x) = now)
<1>1. plan \in Plans /\ now \in Nat
  BY DEF TypeOK
<1>2. plan.skew \in Nat
  BY <1>1, GeoAssumption
<1> QED
  BY <1>1, <1>2 DEF Clock

LEMMA FetchGives ==
  ASSUME TypeOK, NEW x \in Execs, NEW f \in Feeds, Fetch(x, f)
  PROVE  /\ exec' \in [Execs -> Import] /\ Keeps(x)
         /\ \/ /\ exec'[x] = [exec[x] EXCEPT !.pc = "check", !.src = f, !.at = Clock(x)]
               /\ Admin1Refs(SetOf[f])
            \/ \E w \in {"rejected", "other"} :
                 /\ exec'[x] = GaveUp(x, f, w)
                 /\ w = "rejected" => Rejected(Given[f])
<1>1. CASE exec' = [exec EXCEPT ![x].pc = "check", ![x].src = f, ![x].at = Clock(x)] /\ Admin1Refs(SetOf[f])
  <2> DEFINE e == [exec[x] EXCEPT !.pc = "check", !.src = f, !.at = Clock(x)]
  <2>1. exec \in [Execs -> Import] /\ exec[x] \in Import
    BY DEF TypeOK
  <2>2. Clock(x) \in Nat
    BY ClockType
  <2> HIDE DEF Import
  <2>3. exec' = [exec EXCEPT ![x] = e]
    BY <1>1, <2>1
  <2>4. e \in Import /\ e.job = exec[x].job /\ e.row = exec[x].row /\ e.begun = exec[x].begun
    BY <2>1, <2>2 DEF Import
  <2> HIDE DEF e
  <2>5. exec' \in [Execs -> Import] /\ Keeps(x) /\ exec'[x] = e
    BY <2>3, <2>4, Sets DEF Keeps
  <2> QED
    BY <1>1, <2>5 DEF e
<1>2. CASE \E w \in {"rejected", "other"} : GivesFor(x, f, w) /\ (w = "rejected" => Rejected(Given[f]))
  <2>1. PICK w \in {"rejected", "other"} : GivesFor(x, f, w) /\ (w = "rejected" => Rejected(Given[f]))
    BY <1>2
  <2>0. f \in Feeds \cup {NoFeed} /\ w \in {"", "rejected", "other"}
    OBVIOUS
  <2>2. exec' \in [Execs -> Import] /\ Keeps(x)
    BY <2>0, <2>1, GivesGives
  <2>3. exec'[x] = GaveUp(x, f, w)
    BY <2>0, <2>1, GivesGives
  <2> QED
    BY <2>1, <2>2, <2>3
<1> QED
  BY <1>1, <1>2 DEF Fetch

LEMMA GoesGives ==
  ASSUME TypeOK, NEW x \in Execs, NEW pc \in {"write", "mark"}, Goes(x, pc)
  PROVE  exec' \in [Execs -> Import] /\ Keeps(x) /\ exec'[x] = [exec[x] EXCEPT !.pc = pc]
<1> DEFINE e == [exec[x] EXCEPT !.pc = pc]
<1>1. exec \in [Execs -> Import] /\ exec[x] \in Import
  BY DEF TypeOK
<1>2. exec' = [exec EXCEPT ![x] = e]
  BY <1>1 DEF Goes
<1>3. e \in Import /\ e.job = exec[x].job /\ e.row = exec[x].row /\ e.begun = exec[x].begun
  BY <1>1 DEF Import
<1> HIDE DEF e
<1>4. exec' \in [Execs -> Import] /\ Keeps(x) /\ exec'[x] = e
  BY <1>2, <1>3, Sets DEF Keeps
<1> QED
  BY <1>4 DEF e

LEMMA MarkGives ==
  ASSUME TypeOK, NEW x \in Execs, MarkMissing(x)
  PROVE  /\ exec' \in [Execs -> Import] /\ Keeps(x)
         /\ exec'[x] = [exec[x] EXCEPT !.pc = "gone", !.held = {p \in Lost(x) : ~Free(p)}]
<1> DEFINE H == {p \in Lost(x) : ~Free(p)}
           e == [exec[x] EXCEPT !.pc = "gone", !.held = H]
<1>1. exec \in [Execs -> Import] /\ exec[x] \in Import
  BY DEF TypeOK
<1>2. H \subseteq Places
  BY DEF TypeOK, Lost
<1>3. exec' = [exec EXCEPT ![x].pc = "gone", ![x].held = H]
  BY DEF MarkMissing
<1> HIDE DEF H
<1>4. exec' = [exec EXCEPT ![x] = e]
  BY <1>1, <1>3
<1>5. e \in Import /\ e.job = exec[x].job /\ e.row = exec[x].row /\ e.begun = exec[x].begun
  BY <1>1, <1>2 DEF Import
<1> HIDE DEF e
<1>6. exec' \in [Execs -> Import] /\ Keeps(x) /\ exec'[x] = e
  BY <1>4, <1>5, Sets DEF Keeps
<1> QED
  BY <1>6 DEF e, H

LEMMA GoneGives ==
  ASSUME TypeOK, NEW x \in Execs, DeleteGone(x)
  PROVE  /\ exec' \in [Execs -> Import] /\ Keeps(x)
         /\ exec'[x] = [exec[x] EXCEPT !.pc = "match", !.gone = {p \in Lost(x) : Free(p)}]
<1> DEFINE H == {p \in Lost(x) : Free(p)}
           e == [exec[x] EXCEPT !.pc = "match", !.gone = H]
<1>1. exec \in [Execs -> Import] /\ exec[x] \in Import
  BY DEF TypeOK
<1>2. H \subseteq Places
  BY DEF TypeOK, Lost
<1>3. exec' = [exec EXCEPT ![x].pc = "match", ![x].gone = H]
  BY DEF DeleteGone
<1> HIDE DEF H
<1>4. exec' = [exec EXCEPT ![x] = e]
  BY <1>1, <1>3
<1>5. e \in Import /\ e.job = exec[x].job /\ e.row = exec[x].row /\ e.begun = exec[x].begun
  BY <1>1, <1>2 DEF Import
<1> HIDE DEF e
<1>6. exec' \in [Execs -> Import] /\ Keeps(x) /\ exec'[x] = e
  BY <1>4, <1>5, Sets DEF Keeps
<1> QED
  BY <1>6 DEF e, H

RegionTable == [Regions -> [code : Codes \cup {NoCode}, names : Names]]
LEMMA ReconcileGives ==
  ASSUME TypeOK, NEW x \in Execs, Reconcile(x)
  PROVE  /\ exec' \in [Execs -> Import] /\ Keeps(x)
         /\ exec'[x] = [exec[x] EXCEPT !.pc = "link", !.todo = MatchesOf(Candidates(x)), !.regions = region]
<1> DEFINE H == MatchesOf(Candidates(x))
           e == [exec[x] EXCEPT !.pc = "link", !.todo = H, !.regions = region]
<1>1. exec \in [Execs -> Import] /\ exec[x] \in Import /\ region \in RegionTable
  BY DEF TypeOK, RegionTable
<1>2. H \subseteq CalledLike
  BY DEF MatchesOf
<1>3. exec' = [exec EXCEPT ![x].pc = "link", ![x].todo = H, ![x].regions = region]
  BY DEF Reconcile
<1> HIDE DEF H
<1>4. exec' = [exec EXCEPT ![x] = e]
  BY <1>1, <1>3
<1>5. e \in Import /\ e.job = exec[x].job /\ e.row = exec[x].row /\ e.begun = exec[x].begun
  BY <1>1, <1>2 DEF Import, RegionTable
<1> HIDE DEF e
<1>6. exec' \in [Execs -> Import] /\ Keeps(x) /\ exec'[x] = e
  BY <1>4, <1>5, Sets DEF Keeps
<1> QED
  BY <1>6 DEF e, H

LEMMA ConflictGives ==
  ASSUME TypeOK, NEW x \in Execs, NEW c, NEW p, Conflict(x, c, p)
  PROVE  /\ exec' \in [Execs -> Import] /\ Keeps(x)
         /\ exec'[x] = [exec[x] EXCEPT !.todo = exec[x].todo \ {<<c, p>>}]
<1> DEFINE H == exec[x].todo \ {<<c, p>>}
           e == [exec[x] EXCEPT !.todo = H]
<1>1. exec \in [Execs -> Import] /\ exec[x] \in Import
  BY DEF TypeOK
<1>2. H \subseteq CalledLike
  BY <1>1 DEF Import
<1>3. exec' = [exec EXCEPT ![x].todo = H]
  BY <1>1 DEF Conflict
<1> HIDE DEF H
<1>4. exec' = [exec EXCEPT ![x] = e]
  BY <1>1, <1>3
<1>5. e \in Import /\ e.job = exec[x].job /\ e.row = exec[x].row /\ e.begun = exec[x].begun
  BY <1>1, <1>2 DEF Import
<1> HIDE DEF e
<1>6. exec' \in [Execs -> Import] /\ Keeps(x) /\ exec'[x] = e
  BY <1>4, <1>5, Sets DEF Keeps
<1> QED
  BY <1>6 DEF e, H

(* A link gives the region its code only if no region has it, and only     *)
(* names it lacks.                                                         *)
LEMMA TranslationsGives ==
  ASSUME NEW have \in Names, NEW given \in Names
  PROVE  LET T == Translations(have, given) IN
         /\ T \in Names
         /\ DOMAIN have \subseteq DOMAIN T
         /\ \A l \in DOMAIN have : T[l] = have[l]
<1> DEFINE L == DOMAIN given \ {CountryLocale}
           g == [l \in L |-> given[l]]
<1>1. given \in [DOMAIN given -> NameIds] /\ DOMAIN given \subseteq Locales
  BY NamesType
<1>2. g \in [L -> NameIds] /\ L \in SUBSET Locales
  BY <1>1
<1>3. g \in Names
  BY <1>2, NamesType
<1>4. Translations(have, given) = Over(have, g)
  BY DEF Translations
<1> HIDE DEF g
<1>5. /\ DOMAIN have \subseteq DOMAIN Over(have, g)
      /\ \A l \in DOMAIN have : Over(have, g)[l] = have[l]
  BY DEF Over
<1> QED
  BY <1>3, <1>4, <1>5, OverType

LEMMA LinkRegionGives ==
  ASSUME NEW R \in RegionTable, NEW r \in Regions, NEW code \in Codes \cup {NoCode}
  PROVE  LET Q == ImportLinkRegion(R, r, code) IN
         /\ Q \in RegionTable
         /\ Codes1(R) => Codes1(Q)
<1> DEFINE Q == ImportLinkRegion(R, r, code)
<1>1. \A q \in Regions : R[q].code \in Codes \cup {NoCode}
  BY DEF RegionTable
<1>2. CASE Q = R
  BY <1>2
<1>3. CASE /\ R[r].code = NoCode /\ \A q \in Regions : R[q].code # code
           /\ Q = [R EXCEPT ![r].code = code]
  <2>1. Q \in RegionTable /\ Q[r].code = code /\ \A q \in Regions \ {r} : Q[q] = R[q]
    BY <1>3 DEF RegionTable
  <2> QED
    BY <1>1, <1>3, <2>1 DEF Codes1
<1> QED
  BY <1>2, <1>3 DEF ImportLinkRegion

LEMMA RegionNamesGives ==
  ASSUME NEW R \in RegionTable, NEW r \in Regions, NEW code, NEW A, \A k \in DOMAIN A : A[k] \in Names
  PROVE  LET Q == ImportRegionNamesFromAdmin1(R, A, r, code) IN
         /\ Q \in RegionTable
         /\ Codes1(R) => Codes1(Q)
<1> DEFINE Q == ImportRegionNamesFromAdmin1(R, A, r, code)
<1>1. CASE Q = R
  BY <1>1
<1>2. CASE code \in DOMAIN A /\ Q = [R EXCEPT ![r].names = Translations(@, A[code])]
  <2> DEFINE n == Translations(R[r].names, A[code])
  <2>1. R[r].names \in Names
    BY DEF RegionTable
  <2>2. n \in Names
    BY <1>2, <2>1, TranslationsGives
  <2>3. Q = [R EXCEPT ![r].names = n]
    BY <1>2 DEF RegionTable
  <2> HIDE DEF n
  <2>4. Q \in RegionTable /\ \A q \in Regions : Q[q].code = R[q].code
    BY <2>2, <2>3 DEF RegionTable
  <2> QED
    BY <2>4 DEF Codes1
<1> QED
  BY <1>1, <1>2 DEF ImportRegionNamesFromAdmin1

LEMMA LinkedRegionGives ==
  ASSUME NEW x \in Execs, NEW c \in Cities, NEW code \in Codes \cup {NoCode},
         exec[x].regions \in RegionTable, exec[x].src \in Feeds, RegionOf[c] # NoRegion
  PROVE  /\ LinkedRegion(x, c, code) \in RegionTable
         /\ Codes1(exec[x].regions) => Codes1(LinkedRegion(x, c, code))
<1> DEFINE R == ImportLinkRegion(exec[x].regions, RegionOf[c], code)
           A == WriteAdmin1(Brought(x))
<1>1. RegionOf[c] \in Regions
  BY TablesAssumption
<1>2. \A k \in DOMAIN A : A[k] \in Names
  BY WriteAdmin1Gives, SourceType DEF Brought
<1>3. R \in RegionTable /\ (Codes1(exec[x].regions) => Codes1(R))
  BY <1>1, LinkRegionGives
<1>4. LinkedRegion(x, c, code) = ImportRegionNamesFromAdmin1(R, A, RegionOf[c], code)
  BY DEF LinkedRegion
<1> HIDE DEF R, A
<1> QED
  BY <1>1, <1>2, <1>3, <1>4, RegionNamesGives

LEMMA LinkGives ==
  ASSUME Inv, NEW x \in Execs, NEW c \in Cities, NEW p \in Places, Link(x, c, p)
  PROVE  LET R == LinkedRegion(x, c, Table(x)[p].admin1) IN
         /\ exec' \in [Execs -> Import] /\ Keeps(x)
         /\ exec'[x] = [exec[x] EXCEPT !.todo = exec[x].todo \ {<<c, p>>}, !.done = exec[x].done \cup {<<c, p>>},
                                       !.said = exec[x].said \cup {<<c, p>>}, !.regions = R]
         /\ Codes1(R)
<1> DEFINE R == LinkedRegion(x, c, Table(x)[p].admin1)
           D == exec[x].todo \ {<<c, p>>}
           E == exec[x].done \cup {<<c, p>>}
           S == exec[x].said \cup {<<c, p>>}
           e == [exec[x] EXCEPT !.todo = D, !.done = E, !.said = S, !.regions = R]
<1>1. TypeOK /\ exec \in [Execs -> Import] /\ exec[x] \in Import
  BY DEF Inv, TypeOK
<1>2. exec[x].pc = "link" /\ <<c, p>> \in exec[x].todo
  BY DEF Link, At
<1>3. Paired(x) /\ Writing(x) /\ Known(x) /\ TableType(places)
  BY DEF Inv, TypeOK, TableType, PlaceEntry
<1>4. RegionOf[c] # NoRegion /\ p \in DOMAIN Table(x) /\ Codes1(exec[x].regions)
  BY <1>2, <1>3 DEF Paired
<1>5. exec[x].src \in Feeds /\ exec[x].held \subseteq Lost(x) /\ exec[x].gone \subseteq Lost(x)
  BY <1>2, <1>3 DEF Known, Writing, Parsed, Inside
<1>6. TableType(Table(x))
  BY <1>3, <1>5, TableGives
<1>7. Table(x)[p].admin1 \in Codes \cup {NoCode}
  BY <1>4, <1>6 DEF TableType, PlaceEntry
<1>8. exec[x].regions \in RegionTable
  BY <1>1 DEF Import, RegionTable
<1>9. R \in RegionTable /\ Codes1(R)
  BY <1>4, <1>5, <1>7, <1>8, LinkedRegionGives
<1>10. D \subseteq CalledLike /\ E \subseteq CalledLike /\ S \subseteq CalledLike
  BY <1>1, <1>2 DEF Import
<1>11. exec' = [exec EXCEPT ![x].todo = D, ![x].done = E, ![x].said = S, ![x].regions = R]
  BY <1>1 DEF Link
<1> HIDE DEF D, E, S, R
<1>12. exec' = [exec EXCEPT ![x] = e]
  BY <1>1, <1>11
<1>13. e \in Import /\ e.job = exec[x].job /\ e.row = exec[x].row /\ e.begun = exec[x].begun
  BY <1>1, <1>9, <1>10 DEF Import, RegionTable
<1> HIDE DEF e
<1>14. exec' \in [Execs -> Import] /\ Keeps(x) /\ exec'[x] = e
  BY <1>1, <1>12, <1>13, Sets DEF Keeps
<1> QED
  BY <1>9, <1>14 DEF e, D, E, S, R

-----------------------------------------------------------------------------
(* What a commit makes of the tables.                                      *)
CityRow == [place : Places \cup {NoPlace}, version : Nat, names : Names]
CityTable == [Cities -> CityRow]
Linkeds == [Cities -> Seq([place : Places, version : Nat])]
LinkedCity(row, p, names) ==
  [place |-> p, version |-> row.version + 1, names |-> Translations(row.names, names)]
Told(c, p) == [place |-> p, version |-> city[c].version + 1]

LEMMA CityGives ==
  ASSUME NEW C \in CityTable, NEW c \in Cities, NEW p \in Places, NEW names \in Names
  PROVE  LET row == ImportCityNamesFromPlace(ImportLinkCity(C, c, p), c, names)[c] IN
         row = LinkedCity(C[c], p, names) /\ row \in CityRow
<1> DEFINE D == ImportLinkCity(C, c, p)
           t == Translations(C[c].names, names)
           e == [place |-> p, version |-> C[c].version + 1, names |-> C[c].names]
<1>1. C[c] \in CityRow /\ C[c].names \in Names /\ C[c].version \in Nat
  BY DEF CityTable, CityRow
<1>2. t \in Names
  BY <1>1, TranslationsGives
<1>3. D \in CityTable /\ D[c] = e
  <2>1. e \in CityRow
    BY <1>1 DEF CityRow
  <2>2. D = [C EXCEPT ![c].place = p, ![c].version = C[c].version + 1]
    BY <1>1 DEF ImportLinkCity, CityTable
  <2>3. D = [C EXCEPT ![c] = e]
    BY <1>1, <2>2 DEF CityTable, CityRow
  <2> HIDE DEF e, D
  <2> QED
    BY <2>1, <2>3 DEF CityTable
<1>4. Translations(D[c].names, names) = t
  BY <1>3
<1> DEFINE g == [place |-> p, version |-> C[c].version + 1, names |-> t]
<1>5. g \in CityRow /\ g = LinkedCity(C[c], p, names)
  BY <1>1, <1>2 DEF CityRow, LinkedCity
<1>6. ImportCityNamesFromPlace(D, c, names) = [D EXCEPT ![c].names = Translations(D[c].names, names)]
  BY DEF ImportCityNamesFromPlace
<1> HIDE DEF D, t
<1>7. [D EXCEPT ![c].names = t][c] = g
  BY <1>3 DEF CityTable, CityRow
<1> HIDE DEF g
<1> QED
  BY <1>4, <1>5, <1>6, <1>7 DEF D

LEMMA CommitGives ==
  ASSUME Inv, NEW x \in Execs, Ready(x), StillMine(x), Commits(x)
  PROVE  LET f == exec[x].src
             r == exec[x].row
             D == exec[x].done IN
         /\ f \in Feeds /\ r \in Rows /\ Open(r) /\ writer = {x} /\ writer' = {} /\ won' = Append(won, f)
         /\ journal' \in Journals
         /\ \A q \in Rows \ {r} : journal'[q] = journal[q]
         /\ journal'[r] = Succeeds(journal[r], exec[x].at, f, Brings(f))
         /\ told' = [told EXCEPT ![r] = Append(@, "succeeded")]
         /\ places' = Table(x) /\ TableType(places')
         /\ admin1' = SetOf[f].admin1
         /\ region' = exec[x].regions
         /\ city' \in CityTable
         /\ \A c \in Cities : (\A m \in D : m[1] # c) => city'[c] = city[c] /\ linked'[c] = linked[c]
         /\ \A m \in D : /\ city'[m[1]] = LinkedCity(city[m[1]], m[2], Table(x)[m[2]].names)
                         /\ linked'[m[1]] = Append(linked[m[1]], Told(m[1], m[2]))
                         /\ Table(x)[m[2]].names \in Names
         /\ linked' \in Linkeds
<1> DEFINE f == exec[x].src
           r == exec[x].row
           D == exec[x].done
           T == Table(x)
<1>1. TypeOK /\ Known(x) /\ Writing(x) /\ Paired(x) /\ exec[x].pc = "link" /\ exec[x].todo = {}
  BY DEF Inv, Ready, At
<1>2. f \in Feeds /\ r \in Rows /\ Open(r) /\ writer = {x}
  BY <1>1 DEF Known, Writing, Parsed, Inside, StillMine
<1>3. journal \in Journals /\ exec[x] \in Import /\ city \in CityTable /\ TableType(places)
  BY <1>1 DEF TypeOK, Journals, CityTable, CityRow, TableType, PlaceEntry
<1>4. exec[x].at \in Nat /\ D \subseteq CalledLike /\ exec[x].said = D
  BY <1>1, <1>3 DEF Import, Paired
<1>5. Brings(f) \in Nat
  BY <1>2, SourceType
<1>6. journal' = ImportSucceed(journal, r, exec[x].at, f, Brings(f))
  BY DEF Commits, Brought, Brings
<1>7. TableType(T)
  BY <1>1, <1>2, <1>3, TableGives DEF Writing
<1>8. admin1' = SetOf[f].admin1
  BY <1>2, WriteAdmin1Gives DEF Commits, Brought
<1>9. \A m \in D : m[1] \in Cities /\ m[2] \in Places /\ m = <<m[1], m[2]>> /\ T[m[2]].names \in Names
  <2>1. \A m \in D : m \in Cities \X Places
    BY <1>4, TablesAssumption
  <2>2. \A m \in D : m[2] \in DOMAIN T
    BY <1>1 DEF Paired
  <2>3. \A p \in DOMAIN T : T[p].names \in Names
    BY <1>7 DEF TableType, PlaceEntry
  <2> QED
    BY <2>1, <2>2, <2>3
<1>10. \A c \in Cities : (\A m \in D : m[1] # c) => LinkedTo(D, c) = {}
  BY DEF LinkedTo
<1>11. \A m \in D : LinkedTo(D, m[1]) = {m[2]}
  <2>1. \A m, n \in D : m[1] = n[1] => m = n
    BY <1>1 DEF Paired
  <2> QED
    BY <2>1 DEF LinkedTo
<1>12. /\ city' = [c \in Cities |-> IF LinkedTo(D, c) = {} THEN city[c]
                    ELSE ImportCityNamesFromPlace(ImportLinkCity(city, c, CHOOSE q \in LinkedTo(D, c) : TRUE), c,
                                                  T[CHOOSE q \in LinkedTo(D, c) : TRUE].names)[c]]
       /\ linked' = [c \in Cities |-> IF LinkedTo(D, c) = {} THEN linked[c]
                       ELSE Append(linked[c], Told(c, CHOOSE q \in LinkedTo(D, c) : TRUE))]
  BY <1>4 DEF Commits, Told
<1>13. \A c \in Cities : (\A m \in D : m[1] # c) => city'[c] = city[c] /\ linked'[c] = linked[c]
  BY <1>10, <1>12
<1>14. ASSUME NEW m \in D
       PROVE  /\ city'[m[1]] = LinkedCity(city[m[1]], m[2], T[m[2]].names)
              /\ city'[m[1]] \in CityRow
              /\ linked'[m[1]] = Append(linked[m[1]], Told(m[1], m[2]))
  <2> DEFINE c == m[1]
             p == m[2]
  <2>1. c \in Cities /\ p \in Places /\ T[p].names \in Names /\ LinkedTo(D, c) = {p}
    BY <1>9, <1>11
  <2>2. (CHOOSE q \in LinkedTo(D, c) : TRUE) = p /\ LinkedTo(D, c) # {}
    BY <2>1
  <2> HIDE DEF c, p, T, D
  <2>3. /\ city'[c] = ImportCityNamesFromPlace(ImportLinkCity(city, c, p), c, T[p].names)[c]
        /\ linked'[c] = Append(linked[c], Told(c, p))
    BY <1>12, <2>1, <2>2
  <2>4. city'[c] = LinkedCity(city[c], p, T[p].names) /\ city'[c] \in CityRow
    BY <1>3, <2>1, <2>3, CityGives
  <2> QED
    BY <2>3, <2>4 DEF c, p
<1>15. city' \in CityTable
  <2>1. ASSUME NEW c \in Cities PROVE city'[c] \in CityRow
    <3>1. CASE \A m \in D : m[1] # c
      <4>1. city'[c] = city[c]
        BY <1>13, <3>1
      <4> QED
        BY <1>3, <4>1 DEF CityTable
    <3>2. CASE \E m \in D : m[1] = c
      BY <1>14, <3>2
    <3> QED
      BY <3>1, <3>2
  <2>2. DOMAIN city' = Cities /\ city' = [c \in Cities |-> city'[c]]
    BY <1>12
  <2> HIDE DEF D, T
  <2> QED
    BY <2>1, <2>2 DEF CityTable
<1>16. /\ journal' \in Journals
       /\ \A q \in Rows \ {r} : journal'[q] = journal[q]
       /\ journal'[r] = Succeeds(journal[r], exec[x].at, f, Brings(f))
  BY <1>2, <1>3, <1>4, <1>5, <1>6, SucceedGives
<1>17. /\ told' = [told EXCEPT ![r] = Append(@, "succeeded")]
       /\ places' = T /\ region' = exec[x].regions /\ writer' = {} /\ won' = Append(won, f)
  BY DEF Commits
<1>18. TableType(places')
  BY <1>7, <1>17
<1>19. linked' \in Linkeds
  <2> DEFINE E == [place : Places, version : Nat]
  <2>1. linked \in [Cities -> Seq(E)] /\ city \in CityTable
    BY <1>1, <1>3 DEF TypeOK
  <2>2. ASSUME NEW c \in Cities PROVE linked'[c] \in Seq(E)
    <3>1. CASE \A m \in D : m[1] # c
      BY <1>13, <2>1, <3>1
    <3>2. CASE \E m \in D : m[1] = c
      <4>1. PICK m \in D : m[1] = c
        BY <3>2
      <4>2. Told(c, m[2]) \in E
        BY <1>9, <2>1, <4>1 DEF Told, CityTable, CityRow
      <4>3. linked'[c] = Append(linked[c], Told(c, m[2]))
        BY <1>14, <4>1
      <4> HIDE DEF E
      <4> QED
        BY <2>1, <4>2, <4>3
    <3> QED
      BY <3>1, <3>2
  <2>3. linked' = [c \in Cities |-> linked'[c]]
    BY <1>12
  <2> HIDE DEF D, T, E
  <2>4. linked' \in [Cities -> Seq(E)]
    BY <2>2, <2>3
  <2> QED
    BY <2>4 DEF E, Linkeds
<1> HIDE DEF D, T
<1> QED
  BY <1>2, <1>8, <1>9, <1>13, <1>14, <1>15, <1>16, <1>17, <1>18, <1>19 DEF D, T

-----------------------------------------------------------------------------
(* How an import begins, and how its failure is told.                      *)
LEMMA EntryFields ==
  ASSUME NEW e \in Entry, NEW t \in Nat
  PROVE  /\ LET k == Restarted(e, t) IN
            k.status = e.status /\ k.start = t /\ k.fin = e.fin /\ k.job = e.job /\ k.places = e.places
            /\ k.files = e.files /\ k.error = e.error
         /\ LET k == Stale(e, t) IN
            k.status = "failed" /\ k.start = e.start /\ k.fin = t /\ k.job = e.job /\ k.error = "stale"
         /\ \A j : LET k == Opened(e, t, j) IN
            k.status = "running" /\ k.start = t /\ k.fin = e.fin /\ k.job = j /\ k.error = e.error
         /\ \A S \in Evidences, w \in Whys : LET k == Failed(e, t, S, w) IN
            k.status = "failed" /\ k.start = e.start /\ k.fin = t /\ k.job = e.job /\ k.error = w
            /\ (S # {} => k.files = S)
         /\ \A f \in Feeds, n \in Nat : LET k == Succeeds(e, t, f, n) IN
            k.status = "succeeded" /\ k.start = e.start /\ k.fin = t /\ k.job = e.job /\ k.error = e.error
            /\ k.places = n
<1>1. LET k == Restarted(e, t) IN
      k.status = e.status /\ k.start = t /\ k.fin = e.fin /\ k.job = e.job /\ k.places = e.places
      /\ k.files = e.files /\ k.error = e.error
  BY DEF Restarted, Entry
<1>2. LET k == Stale(e, t) IN
      k.status = "failed" /\ k.start = e.start /\ k.fin = t /\ k.job = e.job /\ k.error = "stale"
  BY DEF Stale, Entry
<1>3. \A j : LET k == Opened(e, t, j) IN
      k.status = "running" /\ k.start = t /\ k.fin = e.fin /\ k.job = j /\ k.error = e.error
  BY DEF Opened, Entry
<1>4. \A S \in Evidences, w \in Whys : LET k == Failed(e, t, S, w) IN
      k.status = "failed" /\ k.start = e.start /\ k.fin = t /\ k.job = e.job /\ k.error = w
      /\ (S # {} => k.files = S)
  BY DEF Failed, Entry
<1>5. \A f \in Feeds, n \in Nat : LET k == Succeeds(e, t, f, n) IN
      k.status = "succeeded" /\ k.start = e.start /\ k.fin = t /\ k.job = e.job /\ k.error = e.error
      /\ k.places = n
  BY DEF Succeeds, Entry
<1> QED
  BY <1>1, <1>2, <1>3, <1>4, <1>5

Begun(j, r) == [Idle EXCEPT !.pc = "fetch", !.job = j, !.row = r, !.begun = now]

LEMMA BeginsGives ==
  ASSUME TypeOK, NEW x \in Execs, NEW j \in Jobs \cup {NoJob}, NEW r \in Rows, Begins(x, j, r)
  PROVE  exec' \in [Execs -> Import] /\ Others(x) /\ exec'[x] = Begun(j, r)
<1>1. Idle \in Import /\ now \in Nat
  BY IdleType DEF TypeOK
<1>2. Begun(j, r) \in Import
  BY <1>1 DEF Begun, Import
<1>3. exec' = [exec EXCEPT ![x] = Begun(j, r)]
  BY DEF Begins, Begun
<1> QED
  BY <1>2, <1>3, Sets

LEMMA ResumeGives ==
  ASSUME TypeOK, NEW x \in Execs, NEW j \in Jobs \cup {NoJob}, NEW J, Resume(x, j, J)
  PROVE  \E r \in Rows :
           /\ Open(r) /\ journal[r].job = j /\ j # NoJob
           /\ journal' \in Journals
           /\ \A q \in Rows \ {r} : journal'[q] = journal[q]
           /\ journal'[r] = Restarted(journal[r], Clock(x))
           /\ exec' \in [Execs -> Import] /\ Others(x) /\ exec'[x] = Begun(j, r)
           /\ told' = told /\ job' = J
<1>1. PICK r \in Own(j) : /\ journal' = ImportRestart(journal, r, Clock(x))
                          /\ Begins(x, j, r) /\ job' = J /\ told' = told
  BY DEF Resume
<1>2. journal \in Journals /\ DOMAIN journal = Rows
  BY DEF TypeOK, Journals
<1>3. r \in Rows /\ Open(r) /\ journal[r].job = j /\ j # NoJob
  BY <1>1, <1>2 DEF Own, ImportFindOwnRunning, Open
<1>4. /\ journal' \in Journals
      /\ \A q \in Rows \ {r} : journal'[q] = journal[q]
      /\ journal'[r] = Restarted(journal[r], Clock(x))
  <2>1. Clock(x) \in Nat
    BY ClockType
  <2> QED
    BY <1>1, <1>2, <1>3, <2>1, RestartGives
<1>5. exec' \in [Execs -> Import] /\ Others(x) /\ exec'[x] = Begun(j, r)
  BY <1>1, <1>3, BeginsGives
<1> QED
  BY <1>1, <1>3, <1>4, <1>5

LEMMA StartActionGives ==
  ASSUME TypeOK, NEW x \in Execs, NEW j \in Jobs \cup {NoJob}, NEW J, Start(x, j, J)
  PROVE  LET old == {r \in Rows : Open(r)}
             t == Clock(x) IN
         \E n \in Rows :
           /\ journal[n].status = "none" /\ \A q \in Rows : q < n => journal[q].status # "none"
           /\ journal' \in Journals
           /\ journal'[n] = Opened(journal[n], t, j)
           /\ \A r \in old : journal'[r] = Stale(journal[r], t) /\ told'[r] = Append(told[r], "failed")
           /\ \A r \in Rows \ (old \cup {n}) : journal'[r] = journal[r]
           /\ \A r \in Rows \ old : told'[r] = told[r]
           /\ told' \in Tolds
           /\ exec' \in [Execs -> Import] /\ Others(x) /\ exec'[x] = Begun(j, n)
           /\ job' = J
<1> DEFINE old == {r \in Rows : Open(r)}
           t == Clock(x)
           K == ImportFailStale(journal, old, t)
<1>1. StaleAt(t) = old
  BY DEF Start, StaleAt
<1>2. PICK n \in Fresh :
        /\ journal' = ImportStart(K, n, t, j)
        /\ told' = [r \in Rows |-> IF r \in old THEN Append(told[r], "failed") ELSE told[r]]
        /\ Begins(x, j, n)
  BY <1>1 DEF Start
<1>3. journal \in Journals /\ told \in Tolds /\ t \in Nat /\ old \subseteq Rows
  BY ClockType DEF TypeOK, Journals, Tolds
<1>4. n \in Rows /\ journal[n].status = "none" /\ n \notin old
  BY DEF Fresh, Open, Running
<1>5. \A q \in Rows : q < n => journal[q].status # "none"
  <2>1. n \in 1..MaxRows /\ MaxRows \in Nat /\ \A q \in 1..(n - 1) : journal[q].status # "none"
    BY GeoAssumption DEF Fresh, Rows
  <2>2. \A q \in 1..MaxRows : q < n => q \in 1..(n - 1)
    BY <2>1
  <2> QED
    BY <2>1, <2>2 DEF Rows
<1>6. /\ K \in Journals
      /\ \A q \in Rows \ old : K[q] = journal[q]
      /\ \A q \in old : K[q] = Stale(journal[q], t)
  <2> HIDE DEF old, t
  <2> QED
    BY <1>3, FailStaleGives
<1> HIDE DEF K
<1>7. LET L == ImportStart(K, n, t, j) IN
      /\ L \in Journals
      /\ \A q \in Rows \ {n} : L[q] = K[q]
      /\ L[n] = Opened(K[n], t, j)
  <2> HIDE DEF t
  <2> QED
    BY <1>3, <1>4, <1>6, StartGives
<1>8. exec' \in [Execs -> Import] /\ Others(x) /\ exec'[x] = Begun(j, n)
  BY <1>2, <1>4, BeginsGives
<1>9. job' = J
  BY DEF Start
<1> HIDE DEF old, t
<1>10. /\ journal' \in Journals
       /\ journal'[n] = Opened(journal[n], t, j)
       /\ \A r \in old : journal'[r] = Stale(journal[r], t)
       /\ \A r \in Rows \ (old \cup {n}) : journal'[r] = journal[r]
  BY <1>2, <1>3, <1>4, <1>6, <1>7
<1>11. /\ \A r \in old : told'[r] = Append(told[r], "failed")
       /\ \A r \in Rows \ old : told'[r] = told[r]
       /\ told' \in Tolds
  BY <1>2, <1>3 DEF Tolds
<1> QED
  BY <1>4, <1>5, <1>8, <1>9, <1>10, <1>11 DEF old, t

LEMMA EvidenceType ==
  ASSUME NEW x, exec[x].src \in Feeds \cup {NoFeed}
  PROVE  /\ Evidence(x) \in Evidences
         /\ exec[x].src \in Feeds /\ Rejected(Given[exec[x].src]) =>
              \E e \in Evidence(x) : Given[e[1]].file[Files[e[2]]] = "rejected"
<1> DEFINE f == exec[x].src
<1>1. Downloaded(Given[f]) \subseteq DOMAIN Files
  BY DEF Downloaded, Reached
<1>2. Evidence(x) \in Evidences
  BY <1>1 DEF Evidence, Evidences
<1>3. ASSUME f \in Feeds, Rejected(Given[f])
      PROVE  \E e \in Evidence(x) : Given[e[1]].file[Files[e[2]]] = "rejected"
  <2>1. PICK i \in Reached(Given[f]) : Given[f].file[Files[i]] = "rejected"
    BY <1>3 DEF Rejected
  <2>2. i \in Downloaded(Given[f])
    BY <2>1 DEF Downloaded
  <2>3. <<f, i>> \in Evidence(x)
    BY <1>3, <2>2, GeoAssumption DEF Evidence
  <2> QED
    BY <2>1, <2>3
<1> QED
  BY <1>2, <1>3

LEMMA FailActionGives ==
  ASSUME TypeOK, NEW x \in Execs, Known(x), Fail(x)
  PROVE  LET r == exec[x].row IN
         /\ r \in Rows /\ told' \in Tolds /\ journal' \in Journals
         /\ \A q \in Rows \ {r} : journal'[q] = journal[q] /\ told'[q] = told[q]
         /\ \/ ~Open(r) /\ journal'[r] = journal[r] /\ told'[r] = told[r]
            \/ Open(r) /\ journal'[r] = Failed(journal[r], Clock(x), Evidence(x), exec[x].error) /\ told'[r] = Append(told[r], "failed")
<1> DEFINE r == exec[x].row
<1>1. journal \in Journals /\ told \in Tolds /\ exec[x] \in Import
  BY DEF TypeOK, Journals, Tolds
<1>2. r \in Rows /\ exec[x].src \in Feeds \cup {NoFeed} /\ exec[x].error \in {"", "rejected", "other"}
  BY <1>1 DEF Known, Fail, At, Import
<1>3. /\ \A q \in Rows \ {r} : told'[q] = told[q]
      /\ told'[r] = IF Open(r) THEN Append(told[r], "failed") ELSE told[r]
      /\ told' \in Tolds
  <2>1. told' = [q \in Rows |-> IF q \in Closes(x) THEN Append(told[q], "failed") ELSE told[q]]
    BY DEF Fail
  <2>2. Closes(x) = IF Open(r) THEN {r} ELSE {}
    BY DEF Closes
  <2>3. \A q \in Rows : Append(told[q], "failed") \in Seq({"succeeded", "failed"})
    BY <1>1 DEF Tolds
  <2> QED
    BY <1>1, <1>2, <2>1, <2>2, <2>3 DEF Tolds
<1>4. CASE ~Open(r)
  <2>1. journal' = journal
    BY <1>4 DEF Fail, Closes
  <2> QED
    BY <1>1, <1>2, <1>3, <1>4, <2>1
<1>5. CASE Open(r)
  <2>1. journal' = ImportFail(journal, r, Clock(x), Evidence(x), exec[x].error)
    BY <1>5 DEF Fail, Closes
  <2>2. Clock(x) \in Nat /\ Evidence(x) \in Evidences
    BY <1>2, ClockType, EvidenceType
  <2>3. /\ journal' \in Journals
        /\ \A q \in Rows \ {r} : journal'[q] = journal[q]
        /\ journal'[r] = Failed(journal[r], Clock(x), Evidence(x), exec[x].error)
    <3> DEFINE t == Clock(x)
               S == Evidence(x)
               w == exec[x].error
    <3>1. t \in Nat /\ S \in Evidences /\ w \in Whys /\ r \in Rows
      BY <1>2, <2>2 DEF Whys
    <3>2. journal' = ImportFail(journal, r, t, S, w)
      BY <2>1
    <3> HIDE DEF r, t, S, w
    <3>3. /\ journal' \in Journals
          /\ \A q \in Rows \ {r} : journal'[q] = journal[q]
          /\ journal'[r] = Failed(journal[r], t, S, w)
      BY <1>1, <3>1, <3>2, FailGives
    <3> QED
      BY <3>3 DEF t, S, w
  <2> QED
    BY <1>2, <1>3, <1>5, <2>3
<1> QED
  BY <1>4, <1>5

-----------------------------------------------------------------------------
(* The ways an import goes on; Advances are those inside load.             *)
GivesUp(x) ==
  /\ exec[x].pc # "idle"
  /\ \E f \in Feeds \cup {NoFeed}, w \in Whys :
       exec'[x] = GaveUp(x, f, w) /\ (w = "rejected" => f \in Feeds /\ Rejected(Given[f]))
Starts(x) ==
  /\ exec[x].pc = "idle"
  /\ \E j \in Jobs \cup {NoJob}, r \in Rows :
       /\ exec'[x] = Begun(j, r) /\ journal'[r].status = "running" /\ journal'[r].job = j
       /\ j = NoJob <=> x = Operator
Accepts(x) ==
  /\ exec[x].pc = "fetch" /\ writer' = writer
  /\ \E f \in Feeds : /\ exec'[x] = [exec[x] EXCEPT !.pc = "check", !.src = f, !.at = Clock(x)]
                      /\ Admin1Refs(SetOf[f])
Advances(x) ==
  \/ Accepts(x)
  \/ exec[x].pc = "check" /\ exec'[x] = [exec[x] EXCEPT !.pc = "write"] /\ ShareKept(Brought(x)) /\ writer' = writer
  \/ exec[x].pc = "write" /\ exec'[x] = [exec[x] EXCEPT !.pc = "mark"] /\ writer = {} /\ writer' = {x}
  \/ /\ exec[x].pc = "mark" /\ writer' = writer
     /\ exec'[x] = [exec[x] EXCEPT !.pc = "gone", !.held = {p \in Lost(x) : ~Free(p)}]
  \/ /\ exec[x].pc = "gone" /\ writer' = writer
     /\ exec'[x] = [exec[x] EXCEPT !.pc = "match", !.gone = {p \in Lost(x) : Free(p)}]
  \/ /\ exec[x].pc = "match" /\ writer' = writer
     /\ exec'[x] = [exec[x] EXCEPT !.pc = "link", !.todo = MatchesOf(Candidates(x)), !.regions = region]
  \/ /\ exec[x].pc = "link" /\ writer' = writer
     /\ \E c \in Cities, p \in Places :
          LET R == LinkedRegion(x, c, Table(x)[p].admin1) IN
          /\ <<c, p>> \in exec[x].todo /\ ~ToTaken(c, p)
          /\ exec'[x] = [exec[x] EXCEPT !.todo = exec[x].todo \ {<<c, p>>}, !.done = exec[x].done \cup {<<c, p>>},
                                        !.said = exec[x].said \cup {<<c, p>>}, !.regions = R]
          /\ Codes1(R)
  \/ /\ exec[x].pc = "link" /\ writer' = writer
     /\ \E m : exec'[x] = [exec[x] EXCEPT !.todo = exec[x].todo \ {m}]
GoesOn(x) ==
  \/ exec'[x] = exec[x] \/ exec'[x] = Idle \/ GivesUp(x) \/ Starts(x)
  \/ /\ Advances(x)
     /\ UNCHANGED <<plan, now, journal, data, told>>
     /\ exec'[x].job = exec[x].job /\ exec'[x].row = exec[x].row /\ exec'[x].begun = exec[x].begun

LEMMA LoadSteps ==
  ASSUME Inv, NEW x \in Execs, Loads(x) \/ Crash(x)
  PROVE  exec' \in [Execs -> Import] /\ Others(x) /\ GoesOn(x)
<1>1. TypeOK /\ exec[x] \in Import /\ Idle \in Import
  BY IdleType DEF Inv, TypeOK
<1>2. plan.sources \subseteq Feeds
  BY <1>1, GeoAssumption DEF TypeOK
<1>3. CASE Apart /\ \E f \in plan.sources : Fetch(x, f)
  <2>1. PICK f \in Feeds : Fetch(x, f)
    BY <1>2, <1>3
  <2>2. exec' \in [Execs -> Import] /\ Keeps(x) /\ exec[x].pc = "fetch" /\ writer' = writer
    BY <1>1, <2>1, FetchGives DEF Fetch, At
  <2>3. CASE exec'[x] = [exec[x] EXCEPT !.pc = "check", !.src = f, !.at = Clock(x)] /\ Admin1Refs(SetOf[f])
    <3>1. Accepts(x)
      BY <2>2, <2>3, Zenon DEF Accepts
    <3> QED
      BY <1>3, <2>2, <3>1 DEF GoesOn, Keeps, Advances, Apart
  <2>4. CASE \E w \in {"rejected", "other"} :
               exec'[x] = GaveUp(x, f, w) /\ (w = "rejected" => Rejected(Given[f]))
    <3>1. GivesUp(x)
      BY <2>2, <2>4 DEF GivesUp, Whys
    <3> QED
      BY <2>2, <3>1 DEF GoesOn, Keeps
  <2> QED
    BY <1>1, <2>1, <2>3, <2>4, FetchGives, Zenon
<1>4. ASSUME Gives(x), exec[x].pc # "idle"
      PROVE  exec' \in [Execs -> Import] /\ Others(x) /\ GoesOn(x)
  <2> DEFINE f == exec[x].src
             w == "other"
  <2>1. f \in Feeds \cup {NoFeed} /\ w \in {"", "rejected", "other"} /\ GivesFor(x, f, w)
    BY <1>1, <1>4 DEF Import, Gives
  <2>2. exec' \in [Execs -> Import] /\ Keeps(x) /\ exec'[x] = GaveUp(x, f, w)
    BY <1>1, <2>1, GivesGives
  <2>3. GivesUp(x)
    BY <1>4, <2>1, <2>2 DEF GivesUp, Whys
  <2> QED
    BY <2>2, <2>3 DEF GoesOn, Keeps
<1>5. ASSUME exec' = [exec EXCEPT ![x] = Idle]
      PROVE  exec' \in [Execs -> Import] /\ Others(x) /\ GoesOn(x)
  BY <1>1, <1>5, Sets DEF GoesOn
<1>6. CASE CheckShare(x)
  <2>1. CASE Goes(x, "write") /\ ShareKept(Brought(x))
    <3>1. exec' \in [Execs -> Import] /\ Keeps(x) /\ exec'[x] = [exec[x] EXCEPT !.pc = "write"]
      BY <1>1, <2>1, GoesGives
    <3>2. Advances(x)
      BY <1>6, <2>1, <3>1, Zenon DEF CheckShare, At, Advances
    <3> QED
      BY <1>6, <3>1, <3>2 DEF GoesOn, Keeps, CheckShare, Apart
  <2>2. CASE Gives(x)
    BY <1>4, <1>6, <2>2 DEF CheckShare, At
  <2> QED
    BY <1>6, <2>1, <2>2 DEF CheckShare
<1>7. CASE WriteSource(x)
  <2>1. exec' \in [Execs -> Import] /\ Keeps(x) /\ exec'[x] = [exec[x] EXCEPT !.pc = "mark"]
    BY <1>1, <1>7, GoesGives DEF WriteSource
  <2>2. Advances(x)
    BY <1>7, <2>1, Zenon DEF WriteSource, At, Advances
  <2> QED
    BY <1>7, <2>1, <2>2 DEF GoesOn, Keeps, WriteSource, Apart
<1>8. CASE MarkMissing(x)
  <2>1. /\ exec' \in [Execs -> Import] /\ Keeps(x)
        /\ exec'[x] = [exec[x] EXCEPT !.pc = "gone", !.held = {p \in Lost(x) : ~Free(p)}]
    BY <1>1, <1>8, MarkGives
  <2>2. Advances(x)
    BY <1>8, <2>1, Zenon DEF MarkMissing, At, Advances
  <2> QED
    BY <1>8, <2>1, <2>2 DEF GoesOn, Keeps, MarkMissing, Apart
<1>9. CASE DeleteGone(x)
  <2>1. /\ exec' \in [Execs -> Import] /\ Keeps(x)
        /\ exec'[x] = [exec[x] EXCEPT !.pc = "match", !.gone = {p \in Lost(x) : Free(p)}]
    BY <1>1, <1>9, GoneGives
  <2>2. Advances(x)
    BY <1>9, <2>1, Zenon DEF DeleteGone, At, Advances
  <2> QED
    BY <1>9, <2>1, <2>2 DEF GoesOn, Keeps, DeleteGone, Apart
<1>10. CASE Reconcile(x)
  <2>1. /\ exec' \in [Execs -> Import] /\ Keeps(x)
        /\ exec'[x] = [exec[x] EXCEPT !.pc = "link", !.todo = MatchesOf(Candidates(x)), !.regions = region]
    BY <1>1, <1>10, ReconcileGives
  <2>2. Advances(x)
    BY <1>10, <2>1, Zenon DEF Reconcile, At, Advances
  <2> QED
    BY <1>10, <2>1, <2>2 DEF GoesOn, Keeps, Reconcile, Apart
<1>11. CASE \E c \in Cities, p \in Places : Link(x, c, p)
  <2>1. PICK c \in Cities, p \in Places : Link(x, c, p)
    BY <1>11
  <2> DEFINE R == LinkedRegion(x, c, Table(x)[p].admin1)
  <2>2. /\ exec' \in [Execs -> Import] /\ Keeps(x)
        /\ exec'[x] = [exec[x] EXCEPT !.todo = exec[x].todo \ {<<c, p>>}, !.done = exec[x].done \cup {<<c, p>>},
                                      !.said = exec[x].said \cup {<<c, p>>}, !.regions = R]
        /\ Codes1(R)
    BY <2>1, LinkGives, Zenon
  <2>3. /\ exec[x].pc = "link" /\ writer' = writer /\ <<c, p>> \in exec[x].todo /\ ~ToTaken(c, p) /\ Apart
    BY <2>1 DEF Link, At
  <2>4. Advances(x)
    BY <2>2, <2>3, Zenon DEF Advances
  <2> QED
    BY <2>2, <2>3, <2>4 DEF GoesOn, Keeps, Apart
<1>12. CASE \E c \in Cities, p \in Places : Conflict(x, c, p)
  <2>1. PICK c \in Cities, p \in Places : Conflict(x, c, p)
    BY <1>12
  <2>2. /\ exec' \in [Execs -> Import] /\ Keeps(x)
        /\ exec'[x] = [exec[x] EXCEPT !.todo = exec[x].todo \ {<<c, p>>}]
    BY <1>1, <2>1, ConflictGives, Zenon
  <2>3. exec[x].pc = "link" /\ writer' = writer /\ Apart
    BY <2>1 DEF Conflict, At
  <2>4. Advances(x)
    BY <2>2, <2>3, Zenon DEF Advances
  <2> QED
    BY <2>2, <2>3, <2>4 DEF GoesOn, Keeps, Apart
<1>13. CASE Finish(x) \/ Fail(x) \/ FailFails(x) \/ Crash(x)
  BY <1>5, <1>13 DEF Finish, Fail, FailFails, Crash
<1>14. CASE FinishUnheard(x) \/ Closed(x) \/ LoadFails(x)
  <2>1. exec[x].pc # "idle" /\ Gives(x)
    BY <1>14 DEF FinishUnheard, Closed, LoadFails, Ready, At
  <2> QED
    BY <1>4, <2>1
<1>15. (\E f \in plan.sources : Fetch(x, f)) => Apart
  BY DEF Fetch
<1> QED
  BY <1>3, <1>6, <1>7, <1>8, <1>9, <1>10, <1>11, <1>12, <1>13, <1>14, <1>15 DEF Loads

LEMMA ExecSteps ==
  ASSUME Inv, [Next]_vars
  PROVE  exec' \in [Execs -> Import] /\ \A x \in Execs : GoesOn(x)
<1>1. TypeOK /\ exec \in [Execs -> Import]
  BY DEF Inv, TypeOK
<1>2. CASE exec' = exec
  BY <1>1, <1>2 DEF GoesOn
<1>3. CASE \E x \in Execs : Loads(x) \/ Crash(x)
  <2>1. PICK x \in Execs : exec' \in [Execs -> Import] /\ Others(x) /\ GoesOn(x)
    BY <1>3, LoadSteps
  <2> QED
    BY <2>1 DEF GoesOn, Others
<1>4. ASSUME NEW x \in Execs, exec[x].pc = "idle", NEW j \in Jobs \cup {NoJob}, NEW J,
             j = NoJob <=> x = Operator, Resume(x, j, J) \/ Start(x, j, J)
      PROVE  exec' \in [Execs -> Import] /\ \A y \in Execs : GoesOn(y)
  <2>1. \E r \in Rows : /\ exec' \in [Execs -> Import] /\ Others(x) /\ exec'[x] = Begun(j, r)
                        /\ journal'[r].status = "running" /\ journal'[r].job = j
    <3>1. journal \in [Rows -> Entry]
      BY <1>1 DEF TypeOK
    <3>2. CASE Resume(x, j, J)
      <4>1. PICK r \in Rows :
              /\ Open(r) /\ journal[r].job = j
              /\ journal'[r] = Restarted(journal[r], Clock(x))
              /\ exec' \in [Execs -> Import] /\ Others(x) /\ exec'[x] = Begun(j, r)
        BY <1>1, <1>4, <3>2, ResumeGives
      <4>2. journal'[r].status = "running" /\ journal'[r].job = j
        BY <3>1, <4>1 DEF Restarted, Entry, Open, Running
      <4> QED
        BY <4>1, <4>2
    <3>3. CASE Start(x, j, J)
      <4>1. PICK r \in Rows : /\ journal'[r] = Opened(journal[r], Clock(x), j)
                              /\ exec' \in [Execs -> Import] /\ Others(x) /\ exec'[x] = Begun(j, r)
        BY <1>1, <1>4, <3>3, StartActionGives
      <4>2. journal'[r].status = "running" /\ journal'[r].job = j
        BY <1>1, <3>1, <4>1, ClockType, EntryFields
      <4> QED
        BY <4>1, <4>2
    <3> QED
      BY <1>4, <3>2, <3>3
  <2>2. Starts(x)
    BY <1>4, <2>1 DEF Starts
  <2> QED
    BY <2>1, <2>2 DEF GoesOn, Others
<1>5. CASE RunNow
  <2>1. exec[Operator].pc = "idle" /\ Start(Operator, NoJob, job) /\ Operator \in Execs
    BY <1>5 DEF RunNow, Execs
  <2> QED
    BY <1>4, <2>1
<1>6. CASE \E j \in Jobs : Work(j)
  <2>1. PICK j \in Jobs : Work(j)
    BY <1>6
  <2>2. Worker \in Execs /\ exec[Worker].pc = "idle" /\ j # NoJob /\ Worker # Operator
    BY <2>1, GeoAssumption DEF Work, Execs
  <2>3. CASE InProgress(j, Taken(j))
    BY <1>2, <2>3 DEF InProgress
  <2>4. CASE Resume(Worker, j, Taken(j)) \/ Start(Worker, j, Taken(j))
    BY <1>4, <2>2, <2>4
  <2> QED
    BY <2>1, <2>3, <2>4 DEF Work, Begin
<1>7. CASE \/ Tick \/ UNCHANGED vars
           \/ \E j \in Jobs : Enqueue(j) \/ Rescue(j)
           \/ \E c \in Cities, p \in Places : Activate(c, p)
  <2>1. exec' = exec
    BY <1>7 DEF Tick, vars, Enqueue, Rescue, Activate
  <2> QED
    BY <1>2, <2>1
<1> QED
  BY <1>3, <1>5, <1>6, <1>7 DEF Next

-----------------------------------------------------------------------------
(* The steps that change the journal, the tables, the writer.              *)
Restarts ==
  /\ UNCHANGED <<plan, now, data, told, writer>>
  /\ exec[Worker].pc = "idle"
  /\ \E j \in Jobs, r \in Rows :
       /\ Open(r) /\ journal[r].job = j /\ exec'[Worker] = Begun(j, r)
       /\ \A q \in Rows \ {r} : journal'[q] = journal[q]
       /\ journal'[r] = Restarted(journal[r], Clock(Worker))
Opens ==
  /\ UNCHANGED <<plan, now, data, writer>>
  /\ \E x \in Execs, j \in Jobs \cup {NoJob}, n \in Rows :
       /\ journal[n].status = "none" /\ \A q \in Rows : q < n => journal[q].status # "none"
       /\ exec'[x] = Begun(j, n) /\ Others(x) /\ exec[x].pc = "idle"
       /\ journal'[n] = Opened(journal[n], Clock(x), j) /\ told'[n] = told[n]
       /\ \A r \in Rows \ {n} :
            \/ Open(r) /\ journal'[r] = Stale(journal[r], Clock(x)) /\ told'[r] = Append(told[r], "failed")
            \/ ~Open(r) /\ journal'[r] = journal[r] /\ told'[r] = told[r]
Breaks ==
  /\ UNCHANGED <<plan, now, data, writer>>
  /\ \E x \in Execs :
       LET r == exec[x].row IN
       /\ exec[x].pc = "fail" /\ exec' = [exec EXCEPT ![x] = Idle] /\ r \in Rows
       /\ \A q \in Rows \ {r} : journal'[q] = journal[q] /\ told'[q] = told[q]
       /\ \/ ~Open(r) /\ journal'[r] = journal[r] /\ told'[r] = told[r]
          \/ /\ Open(r) /\ told'[r] = Append(told[r], "failed")
             /\ journal'[r] = Failed(journal[r], Clock(x), Evidence(x), exec[x].error)
Lands(x) ==
  /\ Ready(x) /\ StillMine(x) /\ Commits(x) /\ Others(x) /\ UNCHANGED <<plan, now>>
  /\ exec'[x].pc \in {"idle", "fail"}

LEMMA LandSteps ==
  ASSUME Inv, NEW x \in Execs, Finish(x) \/ FinishUnheard(x)
  PROVE  Lands(x)
<1>1. TypeOK /\ Idle \in Import /\ Idle.pc = "idle"
  BY IdleType DEF Inv, Idle
<1>2. CASE Finish(x)
  <2>1. Others(x) /\ exec'[x] = Idle
    BY <1>1, <1>2, Sets DEF Finish
  <2> QED
    BY <1>1, <1>2, <2>1 DEF Finish, Lands
<1>3. CASE FinishUnheard(x)
  <2> DEFINE f == exec[x].src
             w == "other"
  <2>1. f \in Feeds \cup {NoFeed} /\ w \in {"", "rejected", "other"} /\ GivesFor(x, f, w)
    BY <1>3, <1>1 DEF FinishUnheard, Gives, TypeOK, Import
  <2>2. Keeps(x) /\ exec'[x] = GaveUp(x, f, w)
    BY <1>1, <2>1, GivesGives
  <2>3. exec'[x].pc = "fail"
    BY <1>1, <2>2 DEF GaveUp, Import
  <2> QED
    BY <1>3, <2>2, <2>3 DEF FinishUnheard, Lands, Keeps
<1> QED
  BY <1>2, <1>3

LEMMA BeginSteps ==
  ASSUME Inv, NEW x \in Execs, exec[x].pc = "idle", NEW j \in Jobs \cup {NoJob}, NEW J,
         UNCHANGED <<plan, now, data, writer>>,
         Start(x, j, J) \/ (x = Worker /\ j \in Jobs /\ Resume(x, j, J))
  PROVE  (Restarts \/ Opens) /\ journal' \in Journals /\ told' \in Tolds
<1>1. TypeOK /\ told \in Tolds
  BY DEF Inv, TypeOK, Tolds
<1>2. CASE Start(x, j, J)
  <2>1. PICK n \in Rows :
          /\ journal[n].status = "none" /\ \A q \in Rows : q < n => journal[q].status # "none"
          /\ journal' \in Journals
          /\ journal'[n] = Opened(journal[n], Clock(x), j)
          /\ \A r \in {q \in Rows : Open(q)} :
               journal'[r] = Stale(journal[r], Clock(x)) /\ told'[r] = Append(told[r], "failed")
          /\ \A r \in Rows \ ({q \in Rows : Open(q)} \cup {n}) : journal'[r] = journal[r]
          /\ \A r \in Rows \ {q \in Rows : Open(q)} : told'[r] = told[r]
          /\ told' \in Tolds
          /\ Others(x) /\ exec'[x] = Begun(j, n)
    BY <1>1, <1>2, StartActionGives
  <2>2. n \notin {q \in Rows : Open(q)}
    BY <2>1 DEF Open, Running
  <2>3. /\ told'[n] = told[n]
        /\ \A r \in Rows \ {n} :
            \/ Open(r) /\ journal'[r] = Stale(journal[r], Clock(x)) /\ told'[r] = Append(told[r], "failed")
            \/ ~Open(r) /\ journal'[r] = journal[r] /\ told'[r] = told[r]
    BY <2>1, <2>2
  <2>4. Opens
    <3> DEFINE t == Clock(x)
    <3>1. /\ exec'[x] = Begun(j, n) /\ Others(x) /\ exec[x].pc = "idle"
          /\ journal[n].status = "none" /\ \A q \in Rows : q < n => journal[q].status # "none"
          /\ journal'[n] = Opened(journal[n], t, j)
      BY <2>1
    <3>2. UNCHANGED <<plan, now, data, writer>>
      OBVIOUS
    <3> QED
      BY <2>3, <3>1, <3>2 DEF Opens
  <2> QED
    BY <2>1, <2>4
<1>3. CASE x = Worker /\ j \in Jobs /\ Resume(x, j, J)
  <2>1. /\ told' = told
        /\ journal' \in Journals
        /\ \E r \in Rows : /\ Open(r) /\ journal[r].job = j
                           /\ \A q \in Rows \ {r} : journal'[q] = journal[q]
                           /\ journal'[r] = Restarted(journal[r], Clock(x))
                           /\ exec'[x] = Begun(j, r)
    BY <1>1, <1>3, ResumeGives
  <2> QED
    BY <1>1, <1>3, <2>1 DEF Restarts
<1> QED
  BY <1>2, <1>3

LEMMA JournalSteps ==
  ASSUME Inv, [Next]_vars
  PROVE  /\ journal' \in Journals /\ told' \in Tolds
         /\ UNCHANGED <<journal, told>> \/ Restarts \/ Opens \/ Breaks \/ \E x \in Execs : Lands(x)
<1>1. TypeOK /\ journal \in Journals /\ told \in Tolds
  BY DEF Inv, TypeOK, Journals, Tolds
<1>2. CASE UNCHANGED <<journal, told>>
  BY <1>1, <1>2
<1>3. CASE RunNow
  <2>1. Operator \in Execs /\ exec[Operator].pc = "idle" /\ UNCHANGED <<plan, now, data, writer>>
        /\ Start(Operator, NoJob, job)
    BY <1>3 DEF RunNow, Execs
  <2> QED
    BY <2>1, BeginSteps
<1>4. CASE \E j \in Jobs : Work(j)
  <2>1. PICK j \in Jobs : Work(j)
    BY <1>4
  <2>2. Worker \in Execs /\ exec[Worker].pc = "idle" /\ UNCHANGED <<plan, now, data, writer>>
    BY <2>1 DEF Work, Execs
  <2>3. CASE InProgress(j, Taken(j))
    BY <1>2, <2>3 DEF InProgress
  <2>4. CASE Start(Worker, j, Taken(j)) \/ Resume(Worker, j, Taken(j))
    BY <2>2, <2>4, BeginSteps
  <2> QED
    BY <2>1, <2>3, <2>4 DEF Work, Begin
<1>5. CASE \E x \in Execs : Finish(x) \/ FinishUnheard(x)
  <2>1. PICK x \in Execs : Finish(x) \/ FinishUnheard(x)
    BY <1>5
  <2>2. Lands(x)
    BY <2>1, LandSteps
  <2>3. journal' \in Journals /\ exec[x].row \in Rows
    BY <2>2, CommitGives DEF Lands
  <2>4. told' \in Tolds
    BY <1>1, <2>2, <2>3 DEF Lands, Commits, Tolds
  <2> QED
    BY <2>2, <2>3, <2>4
<1>6. CASE \E x \in Execs : Fail(x)
  <2>1. PICK x \in Execs : Fail(x)
    BY <1>6
  <2>2. Known(x)
    BY DEF Inv
  <2>3. LET r == exec[x].row IN
        /\ r \in Rows /\ told' \in Tolds /\ journal' \in Journals
        /\ \A q \in Rows \ {r} : journal'[q] = journal[q] /\ told'[q] = told[q]
        /\ \/ ~Open(r) /\ journal'[r] = journal[r] /\ told'[r] = told[r]
           \/ /\ Open(r) /\ told'[r] = Append(told[r], "failed")
              /\ journal'[r] = Failed(journal[r], Clock(x), Evidence(x), exec[x].error)
    BY <1>1, <2>1, <2>2, FailActionGives
  <2>4. /\ exec[x].pc = "fail" /\ exec' = [exec EXCEPT ![x] = Idle]
        /\ UNCHANGED <<plan, now, data, writer>>
    BY <2>1 DEF Fail, At
  <2>5. Breaks
    BY <2>3, <2>4, Zenon DEF Breaks
  <2> QED
    BY <2>3, <2>5
<1>7. CASE \/ Tick \/ UNCHANGED vars
           \/ \E j \in Jobs : Enqueue(j) \/ Rescue(j)
           \/ \E c \in Cities, p \in Places : Activate(c, p)
  BY <1>2, <1>7 DEF Tick, vars, Enqueue, Rescue, Activate
<1>8. ASSUME NEW x \in Execs,
             \/ \E f \in plan.sources : Fetch(x, f)
             \/ CheckShare(x) \/ WriteSource(x) \/ MarkMissing(x) \/ DeleteGone(x) \/ Reconcile(x)
             \/ \E c \in Cities, p \in Places : Link(x, c, p) \/ Conflict(x, c, p)
             \/ Closed(x) \/ LoadFails(x)
      PROVE  UNCHANGED <<journal, told>>
  <2>1. Apart
    BY <1>8 DEF Fetch, CheckShare, WriteSource, MarkMissing, DeleteGone, Reconcile, Link, Conflict,
                Closed, LoadFails
  <2> QED
    BY <2>1 DEF Apart
<1>9. CASE \E x \in Execs : FailFails(x) \/ Crash(x)
  BY <1>2, <1>9 DEF FailFails, Crash
<1> QED
  BY <1>2, <1>3, <1>4, <1>5, <1>6, <1>7, <1>8, <1>9 DEF Next, Loads

LEMMA TableSteps ==
  ASSUME Inv, [Next]_vars
  PROVE  /\ \/ UNCHANGED data
            \/ \E x \in Execs : Lands(x)
            \/ \E c \in Cities, p \in Places : Activate(c, p)
         /\ \/ writer' = writer
            \/ \E x \in Execs : \/ writer = {} /\ writer' = {x}
                                \/ writer' = writer \ {x} /\ exec'[x].pc \in {"idle", "fail"}
                                \/ Lands(x)
         /\ plan' = plan
         /\ now' = now \/ (now' = now + 1 /\ UNCHANGED <<journal, exec, data, told>>)
<1>1. TypeOK /\ exec \in [Execs -> Import] /\ Idle \in Import /\ Idle.pc = "idle"
  BY IdleType DEF Inv, TypeOK, Idle
<1>2. CASE UNCHANGED data /\ UNCHANGED <<writer, plan, now>>
  BY <1>2
<1>3. CASE RunNow \/ \E j \in Jobs : Work(j)
  BY <1>2, <1>3 DEF RunNow, Work
<1>4. CASE \/ Tick \/ UNCHANGED vars
           \/ \E j \in Jobs : Enqueue(j) \/ Rescue(j)
           \/ \E c \in Cities, p \in Places : Activate(c, p)
  BY <1>4 DEF Tick, vars, data, Enqueue, Rescue, Activate
<1>5. CASE \E x \in Execs : Finish(x) \/ FinishUnheard(x)
  BY <1>5, LandSteps DEF Lands
<1>6. CASE \E x \in Execs : Fail(x) \/ FailFails(x)
  BY <1>2, <1>6 DEF Fail, FailFails
<1>7. CASE \E x \in Execs : Crash(x)
  BY <1>1, <1>7 DEF Crash
<1>8. CASE \E x \in Execs :
             \/ \E f \in plan.sources : Fetch(x, f)
             \/ CheckShare(x) \/ MarkMissing(x) \/ DeleteGone(x) \/ Reconcile(x)
             \/ \E c \in Cities, p \in Places : Link(x, c, p) \/ Conflict(x, c, p)
  <2>0. PICK x \in Execs :
             \/ \E f \in plan.sources : Fetch(x, f)
             \/ CheckShare(x) \/ MarkMissing(x) \/ DeleteGone(x) \/ Reconcile(x)
             \/ \E c \in Cities, p \in Places : Link(x, c, p) \/ Conflict(x, c, p)
    BY <1>8
  <2>1. Apart /\ UNCHANGED writer
    BY <2>0 DEF Fetch, CheckShare, MarkMissing, DeleteGone, Reconcile, Link, Conflict
  <2> QED
    BY <1>2, <2>1 DEF Apart
<1>9. CASE \E x \in Execs : WriteSource(x)
  BY <1>9 DEF WriteSource, Apart
<1>10. CASE \E x \in Execs : Closed(x) \/ LoadFails(x)
  <2>1. PICK x \in Execs : Closed(x) \/ LoadFails(x)
    BY <1>10
  <2>2. Apart /\ Gives(x) /\ writer' = writer \ {x}
    BY <2>1 DEF Closed, LoadFails
  <2> DEFINE f == exec[x].src
             w == "other"
  <2>3. f \in Feeds \cup {NoFeed} /\ w \in {"", "rejected", "other"} /\ GivesFor(x, f, w)
    BY <1>1, <2>2 DEF Gives, Import
  <2>4. exec'[x] = GaveUp(x, f, w)
    BY <1>1, <2>3, GivesGives
  <2>5. exec'[x].pc = "fail"
    BY <1>1, <2>4 DEF GaveUp, Import
  <2> QED
    BY <2>2, <2>5 DEF Apart
<1> QED
  BY <1>3, <1>4, <1>5, <1>6, <1>7, <1>8, <1>9, <1>10 DEF Next, Loads

-----------------------------------------------------------------------------
(* Types.                                                                  *)
JobRow == [state : {"none", "available", "running", "stuck", "completed", "discarded"}, tries : 0..MaxAttempts]
JobTable == [Jobs -> JobRow]
TriedIn(J) ==
  \A j \in Jobs :
    /\ J[j].state = "none" => J[j].tries = 0
    /\ J[j].state = "available" => J[j].tries < MaxAttempts

LEMMA RetriedType ==
  ASSUME NEW J \in JobTable, TriedIn(J), NEW j \in Jobs \cup {NoJob}
  PROVE  Retried(J, j) \in JobTable /\ TriedIn(Retried(J, j))
<1> DEFINE s == IF J[j].state = "completed" THEN "completed"
                ELSE IF J[j].tries >= MaxAttempts THEN "discarded" ELSE "available"
<1>1. CASE j = NoJob
  BY <1>1 DEF Retried
<1>2. CASE j \in Jobs
  <2>1. j # NoJob /\ MaxAttempts \in Nat
    BY <1>2, GeoAssumption
  <2>2. J[j] \in JobRow
    BY <1>2 DEF JobTable
  <2>3. Retried(J, j) = [J EXCEPT ![j].state = s]
    BY <2>1, <2>2 DEF Retried, JobTable
  <2>4. s \in {"completed", "discarded", "available"} /\ (s = "available" => J[j].tries < MaxAttempts)
    BY <2>1, <2>2 DEF JobRow
  <2> HIDE DEF s
  <2> QED
    BY <1>2, <2>1, <2>2, <2>3, <2>4 DEF JobTable, JobRow, TriedIn
<1> QED
  BY <1>1, <1>2

LEMMA TakenType ==
  ASSUME job \in JobTable, TriedIn(job), NEW j \in Jobs, job[j].state = "available"
  PROVE  Taken(j) \in JobTable /\ TriedIn(Taken(j))
<1> DEFINE e == [state |-> "running", tries |-> job[j].tries + 1]
<1>1. MaxAttempts \in Nat /\ job[j].tries \in 0..MaxAttempts /\ job[j].tries < MaxAttempts
  BY GeoAssumption DEF JobTable, JobRow, TriedIn
<1>2. e \in JobRow
  BY <1>1 DEF JobRow
<1>3. Taken(j) = [job EXCEPT ![j] = e]
  BY DEF Taken, JobTable
<1> QED
  BY <1>2, <1>3 DEF JobTable, TriedIn

LEMMA JobStep == ASSUME Inv, [Next]_vars PROVE job' \in JobTable /\ Tried'
<1>1. job \in JobTable /\ TriedIn(job) /\ TypeOK
  BY DEF Inv, TypeOK, JobTable, JobRow, Tried, TriedIn
<1>2. \A x \in Execs : exec[x].job \in Jobs \cup {NoJob}
  BY <1>1 DEF TypeOK, Import
<1>3. SUFFICES job' \in JobTable /\ TriedIn(job')
  BY DEF Tried, TriedIn
<1>4. CASE UNCHANGED job
  BY <1>1, <1>4
<1>5. CASE \E j \in Jobs : Enqueue(j)
  <2>1. PICK j \in Jobs : job[j].state = "none" /\ job' = [job EXCEPT ![j].state = "available"]
    BY <1>5 DEF Enqueue
  <2>2. job[j].tries < MaxAttempts
    <3>1. job[j].tries = 0 /\ MaxAttempts \in Nat \ {0}
      BY <1>1, <2>1, GeoAssumption DEF TriedIn
    <3> QED
      BY <3>1
  <2> QED
    BY <1>1, <2>1, <2>2 DEF JobTable, JobRow, TriedIn
<1>6. CASE \E j \in Jobs : Work(j)
  <2>1. PICK j \in Jobs : Work(j)
    BY <1>6
  <2>2. Taken(j) \in JobTable /\ TriedIn(Taken(j))
    BY <1>1, <2>1, TakenType DEF Work
  <2>3. job' = Taken(j) \/ job' = Retried(Taken(j), j)
    BY <2>1 DEF Work, Begin, Resume, Start, InProgress
  <2> QED
    BY <2>2, <2>3, RetriedType
<1>7. CASE \E j \in Jobs : Rescue(j)
  BY <1>1, <1>7, RetriedType DEF Rescue
<1>8. CASE \E x \in Execs : Fail(x) \/ FailFails(x)
  BY <1>1, <1>2, <1>8, RetriedType DEF Fail, FailFails
<1>9. CASE \E x \in Execs : Finish(x) \/ Crash(x)
  <2>1. PICK x \in Execs : job' = Completed(exec[x].job) \/ job' = job
                           \/ (exec[x].job \in Jobs /\ job' = [job EXCEPT ![exec[x].job].state = "stuck"])
    BY <1>2, <1>9 DEF Finish, Crash
  <2>2. \A j \in Jobs : /\ [job EXCEPT ![j].state = "stuck"] \in JobTable
                        /\ [job EXCEPT ![j].state = "completed"] \in JobTable
                        /\ TriedIn([job EXCEPT ![j].state = "stuck"])
                        /\ TriedIn([job EXCEPT ![j].state = "completed"])
    BY <1>1 DEF JobTable, JobRow, TriedIn
  <2> QED
    BY <1>1, <1>2, <2>1, <2>2 DEF Completed
<1>10. CASE Tick \/ UNCHANGED vars \/ \E c \in Cities, p \in Places : Activate(c, p)
  BY <1>4, <1>10 DEF Tick, vars, Activate
<1>11. CASE RunNow
  BY <1>4, <1>11 DEF RunNow, Start
<1>12. ASSUME NEW x \in Execs,
             \/ \E f \in plan.sources : Fetch(x, f)
             \/ CheckShare(x) \/ WriteSource(x) \/ MarkMissing(x) \/ DeleteGone(x) \/ Reconcile(x)
             \/ \E c \in Cities, p \in Places : Link(x, c, p) \/ Conflict(x, c, p)
             \/ Closed(x) \/ LoadFails(x) \/ FinishUnheard(x)
      PROVE  UNCHANGED job
  BY <1>12 DEF Fetch, CheckShare, WriteSource, MarkMissing, DeleteGone, Reconcile, Link, Conflict,
               Closed, LoadFails, Apart, FinishUnheard
<1> QED
  BY <1>4, <1>5, <1>6, <1>7, <1>8, <1>9, <1>10, <1>11, <1>12 DEF Next, Loads

LEMMA TypeStep == ASSUME Inv, [Next]_vars PROVE TypeOK'
<1>1. TypeOK
  BY DEF Inv
<1>2. plan' \in Plans /\ now' \in Nat
  BY <1>1, TableSteps DEF TypeOK
<1>3. faults' \subseteq {"crash", "commit", "fail"} /\ commands' \in Nat /\ links' \in Nat
  <2> DEFINE Counted1 ==
               /\ commands' = commands \/ commands' = commands + 1
               /\ links' = links \/ links' = links + 1
               /\ faults' = faults \/ \E f : Fault(f)
  <2>1. ASSUME Tick \/ RunNow \/ UNCHANGED vars PROVE Counted1
    BY <2>1 DEF Tick, RunNow, vars
  <2>2. ASSUME NEW j \in Jobs, Enqueue(j) \/ Work(j) \/ Rescue(j) PROVE Counted1
    BY <2>2 DEF Enqueue, Work, Rescue
  <2>3. ASSUME NEW c, NEW p, Activate(c, p) PROVE Counted1
    BY <2>3 DEF Activate
  <2>4. ASSUME NEW x \in Execs, Crash(x) PROVE Counted1
    BY <2>4 DEF Crash
  <2>5. ASSUME NEW x \in Execs, Loads(x) PROVE Counted1
    <3>1. CASE (\E f \in plan.sources : Fetch(x, f)) \/ CheckShare(x) \/ WriteSource(x) \/ MarkMissing(x)
      BY <3>1 DEF Fetch, CheckShare, WriteSource, MarkMissing, Apart
    <3>2. CASE DeleteGone(x) \/ Reconcile(x) \/ \E c \in Cities, p \in Places : Link(x, c, p) \/ Conflict(x, c, p)
      BY <3>2 DEF DeleteGone, Reconcile, Link, Conflict, Apart
    <3>3. CASE Finish(x) \/ FinishUnheard(x)
      BY <3>3 DEF Finish, FinishUnheard
    <3>4. CASE Closed(x) \/ LoadFails(x) \/ Fail(x) \/ FailFails(x)
      BY <3>4 DEF Closed, LoadFails, Fail, FailFails, Apart
    <3> QED
      BY <2>5, <3>1, <3>2, <3>3, <3>4 DEF Loads
  <2>6. Counted1
    BY <2>1, <2>2, <2>3, <2>4, <2>5 DEF Next
  <2>7. /\ commands \in Nat /\ links \in Nat /\ faults \subseteq {"crash", "commit", "fail"}
        /\ plan.faults \subseteq {"crash", "commit", "fail"}
    BY <1>1, GeoAssumption DEF TypeOK
  <2>8. faults' \subseteq {"crash", "commit", "fail"}
    <3>1. CASE \E f : Fault(f)
      BY <2>7, <3>1 DEF Fault
    <3> QED
      BY <2>6, <2>7, <3>1
  <2>9. commands' \in Nat /\ links' \in Nat
    <3> HIDE DEF Counted1
    <3>1. /\ commands' = commands \/ commands' = commands + 1
          /\ links' = links \/ links' = links + 1
      BY <2>6 DEF Counted1
    <3> QED
      BY <2>7, <3>1
  <2> QED
    BY <2>8, <2>9
<1>4. journal' \in [Rows -> Entry] /\ told' \in [Rows -> Seq({"succeeded", "failed"})]
  BY JournalSteps DEF Journals, Tolds
<1>5. job' \in [Jobs -> [state : {"none", "available", "running", "stuck", "completed", "discarded"},
                         tries : 0..MaxAttempts]]
  BY JobStep DEF JobTable, JobRow
<1>6. exec' \in [Execs -> Import]
  BY ExecSteps
<1>7. writer' \subseteq Execs /\ Cardinality(writer') <= 1
  <2>1. \/ writer' = writer
        \/ \E x \in Execs : writer' = {x} \/ writer' = writer \ {x}
        \/ writer' = {}
    BY TableSteps DEF Lands, Commits
  <2>2. writer \subseteq Execs /\ Cardinality(writer) <= 1
    BY <1>1 DEF TypeOK
  <2>3. IsFiniteSet(writer)
    <3>1. IsFiniteSet({Worker} \cup {Operator})
      BY FS_Singleton, FS_AddElement
    <3>2. Execs = {Worker} \cup {Operator}
      BY DEF Execs
    <3> QED
      BY <2>2, <3>1, <3>2, FS_Subset
  <2>4. ASSUME NEW x PROVE Cardinality({x}) = 1
    BY FS_Singleton
  <2>5. ASSUME NEW x PROVE Cardinality(writer \ {x}) <= Cardinality(writer)
    BY <2>3, FS_Subset
  <2>6. Cardinality(writer) \in Nat /\ \A x : Cardinality(writer \ {x}) \in Nat
    BY <2>3, FS_CardinalityType, FS_Subset
  <2>7. Cardinality({}) = 0
    BY FS_EmptySet
  <2>8. CASE writer' = writer \/ writer' = {}
    BY <2>2, <2>7, <2>8
  <2>9. CASE \E x \in Execs : writer' = {x} \/ writer' = writer \ {x}
    <3>1. PICK x \in Execs : writer' = {x} \/ writer' = writer \ {x}
      BY <2>9
    <3> QED
      BY <2>2, <2>4, <2>5, <2>6, <3>1
  <2> QED
    BY <2>1, <2>8, <2>9
<1>8. /\ TableType(places') /\ DOMAIN admin1' \subseteq Codes /\ \A k \in DOMAIN admin1' : admin1'[k] \in Names
      /\ city' \in CityTable /\ region' \in RegionTable /\ linked' \in Linkeds /\ won' \in Seq(Feeds)
  <2>1. /\ TableType(places) /\ DOMAIN admin1 \subseteq Codes /\ \A k \in DOMAIN admin1 : admin1[k] \in Names
        /\ city \in CityTable /\ region \in RegionTable /\ linked \in Linkeds /\ won \in Seq(Feeds)
    BY <1>1 DEF TypeOK, TableType, PlaceEntry, CityTable, CityRow, RegionTable, Linkeds
  <2>2. CASE UNCHANGED data
    BY <2>1, <2>2 DEF data, TableType
  <2>3. CASE \E x \in Execs : Lands(x)
    <3>1. PICK x \in Execs : Ready(x) /\ StillMine(x) /\ Commits(x)
      BY <2>3 DEF Lands
    <3> DEFINE f == exec[x].src
    <3>2. /\ f \in Feeds /\ won' = Append(won, f) /\ TableType(places') /\ admin1' = SetOf[f].admin1
          /\ region' = exec[x].regions /\ city' \in CityTable /\ linked' \in Linkeds
      BY <3>1, CommitGives
    <3>3. exec[x].regions \in RegionTable
      BY <1>1 DEF TypeOK, Import, RegionTable
    <3>4. DOMAIN admin1' \subseteq Codes /\ \A k \in DOMAIN admin1' : admin1'[k] \in Names
      BY <3>2, SourceType
    <3> QED
      BY <2>1, <3>2, <3>3, <3>4
  <2>4. CASE \E c \in Cities, p \in Places : Activate(c, p)
    <3>1. PICK c \in Cities, p \in Places : city' = [city EXCEPT ![c].place = p]
                                           /\ UNCHANGED <<places, admin1, region, linked, won>>
      BY <2>4 DEF Activate
    <3>2. city' \in CityTable
      BY <2>1, <3>1 DEF CityTable, CityRow
    <3> QED
      BY <2>1, <3>1, <3>2 DEF TableType
  <2> QED
    BY <2>2, <2>3, <2>4, TableSteps
<1>9. TypeOK' <=>
        /\ plan' \in Plans /\ now' \in Nat
        /\ journal' \in [Rows -> Entry]
        /\ job' \in [Jobs -> [state : {"none", "available", "running", "stuck", "completed", "discarded"},
                              tries : 0..MaxAttempts]]
        /\ exec' \in [Execs -> Import]
        /\ writer' \subseteq Execs /\ Cardinality(writer') <= 1
        /\ DOMAIN places' \subseteq Places /\ DOMAIN admin1' \subseteq Codes
        /\ \A p \in DOMAIN places' :
             places'[p] \in [admin1 : Codes \cup {NoCode}, pop : Nat, missing : BOOLEAN, names : Names]
        /\ \A k \in DOMAIN admin1' : admin1'[k] \in Names
        /\ city' \in [Cities -> [place : Places \cup {NoPlace}, version : Nat, names : Names]]
        /\ region' \in [Regions -> [code : Codes \cup {NoCode}, names : Names]]
        /\ told' \in [Rows -> Seq({"succeeded", "failed"})]
        /\ linked' \in [Cities -> Seq([place : Places, version : Nat])]
        /\ won' \in Seq(Feeds)
        /\ faults' \subseteq {"crash", "commit", "fail"} /\ commands' \in Nat /\ links' \in Nat
  BY DEF TypeOK
<1> QED
  BY <1>2, <1>3, <1>4, <1>5, <1>6, <1>7, <1>8, <1>9, Zenon
     DEF TableType, PlaceEntry, CityTable, CityRow, RegionTable, Linkeds

-----------------------------------------------------------------------------
(* Journal: each row by itself, then one row against another.              *)
RowClosed(r) ==
  /\ told[r] = IF journal[r].status \in {"succeeded", "failed"} THEN <<journal[r].status>> ELSE <<>>
  /\ journal[r].error = "rejected" =>
       \E e \in journal[r].files : Given[e[1]].file[Files[e[2]]] = "rejected"
  /\ journal[r].status \in {"none", "running"} => journal[r].error = ""

LEMMA JournalRows ==
  Journal <=> /\ \A r \in Rows : RowClosed(r)
              /\ \A q, r \in Rows : Open(q) /\ Open(r) => q = r
              /\ \A q, r \in Rows : q < r /\ journal[q].status = "none" => journal[r].status = "none"
              /\ \A q, r \in Rows : q < r /\ journal[r].status # "none" => ~Open(q)
  BY Zenon DEF Journal, ClosedOnce, RowClosed

LEMMA ToldOnce == Append(<<>>, "succeeded") = <<"succeeded">> /\ Append(<<>>, "failed") = <<"failed">>
  OBVIOUS

(* What a step makes of the status and the error of a row.                 *)
Statuses4 == {"none", "running", "succeeded", "failed"}
LEMMA RowStep ==
  ASSUME Inv, [Next]_vars, NEW r \in Rows
  PROVE  /\ RowClosed(r)'
         /\ journal[r].status \in {"succeeded", "failed"} => journal'[r] = journal[r]
         /\ journal[r].status = "running" => journal'[r].status # "none"
<1>1. TypeOK /\ TypeOK'
  BY TypeStep DEF Inv
<1>2. /\ journal[r] \in Entry /\ RowClosed(r) /\ journal[r].status \in Statuses4
      /\ \A x : Clock(x) \in Nat
  BY <1>1, JournalRows, ClockType DEF Inv, TypeOK, Entry, Statuses4
<1>3. CASE journal'[r] = journal[r] /\ told'[r] = told[r]
  BY <1>2, <1>3 DEF RowClosed
<1>4. CASE Restarts
  <2>1. CASE journal'[r] = Restarted(journal[r], Clock(Worker)) /\ Open(r) /\ told' = told
    <3>1. LET k == journal'[r] IN k.status = journal[r].status /\ k.files = journal[r].files /\ k.error = journal[r].error
      BY <1>2, <2>1, EntryFields
    <3>2. journal[r].status = "running"
      BY <2>1 DEF Open, Running
    <3> QED
      BY <1>2, <2>1, <3>1, <3>2 DEF RowClosed
  <2> QED
    BY <1>3, <1>4, <2>1 DEF Restarts
<1>5. CASE Opens
  <2>1. PICK x \in Execs, j \in Jobs \cup {NoJob}, n \in Rows :
       /\ journal[n].status = "none"
       /\ journal'[n] = Opened(journal[n], Clock(x), j) /\ told'[n] = told[n]
       /\ \A q \in Rows \ {n} :
            \/ Open(q) /\ journal'[q] = Stale(journal[q], Clock(x)) /\ told'[q] = Append(told[q], "failed")
            \/ ~Open(q) /\ journal'[q] = journal[q] /\ told'[q] = told[q]
    BY <1>5 DEF Opens
  <2>2. CASE r = n
    <3>0. journal[r].error = "" /\ journal'[r] = Opened(journal[r], Clock(x), j)
      BY <1>2, <2>1, <2>2 DEF RowClosed
    <3>1. journal'[r].status = "running" /\ journal'[r].error = ""
      <4>1. LET k == Opened(journal[r], Clock(x), j) IN k.status = "running" /\ k.error = journal[r].error
        <5> DEFINE e == journal[r]
                   t == Clock(x)
        <5>1. e \in Entry /\ t \in Nat
          BY <1>2
        <5> HIDE DEF e, t
        <5>2. Opened(e, t, j).status = "running" /\ Opened(e, t, j).error = e.error
          BY <5>1, EntryFields
        <5> QED
          BY <5>2 DEF e, t
      <4> QED
        BY <3>0, <4>1
    <3>2. told'[r] = <<>>
      BY <1>2, <2>1, <2>2 DEF RowClosed
    <3> QED
      BY <2>1, <2>2, <3>1, <3>2 DEF RowClosed
  <2>3. CASE Open(r) /\ journal'[r] = Stale(journal[r], Clock(x)) /\ told'[r] = Append(told[r], "failed")
    <3>1. journal'[r].status = "failed" /\ journal'[r].error = "stale"
      BY <1>2, <2>3, EntryFields
    <3>2. journal[r].status = "running" /\ told'[r] = <<"failed">>
      BY <1>2, <2>3, ToldOnce DEF RowClosed, Open, Running
    <3> QED
      BY <3>1, <3>2 DEF RowClosed
  <2> QED
    BY <1>3, <2>1, <2>2, <2>3
<1>6. CASE Breaks
  <2>1. PICK x \in Execs :
       LET r1 == exec[x].row IN
       /\ \A q \in Rows \ {r1} : journal'[q] = journal[q] /\ told'[q] = told[q]
       /\ \/ ~Open(r1) /\ journal'[r1] = journal[r1] /\ told'[r1] = told[r1]
          \/ /\ Open(r1) /\ told'[r1] = Append(told[r1], "failed")
             /\ journal'[r1] = Failed(journal[r1], Clock(x), Evidence(x), exec[x].error)
    BY <1>6 DEF Breaks
  <2> DEFINE S == Evidence(x)
             w == exec[x].error
  <2>2. CASE Open(r) /\ told'[r] = Append(told[r], "failed") /\ journal'[r] = Failed(journal[r], Clock(x), S, w)
    <3>1. w \in Whys /\ exec[x].src \in Feeds \cup {NoFeed} /\ Known(x)
      BY <1>1 DEF Inv, TypeOK, Import, Whys
    <3>2. S \in Evidences /\ (w = "rejected" => \E e \in S : Given[e[1]].file[Files[e[2]]] = "rejected")
      BY <3>1, EvidenceType DEF Known
    <3>3. journal[r].status = "running" /\ told'[r] = <<"failed">>
      BY <1>2, <2>2, ToldOnce DEF RowClosed, Open, Running
    <3> HIDE DEF S, w
    <3>4. LET k == journal'[r] IN k.status = "failed" /\ k.error = w /\ (S # {} => k.files = S)
      BY <1>2, <2>2, <3>1, <3>2, EntryFields
    <3> QED
      BY <3>2, <3>3, <3>4 DEF RowClosed
  <2> QED
    BY <1>3, <2>1, <2>2
<1>7. CASE \E x \in Execs : Lands(x)
  <2>1. PICK x \in Execs : Ready(x) /\ StillMine(x) /\ Commits(x)
    BY <1>7 DEF Lands
  <2> DEFINE f == exec[x].src
             n == exec[x].row
  <2>2. /\ f \in Feeds /\ n \in Rows /\ Open(n)
        /\ \A q \in Rows \ {n} : journal'[q] = journal[q]
        /\ journal'[n] = Succeeds(journal[n], exec[x].at, f, Brings(f))
        /\ told' = [told EXCEPT ![n] = Append(@, "succeeded")]
    BY <2>1, CommitGives
  <2>3. exec[x].at \in Nat /\ Brings(f) \in Nat /\ told \in Tolds
    BY <1>1, <2>2, SourceType DEF TypeOK, Import, Tolds
  <2> HIDE DEF f, n
  <2>4. CASE r = n
    <3>1. LET k == journal'[r] IN k.status = "succeeded" /\ k.error = journal[r].error
      BY <1>2, <2>2, <2>3, <2>4, EntryFields
    <3>2. journal[r].status = "running" /\ journal[r].error = "" /\ told'[r] = <<"succeeded">>
      BY <1>2, <2>2, <2>3, <2>4, ToldOnce DEF RowClosed, Open, Running, Tolds
    <3> QED
      BY <3>1, <3>2 DEF RowClosed
  <2>5. CASE r # n
    <3>1. journal'[r] = journal[r] /\ told'[r] = told[r]
      BY <2>2, <2>3, <2>5 DEF Tolds
    <3> QED
      BY <1>3, <3>1
  <2> QED
    BY <2>4, <2>5
<1>8. CASE UNCHANGED <<journal, told>>
  BY <1>3, <1>8
<1> QED
  BY <1>4, <1>5, <1>6, <1>7, <1>8, JournalSteps

LEMMA StatusStep ==
  ASSUME Inv, [Next]_vars
  PROVE  \/ \A r \in Rows : journal'[r].status = journal[r].status
         \/ \E n \in Rows :
              /\ journal[n].status = "none" /\ \A q \in Rows : q < n => journal[q].status # "none"
              /\ \A r \in Rows \ {n} : journal'[r].status = "failed" \/ journal'[r] = journal[r]
              /\ \A r \in Rows \ {n} : ~Open(r) => journal'[r] = journal[r]
              /\ \A r \in Rows \ {n} : ~Open(r)'
         \/ \E n \in Rows : /\ Open(n) /\ journal'[n].status \in {"succeeded", "failed"}
                            /\ \A r \in Rows \ {n} : journal'[r] = journal[r]
<1>1. TypeOK /\ \A x : Clock(x) \in Nat
  BY ClockType DEF Inv
<1>2. journal \in [Rows -> Entry]
  BY <1>1 DEF TypeOK
<1>3. CASE Restarts
  <2>1. PICK r \in Rows : /\ \A q \in Rows \ {r} : journal'[q] = journal[q]
                          /\ journal'[r] = Restarted(journal[r], Clock(Worker))
    BY <1>3 DEF Restarts
  <2>2. journal'[r].status = journal[r].status
    BY <1>1, <1>2, <2>1, EntryFields
  <2> QED
    BY <2>1, <2>2
<1>4. CASE Opens
  <2>1. PICK x \in Execs, j \in Jobs \cup {NoJob}, n \in Rows :
          /\ journal[n].status = "none" /\ \A q \in Rows : q < n => journal[q].status # "none"
          /\ \A r \in Rows \ {n} :
               \/ Open(r) /\ journal'[r] = Stale(journal[r], Clock(x)) /\ told'[r] = Append(told[r], "failed")
               \/ ~Open(r) /\ journal'[r] = journal[r] /\ told'[r] = told[r]
    BY <1>4, Zenon DEF Opens
  <2>2. \A r \in Rows : Stale(journal[r], Clock(x)).status = "failed"
    BY <1>1, <1>2, EntryFields
  <2> QED
    BY <2>1, <2>2 DEF Open, Running
<1>5. CASE Breaks
  <2>1. PICK x \in Execs :
       LET r1 == exec[x].row IN
       /\ r1 \in Rows /\ \A q \in Rows \ {r1} : journal'[q] = journal[q]
       /\ \/ ~Open(r1) /\ journal'[r1] = journal[r1]
          \/ Open(r1) /\ journal'[r1] = Failed(journal[r1], Clock(x), Evidence(x), exec[x].error)
    BY <1>5 DEF Breaks
  <2> DEFINE S == Evidence(x)
             w == exec[x].error
             r == exec[x].row
  <2>2. S \in Evidences /\ w \in Whys
    BY <1>1, EvidenceType DEF TypeOK, Import, Whys
  <2>3. CASE Open(r) /\ journal'[r] = Failed(journal[r], Clock(x), S, w)
    <3> HIDE DEF S, w, r
    <3>1. r \in Rows => journal'[r].status = "failed"
      BY <1>1, <1>2, <2>2, <2>3, EntryFields
    <3> QED
      BY <2>1, <2>3, <3>1 DEF r
  <2>4. CASE journal'[r] = journal[r]
    BY <2>1, <2>4
  <2> QED
    BY <2>1, <2>3, <2>4
<1>6. CASE \E x \in Execs : Lands(x)
  <2>1. PICK x \in Execs : Ready(x) /\ StillMine(x) /\ Commits(x)
    BY <1>6 DEF Lands
  <2> DEFINE f == exec[x].src
             n == exec[x].row
  <2>2. /\ f \in Feeds /\ n \in Rows /\ Open(n)
        /\ \A q \in Rows \ {n} : journal'[q] = journal[q]
        /\ journal'[n] = Succeeds(journal[n], exec[x].at, f, Brings(f))
    BY <2>1, CommitGives
  <2>3. exec[x].at \in Nat /\ Brings(f) \in Nat
    BY <1>1, <2>2, SourceType DEF TypeOK, Import
  <2> HIDE DEF f, n
  <2>4. journal'[n].status = "succeeded"
    BY <1>2, <2>2, <2>3, EntryFields
  <2> QED
    BY <2>2, <2>4
<1> QED
  BY <1>3, <1>4, <1>5, <1>6, JournalSteps

LEMMA JournalStep == ASSUME Inv, [Next]_vars PROVE Journal'
<1>1. /\ \A q, r \in Rows : Open(q) /\ Open(r) => q = r
      /\ \A q, r \in Rows : q < r /\ journal[q].status = "none" => journal[r].status = "none"
      /\ \A q, r \in Rows : q < r /\ journal[r].status # "none" => ~Open(q)
  BY JournalRows DEF Inv
<1>2. \A r \in Rows : RowClosed(r)'
  BY RowStep
<1>3. \A q, r \in Rows : q < r \/ r < q \/ q = r
  <2>1. MaxRows \in Nat
    BY GeoAssumption
  <2> QED
    BY <2>1 DEF Rows
<1>4. \A r \in Rows : r \in Int
  BY DEF Rows
<1>5. /\ \A q, r \in Rows : Open(q)' /\ Open(r)' => q = r
      /\ \A q, r \in Rows : q < r /\ journal'[q].status = "none" => journal'[r].status = "none"
      /\ \A q, r \in Rows : q < r /\ journal'[r].status # "none" => ~Open(q)'
  <2>1. CASE \A r \in Rows : journal'[r].status = journal[r].status
    BY <1>1, <2>1 DEF Open, Running
  <2>2. CASE \E n \in Rows :
              /\ journal[n].status = "none" /\ \A q \in Rows : q < n => journal[q].status # "none"
              /\ \A r \in Rows \ {n} : journal'[r].status = "failed" \/ journal'[r] = journal[r]
              /\ \A r \in Rows \ {n} : ~Open(r) => journal'[r] = journal[r]
              /\ \A r \in Rows \ {n} : ~Open(r)'
    <3>1. PICK n \in Rows :
              /\ journal[n].status = "none" /\ \A q \in Rows : q < n => journal[q].status # "none"
              /\ \A r \in Rows \ {n} : journal'[r].status = "failed" \/ journal'[r] = journal[r]
              /\ \A r \in Rows \ {n} : ~Open(r) => journal'[r] = journal[r]
              /\ \A r \in Rows \ {n} : ~Open(r)'
      BY <2>2
    <3>2. \A r \in Rows : n < r => journal[r].status = "none"
      BY <1>1, <3>1
    <3>3. \A r \in Rows : Open(r)' => r = n
      BY <3>1
    <3>4. \A r \in Rows : journal'[r].status = "none" => n <= r
      <4> TAKE r \in Rows
      <4> HAVE journal'[r].status = "none"
      <4>1. CASE r = n
        BY <1>4, <4>1
      <4>2. CASE r # n
        <5>1. journal[r].status = "none"
          BY <3>1, <4>2
        <5> QED
          BY <1>3, <1>4, <3>1, <4>2, <5>1
      <4> QED
        BY <4>1, <4>2
    <3>5. \A r \in Rows : n < r => journal'[r].status = "none"
      <4> TAKE r \in Rows
      <4> HAVE n < r
      <4>1. r # n /\ journal[r].status = "none" /\ ~Open(r)
        BY <1>4, <3>2 DEF Open, Running
      <4> QED
        BY <3>1, <4>1
    <3>6. \A q, r \in Rows : n <= q /\ q < r => n < r
      BY <1>4
    <3> QED
      BY <3>3, <3>4, <3>5, <3>6
  <2>3. CASE \E n \in Rows : /\ Open(n) /\ journal'[n].status \in {"succeeded", "failed"}
                             /\ \A r \in Rows \ {n} : journal'[r] = journal[r]
    BY <1>1, <2>3 DEF Open, Running
  <2> QED
    BY <2>1, <2>2, <2>3, StatusStep
<1>6. /\ \A r \in Rows : told'[r] = IF journal'[r].status \in {"succeeded", "failed"}
                                    THEN <<journal'[r].status>> ELSE <<>>
      /\ \A r \in Rows : journal'[r].error = "rejected" =>
           \E e \in journal'[r].files : Given[e[1]].file[Files[e[2]]] = "rejected"
      /\ \A r \in Rows : journal'[r].status \in {"none", "running"} => journal'[r].error = ""
  BY <1>2 DEF RowClosed
<1>7. ClosedOnce'
  BY <1>5, <1>6, Zenon DEF ClosedOnce
<1> QED
  BY <1>5, <1>6, <1>7, Zenon DEF Journal

-----------------------------------------------------------------------------
(* What a step changes of the times and the job of a row.                  *)
LEMMA TimesStep ==
  ASSUME Inv, [Next]_vars, NEW r \in Rows
  PROVE  /\ journal[r].status # "none" => journal'[r].job = journal[r].job
         /\ journal[r].status \notin {"none", "running"} => journal'[r] = journal[r]
         /\ plan.skew = 0 =>
              /\ journal'[r].start = journal[r].start \/ journal'[r].start = now
              /\ journal[r].status = "none" /\ journal'[r].status # "none" => journal'[r].start = now
         /\ \/ journal'[r].start = journal[r].start
            \/ journal[r].status = "none"
            \/ exec[Worker].pc = "idle" /\ journal[r].job \in Jobs
         /\ \/ \E x \in Execs : Lands(x)
            \/ journal'[r].status = "succeeded" => journal'[r] = journal[r]
<1>1. TypeOK /\ journal[r] \in Entry
  BY DEF Inv, TypeOK
<1>2. \A x : Clock(x) \in Nat /\ (plan.skew = 0 => Clock(x) = now)
  BY <1>1, ClockType
<1>3. CASE journal'[r] = journal[r]
  BY <1>3
<1>4. CASE Restarts
  <2>1. PICK j \in Jobs, q \in Rows :
          /\ Open(q) /\ journal[q].job = j
          /\ \A o \in Rows \ {q} : journal'[o] = journal[o]
          /\ journal'[q] = Restarted(journal[q], Clock(Worker))
    BY <1>4 DEF Restarts
  <2>2. CASE r = q
    <3> DEFINE t == Clock(Worker)
               k == Restarted(journal[r], t)
    <3>1. journal'[r] = k /\ t \in Nat /\ (plan.skew = 0 => t = now)
      BY <1>2, <2>1, <2>2
    <3>2. k.status = journal[r].status /\ k.start = t /\ k.job = journal[r].job
      <4> HIDE DEF t
      <4> QED
        BY <1>1, <3>1, EntryFields
    <3>3. exec[Worker].pc = "idle" /\ journal[r].status = "running" /\ journal[r].job \in Jobs
      BY <1>4, <2>1, <2>2 DEF Restarts, Open, Running
    <3> HIDE DEF t, k
    <3> QED
      BY <3>1, <3>2, <3>3
  <2> QED
    BY <1>3, <2>1, <2>2
<1>5. CASE Opens
  <2>1. PICK x \in Execs, j \in Jobs \cup {NoJob}, n \in Rows :
          /\ journal[n].status = "none"
          /\ journal'[n] = Opened(journal[n], Clock(x), j)
          /\ \A q \in Rows \ {n} :
               \/ Open(q) /\ journal'[q] = Stale(journal[q], Clock(x))
               \/ ~Open(q) /\ journal'[q] = journal[q]
    BY <1>5 DEF Opens
  <2> DEFINE t == Clock(x)
  <2>2. t \in Nat /\ (plan.skew = 0 => t = now)
    BY <1>2
  <2>3. CASE r = n
    <3>1. journal'[r] = Opened(journal[r], t, j) /\ journal[r].status = "none"
      BY <2>1, <2>3
    <3> HIDE DEF t
    <3>2. Opened(journal[r], t, j).start = t
      BY <1>1, <2>2, EntryFields
    <3>3. journal'[r].start = t
      BY <3>1, <3>2
    <3>4. Opened(journal[r], t, j).status = "running"
      BY <1>1, <2>2, EntryFields
    <3> QED
      BY <2>2, <3>1, <3>3, <3>4
  <2>4. CASE Open(r) /\ journal'[r] = Stale(journal[r], t)
    <3> DEFINE k == Stale(journal[r], t)
    <3>1. k.status = "failed" /\ k.start = journal[r].start /\ k.job = journal[r].job
      <4> HIDE DEF t
      <4> QED
        BY <1>1, <2>2, EntryFields
    <3>2. journal[r].status = "running" /\ journal'[r] = k
      BY <2>4 DEF Open, Running
    <3> HIDE DEF k
    <3> QED
      BY <3>1, <3>2
  <2> QED
    BY <1>3, <2>1, <2>3, <2>4
<1>6. CASE Breaks
  <2>1. PICK x \in Execs :
          LET q == exec[x].row IN
          /\ \A o \in Rows \ {q} : journal'[o] = journal[o]
          /\ \/ ~Open(q) /\ journal'[q] = journal[q]
             \/ Open(q) /\ journal'[q] = Failed(journal[q], Clock(x), Evidence(x), exec[x].error)
    BY <1>6 DEF Breaks
  <2> DEFINE t == Clock(x)
             S == Evidence(x)
             w == exec[x].error
             k == Failed(journal[r], t, S, w)
  <2>2. t \in Nat /\ S \in Evidences /\ w \in Whys
    BY <1>1, <1>2, EvidenceType DEF TypeOK, Import, Whys
  <2>3. CASE Open(r) /\ journal'[r] = k
    <3>1. k.status = "failed" /\ k.start = journal[r].start /\ k.job = journal[r].job
      <4> HIDE DEF t, S, w
      <4> QED
        BY <1>1, <2>2, EntryFields
    <3>2. journal[r].status = "running"
      BY <2>3 DEF Open, Running
    <3> HIDE DEF k
    <3> QED
      BY <2>3, <3>1, <3>2
  <2> QED
    BY <1>3, <2>1, <2>3
<1>7. CASE \E x \in Execs : Lands(x)
  <2>1. PICK x \in Execs : Ready(x) /\ StillMine(x) /\ Commits(x)
    BY <1>7 DEF Lands
  <2> DEFINE f == exec[x].src
             q == exec[x].row
             t == exec[x].at
             n == Brings(f)
             k == Succeeds(journal[r], t, f, n)
  <2>2. /\ f \in Feeds /\ q \in Rows /\ Open(q)
        /\ \A o \in Rows \ {q} : journal'[o] = journal[o]
        /\ journal'[q] = Succeeds(journal[q], t, f, n)
    BY <2>1, CommitGives
  <2>3. t \in Nat /\ n \in Nat
    BY <1>1, <2>2, SourceType DEF TypeOK, Import
  <2>4. CASE r = q
    <3>1. k.start = journal[r].start /\ k.job = journal[r].job
      <4> HIDE DEF t, f, n
      <4> QED
        BY <1>1, <2>2, <2>3, EntryFields
    <3>2. journal'[r] = k /\ journal[r].status = "running"
      BY <2>2, <2>4 DEF Open, Running
    <3> HIDE DEF k
    <3> QED
      BY <1>7, <3>1, <3>2
  <2> QED
    BY <1>3, <2>2, <2>4
<1>8. CASE UNCHANGED journal
  BY <1>3, <1>8
<1> QED
  BY <1>4, <1>5, <1>6, <1>7, <1>8, JournalSteps

(* What an import keeps while it advances.                                 *)
LEMMA AdvancesGives ==
  ASSUME Inv, NEW x \in Execs, Advances(x)
  PROVE  LET d == exec[x]
             e == exec'[x] IN
         /\ e.error = d.error
         /\ \/ /\ d.pc = "fetch" /\ e.pc = "check" /\ writer' = writer
               /\ e.src \in Feeds /\ Admin1Refs(SetOf[e.src]) /\ e.at = Clock(x)
               /\ e.todo = d.todo /\ e.done = d.done /\ e.said = d.said
            \/ /\ e.src = d.src /\ e.at = d.at /\ d.pc \in Parsed \ {"link"} /\ e.done = d.done /\ e.said = d.said
               /\ \/ /\ d.pc = "check" /\ e.pc = "write" /\ ShareKept(Brought(x)) /\ e.todo = d.todo
                  \/ d.pc = "write" /\ e.pc = "mark" /\ writer' = {x} /\ e.todo = d.todo
                  \/ /\ d.pc = "mark" /\ e.pc = "gone" /\ writer' = writer /\ e.todo = d.todo
                     /\ e.held = {p \in Lost(x) : ~Free(p)}
                  \/ /\ d.pc = "gone" /\ e.pc = "match" /\ writer' = writer /\ e.todo = d.todo
                     /\ e.held = d.held /\ e.gone = {p \in Lost(x) : Free(p)}
                  \/ /\ d.pc = "match" /\ e.pc = "link" /\ writer' = writer
                     /\ e.held = d.held /\ e.gone = d.gone
                     /\ e.todo = MatchesOf(Candidates(x)) /\ e.regions = region
            \/ /\ e.src = d.src /\ e.at = d.at /\ d.pc = "link" /\ e.pc = "link" /\ writer' = writer
               /\ e.held = d.held /\ e.gone = d.gone
               /\ \/ \E c \in Cities, p \in Places :
                       /\ <<c, p>> \in d.todo /\ ~ToTaken(c, p)
                       /\ e.todo = d.todo \ {<<c, p>>} /\ e.done = d.done \cup {<<c, p>>}
                       /\ e.said = d.said \cup {<<c, p>>} /\ Codes1(e.regions)
                  \/ /\ e.done = d.done /\ e.said = d.said /\ e.regions = d.regions
                     /\ e.todo \subseteq d.todo
<1>1. exec[x] \in Import
  BY DEF Inv, TypeOK
<1>2. CASE Accepts(x)
  <2> DEFINE t == Clock(x)
  <2>1. PICK f \in Feeds : exec'[x] = [exec[x] EXCEPT !.pc = "check", !.src = f, !.at = t] /\ Admin1Refs(SetOf[f])
    BY <1>2 DEF Accepts
  <2> HIDE DEF t
  <2>2. LET e == exec'[x] IN
        /\ e.pc = "check" /\ e.src = f /\ e.at = t /\ e.error = exec[x].error
        /\ e.todo = exec[x].todo /\ e.done = exec[x].done /\ e.said = exec[x].said
    BY <1>1, <2>1 DEF Import
  <2> QED
    BY <1>2, <2>1, <2>2 DEF Accepts, t
<1>3. CASE /\ exec[x].pc = "check" /\ exec'[x] = [exec[x] EXCEPT !.pc = "write"]
           /\ ShareKept(Brought(x)) /\ writer' = writer
  <2>1. LET e == exec'[x] IN
        /\ e.pc = "write" /\ e.src = exec[x].src /\ e.at = exec[x].at /\ e.error = exec[x].error
        /\ e.todo = exec[x].todo /\ e.done = exec[x].done /\ e.said = exec[x].said
    BY <1>1, <1>3 DEF Import
  <2> QED
    BY <1>3, <2>1 DEF Parsed, Inside
<1>4. CASE exec[x].pc = "write" /\ exec'[x] = [exec[x] EXCEPT !.pc = "mark"] /\ writer' = {x}
  <2>1. LET e == exec'[x] IN
        /\ e.pc = "mark" /\ e.src = exec[x].src /\ e.at = exec[x].at /\ e.error = exec[x].error
        /\ e.todo = exec[x].todo /\ e.done = exec[x].done /\ e.said = exec[x].said
    BY <1>1, <1>4 DEF Import
  <2> QED
    BY <1>4, <2>1 DEF Parsed, Inside
<1>5. CASE /\ exec[x].pc = "mark" /\ writer' = writer
           /\ exec'[x] = [exec[x] EXCEPT !.pc = "gone", !.held = {p \in Lost(x) : ~Free(p)}]
  <2> DEFINE H == {p \in Lost(x) : ~Free(p)}
  <2>1. exec'[x] = [exec[x] EXCEPT !.pc = "gone", !.held = H]
    BY <1>5
  <2> HIDE DEF H
  <2>2. LET e == exec'[x] IN
        /\ e.pc = "gone" /\ e.src = exec[x].src /\ e.at = exec[x].at /\ e.error = exec[x].error
        /\ e.todo = exec[x].todo /\ e.done = exec[x].done /\ e.said = exec[x].said /\ e.held = H
    BY <1>1, <2>1 DEF Import
  <2> QED
    BY <1>5, <2>2 DEF Parsed, Inside, H
<1>6. CASE /\ exec[x].pc = "gone" /\ writer' = writer
           /\ exec'[x] = [exec[x] EXCEPT !.pc = "match", !.gone = {p \in Lost(x) : Free(p)}]
  <2> DEFINE G == {p \in Lost(x) : Free(p)}
  <2>1. exec'[x] = [exec[x] EXCEPT !.pc = "match", !.gone = G]
    BY <1>6
  <2> HIDE DEF G
  <2>2. LET e == exec'[x] IN
        /\ e.pc = "match" /\ e.src = exec[x].src /\ e.at = exec[x].at /\ e.error = exec[x].error
        /\ e.todo = exec[x].todo /\ e.done = exec[x].done /\ e.said = exec[x].said
        /\ e.held = exec[x].held /\ e.gone = G
    BY <1>1, <2>1 DEF Import
  <2> QED
    BY <1>6, <2>2 DEF Parsed, Inside, G
<1>7. CASE /\ exec[x].pc = "match" /\ writer' = writer
           /\ exec'[x] = [exec[x] EXCEPT !.pc = "link", !.todo = MatchesOf(Candidates(x)), !.regions = region]
  <2> DEFINE M == MatchesOf(Candidates(x))
  <2>1. exec'[x] = [exec[x] EXCEPT !.pc = "link", !.todo = M, !.regions = region]
    BY <1>7
  <2> HIDE DEF M
  <2>2. LET e == exec'[x] IN
        /\ e.pc = "link" /\ e.src = exec[x].src /\ e.at = exec[x].at /\ e.error = exec[x].error
        /\ e.todo = M /\ e.done = exec[x].done /\ e.said = exec[x].said
        /\ e.held = exec[x].held /\ e.gone = exec[x].gone /\ e.regions = region
    BY <1>1, <2>1 DEF Import
  <2> QED
    BY <1>7, <2>2 DEF Parsed, Inside, M
<1>8. CASE /\ exec[x].pc = "link" /\ writer' = writer
           /\ \E c \in Cities, p \in Places :
                LET R == LinkedRegion(x, c, Table(x)[p].admin1) IN
                /\ <<c, p>> \in exec[x].todo /\ ~ToTaken(c, p)
                /\ exec'[x] = [exec[x] EXCEPT !.todo = exec[x].todo \ {<<c, p>>}, !.done = exec[x].done \cup {<<c, p>>},
                                              !.said = exec[x].said \cup {<<c, p>>}, !.regions = R]
                /\ Codes1(R)
  <2>1. PICK c \in Cities, p \in Places :
          LET R == LinkedRegion(x, c, Table(x)[p].admin1) IN
          /\ <<c, p>> \in exec[x].todo /\ ~ToTaken(c, p)
          /\ exec'[x] = [exec[x] EXCEPT !.todo = exec[x].todo \ {<<c, p>>}, !.done = exec[x].done \cup {<<c, p>>},
                                        !.said = exec[x].said \cup {<<c, p>>}, !.regions = R]
          /\ Codes1(R)
    BY <1>8
  <2> DEFINE R == LinkedRegion(x, c, Table(x)[p].admin1)
             m == <<c, p>>
  <2>2. /\ m \in exec[x].todo /\ Codes1(R)
        /\ exec'[x] = [exec[x] EXCEPT !.todo = exec[x].todo \ {m}, !.done = exec[x].done \cup {m},
                                      !.said = exec[x].said \cup {m}, !.regions = R]
    BY <2>1
  <2> HIDE DEF R, m
  <2>3. LET e == exec'[x] IN
        /\ e.pc = exec[x].pc /\ e.src = exec[x].src /\ e.at = exec[x].at /\ e.error = exec[x].error
        /\ e.todo = exec[x].todo \ {m} /\ e.done = exec[x].done \cup {m} /\ e.said = exec[x].said \cup {m}
        /\ e.held = exec[x].held /\ e.gone = exec[x].gone /\ e.regions = R
    BY <1>1, <2>2 DEF Import
  <2> QED
    BY <1>8, <2>1, <2>2, <2>3 DEF m
<1>9. CASE /\ exec[x].pc = "link" /\ writer' = writer
           /\ \E m : exec'[x] = [exec[x] EXCEPT !.todo = exec[x].todo \ {m}]
  <2>1. PICK m : exec'[x] = [exec[x] EXCEPT !.todo = exec[x].todo \ {m}]
    BY <1>9
  <2>2. LET e == exec'[x] IN
        /\ e.pc = exec[x].pc /\ e.src = exec[x].src /\ e.at = exec[x].at /\ e.error = exec[x].error
        /\ e.todo = exec[x].todo \ {m} /\ e.done = exec[x].done /\ e.said = exec[x].said
        /\ e.held = exec[x].held /\ e.gone = exec[x].gone /\ e.regions = exec[x].regions
    BY <1>1, <2>1 DEF Import
  <2> QED
    BY <1>9, <2>2
<1> QED
  BY <1>2, <1>3, <1>4, <1>5, <1>6, <1>7, <1>8, <1>9 DEF Advances
-----------------------------------------------------------------------------
(* What an import knows stays so.                                          *)
LEMMA GaveUpFields ==
  ASSUME NEW x, NEW f, NEW w
  PROVE  LET e == GaveUp(x, f, w) IN
         /\ e.pc = "fail" /\ e.src = f /\ e.error = w /\ e.job = exec[x].job /\ e.row = exec[x].row
         /\ e.todo = {} /\ e.done = {} /\ e.said = {}
  BY DEF GaveUp, Idle
LEMMA BegunFields ==
  \A j : \A r : /\ Begun(j, r).pc = "fetch" /\ Begun(j, r).error = ""
                /\ Begun(j, r).job = j /\ Begun(j, r).row = r
  BY DEF Begun, Idle
LEMMA BegunPairs ==
  \A j : \A r : Begun(j, r).todo = {} /\ Begun(j, r).done = {} /\ Begun(j, r).said = {}
  BY DEF Begun, Idle
LEMMA IdleFields ==
  Idle.pc = "idle" /\ Idle.error = "" /\ Idle.todo = {} /\ Idle.done = {} /\ Idle.said = {}
  BY DEF Idle

LEMMA KnownStep == ASSUME Inv, [Next]_vars, NEW x \in Execs PROVE Known(x)'
<1>1. Known(x) /\ GoesOn(x) /\ TypeOK /\ Worker # Operator
  BY ExecSteps, GeoAssumption DEF Inv
<1>2. \A r \in Rows : journal[r].status # "none" =>
                      journal'[r].status # "none" /\ journal'[r].job = journal[r].job
  <2> TAKE r \in Rows
  <2> HAVE journal[r].status # "none"
  <2>1. journal[r].status \in Statuses4
    BY <1>1 DEF TypeOK, Entry, Statuses4
  <2>2. journal'[r].status # "none"
    BY <2>1, RowStep DEF Statuses4
  <2> QED
    BY <2>2, TimesStep
<1>3. CASE exec'[x] = exec[x]
  BY <1>1, <1>2, <1>3 DEF Known
<1>4. CASE exec'[x] = Idle
  <2>1. exec'[x].pc = "idle" /\ exec'[x].error = ""
    BY <1>4, IdleFields
  <2> QED
    BY <2>1 DEF Known, Parsed, Inside
<1>5. CASE GivesUp(x)
  <2>1. PICK f \in Feeds \cup {NoFeed}, w \in Whys :
          exec'[x] = GaveUp(x, f, w) /\ (w = "rejected" => f \in Feeds /\ Rejected(Given[f]))
    BY <1>5 DEF GivesUp
  <2>2. LET e == exec'[x] IN
        e.pc = "fail" /\ e.src = f /\ e.error = w /\ e.job = exec[x].job /\ e.row = exec[x].row
    BY <2>1, GaveUpFields
  <2>3. exec[x].pc # "idle"
    BY <1>5 DEF GivesUp
  <2> QED
    BY <1>1, <1>2, <2>1, <2>2, <2>3 DEF Known, Parsed, Inside
<1>6. CASE Starts(x)
  <2>1. PICK j \in Jobs \cup {NoJob}, r \in Rows :
          /\ exec'[x] = Begun(j, r) /\ journal'[r].status = "running" /\ journal'[r].job = j
          /\ j = NoJob <=> x = Operator
    BY <1>6 DEF Starts
  <2>2. LET e == Begun(j, r) IN e.pc = "fetch" /\ e.error = "" /\ e.job = j /\ e.row = r
    BY BegunFields
  <2> QED
    BY <2>1, <2>2 DEF Known, Parsed, Inside
<1>7. CASE /\ Advances(x) /\ UNCHANGED journal
           /\ exec'[x].job = exec[x].job /\ exec'[x].row = exec[x].row
  <2>1. LET d == exec[x]
            e == exec'[x] IN
        /\ e.error = d.error /\ d.pc \in {"fetch"} \cup Parsed
        /\ \/ e.src \in Feeds /\ Admin1Refs(SetOf[e.src])
           \/ e.src = d.src /\ d.pc \in Parsed
    BY <1>7, AdvancesGives DEF Parsed, Inside
  <2>2. exec[x].pc # "idle" /\ exec[x].error = ""
    BY <1>1, <2>1 DEF Known, Parsed, Inside
  <2> QED
    BY <1>1, <1>7, <2>1, <2>2 DEF Known
<1> QED
  BY <1>1, <1>3, <1>4, <1>5, <1>6, <1>7 DEF GoesOn

-----------------------------------------------------------------------------
(* Cities keep their places, so a place that is held stays held.           *)
LEMMA PlacesStay ==
  ASSUME Inv, [Next]_vars
  PROVE  /\ \A c \in Cities : city[c].place # NoPlace => city'[c].place = city[c].place
         /\ \A p \in Places : ~Free(p) => ~Free(p)'
<1>1. TypeOK
  BY DEF Inv
<1>2. \A c \in Cities : city[c].place # NoPlace => city'[c].place = city[c].place
  <2>1. CASE UNCHANGED data
    BY <2>1 DEF data
  <2>2. CASE \E x \in Execs : Lands(x)
    <3>1. PICK x \in Execs : Ready(x) /\ StillMine(x) /\ Commits(x)
      BY <2>2 DEF Lands
    <3>2. \A c \in Cities : (\A m \in exec[x].done : m[1] # c) => city'[c] = city[c]
      BY <3>1, CommitGives
    <3>3. \A m \in exec[x].done : city[m[1]].place = NoPlace
      BY DEF Inv, Paired, ToTaken
    <3> QED
      BY <3>2, <3>3
  <2>3. CASE \E c \in Cities, p \in Places : Activate(c, p)
    <3>1. PICK c \in Cities, p \in Places : city[c].place = NoPlace /\ city' = [city EXCEPT ![c].place = p]
      BY <2>3 DEF Activate
    <3> QED
      BY <1>1, <3>1 DEF TypeOK
  <2> QED
    BY <2>1, <2>2, <2>3, TableSteps
<1>3. \A p \in Places : p # NoPlace
  BY TablesAssumption
<1> QED
  BY <1>2, <1>3 DEF Free, Holders

LEMMA WritingStep == ASSUME Inv, [Next]_vars, NEW x \in Execs PROVE Writing(x)'
<1>1. TypeOK /\ GoesOn(x) /\ Writing(x)
  BY ExecSteps DEF Inv
<1>2. CASE exec'[x].pc \notin Inside
  BY <1>2 DEF Writing, Inside
<1>3. CASE exec'[x] = exec[x] /\ exec[x].pc \in Inside
  <2>1. writer = {x}
    BY <1>1, <1>3 DEF Writing
  <2>2. ~Lands(x) /\ ~ \E y \in Execs : Lands(y)
    <3>1. ASSUME NEW y \in Execs, Lands(y) PROVE FALSE
      <4>1. writer = {y} /\ exec'[y].pc \in {"idle", "fail"}
        BY <3>1, CommitGives DEF Lands
      <4> QED
        BY <1>3, <2>1, <4>1 DEF Inside
    <3> QED
      BY <3>1
  <2>3. writer' = writer
    <3>1. \/ writer' = writer
          \/ \E y \in Execs : writer' = writer \ {y} /\ exec'[y].pc \in {"idle", "fail"}
      BY <2>1, <2>2, TableSteps
    <3> QED
      BY <1>3, <2>1, <3>1 DEF Inside
  <2>4. places' = places
    BY <2>2, TableSteps DEF data, Activate
  <2>5. Lost(x)' = Lost(x)
    BY <1>3, <2>4 DEF Lost, Brought
  <2>6. Lost(x) \subseteq Places
    BY <1>1 DEF Lost, TypeOK
  <2> QED
    BY <1>1, <1>3, <2>1, <2>3, <2>5, <2>6, PlacesStay DEF Writing
<1>4. CASE Advances(x) /\ UNCHANGED data /\ exec'[x].pc \in Inside
  <2>1. Lost(x)' = Lost(x) /\ \A p : Free(p)' = Free(p)
    <3>1. exec[x].pc # "fetch" /\ exec'[x].src = exec[x].src
      BY <1>4, AdvancesGives DEF Inside
    <3> QED
      BY <1>4, <3>1 DEF Lost, Brought, data, Free, Holders
  <2> DEFINE d == exec[x]
             e == exec'[x]
  <2>2. \/ d.pc = "write" /\ e.pc = "mark" /\ writer' = {x}
        \/ d.pc = "mark" /\ e.pc = "gone" /\ writer' = writer /\ e.held = {p \in Lost(x) : ~Free(p)}
        \/ /\ d.pc = "gone" /\ e.pc = "match" /\ writer' = writer
           /\ e.held = d.held /\ e.gone = {p \in Lost(x) : Free(p)}
        \/ /\ d.pc \in {"match", "link"} /\ e.pc = "link" /\ writer' = writer
           /\ e.held = d.held /\ e.gone = d.gone
    BY <1>4, AdvancesGives DEF Inside
  <2> QED
    BY <1>1, <2>1, <2>2 DEF Writing, Inside
<1>5. exec'[x] = Idle \/ GivesUp(x) \/ Starts(x) => exec'[x].pc \notin Inside
  <2>1. exec'[x] = Idle => exec'[x].pc = "idle"
    BY IdleFields
  <2>2. GivesUp(x) => exec'[x].pc = "fail"
    BY GaveUpFields DEF GivesUp
  <2>3. Starts(x) => exec'[x].pc = "fetch"
    <3>1. \A j, r : Begun(j, r).pc = "fetch"
      BY BegunFields
    <3> QED
      BY <3>1 DEF Starts
  <2> QED
    BY <2>1, <2>2, <2>3 DEF Inside
<1> QED
  BY <1>1, <1>2, <1>3, <1>4, <1>5 DEF GoesOn

(* What is stored is the last source.                                      *)
LEMMA WholeStep == ASSUME Inv, [Next]_vars PROVE Whole'
<1>1. TypeOK /\ Whole /\ TableType(places)
  BY DEF Inv, TypeOK, TableType, PlaceEntry
<1>2. CASE UNCHANGED <<places, admin1, won>>
  <2>1. \A p \in Places : ~Free(p) => ~Free(p)'
    BY PlacesStay
  <2>2. DOMAIN places \subseteq Places
    BY <1>1 DEF TypeOK
  <2> QED
    BY <1>1, <1>2, <2>1, <2>2 DEF Whole
<1>3. CASE \E x \in Execs : Lands(x)
  <2>1. PICK x \in Execs : Ready(x) /\ StillMine(x) /\ Commits(x)
    BY <1>3 DEF Lands
  <2> DEFINE f == exec[x].src
             S == SetOf[f]
             rows == S.places
             T == Table(x)
  <2>2. /\ f \in Feeds /\ won' = Append(won, f) /\ places' = T /\ admin1' = S.admin1
    BY <2>1, CommitGives
  <2>3. /\ exec[x].held \subseteq Lost(x) /\ exec[x].gone \subseteq Lost(x)
        /\ \A p \in Lost(x) \ exec[x].gone : ~Free(p)
        /\ Admin1Refs(S)
    <3>1. exec[x].pc = "link" /\ Writing(x) /\ Known(x)
      BY <2>1 DEF Ready, At, Inv
    <3> QED
      BY <3>1 DEF Writing, Known, Parsed, Inside
  <2>4. /\ DOMAIN T = (DOMAIN rows \cup DOMAIN places) \ exec[x].gone
        /\ DOMAIN rows \subseteq DOMAIN T
        /\ \A p \in DOMAIN rows : T[p] = Entered(rows, p)
    BY <1>1, <2>2, <2>3, TableGives DEF Brought
  <2>5. Lost(x) = DOMAIN places \ DOMAIN rows /\ Lost(x) \subseteq Places
    BY <1>1 DEF Lost, Brought, TypeOK
  <2>6. \A p \in DOMAIN T \ DOMAIN rows : ~Free(p)'
    BY <2>3, <2>4, <2>5, PlacesStay
  <2>7. \A p \in DOMAIN rows : rows[p].admin1 \in DOMAIN S.admin1 \cup {NoCode}
    BY <2>3 DEF Admin1Refs
  <2>8. won' # <<>> /\ Last(won') = f
    <3>1. won \in Seq(Feeds)
      BY <1>1 DEF TypeOK
    <3> HIDE DEF f
    <3> QED
      BY <2>2, <3>1 DEF Last
  <2> HIDE DEF f, T, rows
  <2>9. \A p \in DOMAIN rows :
          /\ p \in DOMAIN T /\ T[p].names = rows[p].names /\ ~T[p].missing
          /\ T[p].admin1 \in DOMAIN S.admin1 \cup {NoCode}
    <3> TAKE p \in DOMAIN rows
    <3> DEFINE k == [admin1 |-> rows[p].admin1, pop |-> rows[p].pop, missing |-> FALSE, names |-> rows[p].names]
    <3>1. T[p] = k
      BY <2>4 DEF Entered
    <3>2. k.names = rows[p].names /\ k.missing = FALSE /\ k.admin1 = rows[p].admin1
      OBVIOUS
    <3> HIDE DEF k
    <3> QED
      BY <2>4, <2>7, <3>1, <3>2
  <2> QED
    BY <2>2, <2>6, <2>8, <2>9 DEF Whole, rows
<1>4. (\E c \in Cities, p \in Places : Activate(c, p)) \/ UNCHANGED data => UNCHANGED <<places, admin1, won>>
  BY DEF Activate, data
<1> QED
  BY <1>2, <1>3, <1>4, TableSteps

-----------------------------------------------------------------------------
(* The share was checked against the last success there still is.          *)
LEMMA SuccessStep ==
  ASSUME Inv, [Next]_vars
  PROVE  \/ \E x \in Execs : Lands(x)
         \/ /\ won' = won /\ Succeeded(journal') = Succeeded(journal)
            /\ \A r \in Succeeded(journal) : journal'[r] = journal[r]
<1>1. DOMAIN journal = Rows /\ DOMAIN journal' = Rows
  BY TypeStep DEF Inv, TypeOK
<1>2. CASE ~ \E x \in Execs : Lands(x)
  <2>1. won' = won
    BY <1>2, TableSteps DEF data, Activate
  <2>2. \A r \in Rows : /\ journal[r].status = "succeeded" => journal'[r] = journal[r]
                        /\ journal'[r].status = "succeeded" => journal'[r] = journal[r]
    BY <1>2, TimesStep
  <2> QED
    BY <1>1, <2>1, <2>2 DEF Succeeded
<1> QED
  BY <1>2

LEMMA LandRow ==
  ASSUME Inv, [Next]_vars, NEW x \in Execs, Lands(x)
  PROVE  LET f == exec[x].src
             n == exec[x].row IN
         /\ f \in Feeds /\ n \in Rows /\ Open(n) /\ exec[x].pc = "link"
         /\ won \in Seq(Feeds) /\ won' = Append(won, f) /\ now' = now /\ plan' = plan
         /\ journal'[n].status = "succeeded" /\ journal'[n].places = Brings(f)
         /\ journal'[n].start = journal[n].start /\ journal'[n].fin = exec[x].at
         /\ \A q \in Rows \ {n} : journal'[q] = journal[q]
         /\ Succeeded(journal') = Succeeded(journal) \cup {n}
         /\ \A q \in Rows : n < q => journal[q].status = "none"
         /\ \A q \in Succeeded(journal) : q \in Rows /\ q < n
<1> DEFINE f == exec[x].src
           n == exec[x].row
           t == exec[x].at
           b == Brings(f)
<1>1. TypeOK /\ DOMAIN journal = Rows /\ DOMAIN journal' = Rows /\ won \in Seq(Feeds)
  BY TypeStep DEF Inv, TypeOK
<1>2. /\ f \in Feeds /\ n \in Rows /\ Open(n) /\ exec[x].pc = "link" /\ won' = Append(won, f)
      /\ \A q \in Rows \ {n} : journal'[q] = journal[q]
      /\ journal'[n] = Succeeds(journal[n], t, f, b) /\ now' = now /\ plan' = plan
  BY CommitGives DEF Lands, Ready, At
<1>3. t \in Nat /\ b \in Nat /\ journal[n] \in Entry
  BY <1>1, <1>2, SourceType DEF TypeOK, Import
<1> HIDE DEF f, n, t, b
<1>4. /\ journal'[n].status = "succeeded" /\ journal'[n].places = b
      /\ journal'[n].start = journal[n].start /\ journal'[n].fin = t
  BY <1>2, <1>3, EntryFields
<1>5. Succeeded(journal') = Succeeded(journal) \cup {n}
  BY <1>1, <1>2, <1>4 DEF Succeeded
<1>6. \A q \in Rows : n < q => journal[q].status = "none"
  BY <1>2, JournalRows DEF Inv
<1>7. \A q \in Succeeded(journal) : q \in Rows /\ q < n
  <2> TAKE q \in Succeeded(journal)
  <2>1. q \in Rows /\ journal[q].status = "succeeded" /\ journal[n].status = "running"
    BY <1>1, <1>2 DEF Succeeded, Open, Running
  <2>2. ~(n < q) /\ n # q
    BY <1>6, <2>1
  <2> QED
    BY <1>2, <2>1, <2>2 DEF Rows
<1> QED
  BY <1>1, <1>2, <1>4, <1>5, <1>6, <1>7 DEF f, n, t, b

LEMMA CountedStep == ASSUME Inv, [Next]_vars PROVE Counted'
<1>1. Counted
  BY DEF Inv, Dated
<1>2. CASE /\ won' = won /\ Succeeded(journal') = Succeeded(journal)
           /\ \A r \in Succeeded(journal) : journal'[r] = journal[r]
  BY <1>1, <1>2 DEF Counted, LastRow
<1>3. CASE \E x \in Execs : Lands(x)
  <2>1. PICK x \in Execs : Lands(x)
    BY <1>3
  <2> DEFINE f == exec[x].src
             n == exec[x].row
  <2>2. /\ f \in Feeds /\ n \in Rows /\ won \in Seq(Feeds) /\ won' = Append(won, f)
        /\ journal'[n].places = Brings(f)
        /\ Succeeded(journal') = Succeeded(journal) \cup {n}
        /\ \A q \in Succeeded(journal) : q \in Rows /\ q < n
    BY <2>1, LandRow
  <2> HIDE DEF f, n
  <2>3. won' # <<>> /\ Last(won') = f
    BY <2>2 DEF Last
  <2>4. \A q \in Succeeded(journal') : q <= n
    BY <2>2 DEF Rows
  <2>5. n \in Rows /\ n \in Succeeded(journal') /\ journal'[n].places = Brings(Last(won'))
    BY <2>2, <2>3
  <2> QED
    BY <2>3, <2>4, <2>5 DEF Counted, LastRow
<1> QED
  BY <1>2, <1>3, SuccessStep

LEMMA OrderedStep ==
  ASSUME Inv, [Next]_vars, plan.skew = 0
  PROVE  Ordered'
<1>1. TypeOK /\ TypeOK' /\ Ordered
  BY TypeStep DEF Inv, Dated
<1>2. now \in Nat /\ now' \in Nat /\ now <= now'
  <2>1. now' = now \/ now' = now + 1
    BY TableSteps
  <2> QED
    BY <1>1, <2>1 DEF TypeOK
<1>3. /\ \A r \in Rows : journal[r].start \in Nat /\ journal[r].fin \in Nat
      /\ \A r \in Rows : journal'[r].start \in Nat /\ journal'[r].fin \in Nat
      /\ DOMAIN journal = Rows /\ DOMAIN journal' = Rows
  BY <1>1 DEF TypeOK, Entry
<1>4. \A r \in Rows : /\ journal'[r].start = journal[r].start \/ journal'[r].start = now
                      /\ journal[r].status = "none" /\ journal'[r].status # "none" => journal'[r].start = now
  BY TimesStep
<1>5. \A r \in Rows : journal'[r].start <= now'
  BY <1>1, <1>2, <1>3, <1>4 DEF Ordered
<1>6. \A q \in Succeeded(journal) : journal'[q] = journal[q]
  BY <1>3, TimesStep DEF Succeeded
<1>7. \A q \in Succeeded(journal), r \in Rows :
        q < r /\ journal'[r].status # "none" => journal'[q].fin <= journal'[r].start
  <2> TAKE q \in Succeeded(journal), r \in Rows
  <2> HAVE q < r /\ journal'[r].status # "none"
  <2>1. q \in Rows /\ journal'[q] = journal[q] /\ journal[q].fin <= now
    BY <1>1, <1>3, <1>6 DEF Ordered, Succeeded
  <2>2. CASE journal'[r].start = now
    BY <2>1, <2>2
  <2>3. CASE journal'[r].start = journal[r].start /\ journal[r].status # "none"
    BY <1>1, <2>1, <2>3 DEF Ordered
  <2> QED
    BY <1>4, <2>2, <2>3
<1>8. CASE Succeeded(journal') = Succeeded(journal)
  <2>1. \A r \in Succeeded(journal') : journal'[r].start <= journal'[r].fin /\ journal'[r].fin <= now'
    <3> TAKE r \in Succeeded(journal')
    <3>1. r \in Rows /\ journal'[r] = journal[r] /\ journal[r].start <= journal[r].fin /\ journal[r].fin <= now
      BY <1>1, <1>3, <1>6, <1>8 DEF Ordered, Succeeded
    <3> QED
      BY <1>2, <1>3, <3>1
  <2> QED
    BY <1>5, <1>7, <1>8, <2>1 DEF Ordered
<1>9. CASE \E x \in Execs : Lands(x)
  <2>1. PICK x \in Execs : Lands(x)
    BY <1>9
  <2> DEFINE n == exec[x].row
             t == exec[x].at
  <2>2. /\ n \in Rows /\ Open(n) /\ exec[x].pc = "link" /\ now' = now
        /\ journal'[n].start = journal[n].start /\ journal'[n].fin = t
        /\ \A q \in Rows \ {n} : journal'[q] = journal[q]
        /\ Succeeded(journal') = Succeeded(journal) \cup {n}
        /\ \A q \in Rows : n < q => journal[q].status = "none"
    BY <2>1, LandRow
  <2>3. journal[n].start <= t /\ t <= now
    <3>1. Timely(x)
      BY <2>2 DEF Inv, Dated
    <3> QED
      BY <2>2, <3>1 DEF Timely, Parsed, Inside
  <2> HIDE DEF n, t
  <2>4. \A r \in Succeeded(journal') : journal'[r].start <= journal'[r].fin /\ journal'[r].fin <= now'
    <3> TAKE r \in Succeeded(journal')
    <3>1. CASE r = n
      BY <2>2, <2>3, <3>1
    <3>2. CASE r # n
      <4>1. r \in Succeeded(journal) /\ journal'[r] = journal[r]
        BY <1>6, <2>2, <3>2
      <4> QED
        BY <1>1, <2>2, <4>1 DEF Ordered
    <3> QED
      BY <3>1, <3>2
  <2>5. \A r \in Rows : n < r => journal'[r].status = "none"
    <3> TAKE r \in Rows
    <3> HAVE n < r
    <3>1. r # n
      BY <2>2 DEF Rows
    <3> QED
      BY <2>2, <3>1
  <2> QED
    BY <1>5, <1>7, <2>2, <2>4, <2>5 DEF Ordered
<1> QED
  BY <1>8, <1>9, SuccessStep

(* Two imports are never about one row.                                    *)
LEMMA RowsApart ==
  ASSUME Inv, NEW x \in Execs, NEW y \in Execs, exec[x].pc # "idle", exec[y].pc # "idle",
         exec[x].row = exec[y].row
  PROVE  x = y
<1>1. exec[x].job = exec[y].job /\ (exec[x].job = NoJob <=> x = Operator) /\ (exec[y].job = NoJob <=> y = Operator)
  BY DEF Inv, Known
<1> QED
  BY <1>1 DEF Execs

LEMMA ShareChecked ==
  ASSUME Inv, plan.skew = 0, NEW x \in Execs, ShareKept(Brought(x)), exec[x].src \in Feeds
  PROVE  Enough(exec[x].src)
<1>1. Counted /\ Ordered /\ TypeOK
  BY DEF Inv, Dated
<1>2. /\ DOMAIN journal = Rows
      /\ \A r \in Rows : journal[r].start \in Nat /\ journal[r].fin \in Nat /\ r \in Int
  <2>1. \A r \in Rows : r \in Int
    BY DEF Rows
  <2> QED
    BY <1>1, <2>1 DEF TypeOK, Entry
<1>3. SUFFICES ASSUME won # <<>> PROVE Share(Brings(exec[x].src), Brings(Last(won)))
  BY DEF Enough
<1>4. PICK r \in Rows : LastRow(r) /\ journal[r].places = Brings(Last(won))
  BY <1>1, <1>3 DEF Counted
<1>5. \A o \in Succeeded(journal) : ~Later(journal, o, r)
  <2> TAKE o \in Succeeded(journal)
  <2>1. o \in Rows /\ o <= r /\ r \in Succeeded(journal) /\ journal[r].status # "none"
    BY <1>2, <1>4 DEF LastRow, Succeeded
  <2>2. CASE o = r
    BY <1>2, <2>1, <2>2 DEF Later
  <2>3. CASE o < r
    <3>1. /\ journal[o].start <= journal[o].fin /\ journal[o].fin <= journal[r].start
          /\ journal[r].start <= journal[r].fin
      BY <1>1, <2>1, <2>3 DEF Ordered
    <3> QED
      BY <1>2, <2>1, <2>3, <3>1 DEF Later
  <2> QED
    BY <1>2, <2>1, <2>2, <2>3
<1>6. journal[r].places \in ImportLastSucceededPlaces(journal)
  BY <1>4, <1>5 DEF ImportLastSucceededPlaces, LastRow
<1>7. Share(Cardinality(DOMAIN Brought(x).places), journal[r].places)
  BY <1>6 DEF ShareKept
<1> QED
  BY <1>4, <1>7 DEF Brings, Brought

LEMMA TimelyStep ==
  ASSUME Inv, [Next]_vars, plan.skew = 0, NEW x \in Execs, exec'[x].pc # "idle"
  PROVE  Timely(x)'
<1>1. /\ TypeOK /\ Ordered /\ Known(x) /\ GoesOn(x)
      /\ exec[x].pc # "idle" => Timely(x)
  BY ExecSteps DEF Inv, Dated
<1>2. now \in Nat /\ now' \in Nat /\ now <= now'
  <2>1. now' = now \/ now' = now + 1
    BY TableSteps
  <2> QED
    BY <1>1, <2>1 DEF TypeOK
<1>3. CASE exec'[x].pc \notin Parsed
  BY <1>3 DEF Timely
<1>4. CASE exec'[x] = exec[x] /\ exec'[x].pc \in Parsed
  <2> SUFFICES ASSUME Open(exec[x].row)'
               PROVE  Timely(x)'
    BY DEF Timely
  <2>1. PICK r \in Rows : r = exec[x].row /\ exec'[x].row = r /\ journal[r].status # "none" /\ journal[r].job = exec[x].job
    BY <1>1, <1>4 DEF Known, Parsed, Inside
  <2>2. journal'[r].status = "running" /\ journal[r].status \in Statuses4
    BY <1>1, <2>1 DEF Open, Running, TypeOK, Entry, Statuses4
  <2>3. Open(r)
    BY <2>1, <2>2, RowStep DEF Open, Running, Statuses4
  <2>4. journal'[r].start = journal[r].start
    <3>1. CASE exec[Worker].pc = "idle" /\ journal[r].job \in Jobs
      <4>1. x = Operator
        BY <1>4, <3>1 DEF Execs, Parsed, Inside
      <4> QED
        BY <1>1, <1>4, <2>1, <3>1, <4>1, GeoAssumption DEF Known, Parsed, Inside
    <3> QED
      BY <2>1, <3>1, TimesStep
  <2>5. won' = won
    <3>1. ASSUME NEW y \in Execs, Lands(y) PROVE FALSE
      <4>1. /\ exec[y].row \in Rows /\ Open(exec[y].row) /\ exec[y].pc = "link"
            /\ exec'[y].pc \in {"idle", "fail"}
        BY <3>1, LandRow DEF Lands
      <4>2. exec[y].row = r
        BY <2>3, <4>1, JournalRows DEF Inv
      <4>3. x = y
        BY <1>4, <2>1, <4>1, <4>2, RowsApart
      <4> QED
        BY <1>4, <4>1, <4>3
    <3> QED
      BY <3>1, SuccessStep
  <2>6. Timely(x) /\ exec[x].at \in Nat /\ Open(exec[x].row)
    BY <1>1, <1>4, <2>1, <2>3 DEF Parsed, Inside, TypeOK, Import
  <2> QED
    BY <1>2, <1>4, <2>1, <2>4, <2>5, <2>6 DEF Timely, Enough
<1>5. CASE Advances(x) /\ UNCHANGED <<now, journal, data>> /\ exec'[x].row = exec[x].row
  <2>1. journal' = journal /\ won' = won
    BY <1>5 DEF data
  <2>2. CASE exec[x].pc = "fetch" /\ exec'[x].pc = "check" /\ exec'[x].at = Clock(x)
    <3>1. Clock(x) = now /\ exec[x].row \in Rows
      BY <1>1, <2>2, ClockType DEF Known
    <3> QED
      BY <1>1, <1>2, <1>5, <2>1, <2>2, <3>1 DEF Timely, Ordered, Parsed, Inside
  <2>3. CASE /\ exec'[x].src = exec[x].src /\ exec'[x].at = exec[x].at /\ exec[x].pc \in Parsed
             /\ exec[x].pc = "check" => ShareKept(Brought(x))
    <3>1. Timely(x) /\ exec[x].src \in Feeds
      BY <1>1, <2>3 DEF Known, Parsed, Inside
    <3>2. exec[x].pc = "check" => Enough(exec[x].src)
      BY <2>3, <3>1, ShareChecked
    <3>3. Open(exec[x].row) => Enough(exec[x].src)
      BY <2>3, <3>1, <3>2 DEF Timely
    <3> QED
      BY <1>5, <2>1, <2>3, <3>1, <3>3 DEF Timely, Enough, Open
  <2> QED
    BY <1>5, <2>2, <2>3, AdvancesGives DEF Parsed, Inside
<1>6. exec'[x] = Idle \/ GivesUp(x) \/ Starts(x) => exec'[x].pc \notin Parsed
  <2>1. exec'[x] = Idle => exec'[x].pc = "idle"
    BY IdleFields
  <2>2. GivesUp(x) => exec'[x].pc = "fail"
    BY GaveUpFields DEF GivesUp
  <2>3. Starts(x) => exec'[x].pc = "fetch"
    <3>1. \A j, r : Begun(j, r).pc = "fetch"
      BY BegunFields
    <3> QED
      BY <3>1 DEF Starts
  <2> QED
    BY <2>1, <2>2, <2>3 DEF Parsed, Inside
<1> QED
  BY <1>1, <1>3, <1>4, <1>5, <1>6 DEF GoesOn

LEMMA SharesStep == ASSUME Inv, [Next]_vars, plan.skew = 0 PROVE Shares'
<1>1. Shares /\ \A x \in Execs : exec[x].pc # "idle" => Timely(x)
  BY DEF Inv, Dated
<1>2. CASE won' = won
  BY <1>1, <1>2 DEF Shares
<1>3. CASE \E x \in Execs : Lands(x)
  <2>1. PICK x \in Execs : Lands(x)
    BY <1>3
  <2> DEFINE f == exec[x].src
  <2>2. f \in Feeds /\ won \in Seq(Feeds) /\ won' = Append(won, f)
    BY <2>1, LandRow
  <2>3. Enough(f)
    <3>1. Open(exec[x].row) /\ exec[x].pc = "link"
      BY <2>1, LandRow
    <3> QED
      BY <1>1, <3>1 DEF Timely, Parsed, Inside
  <2> HIDE DEF f
  <2>4. /\ Len(won') = Len(won) + 1 /\ won'[Len(won) + 1] = f
        /\ \A i \in 1..Len(won) : won'[i] = won[i]
    BY <2>2
  <2>5. Len(won) \in Nat /\ (Len(won) # 0 => Last(won) = won[Len(won)] /\ won # <<>>)
    BY <2>2 DEF Last
  <2> SUFFICES ASSUME NEW i \in 1..(Len(won') - 1) PROVE Share(Brings(won'[i + 1]), Brings(won'[i]))
    BY DEF Shares
  <2>6. CASE i = Len(won)
    BY <2>3, <2>4, <2>5, <2>6 DEF Enough
  <2>7. CASE i # Len(won)
    <3>1. i \in 1..(Len(won) - 1) /\ i + 1 \in 1..Len(won) /\ i \in 1..Len(won)
      BY <2>4, <2>5, <2>7
    <3> QED
      BY <1>1, <2>4, <3>1 DEF Shares
  <2> QED
    BY <2>6, <2>7
<1> QED
  BY <1>2, <1>3, SuccessStep

LEMMA DatedStep == ASSUME Inv, [Next]_vars PROVE Dated'
<1>1. plan' = plan
  BY TableSteps
<1>2. plan.skew = 0 => Ordered' /\ Shares' /\ \A x \in Execs : exec'[x].pc # "idle" => Timely(x)'
  BY OrderedStep, SharesStep, TimelyStep
<1>3. Counted'
  BY CountedStep
<1> QED
  BY <1>1, <1>2, <1>3 DEF Dated

-----------------------------------------------------------------------------
(* A link finds its city and its place free, and is told with the version  *)
(* it gives.                                                               *)
LEMMA LinkedLands ==
  ASSUME Inv, NEW x \in Execs, Lands(x), NEW c \in Cities
  PROVE  \/ city'[c] = city[c] /\ linked'[c] = linked[c] /\ \A m \in exec[x].done : m[1] # c
         \/ \E m \in exec[x].done :
              /\ m[1] = c /\ m[2] \in Places /\ m[2] # NoPlace
              /\ city[c].place = NoPlace /\ Free(m[2])
              /\ city'[c].place = m[2] /\ city'[c].version = city[c].version + 1
              /\ linked'[c] = Append(linked[c], Told(c, m[2]))
              /\ DOMAIN city[c].names \subseteq DOMAIN city'[c].names
              /\ \A l \in DOMAIN city[c].names : city'[c].names[l] = city[c].names[l]
<1> DEFINE D == exec[x].done
<1>1. TypeOK /\ Paired(x) /\ Ready(x) /\ StillMine(x) /\ Commits(x)
  BY DEF Inv, Lands
<1>2. CASE \A m \in D : m[1] # c
  BY <1>1, <1>2, CommitGives
<1>3. CASE \E m \in D : m[1] = c
  <2>1. PICK m \in D : m[1] = c
    BY <1>3
  <2> DEFINE p == m[2]
             names == Table(x)[m[2]].names
  <2>2. /\ city'[c] = LinkedCity(city[c], p, names) /\ names \in Names
        /\ linked'[c] = Append(linked[c], Told(c, p))
    BY <1>1, <2>1, CommitGives
  <2>3. city[c].place = NoPlace /\ Free(p)
    BY <1>1, <2>1 DEF Paired, ToTaken
  <2>4. p \in Places /\ p # NoPlace
    <3>1. m \in CalledLike
      BY <1>1, <2>1 DEF TypeOK, Import
    <3> QED
      BY <3>1, TablesAssumption
  <2>5. city[c].names \in Names
    BY <1>1 DEF TypeOK
  <2> DEFINE n == Translations(city[c].names, names)
  <2> HIDE DEF p, names
  <2>6. /\ DOMAIN city[c].names \subseteq DOMAIN n
        /\ \A l \in DOMAIN city[c].names : n[l] = city[c].names[l]
    BY <2>2, <2>5, TranslationsGives
  <2>7. city'[c] = [place |-> p, version |-> city[c].version + 1, names |-> n]
    BY <2>2 DEF LinkedCity
  <2> HIDE DEF n
  <2>8. city'[c].place = p /\ city'[c].version = city[c].version + 1 /\ city'[c].names = n
    BY <2>7
  <2> QED
    BY <2>1, <2>2, <2>3, <2>4, <2>6, <2>8 DEF p
<1> QED
  BY <1>2, <1>3

(* One city by itself.                                                     *)
LinkedOnce(c) ==
  /\ \A l \in Locales : l \in DOMAIN HandNames[c] => city[c].names[l] = HandNames[c][l]
  /\ linked[c] = IF city[c].version = 1 THEN <<>>
                 ELSE <<[place |-> city[c].place, version |-> city[c].version]>>
  /\ city[c].version >= 1 /\ (city[c].place = NoPlace => city[c].version = 1)
  /\ DOMAIN HandNames[c] \subseteq DOMAIN city[c].names

LEMMA LinkedOnceStep ==
  ASSUME Inv, [Next]_vars, NEW c \in Cities
  PROVE  LinkedOnce(c)'
<1>1. TypeOK /\ city[c].version \in Nat
  BY DEF Inv, TypeOK
<1>2. LinkedOnce(c)
  BY DEF Inv, Linking, LinksTold, LinkedOnce
<1>3. CASE city'[c] = city[c] /\ linked'[c] = linked[c]
  BY <1>2, <1>3 DEF LinkedOnce
<1>4. CASE \E x \in Execs : Lands(x)
  <2>1. PICK x \in Execs : Lands(x)
    BY <1>4
  <2>2. CASE \E m \in exec[x].done :
              /\ m[1] = c /\ m[2] \in Places /\ m[2] # NoPlace
              /\ city[c].place = NoPlace /\ Free(m[2])
              /\ city'[c].place = m[2] /\ city'[c].version = city[c].version + 1
              /\ linked'[c] = Append(linked[c], Told(c, m[2]))
              /\ DOMAIN city[c].names \subseteq DOMAIN city'[c].names
              /\ \A l \in DOMAIN city[c].names : city'[c].names[l] = city[c].names[l]
    <3>1. PICK p \in Places :
              /\ p # NoPlace /\ city[c].place = NoPlace
              /\ city'[c].place = p /\ city'[c].version = city[c].version + 1
              /\ linked'[c] = Append(linked[c], Told(c, p))
              /\ DOMAIN city[c].names \subseteq DOMAIN city'[c].names
              /\ \A l \in DOMAIN city[c].names : city'[c].names[l] = city[c].names[l]
      BY <2>2
    <3>2. city[c].version = 1 /\ linked[c] = <<>>
      BY <1>2, <3>1 DEF LinkedOnce
    <3>3. linked'[c] = <<[place |-> p, version |-> 2]>>
      <4> DEFINE e == [place |-> p, version |-> 2]
      <4>1. Told(c, p) = e
        BY <3>2 DEF Told
      <4>2. linked'[c] = Append(<<>>, e)
        BY <3>1, <3>2, <4>1
      <4> HIDE DEF e
      <4>3. linked'[c] = <<e>>
        BY <4>2
      <4> QED
        BY <4>3 DEF e
    <3>4. city'[c].version = 2
      BY <3>1, <3>2
    <3>5. \A l \in Locales : l \in DOMAIN HandNames[c] => city'[c].names[l] = HandNames[c][l]
      BY <1>2, <3>1 DEF LinkedOnce
    <3>6. DOMAIN HandNames[c] \subseteq DOMAIN city'[c].names
      BY <1>2, <3>1 DEF LinkedOnce
    <3> QED
      BY <3>1, <3>3, <3>4, <3>5, <3>6 DEF LinkedOnce
  <2> QED
    BY <1>3, <2>1, <2>2, LinkedLands
<1>5. CASE \E d \in Cities, p \in Places : Activate(d, p)
  <2>1. PICK d \in Cities, p \in Places : Activate(d, p)
    BY <1>5
  <2>2. linked' = linked /\ city' = [city EXCEPT ![d].place = p] /\ city[d].place = NoPlace /\ p # NoPlace
    BY <2>1, TablesAssumption DEF Activate
  <2>3. CASE d = c
    <3>1. city[c] \in CityRow /\ city'[c] = [city[c] EXCEPT !.place = p]
      BY <1>1, <2>2, <2>3 DEF TypeOK, CityRow
    <3>2. city'[c].place = p /\ city'[c].version = city[c].version /\ city'[c].names = city[c].names
      BY <3>1 DEF CityRow
    <3>3. city[c].version = 1
      BY <1>2, <2>2, <2>3 DEF LinkedOnce
    <3> QED
      BY <1>2, <2>2, <3>2, <3>3 DEF LinkedOnce
  <2>4. CASE d # c
    <3>1. city'[c] = city[c]
      BY <1>1, <2>2, <2>4 DEF TypeOK
    <3> QED
      BY <1>3, <2>2, <3>1
  <2> QED
    BY <2>3, <2>4
<1>6. CASE UNCHANGED data
  BY <1>3, <1>6 DEF data
<1> QED
  BY <1>4, <1>5, <1>6, TableSteps

LEMMA LinkingStep == ASSUME Inv, [Next]_vars PROVE Linking'
<1>1. TypeOK /\ LinksTold /\ \A x \in Execs : Paired(x)
  BY DEF Inv, Linking
<1>2. \A c \in Cities : LinkedOnce(c)'
  BY LinkedOnceStep
<1>3. \A c, d \in Cities : city'[c].place = city'[d].place /\ city'[c].place # NoPlace => c = d
  <2>0. \A c, d \in Cities : city[c].place = city[d].place /\ city[c].place # NoPlace => c = d
    BY <1>1 DEF LinksTold
  <2>1. CASE UNCHANGED data
    BY <2>0, <2>1 DEF data
  <2>2. CASE \E x \in Execs : Lands(x)
    <3>1. PICK x \in Execs : Lands(x)
      BY <2>2
    <3>2. \A m, n \in exec[x].done : m[2] = n[2] => m = n
      BY <1>1 DEF Paired
    <3>3. \A c \in Cities :
            \/ city'[c].place = city[c].place
            \/ \E m \in exec[x].done : m[1] = c /\ m[2] # NoPlace /\ Free(m[2]) /\ city'[c].place = m[2]
      BY <3>1, LinkedLands
    <3>4. \A c \in Cities : \A p : Free(p) => city[c].place # p
      BY DEF Free, Holders
    <3> QED
      BY <2>0, <3>2, <3>3, <3>4
  <2>3. CASE \E c \in Cities, p \in Places : Activate(c, p)
    <3>1. PICK c \in Cities, p \in Places : Free(p) /\ city' = [city EXCEPT ![c].place = p]
      BY <2>3 DEF Activate
    <3>2. city'[c].place = p /\ \A d \in Cities \ {c} : city'[d].place = city[d].place
      BY <1>1, <3>1 DEF TypeOK
    <3>3. \A d \in Cities : city[d].place # p
      BY <3>1 DEF Free, Holders
    <3> QED
      BY <2>0, <3>2, <3>3
  <2> QED
    BY <2>1, <2>2, <2>3, TableSteps
<1>4. Codes1(region')
  <2>1. Codes1(region)
    BY <1>1 DEF LinksTold, Codes1
  <2>2. CASE \E x \in Execs : Lands(x)
    <3>1. PICK x \in Execs : Ready(x) /\ StillMine(x) /\ Commits(x)
      BY <2>2 DEF Lands
    <3>2. region' = exec[x].regions /\ exec[x].pc = "link"
      BY <3>1, CommitGives DEF Ready, At
    <3> QED
      BY <1>1, <3>2 DEF Paired
  <2>3. UNCHANGED data \/ (\E c \in Cities, p \in Places : Activate(c, p)) => region' = region
    BY DEF data, Activate
  <2> QED
    BY <2>1, <2>2, <2>3, TableSteps
<1>5. LinksTold'
  <2>1. /\ \A q, r \in Regions : region'[q].code = region'[r].code /\ region'[q].code # NoCode => q = r
        /\ \A r \in Regions : FirstCode[r] # NoCode => region'[r].code = FirstCode[r]
    BY <1>4 DEF Codes1
  <2>2. /\ \A c \in Cities, l \in Locales : l \in DOMAIN HandNames[c] => city'[c].names[l] = HandNames[c][l]
        /\ \A c \in Cities :
             linked'[c] = IF city'[c].version = 1 THEN <<>>
                          ELSE <<[place |-> city'[c].place, version |-> city'[c].version]>>
    BY <1>2 DEF LinkedOnce
  <2> QED
    BY <1>3, <2>1, <2>2, Zenon DEF LinksTold
<1>6. /\ \A c \in Cities : city'[c].version >= 1 /\ (city'[c].place = NoPlace => city'[c].version = 1)
      /\ \A c \in Cities : DOMAIN HandNames[c] \subseteq DOMAIN city'[c].names
  BY <1>2 DEF LinkedOnce
<1> QED
  BY <1>5, <1>6, Zenon DEF Linking

(* Matches are the only ones of their city and of their place.             *)
LEMMA MatchesGive ==
  ASSUME Inv, NEW x \in Execs
  PROVE  LET M == MatchesOf(Candidates(x)) IN
         /\ \A m \in M : RegionOf[m[1]] # NoRegion /\ m[2] \in DOMAIN Table(x)
         /\ \A m, n \in M : m[1] = n[1] \/ m[2] = n[2] => m = n
<1> DEFINE D == Candidates(x)
           M == MatchesOf(D)
<1>1. \A m \in M : m \in Cities \X Places /\ m[1] \in DOMAIN D /\ D[m[1]] = {m[2]}
  BY TablesAssumption DEF MatchesOf
<1>2. \A m \in M : \A d \in DOMAIN D \ {m[1]} : m[2] \notin D[d]
  BY DEF MatchesOf
<1>3. \A c \in DOMAIN D : \A p \in D[c] : RegionOf[c] # NoRegion /\ p \in DOMAIN Table(x)
  BY DEF Candidates, ImportCityCandidates
<1> HIDE DEF D, M
<1>4. \A m, n \in M : m[1] = n[1] => m = n
  <2> TAKE m, n \in M
  <2> HAVE m[1] = n[1]
  <2>1. m[2] = n[2]
    BY <1>1
  <2>2. m = <<m[1], m[2]>> /\ n = <<n[1], n[2]>>
    BY <1>1
  <2> QED
    BY <2>1, <2>2
<1>5. \A m, n \in M : m[2] = n[2] => m[1] = n[1]
  BY <1>1, <1>2
<1> QED
  BY <1>1, <1>3, <1>4, <1>5 DEF M, D

LEMMA PairedStep == ASSUME Inv, [Next]_vars, NEW x \in Execs PROVE Paired(x)'
<1>1. TypeOK /\ GoesOn(x) /\ Paired(x) /\ Writing(x) /\ Known(x) /\ LinksTold
  BY ExecSteps DEF Inv, Linking
<1> DEFINE d == exec[x]
           e == exec'[x]
<1>2. CASE e.pc # "link" /\ e.done = {} /\ e.todo = {} /\ e.said = {}
  BY <1>2 DEF Paired
<1>3. exec'[x] = Idle \/ GivesUp(x) \/ Starts(x) => e.pc # "link" /\ e.done = {} /\ e.todo = {} /\ e.said = {}
  <2>1. exec'[x] = Idle => e.pc # "link" /\ e.done = {} /\ e.todo = {} /\ e.said = {}
    BY IdleFields
  <2>2. GivesUp(x) => e.pc # "link" /\ e.done = {} /\ e.todo = {} /\ e.said = {}
    BY GaveUpFields DEF GivesUp
  <2>3. Starts(x) => e.pc # "link" /\ e.done = {} /\ e.todo = {} /\ e.said = {}
    <3>1. \A j, r : LET b == Begun(j, r) IN b.pc = "fetch" /\ b.done = {} /\ b.todo = {} /\ b.said = {}
      BY BegunFields, BegunPairs
    <3> QED
      BY <3>1 DEF Starts
  <2> QED
    BY <2>1, <2>2, <2>3
<1>4. ASSUME places' = places, e.src = d.src, e.held = d.held, e.gone = d.gone
      PROVE  Table(x)' = Table(x)
  BY <1>4 DEF Table, Brought, WritePlaces
<1>5. CASE e = d /\ d.pc # "link"
  BY <1>1, <1>2, <1>5 DEF Paired
<1>6. CASE e = d /\ d.pc = "link"
  <2>1. writer = {x} /\ ~ \E y \in Execs : Lands(y)
    <3>1. writer = {x}
      BY <1>1, <1>6 DEF Writing, Inside
    <3>2. ASSUME NEW y \in Execs, Lands(y) PROVE FALSE
      <4>1. writer = {y} /\ exec'[y].pc \in {"idle", "fail"}
        BY <3>2, CommitGives DEF Lands
      <4> QED
        BY <1>6, <3>1, <4>1
    <3> QED
      BY <3>1, <3>2
  <2>2. Table(x)' = Table(x)
    <3>1. places' = places
      BY <2>1, TableSteps DEF data, Activate
    <3> QED
      BY <1>4, <1>6, <3>1
  <2>3. \A m \in d.done : ~ToTaken(m[1], m[2])'
    <3>1. CASE UNCHANGED data
      BY <1>1, <3>1 DEF Paired, ToTaken, Free, Holders, data
    <3>2. CASE \E c \in Cities, p \in Places : Activate(c, p)
      <4>1. PICK c \in Cities, p \in Places :
              /\ city' = [city EXCEPT ![c].place = p]
              /\ \A y \in Execs, m \in CalledLike : m \in exec[y].done => m[1] # c /\ m[2] # p
        BY <3>2 DEF Activate
      <4>2. \A m \in d.done : m[1] # c /\ m[2] # p /\ m[1] \in Cities
        <5>1. d.done \subseteq CalledLike
          BY <1>1 DEF TypeOK, Import
        <5> QED
          BY <4>1, <5>1, TablesAssumption
      <4>3. city'[c].place = p /\ \A b \in Cities \ {c} : city'[b] = city[b]
        BY <1>1, <4>1 DEF TypeOK
      <4> QED
        BY <1>1, <4>2, <4>3 DEF Paired, ToTaken, Free, Holders
    <3> QED
      BY <2>1, <3>1, <3>2, TableSteps
  <2> QED
    BY <1>1, <1>6, <2>2, <2>3 DEF Paired
<1>7. CASE Advances(x) /\ UNCHANGED data /\ d.pc # "link" /\ e.pc # "link"
  BY <1>1, <1>7, AdvancesGives DEF Paired
<1>9. CASE Advances(x) /\ UNCHANGED data /\ d.pc = "match" /\ e.pc = "link"
  <2>1. /\ e.src = d.src /\ e.done = d.done /\ e.said = d.said /\ e.held = d.held /\ e.gone = d.gone
        /\ e.todo = MatchesOf(Candidates(x)) /\ e.regions = region
    BY <1>9, AdvancesGives
  <2>2. Table(x)' = Table(x)
    BY <1>4, <1>9, <2>1 DEF data
  <2>3. d.done = {} /\ d.said = {}
    BY <1>1, <1>9 DEF Paired
  <2>4. Codes1(region)
    BY <1>1 DEF LinksTold, Codes1
  <2>5. /\ \A m \in e.todo : RegionOf[m[1]] # NoRegion /\ m[2] \in DOMAIN Table(x)
        /\ \A m, n \in e.todo : m[1] = n[1] \/ m[2] = n[2] => m = n
    BY <2>1, MatchesGive
  <2> QED
    BY <1>9, <2>1, <2>2, <2>3, <2>4, <2>5 DEF Paired
<1>10. CASE Advances(x) /\ UNCHANGED data /\ d.pc = "link"
  <2>1. /\ e.pc = "link" /\ e.src = d.src /\ e.held = d.held /\ e.gone = d.gone
        /\ \/ \E c \in Cities, p \in Places :
                /\ <<c, p>> \in d.todo /\ ~ToTaken(c, p)
                /\ e.todo = d.todo \ {<<c, p>>} /\ e.done = d.done \cup {<<c, p>>}
                /\ e.said = d.said \cup {<<c, p>>} /\ Codes1(e.regions)
           \/ /\ e.done = d.done /\ e.said = d.said /\ e.regions = d.regions
              /\ e.todo \subseteq d.todo
    BY <1>10, AdvancesGives
  <2>2. Table(x)' = Table(x) /\ \A c, p : ToTaken(c, p)' <=> ToTaken(c, p)
    <3>1. Table(x)' = Table(x)
      BY <1>4, <1>10, <2>1 DEF data
    <3>2. city' = city
      BY <1>10 DEF data
    <3> QED
      BY <3>1, <3>2 DEF ToTaken, Free, Holders
  <2>3. \A m \in d.done : ~ToTaken(m[1], m[2])'
    BY <1>1, <2>2 DEF Paired
  <2>4. CASE e.done = d.done /\ e.said = d.said /\ e.regions = d.regions /\ e.todo \subseteq d.todo
    BY <1>1, <1>10, <2>1, <2>2, <2>3, <2>4 DEF Paired
  <2>5. CASE \E c \in Cities, p \in Places :
                /\ <<c, p>> \in d.todo /\ ~ToTaken(c, p)
                /\ e.todo = d.todo \ {<<c, p>>} /\ e.done = d.done \cup {<<c, p>>}
                /\ e.said = d.said \cup {<<c, p>>} /\ Codes1(e.regions)
    <3>1. PICK c \in Cities, p \in Places :
                /\ <<c, p>> \in d.todo /\ ~ToTaken(c, p)
                /\ e.todo = d.todo \ {<<c, p>>} /\ e.done = d.done \cup {<<c, p>>}
                /\ e.said = d.said \cup {<<c, p>>} /\ Codes1(e.regions)
      BY <2>5
    <3>2. e.done \cup e.todo = d.done \cup d.todo
      BY <3>1
    <3>3. \A m \in e.done : ~ToTaken(m[1], m[2])'
      <4>1. ~ToTaken(<<c, p>>[1], <<c, p>>[2])'
        BY <2>2, <3>1
      <4> QED
        BY <2>3, <3>1, <4>1
    <3>4. e.said = e.done
      BY <1>1, <3>1 DEF Paired
    <3>5. /\ \A m \in e.done \cup e.todo : RegionOf[m[1]] # NoRegion /\ m[2] \in DOMAIN Table(x)
          /\ \A m, n \in e.done \cup e.todo : m[1] = n[1] \/ m[2] = n[2] => m = n
      BY <1>1, <3>2 DEF Paired
    <3> QED
      BY <2>1, <2>2, <3>1, <3>3, <3>4, <3>5 DEF Paired
  <2> QED
    BY <2>1, <2>4, <2>5
<1>8. Advances(x) => \/ d.pc # "link" /\ e.pc # "link"
                     \/ d.pc = "match" /\ e.pc = "link"
                     \/ d.pc = "link"
  BY AdvancesGives
<1> QED
  BY <1>1, <1>2, <1>3, <1>5, <1>6, <1>7, <1>8, <1>9, <1>10 DEF GoesOn

-----------------------------------------------------------------------------
LEMMA InitInv == Init => Inv
<1> SUFFICES ASSUME Init PROVE Inv
  OBVIOUS
<1>1. /\ plan \in Plans /\ now = 1
      /\ exec = [x \in Execs |-> Idle] /\ writer = {} /\ won = <<>>
      /\ DOMAIN places = {} /\ DOMAIN admin1 = {}
      /\ faults = {} /\ commands = 0 /\ links = 0
  BY DEF Init
<1>2. /\ journal \in [Rows -> Entry]
      /\ \A r \in Rows : /\ journal[r].status = "none" /\ journal[r].error = "" /\ journal[r].start = 0
                         /\ told[r] = <<>>
      /\ told \in [Rows -> Seq({"succeeded", "failed"})]
  <2>1. told \in [Rows -> Seq({"succeeded", "failed"})] /\ \A r \in Rows : told[r] = <<>>
    <3>1. told = [r \in Rows |-> <<>>]
      BY DEF Init
    <3>2. <<>> \in Seq({"succeeded", "failed"})
      OBVIOUS
    <3> QED
      BY <3>1, <3>2
  <2>2. journal = [r \in Rows |-> [status |-> "none", start |-> 0, fin |-> 0, job |-> NoJob, places |-> 0,
                                  files |-> {}, error |-> ""]]
    BY DEF Init
  <2> QED
    BY <2>1, <2>2 DEF Entry
<1>3. /\ city = [c \in Cities |-> [place |-> NoPlace, version |-> 1, names |-> HandNames[c]]]
      /\ region = [r \in Regions |-> [code |-> FirstCode[r], names |-> HandNames[r]]]
      /\ linked = [c \in Cities |-> <<>>]
      /\ job = [j \in Jobs |-> [state |-> "none", tries |-> 0]]
  BY DEF Init
<1>4. TypeOK
  <2>1. job \in [Jobs -> [state : {"none", "available", "running", "stuck", "completed", "discarded"},
                          tries : 0..MaxAttempts]]
    <3>1. 0 \in 0..MaxAttempts
      <4>1. MaxAttempts \in Nat
        BY GeoAssumption
      <4> QED
        BY <4>1
    <3> QED
      BY <1>3, <3>1
  <2>2. city \in [Cities -> [place : Places \cup {NoPlace}, version : Nat, names : Names]]
    BY <1>3, GeoAssumption
  <2>3. region \in [Regions -> [code : Codes \cup {NoCode}, names : Names]]
    BY <1>3, GeoAssumption
  <2>4. linked \in [Cities -> Seq([place : Places, version : Nat])]
    BY <1>3
  <2>5. exec \in [Execs -> Import]
    BY <1>1, IdleType
  <2>6. writer \subseteq Execs /\ Cardinality(writer) <= 1
    BY <1>1, FS_EmptySet
  <2>7. won \in Seq(Feeds) /\ now \in Nat
    BY <1>1
  <2> QED
    BY <1>1, <1>2, <2>1, <2>2, <2>3, <2>4, <2>5, <2>6, <2>7 DEF TypeOK
<1>5. Tried
  BY <1>3 DEF Tried
<1>6. Journal
  BY <1>2 DEF Journal, ClosedOnce, Open, Running
<1>7. Whole
  BY <1>1 DEF Whole
<1>8. Dated
  <2>1. Succeeded(journal) = {}
    BY <1>2 DEF Succeeded
  <2>2. Counted
    BY <1>1, <2>1 DEF Counted
  <2>3. Ordered
    <3>1. \A r \in Rows : journal[r].start <= now
      <4>1. now = 1 /\ \A r \in Rows : journal[r].start = 0
        BY <1>1, <1>2
      <4> QED
        BY <4>1
    <3> QED
      BY <2>1, <3>1 DEF Ordered
  <2>4. Shares
    BY <1>1 DEF Shares
  <2>5. \A x \in Execs : exec[x].pc = "idle"
    BY <1>1, IdleFields
  <2> QED
    BY <2>2, <2>3, <2>4, <2>5 DEF Dated
<1>9. Linking
  <2>1. \A c \in Cities : city[c].place = NoPlace /\ city[c].version = 1 /\ city[c].names = HandNames[c] /\ linked[c] = <<>>
    BY <1>3
  <2>2. \A r \in Regions : region[r].code = FirstCode[r]
    BY <1>3
  <2>3. \A q, r \in Regions : FirstCode[q] = FirstCode[r] /\ FirstCode[q] # NoCode => q = r
    BY GeoAssumption
  <2> QED
    BY <2>1, <2>2, <2>3 DEF Linking, LinksTold
<1>10. ASSUME NEW x \in Execs PROVE Known(x) /\ Writing(x) /\ Paired(x)
  <2>1. /\ exec[x].pc = "idle" /\ exec[x].error = ""
        /\ exec[x].todo = {} /\ exec[x].done = {} /\ exec[x].said = {}
    BY <1>1, IdleFields
  <2> QED
    BY <2>1 DEF Known, Writing, Paired, Parsed, Inside
<1> QED
  BY <1>4, <1>5, <1>6, <1>7, <1>8, <1>9, <1>10 DEF Inv

LEMMA InvStep == Inv /\ [Next]_vars => Inv'
<1> SUFFICES ASSUME Inv, [Next]_vars PROVE Inv'
  OBVIOUS
<1>1. TypeOK' /\ Tried' /\ Journal' /\ Whole' /\ Dated' /\ Linking'
  BY TypeStep, JobStep, JournalStep, WholeStep, DatedStep, LinkingStep
<1>2. \A x \in Execs : Known(x)' /\ Writing(x)' /\ Paired(x)'
  BY KnownStep, WritingStep, PairedStep
<1> QED
  BY <1>1, <1>2 DEF Inv

-----------------------------------------------------------------------------
(* Theorems.                                                               *)
THEOREM Invariance == Spec => []Inv
BY InitInv, InvStep, PTL DEF Spec

(* Types, at most one writer of places among them.                         *)
THEOREM TypeCorrect == Spec => []TypeOK
BY Invariance, PTL DEF Inv

(* One import of the country runs; whoever closes its row first says how it *)
(* ended, and says it once (Finish, Fail, the next Start).                 *)
THEOREM ClosedOnceAlways == Spec => []ClosedOnce
BY Invariance, PTL DEF Inv, Journal

(* A run whose row was closed under it leaves nothing behind: places,      *)
(* regions and links change in the commit that closes the row as succeeded.*)
THEOREM OnlySuccessWritesAlways == Spec => OnlySuccessWrites
<1> DEFINE Landed == <<places, admin1, region, linked>>' # <<places, admin1, region, linked>> =>
                       \E r \in Rows : Open(r) /\ journal'[r].status = "succeeded"
<1>1. Inv /\ [Next]_vars => [Landed]_vars
  <2> SUFFICES ASSUME Inv, Next PROVE Landed
    OBVIOUS
  <2>1. CASE \E x \in Execs : Lands(x)
    BY <2>1, LandRow
  <2>2. CASE UNCHANGED data \/ \E c \in Cities, p \in Places : Activate(c, p)
    BY <2>2 DEF data, Activate
  <2> QED
    BY <2>1, <2>2, TableSteps
<1> QED
  BY <1>1, Invariance, PTL DEF Spec, OnlySuccessWrites

(* The last source is stored whole, and no cut one has replaced it.        *)
THEOREM WholeSourcesAlways == Spec => []WholeSources
<1>1. Inv => WholeSources
  BY DEF Inv, Whole, Dated, Shares, Brings, WholeSources
<1> QED
  BY <1>1, Invariance, PTL

(* A place belongs to one city and a code to one region, whatever else has  *)
(* been linked meanwhile; each link is told once.                          *)
THEOREM LinksToldAlways == Spec => []LinksTold
BY Invariance, PTL DEF Inv, Linking

-----------------------------------------------------------------------------
(* Theorems about GeoReads, for every geography and every sequence of       *)
(* imports and changes by hand beside a request.                           *)

(* A request under way is of the kind the plan allows and is watched.      *)
Nearest == {"open", "within", "place", "city"}
BySlug == {"slug", "details"}
Watching ==
  /\ IsFiniteSet(seen)
  /\ read.pc \in {"idle", "done"} \cup Nearest \cup BySlug
  /\ read.pc = "idle" => read = NoRead
  /\ read.pc # "idle" => seen # {}
  /\ read.pc \in Nearest => plan.reads = "nearest"
  /\ read.pc \in BySlug => plan.reads = "slug" /\ read.slug # ""
  /\ read.pc \in Nearest \cup BySlug => Truth(read.locale, read.slug) \in seen

(* A request and the row of a place are records.                           *)
Shaped ==
  /\ read = [pc |-> read.pc, locale |-> read.locale, slug |-> read.slug, open |-> read.open,
             place |-> read.place, row |-> read.row, city |-> read.city]
  /\ read.row = [place |-> read.row.place, city |-> read.row.city, name |-> read.row.name]

(* What it has read was so; the row of the place, if the place has stayed  *)
(* the one that covers the point and its row has not changed.              *)
ToldOf ==
  /\ read.pc \in {"within", "place", "city", "done"} => \E t \in seen : t.open = read.open
  /\ read.pc \in {"place", "city", "done"} => \E t \in seen : t.place = read.place
  /\ read.pc \in {"open", "within", "place"} => read.row = Nothing
  /\ read.pc = "city" => read.row.city # NoCity
  /\ read.pc \in {"city", "done"} =>
       \/ \E t \in seen : t.place # read.place
       \/ \E t, u \in seen : t.here # u.here
       \/ \E t \in seen : t.here = read.row
NamedOf ==
  /\ read.pc = "slug" => read.city = NoCity
  /\ read.pc = "details" => read.city # NoCity /\ \E t \in seen : t.named = read.city
  /\ read.pc = "done" => (\E t, u \in seen : t.named # u.named) \/ \E t \in seen : t.city = read.city
Answering ==
  /\ Watching /\ Shaped
  /\ plan.reads = "nearest" => ToldOf
  /\ plan.reads = "slug" => NamedOf

-----------------------------------------------------------------------------
(* The radius of a place without its root.                                 *)
LEMMA SquaresGrow == \A j, k \in Nat : j <= k => j * j <= k * k
<1> SUFFICES ASSUME NEW j \in Nat, NEW k \in Nat, j <= k PROVE j * j <= k * k
  OBVIOUS
<1>1. j * j <= j * k
  OBVIOUS
<1>2. j * k <= k * k
  OBVIOUS
<1> QED
  BY <1>1, <1>2

LEMMA RootExists ==
  ASSUME NEW n \in Nat
  PROVE  \E k \in 0..n : k * k <= n /\ n < (k + 1) * (k + 1)
<1> DEFINE T == {m \in Nat : n < (m + 1) * (m + 1)}
<1>1. n \in T
  OBVIOUS
<1>2. PICK k \in T : \A m \in T : ~(<<m, k>> \in OpToRel(<, Nat))
  BY <1>1, WFMin, NatLessThanWellFounded, Zenon
<1>3. \A m \in T : ~(m < k)
  BY <1>2 DEF OpToRel
<1>4. k \in Nat /\ n < (k + 1) * (k + 1)
  BY <1>2
<1>5. CASE k = 0
  BY <1>4, <1>5
<1>6. CASE k # 0
  <2>1. k - 1 \in Nat /\ k - 1 < k /\ (k - 1) + 1 = k
    BY <1>4, <1>6
  <2>2. k * k <= n
    BY <1>3, <1>4, <2>1
  <2>3. k <= k * k
    BY <1>4, <1>6
  <2> QED
    BY <1>4, <2>2, <2>3
<1> QED
  BY <1>5, <1>6

LEMMA RootGives ==
  ASSUME NEW n \in Nat
  PROVE  Root(n) \in 0..n /\ Root(n) * Root(n) <= n /\ n < (Root(n) + 1) * (Root(n) + 1)
BY RootExists DEF Root

LEMMA MinOfTwo ==
  ASSUME NEW a \in Nat, NEW b \in Nat
  PROVE  /\ Min({a, b}) \in {a, b} /\ Min({a, b}) <= a /\ Min({a, b}) <= b
<1>1. \E x \in {a, b} : \A y \in {a, b} : x <= y
  <2>1. a <= b \/ b <= a
    OBVIOUS
  <2> QED
    BY <2>1
<1> QED
  BY <1>1 DEF Min

LEMMA CoverGives ==
  ASSUME NEW d \in Nat, NEW pop \in Nat
  PROVE  d <= CoverRadius(pop) <=>
           d <= HereSearchRadius /\ \E k \in 0..d : d <= MinCover + PerRoot * k /\ k * k <= pop
<1> DEFINE r == Root(pop)
           a == MinCover + PerRoot * r
<1>1. MinCover \in Nat /\ PerRoot \in Nat /\ HereSearchRadius \in Nat
  BY ReadsAssumption
<1>2. r \in Nat /\ r * r <= pop /\ pop < (r + 1) * (r + 1)
  BY RootGives
<1>3. a \in Nat
  <2> HIDE DEF r
  <2>1. PerRoot * r \in Nat
    BY <1>1, <1>2
  <2> QED
    BY <1>1, <2>1
<1>4. d <= CoverRadius(pop) <=> d <= a /\ d <= HereSearchRadius
  <2>1. CoverRadius(pop) = Min({a, HereSearchRadius})
    BY DEF CoverRadius
  <2> HIDE DEF a, r
  <2>2. /\ Min({a, HereSearchRadius}) \in {a, HereSearchRadius}
        /\ Min({a, HereSearchRadius}) <= a /\ Min({a, HereSearchRadius}) <= HereSearchRadius
    BY <1>1, <1>3, MinOfTwo
  <2> DEFINE m == Min({a, HereSearchRadius})
  <2>3. m \in Nat /\ m <= a /\ m <= HereSearchRadius /\ (m = a \/ m = HereSearchRadius)
    BY <1>1, <1>3, <2>2
  <2>4. CoverRadius(pop) = m
    BY <2>1
  <2> HIDE DEF m
  <2> QED
    BY <1>1, <1>3, <2>3, <2>4
<1> HIDE DEF r
<1>5. ASSUME d <= a PROVE \E k \in 0..d : d <= MinCover + PerRoot * k /\ k * k <= pop
  <2>1. CASE r <= d
    BY <1>2, <1>5, <2>1
  <2>2. CASE d < r /\ PerRoot = 0
    <3>1. d <= MinCover
      BY <1>1, <1>2, <1>5, <2>2
    <3>2. 0 \in 0..d /\ d <= MinCover + PerRoot * 0 /\ 0 * 0 <= pop
      BY <1>1, <2>2, <3>1
    <3> QED
      BY <3>2
  <2>3. CASE d < r /\ PerRoot # 0
    <3>1. d <= PerRoot * d /\ PerRoot * d \in Nat
      BY <1>1, <2>3
    <3>2. d * d <= r * r
      BY <1>2, <2>3, SquaresGrow
    <3>3. d * d <= pop
      <4> DEFINE dd == d * d
                 rr == r * r
      <4>1. dd \in Nat /\ rr \in Nat /\ dd <= rr /\ rr <= pop
        BY <1>2, <3>2
      <4> HIDE DEF dd, rr
      <4>2. dd <= pop
        BY <4>1
      <4> QED
        BY <4>2 DEF dd
    <3>4. d \in 0..d /\ d <= MinCover + PerRoot * d
      BY <1>1, <3>1
    <3> QED
      BY <3>3, <3>4
  <2> QED
    BY <1>1, <1>2, <2>1, <2>2, <2>3
<1>6. ASSUME NEW k \in 0..d, d <= MinCover + PerRoot * k, k * k <= pop PROVE d <= a
  <2>1. k \in Nat
    OBVIOUS
  <2>2. k <= r
    <3>1. SUFFICES ASSUME r + 1 <= k PROVE FALSE
      BY <1>2, <2>1
    <3>2. (r + 1) * (r + 1) <= k * k
      BY <1>2, <2>1, <3>1, SquaresGrow
    <3> DEFINE kk == k * k
               ss == (r + 1) * (r + 1)
    <3>3. kk \in Nat /\ ss \in Nat /\ ss <= kk /\ kk <= pop /\ pop < ss
      BY <1>2, <1>6, <2>1, <3>2
    <3> HIDE DEF kk, ss
    <3> QED
      BY <3>3
  <2>3. PerRoot * k <= PerRoot * r
    BY <1>1, <1>2, <2>1, <2>2
  <2> DEFINE pk == PerRoot * k
             pr == PerRoot * r
  <2>4. pk \in Nat /\ pr \in Nat /\ pk <= pr /\ d <= MinCover + pk
    BY <1>1, <1>2, <1>6, <2>1, <2>3
  <2>5. a = MinCover + pr
    OBVIOUS
  <2> HIDE DEF pk, pr, a
  <2> QED
    BY <1>1, <2>4, <2>5
<1> HIDE DEF a
<1> QED
  BY <1>4, <1>5, <1>6

(* Reading the places in two steps finds the place that covers the point.   *)
LEMMA HereIsCovering == ASSUME TypeOK PROVE Here(PlacesWithin) = CoveringPlace
<1> DEFINE A == {p \in PlacesWithin : DistanceOf[p] <= CoverRadius(places[p].pop)}
           B == {p \in DOMAIN places : /\ DistanceOf[p] <= HereSearchRadius
                                       /\ \E k \in 0..DistanceOf[p] : DistanceOf[p] <= MinCover + PerRoot * k
                                                                    /\ k * k <= places[p].pop}
<1>1. \A p \in DOMAIN places : DistanceOf[p] \in Nat /\ places[p].pop \in Nat
  BY ReadsAssumption DEF TypeOK
<1>2. \A p \in DOMAIN places : DistanceOf[p] <= CoverRadius(places[p].pop) <=>
         DistanceOf[p] <= HereSearchRadius /\ \E k \in 0..DistanceOf[p] : DistanceOf[p] <= MinCover + PerRoot * k
                                                                        /\ k * k <= places[p].pop
  BY <1>1, CoverGives
<1>3. A = B
  BY <1>2 DEF PlacesWithin
<1>4. Here(PlacesWithin) = NearestOf(A, NoPlace) /\ CoveringPlace = NearestOf(B, NoPlace)
  BY DEF Here, CoveringPlace
<1> QED
  BY <1>3, <1>4

-----------------------------------------------------------------------------
(* The truth is of the tables and the catalog; its fields.                 *)
LEMMA TruthIs ==
  \A l, s :
    /\ Truth(l, s).open = NearestOpenCity
    /\ Truth(l, s).place = CoveringPlace
    /\ Truth(l, s).here = IF CoveringPlace = NoPlace THEN Nothing ELSE GetVisiblePlace(CoveringPlace, l)
    /\ Truth(l, s).named = Named(s)
    /\ Truth(l, s).city = IF Named(s) = NoCity THEN NoCity ELSE GetVisibleCity(Named(s))
BY DEF Truth

LEMMA TruthStays ==
  ASSUME UNCHANGED <<vars, catalog>>
  PROVE  \A l, s : Truth(l, s)' = Truth(l, s)
BY DEF vars, catalog, Truth, NearestOpenCity, CoveringPlace, GetVisiblePlace, PlaceCountry, HolderOf, Free,
       Holders, Named, ResolveCitySlug, GetVisibleCity

(* A place that is visible with a city has one that is visible.             *)
LEMMA CityVisible ==
  ASSUME NEW p, NEW l, GetVisiblePlace(p, l).city # NoCity
  PROVE  GetVisibleCity(GetVisiblePlace(p, l).city) = GetVisiblePlace(p, l).city
<1>1. GetVisiblePlace(p, l).city = HolderOf(p) /\ PlaceCountry(p) \in on
  BY DEF GetVisiblePlace, Nothing
<1>2. ~Free(p)
  BY <1>1 DEF HolderOf
<1> QED
  BY <1>1, <1>2 DEF PlaceCountry, GetVisibleCity

LEMMA VisibleShape ==
  ASSUME NEW p, NEW l
  PROVE  LET r == GetVisiblePlace(p, l) IN r = [place |-> r.place, city |-> r.city, name |-> r.name]
BY DEF GetVisiblePlace, Nothing

(* What a statement writes into the request.                               *)
LEMMA RequestFields ==
  ASSUME Shaped, NEW pc, NEW v
  PROVE  /\ [[read EXCEPT !.open = v] EXCEPT !.pc = pc] =
              [pc |-> pc, locale |-> read.locale, slug |-> read.slug, open |-> v,
               place |-> read.place, row |-> read.row, city |-> read.city]
         /\ [[read EXCEPT !.place = v] EXCEPT !.pc = pc] =
              [pc |-> pc, locale |-> read.locale, slug |-> read.slug, open |-> read.open,
               place |-> v, row |-> read.row, city |-> read.city]
         /\ [[read EXCEPT !.row = v] EXCEPT !.pc = pc] =
              [pc |-> pc, locale |-> read.locale, slug |-> read.slug, open |-> read.open,
               place |-> read.place, row |-> v, city |-> read.city]
         /\ [[read EXCEPT !.city = v] EXCEPT !.pc = pc] =
              [pc |-> pc, locale |-> read.locale, slug |-> read.slug, open |-> read.open,
               place |-> read.place, row |-> read.row, city |-> v]
<1> DEFINE R == [pc : {read.pc, pc}, locale : {read.locale}, slug : {read.slug}, open : {read.open, v},
                 place : {read.place, v}, row : {read.row, v},
                 city : {read.city, v}]
<1>1. read \in R
  <2> DEFINE r == [pc |-> read.pc, locale |-> read.locale, slug |-> read.slug, open |-> read.open,
                   place |-> read.place, row |-> read.row, city |-> read.city]
  <2>1. r \in R
    OBVIOUS
  <2>2. read = r
    BY DEF Shaped
  <2> QED
    BY <2>1, <2>2, Zenon
<1>2. [[read EXCEPT !.open = v] EXCEPT !.pc = pc] =
          [pc |-> pc, locale |-> read.locale, slug |-> read.slug, open |-> v,
           place |-> read.place, row |-> read.row, city |-> read.city]
  <2> DEFINE r ==
          [pc |-> read.pc, locale |-> read.locale, slug |-> read.slug, open |-> v,
           place |-> read.place, row |-> read.row, city |-> read.city]
  <2>1. [read EXCEPT !.open = v] = r
    BY <1>1
  <2>2. [r EXCEPT !.pc = pc] =
          [pc |-> pc, locale |-> read.locale, slug |-> read.slug, open |-> v,
           place |-> read.place, row |-> read.row, city |-> read.city]
    OBVIOUS
  <2> QED
    BY <2>1, <2>2, Zenon
<1>3. [[read EXCEPT !.place = v] EXCEPT !.pc = pc] =
          [pc |-> pc, locale |-> read.locale, slug |-> read.slug, open |-> read.open,
           place |-> v, row |-> read.row, city |-> read.city]
  <2> DEFINE r ==
          [pc |-> read.pc, locale |-> read.locale, slug |-> read.slug, open |-> read.open,
           place |-> v, row |-> read.row, city |-> read.city]
  <2>1. [read EXCEPT !.place = v] = r
    BY <1>1
  <2>2. [r EXCEPT !.pc = pc] =
          [pc |-> pc, locale |-> read.locale, slug |-> read.slug, open |-> read.open,
           place |-> v, row |-> read.row, city |-> read.city]
    OBVIOUS
  <2> QED
    BY <2>1, <2>2, Zenon
<1>4. [[read EXCEPT !.row = v] EXCEPT !.pc = pc] =
          [pc |-> pc, locale |-> read.locale, slug |-> read.slug, open |-> read.open,
           place |-> read.place, row |-> v, city |-> read.city]
  <2> DEFINE r ==
          [pc |-> read.pc, locale |-> read.locale, slug |-> read.slug, open |-> read.open,
           place |-> read.place, row |-> v, city |-> read.city]
  <2>1. [read EXCEPT !.row = v] = r
    BY <1>1
  <2>2. [r EXCEPT !.pc = pc] =
          [pc |-> pc, locale |-> read.locale, slug |-> read.slug, open |-> read.open,
           place |-> read.place, row |-> v, city |-> read.city]
    OBVIOUS
  <2> QED
    BY <2>1, <2>2, Zenon
<1>5. [[read EXCEPT !.city = v] EXCEPT !.pc = pc] =
          [pc |-> pc, locale |-> read.locale, slug |-> read.slug, open |-> read.open,
           place |-> read.place, row |-> read.row, city |-> v]
  <2> DEFINE r ==
          [pc |-> read.pc, locale |-> read.locale, slug |-> read.slug, open |-> read.open,
           place |-> read.place, row |-> read.row, city |-> v]
  <2>1. [read EXCEPT !.city = v] = r
    BY <1>1
  <2>2. [r EXCEPT !.pc = pc] =
          [pc |-> pc, locale |-> read.locale, slug |-> read.slug, open |-> read.open,
           place |-> read.place, row |-> read.row, city |-> v]
    OBVIOUS
  <2> QED
    BY <2>1, <2>2, Zenon
<1> QED
  BY <1>2, <1>3, <1>4, <1>5

LEMMA RequestRow ==
  ASSUME Shaped, NEW pc, NEW v
  PROVE  [[read EXCEPT !.row.city = v] EXCEPT !.pc = pc] =
           [pc |-> pc, locale |-> read.locale, slug |-> read.slug, open |-> read.open,
            place |-> read.place, city |-> read.city,
            row |-> [place |-> read.row.place, city |-> v, name |-> read.row.name]]
<1> DEFINE R == [pc : {read.pc, pc}, locale : {read.locale}, slug : {read.slug}, open : {read.open},
                 place : {read.place}, row : {[read.row EXCEPT !.city = v], read.row}, city : {read.city}]
<1>1. read \in R
  <2> DEFINE r == [pc |-> read.pc, locale |-> read.locale, slug |-> read.slug, open |-> read.open,
                   place |-> read.place, row |-> read.row, city |-> read.city]
  <2>1. r \in R
    OBVIOUS
  <2>2. read = r
    BY DEF Shaped
  <2> QED
    BY <2>1, <2>2, Zenon
<1>2. [read.row EXCEPT !.city = v] = [place |-> read.row.place, city |-> v, name |-> read.row.name]
  <2> DEFINE S == [place : {read.row.place}, city : {read.row.city, v}, name : {read.row.name}]
             s == [place |-> read.row.place, city |-> read.row.city, name |-> read.row.name]
  <2>1. s \in S
    OBVIOUS
  <2>2. read.row = s
    BY DEF Shaped
  <2>3. read.row \in S
    BY <2>1, <2>2, Zenon
  <2> QED
    BY <2>3
<1>3. [[read EXCEPT !.row.city = v] EXCEPT !.pc = pc] =
          [pc |-> pc, locale |-> read.locale, slug |-> read.slug, open |-> read.open,
           place |-> read.place, row |-> [read.row EXCEPT !.city = v], city |-> read.city]
  <2> DEFINE r ==
          [pc |-> read.pc, locale |-> read.locale, slug |-> read.slug, open |-> read.open,
           place |-> read.place, row |-> [read.row EXCEPT !.city = v], city |-> read.city]
  <2>1. [read EXCEPT !.row.city = v] = r
    BY <1>1
  <2>2. [r EXCEPT !.pc = pc] =
          [pc |-> pc, locale |-> read.locale, slug |-> read.slug, open |-> read.open,
           place |-> read.place, row |-> [read.row EXCEPT !.city = v], city |-> read.city]
    OBVIOUS
  <2> QED
    BY <2>1, <2>2, Zenon
<1> QED
  BY <1>2, <1>3

-----------------------------------------------------------------------------
(* Who reads.                                                              *)
LEMMA AskedStep ==
  ASSUME Answering, UNCHANGED <<vars, catalog>>, read = NoRead,
         \/ plan.reads = "nearest" /\ \E l \in Negotiated : FindNearestCity(l)
         \/ plan.reads = "slug" /\ \E s \in Slugs : GetCityBySlug(s)
  PROVE  Answering'
<1> DEFINE Put(r) == /\ read' = r /\ seen' = {Truth(r.locale, r.slug)}
<1>1. plan' = plan
  BY DEF vars
<1>2. IsFiniteSet(seen') /\ seen' # {}
  <2>1. \E t : seen' = {t}
    BY DEF FindNearestCity, GetCityBySlug, Asked
  <2> QED
    BY <2>1, FS_Singleton
<1>3. CASE plan.reads = "nearest" /\ \E l \in Negotiated : FindNearestCity(l)
  <2>1. PICK l \in Negotiated : Put([NoRead EXCEPT !.pc = "open", !.locale = l])
    BY <1>3 DEF FindNearestCity, Asked
  <2>2. read' = [pc |-> "open", locale |-> l, slug |-> "", open |-> NoCity, place |-> NoPlace,
                 row |-> Nothing, city |-> NoCity]
    BY <2>1 DEF NoRead
  <2>3. Truth(read.locale, read.slug)' \in seen'
    <3>1. seen' = {Truth(l, "")} /\ read'.locale = l /\ read'.slug = ""
      BY <2>1, <2>2 DEF NoRead
    <3> QED
      BY <3>1, TruthStays
  <2>4. Shaped'
    BY <2>2 DEF Shaped, Nothing
  <2>5. Watching'
    BY <1>1, <1>2, <1>3, <2>2, <2>3 DEF Watching, Nearest, BySlug
  <2>6. ToldOf'
    BY <2>2 DEF ToldOf
  <2> QED
    BY <1>1, <1>3, <2>4, <2>5, <2>6 DEF Answering
<1>4. CASE plan.reads = "slug" /\ \E s \in Slugs : GetCityBySlug(s)
  <2>1. PICK s \in Slugs : Put([NoRead EXCEPT !.pc = "slug", !.slug = s])
    BY <1>4 DEF GetCityBySlug, Asked
  <2>2. read' = [pc |-> "slug", locale |-> NoLocale, slug |-> s, open |-> NoCity, place |-> NoPlace,
                 row |-> Nothing, city |-> NoCity]
    BY <2>1 DEF NoRead
  <2>3. Truth(read.locale, read.slug)' \in seen'
    <3>1. seen' = {Truth(NoLocale, s)} /\ read'.locale = NoLocale /\ read'.slug = s
      BY <2>1, <2>2 DEF NoRead
    <3> QED
      BY <3>1, TruthStays
  <2>4. Shaped'
    BY <2>2 DEF Shaped, Nothing
  <2>5. s # ""
    BY ReadsAssumption
  <2>6. Watching'
    BY <1>1, <1>2, <1>4, <2>2, <2>3, <2>5 DEF Watching, Nearest, BySlug
  <2>7. NamedOf'
    BY <2>2 DEF NamedOf
  <2> QED
    BY <1>1, <1>4, <2>4, <2>6, <2>7 DEF Answering
<1> QED
  BY <1>3, <1>4

(* A statement of the request leaves what it watches as it is.              *)
LEMMA ReadingKeeps ==
  ASSUME Answering, UNCHANGED <<vars, catalog>>, UNCHANGED seen, Shaped',
         read.pc \in Nearest \cup BySlug,
         read'.locale = read.locale, read'.slug = read.slug,
         \/ read'.pc = "done"
         \/ read.pc \in Nearest /\ read'.pc \in Nearest
         \/ read.pc \in BySlug /\ read'.pc \in BySlug
  PROVE  Watching'
<1>1. plan' = plan
  BY DEF vars
<1>2. Truth(read.locale, read.slug)' = Truth(read.locale, read.slug)
  BY TruthStays
<1>3. Watching
  BY DEF Answering
<1>4. Truth(read.locale, read.slug)' \in seen'
  BY <1>2, <1>3 DEF Watching
<1>5. /\ IsFiniteSet(seen') /\ seen' # {}
      /\ read'.pc \in {"done"} \cup Nearest \cup BySlug
      /\ read'.pc \in Nearest => plan'.reads = "nearest"
      /\ read'.pc \in BySlug => plan'.reads = "slug" /\ read'.slug # ""
  BY <1>1, <1>3 DEF Watching, Nearest, BySlug
<1>6. read'.pc # "idle"
  BY <1>5 DEF Nearest, BySlug
<1> QED
  BY <1>4, <1>5, <1>6 DEF Watching

LEMMA NearestReads ==
  ASSUME TypeOK, Answering, UNCHANGED <<vars, catalog>>,
         ReadOpen \/ ReadWithin \/ ReadPlace \/ ReadPlaceCity
  PROVE  Answering'
<1> DEFINE moment == Truth(read.locale, read.slug)
<1>1. plan' = plan /\ seen' = seen
  BY DEF vars, ReadOpen, ReadWithin, ReadPlace, ReadPlaceCity, Reading
<1>2. Watching /\ Shaped /\ read.pc \in Nearest /\ plan.reads = "nearest" /\ ToldOf
  BY DEF Answering, Watching, Nearest, ReadOpen, ReadWithin, ReadPlace, ReadPlaceCity
<1>3. moment \in seen
  BY <1>2 DEF Watching
<1>4. /\ moment.open = NearestOpenCity /\ moment.place = CoveringPlace
      /\ moment.here = IF CoveringPlace = NoPlace THEN Nothing ELSE GetVisiblePlace(CoveringPlace, read.locale)
  BY TruthIs
<1> HIDE DEF moment
<1>5. SUFFICES /\ Shaped' /\ ToldOf' /\ read'.pc \in Nearest \cup {"done"}
               /\ read'.locale = read.locale /\ read'.slug = read.slug
  <2>1. Watching'
    BY <1>1, <1>2, <1>5, ReadingKeeps
  <2> QED
    BY <1>1, <1>2, <1>5, <2>1 DEF Answering
<1>6. CASE ReadOpen
  <2>1. read' = [pc |-> "within", locale |-> read.locale, slug |-> read.slug, open |-> NearestOpenCity,
                 place |-> read.place, row |-> read.row, city |-> read.city] /\ read.pc = "open"
    BY <1>2, <1>6, RequestFields DEF ReadOpen, Reading
  <2>2. Shaped'
    BY <1>2, <2>1 DEF Shaped
  <2>3. ToldOf'
    BY <1>1, <1>2, <1>3, <1>4, <2>1 DEF ToldOf
  <2> QED
    BY <2>1, <2>2, <2>3 DEF Nearest
<1>7. CASE ReadWithin
  <2>1. PICK pc : /\ read' = [pc |-> pc, locale |-> read.locale, slug |-> read.slug, open |-> read.open,
                              place |-> CoveringPlace, row |-> read.row, city |-> read.city]
                  /\ read.pc = "within" /\ pc = IF CoveringPlace = NoPlace THEN "done" ELSE "place"
    BY <1>2, <1>7, RequestFields, HereIsCovering DEF ReadWithin, Reading
  <2>2. Shaped'
    BY <1>2, <2>1 DEF Shaped
  <2>3. ToldOf'
    BY <1>1, <1>2, <1>3, <1>4, <2>1 DEF ToldOf
  <2> QED
    BY <2>1, <2>2, <2>3 DEF Nearest
<1>8. CASE ReadPlace
  <2> DEFINE row == GetVisiblePlace(read.place, read.locale)
  <2>1. PICK pc : /\ read' = [pc |-> pc, locale |-> read.locale, slug |-> read.slug, open |-> read.open,
                              place |-> read.place, row |-> row, city |-> read.city]
                  /\ read.pc = "place" /\ pc = IF row.city = NoCity THEN "done" ELSE "city"
    BY <1>2, <1>8, RequestFields DEF ReadPlace, Reading
  <2>2. row = [place |-> row.place, city |-> row.city, name |-> row.name]
    BY VisibleShape
  <2>3. (\E t \in seen : t.place # read.place) \/ \E t \in seen : t.here = row
    <3>1. ASSUME CoveringPlace = read.place PROVE moment.here = row
      <4>1. NoPlace \notin DOMAIN places
        BY TablesAssumption DEF TypeOK
      <4> QED
        BY <1>4, <3>1, <4>1 DEF GetVisiblePlace
    <3> QED
      BY <1>3, <1>4, <3>1
  <2> HIDE DEF row
  <2>4. Shaped'
    BY <2>1, <2>2 DEF Shaped
  <2>5. ToldOf'
    BY <1>1, <1>2, <2>1, <2>3 DEF ToldOf
  <2> QED
    BY <2>1, <2>4, <2>5 DEF Nearest
<1>9. CASE ReadPlaceCity
  <2> DEFINE c == GetVisibleCity(read.row.city)
             row == [place |-> read.row.place, city |-> c, name |-> read.row.name]
  <2>1. read' = [pc |-> "done", locale |-> read.locale, slug |-> read.slug, open |-> read.open,
                 place |-> read.place, row |-> row, city |-> read.city] /\ read.pc = "city"
    <3>1. read' = [[read EXCEPT !.row.city = c] EXCEPT !.pc = "done"] /\ read.pc = "city"
      BY <1>9 DEF ReadPlaceCity, Reading
    <3> HIDE DEF c
    <3>2. [[read EXCEPT !.row.city = c] EXCEPT !.pc = "done"] =
            [pc |-> "done", locale |-> read.locale, slug |-> read.slug, open |-> read.open,
             place |-> read.place, city |-> read.city,
             row |-> [place |-> read.row.place, city |-> c, name |-> read.row.name]]
      BY <1>2, RequestRow
    <3> QED
      BY <3>1, <3>2
  <2>2. ASSUME \A t \in seen : t.place = read.place, \A t, u \in seen : t.here = u.here
        PROVE  \E t \in seen : t.here = row
    <3>1. moment.here = read.row /\ read.row.city # NoCity
      BY <1>2, <1>3, <2>1, <2>2 DEF ToldOf
    <3>2. moment.here = GetVisiblePlace(CoveringPlace, read.locale)
      BY <1>4, <3>1 DEF Nothing
    <3>3. c = read.row.city
      BY <3>1, <3>2, CityVisible
    <3>4. row = read.row
      BY <1>2, <3>3 DEF Shaped
    <3> QED
      BY <1>3, <3>1, <3>4
  <2> HIDE DEF c
  <2>3. Shaped'
    BY <2>1 DEF Shaped
  <2> HIDE DEF row
  <2>4. ToldOf'
    BY <1>1, <1>2, <2>1, <2>2 DEF ToldOf
  <2> QED
    BY <2>1, <2>3, <2>4
<1> QED
  BY <1>6, <1>7, <1>8, <1>9

LEMMA SlugReads ==
  ASSUME Answering, UNCHANGED <<vars, catalog>>, ReadSlug \/ ReadDetails
  PROVE  Answering'
<1> DEFINE moment == Truth(read.locale, read.slug)
<1>1. plan' = plan /\ seen' = seen
  BY DEF vars, ReadSlug, ReadDetails, Reading
<1>2. Watching /\ Shaped /\ read.pc \in BySlug /\ plan.reads = "slug" /\ NamedOf /\ read.slug # ""
  BY DEF Answering, Watching, BySlug, ReadSlug, ReadDetails
<1>3. moment \in seen
  BY <1>2 DEF Watching
<1>4. /\ moment.named = ResolveCitySlug(read.slug)
      /\ moment.city = IF moment.named = NoCity THEN NoCity ELSE GetVisibleCity(moment.named)
  BY <1>2, TruthIs DEF Named
<1> HIDE DEF moment
<1>5. SUFFICES /\ Shaped' /\ NamedOf' /\ read'.pc \in BySlug \cup {"done"}
               /\ read'.locale = read.locale /\ read'.slug = read.slug
  <2>1. Watching'
    BY <1>1, <1>2, <1>5, ReadingKeeps
  <2> QED
    BY <1>1, <1>2, <1>5, <2>1 DEF Answering
<1>6. CASE ReadSlug
  <2> DEFINE c == ResolveCitySlug(read.slug)
  <2>1. PICK pc : /\ read' = [pc |-> pc, locale |-> read.locale, slug |-> read.slug, open |-> read.open,
                              place |-> read.place, row |-> read.row, city |-> c]
                  /\ read.pc = "slug" /\ pc = IF c = NoCity THEN "done" ELSE "details"
    BY <1>2, <1>6, RequestFields DEF ReadSlug, Reading
  <2> HIDE DEF c
  <2>2. moment.named = c
    BY <1>4 DEF c
  <2>3. Shaped'
    BY <1>2, <2>1 DEF Shaped
  <2>4. NamedOf'
    BY <1>1, <1>3, <1>4, <2>1, <2>2 DEF NamedOf
  <2> QED
    BY <2>1, <2>3, <2>4 DEF BySlug
<1>7. CASE ReadDetails
  <2> DEFINE c == GetVisibleCity(read.city)
  <2>1. read' = [pc |-> "done", locale |-> read.locale, slug |-> read.slug, open |-> read.open,
                 place |-> read.place, row |-> read.row, city |-> c] /\ read.pc = "details"
    BY <1>2, <1>7, RequestFields DEF ReadDetails, Reading
  <2>2. ASSUME \A t, u \in seen : t.named = u.named PROVE moment.city = c
    BY <1>2, <1>3, <1>4, <2>1, <2>2 DEF NamedOf
  <2> HIDE DEF c
  <2>3. Shaped'
    BY <1>2, <2>1 DEF Shaped
  <2>4. NamedOf'
    BY <1>1, <1>3, <2>1, <2>2 DEF NamedOf
  <2> QED
    BY <2>1, <2>3, <2>4
<1> QED
  BY <1>6, <1>7

(* What others do is watched; of what was so, nothing is forgotten.         *)
LEMMA WatchedStep ==
  ASSUME Answering, plan' = plan, Watched
  PROVE  Answering'
<1>1. read' = read /\ seen \subseteq seen'
  BY DEF Watched
<1>2. Watching /\ Shaped
  BY DEF Answering
<1>3. IsFiniteSet(seen')
  <2>1. IsFiniteSet(seen)
    BY <1>2 DEF Watching
  <2>2. \A t : IsFiniteSet(seen \cup {t})
    BY <2>1, FS_AddElement
  <2> QED
    BY <2>1, <2>2 DEF Watched
<1>4. read.pc \in Nearest \cup BySlug => Truth(read.locale, read.slug)' \in seen'
  BY DEF Watched, Nearest, BySlug
<1>5. Watching'
  BY <1>1, <1>2, <1>3, <1>4 DEF Watching
<1>6. Shaped'
  BY <1>1, <1>2 DEF Shaped
<1>7. seen = {} => read.pc = "idle"
  BY <1>2 DEF Watching
<1>8. ToldOf => ToldOf'
  BY <1>1 DEF ToldOf
<1>9. NamedOf => NamedOf'
  BY <1>1 DEF NamedOf
<1> QED
  BY <1>5, <1>6, <1>8, <1>9 DEF Answering

-----------------------------------------------------------------------------
LEMMA AnsweringInit == ReadsInit => Answering
<1> SUFFICES ASSUME ReadsInit PROVE Answering
  OBVIOUS
<1>1. read = NoRead /\ seen = {}
  BY DEF ReadsInit
<1>2. IsFiniteSet(seen)
  BY <1>1, FS_EmptySet
<1> QED
  BY <1>1, <1>2 DEF Answering, Watching, Shaped, ToldOf, NamedOf, NoRead, Nothing, Nearest, BySlug

LEMMA AnsweringStep ==
  ASSUME Inv, Answering, [ReadsNext]_<<vars, catalog, read, seen>>
  PROVE  Answering'
<1>1. CASE UNCHANGED <<vars, catalog, read, seen>>
  <2>1. Watched \/ Answering'
    <3>1. Truth(read.locale, read.slug)' = Truth(read.locale, read.slug)
      BY <1>1, TruthStays
    <3> QED
      BY <1>1, <3>1 DEF Watched, Answering, Watching, Nearest, BySlug
  <2>2. plan' = plan
    BY <1>1 DEF vars
  <2> QED
    BY <2>1, <2>2, WatchedStep
<1>2. CASE Next /\ UNCHANGED catalog /\ Watched
  <2>1. plan' = plan
    BY <1>2, TableSteps
  <2> QED
    BY <1>2, <2>1, WatchedStep
<1>3. CASE Reads
  <2>1. UNCHANGED <<vars, catalog>>
    BY <1>3 DEF Reads
  <2> QED
    BY <1>3, <2>1, AskedStep, NearestReads, SlugReads DEF Reads, Inv
<1>4. CASE Administer
  <2>1. plan' = plan /\ Watched
    BY <1>4 DEF Administer, vars
  <2> QED
    BY <2>1, WatchedStep
<1> QED
  BY <1>1, <1>2, <1>3, <1>4 DEF ReadsNext

(* If the moments of a request agree on something, they agree on what it    *)
(* was told.                                                               *)
LEMMA OneValue ==
  ASSUME NEW S, IsFiniteSet(S), Cardinality(S) = 1
  PROVE  \A x, y \in S : x = y
<1>1. PICK x : S = {x}
  BY FS_Singleton
<1> QED
  BY <1>1

LEMMA FieldsFinite ==
  ASSUME IsFiniteSet(seen)
  PROVE  \A f : IsFiniteSet({t[f] : t \in seen})
<1> SUFFICES ASSUME NEW f PROVE IsFiniteSet({t[f] : t \in seen})
  OBVIOUS
<1> DEFINE g == [t \in seen |-> t[f]]
           T == {t[f] : t \in seen}
<1>1. g \in Surjection(seen, T)
  BY DEF Surjection
<1> HIDE DEF g, T
<1>2. IsFiniteSet(T)
  BY <1>1, FS_Surjection
<1> QED
  BY <1>2 DEF T

LEMMA AnsweredTrue == Answering => AnswersTold
<1> SUFFICES ASSUME Answering, read.pc = "done" PROVE AnswersTold
  BY DEF AnswersTold
<1> DEFINE all(f) == {t[f] : t \in seen}
<1>1. IsFiniteSet(seen) /\ seen # {}
  BY DEF Answering, Watching
<1>2. \A f : IsFiniteSet(all(f))
  BY <1>1, FieldsFinite
<1>3. ASSUME plan.reads = "nearest"
      PROVE  /\ read.open \in all("open") /\ read.place \in all("place")
             /\ Cardinality(all("place")) = 1 => (Cardinality(all("here")) = 1 => read.row \in all("here"))
  <2>1. /\ \E t \in seen : t.open = read.open
        /\ \E t \in seen : t.place = read.place
        /\ \/ \E t \in seen : t.place # read.place
           \/ \E t, u \in seen : t.here # u.here
           \/ \E t \in seen : t.here = read.row
    BY <1>3 DEF Answering, ToldOf
  <2>2. read.open \in all("open") /\ read.place \in all("place")
    BY <2>1
  <2>3. ASSUME Cardinality(all("place")) = 1, Cardinality(all("here")) = 1 PROVE read.row \in all("here")
    <3>1. /\ \A x, y \in all("place") : x = y
          /\ \A x, y \in all("here") : x = y
      <4> HIDE DEF all
      <4> QED
        BY <1>2, <2>3, OneValue
    <3>2. \A t \in seen : t.place \in all("place") /\ t.here \in all("here")
      OBVIOUS
    <3>3. \A t \in seen : t.place = read.place
      BY <2>2, <3>1, <3>2, Zenon
    <3>4. \A t, u \in seen : t.here = u.here
      BY <3>1, <3>2, Zenon
    <3> QED
      BY <2>1, <3>2, <3>3, <3>4
  <2> QED
    BY <2>2, <2>3
<1>4. ASSUME plan.reads = "slug", Cardinality(all("named")) = 1 PROVE read.city \in all("city")
  <2>1. (\E t, u \in seen : t.named # u.named) \/ \E t \in seen : t.city = read.city
    BY <1>4 DEF Answering, NamedOf
  <2>2. \A x, y \in all("named") : x = y
    <3> HIDE DEF all
    <3> QED
      BY <1>2, <1>4, OneValue
  <2>3. \A t \in seen : t.named \in all("named") /\ t.city \in all("city")
    OBVIOUS
  <2> QED
    BY <2>1, <2>2, <2>3
<1> HIDE DEF all
<1> QED
  BY <1>3, <1>4 DEF AnswersTold, all

-----------------------------------------------------------------------------
(* Theorems.                                                               *)
(* Readers and administrators change nothing of the imports, so what is     *)
(* proved of GeoImport holds beside them.                                  *)
THEOREM ReadsKeep == ReadsSpec => Spec
<1>1. ReadsInit => Init
  BY DEF ReadsInit
<1>2. [ReadsNext]_<<vars, catalog, read, seen>> => [Next]_vars
  BY DEF ReadsNext, Reads, Administer
<1> QED
  BY <1>1, <1>2, PTL DEF ReadsSpec, Spec

(* The answer of a finished request: what stayed so while it ran is what it *)
(* is told, though it read in statements of their own.                     *)
THEOREM AnswersToldAlways == ReadsSpec => []AnswersTold
<1>1. ReadsSpec => []Inv
  BY ReadsKeep, Invariance, PTL
<1>2. Inv /\ Answering /\ [ReadsNext]_<<vars, catalog, read, seen>> => Answering'
  BY AnsweringStep
<1> QED
  BY <1>1, <1>2, AnsweringInit, AnsweredTrue, PTL DEF ReadsSpec

(* What is proved of the imports holds beside the readers: one run at a     *)
(* time says once how it ended, whole sources, and links told.             *)
THEOREM ImportsBesideReaders == ReadsSpec => [](ClosedOnce /\ WholeSources /\ LinksTold)
BY ReadsKeep, ClosedOnceAlways, WholeSourcesAlways, LinksToldAlways, PTL
=============================================================================
