----------------------------- MODULE GeoQueries -----------------------------
(***************************************************************************)
(* The statements on the tables of geography (geo/internal/store/geodb):   *)
(* what each makes of a table, or reads in it.  A table is a function from *)
(* its keys to rows: T of places, A of admin1, C of cities, R of regions,  *)
(* J the journal of imports.                                               *)
(***************************************************************************)
EXTENDS GeoSource

CONSTANTS
  Cities, NoPlace,      \* cities, none of the places
  Regions, NoRegion, RegionOf,  \* regions of our country, the region of a city
  OursOf,               \* cities of the country that is imported
  CalledLike,           \* pairs <<city, place>> of the same name
  NamedLike             \* pairs <<region, code>> of the same name

ASSUME TablesAssumption ==
  /\ NoPlace \notin Places /\ NoRegion \notin Regions
  /\ RegionOf \in [Cities -> Regions \cup {NoRegion}] /\ OursOf \subseteq Cities
  /\ CalledLike \subseteq Cities \X Places /\ NamedLike \subseteq Regions \X Codes

Without(T, keys) == [k \in DOMAIN T \ keys |-> T[k]]
Over(f, g) == [k \in DOMAIN f \cup DOMAIN g |-> IF k \in DOMAIN f THEN f[k] ELSE g[k]]
NoNames == [l \in {} |-> OwnName]

-----------------------------------------------------------------------------
(* The source of a country replaces places, regions and their names.       *)
ImportAdmin1Count(A) == Cardinality(DOMAIN A)

ImportUpsertPlaces(T, rows) ==
  Over([p \in DOMAIN rows |-> [admin1 |-> rows[p].admin1, pop |-> rows[p].pop, missing |-> FALSE,
                               names |-> IF p \in DOMAIN T THEN T[p].names ELSE NoNames]], T)
ImportDeletePlaceNames(T, ids) ==
  [p \in DOMAIN T |-> IF p \in ids THEN [T[p] EXCEPT !.names = NoNames] ELSE T[p]]
ImportInsertPlaceNames(T, rows) ==
  [p \in DOMAIN T |-> IF p \in DOMAIN rows THEN [T[p] EXCEPT !.names = Over(@, rows[p].names)] ELSE T[p]]

ImportDeleteAdmin1Names(A) == [c \in DOMAIN A |-> NoNames]
ImportUpsertAdmin1(A, codes) == Over(A, [c \in codes |-> NoNames])
ImportDeleteStaleAdmin1(A, keep) == Without(A, DOMAIN A \ keep)
ImportInsertAdmin1Names(A, N) == [c \in DOMAIN A |-> Over(A[c], N[c])]

(* Places another import has brought: one of a city stays, marked.          *)
ImportMarkMissing(T, held) == [p \in DOMAIN T |-> IF p \in held THEN [T[p] EXCEPT !.missing = TRUE] ELSE T[p]]
ImportDeleteGone(T, gone) == Without(T, gone)

-----------------------------------------------------------------------------
(* Cities without a place, and the places that may be theirs: of the same   *)
(* name, and of the region by its code, or by its name if it has no code.   *)
Holders(C, p) == {c \in Cities : C[c].place = p}
ImportUnlinkedCities(C) == {c \in OursOf : C[c].place = NoPlace}
ImportCityCandidates(C, R, T, A, c) ==
  {p \in DOMAIN T :
     /\ <<c, p>> \in CalledLike /\ RegionOf[c] # NoRegion
     /\ LET r == RegionOf[c] IN
        \/ R[r].code # NoCode /\ T[p].admin1 = R[r].code
        \/ R[r].code = NoCode /\ T[p].admin1 \in DOMAIN A /\ <<r, T[p].admin1>> \in NamedLike
     /\ Holders(C, p) = {}}

Translations(have, given) == Over(have, [l \in DOMAIN given \ {CountryLocale} |-> given[l]])
ImportLinkCity(C, c, p) == [C EXCEPT ![c].place = p, ![c].version = @ + 1]
ImportCityNamesFromPlace(C, c, names) == [C EXCEPT ![c].names = Translations(@, names)]
ImportLinkRegion(R, r, code) ==
  IF R[r].code = NoCode /\ \A q \in Regions : R[q].code # code
  THEN [R EXCEPT ![r].code = code] ELSE R
ImportRegionNamesFromAdmin1(R, A, r, code) ==
  IF code \in DOMAIN A THEN [R EXCEPT ![r].names = Translations(@, A[code])] ELSE R

-----------------------------------------------------------------------------
(* The journal.  The unique index geonames_imports_running is the guard of  *)
(* the action that starts an import.                                       *)
Running(J, r) == J[r].status = "running"
ImportFindOwnRunning(J, j) == {r \in DOMAIN J : Running(J, r) /\ J[r].job = j}
ImportRestart(J, r, t) == [J EXCEPT ![r].start = t]
ImportFailStale(J, stale, t) ==
  [r \in DOMAIN J |-> IF r \in stale THEN [J[r] EXCEPT !.status = "failed", !.fin = t, !.error = "stale"] ELSE J[r]]
ImportStart(J, r, t, j) == [J EXCEPT ![r].status = "running", ![r].start = t, ![r].job = j]
ImportFail(J, r, t, files, error) ==
  [J EXCEPT ![r].status = "failed", ![r].fin = t, ![r].error = error,
            ![r].files = IF files = {} THEN @ ELSE files]
ImportSucceed(J, r, t, feed, n) ==
  [J EXCEPT ![r].status = "succeeded", ![r].fin = t, ![r].places = n,
            ![r].files = {<<feed, i>> : i \in DOMAIN Files}]

(* The last success by finished_at, a tie decided by started_at; in the     *)
(* coarse time here by which row came later.                               *)
Succeeded(J) == {r \in DOMAIN J : J[r].status = "succeeded"}
Later(J, q, r) ==
  \/ J[q].fin > J[r].fin
  \/ J[q].fin = J[r].fin /\ (J[q].start > J[r].start \/ (J[q].start = J[r].start /\ q > r))
ImportLastSucceededPlaces(J) ==
  {J[r].places : r \in {q \in Succeeded(J) : \A o \in Succeeded(J) : ~Later(J, o, q)}}
=============================================================================
