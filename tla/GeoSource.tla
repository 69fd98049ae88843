------------------------------ MODULE GeoSource ------------------------------
(***************************************************************************)
(* The source of an import (backend/internal/geo/internal/source): the     *)
(* three files of GeoNames for a country, fetched and parsed, and what     *)
(* import.go prepares of them: the places worth having, the regions, and   *)
(* their names (domain.ChooseName).                                        *)
(*                                                                         *)
(* A feed stands for what the server gives at one time.  A file is fine,   *)
(* refused (nothing of it is there: an answer that is not 200, a redirect  *)
(* to another host, too long) or rejected once it is there: no archive of  *)
(* the right shape, a line that is none of GeoNames.                       *)
(***************************************************************************)
EXTENDS Naturals, FiniteSets, Sequences, SequencesExt

CONSTANTS
  Feeds, Given,           \* feeds, and the files of each
  Places, Codes, NoCode,  \* geonameids of places, admin1 codes, none ("" or "00")
  Locales, NoLocale,      \* domain.SupportedLocales; a name without a language
  CountryLocale, English, \* the language of the country, the one ascii names are for
  MinPopulation

Files == <<"admin1", "places", "names">>
Populated == "P"
ExcludedCodes == {"PPLX", "PPLQ", "PPLH", "PPLW", "PPLCH"}
AdminCenters == {"PPLA", "PPLA2", "PPLA3", "PPLA4", "PPLC"}

Row == [id : Places, ours : BOOLEAN, class : {"P", "A"}, feature : STRING, pop : Nat, zone : BOOLEAN,
        admin1 : Codes \cup {NoCode}]
AltName == [id : Nat \ {0, 1}, of : Places \cup Codes, locale : Locales \cup {NoLocale},
            preferred : BOOLEAN, short : BOOLEAN, script : BOOLEAN, old : BOOLEAN]
Source == [file : [{"admin1", "places", "names"} -> {"fine", "refused", "rejected"}],
           rows : Seq(Row), codes : SUBSET Codes, alts : SUBSET AltName]

ASSUME SourceAssumption ==
  /\ NoCode \notin Codes /\ Codes \cap Places = {} /\ NoLocale \notin Locales
  /\ CountryLocale \in Locales /\ English \in Locales /\ MinPopulation \in Nat
  /\ DOMAIN Given = Feeds /\ \A f \in Feeds :
       /\ Given[f].rows \in Seq(Row) /\ Given[f].codes \subseteq Codes
       /\ Given[f].alts \subseteq AltName
       /\ \A i \in DOMAIN Files : Given[f].file[Files[i]] \in {"fine", "refused", "rejected"}

-----------------------------------------------------------------------------
(* Fetch: one file after the other; the first that is not fine ends it.    *)
(* One that was downloaded is in the journal, a rejected one too.          *)
Fine(s, i) == s.file[Files[i]] = "fine"
Reached(s) == {i \in DOMAIN Files : \A j \in 1..(i - 1) : Fine(s, j)}
Downloaded(s) == {i \in Reached(s) : s.file[Files[i]] # "refused"}
Fetched(s) == \A i \in DOMAIN Files : Fine(s, i)
Rejected(s) == \E i \in Reached(s) : s.file[Files[i]] = "rejected"

-----------------------------------------------------------------------------
(* Rows not worth having go as they are parsed, before prepare sees them.   *)
PlaceAllowed(r) ==
  /\ r.class = Populated /\ r.feature \notin ExcludedCodes
  /\ r.pop >= MinPopulation \/ r.feature \in AdminCenters
Kept(s) == {i \in DOMAIN s.rows : s.rows[i].ours /\ PlaceAllowed(s.rows[i])}

(* Of the rows of one place the first decides, even one without a zone.     *)
FirstRows(s) == {s.rows[i] : i \in {k \in Kept(s) : \A j \in Kept(s) : s.rows[j].id = s.rows[k].id => k <= j}}
PlacesOf(s) == {r.id : r \in {q \in FirstRows(s) : q.zone}}
RowOf(s, p) == CHOOSE r \in FirstRows(s) : r.id = p

-----------------------------------------------------------------------------
(* A name in a language, by its id: of the usable ones the best kind, of    *)
(* the best the oldest; for the language of the country one without a       *)
(* language will do; else what the row of the place itself says.           *)
OwnName == 0
AsciiName == 1
Usable(a) == ~a.old
Kind(a) == CASE a.preferred /\ ~a.short -> 1
             [] ~a.short /\ a.script    -> 2
             [] a.preferred             -> 3
             [] a.script                -> 4
             [] OTHER                   -> 5
Better(a, b) == Kind(a) < Kind(b) \/ (Kind(a) = Kind(b) /\ a.id <= b.id)
BestOf(pool) == {a.id : a \in {b \in pool : \A c \in pool : Better(b, c)}}

ChooseName(alts, l, fallback) ==
  LET pool == {a \in alts : a.locale = l /\ Usable(a)}
      bare == {a \in alts : l = CountryLocale /\ a.locale = NoLocale /\ a.preferred /\ Usable(a) /\ a.script}
  IN IF pool # {} THEN BestOf(pool) ELSE IF bare # {} THEN BestOf(bare) ELSE fallback

Fallback(l) == IF l = CountryLocale THEN {OwnName} ELSE IF l = English THEN {AsciiName} ELSE {}
NamesOf(s, o) ==
  LET alts == {a \in s.alts : a.of = o}
      chosen(l) == ChooseName(alts, l, Fallback(l)) IN
  [l \in {k \in Locales : chosen(k) # {}} |-> CHOOSE n \in chosen(l) : TRUE]

(* What is written: rows of places and of regions with their names.         *)
Prepared(s) ==
  [places |-> [p \in PlacesOf(s) |-> [admin1 |-> RowOf(s, p).admin1, pop |-> RowOf(s, p).pop,
                                      names |-> NamesOf(s, p)]],
   admin1 |-> [c \in s.codes |-> NamesOf(s, c)]]
SetOf == [f \in Feeds |-> Prepared(Given[f])]

Admin1Refs(s) == \A p \in DOMAIN s.places : s.places[p].admin1 \in DOMAIN s.admin1 \cup {NoCode}
=============================================================================
