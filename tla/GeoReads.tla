------------------------------ MODULE GeoReads ------------------------------
(***************************************************************************)
(* The readers of geography (geo/read.go behind geo/httpapi) while imports *)
(* replace the places: the nearest open city and the place that covers a   *)
(* point, and a city by its slug.  Each statement of a request is a step,  *)
(* so what it read before may be gone.  There is one point; countries are  *)
(* switched, cities opened and renamed by hand.                            *)
(***************************************************************************)
EXTENDS GeoImport, FiniteSetsExt, TLC

CONSTANTS
  Ours, Countries, CountryOf,  \* the country of the imports, all of them, that of a city
  DefaultLocale,               \* of a country
  DistanceOf,                  \* of places and cities from the point
  MinCover, PerRoot, HereSearchRadius,
  Slugs, FirstSlug, NoCity

Statuses == {"waitlist", "pilot", "live"}

ASSUME ReadsAssumption ==
  /\ Ours \in Countries /\ CountryOf \in [Cities -> Countries] /\ DefaultLocale \in [Countries -> Locales]
  /\ OursOf = {c \in Cities : CountryOf[c] = Ours} /\ Places \subseteq Nat /\ Cities \subseteq Nat
  /\ DistanceOf \in [Places \cup Cities -> Nat] /\ NoCity \notin Cities
  /\ {MinCover, PerRoot, HereSearchRadius} \subseteq Nat
  /\ FirstSlug \in [Cities -> Slugs] /\ "" \notin Slugs

VARIABLES
  on,       \* countries with is_enabled
  status,   \* status[c] of a city
  slug,     \* slug[c]
  former,   \* city_slug_history
  changes,  \* how often these have changed, against the plan
  read,     \* the request: what it has read
  seen      \* what was true since it came

catalog == <<on, status, slug, former, changes>>
Nothing == [place |-> NoPlace, city |-> NoCity, name |-> OwnName]
NoRead == [pc |-> "idle", locale |-> NoLocale, slug |-> "", open |-> NoCity, place |-> NoPlace,
           row |-> Nothing, city |-> NoCity]

ReadsTypeOK ==
  /\ on \subseteq Countries /\ status \in [Cities -> Statuses] /\ slug \in [Cities -> Slugs]
  /\ DOMAIN former \subseteq Slugs /\ \A s \in DOMAIN former : former[s] \in Cities
  /\ changes \in Nat
  /\ read.pc \in {"idle", "open", "within", "place", "city", "slug", "details", "done"}

ReadsInit ==
  /\ Init /\ on = Countries /\ status = [c \in Cities |-> "live"] /\ slug = FirstSlug
  /\ former = [s \in {} |-> NoCity] /\ changes = 0 /\ read = NoRead /\ seen = {}

-----------------------------------------------------------------------------
(* The queries.                                                            *)
Nearer(p, q) == DistanceOf[p] < DistanceOf[q] \/ (DistanceOf[p] = DistanceOf[q] /\ p <= q)
NearestOf(S, none) == IF S = {} THEN none ELSE CHOOSE p \in S : \A q \in S : Nearer(p, q)

NearestOpenCity ==
  NearestOf({c \in Cities : CountryOf[c] \in on /\ status[c] \in {"pilot", "live"}}, NoCity)

PlacesWithin == {p \in DOMAIN places : DistanceOf[p] <= HereSearchRadius}

(* The country of a place is that of its city, else that of the source.     *)
HolderOf(p) == IF Free(p) THEN NoCity ELSE CHOOSE c \in Holders(city, p) : TRUE
PlaceCountry(p) == IF Free(p) THEN Ours ELSE CountryOf[HolderOf(p)]
NameIn(names, l, default) ==
  IF l \in DOMAIN names THEN names[l] ELSE IF default \in DOMAIN names THEN names[default] ELSE OwnName
GetVisiblePlace(p, l) ==
  IF p \in DOMAIN places /\ PlaceCountry(p) \in on
  THEN [place |-> p, city |-> HolderOf(p), name |-> NameIn(places[p].names, l, DefaultLocale[PlaceCountry(p)])]
  ELSE Nothing

GetVisibleCity(c) == IF CountryOf[c] \in on THEN c ELSE NoCity

ResolveCitySlug(s) ==
  IF \E c \in Cities : slug[c] = s THEN CHOOSE c \in Cities : slug[c] = s
  ELSE IF s \in DOMAIN former THEN former[s] ELSE NoCity

-----------------------------------------------------------------------------
(* here: of the places within reach the nearest one that covers the point.  *)
Root(n) == CHOOSE k \in 0..n : k * k <= n /\ n < (k + 1) * (k + 1)
CoverRadius(pop) == Min({MinCover + PerRoot * Root(pop), HereSearchRadius})
HereOfNearest(S) ==
  NearestOf({p \in S : p = NearestOf(S, NoPlace) /\ DistanceOf[p] <= CoverRadius(places[p].pop)}, NoPlace)
Here(S) == NearestOf({p \in S : DistanceOf[p] <= CoverRadius(places[p].pop)}, NoPlace)

(* What is true of the whole at a moment, for the request that was asked.   *)
CoveringPlace ==
  LET C == {p \in DOMAIN places : /\ DistanceOf[p] <= HereSearchRadius
                                  /\ \E k \in 0..DistanceOf[p] : DistanceOf[p] <= MinCover + PerRoot * k
                                                               /\ k * k <= places[p].pop} IN
  NearestOf(C, NoPlace)
Named(s) == IF s = "" THEN NoCity ELSE ResolveCitySlug(s)
Truth(l, s) ==
  [open |-> NearestOpenCity,
   here |-> IF CoveringPlace = NoPlace THEN Nothing ELSE GetVisiblePlace(CoveringPlace, l),
   place |-> CoveringPlace,
   named |-> Named(s),
   city |-> IF Named(s) = NoCity THEN NoCity ELSE GetVisibleCity(Named(s))]

-----------------------------------------------------------------------------
Asked(r) == read' = r /\ seen' = {Truth(r.locale, r.slug)}
Reading(pc, r) == read' = [r EXCEPT !.pc = pc] /\ UNCHANGED seen

Negotiated == Locales \cup {NoLocale}
FindNearestCity(l) == Asked([NoRead EXCEPT !.pc = "open", !.locale = l])
GetCityBySlug(s) == Asked([NoRead EXCEPT !.pc = "slug", !.slug = s])

ReadOpen == read.pc = "open" /\ Reading("within", [read EXCEPT !.open = NearestOpenCity])
ReadWithin ==
  /\ read.pc = "within"
  /\ LET p == Here(PlacesWithin) IN Reading(IF p = NoPlace THEN "done" ELSE "place", [read EXCEPT !.place = p])
ReadPlace ==
  /\ read.pc = "place"
  /\ LET row == GetVisiblePlace(read.place, read.locale) IN
     Reading(IF row.city = NoCity THEN "done" ELSE "city", [read EXCEPT !.row = row])
ReadPlaceCity ==
  /\ read.pc = "city" /\ Reading("done", [read EXCEPT !.row.city = GetVisibleCity(read.row.city)])

ReadSlug ==
  /\ read.pc = "slug"
  /\ LET c == ResolveCitySlug(read.slug) IN Reading(IF c = NoCity THEN "done" ELSE "details", [read EXCEPT !.city = c])
ReadDetails == read.pc = "details" /\ Reading("done", [read EXCEPT !.city = GetVisibleCity(read.city)])

Reads ==
  /\ \/ read = NoRead /\ plan.reads = "nearest" /\ \E l \in Negotiated : FindNearestCity(l)
     \/ read = NoRead /\ plan.reads = "slug" /\ \E s \in Slugs : GetCityBySlug(s)
     \/ ReadOpen \/ ReadWithin \/ ReadPlace \/ ReadPlaceCity \/ ReadSlug \/ ReadDetails
  /\ UNCHANGED <<vars, catalog>>

-----------------------------------------------------------------------------
(* What others do meanwhile is seen by who asks for the truth.             *)
Watched ==
  /\ UNCHANGED read
  /\ seen' = IF read.pc \in {"idle", "done"} THEN seen ELSE seen \cup {Truth(read.locale, read.slug)'}

SwitchCountry(n) ==
  /\ on' = IF n \in on THEN on \ {n} ELSE on \cup {n}
  /\ UNCHANGED <<status, slug, former>>
SetStatus(c, s) ==
  /\ s # status[c] /\ status' = [status EXCEPT ![c] = s] /\ UNCHANGED <<on, slug, former>>
Rename(c, s) ==
  /\ \A d \in Cities : slug[d] # s
  /\ slug' = [slug EXCEPT ![c] = s] /\ former' = (slug[c] :> c) @@ former
  /\ UNCHANGED <<on, status>>
Administer ==
  /\ changes < plan.changes /\ changes' = changes + 1
  /\ \/ \E n \in Countries : SwitchCountry(n)
     \/ plan.reads = "nearest" /\ \E c \in Cities, s \in Statuses : SetStatus(c, s)
     \/ plan.reads = "slug" /\ \E c \in Cities, s \in Slugs : Rename(c, s)
  /\ UNCHANGED vars /\ Watched

ReadsNext ==
  \/ Next /\ UNCHANGED catalog /\ Watched
  \/ Reads \/ Administer

ReadsSpec == ReadsInit /\ [][ReadsNext]_<<vars, catalog, read, seen>> /\ Fairness

-----------------------------------------------------------------------------
(* What stayed true while a request ran is what it is told: the nearest     *)
(* open city, the place that covers the point with its city and its name in *)
(* the language asked, the city of a slug that nobody renamed meanwhile.    *)
(* Of what changed it is told something that was so at one moment.         *)
AnswersTold ==
  read.pc = "done" =>
    LET Only(S, v) == Cardinality(S) = 1 => v \in S
        all(f) == {t[f] : t \in seen} IN
    /\ plan.reads = "nearest" =>
         /\ Only(all("open"), read.open) /\ read.open \in all("open")
         /\ Only(all("place"), read.place) /\ read.place \in all("place")
         /\ Cardinality(all("place")) = 1 => Only(all("here"), read.row)
    /\ plan.reads = "slug" => (Cardinality(all("named")) = 1 => Only(all("city"), read.city))
=============================================================================
