----------------------------- MODULE GeoImportMC -----------------------------
(* An instance of GeoImport for TLC: three places, two cities in regions of *)
(* one name and one of another country, seven feeds.                       *)
EXTENDS GeoReads

CONSTANTS a, b, c1, c2, c3, p1, p2, p3, r1, r2, ru, en

Village(p, code) == [id |-> p, ours |-> TRUE, class |-> "P", feature |-> "PPL", pop |-> 4, zone |-> TRUE, admin1 |-> code]
Part(p) == [Village(p, a) EXCEPT !.feature = "PPLX"]
Nowhere(p) == [Village(p, a) EXCEPT !.zone = FALSE]
Foreign(p) == [Village(p, a) EXCEPT !.ours = FALSE]
Seat(p, code) == [Village(p, code) EXCEPT !.feature = "PPLA", !.pop = 0]

Alt(n, o, l) == [id |-> n, of |-> o, locale |-> l, preferred |-> FALSE, short |-> FALSE, script |-> TRUE, old |-> FALSE]
Preferred(n, o, l) == [Alt(n, o, l) EXCEPT !.preferred = TRUE]
Old(n, o, l) == [Preferred(n, o, l) EXCEPT !.old = TRUE]
Short(n, o, l) == [Preferred(n, o, l) EXCEPT !.short = TRUE]

AllFine == [f \in {"admin1", "places", "names"} |-> "fine"]
Feed(file, rows, codes, alts) == [file |-> file, rows |-> rows, codes |-> codes, alts |-> alts]
Dumps ==
  [one   |-> Feed(AllFine, <<Village(p1, a)>>, {a}, {Alt(3, p1, en)}),
   two   |-> Feed(AllFine, <<Village(p1, a), Nowhere(p3), Village(p3, a), Village(p2, a)>>, {a},
                  {Old(2, p1, en), Short(3, p1, en), Alt(4, p1, en)}),
   other |-> Feed(AllFine, <<Part(p2), Foreign(p2), Village(p1, a), Seat(p3, a)>>, {a, b},
                  {Preferred(5, p3, NoLocale), Alt(6, a, en)}),
   cut   |-> Feed(AllFine, <<Village(p2, a)>>, {a, b}, {}),
   loose |-> Feed(AllFine, <<Village(p1, a), Village(p3, b)>>, {a}, {}),
   evil  |-> Feed([AllFine EXCEPT !["places"] = "rejected"], <<>>, {a}, {}),
   gone  |-> Feed([AllFine EXCEPT !["names"] = "refused"], <<>>, {a}, {})]

AllFeeds == DOMAIN Dumps
Homes == (c1 :> r1) @@ (c2 :> r2) @@ (c3 :> NoRegion)
Namesakes == {<<c1, p1>>, <<c1, p2>>, <<c2, p2>>, <<c2, p3>>}
OneName == {<<r1, a>>, <<r2, a>>}
NoCodesYet == [r \in Regions |-> NoCode]
GivenNames == [o \in Cities \cup Regions |-> IF o = c1 THEN (ru :> OwnName) @@ (en :> OwnName) ELSE (ru :> OwnName)]
TwoCountries == (c1 :> "ours") @@ (c2 :> "ours") @@ (c3 :> "other")
Languages == ("ours" :> ru) @@ ("other" :> en)
Around == (p1 :> 3) @@ (p2 :> 3) @@ (p3 :> 2) @@ (c1 :> 5) @@ (c2 :> 4) @@ (c3 :> 5)
TwoSlugs == (c1 :> "s1") @@ (c2 :> "s2") @@ (c3 :> "s3")

Plan(S, J, n, l, F, skew, t) ==
  [sources |-> S, jobs |-> J, commands |-> n, links |-> l, faults |-> F, skew |-> skew, time |-> t,
   reads |-> "", changes |-> 0]
Asks(what, S, n, l, k) == [Plan(S, {}, n, l, {}, 0, 1) EXCEPT !.reads = what, !.changes = k]
AllPlans ==
  {Plan({"two", "other", "cut"}, {}, 3, 0, {}, 0, 1),
   Plan({"other", "loose", "evil", "gone"}, {}, 2, 0, {}, 0, 1),
   Plan({"two", "other"}, {}, 2, 2, {}, 0, 1),
   Plan({"one"}, Jobs, 0, 0, {"crash", "commit", "fail"}, 0, 4),
   Plan({"one"}, Jobs, 1, 0, {"commit", "fail"}, 0, 2),
   Plan({"one"}, Jobs, 1, 0, {"crash"}, 0, 4),
   Plan({"one", "two"}, Jobs, 1, 0, {}, 3, 1),
   Asks("nearest", {"two", "other"}, 1, 1, 1),
   Asks("nearest", {"two", "other"}, 2, 1, 0),
   Asks("slug", {}, 0, 0, 3)}
=============================================================================
