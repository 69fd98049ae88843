-------------------------------- MODULE Rights --------------------------------
(***************************************************************************)
(* What an employee may do (platform/perm, platform/auth), asked in three   *)
(* places that must agree: the gate of admin-api (httpapi/admin/permission),*)
(* the scenario behind it, and the queries of the lists, which take the     *)
(* rights as arguments so that a page is not thinned out afterwards.        *)
(***************************************************************************)
EXTENDS Integers

Roles == {"owner", "admin", "moderator", "support"}

(* The catalogue, without the drafts.                                      *)
ToRead      == {"staff.roles.read", "geo.countries.read", "platform.versions.read", "platform.flags.read"}
CityReads   == {"audit.log.read", "geo.cities.read"}
CityChanges == {"geo.cities.rename", "geo.districts.manage"}
ByTwoOwners == {"staff.roles.grant_elevated", "staff.roles.revoke_owner", "staff.access.reset_elevated"}
ByTwo       == {"staff.roles.grant", "staff.access.reset"}
Managed     == {"staff.accounts.read", "staff.roles.revoke", "staff.invites.resend", "staff.sessions.revoke",
                "geo.places.search", "geo.cities.activate", "geo.cities.manage", "geo.countries.manage",
                "geo.imports.run", "platform.versions.manage", "platform.flags.manage"}
Catalog == ToRead \cup CityReads \cup CityChanges \cup ByTwoOwners \cup ByTwo \cup Managed
           \cup {"staff.roles.revoke_admin", "geo.imports.read"}

Grant(role, key) ==
  CASE key \in ToRead -> "allow"
    [] key \in CityReads -> IF role = "moderator" THEN "scoped" ELSE "allow"
    [] key \in CityChanges /\ role = "moderator" -> "scoped"
    [] key \in CityChanges \cup Managed /\ role \in {"owner", "admin"} -> "allow"
    [] key \in ByTwoOwners /\ role = "owner" -> "dual"
    [] key \in ByTwo /\ role \in {"owner", "admin"} -> "dual"
    [] key = "staff.roles.revoke_admin" /\ role = "owner" -> "allow"
    [] key = "geo.imports.read" /\ role # "moderator" -> "allow"
    [] OTHER -> "deny"

(* An employee in session; the cities of a moderator, none of another.      *)
NoCity == 0
Cities == {1, 2}
Viewers == {v \in [role : Roles, cities : SUBSET Cities, active : BOOLEAN] :
              v.role # "moderator" => v.cities = {}}

(* Staff.InScope, Staff.Decide.                                            *)
InScope(v, city) == v.role # "moderator" \/ city \in v.cities
Decision(v, key, city) ==
  LET g == Grant(v.role, key) IN
  IF ~v.active THEN "deny"
  ELSE IF g = "scoped" THEN IF city # NoCity /\ InScope(v, city) THEN "allow" ELSE "deny"
  ELSE g

(* The gate: with a city in the path, Decide; without, the grant only.      *)
GateWithoutCity(v, key, city) == v.active /\ Decision(v, key, city) # "deny"
Gate(v, key, city) ==
  v.active /\ IF city # NoCity THEN Decision(v, key, city) # "deny" ELSE Grant(v.role, key) # "deny"

-----------------------------------------------------------------------------
(* The queries.  The viewer is employee 1.                                 *)
Viewer == 1
Requests == [key : {"staff.roles.grant", "staff.access.reset_elevated", "geo.districts.manage", "audit.log.read"},
             by : 1..2, about : 0..2, city : Cities \cup {NoCity}]
IncomingByLength(v, a) ==
  /\ v.active /\ a.by # Viewer /\ a.about # Viewer
  /\ \/ Grant(v.role, a.key) \in {"allow", "dual"}
     \/ Grant(v.role, a.key) = "scoped" /\ a.city # NoCity /\ (v.cities = {} \/ a.city \in v.cities)
Incoming(v, a) ==
  /\ v.active /\ a.by # Viewer /\ a.about # Viewer
  /\ \/ Grant(v.role, a.key) \in {"allow", "dual"}
     \/ Grant(v.role, a.key) = "scoped" /\ a.city # NoCity /\ (v.role # "moderator" \/ a.city \in v.cities)

(* lockForDecision.                                                        *)
MayDecide(v, a) == a.by # Viewer /\ a.about # Viewer /\ Decision(v, a.key, a.city) # "deny"

(* ListAudit: everything, or the records of one's cities and one's own.     *)
Records == [by : 1..2, city : Cities \cup {NoCity}]
AuditShown(v, r) ==
  /\ Gate(v, "audit.log.read", NoCity)
  /\ Grant(v.role, "audit.log.read") = "scoped" => r.city \in v.cities \/ r.by = Viewer

(* ListGeoCities: none asked for is no filter, an empty set is no city.     *)
NoFilter == {0}
ScopeOf(v, asked) == IF asked = NoFilter THEN v.cities ELSE v.cities \cap asked
CitiesShown(v, asked) ==
  LET ids == IF Grant(v.role, "geo.cities.read") = "scoped" THEN ScopeOf(v, asked) ELSE asked IN
  IF ~Gate(v, "geo.cities.read", NoCity) THEN {} ELSE IF ids = NoFilter THEN Cities ELSE ids

(* Whoever may act on an object passes the gate for it; the incoming box is *)
(* what the viewer may decide, the audit log and the cities are what the    *)
(* rights say of each record or city, and nothing else.                    *)
RightsAgree ==
  \A v \in Viewers :
    /\ \A key \in Catalog, city \in Cities : Decision(v, key, city) # "deny" => Gate(v, key, city) /\ Gate(v, key, NoCity)
    /\ \A a \in Requests : Incoming(v, a) <=> MayDecide(v, a)
    /\ \A r \in Records : AuditShown(v, r) <=>
         Decision(v, "audit.log.read", r.city) # "deny" \/ (v.active /\ r.by = Viewer)
    /\ \A asked \in {NoFilter} \cup SUBSET Cities : CitiesShown(v, asked) =
         {c \in (IF asked = NoFilter THEN Cities ELSE asked) : Decision(v, "geo.cities.read", c) # "deny"}
=============================================================================
