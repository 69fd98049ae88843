-------------------------------- MODULE Edge --------------------------------
(***************************************************************************)
(* The edge of the two APIs: limits, cookies of employees, proof of work,   *)
(* sessions of players, the pipeline of admin-api, lists, the probe of      *)
(* readiness, and the life of the programs with the letters they send.      *)
(* Cookies and limits share the row of an address; the others share the     *)
(* clock and the deadline of a request only, so that a behaviour exercises  *)
(* one part (plan.part).                                                   *)
(***************************************************************************)
EXTENDS AdminCookies, HumanCheck, PlayerSessions, AdminPipeline, Lists, Letters, Health, Callers, Blobs

edge == <<clock, limits, cookies, human, players, pipeline, lists, programs, letters, health, callers, blobs>>

Init == ClockInit /\ LimitsInit /\ CookiesInit /\ HumanInit /\ PlayersInit /\ PipelineInit
        /\ ListsInit /\ ProgramsInit /\ LettersInit /\ HealthInit /\ CallersInit
        /\ BlobsInit

(* Moments at which the requests under way began.                          *)
Since ==
  {asks[c].at : c \in {d \in Clients : asks[d] # Quiet}} \cup
  {visit[c].since : c \in {d \in Clients : visit[d] # Away}} \cup
  {proof[c].at : c \in {d \in Clients : proof[d] # NoProof}} \cup
  {call[c].since : c \in {d \in Clients : call[d].pc # "idle"}}
Tick ==
  /\ Passes(Since) /\ InTime /\ PipelineInTime /\ LettersInTime /\ HealthInTime /\ ListsTick
  /\ UNCHANGED <<limits, cookies, human, players, pipeline, programs, letters, health, callers, blobs>>

Next ==
  \/ Tick
  \/ plan.part \in {"limits", "cookies"} /\ LimitsNext /\ UNCHANGED <<cookies, human, players, pipeline, lists, programs, letters, health, callers, blobs>>
  \/ plan.part = "cookies" /\ CookiesNext /\ UNCHANGED <<human, players, pipeline, lists, programs, letters, health, callers, blobs>>
  \/ plan.part = "human" /\ HumanNext /\ UNCHANGED <<limits, cookies, players, pipeline, lists, programs, letters, health, callers, blobs>>
  \/ plan.part = "players" /\ PlayersNext /\ UNCHANGED <<limits, cookies, human, pipeline, lists, programs, letters, health, callers, blobs>>
  \/ plan.part = "pipeline" /\ PipelineNext /\ UNCHANGED <<limits, cookies, human, players, lists, programs, letters, health, callers, blobs>>
  \/ plan.part = "lists" /\ ListsNext /\ UNCHANGED <<limits, cookies, human, players, pipeline, programs, letters, health, callers, blobs>>
  \/ plan.part = "programs" /\ LettersNext /\ UNCHANGED <<limits, cookies, human, players, pipeline, lists, health, callers, blobs>>
  \/ plan.part = "health" /\ HealthNext /\ UNCHANGED <<limits, cookies, human, players, pipeline, lists, programs, letters, callers, blobs>>
  \/ plan.part = "callers" /\ CallersNext /\ UNCHANGED <<limits, cookies, human, players, pipeline, lists, programs, letters, health, blobs>>
  \/ plan.part = "blobs" /\ BlobsNext /\ UNCHANGED <<limits, cookies, human, players, pipeline, lists, programs, letters, health, callers>>

Spec == Init /\ [][Next]_edge

-----------------------------------------------------------------------------
TypeOK == LimitsTypeOK /\ CookiesTypeOK /\ HumanTypeOK /\ PlayersTypeOK /\ PipelineTypeOK
          /\ ListsTypeOK /\ ProgramsTypeOK /\ LettersTypeOK /\ HealthTypeOK /\ CallersTypeOK /\ BlobsTypeOK

(* The limit is the policy, no more and no less, and counts everybody for    *)
(* themselves.                                                             *)
AsThePolicySays ==
  [][/\ limits' # limits => Bounded' /\ RefusedRightly
     /\ callers' # callers => CountedApart']_edge

(* Pages of lists and files are whole, whatever runs beside the reader.     *)
ReadsWhole == ListsWhole /\ FilesWhole

(* What the caches of both APIs say is true: a session served is no older   *)
(* than the TTL, a refusal is remembered as long as there is room, the      *)
(* database is pinged once in a TTL.                                       *)
CachesTrue == ServedInTime /\ QueueCovers /\ Remembered /\ PingedRarely
=============================================================================
