------------------------------ MODULE GeoImport ------------------------------
(***************************************************************************)
(* The import of GeoNames for one country                                  *)
(* (backend/internal/geo/internal/app/import.go): the journal that lets    *)
(* one import run, the download, the transaction that replaces the places  *)
(* and links cities to them, and its end.  A job of River runs it on a     *)
(* worker, the operator's command on a machine whose clock may be ahead;   *)
(* processes die, answers get lost, the administrator links cities         *)
(* meanwhile.                                                              *)
(*                                                                         *)
(* What a source brings is GeoSource's, what a statement does GeoQueries'. *)
(* Waiting for the rows another import has written is waiting for its      *)
(* transaction to end.                                                     *)
(***************************************************************************)
EXTENDS GeoQueries

CONSTANTS
  Worker, Operator,  \* who executes imports
  Jobs, NoJob,       \* jobs geo.import of the country
  MaxRows,           \* bound: rows of the journal
  NoFeed,
  FirstCode, HandNames,  \* codes of regions, names of cities and regions from the start
  ImportTimeout, StaleAfter, MaxAttempts,
  Plans              \* bounds of a behaviour: sources, jobs, commands, faults, skew, time;
                     \* what GeoReads asks and how much is changed by hand

Execs == {Worker, Operator}
Rows  == 1..MaxRows
NameIds == {OwnName, AsciiName} \cup UNION {{a.id : a \in Given[f].alts} : f \in Feeds}
Names == UNION {[L -> NameIds] : L \in SUBSET Locales}

ASSUME GeoAssumption ==
  /\ Worker # Operator /\ NoJob \notin Jobs /\ NoFeed \notin Feeds /\ MaxRows \in Nat
  /\ FirstCode \in [Regions -> Codes \cup {NoCode}] /\ HandNames \in [Cities \cup Regions -> Names]
  /\ \A q, r \in Regions : FirstCode[q] = FirstCode[r] /\ FirstCode[q] # NoCode => q = r
  /\ ImportTimeout \in Nat /\ StaleAfter \in Nat /\ ImportTimeout < StaleAfter
  /\ MaxAttempts \in Nat \ {0}
  /\ Plans \subseteq [sources : SUBSET Feeds, jobs : SUBSET Jobs, commands : Nat, links : Nat,
                     faults : SUBSET {"crash", "commit", "fail"}, skew : Nat, time : Nat,
                     reads : {"", "nearest", "slug"}, changes : Nat]

VARIABLES
  plan,     \* the bounds of this behaviour, chosen at the start
  now,      \* time; a clock of the operator's machine shows now + plan.skew
  journal,  \* journal[r]: the row r of geonames_imports
  job,      \* job[j]: the job of River
  exec,     \* exec[x]: the import x executes, its transaction included
  writer,   \* who has written places in an open transaction
  places,   \* geonames_places of the country with their names, by geonameid
  admin1,   \* geonames_admin1 of the country with their names, by code
  city,     \* city[c]: geoname_id, version, names
  region,   \* region[r]: the admin1 code, names
  told,     \* told[r]: the events import_finished of r
  linked,   \* linked[c]: the events city_linked of c
  won,      \* what each success brought, in the order of commits
  faults, commands, links  \* what happened so far, against the plan

vars == <<plan, now, journal, job, exec, writer, places, admin1, city, region, told, linked,
          won, faults, commands, links>>
data == <<places, admin1, city, region, linked, won>>

NoRow == 0
NoRegions == [r \in Regions |-> [code |-> NoCode, names |-> NoNames]]
Import ==
  [pc : {"idle", "fetch", "check", "write", "mark", "gone", "match", "link", "finish", "fail"},
   job : Jobs \cup {NoJob}, row : Rows \cup {NoRow}, src : Feeds \cup {NoFeed},
   begun : Nat, at : Nat, error : {"", "rejected", "other"},
   held : SUBSET Places, gone : SUBSET Places,
   regions : [Regions -> [code : Codes \cup {NoCode}, names : Names]],
   todo : SUBSET CalledLike, done : SUBSET CalledLike, said : SUBSET CalledLike]
Idle == [pc |-> "idle", job |-> NoJob, row |-> NoRow, src |-> NoFeed, begun |-> 0, at |-> 0,
         error |-> "", held |-> {}, gone |-> {}, regions |-> NoRegions, todo |-> {}, done |-> {}, said |-> {}]
Entry == [status : {"none", "running", "succeeded", "failed"}, start : Nat, fin : Nat,
          job : Jobs \cup {NoJob}, places : Nat, files : SUBSET (Feeds \X DOMAIN Files),
          error : {"", "stale", "rejected", "other"}]

TypeOK ==
  /\ plan \in Plans /\ now \in Nat
  /\ journal \in [Rows -> Entry]
  /\ job \in [Jobs -> [state : {"none", "available", "running", "stuck", "completed", "discarded"},
                       tries : 0..MaxAttempts]]
  /\ exec \in [Execs -> Import]
  /\ writer \subseteq Execs /\ Cardinality(writer) <= 1
  /\ DOMAIN places \subseteq Places /\ DOMAIN admin1 \subseteq Codes
  /\ \A p \in DOMAIN places :
       places[p] \in [admin1 : Codes \cup {NoCode}, pop : Nat, missing : BOOLEAN, names : Names]
  /\ \A k \in DOMAIN admin1 : admin1[k] \in Names
  /\ city \in [Cities -> [place : Places \cup {NoPlace}, version : Nat, names : Names]]
  /\ region \in [Regions -> [code : Codes \cup {NoCode}, names : Names]]
  /\ told \in [Rows -> Seq({"succeeded", "failed"})]
  /\ linked \in [Cities -> Seq([place : Places, version : Nat])]
  /\ won \in Seq(Feeds)
  /\ faults \subseteq {"crash", "commit", "fail"} /\ commands \in Nat /\ links \in Nat

Init ==
  /\ plan \in Plans /\ now = 1
  /\ journal = [r \in Rows |-> [status |-> "none", start |-> 0, fin |-> 0, job |-> NoJob, places |-> 0,
                              files |-> {}, error |-> ""]]
  /\ job = [j \in Jobs |-> [state |-> "none", tries |-> 0]]
  /\ exec = [x \in Execs |-> Idle]
  /\ writer = {} /\ places = [p \in {} |-> 0] /\ admin1 = [k \in {} |-> 0]
  /\ city = [c \in Cities |-> [place |-> NoPlace, version |-> 1, names |-> HandNames[c]]]
  /\ region = [r \in Regions |-> [code |-> FirstCode[r], names |-> HandNames[r]]]
  /\ told = [r \in Rows |-> <<>>] /\ linked = [c \in Cities |-> <<>>] /\ won = <<>>
  /\ faults = {} /\ commands = 0 /\ links = 0

-----------------------------------------------------------------------------
Clock(x) == now + (IF x = Operator THEN plan.skew ELSE 0)
Open(r) == Running(journal, r)
Fault(f) == f \in plan.faults \ faults /\ faults' = faults \cup {f}

(* Time: the deadline of ImportTimeout ends an import that lasts.          *)
Tick ==
  /\ now < plan.time
  /\ \A x \in Execs : exec[x].pc # "idle" => now < exec[x].begun + ImportTimeout
  /\ now' = now + 1
  /\ UNCHANGED <<plan, journal, job, exec, writer, data, told, faults, commands, links>>

(* The job is unique by country until it is completed, cancelled or        *)
(* discarded.                                                              *)
Enqueue(j) ==
  /\ j \in plan.jobs /\ job[j].state = "none"
  /\ \A k \in Jobs : job[k].state \in {"none", "completed", "discarded"}
  /\ job' = [job EXCEPT ![j].state = "available"]
  /\ UNCHANGED <<plan, now, journal, exec, writer, data, told, faults, commands, links>>

Taken(j) == [job EXCEPT ![j] = [state |-> "running", tries |-> @.tries + 1]]
RetriedForever(J, j) == IF j = NoJob THEN J ELSE [J EXCEPT ![j].state = "available"]
Retried(J, j) ==
  IF j = NoJob THEN J
  ELSE [J EXCEPT ![j].state = IF @ = "completed" THEN @
                              ELSE IF J[j].tries >= MaxAttempts THEN "discarded" ELSE "available"]
Completed(j) == IF j = NoJob THEN job ELSE [job EXCEPT ![j].state = "completed"]

-----------------------------------------------------------------------------
(* begin, one transaction.  J are the jobs once this attempt is taken.     *)
Own(j) == IF j = NoJob THEN {} ELSE ImportFindOwnRunning(journal, j)
StaleAt(t) == {r \in Rows : Open(r) /\ journal[r].start + StaleAfter < t}
Fresh == {r \in Rows : journal[r].status = "none" /\ \A q \in 1..(r - 1) : journal[q].status # "none"}
Begins(x, j, r) == exec' = [exec EXCEPT ![x] = [Idle EXCEPT !.pc = "fetch", !.job = j, !.row = r, !.begun = now]]

(* A former attempt of the same job left its row: it goes on in it.        *)
Resume(x, j, J) ==
  \E r \in Own(j) :
    /\ journal' = ImportRestart(journal, r, Clock(x))
    /\ Begins(x, j, r) /\ job' = J /\ UNCHANGED told

(* Stale rows are closed with their event, a new one is inserted.          *)
Start(x, j, J) ==
  LET old == StaleAt(Clock(x)) IN
  /\ Own(j) = {}
  /\ \A r \in Rows : Open(r) => r \in old
  /\ \E n \in Fresh :
       /\ journal' = ImportStart(ImportFailStale(journal, old, Clock(x)), n, Clock(x), j)
       /\ told' = [r \in Rows |-> IF r \in old THEN Append(told[r], "failed") ELSE told[r]]
       /\ Begins(x, j, n)
  /\ job' = J

(* geonames_imports_running refuses: nothing changes, the job tries again. *)
InProgress(j, J) ==
  /\ Own(j) = {}
  /\ \E r \in Rows \ StaleAt(now) : Open(r)
  /\ job' = Retried(J, j)
  /\ UNCHANGED <<journal, exec, told>>

Begin(x, j, J) == Resume(x, j, J) \/ Start(x, j, J) \/ InProgress(j, J)

Work(j) ==
  /\ exec[Worker].pc = "idle" /\ job[j].state = "available"
  /\ Begin(Worker, j, Taken(j))
  /\ UNCHANGED <<plan, now, writer, data, faults, commands, links>>

(* A command that finds an import running ends with an error.              *)
RunNow ==
  /\ exec[Operator].pc = "idle" /\ commands < plan.commands
  /\ commands' = commands + 1
  /\ Start(Operator, NoJob, job)
  /\ UNCHANGED <<plan, now, writer, data, faults, links>>
-----------------------------------------------------------------------------
(* load.  The source is fetched, then the codes of its places are checked  *)
(* in memory.                                                              *)
At(x, pc) == exec[x].pc = pc
Goes(x, pc) == exec' = [exec EXCEPT ![x].pc = pc]
GivesFor(x, feed, why) ==
  exec' = [exec EXCEPT ![x] = [Idle EXCEPT !.pc = "fail", !.job = exec[x].job, !.row = exec[x].row,
                                           !.begun = exec[x].begun, !.src = feed, !.error = why]]
Gives(x) == GivesFor(x, exec[x].src, "other")
Apart == UNCHANGED <<plan, now, journal, job, data, told, commands, links>>

Fetch(x, f) ==
  /\ At(x, "fetch") /\ f \in plan.sources
  /\ IF ~Fetched(Given[f]) THEN GivesFor(x, f, IF Rejected(Given[f]) THEN "rejected" ELSE "other")
     ELSE IF ~Admin1Refs(SetOf[f]) THEN GivesFor(x, f, "other")
     ELSE exec' = [exec EXCEPT ![x].pc = "check", ![x].src = f, ![x].at = Clock(x)]
  /\ Apart /\ UNCHANGED <<writer, faults>>

Brought(x) == SetOf[exec[x].src]
Share(n, of) == n * 10 >= of * 9
ShareIgnored(S) == TRUE
ShareKept(S) ==
  /\ \A n \in ImportLastSucceededPlaces(journal) : Share(Cardinality(DOMAIN S.places), n)
  /\ Share(Cardinality(DOMAIN S.admin1), ImportAdmin1Count(admin1))

CheckShare(x) ==
  /\ At(x, "check")
  /\ IF ShareKept(Brought(x)) THEN Goes(x, "write") ELSE Gives(x)
  /\ Apart /\ UNCHANGED <<writer, faults>>

(* writeSource: from here on another import waits.                         *)
WritePlaces(S) ==
  ImportInsertPlaceNames(ImportDeletePlaceNames(ImportUpsertPlaces(places, S.places), DOMAIN S.places), S.places)
WriteAdmin1(S) ==
  ImportInsertAdmin1Names(
    ImportDeleteStaleAdmin1(ImportUpsertAdmin1(ImportDeleteAdmin1Names(admin1), DOMAIN S.admin1),
                            DOMAIN S.admin1), S.admin1)

WriteSource(x) ==
  /\ At(x, "write") /\ writer = {}
  /\ writer' = {x} /\ Goes(x, "mark")
  /\ Apart /\ UNCHANGED faults

(* What a transaction sees of the cities is committed: it links them last. *)
Lost(x) == DOMAIN places \ DOMAIN Brought(x).places
Free(p) == Holders(city, p) = {}

MarkMissing(x) ==
  /\ At(x, "mark")
  /\ exec' = [exec EXCEPT ![x].pc = "gone", ![x].held = {p \in Lost(x) : ~Free(p)}]
  /\ Apart /\ UNCHANGED <<writer, faults>>

DeleteGone(x) ==
  /\ At(x, "gone")
  /\ exec' = [exec EXCEPT ![x].pc = "match", ![x].gone = {p \in Lost(x) : Free(p)}]
  /\ Apart /\ UNCHANGED <<writer, faults>>

(* reconcile: the candidates of every unlinked city are read first; one     *)
(* that is alone, and claimed by that city alone, is linked.               *)
Table(x) ==
  ImportDeleteGone(ImportMarkMissing(WritePlaces(Brought(x)), exec[x].held), exec[x].gone)
Candidates(x) ==
  LET T == Table(x)
      A == WriteAdmin1(Brought(x)) IN
  [c \in ImportUnlinkedCities(city) |-> ImportCityCandidates(city, region, T, A, c)]
MatchesOf(D) ==
  {m \in CalledLike : /\ m[1] \in DOMAIN D /\ D[m[1]] = {m[2]}
                      /\ \A d \in DOMAIN D \ {m[1]} : m[2] \notin D[d]}

Reconcile(x) ==
  /\ At(x, "match")
  /\ exec' = [exec EXCEPT ![x].pc = "link", ![x].todo = MatchesOf(Candidates(x)), ![x].regions = region]
  /\ Apart /\ UNCHANGED <<writer, faults>>

(* link under a savepoint: the city and the place may have been taken       *)
(* meanwhile; then all of the link is undone, its event too.               *)
ToTaken(c, p) == city[c].place # NoPlace \/ ~Free(p)
LinkedRegion(x, c, code) ==
  ImportRegionNamesFromAdmin1(ImportLinkRegion(exec[x].regions, RegionOf[c], code),
                              WriteAdmin1(Brought(x)), RegionOf[c], code)

Link(x, c, p) ==
  /\ At(x, "link") /\ <<c, p>> \in exec[x].todo /\ ~ToTaken(c, p)
  /\ exec' = [exec EXCEPT ![x].todo = @ \ {<<c, p>>}, ![x].done = @ \cup {<<c, p>>},
                          ![x].said = @ \cup {<<c, p>>},
                          ![x].regions = LinkedRegion(x, c, Table(x)[p].admin1)]
  /\ Apart /\ UNCHANGED <<writer, faults>>

ConflictKeepsEvent(x, c, p) ==
  /\ At(x, "link") /\ <<c, p>> \in exec[x].todo /\ ToTaken(c, p)
  /\ exec' = [exec EXCEPT ![x].todo = @ \ {<<c, p>>}, ![x].said = @ \cup {<<c, p>>}]
  /\ Apart /\ UNCHANGED <<writer, faults>>
Conflict(x, c, p) ==
  /\ At(x, "link") /\ <<c, p>> \in exec[x].todo /\ ToTaken(c, p)
  /\ exec' = [exec EXCEPT ![x].todo = @ \ {<<c, p>>}]
  /\ Apart /\ UNCHANGED <<writer, faults>>

-----------------------------------------------------------------------------
(* finish and the commit: the row is closed, places, regions, links and     *)
(* events land together.                                                   *)
LinkedTo(M, c) == {m[2] : m \in {n \in M : n[1] = c}}
Commits(x) ==
  LET e == exec[x]
      T == Table(x) IN
  /\ journal' = ImportSucceed(journal, e.row, e.at, e.src, Cardinality(DOMAIN Brought(x).places))
  /\ told' = [told EXCEPT ![e.row] = Append(@, "succeeded")]
  /\ places' = T
  /\ admin1' = WriteAdmin1(Brought(x))
  /\ city' = [c \in Cities |-> IF LinkedTo(e.done, c) = {} THEN city[c]
               ELSE LET p == CHOOSE q \in LinkedTo(e.done, c) : TRUE IN
                    ImportCityNamesFromPlace(ImportLinkCity(city, c, p), c, T[p].names)[c]]
  /\ region' = e.regions
  /\ linked' = [c \in Cities |-> IF LinkedTo(e.said, c) = {} THEN linked[c]
                 ELSE Append(linked[c], [place |-> CHOOSE q \in LinkedTo(e.said, c) : TRUE,
                                         version |-> city[c].version + 1])]
  /\ won' = Append(won, e.src)
  /\ writer' = {}

Ready(x) == At(x, "link") /\ exec[x].todo = {}
MineAnyway(x) == TRUE
StillMine(x) == Open(exec[x].row)

Finish(x) ==
  /\ Ready(x) /\ StillMine(x)
  /\ Commits(x)
  /\ exec' = [exec EXCEPT ![x] = Idle] /\ job' = Completed(exec[x].job)
  /\ UNCHANGED <<plan, now, faults, commands, links>>

(* The commit takes place, its answer is lost: Import goes on to fail.     *)
FinishUnheard(x) ==
  /\ Ready(x) /\ StillMine(x) /\ Fault("commit")
  /\ Commits(x) /\ Gives(x)
  /\ UNCHANGED <<plan, now, job, commands, links>>

(* ErrImportClosed: another run has closed the row.                        *)
Closed(x) ==
  /\ Ready(x) /\ ~StillMine(x)
  /\ Gives(x) /\ writer' = writer \ {x}
  /\ Apart /\ UNCHANGED faults

(* Download, statements or the deadline fail: the transaction rolls back.  *)
LoadFails(x) ==
  /\ exec[x].pc \in {"fetch", "check", "write", "mark", "gone", "match", "link"}
  /\ Gives(x) /\ writer' = writer \ {x}
  /\ Apart /\ UNCHANGED faults

(* fail, a transaction of its own.                                         *)
Evidence(x) ==
  IF exec[x].src = NoFeed THEN {} ELSE {<<exec[x].src, i>> : i \in Downloaded(Given[exec[x].src])}
ClosesAlways(x) == {exec[x].row}
Closes(x) == {r \in {exec[x].row} : Open(r)}
Fail(x) ==
  /\ At(x, "fail")
  /\ journal' = IF Closes(x) = {} THEN journal
                ELSE ImportFail(journal, exec[x].row, Clock(x), Evidence(x), exec[x].error)
  /\ told' = [r \in Rows |-> IF r \in Closes(x) THEN Append(told[r], "failed") ELSE told[r]]
  /\ exec' = [exec EXCEPT ![x] = Idle] /\ job' = Retried(job, exec[x].job)
  /\ UNCHANGED <<plan, now, writer, data, faults, commands, links>>

FailFails(x) ==
  /\ At(x, "fail") /\ Fault("fail")
  /\ exec' = [exec EXCEPT ![x] = Idle] /\ job' = Retried(job, exec[x].job)
  /\ UNCHANGED <<plan, now, journal, writer, data, told, commands, links>>

-----------------------------------------------------------------------------
Crash(x) ==
  /\ ~At(x, "idle") /\ Fault("crash")
  /\ exec' = [exec EXCEPT ![x] = Idle] /\ writer' = writer \ {x}
  /\ job' = IF exec[x].job = NoJob THEN job ELSE [job EXCEPT ![exec[x].job].state = "stuck"]
  /\ UNCHANGED <<plan, now, journal, data, told, commands, links>>

(* The rescuer, an hour later in the program, at any time here.            *)
RescueGivesUp(j) ==
  /\ job[j].state = "stuck" /\ job' = [job EXCEPT ![j].state = "discarded"]
  /\ UNCHANGED <<plan, now, journal, exec, writer, data, told, faults, commands, links>>
Rescue(j) ==
  /\ job[j].state = "stuck" /\ job' = Retried(job, j)
  /\ UNCHANGED <<plan, now, journal, exec, writer, data, told, faults, commands, links>>

(* The administrator gives an unlinked city a free place he sees.          *)
Activate(c, p) ==
  /\ links < plan.links /\ links' = links + 1
  /\ city[c].place = NoPlace /\ p \in DOMAIN places /\ Free(p)
  /\ \A x \in Execs, m \in CalledLike : m \in exec[x].done => m[1] # c /\ m[2] # p
  /\ city' = [city EXCEPT ![c].place = p]
  /\ UNCHANGED <<plan, now, journal, job, exec, writer, places, admin1, region, told, linked, won,
                 faults, commands>>

Loads(x) ==
  \/ \E f \in plan.sources : Fetch(x, f)
  \/ CheckShare(x) \/ WriteSource(x) \/ MarkMissing(x) \/ DeleteGone(x) \/ Reconcile(x)
  \/ \E c \in Cities, p \in Places : Link(x, c, p) \/ Conflict(x, c, p)
  \/ Finish(x) \/ FinishUnheard(x) \/ Closed(x) \/ LoadFails(x) \/ Fail(x) \/ FailFails(x)
Next ==
  \/ Tick \/ RunNow
  \/ \E j \in Jobs : Enqueue(j) \/ Work(j) \/ Rescue(j)
  \/ \E x \in Execs : Loads(x) \/ Crash(x)
  \/ \E c \in Cities, p \in Places : Activate(c, p)

Spec == Init /\ [][Next]_vars

(* River gives a job to the worker and rescues it; an import the worker     *)
(* runs goes on until it ends.  Nothing is assumed of operators and clocks: *)
(* what a command holds an import gives up by its deadline.                *)
Fairness ==
  /\ WF_vars(Loads(Worker))
  /\ \A j \in Jobs : WF_vars(Work(j)) /\ WF_vars(Rescue(j))
FairSpec == Spec /\ Fairness

-----------------------------------------------------------------------------
(* One import of the country runs, and a row is closed once, by whoever is  *)
(* first: its own run, its failure, another run that finds it stale.  Its   *)
(* one event import_finished says how, and its files tell which of them     *)
(* were at fault.                                                          *)
ClosedOnce ==
  /\ \A q, r \in Rows : Open(q) /\ Open(r) => q = r
  /\ \A r \in Rows : told[r] = IF journal[r].status \in {"succeeded", "failed"}
                               THEN <<journal[r].status>> ELSE <<>>
  /\ \A r \in Rows : journal[r].error = "rejected" =>
       \E e \in journal[r].files : Given[e[1]].file[Files[e[2]]] = "rejected"

(* What an import writes lands only while its row is open: a run whose row  *)
(* was closed under it leaves no place, region or link behind.             *)
OnlySuccessWrites ==
  [][<<places, admin1, region, linked>>' # <<places, admin1, region, linked>> =>
       \E r \in Rows : Open(r) /\ journal'[r].status = "succeeded"]_vars

(* What is stored is the last source, whole: its places and regions with    *)
(* its names, besides lost places that cities hold.  A cut source is never  *)
(* taken over: as long as the clocks agree, a success brings at least 90 %  *)
(* of the places of the one before it, and the region of each is known.    *)
WholeSources ==
  /\ plan.skew = 0 => \A i \in 1..(Len(won) - 1) :
       Share(Cardinality(DOMAIN SetOf[won[i + 1]].places), Cardinality(DOMAIN SetOf[won[i]].places))
  /\ won # <<>> =>
       LET S == SetOf[Last(won)] IN
       /\ \A p \in DOMAIN S.places :
            /\ p \in DOMAIN places /\ places[p].names = S.places[p].names /\ ~places[p].missing
            /\ places[p].admin1 \in DOMAIN admin1 \cup {NoCode}
       /\ \A p \in DOMAIN places \ DOMAIN S.places : ~Free(p)
       /\ admin1 = S.admin1

(* A place belongs to one city, a code to one region; names given by hand,  *)
(* and codes, stay.  An event city_linked tells of a link that was made,    *)
(* with the version it gave the city, and is told once.                    *)
LinksTold ==
  /\ \A c, d \in Cities : city[c].place = city[d].place /\ city[c].place # NoPlace => c = d
  /\ \A q, r \in Regions : region[q].code = region[r].code /\ region[q].code # NoCode => q = r
  /\ \A r \in Regions : FirstCode[r] # NoCode => region[r].code = FirstCode[r]
  /\ \A c \in Cities, l \in Locales : l \in DOMAIN HandNames[c] => city[c].names[l] = HandNames[c][l]
  /\ \A c \in Cities :
       linked[c] = IF city[c].version = 1 THEN <<>>
                   ELSE <<[place |-> city[c].place, version |-> city[c].version]>>

(* A job's row does not stay open: crashes and failures of its end are made *)
(* good by the job's next attempt, until its attempts are used up.         *)
Settles ==
  []<>(\A r \in Rows, j \in Jobs :
         Open(r) /\ journal[r].job = j => job[j] = [state |-> "discarded", tries |-> MaxAttempts])
=============================================================================
