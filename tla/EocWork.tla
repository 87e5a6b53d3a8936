------------------------------ MODULE EocWork -------------------------------
(***************************************************************************)
(* What the management centre (EOC) has the device do: store a             *)
(* configuration (R102, and R104 in answer to S104), download and install  *)
(* an upgrade (R106, R107), and restart.  proPkgs obeys the messages one   *)
(* by one, a thread of its own (ThreadDownload) fetches each file,         *)
(* intervalPro asks for a configuration, reports ended downloads and does  *)
(* the tasks.  They share downloads_msg and task, without a lock.          *)
(*                                                                         *)
(* Restarting is exit(0); the machine starts the process anew, and what    *)
(* the process then knows is what the database and the files hold.         *)
(*                                                                         *)
(* The session below (EocSession) appears in what it does to the rounds of *)
(* intervalPro: a new session forgets the version that has been read, a    *)
(* thread that uses a freed session ends the process.                      *)
(***************************************************************************)
EXTENDS Integers, Sequences, SequencesExt

CONSTANTS
  NumTables,      \* tables of which the newest row is read (2)
  NumFiles,       \* files of a configuration (2)
  Packages,       \* what there is to download; one URL and checksum each
  MaxConfigs,     \* BOUND: configurations the centre makes
  Unversioned,    \* those of them that come without the optional DataVersion
  MaxUpgrades,    \* BOUND: R106 and R107 the centre sends
  MaxFailures     \* BOUND: failures of storage, network and process

None == "none"
Partial == "partial"

ASSUME EocWorkAssumption ==
  /\ NumTables \in Nat /\ NumFiles \in Nat
  /\ MaxConfigs \in Nat \ {0} /\ MaxUpgrades \in Nat /\ MaxFailures \in Nat
  /\ Unversioned \subseteq 1 .. MaxConfigs
  /\ None \notin Packages /\ Partial \notin Packages

VARIABLES
  db,             \* the configurations every part has rows of
  wanted,         \* the newest configuration of the centre
  asked,          \* S104 is on its way
  job,            \* where proPkgs is
  part, storing,  \* ... storing which part of which configuration
  round,          \* where intervalPro is
  cursor,         \* its place in downloads_msg (0: it has been moved)
  cached,         \* its version is not empty
  tasks,          \* how many SYS_REBOOT there are in task
  downloads,      \* downloads_msg
  capacity,       \* of that vector
  fetch,          \* where the ThreadDownload of every package is
  hold,           \* its place in downloads_msg (0: it has been moved)
  file,           \* UPDATEFILE: none, partial or a package
  failures,       \* what the bounds count
  upgrades,
  lacking         \* HISTORY: parts that were themselves stored badly last: the
                  \* step failed, or the process ended in it

configVars == <<db, wanted, storing, part, lacking>>
roundVars == <<round, cursor, cached>>
loadVars == <<downloads, capacity, fetch, hold, file>>
countVars == <<failures, upgrades>>
workVars == <<configVars, asked, job, roundVars, tasks, loadVars, countVars>>

(* base_set and belong_intersection; associated_equip, all rows of which   *)
(* count; algorithm.json and relatedAreas.json; config_version, of which   *)
(* the oldest row is read.                                                 *)
Tables == 1 .. NumTables
Equips == NumTables + 1
Files == NumTables + 2 .. NumTables + NumFiles + 1
Version == NumTables + NumFiles + 2
Parts == 1 .. Version

(* A row of associated_equip that is one of a configuration's, but not all.*)
Torn == 0

WorkInit ==
  /\ db = [k \in Parts |-> {}] /\ wanted = 1
  /\ asked = FALSE /\ job = "idle" /\ part = 1 /\ storing = 0
  /\ round = "sleep" /\ cursor = 1 /\ cached = FALSE
  /\ tasks = 0
  /\ downloads = <<>> /\ capacity = 0
  /\ fetch = [p \in Packages |-> "none"] /\ hold = [p \in Packages |-> 0]
  /\ file = None
  /\ failures = 0 /\ upgrades = 0
  /\ lacking = {}

(* Some of the devices are in associated_equip, with what was there before.*)
SomeInserted == part = Equips /\ db' = [db EXCEPT ![part] = @ \cup {Torn}]

(* The process ends, by exit or by a fall, and is started again.           *)
Restart ==
  /\ asked' = FALSE /\ job' = "idle" /\ part' = 1 /\ storing' = 0
  /\ round' = "sleep" /\ cursor' = 1 /\ cached' = FALSE
  /\ tasks' = 0
  /\ downloads' = <<>> /\ capacity' = 0
  /\ fetch' = [p \in Packages |-> "none"] /\ hold' = [p \in Packages |-> 0]
  /\ lacking' = IF job = "fill" THEN lacking \cup {part} ELSE lacking
  /\ \/ UNCHANGED db
     \/ job = "fill" /\ SomeInserted
  /\ UNCHANGED <<wanted, file, upgrades>>

Fault == failures < MaxFailures /\ failures' = failures + 1

-----------------------------------------------------------------------------
(* proPkgs: R102 and R104.                                                 *)

Store(c) ==
  /\ job = "idle"
  /\ job' = "clear" /\ part' = 1 /\ storing' = c
  /\ UNCHANGED <<db, lacking, roundVars, tasks, loadVars, countVars>>

(* The centre sends a new configuration, or the one it has been asked for. *)
R102 ==
  /\ wanted < MaxConfigs
  /\ wanted' = wanted + 1
  /\ Store(wanted + 1)
  /\ UNCHANGED asked

R104 ==
  /\ asked
  /\ asked' = FALSE
  /\ Store(wanted)
  /\ UNCHANGED wanted

(* Without a DataVersion the version is left as it is.                     *)
LastPart == IF storing \in Unversioned THEN Version - 1 ELSE Version

MutNextPart ==
  /\ job' = IF part = LastPart THEN "answer" ELSE "clear"
  /\ part' = IF part = LastPart THEN 1 ELSE IF part + 1 \in Files THEN LastPart ELSE part + 1
NextPart ==
  /\ job' = IF part = LastPart THEN "answer" ELSE "clear"
  /\ part' = IF part = LastPart THEN 1 ELSE part + 1

(* deleteFromDB; the opening of a file, which truncates it.  That either   *)
(* fails is not noticed: the rows stay and the new ones come beside them,  *)
(* the file stays and is passed over.                                      *)
Clear ==
  /\ job = "clear"
  /\ \/ /\ db' = [db EXCEPT ![part] = {}]
        /\ job' = "fill"
        /\ UNCHANGED <<part, lacking, countVars>>
     \/ /\ Fault
        /\ IF part \in Files THEN NextPart /\ lacking' = lacking \cup {part}
                            ELSE job' = "fill" /\ UNCHANGED <<part, lacking>>
        /\ UNCHANGED <<db, upgrades>>
  /\ UNCHANGED <<wanted, storing, asked, roundVars, tasks, loadVars>>

(* insertToDB, for every device of associated_equip; the writing.  All     *)
(* insertToDB return 0, whatever they have caught.                         *)
Fill ==
  /\ job = "fill"
  /\ \/ /\ db' = [db EXCEPT ![part] = @ \cup {storing}]
        /\ lacking' = IF part = Equips /\ db[part] # {} THEN lacking \cup {part}
                                                       ELSE lacking \ {part}
        /\ UNCHANGED countVars
     \/ /\ Fault
        /\ (UNCHANGED db \/ SomeInserted)
        /\ lacking' = lacking \cup {part}
        /\ UNCHANGED upgrades
  /\ NextPart
  /\ UNCHANGED <<wanted, storing, asked, roundVars, tasks, loadVars>>

(* S102 has been sent, "ok" whatever happened; five seconds later comes    *)
(* the restart task.  More than two are as two: none of them is ever done. *)
AddTask ==
  /\ job = "answer"
  /\ job' = "idle" /\ storing' = 0
  /\ tasks' = IF tasks < 2 THEN tasks + 1 ELSE tasks
  /\ UNCHANGED <<db, wanted, part, lacking, asked, roundVars, loadVars, countVars>>

-----------------------------------------------------------------------------
(* proPkgs: R106 and R107.                                                 *)

Urls == {downloads[i].pkg : i \in DOMAIN downloads}

(* push_back moves the vector when it is full: nobody's place holds then.  *)
R106(p) ==
  /\ job = "idle"
  /\ upgrades < MaxUpgrades
  /\ upgrades' = upgrades + 1
  /\ IF file = None /\ p \notin Urls
     THEN /\ downloads' = Append(downloads, [pkg |-> p, status |-> "idle"])
          /\ fetch' = [fetch EXCEPT ![p] = "start"]
          /\ IF Len(downloads) = capacity
             THEN /\ capacity' = IF capacity = 0 THEN 1 ELSE 2 * capacity
                  /\ hold' = [q \in Packages |-> 0]
                  /\ cursor' = IF round = "report" THEN 0 ELSE cursor
             ELSE UNCHANGED <<capacity, hold, cursor>>
     ELSE UNCHANGED <<downloads, capacity, fetch, hold, cursor>>
  /\ UNCHANGED <<configVars, asked, job, round, cached, tasks, file, failures>>

(* The file is there and its checksum right, or R107 only answers.         *)
R107(p) ==
  /\ job = "idle"
  /\ upgrades < MaxUpgrades
  /\ upgrades' = upgrades + 1
  /\ job' = IF file = p THEN "extract" ELSE job
  /\ UNCHANGED <<configVars, asked, roundVars, tasks, loadVars, failures>>

(* extractFile removes the file at its end; startUpgrade runs a script.    *)
Extract ==
  /\ job = "extract"
  /\ \/ file' = None /\ UNCHANGED countVars
     \/ Fault /\ UNCHANGED <<file, upgrades>>
  /\ job' = "idle"
  /\ UNCHANGED <<configVars, asked, roundVars, tasks, downloads, capacity, fetch, hold>>

-----------------------------------------------------------------------------
(* ThreadDownload.                                                         *)

PlaceOf(p) == CHOOSE i \in DOMAIN downloads : downloads[i].pkg = p

SetStatus(i, s) ==
  downloads' = IF i \in DOMAIN downloads THEN [downloads EXCEPT ![i].status = s] ELSE downloads

Fetching == {p \in Packages : fetch[p] \in {"run", "spoilt"}}

(* It looks for its URL and opens the file.  Two threads that write to it  *)
(* spoil it for each other.  If the URL is not there any more it ends.     *)
Opens(p) ==
  /\ file' = Partial
  /\ hold' = [hold EXCEPT ![p] = PlaceOf(p)]
  /\ fetch' = [q \in Packages |->
                 IF q \in Fetching THEN "spoilt"
                 ELSE IF q # p THEN fetch[q]
                 ELSE IF Fetching = {} THEN "run" ELSE "spoilt"]
  /\ UNCHANGED downloads

DownloadStarts(p) ==
  /\ fetch[p] = "start"
  /\ \/ p \in Urls /\ Opens(p) /\ UNCHANGED countVars
     \/ /\ p \in Urls => Fault /\ SetStatus(PlaceOf(p), "failed")
        /\ p \notin Urls => UNCHANGED <<downloads, failures>>
        /\ fetch' = [fetch EXCEPT ![p] = "none"]
        /\ UNCHANGED <<file, hold, upgrades>>
  /\ UNCHANGED <<configVars, asked, job, roundVars, tasks, capacity>>

(* The status goes where the thread believes its message to be.            *)
DownloadEnds(p) ==
  /\ p \in Fetching
  /\ \/ /\ fetch[p] = "run" /\ file = Partial
        /\ file' = p
        /\ SetStatus(hold[p], "finished")
        /\ UNCHANGED countVars
     \/ /\ IF fetch[p] = "run" /\ file = Partial THEN Fault /\ UNCHANGED upgrades
                                                 ELSE UNCHANGED countVars
        /\ SetStatus(hold[p], "failed")
        /\ UNCHANGED file
  /\ fetch' = [fetch EXCEPT ![p] = "none"]
  /\ hold' = [hold EXCEPT ![p] = 0]
  /\ UNCHANGED <<configVars, asked, job, roundVars, tasks, capacity>>

-----------------------------------------------------------------------------
(* intervalPro, logged in.                                                 *)

(* A version once read is kept; without one S104 is due every 180 seconds, *)
(* time enough for the answer to the one before to be stored.              *)
MutReads == cached \/ db[1] # {}
Reads == cached \/ db[Version] # {}

Query(due) ==
  /\ round = "sleep"
  /\ cached' = Reads
  /\ due => ~Reads /\ job = "idle"
  /\ asked' = (asked \/ due)
  /\ round' = "report" /\ cursor' = 1
  /\ UNCHANGED <<configVars, job, tasks, loadVars, countVars>>

(* A download that has ended is reported and erased, the report arriving   *)
(* or not; the messages behind it move up.                                 *)
MutReportNext ==
  /\ round = "report"
  /\ cursor \in DOMAIN downloads
  /\ IF downloads[cursor].status = "idle"
     THEN cursor' = cursor + 1 /\ UNCHANGED downloads
     ELSE downloads' = RemoveAt(downloads, cursor) /\ cursor' = cursor + 1
  /\ UNCHANGED <<configVars, asked, job, round, cached, tasks, capacity, fetch, hold, file, countVars>>
ReportNext ==
  /\ round = "report"
  /\ cursor \in DOMAIN downloads
  /\ IF downloads[cursor].status = "idle"
     THEN cursor' = cursor + 1 /\ UNCHANGED downloads
     ELSE downloads' = RemoveAt(downloads, cursor) /\ UNCHANGED cursor
  /\ UNCHANGED <<configVars, asked, job, round, cached, tasks, capacity, fetch, hold, file, countVars>>

ReportEnds ==
  /\ round = "report"
  /\ cursor > Len(downloads)
  /\ round' = "task" /\ cursor' = 1
  /\ UNCHANGED <<configVars, asked, job, cached, tasks, loadVars, countVars>>

(* The vector has been moved under its hands.                              *)
ReportLost ==
  /\ round = "report"
  /\ cursor = 0
  /\ \/ /\ round' = "task" /\ cursor' = 1
        /\ UNCHANGED <<configVars, asked, job, cached, tasks, loadVars, countVars>>
     \/ Restart /\ UNCHANGED failures

(* The first task is taken out.  If there are others, or downloads, it is  *)
(* put back behind them.                                                   *)
MutPending(n) == n + 1 > 0 \/ downloads # <<>>
Pending(n) == n > 0 \/ downloads # <<>>

NoTask ==
  /\ round = "task"
  /\ tasks = 0
  /\ round' = "sleep"
  /\ UNCHANGED <<configVars, asked, job, cursor, cached, tasks, loadVars, countVars>>

SysReboot ==
  /\ round = "task"
  /\ tasks > 0
  /\ IF Pending(tasks - 1) THEN round' = "sleep" /\ UNCHANGED tasks
                           ELSE round' = "leave" /\ tasks' = tasks - 1
  /\ UNCHANGED <<configVars, asked, job, cursor, cached, loadVars, countVars>>

(* Five seconds later.                                                     *)
Exit == round = "leave" /\ Restart /\ UNCHANGED failures

(* A new session: intervalPro begins anew.                                 *)
SessionBreaks ==
  /\ round = "sleep"
  /\ Fault
  /\ cached' = FALSE /\ asked' = FALSE
  /\ UNCHANGED <<configVars, job, round, cursor, tasks, loadVars, upgrades>>

Falls == Fault /\ Restart

-----------------------------------------------------------------------------
Storing == Clear \/ Fill \/ AddTask \/ Extract
ThreadDownload(p) == DownloadStarts(p) \/ DownloadEnds(p)
Round == (\E due \in BOOLEAN : Query(due)) \/ ReportNext \/ ReportEnds \/ ReportLost
         \/ NoTask \/ SysReboot \/ Exit

WorkNext == \/ R102 \/ R104 \/ Storing
            \/ \E p \in Packages : R106(p) \/ R107(p) \/ ThreadDownload(p)
            \/ Round \/ SessionBreaks \/ Falls

(* The threads run on, a download ends at the latest by its timeout, 180   *)
(* seconds pass, and the centre answers S104.                              *)
WorkSpec == /\ WorkInit /\ [][WorkNext]_workVars
            /\ WF_workVars(Storing) /\ WF_workVars(Round)
            /\ SF_workVars(Query(TRUE)) /\ SF_workVars(R104)
            /\ \A p \in Packages : WF_workVars(ThreadDownload(p))

-----------------------------------------------------------------------------
WorkTypeOK ==
  /\ db \in [Parts -> SUBSET (0 .. MaxConfigs)] /\ wanted \in 1 .. MaxConfigs
  /\ asked \in BOOLEAN
  /\ job \in {"idle", "clear", "fill", "answer", "extract"}
  /\ part \in 1 .. LastPart /\ storing \in 0 .. MaxConfigs
  /\ round \in {"sleep", "report", "task", "leave"}
  /\ cursor \in 0 .. Len(downloads) + 1 /\ cached \in BOOLEAN
  /\ tasks \in 0 .. 2
  /\ downloads \in Seq([pkg : Packages, status : {"idle", "finished", "failed"}])
  /\ capacity \in Nat /\ Len(downloads) <= capacity
  /\ fetch \in [Packages -> {"none", "start", "run", "spoilt"}]
  /\ hold \in [Packages -> 0 .. capacity]
  /\ file \in Packages \cup {None, Partial}
  /\ failures \in 0 .. MaxFailures /\ upgrades \in 0 .. MaxUpgrades
  /\ lacking \subseteq Parts

(* What is read of a part is of configuration v or of a later one.         *)
ReadsFrom(k, v) ==
  IF k \in Tables THEN \E c \in db[k] : c >= v
                  ELSE db[k] # {} /\ \A c \in db[k] : c >= v

(* The version the device reads, and tells the centre in S101, is never    *)
(* ahead of what it has: through steps that fail, falls in the middle of a *)
(* configuration and configurations without a version, every part is of    *)
(* that version or a later one.  Only a part that was itself stored badly  *)
(* is not, for nothing tells that it was.                                  *)
VersionNotAhead ==
  \A v \in db[Version] : (\A w \in db[Version] : v <= w) =>
    \A k \in Parts \ lacking : ReadsFrom(k, v) \/ (job = "fill" /\ part = k)

(* Without a version the configuration is asked for until one has come     *)
(* that has a version, through sessions that break, parts that fail and    *)
(* falls.  (One without is asked for again and again, and each time ends   *)
(* in a restart.)                                                          *)
AsksUntilVersion ==
  (db[Version] = {} /\ ~cached) ~> (db[Version] # {} \/ wanted \in Unversioned)

(* A download whose thread is gone and did not leave its status: another    *)
(* message had taken its place in the list.                                *)
Astray == \E i \in DOMAIN downloads :
            downloads[i].status = "idle" /\ fetch[downloads[i].pkg] = "none"

(* A restart task by itself is carried out, downloads under way or not:    *)
(* each ends, is reported and leaves the list, unless its status went      *)
(* astray.                                                                 *)
OneTaskIsDone == (tasks = 1) ~> (tasks # 1 \/ Astray)

(* EOCCom.cpp: when there is no file, or its checksum is wrong, a download *)
(* is added.                                                               *)
DownloadIsAdded == [][\A p \in Packages : R106(p) /\ file # p => p \in Urls']_workVars
=============================================================================
