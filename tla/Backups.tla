------------------------------- MODULE Backups -------------------------------
(***************************************************************************)
(* Backups: the rows of table backups, the archives beside them, the       *)
(* database file itself, and the goroutines that work on them.  Creating,  *)
(* restoring and scheduling read a whole row and save a whole row later;   *)
(* a restore renames the database file away under the connections that     *)
(* the panel keeps open; a restart ends every goroutine and reads whatever *)
(* file is then at the database's path.                                    *)
(*                                                                         *)
(* Sources: services/backup_service.go, scheduler/backup_scheduler.go and  *)
(* models/backup.go, under src/backend/internal.                           *)
(***************************************************************************)
EXTENDS Naturals, FiniteSets

CONSTANTS
  MaxBackups,   \* bound on the rows ever created
  Keep,         \* backup_retention_count
  Crons,        \* schedules administrators ask for
  Accepted,     \* those of them that both parsers of the cron library accept
  MaxEvents,    \* bound on deletions, restores, changes of schedule, restarts
  Broken,       \* a copy of a part of a database file
  Live,         \* the file the panel's connections use
  None

ASSUME BackupsAssumption ==
  /\ MaxBackups \in Nat /\ Keep \in Nat \ {0}
  /\ Accepted \subseteq Crons /\ None \notin Crons
  /\ MaxEvents \in Nat

\* Ids are given in the order of creation, and so are the stamps (created_at).
\* A restored table gives ids again, never stamps.
Id    == 1..MaxBackups
Stamp == 1..MaxBackups
Restore == 1..MaxEvents

Status == {"pending", "running", "completed", "failed", "restoring"}

\* A row of table backups.  cron: schedule_cron, None if empty.  enc: file_path
\* names the encrypted archive; until the archive is complete it names a file
\* that is only there while it is being made.
Row == [stamp : Stamp, status : Status, cron : Crons \cup {None}, enc : BOOLEAN]

VARIABLES
  table,    \* table backups, as the panel's connections see it
  next,     \* the next id of the table
  stamps,   \* stamps given so far
  aged,     \* at the last start, stamps up to this were older than an hour
  second,   \* second[s]: the first stamp of the second that stamp s falls in.
            \*   An archive is called after the second it was asked for in.
  archive,  \* archive[n]: what the archive called after n holds
  disk,     \* what is at the database's path: the file the connections use, a
            \*   restored copy, a part of one, or nothing
  job,      \* job[s]: the goroutine making the backup of stamp s
  restore,  \* restore[r]: RestoreBackup and its goroutine; restoreMu is held
            \*   while one is at "mark"
  aside,    \* aside[r]: the database file that restore r renamed away
  deleting, \* DeleteBackup, with the row it read
  sched,    \* UpdateSchedule, with the row it read
  entry,    \* the entry of the cron library, None if there is none
  ticking,  \* cron.Start was called
  left,     \* events left; also numbers the restores
  done,     \* stamps of backups that completed (history)
  excuse    \* what happened that breaks promises (history); see Excuse

timer  == <<sched, entry, ticking>>
vars   == <<table, next, stamps, aged, second, archive, disk, job, restore, aside,
            deleting, sched, entry, ticking, left, done, excuse>>

Excuse == {
  "overwritten",  \* a save of a whole row undid what others wrote to it since
  "resurrected",  \* a save inserted a row that had been deleted
  "placeholder",  \* a schedule was stored in a row made for it
  "forgotten",    \* the row that held the schedule was removed
  "rejected",     \* a schedule was asked for that the cron library refuses
  "hidden",       \* a rotation did not see a backup that was being restored
  "deleted",      \* an administrator deleted a backup
  "restored",     \* the panel came up with another database file
  "together",     \* two restores were at work at once
  "interrupted",  \* a restart came between removing an archive and its row
  "orphaned"      \* a restart left a row that nobody works on any more
  }

\* What a copy of the database holds of the table: rows and sequence.
Dump   == [table : [Id -> Row \cup {None}], next : 1..(MaxBackups + 1)]

Idle == [pc |-> "idle", id |-> None, row |-> None, list |-> {}, copy |-> None]
IdleSched == [pc |-> "idle", id |-> None, row |-> None, cron |-> None]

Rows      == {i \in Id : table[i] # None}
Having(s) == {i \in Rows : table[i].status = s}
Newer(i)  == {j \in Rows : table[j].stamp > table[i].stamp}
Latest(S) == CHOOSE i \in S : \A j \in S : table[j].stamp <= table[i].stamp

TypeOK ==
  /\ table \in [Id -> Row \cup {None}]
  /\ next \in 1..(MaxBackups + 1)
  /\ stamps \in 0..MaxBackups
  /\ aged \in 0..stamps
  /\ second \in [Stamp -> Stamp] /\ DOMAIN archive = Stamp
  /\ \A s \in Stamp : archive[s] \in {None, Broken} \/ archive[s] \in Dump
  /\ disk \in {Live, Broken, None} \/ disk \in Dump
  /\ DOMAIN job = Stamp /\ DOMAIN restore = Restore
  /\ \A s \in Stamp :
       /\ job[s] = Idle \/ (job[s].id \in Id /\ s <= stamps)
       /\ job[s].pc \in {"idle", "read", "run", "dump", "pack", "save", "list",
                         "file", "row"}
  /\ \A r \in Restore :
       /\ restore[r] = Idle \/ restore[r].row \in Row
       /\ restore[r].pc \in {"idle", "mark", "open", "rename", "copy", "verify",
                             "files", "save"}
       /\ aside[r] \in {None, Broken, Live} \/ aside[r] \in Dump
  /\ deleting.pc \in {"idle", "files", "row"}
  /\ sched.pc \in {"idle", "clear", "latest", "save", "entry"}
  /\ left \in 0..MaxEvents
  /\ entry \in Crons \cup {None} /\ ticking \in BOOLEAN
  /\ done \subseteq 1..stamps
  /\ excuse \subseteq Excuse

Init ==
  /\ table = [i \in Id |-> None] /\ next = 1 /\ stamps = 0 /\ aged = 0
  /\ second = [s \in Stamp |-> s]
  /\ archive = [s \in Stamp |-> None] /\ disk = Live
  /\ job = [s \in Stamp |-> Idle] /\ restore = [r \in Restore |-> Idle]
  /\ aside = [r \in Restore |-> None] /\ deleting = Idle
  /\ sched = IdleSched /\ entry = None /\ ticking = TRUE
  /\ left = MaxEvents
  /\ done = {} /\ excuse = {}

Spend == left > 0 /\ left' = left - 1

(***************************************************************************)
(* gorm: Save updates every column of the row of that id and inserts it if *)
(* it is not there.  old is the row as it was read.                        *)
(***************************************************************************)
Save(i, old, new) ==
  /\ table' = [table EXCEPT ![i] = new]
  /\ excuse' = excuse \cup
       CASE table[i] = None -> {"resurrected"}
         [] table[i] \notin {None, old} -> {"overwritten"}
         [] OTHER -> {}

Erase(i) ==
  /\ table' = [table EXCEPT ![i] = None]
  /\ excuse' = excuse \cup
       (IF table[i] # None /\ table[i].cron # None THEN {"forgotten"} ELSE {})

Insert(row) ==
  /\ stamps < MaxBackups
  /\ table' = [table EXCEPT ![next] = row]
  /\ next' = next + 1
  /\ stamps' = stamps + 1

New == [stamp |-> stamps + 1, status |-> "pending", cron |-> None, enc |-> FALSE]

(***************************************************************************)
(* Making a backup                                                         *)
(***************************************************************************)
\* A request, or the scheduler when its entry fires.  It may come in the second
\* of the one before.
CreateBackup ==
  /\ Insert(New)
  /\ second' \in {second} \cup {[second EXCEPT ![stamps + 1] = second[s]] :
                                s \in Stamp \cap {stamps}}
  /\ job' = [job EXCEPT ![stamps + 1] = [Idle EXCEPT !.pc = "read", !.id = next]]
  /\ UNCHANGED <<aged, archive, disk, restore, aside, deleting, left, done, excuse>>
  /\ UNCHANGED timer

JobUnchanged == UNCHANGED <<next, stamps, aged, second, restore, aside, deleting, left>>
                /\ UNCHANGED timer

\* The goroutine reads the row, and gives up if it was deleted already.
JobRead(s) ==
  /\ job[s].pc = "read"
  /\ job' = [job EXCEPT ![s] =
       IF table[job[s].id] = None THEN Idle
       ELSE [@ EXCEPT !.pc = "run", !.row = table[job[s].id]]]
  /\ JobUnchanged /\ UNCHANGED <<table, archive, disk, done, excuse>>

JobRun(s) ==
  LET running == [job[s].row EXCEPT !.status = "running"] IN
  /\ job[s].pc = "run"
  /\ Save(job[s].id, job[s].row, running)
  /\ job' = [job EXCEPT ![s].pc = "dump", ![s].row = running]
  /\ JobUnchanged /\ UNCHANGED <<archive, disk, done>>

\* dumpDatabase copies the file at the database's path, which after a restore
\* is not the one the panel writes to.  It fails if there is none.
DumpDatabase(s) ==
  LET copy == IF disk = Live THEN [table |-> table, next |-> next] ELSE disk IN
  /\ job[s].pc = "dump"
  /\ \/ disk # None /\ job' = [job EXCEPT ![s].pc = "pack", ![s].copy = copy]
     \/ job' = [job EXCEPT ![s].pc = "save", ![s].row.status = "failed"]
  /\ JobUnchanged /\ UNCHANGED <<table, archive, disk, done, excuse>>

\* Mutant: an error after the archive was made is not returned.
PackUnchecked(s) ==
  /\ job[s].pc = "pack"
  /\ archive' \in {archive, [archive EXCEPT ![second[s]] = job[s].copy]}
  /\ job' = [job EXCEPT ![s].pc = "save", ![s].copy = None, ![s].row.enc = TRUE,
                        ![s].row.status = "completed"]
  /\ JobUnchanged /\ UNCHANGED <<table, disk, done, excuse>>

\* Two that pack or encrypt in the same second write into one file.
Mix(s) ==
  /\ job[s].pc = "pack"
  /\ \E q \in Stamp \ {s} : job[q].pc = "pack" /\ second[q] = second[s]
  /\ job' = [job EXCEPT ![s].copy = Broken]
  /\ JobUnchanged /\ UNCHANGED <<table, archive, disk, done, excuse>>

\* The rest of performBackup: collect, pack, encrypt, checksum, meta.  A failure
\* after the archive is written leaves it there, one before may leave a part.
Pack(s) ==
  /\ job[s].pc = "pack"
  /\ \/ /\ archive' = [archive EXCEPT ![second[s]] = job[s].copy]
        /\ \E ok \in {"completed", "failed"} :
             job' = [job EXCEPT ![s].pc = "save", ![s].copy = None,
                                ![s].row.enc = TRUE, ![s].row.status = ok]
     \/ /\ job' = [job EXCEPT ![s].pc = "save", ![s].copy = None,
                              ![s].row.status = "failed"]
        /\ archive' \in {archive, [archive EXCEPT ![second[s]] = Broken]}
  /\ JobUnchanged /\ UNCHANGED <<table, disk, done, excuse>>

\* The goroutine read the row before it ran; it saves all of it.
JobSave(s) ==
  LET row == job[s].row
      old == [row EXCEPT !.status = "running", !.enc = FALSE] IN
  /\ job[s].pc = "save"
  /\ Save(job[s].id, old, row)
  /\ IF row.status = "completed"
     THEN job' = [job EXCEPT ![s].pc = "list"] /\ done' = done \cup {s}
     ELSE job' = [job EXCEPT ![s] = Idle] /\ UNCHANGED done
  /\ JobUnchanged /\ UNCHANGED <<archive, disk>>

\* Mutant: ordered by created_at ascending.
BeyondOldest == {i \in Having("completed") :
                   Cardinality(Having("completed") \ (Newer(i) \cup {i})) >= Keep}

\* rotateBackups reads the completed backups beyond the newest ones, and then
\* removes archive and row of each.
Beyond == {i \in Having("completed") :
             Cardinality(Newer(i) \cap Having("completed")) >= Keep}

RotateList(s) ==
  /\ job[s].pc = "list"
  /\ job' = [job EXCEPT ![s] =
       IF Beyond = {} THEN Idle
       ELSE [@ EXCEPT !.pc = "file", !.row = None,
                      !.list = {<<i, table[i]>> : i \in Beyond}]]
  /\ excuse' = excuse \cup (IF Having("restoring") # {} THEN {"hidden"} ELSE {})
  /\ JobUnchanged /\ UNCHANGED <<table, archive, disk, done>>

\* Newest first.
Head(list) == CHOOSE e \in list : \A f \in list : f[2].stamp <= e[2].stamp

RotateFile(s) ==
  /\ job[s].pc = "file"
  /\ archive' = [archive EXCEPT ![second[Head(job[s].list)[2].stamp]] = None]
  /\ job' = [job EXCEPT ![s].pc = "row"]
  /\ JobUnchanged /\ UNCHANGED <<table, disk, done, excuse>>

RotateRow(s) ==
  LET rest == job[s].list \ {Head(job[s].list)} IN
  /\ job[s].pc = "row"
  /\ Erase(Head(job[s].list)[1])
  /\ job' = [job EXCEPT ![s] = IF rest = {} THEN Idle
                               ELSE [@ EXCEPT !.pc = "file", !.list = rest]]
  /\ JobUnchanged /\ UNCHANGED <<archive, disk, done>>

(***************************************************************************)
(* Deleting a backup                                                       *)
(***************************************************************************)
DeleteUnchanged == UNCHANGED <<next, stamps, aged, second, disk, job, restore, aside,
                               done>> /\ UNCHANGED timer

DeleteRead(i) ==
  /\ deleting = Idle /\ i \in Rows
  /\ Spend
  /\ deleting' = [Idle EXCEPT !.pc = "files", !.id = i, !.row = table[i]]
  /\ DeleteUnchanged /\ UNCHANGED <<table, archive, excuse>>

\* The path is the one in the row that was read: a backup that was being made
\* then keeps its archive.
DeleteFiles ==
  /\ deleting.pc = "files"
  /\ archive' = IF deleting.row.enc
                THEN [archive EXCEPT ![second[deleting.row.stamp]] = None] ELSE archive
  /\ deleting' = [deleting EXCEPT !.pc = "row"]
  /\ DeleteUnchanged /\ UNCHANGED <<table, left, excuse>>

DeleteRow ==
  LET i == deleting.id IN
  /\ deleting.pc = "row"
  /\ table' = [table EXCEPT ![i] = None]
  /\ excuse' = excuse \cup {"deleted"} \cup
       (IF table[i] # None /\ table[i].cron # None THEN {"forgotten"} ELSE {})
  /\ deleting' = Idle
  /\ DeleteUnchanged /\ UNCHANGED <<archive, left>>

(***************************************************************************)
(* Restoring a backup                                                      *)
(***************************************************************************)
RestoreUnchanged == UNCHANGED <<next, stamps, aged, second, archive, job, deleting,
                                done>> /\ UNCHANGED timer

\* RestoreBackup takes restoreMu, reads the row, refuses what is not completed.
RestoreRead(i) ==
  LET r == left IN
  /\ \A q \in Restore : restore[q].pc # "mark"
  /\ i \in Having("completed")
  /\ Spend
  /\ restore' = [restore EXCEPT ![r] = [Idle EXCEPT !.pc = "mark", !.id = i,
                                                   !.row = table[i]]]
  /\ RestoreUnchanged /\ UNCHANGED <<table, disk, aside, excuse>>

\* It saves the row as restoring, starts the goroutine and releases restoreMu.
RestoreMark(r) ==
  LET marked == [restore[r].row EXCEPT !.status = "restoring"] IN
  /\ restore[r].pc = "mark"
  /\ Save(restore[r].id, restore[r].row, marked)
  /\ restore' = [restore EXCEPT ![r].pc = "open", ![r].row = marked]
  /\ RestoreUnchanged /\ UNCHANGED <<disk, aside, left>>

\* Mutant: the goroutine returns at an error, as it does before its first save.
FailsSilently(r) == restore' = [restore EXCEPT ![r] = Idle]

Fails(r) == restore' = [restore EXCEPT ![r].pc = "save", ![r].copy = None,
                                       ![r].row.status = "failed"]

\* Decrypt and extract; the archive may be gone, or unreadable.
RestoreOpen(r) ==
  LET content == archive[second[restore[r].row.stamp]] IN
  /\ restore[r].pc = "open"
  /\ \/ content # None /\ restore' = [restore EXCEPT ![r].pc = "rename",
                                                     ![r].copy = content]
     \/ Fails(r)
  /\ RestoreUnchanged /\ UNCHANGED <<table, disk, aside, left, excuse>>

\* Mutant: the current file is removed.
RestoreRemoves(r) ==
  /\ restore[r].pc = "rename"
  /\ disk' = None
  /\ restore' = [restore EXCEPT ![r].pc = "copy"]
  /\ RestoreUnchanged /\ UNCHANGED <<table, aside, left, excuse>>

\* restoreDatabase: rename the current file away, if there is one ...
RestoreRename(r) ==
  /\ restore[r].pc = "rename"
  /\ aside' = [aside EXCEPT ![r] = disk]
  /\ disk' = None
  /\ restore' = [restore EXCEPT ![r].pc = "copy"]
  /\ excuse' = excuse \cup
       (IF \E q \in Restore \ {r} : restore[q].pc \in {"copy", "verify"}
        THEN {"together"} ELSE {})
  /\ RestoreUnchanged /\ UNCHANGED <<table, left>>

\* ... put the copy in its place.  An error here leaves nothing or a part of it;
\* two restores may write into the same file.
RestoreCopy(r) ==
  /\ restore[r].pc = "copy"
  /\ \/ /\ disk' \in {restore[r].copy} \cup (IF disk = None THEN {} ELSE {Broken})
        /\ restore' = [restore EXCEPT ![r].pc = "verify", ![r].copy = None]
     \/ /\ disk' \in {disk, Broken}
        /\ Fails(r)
  /\ RestoreUnchanged /\ UNCHANGED <<table, aside, left, excuse>>

\* The integrity check: the copy stays and the old file goes, or the other way
\* round.  The check may fail on a whole copy too, for it finds the write-ahead
\* log of the old file beside it.
RestoreVerify(r) ==
  /\ restore[r].pc = "verify"
  /\ \/ /\ disk \notin {None, Broken}
        /\ aside' = [aside EXCEPT ![r] = None]
        /\ restore' = [restore EXCEPT ![r].pc = "files"]
        /\ UNCHANGED disk
     \/ /\ aside' = [aside EXCEPT ![r] = None]
        /\ disk' = IF aside[r] = None THEN disk ELSE aside[r]
        /\ Fails(r)
  /\ RestoreUnchanged /\ UNCHANGED <<table, left, excuse>>

\* Configuration files, certificates, WARP keys, geo databases.  A failure is
\* reported although the database is replaced.
RestoreFiles(r) ==
  /\ restore[r].pc = "files"
  /\ \/ restore' = [restore EXCEPT ![r].pc = "save", ![r].row.status = "completed"]
     \/ Fails(r)
  /\ RestoreUnchanged /\ UNCHANGED <<table, disk, aside, left, excuse>>

RestoreSave(r) ==
  /\ restore[r].pc = "save"
  /\ Save(restore[r].id, [restore[r].row EXCEPT !.status = "restoring"],
          restore[r].row)
  /\ restore' = [restore EXCEPT ![r] = Idle]
  /\ RestoreUnchanged /\ UNCHANGED <<disk, aside, left>>

(***************************************************************************)
(* The schedule                                                            *)
(***************************************************************************)
SchedUnchanged == UNCHANGED <<aged, second, archive, disk, job, restore, aside,
                              deleting, ticking, done>>

Stored(t) ==
  LET S == {i \in Id : t[i] # None /\ t[i].cron # None} IN
  IF S = {} THEN None
  ELSE t[CHOOSE i \in S : \A j \in S : t[j].stamp <= t[i].stamp].cron

GetSchedule == Stored(table)

\* UpdateSchedule, under the scheduler's mutex; cron = None removes the schedule.
UpdateSchedule(cron) ==
  /\ sched = IdleSched
  /\ Spend
  /\ sched' = [IdleSched EXCEPT !.pc = "clear", !.cron = cron]
  /\ entry' = IF cron = None THEN None ELSE entry
  /\ excuse' = excuse \cup
       (IF cron \in Accepted \cup {None} THEN {} ELSE {"rejected"})
  /\ SchedUnchanged /\ UNCHANGED <<table, next, stamps>>

\* Mutant: old schedules stay in their rows.
SchedClearNot ==
  /\ sched.pc = "clear"
  /\ sched' = [sched EXCEPT !.pc = "latest"]
  /\ SchedUnchanged /\ UNCHANGED <<table, next, stamps, entry, left, excuse>>

SchedClear ==
  /\ sched.pc = "clear"
  /\ table' = [i \in Id |-> IF i \in Rows THEN [table[i] EXCEPT !.cron = None]
                            ELSE None]
  /\ sched' = [sched EXCEPT !.pc = "latest"]
  /\ SchedUnchanged /\ UNCHANGED <<next, stamps, entry, left, excuse>>

\* The schedule goes into the latest row, or into a row made for it.
SchedLatest ==
  /\ sched.pc = "latest"
  /\ IF Rows = {}
     THEN /\ Insert([New EXCEPT !.cron = sched.cron])
          /\ excuse' = excuse \cup {"placeholder"}
          /\ sched' = [sched EXCEPT !.pc = "entry"]
     ELSE /\ sched' = [sched EXCEPT !.pc = "save", !.id = Latest(Rows),
                                    !.row = table[Latest(Rows)]]
          /\ UNCHANGED <<table, next, stamps, excuse>>
  /\ SchedUnchanged /\ UNCHANGED <<entry, left>>

SchedSave ==
  /\ sched.pc = "save"
  /\ Save(sched.id, sched.row, [sched.row EXCEPT !.cron = sched.cron])
  /\ sched' = [sched EXCEPT !.pc = "entry"]
  /\ SchedUnchanged /\ UNCHANGED <<next, stamps, entry, left>>

\* scheduleBackup removes the old entry before the library may refuse the new.
SchedEntry ==
  /\ sched.pc = "entry"
  /\ entry' = IF sched.cron \in Accepted THEN sched.cron ELSE None
  /\ sched' = IdleSched
  /\ SchedUnchanged /\ UNCHANGED <<table, next, stamps, left, excuse>>

(***************************************************************************)
(* Restarts                                                                *)
(***************************************************************************)
Unfinished(t) == {i \in Id : t[i] # None /\ t[i].status \in {"pending", "running"}}

\* old: the last stamp of more than an hour ago.
CleanupStaleBackups(t, old) ==
  [i \in Id |-> IF i \in Unfinished(t) /\ t[i].stamp <= old
                THEN [t[i] EXCEPT !.status = "failed"] ELSE t[i]]

\* What a process that starts finds: the file at the path, or an empty new one.
\* It does not come up with a part of a file.
Found == CASE disk = Live -> [table |-> table, next |-> next]
           [] disk = None -> [table |-> [i \in Id |-> None], next |-> 1]
           [] OTHER -> disk

\* Every goroutine ends; BackupService.Initialize cleans up, the scheduler's
\* Initialize starts the cron library unless the stored schedule is refused.
Restart(old) ==
  LET t == CleanupStaleBackups(Found.table, old)
      cut == deleting # Idle \/ \E s \in Stamp : job[s].pc \in {"list", "file", "row"}
      orphans == Unfinished(t) \cup {i \in Id : t[i] # None /\ t[i].status = "restoring"}
  IN
  /\ disk # Broken
  /\ Spend
  /\ aged' = old
  /\ table' = t /\ next' = Found.next /\ disk' = Live
  /\ job' = [s \in Stamp |-> Idle] /\ restore' = [r \in Restore |-> Idle]
  /\ deleting' = Idle /\ sched' = IdleSched
  /\ entry' = IF Stored(t) \in Accepted THEN Stored(t) ELSE None
  /\ ticking' = (Stored(t) \in Accepted \cup {None})
  /\ excuse' = excuse \cup (IF cut THEN {"interrupted"} ELSE {})
                      \cup (IF orphans # {} THEN {"orphaned"} ELSE {})
                      \cup (IF disk # Live THEN {"restored"} ELSE {})
  /\ UNCHANGED <<stamps, second, archive, aside, done>>

\* The handlers, and what they start.
MakeBackup(s) ==
  \/ JobRead(s) \/ JobRun(s) \/ DumpDatabase(s) \/ Mix(s) \/ Pack(s)
  \/ JobSave(s) \/ RotateList(s) \/ RotateFile(s) \/ RotateRow(s)

DeleteBackup == DeleteFiles \/ DeleteRow \/ \E i \in Id : DeleteRead(i)

RestoreBackup ==
  \/ \E i \in Id : RestoreRead(i)
  \/ \E r \in Restore : \/ RestoreMark(r) \/ RestoreOpen(r) \/ RestoreRename(r)
                        \/ RestoreCopy(r) \/ RestoreVerify(r) \/ RestoreFiles(r)
                        \/ RestoreSave(r)

SetSchedule ==
  \/ \E c \in Crons \cup {None} : UpdateSchedule(c)
  \/ SchedClear \/ SchedLatest \/ SchedSave \/ SchedEntry

Next ==
  \/ CreateBackup \/ \E s \in Stamp : MakeBackup(s)
  \/ DeleteBackup \/ RestoreBackup \/ SetSchedule
  \/ \E old \in aged..stamps : Restart(old)

Spec == Init /\ [][Next]_vars

(***************************************************************************)
(* Properties                                                              *)
(***************************************************************************)
Unless(S) == excuse \cap S # {}

\* DownloadBackup: the file the row names is there.
Downloadable(i) == archive[second[table[i].stamp]] # None

\* Another backup was asked for in the same second: they have one file.
Shared(s) == \E q \in Stamp \ {s} : second[q] = second[s]

\* A backup that is listed as completed can be fetched: its archive is there,
\* unless it is being removed right now, or was removed with another backup of
\* the same second, or a save brought back a row after its removal, or a restart
\* cut a removal in two or brought an old table.
\* (RotateFile, DeleteFiles and JobSave in the order of the code.)
CompletedHasArchive ==
  \A i \in Having("completed") :
    \/ Downloadable(i)
    \/ Shared(table[i].stamp)
    \/ \E s \in Stamp : job[s].pc = "row" /\ Head(job[s].list)[1] = i
    \/ deleting.pc = "row" /\ deleting.id = i
    \/ Unless({"resurrected", "interrupted", "restored"})

\* No row says for ever that work is under way: somebody works on each row that
\* is pending, running or restoring, unless a restart came within the hour or
\* during a restore, a save of the schedule undid what the goroutine had saved,
\* or the row was made to hold a schedule.
SomebodyWorks ==
  \A i \in Rows :
    \/ table[i].status \in {"completed", "failed"}
    \/ \E s \in Stamp : job[s].id = i /\ job[s].pc \in {"read", "run", "dump",
                                                         "pack", "save"}
    \/ \E r \in Restore : restore[r].id = i
    \/ Unless({"orphaned", "overwritten", "resurrected", "placeholder"})

\* What is left when nobody rotates any more is no more than the retention
\* count, unless a rotation could not see a backup that was being restored, a
\* stale save changed a status back or brought a row back, or a restart cut a
\* rotation or brought an old table.
AtMostKeep ==
  \/ \E s \in Stamp : job[s] # Idle
  \/ Cardinality(Having("completed")) <= Keep
  \/ Unless({"hidden", "resurrected", "overwritten", "interrupted", "restored"})

\* A completed backup that is gone has as many newer ones, unless an
\* administrator deleted a backup or an older table came back.
NewestAreKept ==
  \A s \in done :
    \/ \E i \in Rows : table[i].stamp = s
    \/ Cardinality({i \in Rows : table[i].stamp > s /\ table[i].stamp \in done}) >= Keep
    \/ Unless({"deleted", "restored"})

\* Whatever backups rotate at the same time, and whatever is deleted or restored
\* meanwhile, rotation leaves the newest and no more.
RotationKeeps == AtMostKeep /\ NewestAreKept

\* The stored schedule is the one the scheduler runs, unless one of the known
\* ways of losing it happened: its row was removed, or saved over by a backup.
ScheduleIsCurrent ==
  \/ sched # IdleSched
  \/ GetSchedule = entry /\ ticking
  \/ Unless({"overwritten", "resurrected", "forgotten", "rejected"})

\* While the database's path holds no whole database, the one that was there
\* lies beside it: a crash or a full disk during a restore loses nothing, unless
\* two restores ran at once.
DatabaseSurvives ==
  \/ disk \notin {None, Broken}
  \/ \E r \in Restore : aside[r] \notin {None, Broken}
  \/ Unless({"together"})

(***************************************************************************)
(* Statements of the documentation that the code does not keep             *)
(***************************************************************************)
\* "Returns current backup cron schedule and next scheduled run time"
\* (api/backup.go, GetSchedule): what is stored is what will run.
StoredScheduleRuns == sched = IdleSched => GetSchedule = entry /\ ticking

=============================================================================
