----------------------------- MODULE BackupFiles -----------------------------
(***************************************************************************)
(* What a backup holds beside the database: the configurations of the      *)
(* cores, certificates, WARP keys, geo databases, and the key that seals   *)
(* archives.  A restore swaps the directory of the configurations for one  *)
(* it staged, which a rename can do only while there is no such directory, *)
(* and copies the others over what is there.  Module Backups follows the   *)
(* rows, the schedule and the database.                                    *)
(*                                                                         *)
(* Source: services/backup_service.go, under src/backend/internal.         *)
(***************************************************************************)
EXTENDS Naturals, Sequences

CONSTANTS
  Files,      \* Files[p]: the files part p may have
  Copied,     \* the parts copied over what is there, in the order of the code
  MaxWrites,  \* bound on files written by the rest of the panel
  MaxRestarts,
  NoFile,
  NoArchive

VARIABLES
  data,      \* data[p][n]: content of a file, or NoFile
  spare,     \* the directory cores.pre-restore
  archive,   \* NoArchive or [key, parts, files]; one is made (a bound)
  making,    \* performBackup
  work,      \* performRestore
  keyFile,   \* .backup_key: the number of a key, 0 if absent or unreadable
  key,       \* the key in memory
  keys,      \* keys generated
  written,   \* files written; also numbers contents
  uncertain, \* history: configurations were written during a restore, not all
             \*   of them were copied before one, or a second one removed the copy
  restarts

vars == <<data, spare, archive, making, work, keyFile, key, keys, written, uncertain, restarts>>

Parts == DOMAIN Files
Order == <<"cores">> \o Copied
Empty == [p \in Parts |-> [n \in Files[p] |-> NoFile]]
None(p) == [n \in Files[p] |-> NoFile]
Has(files) == \E n \in DOMAIN files : files[n] # NoFile
Over(new, old) == [n \in DOMAIN old |-> IF new[n] # NoFile THEN new[n] ELSE old[n]]

NotMaking  == [at |-> 0, parts |-> {}, files |-> Empty]
NotWorking == [pc |-> "idle", at |-> 0, since |-> 0, ok |-> FALSE, swapped |-> FALSE]

Init ==
  /\ data = Empty /\ spare = Empty["cores"] /\ archive = NoArchive
  /\ making = NotMaking /\ work = NotWorking
  /\ keyFile = 1 /\ key = 1 /\ keys = 1 /\ written = 0 /\ uncertain = FALSE /\ restarts = 0

Idle(w) == w.pc = "idle"

\* A core is configured, a certificate issued, an account registered, a database
\* downloaded.
Write(p, n) ==
  /\ written < MaxWrites
  /\ written' = written + 1
  /\ data' = [data EXCEPT ![p][n] = written + 1]
  /\ uncertain' = (uncertain \/ (p = "cores" /\ ~Idle(work)))
  /\ UNCHANGED <<spare, archive, making, work, keyFile, key, keys, restarts>>

\* The key file goes, or holds something else than 32 bytes.
LoseKey ==
  /\ keyFile # 0
  /\ keyFile' = 0
  /\ UNCHANGED <<data, spare, archive, making, work, key, keys, written, uncertain, restarts>>

(***************************************************************************)
(* Making an archive                                                       *)
(***************************************************************************)
MakingUnchanged == UNCHANGED <<data, spare, work, keyFile, key, keys, written, uncertain, restarts>>

\* The configurations are always included, whatever the request says.
BackupRequest(parts) ==
  /\ making = NotMaking /\ archive = NoArchive
  /\ making' = [NotMaking EXCEPT !.at = 1, !.parts = parts]
  /\ MakingUnchanged /\ UNCHANGED archive

CopyPart ==
  LET p == Order[making.at] IN
  /\ making.at \in DOMAIN Order
  /\ making' = [making EXCEPT !.at = @ + 1,
                              !.files[p] = IF p \in making.parts THEN data[p] ELSE None(p)]
  /\ MakingUnchanged /\ UNCHANGED archive

\* Packed, sealed with the key in memory; a failure at any step leaves no
\* archive that a row names as completed.
Seal ==
  /\ making.at = Len(Order) + 1
  /\ archive' = [key |-> key, parts |-> making.parts, files |-> making.files]
  /\ making' = NotMaking
  /\ MakingUnchanged

BackupFails ==
  /\ making # NotMaking
  /\ making' = NotMaking
  /\ MakingUnchanged /\ UNCHANGED archive

(***************************************************************************)
(* Restoring one                                                           *)
(***************************************************************************)
WorkUnchanged == UNCHANGED <<archive, making, keyFile, key, keys, written, restarts>>
Goes(pc) == work' = [work EXCEPT !.pc = pc]
Fails    == work' = [work EXCEPT !.pc = "report"]

RestoreStart ==
  /\ Idle(work) /\ archive # NoArchive
  /\ work' = [NotWorking EXCEPT !.pc = "open", !.since = written]
  /\ WorkUnchanged /\ UNCHANGED <<data, spare, uncertain>>

Decrypt ==
  /\ work.pc = "open"
  /\ \/ archive.key = key /\ Goes("extract")
     \/ Fails
  /\ WorkUnchanged /\ UNCHANGED <<data, spare, uncertain>>

Extract ==
  /\ work.pc = "extract"
  /\ Goes("spare") \/ Fails
  /\ WorkUnchanged /\ UNCHANGED <<data, spare, uncertain>>

\* The copy of the configurations beside them.  An error on the way is logged.
CopyAside ==
  /\ work.pc = "spare"
  /\ \E missed \in SUBSET Files["cores"] :
       LET copy == [n \in Files["cores"] |-> IF n \in missed THEN NoFile
                                             ELSE data["cores"][n]] IN
       /\ spare' = copy
       /\ uncertain' = (uncertain \/ copy # data["cores"]
                         \/ \E n \in Files["cores"] : spare[n] # NoFile /\ copy[n] = NoFile)
  /\ Goes("database")
  /\ WorkUnchanged /\ UNCHANGED data

RestoreDatabase ==
  /\ work.pc = "database"
  /\ \/ Goes("stage") /\ UNCHANGED spare
     \/ Fails /\ spare' = None("cores")
  /\ WorkUnchanged /\ UNCHANGED <<data, uncertain>>

Onward == work' = [work EXCEPT !.pc = "copy", !.at = 1]

\* The staged directory is there only if the archive holds a configuration.  An
\* error while staging is logged, and the copy stays beside.
Stage ==
  /\ work.pc = "stage"
  /\ \/ Has(archive.files["cores"]) /\ Goes("swap") /\ UNCHANGED spare
     \/ ~Has(archive.files["cores"]) /\ Onward /\ spare' = None("cores")
     \/ Has(archive.files["cores"]) /\ Onward /\ UNCHANGED spare
  /\ WorkUnchanged /\ UNCHANGED <<data, uncertain>>

\* os.Rename refuses a directory that is there, also an empty one.
Swap ==
  /\ work.pc = "swap"
  /\ \/ Goes("drop") /\ UNCHANGED <<data, spare>>
     \/ /\ ~Has(data["cores"])
        /\ data' = [data EXCEPT !["cores"] = archive.files["cores"]]
        /\ spare' = None("cores")
        /\ work' = [work EXCEPT !.pc = "copy", !.at = 1, !.swapped = TRUE]
  /\ WorkUnchanged /\ UNCHANGED uncertain

\* Refused, it "rolls back": the directory is removed ...
Drop ==
  /\ work.pc = "drop"
  /\ data' = [data EXCEPT !["cores"] = None("cores")]
  /\ Goes("back")
  /\ WorkUnchanged /\ UNCHANGED <<spare, uncertain>>

\* ... and the copy takes its place, unless something is there again.
Back ==
  /\ work.pc = "back"
  /\ IF Has(spare) /\ ~Has(data["cores"])
     THEN data' = [data EXCEPT !["cores"] = spare] /\ spare' = None("cores")
     ELSE UNCHANGED <<data, spare>>
  /\ Onward
  /\ WorkUnchanged /\ UNCHANGED uncertain

\* Mutant: an error is logged only.
RestorePartAnyway ==
  LET p == Copied[work.at] IN
  /\ work.pc = "copy" /\ work.at \in DOMAIN Copied
  /\ data' \in {data, [data EXCEPT ![p] = Over(archive.files[p], data[p])]}
  /\ work' = [work EXCEPT !.at = @ + 1]
  /\ WorkUnchanged /\ UNCHANGED <<spare, uncertain>>

\* restoreCertificates, restoreWARPKeys, restoreGeoDatabases.  The first error
\* ends the restore.
RestorePart ==
  LET p == Copied[work.at]
      put == Over(archive.files[p], data[p]) IN
  /\ work.pc = "copy" /\ work.at \in DOMAIN Copied
  /\ \/ data' = [data EXCEPT ![p] = put] /\ work' = [work EXCEPT !.at = @ + 1]
     \/ data' \in {data, [data EXCEPT ![p] = put]} /\ Fails
  /\ WorkUnchanged /\ UNCHANGED <<spare, uncertain>>

RestoreDone ==
  /\ work.pc = "copy" /\ work.at = Len(Copied) + 1
  /\ work' = [work EXCEPT !.pc = "report", !.ok = TRUE]
  /\ WorkUnchanged /\ UNCHANGED <<data, spare, uncertain>>

\* The row is saved as completed or failed.
Report ==
  /\ work.pc = "report"
  /\ work' = NotWorking
  /\ WorkUnchanged /\ UNCHANGED <<data, spare, uncertain>>

\* performRestore.
PerformRestore ==
  \/ Decrypt \/ Extract \/ CopyAside \/ RestoreDatabase \/ Stage \/ Swap \/ Drop \/ Back
  \/ RestorePart \/ RestoreDone

\* loadOrGenerateEncryptionKey at a start.
Restart ==
  LET k == IF keyFile # 0 THEN keyFile ELSE keys + 1 IN
  /\ restarts < MaxRestarts
  /\ restarts' = restarts + 1
  /\ keyFile' = k /\ key' = k /\ keys' = IF keyFile # 0 THEN keys ELSE k
  /\ making' = NotMaking /\ work' = NotWorking
  /\ UNCHANGED <<data, spare, archive, written, uncertain>>

Next ==
  \/ \E p \in Parts : \E n \in Files[p] : Write(p, n)
  \/ LoseKey
  \/ \E parts \in SUBSET Parts : BackupRequest(parts \cup {"cores"})
  \/ CopyPart \/ Seal \/ BackupFails
  \/ RestoreStart \/ PerformRestore \/ Report
  \/ Restart

Spec == Init /\ [][Next]_vars

(***************************************************************************)
(* Properties                                                              *)
(***************************************************************************)
\* A restore that reports success has put back every certificate, key and
\* database of the archive, unless it was written anew meanwhile.
CopiedBack ==
  work.pc = "report" /\ work.ok =>
    \A i \in DOMAIN Copied : LET p == Copied[i] IN
      \A n \in Files[p] : \/ archive.files[p][n] \in {NoFile, data[p][n]}
                          \/ data[p][n] # NoFile /\ data[p][n] > work.since

\* Wherever a restore fails or is cut off, a configuration that was archived is
\* in its place, or in the copy beside it.
CoresRemain ==
  archive # NoArchive /\ ~uncertain =>
    \A n \in Files["cores"] :
      archive.files["cores"][n] # NoFile => data["cores"][n] # NoFile \/ spare[n] # NoFile

\* The archive opens with the key of the panel, unless the key file was lost.
KeyOpens == archive # NoArchive /\ keys = 1 => archive.key = key

RestoreStands == CopiedBack /\ CoresRemain /\ KeyOpens

(***************************************************************************)
(* A statement of the documentation that the code does not keep            *)
(***************************************************************************)
\* "Restore database and configurations from a backup file" (api/backup.go:145):
\* the swap never takes place while there are configurations, yet the restore
\* reports success.
ConfigurationsRestored ==
  work.pc = "report" /\ work.ok /\ Has(archive.files["cores"]) => work.swapped
=============================================================================
