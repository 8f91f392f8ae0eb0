----------------------------- MODULE BackupRestore -----------------------------
(***************************************************************************)
(* The command line's backup and restore: a database dump and the image    *)
(* files packed beside a live installation, the exclusive publication of   *)
(* the archive with its signature, and the restore of an archive into a    *)
(* target whose database and image tree cannot change together.            *)
(*                                                                         *)
(* All backups write to one path and all restores read it.  Each command   *)
(* is a process that may be killed between any two of its steps.           *)
(*                                                                         *)
(* Data abstracted away.  An archive is the backup that made it (its HMAC  *)
(* verifies under that backup's signature and no other), a database is the *)
(* archive it was restored from, an image file is its path.  What the live *)
(* application does to an image is one step per store: the object before   *)
(* the row on upload, the object before the row on deletion.               *)
(***************************************************************************)
EXTENDS FiniteSets

CONSTANTS
  Images,   \* image paths of the live installation and in the archives
  Backups,  \* runs of picture-stage backup
  Restores, \* runs of picture-stage restore
  Legacy,   \* the operator's old unsigned archive, with a db.sql
  NoFile,   \* no file at a path
  Original, \* what the target holds before any restore
  Failing   \* the steps that may meet an I/O or SQL error

ASSUME BackupAssumption ==
  /\ Legacy \notin Backups /\ NoFile \notin Backups \cup Restores \cup {Legacy}
  /\ Original \notin Restores \cup {NoFile}
  /\ Failing \subseteq {"dump", "pack", "read", "stage", "database", "publish"}

VARIABLES
  backend,  \* the live installation's storage backend
  live,     \* the live installation's object and row of an image
  backup,   \* the backup commands
  archive,  \* what is linked at the output path
  sidecar,  \* the backup whose signature is linked beside it
  restore,  \* the restore commands
  database, \* what the target database holds; NoFile when it is empty
  tree      \* who wrote each file of the target's upload directory

backupVars == <<backend, live, backup, archive, sidecar, restore, database, tree>>

BackupEnds  == {"done", "failed", "killed"}
RestoreEnds == {"done", "refused", "unchanged", "incomplete", "killed"}

HasRow(i)  == live[i] \in {"kept", "erased"}
HasFile(i) == live[i] \in {"stored", "kept"}

\* What is left of a command that has published or loaded nothing.
NoArchive(at) == [at |-> at, rows |-> {}, todo |-> {}, packed |-> {}]
NoSource(at)  == [at |-> at, trust |-> FALSE, signature |-> NoFile, source |-> NoFile, todo |-> {}]

BackupTypeOK ==
  /\ backend \in {"local", "s3"}
  /\ live \in [Images -> {"new", "stored", "kept", "erased", "gone"}]
  /\ backup \in [Backups -> [at : {"idle", "dumped", "packing", "linking"} \cup BackupEnds,
                             rows : SUBSET Images, todo : SUBSET Images, packed : SUBSET Images]]
  /\ archive \in Backups \cup {Legacy, NoFile}
  /\ sidecar \in Backups \cup {NoFile}
  /\ restore \in [Restores -> [at : {"idle", "looked", "opened", "checked", "vacant", "staged", "loaded"}
                                      \cup RestoreEnds,
                               trust : BOOLEAN, signature : Backups \cup {NoFile},
                               source : Backups \cup {Legacy, NoFile}, todo : SUBSET Images]]
  /\ database \in Restores \cup {NoFile}
  /\ tree \in [Images -> Restores \cup {Original}]

BackupInit ==
  /\ backend \in {"local", "s3"}
  /\ live \in [Images -> {"new", "kept"}]
  /\ backup = [b \in Backups |-> NoArchive("idle")]
  /\ archive \in {Legacy, NoFile}
  /\ sidecar = NoFile
  /\ restore = [r \in Restores |-> NoSource("idle")]
  /\ database = NoFile
  /\ tree = [i \in Images |-> Original]

-----------------------------------------------------------------------------
(* The live installation goes on while a backup runs. *)

LiveStep(i, from, to) ==
  /\ live[i] = from
  /\ live' = [live EXCEPT ![i] = to]
  /\ UNCHANGED <<backend, backup, archive, sidecar, restore, database, tree>>

UploadStores(i)  == LiveStep(i, "new", "stored")
UploadCommits(i) == LiveStep(i, "stored", "kept")
DeleteErases(i)  == LiveStep(i, "kept", "erased")
DeleteCommits(i) == LiveStep(i, "erased", "gone")

-----------------------------------------------------------------------------
(* picture-stage backup *)

BackupStep(b, from, record) ==
  /\ backup[b].at = from
  /\ backup' = [backup EXCEPT ![b] = record]
  /\ UNCHANGED <<backend, live, restore, database, tree>>

\* pg_dump takes the committed rows in one snapshot.
DumpDatabase(b) ==
  /\ BackupStep(b, "idle", [backup[b] EXCEPT !.at = "dumped", !.rows = {i \in Images : HasRow(i)}])
  /\ UNCHANGED <<archive, sidecar>>

DumpFails(b) ==
  /\ "dump" \in Failing
  /\ BackupStep(b, "idle", NoArchive("failed"))
  /\ UNCHANGED <<archive, sidecar>>

\* Only then are the image files listed, when they are local.
CollectImages(b) ==
  /\ BackupStep(b, "dumped", [backup[b] EXCEPT !.at = "packing",
                                !.todo = IF backend = "local" THEN {i \in Images : HasFile(i)} ELSE {}])
  /\ UNCHANGED <<archive, sidecar>>

\* A listed file that is gone by now fails the backup.
PackImage(b, i) ==
  /\ i \in backup[b].todo
  /\ BackupStep(b, "packing", IF HasFile(i)
                                THEN [backup[b] EXCEPT !.todo = @ \ {i}, !.packed = @ \cup {i}]
                                ELSE NoArchive("failed"))
  /\ UNCHANGED <<archive, sidecar>>

PackFails(b) ==
  /\ "pack" \in Failing
  /\ BackupStep(b, "packing", NoArchive("failed"))
  /\ UNCHANGED <<archive, sidecar>>

(* Defect: a refused signature is cleaned up as if it had been linked. *)
LinkSidecarOrUnlink(b) ==
  /\ backup[b].todo = {}
  /\ BackupStep(b, "packing", IF sidecar = NoFile THEN [backup[b] EXCEPT !.at = "linking"]
                                                ELSE NoArchive("failed"))
  /\ sidecar' = IF sidecar = NoFile THEN b ELSE NoFile
  /\ UNCHANGED archive

\* The staged archive is signed and its signature linked exclusively.
LinkSidecar(b) ==
  /\ backup[b].todo = {}
  /\ BackupStep(b, "packing", IF sidecar = NoFile THEN [backup[b] EXCEPT !.at = "linking"]
                                                ELSE NoArchive("failed"))
  /\ sidecar' = IF sidecar = NoFile THEN b ELSE sidecar
  /\ UNCHANGED archive

\* The archive itself completes the pair; when its path is taken the
\* signature just linked is unlinked again.
LinkArchive(b) ==
  /\ BackupStep(b, "linking", IF archive = NoFile THEN [backup[b] EXCEPT !.at = "done"]
                                                ELSE NoArchive("failed"))
  /\ archive' = IF archive = NoFile THEN b ELSE archive
  /\ sidecar' = IF archive = NoFile THEN sidecar ELSE NoFile

BackupKilled(b) ==
  /\ backup[b].at \notin BackupEnds \cup {"idle"}
  /\ BackupStep(b, backup[b].at, NoArchive("killed"))
  /\ UNCHANGED <<archive, sidecar>>

-----------------------------------------------------------------------------
(* picture-stage restore --confirm *)

Rows(a)   == IF a = Legacy THEN Images ELSE backup[a].rows
Packed(a) == IF a = Legacy THEN Images ELSE backup[a].packed

RestoreStep(r, from, record) ==
  /\ restore[r].at = from
  /\ restore' = [restore EXCEPT ![r] = record]
  /\ UNCHANGED <<backend, live, backup, archive, sidecar>>

\* The signature is read before the archive is opened; without one only a
\* restore told to trust legacy archives goes on.
ReadSignature(r, trust) ==
  /\ RestoreStep(r, "idle", IF sidecar = NoFile /\ ~ trust
                              THEN NoSource("refused")
                              ELSE [restore[r] EXCEPT !.at = "looked", !.trust = trust, !.signature = sidecar])
  /\ UNCHANGED <<database, tree>>

\* The whole input is copied into a private snapshot and verified.
OpenArchive(r) ==
  /\ RestoreStep(r, "looked",
       IF archive # NoFile /\ restore[r].signature \in {archive, NoFile}
         THEN [restore[r] EXCEPT !.at = "opened", !.source = archive]
         ELSE NoSource("refused"))
  /\ UNCHANGED <<database, tree>>

\* An unauthenticated archive must have the legacy format, and no other may.
ExpectedFormat(r) == (restore[r].signature = NoFile) <=> (restore[r].source = Legacy)

ExtractArchive(r) ==
  /\ RestoreStep(r, "opened", IF ExpectedFormat(r) THEN [restore[r] EXCEPT !.at = "checked"]
                                                   ELSE NoSource("refused"))
  /\ UNCHANGED <<database, tree>>

ExtractFails(r) ==
  /\ "read" \in Failing
  /\ RestoreStep(r, "opened", NoSource("refused"))
  /\ UNCHANGED <<database, tree>>

CheckEmpty(r) ==
  /\ RestoreStep(r, "checked", IF database = NoFile THEN [restore[r] EXCEPT !.at = "vacant"]
                                                    ELSE NoSource("refused"))
  /\ UNCHANGED <<database, tree>>

StageImages(r) ==
  /\ RestoreStep(r, "vacant", [restore[r] EXCEPT !.at = "staged", !.todo = Packed(restore[r].source)])
  /\ UNCHANGED <<database, tree>>

StageFails(r) ==
  /\ "stage" \in Failing
  /\ RestoreStep(r, "vacant", NoSource("refused"))
  /\ UNCHANGED <<database, tree>>

\* pg_restore in a single transaction; it cannot create over an existing schema.
LoadDatabase(r) ==
  /\ RestoreStep(r, "staged", IF database = NoFile THEN [restore[r] EXCEPT !.at = "loaded"]
                                                   ELSE NoSource("unchanged"))
  /\ database' = IF database = NoFile THEN r ELSE database
  /\ UNCHANGED tree

\* The answer to COMMIT may be lost as well: then the load stays.
LoadFails(r) ==
  /\ "database" \in Failing
  /\ RestoreStep(r, "staged", NoSource("unchanged"))
  /\ UNCHANGED database \/ (database = NoFile /\ database' = r)
  /\ UNCHANGED tree

\* Each staged file replaces its destination atomically.
PublishImage(r, i) ==
  /\ i \in restore[r].todo
  /\ RestoreStep(r, "loaded", [restore[r] EXCEPT !.todo = @ \ {i}])
  /\ tree' = [tree EXCEPT ![i] = r]
  /\ UNCHANGED database

PublishFails(r) ==
  /\ "publish" \in Failing
  /\ restore[r].todo # {}
  /\ RestoreStep(r, "loaded", [restore[r] EXCEPT !.at = "incomplete"])
  /\ UNCHANGED <<database, tree>>

(* Defect: success is reported before the last image is published. *)
RestoreDoneEarly(r) ==
  /\ RestoreStep(r, "loaded", [restore[r] EXCEPT !.at = "done"])
  /\ UNCHANGED <<database, tree>>

RestoreDone(r) ==
  /\ restore[r].todo = {}
  /\ RestoreStep(r, "loaded", [restore[r] EXCEPT !.at = "done"])
  /\ UNCHANGED <<database, tree>>

RestoreKilled(r) ==
  /\ restore[r].at \notin RestoreEnds \cup {"idle"}
  /\ RestoreStep(r, restore[r].at, NoSource("killed"))
  /\ UNCHANGED <<database, tree>>

-----------------------------------------------------------------------------
LiveNext == \E i \in Images :
  UploadStores(i) \/ UploadCommits(i) \/ DeleteErases(i) \/ DeleteCommits(i)

BackupCommand(b) ==
  \/ DumpDatabase(b) \/ DumpFails(b) \/ CollectImages(b)
  \/ \E i \in Images : PackImage(b, i)
  \/ PackFails(b) \/ LinkSidecar(b) \/ LinkArchive(b) \/ BackupKilled(b)

RestoreCommand(r) ==
  \/ \E trust \in BOOLEAN : ReadSignature(r, trust)
  \/ OpenArchive(r) \/ ExtractArchive(r) \/ ExtractFails(r) \/ CheckEmpty(r)
  \/ StageImages(r) \/ StageFails(r) \/ LoadDatabase(r) \/ LoadFails(r)
  \/ \E i \in Images : PublishImage(r, i)
  \/ PublishFails(r) \/ RestoreDone(r) \/ RestoreKilled(r)

BackupNext ==
  \/ LiveNext
  \/ \E b \in Backups : BackupCommand(b)
  \/ \E r \in Restores : RestoreCommand(r)

BackupSpec == BackupInit /\ [][BackupNext]_backupVars

-----------------------------------------------------------------------------
(* "The archive is the completion marker": whenever a backup's archive is  *)
(* at the output path its own signature is beside it, whichever backups    *)
(* were killed or refused on the way (backup_auth.publish_backup).         *)
PublishedPairVerifies == archive \in Backups => sidecar = archive

(* A row in the dump whose file is not packed belongs to an image that the *)
(* live installation was deleting: an upload that commits during the       *)
(* backup never leaves a dangling row (cmd_backup dumps, then lists).      *)
DumpedRowsPacked ==
  archive \in Backups /\ backend = "local" =>
    \A i \in backup[archive].rows \ backup[archive].packed : live[i] \in {"erased", "gone"}

(* What can be restored from the output path is authentic and whole: a     *)
(* published archive verifies, and covers every row that stays live.       *)
PublishedIsRestorable == PublishedPairVerifies /\ DumpedRowsPacked

(* A complete pair is never replaced nor taken apart by another backup     *)
(* ("existing archive or sidecar paths are never overwritten").            *)
PairKept == [][(archive \in Backups) => UNCHANGED <<archive, sidecar>>]_backupVars

(* What was not authenticated reaches the target only as a trusted legacy  *)
(* archive, also when a backup is published between reading the signature  *)
(* and opening the archive (authenticated_snapshot, cmd_restore).          *)
UnsignedIsTrustedLegacy ==
  \A r \in Restores : restore[r].at \in {"checked", "vacant", "staged", "loaded", "done", "incomplete"} =>
    \/ restore[r].signature = restore[r].source
    \/ restore[r].trust /\ restore[r].source = Legacy

(* The exit messages of cmd_restore are true: only the restore whose dump  *)
(* the database holds has written image files, and one that reports Done   *)
(* has published every image of its archive.  After a refusal the database *)
(* is untouched; a failed load claims that of the images only.             *)
ReportsTrue ==
  /\ \A i \in Images : tree[i] # Original => tree[i] = database
  /\ \A r \in Restores :
       /\ restore[r].at = "refused" => database # r
       /\ restore[r].at = "unchanged" => \A i \in Images : tree[i] # r
       /\ restore[r].at = "done" => database = r /\ \A i \in Packed(restore[r].source) : tree[i] = r
       /\ restore[r].at = "incomplete" => database = r
=============================================================================
