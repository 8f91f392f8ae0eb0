-------------------------- MODULE BackupRestore_proofs --------------------------
(* A published archive verifies and is whole, an unsigned one is restored    *)
(* only when it is the trusted legacy one, and the messages of a restore are *)
(* true, for any number of backups and restores and wherever they are killed. *)
EXTENDS BackupRestore, TLAPS

Commands == [at : {"idle", "dumped", "packing", "linking"} \cup BackupEnds,
             rows : SUBSET Images, todo : SUBSET Images, packed : SUBSET Images]
Readers  == [at : {"idle", "looked", "opened", "checked", "vacant", "staged", "loaded"} \cup RestoreEnds,
             trust : BOOLEAN, signature : Backups \cup {NoFile},
             source : Backups \cup {Legacy, NoFile}, todo : SUBSET Images]

Open    == {"opened", "checked", "vacant", "staged", "loaded", "done", "incomplete"}
Trusted == {"checked", "vacant", "staged", "loaded", "done", "incomplete"}
Loaded  == {"loaded", "done", "incomplete"}

\* The signature beside the output path is the one of whoever links the
\* archive, and of the archive that is linked.
PairHeld ==
  /\ \A b \in Backups : backup[b].at = "linking" => sidecar = b
  /\ archive \in Backups => sidecar = archive /\ backup[archive].at = "done"

\* A row that was dumped had been committed; unless its file is packed or
\* listed, the live installation had erased it.
RowsCovered == \A b \in Backups :
  /\ backup[b].at \in {"dumped", "packing", "linking", "done"} =>
       \A i \in backup[b].rows : live[i] \in {"kept", "erased", "gone"}
  /\ backup[b].at \in {"packing", "linking", "done"} /\ backend = "local" =>
       \A i \in backup[b].rows : i \in backup[b].packed \cup backup[b].todo \/ live[i] \in {"erased", "gone"}
  /\ backup[b].at \in {"linking", "done"} => backup[b].todo = {}

\* What a restore reads is finished, and authentic or the trusted legacy one.
SourceKnown == \A r \in Restores :
  /\ restore[r].at = "looked" => restore[r].signature # NoFile \/ restore[r].trust
  /\ restore[r].at \in Open =>
       /\ restore[r].source = Legacy \/ (restore[r].source \in Backups /\ backup[restore[r].source].at = "done")
       /\ restore[r].signature = restore[r].source \/ (restore[r].signature = NoFile /\ restore[r].trust)
  /\ restore[r].at \in Trusted => restore[r].signature = restore[r].source \/ restore[r].source = Legacy

\* The database tells who has loaded it and who writes the files.
TargetHeld ==
  /\ \A r \in Restores : restore[r].at \in Loaded => database = r
  /\ database # NoFile => restore[database].at \in Loaded \cup {"killed", "unchanged"}
  /\ \A r \in Restores : restore[r].at = "unchanged" => \A i \in Images : tree[i] # r
  /\ \A i \in Images : tree[i] # Original => tree[i] = database
  /\ \A r \in Restores : restore[r].at = "staged" => restore[r].todo = Packed(restore[r].source)
  /\ \A r \in Restores : restore[r].at \in {"loaded", "done"} =>
       \A i \in Packed(restore[r].source) : i \in restore[r].todo \/ tree[i] = r
  /\ \A r \in Restores : restore[r].at = "done" => restore[r].todo = {}

BackupInv == BackupTypeOK /\ PairHeld /\ RowsCovered /\ SourceKnown /\ TargetHeld

-----------------------------------------------------------------------------
LEMMA BackupMoves ==
  ASSUME BackupTypeOK, NEW b \in Backups, NEW from, NEW record \in Commands, BackupStep(b, from, record)
  PROVE  /\ backup[b].at = from /\ backup' \in [Backups -> Commands]
         /\ \A c \in Backups : backup'[c] = IF c = b THEN record ELSE backup[c]
         /\ UNCHANGED <<backend, live, restore, database, tree>>
BY DEF BackupStep, BackupTypeOK, Commands

LEMMA RestoreMoves ==
  ASSUME BackupTypeOK, NEW r \in Restores, NEW from, NEW record \in Readers, RestoreStep(r, from, record)
  PROVE  /\ restore[r].at = from /\ restore' \in [Restores -> Readers]
         /\ \A q \in Restores : restore'[q] = IF q = r THEN record ELSE restore[q]
         /\ UNCHANGED <<backend, live, backup, archive, sidecar>>
BY DEF RestoreStep, BackupTypeOK, Readers

LEMMA EmptyRecords ==
  /\ \A at \in BackupEnds \cup {"idle"} : NoArchive(at) \in Commands /\ NoArchive(at).at = at
  /\ \A at \in RestoreEnds \cup {"idle"} : NoSource(at) \in Readers /\ NoSource(at).at = at
BY DEF NoArchive, NoSource, Commands, Readers

LEMMA BackupInitInv == BackupInit => BackupInv
<1> SUFFICES ASSUME BackupInit PROVE BackupInv
  OBVIOUS
<1>1. \A b \in Backups : backup[b] \in Commands /\ backup[b].at = "idle"
  BY EmptyRecords DEF BackupInit
<1>2. \A r \in Restores : restore[r] \in Readers /\ restore[r].at = "idle"
  BY EmptyRecords DEF BackupInit
<1>3. BackupTypeOK
  BY <1>1, <1>2 DEF BackupInit, BackupTypeOK, Commands, Readers
<1>4. PairHeld
  BY <1>1, BackupAssumption DEF BackupInit, PairHeld
<1>5. RowsCovered /\ SourceKnown
  BY <1>1, <1>2 DEF RowsCovered, SourceKnown, Open, Trusted
<1>6. TargetHeld
  BY <1>2 DEF BackupInit, TargetHeld, Loaded
<1> QED BY <1>3, <1>4, <1>5, <1>6 DEF BackupInv

LEMMA LiveInv == ASSUME BackupInv, LiveNext PROVE BackupInv'
<1>1. PICK i \in Images, from \in {"new", "stored", "kept", "erased"}, to \in {"stored", "kept", "erased", "gone"} :
        /\ LiveStep(i, from, to)
        /\ from = "kept" => to = "erased"
        /\ from = "erased" => to = "gone"
  BY DEF LiveNext, UploadStores, UploadCommits, DeleteErases, DeleteCommits
<1>2. /\ UNCHANGED <<backend, backup, archive, sidecar, restore, database, tree>>
      /\ live' \in [Images -> {"new", "stored", "kept", "erased", "gone"}]
      /\ \A j \in Images : live'[j] = IF j = i THEN to ELSE live[j]
      /\ live[i] = from
  BY <1>1 DEF LiveStep, BackupInv, BackupTypeOK
<1>3. BackupTypeOK'
  BY <1>2 DEF BackupInv, BackupTypeOK
<1>4. \A j \in Images : /\ live[j] \in {"kept", "erased", "gone"} => live'[j] \in {"kept", "erased", "gone"}
                        /\ live[j] \in {"erased", "gone"} => live'[j] \in {"erased", "gone"}
  BY <1>1, <1>2
<1>5. \A b \in Backups : backup[b].rows \subseteq Images
  BY DEF BackupInv, BackupTypeOK
<1>6. RowsCovered'
  BY <1>2, <1>4, <1>5 DEF BackupInv, RowsCovered
<1>7. PairHeld' /\ SourceKnown' /\ TargetHeld'
  BY <1>2 DEF BackupInv, PairHeld, SourceKnown, TargetHeld, Packed
<1> QED BY <1>3, <1>6, <1>7 DEF BackupInv

-----------------------------------------------------------------------------
\* A backup that is not done yet moves on: restores see none of it.
LEMMA BackupStepInv ==
  ASSUME BackupInv, NEW b \in Backups, NEW from \in {"idle", "dumped", "packing", "linking"},
         NEW record \in Commands, BackupStep(b, from, record),
         archive' \in Backups \cup {Legacy, NoFile}, sidecar' \in Backups \cup {NoFile},
         PairHeld',
         record.at \in {"dumped", "packing", "linking", "done"} =>
           \A i \in record.rows : live[i] \in {"kept", "erased", "gone"},
         record.at \in {"packing", "linking", "done"} /\ backend = "local" =>
           \A i \in record.rows : i \in record.packed \cup record.todo \/ live[i] \in {"erased", "gone"},
         record.at \in {"linking", "done"} => record.todo = {}
  PROVE  BackupInv'
<1>0. BackupTypeOK
  BY DEF BackupInv
<1>1. /\ backup[b].at = from /\ backup' \in [Backups -> Commands]
      /\ \A c \in Backups : backup'[c] = IF c = b THEN record ELSE backup[c]
      /\ UNCHANGED <<backend, live, restore, database, tree>>
  BY <1>0, BackupMoves
<1>2. BackupTypeOK'
  BY <1>1 DEF BackupInv, BackupTypeOK, Commands
<1>3. RowsCovered'
  BY <1>1 DEF BackupInv, RowsCovered
<1>4. \A c \in Backups : backup[c].at = "done" => backup'[c] = backup[c]
  BY <1>1
<1>5. SourceKnown'
  BY <1>1, <1>4 DEF BackupInv, SourceKnown
<1>6. \A r \in Restores : restore[r].at \in Open => Packed(restore[r].source)' = Packed(restore[r].source)
  BY <1>1, <1>4 DEF BackupInv, SourceKnown, Packed
<1>7. TargetHeld'
  BY <1>1, <1>6 DEF BackupInv, TargetHeld, Loaded, Open
<1> QED BY <1>2, <1>3, <1>5, <1>7 DEF BackupInv

LEMMA PairStays ==
  ASSUME BackupInv, NEW b \in Backups, NEW from, NEW record \in Commands, BackupStep(b, from, record),
         UNCHANGED <<archive, sidecar>>, record.at # "linking", from # "done"
  PROVE  PairHeld'
<1>1. /\ backup[b].at = from
      /\ \A c \in Backups : backup'[c] = IF c = b THEN record ELSE backup[c]
  BY BackupMoves DEF BackupInv
<1> QED BY <1>1 DEF BackupInv, PairHeld

LEMMA BackupCommandInv == ASSUME BackupInv, NEW b \in Backups, BackupCommand(b) PROVE BackupInv'
<1>0. /\ BackupTypeOK /\ PairHeld /\ RowsCovered
      /\ backup[b] \in Commands
      /\ archive \in Backups \cup {Legacy, NoFile} /\ sidecar \in Backups \cup {NoFile}
  BY DEF BackupInv, BackupTypeOK, Commands
<1>1. CASE DumpDatabase(b)
  <2> DEFINE record == [backup[b] EXCEPT !.at = "dumped", !.rows = {i \in Images : HasRow(i)}]
  <2>1. record \in Commands /\ record.at = "dumped" /\ \A i \in record.rows : live[i] \in {"kept", "erased", "gone"}
    BY <1>0 DEF Commands, HasRow
  <2>2. BackupStep(b, "idle", record) /\ UNCHANGED <<archive, sidecar>>
    BY <1>1 DEF DumpDatabase
  <2> HIDE DEF record
  <2>3. PairHeld'
    BY <2>1, <2>2, PairStays
  <2> QED BY <1>0, <2>1, <2>2, <2>3, BackupStepInv
<1>2. ASSUME NEW from \in {"idle", "dumped", "packing", "linking"}, NEW at \in {"failed", "killed"},
             BackupStep(b, from, NoArchive(at)), UNCHANGED <<archive, sidecar>>
      PROVE  BackupInv'
  <2>1. NoArchive(at) \in Commands /\ NoArchive(at).at = at
    BY EmptyRecords DEF BackupEnds
  <2>2. PairHeld'
    BY <1>2, <2>1, PairStays
  <2> QED BY <1>0, <1>2, <2>1, <2>2, BackupStepInv
<1>3. CASE CollectImages(b)
  <2> DEFINE listed == IF backend = "local" THEN {i \in Images : HasFile(i)} ELSE {}
             record == [backup[b] EXCEPT !.at = "packing", !.todo = listed]
  <2>1. record \in Commands /\ record.at = "packing" /\ record.rows = backup[b].rows /\ record.packed = backup[b].packed
        /\ record.todo = listed
    BY <1>0 DEF Commands
  <2>2. BackupStep(b, "dumped", record) /\ UNCHANGED <<archive, sidecar>> /\ backup[b].at = "dumped"
    BY <1>3 DEF CollectImages, BackupStep
  <2>3. \A i \in backup[b].rows : i \in Images /\ live[i] \in {"kept", "erased", "gone"}
    BY <1>0, <2>2 DEF RowsCovered, Commands
  <2>4. backend = "local" => \A i \in backup[b].rows : i \in listed \/ live[i] \in {"erased", "gone"}
    BY <2>3 DEF HasFile
  <2> HIDE DEF record, listed
  <2>5. PairHeld'
    BY <2>1, <2>2, PairStays
  <2> QED BY <1>0, <2>1, <2>2, <2>3, <2>4, <2>5, BackupStepInv
<1>4. ASSUME NEW i \in Images, PackImage(b, i), HasFile(i) PROVE BackupInv'
  <2> DEFINE record == [backup[b] EXCEPT !.todo = @ \ {i}, !.packed = @ \cup {i}]
  <2>1. BackupStep(b, "packing", record) /\ UNCHANGED <<archive, sidecar>> /\ backup[b].at = "packing"
    BY <1>4 DEF PackImage, BackupStep
  <2>2. record \in Commands /\ record.at = "packing" /\ record.rows = backup[b].rows
        /\ record.packed = backup[b].packed \cup {i} /\ record.todo = backup[b].todo \ {i}
    BY <1>0, <2>1 DEF Commands
  <2> HIDE DEF record
  <2>3. PairHeld'
    BY <2>1, <2>2, PairStays
  <2>4. /\ \A j \in record.rows : live[j] \in {"kept", "erased", "gone"}
        /\ backend = "local" =>
             \A j \in record.rows : j \in record.packed \cup record.todo \/ live[j] \in {"erased", "gone"}
    BY <1>0, <2>1, <2>2 DEF RowsCovered
  <2> QED BY <1>0, <2>1, <2>2, <2>3, <2>4, BackupStepInv
<1>5. CASE LinkSidecar(b) /\ sidecar = NoFile
  <2> DEFINE record == [backup[b] EXCEPT !.at = "linking"]
  <2>1. BackupStep(b, "packing", record) /\ sidecar' = b /\ UNCHANGED archive /\ backup[b].at = "packing" /\ backup[b].todo = {}
    BY <1>5 DEF LinkSidecar, BackupStep
  <2>2. record \in Commands /\ record.at = "linking" /\ record.rows = backup[b].rows
        /\ record.packed = backup[b].packed /\ record.todo = backup[b].todo
    BY <1>0 DEF Commands
  <2> HIDE DEF record
  <2>3. \A c \in Backups : backup'[c] = IF c = b THEN record ELSE backup[c]
    BY <1>0, <2>1, <2>2, BackupMoves
  <2>4. archive \notin Backups /\ \A c \in Backups : backup[c].at # "linking"
    BY <1>0, <1>5, BackupAssumption DEF PairHeld
  <2>5. PairHeld'
    BY <2>1, <2>2, <2>3, <2>4 DEF PairHeld
  <2>6. /\ \A j \in record.rows : live[j] \in {"kept", "erased", "gone"}
        /\ backend = "local" =>
             \A j \in record.rows : j \in record.packed \cup record.todo \/ live[j] \in {"erased", "gone"}
    BY <1>0, <2>1, <2>2 DEF RowsCovered
  <2> QED BY <1>0, <2>1, <2>2, <2>5, <2>6, BackupStepInv
<1>6. CASE LinkArchive(b) /\ archive = NoFile
  <2> DEFINE record == [backup[b] EXCEPT !.at = "done"]
  <2>1. BackupStep(b, "linking", record) /\ archive' = b /\ UNCHANGED sidecar /\ backup[b].at = "linking"
    BY <1>6 DEF LinkArchive, BackupStep
  <2>2. record \in Commands /\ record.at = "done" /\ record.rows = backup[b].rows
        /\ record.packed = backup[b].packed /\ record.todo = backup[b].todo
    BY <1>0 DEF Commands, BackupEnds
  <2> HIDE DEF record
  <2>3. \A c \in Backups : backup'[c] = IF c = b THEN record ELSE backup[c]
    BY <1>0, <2>1, <2>2, BackupMoves
  <2>4. PairHeld'
    BY <1>0, <2>1, <2>2, <2>3 DEF PairHeld
  <2>5. /\ \A j \in record.rows : live[j] \in {"kept", "erased", "gone"}
        /\ backend = "local" =>
             \A j \in record.rows : j \in record.packed \cup record.todo \/ live[j] \in {"erased", "gone"}
        /\ record.todo = {}
    BY <1>0, <2>1, <2>2 DEF RowsCovered
  <2> QED BY <1>0, <2>1, <2>2, <2>4, <2>5, BackupStepInv
<1>7. CASE LinkArchive(b) /\ archive # NoFile
  <2>1. BackupStep(b, "linking", NoArchive("failed")) /\ sidecar' = NoFile /\ UNCHANGED archive /\ backup[b].at = "linking"
    BY <1>7 DEF LinkArchive, BackupStep
  <2>2. NoArchive("failed") \in Commands /\ NoArchive("failed").at = "failed"
    BY EmptyRecords DEF BackupEnds
  <2>3. \A c \in Backups : backup'[c] = IF c = b THEN NoArchive("failed") ELSE backup[c]
    BY <1>0, <2>1, <2>2, BackupMoves
  <2>4. archive \notin Backups /\ \A c \in Backups : backup[c].at = "linking" => c = b
    BY <1>0, <2>1 DEF PairHeld
  <2>5. PairHeld'
    BY <2>1, <2>2, <2>3, <2>4 DEF PairHeld
  <2> QED BY <1>0, <2>1, <2>2, <2>5, BackupStepInv
<1>8. CASE BackupKilled(b)
  <2>1. backup[b].at \in {"dumped", "packing", "linking"}
    BY <1>0, <1>8 DEF BackupKilled, Commands
  <2> QED BY <1>2, <1>8, <2>1 DEF BackupKilled
<1> QED BY <1>1, <1>2, <1>3, <1>4, <1>5, <1>6, <1>7, <1>8
        DEF BackupCommand, DumpFails, PackImage, PackFails, LinkSidecar

-----------------------------------------------------------------------------
\* What SourceKnown and TargetHeld ask of the record of a restore.
RecordKnown(record) ==
  /\ record.at = "looked" => record.signature # NoFile \/ record.trust
  /\ record.at \in Open =>
       /\ record.source = Legacy \/ (record.source \in Backups /\ backup[record.source].at = "done")
       /\ record.signature = record.source \/ (record.signature = NoFile /\ record.trust)
  /\ record.at \in Trusted => record.signature = record.source \/ record.source = Legacy

LEMMA KnownRecord == ASSUME SourceKnown, NEW r \in Restores PROVE RecordKnown(restore[r])
BY DEF SourceKnown, RecordKnown

LEMMA SourcesStayKnown ==
  ASSUME BackupInv, NEW r \in Restores, NEW from, NEW record \in Readers, RestoreStep(r, from, record),
         RecordKnown(record)
  PROVE  SourceKnown'
<1>1. /\ \A q \in Restores : restore'[q] = IF q = r THEN record ELSE restore[q]
      /\ UNCHANGED backup
  BY RestoreMoves DEF BackupInv
<1> QED BY <1>1 DEF BackupInv, SourceKnown, RecordKnown

\* A restore that has loaded nothing has written no file.
LEMMA NothingLoaded ==
  ASSUME BackupInv, NEW r \in Restores,
         restore[r].at \in {"idle", "looked", "opened", "checked", "vacant", "staged"}
  PROVE  \A i \in Images : tree[i] # r
<1>1. database # r
  BY BackupAssumption DEF BackupInv, TargetHeld, Loaded
<1>2. r # Original
  BY BackupAssumption
<1> QED BY <1>1, <1>2 DEF BackupInv, TargetHeld

\* A step of a restore that leaves the target alone.
LEMMA ReadingInv ==
  ASSUME BackupInv, NEW r \in Restores,
         NEW from \in {"idle", "looked", "opened", "checked", "vacant", "staged", "loaded"},
         NEW record \in Readers, RestoreStep(r, from, record), UNCHANGED <<database, tree>>,
         RecordKnown(record),
         record.at \in Loaded => from = "loaded",
         from = "loaded" => record.at \in Loaded \cup {"killed"},
         record.at = "staged" => record.todo = Packed(record.source),
         record.at \in Loaded => record.todo = restore[r].todo /\ record.source = restore[r].source,
         record.at = "done" => record.todo = {}
  PROVE  BackupInv'
<1>1. /\ restore[r].at = from /\ restore' \in [Restores -> Readers]
      /\ \A q \in Restores : restore'[q] = IF q = r THEN record ELSE restore[q]
      /\ UNCHANGED <<backend, live, backup, archive, sidecar>>
  BY RestoreMoves DEF BackupInv
<1>2. BackupTypeOK'
  BY <1>1 DEF BackupInv, BackupTypeOK, Readers
<1>3. PairHeld' /\ RowsCovered'
  BY <1>1 DEF BackupInv, PairHeld, RowsCovered
<1>4. SourceKnown'
  BY SourcesStayKnown
<1>5. \A a : Packed(a)' = Packed(a)
  BY <1>1 DEF Packed
<1>6. TargetHeld'
  <2>1. \A q \in Restores : restore'[q].at \in Loaded => database' = q
    BY <1>1 DEF BackupInv, TargetHeld, Loaded
  <2>2. database' # NoFile => restore'[database].at \in Loaded \cup {"killed", "unchanged"}
    <3>1. database # NoFile => database \in Restores /\ restore[database].at \in Loaded \cup {"killed", "unchanged"}
      BY DEF BackupInv, BackupTypeOK, TargetHeld
    <3>2. database = r => from = "loaded" \/ database = NoFile
      BY <1>1, <3>1 DEF Loaded
    <3> QED BY <1>1, <3>1, <3>2
  <2>3. \A i \in Images : tree'[i] # Original => tree'[i] = database'
    BY DEF BackupInv, TargetHeld
  <2>4. \A q \in Restores : restore'[q].at = "staged" => restore'[q].todo = Packed(restore[q].source)'
    BY <1>1 DEF BackupInv, TargetHeld, Packed
  <2>5. \A q \in Restores : restore'[q].at \in {"loaded", "done"} =>
          \A i \in Packed(restore[q].source)' : i \in restore'[q].todo \/ tree'[i] = q
    BY <1>1 DEF BackupInv, TargetHeld, Loaded, Packed
  <2>6. \A q \in Restores : restore'[q].at = "done" => restore'[q].todo = {}
    BY <1>1 DEF BackupInv, TargetHeld
  <2>7. \A q \in Restores : restore'[q].at = "unchanged" => \A i \in Images : tree'[i] # q
    <3>1. from # "loaded" => \A i \in Images : tree[i] # r
      BY <1>1, NothingLoaded
    <3>2. record.at = "unchanged" => from # "loaded"
      BY DEF Loaded
    <3> QED BY <1>1, <3>1, <3>2 DEF BackupInv, TargetHeld
  <2> QED BY <1>1, <2>1, <2>2, <2>3, <2>4, <2>5, <2>6, <2>7 DEF TargetHeld, Packed
<1> QED BY <1>2, <1>3, <1>4, <1>6 DEF BackupInv

\* A restore that ends without having loaded anything.
LEMMA GivenUpInv ==
  ASSUME BackupInv, NEW r \in Restores,
         NEW from \in {"idle", "looked", "opened", "checked", "vacant", "staged", "loaded"},
         NEW at \in {"refused", "unchanged", "killed"}, RestoreStep(r, from, NoSource(at)),
         UNCHANGED <<database, tree>>, from = "loaded" => at = "killed"
  PROVE  BackupInv'
<1>1. NoSource(at) \in Readers /\ NoSource(at).at = at
  BY EmptyRecords DEF RestoreEnds
<1>2. RecordKnown(NoSource(at))
  BY <1>1 DEF RecordKnown, Open, Trusted
<1> QED BY <1>1, <1>2, ReadingInv DEF Loaded

\* The database commits the load and the answer is lost.
LEMMA AnswerLostInv ==
  ASSUME BackupInv, NEW r \in Restores, RestoreStep(r, "staged", NoSource("unchanged")),
         database = NoFile, database' = r, UNCHANGED tree
  PROVE  BackupInv'
<1>0. BackupTypeOK /\ SourceKnown
  BY DEF BackupInv
<1>1. NoSource("unchanged") \in Readers /\ NoSource("unchanged").at = "unchanged"
  BY EmptyRecords DEF RestoreEnds
<1>2. RecordKnown(NoSource("unchanged"))
  BY <1>1 DEF RecordKnown, Open, Trusted
<1>3. /\ restore' \in [Restores -> Readers] /\ restore[r].at = "staged" /\ restore'[r].at = "unchanged"
      /\ \A q \in Restores : q # r => restore'[q] = restore[q]
      /\ UNCHANGED <<backend, live, backup, archive, sidecar>>
  BY <1>0, <1>1, RestoreMoves
<1>4. BackupTypeOK'
  BY <1>0, <1>3 DEF BackupTypeOK, Readers
<1>5. PairHeld' /\ RowsCovered'
  BY <1>3 DEF BackupInv, PairHeld, RowsCovered
<1>6. SourceKnown'
  BY <1>0, <1>1, <1>2, SourcesStayKnown
<1>7. \A q \in Restores : restore[q].at \notin Loaded /\ restore'[q].at \notin Loaded
  BY <1>3, BackupAssumption DEF BackupInv, TargetHeld, Loaded
<1>8. \A i \in Images : tree[i] = Original
  BY <1>0, BackupAssumption DEF BackupInv, TargetHeld, BackupTypeOK
<1>9. TargetHeld'
  <2>1. \A q \in Restores : q # Original
    BY BackupAssumption
  <2>2. \A q \in Restores : restore'[q].at = "staged" => restore'[q].todo = Packed(restore[q].source)'
    BY <1>3 DEF BackupInv, TargetHeld, Packed
  <2> QED BY <1>3, <1>7, <1>8, <2>1, <2>2 DEF TargetHeld, Loaded
<1> QED BY <1>4, <1>5, <1>6, <1>9 DEF BackupInv

LEMMA LoadedInv ==
  ASSUME BackupInv, NEW r \in Restores, LoadDatabase(r), database = NoFile
  PROVE  BackupInv'
<1> DEFINE record == [restore[r] EXCEPT !.at = "loaded"]
<1>0. BackupTypeOK /\ SourceKnown /\ restore[r] \in Readers
  BY DEF BackupInv, BackupTypeOK, Readers
<1>1. RestoreStep(r, "staged", record) /\ database' = r /\ UNCHANGED tree /\ restore[r].at = "staged"
  BY DEF LoadDatabase, RestoreStep
<1>2. record \in Readers /\ record.at = "loaded" /\ record.trust = restore[r].trust
      /\ record.signature = restore[r].signature /\ record.source = restore[r].source /\ record.todo = restore[r].todo
  BY <1>0 DEF Readers
<1> HIDE DEF record
<1>3. /\ restore' \in [Restores -> Readers]
      /\ \A q \in Restores : restore'[q] = IF q = r THEN record ELSE restore[q]
      /\ UNCHANGED <<backend, live, backup, archive, sidecar>>
  BY <1>0, <1>1, <1>2, RestoreMoves
<1>4. BackupTypeOK'
  BY <1>0, <1>1, <1>3 DEF BackupTypeOK, Readers
<1>5. PairHeld' /\ RowsCovered'
  BY <1>3 DEF BackupInv, PairHeld, RowsCovered
<1>6. RecordKnown(record)
  BY <1>0, <1>1, <1>2, KnownRecord DEF RecordKnown, Open, Trusted
<1>7. SourceKnown'
  BY <1>1, <1>2, <1>6, SourcesStayKnown
<1>8. \A a : Packed(a)' = Packed(a)
  BY <1>3 DEF Packed
<1>9. \A q \in Restores : restore[q].at \notin Loaded
  BY BackupAssumption DEF BackupInv, TargetHeld
<1>10. \A i \in Images : tree[i] = Original
  BY <1>0, BackupAssumption DEF BackupInv, TargetHeld, BackupTypeOK
<1>11. TargetHeld'
  <2>1. \A q \in Restores : restore'[q].at \in Loaded => q = r
    BY <1>3, <1>9
  <2>2. record.todo = Packed(record.source)
    BY <1>1, <1>2 DEF BackupInv, TargetHeld
  <2>3. \A q \in Restores : restore'[q].at = "staged" => restore'[q].todo = Packed(restore[q].source)'
    BY <1>2, <1>3 DEF BackupInv, TargetHeld, Packed
  <2>4. \A q \in Restores : restore'[q].at \in {"loaded", "done"} => q = r
    BY <2>1 DEF Loaded
  <2>5. \A q \in Restores : restore'[q].at = "unchanged" => \A i \in Images : tree'[i] # q
    BY <1>1, <1>10, BackupAssumption
  <2> QED BY <1>1, <1>2, <1>3, <1>8, <1>10, <2>1, <2>2, <2>3, <2>4, <2>5 DEF TargetHeld, Loaded, Packed
<1> QED BY <1>4, <1>5, <1>7, <1>11 DEF BackupInv

LEMMA PublishedInv ==
  ASSUME BackupInv, NEW r \in Restores, NEW i \in Images, PublishImage(r, i)
  PROVE  BackupInv'
<1> DEFINE record == [restore[r] EXCEPT !.todo = @ \ {i}]
<1>0. BackupTypeOK /\ SourceKnown /\ restore[r] \in Readers
  BY DEF BackupInv, BackupTypeOK, Readers
<1>1. RestoreStep(r, "loaded", record) /\ tree' = [tree EXCEPT ![i] = r] /\ UNCHANGED database /\ restore[r].at = "loaded"
  BY DEF PublishImage, RestoreStep
<1>2. record \in Readers /\ record.at = "loaded" /\ record.trust = restore[r].trust
      /\ record.signature = restore[r].signature /\ record.source = restore[r].source
      /\ record.todo = restore[r].todo \ {i}
  BY <1>0, <1>1 DEF Readers
<1> HIDE DEF record
<1>3. /\ restore' \in [Restores -> Readers]
      /\ \A q \in Restores : restore'[q] = IF q = r THEN record ELSE restore[q]
      /\ UNCHANGED <<backend, live, backup, archive, sidecar>>
  BY <1>0, <1>1, <1>2, RestoreMoves
<1>4. \A j \in Images : tree'[j] = IF j = i THEN r ELSE tree[j]
  BY <1>0, <1>1 DEF BackupTypeOK
<1>5. BackupTypeOK'
  BY <1>0, <1>1, <1>3 DEF BackupTypeOK, Readers
<1>6. PairHeld' /\ RowsCovered'
  BY <1>3 DEF BackupInv, PairHeld, RowsCovered
<1>7. RecordKnown(record)
  BY <1>0, <1>1, <1>2, KnownRecord DEF RecordKnown, Open, Trusted
<1>8. SourceKnown'
  BY <1>1, <1>2, <1>7, SourcesStayKnown
<1>9. \A a : Packed(a)' = Packed(a)
  BY <1>3 DEF Packed
<1>10. database = r /\ \A q \in Restores : restore[q].at \in Loaded => q = r
  BY <1>1 DEF BackupInv, TargetHeld, Loaded
<1>11. \A q \in Restores : restore[q].at \in Open => Packed(restore[q].source) \subseteq Images
  BY <1>0 DEF SourceKnown, Packed, BackupTypeOK
<1>12. TargetHeld'
  <2>1. \A q \in Restores : restore'[q].at \in Loaded => q = r
    BY <1>2, <1>3, <1>10
  <2>2. \A j \in Packed(record.source) : j \in record.todo \/ tree'[j] = r
    <3>1. \A j \in Packed(restore[r].source) : j \in restore[r].todo \/ tree[j] = r
      BY <1>1 DEF BackupInv, TargetHeld
    <3>2. Packed(restore[r].source) \subseteq Images
      BY <1>1, <1>11 DEF Open
    <3> QED BY <1>2, <1>4, <3>1, <3>2
  <2>3. \A q \in Restores : restore'[q].at = "staged" => restore'[q].todo = Packed(restore[q].source)'
    BY <1>2, <1>3 DEF BackupInv, TargetHeld, Packed
  <2>4. \A q \in Restores : restore'[q].at \in {"loaded", "done"} => q = r
    BY <2>1 DEF Loaded
  <2>5. \A j \in Images : tree'[j] # Original => tree'[j] = database'
    BY <1>1, <1>4, <1>10 DEF BackupInv, TargetHeld
  <2>6. \A q \in Restores : restore'[q].at = "unchanged" => \A j \in Images : tree'[j] # q
    BY <1>2, <1>3, <1>4 DEF BackupInv, TargetHeld
  <2> QED BY <1>1, <1>2, <1>3, <1>9, <1>10, <2>1, <2>2, <2>3, <2>4, <2>5, <2>6 DEF TargetHeld, Loaded, Packed
<1> QED BY <1>5, <1>6, <1>8, <1>12 DEF BackupInv

\* A restore goes on with the record it has: only its stage changes.
LEMMA StageIs ==
  ASSUME BackupInv, NEW r \in Restores,
         NEW at \in {"idle", "looked", "opened", "checked", "vacant", "staged", "loaded", "done", "incomplete"}
  PROVE  LET record == [restore[r] EXCEPT !.at = at]
         IN  /\ record \in Readers /\ record.at = at /\ record.trust = restore[r].trust
             /\ record.signature = restore[r].signature /\ record.source = restore[r].source
             /\ record.todo = restore[r].todo
BY DEF BackupInv, BackupTypeOK, Readers, RestoreEnds

LEMMA LookedInv == ASSUME BackupInv, NEW r \in Restores, NEW trust \in BOOLEAN, ReadSignature(r, trust) PROVE BackupInv'
<1>1. CASE sidecar = NoFile /\ ~ trust
  <2>1. RestoreStep(r, "idle", NoSource("refused")) /\ UNCHANGED <<database, tree>>
    BY <1>1 DEF ReadSignature
  <2> QED BY <2>1, GivenUpInv
<1>2. CASE sidecar # NoFile \/ trust
  <2> DEFINE record == [restore[r] EXCEPT !.at = "looked", !.trust = trust, !.signature = sidecar]
  <2>1. restore[r] \in Readers /\ sidecar \in Backups \cup {NoFile}
    BY DEF BackupInv, BackupTypeOK, Readers
  <2>2. record \in Readers /\ record.at = "looked" /\ record.trust = trust /\ record.signature = sidecar
    BY <2>1 DEF Readers
  <2>3. RestoreStep(r, "idle", record) /\ UNCHANGED <<database, tree>>
    BY <1>2 DEF ReadSignature
  <2> HIDE DEF record
  <2>4. RecordKnown(record)
    BY <1>2, <2>2 DEF RecordKnown, Open, Trusted
  <2> QED BY <2>2, <2>3, <2>4, ReadingInv DEF Loaded
<1> QED BY <1>1, <1>2

LEMMA OpenedInv == ASSUME BackupInv, NEW r \in Restores, OpenArchive(r) PROVE BackupInv'
<1>1. CASE ~ (archive # NoFile /\ restore[r].signature \in {archive, NoFile})
  <2>1. RestoreStep(r, "looked", NoSource("refused")) /\ UNCHANGED <<database, tree>>
    BY <1>1 DEF OpenArchive
  <2> QED BY <2>1, GivenUpInv
<1>2. CASE archive # NoFile /\ restore[r].signature \in {archive, NoFile}
  <2> DEFINE record == [restore[r] EXCEPT !.at = "opened", !.source = archive]
  <2>1. restore[r] \in Readers /\ archive \in Backups \cup {Legacy}
    BY <1>2 DEF BackupInv, BackupTypeOK, Readers
  <2>2. record \in Readers /\ record.at = "opened" /\ record.trust = restore[r].trust
        /\ record.signature = restore[r].signature /\ record.source = archive
    BY <2>1 DEF Readers
  <2>3. RestoreStep(r, "looked", record) /\ UNCHANGED <<database, tree>> /\ restore[r].at = "looked"
    BY <1>2 DEF OpenArchive, RestoreStep
  <2> HIDE DEF record
  <2>4. archive \in Backups => backup[archive].at = "done"
    BY DEF BackupInv, PairHeld
  <2>5. RecordKnown(restore[r])
    BY KnownRecord DEF BackupInv
  <2>6. RecordKnown(record)
    BY <1>2, <2>1, <2>2, <2>3, <2>4, <2>5 DEF RecordKnown, Open, Trusted
  <2> QED BY <2>2, <2>3, <2>6, ReadingInv DEF Loaded
<1> QED BY <1>1, <1>2

LEMMA ExtractedInv == ASSUME BackupInv, NEW r \in Restores, ExtractArchive(r) PROVE BackupInv'
<1>1. CASE ~ ExpectedFormat(r)
  <2>1. RestoreStep(r, "opened", NoSource("refused")) /\ UNCHANGED <<database, tree>>
    BY <1>1 DEF ExtractArchive
  <2> QED BY <2>1, GivenUpInv
<1>2. CASE ExpectedFormat(r)
  <2> DEFINE record == [restore[r] EXCEPT !.at = "checked"]
  <2>1. record \in Readers /\ record.at = "checked" /\ record.trust = restore[r].trust
        /\ record.signature = restore[r].signature /\ record.source = restore[r].source
    BY StageIs
  <2>2. RestoreStep(r, "opened", record) /\ UNCHANGED <<database, tree>> /\ restore[r].at = "opened"
    BY <1>2 DEF ExtractArchive, RestoreStep
  <2> HIDE DEF record
  <2>3. RecordKnown(restore[r])
    BY KnownRecord DEF BackupInv
  <2>4. RecordKnown(record)
    BY <1>2, <2>1, <2>2, <2>3 DEF RecordKnown, Open, Trusted, ExpectedFormat
  <2> QED BY <2>1, <2>2, <2>4, ReadingInv DEF Loaded
<1> QED BY <1>1, <1>2

\* Past the extraction a restore keeps its source.
LEMMA GoesOnInv ==
  ASSUME BackupInv, NEW r \in Restores, NEW from \in {"checked", "vacant", "loaded"}, NEW at \in {"vacant", "done", "incomplete"},
         RestoreStep(r, from, [restore[r] EXCEPT !.at = at]), UNCHANGED <<database, tree>>,
         at = "vacant" <=> from = "checked", at # "vacant" => from = "loaded", at = "done" => restore[r].todo = {}
  PROVE  BackupInv'
<1> DEFINE record == [restore[r] EXCEPT !.at = at]
<1>1. record \in Readers /\ record.at = at /\ record.trust = restore[r].trust
      /\ record.signature = restore[r].signature /\ record.source = restore[r].source /\ record.todo = restore[r].todo
  <2>1. at \in {"idle", "looked", "opened", "checked", "vacant", "staged", "loaded", "done", "incomplete"}
    OBVIOUS
  <2>2. restore[r] \in Readers
    BY DEF BackupInv, BackupTypeOK, Readers
  <2> QED BY <2>1, <2>2 DEF Readers, RestoreEnds
<1>2. RestoreStep(r, from, record) /\ restore[r].at = from
  BY DEF RestoreStep
<1> HIDE DEF record
<1>3. RecordKnown(restore[r])
  BY KnownRecord DEF BackupInv
<1>4. RecordKnown(record)
  BY <1>1, <1>2, <1>3 DEF RecordKnown, Open, Trusted
<1> QED BY <1>1, <1>2, <1>4, ReadingInv DEF Loaded

LEMMA StagedInv == ASSUME BackupInv, NEW r \in Restores, StageImages(r) PROVE BackupInv'
<1> DEFINE record == [restore[r] EXCEPT !.at = "staged", !.todo = Packed(restore[r].source)]
<1>1. RestoreStep(r, "vacant", record) /\ UNCHANGED <<database, tree>> /\ restore[r].at = "vacant"
  BY DEF StageImages, RestoreStep
<1>2. restore[r] \in Readers
  BY DEF BackupInv, BackupTypeOK, Readers
<1>3. RecordKnown(restore[r])
  BY KnownRecord DEF BackupInv
<1>4. Packed(restore[r].source) \subseteq Images
  BY <1>1, <1>3 DEF RecordKnown, Open, Packed, BackupInv, BackupTypeOK
<1>5. record \in Readers /\ record.at = "staged" /\ record.trust = restore[r].trust
      /\ record.signature = restore[r].signature /\ record.source = restore[r].source
      /\ record.todo = Packed(restore[r].source)
  BY <1>2, <1>4 DEF Readers
<1> HIDE DEF record
<1>6. RecordKnown(record)
  BY <1>1, <1>3, <1>5 DEF RecordKnown, Open, Trusted
<1> QED BY <1>1, <1>5, <1>6, ReadingInv DEF Loaded

LEMMA RestoreCommandInv == ASSUME BackupInv, NEW r \in Restores, RestoreCommand(r) PROVE BackupInv'
<1>1. CASE ExtractFails(r) \/ StageFails(r) \/ LoadFails(r)
  <2>1. CASE ExtractFails(r) \/ StageFails(r)
    BY <2>1, GivenUpInv DEF ExtractFails, StageFails
  <2>2. CASE LoadFails(r)
    BY <2>2, GivenUpInv, AnswerLostInv DEF LoadFails
  <2> QED BY <1>1, <2>1, <2>2
<1>2. CASE CheckEmpty(r)
  <2>1. \/ RestoreStep(r, "checked", [restore[r] EXCEPT !.at = "vacant"])
        \/ RestoreStep(r, "checked", NoSource("refused"))
    BY <1>2 DEF CheckEmpty
  <2>2. UNCHANGED <<database, tree>>
    BY <1>2 DEF CheckEmpty
  <2> QED BY <2>1, <2>2, GivenUpInv, GoesOnInv
<1>3. CASE LoadDatabase(r)
  <2>1. CASE database = NoFile
    BY <1>3, <2>1, LoadedInv
  <2>2. CASE database # NoFile
    <3>1. RestoreStep(r, "staged", NoSource("unchanged")) /\ UNCHANGED <<database, tree>>
      BY <1>3, <2>2 DEF LoadDatabase
    <3> QED BY <3>1, GivenUpInv
  <2> QED BY <2>1, <2>2
<1>4. CASE PublishFails(r) \/ RestoreDone(r)
  <2>1. CASE PublishFails(r)
    BY <2>1, GoesOnInv DEF PublishFails
  <2>2. CASE RestoreDone(r)
    BY <2>2, GoesOnInv DEF RestoreDone
  <2> QED BY <1>4, <2>1, <2>2
<1>5. CASE RestoreKilled(r)
  <2>1. restore[r].at \in {"looked", "opened", "checked", "vacant", "staged", "loaded"}
    BY <1>5 DEF RestoreKilled, BackupInv, BackupTypeOK
  <2>2. RestoreStep(r, restore[r].at, NoSource("killed")) /\ UNCHANGED <<database, tree>>
    BY <1>5 DEF RestoreKilled
  <2> QED BY <2>1, <2>2, GivenUpInv
<1> QED BY <1>1, <1>2, <1>3, <1>4, <1>5, LookedInv, OpenedInv, ExtractedInv, StagedInv, PublishedInv DEF RestoreCommand

LEMMA BackupStepsInv == BackupInv /\ [BackupNext]_backupVars => BackupInv'
<1>1. ASSUME BackupInv, UNCHANGED backupVars PROVE BackupInv'
  BY <1>1 DEF backupVars, BackupInv, BackupTypeOK, PairHeld, RowsCovered, SourceKnown, TargetHeld, Packed
<1> QED BY <1>1, LiveInv, BackupCommandInv, RestoreCommandInv DEF BackupNext

(* Signature, archive, database and files tell the same story after any     *)
(* number of backups and restores that failed or were killed anywhere.      *)
THEOREM BackupInvariant == BackupSpec => []BackupInv
BY BackupInitInv, BackupStepsInv, PTL DEF BackupSpec

(* What is at the output path verifies and covers every row that stays live *)
(* (publish_backup, cmd_backup).                                            *)
THEOREM PublishedAlwaysRestorable == BackupSpec => []PublishedIsRestorable
<1>1. BackupInv => PublishedIsRestorable
  BY DEF BackupInv, PairHeld, RowsCovered, PublishedIsRestorable, PublishedPairVerifies, DumpedRowsPacked
<1> QED BY BackupInvariant, <1>1, PTL

(* A restore reports only what it has done to the target (cmd_restore).     *)
THEOREM ReportsAlwaysTrue == BackupSpec => []ReportsTrue
<1>1. BackupInv => ReportsTrue
  <2> SUFFICES ASSUME BackupInv PROVE ReportsTrue
    OBVIOUS
  <2>1. \A r \in Restores : r # NoFile
    BY BackupAssumption
  <2> QED BY <2>1 DEF BackupInv, TargetHeld, ReportsTrue, Loaded
<1> QED BY BackupInvariant, <1>1, PTL

(* Nothing unsigned is restored but the legacy archive, and that only when  *)
(* the operator trusts it (authenticated_snapshot, cmd_restore).            *)
THEOREM UnsignedAlwaysTrusted == BackupSpec => []UnsignedIsTrustedLegacy
<1>1. BackupInv => UnsignedIsTrustedLegacy
  <2> SUFFICES ASSUME BackupInv, NEW r \in Restores, restore[r].at \in Trusted
               PROVE  restore[r].signature = restore[r].source \/ (restore[r].trust /\ restore[r].source = Legacy)
    BY DEF UnsignedIsTrustedLegacy, Trusted
  <2> QED BY DEF BackupInv, SourceKnown, Open, Trusted
<1> QED BY BackupInvariant, <1>1, PTL

(* No backup replaces or takes apart a pair that is complete.               *)
THEOREM PairsKept == BackupSpec => PairKept
<1>1. BackupInv /\ [BackupNext]_backupVars => [(archive \in Backups) => UNCHANGED <<archive, sidecar>>]_backupVars
  <2> SUFFICES ASSUME BackupInv, BackupNext, archive \in Backups PROVE UNCHANGED <<archive, sidecar>>
    OBVIOUS
  <2>1. sidecar = archive /\ sidecar # NoFile /\ \A b \in Backups : backup[b].at # "linking"
    BY BackupAssumption DEF BackupInv, PairHeld
  <2>2. CASE LiveNext
    BY <2>2 DEF LiveNext, UploadStores, UploadCommits, DeleteErases, DeleteCommits, LiveStep
  <2>3. ASSUME NEW b \in Backups, BackupCommand(b) PROVE UNCHANGED <<archive, sidecar>>
    BY <2>1, <2>3 DEF BackupCommand, DumpDatabase, DumpFails, CollectImages, PackImage, PackFails, LinkSidecar,
       LinkArchive, BackupKilled, BackupStep
  <2>4. ASSUME NEW r \in Restores, RestoreCommand(r) PROVE UNCHANGED <<archive, sidecar>>
    BY <2>4 DEF RestoreCommand, ReadSignature, OpenArchive, ExtractArchive, ExtractFails, CheckEmpty, StageImages,
       StageFails, LoadDatabase, LoadFails, PublishImage, PublishFails, RestoreDone, RestoreKilled, RestoreStep
  <2> QED BY <2>2, <2>3, <2>4 DEF BackupNext
<1> QED BY BackupInvariant, <1>1, PTL DEF BackupSpec, PairKept
=============================================================================
