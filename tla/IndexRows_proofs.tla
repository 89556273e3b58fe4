--------------------------- MODULE IndexRows_proofs ---------------------------
(***************************************************************************)
(* What index passes make of the rows of files that do not need them.      *)
(* What is known of a file's content is never newer than the file; so a    *)
(* pass replaces or removes rows only of files that have changed, and a    *)
(* file that a scan may skip by its fingerprint is indexed as it is.       *)
(***************************************************************************)
EXTENDS IndexPass_proofs

-----------------------------------------------------------------------------
(* What is known of a file *)

\* The manifest m records content h for f; some manifest does; the scan found h.
Records(m, f, h) == m # NoManifest /\ m[f] # NoEntry /\ m[f].hash = h
Knows(f, h) == Records(saved, f, h) \/ Records(manifest, f, h) \/ Records(freshSaved, f, h)
ScannedAs(f, h) == scanned[f] # NoEntry /\ scanned[f].hash = h

\* Nothing known of a file is newer than the file.
NothingNewer ==
    \A f \in Files :
        /\ disk[f] \in Versions => disk[f] <= mtime[f]
        /\ \A h \in Versions : Knows(f, h) \/ ScannedAs(f, h) =>
              h <= mtime[f] /\ (disk[f] \in Versions => h <= disk[f])

\* Nothing that a manifest knows is newer than what the scan found.
ScansAreLater ==
    \A f \in Files : \A h, k \in Versions : Knows(f, h) /\ ScannedAs(f, k) => h <= k

\* A pass begins with what the saved manifest says, and leaves nothing behind.
CleanStart ==
    /\ pc \in {"idle", "scan"} => freshSaved = NoManifest /\ ~ pending
    /\ pc = "idle" => scanned = NoEntries
    /\ pc = "scan" => \A f \in Files : manifest[f] # NoEntry => Records(saved, f, manifest[f].hash)

\* A file that the walk did not list, or that was empty when it was read, has
\* content that no manifest knows if it has any now.
NewContent(f) == disk[f] \in Versions => \A h \in Versions : Knows(f, h) => h < disk[f]

MissedFilesAreNew ==
    \A f \in Files :
        /\ pc # "idle" /\ f \notin Scanned \cup unread => NewContent(f)
        /\ f \in Scanned /\ scanned[f].hash \notin Versions => manifest[f] = NoEntry \/ NewContent(f)

Past == NothingNewer /\ ScansAreLater /\ CleanStart /\ MissedFilesAreNew

-----------------------------------------------------------------------------
(* How a step changes what is known *)

\* The steps that change neither the files, nor a manifest, nor the scan.
Quiet == UNCHANGED <<disk, mtime, saved, manifest, freshSaved, scanned>>

\* The other steps.
Telling ==
    \/ \E f \in Files : Write(f) \/ Delete(f) \/ SkipRead(f) \/ ReadFile(f) \/ StatFile(f)
                        \/ ExtractionFails(f) \/ RemoveStale(f) \/ RemoveEarly(f)
    \/ \E K \in SUBSET (StartKinds \cap Faults) : StartPass(K)
    \/ LoseManifest \/ Crash \/ PreflightFails \/ DiscardRebuild \/ SaveFinal
    \/ Commit \/ CheckpointSave \/ EndWindows \/ Promote

\* Every step is one or the other.
LEMMA QuietOrTelling == [Next]_vars => Quiet \/ Telling
<1> USE DEF Quiet, world, durable, setup, scanVars, winVars, backVars, passVars
<1> SUFFICES ASSUME [Next]_vars PROVE Quiet \/ Telling
  OBVIOUS
<1>1. CASE UNCHANGED vars
  BY <1>1 DEF vars
<1>2. CASE LoseRows
  BY <1>2 DEF LoseRows
<1>3. CASE Abort
  BY <1>3 DEF Abort
<1>4. CASE PreflightPasses \/ StaleRemoved
  BY <1>4 DEF PreflightPasses, StaleRemoved
<1>5. ASSUME NEW W \in SUBSET Files, NEW C \in SUBSET Files, NEW D \in SUBSET Files,
             PrepareWindow(W, C, D)
      PROVE  Quiet
  BY <1>5 DEF PrepareWindow
<1>6. ASSUME NEW missing \in SUBSET (Files \X Parts), EmbedWindow(missing) PROVE Quiet
  BY <1>6 DEF EmbedWindow
<1>7. CASE LaunchStore \/ BulkAdd \/ RowsWritten
  BY <1>7 DEF LaunchStore, BulkAdd, RowsWritten
<1>8. ASSUME NEW f \in Files, DedupFile(f) \/ UpsertFile(f) \/ PurgeFile(f) \/ SweepFile(f)
      PROVE  Quiet
  BY <1>8 DEF DedupFile, UpsertFile, PurgeFile, SweepFile
<1>9. CASE SweepDone \/ PromoteNothing
  BY <1>9 DEF SweepDone, PromoteNothing
<1> QED BY <1>1, <1>2, <1>3, <1>4, <1>5, <1>6, <1>7, <1>8, <1>9
        DEF Next, PassStep, Environment, Telling

\* What a file can become: what it was, gone or empty, or new.
LEMMA FilesMove ==
    ASSUME TypeOK, [Next]_vars, "revert" \notin Edits, NEW f \in Files
    PROVE  \/ disk'[f] = disk[f] /\ mtime'[f] = mtime[f]
           \/ disk'[f] = NoFile /\ mtime'[f] = mtime[f] /\ Editable(f)
           \/ /\ mtime'[f] = mtime[f] + 1 /\ Editable(f)
              /\ disk'[f] \in {disk[f], Blank, Chunkless, mtime[f] + 1} \ {NoFile}
<1> USE DEF world, durable, setup, scanVars, winVars, backVars, passVars
<1>1. CASE Quiet
  BY <1>1 DEF Quiet
<1>2. ASSUME NEW g \in Files, Write(g)
      PROVE  \/ disk'[f] = disk[f] /\ mtime'[f] = mtime[f]
             \/ /\ mtime'[f] = mtime[f] + 1 /\ Editable(f)
                /\ disk'[f] \in {disk[f], Blank, Chunkless, mtime[f] + 1} \ {NoFile}
  <2>1. PICK c \in Writable(g) : disk' = [disk EXCEPT ![g] = c]
    BY <1>2 DEF Write
  <2>2. c \in {disk[g], Blank, Chunkless, mtime[g] + 1} \ {NoFile}
    <3>1. mtime[g] + 1 \in Versions
      BY <1>2, BoundsAssumption DEF Write, TypeOK, Versions
    <3> QED BY <2>1, <3>1, MarkersAssumption DEF Writable
  <2>3. mtime' = [mtime EXCEPT ![g] = @ + 1] /\ Editable(g)
    BY <1>2 DEF Write
  <2> QED BY <2>1, <2>2, <2>3 DEF TypeOK
<1>3. ASSUME NEW g \in Files, Delete(g)
      PROVE  \/ disk'[f] = disk[f] /\ mtime'[f] = mtime[f]
             \/ disk'[f] = NoFile /\ mtime'[f] = mtime[f] /\ Editable(f)
  BY <1>3 DEF Delete, TypeOK
<1>4. ASSUME Telling, \A g \in Files : ~ Write(g) /\ ~ Delete(g)
      PROVE  disk' = disk /\ mtime' = mtime
  BY <1>4 DEF Telling, SkipRead, ReadFile, StatFile, ExtractionFails, RemoveStale, RemoveEarly,
              StartPass, LoseManifest, Crash, PreflightFails, DiscardRebuild, SaveFinal,
              Commit, CheckpointSave, EndWindows, Promote
<1> QED BY <1>1, <1>2, <1>3, <1>4, QuietOrTelling

\* A pass starts with entries of the saved manifest, or does not start.
LEMMA StartsMove ==
    ASSUME TypeOK, NEW K \in SUBSET (StartKinds \cap Faults), StartPass(K)
    PROVE  \/ UNCHANGED vars \/ UNCHANGED <<disk, mtime, durable, passVars>>
           \/ /\ pc = "idle" /\ UNCHANGED <<disk, mtime>>
              /\ \E where \in {"inplace", "temp", "epoch"}, m \in Manifest :
                    /\ \E count : \E force \in BOOLEAN : Begin(where, m, count, force)
                    /\ \A f \in Files : m[f] = NoEntry \/ (Records(saved, f, m[f].hash) /\ m[f] = saved[f])
<1> DEFINE l == IF saved = NoManifest THEN NoEntries ELSE saved
           m0 == DropFailedDescriptions(l)
           m1 == IF saved # NoManifest /\ "force" \notin K THEN ResumeCheck(m0) ELSE m0
<1>1. NoEntries \in Manifest /\ \A f \in Files : NoEntries[f] = NoEntry
  BY DEF NoEntries, Manifest
<1>2. m0 \in Manifest /\ \A f \in Files : m0[f] = NoEntry \/ (Records(saved, f, m0[f].hash) /\ m0[f] = saved[f])
  <2>1. l \in Manifest /\ \A f \in Files : l[f] = NoEntry \/ (Records(saved, f, l[f].hash) /\ l[f] = saved[f])
    BY <1>1 DEF TypeOK, Records
  <2> HIDE DEF l
  <2>2. \A f \in Files : m0[f] = NoEntry \/ m0[f] = l[f]
    BY <2>1 DEF DropFailedDescriptions
  <2> QED BY <2>1, <2>2, StartManifestTyped
<1> HIDE DEF m0
<1>3. m1 \in Manifest /\ \A f \in Files : m1[f] = NoEntry \/ (Records(saved, f, m1[f].hash) /\ m1[f] = saved[f])
  BY <1>2, StartManifestTyped DEF ResumeCheck
<1>4. /\ pc = "idle" /\ UNCHANGED <<disk, mtime>>
      /\ \/ \E where \in {"inplace", "temp", "epoch"}, m \in {m1, NoEntries} :
               \E count : \E force \in BOOLEAN : Begin(where, m, count, force)
         \/ UNCHANGED <<durable, passVars>>
  <2>1. /\ pc = "idle" /\ UNCHANGED <<disk, mtime>>
        /\ \E count : \/ \E m \in {m1, NoEntries} : Begin("inplace", m, count, FALSE)
                      \/ \E where \in {"inplace", "temp", "epoch"} : Begin(where, NoEntries, count, "force" \in K)
                      \/ UNCHANGED <<durable, passVars>>
    BY DEF StartPass, m0
  <2>2. PICK count : \/ \E m \in {m1, NoEntries} : Begin("inplace", m, count, FALSE)
                     \/ \E where \in {"inplace", "temp", "epoch"} : Begin(where, NoEntries, count, "force" \in K)
                     \/ UNCHANGED <<durable, passVars>>
    BY <2>1
  <2>3. ("force" \in K) \in BOOLEAN
    OBVIOUS
  <2> QED BY <2>1, <2>2, <2>3
<1> HIDE DEF m1
<1>5. CASE UNCHANGED <<durable, passVars>>
  BY <1>4, <1>5
<1>6. ASSUME NEW where \in {"inplace", "temp", "epoch"}, NEW m \in {m1, NoEntries}, NEW count, NEW force \in BOOLEAN,
             Begin(where, m, count, force)
      PROVE  /\ m \in Manifest
             /\ \A f \in Files : m[f] = NoEntry \/ (Records(saved, f, m[f].hash) /\ m[f] = saved[f])
  BY <1>1, <1>3
<1> QED BY <1>4, <1>5, <1>6

\* How the entry of one file can change.
EntryMoves(f) ==
    \/ manifest'[f] = manifest[f]
    \/ manifest'[f] = NoEntry /\ (RemoveStale(f) \/ RemoveEarly(f) \/ pc = "idle" \/ pc' = "idle")
    \/ pc = "idle" /\ Records(saved, f, manifest'[f].hash) /\ manifest'[f] = saved[f]
    \/ Commit /\ f \in Complete /\ manifest'[f] = NewEntry(f)
    \/ /\ EndWindows /\ f \in Scanned /\ manifest[f] # NoEntry
       /\ manifest'[f] = [manifest[f] EXCEPT !.mtime = scanned[f].mtime]

LEMMA EntriesMove ==
    ASSUME Inductive, [Next]_vars, NEW f \in Files
    PROVE  EntryMoves(f)
<1> USE DEF EntryMoves, Inductive
<1>1. CASE Quiet
  BY <1>1 DEF Quiet
<1>2. ASSUME NEW K \in SUBSET (StartKinds \cap Faults), StartPass(K) PROVE EntryMoves(f)
  <2>1. CASE UNCHANGED vars \/ UNCHANGED <<disk, mtime, durable, passVars>>
    BY <2>1 DEF vars, passVars
  <2>2. CASE /\ pc = "idle" /\ UNCHANGED <<disk, mtime>>
             /\ \E where \in {"inplace", "temp", "epoch"}, m \in Manifest :
                    /\ \E count : \E force \in BOOLEAN : Begin(where, m, count, force)
                    /\ \A g \in Files : m[g] = NoEntry \/ (Records(saved, g, m[g].hash) /\ m[g] = saved[g])
    BY <2>2 DEF Begin
  <2> QED BY <1>2, <2>1, <2>2, StartsMove
<1>3. ASSUME NEW g \in Files, RemoveStale(g) \/ RemoveEarly(g) PROVE EntryMoves(f)
  BY <1>3 DEF RemoveStale, RemoveEarly, TypeOK, Manifest
<1>4. CASE Crash \/ PreflightFails \/ DiscardRebuild \/ SaveFinal
  BY <1>4 DEF Crash, PreflightFails, DiscardRebuild, SaveFinal, Rest, NoEntries
<1>5. CASE Commit
  BY <1>5 DEF Commit
<1>6. CASE EndWindows
  BY <1>6 DEF EndWindows, Refingerprint
<1>7. ASSUME NEW g \in Files, Write(g) \/ Delete(g) \/ SkipRead(g) \/ ReadFile(g) \/ StatFile(g)
                               \/ ExtractionFails(g)
      PROVE  EntryMoves(f)
  BY <1>7 DEF Write, Delete, SkipRead, ReadFile, StatFile, ExtractionFails, passVars
<1>8. CASE LoseManifest \/ CheckpointSave \/ Promote
  BY <1>8 DEF LoseManifest, CheckpointSave, Promote, passVars
<1> QED BY <1>1, <1>2, <1>3, <1>4, <1>5, <1>6, <1>7, <1>8, QuietOrTelling DEF Telling

\* What is on disk is what was there, or the manifest of the pass.
LEMMA SavesMove ==
    ASSUME [Next]_vars
    PROVE  /\ saved' \in {saved, manifest, freshSaved, NoManifest}
           /\ freshSaved' \in {freshSaved, manifest, NoManifest}
<1> USE DEF world, durable, setup, scanVars, winVars, backVars, passVars
<1>1. CASE Quiet
  BY <1>1 DEF Quiet
<1>2. CASE Telling
  <2>1. ASSUME NEW K \in SUBSET (StartKinds \cap Faults), StartPass(K)
        PROVE  saved' = saved /\ freshSaved' = freshSaved
    BY <2>1 DEF StartPass, Begin
  <2>2. CASE Crash \/ PreflightFails \/ DiscardRebuild \/ SaveFinal
    BY <2>2 DEF Crash, PreflightFails, DiscardRebuild, SaveFinal, Rest
  <2>3. CASE Commit \/ EndWindows \/ CheckpointSave \/ Promote \/ LoseManifest
    BY <2>3 DEF Commit, EndWindows, CheckpointSave, Promote, LoseManifest
  <2>4. ASSUME NEW g \in Files, Write(g) \/ Delete(g) \/ SkipRead(g) \/ ReadFile(g) \/ StatFile(g)
                                \/ ExtractionFails(g) \/ RemoveStale(g) \/ RemoveEarly(g)
        PROVE  saved' = saved /\ freshSaved' = freshSaved
    BY <2>4 DEF Write, Delete, SkipRead, ReadFile, StatFile, ExtractionFails, RemoveStale, RemoveEarly
  <2> QED BY <1>2, <2>1, <2>2, <2>3, <2>4 DEF Telling
<1> QED BY <1>1, <1>2, QuietOrTelling

\* What reading a file makes known of it: its content, or what its entry says.
LEMMA ReadsTell ==
    ASSUME Inductive, NEW g \in Files, SkipRead(g) \/ ReadFile(g) \/ ExtractionFails(g)
    PROVE  \E e : /\ scanned' = [scanned EXCEPT ![g] = e] /\ e \in Scan
                 /\ \/ disk[g] # NoFile /\ e.hash = disk[g]
                    \/ manifest[g] # NoEntry /\ e.hash = manifest[g].hash
                    \/ manifest[g] = NoEntry /\ e.hash = Blank
<1> USE DEF Inductive
<1> DEFINE Is(h, t) == [hash |-> h, mtime |-> t]
<1>0. /\ \A h \in Versions \cup {Blank, Chunkless}, t \in 0 .. MaxMtime :
            Is(h, t) \in Scan /\ Is(h, t).hash = h
      /\ 0 \in 0 .. MaxMtime /\ mtime[g] \in 0 .. MaxMtime
      /\ manifest[g] # NoEntry =>
            manifest[g].hash \in Versions /\ manifest[g].mtime \in 0 .. MaxMtime
  BY BoundsAssumption DEF Scan, TypeOK, Manifest, Entry
<1>1. CASE SkipRead(g)
  <2>1. scanned' = [scanned EXCEPT ![g] = Is(manifest[g].hash, mtime[g])] /\ manifest[g] # NoEntry
    BY <1>1 DEF SkipRead, FastPath
  <2> HIDE DEF Is
  <2> QED BY <1>0, <2>1
<1>2. CASE ReadFile(g)
  <2>1. scanned' = [scanned EXCEPT ![g] = Is(disk[g], 0)] /\ disk[g] # NoFile
    BY <1>2 DEF ReadFile
  <2>2. disk[g] \in Versions \cup {Blank, Chunkless}
    BY <2>1 DEF TypeOK
  <2> HIDE DEF Is
  <2> QED BY <1>0, <2>1, <2>2
<1>3. CASE ExtractionFails(g)
  <2>1. scanned' = [scanned EXCEPT ![g] = IF manifest[g] # NoEntry
                        THEN Is(manifest[g].hash, manifest[g].mtime) ELSE Is(Blank, 0)]
    BY <1>3 DEF ExtractionFails
  <2> HIDE DEF Is
  <2>2. CASE manifest[g] # NoEntry
    BY <1>0, <2>1, <2>2
  <2>3. CASE manifest[g] = NoEntry
    BY <1>0, <2>1, <2>3
  <2> QED BY <2>2, <2>3
<1> QED BY <1>1, <1>2, <1>3

\* How the scan of one file can change.
ScanMoves(f) ==
    \/ scanned[f] # NoEntry /\ scanned'[f] # NoEntry /\ scanned'[f].hash = scanned[f].hash
    \/ scanned'[f] = NoEntry /\ (scanned[f] # NoEntry => pc' = "idle")
    \/ /\ pc = "scan" /\ f \in unread /\ UNCHANGED <<disk, mtime, manifest, saved, freshSaved>>
       /\ scanned'[f] # NoEntry
       /\ \/ disk[f] # NoFile /\ scanned'[f].hash = disk[f]
          \/ manifest[f] # NoEntry /\ scanned'[f].hash = manifest[f].hash
          \/ manifest[f] = NoEntry /\ scanned'[f].hash = Blank

LEMMA ScansMove ==
    ASSUME Inductive, [Next]_vars, NEW f \in Files
    PROVE  ScanMoves(f)
<1> USE DEF ScanMoves, Inductive
<1>1. CASE Quiet
  BY <1>1 DEF Quiet
<1>2. ASSUME NEW K \in SUBSET (StartKinds \cap Faults), StartPass(K) PROVE ScanMoves(f)
  BY <1>2 DEF StartPass, Begin, passVars, scanVars
<1>3. CASE Crash \/ PreflightFails \/ DiscardRebuild \/ SaveFinal
  BY <1>3 DEF Crash, PreflightFails, DiscardRebuild, SaveFinal, Rest, NoEntries
<1>4. CASE Commit \/ EndWindows \/ CheckpointSave \/ Promote \/ LoseManifest
  BY <1>4 DEF Commit, EndWindows, CheckpointSave, Promote, LoseManifest, passVars, scanVars
<1>5. ASSUME NEW g \in Files, Write(g) \/ Delete(g) \/ RemoveStale(g) \/ RemoveEarly(g)
      PROVE  ScanMoves(f)
  BY <1>5 DEF Write, Delete, RemoveStale, RemoveEarly, passVars, scanVars
<1>6. ASSUME NEW g \in Files, SkipRead(g) \/ ReadFile(g) \/ ExtractionFails(g) PROVE ScanMoves(f)
  <2>1. /\ pc = "scan" /\ g \in unread
        /\ UNCHANGED <<disk, mtime, manifest, saved, freshSaved>>
    BY <1>6 DEF SkipRead, ReadFile, ExtractionFails, world, durable, Inject
  <2>2. \E e : /\ scanned' = [scanned EXCEPT ![g] = e] /\ e \in Scan
               /\ \/ disk[g] # NoFile /\ e.hash = disk[g]
                  \/ manifest[g] # NoEntry /\ e.hash = manifest[g].hash
                  \/ manifest[g] = NoEntry /\ e.hash = Blank
    BY <1>6, ReadsTell
  <2> QED BY <2>1, <2>2, MarkersAssumption DEF TypeOK
<1>7. ASSUME NEW g \in Files, StatFile(g) PROVE ScanMoves(f)
  <2>1. g \in Scanned /\ scanned[g] \in Scan
    BY <1>7, ScannedTyped DEF StatFile, Places
  <2> DEFINE t == IF disk[g] = NoFile THEN 0 ELSE mtime[g]
  <2>2. t \in 0 .. MaxMtime
    BY BoundsAssumption DEF TypeOK
  <2>3. scanned' = [scanned EXCEPT ![g].mtime = t]
    BY <1>7 DEF StatFile
  <2> HIDE DEF t
  <2>4. [scanned[g] EXCEPT !.mtime = t] \in Scan /\ [scanned[g] EXCEPT !.mtime = t].hash = scanned[g].hash
    BY <2>1, <2>2 DEF Scan
  <2> QED BY <2>1, <2>3, <2>4, MarkersAssumption DEF TypeOK, Scanned
<1> QED BY <1>1, <1>2, <1>3, <1>4, <1>5, <1>6, <1>7, QuietOrTelling DEF Telling

\* Only a file that is being stored becomes known under a new content, and that
\* is the content the scan found.
LEMMA KnowledgeMoves ==
    ASSUME Inductive, [Next]_vars, NEW f \in Files, NEW h, Knows(f, h)'
    PROVE  Knows(f, h) \/ (f \in storing /\ ScannedAs(f, h))
<1> USE DEF Knows, Records
<1>1. manifest # NoManifest
  BY MarkersAssumption DEF Inductive, TypeOK
<1>2. CASE Records(saved, f, h)' \/ Records(freshSaved, f, h)'
  BY <1>1, <1>2, SavesMove
<1>3. CASE Records(manifest, f, h)'
  <2>1. CASE Commit /\ f \in Complete /\ manifest'[f] = NewEntry(f)
    BY <1>3, <2>1 DEF NewEntry, Complete, ScannedAs, Inductive, Places, Scanned
  <2>2. CASE /\ EndWindows /\ f \in Scanned /\ manifest[f] # NoEntry
             /\ manifest'[f] = [manifest[f] EXCEPT !.mtime = scanned[f].mtime]
    <3>1. manifest'[f].hash = manifest[f].hash
      BY <2>2 DEF Inductive, TypeOK, Manifest, Entry
    <3> QED BY <1>1, <1>3, <2>2, <3>1
  <2> QED BY <1>1, <1>3, <2>1, <2>2, EntriesMove DEF EntryMoves
<1> QED BY <1>2, <1>3 DEF Knows

\* The versions and times are numbers.
LEMMA VersionsAreNumbers ==
    ASSUME TypeOK, NEW f \in Files
    PROVE  /\ mtime[f] \in Nat /\ \A h \in Versions : h \in Nat
           /\ NoFile \notin Versions /\ Blank \notin Versions /\ Chunkless \notin Versions
  BY MarkersAssumption, BoundsAssumption DEF TypeOK, Versions

LEMMA NothingNewerStep ==
    ASSUME Inductive, NothingNewer, "revert" \notin Edits, [Next]_vars
    PROVE  NothingNewer'
<1> SUFFICES ASSUME NEW f \in Files
             PROVE  /\ disk'[f] \in Versions => disk'[f] <= mtime'[f]
                    /\ \A h \in Versions : Knows(f, h)' \/ ScannedAs(f, h)' =>
                          h <= mtime'[f] /\ (disk'[f] \in Versions => h <= disk'[f])
  BY DEF NothingNewer
<1>1. /\ disk[f] \in Versions => disk[f] <= mtime[f]
      /\ \A h \in Versions : Knows(f, h) \/ ScannedAs(f, h) =>
            h <= mtime[f] /\ (disk[f] \in Versions => h <= disk[f])
  BY DEF NothingNewer
<1>2. \/ disk'[f] = disk[f] /\ mtime'[f] = mtime[f]
      \/ disk'[f] = NoFile /\ mtime'[f] = mtime[f]
      \/ mtime'[f] = mtime[f] + 1 /\ disk'[f] \in {disk[f], Blank, Chunkless, mtime[f] + 1}
  BY FilesMove DEF Inductive
<1>3. /\ mtime[f] \in Nat /\ \A h \in Versions : h \in Nat
      /\ NoFile \notin Versions /\ Blank \notin Versions /\ Chunkless \notin Versions
  BY VersionsAreNumbers DEF Inductive
<1>4. ASSUME NEW h \in Versions, Knows(f, h)' \/ ScannedAs(f, h)'
      PROVE  h <= mtime[f] /\ (disk[f] \in Versions => h <= disk[f])
  <2>1. CASE Knows(f, h)'
    BY <1>1, <2>1, KnowledgeMoves
  <2>2. CASE ScannedAs(f, h)'
    <3>1. ScanMoves(f)
      BY ScansMove
    <3>2. CASE scanned[f] # NoEntry /\ scanned'[f].hash = scanned[f].hash
      BY <1>1, <2>2, <3>2 DEF ScannedAs
    <3>3. CASE disk[f] # NoFile /\ scanned'[f].hash = disk[f]
      BY <1>1, <1>3, <2>2, <3>3 DEF ScannedAs
    <3>4. CASE manifest[f] # NoEntry /\ scanned'[f].hash = manifest[f].hash
      <4>1. manifest # NoManifest
        BY MarkersAssumption DEF Inductive, TypeOK
      <4> QED BY <1>1, <2>2, <3>4, <4>1 DEF ScannedAs, Knows, Records
    <3> QED BY <1>3, <2>2, <3>1, <3>2, <3>3, <3>4 DEF ScanMoves, ScannedAs
  <2> QED BY <1>4, <2>1, <2>2
<1>5. disk'[f] \in Versions => disk'[f] <= mtime'[f]
  BY <1>1, <1>2, <1>3
<1>6. ASSUME NEW h \in Versions, Knows(f, h)' \/ ScannedAs(f, h)'
      PROVE  h <= mtime'[f] /\ (disk'[f] \in Versions => h <= disk'[f])
  BY <1>1, <1>2, <1>3, <1>4, <1>6
<1> QED BY <1>5, <1>6

LEMMA ScansAreLaterStep ==
    ASSUME Inductive, NothingNewer, ScansAreLater, CleanStart, [Next]_vars
    PROVE  ScansAreLater'
<1> SUFFICES ASSUME NEW f \in Files, NEW h \in Versions, NEW k \in Versions,
                    Knows(f, h)', ScannedAs(f, k)'
             PROVE  h <= k
  BY DEF ScansAreLater
<1>1. Knows(f, h) \/ (f \in storing /\ ScannedAs(f, h))
  BY KnowledgeMoves
<1>2. ScanMoves(f)
  BY ScansMove
<1>3. manifest # NoManifest /\ \A v \in Versions : v \in Nat /\ v # Blank
  BY MarkersAssumption, VersionsAreNumbers DEF Inductive, TypeOK
<1>4. CASE scanned[f] # NoEntry /\ scanned'[f].hash = scanned[f].hash
  <2>1. ScannedAs(f, k)
    BY <1>4 DEF ScannedAs
  <2>2. CASE Knows(f, h)
    BY <2>1, <2>2 DEF ScansAreLater
  <2>3. CASE ScannedAs(f, h)
    BY <1>3, <2>1, <2>3 DEF ScannedAs
  <2> QED BY <1>1, <2>2, <2>3
<1>5. CASE pc = "scan" /\ f \in unread
  <2>1. storing = {}
    BY <1>5 DEF Inductive, Phases
  <2>2. CASE disk[f] # NoFile /\ scanned'[f].hash = disk[f]
    BY <1>1, <2>1, <2>2 DEF NothingNewer, ScannedAs
  <2>3. CASE manifest[f] # NoEntry /\ scanned'[f].hash = manifest[f].hash
    <3>1. freshSaved = NoManifest /\ Records(saved, f, manifest[f].hash)
      BY <1>5, <2>3 DEF CleanStart
    <3>2. h = k
      BY <1>1, <2>1, <2>3, <3>1 DEF Knows, Records, ScannedAs
    <3> QED BY <1>3, <3>2
  <2> QED BY <1>2, <1>3, <1>4, <1>5, <2>2, <2>3 DEF ScanMoves, ScannedAs
<1> QED BY <1>2, <1>4, <1>5 DEF ScanMoves, ScannedAs

\* What can happen before the manifest of a pass is used: the pass starts, ends
\* or does not run, the files are listed, or they change.
LEMMA EarlySteps ==
    ASSUME Inductive, CleanStart, [Next]_vars, pc' \in {"idle", "scan"}
    PROVE  \/ Rest
           \/ /\ pc' = pc /\ UNCHANGED <<manifest, fresh, freshSaved, pending>>
              /\ pc = "idle" => scanned' = scanned
              /\ pc = "scan" => saved' = saved
           \/ \E K \in SUBSET (StartKinds \cap Faults) : StartPass(K)
<1> USE DEF world, durable, setup, scanVars, winVars, backVars, passVars
<1>1. CASE UNCHANGED vars
  BY <1>1 DEF vars
<1>2. CASE Crash \/ PreflightFails \/ DiscardRebuild \/ SaveFinal
  BY <1>2 DEF Crash, PreflightFails, DiscardRebuild, SaveFinal
<1>3. ASSUME NEW f \in Files, Write(f) \/ Delete(f) \/ SkipRead(f) \/ ReadFile(f) \/ ExtractionFails(f)
      PROVE  /\ pc' = pc /\ UNCHANGED <<manifest, fresh, freshSaved, pending, saved>>
             /\ pc = "idle" => scanned' = scanned
  BY <1>3 DEF Write, Delete, SkipRead, ReadFile, ExtractionFails
<1>4. ASSUME NEW f \in Files, StatFile(f)
      PROVE  pc = "scan" /\ pc' = pc /\ UNCHANGED <<manifest, fresh, freshSaved, pending, saved>>
  BY <1>4 DEF StatFile, Inductive, Phases
<1>5. CASE LoseManifest \/ LoseRows
  BY <1>5 DEF LoseManifest, LoseRows
<1>6. CASE Abort
  BY <1>6 DEF Abort
<1>8. CASE PreflightPasses \/ StaleRemoved \/ EndWindows \/ SweepDone \/ PromoteNothing \/ Promote
  BY <1>8 DEF PreflightPasses, StaleRemoved, EndWindows, SweepDone, PromoteNothing, Promote
<1>9. ASSUME NEW f \in Files, \/ RemoveStale(f) \/ RemoveEarly(f) \/ DedupFile(f) \/ UpsertFile(f)
                              \/ PurgeFile(f) \/ SweepFile(f)
      PROVE  FALSE
  BY <1>9 DEF RemoveStale, RemoveEarly, DedupFile, UpsertFile, PurgeFile, SweepFile, Inductive, Phases
<1>10. ASSUME NEW W \in SUBSET Files, NEW C \in SUBSET Files, NEW D \in SUBSET Files,
              PrepareWindow(W, C, D)
       PROVE  FALSE
  BY <1>10 DEF PrepareWindow
<1>11. ASSUME NEW missing \in SUBSET (Files \X Parts), EmbedWindow(missing) PROVE FALSE
  BY <1>11 DEF EmbedWindow, Inductive, Phases
<1>12. CASE LaunchStore \/ BulkAdd \/ RowsWritten \/ Commit
  BY <1>12 DEF LaunchStore, BulkAdd, RowsWritten, Commit, Inductive, Phases
<1>13. CASE CheckpointSave
  BY <1>13 DEF CheckpointSave, CleanStart
<1> QED BY <1>1, <1>2, <1>3, <1>4, <1>5, <1>6, <1>8, <1>9, <1>10, <1>11, <1>12, <1>13
        DEF Next, PassStep, Environment

LEMMA CleanStartStep ==
    ASSUME Inductive, CleanStart, [Next]_vars
    PROVE  CleanStart'
<1> SUFFICES ASSUME pc' \in {"idle", "scan"}
             PROVE  /\ freshSaved' = NoManifest /\ ~ pending'
                    /\ pc' = "idle" => scanned' = NoEntries
                    /\ pc' = "scan" => \A f \in Files :
                          manifest'[f] # NoEntry => Records(saved, f, manifest[f].hash)'
  BY DEF CleanStart
<1>1. CASE Rest
  BY <1>1 DEF Rest
<1>2. CASE /\ pc' = pc /\ UNCHANGED <<manifest, fresh, freshSaved, pending>>
           /\ pc = "idle" => scanned' = scanned
           /\ pc = "scan" => saved' = saved
  BY <1>2 DEF CleanStart, Records
<1>3. ASSUME NEW K \in SUBSET (StartKinds \cap Faults), StartPass(K)
      PROVE  /\ freshSaved' = NoManifest /\ ~ pending'
             /\ pc' = "idle" => scanned' = NoEntries
             /\ pc' = "scan" => \A f \in Files :
                   manifest'[f] # NoEntry => Records(saved, f, manifest[f].hash)'
  <2>0. pc = "idle"
    BY <1>3 DEF StartPass
  <2>1. CASE UNCHANGED vars \/ UNCHANGED <<disk, mtime, durable, passVars>>
    BY <2>0, <2>1 DEF vars, passVars, scanVars, CleanStart
  <2>2. ASSUME NEW where \in {"inplace", "temp", "epoch"}, NEW m \in Manifest, NEW count, NEW force \in BOOLEAN,
               Begin(where, m, count, force),
               \A f \in Files : m[f] = NoEntry \/ (Records(saved, f, m[f].hash) /\ m[f] = saved[f])
        PROVE  /\ freshSaved' = NoManifest /\ ~ pending'
               /\ pc' = "idle" => scanned' = NoEntries
               /\ pc' = "scan" => \A f \in Files :
                     manifest'[f] # NoEntry => Records(saved, f, manifest[f].hash)'
    BY <2>0, <2>2 DEF Begin, CleanStart, Records, durable
  <2> QED BY <1>3, <2>1, <2>2, StartsMove DEF Inductive
<1> QED BY <1>1, <1>2, <1>3, EarlySteps

\* New content stays new.
LEMMA NewContentStays ==
    ASSUME Inductive, NothingNewer, "revert" \notin Edits, [Next]_vars, NEW f \in Files,
           NewContent(f), \A h \in Versions : ~ ScannedAs(f, h)
    PROVE  NewContent(f)'
<1> SUFFICES ASSUME disk'[f] \in Versions, NEW h \in Versions, Knows(f, h)'
             PROVE  h < disk'[f]
  BY DEF NewContent
<1>1. Knows(f, h)
  BY KnowledgeMoves
<1>2. \/ disk'[f] = disk[f]
      \/ disk'[f] = mtime[f] + 1
  BY FilesMove, VersionsAreNumbers DEF Inductive
<1>3. h <= mtime[f] /\ mtime[f] \in Nat /\ h \in Nat
  BY <1>1, VersionsAreNumbers DEF NothingNewer, Inductive
<1> QED BY <1>1, <1>2, <1>3 DEF NewContent

\* Files leave the list of the walk when they are scanned.
LEMMA UnreadMoves ==
    ASSUME Inductive, [Next]_vars
    PROVE  \/ unread' = unread /\ (pc = "idle" => pc' = "idle")
           \/ pc' = "idle"
           \/ \E K \in SUBSET (StartKinds \cap Faults) : StartPass(K)
           \/ pc = "scan" /\ \E g \in Files : unread' = unread \ {g} /\ g \in Scanned'
<1> USE DEF world, durable, setup, scanVars, winVars, backVars, passVars, Inductive
<1>1. CASE UNCHANGED vars
  BY <1>1 DEF vars
<1>2. CASE Crash \/ PreflightFails \/ DiscardRebuild \/ SaveFinal
  BY <1>2 DEF Crash, PreflightFails, DiscardRebuild, SaveFinal, Rest
<1>3. ASSUME NEW g \in Files, SkipRead(g) \/ ReadFile(g) \/ ExtractionFails(g)
      PROVE  pc = "scan" /\ unread' = unread \ {g} /\ g \in Scanned'
  <2>1. pc = "scan" /\ g \in unread /\ unread' = unread \ {g}
    BY <1>3 DEF SkipRead, ReadFile, ExtractionFails
  <2>2. scanned'[g] # NoEntry
    BY <1>3, ReadsTell, MarkersAssumption DEF TypeOK
  <2> QED BY <2>1, <2>2 DEF Scanned
<1>4. ASSUME NEW f \in Files, Write(f) \/ Delete(f) \/ StatFile(f) \/ RemoveStale(f) \/ RemoveEarly(f)
                              \/ DedupFile(f) \/ UpsertFile(f) \/ PurgeFile(f) \/ SweepFile(f)
      PROVE  unread' = unread /\ (pc = "idle" => pc' = "idle")
  BY <1>4 DEF Write, Delete, StatFile, RemoveStale, RemoveEarly, DedupFile, UpsertFile, PurgeFile, SweepFile
<1>5. CASE LoseManifest \/ LoseRows \/ Abort \/ CheckpointSave
  BY <1>5 DEF LoseManifest, LoseRows, Abort, CheckpointSave
<1>6. CASE PreflightPasses \/ StaleRemoved \/ EndWindows \/ SweepDone \/ PromoteNothing \/ Promote
  BY <1>6 DEF PreflightPasses, ScanDone, StaleRemoved, EndWindows, WindowsDone, SweepDone, PromoteNothing, Promote
<1>7. ASSUME NEW W \in SUBSET Files, NEW C \in SUBSET Files, NEW D \in SUBSET Files,
             PrepareWindow(W, C, D)
      PROVE  unread' = unread /\ (pc = "idle" => pc' = "idle")
  BY <1>7 DEF PrepareWindow
<1>8. ASSUME NEW missing \in SUBSET (Files \X Parts), EmbedWindow(missing)
      PROVE  unread' = unread /\ (pc = "idle" => pc' = "idle")
  BY <1>8 DEF EmbedWindow
<1>9. CASE LaunchStore \/ BulkAdd \/ RowsWritten \/ Commit
  BY <1>9 DEF LaunchStore, BulkAdd, RowsWritten, Commit
<1> QED BY <1>1, <1>2, <1>3, <1>4, <1>5, <1>6, <1>7, <1>8, <1>9 DEF Next, PassStep, Environment

LEMMA MissedFilesAreNewStep ==
    ASSUME Inductive, Past, "revert" \notin Edits, [Next]_vars
    PROVE  MissedFilesAreNew'
<1> USE DEF Past
<1>1. ASSUME NEW f \in Files, pc' # "idle", f \notin (Scanned \cup unread)'
      PROVE  NewContent(f)'
  <2>1. CASE pc # "idle" /\ f \notin unread
    <3>1. f \notin Scanned
      BY <1>1, ScansMove DEF ScanMoves, Scanned
    <3>2. NewContent(f) /\ \A h \in Versions : ~ ScannedAs(f, h)
      BY <2>1, <3>1 DEF MissedFilesAreNew, ScannedAs, Scanned
    <3> QED BY <3>2, NewContentStays
  <2>2. ASSUME NEW K \in SUBSET (StartKinds \cap Faults), StartPass(K) PROVE NewContent(f)'
    <3>1. pc = "idle" /\ disk' = disk
      BY <2>2 DEF StartPass
    <3>2. CASE UNCHANGED vars \/ UNCHANGED <<disk, mtime, durable, passVars>>
      BY <1>1, <3>1, <3>2 DEF vars, passVars
    <3>3. ASSUME NEW where, NEW m, NEW count, NEW force \in BOOLEAN, Begin(where, m, count, force) PROVE NewContent(f)'
      <4>1. disk'[f] = NoFile
        BY <1>1, <3>1, <3>3 DEF Begin
      <4> QED BY <4>1, VersionsAreNumbers DEF NewContent, Inductive
    <3> QED BY <2>2, <3>2, <3>3, StartsMove DEF Inductive
  <2> QED BY <1>1, <2>1, <2>2, UnreadMoves
<1>2. ASSUME NEW f \in Files, f \in Scanned', scanned'[f].hash \notin Versions, manifest'[f] # NoEntry
      PROVE  NewContent(f)'
  <2>1. ScanMoves(f) /\ scanned'[f] # NoEntry
    BY <1>2, ScansMove DEF Scanned
  <2>2. CASE scanned[f] # NoEntry /\ scanned'[f].hash = scanned[f].hash
    <3>1. f \in Scanned /\ scanned[f].hash \notin Versions
      BY <1>2, <2>2 DEF Scanned
    <3>2. f \notin storing /\ pc # "idle"
      BY <2>2, <3>1 DEF Inductive, InFlight, CleanStart, NoEntries
    <3>3. manifest[f] # NoEntry
      BY <1>2, <3>2, EntriesMove DEF EntryMoves, Complete
    <3>4. NewContent(f) /\ \A h \in Versions : ~ ScannedAs(f, h)
      BY <3>1, <3>3 DEF MissedFilesAreNew, ScannedAs
    <3> QED BY <3>4, NewContentStays
  <2>3. CASE UNCHANGED <<disk, manifest>>
    <3>1. manifest[f] # NoEntry => manifest[f].hash \in Versions
      BY DEF Inductive, TypeOK, Manifest, Entry
    <3>2. CASE scanned'[f].hash = disk[f]
      BY <1>2, <2>3, <3>2 DEF NewContent
    <3> QED BY <1>2, <2>1, <2>2, <2>3, <3>1, <3>2 DEF ScanMoves
  <2> QED BY <2>1, <2>2, <2>3 DEF ScanMoves
<1> QED BY <1>1, <1>2 DEF MissedFilesAreNew

LEMMA PastInit == Init => Past
<1> SUFFICES ASSUME Init PROVE Past
  OBVIOUS
<1>1. \A f \in Files : NoEntries[f] = NoEntry
  BY DEF NoEntries
<1>2. \A f \in Files, h \in Versions : ~ Knows(f, h) /\ ~ ScannedAs(f, h)
  BY <1>1 DEF Init, Knows, Records, ScannedAs
<1>3. \A f \in Files : disk[f] \in Versions => disk[f] <= mtime[f]
  BY MarkersAssumption, BoundsAssumption DEF Init, Versions
<1>4. NothingNewer /\ ScansAreLater
  BY <1>2, <1>3 DEF NothingNewer, ScansAreLater
<1>5. CleanStart /\ MissedFilesAreNew
  BY <1>1 DEF Init, CleanStart, MissedFilesAreNew, Scanned
<1> QED BY <1>4, <1>5 DEF Past

LEMMA PastStep ==
    ASSUME Inductive, Past, "revert" \notin Edits, [Next]_vars
    PROVE  Past'
  BY NothingNewerStep, ScansAreLaterStep, CleanStartStep, MissedFilesAreNewStep DEF Past

-----------------------------------------------------------------------------
(* Files whose content is recorded keep their rows *)

\* No pass takes a store for empty that is not, unless it builds the index anew
\* somewhere else: a count() that timed out comes neither with a failed integrity
\* probe nor with a forced rebuild that has no dimension for its target.
EmptyMeansEmpty ==
    \A K \in SUBSET (StartKinds \cap Faults) :
        "countTimeout" \in K /\ Cardinality(K) <= MaxFaults =>
            "corrupt" \notin K /\ ~ ({"force", "noDimension"} \subseteq K)

\* A file that leaves the index has no entry, or nothing to index.
RemovalsAreDue ==
    \A f \in Files :
        /\ f \in purge => manifest[f] = NoEntry
        /\ prep[f] = "remove" => manifest[f] = NoEntry \/ scanned[f].hash \notin Versions

\* Every description succeeded.
Described ==
    /\ descFailed = {}
    /\ \A f \in Files, m \in {manifest, saved, freshSaved} :
          m # NoManifest /\ m[f] # NoEntry => ~ m[f].descFailed

\* The pass has no entry for the file and writes its rows from nothing.
Relearned(f) ==
    /\ manifest[f] = NoEntry
    /\ f \notin written => rows[f] = {}
    /\ f \in written \cap storing => rows[f] \subseteq NewRows(f)

\* A pass into the store itself knows of every file what the saved manifest
\* knows, or it writes the file's rows from nothing.
Remembered ==
    mode = "inplace" /\ pc # "idle" => \A f \in Files :
        disk[f] \in Versions /\ Records(saved, f, disk[f]) =>
            Records(manifest, f, disk[f]) \/ Relearned(f)

\* How a pass into the store itself changes the rows of one file.
RowsMove(f) ==
    \/ rows'[f] = rows[f]
    \/ rows'[f] = {} /\ (RemoveStale(f) \/ RemoveEarly(f) \/ PurgeFile(f) \/ SweepFile(f) \/ LoseRows)
    \/ f \in storing /\ rows'[f] \in {rows[f] \cup NewRows(f), NewRows(f)}

LEMMA RowsMoveInPlace ==
    ASSUME Inductive, [Next]_vars, mode = "inplace", NEW f \in Files
    PROVE  RowsMove(f)
<1> USE DEF world, durable, setup, scanVars, winVars, backVars, passVars, Inductive, RowsMove
<1>1. CASE UNCHANGED vars
  BY <1>1 DEF vars
<1>2. ASSUME NEW K \in SUBSET (StartKinds \cap Faults), StartPass(K) PROVE RowsMove(f)
  BY <1>2 DEF StartPass, Begin
<1>3. CASE Crash \/ PreflightFails \/ DiscardRebuild \/ SaveFinal \/ LoseManifest \/ Abort
  BY <1>3 DEF Crash, PreflightFails, DiscardRebuild, SaveFinal, LoseManifest, Abort
<1>4. CASE LoseRows
  BY <1>4 DEF LoseRows, NoRows
<1>5. ASSUME NEW g \in Files, \/ Write(g) \/ Delete(g) \/ SkipRead(g) \/ ReadFile(g) \/ StatFile(g)
                              \/ ExtractionFails(g)
      PROVE  RowsMove(f)
  BY <1>5 DEF Write, Delete, SkipRead, ReadFile, StatFile, ExtractionFails
<1>6. ASSUME NEW g \in Files, RemoveStale(g) \/ RemoveEarly(g) \/ PurgeFile(g) \/ SweepFile(g)
      PROVE  RowsMove(f)
  <2>1. rows' = [rows EXCEPT ![g] = {}]
    BY <1>6 DEF RemoveStale, RemoveEarly, PurgeFile, SweepFile, SetTarget, Target
  <2> QED BY <1>6, <2>1 DEF TypeOK, Table
<1>7. ASSUME NEW g \in Files, DedupFile(g) \/ UpsertFile(g) PROVE RowsMove(f)
  <2>1. g \in storing /\ \E r \in {rows[g] \cup NewRows(g), NewRows(g)} : rows' = [rows EXCEPT ![g] = r]
    BY <1>7 DEF DedupFile, UpsertFile, SetTarget, Target, Places
  <2> QED BY <2>1 DEF TypeOK, Table
<1>8. CASE BulkAdd
  BY <1>8 DEF BulkAdd, SetTarget, Target
<1>9. CASE \/ PreflightPasses \/ StaleRemoved \/ EndWindows \/ SweepDone \/ PromoteNothing \/ Promote
           \/ LaunchStore \/ RowsWritten \/ Commit \/ CheckpointSave
  BY <1>9 DEF PreflightPasses, StaleRemoved, EndWindows, SweepDone, PromoteNothing, Promote,
              LaunchStore, RowsWritten, Commit, CheckpointSave
<1>10. ASSUME NEW W \in SUBSET Files, NEW C \in SUBSET Files, NEW D \in SUBSET Files,
              PrepareWindow(W, C, D)
       PROVE  RowsMove(f)
  BY <1>10 DEF PrepareWindow
<1>11. ASSUME NEW missing \in SUBSET (Files \X Parts), EmbedWindow(missing) PROVE RowsMove(f)
  BY <1>11 DEF EmbedWindow
<1> QED BY <1>1, <1>2, <1>3, <1>4, <1>5, <1>6, <1>7, <1>8, <1>9, <1>10, <1>11
        DEF Next, PassStep, Environment

\* What is being stored changes when a window is handed over and when it is done.
WorkMoves(f) ==
    \/ LaunchStore \/ Commit
    \/ /\ UNCHANGED <<written, storing>>
       /\ f \in storing => emb'[f] = emb[f] /\ scanned'[f].hash = scanned[f].hash

LEMMA WorkMovesInPass ==
    ASSUME Inductive, [Next]_vars, pc' # "idle", NEW f \in Files
    PROVE  WorkMoves(f)
<1> USE DEF world, durable, setup, scanVars, winVars, backVars, passVars, Inductive, WorkMoves
<1>0. scanned' = scanned => scanned'[f].hash = scanned[f].hash
  OBVIOUS
<1>1. CASE UNCHANGED vars
  BY <1>1 DEF vars
<1>2. ASSUME NEW K \in SUBSET (StartKinds \cap Faults), StartPass(K) PROVE WorkMoves(f)
  BY <1>2 DEF StartPass, Begin
<1>3. CASE Crash \/ PreflightFails \/ DiscardRebuild \/ SaveFinal
  BY <1>3 DEF Crash, PreflightFails, DiscardRebuild, SaveFinal, Rest
<1>4. CASE LoseManifest \/ Abort \/ LoseRows
  BY <1>4 DEF LoseManifest, Abort, LoseRows
<1>5. ASSUME NEW g \in Files, Write(g) \/ Delete(g) \/ RemoveStale(g) \/ RemoveEarly(g) \/ PurgeFile(g)
                              \/ SweepFile(g) \/ DedupFile(g) \/ UpsertFile(g)
      PROVE  WorkMoves(f)
  BY <1>5 DEF Write, Delete, RemoveStale, RemoveEarly, PurgeFile, SweepFile, DedupFile, UpsertFile
<1>6. ASSUME NEW g \in Files, SkipRead(g) \/ ReadFile(g) \/ StatFile(g) \/ ExtractionFails(g)
      PROVE  WorkMoves(f)
  <2>1. storing = {}
    BY <1>6 DEF SkipRead, ReadFile, StatFile, ExtractionFails, Phases
  <2> QED BY <1>6, <2>1 DEF SkipRead, ReadFile, StatFile, ExtractionFails
<1>7. CASE \/ PreflightPasses \/ StaleRemoved \/ EndWindows \/ SweepDone \/ PromoteNothing \/ Promote
           \/ RowsWritten \/ CheckpointSave \/ BulkAdd
  BY <1>7 DEF PreflightPasses, StaleRemoved, EndWindows, SweepDone, PromoteNothing, Promote,
              RowsWritten, CheckpointSave, BulkAdd
<1>8. ASSUME NEW W \in SUBSET Files, NEW C \in SUBSET Files, NEW D \in SUBSET Files,
             PrepareWindow(W, C, D)
      PROVE  WorkMoves(f)
  BY <1>8 DEF PrepareWindow
<1>9. ASSUME NEW missing \in SUBSET (Files \X Parts), EmbedWindow(missing) PROVE WorkMoves(f)
  <2>1. f \in storing => emb'[f] = emb[f]
    BY <1>9 DEF EmbedWindow, Places, Window
  <2> QED BY <1>9, <2>1 DEF EmbedWindow
<1> QED BY <1>1, <1>2, <1>3, <1>4, <1>5, <1>6, <1>7, <1>8, <1>9 DEF Next, PassStep, Environment

\* Within a pass the mode stays, and a pass into the store itself saves its own
\* manifest only.
LEMMA SavesInPlace ==
    ASSUME Inductive, [Next]_vars, pc # "idle", pc' # "idle"
    PROVE  /\ mode' = mode /\ dedup' = dedup
           /\ mode = "inplace" => saved' = saved \/ (saved' = manifest /\ manifest' = manifest)
<1> USE DEF world, durable, setup, scanVars, winVars, backVars, passVars
<1>1. CASE UNCHANGED vars
  BY <1>1 DEF vars
<1>2. ASSUME NEW K \in SUBSET (StartKinds \cap Faults), StartPass(K) PROVE FALSE
  BY <1>2 DEF StartPass
<1>3. CASE Crash \/ PreflightFails \/ DiscardRebuild \/ SaveFinal
  BY <1>3 DEF Crash, PreflightFails, DiscardRebuild, SaveFinal, Rest
<1>4. CASE LoseManifest \/ Abort \/ LoseRows
  BY <1>4 DEF LoseManifest, Abort, LoseRows
<1>5. ASSUME NEW g \in Files, Write(g) \/ Delete(g) \/ RemoveStale(g) \/ RemoveEarly(g) \/ PurgeFile(g)
                              \/ SweepFile(g) \/ DedupFile(g) \/ UpsertFile(g)
      PROVE  UNCHANGED <<mode, dedup, saved>>
  BY <1>5 DEF Write, Delete, RemoveStale, RemoveEarly, PurgeFile, SweepFile, DedupFile, UpsertFile
<1>6. ASSUME NEW g \in Files, SkipRead(g) \/ ReadFile(g) \/ StatFile(g) \/ ExtractionFails(g)
      PROVE  UNCHANGED <<mode, dedup, saved>>
  BY <1>6 DEF SkipRead, ReadFile, StatFile, ExtractionFails
<1>7. CASE \/ PreflightPasses \/ StaleRemoved \/ EndWindows \/ SweepDone \/ PromoteNothing
           \/ RowsWritten \/ BulkAdd \/ LaunchStore \/ Commit
  BY <1>7 DEF PreflightPasses, StaleRemoved, EndWindows, SweepDone, PromoteNothing,
              RowsWritten, BulkAdd, LaunchStore, Commit
<1>8. CASE Promote \/ CheckpointSave
  BY <1>8 DEF Promote, CheckpointSave
<1>9. ASSUME NEW W \in SUBSET Files, NEW C \in SUBSET Files, NEW D \in SUBSET Files,
             PrepareWindow(W, C, D)
      PROVE  UNCHANGED <<mode, dedup, saved>>
  BY <1>9 DEF PrepareWindow
<1>10. ASSUME NEW missing \in SUBSET (Files \X Parts), EmbedWindow(missing)
       PROVE  UNCHANGED <<mode, dedup, saved>>
  BY <1>10 DEF EmbedWindow
<1> QED BY <1>1, <1>2, <1>3, <1>4, <1>5, <1>6, <1>7, <1>8, <1>9, <1>10 DEF Next, PassStep, Environment

\* How what becomes of a file of the front window, and what is purged, change,
\* and the descriptions that failed.
OutcomeMoves(f) ==
    /\ descFailed' \subseteq descFailed \/ "describe" \in Faults
    /\ \/ /\ f \in purge' => f \in purge \/ manifest'[f] = NoEntry
          /\ prep'[f] = "remove" => prep[f] = "remove"
       \/ /\ UNCHANGED <<purge, manifest, scanned>>
          /\ prep'[f] = "remove" => manifest[f] = NoEntry \/ scanned[f].hash \notin Versions

LEMMA OutcomesMove ==
    ASSUME Inductive, [Next]_vars, NEW f \in Files
    PROVE  OutcomeMoves(f)
<1> USE DEF world, durable, setup, scanVars, winVars, backVars, passVars, Inductive, OutcomeMoves
<1>1. CASE UNCHANGED vars
  BY <1>1 DEF vars
<1>2. ASSUME NEW K \in SUBSET (StartKinds \cap Faults), StartPass(K) PROVE OutcomeMoves(f)
  BY <1>2 DEF StartPass, Begin
<1>3. CASE Crash \/ PreflightFails \/ DiscardRebuild \/ SaveFinal
  BY <1>3 DEF Crash, PreflightFails, DiscardRebuild, SaveFinal, Rest
<1>4. CASE LoseManifest \/ Abort \/ LoseRows
  BY <1>4 DEF LoseManifest, Abort, LoseRows
<1>5. ASSUME NEW g \in Files, Write(g) \/ Delete(g) \/ RemoveStale(g) \/ PurgeFile(g)
                              \/ SweepFile(g) \/ DedupFile(g) \/ UpsertFile(g)
      PROVE  OutcomeMoves(f)
  BY <1>5 DEF Write, Delete, RemoveStale, PurgeFile, SweepFile, DedupFile, UpsertFile
<1>6. ASSUME NEW g \in Files, SkipRead(g) \/ ReadFile(g) \/ StatFile(g) \/ ExtractionFails(g)
      PROVE  OutcomeMoves(f)
  BY <1>6 DEF SkipRead, ReadFile, StatFile, ExtractionFails
<1>7. ASSUME NEW g \in Files, RemoveEarly(g) PROVE OutcomeMoves(f)
  BY <1>7 DEF RemoveEarly, TypeOK
<1>8. CASE \/ PreflightPasses \/ StaleRemoved \/ EndWindows \/ SweepDone \/ PromoteNothing
           \/ RowsWritten \/ BulkAdd \/ LaunchStore \/ Commit \/ Promote \/ CheckpointSave
  BY <1>8 DEF PreflightPasses, StaleRemoved, EndWindows, SweepDone, PromoteNothing,
              RowsWritten, BulkAdd, LaunchStore, Commit, Promote, CheckpointSave
<1>9. ASSUME NEW W \in SUBSET Files, NEW C \in SUBSET Files, NEW D \in SUBSET Files,
             PrepareWindow(W, C, D)
      PROVE  OutcomeMoves(f)
  <2>1. prep'[f] = "remove" => Outcome(f, C) = "remove"
    BY <1>9 DEF PrepareWindow
  <2>2. Outcome(f, C) = "remove" => manifest[f] = NoEntry \/ scanned[f].hash \notin Versions
    BY MarkersAssumption DEF Outcome
  <2>3. D = {} \/ "describe" \in Faults
    BY <1>9 DEF PrepareWindow, Inject, Injectable
  <2> QED BY <1>9, <2>1, <2>2, <2>3 DEF PrepareWindow
<1>10. ASSUME NEW missing \in SUBSET (Files \X Parts), EmbedWindow(missing) PROVE OutcomeMoves(f)
  BY <1>10 DEF EmbedWindow
<1> QED BY <1>1, <1>2, <1>3, <1>4, <1>5, <1>6, <1>7, <1>8, <1>9, <1>10 DEF Next, PassStep, Environment

LEMMA RemovalsStep ==
    ASSUME Inductive, RemovalsAreDue, [Next]_vars
    PROVE  RemovalsAreDue'
<1> SUFFICES ASSUME NEW f \in Files
             PROVE  /\ f \in purge' => manifest'[f] = NoEntry
                    /\ prep'[f] = "remove" => manifest'[f] = NoEntry \/ scanned'[f].hash \notin Versions
  BY DEF RemovalsAreDue
<1>1. OutcomeMoves(f) /\ EntryMoves(f) /\ ScanMoves(f)
  BY OutcomesMove, EntriesMove, ScansMove
<1>2. CASE /\ UNCHANGED <<purge, manifest, scanned>>
           /\ prep'[f] = "remove" => manifest[f] = NoEntry \/ scanned[f].hash \notin Versions
  BY <1>2 DEF RemovalsAreDue
<1>3. ASSUME f \in purge, manifest[f] = NoEntry, f \in purge' PROVE manifest'[f] = NoEntry
  <2>1. f \in storing /\ pc # "idle"
    BY <1>3 DEF Inductive, Places, Phases
  <2>2. ~ Commit
    BY <1>3 DEF Commit
  <2> QED BY <1>1, <1>3, <2>1, <2>2 DEF EntryMoves
<1>4. ASSUME prep[f] = "remove", prep'[f] = "remove"
      PROVE  manifest'[f] = NoEntry \/ scanned'[f].hash \notin Versions
  <2>1. f \in Window /\ f \in Scanned /\ f \notin storing /\ pc = "windows" /\ front # "take"
    BY <1>4 DEF Inductive, Places, Phases, Window
  <2>2. pc' # "idle"
    BY <1>4, InductiveStep DEF Inductive, Phases, Window
  <2>3. scanned'[f].hash = scanned[f].hash
    BY <1>1, <2>1, <2>2 DEF ScanMoves, Scanned
  <2>4. manifest[f] = NoEntry => manifest'[f] = NoEntry
    BY <1>1, <2>1 DEF EntryMoves, Complete
  <2> QED BY <1>4, <2>3, <2>4 DEF RemovalsAreDue
<1> QED BY <1>1, <1>2, <1>3, <1>4 DEF OutcomeMoves, RemovalsAreDue

LEMMA DescribedStep ==
    ASSUME Inductive, Described, "describe" \notin Faults, [Next]_vars
    PROVE  Described'
<1>1. descFailed' = {}
  BY FilesAssumption, OutcomesMove DEF Described, OutcomeMoves
<1>2. ASSUME NEW f \in Files, manifest'[f] # NoEntry PROVE ~ manifest'[f].descFailed
  <2>1. manifest # NoManifest /\ (manifest[f] # NoEntry => manifest[f] \in Entry)
    BY MarkersAssumption DEF Inductive, TypeOK, Manifest
  <2>2. manifest[f] # NoEntry => ~ manifest[f].descFailed
    BY <2>1 DEF Described
  <2>3. CASE Records(saved, f, manifest'[f].hash) /\ manifest'[f] = saved[f]
    BY <2>3 DEF Described, Records
  <2>4. CASE manifest'[f] = NewEntry(f)
    <3>1. (f \in descFailed) = FALSE
      BY DEF Described
    <3>2. manifest'[f] = [hash |-> scanned[f].hash, mtime |-> scanned[f].mtime, descFailed |-> FALSE]
      BY <2>4, <3>1, Zenon DEF NewEntry
    <3> QED BY <3>2
  <2>5. CASE manifest[f] # NoEntry /\ manifest'[f] = [manifest[f] EXCEPT !.mtime = scanned[f].mtime]
    BY <2>1, <2>2, <2>5 DEF Entry
  <2> QED BY <1>2, <2>2, <2>3, <2>4, <2>5, EntriesMove DEF EntryMoves
<1>3. ASSUME NEW f \in Files, NEW m \in {saved', freshSaved'}, m # NoManifest, m[f] # NoEntry
      PROVE  ~ m[f].descFailed
  BY <1>3, SavesMove DEF Described
<1> QED BY <1>1, <1>2, <1>3 DEF Described

\* What the saved manifest knows of a file's content is what the file has now.
\* The scan cannot have found anything else that is content.
LEMMA KnownContent ==
    ASSUME Inductive, Past, NEW f \in Files, disk[f] \in Versions, Knows(f, disk[f])
    PROVE  /\ scanned[f] # NoEntry /\ scanned[f].hash \in Versions => scanned[f].hash = disk[f]
           /\ ~ NewContent(f)
<1>1. \A h \in Versions : h \in Nat
  BY VersionsAreNumbers DEF Inductive
<1>2. ASSUME scanned[f] # NoEntry, scanned[f].hash \in Versions PROVE scanned[f].hash = disk[f]
  <2>1. disk[f] <= scanned[f].hash /\ scanned[f].hash <= disk[f]
    BY <1>2 DEF Past, ScansAreLater, NothingNewer, ScannedAs
  <2> QED BY <1>1, <1>2, <2>1
<1>3. ~ NewContent(f)
  BY <1>1 DEF NewContent
<1> QED BY <1>2, <1>3

\* A store of which no row is found is empty.
LEMMA NoRowsCounted ==
    ASSUME TypeOK, Cardinality(RowsOf(rows)) = 0
    PROVE  \A f \in Files : rows[f] = {}
<1>1. IsFiniteSet(Versions)
  BY FS_Interval, BoundsAssumption DEF Versions
<1>2. IsFiniteSet(Files \X (Versions \X Parts))
  BY <1>1, FilesAssumption, PartsAssumption, FS_Product
<1>3. RowsOf(rows) \subseteq Files \X (Versions \X Parts)
  BY DEF RowsOf
<1>4. RowsOf(rows) = {}
  BY <1>2, <1>3, FS_Subset, FS_EmptySet
<1>5. \A f \in Files, v \in Versions \X Parts : v \in rows[f] => <<f, v>> \in RowsOf(rows)
  BY DEF RowsOf
<1> QED BY <1>4, <1>5 DEF TypeOK, Table

\* What a pass into the store itself starts with.
LEMMA StartRemembers ==
    ASSUME Inductive, Described, EmptyMeansEmpty, NEW K \in SUBSET (StartKinds \cap Faults), StartPass(K),
           mode' = "inplace", pc' # "idle", NEW f \in Files, NEW h, Records(saved, f, h)
    PROVE  Records(manifest, f, h)' \/ (manifest'[f] = NoEntry /\ rows[f] = {})
<1> DEFINE m0 == DropFailedDescriptions(IF saved = NoManifest THEN NoEntries ELSE saved)
           m1 == IF saved # NoManifest /\ "force" \notin K THEN ResumeCheck(m0) ELSE m0
           count == IF "countTimeout" \in K THEN 0 ELSE Cardinality(RowsOf(rows))
           lost == ("corrupt" \in K /\ m1 # NoEntries) \/ DataLost(m1, count)
           mismatch == "mismatch" \in K /\ K \cap {"force", "noDimension"} = {}
           ok == saved # NoManifest /\ "force" \notin K /\ ~ lost /\ ~ mismatch
           rebuild == "force" \in K \/ (~ ok /\ (count > 0 \/ mismatch))
<1>1. saved # NoManifest /\ saved[f] # NoEntry /\ saved[f].hash = h /\ pc = "idle"
  BY DEF Records, StartPass
<1>2. m0[f] = saved[f]
  BY <1>1 DEF DropFailedDescriptions, Described
<1>3. count \in Nat
  <2>1. IsFiniteSet(RowsOf(rows))
    <3>1. IsFiniteSet(Versions)
      BY FS_Interval, BoundsAssumption DEF Versions
    <3>2. IsFiniteSet(Files \X (Versions \X Parts))
      BY <3>1, FilesAssumption, PartsAssumption, FS_Product
    <3> QED BY <3>2, FS_Subset DEF RowsOf
  <2> QED BY <2>1, FS_CardinalityType
<1>4. ASSUME count = 0, "countTimeout" \notin K PROVE rows[f] = {}
  BY <1>4, NoRowsCounted DEF Inductive
<1>5. Cardinality(K) <= MaxFaults
  BY StartKindsFinite, BoundsAssumption DEF StartPass, Inductive, TypeOK
<1>6. "countTimeout" \in K => "corrupt" \notin K /\ ~ ({"force", "noDimension"} \subseteq K)
  BY <1>5 DEF EmptyMeansEmpty
<1>7. /\ pc = "idle"
      /\ \/ ~ rebuild /\ manifest' = IF ok THEN m1 ELSE NoEntries
         \/ rebuild /\ "noDimension" \in K /\ count = 0 /\ manifest' = NoEntries
  <2>1. \/ ~ rebuild /\ Begin("inplace", IF ok THEN m1 ELSE NoEntries, count, FALSE)
        \/ rebuild /\ Begin("epoch", NoEntries, count, "force" \in K)
        \/ rebuild /\ Begin("temp", NoEntries, count, "force" \in K)
        \/ rebuild /\ "noDimension" \in K /\ count = 0 /\ Begin("inplace", NoEntries, count, "force" \in K)
        \/ UNCHANGED passVars
    BY DEF StartPass
  <2> HIDE DEF m0, m1, count, lost, mismatch, ok, rebuild
  <2> QED BY <1>1, <2>1 DEF Begin, passVars
<1>8. CASE ok /\ manifest' = m1
  <2>1. m1[f] = IF rows[f] = {} THEN NoEntry ELSE saved[f]
    BY <1>2, <1>8 DEF ResumeCheck
  <2>2. manifest' # NoManifest
    BY InductiveStep, MarkersAssumption DEF Inductive, TypeOK, Next
  <2> QED BY <1>1, <1>8, <2>1, <2>2 DEF Records
<1>9. CASE ~ ok /\ ~ rebuild /\ manifest' = NoEntries
  <2>1. count = 0 /\ ~ mismatch /\ "force" \notin K
    BY <1>3, <1>9
  <2>2. lost
    BY <1>1, <1>9, <2>1
  <2>3. "corrupt" \in K
    BY <2>1, <2>2 DEF DataLost
  <2> QED BY <1>4, <1>6, <1>9, <2>1, <2>3 DEF NoEntries
<1>10. CASE rebuild /\ "noDimension" \in K /\ count = 0 /\ manifest' = NoEntries
  <2>1. "force" \in K \/ lost
    BY <1>1, <1>3, <1>10
  <2>2. "force" \in K
    BY <1>3, <1>10, <2>1
  <2> QED BY <1>4, <1>6, <1>10, <2>2 DEF NoEntries
<1> QED BY <1>7, <1>8, <1>9, <1>10

\* The invariant of a pass into the store itself.
GoodInv == Past /\ RemovalsAreDue /\ Described /\ Remembered

\* Where no new content can come from, what is known of a file is what it has.
LEMMA ContentStays ==
    ASSUME Inductive, Past, "revert" \notin Edits, [Next]_vars, NEW f \in Files,
           disk'[f] \in Versions, Knows(f, disk'[f]) \/ ScannedAs(f, disk'[f])
    PROVE  disk'[f] = disk[f]
<1>1. mtime[f] \in Nat /\ \A h \in Versions : h \in Nat
  BY VersionsAreNumbers DEF Inductive
<1>2. disk'[f] <= mtime[f]
  BY DEF Past, NothingNewer
<1> QED BY <1>1, <1>2, FilesMove, VersionsAreNumbers DEF Inductive

\* The rows of a file that is written from nothing are its new rows.
LEMMA RelearnedStep ==
    ASSUME Inductive, [Next]_vars, pc # "idle", pc' # "idle", mode = "inplace", NEW f \in Files,
           Relearned(f), manifest'[f] = NoEntry
    PROVE  Relearned(f)'
<1>1. RowsMove(f) /\ WorkMoves(f)
  BY RowsMoveInPlace, WorkMovesInPass
<1>2. emb[f] # {} /\ f \in storing => f \in written
  BY DEF Inductive, StoreProgress
<1>3. ASSUME UNCHANGED <<written, storing>>,
             f \in storing => emb'[f] = emb[f] /\ scanned'[f].hash = scanned[f].hash
      PROVE  Relearned(f)'
  <2>1. f \in storing => NewRows(f)' = NewRows(f)
    BY <1>3 DEF NewRows
  <2>2. CASE f \in storing /\ rows'[f] \in {rows[f] \cup NewRows(f), NewRows(f)}
    <3>1. CASE f \in written
      BY <1>3, <2>1, <2>2, <3>1 DEF Relearned
    <3>2. CASE f \notin written
      <4>1. NewRows(f) = {}
        BY <1>2, <2>2, <3>2 DEF NewRows
      <4> QED BY <1>3, <2>2, <3>2, <4>1 DEF Relearned
    <3> QED BY <3>1, <3>2
  <2>3. CASE rows'[f] = rows[f] \/ rows'[f] = {}
    BY <1>3, <2>1, <2>3 DEF Relearned
  <2> QED BY <1>1, <2>2, <2>3 DEF RowsMove
<1>4. CASE LaunchStore
  <2>1. rows' = rows /\ storing = {} /\ storing' \subseteq Window /\ written' \subseteq written \cup storing'
    BY <1>4 DEF LaunchStore, durable, Inductive, Phases
  <2>2. written \cap Window = {}
    BY DEF Inductive, Places
  <2>3. written \subseteq written'
    BY <1>4 DEF LaunchStore
  <2> QED BY <2>1, <2>2, <2>3 DEF Relearned
<1>5. CASE Commit
  BY <1>5 DEF Commit, Relearned, durable
<1> QED BY <1>1, <1>3, <1>4, <1>5 DEF WorkMoves

LEMMA RememberedStep ==
    ASSUME Inductive, GoodInv, EmptyMeansEmpty, "revert" \notin Edits, [Next]_vars
    PROVE  Remembered'
<1> USE DEF GoodInv
<1> SUFFICES ASSUME mode' = "inplace", pc' # "idle", NEW f \in Files,
                    disk'[f] \in Versions, Records(saved, f, disk[f])'
             PROVE  Records(manifest, f, disk[f])' \/ Relearned(f)'
  BY DEF Remembered
<1>d. PICK d \in Versions : d = disk'[f]
  OBVIOUS
<1>0. manifest # NoManifest /\ manifest' # NoManifest
  BY InductiveStep, MarkersAssumption DEF Inductive, TypeOK
<1>1. CASE pc = "idle"
  <2>1. PICK K \in SUBSET (StartKinds \cap Faults) : StartPass(K)
    BY <1>1, UnreadMoves
  <2>2. saved' = saved /\ rows' = rows /\ written' = written /\ storing' = storing
    BY <2>1 DEF StartPass, Begin, passVars, durable, backVars
  <2>3. written = {} /\ storing = {}
    BY <1>1 DEF Inductive, Phases
  <2>4. Records(saved, f, d)
    BY <1>d, <2>2 DEF Records
  <2>5. Records(manifest, f, d)' \/ (manifest'[f] = NoEntry /\ rows[f] = {})
    BY <2>1, <2>4, StartRemembers
  <2> QED BY <1>d, <2>2, <2>3, <2>5 DEF Relearned, Records
<1>2. CASE pc # "idle"
  <2>1. mode = "inplace" /\ (saved' = saved \/ (saved' = manifest /\ manifest' = manifest))
    BY <1>2, SavesInPlace
  <2>2. CASE saved' = manifest /\ manifest' = manifest
    BY <2>2 DEF Records
  <2>3. CASE saved' = saved
    <3>1. Records(saved, f, d) /\ Knows(f, d)
      BY <1>d, <2>3 DEF Records, Knows
    <3>2. disk[f] = d
      BY <1>d, <3>1, ContentStays
    <3>3. /\ scanned[f] # NoEntry /\ scanned[f].hash \in Versions => scanned[f].hash = d
          /\ ~ NewContent(f)
      BY <3>1, <3>2, KnownContent
    <3>4. Records(manifest, f, d) \/ Relearned(f)
      BY <1>2, <2>1, <3>1, <3>2 DEF Remembered
    <3>5. EntryMoves(f)
      BY EntriesMove
    <3>6. CASE Commit /\ f \in Complete /\ manifest'[f] = NewEntry(f)
      <4>1. scanned[f] # NoEntry /\ scanned[f].hash \in Versions
        BY <3>6 DEF Complete, Inductive, Places, InFlight, Scanned
      <4>2. NewEntry(f).hash = d
        BY <3>3, <4>1 DEF NewEntry
      <4>3. NewEntry(f) \in Entry
        BY <3>6, ScannedTyped DEF Complete, NewEntry, Entry, Inductive, Places, InFlight, TypeOK
      <4> QED BY <1>0, <1>d, <3>6, <4>2, <4>3, MarkersAssumption DEF Records
    <3>7. CASE /\ EndWindows /\ f \in Scanned /\ manifest[f] # NoEntry
               /\ manifest'[f] = [manifest[f] EXCEPT !.mtime = scanned[f].mtime]
      <4>1. scanned[f].mtime \in 0 .. MaxMtime /\ manifest[f] \in Entry
        BY <3>7, ScannedTyped DEF Inductive, TypeOK, Manifest
      <4>2. [manifest[f] EXCEPT !.mtime = scanned[f].mtime] \in Entry
            /\ [manifest[f] EXCEPT !.mtime = scanned[f].mtime].hash = manifest[f].hash
        BY <4>1 DEF Entry
      <4> QED BY <1>0, <1>d, <3>4, <3>7, <4>2, MarkersAssumption DEF Records, Relearned
    <3>8. CASE manifest'[f] = manifest[f]
      <4>1. CASE Relearned(f)
        BY <1>2, <2>1, <3>8, <4>1, RelearnedStep DEF Relearned
      <4> QED BY <1>0, <1>d, <3>4, <3>8, <4>1 DEF Records
    <3>9. CASE manifest'[f] = NoEntry /\ (RemoveStale(f) \/ RemoveEarly(f))
      <4>1. CASE Relearned(f)
        BY <1>2, <2>1, <3>9, <4>1, RelearnedStep
      <4>2. CASE manifest[f] # NoEntry /\ RemoveStale(f)
        <5>1. f \notin Scanned \cup unread
          BY <4>2 DEF RemoveStale, StalePaths, Inductive, Phases
        <5> QED BY <1>2, <3>3, <5>1 DEF Past, MissedFilesAreNew
      <4>3. CASE manifest[f] # NoEntry /\ RemoveEarly(f)
        <5>1. f \in Scanned /\ scanned[f].hash \notin Versions
          BY <4>3 DEF RemoveEarly, RemovalsAreDue, Inductive, Places, Window
        <5> QED BY <3>3, <4>3, <5>1 DEF Past, MissedFilesAreNew
      <4> QED BY <3>4, <3>9, <4>1, <4>2, <4>3 DEF Records
    <3> QED BY <1>2, <3>5, <3>6, <3>7, <3>8, <3>9 DEF EntryMoves
  <2> QED BY <2>1, <2>2, <2>3
<1> QED BY <1>1, <1>2

\* No step of a pass into the store itself changes the rows of a vouched file.
LEMMA VouchedStep ==
    ASSUME Inductive, GoodInv, [Next]_vars, NEW f \in Files, Vouched(f), mode = "inplace", pc # "idle"
    PROVE  rows'[f] = rows[f]
<1> USE DEF GoodInv
<1>1. /\ disk[f] \in Versions /\ Records(saved, f, disk[f]) /\ Knows(f, disk[f])
      /\ rows[f] = Full(disk[f]) /\ rows[f] # {}
  <2>1. \A c : Full(c) # {}
    <3>1. PICK p \in Parts : TRUE
      BY PartsAssumption
    <3>2. \A c : <<c, p>> \in Full(c)
      BY DEF Full
    <3> QED BY <3>2
  <2>2. disk[f] \in Versions /\ Records(saved, f, disk[f]) /\ rows[f] = Full(disk[f])
    BY DEF Vouched, Indexable, Records
  <2> QED BY <2>1, <2>2 DEF Knows
<1>2. /\ scanned[f] # NoEntry /\ scanned[f].hash \in Versions => scanned[f].hash = disk[f]
      /\ ~ NewContent(f)
  BY <1>1, KnownContent
<1>3. Records(manifest, f, disk[f]) \/ Relearned(f)
  BY <1>1 DEF Remembered
<1>4. RowsMove(f)
  BY RowsMoveInPlace
<1>5. ASSUME f \in storing, rows'[f] \in {rows[f] \cup NewRows(f), NewRows(f)}
      PROVE  rows'[f] = rows[f]
  <2>1. scanned[f].hash = disk[f] /\ ~ Unchanged(f)
    BY <1>2, <1>5 DEF Inductive, InFlight, Places, Scanned
  <2>2. Relearned(f)
    BY <1>3, <2>1 DEF Records, Unchanged
  <2>3. f \in written /\ rows[f] \subseteq NewRows(f)
    BY <1>1, <1>5, <2>2 DEF Relearned
  <2>4. NewRows(f) \subseteq Full(disk[f])
    BY <2>1 DEF NewRows, Full, Inductive, TypeOK
  <2> QED BY <1>1, <1>5, <2>3, <2>4
<1>6. ~ RemoveStale(f)
  <2>1. ASSUME RemoveStale(f) PROVE f \notin Scanned \cup unread
    BY <2>1 DEF RemoveStale, StalePaths, Inductive, Phases
  <2> QED BY <1>2, <2>1, pc # "idle" DEF Past, MissedFilesAreNew
<1>7. ~ RemoveEarly(f)
  <2> SUFFICES ASSUME RemoveEarly(f) PROVE FALSE
    OBVIOUS
  <2>1. f \in Scanned /\ f \notin written
    BY DEF RemoveEarly, Inductive, Places, Window
  <2>2. manifest[f] = NoEntry
    BY <1>2, <2>1 DEF RemoveEarly, RemovalsAreDue, Past, MissedFilesAreNew
  <2> QED BY <1>1, <1>3, <2>1, <2>2 DEF Records, Relearned
<1>8. ~ PurgeFile(f) /\ ~ SweepFile(f)
  <2>1. manifest[f] = NoEntry => f \in written
    BY <1>1, <1>3 DEF Records, Relearned
  <2>2. f \in purge => manifest[f] = NoEntry /\ f \notin written
    BY DEF RemovalsAreDue, Inductive, Places
  <2> QED BY <2>1, <2>2 DEF PurgeFile, SweepFile, Orphans
<1>9. ~ LoseRows
  BY DEF LoseRows
<1> QED BY <1>4, <1>5, <1>6, <1>7, <1>8, <1>9 DEF RowsMove

LEMMA GoodInit == Init => GoodInv
<1> SUFFICES ASSUME Init PROVE GoodInv
  OBVIOUS
<1>1. \A f \in Files : NoEntries[f] = NoEntry
  BY DEF NoEntries
<1>2. RemovalsAreDue /\ Described /\ Remembered
  BY <1>1 DEF Init, RemovalsAreDue, Described, Remembered
<1> QED BY <1>2, PastInit DEF GoodInv

\* A file whose content is the one the saved manifest records keeps its rows
\* through every pass into the store itself, whatever else fails: retries, crashes
\* and aborts cost nothing that was good.  Not covered are a file that gets an old
\* content back while a pass stores the new one, failed descriptions (a run shows
\* how they cost rows), and a count() that times out in a start that then takes
\* the store for empty.
THEOREM GoodRowsStay ==
    ASSUME "revert" \notin Edits, "describe" \notin Faults, EmptyMeansEmpty
    PROVE  Spec => GoodFilesKeepTheirRows
<1>1. GoodInv /\ Inductive /\ [Next]_vars => GoodInv'
  BY PastStep, RemovalsStep, DescribedStep, RememberedStep DEF GoodInv
<1>2. Spec => []GoodInv
  BY <1>1, GoodInit, InductiveInvariant, PTL DEF Spec
<1>3. GoodInv /\ Inductive /\ [Next]_vars =>
          [\A f \in Files : Vouched(f) /\ mode = "inplace" /\ pc # "idle" => rows'[f] = rows[f]]_vars
  BY VouchedStep
<1> QED BY <1>2, <1>3, InductiveInvariant, PTL DEF Spec, GoodFilesKeepTheirRows

-----------------------------------------------------------------------------
(* Files a scan skips are indexed *)

\* None of the faults and edits after which the code does skip a file that is not
\* indexed: an old entry gets the fingerprint of a content that was not stored, or
\* old rows stay beside the new.  (Counterexamples for single faults are in the
\* README; an epoch rebuild also saves its manifest before its rows are active.)
NothingMisleads ==
    /\ Backend = "lance" /\ "revert" \notin Edits
    /\ Faults \cap {"race", "embed", "chunk", "abort", "countTimeout"} = {}

\* What has a fingerprint that the file has too has the file's content.
Fits(f, e) == e.mtime <= mtime[f] /\ (e.mtime = mtime[f] /\ disk[f] # NoFile => e.hash = disk[f])

FingerprintsFit ==
    /\ unread \cap unstatted = {}
    /\ \A f \in Files :
          /\ disk[f] # NoFile => mtime[f] > 0
          /\ f \in Scanned => IF f \in unstatted THEN scanned[f].hash = disk[f] ELSE Fits(f, scanned[f])
          /\ \A m \in {manifest, saved, freshSaved} : m # NoManifest /\ m[f] # NoEntry => Fits(f, m[f])

\* Every text of a window gets its vector before the window is stored.
WholeFiles ==
    /\ ~ aborted /\ purge = {}
    /\ \A f \in storing : emb[f] = Parts /\ f \in written
    /\ front = "embedded" => \A f \in Window : prep[f] # "remove" /\ (prep[f] = "embed" => emb[f] = Parts)

\* A file the pass is done with has no entry, or that of what was scanned.
Settled ==
    pc = "windows" => \A f \in Scanned \ (todo \cup storing) :
        prep[f] \in {"none", "skip"} => manifest[f] = NoEntry \/ Unchanged(f)

\* A store that is not deduplicated had no rows; a file is stored with its new
\* rows and no others.  There is a target apart from the store in a rebuild only.
Exact ==
    /\ mode = "inplace" => fresh = NoRows /\ freshSaved = NoManifest
    /\ pc # "idle" /\ ~ dedup => \A f \in Files :
          f \notin written \/ (f \in storing /\ store = "insert") => Target[f] = {}
    /\ \A f \in storing : store \in {"purge", "commit"} \/ (store = "dedup" /\ f \notin queue) =>
          Target[f] = NewRows(f)

\* A file that the manifest m records as it is has all its rows or none.
TableTells(m, table) ==
    \A f \in Files : disk[f] \in Versions /\ Records(m, f, disk[f]) /\ table[f] # {} =>
        table[f] = Full(disk[f])

TablesTell ==
    /\ TableTells(saved, rows) /\ TableTells(manifest, Target) /\ TableTells(freshSaved, fresh)
    /\ pc = "save" /\ mode # "inplace" => rows = fresh

SkipInv == Past /\ FingerprintsFit /\ WholeFiles /\ Settled /\ Exact /\ TablesTell

\* How the fingerprint of one file comes about.
ScanFits(f) ==
    \/ scanned'[f] = scanned[f] /\ (f \in unstatted' <=> f \in unstatted)
    \/ f \notin Scanned'
    \/ /\ f \in unread /\ UNCHANGED <<disk, mtime>>
       /\ \/ FastPath(f) /\ scanned'[f] = [hash |-> manifest[f].hash, mtime |-> mtime[f]]
             /\ unstatted' = unstatted
          \/ disk[f] # NoFile /\ scanned'[f].hash = disk[f] /\ f \in unstatted'
          \/ /\ manifest[f] # NoEntry /\ unstatted' = unstatted
             /\ scanned'[f] = [hash |-> manifest[f].hash, mtime |-> manifest[f].mtime]
          \/ scanned'[f] = [hash |-> Blank, mtime |-> 0] /\ unstatted' = unstatted
    \/ /\ f \in unstatted /\ UNCHANGED <<disk, mtime>> /\ f \notin unstatted'
       /\ scanned'[f] = [scanned[f] EXCEPT !.mtime = IF disk[f] = NoFile THEN 0 ELSE mtime[f]]

LEMMA ScansFit ==
    ASSUME Inductive, [Next]_vars, NEW f \in Files
    PROVE  ScanFits(f) /\ (unread' \cap unstatted' \subseteq unread \cap unstatted \/ unstatted' = {})
<1> USE DEF world, durable, setup, scanVars, winVars, backVars, passVars, Inductive, ScanFits
<1>1. CASE UNCHANGED vars
  BY <1>1 DEF vars
<1>2. ASSUME NEW K \in SUBSET (StartKinds \cap Faults), StartPass(K)
      PROVE  scanned' = scanned /\ unstatted' = unstatted /\ unstatted = {}
  BY <1>2 DEF StartPass, Begin, Phases
<1>3. CASE Crash \/ PreflightFails \/ DiscardRebuild \/ SaveFinal
  BY <1>3 DEF Crash, PreflightFails, DiscardRebuild, SaveFinal, Rest, NoEntries, Scanned
<1>4. CASE LoseManifest \/ Abort \/ LoseRows
  BY <1>4 DEF LoseManifest, Abort, LoseRows
<1>5. ASSUME NEW g \in Files, Write(g) \/ Delete(g) \/ RemoveStale(g) \/ RemoveEarly(g) \/ PurgeFile(g)
                              \/ SweepFile(g) \/ DedupFile(g) \/ UpsertFile(g)
      PROVE  UNCHANGED <<unread, unstatted, scanned>>
  BY <1>5 DEF Write, Delete, RemoveStale, RemoveEarly, PurgeFile, SweepFile, DedupFile, UpsertFile
<1>6. ASSUME NEW g \in Files, SkipRead(g) PROVE ScanFits(f) /\ unread' \cap unstatted' \subseteq unread \cap unstatted
  BY <1>6 DEF SkipRead, TypeOK
<1>7. ASSUME NEW g \in Files, ReadFile(g) PROVE ScanFits(f) /\ unread' \cap unstatted' \subseteq unread \cap unstatted
  <2>1. scanned' = [scanned EXCEPT ![g] = [hash |-> disk[g], mtime |-> 0]]
        /\ unread' = unread \ {g} /\ unstatted' = unstatted \cup {g} /\ UNCHANGED <<disk, mtime>>
        /\ g \in unread /\ disk[g] # NoFile
    BY <1>7 DEF ReadFile
  <2>2. f # g => ScanFits(f)
    BY <2>1 DEF TypeOK
  <2>3. f = g => ScanFits(f)
    BY <2>1 DEF TypeOK
  <2> QED BY <2>1, <2>2, <2>3
<1>8. ASSUME NEW g \in Files, ExtractionFails(g)
      PROVE  ScanFits(f) /\ unread' \cap unstatted' \subseteq unread \cap unstatted
  BY <1>8 DEF ExtractionFails, TypeOK, Inject
<1>9. ASSUME NEW g \in Files, StatFile(g) PROVE ScanFits(f) /\ unread' \cap unstatted' \subseteq unread \cap unstatted
  BY <1>9 DEF StatFile, TypeOK
<1>10. CASE \/ PreflightPasses \/ StaleRemoved \/ EndWindows \/ SweepDone \/ PromoteNothing \/ Promote
            \/ RowsWritten \/ CheckpointSave \/ BulkAdd \/ LaunchStore \/ Commit
  BY <1>10 DEF PreflightPasses, StaleRemoved, EndWindows, SweepDone, PromoteNothing, Promote,
               RowsWritten, CheckpointSave, BulkAdd, LaunchStore, Commit
<1>11. ASSUME NEW W \in SUBSET Files, NEW C \in SUBSET Files, NEW D \in SUBSET Files,
              PrepareWindow(W, C, D)
       PROVE  UNCHANGED <<unread, unstatted, scanned>>
  BY <1>11 DEF PrepareWindow
<1>12. ASSUME NEW missing \in SUBSET (Files \X Parts), EmbedWindow(missing)
       PROVE  UNCHANGED <<unread, unstatted, scanned>>
  BY <1>12 DEF EmbedWindow
<1> QED BY <1>1, <1>2, <1>3, <1>4, <1>5, <1>6, <1>7, <1>8, <1>9, <1>10, <1>11, <1>12
        DEF Next, PassStep, Environment

LEMMA FitsStays ==
    ASSUME Inductive, "revert" \notin Edits, [Next]_vars, NEW f \in Files,
           NEW e, e.mtime \in 0 .. MaxMtime, Fits(f, e)
    PROVE  Fits(f, e)'
<1>1. \/ disk'[f] \in {disk[f], NoFile} /\ mtime'[f] = mtime[f]
      \/ mtime'[f] = mtime[f] + 1
  BY FilesMove DEF Inductive
<1>2. mtime[f] \in Nat /\ e.mtime \in Nat
  BY VersionsAreNumbers DEF Inductive
<1> QED BY <1>1, <1>2 DEF Fits

\* An entry has an mtime, and a manifest is not NoManifest.
LEMMA EntriesTyped ==
    ASSUME TypeOK, NEW f \in Files, NEW m \in {manifest, saved, freshSaved}, m # NoManifest, m[f] # NoEntry
    PROVE  m[f] \in Entry /\ m[f].mtime \in 0 .. MaxMtime /\ m[f].hash \in Versions
<1>1. m \in Manifest
  BY DEF TypeOK
<1> QED BY <1>1 DEF Manifest, Entry

LEMMA FingerprintsFitStep ==
    ASSUME Inductive, SkipInv, NothingMisleads, [Next]_vars
    PROVE  FingerprintsFit'
<1> USE DEF SkipInv
<1>0. "revert" \notin Edits /\ "race" \notin Faults /\ manifest # NoManifest
  BY MarkersAssumption DEF NothingMisleads, Inductive, TypeOK
<1>1. (unread \cap unstatted)' = {}
  BY FilesAssumption, ScansFit DEF FingerprintsFit
<1>2. ASSUME NEW f \in Files, disk'[f] # NoFile PROVE mtime'[f] > 0
  <2>1. mtime[f] \in Nat
    BY VersionsAreNumbers DEF Inductive
  <2> QED BY <1>0, <1>2, <2>1, FilesMove DEF FingerprintsFit, Inductive
<1>3. ASSUME NEW f \in Files, f \in Scanned'
      PROVE  IF f \in unstatted' THEN scanned'[f].hash = disk'[f] ELSE Fits(f, scanned[f])'
  <2>0. mtime[f] \in 0 .. MaxMtime /\ mtime[f] \in Nat
    BY VersionsAreNumbers DEF Inductive, TypeOK
  <2>1. CASE scanned'[f] = scanned[f] /\ (f \in unstatted' <=> f \in unstatted)
    <3>1. f \in Scanned
      BY <1>3, <2>1 DEF Scanned
    <3>2. CASE f \in unstatted
      BY <1>0, <2>1, <3>1, <3>2, FilesMove DEF FingerprintsFit, Editable, Inductive
    <3>3. CASE f \notin unstatted
      <4>1. PICK e : e = scanned[f]
        OBVIOUS
      <4>2. Fits(f, e)'
        BY <1>0, <3>1, <3>3, <4>1, ScannedTyped, FitsStays DEF FingerprintsFit, Inductive
      <4> QED BY <2>1, <3>3, <4>1, <4>2 DEF Fits
    <3> QED BY <3>2, <3>3
  <2>2. CASE /\ f \in unread /\ UNCHANGED <<disk, mtime>>
             /\ FastPath(f) /\ scanned'[f] = [hash |-> manifest[f].hash, mtime |-> mtime[f]]
             /\ unstatted' = unstatted
    <3>1. Fits(f, manifest[f]) /\ manifest[f].mtime = mtime[f]
      BY <1>0, <2>2 DEF FingerprintsFit, FastPath
    <3>2. f \notin unstatted'
      BY <2>2 DEF FingerprintsFit
    <3> QED BY <2>0, <2>2, <3>1, <3>2 DEF Fits
  <2>3. CASE f \in unstatted' /\ UNCHANGED <<disk, mtime>> /\ scanned'[f].hash = disk[f]
    BY <2>3
  <2>4. CASE /\ f \in unread /\ UNCHANGED <<disk, mtime>> /\ manifest[f] # NoEntry
             /\ unstatted' = unstatted
             /\ scanned'[f] = [hash |-> manifest[f].hash, mtime |-> manifest[f].mtime]
    <3>1. Fits(f, manifest[f])
      BY <1>0, <2>4 DEF FingerprintsFit
    <3>2. f \notin unstatted'
      BY <2>4 DEF FingerprintsFit
    <3> QED BY <2>4, <3>1, <3>2 DEF Fits
  <2>5. CASE /\ f \in unread /\ UNCHANGED <<disk, mtime>> /\ unstatted' = unstatted
             /\ scanned'[f] = [hash |-> Blank, mtime |-> 0]
    <3>1. disk[f] # NoFile => mtime[f] > 0
      BY DEF FingerprintsFit
    <3>2. f \notin unstatted'
      BY <2>5 DEF FingerprintsFit
    <3> QED BY <2>0, <2>5, <3>1, <3>2 DEF Fits
  <2>6. CASE /\ f \in unstatted /\ UNCHANGED <<disk, mtime>> /\ f \notin unstatted'
             /\ scanned'[f] = [scanned[f] EXCEPT !.mtime = IF disk[f] = NoFile THEN 0 ELSE mtime[f]]
    <3>1. f \in Scanned /\ scanned[f] \in Scan /\ scanned[f].hash = disk[f]
      BY <2>6, ScannedTyped DEF FingerprintsFit, Inductive, Places
    <3>2. scanned'[f].hash = disk[f] /\ scanned'[f].mtime = IF disk[f] = NoFile THEN 0 ELSE mtime[f]
      BY <2>6, <3>1 DEF Scan
    <3> QED BY <2>0, <2>6, <3>2 DEF Fits
  <2> QED BY <1>3, <2>1, <2>2, <2>3, <2>4, <2>5, <2>6, ScansFit DEF ScanFits
<1>4. ASSUME NEW f \in Files, manifest'[f] # NoEntry PROVE Fits(f, manifest[f])'
  <2>1. PICK e : e = manifest'[f]
    OBVIOUS
  <2>2. e.mtime \in 0 .. MaxMtime /\ Fits(f, e)
    <3>1. CASE manifest'[f] = manifest[f]
      BY <1>0, <1>4, <2>1, <3>1, EntriesTyped DEF FingerprintsFit, Inductive
    <3>2. CASE Records(saved, f, manifest'[f].hash) /\ manifest'[f] = saved[f]
      BY <2>1, <3>2, EntriesTyped DEF FingerprintsFit, Records, Inductive
    <3>3. CASE Commit /\ f \in Complete /\ manifest'[f] = NewEntry(f)
      <4>1. f \in Scanned /\ f \notin unstatted
        BY <3>3 DEF Commit, Complete, Inductive, Phases, Places
      <4>2. e.mtime = scanned[f].mtime /\ e.hash = scanned[f].hash
        BY <2>1, <3>3 DEF NewEntry
      <4> QED BY <4>1, <4>2, ScannedTyped DEF FingerprintsFit, Fits, Inductive
    <3>4. CASE /\ EndWindows /\ f \in Scanned /\ manifest[f] # NoEntry
               /\ manifest'[f] = [manifest[f] EXCEPT !.mtime = scanned[f].mtime]
      <4>1. f \notin unstatted /\ Unchanged(f)
        <5>1. pc = "windows" /\ todo = {} /\ storing = {} /\ prep[f] = "none" /\ unstatted = {}
          BY <3>4 DEF EndWindows, WindowsDone, WholeFiles, Inductive, Phases, Window
        <5> QED BY <3>4, <5>1 DEF Settled
      <4>2. manifest[f] \in Entry
        BY <1>0, <3>4, EntriesTyped DEF Inductive
      <4>3. e.mtime = scanned[f].mtime /\ e.hash = scanned[f].hash
        BY <2>1, <3>4, <4>1, <4>2 DEF Entry, Unchanged
      <4> QED BY <3>4, <4>1, <4>3, ScannedTyped DEF FingerprintsFit, Fits, Inductive
    <3> QED BY <1>4, <3>1, <3>2, <3>3, <3>4, EntriesMove DEF EntryMoves
  <2> QED BY <1>0, <2>1, <2>2, FitsStays DEF Fits
<1>5. ASSUME NEW f \in Files, NEW m \in {saved', freshSaved'}, m # NoManifest, m[f] # NoEntry
      PROVE  m[f].mtime <= mtime'[f] /\ (m[f].mtime = mtime'[f] /\ disk'[f] # NoFile => m[f].hash = disk'[f])
  <2>1. PICK e : e = m[f]
    OBVIOUS
  <2>2. m \in {saved, manifest, freshSaved}
    BY <1>5, SavesMove
  <2>3. e.mtime \in 0 .. MaxMtime /\ Fits(f, e)
    BY <1>5, <2>1, <2>2, EntriesTyped DEF FingerprintsFit, Inductive
  <2> QED BY <1>0, <2>1, <2>3, FitsStays DEF Fits
<1> QED BY <1>1, <1>2, <1>3, <1>4, <1>5 DEF FingerprintsFit, Fits

LEMMA WholeFilesStep ==
    ASSUME Inductive, SkipInv, NothingMisleads, [Next]_vars
    PROVE  WholeFiles'
<1> USE DEF SkipInv, WholeFiles, Window, world, durable, setup, scanVars, winVars, backVars, passVars
<1>0. "abort" \notin Faults /\ "embed" \notin Faults
  BY DEF NothingMisleads
<1>1. CASE UNCHANGED vars
  BY <1>1 DEF vars
<1>2. ASSUME NEW K \in SUBSET (StartKinds \cap Faults), StartPass(K) PROVE WholeFiles'
  BY <1>2 DEF StartPass, Begin
<1>3. CASE Crash \/ PreflightFails \/ DiscardRebuild \/ SaveFinal
  BY <1>3 DEF Crash, PreflightFails, DiscardRebuild, SaveFinal, Rest
<1>4. CASE LoseManifest \/ LoseRows
  BY <1>4 DEF LoseManifest, LoseRows
<1>5. ~ Abort
  BY <1>0 DEF Abort, Inject, Injectable
<1>6. ASSUME NEW g \in Files, Write(g) \/ Delete(g) \/ RemoveStale(g) \/ SkipRead(g) \/ ReadFile(g)
                              \/ StatFile(g) \/ ExtractionFails(g)
      PROVE  WholeFiles'
  BY <1>6 DEF Write, Delete, RemoveStale, SkipRead, ReadFile, StatFile, ExtractionFails
<1>7. ASSUME NEW g \in Files, PurgeFile(g) \/ SweepFile(g) \/ DedupFile(g) \/ UpsertFile(g)
      PROVE  WholeFiles'
  BY <1>7 DEF PurgeFile, SweepFile, DedupFile, UpsertFile
<1>8. ASSUME NEW g \in Files, RemoveEarly(g) PROVE WholeFiles'
  BY <1>8 DEF RemoveEarly
<1>9. CASE \/ PreflightPasses \/ StaleRemoved \/ EndWindows \/ SweepDone \/ PromoteNothing \/ Promote
           \/ RowsWritten \/ CheckpointSave \/ BulkAdd
  BY <1>9 DEF PreflightPasses, StaleRemoved, EndWindows, SweepDone, PromoteNothing, Promote,
              RowsWritten, CheckpointSave, BulkAdd
<1>10. CASE Commit
  <2>1. /\ storing' = {} /\ purge' = {} /\ UNCHANGED <<aborted, front, prep>>
        /\ emb' = [f \in Files |-> IF f \in storing THEN {} ELSE emb[f]]
    BY <1>10 DEF Commit
  <2>2. Window \cap storing = {}
    BY DEF Inductive, Places
  <2> QED BY <2>1, <2>2
<1>11. CASE LaunchStore
  <2>1. \A f \in Files : prep[f] = "embed" => emb[f] = Parts /\ emb[f] # {}
    BY <1>11, PartsAssumption DEF LaunchStore
  <2>2. /\ storing' = {f \in Window : prep[f] = "embed"} /\ emb' = emb /\ aborted' = aborted
        /\ written' = written \cup {f \in storing' : emb[f] # {}} /\ front' = "take"
        /\ purge' = {f \in storing' : f \notin {g \in storing' : emb[g] # {}} /\ manifest[f] = NoEntry}
    BY <1>11 DEF LaunchStore
  <2> QED BY <2>1, <2>2
<1>12. ASSUME NEW W \in SUBSET Files, NEW C \in SUBSET Files, NEW D \in SUBSET Files,
              PrepareWindow(W, C, D)
       PROVE  WholeFiles'
  BY <1>12 DEF PrepareWindow
<1>13. ASSUME NEW missing \in SUBSET (Files \X Parts), EmbedWindow(missing) PROVE WholeFiles'
  <2>1. missing = {}
    BY <1>0, <1>13 DEF EmbedWindow, Inject, Injectable
  <2>2. /\ emb' = [f \in Files |-> IF prep[f] = "embed" THEN Parts ELSE emb[f]]
        /\ UNCHANGED <<aborted, purge, storing, written, prep>>
        /\ \A f \in Window : prep[f] # "remove"
    BY <1>13, <2>1 DEF EmbedWindow
  <2>3. storing \subseteq Files
    BY DEF Inductive, TypeOK
  <2>4. \A f \in storing : prep[f] # "embed"
    BY <2>3 DEF Inductive, Places
  <2> QED BY <2>2, <2>3, <2>4
<1> QED BY <1>1, <1>2, <1>3, <1>4, <1>5, <1>6, <1>7, <1>8, <1>9, <1>10, <1>11, <1>12, <1>13
        DEF Next, PassStep, Environment

LEMMA SettledStep ==
    ASSUME Inductive, SkipInv, NothingMisleads, [Next]_vars
    PROVE  Settled'
<1> USE DEF SkipInv, world, durable, setup, scanVars, winVars, backVars, passVars
<1> SUFFICES ASSUME pc' = "windows", NEW f \in Scanned', f \notin todo', f \notin storing',
                    prep'[f] \in {"none", "skip"}
             PROVE  manifest'[f] = NoEntry \/ Unchanged(f)'
  BY DEF Settled
<1> DEFINE Kept == UNCHANGED <<pc, scanned, todo, storing, prep, manifest>>
<1>0. "chunk" \notin Faults /\ f \in Files
  BY DEF NothingMisleads, Scanned
<1>1. CASE Kept
  BY <1>1 DEF Settled, Scanned, Unchanged
<1>2. ASSUME NEW K \in SUBSET (StartKinds \cap Faults), StartPass(K) PROVE FALSE
  BY <1>2 DEF StartPass, Begin
<1>3. CASE Crash \/ PreflightFails \/ DiscardRebuild \/ SaveFinal
  BY <1>3 DEF Crash, PreflightFails, DiscardRebuild, SaveFinal, Rest
<1>4. CASE LoseManifest \/ LoseRows \/ Abort
  BY <1>1, <1>4 DEF LoseManifest, LoseRows, Abort
<1>5. ASSUME NEW g \in Files, Write(g) \/ Delete(g) PROVE Kept
  BY <1>5 DEF Write, Delete
<1>6. ASSUME NEW g \in Files, \/ RemoveStale(g) \/ SkipRead(g) \/ ReadFile(g) \/ StatFile(g)
                              \/ ExtractionFails(g) \/ SweepFile(g)
      PROVE  pc # "windows" /\ pc' = pc
  BY <1>6 DEF RemoveStale, SkipRead, ReadFile, StatFile, ExtractionFails, SweepFile, Inductive, Phases
<1>7. ASSUME NEW g \in Files, PurgeFile(g) \/ DedupFile(g) \/ UpsertFile(g) PROVE Kept
  BY <1>7 DEF PurgeFile, DedupFile, UpsertFile
<1>8. ASSUME NEW g \in Files, RemoveEarly(g) PROVE manifest'[f] = NoEntry \/ Unchanged(f)'
  <2>1. /\ UNCHANGED <<pc, scanned, todo, storing>>
        /\ manifest' = [manifest EXCEPT ![g] = NoEntry] /\ prep' = [prep EXCEPT ![g] = "skip"]
    BY <1>8 DEF RemoveEarly
  <2>2. CASE f = g
    BY <1>0, <2>1, <2>2 DEF Inductive, TypeOK, Manifest
  <2>3. CASE f # g
    <3>1. prep'[f] = prep[f] /\ manifest'[f] = manifest[f] /\ scanned' = scanned /\ f \in Scanned
      BY <1>0, <2>1, <2>3 DEF Inductive, TypeOK, Manifest, Scanned
    <3> QED BY <2>1, <3>1 DEF Settled, Unchanged
  <2> QED BY <2>2, <2>3
<1>9. CASE PreflightPasses \/ EndWindows \/ SweepDone \/ PromoteNothing \/ Promote
  BY <1>9 DEF PreflightPasses, EndWindows, SweepDone, PromoteNothing, Promote
<1>10. CASE StaleRemoved
  BY <1>10 DEF StaleRemoved, Scanned
<1>11. CASE RowsWritten \/ CheckpointSave \/ BulkAdd
  BY <1>1, <1>11 DEF RowsWritten, CheckpointSave, BulkAdd
<1>12. CASE Commit
  <2>1. UNCHANGED <<pc, scanned, todo, prep>> /\ pc = "windows" /\ f \in Scanned
    BY <1>12 DEF Commit, Inductive, Phases, Scanned
  <2>2. manifest'[f] = IF f \in Complete THEN NewEntry(f) ELSE manifest[f]
    BY <1>0, <1>12 DEF Commit, WholeFiles
  <2>3. CASE f \in storing
    <3>1. f \in Complete
      BY <2>3 DEF Complete, WholeFiles
    <3>2. manifest'[f].hash = scanned'[f].hash
      BY <2>1, <2>2, <3>1 DEF NewEntry
    <3> QED BY <3>2 DEF Unchanged
  <2>4. CASE f \notin storing
    <3>1. manifest'[f] = manifest[f]
      BY <2>2, <2>4 DEF Complete
    <3> QED BY <2>1, <2>4, <3>1 DEF Settled, Unchanged
  <2> QED BY <2>3, <2>4
<1>13. CASE LaunchStore
  <2>1. UNCHANGED <<pc, scanned, todo, manifest>> /\ pc = "windows" /\ storing = {} /\ f \in Scanned
    BY <1>13 DEF LaunchStore, Inductive, Phases, Scanned
  <2>2. prep[f] # "embed" /\ prep[f] # "remove"
    BY <1>0, <1>13 DEF LaunchStore, WholeFiles, Window
  <2>3. prep[f] \in {"none", "skip"}
    BY <1>0, <2>2 DEF Inductive, TypeOK
  <2> QED BY <2>1, <2>3 DEF Settled, Unchanged
<1>14. ASSUME NEW W \in SUBSET Files, NEW C \in SUBSET Files, NEW D \in SUBSET Files,
              PrepareWindow(W, C, D)
       PROVE  manifest'[f] = NoEntry \/ Unchanged(f)'
  <2>1. /\ UNCHANGED <<pc, scanned, manifest, storing>> /\ pc = "windows" /\ f \in Scanned
        /\ C = {} /\ todo' = todo \ W /\ Window = {}
        /\ prep' = [g \in Files |-> IF g \in W THEN Outcome(g, C) ELSE "none"]
    BY <1>0, <1>14 DEF PrepareWindow, Inject, Injectable, Inductive, Phases, Scanned
  <2>2. CASE f \in W
    <3>1. Outcome(f, C) = "skip" \/ Outcome(f, C) = "none"
      BY <1>0, <2>1, <2>2
    <3>2. manifest[f] = NoEntry \/ Unchanged(f)
      BY <2>1, <3>1 DEF Outcome
    <3> QED BY <2>1, <3>2 DEF Unchanged
  <2>3. CASE f \notin W
    <3>1. f \notin todo /\ prep[f] = "none"
      BY <1>0, <2>1, <2>3 DEF Window
    <3> QED BY <2>1, <3>1 DEF Settled, Unchanged
  <2> QED BY <2>2, <2>3
<1>15. ASSUME NEW missing \in SUBSET (Files \X Parts), EmbedWindow(missing) PROVE Kept
  <2>1. UNCHANGED <<scanned, todo, storing, prep, manifest, pc>>
    BY <1>15 DEF EmbedWindow
  <2> QED BY <2>1
<1>16. CASE UNCHANGED vars
  BY <1>1, <1>16 DEF vars
<1> HIDE DEF Kept
<1> QED BY <1>1, <1>2, <1>3, <1>4, <1>5, <1>6, <1>7, <1>8, <1>9, <1>10, <1>11, <1>12, <1>13, <1>14,
           <1>15, <1>16
        DEF Next, PassStep, Environment

\* How a pass of the lance backend changes the rows of one file in its target.
TargetMoves(f) ==
    \/ Target'[f] = Target[f]
    \/ Target'[f] = {} /\ (f \notin storing \/ f \in purge)
    \/ BulkAdd /\ f \in storing /\ Target'[f] = Target[f] \cup NewRows(f)
    \/ DedupFile(f) /\ Target'[f] = NewRows(f)

\* Which stages of the store phase a step leaves.
StageMoves ==
    \/ UNCHANGED <<store, queue>>
    \/ LaunchStore \/ BulkAdd \/ RowsWritten \/ Commit
    \/ \E g \in Files : DedupFile(g) \/ PurgeFile(g)

LEMMA TargetsMove ==
    ASSUME Inductive, Backend = "lance", [Next]_vars, pc # "idle", pc' # "idle"
    PROVE  StageMoves /\ \A f \in Files : TargetMoves(f)
<1> USE DEF world, durable, setup, scanVars, winVars, backVars, passVars, StageMoves
<1> DEFINE Kept == UNCHANGED <<rows, fresh, store, queue>>
<1>a. Target \in Table
  BY TargetTyped DEF Inductive
<1>b. mode' = mode
  BY SavesInPlace
<1>c. Kept => StageMoves /\ \A f \in Files : TargetMoves(f)
  BY <1>b DEF Target, TargetMoves
<1>1. CASE UNCHANGED vars
  BY <1>c, <1>1 DEF vars
<1>2. ASSUME NEW K \in SUBSET (StartKinds \cap Faults), StartPass(K) PROVE FALSE
  BY <1>2 DEF StartPass
<1>3. CASE Crash \/ PreflightFails \/ DiscardRebuild \/ SaveFinal
  BY <1>3 DEF Crash, PreflightFails, DiscardRebuild, SaveFinal, Rest
<1>4. CASE LoseManifest \/ LoseRows \/ Abort
  BY <1>c, <1>4 DEF LoseManifest, LoseRows, Abort
<1>5. ASSUME NEW g \in Files, Write(g) \/ Delete(g) \/ SkipRead(g) \/ ReadFile(g) \/ StatFile(g)
                              \/ ExtractionFails(g)
      PROVE  Kept
  BY <1>5 DEF Write, Delete, SkipRead, ReadFile, StatFile, ExtractionFails
<1>6. ASSUME NEW g \in Files, RemoveStale(g) \/ RemoveEarly(g) \/ PurgeFile(g) \/ SweepFile(g)
      PROVE  StageMoves /\ \A f \in Files : TargetMoves(f)
  <2>1. StageMoves
    BY <1>6 DEF RemoveStale, RemoveEarly, SweepFile
  <2>2. Target' = [Target EXCEPT ![g] = {}]
    <3>1. CASE RemoveStale(g) \/ RemoveEarly(g) \/ PurgeFile(g)
      BY <1>b, <3>1, SetTargetEffect DEF RemoveStale, RemoveEarly, PurgeFile
    <3>2. CASE SweepFile(g)
      <4>1. mode = "inplace"
        BY <3>2 DEF SweepFile, Inductive, Phases
      <4> QED BY <1>b, <3>2, <4>1 DEF SweepFile, Target
    <3> QED BY <1>6, <3>1, <3>2
  <2>3. g \notin storing \/ g \in purge
    BY <1>6 DEF RemoveStale, RemoveEarly, PurgeFile, SweepFile, Inductive, Phases, Places, Window
  <2> QED BY <1>a, <2>1, <2>2, <2>3 DEF TargetMoves, Table
<1>7. ASSUME NEW g \in Files, DedupFile(g)
      PROVE  StageMoves /\ \A f \in Files : TargetMoves(f)
  <2>1. Target' = [Target EXCEPT ![g] = NewRows(g)]
    BY <1>b, <1>7, SetTargetEffect DEF DedupFile
  <2> QED BY <1>a, <1>7, <2>1 DEF TargetMoves, Table
<1>8. CASE BulkAdd
  <2>1. Target' = [f \in Files |-> IF f \in storing THEN Target[f] \cup NewRows(f) ELSE Target[f]]
    BY <1>b, <1>8, SetTargetEffect DEF BulkAdd
  <2> QED BY <1>8, <2>1 DEF TargetMoves
<1>9. ASSUME NEW g \in Files, UpsertFile(g) PROVE FALSE
  BY <1>9 DEF UpsertFile
<1>10. CASE Promote
  <2>1. UNCHANGED <<fresh, store, queue>> /\ mode # "inplace"
    BY <1>10 DEF Promote
  <2> QED BY <1>b, <2>1 DEF Target, TargetMoves
<1>11. CASE PreflightPasses \/ StaleRemoved \/ EndWindows \/ SweepDone \/ PromoteNothing \/ CheckpointSave
  BY <1>c, <1>11 DEF PreflightPasses, StaleRemoved, EndWindows, SweepDone, PromoteNothing, CheckpointSave
<1>12. CASE RowsWritten \/ LaunchStore \/ Commit
  <2>1. UNCHANGED <<rows, fresh>>
    BY <1>12 DEF RowsWritten, LaunchStore, Commit
  <2> QED BY <1>b, <1>12, <2>1 DEF Target, TargetMoves
<1>13. ASSUME NEW W \in SUBSET Files, NEW C \in SUBSET Files, NEW D \in SUBSET Files,
              PrepareWindow(W, C, D)
       PROVE  Kept
  BY <1>13 DEF PrepareWindow
<1>14. ASSUME NEW missing \in SUBSET (Files \X Parts), EmbedWindow(missing) PROVE Kept
  BY <1>14 DEF EmbedWindow
<1> HIDE DEF Kept
<1> QED BY <1>c, <1>1, <1>2, <1>3, <1>4, <1>5, <1>6, <1>7, <1>8, <1>9, <1>10, <1>11, <1>12, <1>13, <1>14
        DEF Next, PassStep, Environment

\* What happens to the side a pass does not write to.
SidesMove ==
    \/ Promote
    \/ mode = "inplace" /\ UNCHANGED <<fresh, freshSaved>>
    \/ /\ mode = "temp" /\ UNCHANGED <<rows, saved>>
       /\ freshSaved' = freshSaved \/ (freshSaved' = manifest /\ UNCHANGED <<manifest, fresh>>)

LEMMA OtherSide ==
    ASSUME Inductive, Backend = "lance", [Next]_vars, pc # "idle", pc' # "idle"
    PROVE  SidesMove
<1> USE DEF world, durable, setup, scanVars, winVars, backVars, passVars, SidesMove
<1> DEFINE Kept == UNCHANGED <<rows, saved, fresh, freshSaved>>
<1>b. mode \in {"inplace", "temp"}
  BY DEF Inductive, Phases
<1>c. Kept => SidesMove
  BY <1>b
<1>1. CASE UNCHANGED vars
  BY <1>c, <1>1 DEF vars
<1>2. ASSUME NEW K \in SUBSET (StartKinds \cap Faults), StartPass(K) PROVE FALSE
  BY <1>2 DEF StartPass
<1>3. CASE Crash \/ PreflightFails \/ DiscardRebuild \/ SaveFinal
  BY <1>3 DEF Crash, PreflightFails, DiscardRebuild, SaveFinal, Rest
<1>4. CASE LoseManifest \/ LoseRows \/ Abort
  BY <1>c, <1>4 DEF LoseManifest, LoseRows, Abort
<1>5. ASSUME NEW g \in Files, Write(g) \/ Delete(g) \/ SkipRead(g) \/ ReadFile(g) \/ StatFile(g)
                              \/ ExtractionFails(g)
      PROVE  Kept
  BY <1>5 DEF Write, Delete, SkipRead, ReadFile, StatFile, ExtractionFails
<1>6. ASSUME NEW g \in Files, RemoveStale(g) \/ RemoveEarly(g) \/ PurgeFile(g) \/ DedupFile(g)
      PROVE  SidesMove
  BY <1>b, <1>6 DEF RemoveStale, RemoveEarly, PurgeFile, DedupFile, SetTarget
<1>7. ASSUME NEW g \in Files, SweepFile(g) \/ UpsertFile(g) PROVE SidesMove
  BY <1>b, <1>7 DEF SweepFile, UpsertFile, Inductive, Phases
<1>8. CASE BulkAdd
  BY <1>b, <1>8 DEF BulkAdd, SetTarget
<1>9. CASE CheckpointSave
  BY <1>b, <1>9 DEF CheckpointSave
<1>10. CASE \/ PreflightPasses \/ StaleRemoved \/ EndWindows \/ SweepDone \/ PromoteNothing
            \/ RowsWritten \/ LaunchStore \/ Commit
  BY <1>c, <1>10 DEF PreflightPasses, StaleRemoved, EndWindows, SweepDone, PromoteNothing, RowsWritten,
                     LaunchStore, Commit
<1>11. ASSUME NEW W \in SUBSET Files, NEW C \in SUBSET Files, NEW D \in SUBSET Files,
              PrepareWindow(W, C, D)
       PROVE  Kept
  BY <1>11 DEF PrepareWindow
<1>12. ASSUME NEW missing \in SUBSET (Files \X Parts), EmbedWindow(missing) PROVE Kept
  BY <1>12 DEF EmbedWindow
<1> HIDE DEF Kept
<1> QED BY <1>c, <1>1, <1>2, <1>3, <1>4, <1>5, <1>6, <1>7, <1>8, <1>9, <1>10, <1>11, <1>12
        DEF Next, PassStep, Environment, SidesMove

\* A pass that does not deduplicate starts on an empty store.
LEMMA StartsExact ==
    ASSUME Inductive, Exact, NothingMisleads, NEW K \in SUBSET (StartKinds \cap Faults), StartPass(K),
           pc' # "idle"
    PROVE  /\ fresh' = NoRows /\ freshSaved' = NoManifest /\ written' = {} /\ storing' = {}
           /\ UNCHANGED <<disk, mtime, rows, saved>> /\ mode' \in {"inplace", "temp"}
           /\ ~ dedup' => \A f \in Files : Target'[f] = {}
<1> USE DEF world, durable, setup, scanVars, winVars, backVars, passVars
<1>1. pc = "idle" /\ mode = "inplace" /\ written = {} /\ storing = {}
      /\ fresh = NoRows /\ freshSaved = NoManifest
  BY DEF StartPass, Inductive, Phases, Exact
<1> DEFINE count == IF "countTimeout" \in K THEN 0 ELSE Cardinality(RowsOf(rows))
<1>2. \E where \in {"inplace", "temp"} : \E m : \E force \in BOOLEAN : Begin(where, m, count, force)
  <2>1. \/ \E m : Begin("inplace", m, count, FALSE)
        \/ \E where \in {"inplace", "temp"} : Begin(where, NoEntries, count, "force" \in K)
    BY <1>1 DEF StartPass, NothingMisleads
  <2>2. ("force" \in K) \in BOOLEAN
    OBVIOUS
  <2> QED BY <2>1, <2>2
<1>3. PICK where \in {"inplace", "temp"} : \E m : \E force \in BOOLEAN : Begin(where, m, count, force)
  BY <1>2
<1>4. count = Cardinality(RowsOf(rows)) /\ count \in Nat
  <2>1. IsFiniteSet(Versions)
    BY FS_Interval, BoundsAssumption DEF Versions
  <2>2. IsFiniteSet(Files \X (Versions \X Parts))
    BY <2>1, FilesAssumption, PartsAssumption, FS_Product
  <2>3. IsFiniteSet(RowsOf(rows))
    BY <2>2, FS_Subset DEF RowsOf
  <2> QED BY <2>3, FS_CardinalityType DEF NothingMisleads
<1> HIDE DEF count
<1>5. /\ fresh' = fresh /\ freshSaved' = freshSaved /\ written' = written /\ storing' = storing
      /\ UNCHANGED <<rows, saved>> /\ mode' = where /\ dedup' = (where # "temp" /\ count > 0)
  <2>1. PICK m : \E force \in BOOLEAN : Begin(where, m, count, force)
    BY <1>3
  <2> QED BY <2>1 DEF Begin
<1>6. ASSUME ~ dedup', NEW f \in Files PROVE Target'[f] = {}
  <2>1. CASE where = "temp"
    BY <1>1, <1>5, <2>1 DEF Target, NoRows
  <2>2. CASE where = "inplace"
    <3>1. ~ (count > 0)
      BY <1>5, <1>6, <2>2, Zenon
    <3>2. rows[f] = {}
      BY <1>4, <3>1, NoRowsCounted DEF Inductive
    <3> QED BY <1>5, <2>2, <3>2 DEF Target
  <2> QED BY <2>1, <2>2
<1>7. UNCHANGED <<disk, mtime>>
  BY DEF StartPass
<1> QED BY <1>1, <1>5, <1>6, <1>7

\* The rows of a file that is being stored, while a pass runs.
LEMMA StoredExactly ==
    ASSUME Inductive, SkipInv, NothingMisleads, [Next]_vars, pc # "idle", pc' # "idle", NEW f \in Files
    PROVE  /\ ~ dedup' /\ (f \notin written' \/ (f \in storing' /\ store' = "insert")) => Target'[f] = {}
           /\ f \in storing' /\ (store' \in {"purge", "commit"} \/ (store' = "dedup" /\ f \notin queue')) =>
                 Target'[f] = NewRows(f)'
<1> USE DEF SkipInv
<1>1. Backend = "lance" /\ dedup' = dedup /\ mode' = mode
  BY SavesInPlace DEF NothingMisleads
<1>2. WorkMoves(f) /\ StageMoves /\ TargetMoves(f)
  BY <1>1, TargetsMove, WorkMovesInPass
<1>3. purge = {} /\ (f \in storing => emb[f] # {} /\ f \in written)
  BY PartsAssumption DEF WholeFiles
<1>4. ~ dedup /\ (f \notin written \/ (f \in storing /\ store = "insert")) => Target[f] = {}
  BY DEF Exact
<1>5. f \in storing /\ (store \in {"purge", "commit"} \/ (store = "dedup" /\ f \notin queue)) =>
          Target[f] = NewRows(f)
  BY DEF Exact
<1>6. CASE LaunchStore
  <2>1. UNCHANGED <<rows, fresh>> /\ store' \in {"free", "insert"}
        /\ written \subseteq written' /\ storing' \subseteq Window
    BY <1>6 DEF LaunchStore, durable
  <2>2. written \cap Window = {}
    BY DEF Inductive, Places
  <2>3. Target'[f] = Target[f]
    BY <1>1, <2>1 DEF Target
  <2> QED BY <1>1, <1>4, <2>1, <2>2, <2>3
<1>7. CASE Commit
  <2>1. UNCHANGED <<rows, fresh, written>> /\ storing' = {}
    BY <1>7 DEF Commit, durable
  <2>2. Target'[f] = Target[f]
    BY <1>1, <2>1 DEF Target
  <2> QED BY <1>1, <1>4, <2>1, <2>2
<1>8. ASSUME UNCHANGED <<written, storing>>,
             f \in storing => emb'[f] = emb[f] /\ scanned'[f].hash = scanned[f].hash,
             ~ LaunchStore, ~ Commit
      PROVE  /\ ~ dedup' /\ (f \notin written' \/ (f \in storing' /\ store' = "insert")) => Target'[f] = {}
             /\ f \in storing' /\ (store' \in {"purge", "commit"} \/ (store' = "dedup" /\ f \notin queue')) =>
                   Target'[f] = NewRows(f)'
  <2>1. f \in storing => NewRows(f)' = NewRows(f)
    BY <1>8 DEF NewRows
  <2>2. DedupFile(f) => f \in storing /\ store = "dedup" /\ store' = "dedup"
    BY DEF DedupFile, Inductive, Places
  <2>3. BulkAdd => store = "insert" /\ store' = "dedup"
    BY DEF BulkAdd
  <2>4. CASE UNCHANGED <<store, queue>>
    BY <1>1, <1>2, <1>3, <1>4, <1>5, <1>8, <2>1, <2>2, <2>3, <2>4 DEF TargetMoves
  <2>5. CASE BulkAdd
    <3>1. Target' = [g \in Files |-> IF g \in storing THEN Target[g] \cup NewRows(g) ELSE Target[g]]
          /\ queue' = IF dedup THEN {g \in storing : emb[g] # {}} ELSE {}
      BY <1>1, <2>5, SetTargetEffect DEF BulkAdd
    <3> QED BY <1>1, <1>3, <1>4, <1>8, <2>1, <2>3, <2>5, <3>1
  <2>6. CASE RowsWritten
    <3>1. store = "dedup" /\ queue = {} /\ UNCHANGED <<rows, fresh>> /\ store' \in {"purge", "commit"}
      BY <1>1, <2>6 DEF RowsWritten, durable
    <3>2. Target'[f] = Target[f]
      BY <1>1, <3>1 DEF Target
    <3> QED BY <1>1, <1>4, <1>5, <1>8, <2>1, <3>1, <3>2
  <2>7. ASSUME NEW g \in Files, DedupFile(g)
        PROVE  /\ ~ dedup' /\ f \notin written' => Target'[f] = {}
               /\ store' = "dedup" /\ (f \in storing' /\ f \notin queue' => Target'[f] = NewRows(f)')
    <3>1. Target' = [Target EXCEPT ![g] = NewRows(g)] /\ queue' = queue \ {g} /\ g \in storing
          /\ store = "dedup" /\ store' = "dedup"
      BY <1>1, <2>7, SetTargetEffect DEF DedupFile, Inductive, Places
    <3>2. Target \in Table
      BY TargetTyped DEF Inductive
    <3>3. CASE f = g
      BY <1>3, <1>8, <2>1, <3>1, <3>2, <3>3 DEF Table
    <3>4. CASE f # g
      BY <1>1, <1>4, <1>5, <1>8, <2>1, <3>1, <3>2, <3>4 DEF Table
    <3> QED BY <3>1, <3>3, <3>4
  <2>8. \A g \in Files : ~ PurgeFile(g)
    BY <1>3 DEF PurgeFile
  <2> QED BY <1>2, <1>8, <2>4, <2>5, <2>6, <2>7, <2>8 DEF StageMoves
<1> QED BY <1>2, <1>6, <1>7, <1>8 DEF WorkMoves

LEMMA ExactStep ==
    ASSUME Inductive, SkipInv, NothingMisleads, [Next]_vars
    PROVE  Exact'
<1> USE DEF SkipInv
<1>1. CASE pc' = "idle"
  <2>1. storing' = {}
    BY <1>1, InductiveStep DEF Inductive, Phases
  <2>2. CASE Rest
    BY <1>1, <2>1, <2>2 DEF Rest, Exact
  <2>3. CASE pc' = pc /\ UNCHANGED <<manifest, fresh, freshSaved, pending>>
    BY <1>1, <2>1, <2>3 DEF Exact, Inductive, Phases
  <2>4. ASSUME NEW K \in SUBSET (StartKinds \cap Faults), StartPass(K)
        PROVE  fresh' = NoRows /\ freshSaved' = NoManifest
    BY <2>4 DEF StartPass, Begin, passVars, Exact, Inductive, Phases
  <2>5. \/ fresh' = NoRows /\ freshSaved' = NoManifest
        \/ Exact'
    BY <1>1, <2>2, <2>3, <2>4, EarlySteps DEF Past
  <2> QED BY <1>1, <2>1, <2>5 DEF Exact
<1>2. CASE pc = "idle" /\ pc' # "idle"
  <2>1. PICK K \in SUBSET (StartKinds \cap Faults) : StartPass(K)
    BY <1>2, UnreadMoves
  <2>2. /\ fresh' = NoRows /\ freshSaved' = NoManifest /\ storing' = {}
        /\ ~ dedup' => \A f \in Files : Target'[f] = {}
    BY <1>2, <2>1, StartsExact
  <2> QED BY <2>2 DEF Exact
<1>3. CASE pc # "idle" /\ pc' # "idle"
  <2>1. mode' = mode /\ SidesMove
    BY <1>3, SavesInPlace, OtherSide DEF NothingMisleads
  <2>2. mode' = "inplace" => fresh' = NoRows /\ freshSaved' = NoManifest
    BY <2>1 DEF SidesMove, Promote, Exact
  <2>3. \A f \in Files :
          /\ ~ dedup' /\ (f \notin written' \/ (f \in storing' /\ store' = "insert")) => Target'[f] = {}
          /\ f \in storing' /\ (store' \in {"purge", "commit"} \/ (store' = "dedup" /\ f \notin queue')) =>
                Target'[f] = NewRows(f)'
    BY <1>3, StoredExactly
  <2>4. storing' \subseteq Files
    BY InductiveStep DEF Inductive, TypeOK
  <2> QED BY <2>2, <2>3, <2>4 DEF Exact
<1> QED BY <1>1, <1>2, <1>3

\* Steps between two passes, steps that start one and steps that end one.
LEMMA RestingMoves ==
    ASSUME Inductive, CleanStart, [Next]_vars, pc = "idle" \/ pc' = "idle"
    PROVE  \/ saved' \in {saved, NoManifest} /\ rows' \in {rows, NoRows} /\ pc' \in {"idle", "scan"}
           \/ SaveFinal
<1> USE DEF world, durable, setup, scanVars, winVars, backVars, passVars
<1>1. CASE UNCHANGED vars
  BY <1>1 DEF vars
<1>2. ASSUME NEW K \in SUBSET (StartKinds \cap Faults), StartPass(K)
      PROVE  UNCHANGED <<rows, saved>> /\ pc' \in {"idle", "scan"}
  BY <1>2 DEF StartPass, Begin
<1>3. CASE Crash \/ PreflightFails \/ DiscardRebuild \/ SaveFinal
  BY <1>3 DEF Crash, PreflightFails, DiscardRebuild, Rest
<1>4. CASE LoseManifest \/ LoseRows \/ Abort
  BY <1>4 DEF LoseManifest, LoseRows, Abort
<1>5. ASSUME NEW f \in Files, Write(f) \/ Delete(f) \/ SkipRead(f) \/ ReadFile(f) \/ ExtractionFails(f)
      PROVE  UNCHANGED <<rows, saved, pc>>
  BY <1>5 DEF Write, Delete, SkipRead, ReadFile, ExtractionFails
<1>6. ASSUME NEW f \in Files, \/ StatFile(f) \/ RemoveStale(f) \/ RemoveEarly(f) \/ DedupFile(f)
                              \/ UpsertFile(f) \/ PurgeFile(f) \/ SweepFile(f)
      PROVE  FALSE
  BY <1>6 DEF StatFile, RemoveStale, RemoveEarly, DedupFile, UpsertFile, PurgeFile, SweepFile,
              Inductive, Phases
<1>7. ~ CheckpointSave
  BY DEF CheckpointSave, CleanStart
<1>8. CASE \/ PreflightPasses \/ StaleRemoved \/ EndWindows \/ SweepDone \/ PromoteNothing \/ Promote
           \/ LaunchStore \/ BulkAdd \/ RowsWritten \/ Commit
  BY <1>8 DEF PreflightPasses, ScanDone, StaleRemoved, EndWindows, WindowsDone, SweepDone, PromoteNothing,
              Promote, LaunchStore, BulkAdd, RowsWritten, Commit, Inductive, Phases
<1>9. ASSUME NEW W \in SUBSET Files, NEW C \in SUBSET Files, NEW D \in SUBSET Files,
             PrepareWindow(W, C, D)
      PROVE  FALSE
  BY <1>9 DEF PrepareWindow
<1>10. ASSUME NEW missing \in SUBSET (Files \X Parts), EmbedWindow(missing) PROVE FALSE
  BY <1>10 DEF EmbedWindow, Inductive, Phases
<1> QED BY <1>1, <1>2, <1>3, <1>4, <1>5, <1>6, <1>7, <1>8, <1>9, <1>10
        DEF Next, PassStep, Environment

\* A pass into a target saves after the target has replaced the store, and
\* writes no more rows.
LEMMA SavingMoves ==
    ASSUME Inductive, [Next]_vars, pc' = "save", pc # "idle", mode = "temp"
    PROVE  Promote \/ (pc = "save" /\ UNCHANGED <<rows, fresh>>)
<1> USE DEF world, durable, setup, scanVars, winVars, backVars, passVars
<1>1. CASE UNCHANGED vars
  BY <1>1 DEF vars
<1>2. ASSUME NEW K \in SUBSET (StartKinds \cap Faults), StartPass(K) PROVE FALSE
  BY <1>2 DEF StartPass
<1>3. CASE Crash \/ PreflightFails \/ DiscardRebuild \/ SaveFinal
  BY <1>3 DEF Crash, PreflightFails, DiscardRebuild, SaveFinal, Rest
<1>4. CASE LoseManifest \/ LoseRows \/ Abort \/ CheckpointSave
  BY <1>4 DEF LoseManifest, LoseRows, Abort, CheckpointSave
<1>5. ASSUME NEW f \in Files, Write(f) \/ Delete(f) \/ SkipRead(f) \/ ReadFile(f) \/ ExtractionFails(f)
      PROVE  UNCHANGED <<rows, fresh, pc>>
  BY <1>5 DEF Write, Delete, SkipRead, ReadFile, ExtractionFails
<1>6. ASSUME NEW f \in Files, \/ StatFile(f) \/ RemoveStale(f) \/ RemoveEarly(f) \/ DedupFile(f)
                              \/ UpsertFile(f) \/ PurgeFile(f) \/ SweepFile(f)
      PROVE  FALSE
  BY <1>6 DEF StatFile, RemoveStale, RemoveEarly, DedupFile, UpsertFile, PurgeFile, SweepFile,
              Inductive, Phases
<1>8. CASE \/ PreflightPasses \/ StaleRemoved \/ EndWindows \/ SweepDone \/ PromoteNothing \/ Promote
           \/ LaunchStore \/ BulkAdd \/ RowsWritten \/ Commit
  BY <1>8 DEF PreflightPasses, ScanDone, StaleRemoved, EndWindows, WindowsDone, SweepDone, PromoteNothing,
              LaunchStore, BulkAdd, RowsWritten, Commit, Inductive, Phases
<1>9. ASSUME NEW W \in SUBSET Files, NEW C \in SUBSET Files, NEW D \in SUBSET Files,
             PrepareWindow(W, C, D)
      PROVE  FALSE
  BY <1>9 DEF PrepareWindow
<1>10. ASSUME NEW missing \in SUBSET (Files \X Parts), EmbedWindow(missing) PROVE FALSE
  BY <1>10 DEF EmbedWindow, Inductive, Phases
<1> QED BY <1>1, <1>2, <1>3, <1>4, <1>5, <1>6, <1>8, <1>9, <1>10
        DEF Next, PassStep, Environment

\* What a manifest tells of a table, it tells after the step as well.
LEMMA TellsStays ==
    ASSUME Inductive, Past, "revert" \notin Edits, [Next]_vars, NEW f \in Files,
           NEW m \in {saved, manifest, freshSaved}, NEW t, TableTells(m, t),
           disk'[f] \in Versions, Records(m, f, disk'[f]), t[f] # {}
    PROVE  t[f] = Full(disk'[f])
<1>1. Knows(f, disk'[f])
  BY DEF Knows
<1>2. disk'[f] = disk[f]
  BY <1>1, ContentStays
<1> QED BY <1>2 DEF TableTells

\* A file that is being stored gets the rows of its content, if it keeps it.
LEMMA StoredContent ==
    ASSUME Inductive, SkipInv, NothingMisleads, [Next]_vars, NEW f \in storing,
           disk'[f] \in Versions, Knows(f, disk'[f]) \/ ScannedAs(f, disk'[f])
    PROVE  NewRows(f) = Full(disk'[f]) /\ scanned[f].hash = disk'[f] /\ ~ Unchanged(f)
<1> USE DEF SkipInv
<1>1. f \in Files /\ scanned[f] # NoEntry /\ scanned[f].hash \in Versions /\ ~ Unchanged(f)
  BY DEF Inductive, TypeOK, InFlight, Places, Scanned
<1>2. disk'[f] = disk[f]
  BY <1>1, ContentStays DEF NothingMisleads
<1>3. scanned[f].hash = disk'[f]
  BY <1>1, <1>2, KnownContent DEF ScannedAs
<1> QED BY <1>1, <1>3 DEF NewRows, Full, WholeFiles

\* The rows that a pass writes agree with what its own manifest tells of them.
LEMMA ManifestTells ==
    ASSUME Inductive, SkipInv, NothingMisleads, [Next]_vars, pc # "idle", pc' # "idle"
    PROVE  TableTells(manifest, Target)'
<1> USE DEF SkipInv
<1> SUFFICES ASSUME NEW f \in Files, disk'[f] \in Versions, Records(manifest, f, disk[f])', Target'[f] # {}
             PROVE  Target'[f] = Full(disk'[f])
  BY DEF TableTells
<1>0. mode' = mode /\ manifest # NoManifest /\ Backend = "lance" /\ "revert" \notin Edits
  BY SavesInPlace, MarkersAssumption DEF Inductive, TypeOK, NothingMisleads
<1>d. PICK d \in Versions : d = disk'[f]
  OBVIOUS
<1>1. EntryMoves(f) /\ TargetMoves(f)
  BY <1>0, EntriesMove, TargetsMove
<1>2. manifest'[f] # NoEntry /\ manifest'[f].hash = d
  BY <1>d DEF Records
<1>3. CASE Commit /\ f \in Complete
  <2>1. f \in storing /\ store = "commit" /\ UNCHANGED <<rows, fresh>>
    BY <1>3 DEF Commit, Complete, durable
  <2>2. manifest'[f] = NewEntry(f) \/ manifest'[f] = manifest[f]
    BY <1>3 DEF Commit
  <2>3. Knows(f, d) \/ ScannedAs(f, d)
    BY <1>0, <1>2, <2>1, <2>2 DEF NewEntry, Knows, Records, ScannedAs, Inductive, Places, Scanned
  <2>4. NewRows(f) = Full(d)
    BY <1>d, <2>1, <2>3, StoredContent
  <2>5. Target'[f] = Target[f]
    BY <1>0, <2>1 DEF Target
  <2>6. Target[f] = NewRows(f)
    BY <2>1 DEF Exact
  <2> QED BY <1>d, <2>4, <2>5, <2>6
<1>4. CASE manifest[f] # NoEntry /\ manifest'[f].hash = manifest[f].hash
  <2>1. Records(manifest, f, d) /\ Knows(f, d)
    BY <1>0, <1>2, <1>4 DEF Records, Knows
  <2>2. f \notin storing
    <3> SUFFICES ASSUME f \in storing PROVE FALSE
      OBVIOUS
    <3>1. scanned[f].hash = d /\ ~ Unchanged(f)
      BY <1>d, <2>1, StoredContent
    <3> QED BY <2>1, <3>1 DEF Records, Unchanged
  <2>3. Target'[f] = Target[f]
    BY <1>1, <2>2 DEF TargetMoves, DedupFile, Inductive, Places
  <2> QED BY <1>0, <1>d, <2>1, <2>3, TellsStays DEF TablesTell
<1>5. CASE manifest[f] # NoEntry /\ manifest'[f] = [manifest[f] EXCEPT !.mtime = scanned[f].mtime]
  <2>1. manifest[f] \in Entry
    BY <1>0, <1>5, EntriesTyped DEF Inductive
  <2>2. manifest'[f].hash = manifest[f].hash
    BY <1>5, <2>1 DEF Entry
  <2> QED BY <1>4, <1>5, <2>2
<1> QED BY <1>1, <1>2, <1>3, <1>4, <1>5 DEF EntryMoves

\* They also agree with what an older manifest tells.
LEMMA OlderTells ==
    ASSUME Inductive, SkipInv, NothingMisleads, [Next]_vars, pc # "idle", pc' # "idle",
           NEW m \in {saved, freshSaved}, TableTells(m, Target), NEW f \in Files,
           disk'[f] \in Versions, Records(m, f, disk'[f]), Target'[f] # {}
    PROVE  Target'[f] = Full(disk'[f])
<1> USE DEF SkipInv
<1>0. Backend = "lance" /\ "revert" \notin Edits
  BY DEF NothingMisleads
<1>1. TargetMoves(f)
  BY <1>0, TargetsMove
<1>2. Target[f] # {} => Target[f] = Full(disk'[f])
  BY <1>0, TellsStays
<1>3. Knows(f, disk'[f])
  BY DEF Knows
<1>4. f \in storing => NewRows(f) = Full(disk'[f])
  BY <1>3, StoredContent
<1>5. DedupFile(f) => f \in storing
  BY DEF DedupFile, Inductive, Places
<1> QED BY <1>1, <1>2, <1>4, <1>5 DEF TargetMoves

\* Before and after a pass there is only the store and its manifest to look at.
LEMMA RestingTells ==
    ASSUME Inductive, SkipInv, NothingMisleads, [Next]_vars, pc = "idle" \/ pc' = "idle"
    PROVE  TablesTell'
<1> USE DEF SkipInv
<1>0. CleanStart /\ "revert" \notin Edits /\ Backend = "lance" /\ manifest # NoManifest
  BY MarkersAssumption DEF Past, NothingMisleads, Inductive, TypeOK
<1>1. \/ saved' \in {saved, NoManifest} /\ rows' \in {rows, NoRows} /\ pc' \in {"idle", "scan"}
      \/ SaveFinal
  BY <1>0, RestingMoves
<1>2. pc' \in {"idle", "scan"}
  BY <1>1 DEF SaveFinal, Rest
<1>3. freshSaved' = NoManifest
  BY <1>0, <1>2, CleanStartStep DEF CleanStart
<1>4. TableTells(freshSaved, fresh)'
  BY <1>3 DEF TableTells, Records
<1>5. TableTells(saved, rows)'
  <2> SUFFICES ASSUME NEW f \in Files, disk'[f] \in Versions, Records(saved, f, disk[f])', rows'[f] # {}
               PROVE  rows'[f] = Full(disk'[f])
    BY DEF TableTells
  <2>d. PICK d \in Versions : d = disk'[f]
    OBVIOUS
  <2>1. CASE saved' \in {saved, NoManifest} /\ rows' \in {rows, NoRows}
    <3>1. rows' = rows /\ saved' = saved /\ Records(saved, f, d)
      BY <2>1, <2>d DEF Records, NoRows
    <3> QED BY <1>0, <2>d, <3>1, TellsStays DEF TablesTell
  <2>2. CASE SaveFinal
    <3>1. rows' = rows /\ saved' = manifest /\ pc = "save"
      BY <2>2 DEF SaveFinal
    <3>2. Records(manifest, f, d)
      BY <2>d, <3>1 DEF Records
    <3>3. rows = Target
      BY <3>1 DEF TablesTell, Target
    <3> QED BY <1>0, <2>d, <3>1, <3>2, <3>3, TellsStays DEF TablesTell
  <2> QED BY <1>1, <2>1, <2>2
<1>6. TableTells(manifest, Target)'
  <2>1. CASE pc' = "idle"
    <3>1. manifest' = NoEntries
      BY <2>1, InductiveStep DEF Inductive, Phases
    <3> QED BY <3>1 DEF TableTells, Records, NoEntries
  <2>2. CASE pc = "idle" /\ pc' # "idle"
    <3>1. PICK K \in SUBSET (StartKinds \cap Faults) : StartPass(K)
      BY <2>2, UnreadMoves
    <3>2. /\ fresh' = NoRows /\ UNCHANGED <<disk, rows, saved>> /\ mode' \in {"inplace", "temp"}
      BY <2>2, <3>1, StartsExact
    <3>3. CASE mode' = "temp"
      BY <3>2, <3>3 DEF TableTells, Target, NoRows
    <3>4. CASE mode' = "inplace"
      <4> SUFFICES ASSUME NEW f \in Files, disk'[f] \in Versions, Records(manifest, f, disk[f])', rows'[f] # {}
                   PROVE  rows'[f] = Full(disk'[f])
        BY <3>4 DEF TableTells, Target
      <4>1. EntryMoves(f) /\ manifest'[f] # NoEntry /\ manifest[f] = NoEntry
        BY <2>2, EntriesMove DEF Records, Inductive, Phases, NoEntries
      <4>2. manifest'[f] = saved[f] /\ Records(saved, f, manifest'[f].hash)
        BY <2>2, <4>1 DEF EntryMoves, Complete, Commit, Inductive, Phases
      <4>3. Records(saved, f, disk[f])
        BY <3>2, <4>2 DEF Records
      <4> QED BY <3>2, <4>3 DEF TablesTell, TableTells
    <3> QED BY <3>2, <3>3, <3>4
  <2> QED BY <2>1, <2>2
<1> QED BY <1>2, <1>4, <1>5, <1>6 DEF TablesTell

LEMMA TablesTellStep ==
    ASSUME Inductive, SkipInv, NothingMisleads, [Next]_vars
    PROVE  TablesTell'
<1> USE DEF SkipInv
<1>1. CASE pc = "idle" \/ pc' = "idle"
  BY <1>1, RestingTells
<1>2. CASE pc # "idle" /\ pc' # "idle"
  <2>0. /\ mode' = mode /\ Backend = "lance" /\ "revert" \notin Edits /\ SidesMove
        /\ mode \in {"inplace", "temp"}
    BY <1>2, SavesInPlace, OtherSide DEF NothingMisleads, Inductive, Phases
  <2>1. TableTells(manifest, Target)'
    BY <1>2, ManifestTells
  <2>2. ASSUME mode = "inplace" PROVE TableTells(saved, rows)'
    <3>1. Target = rows /\ Target' = rows'
      BY <2>0, <2>2 DEF Target
    <3>2. saved' = saved \/ (saved' = manifest /\ manifest' = manifest)
      BY <1>2, <2>2, SavesInPlace
    <3>3. CASE saved' = manifest /\ manifest' = manifest
      BY <2>1, <3>1, <3>3 DEF TableTells
    <3>4. CASE saved' = saved
      <4> SUFFICES ASSUME NEW f \in Files, disk'[f] \in Versions, Records(saved, f, disk[f])', rows'[f] # {}
                   PROVE  rows'[f] = Full(disk'[f])
        BY DEF TableTells
      <4>d. PICK d \in Versions : d = disk'[f]
        OBVIOUS
      <4>1. Records(saved, f, d)
        BY <3>4, <4>d DEF Records
      <4> QED BY <1>2, <3>1, <4>d, <4>1, OlderTells DEF TablesTell
    <3> QED BY <3>2, <3>3, <3>4
  <2>3. ASSUME mode = "temp" PROVE TableTells(saved, rows)'
    <3> SUFFICES ASSUME NEW f \in Files, disk'[f] \in Versions, Records(saved, f, disk[f])', rows'[f] # {}
                 PROVE  rows'[f] = Full(disk'[f])
      BY DEF TableTells
    <3>d. PICK d \in Versions : d = disk'[f]
      OBVIOUS
    <3>1. CASE Promote
      <4>1. rows' = fresh /\ saved' = freshSaved
        BY <2>3, <3>1 DEF Promote
      <4>2. Records(freshSaved, f, d)
        BY <3>d, <4>1 DEF Records
      <4> QED BY <2>0, <3>d, <4>1, <4>2, TellsStays DEF TablesTell
    <3>2. CASE UNCHANGED <<rows, saved>>
      <4>1. Records(saved, f, d)
        BY <3>2, <3>d DEF Records
      <4> QED BY <2>0, <3>d, <3>2, <4>1, TellsStays DEF TablesTell
    <3> QED BY <2>0, <2>3, <3>1, <3>2 DEF SidesMove
  <2>4. ASSUME mode = "inplace" PROVE TableTells(freshSaved, fresh)'
    <3>1. freshSaved' = NoManifest
      BY <2>0, <2>4, ExactStep DEF Exact
    <3> QED BY <3>1 DEF TableTells, Records
  <2>5. ASSUME mode = "temp" PROVE TableTells(freshSaved, fresh)'
    <3>1. Target = fresh /\ Target' = fresh'
      BY <2>0, <2>5 DEF Target
    <3>2. freshSaved' = freshSaved \/ (freshSaved' = manifest /\ manifest' = manifest)
      BY <2>0, <2>5 DEF SidesMove, Promote
    <3>3. CASE freshSaved' = manifest /\ manifest' = manifest
      BY <2>1, <3>1, <3>3 DEF TableTells
    <3>4. CASE freshSaved' = freshSaved
      <4> SUFFICES ASSUME NEW f \in Files, disk'[f] \in Versions, Records(freshSaved, f, disk[f])', fresh'[f] # {}
                   PROVE  fresh'[f] = Full(disk'[f])
        BY DEF TableTells
      <4>d. PICK d \in Versions : d = disk'[f]
        OBVIOUS
      <4>1. Records(freshSaved, f, d)
        BY <3>4, <4>d DEF Records
      <4> QED BY <1>2, <3>1, <4>d, <4>1, OlderTells DEF TablesTell
    <3> QED BY <3>2, <3>3, <3>4
  <2>6. ASSUME pc' = "save", mode' # "inplace" PROVE rows' = fresh'
    <3>1. Promote \/ (pc = "save" /\ UNCHANGED <<rows, fresh>>)
      BY <1>2, <2>0, <2>6, SavingMoves
    <3> QED BY <2>0, <2>6, <3>1 DEF Promote, TablesTell
  <2> QED BY <2>0, <2>1, <2>2, <2>3, <2>4, <2>5, <2>6 DEF TablesTell
<1> QED BY <1>1, <1>2

LEMMA SkipInit == Init => SkipInv
<1> SUFFICES ASSUME Init PROVE SkipInv
  OBVIOUS
<1>1. \A f \in Files : NoEntries[f] = NoEntry
  BY DEF NoEntries
<1>2. FingerprintsFit
  BY <1>1 DEF Init, FingerprintsFit, Scanned
<1>3. WholeFiles /\ Settled /\ Exact
  BY DEF Init, WholeFiles, Settled, Exact
<1>4. TablesTell
  BY <1>1 DEF Init, TablesTell, TableTells, Records
<1> QED BY <1>2, <1>3, <1>4, PastInit DEF SkipInv

\* After any sequence of passes, crashes, lost manifests and dropped tables, a
\* file that the next scan skips by its fingerprint and that has rows has all the
\* rows of the content it has: the manifest never vouches for what the store does
\* not hold.  This holds for the LanceDB backend, of both ways to write (into the
\* store, and into a rebuild target that replaces it).
THEOREM SkippedAreIndexed ==
    ASSUME NothingMisleads
    PROVE  Spec => []SkippedFilesAreIndexed
<1>1. SkipInv /\ Inductive /\ [Next]_vars => SkipInv'
  <2> SUFFICES ASSUME SkipInv, Inductive, [Next]_vars PROVE SkipInv'
    OBVIOUS
  <2>1. Past'
    BY PastStep DEF SkipInv, NothingMisleads
  <2> QED BY <2>1, FingerprintsFitStep, WholeFilesStep, SettledStep, ExactStep, TablesTellStep DEF SkipInv
<1>2. SkipInv => SkippedFilesAreIndexed
  <2> SUFFICES ASSUME SkipInv, NEW f \in Files, Skipped(f), rows[f] # {} PROVE rows[f] = Full(disk[f])
    BY DEF SkippedFilesAreIndexed
  <2>1. disk[f] \in Versions /\ disk[f] # NoFile /\ saved # NoManifest /\ saved[f] # NoEntry
    BY MarkersAssumption DEF Skipped, Indexable
  <2>2. Fits(f, saved[f])
    BY <2>1 DEF SkipInv, FingerprintsFit
  <2>3. Records(saved, f, disk[f])
    BY <2>1, <2>2 DEF Skipped, Fits, Records
  <2> QED BY <2>1, <2>3 DEF SkipInv, TablesTell, TableTells
<1> QED BY <1>1, <1>2, SkipInit, InductiveInvariant, PTL DEF Spec
===============================================================================
