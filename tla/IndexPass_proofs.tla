--------------------------- MODULE IndexPass_proofs ---------------------------
(***************************************************************************)
(* What IndexPass guarantees for every set of files and chunks, every      *)
(* backend, window size, kind of edit, kind of fault and bound: the        *)
(* conjuncts of Inductive, one lemma each, and the theorems they give.     *)
(***************************************************************************)
EXTENDS IndexPass, FiniteSetTheorems, TLAPS

-----------------------------------------------------------------------------
(* Helpers of the model *)

\* SetTarget does what its name says, as long as the step keeps the mode.
LEMMA SetTargetEffect ==
    ASSUME NEW t, SetTarget(t), mode' = mode
    PROVE  Target' = t
  BY DEF SetTarget, Target

\* A table with one file's rows replaced by rows is a table.
LEMMA SetTargetTyped ==
    ASSUME TypeOK, NEW t \in Table, SetTarget(t)
    PROVE  rows' \in Table /\ fresh' \in Table
  BY DEF SetTarget, TypeOK

LEMMA TargetTyped == TypeOK => Target \in Table
  BY DEF TypeOK, Target

\* What the start of a pass makes of a manifest is a manifest.
LEMMA StartManifestTyped ==
    ASSUME TypeOK, NEW m \in Manifest
    PROVE  /\ DropFailedDescriptions(m) \in Manifest
           /\ ResumeCheck(m) \in Manifest
  BY DEF DropFailedDescriptions, ResumeCheck, Manifest

\* A scanned file has a WorkspaceFile.
LEMMA ScannedTyped ==
    ASSUME TypeOK, NEW f \in Scanned
    PROVE  f \in Files /\ scanned[f] \in Scan /\ scanned[f].mtime \in 0 .. MaxMtime
  BY DEF TypeOK, Scanned, Scan

\* Rows on their way into the store are rows of real content.
LEMMA NewRowsTyped ==
    ASSUME TypeOK, InFlight, NEW f \in storing
    PROVE  NewRows(f) \in SUBSET (Versions \X Parts)
  BY DEF TypeOK, InFlight, NewRows

\* There are finitely many ways to start a pass unusually.
LEMMA StartKindsFinite ==
    ASSUME NEW K \in SUBSET (StartKinds \cap Faults)
    PROVE  Cardinality(K) \in Nat
<1>1. IsFiniteSet({"force"})
  BY FS_Singleton
<1>2. IsFiniteSet({"force"} \cup {"corrupt"})
  BY <1>1, FS_AddElement
<1>3. IsFiniteSet(({"force"} \cup {"corrupt"}) \cup {"countTimeout"})
  BY <1>2, FS_AddElement
<1>4. IsFiniteSet((({"force"} \cup {"corrupt"}) \cup {"countTimeout"}) \cup {"mismatch"})
  BY <1>3, FS_AddElement
<1>5. IsFiniteSet(((({"force"} \cup {"corrupt"}) \cup {"countTimeout"}) \cup {"mismatch"})
                  \cup {"noDimension"})
  BY <1>4, FS_AddElement
<1>6. K \subseteq (((({"force"} \cup {"corrupt"}) \cup {"countTimeout"}) \cup {"mismatch"})
                   \cup {"noDimension"})
  BY DEF StartKinds
<1> QED BY <1>5, <1>6, FS_Subset, FS_CardinalityType

-----------------------------------------------------------------------------
(* Type correctness *)

\* Leaving a pass restores well-typed idle values.
LEMMA RestTyped ==
    ASSUME TypeOK, Rest,
           disk' \in [Files -> Versions \cup {NoFile, Blank, Chunkless}],
           mtime' \in [Files -> 0 .. MaxMtime], faults' \in 0 .. MaxFaults,
           rows' \in Table, saved' \in Manifest \cup {NoManifest}
    PROVE  TypeOK'
<1>1. NoEntries \in Manifest /\ NoRows \in Table
  BY DEF NoEntries, NoRows, Manifest, Table
<1>2. NoEntries \in [Files -> Scan \cup {NoEntry}]
  BY DEF NoEntries
<1> QED BY <1>1, <1>2 DEF TypeOK, Rest

\* Every step keeps every variable in its set.
LEMMA TypeStep ==
    ASSUME TypeOK, Places, InFlight, [Next]_vars
    PROVE  TypeOK'
<1> USE DEF world, durable, setup, scanVars, winVars, backVars, passVars
<1>1. CASE UNCHANGED vars
  BY <1>1 DEF TypeOK, vars
<1>2. ASSUME NEW K \in SUBSET (StartKinds \cap Faults), StartPass(K)
      PROVE  TypeOK'
  <2>1. faults' \in 0 .. MaxFaults
    BY <1>2, StartKindsFinite, BoundsAssumption DEF StartPass, TypeOK
  <2>2. UNCHANGED <<disk, mtime>>
    BY <1>2 DEF StartPass
  <2>3. ASSUME NEW where \in {"inplace", "temp", "epoch"}, NEW m \in Manifest,
               NEW count, NEW force \in BOOLEAN, Begin(where, m, count, force)
        PROVE  TypeOK'
    <3>1. dedup' \in BOOLEAN /\ forced' \in BOOLEAN
      BY <2>3 DEF Begin
    <3>2. unread' \subseteq Files
      BY <2>3 DEF Begin
    <3> QED BY <2>1, <2>2, <2>3, <3>1, <3>2 DEF TypeOK, Begin
  <2> DEFINE m0 == DropFailedDescriptions(IF saved = NoManifest THEN NoEntries
                                                                ELSE saved)
             m1 == IF saved # NoManifest /\ "force" \notin K THEN ResumeCheck(m0)
                                                             ELSE m0
  <2>4. NoEntries \in Manifest
    BY DEF NoEntries, Manifest
  <2>5. m1 \in Manifest
    BY <2>4, StartManifestTyped DEF TypeOK
  <2>6. \/ \E where \in {"inplace", "temp", "epoch"}, m \in {m1, NoEntries} :
               \E count : \E force \in BOOLEAN : Begin(where, m, count, force)
        \/ UNCHANGED <<durable, passVars>>
    <3>1. PICK count : \/ \E m \in {m1, NoEntries} : Begin("inplace", m, count, FALSE)
                       \/ \E where \in {"inplace", "temp", "epoch"} : Begin(where, NoEntries, count, "force" \in K)
                       \/ UNCHANGED <<durable, passVars>>
      BY <1>2 DEF StartPass
    <3>2. ("force" \in K) \in BOOLEAN
      OBVIOUS
    <3> QED BY <3>1, <3>2
  <2>7. CASE UNCHANGED <<durable, passVars>>
    BY <2>1, <2>2, <2>7 DEF TypeOK
  <2> QED BY <2>3, <2>4, <2>5, <2>6, <2>7
<1>3. ASSUME NEW f \in Files, Write(f) PROVE TypeOK'
  BY <1>3, BoundsAssumption DEF Write, Writable, Versions, TypeOK
<1>4. ASSUME NEW f \in Files, Delete(f) PROVE TypeOK'
  BY <1>4 DEF Delete, TypeOK
<1>5. CASE LoseManifest
  BY <1>5, BoundsAssumption DEF LoseManifest, Inject, Injectable, TypeOK
<1>6. CASE LoseRows
  BY <1>6, BoundsAssumption DEF LoseRows, NoRows, Table, Inject, Injectable, TypeOK
<1>7. CASE Crash
  BY <1>7, RestTyped, BoundsAssumption DEF Crash, Inject, Injectable, TypeOK
<1>8. CASE Abort
  BY <1>8, BoundsAssumption DEF Abort, Inject, Injectable, TypeOK
<1>9. ASSUME NEW f \in Files, SkipRead(f) PROVE TypeOK'
  BY <1>9, MarkersAssumption
  DEF SkipRead, FastPath, Manifest, Entry, Scan, Versions, TypeOK
<1>10. ASSUME NEW f \in Files, ReadFile(f) PROVE TypeOK'
  BY <1>10, BoundsAssumption DEF ReadFile, Scan, TypeOK
<1>11. ASSUME NEW f \in Files, StatFile(f) PROVE TypeOK'
  <2> DEFINE t == IF disk[f] = NoFile THEN 0 ELSE mtime[f]
  <2>1. f \in Scanned /\ scanned[f] \in Scan
    BY <1>11, ScannedTyped DEF StatFile, Places
  <2>2. t \in 0 .. MaxMtime
    BY BoundsAssumption DEF TypeOK
  <2>3. scanned' \in [Files -> Scan \cup {NoEntry}]
    BY <1>11, <2>1, <2>2 DEF StatFile, TypeOK, Scan
  <2>4. unread' \subseteq Files /\ unstatted' \subseteq Files
    BY <1>11 DEF StatFile, TypeOK
  <2>5. UNCHANGED <<world, durable, pc, setup, aborted, manifest, fresh,
                    freshSaved, winVars, backVars, touched, pending>>
    BY <1>11 DEF StatFile
  <2> QED BY <2>3, <2>4, <2>5 DEF TypeOK
<1>12. ASSUME NEW f \in Files, ExtractionFails(f) PROVE TypeOK'
  BY <1>12, BoundsAssumption, MarkersAssumption
  DEF ExtractionFails, Inject, Injectable, Manifest, Entry, Scan, Versions, TypeOK
<1>13. CASE PreflightFails
  BY <1>13, RestTyped, BoundsAssumption DEF PreflightFails, Inject, Injectable, TypeOK
<1>14. CASE PreflightPasses
  BY <1>14 DEF PreflightPasses, TypeOK
<1>15. ASSUME NEW f \in Files, RemoveStale(f) PROVE TypeOK'
  BY <1>15 DEF RemoveStale, SetTarget, Target, Manifest, Table, TypeOK
<1>16. CASE StaleRemoved
  BY <1>16 DEF StaleRemoved, Scanned, TypeOK
<1>17. ASSUME NEW W \in SUBSET Files, NEW C \in SUBSET Files, NEW D \in SUBSET Files,
              PrepareWindow(W, C, D)
       PROVE  TypeOK'
  <2>1. faults' \in 0 .. MaxFaults
    BY <1>17, BoundsAssumption DEF PrepareWindow, Inject, Injectable, TypeOK
  <2>2. \A f \in W : Outcome(f, C) \in {"none", "skip", "remove", "embed"}
    BY DEF Outcome
  <2>3. prep' \in [Files -> {"none", "skip", "remove", "embed"}]
    BY <1>17, <2>2 DEF PrepareWindow
  <2> QED BY <1>17, <2>1, <2>3 DEF PrepareWindow, TypeOK
<1>18. ASSUME NEW f \in Files, RemoveEarly(f) PROVE TypeOK'
  BY <1>18 DEF RemoveEarly, SetTarget, Target, Manifest, Table, TypeOK
<1>19. ASSUME NEW missing \in SUBSET (Files \X Parts), EmbedWindow(missing)
       PROVE  TypeOK'
  <2>1. faults' \in 0 .. MaxFaults
    BY <1>19, BoundsAssumption DEF EmbedWindow, Inject, Injectable, TypeOK
  <2>2. emb' \in [Files -> SUBSET Parts]
    BY <1>19 DEF EmbedWindow, TypeOK
  <2>3. touched' \in BOOLEAN
    BY <1>19, Zenon DEF EmbedWindow, TypeOK
  <2>4. front' = "embedded"
        /\ UNCHANGED <<disk, mtime, durable, pc, setup, aborted, manifest, fresh,
                      freshSaved, scanVars, todo, prep, descFailed, backVars,
                      pending>>
    BY <1>19 DEF EmbedWindow
  <2> QED BY <2>1, <2>2, <2>3, <2>4 DEF TypeOK
<1>20. CASE LaunchStore
  BY <1>20 DEF LaunchStore, Window, TypeOK
<1>21. CASE BulkAdd
  <2>1. [f \in Files |-> IF f \in storing THEN Target[f] \cup NewRows(f)
                                          ELSE Target[f]] \in Table
    BY NewRowsTyped, TargetTyped DEF Table
  <2> QED BY <1>21, <2>1, SetTargetTyped DEF BulkAdd, TypeOK
<1>22. ASSUME NEW f \in Files, DedupFile(f) PROVE TypeOK'
  <2>1. [Target EXCEPT ![f] = NewRows(f)] \in Table
    BY <1>22, NewRowsTyped, TargetTyped DEF DedupFile, Places, Table
  <2> QED BY <1>22, <2>1, SetTargetTyped DEF DedupFile, TypeOK
<1>23. ASSUME NEW f \in Files, UpsertFile(f) PROVE TypeOK'
  <2>1. [Target EXCEPT ![f] = IF dedup THEN NewRows(f) ELSE @ \cup NewRows(f)] \in Table
    BY <1>23, NewRowsTyped, TargetTyped DEF UpsertFile, Places, Table
  <2> QED BY <1>23, <2>1, SetTargetTyped DEF UpsertFile, TypeOK
<1>24. CASE RowsWritten
  BY <1>24 DEF RowsWritten, TypeOK
<1>25. ASSUME NEW f \in Files, PurgeFile(f) PROVE TypeOK'
  <2>1. [Target EXCEPT ![f] = {}] \in Table
    BY TargetTyped DEF Table
  <2> QED BY <1>25, <2>1, SetTargetTyped DEF PurgeFile, TypeOK
<1>26. CASE Commit
  <2>1. \A f \in storing : NewEntry(f) \in Entry
    BY ScannedTyped DEF TypeOK, Places, InFlight, NewEntry, Entry
  <2>2. manifest' \in Manifest
    BY <1>26, <2>1 DEF Commit, Complete, Manifest, TypeOK
  <2>3. emb' \in [Files -> SUBSET Parts]
    BY <1>26 DEF Commit, TypeOK
  <2>4. descFailed' \subseteq Files
    BY <1>26 DEF Commit, TypeOK
  <2>5. pending' \in BOOLEAN /\ touched' \in BOOLEAN
    BY <1>26, Zenon DEF Commit, TypeOK
  <2>6. store' = "free" /\ storing' = {} /\ purge' = {}
        /\ UNCHANGED <<world, durable, pc, setup, aborted, fresh, freshSaved,
                      scanVars, todo, front, prep, queue, written>>
    BY <1>26 DEF Commit
  <2> QED BY <2>2, <2>3, <2>4, <2>5, <2>6 DEF TypeOK
<1>27. CASE CheckpointSave
  <2>1. saved' \in Manifest \cup {NoManifest} /\ freshSaved' \in Manifest \cup {NoManifest}
    BY <1>27 DEF CheckpointSave, TypeOK
  <2>2. pending' \in BOOLEAN
    BY <1>27 DEF CheckpointSave
  <2>3. UNCHANGED <<world, rows, pc, setup, aborted, manifest, fresh, scanVars,
                    winVars, backVars, touched>>
    BY <1>27 DEF CheckpointSave
  <2> QED BY <2>1, <2>2, <2>3 DEF TypeOK
<1>28. CASE EndWindows
  <2>1. \A f \in Scanned : manifest[f] # NoEntry =>
            [manifest[f] EXCEPT !.mtime = scanned[f].mtime] \in Entry
    BY ScannedTyped DEF TypeOK, Manifest, Entry
  <2>2. manifest' \in Manifest
    BY <1>28, <2>1 DEF EndWindows, Refingerprint, Manifest, TypeOK
  <2> QED BY <1>28, <2>2 DEF EndWindows, TypeOK
<1>29. ASSUME NEW f \in Files, SweepFile(f) PROVE TypeOK'
  BY <1>29 DEF SweepFile, Table, TypeOK
<1>30. CASE SweepDone
  BY <1>30 DEF SweepDone, TypeOK
<1>31. CASE PromoteNothing
  BY <1>31 DEF PromoteNothing, TypeOK
<1>32. CASE Promote
  BY <1>32 DEF Promote, TypeOK
<1>33. CASE DiscardRebuild
  BY <1>33, RestTyped, BoundsAssumption DEF DiscardRebuild, Inject, Injectable, TypeOK
<1>34. CASE SaveFinal
  BY <1>34, RestTyped DEF SaveFinal, TypeOK
<1> QED
  BY <1>1, <1>2, <1>3, <1>4, <1>5, <1>6, <1>7, <1>8, <1>9, <1>10, <1>11, <1>12,
     <1>13, <1>14, <1>15, <1>16, <1>17, <1>18, <1>19, <1>20, <1>21, <1>22, <1>23,
     <1>24, <1>25, <1>26, <1>27, <1>28, <1>29, <1>30, <1>31, <1>32, <1>33, <1>34
  DEF Next, PassStep, Environment

-----------------------------------------------------------------------------
(* The control state of a pass *)

\* The variables of a phase are in use only in that phase.
LEMMA PhasesStep ==
    ASSUME TypeOK, Phases, Places, [Next]_vars
    PROVE  Phases'
<1> USE OptionsAssumption DEF Phases, Window, world, durable, setup, scanVars,
       winVars, backVars
<1>1. CASE UNCHANGED vars
  BY <1>1 DEF vars, passVars
<1>2. ASSUME NEW K \in SUBSET (StartKinds \cap Faults), StartPass(K)
      PROVE Phases'
  BY <1>2 DEF StartPass, Begin, passVars, TypeOK
<1>3. ASSUME NEW f \in Files, Write(f) PROVE Phases'
  BY <1>3 DEF Write, passVars
<1>4. ASSUME NEW f \in Files, Delete(f) PROVE Phases'
  BY <1>4 DEF Delete, passVars
<1>5. CASE LoseManifest
  BY <1>5 DEF LoseManifest, passVars
<1>6. CASE LoseRows
  BY <1>6 DEF LoseRows, passVars
<1>7. CASE Crash
  BY <1>7 DEF Crash, Rest, NoEntries
<1>8. CASE Abort
  BY <1>8 DEF Abort
<1>9. ASSUME NEW f \in Files, SkipRead(f) PROVE Phases'
  BY <1>9 DEF SkipRead
<1>10. ASSUME NEW f \in Files, ReadFile(f) PROVE Phases'
  BY <1>10 DEF ReadFile
<1>11. ASSUME NEW f \in Files, StatFile(f) PROVE Phases'
  BY <1>11 DEF StatFile
<1>12. ASSUME NEW f \in Files, ExtractionFails(f) PROVE Phases'
  BY <1>12 DEF ExtractionFails
<1>13. CASE PreflightFails
  BY <1>13 DEF PreflightFails, Rest
<1>14. CASE PreflightPasses
  BY <1>14 DEF PreflightPasses, ScanDone
<1>15. ASSUME NEW f \in Files, RemoveStale(f) PROVE Phases'
  BY <1>15 DEF RemoveStale, StalePaths, SetTarget
<1>16. CASE StaleRemoved
  BY <1>16 DEF StaleRemoved
<1>17. ASSUME NEW W \in SUBSET Files, NEW C \in SUBSET Files, NEW D \in SUBSET
              Files, PrepareWindow(W, C, D)
       PROVE Phases'
  BY <1>17 DEF PrepareWindow, TypeOK
<1>18. ASSUME NEW f \in Files, RemoveEarly(f) PROVE Phases'
  BY <1>18 DEF RemoveEarly, SetTarget
<1>19. ASSUME NEW missing \in SUBSET (Files \X Parts), EmbedWindow(missing)
       PROVE Phases'
  BY <1>19 DEF EmbedWindow
<1>20. CASE LaunchStore
  BY <1>20 DEF LaunchStore, TypeOK
<1>21. CASE BulkAdd
  BY <1>21 DEF BulkAdd, SetTarget
<1>22. ASSUME NEW f \in Files, DedupFile(f) PROVE Phases'
  BY <1>22 DEF DedupFile, SetTarget
<1>23. ASSUME NEW f \in Files, UpsertFile(f) PROVE Phases'
  BY <1>23 DEF UpsertFile, SetTarget
<1>24. CASE RowsWritten
  BY <1>24 DEF RowsWritten
<1>25. ASSUME NEW f \in Files, PurgeFile(f) PROVE Phases'
  BY <1>25 DEF PurgeFile, SetTarget
<1>26. CASE Commit
  <2>1. UNCHANGED <<pc, mode, unread, unstatted, todo, front, prep, queue, written>>
    BY <1>26 DEF Commit
  <2>2. store' = "free" /\ storing' = {} /\ queue = {}
    BY <1>26 DEF Commit
  <2>3. pc = "windows"
    BY <1>26 DEF Commit
  <2> QED BY <2>1, <2>2, <2>3
<1>27. CASE CheckpointSave
  BY <1>27 DEF CheckpointSave
<1>28. CASE EndWindows
  BY <1>28 DEF EndWindows, WindowsDone, Refingerprint, SweepDue
<1>29. ASSUME NEW f \in Files, SweepFile(f) PROVE Phases'
  BY <1>29 DEF SweepFile, passVars
<1>30. CASE SweepDone
  BY <1>30 DEF SweepDone
<1>31. CASE PromoteNothing
  BY <1>31 DEF PromoteNothing
<1>32. CASE Promote
  BY <1>32 DEF Promote
<1>33. CASE DiscardRebuild
  BY <1>33 DEF DiscardRebuild, Rest
<1>34. CASE SaveFinal
  BY <1>34 DEF SaveFinal, Rest
<1> QED
  BY <1>1, <1>2, <1>3, <1>4, <1>5, <1>6, <1>7, <1>8, <1>9, <1>10, <1>11,
     <1>12, <1>13, <1>14, <1>15, <1>16, <1>17, <1>18, <1>19, <1>20, <1>21,
     <1>22, <1>23, <1>24, <1>25, <1>26, <1>27, <1>28, <1>29, <1>30, <1>31,
     <1>32, <1>33, <1>34
  DEF Next, PassStep, Environment

\* A scanned file is in one place at a time.
LEMMA PlacesStep ==
    ASSUME TypeOK, Phases, Places, [Next]_vars
    PROVE  Places'
<1> USE DEF TypeOK, Phases, Places, Window, Scanned, world, durable, setup,
       scanVars, winVars, backVars
<1>1. CASE UNCHANGED vars
  BY <1>1 DEF vars, passVars
<1>2. ASSUME NEW K \in SUBSET (StartKinds \cap Faults), StartPass(K)
      PROVE Places'
  BY <1>2 DEF StartPass, Begin, passVars
<1>3. ASSUME NEW f \in Files, Write(f) PROVE Places'
  BY <1>3 DEF Write, passVars
<1>4. ASSUME NEW f \in Files, Delete(f) PROVE Places'
  BY <1>4 DEF Delete, passVars
<1>5. CASE LoseManifest
  BY <1>5 DEF LoseManifest, passVars
<1>6. CASE LoseRows
  BY <1>6 DEF LoseRows, passVars
<1>7. CASE Crash
  BY <1>7 DEF Crash, Rest, NoEntries
<1>8. CASE Abort
  BY <1>8 DEF Abort
<1>9. ASSUME NEW f \in Files, SkipRead(f) PROVE Places'
  <2>1. scanned'[f] # NoEntry
    BY <1>9, MarkersAssumption DEF SkipRead, FastPath, Manifest, Entry, Scan, Versions
  <2> QED BY <1>9, <2>1 DEF SkipRead
<1>10. ASSUME NEW f \in Files, ReadFile(f) PROVE Places'
  <2>1. scanned'[f] # NoEntry
    BY <1>10, MarkersAssumption, BoundsAssumption DEF ReadFile, Scan
  <2> QED BY <1>10, <2>1 DEF ReadFile
<1>11. ASSUME NEW f \in Files, StatFile(f) PROVE Places'
  BY <1>11 DEF StatFile
<1>12. ASSUME NEW f \in Files, ExtractionFails(f) PROVE Places'
  <2>1. scanned'[f] # NoEntry
    BY <1>12, MarkersAssumption, BoundsAssumption
    DEF ExtractionFails, Manifest, Entry, Scan
  <2> QED BY <1>12, <2>1 DEF ExtractionFails
<1>13. CASE PreflightFails
  BY <1>13 DEF PreflightFails, Rest, NoEntries
<1>14. CASE PreflightPasses
  BY <1>14 DEF PreflightPasses, ScanDone
<1>15. ASSUME NEW f \in Files, RemoveStale(f) PROVE Places'
  BY <1>15 DEF RemoveStale, StalePaths, SetTarget
<1>16. CASE StaleRemoved
  BY <1>16 DEF StaleRemoved
<1>17. ASSUME NEW W \in SUBSET Files, NEW C \in SUBSET Files, NEW D \in SUBSET
              Files, PrepareWindow(W, C, D)
       PROVE Places'
  BY <1>17 DEF PrepareWindow
<1>18. ASSUME NEW f \in Files, RemoveEarly(f) PROVE Places'
  BY <1>18 DEF RemoveEarly, SetTarget
<1>19. ASSUME NEW missing \in SUBSET (Files \X Parts), EmbedWindow(missing)
       PROVE Places'
  BY <1>19 DEF EmbedWindow
<1>20. CASE LaunchStore
  BY <1>20 DEF LaunchStore
<1>21. CASE BulkAdd
  BY <1>21 DEF BulkAdd, SetTarget
<1>22. ASSUME NEW f \in Files, DedupFile(f) PROVE Places'
  BY <1>22 DEF DedupFile, SetTarget
<1>23. ASSUME NEW f \in Files, UpsertFile(f) PROVE Places'
  BY <1>23 DEF UpsertFile, SetTarget
<1>24. CASE RowsWritten
  BY <1>24 DEF RowsWritten
<1>25. ASSUME NEW f \in Files, PurgeFile(f) PROVE Places'
  BY <1>25 DEF PurgeFile, SetTarget
<1>26. CASE Commit
  <2>1. UNCHANGED <<unstatted, scanned, todo, prep, written, queue>>
        /\ storing' = {} /\ purge' = {}
    BY <1>26 DEF Commit
  <2>2. queue = {}
    BY <1>26 DEF Commit
  <2> QED BY <2>1, <2>2
<1>27. CASE CheckpointSave
  BY <1>27 DEF CheckpointSave
<1>28. CASE EndWindows
  BY <1>28 DEF EndWindows, WindowsDone, Refingerprint
<1>29. ASSUME NEW f \in Files, SweepFile(f) PROVE Places'
  BY <1>29 DEF SweepFile, passVars
<1>30. CASE SweepDone
  BY <1>30 DEF SweepDone
<1>31. CASE PromoteNothing
  BY <1>31 DEF PromoteNothing
<1>32. CASE Promote
  BY <1>32 DEF Promote
<1>33. CASE DiscardRebuild
  BY <1>33 DEF DiscardRebuild, Rest, NoEntries
<1>34. CASE SaveFinal
  BY <1>34 DEF SaveFinal, Rest, NoEntries
<1> QED
  BY <1>1, <1>2, <1>3, <1>4, <1>5, <1>6, <1>7, <1>8, <1>9, <1>10, <1>11,
     <1>12, <1>13, <1>14, <1>15, <1>16, <1>17, <1>18, <1>19, <1>20, <1>21,
     <1>22, <1>23, <1>24, <1>25, <1>26, <1>27, <1>28, <1>29, <1>30, <1>31,
     <1>32, <1>33, <1>34
  DEF Next, PassStep, Environment

\* Only files with real and new content are on their way into the store.
LEMMA InFlightStep ==
    ASSUME TypeOK, Phases, Places, InFlight, [Next]_vars
    PROVE  InFlight'
<1> USE DEF TypeOK, Phases, Places, InFlight, Window, Scanned, Unchanged,
       world, durable, setup, scanVars, winVars, backVars
<1>1. CASE UNCHANGED vars
  BY <1>1 DEF vars, passVars
<1>2. ASSUME NEW K \in SUBSET (StartKinds \cap Faults), StartPass(K)
      PROVE InFlight'
  BY <1>2 DEF StartPass, Begin, passVars
<1>3. ASSUME NEW f \in Files, Write(f) PROVE InFlight'
  BY <1>3 DEF Write, passVars
<1>4. ASSUME NEW f \in Files, Delete(f) PROVE InFlight'
  BY <1>4 DEF Delete, passVars
<1>5. CASE LoseManifest
  BY <1>5 DEF LoseManifest, passVars
<1>6. CASE LoseRows
  BY <1>6 DEF LoseRows, passVars
<1>7. CASE Crash
  BY <1>7 DEF Crash, Rest
<1>8. CASE Abort
  BY <1>8 DEF Abort
<1>9. ASSUME NEW f \in Files, SkipRead(f) PROVE InFlight'
  BY <1>9 DEF SkipRead
<1>10. ASSUME NEW f \in Files, ReadFile(f) PROVE InFlight'
  BY <1>10 DEF ReadFile
<1>11. ASSUME NEW f \in Files, StatFile(f) PROVE InFlight'
  BY <1>11 DEF StatFile
<1>12. ASSUME NEW f \in Files, ExtractionFails(f) PROVE InFlight'
  BY <1>12 DEF ExtractionFails
<1>13. CASE PreflightFails
  BY <1>13 DEF PreflightFails, Rest
<1>14. CASE PreflightPasses
  BY <1>14 DEF PreflightPasses, ScanDone
<1>15. ASSUME NEW f \in Files, RemoveStale(f) PROVE InFlight'
  BY <1>15 DEF RemoveStale, StalePaths, SetTarget
<1>16. CASE StaleRemoved
  BY <1>16 DEF StaleRemoved
<1>17. ASSUME NEW W \in SUBSET Files, NEW C \in SUBSET Files, NEW D \in SUBSET
              Files, PrepareWindow(W, C, D)
       PROVE InFlight'
  <2>1. \A f \in W : Outcome(f, C) = "embed"
                        => scanned[f].hash \in Versions /\ ~Unchanged(f)
    <3> TAKE f \in W
    <3>1. scanned[f] \in Scan
      BY <1>17, ScannedTyped DEF PrepareWindow
    <3> QED BY <3>1 DEF Outcome, Scan
  <2> QED BY <1>17, <2>1 DEF PrepareWindow
<1>18. ASSUME NEW f \in Files, RemoveEarly(f) PROVE InFlight'
  BY <1>18 DEF RemoveEarly, SetTarget
<1>19. ASSUME NEW missing \in SUBSET (Files \X Parts), EmbedWindow(missing)
       PROVE InFlight'
  BY <1>19 DEF EmbedWindow
<1>20. CASE LaunchStore
  BY <1>20 DEF LaunchStore
<1>21. CASE BulkAdd
  BY <1>21 DEF BulkAdd, SetTarget
<1>22. ASSUME NEW f \in Files, DedupFile(f) PROVE InFlight'
  BY <1>22 DEF DedupFile, SetTarget
<1>23. ASSUME NEW f \in Files, UpsertFile(f) PROVE InFlight'
  BY <1>23 DEF UpsertFile, SetTarget
<1>24. CASE RowsWritten
  BY <1>24 DEF RowsWritten
<1>25. ASSUME NEW f \in Files, PurgeFile(f) PROVE InFlight'
  BY <1>25 DEF PurgeFile, SetTarget
<1>26. CASE Commit
  <2>1. UNCHANGED <<prep, scanned>> /\ storing' = {}
    BY <1>26 DEF Commit
  <2>2. \A f \in Files : prep[f] = "embed" => manifest'[f] = manifest[f]
    BY <1>26 DEF Commit, Complete
  <2> QED BY <2>1, <2>2
<1>27. CASE CheckpointSave
  BY <1>27 DEF CheckpointSave
<1>28. CASE EndWindows
  BY <1>28 DEF EndWindows, WindowsDone, Refingerprint
<1>29. ASSUME NEW f \in Files, SweepFile(f) PROVE InFlight'
  BY <1>29 DEF SweepFile, passVars
<1>30. CASE SweepDone
  BY <1>30 DEF SweepDone
<1>31. CASE PromoteNothing
  BY <1>31 DEF PromoteNothing
<1>32. CASE Promote
  BY <1>32 DEF Promote
<1>33. CASE DiscardRebuild
  BY <1>33 DEF DiscardRebuild, Rest
<1>34. CASE SaveFinal
  BY <1>34 DEF SaveFinal, Rest
<1> QED
  BY <1>1, <1>2, <1>3, <1>4, <1>5, <1>6, <1>7, <1>8, <1>9, <1>10, <1>11,
     <1>12, <1>13, <1>14, <1>15, <1>16, <1>17, <1>18, <1>19, <1>20, <1>21,
     <1>22, <1>23, <1>24, <1>25, <1>26, <1>27, <1>28, <1>29, <1>30, <1>31,
     <1>32, <1>33, <1>34
  DEF Next, PassStep, Environment

-----------------------------------------------------------------------------
(* The store phase and the manifest *)

\* The rows the store phase has written stay where they are until it is over.
LEMMA StoreProgressStep ==
    ASSUME TypeOK, Phases, Places, InFlight, StoreProgress, [Next]_vars
    PROVE  StoreProgress'
<1> USE OptionsAssumption DEF TypeOK, Phases, Places, StoreProgress, Target,
       NewRows, Window, Scanned, world, durable, setup, scanVars, winVars,
       backVars
<1>1. CASE UNCHANGED vars
  BY <1>1 DEF vars, passVars
<1>2. ASSUME NEW K \in SUBSET (StartKinds \cap Faults), StartPass(K)
      PROVE StoreProgress'
  BY <1>2 DEF StartPass, Begin, passVars
<1>3. ASSUME NEW f \in Files, Write(f) PROVE StoreProgress'
  BY <1>3 DEF Write, passVars
<1>4. ASSUME NEW f \in Files, Delete(f) PROVE StoreProgress'
  BY <1>4 DEF Delete, passVars
<1>5. CASE LoseManifest
  BY <1>5 DEF LoseManifest, passVars
<1>6. CASE LoseRows
  BY <1>6 DEF LoseRows, passVars
<1>7. CASE Crash
  BY <1>7 DEF Crash, Rest, NoEntries
<1>8. CASE Abort
  BY <1>8 DEF Abort
<1>9. ASSUME NEW f \in Files, SkipRead(f) PROVE StoreProgress'
  BY <1>9 DEF SkipRead
<1>10. ASSUME NEW f \in Files, ReadFile(f) PROVE StoreProgress'
  BY <1>10 DEF ReadFile
<1>11. ASSUME NEW f \in Files, StatFile(f) PROVE StoreProgress'
  BY <1>11 DEF StatFile
<1>12. ASSUME NEW f \in Files, ExtractionFails(f) PROVE StoreProgress'
  BY <1>12 DEF ExtractionFails
<1>13. CASE PreflightFails
  BY <1>13 DEF PreflightFails, Rest, NoEntries
<1>14. CASE PreflightPasses
  BY <1>14 DEF PreflightPasses, ScanDone
<1>15. ASSUME NEW f \in Files, RemoveStale(f) PROVE StoreProgress'
  BY <1>15 DEF RemoveStale, StalePaths, SetTarget
<1>16. CASE StaleRemoved
  BY <1>16 DEF StaleRemoved
<1>17. ASSUME NEW W \in SUBSET Files, NEW C \in SUBSET Files, NEW D \in SUBSET
              Files, PrepareWindow(W, C, D)
       PROVE StoreProgress'
  BY <1>17 DEF PrepareWindow
<1>18. ASSUME NEW f \in Files, RemoveEarly(f) PROVE StoreProgress'
  <2>1. Target' = [Target EXCEPT ![f] = {}]
    BY <1>18, SetTargetEffect DEF RemoveEarly
  <2> HIDE DEF Target
  <2>2. UNCHANGED <<scanned, emb, store, storing, queue, written>> /\ f \in Window
    BY <1>18 DEF RemoveEarly
  <2>3. Target \in Table
    BY TargetTyped
  <2> QED BY <2>1, <2>2, <2>3 DEF Table
<1>19. ASSUME NEW missing \in SUBSET (Files \X Parts), EmbedWindow(missing)
       PROVE StoreProgress'
  <2>1. UNCHANGED <<scanned, store, storing, queue, written>> /\ Target' = Target
    BY <1>19 DEF EmbedWindow, passVars
  <2>2. \A f \in storing : f \notin Window /\ emb'[f] = emb[f]
    BY <1>19 DEF EmbedWindow
  <2> HIDE DEF Target
  <2> QED BY <2>1, <2>2
<1>20. CASE LaunchStore
  BY <1>20 DEF LaunchStore
<1>21. CASE BulkAdd
  BY <1>21 DEF BulkAdd, SetTarget
<1>22. ASSUME NEW f \in Files, DedupFile(f) PROVE StoreProgress'
  <2>1. Target' = [Target EXCEPT ![f] = NewRows(f)]
    BY <1>22, SetTargetEffect DEF DedupFile
  <2> HIDE DEF Target
  <2>2. UNCHANGED <<scanned, emb, store, storing, written>> /\ queue' = queue \ {f}
        /\ store = "dedup"
    BY <1>22 DEF DedupFile
  <2>3. Target \in Table
    BY TargetTyped
  <2> QED BY <2>1, <2>2, <2>3 DEF Table
<1>23. ASSUME NEW f \in Files, UpsertFile(f) PROVE StoreProgress'
  <2>1. \A g \in Files : Target'[g] = IF g # f THEN Target[g]
                          ELSE IF dedup THEN NewRows(f) ELSE Target[f] \cup NewRows(f)
    <3> HIDE DEF Target, NewRows
    <3>1. Target' = [Target EXCEPT ![f] = IF dedup THEN NewRows(f) ELSE Target[f] \cup NewRows(f)]
      BY <1>23, SetTargetEffect DEF UpsertFile
    <3> QED BY <3>1, TargetTyped DEF Table
  <2> HIDE DEF Target
  <2>2. UNCHANGED <<scanned, emb, store, storing, written>> /\ queue' = queue \ {f}
        /\ store = "insert"
    BY <1>23 DEF UpsertFile
  <2> QED BY <2>1, <2>2
<1>24. CASE RowsWritten
  BY <1>24 DEF RowsWritten
<1>25. ASSUME NEW f \in Files, PurgeFile(f) PROVE StoreProgress'
  <2>1. Target' = [Target EXCEPT ![f] = {}]
    BY <1>25, SetTargetEffect DEF PurgeFile
  <2> HIDE DEF Target
  <2>2. UNCHANGED <<scanned, emb, storing, queue, written>> /\ f \in purge
        /\ store = "purge"
    BY <1>25 DEF PurgeFile
  <2>3. Target \in Table
    BY TargetTyped
  <2>4. NewRows(f) = {}
    BY <2>2
  <2>5. \A g \in Files \ {f} : Target'[g] = Target[g]
    BY <2>1, <2>3 DEF Table
  <2>6. \A g \in storing : NewRows(g) \subseteq Target'[g]
    <3> HIDE DEF NewRows
    <3> QED BY <2>2, <2>4, <2>5
  <2>7. \A g \in storing' : (NewRows(g) \subseteq Target[g])'
    <3> HIDE DEF Target
    <3> QED BY <2>2, <2>6
  <2> HIDE DEF NewRows, Target
  <2> QED BY <2>2, <2>7
<1>26. CASE Commit
  BY <1>26 DEF Commit
<1>27. CASE CheckpointSave
  BY <1>27 DEF CheckpointSave
<1>28. CASE EndWindows
  BY <1>28 DEF EndWindows, WindowsDone, Refingerprint
<1>29. ASSUME NEW f \in Files, SweepFile(f) PROVE StoreProgress'
  BY <1>29 DEF SweepFile, passVars
<1>30. CASE SweepDone
  BY <1>30 DEF SweepDone
<1>31. CASE PromoteNothing
  BY <1>31 DEF PromoteNothing
<1>32. CASE Promote
  BY <1>32 DEF Promote
<1>33. CASE DiscardRebuild
  BY <1>33 DEF DiscardRebuild, Rest, NoEntries
<1>34. CASE SaveFinal
  BY <1>34 DEF SaveFinal, Rest, NoEntries
<1> QED
  BY <1>1, <1>2, <1>3, <1>4, <1>5, <1>6, <1>7, <1>8, <1>9, <1>10, <1>11,
     <1>12, <1>13, <1>14, <1>15, <1>16, <1>17, <1>18, <1>19, <1>20, <1>21,
     <1>22, <1>23, <1>24, <1>25, <1>26, <1>27, <1>28, <1>29, <1>30, <1>31,
     <1>32, <1>33, <1>34
  DEF Next, PassStep, Environment

\* A file is recorded under its new hash only once all its rows are stored.
LEMMA RecordedStep ==
    ASSUME TypeOK, Phases, Places, InFlight, StoreProgress,
           RecordedFilesAreComplete, [Next]_vars
    PROVE  RecordedFilesAreComplete'
<1> USE MarkersAssumption DEF TypeOK, Phases, Places,
       RecordedFilesAreComplete, Target, Window, Scanned, world, durable,
       setup, scanVars, winVars, backVars
<1>1. CASE UNCHANGED vars
  BY <1>1 DEF vars, passVars
<1>2. ASSUME NEW K \in SUBSET (StartKinds \cap Faults), StartPass(K)
      PROVE RecordedFilesAreComplete'
  BY <1>2 DEF StartPass, Begin, passVars
<1>3. ASSUME NEW f \in Files, Write(f) PROVE RecordedFilesAreComplete'
  BY <1>3 DEF Write, passVars
<1>4. ASSUME NEW f \in Files, Delete(f) PROVE RecordedFilesAreComplete'
  BY <1>4 DEF Delete, passVars
<1>5. CASE LoseManifest
  BY <1>5 DEF LoseManifest, passVars
<1>6. CASE LoseRows
  BY <1>6 DEF LoseRows, passVars
<1>7. CASE Crash
  BY <1>7 DEF Crash, Rest, NoEntries
<1>8. CASE Abort
  BY <1>8 DEF Abort
<1>9. ASSUME NEW f \in Files, SkipRead(f) PROVE RecordedFilesAreComplete'
  BY <1>9 DEF SkipRead
<1>10. ASSUME NEW f \in Files, ReadFile(f) PROVE RecordedFilesAreComplete'
  BY <1>10 DEF ReadFile
<1>11. ASSUME NEW f \in Files, StatFile(f) PROVE RecordedFilesAreComplete'
  BY <1>11 DEF StatFile
<1>12. ASSUME NEW f \in Files, ExtractionFails(f)
       PROVE RecordedFilesAreComplete'
  BY <1>12 DEF ExtractionFails
<1>13. CASE PreflightFails
  BY <1>13 DEF PreflightFails, Rest, NoEntries
<1>14. CASE PreflightPasses
  BY <1>14 DEF PreflightPasses, ScanDone
<1>15. ASSUME NEW f \in Files, RemoveStale(f) PROVE RecordedFilesAreComplete'
  BY <1>15 DEF RemoveStale, StalePaths, SetTarget
<1>16. CASE StaleRemoved
  BY <1>16 DEF StaleRemoved
<1>17. ASSUME NEW W \in SUBSET Files, NEW C \in SUBSET Files, NEW D \in SUBSET
              Files, PrepareWindow(W, C, D)
       PROVE RecordedFilesAreComplete'
  BY <1>17 DEF PrepareWindow
<1>18. ASSUME NEW f \in Files, RemoveEarly(f) PROVE RecordedFilesAreComplete'
  <2>1. Target' = [Target EXCEPT ![f] = {}]
    BY <1>18, SetTargetEffect DEF RemoveEarly
  <2> HIDE DEF Target
  <2>2. UNCHANGED <<scanned, written>> /\ f \in Window
        /\ manifest' = [manifest EXCEPT ![f] = NoEntry]
    BY <1>18 DEF RemoveEarly
  <2>3. Target \in Table
    BY TargetTyped
  <2> QED BY <2>1, <2>2, <2>3 DEF Table, Manifest
<1>19. ASSUME NEW missing \in SUBSET (Files \X Parts), EmbedWindow(missing)
       PROVE RecordedFilesAreComplete'
  BY <1>19 DEF EmbedWindow
<1>20. CASE LaunchStore
  BY <1>20 DEF LaunchStore, InFlight, Unchanged
<1>21. CASE BulkAdd
  <2>1. \A f \in Files : Target[f] \subseteq Target'[f]
    <3> HIDE DEF Target
    <3>1. Target' = [f \in Files |-> IF f \in storing THEN Target[f] \cup NewRows(f)
                                                   ELSE Target[f]]
      BY <1>21, SetTargetEffect DEF BulkAdd
    <3> QED BY <3>1
  <2> HIDE DEF Target
  <2>2. UNCHANGED <<scanned, written, manifest>>
    BY <1>21 DEF BulkAdd
  <2> QED BY <2>1, <2>2
<1>22. ASSUME NEW f \in Files, DedupFile(f) PROVE RecordedFilesAreComplete'
  <2>1. Target' = [Target EXCEPT ![f] = NewRows(f)]
    BY <1>22, SetTargetEffect DEF DedupFile
  <2> HIDE DEF Target
  <2>2. UNCHANGED <<scanned, written, manifest>> /\ f \in storing
    BY <1>22 DEF DedupFile
  <2>3. Target \in Table
    BY TargetTyped
  <2>4. ~Unchanged(f)
    BY <2>2 DEF InFlight
  <2> QED BY <2>1, <2>2, <2>3, <2>4 DEF Table, Unchanged
<1>23. ASSUME NEW f \in Files, UpsertFile(f) PROVE RecordedFilesAreComplete'
  <2>1. \A g \in Files \ {f} : Target'[g] = Target[g]
    <3> HIDE DEF Target
    <3>1. Target' = [Target EXCEPT ![f] = IF dedup THEN NewRows(f) ELSE Target[f] \cup NewRows(f)]
      BY <1>23, SetTargetEffect DEF UpsertFile
    <3> QED BY <3>1, TargetTyped DEF Table
  <2> HIDE DEF Target
  <2>2. UNCHANGED <<scanned, written, manifest>> /\ f \in storing
    BY <1>23 DEF UpsertFile
  <2>3. ~Unchanged(f)
    BY <2>2 DEF InFlight
  <2> QED BY <2>1, <2>2, <2>3 DEF Unchanged
<1>24. CASE RowsWritten
  BY <1>24 DEF RowsWritten
<1>25. ASSUME NEW f \in Files, PurgeFile(f) PROVE RecordedFilesAreComplete'
  <2>1. Target' = [Target EXCEPT ![f] = {}]
    BY <1>25, SetTargetEffect DEF PurgeFile
  <2> HIDE DEF Target
  <2>2. UNCHANGED <<scanned, written, manifest>> /\ f \notin written
    BY <1>25 DEF PurgeFile
  <2>3. Target \in Table
    BY TargetTyped
  <2> QED BY <2>1, <2>2, <2>3 DEF Table
<1>26. CASE Commit
  <2>1. UNCHANGED <<scanned, written, rows, fresh, mode>> /\ store = "commit"
    BY <1>26 DEF Commit
  <2>2. UNCHANGED Target
    BY <2>1
  <2> HIDE DEF Target
  <2>3. \A f \in Files : f \in Complete \/ manifest'[f] = manifest[f]
    BY <1>26 DEF Commit
  <2>4. \A f \in Complete : Full(scanned[f].hash) \subseteq Target[f]
    BY <2>1 DEF Complete, StoreProgress, NewRows, Full
  <2> QED BY <2>1, <2>2, <2>3, <2>4
<1>27. CASE CheckpointSave
  BY <1>27 DEF CheckpointSave
<1>28. CASE EndWindows
  BY <1>28 DEF EndWindows, WindowsDone, Refingerprint, Manifest, Entry
<1>29. ASSUME NEW f \in Files, SweepFile(f) PROVE RecordedFilesAreComplete'
  BY <1>29 DEF SweepFile, passVars, Orphans, passVars
<1>30. CASE SweepDone
  BY <1>30 DEF SweepDone
<1>31. CASE PromoteNothing
  BY <1>31 DEF PromoteNothing
<1>32. CASE Promote
  BY <1>32 DEF Promote
<1>33. CASE DiscardRebuild
  BY <1>33 DEF DiscardRebuild, Rest, NoEntries
<1>34. CASE SaveFinal
  BY <1>34 DEF SaveFinal, Rest, NoEntries
<1> QED
  BY <1>1, <1>2, <1>3, <1>4, <1>5, <1>6, <1>7, <1>8, <1>9, <1>10, <1>11,
     <1>12, <1>13, <1>14, <1>15, <1>16, <1>17, <1>18, <1>19, <1>20, <1>21,
     <1>22, <1>23, <1>24, <1>25, <1>26, <1>27, <1>28, <1>29, <1>30, <1>31,
     <1>32, <1>33, <1>34
  DEF Next, PassStep, Environment

-----------------------------------------------------------------------------
(* The theorems *)

LEMMA InductiveInit == Init => Inductive
<1> SUFFICES ASSUME Init PROVE Inductive
  OBVIOUS
<1>1. TypeOK
  <2>1. NoEntries \in Manifest /\ NoRows \in Table
    BY DEF NoEntries, NoRows, Manifest, Table
  <2>2. NoEntries \in [Files -> Scan \cup {NoEntry}]
    BY DEF NoEntries
  <2>3. 1 \in Versions /\ 0 \in 0 .. MaxMtime /\ 1 \in 0 .. MaxMtime /\ 0 \in 0 .. MaxFaults
    BY BoundsAssumption DEF Versions
  <2>4. disk \in [Files -> Versions \cup {NoFile, Blank, Chunkless}]
    BY <2>3 DEF Init
  <2>5. mtime \in [Files -> 0 .. MaxMtime] /\ faults \in 0 .. MaxFaults
    BY <2>3 DEF Init
  <2>6. dedup \in BOOLEAN /\ forced \in BOOLEAN /\ aborted \in BOOLEAN /\ touched \in BOOLEAN
        /\ pending \in BOOLEAN
    BY DEF Init
  <2>7. /\ prep \in [Files -> {"none", "skip", "remove", "embed"}]
        /\ emb \in [Files -> SUBSET Parts]
    BY DEF Init
  <2>8. /\ rows = NoRows /\ saved = NoManifest /\ pc = "idle" /\ mode = "inplace"
        /\ manifest = NoEntries /\ fresh = NoRows /\ freshSaved = NoManifest
        /\ unread = {} /\ unstatted = {} /\ scanned = NoEntries /\ todo = {}
        /\ front = "take" /\ descFailed = {} /\ store = "free" /\ storing = {}
        /\ queue = {} /\ purge = {} /\ written = {}
    BY DEF Init
  <2> QED BY <2>1, <2>2, <2>4, <2>5, <2>6, <2>7, <2>8 DEF TypeOK
<1>2. Window = {} /\ Scanned = {}
  BY DEF Init, Window, Scanned, NoEntries
<1>3. Phases
  BY <1>2 DEF Init, Phases
<1>4. Places
  BY <1>2 DEF Init, Places
<1>5. InFlight /\ StoreProgress /\ RecordedFilesAreComplete
  BY DEF Init, InFlight, StoreProgress, RecordedFilesAreComplete
<1> QED BY <1>1, <1>3, <1>4, <1>5 DEF Inductive

LEMMA InductiveStep == Inductive /\ [Next]_vars => Inductive'
<1> SUFFICES ASSUME Inductive, [Next]_vars PROVE Inductive'
  OBVIOUS
<1>1. TypeOK /\ Phases /\ Places /\ InFlight /\ StoreProgress
      /\ RecordedFilesAreComplete
  BY DEF Inductive
<1>2. TypeOK'
  BY <1>1, TypeStep
<1>3. Phases'
  BY <1>1, PhasesStep
<1>4. Places'
  BY <1>1, PlacesStep
<1>5. InFlight'
  BY <1>1, InFlightStep
<1>6. StoreProgress'
  BY <1>1, StoreProgressStep
<1>7. RecordedFilesAreComplete'
  BY <1>1, RecordedStep
<1> QED BY <1>2, <1>3, <1>4, <1>5, <1>6, <1>7 DEF Inductive

LEMMA InductiveInvariant == Spec => []Inductive
<1> QED BY InductiveInit, InductiveStep, PTL DEF Spec

\* Every variable of a pass keeps its shape, whatever edits and faults happen
\* while it runs.
THEOREM TypeCorrectness == Spec => []TypeOK
<1>1. Inductive => TypeOK
  BY DEF Inductive
<1> QED BY <1>1, InductiveInvariant, PTL

\* No pass records a file under its new hash before all rows of that content
\* are in the store the manifest belongs to (allEmbedded and the order of
\* storeWindow's writes and manifest updates).
THEOREM RecordedIsComplete == Spec => []RecordedFilesAreComplete
<1>1. Inductive => RecordedFilesAreComplete
  BY DEF Inductive
<1> QED BY <1>1, InductiveInvariant, PTL

\* With LanceDB a rebuild leaves the rows searches see and the manifest that
\* describes them alone until its promotion.
THEOREM LanceRebuildsAreInvisible ==
    ASSUME Backend = "lance"
    PROVE  Spec => RebuildLeavesIndexAlone
<1> DEFINE Visible == mode # "inplace" /\ durable' # durable
                          => \/ pc = "promote" /\ rows' = fresh
                             \/ pc = "save" /\ rows' = rows
<1>1. Inductive /\ [Next]_vars => [Visible]_vars
  <2> SUFFICES ASSUME Inductive, Next, mode # "inplace", durable' # durable
               PROVE  \/ pc = "promote" /\ rows' = fresh
                      \/ pc = "save" /\ rows' = rows
    OBVIOUS
  <2> USE DEF durable
  <2>1. pc # "idle" /\ mode = "temp" /\ pc # "sweep"
    BY OptionsAssumption DEF Inductive, Phases
  <2>2. ~(\E K \in SUBSET (StartKinds \cap Faults) : StartPass(K)) /\ ~Environment
    BY <2>1 DEF StartPass, Environment, Write, Delete, LoseManifest, LoseRows,
                Crash, Abort
  <2>3. PassStep
    BY <2>2 DEF Next
  <2>4. ~\E f \in Files : SkipRead(f) \/ ReadFile(f) \/ StatFile(f) \/ ExtractionFails(f)
    BY DEF SkipRead, ReadFile, StatFile, ExtractionFails
  <2>5. ~\E f \in Files : RemoveStale(f) \/ RemoveEarly(f) \/ DedupFile(f)
                              \/ UpsertFile(f) \/ PurgeFile(f) \/ SweepFile(f)
    BY <2>1 DEF RemoveStale, RemoveEarly, DedupFile, UpsertFile, PurgeFile,
                SweepFile, SetTarget
  <2>6. ~(\/ PreflightFails \/ PreflightPasses \/ StaleRemoved
          \/ (\E W, C, D \in SUBSET Files : PrepareWindow(W, C, D))
          \/ (\E missing \in SUBSET (Files \X Parts) : EmbedWindow(missing)))
    BY DEF PreflightFails, PreflightPasses, StaleRemoved, PrepareWindow, EmbedWindow
  <2>7. ~(LaunchStore \/ BulkAdd \/ RowsWritten \/ Commit \/ CheckpointSave)
    BY <2>1 DEF LaunchStore, BulkAdd, SetTarget, RowsWritten, Commit, CheckpointSave
  <2>8. ~(EndWindows \/ SweepDone \/ PromoteNothing \/ DiscardRebuild)
    BY DEF EndWindows, SweepDone, PromoteNothing, DiscardRebuild
  <2>9. CASE Promote
    BY <2>9 DEF Promote
  <2>10. CASE SaveFinal
    BY <2>10 DEF SaveFinal
  <2> QED BY <2>3, <2>4, <2>5, <2>6, <2>7, <2>8, <2>9, <2>10 DEF PassStep
<1> QED BY <1>1, InductiveInvariant, PTL DEF Spec, RebuildLeavesIndexAlone
=============================================================================
