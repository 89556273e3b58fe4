----------------------------- MODULE Index_proofs -----------------------------
(***************************************************************************)
(* What StoreSwap, HybridIndex, LanceStore and KeywordIndex guarantee for  *)
(* every set of files, chunks and quirks and every number of passes,       *)
(* crashes and failures: that the store and the keyword index beside it    *)
(* are whole and tell the same, that the table has what was written to it, *)
(* and that the keyword index is an InvertedIndex.                         *)
(***************************************************************************)
EXTENDS StoreSwap, HybridIndex, LanceStore, KeywordIndex, SequenceTheorems,
        FiniteSetTheorems, TLAPS

-----------------------------------------------------------------------------
(* StoreSwap: a rebuild aside, and the swap of the directories *)

\* Where a rebuild has got to shows in the directories: the temporary store is
\* complete and has no quirks, the store itself holds at least index.lock, and a
\* store that was moved away does too, so that nothing is renamed over it.
DirectoriesTell ==
    /\ pc \in {"rebuild", "away"} => real.other
    /\ pc \in {"away", "promote"} => tmp.table = "full" /\ tmp.quirks = {}
    /\ pc = "rescue" => real.table = "full"
    /\ pc = "rescue" /\ ~ raced => real.quirks = {}
    /\ old = Absent \/ (old.there /\ old.other)

\* One of the two names is that of the complete index; the other one may be
\* removed only when this is the store's own and everything was carried over.
KeptSomewhere ==
    /\ built => "full" \in {real.table, old.table}
    /\ ~ raced => noted \subseteq real.quirks \cup old.quirks
    /\ removing => old.there /\ real.table = "full"
    /\ removing /\ ~ raced => noted \subseteq real.quirks

\* Between the two renames it is the store's name that is free.
ServedOrAway ==
    built /\ real.table # "full" /\ ~ torn /\ ~ raced =>
        pc \in {"promote", "putBack"} /\ real = Absent

\* The inductive invariant of a rebuild.
SwapInv == SwapTypeOK /\ DirectoriesTell /\ KeptSomewhere /\ ServedOrAway

\* What is in a directory that is not there, that is new, or that was written to.
LEMMA NewDirectories ==
    /\ Absent \in Directory /\ FreshDatabase \in Directory
    /\ Absent.table = "none" /\ Absent.quirks = {} /\ ~ Absent.there /\ ~ Absent.other
    /\ FreshDatabase.table = "none" /\ FreshDatabase.quirks = {} /\ ~ FreshDatabase.other
<1>1. /\ Absent \in Directory
      /\ Absent.table = "none" /\ Absent.quirks = {} /\ ~ Absent.there /\ ~ Absent.other
  BY DEF Absent, Directory, Tables
<1> QED BY <1>1 DEF FreshDatabase, Directory

\* What touching a store changes in its directory.
LEMMA TouchedDirectory ==
    ASSUME NEW d \in Directory
    PROVE  /\ Touched(d) \in Directory /\ Touched(d).there /\ Touched(d).other
           /\ Touched(d).table = d.table /\ Touched(d).quirks = d.quirks
<1> DEFINE made == [d EXCEPT !.there = TRUE]
<1>1. made \in Directory /\ made.there /\ made.table = d.table /\ made.quirks = d.quirks
  BY DEF Directory
<1>2. Touched(d) = [made EXCEPT !.other = TRUE]
  BY DEF Touched, Directory
<1> QED BY <1>1, <1>2 DEF Directory

\* What beginning to write the table changes in a directory.
LEMMA PartDirectory ==
    ASSUME NEW d \in Directory
    PROVE  /\ [d EXCEPT !.table = "part"] \in Directory
           /\ [d EXCEPT !.table = "part"].there = d.there
           /\ [d EXCEPT !.table = "part"].other = d.other
           /\ [d EXCEPT !.table = "part"].quirks = d.quirks
           /\ [d EXCEPT !.table = "part"].table = "part"
BY DEF Directory, Tables

\* What writing the manifest changes in a directory.
LEMMA DirectoryWithManifest ==
    ASSUME NEW d \in Directory
    PROVE  /\ [d EXCEPT !.manifest = TRUE] \in Directory
           /\ [d EXCEPT !.manifest = TRUE].there = d.there
           /\ [d EXCEPT !.manifest = TRUE].other = d.other
           /\ [d EXCEPT !.manifest = TRUE].quirks = d.quirks
           /\ [d EXCEPT !.manifest = TRUE].table = d.table
BY DEF Directory

\* What finishing the table changes in a directory.
LEMMA FilledDirectory ==
    ASSUME NEW d \in Directory
    PROVE  LET filled == [d EXCEPT !.table = "full", !.manifest = TRUE]
           IN  /\ filled \in Directory
               /\ filled.there = d.there /\ filled.other = d.other
               /\ filled.quirks = d.quirks /\ filled.table = "full"
<1> DEFINE part == [d EXCEPT !.table = "full"]
<1>1. /\ part \in Directory /\ part.there = d.there /\ part.other = d.other
      /\ part.quirks = d.quirks /\ part.table = "full"
  BY DEF Directory, Tables
<1>2. /\ [part EXCEPT !.manifest = TRUE] \in Directory
      /\ [part EXCEPT !.manifest = TRUE].there = part.there
      /\ [part EXCEPT !.manifest = TRUE].other = part.other
      /\ [part EXCEPT !.manifest = TRUE].quirks = part.quirks
      /\ [part EXCEPT !.manifest = TRUE].table = part.table
  <2> HIDE DEF part
  <2> QED BY <1>1, DirectoryWithManifest
<1> QED BY <1>1, <1>2, Zenon

\* The types hold at the start.
LEMMA SwapTypeInit == SwapInit => SwapTypeOK
<1>1. 0 \in 0..MaxSwapFaults
  BY StoreSwapAssumption
<1>2. Absent \in Directory
  BY NewDirectories
<1> QED BY <1>1, <1>2 DEF SwapInit, SwapTypeOK

\* No step leaves them.
LEMMA SwapTypeStep == SwapTypeOK /\ [SwapNext]_swap => SwapTypeOK'
<1> SUFFICES ASSUME SwapTypeOK, [SwapNext]_swap PROVE SwapTypeOK'
  OBVIOUS
<1> USE StoreSwapAssumption, NewDirectories DEF SwapTypeOK
<1>a. ASSUME NEW kind, SwapFault(kind) PROVE faults' \in 0..MaxSwapFaults
  BY <1>a DEF SwapFault
<1>b. Touched(real) \in Directory
  BY TouchedDirectory
<1>1. ASSUME NEW force \in BOOLEAN, BeginSwapPass(force) PROVE SwapTypeOK'
  BY <1>1, <1>b DEF BeginSwapPass
<1>2. CASE WriteInPlace
  <2>1. CASE real' = [real EXCEPT !.table = "full", !.manifest = TRUE] /\ built' = TRUE /\ pc' = "idle"
    <3>1. /\ real' \in Directory /\ real'.quirks = real.quirks /\ real'.table = "full"
      BY <2>1, FilledDirectory
    <3> QED BY <1>2, <2>1, <3>1 DEF WriteInPlace
  <2>2. CASE real.table = "none" /\ real' = [real EXCEPT !.table = "part"] /\ UNCHANGED <<built, pc>>
    BY <1>2, <2>2, PartDirectory DEF WriteInPlace
  <2> QED BY <1>2, <2>1, <2>2 DEF WriteInPlace
<1>3. CASE BuildTemporary
  <2>1. tmp' \in Directory /\ tmp'.quirks = {} /\ tmp'.table = "full"
    BY <1>3, FilledDirectory DEF BuildTemporary
  <2> QED BY <1>3, <2>1 DEF BuildTemporary
<1>4. CASE MoveAway
  BY <1>4, <1>a DEF MoveAway
<1>5. CASE RenameBuilt
  BY <1>5, <1>a DEF RenameBuilt
<1>6. CASE RestoreBackup
  BY <1>6, <1>a DEF RestoreBackup
<1>7. CASE Rescue
  BY <1>7 DEF Rescue, Directory
<1>8. CASE FinishPass
  BY <1>8 DEF FinishPass
<1>9. CASE GiveUpRebuild
  BY <1>9, <1>a DEF GiveUpRebuild
<1>10. CASE RemoveOld
  BY <1>10 DEF RemoveOld
<1>11. ASSUME NEW kind, Die(kind) PROVE SwapTypeOK'
  <2>1. [Touched(Absent) EXCEPT !.table = "part"] \in Directory
    BY TouchedDirectory DEF Directory, Tables
  <2> QED BY <1>11, <1>a, <2>1 DEF Die
<1>12. ASSUME NEW q \in Quirks, NoteQuirk(q) PROVE SwapTypeOK'
  BY <1>12, ZenonT(40) DEF NoteQuirk, Directory
<1>13. CASE Outsider
  <2>1. [real EXCEPT !.there = TRUE] \in Directory
    BY DEF Directory
  <2> QED BY <1>13, <1>b, <2>1 DEF Outsider
<1>14. CASE UNCHANGED swap
  BY <1>14 DEF swap
<1> QED
  BY <1>1, <1>2, <1>3, <1>4, <1>5, <1>6, <1>7, <1>8, <1>9, <1>10, <1>11, <1>12, <1>13, <1>14
  DEF SwapNext, SwapStep, SwapCrash, ExitInPass

\* The invariant holds at the start.
LEMMA SwapInitial == SwapInit => SwapInv
BY SwapTypeInit, NewDirectories DEF SwapInit, SwapInv, DirectoriesTell, KeptSomewhere, ServedOrAway

\* No step of a rebuild, crash, stop or search breaks it.
LEMMA SwapStepKeepsInv == SwapInv /\ [SwapNext]_swap => SwapInv'
<1> SUFFICES ASSUME SwapInv, [SwapNext]_swap PROVE SwapInv'
  OBVIOUS
<1>0. SwapTypeOK'
  BY SwapTypeStep DEF SwapInv
<1> SUFFICES DirectoriesTell' /\ KeptSomewhere' /\ ServedOrAway'
  BY <1>0 DEF SwapInv
<1> USE NewDirectories DEF SwapInv, SwapTypeOK, DirectoriesTell, KeptSomewhere, ServedOrAway
<1>a. /\ Touched(real).there /\ Touched(real).other
      /\ Touched(real).table = real.table /\ Touched(real).quirks = real.quirks
  BY TouchedDirectory
<1>1. ASSUME NEW force \in BOOLEAN, BeginSwapPass(force)
      PROVE  DirectoriesTell' /\ KeptSomewhere' /\ ServedOrAway'
  BY <1>1, <1>a DEF BeginSwapPass
<1>2. CASE WriteInPlace
  <2>1. CASE real' = [real EXCEPT !.table = "full", !.manifest = TRUE] /\ built' = TRUE /\ pc' = "idle"
    <3>1. /\ real' \in Directory /\ real'.quirks = real.quirks /\ real'.table = "full"
      BY <2>1, FilledDirectory
    <3> QED BY <1>2, <2>1, <3>1 DEF WriteInPlace
  <2>2. CASE real.table = "none" /\ real' = [real EXCEPT !.table = "part"] /\ UNCHANGED <<built, pc>>
    BY <1>2, <2>2, PartDirectory DEF WriteInPlace
  <2> QED BY <1>2, <2>1, <2>2 DEF WriteInPlace
<1>3. CASE BuildTemporary
  <2>1. tmp' \in Directory /\ tmp'.quirks = {} /\ tmp'.table = "full"
    BY <1>3, FilledDirectory DEF BuildTemporary
  <2> QED BY <1>3, <2>1 DEF BuildTemporary
<1>4. CASE MoveAway
  BY <1>4 DEF MoveAway, Free, Directory
<1>5. CASE RenameBuilt
  BY <1>5 DEF RenameBuilt, Free
<1>6. CASE RestoreBackup
  BY <1>6 DEF RestoreBackup, Free
<1>7. CASE Rescue
  BY <1>7 DEF Rescue, Directory
<1>8. CASE FinishPass
  BY <1>8 DEF FinishPass
<1>9. CASE GiveUpRebuild
  BY <1>9 DEF GiveUpRebuild
<1>10. CASE RemoveOld
  BY <1>10 DEF RemoveOld
<1>11. ASSUME NEW kind, Die(kind) PROVE DirectoriesTell' /\ KeptSomewhere' /\ ServedOrAway'
  <2>1. /\ [Touched(Absent) EXCEPT !.table = "part"].there
        /\ [Touched(Absent) EXCEPT !.table = "part"].other
    BY TouchedDirectory DEF Directory
  <2> QED BY <1>11, <2>1 DEF Die
<1>12. ASSUME NEW q \in Quirks, NoteQuirk(q)
       PROVE  DirectoriesTell' /\ KeptSomewhere' /\ ServedOrAway'
  BY <1>12 DEF NoteQuirk, Exchanging, Directory
<1>13. CASE Outsider
  BY <1>13, <1>a DEF Outsider, Exchanging, Directory
<1>14. CASE UNCHANGED swap
  BY <1>14 DEF swap
<1> QED
  BY <1>1, <1>2, <1>3, <1>4, <1>5, <1>6, <1>7, <1>8, <1>9, <1>10, <1>11, <1>12, <1>13, <1>14
  DEF SwapNext, SwapStep, SwapCrash, ExitInPass

\* A rebuild that crashes, is stopped or fails at any point, and the next one after it,
\* lose neither the complete index nor a quirk, unless another process writes to the
\* store between its two renames.
THEOREM RebuildLosesNothing == SwapSpec => []NothingIsLost
<1>1. SwapInv => NothingIsLost
  BY DEF SwapInv, KeptSomewhere, NothingIsLost
<1> QED BY <1>1, SwapInitial, SwapStepKeepsInv, PTL DEF SwapSpec

\* Once an index was complete a search finds a complete one, but for the moment between
\* the two renames and where a process died or another one wrote in it.
THEOREM SearchesAreServed == SwapSpec => []IndexServed
<1>1. SwapInv => IndexServed
  BY DEF SwapInv, ServedOrAway, IndexServed
<1> QED BY <1>1, SwapInitial, SwapStepKeepsInv, PTL DEF SwapSpec

-----------------------------------------------------------------------------
(* HybridIndex: the rows and the keywords *)

\* Where the pass under way is with a file; the numbers of a text and of a pass.
FileSteps == {"-", "todo", "prepared", "done"}
TextOfPass == Nat \X Nat

\* What the argument needs of the types.
HybridTypes ==
    /\ text \in [IndexedFiles -> Nat] /\ recorded \in [IndexedFiles -> Nat]
    /\ rows \in [IndexedFiles -> TextOfPass]
    /\ words \in [IndexedFiles -> SUBSET TextOfPass] /\ savedWords \in [IndexedFiles -> SUBSET TextOfPass]
    /\ progress \in [IndexedFiles -> FileSteps] /\ passes \in Nat
    /\ passRunning \in BOOLEAN /\ passComplete \in BOOLEAN /\ agreed \subseteq IndexedFiles

\* The one entry that the keyword index should have for a row.
EntriesOf(row) == IF row = NoRows THEN {} ELSE {row}

\* Nothing bears the number of a pass to come, and what is saved bears none of
\* the pass under way: what it has made is not on disk.
EntriesAreDated ==
    \A f \in IndexedFiles :
        /\ \A e \in words[f] : e[2] <= passes
        /\ \A e \in savedWords[f] : e[2] <= passes /\ (passRunning => e[2] < passes)
        /\ rows[f][2] <= passes

\* A file that is prepared has its new entry before it has its rows.
PreparedFilesHaveEntries ==
    /\ ~ passRunning => \A f \in IndexedFiles : progress[f] = "-"
    /\ \A f \in IndexedFiles : progress[f] = "prepared" =>
          text[f] # 0 /\ <<text[f], passes>> \in words[f]

\* From the start of a pass on no file with rows is without entries, and a
\* complete pass has saved them.
NoGaps ==
    /\ passRunning \/ passComplete => NoGapsAfterPass
    /\ passComplete => ~ passRunning /\ savedWords = words

\* What no failure has set apart has the same revision on both sides, or is
\* between the two steps that write them; without a record it has no rows.
HalvesInStep ==
    \A f \in agreed :
        /\ words[f] = IF progress[f] = "prepared" THEN {<<text[f], passes>>} ELSE EntriesOf(rows[f])
        /\ recorded[f] = 0 => rows[f] = NoRows

\* The inductive invariant of the two halves.
HybridInv == HybridTypes /\ EntriesAreDated /\ PreparedFilesHaveEntries /\ NoGaps /\ HalvesInStep

-----------------------------------------------------------------------------
\* It holds at the start.
LEMMA HybridInitially == HybridInit => HybridInv
<1> SUFFICES ASSUME HybridInit PROVE HybridInv
  OBVIOUS
<1> USE DEF HybridInit, None, NoRows
<1>1. HybridTypes
  <2>1. /\ text \in [IndexedFiles -> Nat] /\ recorded \in [IndexedFiles -> Nat]
        /\ rows \in [IndexedFiles -> TextOfPass] /\ passes \in Nat /\ agreed \subseteq IndexedFiles
    BY DEF TextOfPass
  <2>2. /\ words \in [IndexedFiles -> SUBSET TextOfPass] /\ savedWords \in [IndexedFiles -> SUBSET TextOfPass]
        /\ progress \in [IndexedFiles -> FileSteps]
    BY DEF FileSteps
  <2>3. passRunning \in BOOLEAN /\ passComplete \in BOOLEAN
    BY Zenon
  <2> QED BY <2>1, <2>2, <2>3 DEF HybridTypes
<1>2. EntriesAreDated
  BY DEF EntriesAreDated
<1>3. PreparedFilesHaveEntries /\ NoGaps /\ HalvesInStep
  BY DEF PreparedFilesHaveEntries, NoGaps, HalvesInStep, EntriesOf
<1> QED BY <1>1, <1>2, <1>3 DEF HybridInv

\* What a step on one file leaves alone: it changes its rows, its entries, its
\* record and its progress only.
Touches(f) ==
    /\ rows' = [rows EXCEPT ![f] = rows'[f]] /\ words' = [words EXCEPT ![f] = words'[f]]
    /\ recorded' = [recorded EXCEPT ![f] = recorded'[f]]
    /\ progress' = [progress EXCEPT ![f] = progress'[f]]
    /\ agreed' \ {f} = agreed \ {f}
    /\ UNCHANGED <<text, savedWords, passes, passRunning, skipDedup, passComplete>>

\* A step of a pass that touches one file keeps the invariant if it leaves that file's
\* row and entries in step.
LEMMA OneFileStep ==
    ASSUME HybridInv, NEW f \in IndexedFiles, passRunning, Touches(f),
           rows'[f] \in TextOfPass, words'[f] \in SUBSET TextOfPass, recorded'[f] \in Nat,
           progress'[f] \in FileSteps, agreed' \subseteq IndexedFiles,
           \A e \in words'[f] : e[2] <= passes, rows'[f][2] <= passes,
           progress'[f] = "prepared" => text[f] # 0 /\ <<text[f], passes>> \in words'[f],
           rows'[f] # NoRows => words'[f] # {},
           f \in agreed' =>
               /\ words'[f] = IF progress'[f] = "prepared" THEN {<<text[f], passes>>}
                              ELSE EntriesOf(rows'[f])
               /\ recorded'[f] = 0 => rows'[f] = NoRows
    PROVE  HybridInv'
<1> USE DEF HybridInv
<1>1. /\ \A g \in IndexedFiles : g # f => /\ rows'[g] = rows[g] /\ words'[g] = words[g]
                                          /\ recorded'[g] = recorded[g] /\ progress'[g] = progress[g]
      /\ text' = text /\ savedWords' = savedWords /\ passes' = passes
      /\ passRunning' = passRunning /\ passComplete' = passComplete
  BY DEF Touches, HybridTypes
<1>2. HybridTypes'
  <2>1. /\ rows' \in [IndexedFiles -> TextOfPass] /\ words' \in [IndexedFiles -> SUBSET TextOfPass]
        /\ recorded' \in [IndexedFiles -> Nat] /\ progress' \in [IndexedFiles -> FileSteps]
    BY DEF Touches, HybridTypes
  <2> QED BY <1>1, <2>1 DEF HybridTypes
<1>3. EntriesAreDated'
  BY <1>1 DEF EntriesAreDated
<1>4. PreparedFilesHaveEntries'
  BY <1>1 DEF PreparedFilesHaveEntries
<1>5. NoGaps'
  BY <1>1 DEF NoGaps, NoGapsAfterPass, NoRows
<1>6. HalvesInStep'
  <2> SUFFICES ASSUME NEW g \in agreed'
               PROVE  /\ words'[g] = IF progress'[g] = "prepared" THEN {<<text'[g], passes'>>}
                                     ELSE EntriesOf(rows'[g])
                      /\ recorded'[g] = 0 => rows'[g] = NoRows
    BY DEF HalvesInStep, EntriesOf, NoRows
  <2>1. CASE g = f
    BY <1>1, <2>1
  <2>2. CASE g # f
    <3>1. g \in agreed /\ g \in IndexedFiles
      BY <2>2 DEF Touches
    <3> QED BY <1>1, <2>2, <3>1 DEF HalvesInStep
  <2> QED BY <2>1, <2>2
<1> QED BY <1>2, <1>3, <1>4, <1>5, <1>6

\* Removing a stale file does.
LEMMA RemoveStaleStep ==
    ASSUME HybridInv, NEW f \in IndexedFiles, RemoveStale(f) PROVE HybridInv'
<1>1. /\ passRunning /\ Touches(f)
      /\ rows'[f] = NoRows /\ words'[f] = {} /\ recorded'[f] = 0 /\ progress'[f] = "done"
      /\ agreed' \subseteq IndexedFiles
  BY DEF HybridInv, HybridTypes, RemoveStale, Touches
<1>2. NoRows \in TextOfPass /\ NoRows[2] = 0 /\ passes \in Nat
  BY DEF HybridInv, HybridTypes, NoRows, TextOfPass
<1>3. words'[f] = EntriesOf(rows'[f]) /\ progress'[f] # "prepared" /\ progress'[f] \in FileSteps
  BY <1>1 DEF EntriesOf, FileSteps
<1>4. /\ rows'[f] \in TextOfPass /\ words'[f] \in SUBSET TextOfPass /\ recorded'[f] \in Nat
      /\ \A e \in words'[f] : e[2] <= passes
      /\ rows'[f][2] <= passes
  BY <1>1, <1>2
<1> QED BY <1>1, <1>3, <1>4, OneFileStep

\* Preparing a file does: its old entries go, the new ones come.
LEMMA PrepareStep ==
    ASSUME HybridInv, NEW f \in IndexedFiles, Prepare(f) PROVE HybridInv'
<1>1. /\ passRunning /\ Touches(f) /\ text[f] # 0 /\ progress[f] = "todo"
      /\ rows'[f] = rows[f] /\ words'[f] = EntriesLeft(f) \cup {<<text[f], passes>>}
      /\ recorded'[f] = recorded[f] /\ progress'[f] = "prepared"
      /\ agreed' = IF recorded[f] # 0 THEN agreed \cup {f} ELSE agreed
  BY DEF HybridInv, HybridTypes, Prepare, Touches
<1>2. /\ rows[f] \in TextOfPass /\ recorded[f] \in Nat /\ rows[f][2] <= passes /\ agreed \subseteq IndexedFiles
      /\ words[f] \in SUBSET TextOfPass /\ \A e \in words[f] : e[2] <= passes
      /\ text[f] \in Nat /\ passes \in Nat
  BY DEF HybridInv, HybridTypes, EntriesAreDated
<1>3. EntriesLeft(f) \subseteq words[f]
  BY DEF EntriesLeft
<1>4. words'[f] \in SUBSET TextOfPass /\ \A e \in words'[f] : e[2] <= passes
  BY <1>1, <1>2, <1>3 DEF TextOfPass
<1>5. f \in agreed' => /\ words'[f] = {<<text[f], passes>>}
                       /\ recorded'[f] = 0 => rows'[f] = NoRows
  <2>1. CASE recorded[f] # 0
    BY <1>1, <2>1 DEF EntriesLeft
  <2>2. CASE recorded[f] = 0 /\ f \in agreed
    <3>1. words[f] = EntriesOf(rows[f]) /\ rows[f] = NoRows
      BY <1>1, <2>2 DEF HybridInv, HalvesInStep
    <3> QED BY <1>1, <2>2, <3>1 DEF EntriesLeft, EntriesOf
  <2> QED BY <1>1, <2>1, <2>2
<1>6. "prepared" \in FileSteps /\ agreed' \subseteq IndexedFiles
  BY <1>1, <1>2 DEF FileSteps
<1> QED BY <1>1, <1>2, <1>4, <1>5, <1>6, OneFileStep

\* Storing a file's row, or failing to, does.
LEMMA StoreStep ==
    ASSUME HybridInv, NEW f \in IndexedFiles, Store(f) PROVE HybridInv'
<1> DEFINE new == <<text[f], passes>>
<1>1. /\ passRunning /\ progress[f] = "prepared" /\ progress' = [progress EXCEPT ![f] = "done"]
      /\ StoreWhole(f) \/ StorePart(f) \/ StoreNone(f)
      /\ UNCHANGED <<text, savedWords, passes, passRunning, skipDedup, passComplete>>
  BY DEF Store
<1>2. /\ rows \in [IndexedFiles -> TextOfPass] /\ recorded \in [IndexedFiles -> Nat]
      /\ words \in [IndexedFiles -> SUBSET TextOfPass] /\ progress \in [IndexedFiles -> FileSteps]
      /\ agreed \subseteq IndexedFiles /\ text[f] \in Nat /\ passes \in Nat
      /\ rows[f][2] <= passes /\ \A e \in words[f] : e[2] <= passes
      /\ text[f] # 0 /\ new \in words[f]
      /\ f \in agreed => words[f] = {new} /\ (recorded[f] = 0 => rows[f] = NoRows)
  BY <1>1 DEF HybridInv, HybridTypes, EntriesAreDated, PreparedFilesHaveEntries, HalvesInStep
<1>3. new \in TextOfPass /\ new[2] = passes /\ new # NoRows /\ NoRows \in TextOfPass /\ NoRows[2] = 0
  BY <1>2 DEF TextOfPass, NoRows
<1> HIDE DEF new
<1>4. progress'[f] = "done" /\ progress' = [progress EXCEPT ![f] = progress'[f]] /\ "done" \in FileSteps
  BY <1>1, <1>2 DEF FileSteps
<1>5. CASE StoreWhole(f)
  <2>1. /\ rows' = [rows EXCEPT ![f] = new] /\ recorded' = [recorded EXCEPT ![f] = text[f]]
        /\ words' = words /\ agreed' = agreed
    BY <1>5 DEF StoreWhole, new
  <2>2. rows'[f] = new /\ recorded'[f] = text[f] /\ words'[f] = words[f]
    BY <1>2, <2>1
  <2>3. Touches(f)
    BY <1>1, <1>2, <1>4, <2>1, <2>2 DEF Touches
  <2>4. EntriesOf(rows'[f]) = {new}
    BY <1>3, <2>2 DEF EntriesOf
  <2> QED BY <1>1, <1>2, <1>3, <1>4, <2>1, <2>2, <2>3, <2>4, OneFileStep
<1>6. CASE StorePart(f)
  <2>1. /\ rows' = [rows EXCEPT ![f] = new] /\ recorded' = recorded
        /\ words' = words /\ agreed' = agreed \ {f}
    BY <1>6 DEF StorePart, new
  <2>2. rows'[f] = new /\ recorded'[f] = recorded[f] /\ words'[f] = words[f] /\ f \notin agreed'
    BY <1>2, <2>1
  <2>3. Touches(f)
    BY <1>1, <1>2, <1>4, <2>1, <2>2 DEF Touches
  <2> QED BY <1>1, <1>2, <1>3, <1>4, <2>1, <2>2, <2>3, OneFileStep
<1>7. CASE StoreNone(f)
  <2>1. CASE recorded[f] = 0 /\ ~ skipDedup
    <3>1. /\ rows' = [rows EXCEPT ![f] = NoRows] /\ words' = [words EXCEPT ![f] = {}]
          /\ recorded' = recorded /\ agreed' = agreed \cup {f}
      BY <1>7, <2>1 DEF StoreNone
    <3>2. rows'[f] = NoRows /\ recorded'[f] = recorded[f] /\ words'[f] = {} /\ agreed' \subseteq IndexedFiles
      BY <1>2, <3>1
    <3>3. Touches(f)
      BY <1>1, <1>2, <1>4, <3>1, <3>2 DEF Touches
    <3>4. EntriesOf(rows'[f]) = {} /\ {} \in SUBSET TextOfPass
      BY <3>2 DEF EntriesOf
    <3>5. /\ rows'[f] \in TextOfPass /\ words'[f] \in SUBSET TextOfPass /\ recorded'[f] \in Nat
          /\ \A e \in words'[f] : e[2] <= passes
          /\ rows'[f][2] <= passes /\ ~ (rows'[f] # NoRows)
      BY <1>2, <1>3, <3>2
    <3> QED BY <1>1, <1>4, <3>2, <3>3, <3>4, <3>5, OneFileStep
  <2>2. CASE ~ (recorded[f] = 0 /\ ~ skipDedup)
    <3>1. rows' = rows /\ words' = words /\ recorded' = recorded /\ agreed' = agreed \ {f}
      BY <1>7, <2>2 DEF StoreNone
    <3>2. Touches(f)
      BY <1>1, <1>2, <1>4, <3>1 DEF Touches
    <3> QED BY <1>1, <1>2, <1>3, <1>4, <3>1, <3>2, OneFileStep
  <2> QED BY <2>1, <2>2
<1> QED BY <1>1, <1>5, <1>6, <1>7

\* An edit changes neither half.
LEMMA EditStep ==
    ASSUME HybridInv, NEW f \in IndexedFiles, Edit(f) PROVE HybridInv'
<1> USE DEF HybridInv
<1>1. /\ ~ passRunning
      /\ UNCHANGED <<rows, recorded, words, savedWords, progress, passes, passRunning, agreed, passComplete>>
  BY DEF Edit
<1>2. \A g \in IndexedFiles : progress[g] = "-"
  BY <1>1 DEF PreparedFilesHaveEntries
<1>3. text' \in [IndexedFiles -> Nat]
  BY DEF Edit, HybridTypes
<1>4. HybridTypes' /\ EntriesAreDated'
  BY <1>1, <1>3 DEF HybridTypes, EntriesAreDated
<1>5. PreparedFilesHaveEntries' /\ NoGaps'
  BY <1>1, <1>2 DEF PreparedFilesHaveEntries, NoGaps, NoGapsAfterPass, NoRows
<1>6. HalvesInStep'
  BY <1>1, <1>2 DEF HalvesInStep, EntriesOf, NoRows, HybridTypes
<1> QED BY <1>4, <1>5, <1>6

\* A pass starts from the saved keywords, or from those it has in memory.
LEMMA StartPassStep ==
    ASSUME HybridInv, StartPass PROVE HybridInv'
<1> USE DEF HybridInv
<1>1. /\ ~ passRunning /\ passRunning' = TRUE /\ passComplete' = FALSE /\ passes' = passes + 1
      /\ words' = Rehydrated
      /\ progress' = [f \in IndexedFiles |-> IF text[f] # recorded[f] THEN "todo" ELSE "done"]
      /\ UNCHANGED <<text, rows, recorded, savedWords, agreed>>
  BY DEF StartPass
<1>2. \A f \in IndexedFiles :
         words'[f] = IF words[f] = {} /\ rows[f] # NoRows THEN {rows[f]} ELSE words[f]
  BY <1>1 DEF Rehydrated
<1>3. words' \in [IndexedFiles -> SUBSET TextOfPass]
  BY <1>1 DEF Rehydrated, HybridTypes
<1>4. HybridTypes'
  <2>1. progress' \in [IndexedFiles -> FileSteps]
    BY <1>1 DEF FileSteps
  <2>2. passRunning' \in BOOLEAN /\ passComplete' \in BOOLEAN
    BY <1>1, Zenon
  <2>3. passes' \in Nat
    BY <1>1 DEF HybridTypes
  <2> QED BY <1>1, <1>3, <2>1, <2>2, <2>3 DEF HybridTypes
<1>5. EntriesAreDated'
  <2> SUFFICES ASSUME NEW f \in IndexedFiles
               PROVE  /\ \A e \in words'[f] : e[2] <= passes'
                      /\ \A e \in savedWords'[f] : e[2] <= passes' /\ e[2] < passes'
                      /\ rows'[f][2] <= passes'
    BY DEF EntriesAreDated
  <2>1. /\ rows[f] \in TextOfPass /\ rows[f][2] \in Nat /\ passes \in Nat
        /\ (\A e \in words[f] : e[2] \in Nat) /\ (\A e \in savedWords[f] : e[2] \in Nat)
    BY DEF HybridTypes, TextOfPass
  <2>2. /\ (\A e \in words[f] : e[2] <= passes) /\ (\A e \in savedWords[f] : e[2] <= passes)
        /\ rows[f][2] <= passes
    BY DEF EntriesAreDated
  <2>3. \A e \in words'[f] : e \in words[f] \/ e = rows[f]
    BY <1>2
  <2> QED BY <1>1, <2>1, <2>2, <2>3
<1>6. PreparedFilesHaveEntries'
  BY <1>1 DEF PreparedFilesHaveEntries
<1>7. NoGaps'
  BY <1>1, <1>2 DEF NoGaps, NoGapsAfterPass, NoRows
<1>8. HalvesInStep'
  <2> SUFFICES ASSUME NEW f \in agreed
               PROVE  /\ words'[f] = EntriesOf(rows[f]) /\ progress'[f] # "prepared"
                      /\ recorded[f] = 0 => rows[f] = NoRows
    BY <1>1 DEF HalvesInStep, EntriesOf, NoRows
  <2>1. f \in IndexedFiles /\ progress[f] # "prepared"
    BY <1>1 DEF HybridTypes, PreparedFilesHaveEntries
  <2>2. words[f] = EntriesOf(rows[f]) /\ (recorded[f] = 0 => rows[f] = NoRows)
    BY <2>1 DEF HalvesInStep
  <2>3. words'[f] = words[f]
    BY <1>2, <2>1, <2>2 DEF EntriesOf
  <2> QED BY <1>1, <2>1, <2>2, <2>3
<1> QED BY <1>4, <1>5, <1>6, <1>7, <1>8

\* A pass that ends has every file done, and saves the keywords.
LEMMA EndPassStep ==
    ASSUME HybridInv, EndPass PROVE HybridInv'
<1> USE DEF HybridInv
<1> DEFINE orphans == {f \in IndexedFiles : rows[f] # NoRows /\ recorded[f] = 0 /\ f \notin writtenNow}
<1>1. /\ passRunning /\ \A f \in IndexedFiles : progress[f] = "done"
      /\ rows' = [f \in IndexedFiles |-> IF f \in orphans THEN NoRows ELSE rows[f]]
      /\ words' = [f \in IndexedFiles |-> IF f \in orphans THEN {} ELSE words[f]]
      /\ savedWords' = words' /\ agreed' = agreed \cup orphans
      /\ passRunning' = FALSE /\ passComplete' = TRUE
      /\ progress' = [f \in IndexedFiles |-> "-"]
      /\ UNCHANGED <<text, recorded, passes>>
  BY DEF EndPass, None
<1>2. \A f \in IndexedFiles : IF f \in orphans THEN rows'[f] = NoRows /\ words'[f] = {}
                              ELSE rows'[f] = rows[f] /\ words'[f] = words[f]
  BY <1>1
<1>0. orphans \subseteq IndexedFiles
  OBVIOUS
<1> HIDE DEF orphans
<1>3. NoRows \in TextOfPass /\ NoRows[2] = 0
  BY DEF NoRows, TextOfPass
<1>4. HybridTypes'
  <2>1. /\ rows' \in [IndexedFiles -> TextOfPass] /\ words' \in [IndexedFiles -> SUBSET TextOfPass]
    BY <1>1, <1>3 DEF HybridTypes
  <2>2. progress' \in [IndexedFiles -> FileSteps]
    BY <1>1 DEF FileSteps
  <2>3. passRunning' \in BOOLEAN /\ passComplete' \in BOOLEAN
    BY <1>1, Zenon
  <2> QED BY <1>0, <1>1, <2>1, <2>2, <2>3 DEF HybridTypes
<1>5. EntriesAreDated'
  <2> SUFFICES ASSUME NEW f \in IndexedFiles
               PROVE  (\A e \in words'[f] : e[2] <= passes) /\ rows'[f][2] <= passes
    BY <1>1 DEF EntriesAreDated
  <2>1. passes \in Nat /\ (\A e \in words[f] : e[2] <= passes) /\ rows[f][2] <= passes
    BY DEF HybridTypes, EntriesAreDated
  <2> QED BY <1>2, <1>3, <2>1
<1>6. PreparedFilesHaveEntries'
  BY <1>1 DEF PreparedFilesHaveEntries
<1>7. NoGaps'
  BY <1>1, <1>2 DEF NoGaps, NoGapsAfterPass, NoRows
<1>8. HalvesInStep'
  <2> SUFFICES ASSUME NEW f \in agreed'
               PROVE  /\ words'[f] = EntriesOf(rows'[f]) /\ progress'[f] # "prepared"
                      /\ recorded[f] = 0 => rows'[f] = NoRows
    BY <1>1 DEF HalvesInStep, EntriesOf, NoRows
  <2>1. f \in IndexedFiles /\ progress'[f] # "prepared"
    BY <1>0, <1>1 DEF HybridTypes
  <2>2. CASE f \in orphans
    BY <1>2, <2>1, <2>2 DEF EntriesOf
  <2>3. CASE f \notin orphans
    <3>1. words[f] = EntriesOf(rows[f]) /\ (recorded[f] = 0 => rows[f] = NoRows)
      BY <1>1, <2>1, <2>3 DEF HalvesInStep
    <3> QED BY <1>2, <2>1, <2>3, <3>1
  <2> QED BY <2>2, <2>3
<1> QED BY <1>4, <1>5, <1>6, <1>7, <1>8

\* A process that dies in a pass leaves the keywords of the pass before.
LEMMA RestartStep ==
    ASSUME HybridInv, Restart PROVE HybridInv'
<1> USE DEF HybridInv
<1>1. /\ words' = savedWords /\ passRunning' = FALSE /\ passComplete' = (passComplete /\ ~ passRunning)
      /\ progress' = [f \in IndexedFiles |-> "-"]
      /\ agreed' = agreed \ {f \in IndexedFiles : words[f] # savedWords[f]}
      /\ UNCHANGED <<text, rows, recorded, savedWords, passes>>
  BY DEF Restart, None
<1>2. HybridTypes'
  <2>1. progress' \in [IndexedFiles -> FileSteps]
    BY <1>1 DEF FileSteps
  <2>2. passRunning' \in BOOLEAN /\ passComplete' \in BOOLEAN
    BY <1>1, Zenon
  <2>3. agreed' \subseteq IndexedFiles
    BY <1>1 DEF HybridTypes
  <2> QED BY <1>1, <2>1, <2>2, <2>3 DEF HybridTypes
<1>3. EntriesAreDated'
  BY <1>1 DEF EntriesAreDated
<1>4. PreparedFilesHaveEntries'
  BY <1>1 DEF PreparedFilesHaveEntries
<1>5. NoGaps'
  <2>1. passComplete' => passComplete /\ savedWords = words
    BY <1>1 DEF NoGaps
  <2> QED BY <1>1, <2>1 DEF NoGaps, NoGapsAfterPass, NoRows
<1>6. HalvesInStep'
  <2> SUFFICES ASSUME NEW f \in agreed'
               PROVE  /\ words'[f] = EntriesOf(rows[f]) /\ progress'[f] # "prepared"
                      /\ recorded[f] = 0 => rows[f] = NoRows
    BY <1>1 DEF HalvesInStep, EntriesOf, NoRows
  <2>1. f \in agreed /\ f \in IndexedFiles /\ words[f] = savedWords[f] /\ progress'[f] # "prepared"
    BY <1>1 DEF HybridTypes
  <2>2. progress[f] # "prepared"
    <3> SUFFICES ASSUME progress[f] = "prepared" PROVE FALSE
      OBVIOUS
    <3>1. passRunning /\ <<text[f], passes>> \in savedWords[f]
      BY <2>1 DEF PreparedFilesHaveEntries
    <3>2. <<text[f], passes>>[2] < passes /\ passes \in Nat
      BY <2>1, <3>1 DEF EntriesAreDated, HybridTypes
    <3> QED BY <3>2
  <2> QED BY <1>1, <2>1, <2>2 DEF HalvesInStep
<1> QED BY <1>2, <1>3, <1>4, <1>5, <1>6

\* The keyword half and the vector half of the index tell the same of every file
\* whenever a pass has ended, however many passes stopped or failed before it.
THEOREM SearchHalvesAgree == HybridSpec => []HalvesAgree
<1>1. HybridInv /\ [HybridNext]_hybrid => HybridInv'
  <2> SUFFICES ASSUME HybridInv, [HybridNext]_hybrid PROVE HybridInv'
    OBVIOUS
  <2>1. CASE UNCHANGED hybrid
    BY <2>1 DEF hybrid, HybridInv, HybridTypes, EntriesAreDated, PreparedFilesHaveEntries, NoGaps,
                NoGapsAfterPass, HalvesInStep, EntriesOf, NoRows
  <2> QED BY <2>1, RemoveStaleStep, PrepareStep, StoreStep, EditStep, StartPassStep, EndPassStep,
             RestartStep DEF HybridNext
<1>2. HybridInv => HalvesAgree
  <2> SUFFICES ASSUME HybridInv, passComplete
               PROVE  NoGapsAfterPass /\ \A f \in agreed : words[f] = EntriesOf(rows[f])
    BY DEF HalvesAgree, EntriesOf
  <2>1. \A f \in agreed : f \in IndexedFiles /\ progress[f] = "-"
    BY DEF HybridInv, HybridTypes, NoGaps, PreparedFilesHaveEntries
  <2> QED BY <2>1 DEF HybridInv, NoGaps, HalvesInStep
<1> QED BY <1>1, <1>2, HybridInitially, PTL DEF HybridSpec

-----------------------------------------------------------------------------
(* LanceStore: transactions, failed attempts and the repairs they cause *)

\* What a process stores: an index pass files, the plugin quirks.
PathsOf(p) == IF p = "pass" THEN StoredFiles ELSE QuirkPaths

\* What a process may be doing to a table of n versions.
JobsOf(n) ==
    [step : {"idle", "wipe", "insert", "dedup", "repair", "restore"},
     path : Paths \cup {"-"}, rev : 0..MaxVersions, attempt : 0..3,
     error : LanceErrors \cup {"-"}, target : 0..n]

\* A write in hand is at a step that its process's files or quirks have, and one
\* that is being repaired for may be tried again.
JobFits(p, j, n) ==
    /\ j \in JobsOf(n)
    /\ j.path = "-" \/ (j.path \in PathsOf(p) /\ j.rev \in Revisions)
    /\ j.step \in {"wipe", "insert", "dedup"} => j.path \in PathsOf(p) /\ j.rev \in Revisions
    /\ j.step = "wipe" => j.path \in QuirkPaths
    /\ j.step = "dedup" => j.path \in StoredFiles
    /\ j.step \in {"repair", "restore"} => j.attempt \in 0..2

\* A write that nothing has been stored or deleted for.
Untouched(j) == j.step # "dedup" /\ (j.step = "insert" => j.path \in StoredFiles)

\* What a write has done to the table by the step it is at.
Underway(j, table) ==
    /\ j.step = "dedup" => \E r \in table[j.path] : r[1] = j.rev
    /\ j.step = "insert" /\ j.path \in QuirkPaths => table[j.path] = {}

\* Every version has rows of every file, unless the table was started over, and a
\* write that may commit has done what it says.
LanceInv ==
    /\ LanceTypeOK
    /\ \A p \in LanceProcs : JobFits(p, job[p], Latest)
    /\ ~ rebuilt => \A v \in 1..Latest, f \in StoredFiles : versions[v].rows[f] # {}
    /\ \A p \in LanceProcs : ~ Incompatible(p) => Underway(job[p], Current)

\* A process that does nothing.
LEMMA Idle ==
    ASSUME NEW n \in Nat
    PROVE  /\ NotAdding \in JobsOf(n) /\ NotAdding.step = "idle" /\ NotAdding.path = "-"
           /\ NotAdding.rev = 0 /\ NotAdding.attempt = 0 /\ NotAdding.error = "-" /\ NotAdding.target = 0
BY LanceAssumption DEF JobsOf, NotAdding, Paths

LEMMA IdleFits ==
    ASSUME NEW p, NEW n \in Nat
    PROVE  JobFits(p, NotAdding, n) /\ Untouched(NotAdding) /\ NotAdding.step = "idle"
BY LanceAssumption DEF JobFits, JobsOf, Untouched, NotAdding, Paths

\* A write begins at its first step, with nothing stored.
LEMMA FirstFits ==
    ASSUME NEW p, NEW n \in Nat, NEW j \in JobsOf(n), j.step = FirstStep(j.path),
           j.path \in PathsOf(p), j.rev \in Revisions
    PROVE  JobFits(p, j, n) /\ Untouched(j)
<1>1. j.step \in {"wipe", "insert"} /\ (j.step = "wipe" => j.path \in QuirkPaths)
      /\ (j.step = "insert" => j.path \in StoredFiles)
  BY DEF FirstStep, PathsOf
<1> QED BY <1>1 DEF JobFits, Untouched

\* A write that is tried again starts from its beginning.
LEMMA AgainFits ==
    ASSUME NEW p, NEW n \in Nat, NEW j, JobFits(p, j, n), j.path \in PathsOf(p), j.rev \in Revisions,
           j.attempt \in 0..2
    PROVE  JobFits(p, Again(j), n) /\ Untouched(Again(j))
<1>1. j \in JobsOf(n) /\ FirstStep(j.path) \in {"wipe", "insert"} /\ 0 \in 0..n
  BY DEF JobFits, FirstStep
<1>2. PICK attempt \in 0..3 : attempt = j.attempt + 1
  OBVIOUS
<1>3. PICK target \in 0..n : target = 0
  BY <1>1
<1>4. Again(j) = [j EXCEPT !.step = FirstStep(j.path), !.attempt = attempt, !.error = "-", !.target = target]
  BY <1>2, <1>3, Zenon DEF Again
<1>5. /\ Again(j) \in JobsOf(n) /\ Again(j).step = FirstStep(j.path) /\ Again(j).path = j.path
      /\ Again(j).rev = j.rev
  BY <1>1, <1>4 DEF JobsOf
<1> QED BY <1>5, FirstFits

LEMMA UnrepairedFits ==
    ASSUME NEW p, NEW n \in Nat, NEW j, JobFits(p, j, n), j.path \in PathsOf(p), j.rev \in Revisions
    PROVE  JobFits(p, Unrepaired(j), n) /\ Untouched(Unrepaired(j))
<1>1. CASE j.error = "incompatible" /\ j.attempt <= 1
  <2>1. j \in JobsOf(n) /\ j.attempt \in 0..2
    BY <1>1 DEF JobFits, JobsOf
  <2> DEFINE k == Again(j)
  <2>2. Unrepaired(j) = [k EXCEPT !.attempt = 2]
    BY <1>1 DEF Unrepaired
  <2>3. JobFits(p, k, n) /\ Untouched(k) /\ k.step \in {"wipe", "insert"}
    BY <2>1, AgainFits DEF Again, JobsOf, FirstStep
  <2> HIDE DEF k
  <2>4. k \in JobsOf(n)
    BY <2>3 DEF JobFits
  <2>5. /\ [k EXCEPT !.attempt = 2] \in JobsOf(n) /\ [k EXCEPT !.attempt = 2].step = k.step
        /\ [k EXCEPT !.attempt = 2].path = k.path /\ [k EXCEPT !.attempt = 2].rev = k.rev
    BY <2>4 DEF JobsOf
  <2> QED BY <2>2, <2>3, <2>5 DEF JobFits, Untouched
<1>2. CASE ~ (j.error = "incompatible" /\ j.attempt <= 1)
  BY <1>2, IdleFits DEF Unrepaired
<1> QED BY <1>1, <1>2

\* An attempt that fails ends, is repaired for, or is run again.
LEMMA FailedFits ==
    ASSUME NEW p, NEW n \in Nat, NEW j, JobFits(p, j, n), j.step \in {"wipe", "insert", "dedup"},
           NEW error \in LanceErrors
    PROVE  JobFits(p, Failed(j, error), n) /\ Untouched(Failed(j, error))
<1> DEFINE k == [j EXCEPT !.error = error]
<1>1. k.path \in PathsOf(p) /\ k.rev \in Revisions /\ JobFits(p, k, n) /\ k.attempt = j.attempt
  BY DEF JobFits, JobsOf
<1>2. CASE j.attempt \in {0, 2}
  <2>1. Failed(j, error) = [k EXCEPT !.step = "repair"]
    BY <1>2 DEF Failed
  <2>2. k \in JobsOf(n) /\ k.attempt \in 0..2
    BY <1>1, <1>2 DEF JobFits
  <2> HIDE DEF k
  <2>3. /\ [k EXCEPT !.step = "repair"] \in JobsOf(n)
        /\ [k EXCEPT !.step = "repair"].step = "repair"
        /\ [k EXCEPT !.step = "repair"].path = k.path
        /\ [k EXCEPT !.step = "repair"].rev = k.rev
        /\ [k EXCEPT !.step = "repair"].attempt = k.attempt
    BY <2>2 DEF JobsOf
  <2> QED BY <1>1, <2>1, <2>2, <2>3 DEF JobFits, Untouched
<1>3. CASE j.attempt \notin {0, 2}
  <2>1. Failed(j, error) = Unrepaired(k)
    BY <1>3 DEF Failed
  <2> HIDE DEF k
  <2> QED BY <1>1, <2>1, UnrepairedFits
<1> QED BY <1>2, <1>3

-----------------------------------------------------------------------------
\* What a transaction adds to the table.
LEMMA VersionAdded ==
    ASSUME LanceTypeOK, NEW p \in LanceProcs, NEW table \in [Paths -> Rows], NEW kind \in {"write", "restore"},
           Write(p, table, kind)
    PROVE  /\ versions' \in Seq([rows : [Paths -> Rows], kind : {"write", "restore"}])
           /\ Latest \in Nat /\ Latest' = Latest + 1 /\ Current' = table
           /\ \A v \in 1..Latest : versions'[v] = versions[v]
           /\ versions'[Latest'].kind = kind /\ versions'[Latest'].rows = table
           /\ handle' \in [LanceProcs -> 1..Latest'] /\ handle'[p] = Latest'
           /\ \A q \in LanceProcs : q # p => handle'[q] = handle[q]
<1> DEFINE version == [rows |-> table, kind |-> kind]
<1>1. version \in [rows : [Paths -> Rows], kind : {"write", "restore"}]
  OBVIOUS
<1>2. versions \in Seq([rows : [Paths -> Rows], kind : {"write", "restore"}]) /\ versions' = Append(versions, version)
  BY DEF LanceTypeOK, Write
<1>3. version.rows = table /\ version.kind = kind
  OBVIOUS
<1> HIDE DEF version
<1>4. /\ versions' \in Seq([rows : [Paths -> Rows], kind : {"write", "restore"}])
      /\ Len(versions') = Len(versions) + 1 /\ versions'[Len(versions) + 1] = version
      /\ \A v \in 1..Len(versions) : versions'[v] = versions[v]
  BY <1>1, <1>2, AppendProperties
<1>5. Len(versions) \in Nat
  BY <1>2, LenProperties
<1>6. handle \in [LanceProcs -> 1..Len(versions)] /\ handle' = [handle EXCEPT ![p] = Len(versions) + 1]
  BY DEF LanceTypeOK, Write, Latest
<1>7. /\ handle' \in [LanceProcs -> 1..Len(versions) + 1] /\ handle'[p] = Len(versions) + 1
      /\ \A q \in LanceProcs : q # p => handle'[q] = handle[q]
  BY <1>5, <1>6
<1> QED BY <1>3, <1>4, <1>5, <1>7 DEF Latest, Current

\* The bound on what goes wrong is kept.
LEMMA MishapsCounted ==
    ASSUME LanceTypeOK, NoMishap \/ \E kind : Mishap(kind)
    PROVE  mishaps' \in 0..MaxMishaps
BY LanceAssumption DEF LanceTypeOK, NoMishap, Mishap

\* A step that leaves the table alone, after which the write in hand claims nothing.
QuietStep(p) ==
    /\ UNCHANGED <<versions, kept, rebuilt>> /\ mishaps' \in 0..MaxMishaps
    /\ handle' \in [LanceProcs -> 1..Latest] /\ job' \in [LanceProcs -> JobsOf(Latest)]
    /\ \A q \in LanceProcs : q # p => job'[q] = job[q] /\ handle'[q] = handle[q]
    /\ JobFits(p, job'[p], Latest) /\ Untouched(job'[p])

LEMMA QuietSteps ==
    ASSUME LanceInv, NEW p \in LanceProcs, QuietStep(p)
    PROVE  LanceInv'
<1>1. Latest' = Latest /\ Current' = Current
  BY DEF QuietStep, Latest, Current
<1>2. LanceTypeOK'
  BY <1>1 DEF LanceInv, LanceTypeOK, QuietStep, JobsOf, Latest
<1>3. \A q \in LanceProcs : JobFits(q, job'[q], Latest)
  BY DEF LanceInv, QuietStep
<1>4. ASSUME NEW q \in LanceProcs, ~ Incompatible(q)' PROVE Underway(job'[q], Current)
  <2>1. CASE q = p
    BY <2>1, LanceAssumption DEF QuietStep, Untouched, Underway
  <2>2. CASE q # p
    <3>1. ~ Incompatible(q)
      BY <1>1, <1>4, <2>2 DEF QuietStep, Incompatible
    <3> QED BY <2>2, <3>1 DEF QuietStep, LanceInv
  <2> QED BY <2>1, <2>2
<1> QED BY <1>1, <1>2, <1>3, <1>4 DEF LanceInv, QuietStep

\* There being more versions invalidates no write in hand.
LEMMA MoreVersions ==
    ASSUME NEW p, NEW n \in Nat, NEW j, JobFits(p, j, n)
    PROVE  JobFits(p, j, n + 1)
<1>1. 0..n \subseteq 0..n + 1
  OBVIOUS
<1>2. j \in JobsOf(n + 1)
  BY <1>1 DEF JobFits, JobsOf
<1> QED BY <1>2 DEF JobFits

\* A transaction that changes what its process may change.
WriteStep(p, table, kind) ==
    /\ Write(p, table, kind) /\ table \in [Paths -> Rows]
    /\ mishaps' \in 0..MaxMishaps /\ kept' \in 1..Latest + 1 /\ rebuilt' \in BOOLEAN
    /\ job' \in [LanceProcs -> JobsOf(Latest)]
    /\ \A q \in LanceProcs : q # p => job'[q] = job[q]
    /\ JobFits(p, job'[p], Latest)
    /\ Underway(job'[p], table)
    /\ ~ rebuilt' => ~ rebuilt /\ \A f \in StoredFiles : table[f] # {}

LEMMA WriteSteps ==
    ASSUME LanceInv, NEW p \in LanceProcs, NEW table, NEW kind \in {"write", "restore"},
           WriteStep(p, table, kind),
           kind = "restore" \/ \A x \in Paths \ PathsOf(p) : table[x] = Current[x]
    PROVE  LanceInv'
<1>1. /\ versions' \in Seq([rows : [Paths -> Rows], kind : {"write", "restore"}])
      /\ Latest \in Nat /\ Latest' = Latest + 1 /\ Current' = table
      /\ \A v \in 1..Latest : versions'[v] = versions[v]
      /\ versions'[Latest'].kind = kind /\ versions'[Latest'].rows = table
      /\ handle' \in [LanceProcs -> 1..Latest'] /\ handle'[p] = Latest'
      /\ \A q \in LanceProcs : q # p => handle'[q] = handle[q]
  BY VersionAdded DEF LanceInv, WriteStep
<1>2. \A q \in LanceProcs : JobFits(q, job'[q], Latest')
  BY <1>1, MoreVersions DEF LanceInv, WriteStep
<1>3. LanceTypeOK'
  <2>1. job' \in [LanceProcs -> JobsOf(Latest')]
    BY <1>2 DEF JobFits, WriteStep
  <2> QED BY <1>1, <2>1 DEF LanceTypeOK, WriteStep, JobsOf, Latest
<1>4. ASSUME ~ rebuilt', NEW v \in 1..Latest', NEW f \in StoredFiles PROVE versions'[v].rows[f] # {}
  <2>1. v \in 1..Latest \/ v = Latest'
    BY <1>1
  <2> QED BY <1>1, <1>4, <2>1 DEF LanceInv, WriteStep
<1>5. ASSUME NEW q \in LanceProcs, ~ Incompatible(q)' PROVE Underway(job'[q], table)
  <2>1. CASE q = p
    BY <2>1 DEF WriteStep
  <2>2. CASE q # p
    <3>1. handle'[q] = handle[q] /\ job'[q] = job[q] /\ handle[q] \in 1..Latest
      BY <1>1, <2>2 DEF WriteStep, LanceInv, LanceTypeOK, Latest
    <3>2. Latest' \in handle'[q] + 1 .. Latest'
      BY <1>1, <3>1
    <3>3. kind # "restore"
      BY <1>1, <1>5, <3>2 DEF Incompatible
    <3>4. ~ Incompatible(q)
      BY <1>1, <1>5, <3>1 DEF Incompatible
    <3>5. Underway(job[q], Current) /\ JobFits(q, job[q], Latest)
      BY <3>4 DEF LanceInv
    <3>6. job[q].step \in {"insert", "dedup"} => job[q].path \in Paths \ PathsOf(p)
      BY <2>2, <3>5, LanceAssumption DEF JobFits, PathsOf, Paths, LanceProcs
    <3> QED BY <3>1, <3>3, <3>5, <3>6 DEF Underway
  <2> QED BY <2>1, <2>2
<1> QED BY <1>1, <1>2, <1>3, <1>4, <1>5 DEF LanceInv

-----------------------------------------------------------------------------
\* An operation that fails changes what its process is to do next and no more.
LEMMA ErrsQuietly ==
    ASSUME LanceInv, NEW p \in LanceProcs, job[p].step \in {"wipe", "insert", "dedup"}, Errs(p),
           UNCHANGED <<versions, handle, kept, rebuilt>>
    PROVE  QuietStep(p)
<1>1. JobFits(p, job[p], Latest) /\ Latest \in Nat /\ job \in [LanceProcs -> JobsOf(Latest)]
  BY LenProperties DEF LanceInv, LanceTypeOK, JobsOf, Latest
<1>2. PICK error \in LanceErrors : job' = [job EXCEPT ![p] = Failed(@, error)]
  BY DEF Errs, LanceErrors
<1>3. JobFits(p, Failed(job[p], error), Latest) /\ Untouched(Failed(job[p], error))
  BY <1>1, FailedFits
<1>4. mishaps' \in 0..MaxMishaps
  BY MishapsCounted DEF LanceInv, Errs
<1>5. Failed(job[p], error) \in JobsOf(Latest)
  BY <1>3 DEF JobFits
<1> QED BY <1>1, <1>2, <1>3, <1>4, <1>5 DEF QuietStep, LanceInv, LanceTypeOK, Latest

\* The other steps that leave the table alone.
LEMMA StartsQuietly ==
    ASSUME LanceInv, NEW p \in LanceProcs, NEW x \in Paths, StartUpsert(p, x)
    PROVE  QuietStep(p)
<1> DEFINE r == CHOOSE r \in Unstored(x) : TRUE
           j == [NotAdding EXCEPT !.step = FirstStep(x), !.path = x, !.rev = r]
<1>1. Latest \in Nat /\ job \in [LanceProcs -> JobsOf(Latest)]
  BY LenProperties DEF LanceInv, LanceTypeOK, JobsOf, Latest
<1>2. r \in Revisions
  BY DEF StartUpsert, Unstored
<1>3. x \in PathsOf(p) /\ job' = [job EXCEPT ![p] = j]
  BY DEF StartUpsert, PathsOf
<1> HIDE DEF r
<1>4. j \in JobsOf(Latest) /\ j.step = FirstStep(x) /\ j.path = x /\ j.rev = r
  <2>1. FirstStep(x) \in {"wipe", "insert"} /\ r \in 0..MaxVersions
    BY <1>2, LanceAssumption DEF FirstStep, Revisions
  <2> QED BY <1>1, <2>1, Idle DEF JobsOf
<1> HIDE DEF j
<1>5. JobFits(p, j, Latest) /\ Untouched(j)
  BY <1>1, <1>2, <1>3, <1>4, FirstFits
<1>6. mishaps' \in 0..MaxMishaps
  BY MishapsCounted DEF LanceInv, StartUpsert
<1>7. UNCHANGED <<versions, kept, handle, rebuilt>> /\ handle \in [LanceProcs -> 1..Latest]
  BY DEF StartUpsert, LanceInv, LanceTypeOK, Latest
<1>8. job'[p] = j /\ \A q \in LanceProcs : q # p => job'[q] = job[q]
  BY <1>1, <1>3
<1>9. job' \in [LanceProcs -> JobsOf(Latest)]
  BY <1>1, <1>3, <1>4
<1> QED BY <1>5, <1>6, <1>7, <1>8, <1>9 DEF QuietStep

LEMMA SearchesQuietly ==
    ASSUME LanceInv, Search
    PROVE  QuietStep("plugin")
<1> DEFINE j == [NotAdding EXCEPT !.step = "repair", !.error = "notFound", !.attempt = 1]
<1>1. Latest \in Nat /\ job \in [LanceProcs -> JobsOf(Latest)]
  BY LenProperties DEF LanceInv, LanceTypeOK, JobsOf, Latest
<1>2. JobFits("plugin", j, Latest) /\ Untouched(j)
  <2>1. /\ j \in JobsOf(Latest) /\ j.step = "repair" /\ j.path = "-" /\ j.attempt \in 0..2
    <3>1. PICK attempt \in 0..3 : attempt = 1
      OBVIOUS
    <3>2. j = [NotAdding EXCEPT !.step = "repair", !.error = "notFound", !.attempt = attempt]
      BY <3>1, Zenon
    <3>3. NotAdding \in JobsOf(Latest) /\ NotAdding.path = "-"
      BY <1>1, Idle
    <3> HIDE DEF j
    <3>4. j \in JobsOf(Latest) /\ j.step = "repair" /\ j.path = "-" /\ j.attempt = attempt
      BY <3>2, <3>3 DEF JobsOf, LanceErrors
    <3> QED BY <3>1, <3>4
  <2> QED BY <2>1 DEF JobFits, Untouched
<1>3. job' = [job EXCEPT !["plugin"] = j]
  BY DEF Search
<1>4. mishaps' \in 0..MaxMishaps
  BY MishapsCounted DEF LanceInv, Search
<1> HIDE DEF j
<1> QED BY <1>1, <1>2, <1>3, <1>4 DEF QuietStep, Search, JobFits, LanceInv, LanceTypeOK, Latest, LanceProcs

LEMMA CrashesQuietly ==
    ASSUME LanceInv, NEW p \in LanceProcs, LanceCrash(p)
    PROVE  QuietStep(p)
<1>1. Latest \in Nat /\ job \in [LanceProcs -> JobsOf(Latest)] /\ Latest \in 1..Latest
  BY LenProperties DEF LanceInv, LanceTypeOK, JobsOf, Latest
<1>2. mishaps' \in 0..MaxMishaps
  BY MishapsCounted DEF LanceInv, LanceCrash
<1>3. JobFits(p, NotAdding, Latest) /\ Untouched(NotAdding)
  BY <1>1, IdleFits
<1> QED BY <1>1, <1>2, <1>3 DEF QuietStep, LanceCrash, JobFits, LanceInv, LanceTypeOK, Latest

\* A repair that has chosen the version to go back to, or cannot be had.
LEMMA ListsQuietly ==
    ASSUME LanceInv, NEW p \in LanceProcs, ListVersions(p)
    PROVE  QuietStep(p)
<1>1. /\ Latest \in Nat /\ job \in [LanceProcs -> JobsOf(Latest)] /\ Latest \in 1..Latest
      /\ kept \in 1..Latest /\ handle \in [LanceProcs -> 1..Latest]
  BY LenProperties DEF LanceInv, LanceTypeOK, JobsOf, Latest
<1>2. mishaps' \in 0..MaxMishaps
  BY MishapsCounted DEF LanceInv, ListVersions
<1>3. JobFits(p, job[p], Latest) /\ job[p].step = "repair"
  BY DEF LanceInv, ListVersions
<1>4. JobFits(p, job'[p], Latest) /\ Untouched(job'[p]) /\ \A q \in LanceProcs : q # p => job'[q] = job[q]
  <2>1. ASSUME NEW v \in 0..Latest, job' = [job EXCEPT ![p].step = "restore", ![p].target = v]
        PROVE  JobFits(p, job'[p], Latest) /\ Untouched(job'[p]) /\ \A q \in LanceProcs : q # p => job'[q] = job[q]
    <3> DEFINE j == job[p]
               k == [j EXCEPT !.step = "restore", !.target = v]
    <3>1. job' = [job EXCEPT ![p] = k]
      BY <1>1, <2>1
    <3>2. j \in JobsOf(Latest) /\ JobFits(p, j, Latest) /\ j.step = "repair"
      BY <1>3 DEF JobFits
    <3> HIDE DEF j
    <3>3. k \in JobsOf(Latest) /\ k.step = "restore" /\ k.path = j.path /\ k.rev = j.rev
          /\ k.attempt = j.attempt
      BY <3>2, <2>1 DEF JobsOf
    <3>4. JobFits(p, k, Latest) /\ Untouched(k)
      BY <3>2, <3>3 DEF JobFits, Untouched
    <3> HIDE DEF k
    <3> QED BY <1>1, <3>1, <3>4
  <2>2. CASE job' = [job EXCEPT ![p] = IF @.path = "-" THEN NotAdding ELSE Unrepaired(@)]
    <3>1. JobFits(p, NotAdding, Latest) /\ Untouched(NotAdding)
      BY <1>1, IdleFits
    <3>2. job[p].path # "-" => JobFits(p, Unrepaired(job[p]), Latest) /\ Untouched(Unrepaired(job[p]))
      <4> SUFFICES ASSUME job[p].path # "-"
                   PROVE  JobFits(p, Unrepaired(job[p]), Latest) /\ Untouched(Unrepaired(job[p]))
        OBVIOUS
      <4>1. job[p].path \in PathsOf(p) /\ job[p].rev \in Revisions
        BY <1>3 DEF JobFits
      <4> QED BY <1>1, <1>3, <4>1, UnrepairedFits
    <3> QED BY <1>1, <2>2, <3>1, <3>2
  <2>3. 0 \in 0..Latest /\ \A v \in kept .. Latest - 1 : v \in 0..Latest
    BY <1>1
  <2> QED BY <2>1, <2>2, <2>3 DEF ListVersions
<1>5. job' \in [LanceProcs -> JobsOf(Latest)]
  <2>1. DOMAIN job' = LanceProcs /\ job' = [q \in LanceProcs |-> job'[q]]
    BY <1>1 DEF ListVersions
  <2> QED BY <1>1, <1>4, <2>1 DEF JobFits
<1> QED BY <1>1, <1>2, <1>4, <1>5 DEF QuietStep, ListVersions

-----------------------------------------------------------------------------
\* What holds when a transaction goes through.
LEMMA GoesThrough ==
    ASSUME LanceInv, NEW p \in LanceProcs, job[p].step \in {"wipe", "insert", "dedup"},
           ~ Incompatible(p)
    PROVE  /\ Latest \in Nat /\ Latest \in 1..Latest /\ kept \in 1..Latest + 1 /\ rebuilt \in BOOLEAN
           /\ job \in [LanceProcs -> JobsOf(Latest)] /\ JobFits(p, job[p], Latest)
           /\ Underway(job[p], Current)
           /\ job[p].path \in Paths /\ job[p].path \in PathsOf(p) /\ job[p].rev \in Revisions
           /\ Current \in [Paths -> Rows]
           /\ ~ rebuilt => \A f \in StoredFiles : Current[f] # {}
<1>1. Latest \in Nat /\ job \in [LanceProcs -> JobsOf(Latest)] /\ kept \in 1..Latest /\ rebuilt \in BOOLEAN
  BY LenProperties DEF LanceInv, LanceTypeOK, JobsOf, Latest
<1>2. Latest \in 1..Latest
  BY <1>1
<1>3. JobFits(p, job[p], Latest) /\ Underway(job[p], Current)
  BY DEF LanceInv
<1>4. versions[Latest] \in [rows : [Paths -> Rows], kind : {"write", "restore"}]
  BY <1>2, ElementOfSeq DEF LanceInv, LanceTypeOK, Latest
<1>5. Current \in [Paths -> Rows]
  BY <1>4 DEF Current
<1>6. job[p].path \in Paths /\ job[p].path \in PathsOf(p) /\ job[p].rev \in Revisions
  BY <1>3 DEF JobFits, PathsOf, Paths
<1>7. ~ rebuilt => \A f \in StoredFiles : Current[f] # {}
  BY <1>2 DEF LanceInv, Current
<1>8. kept \in 1..Latest + 1
  BY <1>1
<1> QED BY <1>1, <1>2, <1>3, <1>5, <1>6, <1>7, <1>8

\* The write in hand has the next step before it.
LEMMA StepTaken ==
    ASSUME NEW p, NEW n \in Nat, NEW j, JobFits(p, j, n), NEW step \in {"insert", "dedup"},
           j.step \in {"wipe", "insert"}, step = "dedup" => j.path \in StoredFiles,
           NEW k, k = [j EXCEPT !.step = step]
    PROVE  JobFits(p, k, n) /\ k.step = step /\ k.path = j.path /\ k.rev = j.rev
<1>1. j \in JobsOf(n)
  BY DEF JobFits
<1>2. k \in JobsOf(n) /\ k.step = step /\ k.path = j.path /\ k.rev = j.rev
  BY <1>1 DEF JobsOf
<1> QED BY <1>2 DEF JobFits

LEMMA WipeStep ==
    ASSUME LanceInv, NEW p \in LanceProcs, Wipe(p)
    PROVE  LanceInv'
<1>1. CASE Errs(p) /\ UNCHANGED <<versions, handle>>
  BY <1>1, ErrsQuietly, QuietSteps DEF Wipe
<1>2. CASE /\ Goes(p, [job[p] EXCEPT !.step = "insert"])
           /\ Write(p, [Current EXCEPT ![job[p].path] = {}], "write")
  <2> DEFINE next == [job[p] EXCEPT !.step = "insert"]
             table == [Current EXCEPT ![job[p].path] = {}]
  <2>1. /\ Latest \in Nat /\ kept \in 1..Latest + 1 /\ rebuilt \in BOOLEAN
        /\ job \in [LanceProcs -> JobsOf(Latest)] /\ JobFits(p, job[p], Latest)
        /\ job[p].path \in Paths /\ job[p].path \in PathsOf(p)
        /\ Current \in [Paths -> Rows]
        /\ ~ rebuilt => \A f \in StoredFiles : Current[f] # {}
    BY <1>2, GoesThrough DEF Wipe, Goes
  <2>2. job[p].step = "wipe" /\ job[p].path \in QuirkPaths
    BY <2>1 DEF Wipe, JobFits
  <2>3. JobFits(p, next, Latest) /\ next.step = "insert" /\ next.path = job[p].path
    <3>1. /\ job[p].step \in {"wipe", "insert"} /\ "insert" \in {"insert", "dedup"}
          /\ "insert" = "dedup" => job[p].path \in StoredFiles
      BY <2>2
    <3> QED BY <2>1, <3>1, StepTaken
  <2>4. job' = [job EXCEPT ![p] = next] /\ mishaps' \in 0..MaxMishaps
    BY <1>2, MishapsCounted DEF Goes, LanceInv
  <2>5. table \in [Paths -> Rows] /\ table[job[p].path] = {}
        /\ \A x \in Paths : x # job[p].path => table[x] = Current[x]
    BY <2>1 DEF Rows
  <2>6. Write(p, table, "write")
    BY <1>2
  <2> HIDE DEF next, table
  <2>7. ~ rebuilt => \A f \in StoredFiles : table[f] # {}
    BY <2>1, <2>2, <2>5, LanceAssumption DEF Paths
  <2>8. WriteStep(p, table, "write")
    BY <2>1, <2>3, <2>4, <2>5, <2>6, <2>7 DEF WriteStep, Wipe, JobFits, Underway
  <2> QED BY <2>1, <2>5, <2>8, WriteSteps
<1> QED BY <1>1, <1>2 DEF Wipe

\* A write's rows are in the table once they are inserted, and for a quirk no others.
LEMMA InsertedRows ==
    ASSUME LanceInv, NEW p \in LanceProcs, job[p].step = "insert", ~ Incompatible(p), NEW table, table = Inserted(p)
    PROVE  /\ table \in [Paths -> Rows]
           /\ \A x \in Paths : x # job[p].path => table[x] = Current[x]
           /\ \E r \in table[job[p].path] : r[1] = job[p].rev
           /\ job[p].path \in QuirkPaths => \A r \in table[job[p].path] : r[1] = job[p].rev
<1> DEFINE path == job[p].path
           rev == job[p].rev
<1>1. path \in Paths /\ rev \in Revisions /\ Current \in [Paths -> Rows] /\ Underway(job[p], Current)
  BY GoesThrough
<1>2. PICK copy \in {1, 2} : table = [Current EXCEPT ![path] = @ \cup {<<rev, copy>>}]
  BY DEF Inserted
<1> HIDE DEF path, rev
<1>3. PICK row \in Revisions \X {1, 2} : row = <<rev, copy>>
  BY <1>1
<1>4. row[1] = rev
  BY <1>3
<1>5. table = [Current EXCEPT ![path] = @ \cup {row}]
  BY <1>2, <1>3, Zenon
<1>6. /\ table[path] = Current[path] \cup {row} /\ \A x \in Paths : x # path => table[x] = Current[x]
      /\ table \in [Paths -> Rows]
  <2>1. Current[path] \cup {row} \in Rows
    BY <1>1 DEF Rows
  <2> QED BY <1>1, <1>5, <2>1
<1>7. path \in QuirkPaths => Current[path] = {}
  BY <1>1 DEF Underway, path
<1> QED BY <1>4, <1>6, <1>7 DEF path, rev

LEMMA InsertStep ==
    ASSUME LanceInv, NEW p \in LanceProcs, Insert(p)
    PROVE  LanceInv'
<1>1. CASE Errs(p) /\ UNCHANGED <<versions, handle>>
  BY <1>1, ErrsQuietly, QuietSteps DEF Insert
<1>2. ASSUME NEW next, next = IF job[p].path \in StoredFiles THEN [job[p] EXCEPT !.step = "dedup"] ELSE NotAdding,
             NEW table, table = Inserted(p),
             Goes(p, next), Write(p, table, "write")
      PROVE  LanceInv'
  <2>1. /\ Latest \in Nat /\ kept \in 1..Latest + 1 /\ rebuilt \in BOOLEAN
        /\ job \in [LanceProcs -> JobsOf(Latest)] /\ JobFits(p, job[p], Latest)
        /\ job[p].path \in Paths /\ job[p].path \in PathsOf(p) /\ job[p].step = "insert"
        /\ ~ rebuilt => \A f \in StoredFiles : Current[f] # {}
    BY <1>2, GoesThrough DEF Insert, Goes
  <2>2. /\ table \in [Paths -> Rows] /\ \E r \in table[job[p].path] : r[1] = job[p].rev
        /\ \A x \in Paths : x # job[p].path => table[x] = Current[x]
    BY <1>2, <2>1, InsertedRows DEF Goes
  <2>3. JobFits(p, next, Latest) /\ Underway(next, table)
    <3>1. CASE job[p].path \in StoredFiles
      <4>1. /\ job[p].step \in {"wipe", "insert"} /\ "dedup" \in {"insert", "dedup"}
            /\ next = [job[p] EXCEPT !.step = "dedup"]
        BY <1>2, <2>1, <3>1
      <4>2. JobFits(p, next, Latest) /\ next.step = "dedup" /\ next.path = job[p].path /\ next.rev = job[p].rev
        BY <2>1, <3>1, <4>1, StepTaken
      <4> QED BY <2>2, <4>2 DEF Underway
    <3>2. CASE job[p].path \notin StoredFiles
      BY <1>2, <2>1, <3>2, IdleFits DEF Underway
    <3> QED BY <3>1, <3>2
  <2>4. job' = [job EXCEPT ![p] = next] /\ mishaps' \in 0..MaxMishaps
    BY <1>2, MishapsCounted DEF Goes, LanceInv
  <2>5. ~ rebuilt => \A f \in StoredFiles : table[f] # {}
    BY <2>1, <2>2 DEF Paths
  <2>6. WriteStep(p, table, "write")
    BY <1>2, <2>1, <2>2, <2>3, <2>4, <2>5 DEF WriteStep, Insert, JobFits
  <2> QED BY <2>1, <2>2, <2>6, WriteSteps
<1> QED BY <1>1, <1>2 DEF Insert

\* The clean-up leaves the rows of the write, which are there.
LEMMA CleanedRows ==
    ASSUME LanceInv, NEW p \in LanceProcs, job[p].step = "dedup", ~ Incompatible(p), NEW table, table = Cleaned(p)
    PROVE  /\ table \in [Paths -> Rows]
           /\ \A x \in Paths : x # job[p].path => table[x] = Current[x]
           /\ \E r \in table[job[p].path] : r[1] = job[p].rev
           /\ \A r \in table[job[p].path] : r[1] = job[p].rev
<1> DEFINE left == {r \in Current[job[p].path] : r[1] = job[p].rev}
<1>1. job[p].path \in Paths /\ Current \in [Paths -> Rows] /\ Underway(job[p], Current)
  BY GoesThrough
<1>2. left \in Rows /\ (\E r \in left : r[1] = job[p].rev) /\ \A r \in left : r[1] = job[p].rev
  BY <1>1 DEF Rows, Underway
<1>3. table = [Current EXCEPT ![job[p].path] = left]
  BY DEF Cleaned
<1> HIDE DEF left
<1>4. table \in [Paths -> Rows] /\ table[job[p].path] = left /\ \A x \in Paths : x # job[p].path => table[x] = Current[x]
  BY <1>1, <1>2, <1>3
<1> QED BY <1>2, <1>4

LEMMA DedupStep ==
    ASSUME LanceInv, NEW p \in LanceProcs, Dedup(p)
    PROVE  LanceInv'
<1>1. CASE Errs(p) /\ UNCHANGED <<versions, handle>>
  BY <1>1, ErrsQuietly, QuietSteps DEF Dedup
<1>2. ASSUME NEW table, table = Cleaned(p),
             Goes(p, NotAdding), Write(p, table, "write")
      PROVE  LanceInv'
  <2>1. /\ Latest \in Nat /\ kept \in 1..Latest + 1 /\ rebuilt \in BOOLEAN
        /\ job \in [LanceProcs -> JobsOf(Latest)]
        /\ job[p].path \in Paths /\ job[p].path \in PathsOf(p) /\ job[p].step = "dedup"
        /\ ~ rebuilt => \A f \in StoredFiles : Current[f] # {}
    BY <1>2, GoesThrough DEF Dedup, Goes
  <2>2. /\ table \in [Paths -> Rows] /\ \E r \in table[job[p].path] : r[1] = job[p].rev
        /\ \A x \in Paths : x # job[p].path => table[x] = Current[x]
    BY <1>2, <2>1, CleanedRows DEF Goes
  <2>3. JobFits(p, NotAdding, Latest) /\ Underway(NotAdding, table) /\ NotAdding \in JobsOf(Latest)
    BY <2>1, IdleFits, Idle DEF Underway
  <2>4. job' = [job EXCEPT ![p] = NotAdding] /\ mishaps' \in 0..MaxMishaps
    BY <1>2, MishapsCounted DEF Goes, LanceInv
  <2>5. ~ rebuilt => \A f \in StoredFiles : table[f] # {}
    BY <2>1, <2>2 DEF Paths
  <2>6. WriteStep(p, table, "write")
    BY <1>2, <2>1, <2>2, <2>3, <2>4, <2>5 DEF WriteStep, Dedup
  <2> QED BY <2>1, <2>2, <2>6, WriteSteps
<1> QED BY <1>1, <1>2 DEF Dedup

\* Compaction is a version with the rows of the one before.
LEMMA OptimizeStep ==
    ASSUME LanceInv, Optimize
    PROVE  LanceInv'
<1>1. /\ Latest \in Nat /\ Latest \in 1..Latest /\ job \in [LanceProcs -> JobsOf(Latest)]
      /\ kept \in 1..Latest /\ rebuilt \in BOOLEAN
  <2>1. Latest \in Nat /\ job \in [LanceProcs -> JobsOf(Latest)] /\ kept \in 1..Latest /\ rebuilt \in BOOLEAN
    BY LenProperties DEF LanceInv, LanceTypeOK, JobsOf, Latest
  <2> QED BY <2>1
<1>2. Current \in [Paths -> Rows]
  <2>1. versions[Latest] \in [rows : [Paths -> Rows], kind : {"write", "restore"}]
    BY <1>1, ElementOfSeq DEF LanceInv, LanceTypeOK, Latest
  <2> QED BY <2>1 DEF Current
<1>3. ~ rebuilt => \A f \in StoredFiles : Current[f] # {}
  BY <1>1 DEF LanceInv, Current
<1>4. "pass" \in LanceProcs /\ JobFits("pass", job["pass"], Latest)
  BY DEF LanceInv, LanceProcs
<1>5. Underway(job["pass"], Current)
  BY IdleFits, <1>1 DEF Optimize, Underway
<1>6. mishaps' \in 0..MaxMishaps
  BY MishapsCounted DEF LanceInv, Optimize
<1>7. kept' \in 1..Latest + 1
  BY <1>1 DEF Optimize
<1>8. WriteStep("pass", Current, "write")
  BY <1>1, <1>2, <1>3, <1>4, <1>5, <1>6, <1>7 DEF WriteStep, Optimize
<1> QED BY <1>4, <1>8, WriteSteps

\* A restore brings a version back, or starts the table over; the write that asked
\* for it is run again.
LEMMA RestoreStep ==
    ASSUME LanceInv, NEW p \in LanceProcs, Restore(p)
    PROVE  LanceInv'
<1>1. /\ Latest \in Nat /\ job \in [LanceProcs -> JobsOf(Latest)]
      /\ kept \in 1..Latest /\ rebuilt \in BOOLEAN
  BY LenProperties DEF LanceInv, LanceTypeOK, JobsOf, Latest
<1>2. JobFits(p, job[p], Latest) /\ job[p].step = "restore" /\ job[p].target \in 0..Latest
  BY DEF LanceInv, Restore, JobFits, JobsOf
<1> DEFINE next == IF job[p].path = "-" THEN NotAdding ELSE AfterRepair(job[p])
           target == job[p].target
<1>3. JobFits(p, next, Latest) /\ Untouched(next)
  <2>1. CASE job[p].path = "-"
    BY <1>1, <2>1, IdleFits
  <2>2. CASE job[p].path # "-"
    <3>1. job[p].path \in PathsOf(p) /\ job[p].rev \in Revisions /\ job[p].attempt \in 0..2
      BY <1>2, <2>2 DEF JobFits
    <3>2. JobFits(p, Again(job[p]), Latest) /\ Untouched(Again(job[p]))
      BY <1>1, <1>2, <3>1, AgainFits
    <3> QED BY <2>2, <3>2 DEF AfterRepair
  <2> QED BY <2>1, <2>2
<1>4. job' = [job EXCEPT ![p] = next]
  BY DEF Restore
<1> HIDE DEF next
<1>5. /\ job' \in [LanceProcs -> JobsOf(Latest)] /\ job'[p] = next
      /\ \A q \in LanceProcs : q # p => job'[q] = job[q]
  BY <1>1, <1>3, <1>4 DEF JobFits
<1>6. \A table : Underway(next, table)
  BY <1>3, LanceAssumption DEF Untouched, Underway
<1>7. mishaps' \in 0..MaxMishaps
  BY MishapsCounted DEF LanceInv, Restore
<1>8. CASE target = 0
  <2> DEFINE none == [x \in Paths |-> {}]
  <2>1. none \in [Paths -> Rows]
    BY DEF Rows
  <2>2. Write(p, none, "restore") /\ kept' \in 1..Latest + 1 /\ rebuilt' = TRUE
    BY <1>1, <1>8 DEF Restore
  <2> HIDE DEF none
  <2>3. WriteStep(p, none, "restore")
    BY <1>3, <1>5, <1>6, <1>7, <2>1, <2>2 DEF WriteStep
  <2> QED BY <2>3, WriteSteps
<1>9. CASE target # 0
  <2> DEFINE table == versions[target].rows
  <2>1. target \in 1..Latest
    BY <1>1, <1>2, <1>9
  <2>2. versions[target] \in [rows : [Paths -> Rows], kind : {"write", "restore"}]
    BY <2>1, ElementOfSeq DEF LanceInv, LanceTypeOK, Latest
  <2>3. table \in [Paths -> Rows]
    BY <2>2
  <2>4. Write(p, table, "restore") /\ kept' \in 1..Latest + 1 /\ rebuilt' = rebuilt
    BY <1>1, <1>9 DEF Restore
  <2>5. ~ rebuilt => \A f \in StoredFiles : table[f] # {}
    BY <2>1 DEF LanceInv
  <2> HIDE DEF table
  <2>6. WriteStep(p, table, "restore")
    BY <1>1, <1>3, <1>5, <1>6, <1>7, <2>3, <2>4, <2>5 DEF WriteStep
  <2> QED BY <2>6, WriteSteps
<1> QED BY <1>8, <1>9

-----------------------------------------------------------------------------
LEMMA LanceInitially == LanceInit => LanceInv
<1> SUFFICES ASSUME LanceInit PROVE LanceInv
  OBVIOUS
<1> DEFINE table == [x \in Paths |-> IF x \in StoredFiles THEN {<<1, 1>>} ELSE {}]
           first == [rows |-> table, kind |-> "write"]
<1>1. table \in [Paths -> Rows]
  <2>1. <<1, 1>> \in Revisions \X {1, 2}
    BY LanceAssumption DEF Revisions
  <2>2. {<<1, 1>>} \in Rows /\ {} \in Rows
    BY <2>1 DEF Rows
  <2> QED BY <2>2
<1>2. versions = <<first>>
  BY DEF LanceInit
<1>3. \A f \in StoredFiles : table[f] # {}
  BY DEF Paths
<1>4. first.rows = table /\ first \in [rows : [Paths -> Rows], kind : {"write", "restore"}]
  BY <1>1
<1> HIDE DEF table, first
<1>5. /\ versions \in Seq([rows : [Paths -> Rows], kind : {"write", "restore"}])
      /\ Latest = 1 /\ versions[1] = first
  BY <1>2, <1>4 DEF Latest
<1>6. job \in [LanceProcs -> JobsOf(1)] /\ \A p \in LanceProcs : job[p] = NotAdding
  BY Idle DEF LanceInit
<1>7. LanceTypeOK
  <2>1. kept \in 1..1 /\ handle \in [LanceProcs -> 1..1] /\ rebuilt \in BOOLEAN /\ mishaps \in 0..MaxMishaps
    <3>1. kept = 1 /\ mishaps = 0 /\ handle = [p \in LanceProcs |-> 1]
      BY DEF LanceInit
    <3>2. rebuilt \in BOOLEAN
      BY DEF LanceInit
    <3> QED BY <3>1, <3>2, LanceAssumption
  <2>2. Len(versions) = 1
    BY <1>5 DEF Latest
  <2>3. kept \in 1..Len(versions) /\ handle \in [LanceProcs -> 1..Len(versions)]
        /\ job \in [LanceProcs -> JobsOf(Len(versions))]
    BY <1>6, <2>1, <2>2
  <2> QED BY <1>5, <2>1, <2>3 DEF LanceTypeOK, JobsOf
<1>8. \A p \in LanceProcs : JobFits(p, job[p], Latest)
  BY <1>5, <1>6, IdleFits
<1>9. \A v \in 1..Latest, f \in StoredFiles : versions[v].rows[f] # {}
  <2>1. \A v \in 1..Latest : v = 1
    BY <1>5
  <2> QED BY <1>3, <1>4, <1>5, <2>1
<1>10. \A p \in LanceProcs : Underway(job[p], Current)
  BY <1>6, Idle DEF Underway
<1> QED BY <1>7, <1>8, <1>9, <1>10 DEF LanceInv

LEMMA LanceStepKeeps == LanceInv /\ [LanceNext]_lance => LanceInv'
<1> SUFFICES ASSUME LanceInv, [LanceNext]_lance PROVE LanceInv'
  OBVIOUS
<1>1. CASE UNCHANGED lance
  BY <1>1 DEF lance, LanceInv, LanceTypeOK, Latest, Current, Incompatible
<1>2. ASSUME NEW p \in LanceProcs,
             (\E x \in Paths : StartUpsert(p, x)) \/ ListVersions(p) \/ LanceCrash(p)
      PROVE  LanceInv'
  BY <1>2, StartsQuietly, ListsQuietly, CrashesQuietly, QuietSteps
<1>3. CASE Search
  <2>1. "plugin" \in LanceProcs
    BY DEF LanceProcs
  <2> QED BY <1>3, <2>1, SearchesQuietly, QuietSteps
<1> QED BY <1>1, <1>2, <1>3, WipeStep, InsertStep, DedupStep, RestoreStep, OptimizeStep DEF LanceNext, LanceStep

\* Stored files keep their rows through attempts that fail, stop and are run again,
\* and through every repair that does not start the table over.
THEOREM StoredFilesKeepRows == LanceSpec => SettledFilesKeepRows
<1>1. LanceInv /\ LanceInv' => \A f \in StoredFiles : Settled(f) => Settled(f)' \/ rebuilt'
  <2> SUFFICES ASSUME LanceInv, LanceInv', ~ rebuilt', NEW f \in StoredFiles PROVE Settled(f)'
    OBVIOUS
  <2>1. kept' \in 1..Latest' /\ Latest' \in Nat
    BY LenProperties DEF LanceInv, LanceTypeOK, Latest
  <2> QED BY <2>1 DEF LanceInv, Settled
<1> QED BY <1>1, LanceInitially, LanceStepKeeps, PTL DEF LanceSpec, SettledFilesKeepRows

\* What a write that returns has stored is in the table, and nothing older is, after
\* every number of failed attempts, repairs and writes of the other process.
THEOREM ReturnedWritesAreStored == LanceSpec => ReturnedIsStored
<1>1. ASSUME LanceInv, [LanceNext]_lance, NEW p \in LanceProcs, Returned(p)
      PROVE  Current'[job[p].path] # {} /\ \A r \in Current'[job[p].path] : r[1] = job[p].rev
  <2>1. job[p].step \in {"insert", "dedup"} /\ job'[p] = NotAdding /\ versions' # versions
    BY <1>1 DEF Returned
  <2>2. job \in [LanceProcs -> JobsOf(Latest)] /\ NotAdding.step = "idle" /\ job[p].step # "idle"
    BY <1>1, <2>1, Idle DEF LanceInv, LanceTypeOK, JobsOf, Latest, NotAdding
  <2>3. Insert(p) \/ Dedup(p)
    <3>1. job' # job
      BY <2>1, <2>2
    <3>2. ~ UNCHANGED lance /\ ~ Search /\ ~ Optimize
      BY <2>1, <3>1 DEF lance, Search, Optimize
    <3>3. PICK q \in LanceProcs : (\E x \in Paths : StartUpsert(q, x)) \/ LanceStep(q) \/ LanceCrash(q)
      BY <1>1, <3>2 DEF LanceNext
    <3>4. LanceStep(q) /\ ~ ListVersions(q)
      BY <2>1, <3>3 DEF StartUpsert, LanceCrash, ListVersions
    <3>5. q = p
      <4> SUFFICES ASSUME q # p PROVE FALSE
        OBVIOUS
      <4>1. job'[p] = job[p]
        BY <2>2, <3>4 DEF LanceStep, Wipe, Insert, Dedup, Restore, Errs, Goes
      <4> QED BY <2>1, <2>2, <4>1
    <3> QED BY <2>1, <3>4, <3>5 DEF LanceStep, Wipe, Restore
  <2>4. CASE Insert(p)
    <3> PICK table : table = Inserted(p)
      OBVIOUS
    <3>1. /\ job[p].step = "insert" /\ ~ Incompatible(p) /\ Write(p, table, "write")
          /\ job'[p] = IF job[p].path \in StoredFiles THEN [job[p] EXCEPT !.step = "dedup"] ELSE NotAdding
      BY <2>1, <2>2, <2>4 DEF Insert, Goes, Errs
    <3>2. /\ table \in [Paths -> Rows] /\ \E r \in table[job[p].path] : r[1] = job[p].rev
          /\ job[p].path \in QuirkPaths => \A r \in table[job[p].path] : r[1] = job[p].rev
      BY <1>1, <3>1, InsertedRows
    <3>3. job[p].path \notin StoredFiles
      BY <2>1, <2>2, <3>1 DEF JobsOf
    <3>4. job[p].path \in QuirkPaths
      BY <1>1, <3>1, <3>3, GoesThrough DEF Paths
    <3>5. Current' = table
      BY <1>1, <3>1, <3>2, VersionAdded DEF LanceInv
    <3> QED BY <3>2, <3>4, <3>5
  <2>5. CASE Dedup(p)
    <3> PICK table : table = Cleaned(p)
      OBVIOUS
    <3>1. job[p].step = "dedup" /\ ~ Incompatible(p) /\ Write(p, table, "write")
      BY <2>1, <2>5 DEF Dedup, Goes, Errs
    <3>2. /\ table \in [Paths -> Rows] /\ \E r \in table[job[p].path] : r[1] = job[p].rev
          /\ \A r \in table[job[p].path] : r[1] = job[p].rev
      BY <1>1, <3>1, CleanedRows
    <3>3. Current' = table
      BY <1>1, <3>1, <3>2, VersionAdded DEF LanceInv
    <3> QED BY <3>2, <3>3
  <2> QED BY <2>3, <2>4, <2>5
<1>2. LanceInv /\ [LanceNext]_lance =>
          \A p \in LanceProcs : Returned(p) => StoredAlone(p)
  BY <1>1 DEF StoredAlone
<1> QED BY <1>2, LanceInitially, LanceStepKeeps, PTL DEF LanceSpec, ReturnedIsStored

-----------------------------------------------------------------------------
(* KeywordIndex: slots, folding and renumbering behind an InvertedIndex *)

\* Postings hold occurrences, of slots in S only.
PostingsOK(P, S) ==
    \A t \in Tokens : DOMAIN P[t] \subseteq S /\ \A s \in DOMAIN P[t] : P[t][s] \in Nat \ {0}

\* A live chunk has a slot of its own, which is not deleted.
SlotsOK ==
    /\ ids \in Seq(Ids) /\ dels \subseteq Slots
    /\ \A c \in Live : c \in Ids /\ slotOf[c] \in Slots \ dels /\ ids[slotOf[c]] = c

MemoryOK == SlotsOK /\ PostingsOK(csr, Slots) /\ PostingsOK(added, Slots)

Distinct(s) == \A i, j \in DOMAIN s : s[i] = s[j] => i = j
ImageOK(image) ==
    image.ids \in Seq(Ids) /\ Distinct(image.ids) /\ PostingsOK(image.postings, DOMAIN image.ids)
FilesOK == ImageOK(disk) /\ \A w \in DOMAIN writing : ImageOK(writing[w])

KeywordInv == MemoryOK /\ FilesOK

\* What is in a frequency table is what counts.
LEMMA FreqIsPositive ==
    ASSUME NEW P, NEW S, PostingsOK(P, S), NEW t \in Tokens, NEW s
    PROVE  /\ Freq(P, t, s) \in Nat
           /\ Freq(P, t, s) > 0 <=> s \in DOMAIN P[t]
BY DEF PostingsOK, Freq

Posted(c) == {t \in Tokens : slotOf[c] \in DOMAIN csr[t] \cup DOMAIN added[t]}

LEMMA MatchedIsPosted == MemoryOK => \A c1 \in Live : Matched(c1) = Posted(c1)
<1> SUFFICES ASSUME MemoryOK, NEW c \in Live PROVE Matched(c) = Posted(c) OBVIOUS
<1>1. slotOf[c] \notin dels BY DEF MemoryOK, SlotsOK
<1>2. ASSUME NEW t \in Tokens
      PROVE  Freq(csr, t, slotOf[c]) + Freq(added, t, slotOf[c]) > 0
                <=> slotOf[c] \in DOMAIN csr[t] \cup DOMAIN added[t]
  <2>1. PostingsOK(csr, Slots) /\ PostingsOK(added, Slots) BY DEF MemoryOK
  <2>2. /\ Freq(csr, t, slotOf[c]) \in Nat
        /\ Freq(csr, t, slotOf[c]) > 0 <=> slotOf[c] \in DOMAIN csr[t]
    BY <2>1, FreqIsPositive
  <2>3. /\ Freq(added, t, slotOf[c]) \in Nat
        /\ Freq(added, t, slotOf[c]) > 0 <=> slotOf[c] \in DOMAIN added[t]
    BY <2>1, FreqIsPositive
  <2> QED BY <2>2, <2>3
<1> QED BY <1>1, <1>2 DEF Matched, Posted

-----------------------------------------------------------------------------
\* An empty index is a sound image, of nothing.
LEMMA EmptyIsNothing == ImageOK(Empty) /\ FoundIn(Empty) = Promise!Nothing
<1>1. ToSet(Empty.ids) = {} /\ Empty.ids = <<>> BY DEF Empty, ToSet
<1>2. \A t \in Tokens : DOMAIN Empty.postings[t] = {} BY DEF NoPostings, Empty
<1>3. FoundIn(Empty) = Promise!Nothing BY <1>1 DEF FoundIn, Promise!Nothing
<1>4. ImageOK(Empty) BY <1>1, <1>2 DEF ImageOK, Distinct, PostingsOK
<1> QED BY <1>3, <1>4

\* The initial states.
LEMMA KeywordInitInv == KeywordInit => KeywordInv /\ Promise!Init
<1> SUFFICES ASSUME KeywordInit PROVE KeywordInv /\ Promise!Init OBVIOUS
<1> USE DEF KeywordInit
<1>1. Live = {} /\ DOMAIN writing = {} /\ disk = Empty BY DEF Live, Writing
<1>2. \A t \in Tokens : DOMAIN csr[t] = {} /\ DOMAIN added[t] = {} BY DEF NoPostings
<1>4. MemoryOK BY <1>1, <1>2 DEF MemoryOK, SlotsOK, PostingsOK, Slots
<1>5. FilesOK BY <1>1, EmptyIsNothing DEF FilesOK
<1>6. Entries = Promise!Nothing /\ SettledEntries = Promise!Nothing BY <1>1 DEF Entries, SettledEntries, Promise!Nothing
<1>7. FoundIn(disk) = Promise!Nothing BY <1>1, EmptyIsNothing
<1>8. Images = Promise!OnlyImages({}) BY <1>1 DEF Images, Promise!OnlyImages
<1> QED BY <1>4, <1>5, <1>6, <1>7, <1>8 DEF KeywordInv, Promise!Init

-----------------------------------------------------------------------------
(* addChunks is a Put. *)

LEMMA AddKeepsPromise ==
    ASSUME KeywordInv, NEW c \in Ids, NEW content \in ChunkTexts, AddChunk(c, content)
    PROVE  MemoryOK' /\ Promise!Put(c, content)
<1> PICK s : s = IF c \in Live THEN slotOf[c] ELSE Len(ids) + 1 OBVIOUS
<1>0. ids \in Seq(Ids) /\ Slots = 1..Len(ids) /\ Len(ids) \in Nat
  BY DEF KeywordInv, MemoryOK, SlotsOK, Slots
<1>1. content \subseteq Tokens BY ChunkTextsAssumption
<1>2. /\ ids' = IF c \in Live THEN ids ELSE Append(ids, c)
      /\ slotOf' = [d \in Live \cup {c} |-> IF d = c THEN s ELSE slotOf[d]]
      /\ csr' = csr /\ dels' = dels /\ disk' = disk /\ writing' = writing
  BY DEF AddChunk
<1>3. \A t \in Tokens :
        /\ DOMAIN added'[t] = DOMAIN added[t] \cup (IF t \in content THEN {s} ELSE {})
        /\ \A x \in DOMAIN added'[t] :
              added'[t][x] = Freq(added, t, x) + (IF x = s /\ t \in content THEN 1 ELSE 0)
  BY DEF AddChunk
<1>4. PostingsOK(csr, Slots) /\ PostingsOK(added, Slots) /\ SlotsOK
  BY DEF KeywordInv, MemoryOK
<1>5. /\ ids' \in Seq(Ids) /\ Slots' = Slots \cup {s} /\ s \notin dels
      /\ \A i \in Slots : ids'[i] = ids[i]
      /\ ids'[s] = c
      /\ c \notin Live => s \notin Slots
  <2>1. CASE c \in Live
    <3>1. s = slotOf[c] /\ ids' = ids BY <2>1, <1>2
    <3> QED BY <2>1, <3>1, <1>4 DEF SlotsOK, Slots
  <2>2. CASE c \notin Live
    <3>1. s = Len(ids) + 1 /\ ids' = Append(ids, c) BY <2>2, <1>2
    <3>2. /\ ids' \in Seq(Ids) /\ Len(ids') = Len(ids) + 1 /\ ids'[Len(ids) + 1] = c
          /\ \A i \in 1..Len(ids) : ids'[i] = ids[i]
      BY <3>1, <1>0, AppendProperties
    <3>3. Slots' = 1 .. Len(ids) + 1 BY <3>2 DEF Slots
    <3>4. dels \subseteq Slots /\ s \notin Slots BY <3>1, <1>0, <1>4 DEF SlotsOK
    <3> QED BY <3>1, <3>2, <3>3, <3>4, <1>0
  <2> QED BY <2>1, <2>2
<1>6. Live' = Live \cup {c} /\ slotOf'[c] = s /\ \A d \in Live : slotOf'[d] = slotOf[d]
  BY <1>2 DEF Live
<1>7. PostingsOK(added', Slots')
  <2> SUFFICES ASSUME NEW t \in Tokens
               PROVE  /\ DOMAIN added'[t] \subseteq Slots'
                      /\ \A x \in DOMAIN added'[t] : added'[t][x] \in Nat \ {0}
    BY DEF PostingsOK
  <2>1. DOMAIN added[t] \subseteq Slots BY <1>4 DEF PostingsOK
  <2>2. DOMAIN added'[t] \subseteq Slots' BY <2>1, <1>5, <1>3
  <2>3. ASSUME NEW x \in DOMAIN added'[t] PROVE added'[t][x] \in Nat \ {0}
    <3>1. Freq(added, t, x) \in Nat /\ (Freq(added, t, x) > 0 <=> x \in DOMAIN added[t])
      BY <1>4, FreqIsPositive
    <3>2. x \in DOMAIN added[t] \/ (x = s /\ t \in content)
      <4>1. x \in DOMAIN added[t] \cup (IF t \in content THEN {s} ELSE {}) BY <2>3, <1>3
      <4> QED BY <4>1
    <3>3. added'[t][x] = Freq(added, t, x) + (IF x = s /\ t \in content THEN 1 ELSE 0) BY <2>3, <1>3
    <3> QED BY <3>1, <3>2, <3>3
  <2> QED BY <2>2, <2>3
<1>8. PostingsOK(csr', Slots') BY <1>4, <1>2, <1>5 DEF PostingsOK
<1>9. SlotsOK'
  <2>1. dels' \subseteq Slots' BY <1>4, <1>2, <1>5 DEF SlotsOK
  <2>2. ASSUME NEW d \in Live'
        PROVE  d \in Ids /\ slotOf'[d] \in Slots' \ dels' /\ ids'[slotOf'[d]] = d
    <3>1. CASE d = c BY <3>1, <1>2, <1>5, <1>6
    <3>2. CASE d \in Live BY <3>2, <1>2, <1>4, <1>5, <1>6 DEF SlotsOK
    <3> QED BY <3>1, <3>2, <1>6
  <2> QED BY <2>1, <2>2, <1>5 DEF SlotsOK
<1>11. MemoryOK' BY <1>7, <1>8, <1>9 DEF MemoryOK
<1>m. \A d \in Live' : Matched(d)' = Posted(d)'
  <2>1. (MemoryOK => \A c1 \in Live : Matched(c1) = Posted(c1))' BY MatchedIsPosted, PTL
  <2> QED BY <1>11, <2>1
<1>n. \A d \in Live : Matched(d) = Posted(d)
  BY MatchedIsPosted DEF KeywordInv
<1>12. c \notin Live => \A t \in Tokens : s \notin DOMAIN csr[t] \cup DOMAIN added[t]
  BY <1>4, <1>5 DEF PostingsOK
<1>13. Matched(c)' = IF c \in Live THEN Matched(c) \cup content ELSE content
  <2>1. Matched(c)' = {t \in Tokens : s \in DOMAIN csr'[t] \cup DOMAIN added'[t]}
    BY <1>m, <1>6 DEF Posted
  <2>2. CASE c \in Live
    <3>1. Matched(c) = {t \in Tokens : s \in DOMAIN csr[t] \cup DOMAIN added[t]}
      BY <2>2, <1>n DEF Posted
    <3> QED BY <2>1, <2>2, <3>1, <1>1, <1>2, <1>3
  <2>3. CASE c \notin Live BY <2>1, <2>3, <1>1, <1>2, <1>3, <1>12
  <2> QED BY <2>2, <2>3
<1>14. ASSUME NEW d \in Live, d # c PROVE Matched(d)' = Matched(d) /\ slotOf'[d] = slotOf[d]
  <2>1. slotOf[d] # s
    <3>1. slotOf[d] \in Slots /\ ids[slotOf[d]] = d BY <1>4 DEF SlotsOK
    <3>2. s \in Slots => ids[s] = c BY <1>5
    <3> QED BY <1>14, <3>1, <3>2
  <2>2. Matched(d)' = {t \in Tokens : slotOf'[d] \in DOMAIN csr'[t] \cup DOMAIN added'[t]}
    BY <1>m, <1>6 DEF Posted
  <2>3. Matched(d) = {t \in Tokens : slotOf[d] \in DOMAIN csr[t] \cup DOMAIN added[t]}
    BY <1>n DEF Posted
  <2> QED BY <2>1, <2>2, <2>3, <1>2, <1>3, <1>6
<1>15. DOMAIN Entries = Live /\ DOMAIN SettledEntries = Live BY DEF Entries, SettledEntries
<1>16. Entries' = Promise!With(Entries, c, content)
  <2>1. Entries' = [d \in Live \cup {c} |-> Matched(d)'] BY <1>6 DEF Entries
  <2>2. \A d \in Live : Entries[d] = Matched(d) BY DEF Entries
  <2> QED BY <2>1, <2>2, <1>13, <1>14, <1>15 DEF Promise!With
<1>17. SettledEntries' = Promise!With(SettledEntries, c, {})
  <2> DEFINE folds(d) == {t \in Tokens : slotOf[d] \in DOMAIN csr[t]}
             foldsNow(d) == {t \in Tokens : slotOf'[d] \in DOMAIN csr[t]}
  <2>1. SettledEntries' = [d \in Live \cup {c} |-> foldsNow(d)] BY <1>2, <1>6 DEF SettledEntries
  <2>2. \A d \in Live : SettledEntries[d] = folds(d) BY DEF SettledEntries
  <2>3. \A d \in Live : foldsNow(d) = folds(d) BY <1>6
  <2>4. c \notin Live => foldsNow(c) = {} BY <1>6, <1>12
  <2> HIDE DEF folds, foldsNow
  <2> QED BY <2>1, <2>2, <2>3, <2>4, <1>15 DEF Promise!With
<1>18. FoundIn(disk)' = FoundIn(disk) /\ Images' = Images BY <1>2 DEF FoundIn, Images
<1> QED BY <1>11, <1>16, <1>17, <1>18 DEF Promise!Put

-----------------------------------------------------------------------------
(* removeByFilePath is a Drop, and a clear a Clear. *)

LEMMA RemoveKeepsPromise ==
    ASSUME KeywordInv, NEW f, RemoveByFilePath(f)
    PROVE  MemoryOK' /\ \E c \in Ids : Promise!Drop(KeyOf[c])
<1> DEFINE gone == {slotOf[c] : c \in {c \in Live : KeyOf[c] = f}}
           left == {c \in Live : KeyOf[c] # f}
<1>1. /\ gone # {} /\ dels' = dels \cup gone
      /\ slotOf' = [c \in {c \in Live : slotOf[c] \notin gone} |-> slotOf[c]]
      /\ ids' = ids /\ csr' = csr /\ added' = added /\ disk' = disk /\ writing' = writing
  BY DEF RemoveByFilePath
<1>2. PICK c \in Live : KeyOf[c] = f BY <1>1
<1>3. SlotsOK /\ PostingsOK(csr, Slots) /\ PostingsOK(added, Slots)
  BY DEF KeywordInv, MemoryOK
<1>4. ASSUME NEW d \in Live PROVE slotOf[d] \in gone <=> KeyOf[d] = f
  BY <1>3 DEF SlotsOK
<1>5. {d \in Live : slotOf[d] \notin gone} = left BY <1>4
<1>6. Live' = left /\ \A d \in left : slotOf'[d] = slotOf[d] BY <1>1, <1>5 DEF Live
<1>7. MemoryOK'
  <2>1. Slots' = Slots BY <1>1 DEF Slots
  <2>2. gone \subseteq Slots BY <1>3 DEF SlotsOK
  <2>3. ASSUME NEW d \in left
        PROVE  d \in Ids /\ slotOf[d] \in Slots \ (dels \cup gone) /\ ids[slotOf[d]] = d
    BY <1>3, <1>4 DEF SlotsOK
  <2>4. dels \cup gone \subseteq Slots BY <1>3, <2>2 DEF SlotsOK
  <2>5. SlotsOK'
    <3> HIDE DEF gone, left
    <3> QED BY <1>1, <1>3, <1>6, <2>1, <2>3, <2>4 DEF SlotsOK
  <2> QED BY <1>1, <1>3, <2>1, <2>5 DEF MemoryOK, PostingsOK
<1>8. ASSUME NEW d \in left PROVE Matched(d)' = Matched(d)
  <2>1. (MemoryOK => \A c1 \in Live : Matched(c1) = Posted(c1))' BY MatchedIsPosted, PTL
  <2>2. Matched(d)' = Posted(d)' BY <2>1, <1>6, <1>7
  <2>3. Matched(d) = Posted(d) BY MatchedIsPosted DEF KeywordInv
  <2> QED BY <1>1, <1>6, <2>2, <2>3 DEF Posted
<1> HIDE DEF gone
<1>9. DOMAIN Entries = Live BY DEF Entries
<1>10. Entries' = Promise!Only(Entries, left) BY <1>6, <1>8 DEF Entries, Promise!Only
<1>11. SettledEntries' = Promise!Only(SettledEntries, left) BY <1>1, <1>6 DEF SettledEntries, Promise!Only
<1>13. FoundIn(disk)' = FoundIn(disk) /\ Images' = Images BY <1>1 DEF FoundIn, Images
<1>14. Promise!Drop(KeyOf[c]) BY <1>2, <1>9, <1>10, <1>11, <1>13 DEF Promise!Drop
<1>15. c \in Ids BY <1>3 DEF SlotsOK
<1> QED BY <1>7, <1>14, <1>15

LEMMA ClearKeepsPromise ==
    ASSUME KeywordInv, ClearIndex
    PROVE  MemoryOK' /\ Promise!Clear
<1> USE DEF ClearIndex
<1>1. Live' = {} BY DEF Live
<1>2. \A t \in Tokens : DOMAIN csr'[t] = {} /\ DOMAIN added'[t] = {} BY DEF NoPostings
<1>3. MemoryOK' BY <1>1, <1>2 DEF MemoryOK, SlotsOK, PostingsOK, Slots
<1>4. Entries' = Promise!Nothing BY <1>1 DEF Entries, Promise!Nothing
<1>5. SettledEntries' = Promise!Nothing BY <1>1 DEF SettledEntries, Promise!Nothing
<1>6. FoundIn(disk)' = FoundIn(disk) /\ Images' = Images BY DEF FoundIn, Images
<1> QED BY <1>3, <1>4, <1>5, <1>6 DEF Promise!Clear

-----------------------------------------------------------------------------
(* A save folds first: everything is settled, and found as before. *)

LEMMA FoldKeepsPromise ==
    ASSUME KeywordInv, NEW w \in Savers, BeginSave(w)
    PROVE  MemoryOK' /\ Promise!BeginSave
<1>1. /\ csr' = Folded /\ added' = NoPostings /\ dels' = {}
      /\ ids' = ids /\ slotOf' = slotOf /\ disk' = disk /\ writing' = writing
  BY DEF BeginSave, NothingPending
<1>2. SlotsOK /\ PostingsOK(csr, Slots) /\ PostingsOK(added, Slots)
  BY DEF KeywordInv, MemoryOK
<1>3. ASSUME NEW t \in Tokens
      PROVE  /\ DOMAIN csr'[t] = (DOMAIN csr[t] \cup DOMAIN added[t]) \ dels
             /\ \A s \in DOMAIN csr'[t] : csr'[t][s] = Freq(csr, t, s) + Freq(added, t, s)
             /\ DOMAIN added'[t] = {}
  BY <1>1 DEF Folded, NoPostings
<1>4. Slots' = Slots /\ Live' = Live BY <1>1 DEF Slots, Live
<1>5. PostingsOK(csr', Slots')
  <2> SUFFICES ASSUME NEW t \in Tokens
               PROVE  /\ DOMAIN csr'[t] \subseteq Slots'
                      /\ \A s \in DOMAIN csr'[t] : csr'[t][s] \in Nat \ {0}
    BY DEF PostingsOK
  <2>1. DOMAIN csr'[t] \subseteq Slots' BY <1>2, <1>3, <1>4 DEF PostingsOK
  <2>2. ASSUME NEW s \in DOMAIN csr'[t] PROVE csr'[t][s] \in Nat \ {0}
    <3>1. s \in DOMAIN csr[t] \cup DOMAIN added[t] BY <1>3
    <3>2. Freq(csr, t, s) \in Nat /\ (Freq(csr, t, s) > 0 <=> s \in DOMAIN csr[t])
      BY <1>2, FreqIsPositive
    <3>3. Freq(added, t, s) \in Nat /\ (Freq(added, t, s) > 0 <=> s \in DOMAIN added[t])
      BY <1>2, FreqIsPositive
    <3> QED BY <1>3, <3>1, <3>2, <3>3
  <2> QED BY <2>1, <2>2
<1>6. PostingsOK(added', Slots') BY <1>3 DEF PostingsOK
<1>7. SlotsOK' BY <1>1, <1>2, <1>4 DEF SlotsOK
<1>9. MemoryOK' BY <1>5, <1>6, <1>7 DEF MemoryOK
<1>10. ASSUME NEW d \in Live PROVE Matched(d)' = Matched(d) /\ Matched(d)' = Posted(d)'
  <2>1. (MemoryOK => \A c1 \in Live : Matched(c1) = Posted(c1))' BY MatchedIsPosted, PTL
  <2>2. Matched(d)' = Posted(d)' BY <2>1, <1>4, <1>9
  <2>3. Matched(d) = Posted(d) BY MatchedIsPosted DEF KeywordInv
  <2>4. slotOf[d] \notin dels BY <1>2 DEF SlotsOK
  <2>5. Posted(d)' = Posted(d) BY <1>1, <1>3, <2>4 DEF Posted
  <2> QED BY <2>2, <2>3, <2>5
<1>11. Entries' = Entries BY <1>4, <1>10 DEF Entries
<1>12. SettledEntries' = Entries
  <2>1. ASSUME NEW d \in Live PROVE {t \in Tokens : slotOf[d] \in DOMAIN csr'[t]} = Matched(d)
    <3>1. Posted(d)' = {t \in Tokens : slotOf[d] \in DOMAIN csr'[t]} BY <1>1, <1>3 DEF Posted
    <3> QED BY <2>1, <3>1, <1>10
  <2>2. SettledEntries' = [d \in Live |-> {t \in Tokens : slotOf[d] \in DOMAIN csr'[t]}] BY <1>1, <1>4 DEF SettledEntries
  <2> QED BY <2>1, <2>2 DEF Entries
<1>13. FoundIn(disk)' = FoundIn(disk) /\ Images' = Images BY <1>1 DEF FoundIn, Images
<1> QED BY <1>9, <1>11, <1>12, <1>13 DEF Promise!BeginSave

-----------------------------------------------------------------------------
(* What is loaded is what was saved. *)

LEMMA LoadKeepsPromise ==
    ASSUME KeywordInv, Load
    PROVE  KeywordInv' /\ Promise!Restart
<1> DEFINE At(c) == SlotIn(disk, c)
<1>1. /\ ids' = disk.ids /\ csr' = disk.postings /\ added' = NoPostings
      /\ dels' = {} /\ disk' = disk /\ writing' = Writing({})
      /\ slotOf' = [c \in ToSet(disk.ids) |-> At(c)]
  BY DEF Load
<1>2. disk.ids \in Seq(Ids) /\ PostingsOK(disk.postings, DOMAIN disk.ids) /\ ImageOK(disk)
  BY DEF KeywordInv, FilesOK, ImageOK
<1>3. ASSUME NEW c \in ToSet(disk.ids) PROVE At(c) \in DOMAIN disk.ids /\ disk.ids[At(c)] = c /\ c \in Ids
  <2>1. PICK s \in DOMAIN disk.ids : disk.ids[s] = c BY DEF ToSet
  <2> QED BY <2>1, <1>2 DEF SlotIn
<1>4. Slots' = DOMAIN disk.ids BY <1>1, <1>2 DEF Slots
<1>5. \A t \in Tokens : DOMAIN added'[t] = {} BY <1>1 DEF NoPostings
<1> HIDE DEF At
<1>6. Live' = ToSet(disk.ids) /\ \A c \in Live' : slotOf'[c] = At(c) BY <1>1 DEF Live
<1>7. SlotsOK' BY <1>1, <1>2, <1>3, <1>4, <1>6 DEF SlotsOK
<1>8. MemoryOK'
  <2>1. PostingsOK(csr', Slots') BY <1>1, <1>2, <1>4
  <2>2. PostingsOK(added', Slots') BY <1>5 DEF PostingsOK
  <2> QED BY <1>7, <2>1, <2>2 DEF MemoryOK
<1>9. ASSUME NEW c \in Live'
      PROVE  Matched(c)' = {t \in Tokens : At(c) \in DOMAIN disk.postings[t]}
  <2>1. (MemoryOK => \A c1 \in Live : Matched(c1) = Posted(c1))' BY MatchedIsPosted, PTL
  <2>2. Matched(c)' = Posted(c)' BY <2>1, <1>8
  <2> QED BY <1>1, <1>5, <1>6, <2>2 DEF Posted
<1>10. Entries' = [c \in ToSet(disk.ids) |-> {t \in Tokens : At(c) \in DOMAIN disk.postings[t]}]
  BY <1>6, <1>9 DEF Entries
<1>11. SettledEntries' = [c \in ToSet(disk.ids) |-> {t \in Tokens : At(c) \in DOMAIN disk.postings[t]}]
  BY <1>1, <1>6 DEF SettledEntries
<1>12. FoundIn(disk) = [c \in ToSet(disk.ids) |-> {t \in Tokens : At(c) \in DOMAIN disk.postings[t]}]
  BY DEF FoundIn, At
<1>13. FoundIn(disk)' = FoundIn(disk) BY <1>1 DEF FoundIn
<1>14. DOMAIN writing' = {} BY <1>1 DEF Writing
<1>15. Images' = Promise!OnlyImages({}) BY <1>14 DEF Images, Promise!OnlyImages
<1>16. FilesOK' BY <1>1, <1>2, <1>14 DEF FilesOK, ImageOK
<1> QED BY <1>8, <1>10, <1>11, <1>12, <1>13, <1>15, <1>16 DEF Promise!Restart, KeywordInv

-----------------------------------------------------------------------------
(* An image has the live slots, numbered without gaps in their order. *)

LEMMA LiveIsFinite == SlotsOK => IsFiniteSet(Live)
<1> SUFFICES ASSUME SlotsOK PROVE IsFiniteSet(Live) OBVIOUS
<1> DEFINE place == [c \in Live |-> slotOf[c]]
<1>1. Len(ids) \in Nat BY DEF SlotsOK
<1>2. IsFiniteSet(Slots) BY <1>1, FS_Interval DEF Slots
<1>3. place \in Injection(Live, Slots)
  <2>1. place \in [Live -> Slots] BY DEF SlotsOK
  <2>2. \A c, d \in Live : place[c] = place[d] => c = d BY DEF SlotsOK
  <2> QED BY <2>1, <2>2 DEF Injection, IsInjective
<1> HIDE DEF place
<1> QED BY <1>2, <1>3, FS_Injection

NumberOf(c) == Renumbered[slotOf[c]]

LEMMA LiveSlotsAreNumbered ==
    ASSUME SlotsOK
    PROVE  /\ IsFiniteSet(Live) /\ Cardinality(Live) \in Nat
           /\ \A c \in Live : NumberOf(c) \in 1..Cardinality(Live)
           /\ \A c, d \in Live : NumberOf(c) = NumberOf(d) => c = d
           /\ \A k \in 1..Cardinality(Live) : \E c \in Live : NumberOf(c) = k
           /\ \A s \in Slots : s \notin {slotOf[c] : c \in Live} => Renumbered[s] = 0
<1> DEFINE n == Cardinality(Live)
           UpTo(c) == {d \in Live : slotOf[d] <= slotOf[c]}
<1>1. IsFiniteSet(Live) /\ n \in Nat BY LiveIsFinite, FS_CardinalityType
<1>2. Slots \subseteq Nat /\ \A c \in Live : slotOf[c] \in Slots /\ ids[slotOf[c]] = c
  BY DEF SlotsOK, Slots
<1>3. ASSUME NEW c \in Live PROVE NumberOf(c) = Cardinality(UpTo(c))
  BY <1>2 DEF NumberOf, Renumbered
<1>4. ASSUME NEW c \in Live PROVE NumberOf(c) \in 1..n
  <2>0. slotOf[c] \in Nat BY <1>2
  <2>1. c \in UpTo(c) /\ UpTo(c) \in SUBSET Live BY <2>0
  <2>2. /\ IsFiniteSet(UpTo(c)) /\ Cardinality(UpTo(c)) <= n
        /\ Cardinality(UpTo(c)) \in Nat
    BY <1>1, <2>1, FS_Subset, FS_CardinalityType
  <2>3. Cardinality(UpTo(c)) # 0 BY <2>1, <2>2, FS_EmptySet
  <2> QED BY <1>1, <1>3, <2>2, <2>3
<1>5. ASSUME NEW c \in Live, NEW d \in Live, slotOf[c] < slotOf[d] PROVE NumberOf(c) < NumberOf(d)
  <2>1. UpTo(c) \in SUBSET UpTo(d)
    <3> SUFFICES ASSUME NEW e \in UpTo(c) PROVE slotOf[e] <= slotOf[d] OBVIOUS
    <3>1. slotOf[e] \in Nat /\ slotOf[c] \in Nat /\ slotOf[d] \in Nat BY <1>2
    <3> QED BY <3>1, <1>5
  <2>2. d \in UpTo(d) /\ d \notin UpTo(c)
    <3>1. slotOf[c] \in Nat /\ slotOf[d] \in Nat BY <1>2
    <3> QED BY <3>1, <1>5
  <2>3. UpTo(d) \in SUBSET Live OBVIOUS
  <2>4. IsFiniteSet(UpTo(d)) BY <1>1, <2>3, FS_Subset
  <2>5. /\ Cardinality(UpTo(c)) <= Cardinality(UpTo(d))
        /\ Cardinality(UpTo(d)) = Cardinality(UpTo(c)) => UpTo(d) = UpTo(c)
    BY <2>1, <2>4, FS_Subset
  <2>6. Cardinality(UpTo(c)) # Cardinality(UpTo(d)) BY <2>2, <2>5
  <2>7. NumberOf(c) \in Nat /\ NumberOf(d) \in Nat BY <1>1, <1>4
  <2> HIDE DEF UpTo
  <2> QED BY <1>3, <2>5, <2>6, <2>7
<1>6. ASSUME NEW c \in Live, NEW d \in Live, NumberOf(c) = NumberOf(d) PROVE c = d
  <2>1. slotOf[c] \in Nat /\ slotOf[d] \in Nat BY <1>2
  <2>2. NumberOf(c) \in Nat /\ NumberOf(d) \in Nat BY <1>1, <1>4
  <2>3. slotOf[c] = slotOf[d] BY <2>1, <2>2, <1>5, <1>6
  <2> QED BY <2>3, <1>2
<1>7. ASSUME NEW k \in 1..n PROVE \E c \in Live : NumberOf(c) = k
  <2> DEFINE number == [c \in Live |-> NumberOf(c)]
  <2>1. number \in Injection(Live, 1..n)
    <3> HIDE DEF n
    <3> QED BY <1>4, <1>6 DEF Injection, IsInjective
  <2>2. IsFiniteSet(1..n) /\ Cardinality(1..n) = n
    <3> HIDE DEF n
    <3> QED BY <1>1, FS_Interval
  <2>3. number \in Surjection(Live, 1..n)
    <3>1. Cardinality(Live) = Cardinality(1..n) BY <2>2
    <3> HIDE DEF number, n
    <3> QED BY <2>1, <2>2, <3>1, FS_Injection
  <2> QED BY <2>3 DEF Surjection
<1>8. ASSUME NEW s \in Slots, s \notin {slotOf[c] : c \in Live} PROVE Renumbered[s] = 0
  BY <1>8 DEF Renumbered
<1> QED BY <1>1, <1>4, <1>6, <1>7, <1>8

\* The slot of a number is the slot of the chunk that has it.
LEMMA NumbersHaveSlots ==
    ASSUME SlotsOK
    PROVE  /\ \A k \in 1..Cardinality(Live) : \E c \in Live : NumberOf(c) = k /\ SlotOfNumber(k) = slotOf[c]
           /\ \A c \in Live : SlotOfNumber(NumberOf(c)) = slotOf[c]
<1>1. ASSUME NEW c \in Live PROVE SlotOfNumber(NumberOf(c)) = slotOf[c]
  <2>1. slotOf[c] \in Slots /\ Renumbered[slotOf[c]] = NumberOf(c) BY DEF SlotsOK, NumberOf
  <2>2. SlotOfNumber(NumberOf(c)) \in Slots /\ Renumbered[SlotOfNumber(NumberOf(c))] = NumberOf(c)
    BY <2>1 DEF SlotOfNumber
  <2>3. NumberOf(c) \in 1..Cardinality(Live) BY LiveSlotsAreNumbered
  <2>4. NumberOf(c) # 0 BY <2>3, LiveSlotsAreNumbered
  <2>5. PICK d \in Live : SlotOfNumber(NumberOf(c)) = slotOf[d]
    BY <2>2, <2>4, LiveSlotsAreNumbered
  <2>6. NumberOf(d) = NumberOf(c) BY <2>2, <2>5 DEF NumberOf
  <2> QED BY <2>5, <2>6, LiveSlotsAreNumbered
<1> QED BY <1>1, LiveSlotsAreNumbered

\* An image has what is settled.
LEMMA ImageIsSettled == MemoryOK => ImageOK(Image) /\ FoundIn(Image) = SettledEntries
<1> SUFFICES ASSUME MemoryOK PROVE ImageOK(Image) /\ FoundIn(Image) = SettledEntries OBVIOUS
<1> DEFINE n == Cardinality(Live)
<1> PICK image : image = Image OBVIOUS
<1> PICK found : found = image.postings OBVIOUS
<1>1. /\ image.ids = [k \in 1..n |-> ids[SlotOfNumber(k)]]
      /\ found = [t \in Tokens |-> [k \in Numbers(DOMAIN csr[t]) |-> csr[t][SlotOfNumber(k)]]]
  BY DEF Image
<1>2. SlotsOK /\ PostingsOK(csr, Slots) BY DEF MemoryOK
<1>3. /\ n \in Nat
      /\ \A c \in Live : NumberOf(c) \in 1..n /\ SlotOfNumber(NumberOf(c)) = slotOf[c]
      /\ \A k \in 1..n : \E c \in Live : NumberOf(c) = k /\ SlotOfNumber(k) = slotOf[c]
      /\ \A c, d \in Live : NumberOf(c) = NumberOf(d) => c = d
  BY <1>2, LiveSlotsAreNumbered, NumbersHaveSlots
<1>4. \A c \in Live : c \in Ids /\ slotOf[c] \in Slots \ dels /\ ids[slotOf[c]] = c
  BY <1>2 DEF SlotsOK
<1> HIDE DEF n
<1>5. \A k \in 1..n : \E c \in Live : NumberOf(c) = k /\ image.ids[k] = c
  BY <1>1, <1>3, <1>4
<1>6. image.ids \in Seq(Ids) /\ DOMAIN image.ids = 1..n
  <2>1. \A k \in 1..n : ids[SlotOfNumber(k)] \in Ids BY <1>3, <1>4
  <2>2. image.ids \in [1..n -> Ids] BY <1>1, <2>1
  <2> QED BY <2>2, <1>3
<1>7. Distinct(image.ids) BY <1>5, <1>6 DEF Distinct
<1>8. ASSUME NEW t \in Tokens, NEW c \in Live
      PROVE  NumberOf(c) \in DOMAIN found[t] <=> slotOf[c] \in DOMAIN csr[t]
  <2>1. DOMAIN found[t] = Numbers(DOMAIN csr[t]) BY <1>1
  <2>2. ASSUME slotOf[c] \in DOMAIN csr[t] PROVE NumberOf(c) \in Numbers(DOMAIN csr[t])
    BY <2>2, <1>3, <1>4 DEF Numbers, NumberOf
  <2>3. ASSUME NumberOf(c) \in Numbers(DOMAIN csr[t]) PROVE slotOf[c] \in DOMAIN csr[t]
    <3>1. PICK s \in DOMAIN csr[t] \cap Slots : Renumbered[s] = NumberOf(c) BY <2>3 DEF Numbers
    <3>2. Renumbered[s] # 0 BY <3>1, <1>3
    <3>3. PICK d \in Live : s = slotOf[d] BY <3>2, <1>2, LiveSlotsAreNumbered
    <3>4. d = c BY <3>1, <3>3, <1>3 DEF NumberOf
    <3> QED BY <3>1, <3>3, <3>4
  <2> QED BY <2>1, <2>2, <2>3
<1>9. PostingsOK(found, 1..n)
  <2> SUFFICES ASSUME NEW t \in Tokens, NEW k \in DOMAIN found[t]
               PROVE  k \in 1..n /\ found[t][k] \in Nat \ {0}
    BY DEF PostingsOK
  <2>1. k \in Numbers(DOMAIN csr[t]) /\ found[t][k] = csr[t][SlotOfNumber(k)] BY <1>1
  <2>2. PICK s \in DOMAIN csr[t] \cap Slots : k = Renumbered[s] /\ k # 0 BY <2>1 DEF Numbers
  <2>3. PICK c \in Live : s = slotOf[c] BY <2>2, <1>2, LiveSlotsAreNumbered
  <2>4. k = NumberOf(c) BY <2>2, <2>3 DEF NumberOf
  <2>5. SlotOfNumber(k) = s /\ k \in 1..n BY <2>3, <2>4, <1>3
  <2> QED BY <2>1, <2>2, <2>5, <1>2 DEF PostingsOK
<1>10. ImageOK(image) BY <1>6, <1>7, <1>9 DEF ImageOK
<1>11. ToSet(image.ids) = Live
  <2>1. \A c \in Live : image.ids[NumberOf(c)] = c BY <1>3, <1>5
  <2> QED BY <2>1, <1>3, <1>5, <1>6 DEF ToSet
<1>12. ASSUME NEW c \in Live PROVE SlotIn(image, c) = NumberOf(c)
  <2>1. NumberOf(c) \in DOMAIN image.ids /\ image.ids[NumberOf(c)] = c BY <1>3, <1>5, <1>6
  <2> QED BY <2>1, <1>7 DEF Distinct, SlotIn
<1>13. ASSUME NEW c \in Live
       PROVE  {t \in Tokens : SlotIn(image, c) \in DOMAIN found[t]} = {t \in Tokens : slotOf[c] \in DOMAIN csr[t]}
  BY <1>8, <1>12
<1>14. FoundIn(image) = [c \in Live |-> {t \in Tokens : SlotIn(image, c) \in DOMAIN found[t]}]
  BY <1>11 DEF FoundIn
<1>15. FoundIn(image) = SettledEntries BY <1>13, <1>14 DEF SettledEntries
<1> QED BY <1>10, <1>15

LEMMA ImageKeepsPromise ==
    ASSUME KeywordInv, NEW w \in Savers, TakeImage(w)
    PROVE  KeywordInv' /\ Promise!TakeImage(w)
<1> PICK image : image = Image OBVIOUS
<1>1. /\ writing' = [v \in DOMAIN writing \cup {w} |-> IF v = w THEN image ELSE writing[v]]
      /\ ids' = ids /\ slotOf' = slotOf /\ csr' = csr /\ added' = added /\ dels' = dels /\ disk' = disk
  BY DEF TakeImage
<1>2. MemoryOK /\ ImageOK(image) /\ FoundIn(image) = SettledEntries
  BY ImageIsSettled DEF KeywordInv
<1>3. MemoryOK' BY <1>1, <1>2 DEF MemoryOK, SlotsOK, PostingsOK, Slots, Live
<1>4. FilesOK'
  <2>1. ImageOK(disk)' BY <1>1 DEF KeywordInv, FilesOK, ImageOK
  <2>2. \A v \in DOMAIN writing' : ImageOK(writing'[v]) BY <1>1, <1>2 DEF KeywordInv, FilesOK
  <2> QED BY <2>1, <2>2 DEF FilesOK, ImageOK
<1>5. Entries' = Entries /\ SettledEntries' = SettledEntries /\ FoundIn(disk)' = FoundIn(disk)
  BY <1>1 DEF Entries, SettledEntries, Matched, Live, FoundIn
<1>6. Images' = [v \in DOMAIN Images \cup {w} |-> IF v = w THEN SettledEntries ELSE Images[v]]
  <2>1. DOMAIN Images = DOMAIN writing /\ \A v \in DOMAIN writing : Images[v] = FoundIn(writing[v])
    BY DEF Images
  <2>2. Images' = [v \in DOMAIN writing \cup {w} |-> FoundIn(writing'[v])] BY <1>1 DEF Images, FoundIn
  <2>3. \A v \in DOMAIN writing \cup {w} : writing'[v] = IF v = w THEN image ELSE writing[v] BY <1>1
  <2> QED BY <2>1, <2>2, <2>3, <1>2
<1> QED BY <1>3, <1>4, <1>5, <1>6 DEF KeywordInv, Promise!TakeImage

LEMMA WriteKeepsPromise ==
    ASSUME KeywordInv, NEW w \in Savers, EndSave(w)
    PROVE  KeywordInv' /\ Promise!EndSave(w)
<1>1. /\ w \in DOMAIN writing /\ disk' \in {writing[w], Empty}
      /\ writing' = [v \in DOMAIN writing \ {w} |-> writing[v]]
      /\ ids' = ids /\ slotOf' = slotOf /\ csr' = csr /\ added' = added /\ dels' = dels
  BY DEF EndSave, Writing
<1>2. MemoryOK /\ FilesOK BY DEF KeywordInv
<1>3. MemoryOK' BY <1>1, <1>2 DEF MemoryOK, SlotsOK, PostingsOK, Slots, Live
<1>4. FilesOK'
  <2>1. ImageOK(disk') BY <1>1, <1>2, EmptyIsNothing DEF FilesOK
  <2>2. \A v \in DOMAIN writing' : ImageOK(writing'[v]) BY <1>1, <1>2 DEF FilesOK
  <2> QED BY <2>1, <2>2 DEF FilesOK, ImageOK
<1>5. Entries' = Entries /\ SettledEntries' = SettledEntries
  BY <1>1 DEF Entries, SettledEntries, Matched, Live
<1>6. DOMAIN Images = DOMAIN writing /\ \A v \in DOMAIN writing : Images[v] = FoundIn(writing[v])
  BY DEF Images
<1>7. FoundIn(disk)' \in {Images[w], Promise!Nothing}
  <2>1. FoundIn(disk)' = FoundIn(disk') BY DEF FoundIn, SlotIn
  <2> QED BY <2>1, <1>1, <1>6, EmptyIsNothing
<1>8. Images' = Promise!OnlyImages(DOMAIN Images \ {w})
  <2>1. Images' = [v \in DOMAIN writing \ {w} |-> FoundIn(writing'[v])] BY <1>1 DEF Images, FoundIn
  <2> QED BY <2>1, <1>1, <1>6 DEF Promise!OnlyImages
<1> QED BY <1>1, <1>3, <1>4, <1>5, <1>6, <1>7, <1>8 DEF KeywordInv, Promise!EndSave

-----------------------------------------------------------------------------
LEMMA KeywordStep ==
    ASSUME KeywordInv, [KeywordNext]_keyword
    PROVE  KeywordInv' /\ [Promise!Next]_(Promise!vars)
<1>a. ASSUME disk' = disk, writing' = writing PROVE FilesOK' BY <1>a DEF FilesOK, ImageOK, KeywordInv
<1>1. ASSUME NEW c \in Ids, NEW content \in ChunkTexts, AddChunk(c, content) PROVE KeywordInv' /\ Promise!Next
  <2>1. disk' = disk /\ writing' = writing BY <1>1 DEF AddChunk
  <2>2. MemoryOK' /\ Promise!Put(c, content) BY <1>1, AddKeepsPromise
  <2> QED BY <1>a, <2>1, <2>2 DEF KeywordInv, Promise!Next
<1>2. ASSUME NEW f \in Files, RemoveByFilePath(f) PROVE KeywordInv' /\ Promise!Next
  <2>1. disk' = disk /\ writing' = writing BY <1>2 DEF RemoveByFilePath
  <2> QED BY <1>2, <1>a, <2>1, RemoveKeepsPromise DEF KeywordInv, Promise!Next
<1>3. ASSUME ClearIndex PROVE KeywordInv' /\ Promise!Next
  <2>1. disk' = disk /\ writing' = writing BY <1>3 DEF ClearIndex
  <2> QED BY <1>3, <1>a, <2>1, ClearKeepsPromise DEF KeywordInv, Promise!Next
<1>4. ASSUME NEW w \in Savers, BeginSave(w) PROVE KeywordInv' /\ Promise!Next
  <2>1. disk' = disk /\ writing' = writing BY <1>4 DEF BeginSave
  <2>2. MemoryOK' /\ Promise!BeginSave BY <1>4, FoldKeepsPromise
  <2> QED BY <1>a, <2>1, <2>2 DEF KeywordInv, Promise!Next
<1>5. ASSUME NEW w \in Savers, TakeImage(w) PROVE KeywordInv' /\ Promise!Next
  BY <1>5, ImageKeepsPromise DEF Promise!Next
<1>6. ASSUME NEW w \in Savers, EndSave(w) PROVE KeywordInv' /\ Promise!Next
  BY <1>6, WriteKeepsPromise DEF Promise!Next
<1>7. ASSUME Load PROVE KeywordInv' /\ Promise!Next
  BY <1>7, LoadKeepsPromise DEF Promise!Next
<1>8. ASSUME UNCHANGED keyword
      PROVE  KeywordInv' /\ UNCHANGED Promise!vars
  <2>1. /\ disk' = disk /\ writing' = writing /\ ids' = ids /\ slotOf' = slotOf
        /\ csr' = csr /\ added' = added /\ dels' = dels
    BY <1>8 DEF keyword
  <2>2. MemoryOK' BY <2>1 DEF KeywordInv, MemoryOK, SlotsOK, PostingsOK, Slots, Live
  <2>3. FilesOK' BY <1>a, <2>1
  <2>4. Entries' = Entries /\ SettledEntries' = SettledEntries /\ Images' = Images /\ FoundIn(disk)' = FoundIn(disk)
    BY <2>1 DEF Entries, SettledEntries, Matched, Live, Images, FoundIn
  <2> QED BY <2>2, <2>3, <2>4 DEF KeywordInv, Promise!vars
<1> QED BY <1>1, <1>2, <1>3, <1>4, <1>5, <1>6, <1>7, <1>8 DEF KeywordNext

\* The keyword index implements the abstract one, for every set of chunks and
\* their tokens.
THEOREM KeywordIndexKeepsPromise == KeywordSpec => IndexKeepsPromise
<1>1. KeywordInit => KeywordInv /\ Promise!Init BY KeywordInitInv
<1>2. KeywordInv /\ [KeywordNext]_keyword
        => KeywordInv' /\ [Promise!Next]_(Promise!vars)
  BY KeywordStep
<1> QED BY <1>1, <1>2, PTL DEF KeywordSpec, IndexKeepsPromise, Promise!Spec
=============================================================================
