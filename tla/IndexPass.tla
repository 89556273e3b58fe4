------------------------------ MODULE IndexPass ------------------------------
(***************************************************************************)
(* One workspace, its vector store, its manifest, and the index pass that  *)
(* keeps the last two in step with the first: runIndexPassInner of         *)
(* src/src/indexer/pipeline.ts with the scan of src/src/content/reader.ts, *)
(* the per-file preparation of src/src/indexer/worker.ts and the bulk      *)
(* writes of the two persistent stores.                                    *)
(*                                                                         *)
(* Abstractions.  A file's content is the mtime at which that content was  *)
(* first written, so a hash is the content itself; the size half of the    *)
(* (mtime, size) fingerprint adds nothing to a clock that never repeats.   *)
(* Every indexable content has the chunks Parts; the rows of a file are a  *)
(* set of <<content, part>>.  The description configuration is fixed.  The *)
(* git-incremental filter is not modelled: loadManifest never returns a    *)
(* lastGitCommit, so its guard is never true.  One process runs passes at  *)
(* a time (IndexLock is about that).                                       *)
(***************************************************************************)
EXTENDS Integers, FiniteSets

CONSTANTS
    Files,          \* workspace paths
    Parts,          \* chunks of an indexable content
    NoFile,         \* the path does not exist
    Blank,          \* empty or below indexing.minFileSizeBytes
    Chunkless,      \* non-empty, but the chunker yields no chunk
    NoEntry,        \* no manifest entry, or nothing scanned
    NoManifest,     \* manifest.json missing or corrupt
    Backend,        \* "lance" (temp store + swap) or "clickhouse" (epochs)
    WindowSize,     \* files per window of the pipeline
    Edits,          \* kinds of edits users make
    Faults,         \* kinds of faults the environment injects
    MaxMtime,       \* bound on the writes to one file
    MaxFaults       \* bound on injected faults

EditKinds  == {"write", "touch", "revert", "blank", "chunkless", "delete"}
StartKinds == {"force", "corrupt", "countTimeout", "mismatch", "noDimension"}
FaultKinds == {"crash", "abort", "embed", "chunk", "extract", "describe",
               "provider", "race", "loseManifest", "loseRows", "promote"}
              \cup StartKinds

ASSUME FilesAssumption   == IsFiniteSet(Files) /\ Files # {}
ASSUME PartsAssumption   == IsFiniteSet(Parts) /\ Parts # {}
ASSUME BoundsAssumption  == /\ WindowSize \in Nat \ {0}
                            /\ MaxMtime \in Nat \ {0}
                            /\ MaxFaults \in Nat
ASSUME OptionsAssumption == /\ Backend \in {"lance", "clickhouse"}
                            /\ Edits \subseteq EditKinds
                            /\ Faults \subseteq FaultKinds
VARIABLES
    \* the world
    disk,       \* content of each path
    mtime,      \* modification time of each path
    faults,     \* injected faults so far
    \* durable state
    rows,       \* what searches see: the real table, or the active epoch
    saved,      \* manifest.json in the store directory
    \* the running pass
    pc,         \* where runIndexPassInner stands
    mode,       \* where the pass writes: the store itself, or a rebuild target
    dedup,      \* ~skipDedup: old revisions are deleted after an insert
    forced,     \* options.force
    aborted,    \* options.abortSignal fired
    manifest,   \* the in-memory manifest
    fresh,      \* rows of the rebuild target
    freshSaved, \* manifest.json in the temporary directory
    unread,     \* listed by the walk, not yet read
    unstatted,  \* read, not yet statted
    scanned,    \* WorkspaceFile of each path: hash and fingerprint
    todo,       \* scanned files no window has taken
    front,      \* the front window: "take", "prepared", "embedded"
    prep,       \* outcome of prepareFile for the front window
    emb,        \* parts that got a vector
    descFailed, \* files of the pass whose description failed
    store,      \* the overlapped store phase
    storing,    \* files of the window in the store phase
    queue,      \* store phase: files still to insert or deduplicate
    purge,      \* staleUncommittedPaths
    written,    \* writtenThisPass
    touched,    \* passTouchedIndex
    pending     \* a manifest checkpoint is queued

world    == <<disk, mtime, faults>>
durable  == <<rows, saved>>
setup    == <<mode, dedup, forced>>
scanVars == <<unread, unstatted, scanned>>
winVars  == <<todo, front, prep, emb, descFailed>>
backVars == <<store, storing, queue, purge, written>>
passVars == <<pc, setup, aborted, manifest, fresh, freshSaved, scanVars,
              winVars, backVars, touched, pending>>
vars     == <<world, durable, passVars>>

Versions == 1 .. MaxMtime
Entry    == [hash : Versions, mtime : 0 .. MaxMtime, descFailed : BOOLEAN]
Scan     == [hash : Versions \cup {Blank, Chunkless}, mtime : 0 .. MaxMtime]
Manifest == [Files -> Entry \cup {NoEntry}]
Table    == [Files -> SUBSET (Versions \X Parts)]

ASSUME MarkersAssumption ==
    /\ {NoFile, Blank, Chunkless} \cap Versions = {}
    /\ NoFile # Blank /\ NoFile # Chunkless /\ Blank # Chunkless
    /\ NoEntry \notin Entry \cup Scan
    /\ NoManifest \notin Manifest

NoEntries == [f \in Files |-> NoEntry]
NoRows    == [f \in Files |-> {}]

\* The rows of a completely indexed content.
Full(c) == {c} \X Parts

TypeOK ==
    /\ disk \in [Files -> Versions \cup {NoFile, Blank, Chunkless}]
    /\ mtime \in [Files -> 0 .. MaxMtime]
    /\ faults \in 0 .. MaxFaults
    /\ rows \in Table
    /\ saved \in Manifest \cup {NoManifest}
    /\ pc \in {"idle", "scan", "stale", "windows", "sweep",
               "promote", "save"}
    /\ mode \in {"inplace", "temp", "epoch"}
    /\ dedup \in BOOLEAN
    /\ forced \in BOOLEAN
    /\ aborted \in BOOLEAN
    /\ manifest \in Manifest
    /\ fresh \in Table
    /\ freshSaved \in Manifest \cup {NoManifest}
    /\ unread \subseteq Files
    /\ unstatted \subseteq Files
    /\ scanned \in [Files -> Scan \cup {NoEntry}]
    /\ todo \subseteq Files
    /\ front \in {"take", "prepared", "embedded"}
    /\ prep \in [Files -> {"none", "skip", "remove", "embed"}]
    /\ emb \in [Files -> SUBSET Parts]
    /\ descFailed \subseteq Files
    /\ store \in {"free", "insert", "dedup", "purge", "commit"}
    /\ storing \subseteq Files
    /\ queue \subseteq Files
    /\ purge \subseteq Files
    /\ written \subseteq Files
    /\ touched \in BOOLEAN
    /\ pending \in BOOLEAN

-----------------------------------------------------------------------------
(* Helpers *)

Injectable(kind) == kind \in Faults /\ faults < MaxFaults
Inject(kind)     == Injectable(kind) /\ faults' = faults + 1

\* The store the pass writes through: effectiveStore.
Target == IF mode = "inplace" THEN rows ELSE fresh

SetTarget(t) ==
    IF mode = "inplace" THEN rows' = t /\ fresh' = fresh
                        ELSE fresh' = t /\ rows' = rows

RowsOf(table) == {r \in Files \X (Versions \X Parts) : r[2] \in table[r[1]]}

\* Manifest entries of files whose description failed are dropped, so that
\* the whole file is indexed again.
DropFailedDescriptions(m) ==
    [f \in Files |-> IF m[f] # NoEntry /\ m[f].descFailed THEN NoEntry ELSE m[f]]

\* (mutant) the resume check is skipped
ResumeCheckOff(m) == m

\* Resume after an interruption: drop entries whose path has no stored row.
ResumeCheck(m) ==
    [f \in Files |-> IF rows[f] = {} THEN NoEntry ELSE m[f]]

\* Fewer than half of the rows the manifest expects are in the store.
DataLost(m, count) ==
    LET expected == Cardinality({f \in Files : m[f] # NoEntry}) * Cardinality(Parts)
    IN  count > 0 /\ count * 2 < expected

\* The state between two passes.
Rest ==
    /\ pc' = "idle" /\ mode' = "inplace" /\ dedup' = TRUE /\ forced' = FALSE /\ aborted' = FALSE
    /\ manifest' = NoEntries /\ fresh' = NoRows /\ freshSaved' = NoManifest
    /\ unread' = {} /\ unstatted' = {} /\ scanned' = NoEntries
    /\ todo' = {} /\ front' = "take" /\ prep' = [f \in Files |-> "none"]
    /\ emb' = [f \in Files |-> {}] /\ descFailed' = {}
    /\ store' = "free" /\ storing' = {} /\ queue' = {} /\ purge' = {}
    /\ written' = {} /\ touched' = FALSE /\ pending' = FALSE

Init ==
    /\ disk \in [Files -> {1, NoFile}]
    /\ mtime = [f \in Files |-> IF disk[f] = NoFile THEN 0 ELSE 1]
    /\ faults = 0
    /\ rows = NoRows
    /\ saved = NoManifest
    /\ pc = "idle" /\ mode = "inplace" /\ dedup = TRUE /\ forced = FALSE /\ aborted = FALSE
    /\ manifest = NoEntries /\ fresh = NoRows /\ freshSaved = NoManifest
    /\ unread = {} /\ unstatted = {} /\ scanned = NoEntries
    /\ todo = {} /\ front = "take" /\ prep = [f \in Files |-> "none"]
    /\ emb = [f \in Files |-> {}] /\ descFailed = {}
    /\ store = "free" /\ storing = {} /\ queue = {} /\ purge = {}
    /\ written = {} /\ touched = FALSE /\ pending = FALSE

-----------------------------------------------------------------------------
(* The world: users edit files at any time, also while a pass runs. *)

\* Content a user can put into f with its next write.
Writable(f) ==
    LET now == mtime[f] + 1 IN
    (IF "write" \in Edits THEN {now} ELSE {})
    \cup (IF "touch" \in Edits THEN {disk[f]} \ {NoFile} ELSE {})
    \cup (IF "revert" \in Edits THEN 1 .. mtime[f] ELSE {})
    \cup (IF "blank" \in Edits THEN {Blank} ELSE {})
    \cup (IF "chunkless" \in Edits THEN {Chunkless} ELSE {})

\* An edit between the read and the stat of a scan is the fault "race".
Editable(f) == "race" \in Faults \/ f \notin unstatted

Write(f) ==
    /\ Editable(f) /\ mtime[f] < MaxMtime
    /\ \E c \in Writable(f) : disk' = [disk EXCEPT ![f] = c]
    /\ mtime' = [mtime EXCEPT ![f] = @ + 1]
    /\ UNCHANGED <<faults, durable, passVars>>

Delete(f) ==
    /\ "delete" \in Edits /\ Editable(f) /\ disk[f] # NoFile
    /\ disk' = [disk EXCEPT ![f] = NoFile]
    /\ UNCHANGED <<mtime, faults, durable, passVars>>

\* manifest.json is lost or torn between two passes.
LoseManifest ==
    /\ pc = "idle" /\ Inject("loseManifest")
    /\ saved' = NoManifest
    /\ UNCHANGED <<disk, mtime, rows, passVars>>

\* The table is dropped and recreated by corruption recovery.
LoseRows ==
    /\ pc = "idle" /\ Inject("loseRows")
    /\ rows' = NoRows
    /\ UNCHANGED <<disk, mtime, saved, passVars>>

\* The process dies, or a store call throws out of the pass: everything in
\* memory is gone, and so is the rebuild target, which no later pass reuses.
Crash ==
    /\ pc # "idle" /\ Inject("crash")
    /\ Rest
    /\ UNCHANGED <<disk, mtime, durable>>

\* options.abortSignal fires: Ctrl+C, plugin shutdown, watcher stop.
Abort ==
    /\ pc # "idle" /\ ~aborted /\ Inject("abort")
    /\ aborted' = TRUE
    /\ UNCHANGED <<disk, mtime, durable, pc, setup, manifest, fresh, freshSaved,
                   scanVars, winVars, backVars, touched, pending>>

-----------------------------------------------------------------------------
(* Opening a pass: load the manifest, check it against the store, decide
   where to write.  K holds what is unusual about this start: --force, a
   failed integrity probe, a count() that timed out and returned 0, a store of
   another vector dimension, or an unknown dimension.                        *)

Begin(where, m, count, force) ==
    /\ pc' = "scan"
    /\ mode' = where
    /\ manifest' = m
    /\ dedup' = (where # "temp" /\ count > 0)
    /\ forced' = force
    /\ unread' = {f \in Files : disk[f] # NoFile}
    /\ UNCHANGED <<durable, aborted, fresh, freshSaved, unstatted, scanned,
                   winVars, backVars, touched, pending>>

StartPass(K) ==
    LET loaded   == saved # NoManifest /\ "force" \notin K
        m0       == DropFailedDescriptions(IF saved = NoManifest THEN NoEntries
                                                                 ELSE saved)
        m1       == IF loaded THEN ResumeCheck(m0) ELSE m0
        count    == IF "countTimeout" \in K THEN 0 ELSE Cardinality(RowsOf(rows))
        lost     == \/ "corrupt" \in K /\ m1 # NoEntries
                    \/ DataLost(m1, count)
        mismatch == "mismatch" \in K /\ K \cap {"force", "noDimension"} = {}
        ok       == loaded /\ ~lost /\ ~mismatch
        rebuild  == "force" \in K \/ (~ok /\ (count > 0 \/ mismatch))
    IN  /\ pc = "idle"
        /\ faults + Cardinality(K) =< MaxFaults
        /\ faults' = faults + Cardinality(K)
        /\ UNCHANGED <<disk, mtime>>
        /\ \/ /\ ~rebuild
              /\ Begin("inplace", IF ok THEN m1 ELSE NoEntries, count, FALSE)
           \/ /\ rebuild /\ Backend = "clickhouse"
              /\ Begin("epoch", NoEntries, count, "force" \in K)
           \/ /\ rebuild /\ Backend = "lance" /\ "noDimension" \notin K
              /\ Begin("temp", NoEntries, count, "force" \in K)
           \/ \* no dimension to build a temporary store with, nothing to lose
              /\ rebuild /\ Backend = "lance" /\ "noDimension" \in K
              /\ count = 0
              /\ Begin("inplace", NoEntries, count, "force" \in K)
           \/ \* no dimension and rows to protect: the pass returns
              /\ rebuild /\ Backend = "lance" /\ "noDimension" \in K
              /\ count > 0
              /\ UNCHANGED <<durable, passVars>>

-----------------------------------------------------------------------------
(* Scanning.  Each listed file is handled on its own: the fast path compares
   one stat with the manifest; the slow path reads, then stats.            *)

\* (mutant) the fast path forgets to compare the mtime
FastPathByEntry(f) == manifest[f] # NoEntry

FastPath(f) ==
    /\ manifest[f] # NoEntry
    /\ manifest[f].mtime = mtime[f]

\* Unchanged by its fingerprint: the content is not read.
SkipRead(f) ==
    /\ pc = "scan" /\ f \in unread /\ disk[f] # NoFile /\ FastPath(f)
    /\ scanned' = [scanned EXCEPT ![f] = [hash  |-> manifest[f].hash,
                                          mtime |-> mtime[f]]]
    /\ unread' = unread \ {f}
    /\ UNCHANGED <<world, durable, pc, setup, aborted, manifest, fresh,
                   freshSaved, unstatted, winVars, backVars, touched, pending>>

ReadFile(f) ==
    /\ pc = "scan" /\ f \in unread /\ disk[f] # NoFile /\ ~FastPath(f)
    /\ scanned' = [scanned EXCEPT ![f] = [hash |-> disk[f], mtime |-> 0]]
    /\ unread' = unread \ {f}
    /\ unstatted' = unstatted \cup {f}
    /\ UNCHANGED <<world, durable, pc, setup, aborted, manifest, fresh,
                   freshSaved, winVars, backVars, touched, pending>>

\* The stat that follows the read; it fails if the file is gone by now, and
\* the fingerprint stays undefined (0, which no file ever has).
StatFile(f) ==
    /\ f \in unstatted
    /\ scanned' = [scanned EXCEPT ![f].mtime =
                      IF disk[f] = NoFile THEN 0 ELSE mtime[f]]
    /\ unstatted' = unstatted \ {f}
    /\ UNCHANGED <<world, durable, pc, setup, aborted, manifest, fresh,
                   freshSaved, unread, winVars, backVars, touched, pending>>

\* (mutant) a failed extraction is reported as an empty file
ExtractionFailsBlank(f) ==
    /\ pc = "scan" /\ f \in unread
    /\ \/ disk[f] = NoFile /\ faults' = faults
       \/ disk[f] # NoFile /\ ~FastPath(f) /\ Inject("extract")
    /\ scanned' = [scanned EXCEPT ![f] = [hash |-> Blank, mtime |-> 0]]
    /\ unread' = unread \ {f}
    /\ UNCHANGED <<disk, mtime, durable, pc, setup, aborted, manifest, fresh,
                   freshSaved, unstatted, winVars, backVars, touched, pending>>

\* Reading or extracting fails, because of a lock or because the file is gone.
\* An indexed file is reported with its old hash and fingerprint, any other
\* one as empty.
ExtractionFails(f) ==
    /\ pc = "scan" /\ f \in unread
    /\ \/ disk[f] = NoFile /\ faults' = faults
       \/ disk[f] # NoFile /\ ~FastPath(f) /\ Inject("extract")
    /\ scanned' = [scanned EXCEPT ![f] =
           IF manifest[f] # NoEntry
           THEN [hash |-> manifest[f].hash, mtime |-> manifest[f].mtime]
           ELSE [hash |-> Blank, mtime |-> 0]]
    /\ unread' = unread \ {f}
    /\ UNCHANGED <<disk, mtime, durable, pc, setup, aborted, manifest, fresh,
                   freshSaved, unstatted, winVars, backVars, touched, pending>>

Scanned == {f \in Files : scanned[f] # NoEntry}

\* The scan found the content the manifest records.
Unchanged(f) == manifest[f] # NoEntry /\ manifest[f].hash = scanned[f].hash

PendingEmbeddingWork ==
    forced \/ \E f \in Scanned : scanned[f].hash # Blank /\ ~Unchanged(f)

\* The preflight probe: with the provider down the pass ends before it has
\* written anything.
ScanDone == pc = "scan" /\ unread = {} /\ unstatted = {}

PreflightFails ==
    /\ ScanDone /\ PendingEmbeddingWork /\ ~aborted
    /\ Inject("provider")
    /\ Rest
    /\ UNCHANGED <<disk, mtime, durable>>

PreflightPasses ==
    /\ ScanDone
    /\ pc' = "stale"
    /\ UNCHANGED <<world, durable, setup, aborted, manifest, fresh, freshSaved,
                   scanVars, winVars, backVars, touched, pending>>

\* Manifest entries whose path the walk did not list lose their rows at once.
StalePaths == {f \in Files : manifest[f] # NoEntry /\ f \notin Scanned}

RemoveStale(f) ==
    /\ pc = "stale" /\ f \in StalePaths
    /\ SetTarget([Target EXCEPT ![f] = {}])
    /\ manifest' = [manifest EXCEPT ![f] = NoEntry]
    /\ touched' = TRUE
    /\ UNCHANGED <<world, saved, pc, setup, aborted, freshSaved, scanVars,
                   winVars, backVars, pending>>

StaleRemoved ==
    /\ pc = "stale" /\ StalePaths = {}
    /\ pc' = "windows"
    /\ todo' = Scanned
    /\ UNCHANGED <<world, durable, setup, aborted, manifest, fresh, freshSaved,
                   scanVars, front, prep, emb, descFailed, backVars, touched,
                   pending>>

-----------------------------------------------------------------------------
(* The windowed pipeline.  The front prepares and embeds one window while the
   store phase of the window before it is still writing.                    *)

Window == {f \in Files : prep[f] # "none"}

\* prepareFile: what becomes of a scanned file.  "embed" files carry chunks.
Outcome(f, chunkerFails) ==
    LET indexed == manifest[f] # NoEntry
        content == scanned[f].hash
    IN  IF content = Blank
        THEN IF indexed THEN "remove" ELSE "skip"
        ELSE IF Unchanged(f) THEN "skip"
        ELSE IF f \in chunkerFails THEN IF indexed THEN "skip" ELSE "remove"
        ELSE IF content = Chunkless THEN "remove"
        ELSE "embed"

\* Take the next window and prepare (chunk, describe) its files.
PrepareWindow(W, chunkerFails, describerFails) ==
    /\ pc = "windows" /\ front = "take" /\ ~aborted
    /\ W \subseteq todo /\ W # {}
    /\ Cardinality(W) = WindowSize \/ (W = todo /\ Cardinality(W) < WindowSize)
    /\ chunkerFails \subseteq W /\ describerFails \subseteq W
    /\ \/ chunkerFails = {} /\ describerFails = {} /\ faults' = faults
       \/ chunkerFails # {} /\ describerFails = {} /\ Inject("chunk")
       \/ chunkerFails = {} /\ describerFails # {} /\ Inject("describe")
    /\ front' = "prepared"
    /\ todo' = todo \ W
    /\ prep' = [f \in Files |-> IF f \in W THEN Outcome(f, chunkerFails) ELSE "none"]
    /\ descFailed' = descFailed \cup describerFails
    /\ UNCHANGED <<disk, mtime, durable, pc, setup, aborted, manifest, fresh,
                   freshSaved, scanVars, emb, backVars, touched, pending>>

\* A file that became empty, too small or chunkless leaves the index before
\* the window is embedded.
RemoveEarly(f) ==
    /\ front = "prepared" /\ prep[f] = "remove"
    /\ SetTarget([Target EXCEPT ![f] = {}])
    /\ manifest' = [manifest EXCEPT ![f] = NoEntry]
    /\ prep' = [prep EXCEPT ![f] = "skip"]
    /\ touched' = TRUE
    /\ pending' = TRUE
    /\ UNCHANGED <<world, saved, pc, setup, aborted, freshSaved, scanVars, todo,
                   front, emb, descFailed, backVars>>

\* embedBatch: a vector for every text, or none for the texts of batches
\* whose retries are exhausted.
EmbedWindow(missing) ==
    /\ front = "prepared"
    /\ \A f \in Window : prep[f] # "remove"
    /\ LET active == {f \in Window : prep[f] = "embed"} IN
       /\ missing \subseteq active \X Parts
       /\ IF missing = {} THEN faults' = faults ELSE Inject("embed")
       /\ emb' = [f \in Files |-> IF f \in active
                                  THEN {p \in Parts : <<f, p>> \notin missing}
                                  ELSE emb[f]]
    /\ front' = "embedded"
    /\ touched' = (touched \/ missing # {})
    /\ UNCHANGED <<disk, mtime, durable, pc, setup, aborted, manifest, fresh,
                   freshSaved, scanVars, todo, prep, descFailed, backVars,
                   pending>>

\* The previous window's store phase is over: start this window's.  The
\* payloads are computed at once; an aborted pass stores nothing more.
LaunchStore ==
    /\ front = "embedded" /\ store = "free"
    /\ LET payload == IF aborted THEN {} ELSE {f \in Window : prep[f] = "embed"}
           valid   == {f \in payload : emb[f] # {}}
       IN  /\ store' = IF payload = {} THEN "free" ELSE "insert"
           /\ storing' = payload
           /\ queue' = IF Backend = "clickhouse" THEN valid ELSE {}
           /\ written' = written \cup valid
           /\ purge' = {f \in payload : f \notin valid /\ manifest[f] = NoEntry}
    /\ front' = "take"
    /\ prep' = [f \in Files |-> "none"]
    /\ UNCHANGED <<world, durable, pc, setup, aborted, manifest, fresh,
                   freshSaved, scanVars, todo, emb, descFailed, touched, pending>>

\* The rows this pass writes for f.
NewRows(f) == {scanned[f].hash} \X emb[f]

\* LanceDB: one add for the whole window, before any old row is deleted.
BulkAdd ==
    /\ Backend = "lance" /\ store = "insert"
    /\ SetTarget([f \in Files |-> IF f \in storing THEN Target[f] \cup NewRows(f)
                                                   ELSE Target[f]])
    /\ store' = "dedup"
    /\ queue' = IF dedup THEN {f \in storing : emb[f] # {}} ELSE {}
    /\ UNCHANGED <<world, saved, pc, setup, aborted, manifest, freshSaved,
                   scanVars, winVars, storing, purge, written, touched, pending>>

\* LanceDB: one delete per file that received rows.
DedupFile(f) ==
    /\ store = "dedup" /\ f \in queue
    /\ SetTarget([Target EXCEPT ![f] = NewRows(f)])
    /\ queue' = queue \ {f}
    /\ UNCHANGED <<world, saved, pc, setup, aborted, manifest, freshSaved,
                   scanVars, winVars, store, storing, purge, written, touched,
                   pending>>

\* ClickHouse: one insert per file carries the rows and the tombstones.
UpsertFile(f) ==
    /\ Backend = "clickhouse" /\ store = "insert" /\ f \in queue
    /\ SetTarget([Target EXCEPT ![f] = IF dedup THEN NewRows(f)
                                                ELSE @ \cup NewRows(f)])
    /\ queue' = queue \ {f}
    /\ UNCHANGED <<world, saved, pc, setup, aborted, manifest, freshSaved,
                   scanVars, winVars, store, storing, purge, written, touched,
                   pending>>

\* (mutant) the store phase does not wait for its inserts
RowsWrittenEarly ==
    /\ store = (IF Backend = "lance" THEN "dedup" ELSE "insert")
    /\ store' = IF dedup /\ purge # {} THEN "purge" ELSE "commit"
    /\ UNCHANGED <<world, durable, pc, setup, aborted, manifest, fresh,
                   freshSaved, scanVars, winVars, storing, queue, purge,
                   written, touched, pending>>

RowsWritten ==
    /\ store = (IF Backend = "lance" THEN "dedup" ELSE "insert") /\ queue = {}
    /\ store' = IF dedup /\ purge # {} THEN "purge" ELSE "commit"
    /\ UNCHANGED <<world, durable, pc, setup, aborted, manifest, fresh,
                   freshSaved, scanVars, winVars, storing, queue, purge,
                   written, touched, pending>>

\* Rows an earlier pass left for a file that has no entry and got no vector.
PurgeFile(f) ==
    /\ store = "purge" /\ f \in purge
    /\ SetTarget([Target EXCEPT ![f] = {}])
    /\ purge' = purge \ {f}
    /\ store' = IF purge = {f} THEN "commit" ELSE "purge"
    /\ UNCHANGED <<world, saved, pc, setup, aborted, manifest, freshSaved,
                   scanVars, winVars, storing, queue, written, touched, pending>>

\* (mutant) one vector is enough to record a file
CompleteOnAnyVector == {f \in storing : emb[f] # {}}

\* Files whose chunks all got a vector are recorded as complete; the others
\* keep the entry they had, or none.
Complete == {f \in storing : emb[f] = Parts}

\* (mutant) the entry takes the mtime of now instead of the scan's
NewEntryRestat(f) == [hash       |-> scanned[f].hash,
                      mtime      |-> mtime[f],
                      descFailed |-> f \in descFailed]

NewEntry(f) == [hash       |-> scanned[f].hash,
                mtime      |-> scanned[f].mtime,
                descFailed |-> f \in descFailed]

Commit ==
    /\ store = "commit"
    /\ IF aborted
       THEN UNCHANGED <<manifest, pending, touched>>
       ELSE /\ manifest' = [f \in Files |-> IF f \in Complete THEN NewEntry(f)
                                                              ELSE manifest[f]]
            /\ pending' = (pending \/ Complete # {})
            /\ touched' = TRUE
    /\ store' = "free"
    /\ emb' = [f \in Files |-> IF f \in storing THEN {} ELSE emb[f]]
    /\ descFailed' = descFailed \ storing
    /\ storing' = {} /\ purge' = {}
    /\ UNCHANGED <<world, durable, pc, setup, aborted, fresh, freshSaved,
                   scanVars, todo, front, prep, queue, written>>

\* A queued checkpoint runs.  A temporary store has its own manifest; an
\* epoch rebuild writes the real one.
CheckpointSave ==
    /\ pending
    /\ IF mode = "temp" THEN freshSaved' = manifest /\ saved' = saved
                        ELSE saved' = manifest /\ freshSaved' = freshSaved
    /\ pending' = FALSE
    /\ UNCHANGED <<world, rows, pc, setup, aborted, manifest, fresh, scanVars,
                   winVars, backVars, touched>>

-----------------------------------------------------------------------------
(* Ending a pass. *)

WindowsDone ==
    /\ pc = "windows" /\ front = "take" /\ store = "free" /\ ~pending
    /\ todo = {} \/ aborted

\* The fingerprint of every scanned file that has an entry.
Refingerprint(m) ==
    [f \in Files |-> IF f \in Scanned /\ m[f] # NoEntry /\ scanned[f].mtime # 0
                     THEN [m[f] EXCEPT !.mtime = scanned[f].mtime]
                     ELSE m[f]]

\* (mutant) the sweep also runs during a rebuild into a temporary store
SweepDueInRebuilds == ~aborted /\ touched

SweepDue == ~aborted /\ mode # "temp" /\ touched

EndWindows ==
    /\ WindowsDone
    /\ manifest' = Refingerprint(manifest)
    /\ pc' = IF SweepDue THEN "sweep" ELSE "promote"
    /\ UNCHANGED <<world, durable, setup, aborted, fresh, freshSaved, scanVars,
                   winVars, backVars, touched, pending>>

\* (mutant) the sweep does not ask the manifest
OrphansUnprotected == {f \in Files : rows[f] # {} /\ f \notin written}

\* Files with rows in the store searches use that no entry accounts for.
Orphans == {f \in Files : rows[f] # {} /\ manifest[f] = NoEntry /\ f \notin written}

SweepFile(f) ==
    /\ pc = "sweep" /\ f \in Orphans
    /\ rows' = [rows EXCEPT ![f] = {}]
    /\ UNCHANGED <<world, saved, passVars>>

SweepDone ==
    /\ pc = "sweep" /\ Orphans = {}
    /\ pc' = "promote"
    /\ UNCHANGED <<world, durable, setup, aborted, manifest, fresh, freshSaved,
                   scanVars, winVars, backVars, touched, pending>>

\* An in-place pass has nothing to promote, and saves even when aborted.
PromoteNothing ==
    /\ pc = "promote" /\ mode = "inplace"
    /\ pc' = "save"
    /\ UNCHANGED <<world, durable, setup, aborted, manifest, fresh, freshSaved,
                   scanVars, winVars, backVars, touched, pending>>

\* The rebuilt store replaces the old one: a rename that takes the temporary
\* manifest along (StoreSwap has the steps), or a flip of the active epoch.
Promote ==
    /\ pc = "promote" /\ mode # "inplace" /\ ~aborted /\ written # {}
    /\ rows' = fresh
    /\ saved' = IF mode = "temp" THEN freshSaved ELSE saved
    /\ pc' = "save"
    /\ UNCHANGED <<world, setup, aborted, manifest, fresh, freshSaved, scanVars,
                   winVars, backVars, touched, pending>>

\* Aborted, nothing written, or the promotion failed: the rebuild target is
\* discarded and neither manifest nor keyword index is saved.
DiscardRebuild ==
    /\ pc = "promote" /\ mode # "inplace"
    /\ \/ (aborted \/ written = {}) /\ faults' = faults
       \/ ~aborted /\ written # {} /\ Inject("promote")
    /\ Rest
    /\ UNCHANGED <<disk, mtime, durable>>

SaveFinal ==
    /\ pc = "save"
    /\ saved' = manifest
    /\ Rest
    /\ UNCHANGED <<world, rows>>

-----------------------------------------------------------------------------

\* The steps a pass takes by itself.
PassStep ==
    \/ \E f \in Files : \/ SkipRead(f) \/ ReadFile(f) \/ StatFile(f)
                        \/ ExtractionFails(f)
                        \/ RemoveStale(f) \/ RemoveEarly(f)
                        \/ DedupFile(f) \/ UpsertFile(f) \/ PurgeFile(f)
                        \/ SweepFile(f)
    \/ PreflightFails \/ PreflightPasses \/ StaleRemoved
    \/ \E W, C, D \in SUBSET Files : PrepareWindow(W, C, D)
    \/ \E missing \in SUBSET (Files \X Parts) : EmbedWindow(missing)
    \/ LaunchStore \/ BulkAdd \/ RowsWritten \/ Commit \/ CheckpointSave
    \/ EndWindows \/ SweepDone
    \/ PromoteNothing \/ Promote \/ DiscardRebuild \/ SaveFinal

Environment ==
    \/ \E f \in Files : Write(f) \/ Delete(f)
    \/ LoseManifest \/ LoseRows \/ Crash \/ Abort

Next == (\E K \in SUBSET (StartKinds \cap Faults) : StartPass(K))
        \/ PassStep \/ Environment

Spec == Init /\ [][Next]_vars

\* Passes recur (every session starts with one, and so does every burst of
\* file events), and a running pass is carried on by the event loop.
FairSpec == Spec /\ WF_vars(PassStep) /\ WF_vars(StartPass({}))

-----------------------------------------------------------------------------
(* Properties *)

Indexable(f) == disk[f] \in Versions

\* What the next scan would skip by its fingerprint.
Skipped(f) == /\ saved # NoManifest /\ saved[f] # NoEntry
              /\ Indexable(f) /\ saved[f].mtime = mtime[f]

\* A file the next scan skips without reading it (its manifest entry has the
\* file's mtime) and that the resume check does not send back to the queue (it
\* has rows) is indexed completely and with its current content.
SkippedFilesAreIndexed ==
    \A f \in Files : Skipped(f) /\ rows[f] # {} => rows[f] = Full(disk[f])

\* The manifest records a file this pass wrote under its new hash only when
\* every chunk of that content is in the store the manifest belongs to.
RecordedFilesAreComplete ==
    \A f \in written : manifest[f] # NoEntry /\ manifest[f].hash = scanned[f].hash
                          => Full(scanned[f].hash) \subseteq Target[f]

\* A file whose content is the one the saved manifest records, with all its
\* rows stored, keeps them through every step of an in-place pass, whatever its
\* mtime is now and whatever fails in the pass.
Vouched(f) == /\ saved # NoManifest /\ saved[f] # NoEntry /\ Indexable(f)
              /\ saved[f].hash = disk[f] /\ rows[f] = Full(disk[f])

GoodFilesKeepTheirRows ==
    [][\A f \in Files : Vouched(f) /\ mode = "inplace" /\ pc # "idle"
                            => rows'[f] = rows[f]]_vars

\* Until its promotion a rebuild changes neither the rows searches see nor
\* the manifest that describes them, and the promotion replaces both.
RebuildLeavesIndexAlone ==
    [][mode # "inplace" /\ durable' # durable
           => \/ pc = "promote" /\ rows' = fresh
              \/ pc = "save" /\ rows' = rows]_vars

\* Every file that stays as it is is eventually, and from then on, indexed
\* with exactly its content; a path with nothing to index ends without rows.
Wanted(f) == IF Indexable(f) THEN Full(disk[f]) ELSE {}

EventuallyIndexed == \A f \in Files : <>[](rows[f] = Wanted(f))

\* The same, for the files that are there.
LiveFilesEventuallyIndexed ==
    \A f \in Files : <>[](Indexable(f) => rows[f] = Full(disk[f]))

-----------------------------------------------------------------------------
(* The inductive invariant behind the theorems of IndexPass_proofs. *)

\* Which variables are in use in which phase of the pass.
Phases ==
    /\ unread # {} \/ unstatted # {} => pc = "scan"
    /\ pc = "idle" => manifest = NoEntries /\ mode = "inplace"
    /\ pc # "windows" => store = "free" /\ front = "take"
    /\ pc \in {"idle", "scan", "stale"} => todo = {} /\ written = {}
    /\ pc = "sweep" => mode # "temp"
    /\ mode # "inplace" => mode = IF Backend = "lance" THEN "temp" ELSE "epoch"
    /\ front = "take" => Window = {}
    /\ store = "free" => storing = {}
    /\ store \notin {"insert", "dedup"} => queue = {}

\* Each scanned file is in one place at a time: still to be taken, in the
\* front window, in the store phase, or done.
Places ==
    /\ unstatted \subseteq Scanned
    /\ todo \subseteq Scanned /\ Window \subseteq Scanned
    /\ storing \subseteq Scanned /\ written \subseteq Scanned
    /\ todo \cap Window = {} /\ todo \cap storing = {}
    /\ Window \cap storing = {}
    /\ written \cap (todo \cup Window) = {}
    /\ queue \subseteq storing /\ purge \subseteq storing
    /\ purge \cap written = {}

\* Files on their way into the store have real content that differs from what
\* their manifest entry says.
InFlight ==
    \A f \in Files : prep[f] = "embed" \/ f \in storing
                        => scanned[f].hash \in Versions /\ ~Unchanged(f)

\* What the store phase of the current window has written so far.
StoreProgress ==
    \A f \in storing :
        /\ emb[f] # {} => f \in written
        /\ store \in {"dedup", "purge", "commit"} => NewRows(f) \subseteq Target[f]
        /\ Backend = "clickhouse" /\ f \notin queue => NewRows(f) \subseteq Target[f]

Inductive == TypeOK /\ Phases /\ Places /\ InFlight /\ StoreProgress
             /\ RecordedFilesAreComplete
=============================================================================
