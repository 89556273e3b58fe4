------------------------------ MODULE StoreSwap ------------------------------
(***************************************************************************)
(* A full rebuild of the LanceDB store beside the old one and the exchange *)
(* of the two directories (indexer/pipeline.ts, vectorstore/lancedb.ts):   *)
(* two renames, the rescue of quirks.jsonl and its like, and a removal     *)
(* nobody waits for.  Other processes append to the store's quirks, write  *)
(* a status file or connect to it at any time, and each of these creates   *)
(* the directory when it is missing.                                       *)
(*                                                                         *)
(* A directory is what matters of it: how much of the index its table      *)
(* holds, its quirks, whether it has a manifest, and whether it has any    *)
(* other file (index.lock, watcher-status.json), because a directory can   *)
(* be renamed over an empty one only.                                      *)
(***************************************************************************)
EXTENDS Naturals

CONSTANTS
    Quirks,
    SwapFaults,       \* \subseteq {"crash", "exit", "busy", "empty", "abort"}
    MaxSwapFaults

ASSUME StoreSwapAssumption ==
    /\ MaxSwapFaults \in Nat
    /\ SwapFaults \subseteq {"crash", "exit", "busy", "empty", "abort"}

VARIABLES
    real, tmp, old,   \* storePath, storePath_tmp, storePath_old
    pc,               \* where the pass is
    removing,         \* the removal of old has been started
    noted,            \* history: quirks appended so far
    built,            \* history: there has been a complete table
    torn,             \* history: a crash left the store under another name
    raced,            \* history: another process wrote during an exchange
    faults

swap == <<real, tmp, old, pc, removing, noted, built, torn, raced, faults>>

Tables == {"none", "part", "full"}
Directory == [there : BOOLEAN, table : Tables, quirks : SUBSET Quirks,
              manifest : BOOLEAN, other : BOOLEAN]
Absent == [there |-> FALSE, table |-> "none", quirks |-> {}, manifest |-> FALSE,
           other |-> FALSE]
FreshDatabase == [Absent EXCEPT !.there = TRUE]
Free(d) == d \in {Absent, FreshDatabase}         \* another one can be renamed to it

SwapTypeOK ==
    /\ real \in Directory /\ tmp \in Directory /\ old \in Directory
    /\ pc \in {"idle", "inPlace", "rebuild", "away", "promote", "putBack", "rescue", "finish"}
    /\ removing \in BOOLEAN /\ noted \subseteq Quirks /\ built \in BOOLEAN
    /\ torn \in BOOLEAN /\ raced \in BOOLEAN
    /\ faults \in 0..MaxSwapFaults

SwapInit ==
    /\ real = Absent /\ tmp = Absent /\ old = Absent
    /\ pc = "idle" /\ removing = FALSE
    /\ noted = {} /\ built = FALSE /\ torn = FALSE /\ raced = FALSE
    /\ faults = 0

SwapFault(kind) == kind \in SwapFaults /\ faults < MaxSwapFaults /\ faults' = faults + 1

\* What a writer needs to find: mkdir -p.
Touched(d) == [d EXCEPT !.there = TRUE, !.other = TRUE]

-----------------------------------------------------------------------------
\* A pass takes index.lock in the store and decides.  Without a manifest, or
\* with --force, a store with rows is rebuilt in a temporary one.
BeginSwapPass(force) ==
    /\ pc = "idle"
    /\ real' = Touched(real)
    /\ IF force \/ (~ real.manifest /\ real.table # "none")
       THEN pc' = "rebuild" /\ tmp' = FreshDatabase
       ELSE pc' = "inPlace" /\ UNCHANGED tmp
    /\ UNCHANGED <<old, removing, noted, built, torn, raced, faults>>

\* Rows are written file by file and the manifest window by window.
WriteInPlace ==
    /\ pc = "inPlace"
    /\ \/ real' = [real EXCEPT !.table = "full", !.manifest = TRUE] /\ built' = TRUE /\ pc' = "idle"
       \/ /\ real.table = "none"
          /\ real' = [real EXCEPT !.table = "part"]
          /\ UNCHANGED <<built, pc>>
    /\ UNCHANGED <<tmp, old, removing, noted, torn, raced, faults>>

\* The rebuild writes rows and manifest to the temporary store.  An aborted
\* one, or one without rows, removes it and leaves everything as it was.
BuildTemporary ==
    /\ pc = "rebuild"
    /\ tmp' = [FreshDatabase EXCEPT !.table = "full", !.manifest = TRUE]
    /\ pc' = "away"
    /\ UNCHANGED <<real, old, removing, noted, built, torn, raced, faults>>

GiveUpRebuild ==
    /\ pc = "rebuild"
    /\ SwapFault("empty") \/ SwapFault("abort")
    /\ tmp' = Absent
    /\ pc' = "idle"
    /\ UNCHANGED <<real, old, removing, noted, built, torn, raced>>

-----------------------------------------------------------------------------
\* (mutant) what is in the way is removed first
MoveAwayForcefully ==
    /\ pc = "away"
    /\ pc' = "promote"
    /\ old' = real /\ real' = Absent
    /\ UNCHANGED <<tmp, removing, noted, built, torn, raced, faults>>

\* swapStoreDirectories.  A failure of the first rename is ignored.
MoveAway ==
    /\ pc = "away"
    /\ pc' = "promote"
    /\ \/ /\ IF real.there /\ Free(old)
             THEN old' = real /\ real' = Absent
             ELSE UNCHANGED <<real, old>>
          /\ UNCHANGED faults
       \/ SwapFault("busy") /\ UNCHANGED <<real, old>>
    /\ UNCHANGED <<tmp, removing, noted, built, torn, raced>>

RenameBuilt ==
    /\ pc = "promote"
    /\ \/ /\ Free(real)
          /\ real' = tmp /\ tmp' = Absent
          /\ pc' = "rescue" /\ built' = TRUE /\ torn' = FALSE
          /\ UNCHANGED faults
       \/ /\ \/ ~ Free(real) /\ UNCHANGED faults
             \/ SwapFault("busy")
          /\ pc' = "putBack"
          /\ UNCHANGED <<real, tmp, built, torn>>
    /\ UNCHANGED <<old, removing, noted, raced>>

\* (mutant) the temporary store is removed and that is all
RestoreNothing ==
    /\ pc = "putBack"
    /\ tmp' = Absent
    /\ pc' = "idle"
    /\ UNCHANGED <<real, old, removing, noted, built, torn, raced, faults>>

\* The old store gets its name back if it can; then the pipeline removes the
\* temporary one.
RestoreBackup ==
    /\ pc = "putBack"
    /\ \/ /\ IF old.there /\ Free(real)
             THEN real' = old /\ old' = Absent
             ELSE UNCHANGED <<real, old>>
          /\ UNCHANGED <<torn, faults>>
       \/ SwapFault("busy") /\ torn' = TRUE /\ UNCHANGED <<real, old>>
    /\ tmp' = Absent
    /\ pc' = "idle"
    /\ UNCHANGED <<removing, noted, built, raced>>

\* (mutant) the old store is removed before its quirks are carried over
RescueNothing ==
    /\ pc = "rescue"
    /\ removing' = old.there
    /\ pc' = "finish"
    /\ UNCHANGED <<real, tmp, old, noted, built, torn, raced, faults>>

\* preserveStoreArtifacts: what the new store lacks is moved to it.  Then the
\* removal of the old one is started.
Rescue ==
    /\ pc = "rescue"
    /\ IF old.quirks # {} /\ real.quirks = {}
       THEN real' = [real EXCEPT !.quirks = old.quirks] /\ old' = [old EXCEPT !.quirks = {}]
       ELSE UNCHANGED <<real, old>>
    /\ removing' = old.there
    /\ pc' = "finish"
    /\ UNCHANGED <<tmp, noted, built, torn, raced, faults>>

FinishPass ==
    /\ pc = "finish"
    /\ pc' = "idle"
    /\ UNCHANGED <<real, tmp, old, removing, noted, built, torn, raced, faults>>

RemoveOld ==
    /\ removing
    /\ old' = Absent /\ removing' = FALSE
    /\ UNCHANGED <<real, tmp, pc, noted, built, torn, raced, faults>>

-----------------------------------------------------------------------------
\* The process ends, by process.exit after a pass or in the middle of it.  A
\* removal in progress stops half way.
Die(kind) ==
    /\ SwapFault(kind)
    /\ pc' = "idle" /\ removing' = FALSE
    /\ old' \in {old} \cup (IF removing THEN {[Touched(Absent) EXCEPT !.table = "part"]} ELSE {})
    /\ torn' = (torn \/ (pc \in {"promote", "putBack"} /\ ~ real.there))
    /\ UNCHANGED <<real, tmp, noted, built, raced>>

SwapCrash == pc # "idle" /\ Die("crash")
ExitInPass == pc = "idle" /\ removing /\ Die("exit")

Exchanging == pc \in {"promote", "putBack", "rescue"}

\* addQuirk appends to the log of the store, wherever it has gone meanwhile.
NoteQuirk(q) ==
    /\ q \notin noted
    /\ noted' = noted \cup {q}
    /\ real' = [real EXCEPT !.there = TRUE, !.quirks = @ \cup {q}]
    /\ raced' = (raced \/ Exchanging)
    /\ UNCHANGED <<tmp, old, pc, removing, built, torn, faults>>

\* A connection creates the directory, a status file fills it.
Outsider ==
    /\ real' \in {[real EXCEPT !.there = TRUE], Touched(real)}
    /\ real' # real
    /\ raced' = (raced \/ Exchanging)
    /\ UNCHANGED <<tmp, old, pc, removing, noted, built, torn, faults>>

SwapStep ==
    \/ WriteInPlace \/ BuildTemporary \/ MoveAway \/ RenameBuilt \/ RestoreBackup \/ Rescue \/ FinishPass

SwapNext ==
    \/ \E force \in BOOLEAN : BeginSwapPass(force)
    \/ SwapStep \/ GiveUpRebuild \/ RemoveOld
    \/ SwapCrash \/ ExitInPass
    \/ (\E q \in Quirks : NoteQuirk(q)) \/ Outsider

SwapSpec == SwapInit /\ [][SwapNext]_swap

-----------------------------------------------------------------------------
\* Once there has been a complete index, one of the directories holds one,
\* whatever fails at whatever point, and
\* no quirk is lost, unless one was noted during the exchange.
NothingIsLost ==
    /\ built => "full" \in {real.table, tmp.table, old.table}
    /\ ~ raced => noted \subseteq real.quirks \cup old.quirks

\* Searches find a complete index except between the two renames, unless the
\* process died there or others got in between.
IndexServed ==
    built /\ real.table # "full" => pc \in {"promote", "putBack"} \/ torn \/ raced
=============================================================================
