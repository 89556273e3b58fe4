----------------------------- MODULE DescCache ------------------------------
(***************************************************************************)
(* The description cache (core/desc-cache.ts) while a pass describes       *)
(* chunks: sub-batches run side by side, each puts its descriptions into   *)
(* the cache, and whichever reaches the interval saves it.  Saves queue    *)
(* up behind each other and mark the cache clean when they are done.       *)
(***************************************************************************)
EXTENDS Naturals, Sequences, FiniteSets

CONSTANTS
    SubBatches,
    SaveInterval,       \* descriptions between two saves
    MaxDescribing,      \* sub-batches described at once
    MaxCacheMishaps     \* bound on crashes and failed writes

VARIABLES
    cache, file,        \* the sub-batches whose descriptions are in memory, on disk
    dirty,
    queue,              \* the saves under way, as who waits for each
    snapshot,            \* what the first of them wrote to the temporary file
    sinceSave,          \* describedSinceLastSave
    sub, pass,          \* the state of each sub-batch and of the pass
    midway,             \* history: put since the snapshot
    late,               \* history: put midway in the save that took their mark away
    unsaved,            \* history: the last write failed
    cacheMishaps

desc == <<cache, file, dirty, queue, snapshot, sinceSave, sub, pass, midway, late, unsaved, cacheMishaps>>

NotWriting == {"nothing"}
DescTypeOK ==
    /\ cache \subseteq SubBatches /\ file \subseteq SubBatches /\ dirty \in BOOLEAN
    /\ queue \in Seq(SubBatches \cup {"pass"}) /\ snapshot \in SUBSET SubBatches \cup {NotWriting}
    /\ sinceSave \in 0..Cardinality(SubBatches)
    /\ sub \in [SubBatches -> {"waiting", "describing", "saving", "done"}]
    /\ pass \in {"describing", "described", "storing", "ending", "over"}
    /\ midway \subseteq SubBatches /\ late \subseteq SubBatches
    /\ unsaved \in BOOLEAN /\ cacheMishaps \in 0..MaxCacheMishaps

DescInit ==
    /\ cache = {} /\ file = {} /\ dirty = FALSE
    /\ queue = <<>> /\ snapshot = NotWriting /\ sinceSave = 0
    /\ sub = [b \in SubBatches |-> "waiting"] /\ pass = "describing"
    /\ midway = {} /\ late = {} /\ unsaved = FALSE /\ cacheMishaps = 0

\* (mutant) only the first description marks the cache
MarkedOnce == IF cache = {} THEN TRUE ELSE dirty
Marked == TRUE

\* Descriptions that are cached are not generated again.
Describe(b) ==
    /\ pass = "describing" /\ sub[b] = "waiting"
    /\ Cardinality({c \in SubBatches : sub[c] \in {"describing", "saving"}}) < MaxDescribing
    /\ sub' = [sub EXCEPT ![b] = IF b \in cache THEN "done" ELSE "describing"]
    /\ UNCHANGED <<cache, file, dirty, queue, snapshot, sinceSave, pass, midway, late, unsaved, cacheMishaps>>

SetMany(b) ==
    /\ sub[b] = "describing"
    /\ cache' = cache \cup {b} /\ dirty' = Marked
    /\ sinceSave' = sinceSave + 1
    /\ midway' = IF snapshot # NotWriting THEN midway \cup {b} ELSE {}
    /\ IF sinceSave' >= SaveInterval
       THEN /\ sub' = [sub EXCEPT ![b] = "saving"]
            /\ queue' = IF dirty' THEN Append(queue, b) ELSE queue
       ELSE sub' = [sub EXCEPT ![b] = "done"] /\ UNCHANGED queue
    /\ UNCHANGED <<file, snapshot, pass, late, unsaved, cacheMishaps>>

\* The snapshot is taken when the save's turn comes.
WriteTemporary ==
    /\ queue # <<>> /\ snapshot = NotWriting
    /\ snapshot' = cache
    /\ UNCHANGED <<cache, file, dirty, queue, sinceSave, sub, pass, midway, late, unsaved, cacheMishaps>>

\* A rename that fails is tried once more without the file it replaces.  Either
\* way the cache counts as clean after a success, whatever was put meanwhile.
Rename ==
    /\ queue # <<>> /\ snapshot # NotWriting
    /\ \/ /\ file' = snapshot /\ dirty' = FALSE
          /\ late' = midway /\ unsaved' = FALSE
          /\ UNCHANGED cacheMishaps
       \/ /\ cacheMishaps < MaxCacheMishaps /\ cacheMishaps' = cacheMishaps + 1
          /\ file' \in {file, {}} /\ unsaved' = TRUE
          /\ UNCHANGED <<dirty, late>>
    /\ queue' = Tail(queue) /\ snapshot' = NotWriting /\ midway' = {}
    /\ UNCHANGED <<cache, sinceSave, sub, pass>>

Waits(w) == \E i \in DOMAIN queue : queue[i] = w

\* The save a sub-batch waited for is over; the count starts again.
Resume(b) ==
    /\ sub[b] = "saving" /\ ~ Waits(b)
    /\ sub' = [sub EXCEPT ![b] = "done"] /\ sinceSave' = 0
    /\ UNCHANGED <<cache, file, dirty, queue, snapshot, pass, midway, late, unsaved, cacheMishaps>>

\* The end of the description stage saves what the count says is left, the end
\* of the pass what is marked.
EndOfStage ==
    /\ pass = "describing" /\ \A b \in SubBatches : sub[b] = "done"
    /\ pass' = "described"
    /\ queue' = IF sinceSave > 0 /\ dirty THEN Append(queue, "pass") ELSE queue
    /\ UNCHANGED <<cache, file, dirty, snapshot, sinceSave, sub, midway, late, unsaved, cacheMishaps>>

EndOfPass ==
    /\ ~ Waits("pass")
    /\ \/ /\ pass = "described" /\ pass' = "ending"
          /\ queue' = IF dirty THEN Append(queue, "pass") ELSE queue
       \/ /\ pass = "ending" /\ pass' = "over" /\ UNCHANGED queue
    /\ UNCHANGED <<cache, file, dirty, snapshot, sinceSave, sub, midway, late, unsaved, cacheMishaps>>

\* The process stops, and the next pass loads the file.
CrashAndLoad ==
    /\ pass # "over"
    /\ cacheMishaps < MaxCacheMishaps /\ cacheMishaps' = cacheMishaps + 1
    /\ cache' = file /\ dirty' = FALSE /\ queue' = <<>> /\ snapshot' = NotWriting
    /\ sinceSave' = 0 /\ sub' = [b \in SubBatches |-> "waiting"] /\ pass' = "describing"
    /\ midway' = {} /\ late' = {} /\ unsaved' = FALSE
    /\ UNCHANGED file

DescNext ==
    \/ \E b \in SubBatches : Describe(b) \/ SetMany(b) \/ Resume(b)
    \/ WriteTemporary \/ Rename \/ EndOfStage \/ EndOfPass \/ CrashAndLoad

DescSpec == DescInit /\ [][DescNext]_desc

-----------------------------------------------------------------------------
\* After a pass every description in memory is on disk, however its saves fell
\* and whatever was put during them, unless the last write failed.  What is lost
\* is what came in between the snapshot and the rename of the last save: the
\* rename took its mark away.
DescriptionsAreSaved == pass = "over" /\ ~ unsaved => cache \ late \subseteq file
=============================================================================
