----------------------------- MODULE LanceStore -----------------------------
(***************************************************************************)
(* The LanceDB table as two processes use it (vectorstore/lancedb.ts): an  *)
(* index pass stores files, a plugin stores quirks and searches.  A store  *)
(* is several transactions, each a new version of the table; an operation  *)
(* that fails repairs the table by restoring an earlier version and is run *)
(* again from its beginning, by addChunks and then by withWriteLock.       *)
(*                                                                         *)
(* Of LanceDB this takes what the code's comments say of it: a transaction *)
(* on a handle that has not seen a concurrent Restore fails as             *)
(* "Incompatible transaction", and a handle older than the last cleaning   *)
(* fails with "Not found".                                                 *)
(***************************************************************************)
EXTENDS Naturals, Sequences

CONSTANTS
    StoredFiles, QuirkPaths,
    Mishaps,        \* \subseteq {"crash", "notFound", "unreadable", "locked"}
    MaxMishaps,
    MaxVersions     \* bound on the transactions begun

\* The synthetic path of a quirk has a prefix that no file's path has.
ASSUME LanceAssumption ==
    /\ StoredFiles \cap QuirkPaths = {}
    /\ MaxVersions \in Nat \ {0} /\ MaxMishaps \in Nat

VARIABLES
    versions,   \* the table: rows and kind of each version
    kept,       \* the oldest version cleaning has left
    handle,     \* the version each process has open
    job,        \* what each process is doing: step, path, attempt, error, version to restore
    rebuilt,    \* history: a repair has started the table over
    mishaps

lance == <<versions, kept, handle, job, rebuilt, mishaps>>

LanceProcs == {"pass", "plugin"}
Paths == StoredFiles \cup QuirkPaths
Revisions == 1..MaxVersions              \* every write stores chunks with ids of their own
Rows == SUBSET (Revisions \X {1, 2})       \* a revision's rows, once or twice
LanceErrors == {"incompatible", "notFound"}
NotAdding == [step |-> "idle", path |-> "-", rev |-> 0, attempt |-> 0, error |-> "-", target |-> 0]

LanceTypeOK ==
    /\ versions \in Seq([rows : [Paths -> Rows], kind : {"write", "restore"}])
    /\ kept \in 1..Len(versions) /\ handle \in [LanceProcs -> 1..Len(versions)]
    /\ job \in [LanceProcs -> [step : {"idle", "wipe", "insert", "dedup", "repair", "restore"},
                          path : Paths \cup {"-"}, rev : 0..MaxVersions, attempt : 0..3, error : LanceErrors \cup {"-"},
                          target : 0..Len(versions)]]
    /\ rebuilt \in BOOLEAN /\ mishaps \in 0..MaxMishaps

LanceInit ==
    /\ versions = <<[rows |-> [x \in Paths |-> IF x \in StoredFiles THEN {<<1, 1>>} ELSE {}],
                     kind |-> "write"]>>
    /\ kept = 1 /\ handle = [p \in LanceProcs |-> 1] /\ job = [p \in LanceProcs |-> NotAdding]
    /\ rebuilt = FALSE /\ mishaps = 0

Latest == Len(versions)
Current == versions[Latest].rows
Unstored(path) == {r \in Revisions : \A v \in 1..Len(versions) :
                                         <<r, 1>> \notin versions[v].rows[path]}
Mishap(kind) == kind \in Mishaps /\ mishaps < MaxMishaps /\ mishaps' = mishaps + 1
NoMishap == UNCHANGED mishaps

Write(p, rows, kind) ==
    /\ versions' = Append(versions, [rows |-> rows, kind |-> kind])
    /\ handle' = [handle EXCEPT ![p] = Latest + 1]

\* QuirkPaths are wiped first, files are inserted first and cleaned up afterwards.
FirstStep(path) == IF path \in QuirkPaths THEN "wipe" ELSE "insert"

\* What happens to an attempt that fails.  Both errors count as corruption, so
\* that the first failure of a run repairs; the second ends it, and an
\* incompatible transaction is run once more by the lock.
Again(j) == [j EXCEPT !.step = FirstStep(j.path), !.attempt = @ + 1, !.error = "-", !.target = 0]

\* (mutant) what is left of the operation is run
AgainFromDedup(j) ==
    [j EXCEPT !.step = IF j.path \in QuirkPaths THEN "wipe" ELSE "dedup", !.attempt = @ + 1,
              !.error = "-", !.target = 0]

AfterRepair(j) == Again(j)

Unrepaired(j) ==
    IF j.error = "incompatible" /\ j.attempt <= 1
    THEN [Again(j) EXCEPT !.attempt = 2]
    ELSE NotAdding

Failed(j, error) ==
    LET k == [j EXCEPT !.error = error]
    IN IF j.attempt \in {0, 2} THEN [k EXCEPT !.step = "repair"] ELSE Unrepaired(k)

-----------------------------------------------------------------------------
StartUpsert(p, path) ==
    /\ job[p] = NotAdding
    /\ path \in IF p = "pass" THEN StoredFiles ELSE QuirkPaths
    /\ Latest < MaxVersions /\ Unstored(path) # {}
    /\ job' = [job EXCEPT ![p] = [NotAdding EXCEPT !.step = FirstStep(path), !.path = path,
                                              !.rev = CHOOSE r \in Unstored(path) : TRUE]]
    /\ NoMishap
    /\ UNCHANGED <<versions, kept, handle, rebuilt>>

\* A transaction goes through unless the table was restored under the handle.
Incompatible(p) == \E v \in handle[p] + 1 .. Latest : versions[v].kind = "restore"

Errs(p) ==
    \/ /\ Incompatible(p)
       /\ job' = [job EXCEPT ![p] = Failed(@, "incompatible")]
       /\ NoMishap
    \/ /\ ~ Incompatible(p)
       /\ IF handle[p] < kept THEN NoMishap ELSE Mishap("notFound")
       /\ job' = [job EXCEPT ![p] = Failed(@, "notFound")]

Goes(p, next) ==
    /\ ~ Incompatible(p) /\ handle[p] >= kept
    /\ job' = [job EXCEPT ![p] = next]
    /\ NoMishap

Wipe(p) ==
    /\ job[p].step = "wipe"
    /\ \/ /\ Goes(p, [job[p] EXCEPT !.step = "insert"])
          /\ Write(p, [Current EXCEPT ![job[p].path] = {}], "write")
       \/ Errs(p) /\ UNCHANGED <<versions, handle>>
    /\ UNCHANGED <<kept, rebuilt>>

\* (mutant) the rows to be replaced are deleted before the new ones are there
InsertAfterDelete(p) ==
    /\ job[p].step = "insert"
    /\ \/ /\ Goes(p, [job[p] EXCEPT !.step = "dedup"])
          /\ Write(p, [Current EXCEPT ![job[p].path] = {}], "write")
       \/ Errs(p) /\ UNCHANGED <<versions, handle>>
    /\ UNCHANGED <<kept, rebuilt>>

Inserted(p) ==
    [Current EXCEPT ![job[p].path] =
        @ \cup {<<job[p].rev, IF <<job[p].rev, 1>> \in @ THEN 2 ELSE 1>>}]

Insert(p) ==
    /\ job[p].step = "insert"
    /\ \/ /\ Goes(p, IF job[p].path \in StoredFiles THEN [job[p] EXCEPT !.step = "dedup"] ELSE NotAdding)
          /\ Write(p, Inserted(p), "write")
       \/ Errs(p) /\ UNCHANGED <<versions, handle>>
    /\ UNCHANGED <<kept, rebuilt>>

\* Everything at the path but the rows of this write, told by their ids.  The code
\* compares paths without their case; no two paths here differ by case only.
Cleaned(p) == [Current EXCEPT ![job[p].path] = {r \in @ : r[1] = job[p].rev}]

Dedup(p) ==
    /\ job[p].step = "dedup"
    /\ \/ /\ Goes(p, NotAdding)
          /\ Write(p, Cleaned(p), "write")
       \/ Errs(p) /\ UNCHANGED <<versions, handle>>
    /\ UNCHANGED <<kept, rebuilt>>

\* A search; the plugin's handle is as old as its last access.
Search ==
    /\ job["plugin"] = NotAdding
    /\ Latest < MaxVersions
    /\ \/ handle["plugin"] < kept /\ NoMishap
       \/ handle["plugin"] >= kept /\ Mishap("notFound")
    /\ job' = [job EXCEPT !["plugin"] = [NotAdding EXCEPT !.step = "repair", !.error = "notFound", !.attempt = 1]]
    /\ UNCHANGED <<versions, kept, handle, rebuilt>>

\* optimize: compaction is a version with the same rows, and versions older than
\* a quarter of an hour go.
Optimize ==
    /\ job["pass"] = NotAdding
    /\ Latest < MaxVersions
    /\ ~ Incompatible("pass")
    /\ Write("pass", Current, "write")
    /\ kept' \in kept .. Latest + 1
    /\ NoMishap
    /\ UNCHANGED <<job, rebuilt>>

-----------------------------------------------------------------------------
\* tryRepair opens the table anew, lists its versions and takes the newest but
\* one that can be counted.  With nothing to go back to it starts over.
ListVersions(p) ==
    /\ job[p].step = "repair"
    /\ \/ /\ \E v \in kept .. Latest - 1 :
                /\ IF v = Latest - 1 THEN NoMishap ELSE Mishap("unreadable")
                /\ job' = [job EXCEPT ![p].step = "restore", ![p].target = v]
          /\ handle' = [handle EXCEPT ![p] = Latest]
       \/ /\ IF kept = Latest THEN NoMishap ELSE Mishap("unreadable")
          /\ job' = [job EXCEPT ![p].step = "restore", ![p].target = 0]
          /\ handle' = [handle EXCEPT ![p] = Latest]
       \/ /\ Mishap("locked")
          /\ job' = [job EXCEPT ![p] = IF @.path = "-" THEN NotAdding ELSE Unrepaired(@)]
          /\ UNCHANGED handle
    /\ UNCHANGED <<versions, kept, rebuilt>>

Restore(p) ==
    /\ job[p].step = "restore"
    /\ IF job[p].target = 0
       THEN /\ Write(p, [x \in Paths |-> {}], "restore")
            /\ kept' = Latest + 1 /\ rebuilt' = TRUE
       ELSE /\ Write(p, versions[job[p].target].rows, "restore")
            /\ UNCHANGED <<kept, rebuilt>>
    /\ job' = [job EXCEPT ![p] = IF @.path = "-" THEN NotAdding ELSE AfterRepair(@)]
    /\ NoMishap

LanceCrash(p) ==
    /\ job[p] # NotAdding
    /\ Mishap("crash")
    /\ job' = [job EXCEPT ![p] = NotAdding]
    /\ handle' = [handle EXCEPT ![p] = Latest]
    /\ UNCHANGED <<versions, kept, rebuilt>>

LanceStep(p) == Wipe(p) \/ Insert(p) \/ Dedup(p) \/ ListVersions(p) \/ Restore(p)

LanceNext ==
    \/ \E p \in LanceProcs : (\E x \in Paths : StartUpsert(p, x)) \/ LanceStep(p) \/ LanceCrash(p)
    \/ Search \/ Optimize

LanceSpec == LanceInit /\ [][LanceNext]_lance

-----------------------------------------------------------------------------
\* A file that has rows in every version there is never loses them: not by an
\* attempt that stops between its transactions, not by one that is run again,
\* and not by the repairs of others, as long as no repair starts over.
Settled(f) == \A v \in kept .. Latest : versions[v].rows[f] # {}
SettledFilesKeepRows == [][\A f \in StoredFiles : Settled(f) => Settled(f)' \/ rebuilt']_lance

Returned(p) == job[p].step \in {"insert", "dedup"} /\ job'[p] = NotAdding /\ versions' # versions
StoredAlone(p) ==
    Current'[job[p].path] # {} /\ \A r \in Current'[job[p].path] : r[1] = job[p].rev

\* When a write returns, the file's rows are those of that write and no others,
\* whatever was repaired on the way.
ReturnedIsStored == [][\A p \in LanceProcs : Returned(p) => StoredAlone(p)]_lance
=============================================================================
