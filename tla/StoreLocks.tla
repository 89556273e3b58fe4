------------------------------ MODULE StoreLocks ------------------------------
(***************************************************************************)
(* The two lock files of a store directory, used by every process that     *)
(* works on it: index.lock, taken for one index pass (runIndexPass of      *)
(* src/src/indexer/pipeline.ts), and watcher.lock, held by the process     *)
(* that watches the workspace (src/src/watcher.ts).  Each holds the        *)
(* process id of its owner; a lock whose owner is dead is free.            *)
(*                                                                         *)
(* A step is one operation on a file, because other processes may act      *)
(* between any two, and so may the worker threads that do the file         *)
(* operations of a process's own pass.  A process runs at most one pass;   *)
(* IndexPass says what a pass does.                                        *)
(***************************************************************************)
EXTENDS Naturals

CONSTANTS
    Procs,      \* process ids
    Nobody,     \* no process: the file is missing
    LockFaults,     \* "crash", "restart", "swap", "unwritable"
    MaxLockFaults   \* bound on lockFaults

ASSUME NobodyAssumption == Nobody \notin Procs
ASSUME LockFaultsAssumption == /\ LockFaults \subseteq {"crash", "restart", "swap", "unwritable"}
                           /\ MaxLockFaults \in Nat

VARIABLES
    alive,          \* processes that run
    pass,           \* how far each process is in runIndexPass
    checked,        \* owner of index.lock when the process read it
    indexLock,      \* owner of index.lock
    cleaner,        \* the dead owner a status command has found
    claim,          \* how far each process is in claiming watcher.lock
    seen,           \* owner of watcher.lock when the process read it
    watcherLock,    \* process that created watcher.lock
    written,        \* watcher.lock holds its creator's id; it is empty before
    disturbed,      \* history: what has upset the locks so far
    lockFaults          \* lockFaults so far

passing  == <<pass, checked, indexLock, cleaner>>
watching == <<claim, seen, watcherLock, written>>
locks     == <<alive, passing, watching, disturbed, lockFaults>>

Anyone == Procs \cup {Nobody}

LocksTypeOK ==
    /\ alive \subseteq Procs
    /\ pass \in [Procs -> {"idle", "checked", "leasing", "running"}]
    /\ checked \in [Procs -> Anyone] /\ indexLock \in Anyone /\ cleaner \in Anyone
    /\ claim \in [Procs -> {"dormant", "unlink", "create", "write", "active", "closed"}]
    /\ seen \in [Procs -> Anyone] /\ watcherLock \in Anyone /\ written \in BOOLEAN
    /\ disturbed \subseteq {"raced", "swapped", "reused", "unwritable"}
    /\ lockFaults \in 0 .. MaxLockFaults

LocksInit ==
    /\ alive = Procs
    /\ pass = [p \in Procs |-> "idle"] /\ checked = [p \in Procs |-> Nobody]
    /\ indexLock = Nobody /\ cleaner = Nobody
    /\ claim = [p \in Procs |-> "dormant"]
    /\ seen = [p \in Procs |-> Nobody] /\ watcherLock = Nobody /\ written = FALSE
    /\ disturbed = {} /\ lockFaults = 0

Fault(kind) == kind \in LockFaults /\ lockFaults < MaxLockFaults /\ lockFaults' = lockFaults + 1

\* A file of owner is removed or overwritten by a process that read expected:
\* a race when a living process has put it there in between.
Races(owner, expected) ==
    disturbed' = IF owner \in alive /\ owner # expected
                 THEN disturbed \cup {"raced"} ELSE disturbed

-----------------------------------------------------------------------------
(* index.lock *)

\* (mutant) an old lock is ignored, although its owner is alive
ReadIndexLockByAge(p) ==
    /\ p \in alive /\ pass[p] = "idle"
    /\ pass' = [pass EXCEPT ![p] = "checked"]
    /\ checked' = [checked EXCEPT ![p] = indexLock]
    /\ UNCHANGED <<alive, indexLock, cleaner, watching, disturbed, lockFaults>>

\* A pass begins: it is skipped while a living process owns the lock.
ReadIndexLock(p) ==
    /\ p \in alive /\ pass[p] = "idle"
    /\ indexLock \notin alive
    /\ pass' = [pass EXCEPT ![p] = "checked"]
    /\ checked' = [checked EXCEPT ![p] = indexLock]
    /\ UNCHANGED <<alive, indexLock, cleaner, watching, disturbed, lockFaults>>

\* writeFile, which replaces whatever is there.
WriteIndexLock(p) ==
    /\ pass[p] = "checked"
    /\ pass' = [pass EXCEPT ![p] = "leasing"]
    /\ checked' = [checked EXCEPT ![p] = Nobody]
    /\ indexLock' = p /\ Races(indexLock, checked[p])
    /\ UNCHANGED <<alive, cleaner, watching, lockFaults>>

\* The write fails: the pass goes on without a lock.
CannotWriteIndexLock(p) ==
    /\ pass[p] = "checked" /\ Fault("unwritable")
    /\ pass' = [pass EXCEPT ![p] = "leasing"]
    /\ checked' = [checked EXCEPT ![p] = Nobody]
    /\ disturbed' = disturbed \cup {"unwritable"}
    /\ UNCHANGED <<alive, indexLock, cleaner, watching>>

\* There is no lease, or it is granted.
LeaseGranted(p) ==
    /\ pass[p] = "leasing"
    /\ pass' = [pass EXCEPT ![p] = "running"]
    /\ UNCHANGED <<alive, checked, indexLock, cleaner, watching, disturbed, lockFaults>>

\* (mutant) the lock stays when the central store cannot be reached
LeaseRefusedLeaksLock(p) ==
    /\ pass[p] = "leasing"
    /\ pass' = [pass EXCEPT ![p] = "idle"]
    /\ UNCHANGED <<alive, checked, indexLock, cleaner, watching, disturbed, lockFaults>>

\* The lease is held elsewhere or acquireLease throws: unlink, whoever's it is.
LeaseRefused(p) ==
    /\ pass[p] = "leasing"
    /\ pass' = [pass EXCEPT ![p] = "idle"]
    /\ indexLock' = Nobody
    /\ UNCHANGED <<alive, checked, cleaner, watching, disturbed, lockFaults>>

\* A LanceDB rebuild puts a new directory in place of the old one; neither
\* lock is among the files carried over.
SwapStore(p) ==
    /\ pass[p] = "running" /\ Fault("swap")
    /\ indexLock' = Nobody /\ watcherLock' = Nobody /\ written' = FALSE
    /\ disturbed' = disturbed \cup {"swapped"}
    /\ UNCHANGED <<alive, pass, checked, cleaner, claim, seen>>

\* The finally block: unlink, whoever's it is.
EndPass(p) ==
    /\ pass[p] = "running"
    /\ pass' = [pass EXCEPT ![p] = "idle"]
    /\ indexLock' = Nobody
    /\ UNCHANGED <<alive, checked, cleaner, watching, disturbed, lockFaults>>

\* checkStaleLock of the status command, a process of its own, in two steps.
StatusReads ==
    /\ cleaner = Nobody /\ indexLock # Nobody /\ indexLock \notin alive
    /\ cleaner' = indexLock
    /\ UNCHANGED <<alive, pass, checked, indexLock, watching, disturbed, lockFaults>>

StatusRemoves ==
    /\ cleaner # Nobody /\ cleaner' = Nobody
    /\ indexLock' = Nobody /\ Races(indexLock, cleaner)
    /\ UNCHANGED <<alive, pass, checked, watching, lockFaults>>

-----------------------------------------------------------------------------
(* watcher.lock *)

\* readWatcherLock; an empty file reads like a missing one.
WatcherLockOwner == IF written THEN watcherLock ELSE Nobody

\* (mutant) the lock of a dead process is respected
ReadWatcherLockOfTheDead(p) ==
    /\ p \in alive /\ claim[p] = "dormant"
    /\ WatcherLockOwner = Nobody
    /\ claim' = [claim EXCEPT ![p] = "unlink"]
    /\ seen' = [seen EXCEPT ![p] = WatcherLockOwner]
    /\ UNCHANGED <<alive, passing, watcherLock, written, disturbed, lockFaults>>

\* The start, a dormant process's next look, or the second attempt: go on if
\* no living process owns the lock.
ReadWatcherLock(p) ==
    /\ p \in alive /\ claim[p] = "dormant"
    /\ WatcherLockOwner \notin alive
    /\ claim' = [claim EXCEPT ![p] = "unlink"]
    /\ seen' = [seen EXCEPT ![p] = WatcherLockOwner]
    /\ UNCHANGED <<alive, passing, watcherLock, written, disturbed, lockFaults>>

UnlinkWatcherLock(p) ==
    /\ claim[p] = "unlink"
    /\ claim' = [claim EXCEPT ![p] = "create"]
    /\ seen' = [seen EXCEPT ![p] = Nobody]
    /\ watcherLock' = Nobody /\ written' = FALSE /\ Races(watcherLock, seen[p])
    /\ UNCHANGED <<alive, passing, lockFaults>>

\* (mutant) the file is created without O_EXCL
CreateWatcherLockAnyway(p) ==
    /\ claim[p] = "create"
    /\ watcherLock' = p /\ written' = FALSE
    /\ claim' = [claim EXCEPT ![p] = "write"]
    /\ UNCHANGED <<alive, passing, seen, disturbed, lockFaults>>

\* openSync(..., "wx"): fails if the file exists.
CreateWatcherLock(p) ==
    /\ claim[p] = "create" /\ watcherLock = Nobody
    /\ watcherLock' = p /\ written' = FALSE
    /\ claim' = [claim EXCEPT ![p] = "write"]
    /\ UNCHANGED <<alive, passing, seen, disturbed, lockFaults>>

\* Somebody else created it: the process looks again, at once after the first
\* attempt and in a minute after the second.
LoseWatcherLock(p) ==
    /\ claim[p] = "create" /\ watcherLock # Nobody
    /\ claim' = [claim EXCEPT ![p] = "dormant"]
    /\ UNCHANGED <<alive, passing, seen, watcherLock, written, disturbed, lockFaults>>

\* writeFileSync to the descriptor, and startActive.  The file may have been
\* removed in between.
StartActive(p) ==
    /\ claim[p] = "write"
    /\ claim' = [claim EXCEPT ![p] = "active"]
    /\ written' = (written \/ watcherLock = p)
    /\ UNCHANGED <<alive, passing, seen, watcherLock, disturbed, lockFaults>>

\* close() of an active or a dormant indexer; releaseWatcherLock.
CloseWatcher(p) ==
    /\ p \in alive /\ claim[p] \in {"dormant", "active"}
    /\ claim' = [claim EXCEPT ![p] = "closed"]
    /\ IF claim[p] = "active" /\ WatcherLockOwner = p
       THEN watcherLock' = Nobody /\ written' = FALSE
       ELSE UNCHANGED <<watcherLock, written>>
    /\ UNCHANGED <<alive, passing, seen, disturbed, lockFaults>>

-----------------------------------------------------------------------------
(* Processes *)

\* A process is gone, wherever it was; its files stay.
Crash(p) ==
    /\ p \in alive /\ Fault("crash")
    /\ alive' = alive \ {p}
    /\ pass' = [pass EXCEPT ![p] = "idle"] /\ checked' = [checked EXCEPT ![p] = Nobody]
    /\ claim' = [claim EXCEPT ![p] = "closed"] /\ seen' = [seen EXCEPT ![p] = Nobody]
    /\ UNCHANGED <<indexLock, cleaner, watcherLock, written, disturbed>>

Remembered == {indexLock, watcherLock, cleaner}
              \cup {checked[q] : q \in Procs} \cup {seen[q] : q \in Procs}

\* A new process gets an id that was in use before.
Restart(p) ==
    /\ p \notin alive /\ Fault("restart")
    /\ alive' = alive \cup {p}
    /\ claim' = [claim EXCEPT ![p] = "dormant"]
    /\ disturbed' = IF p \in Remembered THEN disturbed \cup {"reused"} ELSE disturbed
    /\ UNCHANGED <<passing, seen, watcherLock, written>>

LockPassStep(p) ==
    \/ ReadIndexLock(p) \/ WriteIndexLock(p) \/ CannotWriteIndexLock(p)
    \/ LeaseGranted(p) \/ LeaseRefused(p) \/ SwapStore(p) \/ EndPass(p)

ClaimStep(p) ==
    \/ ReadWatcherLock(p) \/ UnlinkWatcherLock(p)
    \/ CreateWatcherLock(p) \/ LoseWatcherLock(p) \/ StartActive(p)

LocksNext ==
    \/ \E p \in Procs : LockPassStep(p) \/ ClaimStep(p) \/ CloseWatcher(p) \/ Crash(p) \/ Restart(p)
    \/ StatusReads \/ StatusRemoves

\* A dormant process looks again every minute and finishes what it started.
LocksSpec == LocksInit /\ [][LocksNext]_locks /\ \A p \in Procs : WF_locks(ClaimStep(p))

-----------------------------------------------------------------------------
(* Properties *)

InPass(p) == pass[p] \in {"leasing", "running"}

\* As long as nothing has upset the locks, two processes are never in a pass
\* at the same time.
OnePass ==
    disturbed = {} => \A p, q \in Procs : InPass(p) /\ InPass(q) => p = q

\* As long as nothing has upset the locks, two processes never watch the
\* workspace at the same time, however their claims interleave.
OneWatcher ==
    disturbed = {} =>
        \A p, q \in Procs : claim[p] = "active" /\ claim[q] = "active" => p = q

\* A lock that names a living process is in that process's use, so nobody is
\* kept out for ever by a lock left behind, as long as no id is used twice.
LocksAreInUse ==
    "reused" \notin disturbed =>
        /\ indexLock \in alive => InPass(indexLock)
        /\ WatcherLockOwner \in alive => claim[WatcherLockOwner] = "active"

Waiting(p) == p \in alive /\ claim[p] \notin {"active", "closed"}

\* What src/src/watcher.ts:113 and src/doc/plugin.md:522 promise, as long as
\* claims do not race: one watcher per workspace.
AtMostOneWatcher ==
    "raced" \notin disturbed =>
        \A p, q \in Procs : claim[p] = "active" /\ claim[q] = "active" => p = q
=============================================================================
