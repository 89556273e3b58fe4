-------------------------------- MODULE Watcher --------------------------------
(***************************************************************************)
(* The active background indexer of src/src/watcher.ts: the initial pass,  *)
(* the chokidar events, the scheduler (WatchScheduler), the passes it runs *)
(* against the index lock other processes also take, the retry after a     *)
(* skipped pass, and the status file others judge the index by.            *)
(*                                                                         *)
(* Abstractions.  The workspace is the number of edits made to it, and the *)
(* index is the number of edits it reflects: a pass scans the workspace at *)
(* one instant (IndexPass has the details).  Reading and writing the lock  *)
(* file is one step (StoreLocks has the details).  The watcher ignores the *)
(* paths of a notification, so every notification is a full one.           *)
(***************************************************************************)
EXTENDS WatchScheduler

CONSTANTS
    Faults,     \* "fail": a pass throws or finds no provider;
                \* "other": another process runs a pass;
                \* "early": an edit before chokidar is ready
    MaxEdits,   \* bound on edits
    MaxFaults   \* bound on injected faults

ASSUME FaultsAssumption == /\ Faults \subseteq {"fail", "other", "early"}
                           /\ MaxEdits \in Nat /\ MaxFaults \in Nat

VARIABLES
    edits,      \* edits made to the workspace
    index,      \* edits the index reflects
    faults,     \* faults so far
    ready,      \* chokidar reports changes
    unseen,     \* chokidar has an event to deliver
    at,         \* where each pass stands
    saw,        \* edits the pass's scan saw
    lock,       \* who holds index.lock
    retries,    \* 30-second timers set by skipped passes
    changed,    \* status: lastChangeAt is after lastSuccessAt
    failed      \* status: consecutiveFailures > 0

Passes == {"initial", "scheduled", "other"}

world  == <<edits, faults, ready, unseen>>
work   == <<index, at, saw, lock>>
status == <<changed, failed>>
all    == <<vars, world, work, retries, status>>

WatcherTypeOK ==
    /\ TypeOK
    /\ edits \in 0 .. MaxEdits /\ index \in 0 .. MaxEdits
    /\ faults \in 0 .. MaxFaults
    /\ ready \in BOOLEAN /\ unseen \in BOOLEAN
    /\ at \in [Passes -> {"none", "start", "locked", "scanned"}]
    /\ saw \in [Passes -> 0 .. MaxEdits]
    /\ lock \in Passes \cup {"none"}
    /\ retries \in Nat
    /\ changed \in BOOLEAN /\ failed \in BOOLEAN

\* startActive: the initial pass is on its way, chokidar is not ready.
WatcherInit ==
    /\ Init
    /\ edits = 1 /\ index = 0 /\ faults = 0 /\ ready = FALSE /\ unseen = FALSE
    /\ at = [p \in Passes |-> IF p = "initial" THEN "start" ELSE "none"]
    /\ saw = [p \in Passes |-> 0]
    /\ lock = "none" /\ retries = 0 /\ changed = FALSE /\ failed = FALSE

-----------------------------------------------------------------------------

Inject(kind) == kind \in Faults /\ faults < MaxFaults /\ faults' = faults + 1

Ready == ready' = TRUE /\ UNCHANGED <<vars, edits, faults, unseen, work, retries, status>>

Edit ==
    /\ edits < MaxEdits /\ edits' = edits + 1
    /\ ready \/ "early" \in Faults
    /\ unseen' = (unseen \/ ready)
    /\ UNCHANGED <<vars, faults, ready, work, retries, status>>

\* handleChange
HandleChange ==
    /\ unseen /\ unseen' = FALSE
    /\ changed' = TRUE
    /\ NotifyChange({})
    /\ UNCHANGED <<calls, edits, faults, ready, work, retries, failed>>

\* The scheduler's timer starts a pass.
StartScheduled ==
    /\ TimerFires
    /\ at' = IF running' /\ ~running THEN [at EXCEPT !["scheduled"] = "start"] ELSE at
    /\ UNCHANGED <<calls, world, index, saw, lock, retries, status>>

OtherStarts ==
    /\ at["other"] = "none" /\ Inject("other")
    /\ at' = [at EXCEPT !["other"] = "start"]
    /\ UNCHANGED <<vars, edits, ready, unseen, index, saw, lock, retries, status>>

\* A pass is over; the scheduler's own pass settles its execute().
Settled(p) ==
    /\ at' = [at EXCEPT ![p] = "none"]
    /\ IF p = "scheduled" THEN PassEnds /\ UNCHANGED calls ELSE UNCHANGED vars

TakeLock(p) ==
    /\ at[p] = "start" /\ lock = "none"
    /\ lock' = p
    /\ at' = [at EXCEPT ![p] = "locked"]
    /\ UNCHANGED <<vars, world, index, saw, retries, status>>

\* (mutant) a skipped pass counts as a pass
SkipIsSuccess(p) ==
    /\ at[p] = "start" /\ lock # "none"
    /\ Settled(p)
    /\ IF p = "other" THEN UNCHANGED status ELSE changed' = FALSE /\ failed' = FALSE
    /\ UNCHANGED <<world, index, saw, lock, retries>>

\* A live process owns the lock: the pass is skipped, the watcher tries again
\* later.
Skip(p) ==
    /\ at[p] = "start" /\ lock # "none"
    /\ Settled(p)
    /\ retries' = IF p = "other" THEN retries ELSE retries + 1
    /\ UNCHANGED <<world, index, saw, lock, status>>

Scan(p) ==
    /\ at[p] = "locked"
    /\ saw' = [saw EXCEPT ![p] = edits]
    /\ at' = [at EXCEPT ![p] = "scanned"]
    /\ UNCHANGED <<vars, world, index, lock, retries, status>>

\* The pass completes: lastSuccessAt, consecutiveFailures = 0.
Succeed(p) ==
    /\ at[p] = "scanned"
    /\ Settled(p)
    /\ index' = saw[p] /\ lock' = "none"
    /\ IF p = "other" THEN UNCHANGED status ELSE changed' = FALSE /\ failed' = FALSE
    /\ UNCHANGED <<world, saw, retries>>

\* (mutant) a failed pass leaves the failure count alone
FailSilently(p) ==
    /\ at[p] \in {"locked", "scanned"} /\ Inject("fail")
    /\ Settled(p)
    /\ lock' = "none"
    /\ UNCHANGED <<edits, ready, unseen, index, saw, retries, status>>

\* The pass throws, or the provider is down: consecutiveFailures + 1, and no
\* retry before the next notification.
Fail(p) ==
    /\ at[p] \in {"locked", "scanned"} /\ Inject("fail")
    /\ Settled(p)
    /\ lock' = "none"
    /\ failed' = (failed \/ p # "other")
    /\ UNCHANGED <<edits, ready, unseen, index, saw, retries, changed>>

RetryFires ==
    /\ retries > 0 /\ retries' = retries - 1
    /\ NotifyChange({})
    /\ UNCHANGED <<calls, world, work, status>>

PassStep == \E p \in Passes : TakeLock(p) \/ Skip(p) \/ Scan(p) \/ Succeed(p)

WatcherNext ==
    \/ Ready \/ Edit \/ HandleChange \/ StartScheduled \/ OtherStarts
    \/ PassStep \/ (\E p \in Passes : Fail(p))
    \/ RetryFires

\* Timers fire, events are delivered, and every pass is carried on until it
\* ends; edits, other processes and failures are up to the environment.
WatcherSpec ==
    /\ WatcherInit /\ [][WatcherNext]_all
    /\ WF_all(HandleChange) /\ WF_all(StartScheduled) /\ WF_all(RetryFires)
    /\ \A p \in Passes : WF_all(TakeLock(p) \/ Skip(p) \/ Scan(p) \/ Succeed(p))

-----------------------------------------------------------------------------
(* Properties *)

\* deriveWatcherHealth
Stale == failed \/ changed

Idle == /\ ~timer /\ ~running /\ retries = 0 /\ ~unseen
        /\ at["initial"] = "none"

\* When the watcher has nothing left to do and its status reports a healthy
\* index, the index reflects every edit.
HealthIsHonest == Idle /\ ~Stale => index = edits
================================================================================
