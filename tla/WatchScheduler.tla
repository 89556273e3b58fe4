---------------------------- MODULE WatchScheduler ----------------------------
(***************************************************************************)
(* createWatchPassScheduler of src/src/indexer/watch.ts: notifications     *)
(* restart a debounce timer, the timer starts a pass with the paths        *)
(* gathered so far, notifications during a pass ask for one rerun, and     *)
(* callers may wait until nothing is left to do.  A step is what runs      *)
(* between two turns of the event loop.                                    *)
(***************************************************************************)
EXTENDS Naturals

CONSTANTS
    Paths,      \* paths a notification can name
    Callers,    \* callers of waitForIdle
    MaxCalls    \* bound on notifications

ASSUME PathsAssumption == Paths # {}
ASSUME CallsAssumption == MaxCalls \in Nat

VARIABLES
    timer,      \* a debounce timer is set
    running,    \* runPass has not settled
    rerun,      \* rerunRequested
    closed,
    full,       \* fullPassRequested
    paths,      \* pendingPaths
    given,      \* what the running pass was asked to scan; Paths when undefined
    waiters,    \* callers whose waitForIdle has not resolved
    calls       \* notifications so far

scheduler == <<timer, running, rerun, closed, full, paths, given, waiters>>
vars      == <<scheduler, calls>>

TypeOK ==
    /\ timer \in BOOLEAN /\ running \in BOOLEAN /\ rerun \in BOOLEAN
    /\ closed \in BOOLEAN /\ full \in BOOLEAN
    /\ paths \subseteq Paths /\ given \subseteq Paths
    /\ waiters \subseteq Callers
    /\ calls \in 0 .. MaxCalls

Init ==
    /\ timer = FALSE /\ running = FALSE /\ rerun = FALSE /\ closed = FALSE
    /\ full = FALSE /\ paths = {} /\ given = {} /\ waiters = {} /\ calls = 0

-----------------------------------------------------------------------------

\* resolveWaiters, run at the end of a step.
ResolveWaiters ==
    waiters' = IF running' \/ timer' \/ rerun' THEN waiters ELSE {}

\* (mutant) a notification during a pass is only remembered
NotifyChangeForgetsRerun(P) ==
    /\ ~closed
    /\ paths' = paths \cup P
    /\ full' = (full \/ P = {})
    /\ timer' = (timer \/ ~running)
    /\ UNCHANGED <<running, rerun, closed, given, waiters>>

\* notifyChange(changedPaths); without paths it asks for a full scan.
NotifyChange(P) ==
    /\ ~closed
    /\ paths' = paths \cup P
    /\ full' = (full \/ P = {})
    /\ IF running THEN rerun' = TRUE /\ timer' = timer
                  ELSE timer' = TRUE /\ rerun' = rerun
    /\ UNCHANGED <<running, closed, given, waiters>>

\* The timer's callback: execute() up to the call of runPass.
TimerFires ==
    /\ timer /\ timer' = FALSE
    /\ IF closed THEN UNCHANGED <<running, rerun, full, paths, given>>
       ELSE IF running THEN rerun' = TRUE /\ UNCHANGED <<running, full, paths, given>>
       ELSE /\ running' = TRUE
            /\ given' = IF full \/ paths = {} THEN Paths ELSE paths
            /\ full' = FALSE /\ paths' = {}
            /\ UNCHANGED rerun
    /\ UNCHANGED <<closed, waiters>>

\* (mutant) the paths are cleared when the pass is over
PassEndsClears ==
    /\ running /\ running' = FALSE
    /\ rerun' = FALSE
    /\ timer' = (timer \/ (rerun /\ ~closed))
    /\ given' = {} /\ paths' = {} /\ full' = FALSE
    /\ ResolveWaiters
    /\ UNCHANGED <<closed>>

\* (mutant) every pass is followed by another
PassEndsReschedules ==
    /\ running /\ running' = FALSE
    /\ rerun' = FALSE
    /\ timer' = ~closed
    /\ given' = {}
    /\ ResolveWaiters
    /\ UNCHANGED <<closed, full, paths>>

\* runPass resolved or threw: the finally block of execute().
PassEnds ==
    /\ running /\ running' = FALSE
    /\ rerun' = FALSE
    /\ timer' = (timer \/ (rerun /\ ~closed))
    /\ given' = {}
    /\ ResolveWaiters
    /\ UNCHANGED <<closed, full, paths>>

\* waitForIdle() of a caller; with nothing to do it resolves at once.
WaitForIdle(c) ==
    /\ running \/ timer \/ rerun
    /\ waiters' = waiters \cup {c}
    /\ UNCHANGED <<timer, running, rerun, closed, full, paths, given>>

\* (mutant) close() leaves those who wait to a pass that may not come
CloseLeavesWaiters ==
    /\ closed' = TRUE /\ timer' = FALSE
    /\ UNCHANGED <<running, rerun, full, paths, given, waiters>>

Close ==
    /\ closed' = TRUE /\ timer' = FALSE
    /\ UNCHANGED <<running, rerun, full, paths, given>>
    /\ ResolveWaiters

Notified == /\ calls < MaxCalls /\ calls' = calls + 1
            /\ \E P \in SUBSET Paths : NotifyChange(P)
Fires    == TimerFires /\ UNCHANGED calls
Settles  == PassEnds /\ UNCHANGED calls
Waits    == (\E c \in Callers : WaitForIdle(c)) /\ UNCHANGED calls
Closes   == Close /\ UNCHANGED calls

Next == Notified \/ Fires \/ Settles \/ Waits \/ Closes

\* A timer fires unless it is restarted for ever, which the bound on
\* notifications excludes, and every pass settles.
Spec == Init /\ [][Next]_vars /\ WF_vars(Fires) /\ WF_vars(Settles)

-----------------------------------------------------------------------------
(* Properties *)

\* What was notified and not yet handed to a pass has a timer, or a running
\* pass that will be followed by another, until the scheduler is closed.
NothingForgotten ==
    full \/ paths # {} => timer \/ (running /\ rerun) \/ closed

\* Nobody waits for a scheduler that has nothing left to do.
NobodyWaitsInVain == waiters # {} => timer \/ running

\* Every waitForIdle resolves, also across reruns and close().
WaitersResolve == \A c \in Callers : c \in waiters ~> c \notin waiters

\* The scheduler keeps the promise of ChangeRequests: passes do not overlap,
\* each is given all that was requested before it, and every request is given
\* to a pass unless the scheduler is closed.
Requests == INSTANCE ChangeRequests
            WITH wanted  <- IF full THEN Paths ELSE paths,
                 serving <- given,
                 busy    <- running

ImplementsChangeRequests == Requests!Spec

\* The inductive invariant behind the theorems of Watcher_proofs.
Consistent ==
    /\ timer => ~running /\ ~closed /\ (full \/ paths # {})
    /\ rerun => running /\ (full \/ paths # {})
    /\ NothingForgotten
    /\ NobodyWaitsInVain
=============================================================================
