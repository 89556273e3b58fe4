----------------------------- MODULE Watcher_proofs -----------------------------
(***************************************************************************)
(* The scheduler, for every set of paths and callers and any number of     *)
(* notifications: no request is forgotten, nobody waits in vain, and every *)
(* step is a step of ChangeRequests or leaves it alone.  The watcher that  *)
(* uses it, for every number of edits and faults, provided no edit falls   *)
(* before chokidar is ready: a healthy status is true.  What is edited     *)
(* after a pass has scanned leaves something behind that leads to another  *)
(* pass; Pending lists what that can be.                                   *)
(***************************************************************************)
EXTENDS Watcher, TLAPS

-----------------------------------------------------------------------------
(* The scheduler *)

LEMMA ConsistentInit == Init => TypeOK /\ Consistent
<1> SUFFICES ASSUME Init PROVE TypeOK /\ Consistent
  OBVIOUS
<1>1. /\ timer = FALSE /\ running = FALSE /\ rerun = FALSE /\ closed = FALSE
      /\ full = FALSE /\ paths = {} /\ given = {} /\ waiters = {}
  BY DEF Init
<1>2. calls \in 0 .. MaxCalls
  BY CallsAssumption DEF Init
<1> QED BY <1>1, <1>2 DEF TypeOK, Consistent, NothingForgotten, NobodyWaitsInVain

LEMMA TypeStep ==
    ASSUME TypeOK, [Next]_vars
    PROVE  TypeOK'
<1> USE DEF TypeOK
<1>1. CASE UNCHANGED vars
  BY <1>1 DEF vars, scheduler
<1>2. ASSUME Notified, NEW P \in SUBSET Paths, NotifyChange(P)
      PROVE  TypeOK'
  <2>1. calls' \in 0 .. MaxCalls
    BY <1>2, CallsAssumption DEF Notified, NotifyChange
  <2>2. full' \in BOOLEAN
    BY <1>2 DEF Notified, NotifyChange
  <2> QED BY <1>2, <2>1, <2>2 DEF Notified, NotifyChange
<1>3. CASE Fires
  BY <1>3 DEF Fires, TimerFires
<1>4. CASE Settles
  <2>1. timer' \in BOOLEAN
    BY <1>4 DEF Settles, PassEnds
  <2> QED BY <1>4, <2>1 DEF Settles, PassEnds, ResolveWaiters
<1>5. ASSUME Waits, NEW c \in Callers, WaitForIdle(c)
      PROVE  TypeOK'
  BY <1>5 DEF Waits, WaitForIdle
<1>6. CASE Closes
  BY <1>6 DEF Closes, Close, ResolveWaiters
<1> QED BY <1>1, <1>2, <1>3, <1>4, <1>5, <1>6 DEF Next, Notified, Waits

\* A timer excludes a running pass and a closed scheduler, and there is a timer
\* or a rerun exactly when something is still requested.
LEMMA ConsistentStep ==
    ASSUME TypeOK, Consistent, [Next]_vars
    PROVE  Consistent'
<1> USE DEF TypeOK, Consistent, NothingForgotten, NobodyWaitsInVain
<1>1. CASE UNCHANGED vars
  BY <1>1 DEF vars, scheduler
<1>2. ASSUME Notified, NEW P \in SUBSET Paths, NotifyChange(P)
      PROVE  Consistent'
  <2>1. full' \/ paths' # {}
    BY <1>2 DEF Notified, NotifyChange
  <2> QED BY <1>2, <2>1 DEF Notified, NotifyChange
<1>3. CASE Fires
  BY <1>3 DEF Fires, TimerFires
<1>4. CASE Settles
  <2>1. timer' = (rerun /\ ~closed)
    BY <1>4 DEF Settles, PassEnds
  <2> QED BY <1>4, <2>1 DEF Settles, PassEnds, ResolveWaiters
<1>5. ASSUME Waits, NEW c \in Callers, WaitForIdle(c)
      PROVE  Consistent'
  BY <1>5 DEF Waits, WaitForIdle
<1>6. CASE Closes
  BY <1>6 DEF Closes, Close, ResolveWaiters
<1> QED BY <1>1, <1>2, <1>3, <1>4, <1>5, <1>6 DEF Next, Notified, Waits

LEMMA ConsistentInvariant == Spec => [](TypeOK /\ Consistent)
<1> QED BY ConsistentInit, TypeStep, ConsistentStep, PTL DEF Spec

\* A request that no pass has taken has a timer or a rerun to take it, until
\* close() (the drain of execute() against notifications during the pass).
THEOREM NothingIsForgotten == Spec => []NothingForgotten
<1>1. Consistent => NothingForgotten
  BY DEF Consistent
<1> QED BY <1>1, ConsistentInvariant, PTL

\* Every pending waitForIdle has a timer or a pass that will resolve it, also
\* after close().
THEOREM NoVainWait == Spec => []NobodyWaitsInVain
<1>1. Consistent => NobodyWaitsInVain
  BY DEF Consistent
<1> QED BY <1>1, ConsistentInvariant, PTL

\* Every step of the scheduler is a step of ChangeRequests, or leaves it alone.
LEMMA SchedulerStep ==
    ASSUME TypeOK, Consistent, [Next]_vars
    PROVE  Requests!Next \/ UNCHANGED Requests!vars
<1> USE DEF TypeOK, Consistent, Requests!vars
<1>1. CASE UNCHANGED vars
  BY <1>1 DEF vars, scheduler
<1>2. ASSUME Notified, NEW P \in SUBSET Paths, NotifyChange(P)
      PROVE  Requests!Next
  <2> DEFINE asked == IF P = {} THEN Paths ELSE P
  <2>1. asked \in SUBSET Paths /\ asked # {}
    BY PathsAssumption
  <2>2. /\ ~closed /\ UNCHANGED <<given, running, closed>>
        /\ paths' = paths \cup P /\ full' = (full \/ P = {})
    BY <1>2 DEF Notified, NotifyChange
  <2>3. (IF full' THEN Paths ELSE paths') = (IF full THEN Paths ELSE paths) \cup asked
    <3>1. CASE P = {}
      <4>1. full'
        BY <2>2, <3>1
      <4> QED BY <3>1, <4>1
    <3>2. CASE P # {}
      <4>1. full' = full
        BY <2>2, <3>2
      <4> QED BY <2>2, <3>2, <4>1
    <3> QED BY <3>1, <3>2
  <2>4. Requests!Request(asked)
    BY <2>1, <2>2, <2>3 DEF Requests!Request
  <2> QED BY <2>1, <2>4 DEF Requests!Next
<1>3. CASE Fires
  <2>1. /\ ~closed /\ ~running /\ (full \/ paths # {})
        /\ running' = TRUE /\ closed' = closed
        /\ given' = IF full \/ paths = {} THEN Paths ELSE paths
        /\ full' = FALSE /\ paths' = {}
    BY <1>3 DEF Fires, TimerFires
  <2>2. /\ given' = IF full THEN Paths ELSE paths
        /\ (IF full THEN Paths ELSE paths) # {}
    BY <2>1, PathsAssumption
  <2>3. Requests!Serve
    BY <2>1, <2>2 DEF Requests!Serve
  <2> QED BY <2>3 DEF Requests!Next
<1>4. CASE Settles
  <2>1. Requests!Finish
    BY <1>4 DEF Settles, PassEnds, Requests!Finish
  <2> QED BY <2>1 DEF Requests!Next
<1>5. ASSUME Waits, NEW c \in Callers, WaitForIdle(c)
      PROVE  UNCHANGED Requests!vars
  BY <1>5 DEF Waits, WaitForIdle
<1>6. CASE Closes
  <2>1. closed' = TRUE /\ UNCHANGED <<full, paths, given, running>>
    BY <1>6 DEF Closes, Close
  <2>2. Requests!Shut
    BY <2>1 DEF Requests!Shut
  <2> QED BY <2>2 DEF Requests!Next
<1> QED BY <1>1, <1>2, <1>3, <1>4, <1>5, <1>6 DEF Next, Notified, Waits

\* The scheduler implements the safety part of ChangeRequests: passes do not
\* overlap, and each takes all that was requested before it.
THEOREM SchedulerImplementsRequests ==
    Spec => Requests!Init /\ [][Requests!Next]_(Requests!vars)
<1>1. Init => Requests!Init
  BY DEF Init, Requests!Init
<1>2. TypeOK /\ Consistent /\ [Next]_vars => [Requests!Next]_(Requests!vars)
  BY SchedulerStep
<1> QED BY <1>1, <1>2, ConsistentInvariant, PTL DEF Spec

-----------------------------------------------------------------------------
(* The watcher *)

Own == {"initial", "scheduled"}

\* Some own pass has yet to scan, or will be started.
Pending ==
    \/ unseen \/ timer \/ rerun \/ retries > 0
    \/ \E p \in Own : at[p] \in {"start", "locked"}

WatcherTypes ==
    /\ timer \in BOOLEAN /\ running \in BOOLEAN /\ rerun \in BOOLEAN
    /\ edits \in Nat /\ index \in Nat
    /\ ready \in BOOLEAN /\ unseen \in BOOLEAN
    /\ at \in [Passes -> {"none", "start", "locked", "scanned"}]
    /\ saw \in [Passes -> Nat]
    /\ lock \in Passes \cup {"none"}
    /\ retries \in Nat
    /\ changed \in BOOLEAN /\ failed \in BOOLEAN

\* The scheduler's flags and pass agree, and who has the lock is past it.
Orderly ==
    /\ ~closed
    /\ timer => ~running
    /\ rerun => running
    /\ running <=> at["scheduled"] # "none"
    /\ \A p \in Passes : at[p] \in {"locked", "scanned"} <=> lock = p

\* A scan that misses an edit, or an index that does, has something pending;
\* a stale index may also be awaiting an own pass or be reported.
NothingMissed ==
    /\ index <= edits
    /\ \A p \in Passes : saw[p] <= edits
    /\ \A p \in Passes : at[p] = "scanned" /\ saw[p] # edits => Pending
    /\ index # edits => Pending \/ Stale \/ \E p \in Own : at[p] = "scanned"

WatcherConsistent == WatcherTypes /\ Orderly /\ NothingMissed

LEMMA WatcherConsistentInit == WatcherInit => WatcherConsistent
<1> SUFFICES ASSUME WatcherInit PROVE WatcherConsistent
  OBVIOUS
<1> USE DEF WatcherInit, Init, Passes, Own
<1>1. WatcherTypes
  BY DEF WatcherTypes
<1>2. Orderly
  BY DEF Orderly
<1>3. NothingMissed
  BY DEF NothingMissed, Pending
<1> QED BY <1>1, <1>2, <1>3 DEF WatcherConsistent

LEMMA WatcherTypesStep ==
    ASSUME WatcherTypes, Orderly, [WatcherNext]_all
    PROVE  WatcherTypes'
<1> USE DEF WatcherTypes, Passes
<1>1. CASE UNCHANGED all
  BY <1>1 DEF all, vars, scheduler, world, work, status
<1>2. CASE Ready
  BY <1>2 DEF Ready, vars, scheduler, world, work, status
<1>3. CASE Edit
  BY <1>3 DEF Edit, vars, scheduler, world, work, status
<1>4. CASE HandleChange
  BY <1>4 DEF HandleChange, NotifyChange, vars, scheduler, world, work, status
<1>5. CASE StartScheduled
  BY <1>5 DEF StartScheduled, TimerFires, vars, scheduler, world, work, status
<1>6. CASE OtherStarts
  BY <1>6 DEF OtherStarts, Inject, vars, scheduler, world, work, status
<1>7. ASSUME NEW p \in Passes, TakeLock(p)
      PROVE  WatcherTypes'
  BY <1>7 DEF TakeLock, vars, scheduler, world, work, status
<1>8. ASSUME NEW p \in Passes, Skip(p)
      PROVE  WatcherTypes'
  <2>1. retries' \in Nat /\ timer' \in BOOLEAN
    <3>1. CASE p = "scheduled"
      BY <1>8, <3>1 DEF Skip, Settled, PassEnds
    <3>2. CASE p # "scheduled"
      BY <1>8, <3>2 DEF Skip, Settled, vars, scheduler
    <3> QED BY <3>1, <3>2
  <2>2. running' \in BOOLEAN /\ rerun' \in BOOLEAN
    BY <1>8 DEF Skip, Settled, PassEnds, vars, scheduler
  <2>3. at' \in [Passes -> {"none", "start", "locked", "scanned"}]
    BY <1>8 DEF Skip, Settled
  <2> QED BY <1>8, <2>1, <2>2, <2>3 DEF Skip, world, status
<1>9. ASSUME NEW p \in Passes, Scan(p)
      PROVE  WatcherTypes'
  BY <1>9 DEF Scan, vars, scheduler, world, work, status
<1>10. ASSUME NEW p \in Passes, Succeed(p)
      PROVE  WatcherTypes'
  BY <1>10 DEF Succeed, Settled, PassEnds, vars, scheduler, world, work, status
<1>11. ASSUME NEW p \in Passes, Fail(p)
      PROVE  WatcherTypes'
  BY <1>11 DEF Fail, Inject, Settled, PassEnds, vars, scheduler, world, work, status
<1>12. CASE RetryFires
  <2>1. retries' \in Nat
    BY <1>12 DEF RetryFires
  <2> QED BY <1>12, <2>1 DEF RetryFires, NotifyChange, world, work, status
<1> QED BY <1>1, <1>2, <1>3, <1>4, <1>5, <1>6, <1>7, <1>8, <1>9,
     <1>10, <1>11, <1>12
     DEF WatcherNext, PassStep

LEMMA OrderlyStep ==
    ASSUME WatcherTypes, Orderly, [WatcherNext]_all
    PROVE  Orderly'
<1> USE DEF WatcherTypes, Orderly, Passes
<1>1. CASE UNCHANGED all
  BY <1>1 DEF all, vars, scheduler, world, work, status
<1>2. CASE Ready
  BY <1>2 DEF Ready, vars, scheduler, world, work, status
<1>3. CASE Edit
  BY <1>3 DEF Edit, vars, scheduler, world, work, status
<1>4. CASE HandleChange
  BY <1>4 DEF HandleChange, NotifyChange, vars, scheduler, world, work, status
<1>5. CASE StartScheduled
  BY <1>5 DEF StartScheduled, TimerFires, vars, scheduler, world, work, status
<1>6. CASE OtherStarts
  BY <1>6 DEF OtherStarts, Inject, vars, scheduler, world, work, status
<1>7. ASSUME NEW p \in Passes, TakeLock(p)
      PROVE  Orderly'
  BY <1>7 DEF TakeLock, vars, scheduler, world, work, status
<1>8. ASSUME NEW p \in Passes, Skip(p)
      PROVE  Orderly'
  BY <1>8 DEF Skip, Settled, PassEnds, vars, scheduler, world, work, status
<1>9. ASSUME NEW p \in Passes, Scan(p)
      PROVE  Orderly'
  BY <1>9 DEF Scan, vars, scheduler, world, work, status
<1>10. ASSUME NEW p \in Passes, Succeed(p)
      PROVE  Orderly'
  BY <1>10 DEF Succeed, Settled, PassEnds, vars, scheduler, world, work, status
<1>11. ASSUME NEW p \in Passes, Fail(p)
      PROVE  Orderly'
  BY <1>11 DEF Fail, Inject, Settled, PassEnds, vars, scheduler, world, work, status
<1>12. CASE RetryFires
  BY <1>12 DEF RetryFires, NotifyChange, vars, scheduler, world, work, status
<1> QED BY <1>1, <1>2, <1>3, <1>4, <1>5, <1>6, <1>7, <1>8, <1>9,
     <1>10, <1>11, <1>12
     DEF WatcherNext, PassStep

LEMMA NothingMissedStep ==
    ASSUME WatcherTypes, Orderly, NothingMissed, [WatcherNext]_all,
           "early" \notin Faults
    PROVE  NothingMissed'
<1> USE DEF WatcherTypes, Orderly, NothingMissed, Pending, Stale, Passes, Own
<1>1. CASE UNCHANGED all
  BY <1>1 DEF all, vars, scheduler, world, work, status
<1>2. CASE Ready
  BY <1>2 DEF Ready, vars, scheduler, world, work, status
<1>3. CASE Edit
  BY <1>3 DEF Edit, vars, scheduler, world, work, status
<1>4. CASE HandleChange
  BY <1>4 DEF HandleChange, NotifyChange, vars, scheduler, world, work, status
<1>5. CASE StartScheduled
  BY <1>5 DEF StartScheduled, TimerFires, vars, scheduler, world, work, status
<1>6. CASE OtherStarts
  BY <1>6 DEF OtherStarts, Inject, vars, scheduler, world, work, status
<1>7. ASSUME NEW p \in Passes, TakeLock(p)
      PROVE  NothingMissed'
  BY <1>7 DEF TakeLock, vars, scheduler, world, work, status
<1>8. ASSUME NEW p \in Passes, Skip(p)
      PROVE  NothingMissed'
  BY <1>8 DEF Skip, Settled, PassEnds, vars, scheduler, world, work, status
<1>9. ASSUME NEW p \in Passes, Scan(p)
      PROVE  NothingMissed'
  BY <1>9 DEF Scan, vars, scheduler, world, work, status
<1>10. ASSUME NEW p \in Passes, Succeed(p)
      PROVE  NothingMissed'
  BY <1>10 DEF Succeed, Settled, PassEnds, vars, scheduler, world, work, status
<1>11. ASSUME NEW p \in Passes, Fail(p)
      PROVE  NothingMissed'
  BY <1>11 DEF Fail, Inject, Settled, PassEnds, vars, scheduler, world, work, status
<1>12. CASE RetryFires
  BY <1>12 DEF RetryFires, NotifyChange, vars, scheduler, world, work, status
<1> QED BY <1>1, <1>2, <1>3, <1>4, <1>5, <1>6, <1>7, <1>8, <1>9,
     <1>10, <1>11, <1>12
     DEF WatcherNext, PassStep

-----------------------------------------------------------------------------

\* A watcher at rest whose status reports no problem has an index that
\* reflects every edit, however passes are skipped, fail, or meet those of
\* other processes.
THEOREM HealthyMeansCurrent ==
    ASSUME "early" \notin Faults
    PROVE  WatcherSpec => []HealthIsHonest
<1>1. WatcherConsistent /\ [WatcherNext]_all => WatcherConsistent'
  BY WatcherTypesStep, OrderlyStep, NothingMissedStep DEF WatcherConsistent
<1>2. WatcherConsistent => HealthIsHonest
  BY DEF WatcherConsistent, WatcherTypes, Orderly, NothingMissed, Pending, Own, HealthIsHonest, Idle
<1> QED BY <1>1, <1>2, WatcherConsistentInit, PTL DEF WatcherSpec
=============================================================================
