----------------------------- MODULE MCWatching -----------------------------
(***************************************************************************)
(* Who indexes: the scheduler with callers of every operation, the watcher *)
(* around it, the lock files of a machine, and the lease and epochs of the *)
(* machines that share a store, each for itself: a behaviour is one of one *)
(* of them.                                                                *)
(***************************************************************************)
EXTENDS Watcher, StoreLocks, CentralStore
CONSTANTS p1, p2, c1, c2, a, b
VARIABLE part

TwoPaths == {p1, p2}
TwoCallers == {c1, c2}
TwoProcs == {a, b}
TwoMachines == {a, b}
ThreeEpochs == 1..3

WatchingInit ==
    /\ part \in {"scheduler", "watcher", "locks", "central"}
    /\ WatcherInit /\ LocksInit /\ CentralInit

WatchingNext ==
    /\ part' = part
    /\ \/ part = "scheduler" /\ Next /\ UNCHANGED <<world, work, retries, status, locks, central>>
       \/ part = "watcher" /\ WatcherNext /\ UNCHANGED <<locks, central>>
       \/ part = "locks" /\ LocksNext /\ UNCHANGED <<all, central>>
       \/ part = "central" /\ CentralNext /\ UNCHANGED <<all, locks>>

\* The fairness of each part, where it is the part that runs.  Machines go on with
\* what they do, and try again for the lease; the lease of a machine that is gone
\* expires; a handle in use looks at the epoch again.
WatchingSpec ==
    /\ WatchingInit /\ [][WatchingNext]_<<all, locks, central, part>>
    /\ WF_vars(part = "scheduler" /\ Fires) /\ WF_vars(part = "scheduler" /\ Settles)
    /\ WF_all(part = "watcher" /\ HandleChange) /\ WF_all(part = "watcher" /\ StartScheduled)
    /\ WF_all(part = "watcher" /\ RetryFires)
    /\ \A p \in Passes :
          WF_all(part = "watcher" /\ (TakeLock(p) \/ Skip(p) \/ Scan(p) \/ Succeed(p)))
    /\ \A p \in Procs : WF_locks(part = "locks" /\ ClaimStep(p))
    /\ \A m \in Machines :
          /\ WF_central(part = "central" /\ (WriteLease(m) \/ Confirm(m)))
          /\ WF_central(part = "central" /\ CentralStep(m))
          /\ WF_central(part = "central" /\ WriteRenewal(m))
          /\ WF_central(part = "central" /\ Refresh(m))
          /\ SF_central(part = "central" /\ ReadLease(m))
    /\ WF_central(part = "central" /\ Unattended /\ Expire)

\* The index ends up reflecting every edit, or the status says that it does
\* not, where there is a watcher.
CurrentOrStale == <>[](part # "watcher" \/ index = edits \/ Stale)

\* While a process waits for the workspace, some process will watch it, also
\* when the one that did has died, as long as no id is used twice.
SomeoneWatches ==
    \A p \in Procs :
        part = "locks" /\ Waiting(p) ~> \/ ~ Waiting(p) \/ "reused" \in disturbed
                                       \/ \E q \in Procs : claim[q] = "active"

\* A crash leaves a lease behind that nobody releases.  Passes go on.
SomeMachineIndexes ==
    []<>(part # "central" \/ upset \/ \E m \in Machines : Indexing(m))
=============================================================================
