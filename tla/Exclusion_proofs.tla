--------------------------- MODULE Exclusion_proofs ---------------------------
(***************************************************************************)
(* Who may write, for any processes and machines and any faults: the lock  *)
(* files of one machine (StoreLocks), and the lease and the _meta row of   *)
(* the machines that share a central store (CentralStore).                 *)
(***************************************************************************)
EXTENDS StoreLocks, CentralStore, TLAPS

-----------------------------------------------------------------------------
(* StoreLocks: LocksTypeOK is inductive; on top of it, each safety property *)
(* has an invariant that says which file belongs to whom. *)

\* While nothing has upset the locks: whoever is in a pass is named in the
\* lock, and no lock read as free belongs to a living process.
PassesOwnTheLock ==
    disturbed = {} =>
        /\ \A p \in Procs : InPass(p) => p \in alive /\ indexLock = p
        /\ \A p \in Procs : checked[p] \notin alive
        /\ cleaner \notin alive

\* The same for watcher.lock, which a claimant owns from its creation on.
ClaimsOwnTheLock ==
    disturbed = {} =>
        /\ \A p \in Procs : claim[p] \in {"write", "active"}
                              => p \in alive /\ watcherLock = p
        /\ \A p \in Procs : claim[p] = "active" => written
        /\ \A p \in Procs : seen[p] \notin alive

\* Unless an id is used twice, a file of a living process is in use, or about
\* to be.
FilesAreInUse ==
    "reused" \notin disturbed =>
        /\ indexLock \in alive => InPass(indexLock)
        /\ watcherLock \in alive =>
              claim[watcherLock] = IF written THEN "active" ELSE "write"

\* Who is dead does nothing.
TheDeadRest ==
    \A p \in Procs : p \notin alive => pass[p] = "idle" /\ claim[p] = "closed"

-----------------------------------------------------------------------------

LEMMA TypeInit == LocksInit => LocksTypeOK
<1> SUFFICES ASSUME LocksInit PROVE LocksTypeOK
  OBVIOUS
<1>1. lockFaults \in 0 .. MaxLockFaults
  BY LockFaultsAssumption DEF LocksInit
<1> QED BY <1>1 DEF LocksInit, LocksTypeOK, Anyone

LEMMA TypeStep ==
    ASSUME LocksTypeOK, [LocksNext]_locks
    PROVE  LocksTypeOK'
<1> USE DEF LocksTypeOK, Anyone
<1>1. CASE UNCHANGED locks
  BY <1>1 DEF locks, passing, watching
<1>2. ASSUME NEW p \in Procs, ReadIndexLock(p)
      PROVE  LocksTypeOK'
  BY <1>2 DEF ReadIndexLock, watching
<1>3. ASSUME NEW p \in Procs, WriteIndexLock(p)
      PROVE  LocksTypeOK'
  BY <1>3 DEF WriteIndexLock, Races, watching
<1>4. ASSUME NEW p \in Procs, CannotWriteIndexLock(p)
      PROVE  LocksTypeOK'
  <2>1. lockFaults' \in 0 .. MaxLockFaults
    BY <1>4, LockFaultsAssumption DEF CannotWriteIndexLock, Fault
  <2> QED BY <1>4, <2>1 DEF CannotWriteIndexLock, passing, watching
<1>5. ASSUME NEW p \in Procs, LeaseGranted(p)
      PROVE  LocksTypeOK'
  BY <1>5 DEF LeaseGranted, watching
<1>6. ASSUME NEW p \in Procs, LeaseRefused(p)
      PROVE  LocksTypeOK'
  BY <1>6 DEF LeaseRefused, watching
<1>7. ASSUME NEW p \in Procs, SwapStore(p)
      PROVE  LocksTypeOK'
  <2>1. lockFaults' \in 0 .. MaxLockFaults
    BY <1>7, LockFaultsAssumption DEF SwapStore, Fault
  <2> QED BY <1>7, <2>1 DEF SwapStore, passing, watching
<1>8. ASSUME NEW p \in Procs, EndPass(p)
      PROVE  LocksTypeOK'
  BY <1>8 DEF EndPass, watching
<1>9. ASSUME NEW p \in Procs, ReadWatcherLock(p)
      PROVE  LocksTypeOK'
  BY <1>9 DEF ReadWatcherLock, WatcherLockOwner, passing
<1>10. ASSUME NEW p \in Procs, UnlinkWatcherLock(p)
      PROVE  LocksTypeOK'
  BY <1>10 DEF UnlinkWatcherLock, Races, passing
<1>11. ASSUME NEW p \in Procs, CreateWatcherLock(p)
      PROVE  LocksTypeOK'
  BY <1>11 DEF CreateWatcherLock, passing
<1>12. ASSUME NEW p \in Procs, LoseWatcherLock(p)
      PROVE  LocksTypeOK'
  BY <1>12 DEF LoseWatcherLock, passing
<1>13. ASSUME NEW p \in Procs, StartActive(p)
      PROVE  LocksTypeOK'
  BY <1>13 DEF StartActive, passing
<1>14. ASSUME NEW p \in Procs, CloseWatcher(p)
      PROVE  LocksTypeOK'
  BY <1>14 DEF CloseWatcher, WatcherLockOwner, passing
<1>15. ASSUME NEW p \in Procs, Crash(p)
      PROVE  LocksTypeOK'
  <2>1. lockFaults' \in 0 .. MaxLockFaults
    BY <1>15, LockFaultsAssumption DEF Crash, Fault
  <2> QED BY <1>15, <2>1 DEF Crash, passing
<1>16. ASSUME NEW p \in Procs, Restart(p)
      PROVE  LocksTypeOK'
  <2>1. lockFaults' \in 0 .. MaxLockFaults
    BY <1>16, LockFaultsAssumption DEF Restart, Fault
  <2> QED BY <1>16, <2>1 DEF Restart, passing
<1>17. CASE StatusReads
  BY <1>17 DEF StatusReads, watching
<1>18. CASE StatusRemoves
  BY <1>18 DEF StatusRemoves, Races, watching
<1> QED BY <1>1, <1>2, <1>3, <1>4, <1>5, <1>6, <1>7, <1>8, <1>9,
     <1>10, <1>11, <1>12, <1>13, <1>14, <1>15, <1>16, <1>17, <1>18
     DEF LocksNext, LockPassStep, ClaimStep

LEMMA TheDeadRestStep ==
    ASSUME LocksTypeOK, TheDeadRest, [LocksNext]_locks
    PROVE  TheDeadRest'
<1> USE DEF LocksTypeOK, TheDeadRest
<1>1. CASE UNCHANGED locks
  BY <1>1 DEF locks, passing, watching
<1>2. ASSUME NEW p \in Procs, ReadIndexLock(p)
      PROVE  TheDeadRest'
  BY <1>2 DEF ReadIndexLock, watching
<1>3. ASSUME NEW p \in Procs, WriteIndexLock(p)
      PROVE  TheDeadRest'
  BY <1>3 DEF WriteIndexLock, Races, watching
<1>4. ASSUME NEW p \in Procs, CannotWriteIndexLock(p)
      PROVE  TheDeadRest'
  BY <1>4 DEF CannotWriteIndexLock, Fault, watching
<1>5. ASSUME NEW p \in Procs, LeaseGranted(p)
      PROVE  TheDeadRest'
  BY <1>5 DEF LeaseGranted, watching
<1>6. ASSUME NEW p \in Procs, LeaseRefused(p)
      PROVE  TheDeadRest'
  BY <1>6 DEF LeaseRefused, watching
<1>7. ASSUME NEW p \in Procs, SwapStore(p)
      PROVE  TheDeadRest'
  BY <1>7 DEF SwapStore, Fault, watching
<1>8. ASSUME NEW p \in Procs, EndPass(p)
      PROVE  TheDeadRest'
  BY <1>8 DEF EndPass, watching
<1>9. ASSUME NEW p \in Procs, ReadWatcherLock(p)
      PROVE  TheDeadRest'
  BY <1>9 DEF ReadWatcherLock, WatcherLockOwner, passing
<1>10. ASSUME NEW p \in Procs, UnlinkWatcherLock(p)
      PROVE  TheDeadRest'
  BY <1>10 DEF UnlinkWatcherLock, Races, passing
<1>11. ASSUME NEW p \in Procs, CreateWatcherLock(p)
      PROVE  TheDeadRest'
  BY <1>11 DEF CreateWatcherLock, passing
<1>12. ASSUME NEW p \in Procs, LoseWatcherLock(p)
      PROVE  TheDeadRest'
  BY <1>12 DEF LoseWatcherLock, passing
<1>13. ASSUME NEW p \in Procs, StartActive(p)
      PROVE  TheDeadRest'
  BY <1>13 DEF StartActive, passing
<1>14. ASSUME NEW p \in Procs, CloseWatcher(p)
      PROVE  TheDeadRest'
  BY <1>14 DEF CloseWatcher, WatcherLockOwner, passing
<1>15. ASSUME NEW p \in Procs, Crash(p)
      PROVE  TheDeadRest'
  BY <1>15 DEF Crash, Fault, passing
<1>16. ASSUME NEW p \in Procs, Restart(p)
      PROVE  TheDeadRest'
  BY <1>16 DEF Restart, Remembered, Fault, passing
<1>17. CASE StatusReads
  BY <1>17 DEF StatusReads, watching
<1>18. CASE StatusRemoves
  BY <1>18 DEF StatusRemoves, Races, watching
<1> QED BY <1>1, <1>2, <1>3, <1>4, <1>5, <1>6, <1>7, <1>8, <1>9,
     <1>10, <1>11, <1>12, <1>13, <1>14, <1>15, <1>16, <1>17, <1>18
     DEF LocksNext, LockPassStep, ClaimStep

LEMMA FilesAreInUseStep ==
    ASSUME LocksTypeOK, TheDeadRest, FilesAreInUse, [LocksNext]_locks
    PROVE  FilesAreInUse'
<1> USE NobodyAssumption DEF LocksTypeOK, TheDeadRest, FilesAreInUse, InPass
<1>1. CASE UNCHANGED locks
  BY <1>1 DEF locks, passing, watching
<1>2. ASSUME NEW p \in Procs, ReadIndexLock(p)
      PROVE  FilesAreInUse'
  BY <1>2 DEF ReadIndexLock, watching
<1>3. ASSUME NEW p \in Procs, WriteIndexLock(p)
      PROVE  FilesAreInUse'
  BY <1>3 DEF WriteIndexLock, Races, watching
<1>4. ASSUME NEW p \in Procs, CannotWriteIndexLock(p)
      PROVE  FilesAreInUse'
  BY <1>4 DEF CannotWriteIndexLock, Fault, watching
<1>5. ASSUME NEW p \in Procs, LeaseGranted(p)
      PROVE  FilesAreInUse'
  BY <1>5 DEF LeaseGranted, watching
<1>6. ASSUME NEW p \in Procs, LeaseRefused(p)
      PROVE  FilesAreInUse'
  BY <1>6 DEF LeaseRefused, watching
<1>7. ASSUME NEW p \in Procs, SwapStore(p)
      PROVE  FilesAreInUse'
  BY <1>7 DEF SwapStore, Fault, watching
<1>8. ASSUME NEW p \in Procs, EndPass(p)
      PROVE  FilesAreInUse'
  BY <1>8 DEF EndPass, watching
<1>9. ASSUME NEW p \in Procs, ReadWatcherLock(p)
      PROVE  FilesAreInUse'
  BY <1>9 DEF ReadWatcherLock, WatcherLockOwner, passing
<1>10. ASSUME NEW p \in Procs, UnlinkWatcherLock(p)
      PROVE  FilesAreInUse'
  BY <1>10 DEF UnlinkWatcherLock, Races, passing
<1>11. ASSUME NEW p \in Procs, CreateWatcherLock(p)
      PROVE  FilesAreInUse'
  BY <1>11 DEF CreateWatcherLock, passing
<1>12. ASSUME NEW p \in Procs, LoseWatcherLock(p)
      PROVE  FilesAreInUse'
  BY <1>12 DEF LoseWatcherLock, passing
<1>13. ASSUME NEW p \in Procs, StartActive(p)
      PROVE  FilesAreInUse'
  BY <1>13 DEF StartActive, passing
<1>14. ASSUME NEW p \in Procs, CloseWatcher(p)
      PROVE  FilesAreInUse'
  BY <1>14 DEF CloseWatcher, WatcherLockOwner, passing
<1>15. ASSUME NEW p \in Procs, Crash(p)
      PROVE  FilesAreInUse'
  BY <1>15 DEF Crash, Fault, passing
<1>16. ASSUME NEW p \in Procs, Restart(p)
      PROVE  FilesAreInUse'
  BY <1>16 DEF Restart, Remembered, Fault, passing
<1>17. CASE StatusReads
  BY <1>17 DEF StatusReads, watching
<1>18. CASE StatusRemoves
  BY <1>18 DEF StatusRemoves, Races, watching
<1> QED BY <1>1, <1>2, <1>3, <1>4, <1>5, <1>6, <1>7, <1>8, <1>9,
     <1>10, <1>11, <1>12, <1>13, <1>14, <1>15, <1>16, <1>17, <1>18
     DEF LocksNext, LockPassStep, ClaimStep

LEMMA PassesOwnTheLockStep ==
    ASSUME LocksTypeOK, TheDeadRest, PassesOwnTheLock, [LocksNext]_locks
    PROVE  PassesOwnTheLock'
<1> USE NobodyAssumption DEF LocksTypeOK, TheDeadRest, PassesOwnTheLock, InPass
<1>1. CASE UNCHANGED locks
  BY <1>1 DEF locks, passing, watching
<1>2. ASSUME NEW p \in Procs, ReadIndexLock(p)
      PROVE  PassesOwnTheLock'
  BY <1>2 DEF ReadIndexLock, watching
<1>3. ASSUME NEW p \in Procs, WriteIndexLock(p)
      PROVE  PassesOwnTheLock'
  BY <1>3 DEF WriteIndexLock, Races, watching
<1>4. ASSUME NEW p \in Procs, CannotWriteIndexLock(p)
      PROVE  PassesOwnTheLock'
  BY <1>4 DEF CannotWriteIndexLock, Fault, watching
<1>5. ASSUME NEW p \in Procs, LeaseGranted(p)
      PROVE  PassesOwnTheLock'
  BY <1>5 DEF LeaseGranted, watching
<1>6. ASSUME NEW p \in Procs, LeaseRefused(p)
      PROVE  PassesOwnTheLock'
  BY <1>6 DEF LeaseRefused, watching
<1>7. ASSUME NEW p \in Procs, SwapStore(p)
      PROVE  PassesOwnTheLock'
  BY <1>7 DEF SwapStore, Fault, watching
<1>8. ASSUME NEW p \in Procs, EndPass(p)
      PROVE  PassesOwnTheLock'
  BY <1>8 DEF EndPass, watching
<1>9. ASSUME NEW p \in Procs, ReadWatcherLock(p)
      PROVE  PassesOwnTheLock'
  BY <1>9 DEF ReadWatcherLock, WatcherLockOwner, passing
<1>10. ASSUME NEW p \in Procs, UnlinkWatcherLock(p)
      PROVE  PassesOwnTheLock'
  BY <1>10 DEF UnlinkWatcherLock, Races, passing
<1>11. ASSUME NEW p \in Procs, CreateWatcherLock(p)
      PROVE  PassesOwnTheLock'
  BY <1>11 DEF CreateWatcherLock, passing
<1>12. ASSUME NEW p \in Procs, LoseWatcherLock(p)
      PROVE  PassesOwnTheLock'
  BY <1>12 DEF LoseWatcherLock, passing
<1>13. ASSUME NEW p \in Procs, StartActive(p)
      PROVE  PassesOwnTheLock'
  BY <1>13 DEF StartActive, passing
<1>14. ASSUME NEW p \in Procs, CloseWatcher(p)
      PROVE  PassesOwnTheLock'
  BY <1>14 DEF CloseWatcher, WatcherLockOwner, passing
<1>15. ASSUME NEW p \in Procs, Crash(p)
      PROVE  PassesOwnTheLock'
  BY <1>15 DEF Crash, Fault, passing
<1>16. ASSUME NEW p \in Procs, Restart(p)
      PROVE  PassesOwnTheLock'
  BY <1>16 DEF Restart, Remembered, Fault, passing
<1>17. CASE StatusReads
  BY <1>17 DEF StatusReads, watching
<1>18. CASE StatusRemoves
  BY <1>18 DEF StatusRemoves, Races, watching
<1> QED BY <1>1, <1>2, <1>3, <1>4, <1>5, <1>6, <1>7, <1>8, <1>9,
     <1>10, <1>11, <1>12, <1>13, <1>14, <1>15, <1>16, <1>17, <1>18
     DEF LocksNext, LockPassStep, ClaimStep

LEMMA ClaimsOwnTheLockStep ==
    ASSUME LocksTypeOK, TheDeadRest, ClaimsOwnTheLock, [LocksNext]_locks
    PROVE  ClaimsOwnTheLock'
<1> USE NobodyAssumption DEF LocksTypeOK, TheDeadRest, ClaimsOwnTheLock
<1>1. CASE UNCHANGED locks
  BY <1>1 DEF locks, passing, watching
<1>2. ASSUME NEW p \in Procs, ReadIndexLock(p)
      PROVE  ClaimsOwnTheLock'
  BY <1>2 DEF ReadIndexLock, watching
<1>3. ASSUME NEW p \in Procs, WriteIndexLock(p)
      PROVE  ClaimsOwnTheLock'
  BY <1>3 DEF WriteIndexLock, Races, watching
<1>4. ASSUME NEW p \in Procs, CannotWriteIndexLock(p)
      PROVE  ClaimsOwnTheLock'
  BY <1>4 DEF CannotWriteIndexLock, Fault, watching
<1>5. ASSUME NEW p \in Procs, LeaseGranted(p)
      PROVE  ClaimsOwnTheLock'
  BY <1>5 DEF LeaseGranted, watching
<1>6. ASSUME NEW p \in Procs, LeaseRefused(p)
      PROVE  ClaimsOwnTheLock'
  BY <1>6 DEF LeaseRefused, watching
<1>7. ASSUME NEW p \in Procs, SwapStore(p)
      PROVE  ClaimsOwnTheLock'
  BY <1>7 DEF SwapStore, Fault, watching
<1>8. ASSUME NEW p \in Procs, EndPass(p)
      PROVE  ClaimsOwnTheLock'
  BY <1>8 DEF EndPass, watching
<1>9. ASSUME NEW p \in Procs, ReadWatcherLock(p)
      PROVE  ClaimsOwnTheLock'
  BY <1>9 DEF ReadWatcherLock, WatcherLockOwner, passing
<1>10. ASSUME NEW p \in Procs, UnlinkWatcherLock(p)
      PROVE  ClaimsOwnTheLock'
  BY <1>10 DEF UnlinkWatcherLock, Races, passing
<1>11. ASSUME NEW p \in Procs, CreateWatcherLock(p)
      PROVE  ClaimsOwnTheLock'
  BY <1>11 DEF CreateWatcherLock, passing
<1>12. ASSUME NEW p \in Procs, LoseWatcherLock(p)
      PROVE  ClaimsOwnTheLock'
  BY <1>12 DEF LoseWatcherLock, passing
<1>13. ASSUME NEW p \in Procs, StartActive(p)
      PROVE  ClaimsOwnTheLock'
  BY <1>13 DEF StartActive, passing
<1>14. ASSUME NEW p \in Procs, CloseWatcher(p)
      PROVE  ClaimsOwnTheLock'
  BY <1>14 DEF CloseWatcher, WatcherLockOwner, passing
<1>15. ASSUME NEW p \in Procs, Crash(p)
      PROVE  ClaimsOwnTheLock'
  BY <1>15 DEF Crash, Fault, passing
<1>16. ASSUME NEW p \in Procs, Restart(p)
      PROVE  ClaimsOwnTheLock'
  BY <1>16 DEF Restart, Remembered, Fault, passing
<1>17. CASE StatusReads
  BY <1>17 DEF StatusReads, watching
<1>18. CASE StatusRemoves
  BY <1>18 DEF StatusRemoves, Races, watching
<1> QED BY <1>1, <1>2, <1>3, <1>4, <1>5, <1>6, <1>7, <1>8, <1>9,
     <1>10, <1>11, <1>12, <1>13, <1>14, <1>15, <1>16, <1>17, <1>18
     DEF LocksNext, LockPassStep, ClaimStep

-----------------------------------------------------------------------------

\* The inductive invariant.
LocksConsistent ==
    /\ LocksTypeOK /\ TheDeadRest
    /\ PassesOwnTheLock /\ ClaimsOwnTheLock /\ FilesAreInUse

LEMMA LocksConsistentInit == LocksInit => LocksConsistent
<1> SUFFICES ASSUME LocksInit PROVE LocksConsistent
  OBVIOUS
<1>1. LocksTypeOK
  BY TypeInit
<1>2. TheDeadRest
  BY DEF LocksInit, TheDeadRest
<1>3. PassesOwnTheLock /\ ClaimsOwnTheLock /\ FilesAreInUse
  BY NobodyAssumption DEF LocksInit, PassesOwnTheLock, ClaimsOwnTheLock, FilesAreInUse, InPass
<1> QED BY <1>1, <1>2, <1>3 DEF LocksConsistent

LEMMA LocksStayConsistent == LocksSpec => []LocksConsistent
<1>1. LocksConsistent /\ [LocksNext]_locks => LocksConsistent'
  BY TypeStep, TheDeadRestStep, FilesAreInUseStep, PassesOwnTheLockStep,
     ClaimsOwnTheLockStep DEF LocksConsistent
<1> QED BY <1>1, LocksConsistentInit, PTL DEF LocksSpec

\* Every reachable state is well typed.
THEOREM StoreLocksTypeCorrect == LocksSpec => []LocksTypeOK
<1>1. LocksConsistent => LocksTypeOK
  BY DEF LocksConsistent
<1> QED BY <1>1, LocksStayConsistent, PTL

\* Two processes are never in a pass at the same time, whatever crashes and
\* however their steps interleave, unless a lock is raced for, lost in a
\* rebuild or cannot be written, or a process id is used again.
THEOREM PassesExclude == LocksSpec => []OnePass
<1>1. LocksConsistent => OnePass
  BY DEF LocksConsistent, PassesOwnTheLock, OnePass
<1> QED BY <1>1, LocksStayConsistent, PTL

\* Two processes never watch the workspace at the same time, under the same
\* conditions.
THEOREM WatchersExclude == LocksSpec => []OneWatcher
<1>1. LocksConsistent => OneWatcher
  BY DEF LocksConsistent, ClaimsOwnTheLock, OneWatcher
<1> QED BY <1>1, LocksStayConsistent, PTL

\* A lock of a living process is in use, also after races, rebuilds and
\* crashes: no lock that is left behind blocks the store for ever.
THEOREM NoLockLeftBehind == LocksSpec => []LocksAreInUse
<1>1. LocksConsistent => LocksAreInUse
  BY NobodyAssumption DEF LocksConsistent, LocksTypeOK, FilesAreInUse, LocksAreInUse, WatcherLockOwner
<1> QED BY <1>1, LocksStayConsistent, PTL

-----------------------------------------------------------------------------
(* CentralStore: the lease excludes, and because it does, whoever rewrites *)
(* the _meta row has read the one that is there, so that only complete *)
(* epochs are promoted. *)

\* What a machine is going to write makes sense whatever others do meanwhile.
PendingWrites ==
    \A m \in Machines :
        /\ stage[m] = "beginWrite" => Newest(snap[m]) + 1 \in Epochs
        /\ stage[m] = "promoteWrite" => snap[m].pending # 0
        /\ stage[m] \in {"build", "promote", "promoteWrite", "discard"} => bound[m] # 0

TypeInv == CentralTypeOK /\ PendingWrites

\* Whoever is in a pass holds the lease, and nobody who has read it as free is
\* still going to write it.  A lease whose owner is at work is in use.
HoldersHold ==
    \A m \in Machines :
        /\ Indexing(m) => /\ lease.owner = m
                        /\ \A n \in Machines \ {m} : stage[n] # "leaseWrite"
        /\ lease.owner = m /\ stage[m] \notin {"idle", "leaseWrite"} => lease.live

\* What was read is what is there, a rebuild writes into an epoch of its own,
\* and only a complete one is about to be promoted.
EpochsAgree ==
    /\ \A m \in Machines :
          /\ stage[m] \in {"beginWrite", "promoteWrite", "discardWrite"} => snap[m] = meta
          /\ stage[m] \in {"build", "promote", "promoteWrite"} =>
                /\ bound[m] # meta.active /\ bound[m] <= Newest(meta)
                /\ meta.pending \in {0, bound[m]}
          /\ stage[m] \in {"promote", "promoteWrite"} => rows[bound[m]] = "full"
    /\ complete => rows[meta.active] = "full"

LEMMA CentralTypeInit == CentralInit => TypeInv
<1> SUFFICES ASSUME CentralInit PROVE TypeInv
  OBVIOUS
<1>1. NewStore \in [active : Epochs, pending : Epochs \cup {0}]
  BY CentralAssumption DEF NewStore
<1>2. meddled \in 0..MaxMeddling
  BY CentralAssumption DEF CentralInit
<1>3. NoRows \in {"none", "part", "full"}
  BY DEF NoRows
<1>4. CentralTypeOK
  BY <1>1, <1>2, <1>3, CentralAssumption DEF CentralInit, CentralTypeOK, Steps
<1>5. PendingWrites
  BY DEF CentralInit, PendingWrites
<1> QED BY <1>4, <1>5 DEF TypeInv

LEMMA MeddledStep ==
    ASSUME CentralTypeOK, NEW kind, Calm \/ Meddle(kind)
    PROVE  meddled' \in 0..MaxMeddling
BY CentralAssumption DEF CentralTypeOK, Calm, Meddle

LEMMA EpochsAreNumbers == \A e \in Epochs : e \in Nat /\ e > 0
<1> TAKE e \in Epochs
<1>1. e \in Nat \ {0}
  BY CentralAssumption
<1> QED BY <1>1

LEMMA NewestIsEpoch ==
    ASSUME NEW row \in [active : Epochs, pending : Epochs \cup {0}]
    PROVE  /\ Newest(row) \in Epochs /\ Newest(row) \in Nat
           /\ row.active \in Nat /\ row.active <= Newest(row)
<1>1. row.active \in Epochs /\ row.pending \in Epochs \cup {0}
  OBVIOUS
<1>2. row.active \in Nat /\ row.active > 0
  BY <1>1, EpochsAreNumbers
<1>3. row.pending \in Nat
  BY <1>1, EpochsAreNumbers
<1>4. Newest(row) \in Epochs
  BY <1>1, <1>2, <1>3 DEF Newest
<1> QED BY <1>2, <1>3, <1>4 DEF Newest

LEMMA CentralTypeStep ==
    ASSUME TypeInv, [CentralNext]_central
    PROVE  TypeInv'
<1> USE DEF TypeInv, CentralTypeOK, PendingWrites, Steps, Go, Upset
<1>1. CASE UNCHANGED central
  BY <1>1 DEF central
<1>2. ASSUME NEW m \in Machines, ReadLease(m) PROVE TypeInv'
  BY <1>2 DEF ReadLease, Calm
<1>3. ASSUME NEW m \in Machines, WriteLease(m) PROVE TypeInv'
  BY <1>3 DEF WriteLease, Calm
<1>4. ASSUME NEW m \in Machines, Confirm(m) PROVE TypeInv'
  <2>1. meddled' \in 0..MaxMeddling
    BY <1>4, MeddledStep DEF Confirm
  <2> QED BY <1>4, <2>1 DEF Confirm
<1>5. ASSUME NEW m \in Machines, ReadRenewal(m) PROVE TypeInv'
  BY <1>5 DEF ReadRenewal, Calm
<1>6. ASSUME NEW m \in Machines, WriteRenewal(m) PROVE TypeInv'
  <2>1. meddled' \in 0..MaxMeddling
    BY <1>6, MeddledStep DEF WriteRenewal
  <2> QED BY <1>6, <2>1 DEF WriteRenewal
<1>7. ASSUME NEW m \in Machines, ReadRelease(m) PROVE TypeInv'
  BY <1>7 DEF ReadRelease, Calm
<1>8. ASSUME NEW m \in Machines, WriteRelease(m) PROVE TypeInv'
  <2>1. meddled' \in 0..MaxMeddling
    BY <1>8, MeddledStep DEF WriteRelease
  <2>2. lease' \in [owner : Machines \cup {NoHolder, Gone}, live : BOOLEAN]
    <3>1. lease' = [owner |-> NoHolder, live |-> FALSE] \/ lease' = lease
      BY <1>8 DEF WriteRelease
    <3>2. [owner |-> NoHolder, live |-> FALSE] \in [owner : Machines \cup {NoHolder, Gone}, live : BOOLEAN]
      OBVIOUS
    <3>3. lease \in [owner : Machines \cup {NoHolder, Gone}, live : BOOLEAN]
      OBVIOUS
    <3> QED BY <3>1, <3>2, <3>3
  <2>3. stage' = [stage EXCEPT ![m] = "idle"]
    BY <1>8 DEF WriteRelease
  <2> QED BY <1>8, <2>1, <2>2, <2>3 DEF WriteRelease
<1>9. ASSUME NEW m \in Machines, Refresh(m) PROVE TypeInv'
  BY <1>9 DEF Refresh, Calm
<1>10. ASSUME NEW m \in Machines, IndexInPlace(m) PROVE TypeInv'
  <2>1. meddled' \in 0..MaxMeddling
    BY <1>10, MeddledStep DEF IndexInPlace
  <2> QED BY <1>10, <2>1 DEF IndexInPlace
<1>11. ASSUME NEW m \in Machines, ReadForRebuild(m) PROVE TypeInv'
  BY <1>11 DEF ReadForRebuild, Calm
<1>12. ASSUME NEW m \in Machines, BeginRebuild(m) PROVE TypeInv'
  <2>1. /\ bound'[m] \in Epochs
        /\ bound' \in [Machines -> Epochs \cup {0}]
        /\ bound' = [bound EXCEPT ![m] = Newest(snap[m]) + 1]
    BY <1>12 DEF BeginRebuild
  <2>2. meta' \in [active : Epochs, pending : Epochs \cup {0}]
    BY <1>12, <2>1 DEF BeginRebuild
  <2>3. NewStore \in [active : Epochs, pending : Epochs \cup {0}]
    BY CentralAssumption DEF NewStore
  <2>4. rows' \in [Epochs -> {"none", "part", "full"}]
    <3>1. rows[bound'[m]] \in {"none", "part", "full"}
      BY <2>1
    <3> QED BY <1>12, <2>1, <3>1 DEF BeginRebuild
  <2>5. PendingWrites'
    BY <1>12, <2>1, CentralAssumption DEF BeginRebuild
  <2> QED BY <1>12, <2>1, <2>2, <2>3, <2>4, <2>5 DEF BeginRebuild, Calm
<1>13. ASSUME NEW m \in Machines, Build(m) PROVE TypeInv'
  <2>1. stage[m] = "build" /\ stage' = [stage EXCEPT ![m] = stage'[m]] /\ stage'[m] \in {"promote", "discard"}
    BY <1>13 DEF Build
  <2>2. bound[m] \in Epochs /\ rows[bound[m]] \in {"none", "part", "full"}
    BY <2>1
  <2>3. rows' \in [Epochs -> {"none", "part", "full"}]
    BY <1>13, <2>2 DEF Build
  <2>4. stage' \in [Machines -> Steps]
    BY <2>1
  <2>5. PendingWrites'
    BY <1>13, <2>1 DEF Build
  <2> QED BY <1>13, <2>3, <2>4, <2>5 DEF Build, Calm
<1>14. ASSUME NEW m \in Machines, ReadForPromotion(m) PROVE TypeInv'
  <2>1. meddled' \in 0..MaxMeddling
    BY <1>14, MeddledStep DEF ReadForPromotion
  <2>2. stage' \in [Machines -> Steps]
    BY <1>14 DEF ReadForPromotion
  <2>3. PendingWrites'
    BY <1>14 DEF ReadForPromotion
  <2>4. NewStore \in [active : Epochs, pending : Epochs \cup {0}]
    BY CentralAssumption DEF NewStore
  <2>5. snap' \in [Machines -> [active : Epochs, pending : Epochs \cup {0}]]
    BY <1>14, <2>4 DEF ReadForPromotion
  <2>6. bound' \in [Machines -> Epochs \cup {0}]
    BY <1>14 DEF ReadForPromotion
  <2> QED BY <1>14, <2>1, <2>2, <2>3, <2>5, <2>6 DEF ReadForPromotion
<1>15. ASSUME NEW m \in Machines, Promote(m) PROVE TypeInv'
  <2>1. NewStore \in [active : Epochs, pending : Epochs \cup {0}]
    BY CentralAssumption DEF NewStore
  <2> QED BY <1>15, <2>1 DEF Promote, Calm
<1>16. ASSUME NEW m \in Machines, ReadForDiscard(m) PROVE TypeInv'
  <2>1. meddled' \in 0..MaxMeddling
    BY <1>16, MeddledStep DEF ReadForDiscard
  <2>2. NewStore \in [active : Epochs, pending : Epochs \cup {0}]
    BY CentralAssumption DEF NewStore
  <2>3. stage' \in [Machines -> Steps]
    BY <1>16 DEF ReadForDiscard
  <2>4. snap' \in [Machines -> [active : Epochs, pending : Epochs \cup {0}]]
    <3>1. CASE stage'[m] = "release"
      BY <1>16, <2>2, <3>1 DEF ReadForDiscard
    <3>2. CASE stage'[m] # "release"
      BY <1>16, <3>2 DEF ReadForDiscard
    <3> QED BY <3>1, <3>2
  <2>6. bound' \in [Machines -> Epochs \cup {0}]
    BY <1>16 DEF ReadForDiscard
  <2>5. PendingWrites'
    BY <1>16 DEF ReadForDiscard
  <2> QED BY <1>16, <2>1, <2>3, <2>4, <2>5, <2>6 DEF ReadForDiscard
<1>17. ASSUME NEW m \in Machines, Discard(m) PROVE TypeInv'
  <2>1. NewStore \in [active : Epochs, pending : Epochs \cup {0}]
    BY CentralAssumption DEF NewStore
  <2> QED BY <1>17, <2>1 DEF Discard, Calm
<1>18. ASSUME NEW m \in Machines, Prune(m) PROVE TypeInv'
  <2>1. NoRows \in {"none", "part", "full"}
    BY DEF NoRows
  <2>2. [e \in Epochs |-> IF e < meta.active THEN NoRows ELSE rows[e]]
          \in [Epochs -> {"none", "part", "full"}]
    BY <2>1
  <2>3. rows' \in [Epochs -> {"none", "part", "full"}]
    BY <1>18, <2>2 DEF Prune
  <2> QED BY <1>18, <2>3 DEF Prune, Calm
<1>19. ASSUME NEW m \in Machines, MachineDies(m) PROVE TypeInv'
  <2>1. meddled' \in 0..MaxMeddling
    BY <1>19, MeddledStep DEF MachineDies
  <2>2. NewStore \in [active : Epochs, pending : Epochs \cup {0}]
    BY CentralAssumption DEF NewStore
  <2> QED BY <1>19, <2>1, <2>2 DEF MachineDies
<1>20. CASE Expire
  <2>1. meddled' \in 0..MaxMeddling
    BY <1>20, MeddledStep DEF Expire
  <2> QED BY <1>20, <2>1 DEF Expire
<1>21. CASE Clear
  <2>1. meddled' \in 0..MaxMeddling
    BY <1>21, MeddledStep DEF Clear
  <2> QED BY <1>21, <2>1 DEF Clear
<1> QED
  BY <1>1, <1>2, <1>3, <1>4, <1>5, <1>6, <1>7, <1>8, <1>9, <1>10, <1>11, <1>12, <1>13, <1>14,
     <1>15, <1>16, <1>17, <1>18, <1>19, <1>20, <1>21 DEF CentralNext, LeaseStep, CentralStep

\* The type invariant, for any machines, epochs and faults.
THEOREM CentralTypes == CentralSpec => []CentralTypeOK
<1>1. TypeInv => CentralTypeOK
  BY DEF TypeInv
<1> QED BY <1>1, CentralTypeInit, CentralTypeStep, PTL DEF CentralSpec

-----------------------------------------------------------------------------

LEMMA HoldersStep ==
    ASSUME TypeInv, HoldersHold, [CentralNext]_central, ~ upset, ~ upset'
    PROVE  HoldersHold'
<1> USE DEF TypeInv, CentralTypeOK, HoldersHold, Indexing, Go, Upset, Calm
<1>1. CASE UNCHANGED central
  BY <1>1 DEF central
<1>2. ASSUME NEW m \in Machines, ReadLease(m) PROVE HoldersHold'
  BY <1>2, CentralAssumption DEF ReadLease, LeaseFree
<1>3. ASSUME NEW m \in Machines, WriteLease(m) PROVE HoldersHold'
  BY <1>3 DEF WriteLease
<1>4. ASSUME NEW m \in Machines, Confirm(m) PROVE HoldersHold'
  BY <1>4 DEF Confirm
<1>5. ASSUME NEW m \in Machines, ReadRenewal(m) PROVE HoldersHold'
  BY <1>5 DEF ReadRenewal
<1>6. ASSUME NEW m \in Machines, WriteRenewal(m) PROVE HoldersHold'
  BY <1>6 DEF WriteRenewal
<1>7. ASSUME NEW m \in Machines, ReadRelease(m) PROVE HoldersHold'
  BY <1>7 DEF ReadRelease
<1>8. ASSUME NEW m \in Machines, WriteRelease(m) PROVE HoldersHold'
  <2>1. CASE lease' = lease
    BY <1>8, <2>1 DEF WriteRelease
  <2>2. CASE lease' = [owner |-> NoHolder, live |-> FALSE]
    BY <1>8, <2>2, CentralAssumption DEF WriteRelease
  <2> QED BY <1>8, <2>1, <2>2 DEF WriteRelease
<1>9. ASSUME NEW m \in Machines, Refresh(m) PROVE HoldersHold'
  BY <1>9 DEF Refresh
<1>10. ASSUME NEW m \in Machines, IndexInPlace(m) PROVE HoldersHold'
  BY <1>10 DEF IndexInPlace
<1>11. ASSUME NEW m \in Machines, ReadForRebuild(m) PROVE HoldersHold'
  BY <1>11 DEF ReadForRebuild
<1>12. ASSUME NEW m \in Machines, BeginRebuild(m) PROVE HoldersHold'
  BY <1>12 DEF BeginRebuild
<1>13. ASSUME NEW m \in Machines, Build(m) PROVE HoldersHold'
  <2>1. stage[m] = "build" /\ stage' = [stage EXCEPT ![m] = stage'[m]] /\ stage'[m] \in {"promote", "discard"}
    BY <1>13 DEF Build
  <2>2. lease' = lease
    BY <1>13 DEF Build
  <2> QED BY <2>1, <2>2
<1>14. ASSUME NEW m \in Machines, ReadForPromotion(m) PROVE HoldersHold'
  BY <1>14 DEF ReadForPromotion
<1>15. ASSUME NEW m \in Machines, Promote(m) PROVE HoldersHold'
  BY <1>15 DEF Promote
<1>16. ASSUME NEW m \in Machines, ReadForDiscard(m) PROVE HoldersHold'
  BY <1>16 DEF ReadForDiscard
<1>17. ASSUME NEW m \in Machines, Discard(m) PROVE HoldersHold'
  BY <1>17 DEF Discard
<1>18. ASSUME NEW m \in Machines, Prune(m) PROVE HoldersHold'
  BY <1>18 DEF Prune
<1>19. ASSUME NEW m \in Machines, MachineDies(m) PROVE HoldersHold'
  BY <1>19, CentralAssumption DEF MachineDies
<1>20. CASE Expire
  BY <1>20 DEF Expire, Unattended
<1>21. CASE Clear
  BY <1>21 DEF Clear
<1> QED
  BY <1>1, <1>2, <1>3, <1>4, <1>5, <1>6, <1>7, <1>8, <1>9, <1>10, <1>11, <1>12, <1>13, <1>14,
     <1>15, <1>16, <1>17, <1>18, <1>19, <1>20, <1>21 DEF CentralNext, LeaseStep, CentralStep

LEMMA OneInPass ==
    ASSUME HoldersHold
    PROVE  \A m, n \in Machines : Indexing(m) /\ Indexing(n) => m = n
BY DEF HoldersHold

LEMMA EpochsStep ==
    ASSUME TypeInv, HoldersHold, EpochsAgree, [CentralNext]_central, ~ upset, ~ upset'
    PROVE  EpochsAgree'
<1> USE OneInPass DEF TypeInv, CentralTypeOK, PendingWrites, EpochsAgree, Indexing, Go, Upset, Calm
<1>1. CASE UNCHANGED central
  BY <1>1 DEF central
<1>2. ASSUME NEW m \in Machines, ReadLease(m) PROVE EpochsAgree'
  BY <1>2 DEF ReadLease
<1>3. ASSUME NEW m \in Machines, WriteLease(m) PROVE EpochsAgree'
  BY <1>3 DEF WriteLease
<1>4. ASSUME NEW m \in Machines, Confirm(m) PROVE EpochsAgree'
  BY <1>4 DEF Confirm
<1>5. ASSUME NEW m \in Machines, ReadRenewal(m) PROVE EpochsAgree'
  BY <1>5 DEF ReadRenewal
<1>6. ASSUME NEW m \in Machines, WriteRenewal(m) PROVE EpochsAgree'
  BY <1>6 DEF WriteRenewal
<1>7. ASSUME NEW m \in Machines, ReadRelease(m) PROVE EpochsAgree'
  BY <1>7 DEF ReadRelease
<1>8. ASSUME NEW m \in Machines, WriteRelease(m) PROVE EpochsAgree'
  BY <1>8 DEF WriteRelease
<1>9. ASSUME NEW m \in Machines, Refresh(m) PROVE EpochsAgree'
  BY <1>9 DEF Refresh
<1>10. ASSUME NEW m \in Machines, IndexInPlace(m) PROVE EpochsAgree'
  BY <1>10 DEF IndexInPlace
<1>11. ASSUME NEW m \in Machines, ReadForRebuild(m) PROVE EpochsAgree'
  BY <1>11 DEF ReadForRebuild
<1>12. ASSUME NEW m \in Machines, BeginRebuild(m) PROVE EpochsAgree'
  <2>1. /\ Indexing(m) /\ snap[m] = meta /\ bound' = [bound EXCEPT ![m] = Newest(meta) + 1]
        /\ stage' = [stage EXCEPT ![m] = "build"] /\ complete' = complete
    BY <1>12 DEF BeginRebuild
  <2>2. Newest(meta) \in Nat /\ Newest(meta) + 1 > meta.active /\ meta.active \in Nat
    <3>1. meta \in [active : Epochs, pending : Epochs \cup {0}]
      OBVIOUS
    <3> QED BY <3>1, NewestIsEpoch
  <2>3. meta'.active = meta.active /\ meta'.pending = Newest(meta) + 1
    BY <1>12, <2>1 DEF BeginRebuild
  <2>4. Newest(meta') = Newest(meta) + 1
    BY <2>2, <2>3 DEF Newest
  <2>5. rows'[meta.active] = rows[meta.active]
    BY <1>12 DEF BeginRebuild
  <2>6. \A n \in Machines \ {m} : stage'[n] = stage[n] /\ ~ Indexing(n)
    BY <2>1
  <2> QED BY <2>1, <2>2, <2>3, <2>4, <2>5, <2>6
<1>13. ASSUME NEW m \in Machines, Build(m) PROVE EpochsAgree'
  <2>1. stage[m] = "build" /\ stage' = [stage EXCEPT ![m] = stage'[m]] /\ stage'[m] \in {"promote", "discard"}
    BY <1>13 DEF Build
  <2>2. bound[m] \in Epochs /\ bound[m] # meta.active
    BY <2>1
  <2>3. /\ rows'[meta.active] = rows[meta.active]
        /\ stage'[m] = "promote" => rows'[bound[m]] = "full"
    BY <1>13, <2>2 DEF Build
  <2>4. \A n \in Machines \ {m} : stage'[n] = stage[n] /\ ~ Indexing(n)
    BY <2>1
  <2>5. meta' = meta /\ bound' = bound /\ complete' = complete /\ snap' = snap
    BY <1>13 DEF Build
  <2> QED BY <2>1, <2>2, <2>3, <2>4, <2>5
<1>14. ASSUME NEW m \in Machines, ReadForPromotion(m) PROVE EpochsAgree'
  BY <1>14 DEF ReadForPromotion
<1>15. ASSUME NEW m \in Machines, Promote(m) PROVE EpochsAgree'
  <2>1. /\ stage[m] = "promoteWrite" /\ snap[m] = meta /\ snap[m].pending = bound[m]
        /\ stage' = [stage EXCEPT ![m] = "optimize"]
    BY <1>15 DEF Promote
  <2>2. meta'.active = bound[m] /\ rows' = rows
    BY <1>15, <2>1 DEF Promote
  <2>3. \A n \in Machines \ {m} : stage'[n] = stage[n] /\ ~ Indexing(n)
    BY <2>1
  <2> QED BY <2>1, <2>2, <2>3
<1>16. ASSUME NEW m \in Machines, ReadForDiscard(m) PROVE EpochsAgree'
  BY <1>16 DEF ReadForDiscard
<1>17. ASSUME NEW m \in Machines, Discard(m) PROVE EpochsAgree'
  BY <1>17 DEF Discard
<1>18. ASSUME NEW m \in Machines, Prune(m) PROVE EpochsAgree'
  <2>1. stage[m] = "optimize" /\ stage' = [stage EXCEPT ![m] = "release"]
    BY <1>18 DEF Prune
  <2>2. rows'[meta.active] = rows[meta.active]
    <3>1. meta.active \in Epochs /\ meta.active \in Nat
      BY EpochsAreNumbers
    <3> QED BY <1>18, <3>1 DEF Prune
  <2>3. \A n \in Machines \ {m} : stage'[n] = stage[n] /\ ~ Indexing(n)
    BY <2>1
  <2>4. meta' = meta /\ complete' = complete
    BY <1>18 DEF Prune
  <2> QED BY <2>1, <2>2, <2>3, <2>4
<1>19. ASSUME NEW m \in Machines, MachineDies(m) PROVE EpochsAgree'
  BY <1>19 DEF MachineDies
<1>20. CASE Expire
  BY <1>20 DEF Expire
<1>21. CASE Clear
  <2>1. Newest(meta) \in Nat
    <3>1. meta \in [active : Epochs, pending : Epochs \cup {0}]
      OBVIOUS
    <3> QED BY <3>1, NewestIsEpoch
  <2>2. Newest(meta') = Newest(meta) + 1 /\ meta'.active = Newest(meta) + 1 /\ meta'.pending = 0
    BY <1>21, <2>1 DEF Clear, Newest
  <2>3. \A n \in Machines : stage[n] \notin {"beginWrite", "promoteWrite", "discardWrite"}
    BY <1>21 DEF Clear
  <2>4. bound' = bound /\ stage' = stage /\ rows' = rows /\ ~ complete'
    BY <1>21 DEF Clear
  <2>5. \A n \in Machines : stage[n] \in {"build", "promote"} => bound[n] \in Nat /\ bound[n] <= Newest(meta)
    BY EpochsAreNumbers
  <2> QED BY <2>1, <2>2, <2>3, <2>4, <2>5
<1> QED
  BY <1>1, <1>2, <1>3, <1>4, <1>5, <1>6, <1>7, <1>8, <1>9, <1>10, <1>11, <1>12, <1>13, <1>14,
     <1>15, <1>16, <1>17, <1>18, <1>19, <1>20, <1>21 DEF CentralNext, LeaseStep, CentralStep

IInv == TypeInv /\ (~ upset => HoldersHold /\ EpochsAgree)

LEMMA InvInit == CentralInit => IInv
<1> SUFFICES ASSUME CentralInit PROVE IInv
  OBVIOUS
<1>1. TypeInv
  BY CentralTypeInit
<1>2. HoldersHold
  BY CentralAssumption DEF CentralInit, HoldersHold, Indexing
<1>3. EpochsAgree
  BY DEF CentralInit, EpochsAgree
<1> QED BY <1>1, <1>2, <1>3 DEF IInv

\* An upset is the last thing that happens.
LEMMA UpsetIsLast ==
    ASSUME CentralNext
    PROVE  ~ upset
BY DEF CentralNext, LeaseStep, CentralStep, ReadLease, WriteLease, Confirm, ReadRenewal,
   WriteRenewal, ReadRelease, WriteRelease, Refresh, IndexInPlace, ReadForRebuild, BeginRebuild,
   Build, ReadForPromotion, Promote, ReadForDiscard, Discard, Prune, MachineDies, Expire, Clear, Calm,
   Meddle, Upset

LEMMA InvStep ==
    ASSUME IInv, [CentralNext]_central
    PROVE  IInv'
<1>1. TypeInv'
  BY CentralTypeStep DEF IInv
<1>2. ~ upset' => ~ upset
  BY UpsetIsLast DEF central
<1>3. ~ upset' => HoldersHold' /\ EpochsAgree'
  BY <1>2, HoldersStep, EpochsStep DEF IInv
<1> QED BY <1>1, <1>3 DEF IInv

\* Two machines are never in a pass at once, for any number of machines, however
\* their reads and writes of the lease interleave.
THEOREM LeaseExcludes == CentralSpec => []OneMachine
<1>1. IInv => OneMachine
  BY OneInPass DEF IInv, OneMachine
<1> QED BY <1>1, InvInit, InvStep, PTL DEF CentralSpec

\* What searches read stays complete, for any number of rebuilds.
THEOREM CompleteStaysActive == CentralSpec => []ActiveIsComplete
<1>1. IInv => ActiveIsComplete
  BY DEF IInv, ActiveIsComplete, EpochsAgree
<1> QED BY <1>1, InvInit, InvStep, PTL DEF CentralSpec
=============================================================================
