---------------------------- MODULE CentralStore ----------------------------
(***************************************************************************)
(* Machines that share one ClickHouse store (vectorstore/clickhouse.ts,    *)
(* indexer/pipeline.ts): the lease of the index pass, which has no         *)
(* compare-and-set and is read back instead, and the epochs: a rebuild     *)
(* writes into a private one, and rewriting the _meta row makes it the one *)
(* that is read.  Every read and every write of a row is a step.           *)
(*                                                                         *)
(* Time is modelled by what it decides: the lease read back after 120 ms   *)
(* finds every write that was on its way when it was written, unless a     *)
(* machine is slow; a lease in use is renewed in time, unless a machine is *)
(* suspended; a renewal ends before the pass, unless it is late.           *)
(***************************************************************************)
EXTENDS Naturals, FiniteSets

CONSTANTS
    Machines,
    Epochs,          \* 1..n: no rebuild is begun when they are used up
    MeddlingKinds,   \* \subseteq {"slow", "suspend", "late", "stale", "crash", "offline", "clear"}
    MaxMeddling

VARIABLES
    meta,       \* the _meta row: active and pending epoch
    lease,      \* the _lease row: its owner and whether it is unexpired
    rows,       \* what each epoch's rows amount to
    stage,      \* where each machine's pass is
    snap,       \* the _meta row a machine has read and is going to rewrite
    bound,      \* the epoch a machine rebuilds into, 0 without a rebuild
    cached,     \* the active epoch as a machine last saw it
    renewing,   \* a machine has read the lease and is going to renew it
    complete,   \* history: a complete epoch has been active, and not cleared
    upset,      \* history: a machine was slow, suspended or late
    meddled     \* number of faults so far

central == <<meta, lease, rows, stage, snap, bound, cached, renewing, complete, upset, meddled>>

NoHolder == "nobody"
Gone == "gone"      \* a process that has ended: its successor has another id

ASSUME CentralAssumption ==
    /\ MaxMeddling \in Nat
    /\ Epochs \subseteq Nat \ {0} /\ 1 \in Epochs
    /\ {NoHolder, Gone} \cap Machines = {}

Steps == {"idle", "leaseWrite", "confirm", "start", "beginWrite", "build", "promote",
          "promoteWrite", "discard", "discardWrite", "optimize", "release", "releaseWrite"}

CentralTypeOK ==
    /\ meta \in [active : Epochs, pending : Epochs \cup {0}]
    /\ lease \in [owner : Machines \cup {NoHolder, Gone}, live : BOOLEAN]
    /\ rows \in [Epochs -> {"none", "part", "full"}]
    /\ stage \in [Machines -> Steps]
    /\ snap \in [Machines -> [active : Epochs, pending : Epochs \cup {0}]]
    /\ bound \in [Machines -> Epochs \cup {0}] /\ cached \in [Machines -> Epochs]
    /\ renewing \subseteq Machines
    /\ complete \in BOOLEAN /\ upset \in BOOLEAN /\ meddled \in 0..MaxMeddling

NoRows == "none"
NewStore == [active |-> 1, pending |-> 0]

CentralInit ==
    /\ meta = NewStore
    /\ lease = [owner |-> NoHolder, live |-> FALSE]
    /\ rows = [e \in Epochs |-> NoRows]
    /\ stage = [m \in Machines |-> "idle"] /\ snap = [m \in Machines |-> NewStore]
    /\ bound = [m \in Machines |-> 0] /\ cached = [m \in Machines |-> 1]
    /\ renewing = {} /\ complete = FALSE /\ upset = FALSE /\ meddled = 0

\* What follows once a machine was slow, suspended or late is not looked at.
Meddle(kind) ==
    /\ ~ upset
    /\ kind \in MeddlingKinds /\ meddled < MaxMeddling /\ meddled' = meddled + 1
Upset(kind) == Meddle(kind) /\ upset' = TRUE
Calm == ~ upset /\ UNCHANGED meddled
Go(m, from, to) == stage[m] = from /\ stage' = [stage EXCEPT ![m] = to]

Indexing(m) == stage[m] \notin {"idle", "leaseWrite", "confirm"}
Served(m) == rows[cached[m]]

Newest(row) == IF row.active >= row.pending THEN row.active ELSE row.pending

-----------------------------------------------------------------------------
\* (mutant) a lease is an owner's until it is released
LeaseFreeNeverExpires(m) == lease.owner \in {NoHolder, m}

LeaseFree(m) == lease.owner \in {NoHolder, m} \/ ~ lease.live

\* acquireLease: read, write, wait, read back.
ReadLease(m) ==
    /\ Go(m, "idle", "leaseWrite")
    /\ LeaseFree(m)
    /\ Calm
    /\ UNCHANGED <<meta, lease, rows, snap, bound, cached, renewing, complete, upset>>

WriteLease(m) ==
    /\ Go(m, "leaseWrite", "confirm")
    /\ lease' = [owner |-> m, live |-> TRUE]
    /\ Calm
    /\ UNCHANGED <<meta, rows, snap, bound, cached, renewing, complete, upset>>

\* (mutant) the lease is taken without being read back
ConfirmBlindly(m) ==
    /\ Go(m, "confirm", "start")
    /\ Calm
    /\ UNCHANGED <<meta, lease, rows, snap, bound, cached, renewing, complete, upset>>

Confirm(m) ==
    /\ Go(m, "confirm", IF lease.owner = m THEN "start" ELSE "idle")
    /\ \/ /\ \A n \in Machines \ {m} : stage[n] # "leaseWrite"
          /\ Calm /\ UNCHANGED upset
       \/ /\ \E n \in Machines \ {m} : stage[n] = "leaseWrite"
          /\ Upset("slow")
    /\ UNCHANGED <<meta, lease, rows, snap, bound, cached, renewing, complete>>

\* renewLease, every third of the lease's life while the pass runs.  In a pass
\* it writes what is there, so only the one on its way when the pass ends is
\* modelled: clearInterval stops the next one and not this one.
ReadRenewal(m) ==
    /\ stage[m] = "release" /\ m \notin renewing
    /\ LeaseFree(m)
    /\ renewing' = renewing \cup {m}
    /\ Calm
    /\ UNCHANGED <<meta, lease, rows, stage, snap, bound, cached, complete, upset>>

WriteRenewal(m) ==
    /\ m \in renewing
    /\ renewing' = renewing \ {m}
    /\ lease' = [owner |-> m, live |-> TRUE]
    /\ IF Indexing(m) THEN Calm /\ UNCHANGED upset ELSE Upset("late")
    /\ UNCHANGED <<meta, rows, stage, snap, bound, cached, complete>>

Unattended == lease.owner \notin {m \in Machines : stage[m] # "idle"}

Expire ==
    /\ lease.live /\ lease.owner # NoHolder
    /\ lease' = [lease EXCEPT !.live = FALSE]
    /\ IF Unattended THEN Calm /\ UNCHANGED upset
                     ELSE Upset("suspend")
    /\ UNCHANGED <<meta, rows, stage, snap, bound, cached, renewing, complete>>

\* releaseLease, when no renewal is on its way or one is late.  A failure is
\* swallowed, and the lease expires.
ReadRelease(m) ==
    /\ Go(m, "release", IF lease.owner = m THEN "releaseWrite" ELSE "idle")
    /\ Calm
    /\ UNCHANGED <<meta, lease, rows, snap, bound, cached, renewing, complete, upset>>

WriteRelease(m) ==
    /\ Go(m, "releaseWrite", "idle")
    /\ m \notin renewing \/ "late" \in MeddlingKinds
    /\ \/ lease' = [owner |-> NoHolder, live |-> FALSE] /\ Calm
       \/ UNCHANGED lease /\ Meddle("offline")
    /\ UNCHANGED <<meta, rows, snap, bound, cached, renewing, complete, upset>>

-----------------------------------------------------------------------------
\* maybeRefreshEpoch, at most 2 s after the last time.
\* (mutant) the epoch is read when the schema is checked for the first time
RefreshNever(m) == cached[m] = 0 /\ UNCHANGED central

Refresh(m) ==
    /\ cached[m] # meta.active
    /\ cached' = [cached EXCEPT ![m] = meta.active]
    /\ Calm
    /\ UNCHANGED <<meta, lease, rows, stage, snap, bound, renewing, complete, upset>>

\* A pass in place adds to the epoch it believes to be active.
IndexInPlace(m) ==
    /\ \E fill \in {"part", "full"} :
          /\ fill = "part" => rows[cached[m]] = "none"
          /\ Go(m, "start", IF fill = "full" THEN "optimize" ELSE "release")
          /\ rows' = [rows EXCEPT ![cached[m]] = fill]
          /\ complete' = (complete \/ (fill = "full" /\ cached[m] = meta.active))
    /\ IF cached[m] = meta.active THEN Calm ELSE Meddle("stale")
    /\ UNCHANGED <<meta, lease, snap, bound, cached, renewing, upset>>

\* beginRebuild
ReadForRebuild(m) ==
    /\ Go(m, "start", "beginWrite")
    /\ Newest(meta) + 1 \in Epochs
    /\ snap' = [snap EXCEPT ![m] = meta]
    /\ Calm
    /\ UNCHANGED <<meta, lease, rows, bound, cached, renewing, complete, upset>>

BeginRebuild(m) ==
    /\ Go(m, "beginWrite", "build")
    /\ bound' = [bound EXCEPT ![m] = Newest(snap[m]) + 1]
    /\ meta' = [snap[m] EXCEPT !.pending = bound'[m]]
    /\ cached' = [cached EXCEPT ![m] = meta'.active]
    /\ snap' = [snap EXCEPT ![m] = NewStore]
    /\ Calm
    /\ UNCHANGED <<lease, rows, renewing, complete, upset>>

\* The rebuild, whole, in part before it is aborted, or without a row.
Build(m) ==
    /\ \/ Go(m, "build", "promote") /\ rows' = [rows EXCEPT ![bound[m]] = "full"]
       \/ Go(m, "build", "discard") /\ rows' = [rows EXCEPT ![bound[m]] = "part"]
    /\ Calm
    /\ UNCHANGED <<meta, lease, snap, bound, cached, renewing, complete, upset>>

\* promoteRebuild: nothing is pending any more, or whatever is, is promoted.
ReadForPromotion(m) ==
    /\ \/ Go(m, "promote", IF meta.pending = 0 THEN "release" ELSE "promoteWrite") /\ Calm
       \/ Go(m, "promote", "discard") /\ Meddle("offline")
    /\ IF stage'[m] = "release"
       THEN snap' = [snap EXCEPT ![m] = NewStore] /\ bound' = [bound EXCEPT ![m] = 0]
       ELSE snap' = [snap EXCEPT ![m] = meta] /\ UNCHANGED bound
    /\ UNCHANGED <<meta, lease, rows, cached, renewing, complete, upset>>

Promote(m) ==
    /\ Go(m, "promoteWrite", "optimize")
    /\ meta' = [active |-> snap[m].pending, pending |-> 0]
    /\ cached' = [cached EXCEPT ![m] = meta'.active]
    /\ bound' = [bound EXCEPT ![m] = 0]
    /\ complete' = TRUE
    /\ snap' = [snap EXCEPT ![m] = NewStore]
    /\ Calm
    /\ UNCHANGED <<lease, rows, renewing, upset>>

\* discardRebuild, best effort
ReadForDiscard(m) ==
    /\ \/ Go(m, "discard", IF meta.pending = 0 THEN "release" ELSE "discardWrite") /\ Calm
       \/ Go(m, "discard", "release") /\ Meddle("offline")
    /\ IF stage'[m] = "release"
       THEN snap' = [snap EXCEPT ![m] = NewStore] /\ bound' = [bound EXCEPT ![m] = 0]
       ELSE snap' = [snap EXCEPT ![m] = meta] /\ UNCHANGED bound
    /\ UNCHANGED <<meta, lease, rows, cached, renewing, complete, upset>>

Discard(m) ==
    /\ Go(m, "discardWrite", "release")
    /\ meta' = [snap[m] EXCEPT !.pending = 0]
    /\ cached' = [cached EXCEPT ![m] = meta'.active]
    /\ bound' = [bound EXCEPT ![m] = 0]
    /\ snap' = [snap EXCEPT ![m] = NewStore]
    /\ Calm
    /\ UNCHANGED <<lease, rows, renewing, complete, upset>>

\* (mutant) every epoch but the newest is pruned
PruneAllButNewest(m) ==
    /\ Go(m, "optimize", "release")
    /\ rows' = [e \in Epochs |-> IF e # Newest(meta) THEN NoRows ELSE rows[e]]
    /\ Calm
    /\ UNCHANGED <<meta, lease, snap, bound, cached, renewing, complete, upset>>

\* optimize, when it is due.  Its read of _meta needs no step of its own: what
\* is superseded stays so.
Prune(m) ==
    /\ Go(m, "optimize", "release")
    /\ rows' \in {rows, [e \in Epochs |-> IF e < meta.active THEN NoRows ELSE rows[e]]}
    /\ Calm
    /\ UNCHANGED <<meta, lease, snap, bound, cached, renewing, complete, upset>>

-----------------------------------------------------------------------------
\* The command clear, on any machine and without the lease.  It reads the _meta
\* row and rewrites it in one step here: what follows when another one rewrites
\* it in between is not looked at, as when another one has read it before.
Clear ==
    /\ Meddle("clear")
    /\ Newest(meta) + 1 \in Epochs
    /\ meta' = [active |-> Newest(meta) + 1, pending |-> 0]
    /\ complete' = FALSE
    /\ upset' = (upset \/ \E m \in Machines : stage[m] \in {"beginWrite", "promoteWrite", "discardWrite"})
    /\ UNCHANGED <<lease, rows, stage, snap, bound, cached, renewing>>

MachineDies(m) ==
    /\ stage[m] # "idle"
    /\ Meddle("crash")
    /\ stage' = [stage EXCEPT ![m] = "idle"]
    /\ renewing' = renewing \ {m}
    /\ lease' = [lease EXCEPT !.owner = IF @ = m THEN Gone ELSE @]
    /\ cached' = [cached EXCEPT ![m] = meta.active]
    /\ bound' = [bound EXCEPT ![m] = 0]
    /\ snap' = [snap EXCEPT ![m] = NewStore]
    /\ UNCHANGED <<meta, rows, complete, upset>>

LeaseStep(m) == ReadLease(m) \/ WriteLease(m) \/ Confirm(m)
CentralStep(m) ==
    \/ IndexInPlace(m) \/ ReadForRebuild(m) \/ BeginRebuild(m) \/ Build(m)
    \/ ReadForPromotion(m) \/ Promote(m) \/ ReadForDiscard(m) \/ Discard(m)
    \/ Prune(m) \/ ReadRelease(m) \/ WriteRelease(m)

CentralNext ==
    \/ \E m \in Machines :
          LeaseStep(m) \/ CentralStep(m) \/ ReadRenewal(m) \/ WriteRenewal(m) \/ Refresh(m) \/ MachineDies(m)
    \/ Expire \/ Clear

CentralSpec == CentralInit /\ [][CentralNext]_central

-----------------------------------------------------------------------------
\* Two machines are never in a pass at once, however their reads and writes of
\* the lease interleave, as long as none was slow, suspended or late.
OneMachine ==
    ~ upset => \A m, n \in Machines : Indexing(m) /\ Indexing(n) => m = n

\* What searches read stays a complete index once it is one: no rebuild that
\* was given up, crashed or is going on replaces it, and no cleaning takes it.
ActiveIsComplete == complete /\ ~ upset => rows[meta.active] = "full"

\* A machine that has missed a promotion, and then the cleaning of the epoch it
\* reads, does not go on finding nothing.
ReadersCatchUp ==
    []<>(complete /\ ~ upset => \A m \in Machines : Served(m) = "full")
=============================================================================
