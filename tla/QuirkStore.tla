----------------------------- MODULE QuirkStore -----------------------------
(***************************************************************************)
(* Quirk memory (quirks/quirk-store.ts): notes that are kept twice, as     *)
(* records of quirks.jsonl and as rows of the vector store, and, with a    *)
(* central store, a third time as the state bundle that StateSync          *)
(* (core/state-sync.ts) merges with the log of every machine.              *)
(*                                                                         *)
(* Processes of one machine share a log.  With a central store             *)
(* (ClickHouse) each process of the model is on a machine of its own, and  *)
(* all share the rows and the bundle; otherwise (LanceDB) there is one     *)
(* machine.  A step is what a process does between two awaits whose        *)
(* interleaving matters: the reads that start a flush, a hydration or a    *)
(* reconcile's scan of the rows are one step each.                         *)
(***************************************************************************)
EXTENDS Naturals, FiniteSets

CONSTANTS
    QuirkIds,       \* ids; addQuirk takes a fresh one
    Procs,        \* plugin, command line, watcher, on any machine
    MaxVersion,   \* contents a quirk is given
    MaxOps,       \* adds, updates and removals
    MaxFaults,
    Faults        \* \subseteq {"crash", "offline", "rows", "rebuild", "overlap"}

ASSUME QuirkStoreAssumption ==
    /\ IsFiniteSet(QuirkIds) /\ IsFiniteSet(Procs)
    /\ MaxVersion \in Nat \ {0} /\ MaxOps \in Nat /\ MaxFaults \in Nat
    /\ Faults \subseteq {"crash", "offline", "rows", "rebuild", "overlap"}

Versions == 1..MaxVersion
Tombstone == MaxVersion + 1                  \* a record with deletedAt
QuirkRecord == 0..Tombstone                       \* 0: no record
QuirkLog == [QuirkIds -> QuirkRecord]
NoRecords == [q \in QuirkIds |-> 0]
Listed(r) == r \in Versions

VARIABLES
    shared,      \* the store is a ClickHouse store
    home,         \* the machine of a process, named after one of its processes
    others,       \* the logs list other quirks too
    log,          \* quirks.jsonl of each machine
    synced,       \* .state-sync.json: the content a machine last exchanged
    remote,       \* the bundle's quirks
    quirkRows,         \* rows of a quirk: content and writer
    suspects,     \* quirk-orphans.json
    st,           \* what each process is doing
    minted,       \* contents given so far
    told,         \* history: the record as its last writer was told
    clashed,      \* history: a write was based on what another one had changed
    ops, quirkFaults   \* counters of the bounds

quirks == <<shared, home, others, log, synced, remote, quirkRows, suspects, st, minted, told,
          clashed, ops, quirkFaults>>

Kinds == {"none", "add", "update", "remove", "reconcile", "hydrate"}
QuirkSteps == {"rest", "wipe", "insert", "append", "readLog", "writeLog", "deleteRow",
          "scanRows", "orphans", "flush", "flushWrite",
          "flushBack", "hydWrite"}
Resting == [kind |-> "none", pc |-> "rest", q |-> {}, put |-> NoRecords,
           snap |-> NoRecords, seen |-> {}, far |-> NoRecords, base |-> NoRecords]

QuirkTypeOK ==
    /\ shared \in BOOLEAN
    /\ home \in [Procs -> Procs] /\ others \in BOOLEAN
    /\ log \in [Procs -> QuirkLog] /\ synced \in [Procs -> QuirkLog] /\ remote \in QuirkLog
    /\ quirkRows \in [QuirkIds -> SUBSET (Versions \X Procs)]
    /\ suspects \in [Procs -> [QuirkIds -> {"no", "new", "old"}]]
    /\ st \in [Procs -> [kind : Kinds, pc : QuirkSteps, q : SUBSET QuirkIds,
                         put : [QuirkIds -> 0..MaxVersion], snap : QuirkLog,
                         seen : SUBSET QuirkIds, far : QuirkLog, base : QuirkLog]]
    /\ minted \in [QuirkIds -> 0..MaxVersion]
    /\ told \in QuirkLog
    /\ clashed \in BOOLEAN
    /\ ops \in 0..MaxOps /\ quirkFaults \in 0..MaxFaults

QuirkInit ==
    /\ shared \in BOOLEAN
    /\ home = [p \in Procs |-> IF shared THEN p ELSE CHOOSE m \in Procs : TRUE]
    /\ others \in BOOLEAN
    /\ log = [m \in Procs |-> NoRecords]
    /\ synced = [m \in Procs |-> NoRecords]
    /\ remote = NoRecords
    /\ quirkRows = [q \in QuirkIds |-> {}]
    /\ suspects = [m \in Procs |-> [q \in QuirkIds |-> "no"]]
    /\ st = [p \in Procs |-> Resting]
    /\ minted = NoRecords
    /\ told = NoRecords
    /\ clashed = FALSE
    /\ ops = 0 /\ quirkFaults = 0

LogOf(p) == log[home[p]]
EmptyLog(l) == l = NoRecords /\ ~ others
Goto(p, step) == st' = [st EXCEPT ![p].pc = step]

\* After an operation a machine of a central store uploads its log.
FinishOp(p) ==
    st' = [st EXCEPT ![p] =
             IF shared THEN [Resting EXCEPT !.kind = st[p].kind, !.pc = "flush"]
                        ELSE Resting]

-----------------------------------------------------------------------------
\* Merging two logs by id: a tombstone wins, then the local record, because
\* updateQuirk keeps lastObserved and the tie goes to the copy ingested last.
Merge(mine, theirs) ==
    [q \in QuirkIds |->
        IF Tombstone \in {mine[q], theirs[q]} THEN Tombstone
        ELSE IF mine[q] # 0 THEN mine[q] ELSE theirs[q]]

\* The record as getQuirk sees it: the log's, else that of a row.
Existing(p, q) ==
    IF LogOf(p)[q] # 0 THEN Listed(LogOf(p)[q]) ELSE quirkRows[q] # {}

-----------------------------------------------------------------------------
BeginOp(p, kind, q, put, step) ==
    /\ st[p].pc = "rest"
    /\ ops < MaxOps
    /\ ops' = ops + 1
    /\ st' = [st EXCEPT ![p] = [Resting EXCEPT !.kind = kind, !.pc = step,
                                              !.q = {q}, !.put = put]]

StartAdd(p, q) ==
    /\ minted[q] = 0
    /\ BeginOp(p, "add", q, [NoRecords EXCEPT ![q] = 1], "insert")
    /\ minted' = [minted EXCEPT ![q] = 1]
    /\ UNCHANGED <<shared, home, others, log, synced, remote, quirkRows, suspects, told, clashed, quirkFaults>>

StartUpdate(p, q) ==
    /\ Existing(p, q)
    /\ minted[q] < MaxVersion
    /\ BeginOp(p, "update", q, [NoRecords EXCEPT ![q] = minted[q] + 1], "wipe")
    /\ minted' = [minted EXCEPT ![q] = @ + 1]
    /\ UNCHANGED <<shared, home, others, log, synced, remote, quirkRows, suspects, told, clashed, quirkFaults>>

StartRemove(p, q) ==
    /\ Existing(p, q)
    /\ BeginOp(p, "remove", q, NoRecords, "readLog")
    /\ UNCHANGED <<shared, home, others, log, synced, remote, quirkRows, suspects, minted, told,
                   clashed, quirkFaults>>

\* deleteByFilePath of an update and the wipe inside the LanceDB addChunks.
WipeRows(p) ==
    /\ st[p].pc = "wipe"
    /\ quirkRows' = [q \in QuirkIds |-> IF st[p].put[q] # 0 THEN {} ELSE quirkRows[q]]
    /\ Goto(p, "insert")
    /\ UNCHANGED <<shared, home, others, log, synced, remote, suspects, minted, told, clashed, ops,
                   quirkFaults>>

AfterInsert(kind) ==
    CASE kind = "add" -> "append" [] kind = "update" -> "readLog" [] OTHER -> "orphans"

\* Another process writes a quirk that p is writing, or p restores a record
\* that has changed since p read it.
Overtaken(p) ==
    \E q \in QuirkIds :
        /\ st[p].put[q] # 0
        /\ \/ \E r \in Procs \ {p} : q \in st[r].q \/ st[r].put[q] # 0
           \/ st[p].kind = "reconcile" /\ LogOf(p)[q] # st[p].put[q]

\* LanceDB appends rows; ClickHouse replaces the row with the same id.
InsertRow(p) ==
    /\ st[p].pc = "insert"
    /\ quirkRows' = [q \in QuirkIds |->
                  IF st[p].put[q] = 0 THEN quirkRows[q]
                  ELSE {<<st[p].put[q], p>>} \cup (IF shared THEN {} ELSE quirkRows[q])]
    /\ Goto(p, AfterInsert(st[p].kind))
    /\ clashed' = (clashed \/ Overtaken(p))
    /\ UNCHANGED <<shared, home, others, log, synced, remote, suspects, minted, told, ops, quirkFaults>>

\* The end of addQuirk: appendJsonl.
AppendRecord(p) ==
    /\ st[p].pc = "append"
    /\ log' = [log EXCEPT ![home[p]] = [q \in QuirkIds |-> IF q \in st[p].q THEN 1 ELSE @[q]]]
    /\ told' = [q \in QuirkIds |-> IF q \in st[p].q THEN 1 ELSE told[q]]
    /\ clashed' = (clashed \/ \E q \in st[p].q : Tombstone \in {told[q], LogOf(p)[q]})
    /\ FinishOp(p)
    /\ UNCHANGED <<shared, home, others, synced, remote, quirkRows, suspects, minted, ops, quirkFaults>>

\* (mutant) an update replaces the row alone
RewrittenKeepsOld(p) ==
    [q \in QuirkIds |-> IF q \in st[p].q /\ st[p].kind = "remove" THEN Tombstone ELSE st[p].snap[q]]

\* updateQuirk and removeQuirk read the whole log and write it back: an update
\* replaces the record if there is one, a removal marks or adds it.
ReadLog(p) ==
    /\ st[p].pc = "readLog"
    /\ st' = [st EXCEPT ![p].pc = "writeLog", ![p].snap = LogOf(p)]
    /\ UNCHANGED <<shared, home, others, log, synced, remote, quirkRows, suspects, minted, told, clashed,
                   ops, quirkFaults>>

Rewritten(p) ==
    [q \in QuirkIds |->
        IF q \notin st[p].q THEN st[p].snap[q]
        ELSE IF st[p].kind = "remove" THEN Tombstone
        ELSE IF st[p].snap[q] # 0 THEN st[p].put[q] ELSE 0]

WriteLog(p) ==
    /\ st[p].pc = "writeLog"
    /\ log' = [log EXCEPT ![home[p]] = Rewritten(p)]
    /\ told' = [q \in QuirkIds |-> IF q \notin st[p].q THEN told[q]
                                 ELSE IF Rewritten(p)[q] = 0 THEN told[q] ELSE Rewritten(p)[q]]
    /\ clashed' = \/ clashed
                  \/ LogOf(p) # st[p].snap
                  \/ st[p].kind = "update" /\ \E q \in st[p].q : Tombstone \in {told[q], LogOf(p)[q]}
    /\ IF st[p].kind = "remove" THEN Goto(p, "deleteRow") ELSE FinishOp(p)
    /\ UNCHANGED <<shared, home, others, synced, remote, quirkRows, suspects, minted, ops, quirkFaults>>

\* Best effort: a row that stays is an orphan.
DeleteRow(p) ==
    /\ st[p].pc = "deleteRow"
    /\ \/ quirkRows' = [q \in QuirkIds |-> IF q \in st[p].q THEN {} ELSE quirkRows[q]] /\ UNCHANGED quirkFaults
       \/ "rows" \in Faults /\ quirkFaults < MaxFaults /\ quirkFaults' = quirkFaults + 1 /\ UNCHANGED quirkRows
    /\ FinishOp(p)
    /\ UNCHANGED <<shared, home, others, log, synced, remote, suspects, minted, told, clashed, ops>>

-----------------------------------------------------------------------------
\* reconcileQuirks at the end of a pass or when a process starts, after which
\* the state is uploaded.  It takes no lock; two that overlap count as a fault.
StartReconcile(p) ==
    /\ st[p].pc = "rest"
    /\ IF \E r \in Procs : st[r].kind = "reconcile"
       THEN "overlap" \in Faults /\ quirkFaults < MaxFaults /\ quirkFaults' = quirkFaults + 1
       ELSE UNCHANGED quirkFaults
    /\ st' = [st EXCEPT ![p] = [Resting EXCEPT !.kind = "reconcile", !.pc = "scanRows",
                                              !.snap = LogOf(p)]]
    /\ UNCHANGED <<shared, home, others, log, synced, remote, quirkRows, suspects, minted, told, clashed,
                   ops>>

\* Quirks with several rows lose them all; they and those without a row are
\* inserted again.  The rows could go as late as the wipe of the insertion, which
\* takes whatever has come in by then.
DedupRows(p) ==
    LET seen == {q \in QuirkIds : quirkRows[q] # {}}
        live == {q \in QuirkIds : Listed(st[p].snap[q])}
        dup == {q \in live \cap seen : Cardinality(quirkRows[q]) > 1}
        missing == (live \ seen) \cup dup
    IN  /\ st[p].pc = "scanRows"
        /\ quirkRows' = [q \in QuirkIds |-> IF q \in dup THEN {} ELSE quirkRows[q]]
        /\ st' = [st EXCEPT
                    ![p].seen = seen,
                    ![p].put = [q \in QuirkIds |-> IF q \in missing THEN st[p].snap[q] ELSE 0],
                    ![p].pc = IF missing = {} THEN "orphans"
                              ELSE IF shared THEN "insert" ELSE "wipe"]
        /\ UNCHANGED <<shared, home, others, log, synced, remote, suspects, minted, told, clashed,
                       ops, quirkFaults>>

\* (mutant) an orphan is deleted at first sight
OrphansAtOnce(p) ==
    LET orphan == {q \in st[p].seen : ~ Listed(st[p].snap[q])}
    IN  /\ st[p].pc = "orphans"
        /\ quirkRows' = [q \in QuirkIds |->
                      IF ~ EmptyLog(st[p].snap) /\ q \in orphan THEN {} ELSE quirkRows[q]]
        /\ FinishOp(p)
        /\ UNCHANGED <<shared, home, others, log, synced, remote, suspects, minted, told, clashed,
                       ops, quirkFaults>>

\* (mutant) when an orphan was first seen is not kept, so its hour never ends
OrphansForgotten(p) ==
    /\ st[p].pc = "orphans" /\ FinishOp(p)
    /\ UNCHANGED <<shared, home, others, log, synced, remote, quirkRows, suspects, minted, told,
                   clashed, ops, quirkFaults>>

\* A row without a live record is deleted when it was seen an hour before.
\* An empty log says nothing.
Orphans(p) ==
    LET s == st[p]
        mine == suspects[home[p]]
        orphan == {q \in s.seen : ~ Listed(s.snap[q])}
        stored == s.seen \cup {q \in QuirkIds : s.put[q] # 0}
        mark(q) == IF q \in orphan
                   THEN CASE mine[q] = "no" -> "new" [] mine[q] = "new" -> "new"
                          [] mine[q] = "old" -> "no"
                   ELSE IF q \in s.seen \/ q \notin stored THEN "no" ELSE mine[q]
    IN  /\ s.pc = "orphans"
        /\ IF EmptyLog(s.snap)
           THEN UNCHANGED <<quirkRows, suspects>>
           ELSE /\ quirkRows' = [q \in QuirkIds |->
                              IF q \in orphan /\ mine[q] = "old" THEN {} ELSE quirkRows[q]]
                /\ suspects' = [suspects EXCEPT ![home[p]] = [q \in QuirkIds |-> mark(q)]]
        /\ FinishOp(p)
        /\ UNCHANGED <<shared, home, others, log, synced, remote, minted, told, clashed, ops, quirkFaults>>

-----------------------------------------------------------------------------
\* StateSync.flush(["quirks"]), which reads the log and the bundle.
\* saveVersions writes back the map that flush loaded at its start.
SaveVersions(p, version) ==
    /\ synced' = [synced EXCEPT ![home[p]] = version]
    /\ st' = [st EXCEPT ![p] = Resting]

FlushLog(p) ==
    LET upload(payload) ==
            IF payload = synced[home[p]]
            THEN SaveVersions(p, payload)
            ELSE /\ st' = [st EXCEPT ![p].pc = "flushWrite", ![p].snap = LogOf(p),
                                     ![p].far = payload, ![p].base = synced[home[p]]]
                 /\ UNCHANGED synced
    IN  /\ st[p].pc = "flush"
        /\ \/ /\ IF EmptyLog(LogOf(p)) THEN SaveVersions(p, synced[home[p]])
                 ELSE upload(Merge(LogOf(p), remote))
              /\ UNCHANGED quirkFaults
           \/ /\ "offline" \in Faults /\ quirkFaults < MaxFaults
              /\ quirkFaults' = quirkFaults + 1
              /\ upload(LogOf(p))
        /\ UNCHANGED <<shared, home, others, log, remote, quirkRows, suspects, minted, told, clashed,
                       ops>>

FlushWrite(p) ==
    /\ st[p].pc = "flushWrite"
    /\ \/ /\ remote' = st[p].far
          /\ clashed' = (clashed \/ Merge(st[p].far, remote) # st[p].far)
          /\ Goto(p, "flushBack")
          /\ UNCHANGED <<synced, quirkFaults>>
       \/ /\ "offline" \in Faults /\ quirkFaults < MaxFaults
          /\ quirkFaults' = quirkFaults + 1
          /\ SaveVersions(p, st[p].base)
          /\ UNCHANGED <<remote, clashed>>
    /\ UNCHANGED <<shared, home, others, log, quirkRows, suspects, minted, told, ops>>

FlushBack(p) ==
    /\ st[p].pc = "flushBack"
    /\ IF st[p].far = st[p].snap
       THEN UNCHANGED <<log, clashed>>
       ELSE /\ log' = [log EXCEPT ![home[p]] = st[p].far]
            /\ clashed' = (clashed \/ LogOf(p) # st[p].snap)
    /\ SaveVersions(p, st[p].far)
    /\ UNCHANGED <<shared, home, others, remote, quirkRows, suspects, minted, told, ops, quirkFaults>>

-----------------------------------------------------------------------------
\* StateSync.hydrate, when a process starts.
StartHydrate(p) ==
    /\ st[p].pc = "rest"
    /\ shared
    /\ ~ EmptyLog(remote)
    /\ st' = [st EXCEPT ![p] = [Resting EXCEPT !.kind = "hydrate", !.pc = "hydWrite",
                                              !.snap = LogOf(p), !.far = remote, !.base = synced[home[p]]]]
    /\ UNCHANGED <<shared, home, others, log, synced, remote, quirkRows, suspects, minted, told, clashed,
                   ops, quirkFaults>>

\* An unchanged log is replaced; a changed one is merged and then uploaded.
HydrateWrite(p) ==
    LET s == st[p]
        clean == s.snap \in {NoRecords, s.base}
        new == IF clean THEN s.far ELSE Merge(s.snap, s.far)
    IN  /\ s.pc = "hydWrite"
        /\ IF s.snap = s.far
           THEN UNCHANGED <<log, clashed>>
           ELSE /\ log' = [log EXCEPT ![home[p]] = new]
                /\ clashed' = (clashed \/ LogOf(p) # s.snap)
        /\ IF s.snap = s.far \/ clean
           THEN SaveVersions(p, s.far)
           ELSE FinishOp(p) /\ UNCHANGED synced
        /\ UNCHANGED <<shared, home, others, remote, quirkRows, suspects, minted, told, ops, quirkFaults>>

-----------------------------------------------------------------------------
\* An hour passes.  No operation lasts that long.
AnHourPasses(m) ==
    /\ \A p \in Procs : st[p].pc = "rest"
    /\ \E q \in QuirkIds : suspects[m][q] = "new"
    /\ suspects' = [suspects EXCEPT ![m] =
                      [q \in QuirkIds |-> IF @[q] = "new" THEN "old" ELSE @[q]]]
    /\ UNCHANGED <<shared, home, others, log, synced, remote, quirkRows, st, minted, told, clashed, ops,
                   quirkFaults>>

\* A process dies.
QuirkCrash(p) ==
    /\ "crash" \in Faults /\ quirkFaults < MaxFaults
    /\ st[p].pc # "rest"
    /\ st' = [st EXCEPT ![p] = Resting]
    /\ quirkFaults' = quirkFaults + 1
    /\ UNCHANGED <<shared, home, others, log, synced, remote, quirkRows, suspects, minted, told, clashed,
                   ops>>

\* A full rebuild fills the new table from the workspace alone.
RowsRebuilt ==
    /\ "rebuild" \in Faults /\ quirkFaults < MaxFaults
    /\ quirkRows' = [q \in QuirkIds |-> {}]
    /\ quirkFaults' = quirkFaults + 1
    /\ UNCHANGED <<shared, home, others, log, synced, remote, suspects, st, minted, told, clashed, ops>>

\* What goes on by itself: the operation in hand.
Continue(p) ==
    \/ WipeRows(p) \/ InsertRow(p) \/ AppendRecord(p) \/ ReadLog(p) \/ WriteLog(p) \/ DeleteRow(p)
    \/ DedupRows(p) \/ Orphans(p)
    \/ FlushLog(p) \/ FlushWrite(p) \/ FlushBack(p)
    \/ HydrateWrite(p)

QuirkNext ==
    \/ \E p \in Procs :
          \/ \E q \in QuirkIds : StartAdd(p, q) \/ StartUpdate(p, q) \/ StartRemove(p, q)
          \/ StartReconcile(p) \/ StartHydrate(p) \/ Continue(p) \/ QuirkCrash(p)
    \/ \E m \in Procs : AnHourPasses(m)
    \/ RowsRebuilt

QuirkSpec == QuirkInit /\ [][QuirkNext]_quirks

-----------------------------------------------------------------------------
\* While no write was based on stale data, the logs of all machines come to list
\* exactly the quirks that were added and not removed.  Whatever happened before,
\* what is then listed everywhere has one row, and what is listed nowhere has
\* none (an empty log says nothing).
LogsAgree ==
    ~ clashed => \A p \in Procs, q \in QuirkIds : Listed(LogOf(p)[q]) <=> Listed(told[q])
RowsFollowLogs ==
    \A q \in QuirkIds :
        /\ (\A p \in Procs : Listed(LogOf(p)[q])) => Cardinality(quirkRows[q]) = 1
        /\ (\A p \in Procs : ~ EmptyLog(LogOf(p)) /\ ~ Listed(LogOf(p)[q])) => quirkRows[q] = {}
QuirksSettle == <>[](LogsAgree /\ RowsFollowLogs)

\* The cleaning of orphans never takes the rows of a quirk that its machine's
\* log lists by now, however old the copy it works from is.
AddsAreNotOrphans ==
    [][\A p \in Procs, q \in QuirkIds :
          Orphans(p) /\ quirkRows[q] # {} /\ quirkRows'[q] = {} /\ ~ clashed => ~ Listed(LogOf(p)[q])]_quirks

\* When nothing is going on and nothing went wrong, what is recalled is what
\* is listed: every row has the content that its machine's log gives.
RecallMatchesList ==
    (\A p \in Procs : st[p].pc = "rest") /\ ~ shared /\ ~ clashed /\ quirkFaults = 0
        => \A p \in Procs, q \in QuirkIds : \A row \in quirkRows[q] : row[1] = LogOf(p)[q]
=============================================================================
