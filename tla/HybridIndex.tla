---------------------------- MODULE HybridIndex -----------------------------
(***************************************************************************)
(* The two halves of hybrid search over several passes: the rows of the    *)
(* vector store and the entries of the keyword index, which is updated     *)
(* while files are prepared, before their vectors are there, kept in       *)
(* memory and saved at the end of the pass.                                *)
(***************************************************************************)
EXTENDS Naturals, FiniteSets

CONSTANTS IndexedFiles, MaxPasses, MaxRevision

VARIABLES
    text,       \* the revision of each file in the workspace, 0 if it is not there
    rows,       \* the rows of each file: revision and pass that wrote them
    recorded,   \* the revision the manifest has of each file, 0 for none
    words,      \* the keyword entries of each file, by revision and pass
    savedWords,      \* the same in the file they are saved to
    progress,      \* each file in the pass under way: "-", "todo", "prepared", "done"
    writtenNow,    \* the files written in this pass
    passes, passRunning, skipDedup,
    agreed,     \* history: files whose halves nothing has set apart
    passComplete    \* history: the last pass came to its end

hybrid == <<text, rows, recorded, words, savedWords, progress, writtenNow, passes, passRunning, skipDedup, agreed, passComplete>>

NoRows == <<0, 0>>
Contents == (1..MaxRevision) \X (1..MaxPasses)
None(set) == [f \in IndexedFiles |-> set]

HybridTypeOK ==
    /\ text \in [IndexedFiles -> 0..MaxRevision] /\ recorded \in [IndexedFiles -> 0..MaxRevision]
    /\ rows \in [IndexedFiles -> Contents \cup {NoRows}]
    /\ words \in [IndexedFiles -> SUBSET Contents] /\ savedWords \in [IndexedFiles -> SUBSET Contents]
    /\ progress \in [IndexedFiles -> {"-", "todo", "prepared", "done"}]
    /\ writtenNow \subseteq IndexedFiles /\ passes \in 0..MaxPasses
    /\ passRunning \in BOOLEAN /\ skipDedup \in BOOLEAN /\ agreed \subseteq IndexedFiles
    /\ passComplete \in BOOLEAN

HybridInit ==
    /\ text = None(1) /\ rows = None(NoRows) /\ recorded = None(0)
    /\ words = None({}) /\ savedWords = None({}) /\ progress = None("-")
    /\ writtenNow = {} /\ passes = 0 /\ passRunning = FALSE /\ skipDedup = FALSE
    /\ agreed = IndexedFiles /\ passComplete = FALSE

Edit(f) ==
    /\ ~ passRunning
    /\ text' \in {[text EXCEPT ![f] = r] : r \in {0, text[f] + 1} \cap 0..MaxRevision}
    /\ text' # text
    /\ UNCHANGED <<rows, recorded, words, savedWords, progress, writtenNow, passes, passRunning, skipDedup, agreed, passComplete>>

\* rehydrateKeywordIndex: files with rows and no entries get entries of their rows.
Rehydrated == [f \in IndexedFiles |-> IF words[f] = {} /\ rows[f] # NoRows THEN {rows[f]} ELSE words[f]]

StartPass ==
    /\ ~ passRunning /\ passes < MaxPasses
    /\ passes' = passes + 1 /\ passRunning' = TRUE /\ passComplete' = FALSE
    /\ skipDedup' = (rows = None(NoRows)) /\ writtenNow' = {}
    /\ words' = Rehydrated
    /\ progress' = [f \in IndexedFiles |-> IF text[f] # recorded[f] THEN "todo" ELSE "done"]
    /\ UNCHANGED <<text, rows, recorded, savedWords, agreed>>

\* A file that is gone loses its rows, its entries and its record.
RemoveStale(f) ==
    /\ passRunning /\ progress[f] = "todo" /\ text[f] = 0
    /\ rows' = [rows EXCEPT ![f] = NoRows] /\ words' = [words EXCEPT ![f] = {}]
    /\ recorded' = [recorded EXCEPT ![f] = 0]
    /\ progress' = [progress EXCEPT ![f] = "done"] /\ agreed' = agreed \cup {f}
    /\ UNCHANGED <<text, savedWords, writtenNow, passes, passRunning, skipDedup, passComplete>>

\* (mutant) the entries of the revision before stay
EntriesKept(f) == words[f]

\* prepareFile: the entries of a file the manifest knows are replaced, others added to.
EntriesLeft(f) == IF recorded[f] # 0 THEN {} ELSE words[f]

Prepare(f) ==
    /\ passRunning /\ progress[f] = "todo" /\ text[f] # 0
    /\ words' = [words EXCEPT ![f] = EntriesLeft(f) \cup {<<text[f], passes>>}]
    /\ progress' = [progress EXCEPT ![f] = "prepared"]
    /\ agreed' = IF recorded[f] # 0 THEN agreed \cup {f} ELSE agreed
    /\ UNCHANGED <<text, rows, recorded, savedWords, writtenNow, passes, passRunning, skipDedup, passComplete>>

\* storeWindow, with every vector of the file there, with some, or with none.
StoreWhole(f) ==
    /\ rows' = [rows EXCEPT ![f] = <<text[f], passes>>]
    /\ recorded' = [recorded EXCEPT ![f] = text[f]]
    /\ writtenNow' = writtenNow \cup {f}
    /\ UNCHANGED <<words, agreed>>

StorePart(f) ==
    /\ rows' = [rows EXCEPT ![f] = <<text[f], passes>>]
    /\ writtenNow' = writtenNow \cup {f} /\ agreed' = agreed \ {f}
    /\ UNCHANGED <<words, recorded>>

StoreNone(f) ==
    /\ IF recorded[f] = 0 /\ ~ skipDedup
       THEN /\ rows' = [rows EXCEPT ![f] = NoRows] /\ words' = [words EXCEPT ![f] = {}]
            /\ agreed' = agreed \cup {f}
       ELSE agreed' = agreed \ {f} /\ UNCHANGED <<rows, words>>
    /\ UNCHANGED <<recorded, writtenNow>>

Store(f) ==
    /\ passRunning /\ progress[f] = "prepared"
    /\ StoreWhole(f) \/ StorePart(f) \/ StoreNone(f)
    /\ progress' = [progress EXCEPT ![f] = "done"]
    /\ UNCHANGED <<text, savedWords, passes, passRunning, skipDedup, passComplete>>

\* The end of a pass: rows of files nobody knows go, with their entries, and
\* the entries are saved.
EndPass ==
    LET orphans == {f \in IndexedFiles : rows[f] # NoRows /\ recorded[f] = 0 /\ f \notin writtenNow}
        left == [f \in IndexedFiles |-> IF f \in orphans THEN {} ELSE words[f]]
    IN /\ passRunning /\ \A f \in IndexedFiles : progress[f] = "done"
       /\ rows' = [f \in IndexedFiles |-> IF f \in orphans THEN NoRows ELSE rows[f]]
       /\ words' = left /\ savedWords' = left /\ agreed' = agreed \cup orphans
       /\ passRunning' = FALSE /\ passComplete' = TRUE /\ progress' = None("-")
       /\ UNCHANGED <<text, recorded, writtenNow, passes, skipDedup>>

\* The process stops; the next one loads the entries last saved.
Restart ==
    /\ words' = savedWords /\ passRunning' = FALSE /\ progress' = None("-")
    /\ passComplete' = (passComplete /\ ~ passRunning)
    /\ agreed' = agreed \ {f \in IndexedFiles : words[f] # savedWords[f]}
    /\ UNCHANGED <<text, rows, recorded, savedWords, writtenNow, passes, skipDedup>>

HybridNext ==
    \/ \E f \in IndexedFiles : Edit(f) \/ RemoveStale(f) \/ Prepare(f) \/ Store(f)
    \/ StartPass \/ EndPass \/ Restart

HybridSpec == HybridInit /\ [][HybridNext]_hybrid

-----------------------------------------------------------------------------
\* When a pass has ended every file with rows is found by keywords too, whatever
\* crashed or failed before it.  The halves have the same revision of a file, and
\* the keywords no other, except of a file that was embedded in part or was
\* written by a pass that stopped: that is mended when the file is indexed
\* again or is gone.
NoGapsAfterPass == \A f \in IndexedFiles : rows[f] # NoRows => words[f] # {}
HalvesAgree ==
    passComplete =>
        /\ NoGapsAfterPass
        /\ \A f \in agreed : words[f] = IF rows[f] = NoRows THEN {} ELSE {rows[f]}
=============================================================================
