---------------------------- MODULE KeywordIndex ----------------------------
(***************************************************************************)
(* The keyword index (retriever/keyword-index.ts): chunks live in slots    *)
(* that are never used again, postings are folded arrays with additions    *)
(* and deletions pending until the next save.  A save folds first, takes   *)
(* an image with the slots renumbered, and writes it over the old file; the*)
(* index changes between these, other saves run beside it, and the process *)
(* may stop.                                                               *)
(***************************************************************************)
EXTENDS Naturals, Sequences, FiniteSets, SequencesExt

CONSTANTS Ids, Files, Tokens,
    KeyOf,      \* the file of each chunk
    ChunkTexts,   \* the sets of tokens a chunk may have, of code and description
    Savers,     \* who saves: the end of a pass, a reconcile of the quirks, the plugin
    MaxChanges  \* bound on the chunks added and the saves begun

ASSUME ChunkTextsAssumption == ChunkTexts \subseteq SUBSET Tokens

VARIABLES
    ids,        \* idxToId: the chunk each slot was given to
    slotOf,     \* idToIdx and chunkMap: the live chunks and their slots
    csr,        \* the folded postings: the slots of each token, with frequencies
    added,      \* the postings added since
    dels,       \* the slots deleted since
    lengths,    \* docLengths, of the slots that have one
    total,      \* totalTokens
    folded,     \* the saves that have folded the postings
    writing,    \* the images that saves are writing
    disk,
    changes     \* counter of the bound

keyword == <<ids, slotOf, csr, added, dels, lengths, total, folded, writing, disk, changes>>

Live == DOMAIN slotOf
Slots == 1..Len(ids)
NoPostings == [t \in Tokens |-> [s \in {} |-> 0]]
Empty == [ids |-> <<>>, postings |-> NoPostings]
Freq(postings, t, s) == IF s \in DOMAIN postings[t] THEN postings[t][s] ELSE 0
Writing(S) == [w \in S |-> writing[w]]

KeywordTypeOK ==
    /\ ids \in Seq(Ids) /\ changes \in 0..MaxChanges
    /\ Live \subseteq Ids /\ \A c \in Live : slotOf[c] \in Slots /\ ids[slotOf[c]] = c
    /\ \A t \in Tokens : DOMAIN csr[t] \subseteq Slots /\ DOMAIN added[t] \subseteq Slots
    /\ dels \subseteq Slots /\ DOMAIN lengths \subseteq Slots /\ total \in Nat
    /\ folded \subseteq Savers /\ DOMAIN writing \subseteq Savers

KeywordInit ==
    /\ ids = <<>> /\ slotOf = [c \in {} |-> 0]
    /\ csr = NoPostings /\ added = NoPostings /\ dels = {}
    /\ lengths = [s \in {} |-> 0] /\ total = 0
    /\ folded = {} /\ writing = Writing({}) /\ disk = Empty /\ changes = 0

Another == changes < MaxChanges /\ changes' = changes + 1

\* addChunks.  A chunk that is there, as a quirk that reconcileQuirks restores,
\* keeps its slot and what was posted for it before; its tokens count again.
AddChunk(c, text) ==
    LET s == IF c \in Live THEN slotOf[c] ELSE Len(ids) + 1
    IN /\ Another
       /\ ids' = IF c \in Live THEN ids ELSE Append(ids, c)
       /\ slotOf' = [d \in Live \cup {c} |-> IF d = c THEN s ELSE slotOf[d]]
       /\ added' = [t \in Tokens |-> [x \in DOMAIN added[t] \cup (IF t \in text THEN {s} ELSE {}) |->
                                         Freq(added, t, x) + (IF x = s /\ t \in text THEN 1 ELSE 0)]]
       /\ lengths' = [x \in DOMAIN lengths \cup {s} |-> IF x = s THEN Cardinality(text) ELSE lengths[x]]
       /\ total' = total + Cardinality(text)
       /\ UNCHANGED <<csr, dels, folded, writing, disk>>

SumOf(f, S) == FoldSet(LAMBDA s, sum : sum + f[s], 0, S)

TotalWithout(gone) == total - SumOf(lengths, gone \cap DOMAIN lengths)

RemoveByFilePath(file) ==
    LET gone == {slotOf[c] : c \in {c \in Live : KeyOf[c] = file}}
    IN /\ gone # {}
       /\ slotOf' = [c \in {c \in Live : slotOf[c] \notin gone} |-> slotOf[c]]
       /\ dels' = dels \cup gone
       /\ lengths' = [s \in DOMAIN lengths \ gone |-> lengths[s]]
       /\ total' = TotalWithout(gone)
       /\ UNCHANGED <<ids, csr, added, folded, writing, disk, changes>>

ClearIndex ==
    /\ ids # <<>>
    /\ ids' = <<>> /\ slotOf' = [c \in {} |-> 0]
    /\ csr' = NoPostings /\ added' = NoPostings /\ dels' = {}
    /\ lengths' = [s \in {} |-> 0] /\ total' = 0
    /\ UNCHANGED <<folded, writing, disk, changes>>

\* merge
Folded ==
    [t \in Tokens |-> [s \in (DOMAIN csr[t] \cup DOMAIN added[t]) \ dels |->
                          Freq(csr, t, s) + Freq(added, t, s)]]

NothingPending == NoPostings

BeginSave(w) ==
    /\ w \notin folded \cup DOMAIN writing /\ Another
    /\ csr' = Folded /\ added' = NothingPending /\ dels' = {}
    /\ folded' = folded \cup {w}
    /\ UNCHANGED <<ids, slotOf, lengths, total, writing, disk>>

\* (mutant) the slots are written as they are
SlotsKept == [s \in Slots |-> s]

\* The live slots are renumbered in order, from one.
Renumbered ==
    [s \in Slots |-> IF \E c \in Live : slotOf[c] = s
                     THEN Cardinality({c \in Live : slotOf[c] <= s}) ELSE 0]
SlotOfNumber(k) == CHOOSE s \in Slots : Renumbered[s] = k
Numbers(S) == {Renumbered[s] : s \in S \cap Slots} \ {0}

\* What is serialized, once the directory is there.
Image ==
    [ids |-> [k \in 1..Cardinality(Live) |-> ids[SlotOfNumber(k)]],
     postings |-> [t \in Tokens |->
        [k \in Numbers(DOMAIN csr[t]) |-> csr[t][SlotOfNumber(k)]]]]

TakeImage(w) ==
    /\ w \in folded /\ folded' = folded \ {w}
    /\ writing' = [v \in DOMAIN writing \cup {w} |-> IF v = w THEN Image ELSE writing[v]]
    /\ UNCHANGED <<ids, slotOf, csr, added, dels, lengths, total, disk, changes>>

\* The file is written in place.  A write that fails or that another one runs into
\* leaves text that does not parse, which load takes for an empty index.
EndSave(w) ==
    /\ w \in DOMAIN writing /\ disk' \in {writing[w], Empty}
    /\ writing' = Writing(DOMAIN writing \ {w})
    /\ UNCHANGED <<ids, slotOf, csr, added, dels, lengths, total, folded, changes>>

SlotIn(image, c) == CHOOSE s \in DOMAIN image.ids : image.ids[s] = c

\* load, by the process that comes after this one
Load ==
    LET length == [s \in DOMAIN disk.ids |-> Cardinality({t \in Tokens : s \in DOMAIN disk.postings[t]})]
        known == {s \in DOMAIN disk.ids : length[s] > 0}
    IN /\ ids' = disk.ids
       /\ slotOf' = [c \in ToSet(disk.ids) |-> SlotIn(disk, c)]
       /\ csr' = disk.postings /\ added' = NoPostings /\ dels' = {}
       /\ lengths' = [s \in known |-> length[s]]
       /\ total' = SumOf(length, known)
       /\ folded' = {} /\ writing' = Writing({})
       /\ UNCHANGED <<disk, changes>>

KeywordNext ==
    \/ \E c \in Ids, text \in ChunkTexts : AddChunk(c, text)
    \/ \E f \in Files : RemoveByFilePath(f)
    \/ ClearIndex \/ Load
    \/ \E w \in Savers : BeginSave(w) \/ TakeImage(w) \/ EndSave(w)

KeywordSpec == KeywordInit /\ [][KeywordNext]_keyword

-----------------------------------------------------------------------------
\* What search and getMatchedTerms see of a chunk: its folded and its pending
\* postings, less the deleted slots.
Matched(c) ==
    {t \in Tokens : slotOf[c] \notin dels
                    /\ Freq(csr, t, slotOf[c]) + Freq(added, t, slotOf[c]) > 0}
Entries == [c \in Live |-> Matched(c)]
SettledEntries == [c \in Live |-> {t \in Tokens : slotOf[c] \in DOMAIN csr[t]}]
FoundIn(image) ==
    [c \in ToSet(image.ids) |-> {t \in Tokens : SlotIn(image, c) \in DOMAIN image.postings[t]}]
Images == [w \in DOMAIN writing |-> FoundIn(writing[w])]

Promise == INSTANCE InvertedIndex WITH
    FileOf <- KeyOf, entries <- Entries, settled <- SettledEntries, images <- Images, saved <- FoundIn(disk)

\* Slots, folding, tombstones and renumbering are invisible: through any sequence
\* of adds, repeated ones too, removals, saves that overlap, broken writes and
\* restarts a chunk is found by the tokens it was put with since its file was
\* last dropped, and by no others.
IndexKeepsPromise == Promise!Spec

\* As quirk-store.ts:466-467 has it, a chunk that is added again is overwritten:
\* it is found by the tokens of its new content only.
AddOverwritesById ==
    [][\A c \in Ids, text \in ChunkTexts : AddChunk(c, text) => Matched(c)' = text]_keyword
=============================================================================
