---------------------------- MODULE InvertedIndex ----------------------------
(***************************************************************************)
(* What a keyword index promises.  A chunk is found by the tokens of every *)
(* content it was put with since its file was last dropped: putting a      *)
(* chunk again adds to what it is found by, it does not replace it.  A     *)
(* restart finds an image that some save took, and an image has what was   *)
(* there when a save last began, of the chunks that are there when it is   *)
(* taken.  A write that is cut short leaves nothing.                       *)
(***************************************************************************)
EXTENDS Naturals

CONSTANTS Ids,
    ChunkTexts,   \* the sets of tokens a chunk may have
    FileOf,     \* the file of each chunk
    Savers

VARIABLES
    entries,    \* the tokens each chunk in the index is found by
    settled,    \* those of them that were there when a save last began
    images,     \* what the saves under way write
    saved

vars == <<entries, settled, images, saved>>

Nothing == [c \in {} |-> {}]
Only(index, S) == [c \in S |-> index[c]]
OnlyImages(S) == [w \in S |-> images[w]]
With(index, c, tokens) ==
    [d \in DOMAIN index \cup {c} |->
        IF d # c THEN index[d] ELSE IF c \in DOMAIN index THEN index[c] \cup tokens ELSE tokens]

Init == entries = Nothing /\ settled = Nothing /\ images = OnlyImages({}) /\ saved = Nothing

Put(c, text) ==
    /\ entries' = With(entries, c, text) /\ settled' = With(settled, c, {})
    /\ UNCHANGED <<images, saved>>

Drop(file) ==
    LET left == {c \in DOMAIN entries : FileOf[c] # file}
    IN /\ entries' = Only(entries, left) /\ settled' = Only(settled, left)
       /\ UNCHANGED <<images, saved>>

Clear == entries' = Nothing /\ settled' = Nothing /\ UNCHANGED <<images, saved>>

BeginSave == settled' = entries /\ UNCHANGED <<entries, images, saved>>
TakeImage(w) ==
    /\ images' = [v \in DOMAIN images \cup {w} |-> IF v = w THEN settled ELSE images[v]]
    /\ UNCHANGED <<entries, settled, saved>>
EndSave(w) ==
    /\ w \in DOMAIN images /\ saved' \in {images[w], Nothing}
    /\ images' = OnlyImages(DOMAIN images \ {w})
    /\ UNCHANGED <<entries, settled>>

Restart == entries' = saved /\ settled' = saved /\ images' = OnlyImages({}) /\ UNCHANGED saved

Next ==
    \/ \E c \in Ids : (\E text \in ChunkTexts : Put(c, text)) \/ Drop(FileOf[c])
    \/ Clear \/ BeginSave \/ Restart
    \/ \E w \in Savers : TakeImage(w) \/ EndSave(w)

Spec == Init /\ [][Next]_vars
=============================================================================
