------------------------------ MODULE Chunking ------------------------------
(***************************************************************************)
(* How a file becomes chunks (chunkFile in chunker/factory.ts): a parser   *)
(* gives the nodes of the file, the fallback chunker windows of lines if   *)
(* there are none; what is too long is split, and pieces are given the     *)
(* last lines of the piece before them.                                    *)
(*                                                                         *)
(* A file is the lengths of its lines, 0 for a blank one.  What a chunk    *)
(* holds is a sequence of lines, each with its number and, if it was cut   *)
(* by characters, the number of the slice.                                 *)
(***************************************************************************)
EXTENDS Ordering, SequencesExt

CONSTANTS
    LineLengths,        \* of lines
    MaxFile,        \* bound on the lines of a file
    Layouts,        \* what a parser can find in a file of so many lines: first and last lines
    FallbackLines,  \* DEFAULT_MAX_LINES
    MaxLines, MaxChars,
    Overlaps

ASSUME ChunkingAssumption ==
    /\ LineLengths \subseteq Nat /\ MaxFile \in Nat /\ Overlaps \subseteq Nat
    /\ FallbackLines \in Nat \ {0} /\ MaxLines \in Nat \ {0} /\ MaxChars \in Nat \ {0}
    /\ \A n \in 1..MaxFile : \A s \in Layouts[n] :
          s \in Seq((1..n) \X (1..n)) /\ \A i \in DOMAIN s : s[i][1] <= s[i][2]

VARIABLES
    source,         \* the lengths of the lines
    nodes,          \* what the parser finds
    overlap,        \* indexing.chunkOverlap
    chunks          \* the result

chunking == <<source, nodes, overlap, chunks>>

Lines(from, to) == Tuple([i \in 1 .. to - from + 1 |->
                      [line |-> from + i - 1, slice |-> 0, length |-> source[from + i - 1]]])
Chars(ls) ==
    LET length[i \in 0..Len(ls)] == IF i = 0 THEN 0 ELSE length[i - 1] + ls[i].length
    IN  length[Len(ls)] + Len(ls) - 1
IsBlank(ls) == \A i \in DOMAIN ls : ls[i].length = 0
Piece(ls, first, last) == [text |-> ls, first |-> first, last |-> last, before |-> <<>>]

ChunkingInit ==
    /\ source \in UNION {[1..n -> LineLengths] : n \in 1..MaxFile}
    /\ nodes \in Layouts[Len(source)]
    /\ \A i \in DOMAIN nodes : source[nodes[i][1]] > 0 /\ source[nodes[i][2]] > 0
    /\ overlap \in Overlaps
    /\ chunks = <<>>

\* Nodes that are kept do not overlap; each begins and ends with something.
Parsed == [i \in DOMAIN nodes |-> Piece(Lines(nodes[i][1], nodes[i][2]), nodes[i][1], nodes[i][2])]

\* Blank lines around a window are cut off its text, not off its range.
Trimmed(ls) ==
    IF IsBlank(ls) THEN <<>>
    ELSE LET filled == {i \in DOMAIN ls : ls[i].length > 0}
         IN  SubSeq(ls, Least(filled), Greatest(filled))

Fallback ==
    LET window(first) ==
            LET end == first + FallbackLines - 1
                last == IF end < Len(source) THEN end ELSE Len(source)
            IN  Piece(Trimmed(Lines(first, last)), first, last)
        count == (Len(source) + FallbackLines - 1) \div FallbackLines
        windows == Tuple([i \in 1..count |-> window((i - 1) * FallbackLines + 1)])
    IN  Arranged(windows, {i \in 1..count : windows[i].text # <<>>}, InPlace(windows))

-----------------------------------------------------------------------------
(* splitOversized. *)

LastLines(ls, n) == SubSeq(ls, IF Len(ls) > n THEN Len(ls) - n + 1 ELSE 1, Len(ls))
CharsAndBreaks(ls) == IF ls = <<>> THEN 0 ELSE Chars(ls) + 1

\* (mutant) the lines that are repeated are not counted
FlushForgetsTail(chunk, w, i) ==
    IF w.window = <<>> THEN w
    ELSE [pieces |-> Append(w.pieces,
                            Piece(w.window, chunk.first + w.offset, chunk.first + i - 2)),
          window |-> LastLines(w.window, overlap),
          offset |-> i - 1]

\* A window ends before line i of the chunk; the next begins with its last lines.
Flush(chunk, w, i) ==
    IF w.window = <<>> THEN w
    ELSE [pieces |-> Append(w.pieces,
                            Piece(w.window, chunk.first + w.offset, chunk.first + i - 2)),
          window |-> LastLines(w.window, overlap),
          offset |-> i - 1 - Len(LastLines(w.window, overlap))]

Slices(l) == [k \in 1 .. (l.length + MaxChars - 1) \div MaxChars |->
                [line |-> l.line, slice |-> k,
                 length |-> IF k * MaxChars <= l.length THEN MaxChars ELSE l.length % MaxChars]]

\* A line longer than a chunk is cut by characters, and repeated by nothing.
Wrapped(chunk, w, i) ==
    LET l == chunk.text[i]
        slice(s) == Piece(<<s>>, chunk.first + i - 1, chunk.first + i - 1)
    IN  [pieces |-> Flush(chunk, w, i).pieces
                        \o [k \in DOMAIN Slices(l) |-> slice(Slices(l)[k])],
         window |-> <<>>, offset |-> i]

Full(w, l) ==
    w.window # <<>> /\ (Len(w.window) >= MaxLines
                           \/ CharsAndBreaks(w.window) + l.length + 1 > MaxChars)

NextLine(chunk, w, i) ==
    LET l == chunk.text[i]
        room == IF Full(w, l) THEN Flush(chunk, w, i) ELSE w
    IN  IF l.length > MaxChars THEN Wrapped(chunk, w, i)
        ELSE [room EXCEPT !.window = Append(@, l)]

Windows(chunk) ==
    LET n == Len(chunk.text)
        after[i \in 0..n] == IF i = 0 THEN [pieces |-> <<>>, window |-> <<>>, offset |-> 0]
                             ELSE NextLine(chunk, after[i - 1], i)
    IN  Flush(chunk, after[n], n + 1).pieces

Split(chunk) ==
    IF Len(chunk.text) <= MaxLines /\ Chars(chunk.text) <= MaxChars THEN <<chunk>>
    ELSE LET windows == Windows(chunk)
             filled == {k \in DOMAIN windows : ~IsBlank(windows[k].text)}
         IN  Arranged(windows, filled, InPlace(windows))

SplitOversized(found) ==
    LET result[i \in 0..Len(found)] ==
            IF i = 0 THEN <<>> ELSE result[i - 1] \o Split(found[i])
    IN  result[Len(found)]

\* applyChunkOverlap: the text grows, the range does not.
Overlapping(pieces) ==
    IF overlap = 0 THEN pieces
    ELSE [i \in DOMAIN pieces |->
            IF i = 1 THEN pieces[i]
            ELSE [pieces[i] EXCEPT !.before = LastLines(pieces[i - 1].text, overlap)]]

ChunkFile ==
    /\ chunks = <<>>
    /\ LET found == IF Parsed = <<>> THEN Fallback ELSE Parsed
       IN  chunks' = Overlapping(SplitOversized(found))
    /\ UNCHANGED <<source, nodes, overlap>>

ChunkingSpec == ChunkingInit /\ [][ChunkFile]_chunking

-----------------------------------------------------------------------------
Slice0(n) == [line |-> n, slice |-> 0, length |-> source[n]]
Holds(p, l) == \E i \in DOMAIN p.text : p.text[i] = l

\* What was chunked: everything between the lines of the nodes, or the file.
Chunked == IF nodes = <<>> THEN DOMAIN source
           ELSE UNION {nodes[i][1] .. nodes[i][2] : i \in DOMAIN nodes}

\* Once a file is chunked, every line that is not blank is in a chunk, whole or
\* in all its slices; a chunk of a parsed file has the lines that its range
\* says, whatever was cut and repeated before it; and where nothing is repeated
\* no chunk is longer than it may be.
ChunksTellTheFile ==
    chunks # <<>> =>
        /\ \A n \in Chunked : source[n] > 0 =>
              \/ \E p \in ToSet(chunks) : Holds(p, Slice0(n))
              \/ \A s \in ToSet(Slices(Slice0(n))) : \E p \in ToSet(chunks) : Holds(p, s)
        /\ nodes # <<>> => \A p \in ToSet(chunks) :
              \/ p.text = Lines(p.first, p.last)
              \/ p.first = p.last /\ Len(p.text) = 1 /\ p.text[1].line = p.first
        /\ overlap = 0 => \A p \in ToSet(chunks) :
              Len(p.text) <= MaxLines /\ Chars(p.text) <= MaxChars
=============================================================================
