------------------------------ MODULE Chunker -------------------------------
(***************************************************************************)
(* services/rag/chunker.py: _chunk_single packs the paragraphs of a text   *)
(* into a buffer and hands the buffer to _split_long when the next one     *)
(* does not fit; _split_long packs sentences likewise.  A text is known by *)
(* where its sentences end.                                                *)
(***************************************************************************)
EXTENDS Integers, Sequences, SequencesExt

CONSTANTS
    ChunkSize,       \* chunk_size
    Overlap,         \* chunk_overlap
    Lengths,         \* lengths of sentences
    MaxSentences,    \* bound: sentences of a paragraph
    MaxLength,       \* bound: characters of a paragraph
    MaxParagraphs    \* bound: paragraphs of a text

ASSUME ChunkerAssumption ==
    /\ {ChunkSize, Overlap, MaxSentences, MaxLength, MaxParagraphs} \subseteq Nat
    /\ 0 < Overlap /\ Overlap < ChunkSize
    /\ Lengths # {} /\ Lengths \subseteq Nat \ {0}

\* ends[s] is where sentence s of a paragraph ends; one space separates it
\* from the next.
SentenceLength(ends, s) == ends[s] - (IF s = 1 THEN 0 ELSE ends[s - 1] + 1)

\* A paragraph that is not closed ends without a full stop, as a heading
\* does: what follows it is not split off as a sentence.
Paragraphs ==
    {p \in [ends : UNION {[1..n -> 1..MaxLength] : n \in 1..MaxSentences},
            closed : BOOLEAN] :
        \A s \in DOMAIN p.ends : SentenceLength(p.ends, s) \in Lengths}

VARIABLES
    text,      \* the paragraphs
    next,      \* number of the paragraph the outer loop looks at
    buf,       \* the buffer of _chunk_single
    index,     \* its chunk index
    parts,     \* what _split_long has yet to pack
    acc,       \* the buffer of _split_long
    pc,        \* "pack", "split", "overlap" or "done"
    chunks     \* the chunks emitted

vars == <<text, next, buf, index, parts, acc, pc, chunks>>

\* A piece of text: its length and the sentences <<paragraph, number>> that
\* are in it whole, overlaps not counted.
Empty == [len |-> 0, ids |-> << >>]
Glue(a, gap, b) == [len |-> a.len + gap + b.len, ids |-> a.ids \o b.ids]

\* A buffer is a piece as well; it knows the pieces _SENTENCE_SPLIT divides
\* it into, and whether the next one would be split off.
NoBuffer == [len |-> 0, ids |-> << >>, pieces |-> << >>, closed |-> TRUE]
Paragraph(n) ==
    LET ends == text[n].ends
    IN  [len    |-> Last(ends),
         ids    |-> [s \in DOMAIN ends |-> <<n, s>>],
         pieces |-> [s \in DOMAIN ends |->
                       [len |-> SentenceLength(ends, s), ids |-> <<<<n, s>>>>]],
         closed |-> text[n].closed]

\* f"{a}\n\n{b}": a new sentence starts after the gap if a is closed.
Append2(a, b) ==
    [len    |-> a.len + 2 + b.len,
     ids    |-> a.ids \o b.ids,
     pieces |-> IF a.closed
                  THEN a.pieces \o b.pieces
                  ELSE Front(a.pieces) \o <<Glue(Last(a.pieces), 2, Head(b.pieces))>>
                         \o Tail(b.pieces),
     closed |-> b.closed]

\* How many of a text's last Overlap characters strip() may leave.
Tails(a) == {n \in 1..Overlap : n <= a.len}

\* Such a tail of a buffer may hold the end of a sentence, or several: cuts
\* says where the pieces of it begin and end.
Cuts ==
    {cuts \in UNION {[1..n -> [from : 0..Overlap, to : 0..Overlap]] : n \in 1..Overlap} :
        /\ cuts[1].from = 0
        /\ \A i \in DOMAIN cuts : /\ cuts[i].from < cuts[i].to
                                  /\ i > 1 => cuts[i - 1].to < cuts[i].from}

\* A buffer that starts with such a tail of the one before it.
Carried(cuts) ==
    [len    |-> Last(cuts).to,
     ids    |-> << >>,
     pieces |-> [i \in DOMAIN cuts |-> [len |-> cuts[i].to - cuts[i].from, ids |-> << >>]],
     closed |-> buf.closed]
Overlaps == {Carried(cuts) : cuts \in {c \in Cuts : Last(c).to \in Tails(buf)}}

Texts == UNION {[1..n -> Paragraphs] : n \in 0..MaxParagraphs}

Init ==
    /\ text \in Texts
    /\ next = 1
    /\ buf = NoBuffer
    /\ index = 0
    /\ parts = << >>
    /\ acc = Empty
    /\ pc = "pack"
    /\ chunks = << >>

AllSentences == {<<n, s>> : n \in 1..MaxParagraphs, s \in 1..MaxSentences}
Piece == [len : Nat, ids : Seq(AllSentences)]

TypeOK ==
    /\ text  \in Texts
    /\ next  \in 1..(MaxParagraphs + 1)
    /\ buf   \in [len : Nat, ids : Seq(AllSentences), pieces : Seq(Piece), closed : BOOLEAN]
    /\ index \in 0..MaxParagraphs
    /\ parts \in Seq(Piece)
    /\ acc   \in Piece
    /\ pc    \in {"pack", "split", "overlap", "done"}
    /\ chunks \in Seq([index : Nat, len : Nat \ {0}, ids : Seq(AllSentences)])

-----------------------------------------------------------------------------
(* _chunk_single                                                           *)

Emit(piece) ==
    chunks' = Append(chunks, [index |-> index, len |-> piece.len, ids |-> piece.ids])

FirstParagraph ==
    /\ pc = "pack" /\ next <= Len(text)
    /\ buf = NoBuffer
    /\ buf' = Paragraph(next)
    /\ next' = next + 1
    /\ UNCHANGED <<text, index, parts, acc, pc, chunks>>

Fits == buf.len + Paragraph(next).len + 2 <= ChunkSize
PackParagraph ==
    /\ pc = "pack" /\ next <= Len(text)
    /\ buf # NoBuffer
    /\ Fits
    /\ buf' = Append2(buf, Paragraph(next))
    /\ next' = next + 1
    /\ UNCHANGED <<text, index, parts, acc, pc, chunks>>

\* The buffer is flushed because the paragraph does not fit or because there
\* is none left.
Flush ==
    /\ pc = "pack"
    /\ buf # NoBuffer
    /\ next <= Len(text) => ~Fits
    /\ parts' = buf.pieces
    /\ acc' = Empty
    /\ pc' = "split"
    /\ UNCHANGED <<text, next, buf, index, chunks>>

\* Faulty variant: the paragraph that did not fit is lost.
OverlapDroppingParagraph ==
    /\ pc = "overlap"
    /\ buf' \in Overlaps
    /\ index' = index + 1
    /\ next' = next + 1
    /\ pc' = "pack"
    /\ UNCHANGED <<text, parts, acc, chunks>>

\* Faulty variant: the index jumps.
OverlapCountingChunks ==
    /\ pc = "overlap"
    /\ \E b \in Overlaps : buf' = Append2(b, Paragraph(next))
    /\ index' = index + Len(chunks)
    /\ next' = next + 1
    /\ pc' = "pack"
    /\ UNCHANGED <<text, parts, acc, chunks>>

\* After the flush: the overlap, then the paragraph that did not fit.
OverlapParagraph ==
    /\ pc = "overlap"
    /\ \E b \in Overlaps : buf' = Append2(b, Paragraph(next))
    /\ index' = index + 1
    /\ next' = next + 1
    /\ pc' = "pack"
    /\ UNCHANGED <<text, parts, acc, chunks>>

NoParagraph ==
    /\ pc = "pack" /\ text = << >>
    /\ pc' = "done"
    /\ UNCHANGED <<text, next, buf, index, parts, acc, chunks>>

-----------------------------------------------------------------------------
(* _split_long                                                             *)

AfterSplit == pc' = IF next <= Len(text) THEN "overlap" ELSE "done"

\* A buffer that fits is one chunk.
EmitBuffer ==
    /\ pc = "split" /\ buf.len <= ChunkSize
    /\ Emit(buf)
    /\ AfterSplit
    /\ UNCHANGED <<text, next, buf, index, parts, acc>>

\* Otherwise its sentences are packed one by one.
Long == pc = "split" /\ buf.len > ChunkSize
PackSentence ==
    /\ Long /\ parts # << >>
    /\ \/ acc = Empty /\ acc' = Head(parts)
       \/ /\ acc # Empty
          /\ acc.len + Head(parts).len + 1 <= ChunkSize
          /\ acc' = Glue(acc, 1, Head(parts))
    /\ parts' = Tail(parts)
    /\ UNCHANGED <<text, next, buf, index, pc, chunks>>

\* Faulty variant: the whole chunk is carried over.
EmitSentencesWhole ==
    /\ Long /\ parts # << >> /\ acc # Empty
    /\ acc.len + Head(parts).len + 1 > ChunkSize
    /\ Emit(acc)
    /\ acc' = Glue(acc, 1, Head(parts))
    /\ parts' = Tail(parts)
    /\ UNCHANGED <<text, next, buf, index, pc>>

\* A sentence that does not fit: the chunk is emitted, the sentence follows
\* the overlap.
EmitSentences ==
    /\ Long /\ parts # << >> /\ acc # Empty
    /\ acc.len + Head(parts).len + 1 > ChunkSize
    /\ Emit(acc)
    /\ \E n \in Tails(acc) : acc' = Glue([len |-> n, ids |-> << >>], 1, Head(parts))
    /\ parts' = Tail(parts)
    /\ UNCHANGED <<text, next, buf, index, pc>>

EmitLast ==
    /\ Long /\ parts = << >>
    /\ Emit(acc)
    /\ AfterSplit
    /\ UNCHANGED <<text, next, buf, index, parts, acc>>

Next ==
    \/ FirstParagraph \/ PackParagraph \/ Flush \/ OverlapParagraph \/ NoParagraph
    \/ EmitBuffer \/ PackSentence \/ EmitSentences \/ EmitLast

Spec == Init /\ [][Next]_vars

-----------------------------------------------------------------------------
Sentences == UNION {{<<n, s>> : s \in DOMAIN text[n].ends} : n \in DOMAIN text}
Earlier(x, y) == x[1] < y[1] \/ (x[1] = y[1] /\ x[2] < y[2])

\* Every sentence of the text is in a chunk as new text, whole; the chunks
\* follow the order of the text, within each and from each to the next, and
\* so none is in them twice.
TextIsKept ==
    pc = "done" =>
        /\ Sentences = UNION {{chunks[i].ids[k] : k \in DOMAIN chunks[i].ids} :
                                i \in DOMAIN chunks}
        /\ \A i, j \in DOMAIN chunks :
             \A k \in DOMAIN chunks[i].ids, l \in DOMAIN chunks[j].ids :
                (i < j \/ (i = j /\ k < l)) =>
                    Earlier(chunks[i].ids[k], chunks[j].ids[l])

\* chunk_text calls chunk_size the "Maximum number of characters per chunk",
\* which it is not.  How far the code may exceed it: a chunk that is too long
\* holds one new sentence at most, and beside it no more than an overlap and
\* its separator.  So no chunk is too long for want of a place to split it,
\* and the overlaps of a chunk do not pile up in the next.
SizeBounded ==
    \A i \in DOMAIN chunks :
        \/ chunks[i].len <= ChunkSize
        \/ /\ Len(chunks[i].ids) <= 1
           /\ \E l \in Lengths : chunks[i].len <= Overlap + 2 + l

\* Indexes start at 0 and grow by at most one from a chunk to the next.
IndexesInOrder ==
    \A i \in DOMAIN chunks :
        chunks[i].index \in IF i = 1 THEN {0}
                            ELSE {chunks[i - 1].index, chunks[i - 1].index + 1}
=============================================================================
