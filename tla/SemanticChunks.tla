---------------------------- MODULE SemanticChunks ----------------------------
(***************************************************************************)
(* The chunks of a reviewed text (semantic_chunks.py), and the rules by    *)
(* which a release's chunks are accepted (knowledge_release.py,            *)
(* _validate_release).                                                     *)
(*                                                                         *)
(* A text is a sequence of paragraphs, a paragraph of sentences, a         *)
(* sentence of words, a word of letters.  White space is normalized, so a  *)
(* text's identity - the hash of its words joined by spaces - is the       *)
(* sequence of its words; and a hash stands for what was hashed.           *)
(***************************************************************************)
EXTENDS Integers, FiniteSets, SequencesExt

CONSTANT MaxLetters  \* max_chunk_characters

Words(sentences) == FlattenSeq(sentences)
Normalized(text) == FlattenSeq([i \in DOMAIN text |-> Words(text[i])])

\* Characters of words joined by spaces.
Letters(words) == FoldLeft(LAMBDA n, w : n + Len(w), Len(words) - 1, words)
TooLong(words) == words # <<>> /\ Letters(words) > MaxLetters

\* Segments are put together while they fit; acc is [done, open].
Flush(acc) == IF acc.open = <<>> THEN acc.done ELSE Append(acc.done, acc.open)
Pack(acc, segment) ==
    IF acc.open # <<>> /\ TooLong(acc.open \o segment)
    THEN [done |-> Append(acc.done, acc.open), open |-> segment]
    ELSE [acc EXCEPT !.open = @ \o segment]
Nothing == [done |-> <<>>, open |-> <<>>]

\* A word of its own that no chunk can hold is cut into pieces.
Pieces(word) ==
    [i \in 1 .. (Len(word) + MaxLetters - 1) \div MaxLetters |->
        <<SubSeq(word, (i - 1) * MaxLetters + 1,
                 IF i * MaxLetters < Len(word) THEN i * MaxLetters ELSE Len(word))>>]
HardWrap(sentence) ==
    Flush(FoldLeft(LAMBDA acc, w : IF Len(w) > MaxLetters
                                   THEN [done |-> Flush(acc) \o Pieces(w), open |-> <<>>]
                                   ELSE Pack(acc, <<w>>), Nothing, sentence))
SplitParagraph(sentences) ==
    Flush(FoldLeft(Pack, Nothing, FlattenSeq([i \in DOMAIN sentences |-> HardWrap(sentences[i])])))
Units(text) ==
    FlattenSeq([i \in DOMAIN text |->
        IF TooLong(Words(text[i])) THEN SplitParagraph(text[i]) ELSE <<Words(text[i])>>])

(***************************************************************************)
(* A chunk's identity is made of its source, its document, its content and *)
(* how often that content has occurred before.                             *)
(***************************************************************************)
\* Mutant: repeated content is not counted.
OccurrenceZero(units, i) == 0

Occurrence(units, i) == Cardinality({j \in 1 .. (i - 1) : units[j] = units[i]})
ChunkId(source, document, content, n) == <<source, document, content, n>>

Chunks(document, record) ==
    LET units == Units(document.text)
    IN  [i \in DOMAIN units |->
            [id |-> ChunkId(document.source, document.id, units[i], Occurrence(units, i)),
             source |-> document.source, document |-> document.id, index |-> i - 1,
             content |-> units[i], normalized |-> record.text,
             review |-> document.review]]

\* What build_stable_semantic_chunks asks of a document of a reviewed source.
Chunkable(document, record) ==
    /\ document.source = record.source
    /\ document.review \in {"approved-current", "overdue-policy-usable"}
    /\ Normalized(document.text) = record.text
    /\ document.text # <<>>

(***************************************************************************)
(* The rules for the chunks of a manifest's sources.                       *)
(***************************************************************************)
OfDocument(chunks, source, document) ==
    {i \in DOMAIN chunks : chunks[i].source = source /\ chunks[i].document = document}
At(chunks, own, index) == CHOOSE i \in own : chunks[i].index = index
InSequence(chunks, own) ==
    [k \in 1 .. Cardinality(own) |-> chunks[At(chunks, own, k - 1)].content]

\* Numbered without a gap, each named by its content and occurrence, and put
\* together the reviewed text.
SequenceValid(chunks, own, record) ==
    LET contents == InSequence(chunks, own)
    IN  /\ {chunks[i].index : i \in own} = 0 .. (Cardinality(own) - 1)
        /\ \A i \in own :
              chunks[i].id = ChunkId(chunks[i].source, chunks[i].document, chunks[i].content,
                  Cardinality({k \in 1 .. chunks[i].index : contents[k] = chunks[i].content}))
        /\ FlattenSeq(contents) = record.text

ChunksValid(chunks, records) ==
    /\ Cardinality({chunks[i].id : i \in DOMAIN chunks}) = Len(chunks)
    /\ \A i \in DOMAIN chunks : \E r \in records :
          /\ chunks[i].source = r.source
          /\ chunks[i].review = r.state
          /\ chunks[i].normalized = r.text
          /\ SequenceValid(chunks, OfDocument(chunks, chunks[i].source, chunks[i].document), r)
    /\ \A r \in records : \E i \in DOMAIN chunks : chunks[i].source = r.source
==============================================================================
