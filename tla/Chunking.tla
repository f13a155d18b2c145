------------------------------- MODULE Chunking -------------------------------
(***************************************************************************)
(* app/knowledge/chunking.py: a document's text is normalised, and cut     *)
(* into overlapping chunks that end at a paragraph where there is one.     *)
(*                                                                         *)
(* A character is what the algorithm tells apart: part of a word ("c"), a  *)
(* blank ("s") or a newline ("n").  Two word characters are the same       *)
(* character, but never the same position, and a chunk is kept as the      *)
(* positions it was cut from: a sequence of spans, two when the last chunk *)
(* was merged into the one before it.  Positions count from 0, as in the   *)
(* code, and a span [lo, hi] stands for text[lo:hi].                       *)
(***************************************************************************)
EXTENDS Integers, Sequences, FiniteSetsExt, SequencesExt

CONSTANTS
    Documents,   \* the contents of the documents
    Configs      \* the chunking configurations

Characters == {"c", "s", "n"}

\* KnowledgeDocument refuses a blank content, ChunkingConfig an overlap that
\* is not smaller, or a minimum that is larger, than a chunk.
ASSUME DocumentAssumption ==
    Documents \subseteq {d \in Seq(Characters) : "c" \in Range(d)}
ASSUME ConfigAssumption ==
    Configs \subseteq {k \in [max : Nat \ {0}, overlap : Nat,
                              min : Nat \ {0}] :
                          k.overlap < k.max /\ k.min <= k.max}

VARIABLES
    content,   \* the document's content
    config,    \* the configuration
    text,      \* the normalised content
    start,     \* where the next chunk starts
    chunks,    \* the chunks so far
    pc         \* where chunk_document is

vars == <<content, config, text, start, chunks, pc>>

-----------------------------------------------------------------------------
\* The whitespace that starts at i and goes on to the next word.
Gap(s, i) ==
    {j \in i..Len(s) : \A k \in i..j : s[k] # "c"}

\* What the whitespace between two words becomes: a blank line makes a
\* paragraph, anything else a single blank.
Separator(s, i) ==
    IF Cardinality({j \in Gap(s, i) : s[j] = "n"}) > 1
    THEN <<"n", "n">> ELSE <<"s">>

\* What the character at i leaves in the normalised text.  Whitespace before
\* the first word and after the last one leaves nothing.
Trace(s, i) ==
    CASE s[i] = "c" -> <<"c">>
      [] /\ s[i] # "c" /\ i > 1 /\ s[i - 1] = "c"
         /\ i + Cardinality(Gap(s, i)) <= Len(s) -> Separator(s, i)
      [] OTHER -> <<>>

\* normalize_knowledge_text.
Normalize(s) == FlattenSeq([i \in DOMAIN s |-> Trace(s, i)])

TextLength == Len(text)
IsSpace(i) == text[i + 1] # "c"

\* _skip_leading_whitespace.
SkipWhitespace(i) ==
    Min({j \in i..TextLength : j = TextLength \/ ~IsSpace(j)})

\* Mutant of Strip: a chunk keeps the whitespace around it.
StripsNothing(lo, hi) == <<<<lo, hi>>>>

\* str.strip of text[lo:hi], as a span.
Strip(lo, hi) ==
    LET words == {i \in lo..(hi - 1) : ~IsSpace(i)} IN
    IF words = {} THEN <<>> ELSE <<<<Min(words), Max(words) + 1>>>>

\* Mutant of WindowEnd: the paragraph's end is looked for in the whole text.
EndsAtAnyParagraph ==
    LET paragraphs == {i \in (start + config.min)..(TextLength - 2) :
                          text[i + 1] = "n" /\ text[i + 2] = "n"}
    IN  IF paragraphs # {} THEN Max(paragraphs)
        ELSE Min({start + config.max, TextLength})

\* Where the chunk that starts at start ends: at the last paragraph's end in
\* the window that leaves it min characters, or at the end of the window.
WindowEnd ==
    LET end == Min({start + config.max, TextLength})
        paragraphs == {i \in (start + config.min)..(end - 2) :
                          text[i + 1] = "n" /\ text[i + 2] = "n"}
    IN  IF end < TextLength /\ paragraphs # {} THEN Max(paragraphs) ELSE end

\* Mutant of NextStart: always steps back by the overlap.
AlwaysStepsBack(end) == SkipWhitespace(Max({end - config.overlap, 0}))

\* Mutant of NextStart: the overlap is counted from behind the paragraph's end.
StepsOverParagraph(end) ==
    SkipWhitespace(Max({Min({end + 2, TextLength}) - config.overlap, 0}))

\* Where the next chunk starts: overlap characters back, unless that is no
\* progress.
NextStart(end) ==
    LET back == Max({end - config.overlap, 0}) IN
    SkipWhitespace(IF back <= start THEN end ELSE back)

Width(span) == span[2] - span[1]
Size(chunk) ==
    IF Len(chunk) = 1 THEN Width(chunk[1])
    ELSE Width(chunk[1]) + 2 + Width(chunk[2])

\* _merge_tiny_final_chunk: joined as two paragraphs.
MergeTinyFinalChunk(cs) ==
    LET n == Len(cs) IN
    IF /\ n >= 2
       /\ Size(cs[n]) < config.min
       /\ Size(cs[n - 1] \o cs[n]) <= config.max
    THEN SubSeq(cs, 1, n - 2) \o <<cs[n - 1] \o cs[n]>> ELSE cs

-----------------------------------------------------------------------------
Init ==
    /\ content \in Documents
    /\ config \in Configs
    /\ text   = <<>>
    /\ start  = 0
    /\ chunks = <<>>
    /\ pc     = "normalize"

\* chunk_document up to _split_text.
NormalizeContent ==
    /\ pc = "normalize"
    /\ text' = Normalize(content)
    /\ pc'   = "split"
    /\ UNCHANGED <<content, config, start, chunks>>

\* One pass of the loop of _split_text.  The loop's condition never ends it: a
\* normalised text ends in a word, and the next start is before its end.
SplitOff ==
    /\ pc = "split" /\ start < TextLength
    /\ LET end == WindowEnd IN
       /\ chunks' = IF Strip(start, end) = <<>> THEN chunks
                    ELSE Append(chunks, Strip(start, end))
       /\ IF end >= TextLength
          THEN pc' = "merge" /\ UNCHANGED start
          ELSE start' = NextStart(end) /\ UNCHANGED pc
    /\ UNCHANGED <<content, config, text>>

\* _split_text from there on.
Merge ==
    /\ pc = "merge"
    /\ chunks' = MergeTinyFinalChunk(chunks)
    /\ pc'     = "done"
    /\ UNCHANGED <<content, config, text, start>>

Next == NormalizeContent \/ SplitOff \/ Merge

Spec == Init /\ [][Next]_vars

-----------------------------------------------------------------------------
TypeOK ==
    /\ content \in Documents /\ config \in Configs
    /\ text \in Seq(Characters)
    /\ start \in 0..TextLength
    /\ chunks \in Seq(Seq(Nat \X Nat))
    /\ pc \in {"normalize", "split", "merge", "done"}

\* chunk_document: no chunk is empty or larger than max_chunk_chars, not even
\* the merged one, and what two neighbours share is within the overlap.
ChunksFit ==
    /\ \A i \in DOMAIN chunks : Size(chunks[i]) \in 1..config.max
    /\ \A i \in 1..(Len(chunks) - 1) :
          Last(chunks[i])[2] - Head(chunks[i + 1])[1] <= config.overlap

Letters(s) == {i \in DOMAIN s : s[i] = "c"}

\* Every word character of the document is in a chunk, and there are as many
\* word characters in the text as in the content: nothing is lost by the
\* normalisation, the windows, the strips, the overlap or the merge.
NothingIsLost ==
    pc = "done" =>
        /\ \A i \in 0..(TextLength - 1) : ~IsSpace(i) =>
              \E c \in Range(chunks) : \E span \in Range(c) :
                  i \in span[1]..(span[2] - 1)
        /\ Cardinality(Letters(text)) = Cardinality(Letters(content))

\* The text of a chunk, two spans joined by a paragraph's end.
Cut(span) == SubSeq(text, span[1] + 1, span[2])
Content(chunk) ==
    IF Len(chunk) = 1 THEN Cut(chunk[1])
    ELSE Cut(chunk[1]) \o <<"n", "n">> \o Cut(chunk[2])

\* The chunk's identifier and checksum, its embedding and its character count
\* are all about the same text: the first two and the embedding normalise the
\* chunk again, and that changes nothing.
ChunksAreNormal ==
    \A c \in Range(chunks) : Normalize(Content(c)) = Content(c)

\* _split_text terminates on every document, whatever the overlap: each pass
\* that is not the last moves the start forward, and not up to the end.
LoopAdvances ==
    [][pc = "split" => \/ pc' = "merge"
                       \/ start < start' /\ start' < TextLength]_vars
=============================================================================
