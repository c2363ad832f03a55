----------------------------- MODULE Ingestion -----------------------------
(***************************************************************************)
(* Building a corpus from Markdown (backend/app/knowledge/ingestion):      *)
(* parse_markdown, chunk_sections, ingest_document and build_corpus, and   *)
(* the sections that write_staging_build makes of the chunks.              *)
(*                                                                         *)
(* A corpus is a sequence of documents, a document a sequence of lines.    *)
(* The tokens of a document's text are numbered in their order; a text is  *)
(* the span of its tokens, a chunk the sequence of the spans it was put    *)
(* together from.                                                          *)
(***************************************************************************)
EXTENDS Integers, Sequences

CONSTANTS
    Corpora,        \* the corpora that may be built
    Title,          \* titles of headings
    TargetMin,      \* a chunk this long may be left as it is (250)
    TargetMax,      \* and should not grow longer (600)
    MaxTokens,      \* no chunk is longer (900)
    ShortThreshold, \* a shorter rest joins the chunk before it (120)
    Overlap         \* tokens that two pieces of a long block share (80)

ASSUME ChunkAssumption ==
    /\ TargetMin \in Nat /\ TargetMax \in Nat /\ MaxTokens \in Nat
    /\ ShortThreshold \in Nat /\ Overlap \in Nat
    /\ Overlap < TargetMax /\ TargetMax <= MaxTokens
    /\ 2 * Overlap <= TargetMax  \* chunk_sections refuses an overlap above 100
    /\ TargetMin + TargetMax <= MaxTokens + 1

\* "=" and "-" are the underlines of setext headings; a line of text may be
\* underlined and be a title then.  The level of a heading is its number of signs,
\* that of a fence the length of its marker (there is one kind of marker here).
\* Whatever is not a space is in a token (TOKEN), so that only a blank line has none.
Line == {line \in [kind : {"heading", "text", "blank", "fence", "=", "-"}, level : 1 .. 6,
                   title : Title, tokens : Nat] : line.kind = "blank" <=> line.tokens = 0}
Document == [lines : Seq(Line), collection : {"original", "new_kb"},
             override : {"none", "online", "research", "invalid"}]

ASSUME CorporaAssumption == Corpora \subseteq Seq(Document) \ {<<>>}

VARIABLES
    corpus,         \* the documents that are left to read
    stage,          \* "parse" or "chunk" a document, "done", "failed", or "idle"
    at,             \* the next line of the document
    headings,       \* parse_markdown's headings, open_fence and sections
    fenced,         \* the level of the open fence, or 0
    sections,
    body,           \* its body, as the blocks that _units splits it into
    running,        \* the line before this one is in the last block
    read,           \* tokens of text read so far
    blocks,         \* the blocks of the section that are left to chunk
    pending,        \* chunk_sections' pending and result
    result,
    records         \* the corpus: chunks, their relationships and admission

parseVars == <<at, headings, fenced, body, running, read>>
ingestVars == <<corpus, stage, parseVars, sections, blocks, pending, result, records>>

Span == [from : Nat, to : Nat]
SizeOf(span) == span.to - span.from + 1
Nothing == [pieces |-> <<>>, size |-> 0]

Path == Seq(Title)
Section == [path : Path \ {<<>>}, blocks : Seq(Span)]
Joined == [pieces : Seq(Span), size : Nat]
Piecewise == [path : Path \ {<<>>}, pieces : Seq(Span), size : Nat]

IngestTypeOK ==
    /\ corpus \in Seq(Document)
    /\ stage \in {"idle", "parse", "chunk", "done", "failed"}
    /\ at \in Nat \ {0}
    /\ headings \in Path
    /\ fenced \in 0 .. 6 /\ running \in BOOLEAN
    /\ body \in Seq(Span) /\ blocks \in Seq(Span)
    /\ sections \in Seq(Section)
    /\ read \in Nat
    /\ pending \in Joined
    /\ result \in Seq(Piecewise)

Blank ==
    /\ at = 1 /\ headings = <<>> /\ fenced = 0 /\ body = <<>> /\ running = FALSE
    /\ read = 0 /\ sections = <<>> /\ blocks = <<>> /\ pending = Nothing /\ result = <<>>
    /\ records = <<>>

IngestIdle == Blank /\ corpus = <<>> /\ stage = "idle"
IngestInit == Blank /\ corpus \in Corpora /\ stage = "parse"

document == Head(corpus)
lines == document.lines

-----------------------------------------------------------------------------
(* parse_markdown *)

\* A document without a heading goes under its file's name.
CONSTANT FileName

ASSUME FileNameAssumption == FileName \in Title

\* Slip: the text before the first heading has no path.
WithoutFileName ==
    IF body = <<>> THEN sections ELSE Append(sections, [path |-> headings, blocks |-> body])

\* flush: a body that holds anything becomes a section.
Flushed ==
    IF body = <<>> THEN sections
    ELSE Append(sections, [path |-> IF headings = <<>> THEN <<FileName>> ELSE headings,
                           blocks |-> body])

\* headings[level - 1:] = [title]
Under(level, title) ==
    Append(SubSeq(headings, 1, IF level - 1 < Len(headings) THEN level - 1 ELSE Len(headings)),
           title)

BeginSection(level, title, next) ==
    /\ sections' = Flushed
    /\ body' = <<>> /\ running' = FALSE
    /\ headings' = Under(level, title)
    /\ at' = next
    /\ UNCHANGED <<fenced, read>>

IsHeading == fenced = 0 /\ lines[at].kind = "heading"
IsUnderlined ==
    /\ fenced = 0 /\ lines[at].kind \notin {"heading", "fence", "blank"}
    /\ at < Len(lines) /\ lines[at + 1].kind \in {"=", "-"}

ReadHeading ==
    /\ IsHeading
    /\ BeginSection(lines[at].level, lines[at].title, at + 1)

ReadUnderlined ==
    /\ IsUnderlined
    /\ BeginSection(IF lines[at + 1].kind = "=" THEN 1 ELSE 2, lines[at].title, at + 2)

ReadBlank ==
    /\ lines[at].kind = "blank"
    /\ running' = FALSE
    /\ at' = at + 1
    /\ UNCHANGED <<headings, fenced, sections, body, read>>

\* A fence opens one or, if it is long enough, closes the open one; within a
\* fence nothing is a heading.
FencedAfter(line) ==
    IF line.kind # "fence" THEN fenced
    ELSE IF fenced = 0 THEN line.level
    ELSE IF line.level >= fenced THEN 0 ELSE fenced

\* Any other line joins the block of the line before, or begins one.
ReadText ==
    /\ lines[at].kind # "blank" /\ ~IsHeading /\ ~IsUnderlined
    /\ read' = read + lines[at].tokens
    /\ body' = IF running THEN [body EXCEPT ![Len(body)] = [from |-> @.from, to |-> read']]
               ELSE Append(body, [from |-> read + 1, to |-> read'])
    /\ running' = TRUE
    /\ fenced' = FencedAfter(lines[at])
    /\ at' = at + 1
    /\ UNCHANGED <<headings, sections>>

ParseLine ==
    /\ stage = "parse" /\ at <= Len(lines)
    /\ ReadHeading \/ ReadUnderlined \/ ReadBlank \/ ReadText
    /\ UNCHANGED <<corpus, stage, blocks, pending, result, records>>

\* The last flush; then the sections are chunked.
ParseEnds ==
    /\ stage = "parse" /\ at > Len(lines)
    /\ sections' = Flushed
    /\ stage' = "chunk"
    /\ UNCHANGED <<corpus, parseVars, blocks, pending, result, records>>

-----------------------------------------------------------------------------
(* chunk_sections *)

ChunkOf(text) == [path |-> Head(sections).path, pieces |-> text.pieces, size |-> text.size]

OpenSection ==
    /\ stage = "chunk" /\ sections # <<>>
    /\ blocks = <<>> /\ pending = Nothing
    /\ blocks' = Head(sections).blocks
    /\ UNCHANGED <<corpus, stage, parseVars, sections, pending, result, records>>

\* Slip: the next piece of a long block starts after the overlap, not before it.
SkipOverlap(unit) == unit.to + Overlap + 1

\* Where _split_long goes on in a block of which it has cut a unit.
NextStart(unit) == unit.to - Overlap + 1

\* _split_long: at most TargetMax tokens from the block's (remaining) beginning.
Unit == LET block == Head(blocks)
            end == block.from + TargetMax - 1
        IN  [from |-> block.from, to |-> IF end < block.to THEN end ELSE block.to]

\* The first branch: the pending text is long enough, and would grow too long.
FullEnough(size) == pending # Nothing /\ size > TargetMax /\ pending.size >= TargetMin

\* One turn of the loop over the units of a section.  (With TargetMin + TargetMax
\* <= MaxTokens + 1 the code's third branch is never taken: what is not long
\* enough to be left alone has room for another unit.)
TakeUnit ==
    /\ stage = "chunk" /\ blocks # <<>>
    /\ LET size == pending.size + SizeOf(Unit)
       IN  IF FullEnough(size)
           THEN /\ result' = Append(result, ChunkOf(pending))
                /\ pending' = [pieces |-> <<Unit>>, size |-> SizeOf(Unit)]
           ELSE /\ pending' = [pieces |-> Append(pending.pieces, Unit), size |-> size]
                /\ UNCHANGED result
    /\ blocks' = IF Unit.to = Head(blocks).to THEN Tail(blocks)
                 ELSE <<[from |-> NextStart(Unit), to |-> Head(blocks).to]>> \o Tail(blocks)
    /\ UNCHANGED <<corpus, stage, parseVars, sections, records>>

\* Slip: whether the two fit is not asked.
JoinsRegardless ==
    /\ result # <<>> /\ pending.size < ShortThreshold
    /\ result[Len(result)].path = Head(sections).path

\* The rest of a section joins the chunk before it when it is short, of the same
\* heading path and fits.
JoinsPrevious ==
    /\ result # <<>> /\ pending.size < ShortThreshold
    /\ result[Len(result)].path = Head(sections).path
    /\ result[Len(result)].size + pending.size <= MaxTokens

CloseSection ==
    /\ stage = "chunk" /\ blocks = <<>> /\ pending # Nothing
    /\ result' = IF JoinsPrevious
                 THEN [result EXCEPT ![Len(result)] =
                         [path |-> Head(sections).path,
                          pieces |-> result[Len(result)].pieces \o pending.pieces,
                          size |-> result[Len(result)].size + pending.size]]
                 ELSE Append(result, ChunkOf(pending))
    /\ pending' = Nothing
    /\ sections' = Tail(sections)
    /\ UNCHANGED <<corpus, stage, parseVars, blocks, records>>

-----------------------------------------------------------------------------
(* ingest_document, build_corpus and the sections of write_staging_build *)

Parent(path) == SubSeq(path, 1, Len(path) - 1)

\* A new source waits for a reviewer, who may override either way.
Scope == IF document.collection = "original" THEN "online"
         ELSE IF document.override = "none" THEN "research"
         ELSE document.override

\* What is neither online_eligible and approved nor research_only is no admission;
\* it is looked at with every chunk, and a document without chunks has none.
Refused == document.collection = "new_kb" /\ document.override = "invalid" /\ result # <<>>

\* The ValueError ends build_corpus, and there is no corpus.
InvalidOverride ==
    /\ stage = "chunk" /\ sections = <<>> /\ Refused
    /\ stage' = "failed"
    /\ records' = <<>>
    /\ UNCHANGED <<corpus, parseVars, sections, blocks, pending, result>>

\* Slip: a section is known by its path alone.
PathOnly(number, path) == <<0, Parent(path)>>

\* _stable_id("section", document_id, *parent_path); a chunk under a heading of
\* the first level has no parent.
SectionId(number, path) == <<number, Parent(path)>>

\* The chunks get their relationships; every document has its own number here,
\* in the code an identity made of its path and content.
EndDocument ==
    /\ stage = "chunk" /\ sections = <<>> /\ ~Refused
    /\ LET number == IF records = <<>> THEN 1 ELSE records[Len(records)].document + 1
       IN  records' = records \o
               [i \in DOMAIN result |->
                   [document |-> number, index |-> i, path |-> result[i].path,
                    pieces |-> result[i].pieces, scope |-> Scope,
                    parent |-> IF Len(result[i].path) = 1 THEN <<>>
                               ELSE SectionId(number, result[i].path),
                    previous |-> i - 1,
                    next |-> IF i < Len(result) THEN i + 1 ELSE 0]]
    /\ corpus' = Tail(corpus)
    /\ stage' = IF Len(corpus) = 1 THEN "done" ELSE "parse"
    /\ at' = 1 /\ headings' = <<>> /\ body' = <<>> /\ running' = FALSE
    /\ fenced' = 0 /\ read' = 0 /\ result' = <<>>
    /\ UNCHANGED <<sections, blocks, pending>>

\* sections.setdefault: the summary of a section is the beginning of the first
\* chunk that names it as its parent.
Summary(section) ==
    LET named == {i \in DOMAIN records : records[i].parent = section}
    IN  records[CHOOSE i \in named : \A j \in named : i <= j]

IngestNext ==
    \/ ParseLine \/ ParseEnds
    \/ OpenSection \/ TakeUnit \/ CloseSection
    \/ InvalidOverride \/ EndDocument

IngestSpec == IngestInit /\ [][IngestNext]_ingestVars

-----------------------------------------------------------------------------
(* Properties *)

\* No chunk of chunk_sections is longer than its MaxTokens, short rests merged in
\* or not.  (What the encoder itself takes is not in the model.)
ChunksFit == \A i \in DOMAIN result : result[i].size <= MaxTokens

\* The tokens of the document's body text are in its chunks, each of them in
\* one or, where two pieces overlap, in two, and in their order.
NothingLost ==
    LET places == UNION {{i} \X DOMAIN result[i].pieces : i \in DOMAIN result}
        piece(p) == result[p[1]].pieces[p[2]]
        holds(k) == {p \in places : piece(p).from <= k /\ k <= piece(p).to}
        before(p, q) == p[1] < q[1] \/ (p[1] = q[1] /\ p[2] < q[2])
    IN  stage = "chunk" /\ sections = <<>> =>
            /\ \A k \in 1 .. read : holds(k) # {} /\ \A p, q, r \in holds(k) : p = q \/ q = r \/ p = r
            /\ \A p, q \in places : before(p, q) => piece(p).from < piece(q).from

\* What is shown with a chunk that is online, its parent's summary or a
\* neighbour's text, was admitted online too.
OnlineContextIsOnline ==
    \A i \in DOMAIN records :
        records[i].scope = "online" =>
            /\ records[i].parent # <<>> => Summary(records[i].parent).scope = "online"
            /\ \A j \in DOMAIN records :
                  /\ records[j].document = records[i].document
                  /\ records[j].index \in {records[i].previous, records[i].next}
                  => records[j].scope = "online"

=============================================================================
