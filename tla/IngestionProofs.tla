--------------------------- MODULE IngestionProofs ---------------------------
(***************************************************************************)
(* For all corpora, of documents of any length, and all sizes that         *)
(* ChunkAssumption allows: the chunks that chunk_sections cuts fit the     *)
(* encoder, every token of a document is in one of them, in its place, and *)
(* what is shown with an online chunk is online.                           *)
(***************************************************************************)
EXTENDS Ingestion, SequenceTheorems, WellFoundedInduction, TLAPS

\* No text is empty.
WellFormed(spans) == \A i \in DOMAIN spans : spans[i].from <= spans[i].to

Holds(spans, k) == \E i \in DOMAIN spans : spans[i].from <= k /\ k <= spans[i].to

EndsBy(spans, k) == \A i \in DOMAIN spans : spans[i].to <= k

\* What chunk_sections has begun to cut is taken from the section's blocks.
Opened == blocks # <<>> \/ pending # Nothing

\* While a document is read or chunked there is one, and its blocks are texts.
Shapes ==
    /\ stage \in {"parse", "chunk"} => corpus # <<>>
    /\ stage = "parse" => blocks = <<>> /\ pending = Nothing /\ result = <<>>
    /\ running => body # <<>>
    /\ WellFormed(body) /\ WellFormed(blocks)
    /\ EndsBy(body, read)
    /\ \A i \in DOMAIN sections : WellFormed(sections[i].blocks)
    /\ blocks # <<>> \/ pending # Nothing => sections # <<>>

\* The pending text has room for what it is: no unit is longer than TargetMax.
Sizes == pending.size <= MaxTokens /\ ChunksFit

\* Where a token of the text read so far is.
Placed(k) ==
    \/ stage = "parse" /\ Holds(body, k)
    \/ \E i \in DOMAIN sections : (i # 1 \/ ~Opened) /\ Holds(sections[i].blocks, k)
    \/ Holds(blocks, k)
    \/ Holds(pending.pieces, k)
    \/ \E i \in DOMAIN result : Holds(result[i].pieces, k)

AllPlaced == \A k \in 1 .. read : Placed(k)

IngestInv == IngestTypeOK /\ Shapes /\ Sizes /\ AllPlaced

-----------------------------------------------------------------------------
Within(span, k) == span.from <= k /\ k <= span.to

\* A sequence of texts that grows at its end holds what it held and what is new.
LEMMA SpansAppend ==
    ASSUME NEW spans \in Seq(Span), NEW span \in Span
    PROVE  /\ Append(spans, span) \in Seq(Span) /\ Append(spans, span) # <<>>
           /\ \A k \in Nat : Holds(spans, k) \/ Within(span, k) => Holds(Append(spans, span), k)
           /\ WellFormed(spans) /\ span.from <= span.to => WellFormed(Append(spans, span))
           /\ \A k \in Nat : EndsBy(spans, k) /\ span.to <= k => EndsBy(Append(spans, span), k)
<1> DEFINE n == Len(spans)
           longer == Append(spans, span)
<1>1. /\ n \in Nat /\ DOMAIN spans = 1 .. n
      /\ longer \in Seq(Span) /\ DOMAIN longer = 1 .. n + 1
      /\ longer[n + 1] = span /\ \A i \in 1 .. n : longer[i] = spans[i]
    OBVIOUS
<1>2. longer # <<>>
    BY <1>1
<1>3. \A i \in DOMAIN longer : i \in DOMAIN spans \/ i = n + 1
    BY <1>1
<1> HIDE DEF longer, n
<1>4. ASSUME NEW k \in Nat, Holds(spans, k) \/ Within(span, k)
      PROVE  Holds(longer, k)
    BY <1>1, <1>4 DEF Holds, Within
<1>5. WellFormed(spans) /\ span.from <= span.to => WellFormed(longer)
    BY <1>1, <1>3 DEF WellFormed
<1>6. \A k \in Nat : EndsBy(spans, k) /\ span.to <= k => EndsBy(longer, k)
    BY <1>1, <1>3 DEF EndsBy
<1>7. QED
    BY <1>1, <1>2, <1>4, <1>5, <1>6 DEF longer

\* The same of a sequence whose last text grows.
LEMMA LastSpanGrows ==
    ASSUME NEW spans \in Seq(Span), spans # <<>>, NEW to \in Nat, spans[Len(spans)].to <= to,
           NEW grown,
           grown = [spans EXCEPT ![Len(spans)] = [from |-> spans[Len(spans)].from, to |-> to]]
    PROVE  /\ grown \in Seq(Span) /\ grown # <<>>
           /\ \A k \in Nat : Holds(spans, k) => Holds(grown, k)
           /\ \A k \in spans[Len(spans)].to + 1 .. to :
                 WellFormed(spans) => Holds(grown, k)
           /\ WellFormed(spans) => WellFormed(grown)
           /\ EndsBy(spans, to) => EndsBy(grown, to)
<1> DEFINE n == Len(spans)
           span == spans[n]
           longer == [from |-> span.from, to |-> to]
<1>1. /\ n \in Nat /\ DOMAIN spans = 1 .. n /\ n \in DOMAIN spans
      /\ \A i \in DOMAIN spans : spans[i] \in Span
    BY EmptySeq
<1>2. grown = [spans EXCEPT ![n] = longer]
    OBVIOUS
<1>3. span \in Span /\ span.to <= to
    BY <1>1
<1> HIDE DEF n, span
<1>4. longer \in Span
    BY <1>3 DEF Span
<1>6. grown \in Seq(Span) /\ DOMAIN grown = DOMAIN spans
    BY <1>1, <1>2, <1>4, ExceptSeq
<1>7. grown[n] = longer /\ \A i \in DOMAIN spans : i # n => grown[i] = spans[i]
    BY <1>1, <1>2
<1>8. longer.from = span.from /\ longer.to = to
    OBVIOUS
<1>9. \A i \in DOMAIN spans : spans[i].to \in Nat /\ spans[i].from \in Nat
    BY <1>1 DEF Span
<1> HIDE DEF longer
<1>10. \A k \in Nat : Holds(spans, k) => Holds(grown, k)
    <2> SUFFICES ASSUME NEW k \in Nat, NEW i \in DOMAIN spans, spans[i].from <= k, k <= spans[i].to
                 PROVE  Holds(grown, k)
        BY DEF Holds
    <2>1. CASE i = n
        BY <1>1, <1>3, <1>6, <1>7, <1>8, <1>9, <2>1 DEF Holds, span
    <2>2. CASE i # n
        BY <1>6, <1>7, <2>2 DEF Holds
    <2>3. QED
        BY <2>1, <2>2
<1>11. ASSUME NEW k \in span.to + 1 .. to, WellFormed(spans)
       PROVE  Holds(grown, k)
    BY <1>1, <1>6, <1>7, <1>8, <1>9, <1>11 DEF Holds, WellFormed, span
<1>12. WellFormed(spans) => WellFormed(grown)
    BY <1>3, <1>6, <1>7, <1>8, <1>9 DEF WellFormed, span
<1>15. EndsBy(spans, to) => EndsBy(grown, to)
    BY <1>6, <1>7, <1>8 DEF EndsBy
<1>13. grown # <<>>
    BY <1>1, <1>6
<1>14. QED
    BY <1>6, <1>10, <1>11, <1>12, <1>13, <1>15 DEF span, n

\* The same of two sequences that are joined.
LEMMA SpansJoined ==
    ASSUME NEW first \in Seq(Span), NEW second \in Seq(Span)
    PROVE  /\ first \o second \in Seq(Span)
           /\ \A k \in Nat : Holds(first, k) \/ Holds(second, k) => Holds(first \o second, k)
           /\ WellFormed(first) /\ WellFormed(second) => WellFormed(first \o second)
<1> DEFINE m == Len(first)
           n == Len(second)
           both == first \o second
<1>1. /\ m \in Nat /\ DOMAIN first = 1 .. m
      /\ n \in Nat /\ DOMAIN second = 1 .. n
      /\ both \in Seq(Span) /\ DOMAIN both = 1 .. m + n
      /\ \A i \in 1 .. m : both[i] = first[i]
      /\ \A i \in 1 .. n : both[m + i] = second[i]
    BY ConcatProperties
<1> HIDE DEF both, m, n
<1>2. \A i \in 1 .. n : m + i \in 1 .. m + n
    BY <1>1
<1>3. \A i \in 1 .. m : i \in 1 .. m + n
    BY <1>1
<1>4. \A k \in Nat : Holds(first, k) \/ Holds(second, k) => Holds(both, k)
    BY <1>1, <1>2, <1>3 DEF Holds
<1>5. ASSUME WellFormed(first), WellFormed(second), NEW i \in DOMAIN both
      PROVE  both[i].from <= both[i].to
    <2>1. CASE i \in 1 .. m
        BY <1>1, <1>5, <2>1 DEF WellFormed
    <2>2. CASE i - m \in 1 .. n
        <3>1. both[i] = second[i - m]
            BY <1>1, <2>2
        <3>2. QED
            BY <1>1, <1>5, <2>2, <3>1 DEF WellFormed
    <2>3. QED
        BY <1>1, <2>1, <2>2
<1>6. QED
    BY <1>1, <1>4, <1>5 DEF WellFormed, both

\* Of a sequence that loses its first text.
LEMMA SpansHeadTail ==
    ASSUME NEW spans \in Seq(Span), spans # <<>>
    PROVE  /\ Head(spans) \in Span /\ Tail(spans) \in Seq(Span)
           /\ \A k \in Nat : Holds(spans, k) => Within(Head(spans), k) \/ Holds(Tail(spans), k)
           /\ WellFormed(spans) => /\ WellFormed(Tail(spans))
                                   /\ Head(spans).from <= Head(spans).to
<1> DEFINE n == Len(spans)
           rest == Tail(spans)
<1>1. /\ n \in Nat /\ n # 0 /\ DOMAIN spans = 1 .. n /\ Head(spans) = spans[1]
      /\ Head(spans) \in Span /\ rest \in Seq(Span) /\ DOMAIN rest = 1 .. n - 1
      /\ \A i \in 1 .. n - 1 : rest[i] = spans[i + 1]
    BY EmptySeq, HeadTailProperties
<1> HIDE DEF n, rest
<1>2. ASSUME NEW k \in Nat, NEW i \in 1 .. n, Within(spans[i], k)
      PROVE  Within(spans[1], k) \/ Holds(rest, k)
    <2>1. CASE i = 1
        BY <1>2, <2>1
    <2>2. CASE i - 1 \in 1 .. n - 1
        <3>1. rest[i - 1] = spans[i]
            BY <1>1, <2>2
        <3>2. QED
            BY <1>1, <1>2, <2>2, <3>1 DEF Holds, Within
    <2>3. QED
        BY <1>1, <2>1, <2>2
<1>3. \A k \in Nat : Holds(spans, k) => Within(Head(spans), k) \/ Holds(rest, k)
    BY <1>1, <1>2 DEF Holds, Within
<1>4. \A i \in 1 .. n - 1 : i + 1 \in 1 .. n
    BY <1>1
<1>5. WellFormed(spans) => WellFormed(rest) /\ Head(spans).from <= Head(spans).to
    BY <1>1, <1>4 DEF WellFormed
<1>6. QED
    BY <1>1, <1>3, <1>5 DEF rest

\* A result that grows by a chunk.
LEMMA ResultAppend ==
    ASSUME NEW chunks \in Seq(Piecewise), NEW chunk \in Piecewise,
           NEW longer, longer = Append(chunks, chunk)
    PROVE  /\ longer \in Seq(Piecewise)
           /\ \A i \in DOMAIN chunks : i \in DOMAIN longer /\ longer[i] = chunks[i]
           /\ \E i \in DOMAIN longer : longer[i] = chunk
           /\ \A i \in DOMAIN longer :
                 (i \in DOMAIN chunks /\ longer[i] = chunks[i]) \/ longer[i] = chunk
<1> DEFINE n == Len(chunks)
<1>1. /\ n \in Nat /\ DOMAIN chunks = 1 .. n
      /\ longer \in Seq(Piecewise) /\ DOMAIN longer = 1 .. n + 1
      /\ longer[n + 1] = chunk /\ \A i \in 1 .. n : longer[i] = chunks[i]
    OBVIOUS
<1> HIDE DEF n
<1>2. \A i \in 1 .. n + 1 : i \in 1 .. n \/ i = n + 1
    BY <1>1
<1>3. n + 1 \in 1 .. n + 1 /\ \A i \in 1 .. n : i \in 1 .. n + 1
    BY <1>1
<1>4. QED
    BY <1>1, <1>2, <1>3

\* What a section's end makes of the body: the sections as they are, or one
\* more, whose blocks are the body.
LEMMA FlushedShape ==
    ASSUME IngestTypeOK, Shapes
    PROVE  /\ Flushed \in Seq(Section)
           /\ \A i \in DOMAIN Flushed : WellFormed(Flushed[i].blocks)
           /\ \A k \in Nat : Holds(body, k) => \E i \in DOMAIN Flushed : Holds(Flushed[i].blocks, k)
           /\ \A i \in DOMAIN sections : i \in DOMAIN Flushed /\ Flushed[i] = sections[i]
<1> DEFINE new == [path |-> IF headings = <<>> THEN <<FileName>> ELSE headings, blocks |-> body]
<1>1. new \in Section
    BY FileNameAssumption DEF IngestTypeOK, Section, Path
<1>2. CASE body = <<>>
    BY <1>2 DEF Flushed, IngestTypeOK, Shapes, Holds
<1>3. CASE body # <<>>
    <2> HIDE DEF new
    <2>1. Flushed = Append(sections, new) /\ sections \in Seq(Section)
        BY <1>3 DEF Flushed, IngestTypeOK, new
    <2>2. /\ Len(Flushed) = Len(sections) + 1
          /\ Flushed[Len(sections) + 1] = new
          /\ \A i \in 1 .. Len(sections) : Flushed[i] = sections[i]
          /\ Len(sections) \in Nat
        BY <2>1, <1>1
    <2>3. Flushed \in Seq(Section)
        BY <2>1, <1>1
    <2>4. DOMAIN Flushed = 1 .. Len(sections) + 1 /\ DOMAIN sections = 1 .. Len(sections)
        BY <2>1, <2>2, <2>3
    <2>5. new.blocks = body
        BY DEF new
    <2> QED
        BY <2>2, <2>3, <2>4, <2>5 DEF Shapes
<1>4. QED
    BY <1>2, <1>3

LEMMA BeginSectionInv ==
    ASSUME IngestInv, stage = "parse", NEW level \in 1 .. 6, NEW title \in Title,
           NEW next \in Nat \ {0}, BeginSection(level, title, next),
           UNCHANGED <<corpus, stage, blocks, pending, result, records>>
    PROVE  IngestInv'
<1> USE DEF IngestInv
<1>1. Under(level, title) \in Path
    BY DEF Under, IngestTypeOK, Path
<1>2. IngestTypeOK'
    <2>1. Flushed \in Seq(Section)
        BY FlushedShape
    <2>3. headings' \in Path /\ sections' \in Seq(Section)
        BY <1>1, <2>1 DEF BeginSection
    <2>4. body' \in Seq(Span)
        BY DEF BeginSection
    <2>5. at' \in Nat \ {0} /\ fenced' \in 0 .. 6 /\ running' \in BOOLEAN /\ read' \in Nat
        BY DEF BeginSection, IngestTypeOK
    <2>2. QED
        BY <2>3, <2>4, <2>5 DEF IngestTypeOK
<1>3. Shapes'
    BY FlushedShape DEF BeginSection, Shapes, WellFormed, EndsBy
<1>4. Sizes'
    BY DEF BeginSection, Sizes, ChunksFit
<1>5. AllPlaced'
    <2>1. /\ read' = read /\ sections' = Flushed
          /\ blocks = <<>> /\ pending.pieces = <<>> /\ result = <<>> /\ ~Opened'
        BY DEF BeginSection, Shapes, Opened, Nothing
    <2>2. ASSUME NEW k \in 1 .. read, Placed(k) PROVE Placed(k)'
        <3>1. Holds(body, k) \/ \E i \in DOMAIN sections : Holds(sections[i].blocks, k)
            BY <2>1, <2>2 DEF Placed, Holds
        <3>2. \E i \in DOMAIN Flushed : Holds(Flushed[i].blocks, k)
            BY <3>1, FlushedShape DEF Holds
        <3>3. \E i \in DOMAIN sections' : ~Opened' /\ Holds(sections'[i].blocks, k)
            BY <2>1, <3>2
        <3>4. QED
            BY <3>3 DEF Placed, Holds
    <2>3. QED
        BY <2>1, <2>2 DEF AllPlaced
<1>6. QED
    BY <1>2, <1>3, <1>4, <1>5

\* While a document is read there is one.
LEMMA LineIsLine ==
    ASSUME IngestTypeOK, Shapes, stage = "parse", at <= Len(lines)
    PROVE  at \in DOMAIN lines /\ lines[at] \in Line
<1>1. document \in Document
    BY DEF IngestTypeOK, Shapes, document
<1>2. lines \in Seq(Line)
    BY <1>1 DEF lines, Document
<1>3. at \in 1 .. Len(lines)
    BY <1>2 DEF IngestTypeOK
<1>4. QED
    BY <1>2, <1>3

LEMMA ReadTextInv ==
    ASSUME IngestInv, stage = "parse", at <= Len(lines), ReadText,
           UNCHANGED <<corpus, stage, blocks, pending, result, records>>
    PROVE  IngestInv'
<1> USE DEF IngestInv
<1>1. /\ lines[at].kind = "fence" => lines[at].level \in 1 .. 6
      /\ read' \in Nat /\ read \in Nat /\ read < read'
    BY LineIsLine DEF IngestTypeOK, ReadText, Line
<1>2. body \in Seq(Span) /\ \A i \in DOMAIN body : body[i] \in Span
    BY DEF IngestTypeOK
<1> DEFINE Grown ==
        /\ body' \in Seq(Span) /\ body' # <<>>
        /\ WellFormed(body') /\ EndsBy(body', read')
        /\ \A k \in Nat : Holds(body, k) => Holds(body', k)
        /\ \A k \in read + 1 .. read' : Holds(body', k)
<1>3. ASSUME running PROVE Grown
    <2>1. body # <<>> /\ Len(body) \in DOMAIN body
        BY <1>2, <1>3, EmptySeq DEF Shapes
    <2>2. body' = [body EXCEPT ![Len(body)] = [from |-> body[Len(body)].from, to |-> read']]
        BY <1>3 DEF ReadText
    <2>3. body[Len(body)].to <= read /\ body[Len(body)].to \in Nat
        BY <1>2, <2>1 DEF Shapes, EndsBy, Span
    <2>4. \A k \in read + 1 .. read' : k \in body[Len(body)].to + 1 .. read'
        BY <1>1, <2>3
    <2>5. body[Len(body)].to <= read' /\ EndsBy(body, read')
        BY <1>1, <1>2, <2>3 DEF Shapes, EndsBy, Span
    <2>6. WellFormed(body) /\ read' \in Nat
        BY <1>1 DEF Shapes
    <2>7. /\ body' \in Seq(Span) /\ body' # <<>>
          /\ \A k \in Nat : Holds(body, k) => Holds(body', k)
          /\ \A k \in body[Len(body)].to + 1 .. read' : WellFormed(body) => Holds(body', k)
          /\ WellFormed(body) => WellFormed(body')
          /\ EndsBy(body, read') => EndsBy(body', read')
        BY <1>2, <2>1, <2>2, <2>5, <2>6, LastSpanGrows, Zenon
    <2>8. QED
        BY <2>4, <2>5, <2>6, <2>7
<1>4. ASSUME ~running PROVE Grown
    <2> DEFINE span == [from |-> read + 1, to |-> read']
    <2>1. span \in Span /\ body' = Append(body, span)
        BY <1>1, <1>4 DEF ReadText, Span
    <2>2. /\ span.from <= span.to /\ span.to = read' /\ span.to <= read'
          /\ \A k \in read + 1 .. read' : Within(span, k) /\ k \in Nat
        BY <1>1 DEF Within
    <2>3. WellFormed(body) /\ EndsBy(body, read')
        BY <1>1, <1>2 DEF Shapes, EndsBy, Span
    <2> HIDE DEF span
    <2>4. /\ body' \in Seq(Span) /\ body' # <<>>
          /\ \A k \in Nat : Holds(body, k) \/ Within(span, k) => Holds(body', k)
          /\ WellFormed(body) /\ span.from <= span.to => WellFormed(body')
          /\ \A k \in Nat : EndsBy(body, k) /\ span.to <= k => EndsBy(body', k)
        BY <1>2, <2>1, SpansAppend
    <2>5. QED
        BY <1>1, <2>2, <2>3, <2>4
<1>5. Grown
    BY <1>3, <1>4 DEF IngestTypeOK
<1>6. IngestTypeOK'
    BY <1>1, <1>5 DEF ReadText, IngestTypeOK, FencedAfter
<1>7. Shapes'
    BY <1>5 DEF ReadText, Shapes, WellFormed
<1>8. Sizes'
    BY DEF ReadText, Sizes, ChunksFit
<1>9. AllPlaced'
    <2> SUFFICES ASSUME NEW k \in 1 .. read' PROVE Placed(k)'
        BY DEF AllPlaced
    <2>1. CASE k \in 1 .. read
        <3>1. Placed(k) /\ (Holds(body, k) => Holds(body', k))
            BY <1>5, <2>1 DEF AllPlaced
        <3>2. /\ sections' = sections /\ stage' = stage
              /\ Holds(blocks', k) = Holds(blocks, k)
              /\ Holds(pending'.pieces, k) = Holds(pending.pieces, k)
              /\ result' = result /\ Opened' = Opened
            BY DEF ReadText, Opened, Holds
        <3>3. QED
            BY <3>1, <3>2 DEF Placed
    <2>2. CASE k \in read + 1 .. read'
        BY <1>5, <2>2 DEF ReadText, Placed
    <2>3. QED
        BY <1>1, <2>1, <2>2
<1>10. QED
    BY <1>6, <1>7, <1>8, <1>9

LEMMA ReadBlankInv ==
    ASSUME IngestInv, ReadBlank,
           UNCHANGED <<corpus, stage, blocks, pending, result, records>>
    PROVE  IngestInv'
<1> USE DEF IngestInv
<1>1. IngestTypeOK'
    <2>1. at' \in Nat \ {0} /\ running' \in BOOLEAN
        <3>1. at \in Nat
            BY DEF IngestTypeOK
        <3>2. at' = at + 1 /\ running' = FALSE
            BY DEF ReadBlank
        <3>3. at' \in Nat \ {0}
            BY <3>1, <3>2
        <3>4. QED
            BY <3>2, <3>3
    <2>2. QED
        BY <2>1 DEF ReadBlank, IngestTypeOK
<1>2. Shapes'
    BY DEF ReadBlank, Shapes, WellFormed, EndsBy
<1>3. Sizes'
    BY DEF ReadBlank, Sizes, ChunksFit
<1>4. AllPlaced'
    <2>1. UNCHANGED <<read, stage, body, sections, blocks, pending, result>>
        BY DEF ReadBlank
    <2>2. ASSUME NEW k \in 1 .. read PROVE Placed(k)'
        <3>1. Placed(k)
            BY DEF AllPlaced
        <3>2. QED
            BY <2>1, <3>1, Zenon DEF Placed, Holds, Opened
    <2>3. QED
        BY <2>1, <2>2 DEF AllPlaced
<1>5. QED
    BY <1>1, <1>2, <1>3, <1>4

LEMMA ParseEndsInv ==
    ASSUME IngestInv, ParseEnds
    PROVE  IngestInv'
<1> USE DEF IngestInv
<1>1. /\ Flushed \in Seq(Section)
      /\ \A i \in DOMAIN Flushed : WellFormed(Flushed[i].blocks)
      /\ \A k \in Nat : Holds(body, k) => \E i \in DOMAIN Flushed : Holds(Flushed[i].blocks, k)
      /\ \A i \in DOMAIN sections : i \in DOMAIN Flushed /\ Flushed[i] = sections[i]
    BY FlushedShape
<1>2. IngestTypeOK'
    <2>1. sections' \in Seq(Section) /\ stage' = "chunk"
        BY <1>1 DEF ParseEnds
    <2>2. QED
        BY <2>1 DEF ParseEnds, parseVars, IngestTypeOK
<1>3. Shapes'
    BY <1>1 DEF ParseEnds, parseVars, Shapes, WellFormed, EndsBy
<1>4. Sizes'
    BY DEF ParseEnds, Sizes, ChunksFit
<1>5. AllPlaced'
    <2> SUFFICES ASSUME NEW k \in 1 .. read PROVE Placed(k)'
        BY DEF AllPlaced, ParseEnds, parseVars
    <2>1. Placed(k) /\ k \in Nat
        BY DEF AllPlaced, IngestTypeOK
    <2>2. ~Opened' /\ blocks = <<>> /\ pending = Nothing /\ result = <<>>
        BY DEF ParseEnds, Shapes, Opened
    <2>3. \E i \in DOMAIN Flushed : Holds(Flushed[i].blocks, k)
        BY <1>1, <2>1, <2>2 DEF Placed, Holds, Nothing
    <2>4. \E i \in DOMAIN sections' : Holds(sections'[i].blocks, k)
        BY <2>3 DEF ParseEnds
    <2>5. QED
        BY <2>2, <2>4 DEF Placed, Holds
<1>6. QED
    BY <1>2, <1>3, <1>4, <1>5

LEMMA OpenSectionInv ==
    ASSUME IngestInv, OpenSection
    PROVE  IngestInv'
<1> USE DEF IngestInv
<1> DEFINE first == sections[1]
<1>1. /\ 1 \in DOMAIN sections /\ Head(sections) = first
      /\ first.blocks \in Seq(Span) /\ WellFormed(first.blocks)
    <2>1. 1 \in DOMAIN sections /\ Head(sections) = first
        BY EmptySeq DEF OpenSection, IngestTypeOK
    <2>2. first \in Section
        BY <2>1 DEF IngestTypeOK
    <2>3. QED
        BY <2>1, <2>2 DEF Section, Shapes
<1> HIDE DEF first
<1>2. blocks' = first.blocks
    BY <1>1 DEF OpenSection
<1>3. IngestTypeOK'
    BY <1>1, <1>2 DEF OpenSection, parseVars, IngestTypeOK
<1>4. Shapes'
    BY <1>1, <1>2 DEF OpenSection, parseVars, Shapes, WellFormed, EndsBy
<1>5. Sizes'
    BY DEF OpenSection, Sizes, ChunksFit
<1>6. AllPlaced'
    <2> SUFFICES ASSUME NEW k \in 1 .. read PROVE Placed(k)'
        BY DEF AllPlaced, OpenSection, parseVars
    <2>1. Placed(k)
        BY DEF AllPlaced
    <2>2. stage = "chunk" /\ UNCHANGED <<stage, sections, pending, result>>
        BY DEF OpenSection
    <2>3. ~Holds(blocks, k)
        BY DEF OpenSection, Holds
    <2>4. ASSUME NEW i \in DOMAIN sections, Holds(sections[i].blocks, k)
          PROVE  Placed(k)'
        <3>1. CASE i = 1
            <4>1. Holds(blocks', k)
                BY <1>2, <2>4, <3>1 DEF first
            <4>2. QED
                BY <4>1 DEF Placed, Holds
        <3>2. CASE i # 1
            BY <2>2, <2>4, <3>2 DEF Placed, Holds
        <3>3. QED
            BY <3>1, <3>2
    <2>5. ASSUME Holds(pending.pieces, k)
          PROVE  Placed(k)'
        BY <2>2, <2>5 DEF Placed, Holds
    <2>6. ASSUME NEW i \in DOMAIN result, Holds(result[i].pieces, k)
          PROVE  Placed(k)'
        BY <2>2, <2>6 DEF Placed, Holds
    <2>7. QED
        BY <2>1, <2>2, <2>3, <2>4, <2>5, <2>6 DEF Placed
<1>7. QED
    BY <1>3, <1>4, <1>5, <1>6

\* A unit is a text of at most TargetMax tokens at the beginning of its block,
\* and what is left of the block begins where it ends, or before.
LEMMA UnitCut ==
    ASSUME IngestTypeOK, Shapes, blocks # <<>>
    PROVE  /\ Unit \in Span /\ SizeOf(Unit) \in 0 .. TargetMax
           /\ Unit.from = Head(blocks).from /\ Unit.to <= Head(blocks).to
           /\ Unit.to # Head(blocks).to =>
                 /\ NextStart(Unit) \in Nat /\ NextStart(Unit) <= Unit.to + 1
                 /\ NextStart(Unit) <= Head(blocks).to
<1> DEFINE block == Head(blocks)
<1>1. block \in Span /\ block.from <= block.to
    BY EmptySeq DEF IngestTypeOK, Shapes, WellFormed
<1>2. block.from \in Nat /\ block.to \in Nat
    BY <1>1 DEF Span
<1> HIDE DEF block
<1>3. Unit = [from |-> block.from,
              to |-> IF block.from + TargetMax - 1 < block.to
                     THEN block.from + TargetMax - 1 ELSE block.to]
    BY DEF Unit, block
<1>4. QED
    BY <1>1, <1>2, <1>3, ChunkAssumption DEF Span, SizeOf, NextStart, block

LEMMA TakeUnitInv ==
    ASSUME IngestInv, TakeUnit
    PROVE  IngestInv'
<1> USE DEF IngestInv
<1> DEFINE size == pending.size + SizeOf(Unit)
           first == sections[1]
<1>1. /\ blocks # <<>> /\ stage = "chunk" /\ sections # <<>>
      /\ UNCHANGED <<corpus, stage, at, headings, fenced, body, running, read, sections>>
    BY DEF TakeUnit, Shapes, parseVars
<1>2. /\ Unit \in Span /\ SizeOf(Unit) \in 0 .. TargetMax
      /\ Unit.from = Head(blocks).from /\ Unit.to <= Head(blocks).to
      /\ Unit.to # Head(blocks).to =>
            /\ NextStart(Unit) \in Nat /\ NextStart(Unit) <= Unit.to + 1
            /\ NextStart(Unit) <= Head(blocks).to
    BY <1>1, UnitCut
<1>3. /\ pending.pieces \in Seq(Span) /\ pending.size \in Nat
      /\ pending = [pieces |-> pending.pieces, size |-> pending.size]
    BY DEF IngestTypeOK, Joined
<1>4. Head(sections).path \in Path \ {<<>>}
    <2>1. Head(sections) \in Section
        BY <1>1, HeadTailProperties DEF IngestTypeOK
    <2>2. QED
        BY <2>1 DEF Section
\* The rest of the blocks, and the tokens that it does not hold any more.
<1>5. /\ blocks' \in Seq(Span) /\ WellFormed(blocks')
      /\ \A k \in Nat : Holds(blocks, k) => Holds(blocks', k) \/ Within(Unit, k)
    <2>1. /\ Head(blocks) \in Span /\ Tail(blocks) \in Seq(Span) /\ WellFormed(Tail(blocks))
          /\ \A k \in Nat : Holds(blocks, k) => Within(Head(blocks), k) \/ Holds(Tail(blocks), k)
        BY <1>1, SpansHeadTail DEF IngestTypeOK, Shapes
    <2>2. CASE Unit.to = Head(blocks).to
        <3>1. blocks' = Tail(blocks)
            BY <2>2 DEF TakeUnit
        <3>2. \A k \in Nat : Within(Head(blocks), k) => Within(Unit, k)
            BY <1>2, <2>2 DEF Within
        <3>3. QED
            BY <2>1, <3>1, <3>2
    <2>3. CASE Unit.to # Head(blocks).to
        <3> DEFINE rest == [from |-> NextStart(Unit), to |-> Head(blocks).to]
        <3>1. blocks' = <<rest>> \o Tail(blocks)
            BY <2>3 DEF TakeUnit
        <3>2. /\ rest \in Span /\ rest.from <= rest.to
              /\ \A k \in Nat : Within(Head(blocks), k) => Within(Unit, k) \/ Within(rest, k)
            BY <1>2, <2>1, <2>3 DEF Span, Within
        <3> HIDE DEF rest
        <3>3. <<rest>> \in Seq(Span) /\ DOMAIN <<rest>> = {1} /\ <<rest>>[1] = rest
            BY <3>2
        <3>4. WellFormed(<<rest>>) /\ \A k \in Nat : Within(rest, k) => Holds(<<rest>>, k)
            BY <3>2, <3>3 DEF WellFormed, Holds, Within
        <3>5. /\ blocks' \in Seq(Span) /\ WellFormed(blocks')
              /\ \A k \in Nat : Holds(<<rest>>, k) \/ Holds(Tail(blocks), k) => Holds(blocks', k)
            BY <2>1, <3>1, <3>3, <3>4, SpansJoined
        <3>6. QED
            BY <2>1, <3>2, <3>4, <3>5
    <2>4. QED
        BY <2>2, <2>3
\* The pending text, and the chunk it becomes when it is long enough.
<1> DEFINE Taken ==
        /\ pending' \in Joined /\ pending'.pieces # <<>> /\ pending'.size <= MaxTokens
        /\ result' \in Seq(Piecewise) /\ ChunksFit'
        /\ \A k \in Nat : Within(Unit, k) => Holds(pending'.pieces, k)
        /\ \A k \in Nat : Holds(pending.pieces, k) =>
              \/ Holds(pending'.pieces, k)
              \/ \E i \in DOMAIN result' : Holds(result'[i].pieces, k)
        /\ \A i \in DOMAIN result : i \in DOMAIN result' /\ result'[i] = result[i]
<1>6. ASSUME FullEnough(size) PROVE Taken
    <2> DEFINE chunk == ChunkOf(pending)
    <2>1. chunk \in Piecewise /\ chunk.pieces = pending.pieces /\ chunk.size = pending.size
        BY <1>3, <1>4 DEF ChunkOf, Piecewise
    <2> HIDE DEF chunk
    <2>2. /\ result' = Append(result, chunk)
          /\ pending' = [pieces |-> <<Unit>>, size |-> SizeOf(Unit)]
        BY <1>6 DEF TakeUnit, chunk
    <2>3. /\ result' \in Seq(Piecewise)
          /\ \A i \in DOMAIN result : i \in DOMAIN result' /\ result'[i] = result[i]
          /\ \E i \in DOMAIN result' : result'[i] = chunk
          /\ \A i \in DOMAIN result' :
                (i \in DOMAIN result /\ result'[i] = result[i]) \/ result'[i] = chunk
        <3>1. result \in Seq(Piecewise)
            BY DEF IngestTypeOK
        <3>2. QED
            BY <2>1, <2>2, <3>1, ResultAppend
    <2>4. ChunksFit'
        BY <2>1, <2>3 DEF Sizes, ChunksFit
    <2>5. /\ <<Unit>> \in Seq(Span) /\ <<Unit>> # <<>>
          /\ 1 \in DOMAIN <<Unit>> /\ <<Unit>>[1] = Unit
        BY <1>2
    <2>6. \A k \in Nat : Within(Unit, k) => Holds(<<Unit>>, k)
        BY <2>5 DEF Holds, Within
    <2>7. pending' \in Joined /\ pending'.pieces = <<Unit>> /\ pending'.size <= MaxTokens
        BY <1>2, <2>2, <2>5, ChunkAssumption DEF Joined
    <2>8. QED
        BY <2>1, <2>3, <2>4, <2>5, <2>6, <2>7
<1>7. ASSUME ~FullEnough(size) PROVE Taken
    <2>1. /\ result' = result
          /\ pending' = [pieces |-> Append(pending.pieces, Unit), size |-> size]
        BY <1>7 DEF TakeUnit
    <2>2. size \in Nat /\ size <= MaxTokens
        BY <1>2, <1>3, <1>7, ChunkAssumption DEF FullEnough, Nothing
    <2>3. /\ Append(pending.pieces, Unit) \in Seq(Span) /\ Append(pending.pieces, Unit) # <<>>
          /\ \A k \in Nat : Holds(pending.pieces, k) \/ Within(Unit, k) =>
                Holds(Append(pending.pieces, Unit), k)
        BY <1>2, <1>3, SpansAppend
    <2> HIDE DEF size
    <2>4. /\ pending' \in Joined /\ pending'.pieces = Append(pending.pieces, Unit)
          /\ pending'.size = size
        BY <2>1, <2>2, <2>3 DEF Joined
    <2>5. QED
        BY <2>1, <2>2, <2>3, <2>4 DEF Sizes, ChunksFit, IngestTypeOK
<1>8. Taken
    BY <1>6, <1>7
<1> HIDE DEF size
<1>9. IngestTypeOK'
    BY <1>1, <1>5, <1>8 DEF IngestTypeOK
<1>10. Shapes'
    BY <1>1, <1>5 DEF Shapes, WellFormed, EndsBy
<1>11. Sizes'
    BY <1>8 DEF Sizes
<1>12. AllPlaced'
    <2> SUFFICES ASSUME NEW k \in 1 .. read PROVE Placed(k)'
        BY <1>1 DEF AllPlaced
    <2>1. Placed(k) /\ k \in Nat
        BY DEF AllPlaced, IngestTypeOK
    <2>2. Opened /\ Opened'
        BY <1>1, <1>8 DEF Opened, Nothing
    <2>3. CASE Holds(blocks, k)
        BY <1>5, <1>8, <2>1, <2>3 DEF Placed, Holds
    <2>4. CASE Holds(pending.pieces, k)
        BY <1>8, <2>1, <2>4 DEF Placed, Holds
    <2>5. CASE \E i \in DOMAIN result : Holds(result[i].pieces, k)
        BY <1>8, <2>5 DEF Placed, Holds
    <2>6. CASE \E i \in DOMAIN sections : (i # 1 \/ ~Opened) /\ Holds(sections[i].blocks, k)
        BY <1>1, <2>2, <2>6 DEF Placed, Holds
    <2>7. QED
        BY <1>1, <2>1, <2>3, <2>4, <2>5, <2>6 DEF Placed
<1>13. QED
    BY <1>9, <1>10, <1>11, <1>12

LEMMA CloseSectionInv ==
    ASSUME IngestInv, CloseSection
    PROVE  IngestInv'
<1> USE DEF IngestInv
<1>1. /\ blocks = <<>> /\ blocks' = <<>> /\ pending' = Nothing /\ sections' = Tail(sections)
      /\ stage = "chunk" /\ sections # <<>> /\ pending # Nothing
      /\ UNCHANGED <<corpus, stage, at, headings, fenced, body, running, read>>
    BY DEF CloseSection, Shapes, parseVars
<1>2. /\ pending.pieces \in Seq(Span) /\ pending.size \in Nat /\ pending.size <= MaxTokens
      /\ result \in Seq(Piecewise)
    BY DEF IngestTypeOK, Joined, Sizes
<1> DEFINE n == Len(sections)
<1>3. /\ n \in Nat /\ DOMAIN sections = 1 .. n /\ Head(sections) \in Section
      /\ sections' \in Seq(Section) /\ DOMAIN sections' = 1 .. n - 1
      /\ \A i \in 1 .. n - 1 : sections'[i] = sections[i + 1]
    BY <1>1, HeadTailProperties DEF IngestTypeOK
<1> HIDE DEF n
<1> DEFINE path == Head(sections).path
<1>4. path \in Path \ {<<>>}
    BY <1>3 DEF Section
<1> DEFINE Closed ==
        /\ result' \in Seq(Piecewise) /\ ChunksFit'
        /\ \E i \in DOMAIN result' :
              \A k \in Nat : Holds(pending.pieces, k) => Holds(result'[i].pieces, k)
        /\ \A k \in Nat : \A i \in DOMAIN result :
              /\ i \in DOMAIN result'
              /\ Holds(result[i].pieces, k) => Holds(result'[i].pieces, k)
<1>5. ASSUME JoinsPrevious PROVE Closed
    <2> DEFINE m == Len(result)
               last == result[m]
               chunk == [path |-> path, pieces |-> last.pieces \o pending.pieces,
                         size |-> last.size + pending.size]
    <2>1. m \in DOMAIN result /\ m \in 1 .. Len(result)
        BY <1>2, <1>5, EmptySeq DEF JoinsPrevious
    <2>2. last \in Piecewise
        BY <1>2, <2>1
    <2>3. last.pieces \in Seq(Span) /\ last.size \in Nat
        BY <2>2 DEF Piecewise
    <2>4. last.size + pending.size <= MaxTokens
        BY <1>5 DEF JoinsPrevious
    <2>5. result' = [result EXCEPT ![m] = chunk]
        BY <1>5 DEF CloseSection
    <2> HIDE DEF m, last, path
    <2>6. /\ last.pieces \o pending.pieces \in Seq(Span)
          /\ \A k \in Nat : Holds(last.pieces, k) \/ Holds(pending.pieces, k) =>
                Holds(last.pieces \o pending.pieces, k)
        BY <1>2, <2>3, SpansJoined
    <2>7. /\ chunk \in Piecewise /\ chunk.size <= MaxTokens
          /\ chunk.pieces = last.pieces \o pending.pieces
        <3>1. last.size + pending.size \in Nat
            BY <1>2, <2>3
        <3>2. /\ chunk.path = path /\ chunk.pieces = last.pieces \o pending.pieces
              /\ chunk.size = last.size + pending.size
            OBVIOUS
        <3>3. chunk \in Piecewise
            BY <1>4, <2>6, <3>1 DEF Piecewise
        <3>4. QED
            BY <2>4, <3>2, <3>3
    <2> HIDE DEF chunk
    <2>8. result' \in Seq(Piecewise) /\ DOMAIN result' = DOMAIN result
        BY <1>2, <2>1, <2>5, <2>7, ExceptSeq
    <2>9. result'[m] = chunk /\ \A i \in DOMAIN result : i # m => result'[i] = result[i]
        BY <1>2, <2>1, <2>5
    <2>10. ChunksFit'
        BY <2>7, <2>8, <2>9 DEF Sizes, ChunksFit
    <2>11. \A k \in Nat : Holds(pending.pieces, k) => Holds(result'[m].pieces, k)
        BY <2>6, <2>7, <2>9
    <2>12. ASSUME NEW k \in Nat, NEW i \in DOMAIN result, Holds(result[i].pieces, k)
           PROVE  Holds(result'[i].pieces, k)
        <3>1. CASE i = m
            BY <2>6, <2>7, <2>9, <2>12, <3>1 DEF last
        <3>2. CASE i # m
            BY <2>9, <2>12, <3>2
        <3>3. QED
            BY <3>1, <3>2
    <2>13. QED
        BY <2>1, <2>8, <2>10, <2>11, <2>12
<1>6. ASSUME ~JoinsPrevious PROVE Closed
    <2> DEFINE chunk == ChunkOf(pending)
    <2>1. chunk \in Piecewise /\ chunk.pieces = pending.pieces /\ chunk.size = pending.size
        BY <1>2, <1>4 DEF ChunkOf, Piecewise
    <2>2. result' = Append(result, chunk)
        BY <1>6 DEF CloseSection
    <2> HIDE DEF chunk
    <2>3. /\ result' \in Seq(Piecewise)
          /\ \A i \in DOMAIN result : i \in DOMAIN result' /\ result'[i] = result[i]
          /\ \E i \in DOMAIN result' : result'[i] = chunk
          /\ \A i \in DOMAIN result' :
                (i \in DOMAIN result /\ result'[i] = result[i]) \/ result'[i] = chunk
        BY <1>2, <2>1, <2>2, ResultAppend
    <2>4. ChunksFit'
        BY <1>2, <2>1, <2>3 DEF Sizes, ChunksFit
    <2>5. QED
        BY <2>1, <2>3, <2>4
<1>7. Closed
    BY <1>5, <1>6
<1> HIDE DEF path
<1>8. pending' \in Joined /\ pending'.size = 0
    BY <1>1 DEF Nothing, Joined
<1>9. IngestTypeOK'
    BY <1>1, <1>3, <1>7, <1>8 DEF IngestTypeOK
<1>10. Shapes'
    <2>1. \A i \in DOMAIN sections' : WellFormed(sections'[i].blocks)
        <3>1. \A i \in 1 .. n - 1 : i + 1 \in 1 .. n
            BY <1>3
        <3>2. \A i \in 1 .. n : WellFormed(sections[i].blocks)
            BY <1>3 DEF Shapes
        <3>3. QED
            BY <1>3, <3>1, <3>2
    <2>2. QED
        BY <1>1, <2>1 DEF Shapes, WellFormed, EndsBy
<1>11. Sizes'
    BY <1>7, <1>8, ChunkAssumption DEF Sizes
<1>12. AllPlaced'
    <2> SUFFICES ASSUME NEW k \in 1 .. read PROVE Placed(k)'
        BY <1>1 DEF AllPlaced
    <2>1. Placed(k) /\ k \in Nat
        BY DEF AllPlaced, IngestTypeOK
    <2>2. Opened /\ ~Opened' /\ ~Holds(blocks, k)
        BY <1>1 DEF Opened, Holds
    <2>3. CASE Holds(pending.pieces, k)
        BY <1>7, <2>1, <2>3 DEF Placed, Holds
    <2>4. CASE \E i \in DOMAIN result : Holds(result[i].pieces, k)
        BY <1>7, <2>1, <2>4 DEF Placed, Holds
    <2>5. ASSUME NEW i \in DOMAIN sections, i # 1, Holds(sections[i].blocks, k)
          PROVE  Placed(k)'
        <3>1. i - 1 \in DOMAIN sections' /\ sections'[i - 1] = sections[i]
            BY <1>3, <2>5
        <3>2. QED
            BY <2>2, <2>5, <3>1 DEF Placed, Holds
    <2>6. QED
        BY <1>1, <2>1, <2>2, <2>3, <2>4, <2>5 DEF Placed
<1>13. QED
    BY <1>9, <1>10, <1>11, <1>12

LEMMA EndDocumentInv ==
    ASSUME IngestInv, EndDocument
    PROVE  IngestInv'
<1> USE DEF IngestInv
<1>1. /\ sections = <<>> /\ blocks = <<>> /\ pending = Nothing
      /\ UNCHANGED <<sections, blocks, pending>> /\ corpus # <<>>
      /\ body' = <<>> /\ result' = <<>> /\ read' = 0
    BY DEF EndDocument, Shapes
<1>2. corpus' \in Seq(Document) /\ (stage' # "done" => corpus' # <<>>)
    <2>1. /\ corpus \in Seq(Document) /\ corpus' = Tail(corpus)
          /\ stage' # "done" => Len(corpus) # 1
        BY DEF IngestTypeOK, EndDocument
    <2>2. Tail(corpus) \in Seq(Document) /\ Len(Tail(corpus)) = Len(corpus) - 1
        BY <1>1, <2>1, HeadTailProperties
    <2>3. Len(corpus) # 1 => Tail(corpus) # <<>>
        <3>1. Len(corpus) \in Nat /\ Len(<<>>) = 0
            BY <2>1
        <3>2. Len(corpus) # 1 => Len(Tail(corpus)) # 0
            BY <2>2, <3>1
        <3>3. QED
            BY <3>1, <3>2, Zenon
    <2>4. QED
        BY <2>1, <2>2, <2>3
<1>3. IngestTypeOK'
    <2>1. /\ stage' \in {"parse", "done"} /\ at' \in Nat \ {0}
          /\ fenced' \in 0 .. 6 /\ headings' \in Path
        BY DEF EndDocument, Path
    <2>2. running' \in BOOLEAN
        BY DEF EndDocument
    <2>3. QED
        BY <1>1, <1>2, <2>1, <2>2 DEF IngestTypeOK
<1>4. Shapes'
    <2>1. stage' \in {"parse", "done"} /\ running' = FALSE
        BY DEF EndDocument
    <2>2. QED
        BY <1>1, <1>2, <2>1 DEF Shapes, WellFormed, EndsBy
<1>5. Sizes'
    BY <1>1 DEF Sizes, ChunksFit
<1>6. AllPlaced'
    BY <1>1 DEF AllPlaced
<1>7. QED
    BY <1>3, <1>4, <1>5, <1>6

LEMMA InvalidOverrideInv == ASSUME IngestInv, InvalidOverride PROVE IngestInv'
<1>1. /\ UNCHANGED <<corpus, at, headings, fenced, sections, body, running, read,
                     blocks, pending, result>>
      /\ stage = "chunk" /\ stage' = "failed"
    BY DEF InvalidOverride, parseVars
<1>2. QED
    BY <1>1 DEF IngestInv, IngestTypeOK, Shapes, Sizes, ChunksFit, AllPlaced, Placed, Opened,
                Holds, WellFormed, EndsBy

LEMMA StutterInv == ASSUME IngestInv, UNCHANGED ingestVars PROVE IngestInv'
<1>1. UNCHANGED <<corpus, stage, at, headings, fenced, sections, body, running, read,
                  blocks, pending, result>>
    BY DEF ingestVars, parseVars
<1>2. QED
    BY <1>1 DEF IngestInv, IngestTypeOK, Shapes, Sizes, ChunksFit, AllPlaced, Placed, Opened,
                Holds, WellFormed, EndsBy

LEMMA InitInv == IngestInit => IngestInv
<1> SUFFICES ASSUME IngestInit PROVE IngestInv
    OBVIOUS
<1> USE DEF IngestInit, Blank
<1>1. IngestTypeOK
    <2>1. corpus \in Seq(Document) /\ headings \in Path
        BY CorporaAssumption DEF Path
    <2>2. pending \in Joined
        BY DEF Nothing, Joined
    <2>3. running \in BOOLEAN
        OBVIOUS
    <2>4. QED
        BY <2>1, <2>2, <2>3 DEF IngestTypeOK
<1>2. Shapes
    BY CorporaAssumption DEF Shapes, WellFormed, EndsBy
<1>3. Sizes /\ AllPlaced
    BY ChunkAssumption DEF Sizes, ChunksFit, AllPlaced, Nothing
<1>4. QED
    BY <1>1, <1>2, <1>3 DEF IngestInv

LEMMA StepInv == ASSUME IngestInv, [IngestNext]_ingestVars PROVE IngestInv'
<1>1. CASE ParseLine
    <2>1. /\ stage = "parse" /\ at <= Len(lines)
          /\ UNCHANGED <<corpus, stage, blocks, pending, result, records>>
        BY <1>1 DEF ParseLine
    <2>2. lines[at] \in Line /\ at + 1 \in Nat \ {0} /\ at + 2 \in Nat \ {0}
        BY <2>1, LineIsLine DEF IngestInv, IngestTypeOK
    <2>3. lines[at].level \in 1 .. 6 /\ lines[at].title \in Title
        BY <2>2 DEF Line
    <2>4. CASE ReadHeading
        BY <2>1, <2>2, <2>3, <2>4, BeginSectionInv DEF ReadHeading
    <2>5. CASE ReadUnderlined
        BY <2>1, <2>2, <2>3, <2>5, BeginSectionInv DEF ReadUnderlined
    <2>6. CASE ReadBlank
        BY <2>1, <2>6, ReadBlankInv
    <2>7. CASE ReadText
        BY <2>1, <2>7, ReadTextInv
    <2>8. QED
        BY <1>1, <2>4, <2>5, <2>6, <2>7 DEF ParseLine
<1>2. CASE ParseEnds
    BY <1>2, ParseEndsInv
<1>3. CASE OpenSection
    BY <1>3, OpenSectionInv
<1>4. CASE TakeUnit
    BY <1>4, TakeUnitInv
<1>5. CASE CloseSection
    BY <1>5, CloseSectionInv
<1>6. CASE InvalidOverride
    BY <1>6, InvalidOverrideInv
<1>7. CASE EndDocument
    BY <1>7, EndDocumentInv
<1>8. CASE UNCHANGED ingestVars
    BY <1>8, StutterInv
<1>9. QED
    BY <1>1, <1>2, <1>3, <1>4, <1>5, <1>6, <1>7, <1>8 DEF IngestNext

THEOREM IngestInvariant == IngestSpec => []IngestInv
BY InitInv, StepInv, PTL DEF IngestSpec

-----------------------------------------------------------------------------
\* A chunk is never longer than MaxTokens (chunk_sections, chunker.py 54-99): what
\* may be left alone, what it may grow to and what may be merged into it are
\* bounded so that it fits, for all sizes with TargetMin + TargetMax <= MaxTokens + 1.
THEOREM ChunksAlwaysFit == IngestSpec => []ChunksFit
<1>1. IngestInv => ChunksFit
    BY DEF IngestInv, Sizes
<1>2. QED
    BY <1>1, IngestInvariant, PTL

-----------------------------------------------------------------------------
(* The order of the texts: NothingLost *)

\* Texts that follow each other, and texts that follow others, share no token.
Apart(spans) == \A i, j \in DOMAIN spans : i < j => spans[i].to < spans[j].from
Precede(spans, others) ==
    \A i \in DOMAIN spans, j \in DOMAIN others : spans[i].to < others[j].from

\* Pieces may overlap, but each begins after the one before it.
Rising(spans) == \A i, j \in DOMAIN spans : i < j => spans[i].from < spans[j].from
RiseTo(spans, others) ==
    \A i \in DOMAIN spans, j \in DOMAIN others : spans[i].from < others[j].from

\* What is left to cut: sections, of which the first one may be opened, and the
\* body that is read.
Unread(i) == i \in DOMAIN sections /\ (i # 1 \/ ~Opened)

TextsApart ==
    /\ Apart(body) /\ Apart(blocks)
    /\ \A i \in DOMAIN sections : /\ Apart(sections[i].blocks)
                                  /\ i # 1 => Precede(blocks, sections[i].blocks)
    /\ \A i, j \in DOMAIN sections : i < j => Precede(sections[i].blocks, sections[j].blocks)
    /\ stage = "parse" => \A i \in DOMAIN sections : /\ Precede(sections[i].blocks, body)
                                                     /\ EndsBy(sections[i].blocks, read)

\* The pieces that are cut.
Cut == {span \in Span : \/ \E i \in DOMAIN pending.pieces : span = pending.pieces[i]
                        \/ \E i \in DOMAIN result : \E j \in DOMAIN result[i].pieces :
                              span = result[i].pieces[j]}

PiecesRise ==
    /\ Rising(pending.pieces)
    /\ \A i \in DOMAIN result : Rising(result[i].pieces) /\ RiseTo(result[i].pieces, pending.pieces)
    /\ \A i, j \in DOMAIN result : i < j => RiseTo(result[i].pieces, result[j].pieces)

\* A piece overlaps the next one, and none after that.
Twice(pieces) ==
    /\ \A a \in pieces : a.from <= a.to
    /\ \A a, b, c \in pieces : a.from < b.from /\ b.from < c.from => a.to < c.from

\* A text that is left to cut begins after all that is cut; only the rest of a
\* block that is being cut repeats the end of the last piece.
AllBefore(pieces, span) == \A a \in pieces : a.to < span.from
RestOf(pieces, span) ==
    /\ \A a \in pieces : a.from < span.from /\ a.to < span.from + Overlap
    /\ \A a, b \in pieces : a.from < b.from => a.to < span.from

LeftToCut ==
    /\ \A i \in DOMAIN sections : Unread(i) =>
          \A j \in DOMAIN sections[i].blocks : AllBefore(Cut, sections[i].blocks[j])
    /\ \A i \in DOMAIN blocks : i # 1 => AllBefore(Cut, blocks[i])
    /\ blocks # <<>> => RestOf(Cut, blocks[1])

Layout == TextsApart /\ PiecesRise /\ Twice(Cut) /\ LeftToCut

\* The beginnings and ends of texts are numbers.
LEMMA Numbers ==
    ASSUME NEW spans \in Seq(Span), NEW i \in DOMAIN spans
    PROVE  spans[i] \in Span /\ spans[i].from \in Nat /\ spans[i].to \in Nat
<1>1. spans[i] \in Span
    OBVIOUS
<1>2. QED
    BY <1>1 DEF Span

\* A text at the end of texts that it follows.
LEMMA AppendApart ==
    ASSUME NEW spans \in Seq(Span), NEW span \in Span, NEW longer, longer = Append(spans, span)
    PROVE  /\ Apart(spans) /\ (\A i \in DOMAIN spans : spans[i].to < span.from) => Apart(longer)
           /\ Rising(spans) /\ (\A i \in DOMAIN spans : spans[i].from < span.from) => Rising(longer)
           /\ \A i \in DOMAIN longer :
                 (i \in DOMAIN spans /\ longer[i] = spans[i]) \/ longer[i] = span
           /\ \A i \in DOMAIN spans : i \in DOMAIN longer /\ longer[i] = spans[i]
           /\ \E i \in DOMAIN longer : longer[i] = span
<1> DEFINE n == Len(spans)
<1>1. /\ n \in Nat /\ DOMAIN spans = 1 .. n
      /\ longer \in Seq(Span) /\ DOMAIN longer = 1 .. n + 1
      /\ longer[n + 1] = span /\ \A i \in 1 .. n : longer[i] = spans[i]
    OBVIOUS
<1> HIDE DEF n
<1>2. \A i, j \in 1 .. n + 1 : i < j => i \in 1 .. n /\ (j \in 1 .. n \/ j = n + 1)
    BY <1>1
<1>3. Apart(spans) /\ (\A i \in DOMAIN spans : spans[i].to < span.from) => Apart(longer)
    BY <1>1, <1>2 DEF Apart
<1>4. Rising(spans) /\ (\A i \in DOMAIN spans : spans[i].from < span.from) => Rising(longer)
    BY <1>1, <1>2 DEF Rising
<1>5. /\ \A i \in 1 .. n + 1 : i \in 1 .. n \/ i = n + 1
      /\ n + 1 \in 1 .. n + 1 /\ \A i \in 1 .. n : i \in 1 .. n + 1
    BY <1>1
<1>6. QED
    BY <1>1, <1>3, <1>4, <1>5

Texts(spans) == {spans[i] : i \in DOMAIN spans}

\* Pieces that follow others, joined to them.
LEMMA JoinedRise ==
    ASSUME NEW first \in Seq(Span), NEW second \in Seq(Span), NEW both, both = first \o second,
           Rising(first), Rising(second), RiseTo(first, second)
    PROVE  /\ Rising(both)
           /\ Texts(both) = Texts(first) \cup Texts(second)
<1> DEFINE m == Len(first)
           n == Len(second)
<1>1. /\ m \in Nat /\ DOMAIN first = 1 .. m
      /\ n \in Nat /\ DOMAIN second = 1 .. n
      /\ DOMAIN both = 1 .. m + n
      /\ \A i \in 1 .. m : both[i] = first[i]
      /\ \A i \in 1 .. n : both[m + i] = second[i]
    BY ConcatProperties
<1> HIDE DEF m, n
<1>2. \A i \in 1 .. m + n : \/ i \in 1 .. m /\ both[i] = first[i]
                            \/ i - m \in 1 .. n /\ both[i] = second[i - m]
    <2> SUFFICES ASSUME NEW i \in 1 .. m + n, i \notin 1 .. m
                 PROVE  i - m \in 1 .. n /\ both[i] = second[i - m]
        BY <1>1
    <2>1. i - m \in 1 .. n /\ m + (i - m) = i
        BY <1>1
    <2>2. both[m + (i - m)] = second[i - m]
        BY <1>1, <2>1
    <2>3. QED
        BY <2>1, <2>2
<1>3. ASSUME NEW i \in 1 .. m + n, NEW j \in 1 .. m + n, i < j
      PROVE  both[i].from < both[j].from
    <2>1. CASE i \in 1 .. m /\ j \in 1 .. m
        BY <1>1, <1>3, <2>1 DEF Rising
    <2>2. CASE i \in 1 .. m /\ j - m \in 1 .. n
        <3>1. both[i] = first[i] /\ both[j] = second[j - m]
            BY <1>1, <1>2, <2>2
        <3>2. QED
            BY <1>1, <2>2, <3>1 DEF RiseTo
    <2>3. CASE i - m \in 1 .. n /\ j - m \in 1 .. n
        <3>1. both[i] = second[i - m] /\ both[j] = second[j - m] /\ i - m < j - m
            BY <1>1, <1>2, <1>3, <2>3
        <3>2. QED
            BY <1>1, <2>3, <3>1 DEF Rising
    <2>4. QED
        BY <1>1, <1>2, <1>3, <2>1, <2>2, <2>3
<1>4. \A j \in 1 .. m : j \in 1 .. m + n
    BY <1>1
<1>5. \A i \in 1 .. n : m + i \in 1 .. m + n
    BY <1>1
<1>6. ASSUME NEW text PROVE text \in Texts(both) <=> text \in Texts(first) \cup Texts(second)
    <2>1. ASSUME NEW i \in 1 .. m + n, text = both[i]
          PROVE  text \in Texts(first) \cup Texts(second)
        BY <1>1, <1>2, <2>1 DEF Texts
    <2>2. ASSUME NEW i \in 1 .. m, text = first[i] PROVE text \in Texts(both)
        BY <1>1, <1>4, <2>2 DEF Texts
    <2>3. ASSUME NEW i \in 1 .. n, text = second[i] PROVE text \in Texts(both)
        BY <1>1, <1>5, <2>3 DEF Texts
    <2>4. QED
        BY <1>1, <2>1, <2>2, <2>3 DEF Texts
<1>7. QED
    BY <1>1, <1>3, <1>6 DEF Rising

\* As long as a document is read nothing is cut.
LEMMA NothingCut ==
    blocks = <<>> /\ pending = Nothing /\ result = <<>> =>
        Cut = {} /\ PiecesRise /\ Twice(Cut) /\ LeftToCut
<1> SUFFICES ASSUME blocks = <<>>, pending = Nothing, result = <<>>
             PROVE  Cut = {} /\ PiecesRise /\ Twice(Cut) /\ LeftToCut
    OBVIOUS
<1>1. pending.pieces = <<>>
    BY DEF Nothing
<1>2. Cut = {}
    BY <1>1 DEF Cut
<1>3. PiecesRise
    BY <1>1 DEF PiecesRise, Rising, RiseTo
<1>4. Twice(Cut) /\ LeftToCut
    BY <1>2 DEF Twice, LeftToCut, AllBefore
<1>5. QED
    BY <1>2, <1>3, <1>4

\* A section's end leaves the texts apart.
LEMMA FlushedApart ==
    ASSUME IngestInv, TextsApart, stage = "parse"
    PROVE  /\ \A i \in DOMAIN Flushed : Apart(Flushed[i].blocks) /\ EndsBy(Flushed[i].blocks, read)
           /\ \A i, j \in DOMAIN Flushed : i < j => Precede(Flushed[i].blocks, Flushed[j].blocks)
<1> DEFINE new == [path |-> IF headings = <<>> THEN <<FileName>> ELSE headings, blocks |-> body]
<1>1. CASE body = <<>>
    BY <1>1 DEF Flushed, TextsApart
<1>2. CASE body # <<>>
    <2>1. Flushed = Append(sections, new) /\ sections \in Seq(Section) /\ new.blocks = body
        BY <1>2 DEF Flushed, IngestInv, IngestTypeOK
    <2> DEFINE n == Len(sections)
    <2> HIDE DEF new
    <2>2. /\ n \in Nat /\ DOMAIN sections = 1 .. n /\ DOMAIN Flushed = 1 .. n + 1
          /\ Flushed[n + 1] = new /\ \A i \in 1 .. n : Flushed[i] = sections[i]
        BY <2>1
    <2> HIDE DEF n
    <2>3. \A i \in 1 .. n + 1 : i \in 1 .. n \/ i = n + 1
        BY <2>2
    <2>4. \A i, j \in 1 .. n + 1 : i < j => i \in 1 .. n /\ (j \in 1 .. n \/ j = n + 1)
        BY <2>2
    <2>5. EndsBy(body, read) /\ Apart(body)
        BY DEF IngestInv, Shapes, TextsApart
    <2>6. QED
        BY <2>1, <2>2, <2>3, <2>4, <2>5 DEF TextsApart
<1>3. QED
    BY <1>1, <1>2

LEMMA ParsedLayout ==
    ASSUME IngestInv, Layout, stage = "parse", UNCHANGED <<blocks, pending, result>>, TextsApart'
    PROVE  Layout'
<1>1. blocks' = <<>> /\ pending' = Nothing /\ result' = <<>>
    BY DEF IngestInv, Shapes
<1>2. (blocks = <<>> /\ pending = Nothing /\ result = <<>> =>
        Cut = {} /\ PiecesRise /\ Twice(Cut) /\ LeftToCut)'
    BY NothingCut, PTL
<1>3. QED
    BY <1>1, <1>2 DEF Layout

LEMMA BeginSectionLayout ==
    ASSUME IngestInv, Layout, stage = "parse", NEW level, NEW title, NEW next,
           BeginSection(level, title, next),
           UNCHANGED <<corpus, stage, blocks, pending, result, records>>
    PROVE  Layout'
<1>1. /\ sections' = Flushed /\ body' = <<>> /\ read' = read /\ stage' = "parse"
      /\ blocks = <<>> /\ blocks' = <<>>
    BY DEF BeginSection, IngestInv, Shapes
<1>2. TextsApart'
    <2>1. Apart(body') /\ Apart(blocks')
        BY <1>1 DEF Apart
    <2>2. \A i \in DOMAIN Flushed : Precede(<<>>, Flushed[i].blocks) /\ Precede(Flushed[i].blocks, <<>>)
        BY DEF Precede
    <2>3. TextsApart
        BY DEF Layout
    <2>4. QED
        BY <1>1, <2>1, <2>2, <2>3, FlushedApart DEF TextsApart
<1>3. QED
    BY <1>2, ParsedLayout

LEMMA ReadTextLayout ==
    ASSUME IngestInv, Layout, stage = "parse", at <= Len(lines), ReadText,
           UNCHANGED <<corpus, stage, blocks, pending, result, records>>
    PROVE  Layout'
<1>1. /\ sections' = sections /\ stage' = "parse" /\ blocks = <<>> /\ blocks' = <<>>
      /\ read' = read + lines[at].tokens
    BY DEF ReadText, IngestInv, Shapes
<1>2. read \in Nat /\ read' \in Nat /\ read < read'
    BY <1>1, LineIsLine DEF IngestInv, IngestTypeOK, ReadText, Line
<1>3. /\ body \in Seq(Span) /\ Apart(body) /\ EndsBy(body, read)
      /\ \A i \in DOMAIN sections : /\ Precede(sections[i].blocks, body)
                                    /\ EndsBy(sections[i].blocks, read)
                                    /\ sections[i].blocks \in Seq(Span)
    <2>1. \A i \in DOMAIN sections : sections[i] \in Section
        BY DEF IngestInv, IngestTypeOK
    <2>2. QED
        BY <2>1 DEF IngestInv, IngestTypeOK, Shapes, Layout, TextsApart, Section
\* The text joins the last one or follows it.
<1>4. /\ Apart(body')
      /\ \A i \in DOMAIN sections : Precede(sections[i].blocks, body')
    <2>1. CASE running
        <3> DEFINE n == Len(body)
        <3>1. n \in DOMAIN body /\ body' = [body EXCEPT ![n] = [from |-> body[n].from, to |-> read']]
            BY <1>3, <2>1, EmptySeq DEF ReadText, IngestInv, Shapes
        <3>2. \A i, j \in DOMAIN body : i < j => i # n
            BY <1>3
        <3> HIDE DEF n
        <3>3. /\ DOMAIN body' = DOMAIN body
              /\ \A i \in DOMAIN body : body'[i].from = body[i].from /\ (i # n => body'[i] = body[i])
            BY <3>1
        <3>4. QED
            BY <1>3, <3>2, <3>3 DEF Apart, Precede
    <2>2. CASE ~running
        <3> DEFINE span == [from |-> read + 1, to |-> read']
        <3>1. span \in Span /\ body' = Append(body, span) /\ span.from = read + 1
            BY <1>2, <2>2 DEF ReadText, Span
        <3> HIDE DEF span
        <3>2. \A i \in DOMAIN body : body[i].to < span.from
            BY <1>2, <1>3, <3>1, Numbers DEF EndsBy
        <3>3. \A i \in DOMAIN sections : \A j \in DOMAIN sections[i].blocks :
                  sections[i].blocks[j].to < span.from
            BY <1>2, <1>3, <3>1, Numbers DEF EndsBy
        <3>4. body \in Seq(Span) /\ span \in Span /\ body' = Append(body, span)
            BY <1>3, <3>1
        <3>5. Apart(body) /\ (\A i \in DOMAIN body : body[i].to < span.from) => Apart(body')
            BY <3>4, AppendApart
        <3>6. \A i \in DOMAIN body' : (i \in DOMAIN body /\ body'[i] = body[i]) \/ body'[i] = span
            BY <3>4, AppendApart
        <3>7. QED
            BY <1>3, <3>2, <3>3, <3>5, <3>6 DEF Precede
    <2>3. QED
        BY <2>1, <2>2 DEF IngestInv, IngestTypeOK
<1>5. \A i \in DOMAIN sections : EndsBy(sections[i].blocks, read')
    BY <1>2, <1>3, Numbers DEF EndsBy
<1>6. TextsApart'
    BY <1>1, <1>4, <1>5 DEF Layout, TextsApart, Apart, Precede
<1>7. QED
    BY <1>6, ParsedLayout

LEMMA ParseEndsLayout ==
    ASSUME IngestInv, Layout, ParseEnds
    PROVE  Layout'
<1>1. /\ stage = "parse" /\ sections' = Flushed /\ body' = body /\ read' = read /\ stage' = "chunk"
      /\ blocks = <<>> /\ UNCHANGED <<blocks, pending, result>>
    BY DEF ParseEnds, parseVars, IngestInv, Shapes
<1>2. TextsApart'
    <2>1. TextsApart /\ Apart(body') /\ Apart(blocks')
        BY <1>1 DEF Layout, TextsApart, Apart
    <2>2. \A i \in DOMAIN Flushed : Precede(<<>>, Flushed[i].blocks)
        BY DEF Precede
    <2>3. QED
        BY <1>1, <2>1, <2>2, FlushedApart DEF TextsApart
<1>3. QED
    BY <1>1, <1>2, ParsedLayout

LEMMA ReadBlankLayout ==
    ASSUME IngestInv, Layout, stage = "parse", ReadBlank,
           UNCHANGED <<corpus, stage, blocks, pending, result, records>>
    PROVE  Layout'
<1>1. UNCHANGED <<sections, body, read, stage, blocks>>
    BY DEF ReadBlank
<1>2. TextsApart'
    BY <1>1 DEF Layout, TextsApart, Apart, Precede, EndsBy
<1>3. QED
    BY <1>2, ParsedLayout

\* A section's blocks follow all that is cut, as the section did.
LEMMA OpenSectionLayout ==
    ASSUME IngestInv, Layout, OpenSection
    PROVE  Layout'
<1>1. /\ sections # <<>> /\ blocks = <<>> /\ pending = Nothing /\ stage = "chunk" /\ ~Opened
      /\ blocks' = Head(sections).blocks
      /\ UNCHANGED <<stage, sections, body, read, pending, result>>
    BY DEF OpenSection, parseVars, Opened
<1> DEFINE first == sections[1].blocks
<1>2. 1 \in DOMAIN sections /\ blocks' = first
    BY <1>1, EmptySeq DEF IngestInv, IngestTypeOK
<1>3. first \in Seq(Span)
    <2>1. sections[1] \in Section
        BY <1>2 DEF IngestInv, IngestTypeOK
    <2>2. QED
        BY <2>1 DEF Section
<1>4. Cut' = Cut
    BY <1>1 DEF Cut
<1>5. PiecesRise'
    BY <1>1 DEF Layout, PiecesRise, Rising, RiseTo
<1>6. TextsApart'
    <2>1. TextsApart
        BY DEF Layout
    <2>2. \A i \in DOMAIN sections : i # 1 => 1 < i
        BY DEF IngestInv, IngestTypeOK
    <2>3. Apart(first) /\ \A i \in DOMAIN sections : i # 1 => Precede(first, sections[i].blocks)
        BY <1>2, <2>1, <2>2 DEF TextsApart
    <2>4. QED
        BY <1>1, <1>2, <2>1, <2>3 DEF TextsApart
<1>7. LeftToCut'
    <2>1. \A i \in DOMAIN sections : \A j \in DOMAIN sections[i].blocks :
              AllBefore(Cut, sections[i].blocks[j])
        BY <1>1 DEF Layout, LeftToCut, Unread
    <2>2. \A i \in DOMAIN first : AllBefore(Cut, first[i])
        BY <1>2, <2>1
    <2>3. ASSUME first # <<>> PROVE RestOf(Cut, first[1])
        <3>1. 1 \in DOMAIN first
            BY <1>3, <2>3, EmptySeq
        <3>2. first[1].from \in Nat /\ \A a \in Cut : a.to < first[1].from
            BY <1>3, <2>2, <3>1, Numbers DEF AllBefore
        <3>3. \A a \in Cut : a.from \in Nat /\ a.to \in Nat /\ a.from <= a.to
            BY DEF Layout, Twice, Cut, Span
        <3>4. QED
            BY <3>2, <3>3, ChunkAssumption DEF RestOf
    <2>4. QED
        BY <1>1, <1>2, <1>4, <2>1, <2>2, <2>3 DEF LeftToCut, Unread
<1>8. QED
    BY <1>4, <1>5, <1>6, <1>7 DEF Layout

\* What a unit leaves of its block, where it is not the whole block.
LEMMA RestOfBlock ==
    ASSUME IngestInv, TakeUnit, Unit.to # Head(blocks).to
    PROVE  /\ DOMAIN blocks' = DOMAIN blocks
           /\ blocks'[1].to = blocks[1].to
           /\ blocks'[1].from = blocks[1].from + TargetMax - Overlap
           /\ Unit.to + 1 = blocks'[1].from + Overlap
           /\ \A i \in DOMAIN blocks : i # 1 => blocks'[i] = blocks[i]
<1> DEFINE rest == [from |-> NextStart(Unit), to |-> Head(blocks).to]
           tail == Tail(blocks)
           n == Len(blocks)
<1>1. /\ blocks \in Seq(Span) /\ blocks # <<>> /\ blocks' = <<rest>> \o tail
    BY DEF TakeUnit, IngestInv, IngestTypeOK
<1>2. /\ n \in Nat /\ n # 0 /\ DOMAIN blocks = 1 .. n /\ Head(blocks) = blocks[1]
      /\ tail \in Seq(Span) /\ Len(tail) = n - 1
      /\ \A i \in 1 .. n - 1 : tail[i] = blocks[i + 1]
    BY <1>1, EmptySeq, HeadTailProperties
<1>3. blocks[1].from \in Nat /\ blocks[1].to \in Nat
    BY <1>1, <1>2, Numbers
<1>4. Unit.to = blocks[1].from + TargetMax - 1
    BY <1>2, <1>3 DEF Unit
<1>5. rest.from = blocks[1].from + TargetMax - Overlap /\ rest.to = blocks[1].to
    BY <1>2, <1>3, <1>4, ChunkAssumption DEF NextStart
<1>6. rest \in Span
    BY <1>3, <1>5, ChunkAssumption DEF Span
<1> HIDE DEF rest, tail, n
<1>7. <<rest>> \in Seq(Span) /\ Len(<<rest>>) = 1 /\ <<rest>>[1] = rest
    BY <1>6
<1>8. /\ DOMAIN blocks' = 1 .. 1 + (n - 1)
      /\ \A i \in 1 .. 1 : blocks'[i] = <<rest>>[i]
      /\ \A i \in 1 .. n - 1 : blocks'[1 + i] = tail[i]
    BY <1>1, <1>2, <1>7, ConcatProperties
<1>9. ASSUME NEW i \in 1 .. n, i # 1 PROVE blocks'[i] = blocks[i]
    <2>1. i - 1 \in 1 .. n - 1 /\ 1 + (i - 1) = i /\ (i - 1) + 1 = i
        BY <1>2, <1>9
    <2>2. blocks'[1 + (i - 1)] = tail[i - 1] /\ tail[i - 1] = blocks[(i - 1) + 1]
        BY <1>2, <1>8, <2>1
    <2>3. QED
        BY <2>1, <2>2
<1>10. DOMAIN blocks' = 1 .. n /\ blocks'[1] = rest
    BY <1>2, <1>7, <1>8
<1>11. QED
    BY <1>2, <1>3, <1>4, <1>5, <1>9, <1>10, ChunkAssumption

\* A unit is a new piece, after all others, and what is left still follows.
LEMMA TakeUnitLayout ==
    ASSUME IngestInv, Layout, TakeUnit
    PROVE  Layout'
<1> DEFINE first == blocks[1]
           size == pending.size + SizeOf(Unit)
<1>1. /\ blocks # <<>> /\ stage = "chunk" /\ blocks \in Seq(Span) /\ result \in Seq(Piecewise)
      /\ UNCHANGED <<stage, body, read, sections>>
      /\ pending.pieces \in Seq(Span)
    BY DEF TakeUnit, parseVars, IngestInv, IngestTypeOK, Joined
<1>2. 1 \in DOMAIN blocks /\ Head(blocks) = first /\ first.from \in Nat /\ first.to \in Nat
    <2>1. 1 \in DOMAIN blocks /\ Head(blocks) = first
        BY <1>1, EmptySeq
    <2>2. QED
        BY <1>1, <2>1, Numbers
<1> HIDE DEF first
<1>3. /\ Unit \in Span /\ Unit.from \in Nat /\ Unit.to \in Nat
      /\ Unit.from = first.from /\ Unit.to <= first.to /\ Unit.from <= Unit.to
    <2>1. first.from <= first.to
        BY <1>2 DEF IngestInv, Shapes, WellFormed, first
    <2>2. Unit = [from |-> first.from,
                  to |-> IF first.from + TargetMax - 1 < first.to
                         THEN first.from + TargetMax - 1 ELSE first.to]
        BY <1>2 DEF Unit
    <2>3. QED
        BY <1>2, <2>1, <2>2, ChunkAssumption DEF Span
<1>4. \A a \in Cut : a.from \in Nat /\ a.to \in Nat /\ a.from <= a.to /\ a \in Span
    BY DEF Layout, Twice, Cut, Span
<1>5. /\ \A a \in Cut : a.from < first.from /\ a.to < first.from + Overlap
      /\ \A a, b \in Cut : a.from < b.from => a.to < first.from
    BY <1>1 DEF Layout, LeftToCut, RestOf, first
<1>6. /\ \A i \in DOMAIN pending.pieces : pending.pieces[i] \in Cut
      /\ \A i \in DOMAIN result : \A j \in DOMAIN result[i].pieces : result[i].pieces[j] \in Cut
    <2>1. \A i \in DOMAIN result : result[i].pieces \in Seq(Span)
        <3>1. \A i \in DOMAIN result : result[i] \in Piecewise
            BY <1>1
        <3>2. QED
            BY <3>1 DEF Piecewise
    <2>2. QED
        BY <1>1, <2>1 DEF Cut
\* The pieces, of the chunks and of the pending text.
<1> DEFINE Taken == PiecesRise' /\ Cut' = Cut \cup {Unit} /\ pending'.pieces # <<>>
<1>7. ASSUME FullEnough(size) PROVE Taken
    <2> DEFINE chunk == ChunkOf(pending)
               n == Len(result)
    <2>1. /\ result' = Append(result, chunk) /\ chunk.pieces = pending.pieces
          /\ pending'.pieces = <<Unit>>
        BY <1>7 DEF TakeUnit, ChunkOf
    <2> HIDE DEF chunk
    <2>2. /\ n \in Nat /\ DOMAIN result = 1 .. n /\ DOMAIN result' = 1 .. n + 1
          /\ result'[n + 1] = chunk /\ \A i \in 1 .. n : result'[i] = result[i]
        BY <1>1, <2>1
    <2> HIDE DEF n
    <2>3. /\ \A i \in DOMAIN result' : i \in DOMAIN result \/ i = n + 1
          /\ \A i, j \in DOMAIN result' : i < j =>
                i \in DOMAIN result /\ (j \in DOMAIN result \/ j = n + 1)
          /\ n + 1 \in DOMAIN result' /\ \A i \in DOMAIN result : i \in DOMAIN result'
        BY <2>2
    <2>4. DOMAIN <<Unit>> = {1} /\ <<Unit>>[1] = Unit
        BY <1>3
    <2>5. /\ Rising(<<Unit>>) /\ RiseTo(pending.pieces, <<Unit>>)
          /\ \A i \in DOMAIN result : RiseTo(result[i].pieces, <<Unit>>)
        BY <1>3, <1>5, <1>6, <2>4 DEF Rising, RiseTo
    <2>6. PiecesRise'
        BY <2>1, <2>2, <2>3, <2>5 DEF Layout, PiecesRise
    <2>7. \A a \in Span : a \in Cut' <=> a \in Cut \/ a = Unit
        <3>1. \A a : (\E i \in DOMAIN pending'.pieces : a = pending'.pieces[i]) <=> a = Unit
            BY <2>1, <2>4
        <3>2. \A a : (\E i \in DOMAIN result' : \E j \in DOMAIN result'[i].pieces :
                            a = result'[i].pieces[j])
                     <=> \/ \E i \in DOMAIN pending.pieces : a = pending.pieces[i]
                         \/ \E i \in DOMAIN result : \E j \in DOMAIN result[i].pieces :
                              a = result[i].pieces[j]
            BY <2>1, <2>2, <2>3
        <3>3. QED
            BY <3>1, <3>2 DEF Cut
    <2>8. Cut' = Cut \cup {Unit}
        BY <1>3, <1>4, <2>7 DEF Cut
    <2>9. QED
        BY <2>1, <2>6, <2>8
<1>8. ASSUME ~FullEnough(size) PROVE Taken
    <2> DEFINE old == pending.pieces
               new == pending'.pieces
    <2>1. result' = result /\ new = Append(old, Unit)
        BY <1>8 DEF TakeUnit
    <2>2. old \in Seq(Span) /\ \A i \in DOMAIN old : old[i] \in Cut
        BY <1>1, <1>6
    <2>3. PiecesRise
        BY DEF Layout
    <2> HIDE DEF old, new
    <2>4. \A i \in DOMAIN new : (i \in DOMAIN old /\ new[i] = old[i]) \/ new[i] = Unit
        BY <1>3, <2>1, <2>2, AppendApart
    <2>5. \A i \in DOMAIN old : i \in DOMAIN new /\ new[i] = old[i]
        BY <1>3, <2>1, <2>2, AppendApart
    <2>6. \E i \in DOMAIN new : new[i] = Unit
        BY <1>3, <2>1, <2>2, AppendApart
    <2>7. Rising(old) /\ (\A i \in DOMAIN old : old[i].from < Unit.from) => Rising(new)
        BY <1>3, <2>1, <2>2, AppendApart
    <2>8. Rising(new)
        BY <1>3, <1>5, <2>2, <2>3, <2>7 DEF PiecesRise, old
    <2>9. \A i \in DOMAIN result : RiseTo(result[i].pieces, new)
        BY <1>3, <1>5, <1>6, <2>3, <2>4 DEF PiecesRise, RiseTo, old
    <2>10. PiecesRise'
        BY <2>1, <2>3, <2>8, <2>9 DEF PiecesRise, new
    <2>11. \A a \in Span : a \in Cut' <=> a \in Cut \/ a = Unit
        BY <2>1, <2>4, <2>5, <2>6 DEF Cut, old, new
    <2>12. Cut' = Cut \cup {Unit}
        BY <1>3, <1>4, <2>11 DEF Cut
    <2>13. new # <<>>
        BY <2>6
    <2>14. QED
        BY <2>10, <2>12, <2>13 DEF new
<1>9. Taken
    BY <1>7, <1>8
<1>10. Twice(Cut')
    BY <1>3, <1>4, <1>5, <1>9 DEF Layout, Twice
\* What is left: all but the unit, which ends where its block ends or before.
<1>11. \A a \in Cut' : a.from <= first.from /\ a.from \in Nat /\ a.to \in Nat /\ a.from <= a.to
    BY <1>2, <1>3, <1>4, <1>5, <1>9
<1>12. ASSUME NEW span, AllBefore(Cut, span), first.to < span.from, span.from \in Nat
       PROVE  AllBefore(Cut', span) /\ RestOf(Cut', span)
    <2>1. \A a \in Cut' : a.to < span.from
        BY <1>2, <1>3, <1>9, <1>12 DEF AllBefore
    <2>2. QED
        BY <1>11, <1>12, <2>1, ChunkAssumption DEF AllBefore, RestOf
<1>13. \A i \in DOMAIN blocks : i # 1 =>
          blocks[i].from \in Nat /\ AllBefore(Cut, blocks[i]) /\ first.to < blocks[i].from
    <2>1. \A i \in DOMAIN blocks : i # 1 => 1 < i
        BY <1>1
    <2>2. QED
        BY <1>1, <1>2, <2>1, Numbers DEF Layout, LeftToCut, TextsApart, Apart, first
<1>14. ASSUME NEW i \in DOMAIN sections, Unread(i)'
       PROVE  \A j \in DOMAIN sections[i].blocks : AllBefore(Cut', sections[i].blocks[j])
    <2>1. Opened /\ Opened'
        <3>1. pending' # Nothing
            BY <1>9 DEF Nothing
        <3>2. QED
            BY <1>1, <3>1 DEF Opened
    <2>2. i # 1 /\ Unread(i)
        BY <1>1, <1>14, <2>1 DEF Unread
    <2>3. sections[i].blocks \in Seq(Span)
        <3>1. sections[i] \in Section
            BY DEF IngestInv, IngestTypeOK
        <3>2. QED
            BY <3>1 DEF Section
    <2>4. \A j \in DOMAIN sections[i].blocks :
              /\ AllBefore(Cut, sections[i].blocks[j]) /\ first.to < sections[i].blocks[j].from
              /\ sections[i].blocks[j].from \in Nat
        BY <1>2, <2>2, <2>3, Numbers DEF Layout, LeftToCut, TextsApart, Precede, first
    <2>5. QED
        BY <1>12, <2>4
<1> DEFINE Left ==
        /\ Apart(blocks')
        /\ \A i \in DOMAIN sections : i # 1 => Precede(blocks', sections[i].blocks)
        /\ \A i \in DOMAIN blocks' : i # 1 => AllBefore(Cut', blocks'[i])
        /\ blocks' # <<>> => RestOf(Cut', blocks'[1])
<1>15. TextsApart
    BY DEF Layout
<1>16. ASSUME Unit.to = Head(blocks).to PROVE Left
    <2> DEFINE n == Len(blocks)
    <2>1. /\ blocks' = Tail(blocks) /\ n \in Nat /\ DOMAIN blocks = 1 .. n
          /\ blocks' \in Seq(Span) /\ DOMAIN blocks' = 1 .. n - 1
          /\ \A i \in 1 .. n - 1 : blocks'[i] = blocks[i + 1]
        BY <1>1, <1>16, HeadTailProperties DEF TakeUnit
    <2> HIDE DEF n
    <2>2. \A i \in 1 .. n - 1 : i + 1 \in 1 .. n /\ i + 1 # 1
        BY <2>1
    <2>3. \A i, j \in 1 .. n - 1 : i < j => i + 1 < j + 1
        BY <2>1
    <2>4. Apart(blocks') /\ \A i \in DOMAIN sections : i # 1 => Precede(blocks', sections[i].blocks)
        BY <1>15, <2>1, <2>2, <2>3 DEF TextsApart, Apart, Precede
    <2>5. \A i \in DOMAIN blocks' : AllBefore(Cut', blocks'[i]) /\ RestOf(Cut', blocks'[i])
        BY <1>12, <1>13, <2>1, <2>2
    <2>6. blocks' # <<>> => 1 \in DOMAIN blocks'
        BY <2>1, EmptySeq
    <2>7. QED
        BY <2>4, <2>5, <2>6
<1>17. ASSUME Unit.to # Head(blocks).to PROVE Left
    <2>1. /\ DOMAIN blocks' = DOMAIN blocks
          /\ blocks'[1].to = first.to
          /\ blocks'[1].from = first.from + TargetMax - Overlap
          /\ Unit.to + 1 = blocks'[1].from + Overlap
          /\ \A i \in DOMAIN blocks : i # 1 => blocks'[i] = blocks[i]
        BY <1>17, RestOfBlock DEF first
    <2>2. \A i, j \in DOMAIN blocks : i < j => j # 1
        BY <1>1
    <2>3. Apart(blocks') /\ \A i \in DOMAIN sections : i # 1 => Precede(blocks', sections[i].blocks)
        BY <1>2, <1>15, <2>1, <2>2 DEF TextsApart, Apart, Precede, first
    <2>4. \A i \in DOMAIN blocks' : i # 1 => AllBefore(Cut', blocks'[i])
        BY <1>12, <1>13, <2>1
    <2>5. RestOf(Cut', blocks'[1])
        <3> DEFINE start == blocks'[1].from
        <3>1. start \in Nat /\ first.from < start /\ first.from + Overlap <= start
            BY <1>2, <2>1, ChunkAssumption
        <3>2. \A a \in Cut' : a.from < start
            BY <1>2, <1>11, <3>1
        <3>3. \A a \in Cut : a.to < start
            BY <1>2, <1>4, <1>5, <3>1, ChunkAssumption
        <3>4. Unit.to < start + Overlap
            BY <1>3, <2>1, <3>1, ChunkAssumption
        <3>5. \A a \in Cut' : a.to < start + Overlap
            BY <1>4, <1>9, <3>1, <3>3, <3>4, ChunkAssumption
        <3>6. \A a, b \in Cut' : a.from < b.from => a \in Cut
            BY <1>2, <1>3, <1>9, <1>11
        <3>7. QED
            BY <3>2, <3>3, <3>5, <3>6 DEF RestOf
    <2>6. QED
        BY <2>3, <2>4, <2>5
<1>18. Left
    BY <1>16, <1>17
<1>19. TextsApart'
    BY <1>1, <1>15, <1>18 DEF TextsApart, Apart
<1>20. LeftToCut'
    BY <1>1, <1>14, <1>18 DEF LeftToCut, Unread
<1>21. QED
    BY <1>9, <1>10, <1>19, <1>20 DEF Layout

\* Closing a section moves pieces to another chunk, and no further.
LEMMA CloseSectionLayout ==
    ASSUME IngestInv, Layout, CloseSection
    PROVE  Layout'
<1> DEFINE n == Len(sections)
           m == Len(result)
<1>1. /\ blocks = <<>> /\ blocks' = <<>> /\ pending' = Nothing /\ sections' = Tail(sections)
      /\ stage = "chunk" /\ sections # <<>> /\ pending # Nothing /\ pending'.pieces = <<>>
      /\ UNCHANGED <<stage, body, read>> /\ Opened /\ ~Opened'
    BY DEF CloseSection, IngestInv, Shapes, parseVars, Opened, Nothing
<1>2. /\ n \in Nat /\ DOMAIN sections = 1 .. n
      /\ sections \in Seq(Section) /\ DOMAIN sections' = 1 .. n - 1
      /\ \A i \in 1 .. n - 1 : sections'[i] = sections[i + 1]
    BY <1>1, HeadTailProperties DEF IngestInv, IngestTypeOK
<1>3. /\ pending.pieces \in Seq(Span) /\ result \in Seq(Piecewise)
      /\ m \in Nat /\ DOMAIN result = 1 .. m
    BY DEF IngestInv, IngestTypeOK, Joined
<1>4. \A i \in DOMAIN result : result[i].pieces \in Seq(Span)
    <2>1. \A i \in DOMAIN result : result[i] \in Piecewise
        BY <1>3
    <2>2. QED
        BY <2>1 DEF Piecewise
<1>5. PiecesRise
    BY DEF Layout
<1> HIDE DEF n, m
<1> DEFINE Closed == PiecesRise' /\ Cut' = Cut
<1>6. Cut' = Cut <=> \A a \in Span : a \in Cut' <=> a \in Cut
    <2>1. Cut \subseteq Span /\ Cut' \subseteq Span
        BY DEF Cut
    <2>2. QED
        BY <2>1
<1>7. ASSUME JoinsPrevious PROVE Closed
    <2> DEFINE last == result[m].pieces
               both == result'[m].pieces
    <2>1. m \in DOMAIN result /\ result # <<>>
        BY <1>3, <1>7, EmptySeq DEF JoinsPrevious, m
    <2>2. /\ DOMAIN result' = DOMAIN result /\ both = last \o pending.pieces
          /\ \A i \in DOMAIN result : i # m => result'[i] = result[i]
        BY <1>7, <2>1 DEF CloseSection, m
    <2>3. /\ last \in Seq(Span) /\ Rising(last) /\ Rising(pending.pieces)
          /\ RiseTo(last, pending.pieces)
        BY <1>4, <1>5, <2>1 DEF PiecesRise
    <2> DEFINE rest == pending.pieces
    <2>4. /\ last \in Seq(Span) /\ rest \in Seq(Span) /\ both = last \o rest
          /\ Rising(last) /\ Rising(rest) /\ RiseTo(last, rest)
        BY <1>3, <2>2, <2>3
    <2> HIDE DEF last, both, rest
    <2>5. Rising(both) /\ Texts(both) = Texts(last) \cup Texts(rest)
        BY <2>4, JoinedRise
    <2>6. /\ \A i \in DOMAIN both : \/ \E j \in DOMAIN last : both[i] = last[j]
                                   \/ \E j \in DOMAIN rest : both[i] = rest[j]
          /\ \A j \in DOMAIN last : \E i \in DOMAIN both : both[i] = last[j]
          /\ \A j \in DOMAIN rest : \E i \in DOMAIN both : both[i] = rest[j]
        <3>1. \A i \in DOMAIN both : both[i] \in Texts(both)
            BY DEF Texts
        <3>2. (\A j \in DOMAIN last : last[j] \in Texts(both)) /\ \A j \in DOMAIN rest : rest[j] \in Texts(both)
            BY <2>5 DEF Texts
        <3>3. \A i \in DOMAIN both : \/ \E j \in DOMAIN last : both[i] = last[j]
                                     \/ \E j \in DOMAIN rest : both[i] = rest[j]
            BY <2>5, <3>1 DEF Texts
        <3>4. \A t \in Texts(both) : \E i \in DOMAIN both : both[i] = t
            BY DEF Texts
        <3>5. QED
            BY <3>2, <3>3, <3>4
    <2>7. \A i, j \in DOMAIN result : i < j => i # m
        BY <1>3
    <2>8. \A i \in DOMAIN result : i # m => RiseTo(result[i].pieces, both)
        <3>1. \A i \in DOMAIN result : i # m => i < m
            BY <1>3
        <3>2. \A i \in DOMAIN result : i # m =>
                  RiseTo(result[i].pieces, last) /\ RiseTo(result[i].pieces, pending.pieces)
            BY <1>5, <2>1, <3>1 DEF PiecesRise, last
        <3>3. QED
            BY <2>6, <3>2 DEF RiseTo, rest
    <2>9. PiecesRise'
        <3>1. Rising(<<>>) /\ \A spans : RiseTo(spans, <<>>)
            BY DEF Rising, RiseTo
        <3>2. \A i \in DOMAIN result : Rising(result'[i].pieces)
            BY <1>5, <2>2, <2>5 DEF PiecesRise, both
        <3>3. \A i, j \in DOMAIN result : i < j => RiseTo(result'[i].pieces, result'[j].pieces)
            BY <1>5, <2>2, <2>7, <2>8 DEF PiecesRise, both
        <3>4. QED
            BY <1>1, <2>2, <3>1, <3>2, <3>3 DEF PiecesRise
    <2>10. ASSUME NEW a, NEW i \in DOMAIN result', NEW j \in DOMAIN result'[i].pieces,
                  a = result'[i].pieces[j]
           PROVE  \/ \E k \in DOMAIN pending.pieces : a = pending.pieces[k]
                  \/ \E k \in DOMAIN result : \E l \in DOMAIN result[k].pieces : a = result[k].pieces[l]
        <3>1. CASE i = m
            BY <2>1, <2>6, <2>10, <3>1 DEF both, last, rest
        <3>2. CASE i # m
            BY <2>2, <2>10, <3>2
        <3>3. QED
            BY <3>1, <3>2
    <2>11. ASSUME NEW i \in DOMAIN result, NEW j \in DOMAIN result[i].pieces
           PROVE  \E k \in DOMAIN result' : \E l \in DOMAIN result'[k].pieces :
                      result[i].pieces[j] = result'[k].pieces[l]
        <3>1. CASE i = m
            <4>1. PICK l \in DOMAIN both : both[l] = last[j]
                BY <2>6, <3>1 DEF last
            <4>2. QED
                BY <2>1, <2>2, <3>1, <4>1 DEF both, last
        <3>2. CASE i # m
            BY <2>2, <2>11, <3>2
        <3>3. QED
            BY <3>1, <3>2
    <2>12. ASSUME NEW i \in DOMAIN pending.pieces
           PROVE  \E k \in DOMAIN result' : \E l \in DOMAIN result'[k].pieces :
                      pending.pieces[i] = result'[k].pieces[l]
        <3>1. PICK l \in DOMAIN both : both[l] = pending.pieces[i]
            BY <2>6 DEF rest
        <3>2. QED
            BY <2>1, <2>2, <3>1 DEF both
    <2>13. \A a \in Span : a \in Cut' <=> \E k \in DOMAIN result' : \E l \in DOMAIN result'[k].pieces :
                                              a = result'[k].pieces[l]
        BY <1>1 DEF Cut
    <2>14. \A a \in Span : a \in Cut' <=> a \in Cut
        BY <2>10, <2>11, <2>12, <2>13 DEF Cut
    <2>15. QED
        BY <1>6, <2>9, <2>14
<1>8. ASSUME ~JoinsPrevious PROVE Closed
    <2> DEFINE chunk == ChunkOf(pending)
    <2>1. result' = Append(result, chunk) /\ chunk.pieces = pending.pieces
        BY <1>8 DEF CloseSection, ChunkOf
    <2> HIDE DEF chunk
    <2>2. /\ DOMAIN result' = 1 .. m + 1
          /\ result'[m + 1] = chunk /\ \A i \in 1 .. m : result'[i] = result[i]
        BY <1>3, <2>1 DEF m
    <2>3. /\ \A i \in DOMAIN result' : i \in DOMAIN result \/ i = m + 1
          /\ \A i, j \in DOMAIN result' : i < j =>
                i \in DOMAIN result /\ (j \in DOMAIN result \/ j = m + 1)
          /\ m + 1 \in DOMAIN result' /\ \A i \in DOMAIN result : i \in DOMAIN result'
        BY <1>3, <2>2
    <2>4. PiecesRise'
        <3>1. Rising(<<>>) /\ \A spans : RiseTo(spans, <<>>)
            BY DEF Rising, RiseTo
        <3>2. QED
            BY <1>1, <1>3, <1>5, <2>1, <2>2, <2>3, <3>1 DEF PiecesRise
    <2>5. \A a : (\E i \in DOMAIN result' : \E j \in DOMAIN result'[i].pieces :
                        a = result'[i].pieces[j])
                 <=> \/ \E i \in DOMAIN pending.pieces : a = pending.pieces[i]
                     \/ \E i \in DOMAIN result : \E j \in DOMAIN result[i].pieces :
                          a = result[i].pieces[j]
        BY <1>3, <2>1, <2>2, <2>3
    <2>6. \A a \in Span : a \in Cut' <=> \E i \in DOMAIN result' : \E j \in DOMAIN result'[i].pieces :
                                             a = result'[i].pieces[j]
        BY <1>1 DEF Cut
    <2>7. \A a \in Span : a \in Cut' <=> a \in Cut
        BY <2>5, <2>6 DEF Cut
    <2>8. QED
        BY <1>6, <2>4, <2>7
<1>9. Closed
    BY <1>7, <1>8
<1>10. \A i \in 1 .. n - 1 : i + 1 \in 1 .. n /\ i + 1 # 1
    BY <1>2
<1>11. TextsApart'
    <2>1. \A i, j \in 1 .. n - 1 : i < j => i + 1 < j + 1
        BY <1>2
    <2>2. Apart(<<>>) /\ \A spans : Precede(<<>>, spans)
        BY DEF Apart, Precede
    <2>3. QED
        BY <1>1, <1>2, <1>10, <2>1, <2>2 DEF Layout, TextsApart
<1>12. LeftToCut'
    <2>1. \A i \in 1 .. n - 1 : \A j \in DOMAIN sections'[i].blocks :
              AllBefore(Cut, sections'[i].blocks[j])
        BY <1>2, <1>10 DEF Layout, LeftToCut, Unread
    <2>2. QED
        BY <1>1, <1>2, <1>9, <2>1 DEF LeftToCut, Unread
<1>13. QED
    BY <1>9, <1>11, <1>12 DEF Layout

LEMMA EndDocumentLayout ==
    ASSUME IngestInv, Layout, EndDocument
    PROVE  Layout'
<1>1. /\ sections = <<>> /\ sections' = <<>> /\ blocks' = <<>> /\ pending' = Nothing
      /\ body' = <<>> /\ result' = <<>>
    BY DEF EndDocument, IngestInv, Shapes
<1>2. (blocks = <<>> /\ pending = Nothing /\ result = <<>> =>
        Cut = {} /\ PiecesRise /\ Twice(Cut) /\ LeftToCut)'
    BY NothingCut, PTL
<1>3. TextsApart'
    BY <1>1 DEF TextsApart, Apart
<1>4. QED
    BY <1>1, <1>2, <1>3 DEF Layout

LEMMA InvalidOverrideLayout == ASSUME Layout, InvalidOverride PROVE Layout'
<1>1. /\ UNCHANGED <<sections, body, read, blocks, pending, result>>
      /\ stage = "chunk" /\ stage' = "failed"
    BY DEF InvalidOverride, parseVars
<1>2. Cut' = Cut
    BY <1>1 DEF Cut
<1>3. TextsApart' /\ PiecesRise'
    BY <1>1 DEF Layout, TextsApart, PiecesRise, Apart, Precede, EndsBy, Rising, RiseTo
<1>4. Twice(Cut') /\ LeftToCut'
    BY <1>1, <1>2 DEF Layout, LeftToCut, Unread, Opened
<1>5. QED
    BY <1>2, <1>3, <1>4 DEF Layout

LEMMA StutterLayout == ASSUME Layout, UNCHANGED ingestVars PROVE Layout'
<1>1. UNCHANGED <<stage, sections, body, read, blocks, pending, result>>
    BY DEF ingestVars, parseVars
<1>2. Cut' = Cut
    BY <1>1 DEF Cut
<1>3. TextsApart' /\ PiecesRise'
    BY <1>1 DEF Layout, TextsApart, PiecesRise, Apart, Precede, EndsBy, Rising, RiseTo
<1>4. Twice(Cut') /\ LeftToCut'
    BY <1>1, <1>2 DEF Layout, LeftToCut, Unread, Opened
<1>5. QED
    BY <1>2, <1>3, <1>4 DEF Layout

LEMMA BlankLayout == Blank => Layout
<1> SUFFICES ASSUME Blank PROVE Layout
    OBVIOUS
<1>1. TextsApart
    BY DEF Blank, TextsApart, Apart
<1>2. QED
    BY <1>1, NothingCut DEF Blank, Layout

LEMMA StepLayout == ASSUME IngestInv, Layout, [IngestNext]_ingestVars PROVE Layout'
<1>1. CASE ParseLine
    <2>1. /\ stage = "parse" /\ at <= Len(lines)
          /\ UNCHANGED <<corpus, stage, blocks, pending, result, records>>
        BY <1>1 DEF ParseLine
    <2>2. CASE ReadHeading
        BY <2>1, <2>2, BeginSectionLayout DEF ReadHeading
    <2>3. CASE ReadUnderlined
        BY <2>1, <2>3, BeginSectionLayout DEF ReadUnderlined
    <2>4. CASE ReadBlank
        BY <2>1, <2>4, ReadBlankLayout
    <2>5. CASE ReadText
        BY <2>1, <2>5, ReadTextLayout
    <2>6. QED
        BY <1>1, <2>2, <2>3, <2>4, <2>5 DEF ParseLine
<1>2. CASE ParseEnds
    BY <1>2, ParseEndsLayout
<1>3. CASE OpenSection
    BY <1>3, OpenSectionLayout
<1>4. CASE TakeUnit
    BY <1>4, TakeUnitLayout
<1>5. CASE CloseSection
    BY <1>5, CloseSectionLayout
<1>6. CASE InvalidOverride
    BY <1>6, InvalidOverrideLayout
<1>7. CASE EndDocument
    BY <1>7, EndDocumentLayout
<1>8. CASE UNCHANGED ingestVars
    BY <1>8, StutterLayout
<1>9. QED
    BY <1>1, <1>2, <1>3, <1>4, <1>5, <1>6, <1>7, <1>8 DEF IngestNext

\* Pieces that lie so hold every token, no token more than twice, and in order.
LEMMA LaidOut == IngestInv /\ Layout => NothingLost
<1> SUFFICES ASSUME IngestInv, Layout, stage = "chunk", sections = <<>> PROVE
        LET places == UNION {{i} \X DOMAIN result[i].pieces : i \in DOMAIN result}
            piece(p) == result[p[1]].pieces[p[2]]
            holds(k) == {p \in places : piece(p).from <= k /\ k <= piece(p).to}
            before(p, q) == p[1] < q[1] \/ (p[1] = q[1] /\ p[2] < q[2])
        IN  /\ \A k \in 1 .. read : holds(k) # {} /\ \A p, q, r \in holds(k) : p = q \/ q = r \/ p = r
            /\ \A p, q \in places : before(p, q) => piece(p).from < piece(q).from
    BY DEF NothingLost
<1> DEFINE places == UNION {{i} \X DOMAIN result[i].pieces : i \in DOMAIN result}
           piece(p) == result[p[1]].pieces[p[2]]
           holds(k) == {p \in places : piece(p).from <= k /\ k <= piece(p).to}
           before(p, q) == p[1] < q[1] \/ (p[1] = q[1] /\ p[2] < q[2])
<1>1. blocks = <<>> /\ pending = Nothing
    BY DEF IngestInv, Shapes
<1>2. \A p : p \in places <=>
          \E i \in DOMAIN result : \E j \in DOMAIN result[i].pieces : p = <<i, j>>
    OBVIOUS
<1>3. ASSUME NEW i \in DOMAIN result, NEW j \in DOMAIN result[i].pieces
      PROVE  /\ i \in Nat /\ j \in Nat /\ result[i].pieces[j] \in Cut
             /\ result[i].pieces[j].from \in Nat /\ result[i].pieces[j].to \in Nat
    <2>1. result[i] \in Piecewise /\ i \in Nat
        BY DEF IngestInv, IngestTypeOK
    <2>2. result[i].pieces \in Seq(Span) /\ j \in Nat
        BY <2>1 DEF Piecewise
    <2>3. QED
        BY <2>1, <2>2, Numbers DEF Cut
<1>4. \A p, q \in places : before(p, q) => piece(p).from < piece(q).from
    <2>1. PiecesRise
        BY DEF Layout
    <2>2. QED
        BY <1>2, <1>3, <2>1 DEF PiecesRise, Rising, RiseTo
<1>5. \A p, q \in places : p = q \/ before(p, q) \/ before(q, p)
    BY <1>2, <1>3
<1>6. \A p \in places : piece(p) \in Cut /\ piece(p).from \in Nat /\ piece(p).to \in Nat
    BY <1>2, <1>3
<1> HIDE DEF places, piece, before
<1>7. ASSUME NEW k \in 1 .. read PROVE holds(k) # {}
    <2>1. Placed(k)
        BY DEF IngestInv, AllPlaced
    <2>2. PICK i \in DOMAIN result : Holds(result[i].pieces, k)
        BY <1>1, <2>1 DEF Placed, Holds, Nothing
    <2>3. PICK j \in DOMAIN result[i].pieces :
              result[i].pieces[j].from <= k /\ k <= result[i].pieces[j].to
        BY <2>2 DEF Holds
    <2>4. <<i, j>> \in places /\ piece(<<i, j>>) = result[i].pieces[j]
        BY <1>2 DEF piece
    <2>5. QED
        BY <2>3, <2>4
<1>8. ASSUME NEW k \in 1 .. read, NEW p \in holds(k), NEW q \in holds(k), NEW r \in holds(k)
      PROVE  p = q \/ q = r \/ p = r
    <2>1. ASSUME NEW a \in holds(k), NEW b \in holds(k), NEW c \in holds(k)
          PROVE  ~(piece(a).from < piece(b).from /\ piece(b).from < piece(c).from)
        <3>1. k \in Nat
            BY DEF IngestInv, IngestTypeOK
        <3>2. QED
            BY <1>6, <3>1 DEF Layout, Twice
    <2>2. \A a, b \in holds(k) :
              a = b \/ piece(a).from < piece(b).from \/ piece(b).from < piece(a).from
        BY <1>4, <1>5
    <2>3. QED
        BY <1>6, <2>1, <2>2
<1>9. QED
    BY <1>4, <1>7, <1>8 DEF places, piece, before

\* What chunk_sections makes of a document, however its blocks are cut, overlapped,
\* joined and merged: every token is in a chunk, none is in more than two pieces,
\* and the pieces are in the order of the text.
THEOREM NothingIsLost == IngestSpec => []NothingLost
<1>1. IngestInit => Layout
    BY BlankLayout DEF IngestInit
<1>2. IngestInv /\ Layout /\ [IngestNext]_ingestVars => Layout'
    BY StepLayout
<1>3. QED
    BY <1>1, <1>2, LaidOut, IngestInvariant, PTL DEF IngestSpec

-----------------------------------------------------------------------------
(* Admission *)

Record == [document : Nat, index : Nat, path : Path, pieces : Seq(Span),
           scope : {"online", "research"}, parent : {<<>>} \cup (Nat \X Path),
           previous : Nat, next : Nat]

\* Documents are numbered in their order, the chunks of one are admitted alike,
\* and a parent is of the chunk's own document.
Admitted ==
    /\ records \in Seq(Record)
    /\ \A i \in DOMAIN records : records[i].document <= records[Len(records)].document
    /\ \A i, j \in DOMAIN records :
          records[i].document = records[j].document => records[i].scope = records[j].scope
    /\ \A i \in DOMAIN records :
          records[i].parent # <<>> => records[i].parent[1] = records[i].document

Below == {p \in Nat \X Nat : p[1] < p[2]}

\* A set of numbers that is not empty has a least element.
LEMMA LeastNumber ==
    ASSUME NEW numbers \in SUBSET Nat, numbers # {}
    PROVE  \E k \in numbers : \A j \in numbers : k <= j
<1>1. IsWellFoundedOn(Below, Nat)
    BY NatLessThanWellFounded DEF OpToRel, Below
<1>2. PICK k \in numbers : \A j \in numbers : <<j, k>> \notin Below
    BY <1>1, WFMin
<1>3. \A j \in numbers : j \in Nat /\ k \in Nat /\ ~(j < k)
    BY <1>2 DEF Below
<1>4. \A j \in numbers : k <= j
    BY <1>3
<1>5. QED
    BY <1>4

\* A document gets a number that none had, and its chunks one scope.
LEMMA EndDocumentAdmits ==
    ASSUME IngestInv, Admitted, EndDocument
    PROVE  Admitted'
<1> DEFINE number == IF records = <<>> THEN 1 ELSE records[Len(records)].document + 1
           fresh == [i \in DOMAIN result |->
                        [document |-> number, index |-> i, path |-> result[i].path,
                         pieces |-> result[i].pieces, scope |-> Scope,
                         parent |-> IF Len(result[i].path) = 1 THEN <<>>
                                    ELSE SectionId(number, result[i].path),
                         previous |-> i - 1,
                         next |-> IF i < Len(result) THEN i + 1 ELSE 0]]
<1>1. records' = records \o fresh
    BY DEF EndDocument
<1>2. /\ records \in Seq(Record) /\ result \in Seq(Piecewise)
      /\ result # <<>> => Scope \in {"online", "research"}
    <2>1. document \in Document
        BY HeadTailProperties DEF IngestInv, IngestTypeOK, Shapes, EndDocument, document
    <2>2. QED
        BY <2>1 DEF Admitted, IngestInv, IngestTypeOK, Scope, Document, EndDocument, Refused
<1>3. number \in Nat /\ \A i \in DOMAIN records : records[i].document < number
    <2>1. CASE records = <<>>
        BY <2>1
    <2>2. CASE records # <<>>
        <3>1. Len(records) \in DOMAIN records
            BY <1>2, <2>2
        <3>2. records[Len(records)] \in Record /\ \A i \in DOMAIN records : records[i] \in Record
            BY <1>2, <3>1
        <3>3. QED
            BY <2>2, <3>2 DEF Record, Admitted
    <2>3. QED
        BY <2>1, <2>2
<1> HIDE DEF number
<1>4. \A i \in DOMAIN records : records[i].document \in Nat
    <2>1. \A i \in DOMAIN records : records[i] \in Record
        BY <1>2
    <2>2. QED
        BY <2>1 DEF Record
<1>5. /\ fresh \in Seq(Record) /\ DOMAIN fresh = DOMAIN result
      /\ \A i \in DOMAIN fresh :
            /\ fresh[i].document = number /\ fresh[i].scope = Scope
            /\ fresh[i].parent # <<>> => fresh[i].parent[1] = number
    <2>1. ASSUME NEW i \in DOMAIN result
          PROVE  /\ fresh[i] \in Record
                 /\ fresh[i].document = number /\ fresh[i].scope = Scope
                 /\ fresh[i].parent # <<>> => fresh[i].parent[1] = number
        <3>1. /\ result[i].path \in Path \ {<<>>} /\ result[i].pieces \in Seq(Span)
              /\ i \in Nat /\ i - 1 \in Nat /\ Len(result) \in Nat
            <4>1. result[i] \in Piecewise /\ i \in 1 .. Len(result) /\ Len(result) \in Nat
                BY <1>2
            <4>2. QED
                BY <4>1 DEF Piecewise
        <3>2. Parent(result[i].path) \in Path
            BY <3>1 DEF Parent, Path
        <3>3. SectionId(number, result[i].path) \in Nat \X Path
              /\ SectionId(number, result[i].path)[1] = number
            BY <1>3, <3>2 DEF SectionId
        <3>4. QED
            BY <1>2, <1>3, <3>1, <3>3 DEF Record
    <2>2. DOMAIN result = 1 .. Len(result) /\ Len(result) \in Nat
        BY <1>2
    <2>3. fresh \in [1 .. Len(result) -> Record]
        BY <2>1, <2>2
    <2>4. QED
        BY <2>1, <2>2, <2>3
<1> HIDE DEF fresh
<1>6. /\ records' \in Seq(Record)
      /\ Len(records') = Len(records) + Len(fresh) /\ Len(records) \in Nat /\ Len(fresh) \in Nat
      /\ \A i \in DOMAIN records' :
            \/ i \in DOMAIN records /\ records'[i] = records[i]
            \/ i - Len(records) \in DOMAIN fresh /\ records'[i] = fresh[i - Len(records)]
    BY <1>1, <1>2, <1>5
<1>7. \A i \in DOMAIN records' : records'[i].document <= records'[Len(records')].document
    <2>1. CASE Len(fresh) = 0
        BY <1>6, <2>1 DEF Admitted
    <2>2. CASE Len(fresh) # 0
        <3>1. Len(records') \in DOMAIN records' /\ Len(records') \notin DOMAIN records
            BY <1>2, <1>6, <2>2
        <3>2. records'[Len(records')].document = number
            BY <1>5, <1>6, <3>1
        <3>3. \A i \in DOMAIN records : records[i].document <= number
            BY <1>3, <1>4
        <3>4. QED
            BY <1>3, <1>5, <1>6, <3>2, <3>3
    <2>3. QED
        BY <2>1, <2>2
<1>8. \A i, j \in DOMAIN records' :
          records'[i].document = records'[j].document => records'[i].scope = records'[j].scope
    <2>1. \A i \in DOMAIN records, j \in DOMAIN fresh : records[i].document # fresh[j].document
        BY <1>3, <1>4, <1>5
    <2>2. QED
        BY <1>5, <1>6, <2>1 DEF Admitted
<1>9. \A i \in DOMAIN records' :
          records'[i].parent # <<>> => records'[i].parent[1] = records'[i].document
    BY <1>5, <1>6 DEF Admitted
<1>10. QED
    BY <1>6, <1>7, <1>8, <1>9 DEF Admitted

LEMMA StepAdmits == ASSUME IngestInv, Admitted, [IngestNext]_ingestVars PROVE Admitted'
<1>1. CASE EndDocument
    BY <1>1, EndDocumentAdmits
<1>2. CASE InvalidOverride
    BY <1>2 DEF InvalidOverride, Admitted
<1>3. CASE ~EndDocument /\ ~InvalidOverride
    <2>1. records' = records
        BY <1>3 DEF IngestNext, ingestVars, ParseLine, ParseEnds, OpenSection, TakeUnit, CloseSection
    <2>2. QED
        BY <2>1 DEF Admitted
<1>4. QED
    BY <1>1, <1>2, <1>3

LEMMA AdmittedAlike == Admitted => OnlineContextIsOnline
<1> SUFFICES ASSUME Admitted, NEW i \in DOMAIN records, records[i].scope = "online"
             PROVE  /\ records[i].parent # <<>> => Summary(records[i].parent).scope = "online"
                    /\ \A j \in DOMAIN records :
                          records[j].document = records[i].document => records[j].scope = "online"
    BY DEF OnlineContextIsOnline
<1>1. ASSUME records[i].parent # <<>>
      PROVE  Summary(records[i].parent).scope = "online"
    <2> DEFINE named == {k \in DOMAIN records : records[k].parent = records[i].parent}
    <2>1. named \in SUBSET Nat /\ i \in named
        BY DEF Admitted
    <2>2. \E k \in named : \A j \in named : k <= j
        BY <2>1, LeastNumber
    <2>3. PICK k \in named : Summary(records[i].parent) = records[k]
        BY <2>2 DEF Summary
    <2>4. records[k].document = records[i].document
        BY <1>1 DEF Admitted
    <2>5. QED
        BY <2>3, <2>4 DEF Admitted
<1>2. QED
    BY <1>1 DEF Admitted

\* What is shown with an online chunk was admitted online too, for any corpora:
\* admission is decided for a document, and relationships stay within it.
THEOREM ContextIsAdmitted == IngestSpec => []OnlineContextIsOnline
<1>1. IngestInit => Admitted
    BY DEF IngestInit, Blank, Admitted
<1>2. IngestInv /\ Admitted /\ [IngestNext]_ingestVars => Admitted'
    BY StepAdmits
<1>3. QED
    BY <1>1, <1>2, AdmittedAlike, IngestInvariant, PTL DEF IngestSpec

=============================================================================
