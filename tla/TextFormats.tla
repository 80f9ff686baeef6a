---------------------------- MODULE TextFormats ----------------------------
(***************************************************************************)
(* The importers of formats that are lines of text or laid-out text: plain *)
(* text, Markdown, HTML, CSV and PDF (engine/doc/parsers).  A line of      *)
(* Markdown is what it starts with (mark), what follows (text), the level  *)
(* or language or address the mark carries, and for a table its cells.     *)
(***************************************************************************)
EXTENDS Dialect

Line(mark, text) ==
  [mark |-> mark, text |-> text, level |-> 0, word |-> "", cells |-> <<>>]
Blank == Line("blank", <<>>)

Page(blocks) == IF blocks = <<>> THEN <<>> ELSE <<blocks>>
PlainBlock(type, text) == BlockOf(type, Joined(Unescaped(text)))
TextOfLines(lines) == JoinLines(MapSeq(LAMBDA l : Unescaped(l.text), lines))

----------------------------------------------------------------------------
(***************************************************************************)
(* Plain text: paragraphs are separated by blank lines.                    *)
(***************************************************************************)
FlushLines(st) ==
  IF st.lines = <<>> THEN st
  ELSE [blocks |-> Append(st.blocks, BlockOf("PARAGRAPH", Joined(TextOfLines(st.lines)))),
        lines |-> <<>>]

ParseText(lines) ==
  Page(FlushLines(FoldLeft(
         LAMBDA st, l : IF l = Blank THEN FlushLines(st)
                        ELSE [st EXCEPT !.lines = Append(@, l)],
         [blocks |-> <<>>, lines |-> <<>>], lines)).blocks)

----------------------------------------------------------------------------
(***************************************************************************)
(* Markdown.  One iteration of the loop reads the block that starts at line*)
(* i and answers the block, or none, and the line to go on with.           *)
(***************************************************************************)
\* "# " to "###### ", "#" without a space, "![alt](src)" alone on its line
\* and "![" otherwise are different marks.
RunFrom(lines, i, Goes(_)) ==
  LET stops == {j \in i .. Len(lines) : ~Goes(lines[j])} IN
  SubSeq(lines, i, IF stops = {} THEN Len(lines)
                   ELSE (CHOOSE j \in stops : \A n \in stops : j <= n) - 1)

IsBlockStart(line) ==
  line.mark \in {"fence", "heading", "hash", "quote", "bullet", "number", "image", "bang"}

Read(block, next) == [blocks |-> <<block>>, next |-> next]

ParseCodeBlock(lines, i) ==
  LET code == RunFrom(lines, i + 1, LAMBDA l : l.mark # "fence")
      closed == i + Len(code) + 1 <= Len(lines)
  IN Read([NoBlock EXCEPT !.type = "CODE", !.lang = lines[i].word,
             !.plain = IF code = <<>> THEN <<>>
                       ELSE Tail(Flatten(MapSeq(LAMBDA l : <<NL>> \o l.text, code)))],
          i + Len(code) + (IF closed THEN 2 ELSE 1))

ParseQuote(lines, i) ==
  LET quote == RunFrom(lines, i, LAMBDA l : l.mark = "quote") IN
  Read(BlockOf("QUOTE", Joined(TextOfLines(quote))), i + Len(quote))

ParseMdTable(lines, i) ==
  LET rows == RunFrom(lines, i + 2, LAMBDA l : l.cells # <<>>) IN
  Read(SimpleTable(lines[i].cells, MapSeq(LAMBDA l : l.cells, rows)), i + 2 + Len(rows))

ParseList(lines, i) ==
  LET items == RunFrom(lines, i, LAMBDA l : l.mark = lines[i].mark) IN
  Read([BlockOf("LIST", Joined(TextOfLines(items))) EXCEPT
          !.ordered = (lines[i].mark = "number")],
       i + Len(items))

ParseParagraph(lines, i) ==
  LET para == RunFrom(lines, i, LAMBDA l : l # Blank /\ ~IsBlockStart(l)) IN
  Read(BlockOf("PARAGRAPH", Joined(TextOfLines(para))), i + Len(para))

StartsTable(lines, i) ==
  lines[i].cells # <<>> /\ i < Len(lines) /\ lines[i + 1].mark = "rule"

ParseLine(lines, i) ==
  LET line == lines[i] IN
  CASE line = Blank -> [blocks |-> <<>>, next |-> i + 1]
    [] line.mark = "fence" -> ParseCodeBlock(lines, i)
    [] line.mark = "heading" ->
         Read([PlainBlock("HEADING", line.text) EXCEPT !.level = line.level], i + 1)
    [] line.mark = "image" ->
         Read([NoBlock EXCEPT !.type = "IMAGE", !.alt = line.text, !.url = line.word], i + 1)
    [] line.mark = "quote" -> ParseQuote(lines, i)
    [] line.mark \in {"bullet", "number"} /\ ~StartsTable(lines, i) -> ParseList(lines, i)
    [] StartsTable(lines, i) -> ParseMdTable(lines, i)
    [] OTHER -> ParseParagraph(lines, i)

----------------------------------------------------------------------------
(***************************************************************************)
(* HTML is the dialect itself; the records of CSV are a table.             *)
(***************************************************************************)
ParseHtml(tokens) == ParseDialect(tokens)

ParseCsv(lines) ==
  LET rows == SelectSeq(MapSeq(LAMBDA l : l.cells, lines), LAMBDA r : r # <<>>) IN
  IF rows = <<>> THEN <<>> ELSE <<<<SimpleTable(rows[1], Tail(rows))>>>>

----------------------------------------------------------------------------
(***************************************************************************)
(* PDF: a page is a sequence of text boxes, a box of lines, a line of spans*)
(* of a text, a font size and marks.  A box of one line whose size is at   *)
(* least 1.3 times the median of the page is a heading, the largest size   *)
(* being level 1 and no level below 3.                                     *)
(***************************************************************************)
Span(text, size, marks) == [text |-> text, size |-> size, marks |-> marks]

LineText(line) == Flatten(MapSeq(LAMBDA s : s.text, line))
CharSizes(box) ==
  Flatten(MapSeq(LAMBDA s : MapSeq(LAMBDA p : s.size, s.text), Flatten(box)))

\* Twice the median of the positive sizes.
TwiceMedian(sizes) ==
  LET sorted == SortSeq(SelectSeq(sizes, LAMBDA s : s > 0), <)
      n == Len(sorted)
  IN sorted[(n + 1) \div 2] + sorted[n \div 2 + 1]

RawBlock(box) ==
  [text |-> Strip(FoldLeft(LAMBDA acc, line : acc \o <<NL>> \o LineText(line), <<>>, box)),
   size |-> IF CharSizes(box) = <<>> THEN 0 ELSE TwiceMedian(CharSizes(box)),
   lineCount |-> Greater(Len(box), 1)]

Qualifies(box, sizes) ==
  box.size > 0 /\ box.lineCount = 1 /\ 20 * box.size >= 13 * TwiceMedian(sizes)

InferHeadingLevel(boxes, i) ==
  LET sizes == MapSeq(LAMBDA b : b.size, boxes)
      larger == {boxes[j].size : j \in {n \in DOMAIN boxes :
                   Qualifies(boxes[n], sizes) /\ boxes[n].size > boxes[i].size}}
  IN IF ~Qualifies(boxes[i], sizes) THEN 0
     ELSE IF Cardinality(larger) > 2 THEN 3 ELSE Cardinality(larger) + 1

RawBlocksToPage(boxes) ==
  [i \in DOMAIN boxes |->
     LET level == InferHeadingLevel(boxes, i) IN
     IF level = 0 THEN PlainBlock("PARAGRAPH", boxes[i].text)
     ELSE [PlainBlock("HEADING", boxes[i].text) EXCEPT !.level = level]]

ParsePdf(pages) ==
  MapSeq(LAMBDA page : RawBlocksToPage(SelectSeq(MapSeq(RawBlock, page),
                                                 LAMBDA b : b.text # <<>>)),
         pages)

=============================================================================
