----------------------------- MODULE DocxFormat -----------------------------
(***************************************************************************)
(* Word documents, read (parsers/docx.py) and written (exporters/docx.py). *)
(* A Word file is its styles, the elements of its body and its pictures.   *)
(* An element is a paragraph with its style, its numbering and its runs, a *)
(* table of rows of cells, or a structured tag (sdt) around elements.      *)
(***************************************************************************)
EXTENDS Dialect, TLC

Run(text, fmt) == [text |-> text, fmt |-> fmt]
NoPicture == [url |-> "", cx |-> 0, cy |-> 0]
Para(style, num, runs) ==
  [k |-> "p", style |-> style, num |-> num, runs |-> runs, picture |-> NoPicture]
Table(rows) == [k |-> "tbl", rows |-> rows]
Sdt(kids) == [k |-> "sdt", kids |-> kids]
Tc(kids, span, vmerge) == [kids |-> kids, span |-> span, vmerge |-> vmerge]

HeadingIds == <<"Heading1", "Heading2", "Heading3", "Heading4", "Heading5",
                "Heading6", "Heading7", "Heading8", "Heading9">>
HeadingNames == <<"heading 1", "heading 2", "heading 3", "heading 4", "heading 5",
                  "heading 6", "heading 7", "heading 8", "heading 9">>

----------------------------------------------------------------------------
(***************************************************************************)
(* Reading.                                                                *)
(***************************************************************************)
HeadingLevelsOfName(name) ==
  {Clamped(l) : l \in {n \in 1 .. 9 : name \in {HeadingIds[n], HeadingNames[n]}}}

\* styles: the styleIds and names that styles.xml declares.
BuildStyleHeadings(styles) ==
  LET named == {s \in styles : HeadingLevelsOfName(s.name) # {}} IN
  [id \in {s.id : s \in named} |->
     CHOOSE l \in 1 .. 6 : \E s \in named : s.id = id /\ l \in HeadingLevelsOfName(s.name)]

\* The levels a paragraph is a heading of: one or none.
ParagraphHeadingLevels(style, headings) ==
  IF style \in DOMAIN headings THEN {headings[style]} ELSE HeadingLevelsOfName(style)

Formatted(on, tag, inner) == IF on THEN Element(tag, inner) ELSE inner

RunInline(run) ==
  IF run.text = <<>> THEN <<>>
  ELSE Formatted("b" \in run.fmt, "strong",
         Formatted("i" \in run.fmt, "em",
           Formatted("u" \in run.fmt, "u", Escaped(run.text))))

ParagraphInline(p) == Joined(Flatten(MapSeq(RunInline, p.runs)))
ParagraphPlaintext(p) == Flatten(MapSeq(LAMBDA r : r.text, p.runs))

RECURSIVE BlockElements(_)
BlockElements(kids) ==
  Flatten(MapSeq(LAMBDA e : IF e.k = "sdt" THEN BlockElements(e.kids) ELSE <<e>>, kids))

JoinTexts(lines) ==
  FoldLeft(LAMBDA acc, l : IF acc = <<>> THEN l ELSE acc \o <<NL>> \o l, <<>>, lines)

\* The paragraphs of a cell that have text, one a line; tables in it are left out.
CellText(tc) ==
  LET paras == SelectSeq(BlockElements(tc.kids), LAMBDA e : e.k = "p")
      texts == MapSeq(LAMBDA p : Strip(ParagraphPlaintext(p)), paras)
  IN JoinTexts(SelectSeq(texts, LAMBDA t : t # <<>>))

\* One cell of row r: st has the cells so far, the column, the width, and the
\* cells whose vertical merge is open by their column.
ReadCell(st, tc, r) ==
  IF tc.vmerge = "continue" THEN
    [st EXCEPT !.c = @ + tc.span,
               !.cells = IF st.c \in DOMAIN st.open
                         THEN [@ EXCEPT ![st.open[st.c]].rs = @ + 1] ELSE @]
  ELSE
    [cells |-> Append(st.cells, Cell(CellText(tc), r, st.c, tc.span, 1)),
     c |-> st.c + tc.span, cols |-> Greater(st.cols, st.c + tc.span),
     open |-> IF tc.vmerge = "restart" THEN st.c :> (Len(st.cells) + 1) @@ st.open
              ELSE [c \in DOMAIN st.open \ {st.c} |-> st.open[c]]]

ParseDocxTable(tbl) ==
  LET end == FoldLeft(LAMBDA st, r :
               FoldLeft(LAMBDA s, tc : ReadCell(s, tc, r - 1), [st EXCEPT !.c = 0],
                        tbl.rows[r]),
               [cells |-> <<>>, c |-> 0, cols |-> 0, open |-> <<>>],
               [i \in 1 .. Len(tbl.rows) |-> i])
  IN GridTable(end.cells, end.cols, Len(tbl.rows))

FlushList(st) ==
  IF st.items = <<>> THEN st
  ELSE [blocks |-> Append(st.blocks, BlockOf("LIST", JoinLines(st.items))), items |-> <<>>]

ReadElement(st, e, headings) ==
  LET levels == IF e.k = "p" THEN ParagraphHeadingLevels(e.style, headings) ELSE {}
      empty == e.k = "p" /\ Strip(ParagraphPlaintext(e)) = <<>>
      Put(b) == IF empty THEN FlushList(st)
                ELSE [FlushList(st) EXCEPT !.blocks = Append(@, b)]
  IN CASE e.k = "tbl" -> Put(ParseDocxTable(e))
       [] levels # {} -> Put(Heading(CHOOSE l \in levels : TRUE, ParagraphInline(e)))
       [] levels = {} /\ e.k = "p" /\ e.num ->
            IF empty THEN st ELSE [st EXCEPT !.items = Append(@, ParagraphInline(e))]
       [] OTHER -> Put(BlockOf("PARAGRAPH", ParagraphInline(e)))

\* Mutant: the list at the end of the body is not written.
BodyWithoutLastList(body, headings) ==
  FoldLeft(LAMBDA st, e : ReadElement(st, e, headings),
           [blocks |-> <<>>, items |-> <<>>], BlockElements(body)).blocks

BodyToPage(body, headings) ==
  FlushList(FoldLeft(LAMBDA st, e : ReadElement(st, e, headings),
                     [blocks |-> <<>>, items |-> <<>>], BlockElements(body))).blocks

ParseDocx(file) == <<BodyToPage(file.body, BuildStyleHeadings(file.styles))>>

----------------------------------------------------------------------------
(***************************************************************************)
(* Writing.  images gives the pictures of a document by their url: their   *)
(* format ("" when it is none of the four) and their size in pixels, 0 when*)
(* it cannot be read.                                                      *)
(***************************************************************************)
RECURSIVE WalkRuns(_, _)
WalkRuns(nodes, fmt) ==
  LET more(tag) == CASE tag = "strong" -> {"b"} [] tag = "em" -> {"i"}
                     [] tag = "u" -> {"u"} [] OTHER -> {}
      walk(n) == IF n.tag # "" THEN WalkRuns(n.kids, fmt \cup more(Aliased(n.tag)))
                 ELSE IF n.text = <<>> THEN <<>> ELSE <<Run(n.text, fmt)>>
  IN Flatten(MapSeq(walk, nodes))

IterRuns(content) == WalkRuns(BuildDom(content), {})
TextPara(text, fmt) ==
  Para("", FALSE, IF text = <<>> THEN <<>> ELSE <<Run(text, fmt)>>)

ImagePx(image) ==
  IF image.w <= 0 \/ image.h <= 0 THEN [w |-> 400, h |-> 300]
  ELSE [w |-> image.w, h |-> image.h]

EmuPerPx == 9525
MaxWidthEmu == 6 * 914400
RoundDiv(a, b) ==
  LET q == a \div b  r == a % b IN
  IF 2 * r > b \/ (2 * r = b /\ q % 2 = 1) THEN q + 1 ELSE q
EmuExtent(px) ==
  IF px.w * EmuPerPx > MaxWidthEmu
  THEN [cx |-> MaxWidthEmu, cy |-> RoundDiv(px.h * MaxWidthEmu, px.w)]
  ELSE [cx |-> px.w * EmuPerPx, cy |-> px.h * EmuPerPx]

Embeds(images, url) == url \in DOMAIN images /\ images[url].ext # ""
AltText(alt) == IF alt = <<>> THEN <<"[image]">> ELSE alt

ImageBlock(b, images) ==
  IF ~Embeds(images, b.url) THEN TextPara(AltText(b.alt), {})
  ELSE LET size == EmuExtent(ImagePx(images[b.url])) IN
       [Para("", FALSE, <<>>) EXCEPT
          !.picture = [url |-> b.url, cx |-> size.cx, cy |-> size.cy]]

DocxSimpleTable(b) ==
  LET row(texts, fmt) == MapSeq(LAMBDA t : Tc(<<TextPara(t, fmt)>>, 1, ""), texts)
  IN Table((IF b.headers = <<>> THEN <<>> ELSE <<row(b.headers, {"b"})>>)
           \o MapSeq(LAMBDA r : row(r, {}), b.rows))

\* The last cell to claim a place owns it.
Claims(cell, r, c) == Covers(cell, r, c) \/ <<r, c>> = <<cell.row, cell.col>>
PlaceOwners(cells, r, c) == {i \in DOMAIN cells : Claims(cells[i], r, c)}
OwnerAt(cells, r, c) ==
  LET last == cells[CHOOSE i \in PlaceOwners(cells, r, c) :
                      \A j \in PlaceOwners(cells, r, c) : i >= j]
  IN CellAt(cells, last.row, last.col)

CellFormat(style) ==
  {f \in {"b", "i", "u"} : \E d \in style : <<f, d>> \in
     {<<"b", "font-weight:bold">>, <<"i", "font-style:italic">>,
      <<"u", "text-decoration:underline">>}}

RECURSIVE DocxRow(_, _, _)
DocxRow(b, r, c) ==
  IF c >= b.cols THEN <<>>
  ELSE IF PlaceOwners(b.cells, r, c) = {}
  THEN <<Tc(<<TextPara(<<>>, {})>>, 1, "")>> \o DocxRow(b, r, c + 1)
  ELSE LET cell == OwnerAt(b.cells, r, c)
           tc == IF cell.row = r
                 THEN Tc(<<TextPara(cell.text, CellFormat(cell.style))>>, cell.cs,
                         IF cell.rs > 1 THEN "restart" ELSE "")
                 ELSE Tc(<<TextPara(<<>>, {})>>, cell.cs, "continue")
       IN <<tc>> \o DocxRow(b, r, c + cell.cs)

DocxStyledTable(b) == Table([r \in 1 .. b.height |-> DocxRow(b, r - 1, 0)])

AddBlock(b, images) ==
  CASE b.type = "HEADING" ->
         <<Para(HeadingIds[Clamped(b.level)], FALSE, IterRuns(b.content))>>
    [] b.type = "PARAGRAPH" -> <<Para("", FALSE, IterRuns(b.content))>>
    [] b.type = "QUOTE" -> <<Para("Quote", FALSE, IterRuns(b.content))>>
    [] b.type = "LIST" ->
         MapSeq(LAMBDA item : Para("ListParagraph", TRUE, IterRuns(item)),
                SelectSeq(SplitLines(b.content), LAMBDA item : item # <<>>))
    [] b.type = "CODE" ->
         MapSeq(LAMBDA line : [TextPara(Flatten(MapSeq(LAMBDA t : t.text, line)), {})
                                 EXCEPT !.style = "Code"],
                SplitLines(Escaped(b.plain)))
    [] b.type = "IMAGE" -> <<ImageBlock(b, images)>>
    [] b.type = "TABLE" ->
         <<IF b.cells # <<>> THEN DocxStyledTable(b) ELSE DocxSimpleTable(b)>>

StylesXml ==
  {[id |-> HeadingIds[l], name |-> HeadingNames[l]] : l \in 1 .. 6}
    \cup {[id |-> id, name |-> id] : id \in {"Normal", "Quote", "Code", "ListParagraph"}}

ExportDocx(pages, images) ==
  [styles |-> StylesXml,
   body |-> Flatten(MapSeq(LAMBDA b : AddBlock(b, images), Flatten(pages)))]
=============================================================================
