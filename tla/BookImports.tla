---------------------------- MODULE BookImports ----------------------------
(***************************************************************************)
(* How a manuscript becomes the blocks of a book: the importer of plain    *)
(* text and the grammar every block has to keep (engine/imports), the PDF  *)
(* importer of the studio, the chapters a desktop manuscript is cut into   *)
(* (desktop/importer.py) and sent as (desktop/publisher.py), and the EPUB  *)
(* and the preview a book is read as.                                      *)
(***************************************************************************)
EXTENDS TextFormats

ServerBlock(type, html) == [type |-> type, html |-> html]

----------------------------------------------------------------------------
(***************************************************************************)
(* Text to blocks: "# ", "## " and "### " are headings, "> " a quote, a    *)
(* line of three dashes a rule, and all other lines are paragraphs, as far *)
(* as the next blank line.                                                 *)
(***************************************************************************)
FlushPara(st) ==
  IF st.para = <<>> THEN st
  ELSE [blocks |-> Append(st.blocks, ServerBlock("P", Element("p", Escaped(st.para)))),
        para |-> <<>>]

AddServerBlock(st, type, html) ==
  [FlushPara(st) EXCEPT !.blocks = Append(@, ServerBlock(type, html))]

HeadingTypes == <<"H1", "H2", "H3">>

ReadTextLine(st, line) ==
  CASE line = Blank -> FlushPara(st)
    [] line.mark = "hr" -> AddServerBlock(st, "HR", <<Open("hr")>>)
    [] line.mark = "heading" /\ line.level <= 3 ->
         AddServerBlock(st, HeadingTypes[line.level],
                        Element(HeadingTags[line.level], Escaped(line.text)))
    [] line.mark = "quote" ->
         AddServerBlock(st, "QUOTE", Element("blockquote", Escaped(line.text)))
    [] OTHER -> [st EXCEPT !.para = @ \o line.text]

TextToBlocks(lines) ==
  FlushPara(FoldLeft(ReadTextLine, [blocks |-> <<>>, para |-> <<>>], lines)).blocks

----------------------------------------------------------------------------
(***************************************************************************)
(* The grammar of a block: one element of the tag of its type without any  *)
(* attribute, in it text and nested strong and em, all closed in order.    *)
(***************************************************************************)
AllowedOuter(type) ==
  CASE type = "P" -> "p" [] type = "H1" -> "h1" [] type = "H2" -> "h2"
    [] type = "H3" -> "h3" [] type = "QUOTE" -> "blockquote" [] OTHER -> "none"

CheckToken(st, t, outer) ==
  CASE t.k = "text" -> [st EXCEPT !.ok = @ /\ st.stack # <<>>]
    [] t.k = "open" ->
         [ok |-> /\ st.ok
                 /\ t.attrs = NoAttrs
                 /\ IF st.stack = <<>> THEN ~st.opened /\ t.tag = outer
                    ELSE t.tag \in {"strong", "em"},
          stack |-> Append(st.stack, t.tag), opened |-> TRUE]
    [] t.k = "close" ->
         IF st.stack = <<>> \/ Last(st.stack) # t.tag THEN [st EXCEPT !.ok = FALSE]
         ELSE [st EXCEPT !.stack = Front(@)]

ValidBlockHtml(type, html) ==
  IF type = "HR" THEN html = <<Open("hr")>>
  ELSE LET end == FoldLeft(LAMBDA st, t : CheckToken(st, t, AllowedOuter(type)),
                           [ok |-> TRUE, stack |-> <<>>, opened |-> FALSE], html)
       IN end.ok /\ end.stack = <<>> /\ end.opened

----------------------------------------------------------------------------
(***************************************************************************)
(* The studio's PDF importer: every text box is a block, its type from the *)
(* size of most of its letters against that of most letters of the file.   *)
(***************************************************************************)
Spans(boxes) == Flatten(Flatten(boxes))
WeightOf(spans, size) ==
  FoldLeft(LAMBDA n, s : IF s.size = size THEN n + Len(Strip(s.text)) ELSE n, 0, spans)
HeaviestSizes(spans) ==
  LET sizes == {spans[i].size : i \in {n \in DOMAIN spans : Strip(spans[n].text) # <<>>}} IN
  {s \in sizes : \A o \in sizes : WeightOf(spans, s) >= WeightOf(spans, o)}

BaselineSize(boxes) ==
  LET top == HeaviestSizes(Spans(boxes)) IN
  IF top = {} THEN 0 ELSE CHOOSE s \in top : \A o \in top : s <= o
BlockReprSize(box) ==
  LET top == HeaviestSizes(Flatten(box)) IN
  IF top = {} THEN 0 ELSE CHOOSE s \in top : \A o \in top : s >= o

PdfBlockType(size, baseline) ==
  CASE baseline <= 0 -> "p"
    [] 100 * size >= 150 * baseline -> "h1"
    [] 100 * size >= 125 * baseline -> "h2"
    [] 100 * size >= 115 * baseline -> "h3"
    [] OTHER -> "p"

\* Neighbouring spans of the same marks are one; the space between two lines
\* has no marks.
MergeSpan(acc, s) ==
  IF acc # <<>> /\ Last(acc).marks = s.marks
  THEN [acc EXCEPT ![Len(acc)].text = @ \o s.text] ELSE Append(acc, s)

LStrip(pieces) ==
  IF Strip(pieces) = <<>> THEN <<>>
  ELSE SubSeq(pieces, CHOOSE i \in DOMAIN pieces :
                        pieces[i] # NL /\ \A j \in 1 .. i - 1 : pieces[j] = NL, Len(pieces))
RStrip(pieces) == Reverse(LStrip(Reverse(pieces)))

BlockSpans(box) ==
  LET space == [text |-> <<NL>>, marks |-> {}]
      raw == FoldLeft(LAMBDA acc, i :
               LET line == SelectSeq(box[i], LAMBDA s : s.text # <<>>)
                   spans == acc \o MapSeq(LAMBDA s : [text |-> s.text, marks |-> s.marks], line)
               IN IF i < Len(box) /\ spans # <<>> THEN Append(spans, space) ELSE spans,
               <<>>, [i \in 1 .. Len(box) |-> i])
      merged == FoldLeft(MergeSpan, <<>>, raw)
      left == [i \in DOMAIN merged |->
                 IF i = 1 THEN [merged[i] EXCEPT !.text = LStrip(@)] ELSE merged[i]]
      ends == [i \in DOMAIN left |->
                 IF i = Len(left) THEN [left[i] EXCEPT !.text = RStrip(@)] ELSE left[i]]
  IN SelectSeq(ends, LAMBDA s : s.text # <<>>)

PdfToNeutralBlocks(boxes) ==
  SelectSeq(MapSeq(LAMBDA box : [type |-> PdfBlockType(BlockReprSize(box), BaselineSize(boxes)),
                                 spans |-> BlockSpans(box)],
                   SelectSeq(boxes, LAMBDA box : box # <<>>)),
            LAMBDA b : b.spans # <<>>)

----------------------------------------------------------------------------
(***************************************************************************)
(* The desktop: a document is cut into chapters at its headings of level 1,*)
(* whose text is the title; a chapter is sent as the chapters its own      *)
(* headings of level 1 cut it into.                                        *)
(***************************************************************************)
NoTitle == <<"no title">>
PlainText(content) == Strip(Flatten(MapSeq(LAMBDA t : t.text, content)))

\* Mutant: a chapter that is a title only is left out.
CutFilled(st, b) ==
  IF b.type = "HEADING" /\ b.level = 1
  THEN [groups |-> IF st.blocks # <<>>
                   THEN Append(st.groups, [title |-> st.title, blocks |-> st.blocks])
                   ELSE st.groups,
        title |-> PlainText(b.content), blocks |-> <<>>]
  ELSE [st EXCEPT !.blocks = Append(@, b)]

CutAtH1(st, b) ==
  LET started == st.blocks # <<>> \/ st.title # NoTitle IN
  IF b.type = "HEADING" /\ b.level = 1
  THEN [groups |-> IF started
                   THEN Append(st.groups, [title |-> st.title, blocks |-> st.blocks])
                   ELSE st.groups,
        title |-> PlainText(b.content), blocks |-> <<>>]
  ELSE [st EXCEPT !.blocks = Append(@, b)]

SplitByH1(blocks) ==
  LET end == FoldLeft(CutAtH1, [groups |-> <<>>, title |-> NoTitle, blocks |-> <<>>], blocks)
  IN IF end.blocks # <<>> \/ end.title # NoTitle \/ end.groups = <<>>
     THEN Append(end.groups, [title |-> end.title, blocks |-> end.blocks])
     ELSE end.groups

ImportManuscript(pages, stem) ==
  MapSeq(LAMBDA g : [title |-> IF g.title = NoTitle THEN stem ELSE g.title,
                     html |-> SerializeDoc(<<g.blocks>>)],
         SplitByH1(Flatten(pages)))

ServerType(b) ==
  CASE b.type = "HEADING" /\ b.level <= 3 -> HeadingTypes[b.level]
    [] b.type = "PARAGRAPH" -> "P"
    [] OTHER -> b.type

\* The HTML of one block: that of a document of the block without its wrapper.
BlockHtml(b) == Tail(Front(SerializeDoc(<<<<b>>>>)))

\* The beginning before the first heading goes by the title of the whole.
ChaptersOf(groups, title) ==
  [i \in DOMAIN groups |->
     [title |-> IF i = 1 /\ groups[i].title = NoTitle THEN title ELSE groups[i].title,
      blocks |-> MapSeq(LAMBDA b : ServerBlock(ServerType(b), BlockHtml(b)), groups[i].blocks)]]

ServerChapters(title, html) ==
  ChaptersOf(SplitByH1(Flatten(ParseDialect(html))), title)

\* What is sent, or nothing when any block breaks the grammar.
IfValid(sent) ==
  LET valid(c) == \A i \in DOMAIN c.blocks : ValidBlockHtml(c.blocks[i].type, c.blocks[i].html)
  IN IF \A i \in DOMAIN sent : valid(sent[i]) THEN sent ELSE <<>>

PreflightChapters(chapters) ==
  IfValid(Flatten(MapSeq(LAMBDA c : ServerChapters(c.title, c.html), chapters)))

----------------------------------------------------------------------------
(***************************************************************************)
(* Reading: the preview, and the EPUB of a book.                           *)
(***************************************************************************)
ToPreview(chapters, limit) ==
  FoldLeft(LAMBDA st, c :
             IF st.left <= 0 THEN st
             ELSE LET n == IF st.left < Len(c.blocks) THEN st.left ELSE Len(c.blocks) IN
                  [chapters |-> Append(st.chapters,
                                       [c EXCEPT !.blocks = SubSeq(@, 1, n)]),
                   left |-> st.left - n],
           [chapters |-> <<>>, left |-> limit], chapters).chapters

\* A file for each chapter, and an entry for each file.
BuildEpub(chapters) ==
  [nav |-> [i \in DOMAIN chapters |->
              [href |-> i,
               label |-> IF chapters[i].title = <<>> THEN <<"chapter">> ELSE chapters[i].title]],
   files |-> [i \in DOMAIN chapters |->
                Flatten(MapSeq(LAMBDA b : b.html, chapters[i].blocks))]]

=============================================================================
