------------------------------ MODULE Dialect ------------------------------
(***************************************************************************)
(* The canonical HTML of a document (engine/doc/dialect.py): the serializer*)
(* of the block model and the parser that reads any HTML back into it.     *)
(*                                                                         *)
(* A text is a sequence of pieces: words, line breaks NL, and Tagish, plain*)
(* text that reads like a tag ("<ref>").  An HTML string is the sequence of*)
(* its tokens: text (decoded), start tags with their attributes, end tags. *)
(* Escaping makes any text one text token; a text that is put into HTML    *)
(* unescaped has a start tag for every Tagish piece (Unescaped).           *)
(***************************************************************************)
EXTENDS Integers, Sequences, SequencesExt

NL == "nl"
Tagish == "tagish"

\* A style is the set of the declarations it makes; the last three are a
\* black colour, a line spacing of no height, and any property the dialect
\* does not know.
Black == "color:#000000"
Flat == "line-height:0"
Alien == "alien"

NoAttrs == [style |-> {}, cs |-> 1, rs |-> 1, url |-> "", alt |-> <<>>, lang |-> ""]
Txt(pieces) == [k |-> "text", tag |-> "", attrs |-> NoAttrs, text |-> pieces]
OpenWith(tag, attrs) == [k |-> "open", tag |-> tag, attrs |-> attrs, text |-> <<>>]
Open(tag) == OpenWith(tag, NoAttrs)
Close(tag) == [k |-> "close", tag |-> tag, attrs |-> NoAttrs, text |-> <<>>]

Void == {"img", "br", "hr"}
DropContent == {"script", "style", "iframe", "object", "embed"}
HeadingTags == [l \in 1 .. 6 |-> <<"h1", "h2", "h3", "h4", "h5", "h6">>[l]]
Inline == {"strong", "em", "u", "a"}
Aliased(tag) == IF tag = "b" THEN "strong" ELSE IF tag = "i" THEN "em" ELSE tag

\* Blocks of every type have the same fields, most of them at their default.
NoBlock ==
  [type |-> "PARAGRAPH", content |-> <<>>, plain |-> <<>>, level |-> 1,
   ordered |-> FALSE, style |-> {}, lang |-> "", url |-> "", alt |-> <<>>,
   headers |-> <<>>, rows |-> <<>>, cells |-> <<>>, cols |-> 1, height |-> 1]

BlockOf(type, content) == [NoBlock EXCEPT !.type = type, !.content = content]
Heading(level, content) == [BlockOf("HEADING", content) EXCEPT !.level = level]

Cell(text, row, col, cs, rs) ==
  [text |-> text, row |-> row, col |-> col, cs |-> cs, rs |-> rs, style |-> {}]

GridTable(cells, cols, height) ==
  [NoBlock EXCEPT !.type = "TABLE", !.cells = cells, !.cols = cols, !.height = height]
SimpleTable(headers, rows) ==
  [NoBlock EXCEPT !.type = "TABLE", !.headers = headers, !.rows = rows]

Flatten(seqs) == FlattenSeq(seqs)
MapSeq(Op(_), s) == [i \in 1 .. Len(s) |-> Op(s[i])]
Greater(a, b) == IF a > b THEN a ELSE b
Clamped(level) == IF level < 1 THEN 1 ELSE IF level > 6 THEN 6 ELSE level

Escaped(pieces) == IF pieces = <<>> THEN <<>> ELSE <<Txt(pieces)>>
Unescaped(pieces) ==
  MapSeq(LAMBDA p : IF p = Tagish THEN Open("ref") ELSE Txt(<<p>>), pieces)

\* Adjacent texts of a string are one text.
Joined(tokens) ==
  FoldLeft(LAMBDA acc, t :
             IF t.k = "text" /\ acc # <<>> /\ Last(acc).k = "text"
             THEN [acc EXCEPT ![Len(acc)].text = @ \o t.text]
             ELSE Append(acc, t),
           <<>>, tokens)

Strip(pieces) ==
  LET solid == {i \in DOMAIN pieces : pieces[i] # NL} IN
  IF solid = {} THEN <<>>
  ELSE SubSeq(pieces, CHOOSE i \in solid : \A j \in solid : i <= j,
                      CHOOSE i \in solid : \A j \in solid : i >= j)

\* content.split("\n") on an HTML string.
SplitLines(tokens) ==
  LET atoms == Flatten(MapSeq(LAMBDA t : IF t.k = "text"
                                         THEN MapSeq(LAMBDA p : Txt(<<p>>), t.text)
                                         ELSE <<t>>, tokens))
  IN FoldLeft(LAMBDA acc, t : IF t = Txt(<<NL>>) THEN Append(acc, <<>>)
                              ELSE [acc EXCEPT ![Len(acc)] = Append(@, t)],
              <<<<>>>>, atoms)

JoinLines(items) ==
  FoldLeft(LAMBDA acc, i : IF i = 1 THEN items[1]
                           ELSE acc \o <<Txt(<<NL>>)>> \o items[i],
           <<>>, [i \in 1 .. Len(items) |-> i])

----------------------------------------------------------------------------
(***************************************************************************)
(* The tolerant tree builder.  A start tag opens a node until its end tag, *)
(* the end tag of an ancestor or the end of the input; an end tag that     *)
(* closes nothing is ignored.                                              *)
(***************************************************************************)
Node(token) == [tag |-> token.tag, attrs |-> token.attrs, text |-> token.text,
                kids |-> <<>>]
Root == [tag |-> "#root", attrs |-> NoAttrs, text |-> <<>>, kids |-> <<>>]

Attach(stack, node) == [stack EXCEPT ![Len(stack)].kids = Append(@, node)]

\* del stack[i:], the nodes above i hanging below each other already.
CloseFrom(stack, i) ==
  FoldLeft(LAMBDA st, n : Attach(Front(st), Last(st)), stack,
           [n \in 1 .. Len(stack) - i + 1 |-> n])

HandleEndTag(stack, tag) ==
  LET open == {i \in 2 .. Len(stack) : stack[i].tag = tag} IN
  IF open = {} THEN stack
  ELSE CloseFrom(stack, CHOOSE i \in open : \A j \in open : i >= j)

HandleToken(stack, t) ==
  CASE t.k = "text" -> Attach(stack, Node(t))
    [] t.k = "close" -> HandleEndTag(stack, t.tag)
    [] t.tag \in Void -> Attach(stack, Node(t))
    [] OTHER -> Append(stack, Node(t))

BuildDom(tokens) ==
  CloseFrom(FoldLeft(HandleToken, <<Root>>, Joined(tokens)), 2)[1].kids

KidsWith(node, tags) == SelectSeq(node.kids, LAMBDA n : n.tag \in tags)
FirstChild(node, tag) == KidsWith(node, {tag})[1]
HasChild(node, tag) == KidsWith(node, {tag}) # <<>>

RECURSIVE TextContent(_)
TextContent(node) ==
  IF node.tag = "" THEN node.text ELSE Flatten(MapSeq(TextContent, node.kids))

----------------------------------------------------------------------------
(***************************************************************************)
(* Sanitizers, the style codec and inline fragments.                       *)
(***************************************************************************)
SanitizeUrl(url) == IF url = "javascript:" THEN "" ELSE url

StyleToCss(style) == style \ {Black, Flat}
CssToStyle(css) == css \ {Alien}

InlineStartTag(node, tag) ==
  IF tag = "a" THEN OpenWith("a", [NoAttrs EXCEPT !.url = SanitizeUrl(node.attrs.url)])
  ELSE Open(tag)

RECURSIVE RenderInline(_)
RenderInline(nodes) ==
  LET render(node) ==
        LET tag == Aliased(node.tag) IN
        CASE tag = "" -> Escaped(node.text)
          [] tag \in DropContent -> <<>>
          [] tag \in Inline -> <<InlineStartTag(node, tag)>>
                                 \o RenderInline(node.kids) \o <<Close(tag)>>
          [] OTHER -> RenderInline(node.kids)
  IN Flatten(MapSeq(render, nodes))

SerializeInline(content) == RenderInline(BuildDom(content))

----------------------------------------------------------------------------
(***************************************************************************)
(* The grid of a table whose cells have places and spans.  A place covered *)
(* by the span of another cell is skipped, one without a cell is empty, and*)
(* of two cells at one place the later one is written.                     *)
(***************************************************************************)
At(cells, r, c) == {i \in DOMAIN cells : cells[i].row = r /\ cells[i].col = c}
Covers(cell, r, c) ==
  /\ r \in cell.row .. cell.row + cell.rs - 1
  /\ c \in cell.col .. cell.col + cell.cs - 1
  /\ <<r, c>> # <<cell.row, cell.col>>

RowPlaces(cells, cols, r) ==
  SelectSeq([c \in 1 .. cols |-> c - 1],
            LAMBDA c : \A i \in DOMAIN cells : ~Covers(cells[i], r, c))

CellAt(cells, r, c) ==
  cells[CHOOSE i \in At(cells, r, c) : \A j \in At(cells, r, c) : i >= j]

Element(tag, inner) == <<Open(tag)>> \o inner \o <<Close(tag)>>

SerializeCell(cell) ==
  <<OpenWith("td", [NoAttrs EXCEPT !.cs = Greater(cell.cs, 1), !.rs = Greater(cell.rs, 1),
                                   !.style = StyleToCss(cell.style)])>>
    \o Escaped(cell.text) \o <<Close("td")>>

SerializeStyledTable(b) ==
  Element("table", Flatten([r \in 1 .. b.height |->
    Element("tr", Flatten(MapSeq(
      LAMBDA c : IF At(b.cells, r - 1, c) = {} THEN Element("td", <<>>)
                 ELSE SerializeCell(CellAt(b.cells, r - 1, c)),
      RowPlaces(b.cells, b.cols, r - 1))))]))

SerializeRow(tag, texts) ==
  Element("tr", Flatten(MapSeq(LAMBDA t : Element(tag, Escaped(t)), texts)))

SerializeSimpleTable(b) ==
  Element("table",
    Element("thead", SerializeRow("th", b.headers))
      \o Element("tbody", Flatten(MapSeq(LAMBDA r : SerializeRow("td", r), b.rows))))

SerializeList(b) ==
  Element(IF b.ordered THEN "ol" ELSE "ul",
    Flatten(MapSeq(LAMBDA item : IF item = <<>> THEN <<>>
                                 ELSE Element("li", SerializeInline(item)),
                   SplitLines(b.content))))

SerializeBlock(b) ==
  CASE b.type = "HEADING" ->
         Element(HeadingTags[Clamped(b.level)], SerializeInline(b.content))
    [] b.type = "PARAGRAPH" ->
         <<OpenWith("p", [NoAttrs EXCEPT !.style = StyleToCss(b.style)])>>
           \o SerializeInline(b.content) \o <<Close("p")>>
    [] b.type = "CODE" ->
         <<Open("pre"), OpenWith("code", [NoAttrs EXCEPT !.lang = b.lang])>>
           \o Escaped(b.plain) \o <<Close("code"), Close("pre")>>
    [] b.type = "QUOTE" -> Element("blockquote", SerializeInline(b.content))
    [] b.type = "LIST" -> SerializeList(b)
    [] b.type = "IMAGE" ->
         <<OpenWith("img", [NoAttrs EXCEPT !.url = SanitizeUrl(b.url), !.alt = b.alt])>>
    [] b.type = "TABLE" /\ b.cells # <<>> -> SerializeStyledTable(b)
    [] b.type = "TABLE" /\ b.cells = <<>> -> SerializeSimpleTable(b)

\* A document is the sequence of its pages, a page that of its blocks; the
\* dialect has no pages.
SerializeDoc(pages) ==
  Joined(Element("article", Flatten(MapSeq(SerializeBlock, Flatten(pages)))))

----------------------------------------------------------------------------
(***************************************************************************)
(* Reading HTML into blocks.                                               *)
(***************************************************************************)
ParsePre(node) ==
  LET target == IF HasChild(node, "code") THEN FirstChild(node, "code") ELSE node IN
  [NoBlock EXCEPT !.type = "CODE", !.plain = TextContent(target),
                  !.lang = IF HasChild(node, "code") THEN target.attrs.lang ELSE ""]

\* The next free place of row r from column c on.
RECURSIVE FreeFrom(_, _, _)
FreeFrom(cells, r, c) ==
  IF \E i \in DOMAIN cells : Covers(cells[i], r, c) THEN FreeFrom(cells, r, c + 1) ELSE c

\* One cell of row r is read: st has the cells so far, the column, the width.
PlaceCell(st, td, r) ==
  LET c == FreeFrom(st.cells, r, st.c) IN
  [cells |-> Append(st.cells,
               [Cell(TextContent(td), r, c, td.attrs.cs, td.attrs.rs)
                  EXCEPT !.style = CssToStyle(td.attrs.style)]),
   c |-> c + td.attrs.cs, cols |-> Greater(st.cols, c + td.attrs.cs)]

ParseStyledTable(node) ==
  LET trs == KidsWith(node, {"tr"})
      placed == FoldLeft(LAMBDA st, r :
                  FoldLeft(LAMBDA s, td : PlaceCell(s, td, r - 1), [st EXCEPT !.c = 0],
                           KidsWith(trs[r], {"td", "th"})),
                  [cells |-> <<>>, c |-> 0, cols |-> 0], [i \in 1 .. Len(trs) |-> i])
  IN GridTable(placed.cells, placed.cols, Len(trs))

RowTexts(tr, tag) == MapSeq(TextContent, KidsWith(tr, {tag}))

ParseTable(node) ==
  IF ~HasChild(node, "thead") THEN ParseStyledTable(node)
  ELSE LET thead == FirstChild(node, "thead")
           body == IF HasChild(node, "tbody")
                   THEN KidsWith(FirstChild(node, "tbody"), {"tr"}) ELSE <<>>
       IN SimpleTable(IF HasChild(thead, "tr")
                      THEN RowTexts(FirstChild(thead, "tr"), "th") ELSE <<>>,
                      MapSeq(LAMBDA tr : RowTexts(tr, "td"), body))

\* Mutant: the level below the tag's.
LevelBelow(tag) == 1 + CHOOSE l \in 1 .. 6 : HeadingTags[l] = tag

LevelOf(tag) == CHOOSE l \in 1 .. 6 : HeadingTags[l] = tag

RECURSIVE BlocksFromChildren(_)
NodeBlocks(n) ==
  CASE n.tag = "" -> IF Strip(n.text) = <<>> THEN <<>>
                     ELSE <<BlockOf("PARAGRAPH", Escaped(Strip(n.text)))>>
    [] n.tag \in DropContent -> <<>>
    [] \E l \in 1 .. 6 : n.tag = HeadingTags[l] ->
         <<Heading(LevelOf(n.tag), RenderInline(n.kids))>>
    [] n.tag = "p" -> <<[BlockOf("PARAGRAPH", RenderInline(n.kids))
                           EXCEPT !.style = CssToStyle(n.attrs.style)]>>
    [] n.tag = "pre" -> <<ParsePre(n)>>
    [] n.tag = "blockquote" -> <<BlockOf("QUOTE", RenderInline(n.kids))>>
    [] n.tag \in {"ul", "ol"} ->
         <<[BlockOf("LIST", JoinLines(MapSeq(LAMBDA li : RenderInline(li.kids),
                                             KidsWith(n, {"li"}))))
              EXCEPT !.ordered = (n.tag = "ol")]>>
    [] n.tag = "img" -> <<[NoBlock EXCEPT !.type = "IMAGE", !.alt = n.attrs.alt,
                                          !.url = SanitizeUrl(n.attrs.url)]>>
    [] n.tag = "table" -> <<ParseTable(n)>>
    [] Aliased(n.tag) \in Inline ->
         LET inner == RenderInline(<<n>>) IN
         IF inner = <<>> THEN <<>> ELSE <<BlockOf("PARAGRAPH", inner)>>
    [] OTHER -> BlocksFromChildren(n.kids)

BlocksFromChildren(nodes) == Flatten(MapSeq(NodeBlocks, nodes))

ParseDialect(html) ==
  LET dom == BuildDom(html)
      articles == SelectSeq(dom, LAMBDA n : n.tag = "article")
      blocks == BlocksFromChildren(IF articles = <<>> THEN dom ELSE articles[1].kids)
  IN IF blocks = <<>> THEN <<>> ELSE <<blocks>>

\* What a save makes of the HTML it is given.
Canonical(html) == SerializeDoc(ParseDialect(html))
=============================================================================
