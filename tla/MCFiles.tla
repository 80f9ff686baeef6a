------------------------------ MODULE MCFiles ------------------------------
(***************************************************************************)
(* The parts the files of the instances are built from, for each format.   *)
(* Every format but HTML has a part with a piece that looks like a tag.    *)
(***************************************************************************)
EXTENDS DocEngine

LOCAL Part(it, words) == [it |-> it, words |-> words]
LOCAL L(mark, words) == Part(Line(mark, words), words)
LOCAL HeadingLine(level, words) ==
  Part([Line("heading", words) EXCEPT !.level = level], words)
LOCAL RowLine(x, y) == Part([Line("row", <<x, y>>) EXCEPT !.cells = <<<<x>>, <<y>>>>], <<x, y>>)
LOCAL RuleLine == Part([Line("rule", <<>>) EXCEPT !.cells = <<<<>>>>], <<>>)
LOCAL Silent(it) == Part(it, <<>>)

TextParts == <<Silent(Blank), L("", <<"a", Tagish, "b">>), HeadingLine(1, <<"c", Tagish>>), L("quote", <<"d">>),
               L("hr", <<>>)>>

\* Without the lines that are not taken up by any block: see LinesAreConsumed.
MarkdownParts ==
  <<Silent(Blank), L("", <<"a", Tagish>>), HeadingLine(1, <<Tagish, "b">>), HeadingLine(4, <<"c">>),
    L("quote", <<"d">>), L("bullet", <<"e">>), L("number", <<"f">>),
    Silent([Line("fence", <<>>) EXCEPT !.word = "py"]),
    Part([Line("image", <<"g">>) EXCEPT !.word = "pic"], <<"g">>), RowLine("h", "i"), RuleLine>>
TaggedParts == <<L("", <<"a">>), L("hash", <<"tag">>)>>

CsvParts ==
  <<RowLine("a", "b"), Silent(Blank),
    Part([Blank EXCEPT !.cells = <<<<>>, <<"c", NL, Tagish>>, <<"e">>>>], <<"c", Tagish, "e">>)>>

PdfParts ==
  <<Part(<< <<<<Span(<<"a">>, 10, {}), Span(<<NL, "b", Tagish>>, 10, {"em"})>>, <<Span(<<"c">>, 10, {})>>>>,
            <<<<Span(<<"d">>, 14, {"strong"})>>>>, <<<<Span(<<"e">>, 20, {})>>>> >>,
         <<"a", "b", Tagish, "c", "d", "e">>),
    Part(<< <<<<Span(<<"f">>, 12, {}), Span(<<"g">>, 12, {})>>>>, <<<<Span(<<NL>>, 12, {})>>>>,
            <<<<Span(<<"h">>, 30, {})>>, <<>>, <<Span(<<>>, 9, {}), Span(<<"i", NL>>, 30, {"em"})>>>> >>,
         <<"f", "g", "h", "i">>),
    Silent(<<>>)>>

LOCAL R(word, fmt) == Run(<<word>>, fmt)
LOCAL P(runs) == Para("", FALSE, runs)
DocxParts ==
  <<Part(P(<<R("a", {"b", "i"}), R(Tagish, {})>>), <<"a", Tagish>>),
    Part(Para("Titel", FALSE, <<R("c", {})>>), <<"c">>),
    Part(Para("Heading9", FALSE, <<R("d", {"u"})>>), <<"d">>),
    Part(Para("", TRUE, <<R("e", {})>>), <<"e">>),
    Silent(P(<<>>)),
    Silent(Para("", TRUE, <<R(NL, {})>>)),
    Part(Sdt(<<Para("Heading1", FALSE, <<R("f", {})>>), Para("", TRUE, <<R("g", {})>>)>>),
         <<"f", "g">>),
    Part(Table(<<<<Tc(<<P(<<R("h", {})>>)>>, 1, "restart"),
                   Tc(<<P(<<R("i", {})>>), P(<<R("j", {})>>)>>, 2, "")>>,
                 <<Tc(<<P(<<>>)>>, 1, "continue"), Tc(<<P(<<R("k", {})>>)>>, 1, ""),
                   Tc(<<>>, 1, "")>>>>),
         <<"h", "i", "j", "k">>)>>
WordStyles == {[id |-> "Titel", name |-> "heading 2"]}

LOCAL T(level, pieces) == [Record("PARA_TEXT", level) EXCEPT !.text = pieces]
LOCAL ListHeader(row, col, cs, rs) ==
  [Record("LIST_HEADER", 2) EXCEPT !.row = row, !.col = col, !.cs = cs, !.rs = rs]
LOCAL HwpPara(pieces) ==
  <<[Record("PARA_HEADER", 0) EXCEPT !.style = {"text-align:center"}], T(1, pieces),
    [Record("PARA_CHAR_SHAPE", 1) EXCEPT !.style = {"font-weight:bold"}]>>
LOCAL HwpTable ==
  <<Record("CTRL_HEADER", 1), [Record("TABLE", 2) EXCEPT !.rows = 2, !.cols = 2],
    ListHeader(0, 0, 2, 1), Record("PARA_HEADER", 2), T(3, <<"t">>), T(3, <<"u", Tagish, "w", NL>>),
    ListHeader(1, 0, 1, 1), T(3, <<"x">>), ListHeader(1, 1, 1, 1), T(3, <<NL>>)>>
LOCAL ExtendedControl == <<Extended>> \o [i \in 1 .. 7 |-> "junk"]
HwpParts ==
  <<Part(HwpPara(<<"a", NL, Control, Tagish, "b">>), <<"a", Tagish, "b">>),
    Part(HwpPara(ExtendedControl \o <<"c">>) \o HwpTable \o HwpPara(<<"d">>),
         <<"c", "t", "u", Tagish, "w", "x", "d">>),
    Silent(<<Record("PARA_HEADER", 0), Record("CTRL_HEADER", 1), Record("PAGE_DEF", 2), T(1, <<NL>>)>>)>>

LOCAL HwpxTc(row, col, word) == [text |-> <<word>>, row |-> row, col |-> col, cs |-> 1, rs |-> 1]
LOCAL PlainRun(word) == HwpxRun(<<word>>, <<>>)
HwpxParts ==
  <<Part(<<<<PlainRun("a"), PlainRun(Tagish)>>, <<PlainRun("c")>>>>, <<"a", Tagish, "c">>),
    Part(<<<<PlainRun("d"),
             HwpxRun(<<>>, <<[rows |-> 1, cols |-> 2,
                              cells |-> <<HwpxTc(0, 0, "e"), HwpxTc(0, 1, "f")>>]>>),
             PlainRun("g")>>>>, <<"d", "e", "f", "g">>),
    Silent(<<<<>>>>)>>

LOCAL Shape(title, texts) == [k |-> "sp", title |-> title, texts |-> texts]
LOCAL SlideCell(text, merged, cs) == [text |-> text, merged |-> merged, cs |-> cs, rs |-> 1]
PptxParts ==
  <<Part(<<Shape(TRUE, <<<<"a">>, <<Tagish>>>>), Shape(FALSE, <<<<"c">>, <<>>, <<"d">>>>)>>,
         <<"a", Tagish, "c", "d">>),
    Part(<<[k |-> "grpSp", kids |-> <<Shape(FALSE, <<<<"e">>>>), [k |-> "pic"]>>],
           [k |-> "graphicFrame",
            rows |-> <<<<SlideCell(<<"f">>, FALSE, 2), SlideCell(<<>>, TRUE, 1)>>,
                       <<SlideCell(<<"g">>, FALSE, 1), SlideCell(<<"h">>, FALSE, 1)>>>>]>>,
         <<"e", "f", "g", "h">>)>>

LOCAL SheetCell(t, ref, index, text) == [t |-> t, ref |-> ref, index |-> index, text |-> text]
LOCAL Sheet(name, dimension, rows) ==
  [name |-> <<name>>, dimension |-> dimension, rows |-> rows]
XlsxParts ==
  <<Part(Sheet("s1", 2, <<<<SheetCell("s", 1, 1, <<>>), SheetCell("n", 0, 0, <<"2">>)>>,
                          <<SheetCell("b", 3, 0, <<"1">>)>>>>), <<"sh", "2", "TRUE">>),
    Silent(Sheet("s2", 0, <<>>)),
    Part(Sheet("s3", 1, <<<<SheetCell("s", 0, 9, <<>>), SheetCell("inlineStr", 0, 0, <<Tagish>>),
                            SheetCell("n", 0, 0, <<"y">>)>>>>), <<Tagish, "y">>)>>
SharedStrings == <<<<"sh">>>>

HtmlParts ==
  MapSeq(Silent,
    <<Txt(<<"a">>), Open("p"), Close("p"), Open("h1"), Close("h1"), Open("ul"), Open("li"),
      Open("b"), Close("b"), Open("table"), Open("thead"), Open("tr"),
      OpenWith("td", [NoAttrs EXCEPT !.cs = 2]), Open("script"),
      OpenWith("img", [NoAttrs EXCEPT !.url = "pic", !.alt = <<"z">>]),
      Open("blockquote"), Close("blockquote")>>)

FileParts ==
  [txt |-> TextParts, md |-> MarkdownParts, csv |-> CsvParts, pdf |-> PdfParts, docx |-> DocxParts,
   hwp |-> HwpParts, hwpx |-> HwpxParts, pptx |-> PptxParts, xlsx |-> XlsxParts, html |-> HtmlParts]
OnlyTagged == [md |-> TaggedParts]

OnePicture == [u \in {"pic"} |-> [ext |-> "png", w |-> 1000, h |-> 200]]
=============================================================================
