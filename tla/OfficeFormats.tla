--------------------------- MODULE OfficeFormats ---------------------------
(***************************************************************************)
(* The importers of office files: HWP and the OLE2 container it lies in,   *)
(* HWPX, PowerPoint and Excel (engine/doc/parsers).  Text read from them is*)
(* put into blocks unescaped.                                              *)
(***************************************************************************)
EXTENDS Dialect

PlainParagraphs(texts) ==
  MapSeq(LAMBDA t : BlockOf("PARAGRAPH", Joined(Unescaped(t))),
         SelectSeq(MapSeq(Strip, texts), LAMBDA t : t # <<>>))

----------------------------------------------------------------------------
(***************************************************************************)
(* OLE2.  A container is its header, the allocation tables (the next sector*)
(* of a sector, End at the end of a chain), and the entries of its         *)
(* directory; entries of no type are left out, so that those behind one are*)
(* not at the index their siblings and parents name.                       *)
(***************************************************************************)
End == 1000
NoStream == 1001

RECURSIVE ReadChain(_, _)
ReadChain(fat, sector) ==
  IF sector >= End \/ sector >= Len(fat) THEN <<>>
  ELSE <<sector>> \o ReadChain(fat, fat[sector + 1])

UsedEntries(directory) == SelectSeq(directory, LAMBDA e : e.type # "unused")

\* The streams below an entry with their paths, in the order they are read.
RECURSIVE Walk(_, _, _)
Walk(entries, index, prefix) ==
  IF index >= Len(entries) THEN <<>>
  ELSE LET e == entries[index + 1] IN
       Walk(entries, e.left, prefix) \o Walk(entries, e.right, prefix)
         \o (IF e.type = "stream" THEN <<[path |-> Append(prefix, e.name), entry |-> e]>>
             ELSE IF e.type = "storage"
             THEN Walk(entries, e.child, Append(prefix, e.name)) ELSE <<>>)

Clipped(units, size) == SubSeq(units, 1, IF size < Len(units) THEN size ELSE Len(units))

ReadStreamData(ole, start, size) ==
  Clipped(Flatten(MapSeq(LAMBDA s : ole.sectors[s + 1], ReadChain(ole.fat, start))), size)

\* A mini sector is one unit of the stream of the root entry.
ReadMiniStream(ole, root, e) ==
  LET stream == ReadStreamData(ole, root.start, root.size) IN
  Clipped(MapSeq(LAMBDA s : stream[s + 1],
                 SelectSeq(ReadChain(ole.miniFat, e.start), LAMBDA s : s < Len(stream))),
          e.size)

ReadOle2(ole) ==
  LET entries == UsedEntries(ole.directory) IN
  IF entries = <<>> \/ entries[1].type # "root" THEN <<>>
  ELSE MapSeq(LAMBDA f :
                [path |-> f.path,
                 data |-> IF f.entry.size < ole.cutoff
                          THEN ReadMiniStream(ole, entries[1], f.entry)
                          ELSE ReadStreamData(ole, f.entry.start, f.entry.size)],
              Walk(entries, entries[1].child, <<>>))

----------------------------------------------------------------------------
(***************************************************************************)
(* HWP.  A section is a stream of units: a header gives the tag, the level *)
(* and the size of a record, a size too long for the header follows in a   *)
(* unit of its own, and the units of the record come next.                 *)
(***************************************************************************)
LongSize == 3
Record(tag, level) ==
  [tag |-> tag, level |-> level, text |-> <<>>, rows |-> 0, cols |-> 0,
   row |-> 0, col |-> 0, cs |-> 1, rs |-> 1, style |-> {}]

\* pos: where the next header is; a record that the stream cuts short is read
\* as far as it goes.
RECURSIVE ParseRecords(_, _)
ParseRecords(stream, pos) ==
  IF pos > Len(stream) THEN <<>>
  ELSE LET header == stream[pos]
           long == header.size = LongSize
           size == IF long THEN stream[pos + 1].size ELSE header.size
           first == IF long THEN pos + 2 ELSE pos + 1
       IN IF long /\ pos = Len(stream) THEN <<>>
          ELSE <<[header.record EXCEPT
                    !.text = MapSeq(LAMBDA u : u.piece,
                                    SubSeq(stream, first,
                                           IF first + size - 1 > Len(stream) THEN Len(stream)
                                           ELSE first + size - 1))]>>
               \o ParseRecords(stream, first + size)

\* The control characters of PARA_TEXT: an extended one takes 8 units, the
\* others one; only the line break is text.
Extended == "extended"
Control == "control"
RECURSIVE ExtractText(_)
ExtractText(units) ==
  IF units = <<>> THEN <<>>
  ELSE IF Head(units) = Extended
  THEN IF Len(units) <= 8 THEN <<>> ELSE ExtractText(SubSeq(units, 9, Len(units)))
  ELSE (IF Head(units) = Control THEN <<>> ELSE <<Head(units)>>) \o ExtractText(Tail(units))

RecordText(rec) == Strip(ExtractText(rec.text))

\* The first of the next four records below a control that is a TABLE.
FindTable(recs, i) ==
  LET near == (i + 1) .. (IF i + 4 < Len(recs) THEN i + 4 ELSE Len(recs))
      inside == {j \in near : \A n \in (i + 1) .. j : recs[n].level > recs[i].level}
      tables == {j \in inside : recs[j].tag = "TABLE"}
  IN IF tables = {} THEN {} ELSE {CHOOSE j \in tables : \A n \in tables : j <= n}

\* The first record from i on that is not below the control, one past the end
\* if all are.
EndOf(recs, i, level) ==
  LET stops == {j \in i .. Len(recs) : recs[j].level <= level} IN
  IF stops = {} THEN Len(recs) + 1 ELSE CHOOSE j \in stops : \A n \in stops : j <= n

JoinWith(texts) == Flatten(SelectSeq(texts, LAMBDA t : t # <<>>))

ListHeaderCell(rec, text) == Cell(text, rec.row, rec.col, rec.cs, rec.rs)

ParseTableBlock(recs, i, table) ==
  LET end == EndOf(recs, i + 1, recs[i].level)
      heads == SelectSeq([n \in 1 .. end - i - 1 |-> i + n],
                         LAMBDA j : recs[j].tag = "LIST_HEADER"
                                    /\ recs[j].level = recs[i].level + 1)
      cell(n) ==
        LET j == heads[n]
            last == IF n = Len(heads) THEN end - 1 ELSE heads[n + 1] - 1
            inside == SubSeq(recs, j + 1, last)
            text == JoinWith(MapSeq(RecordText,
                      SelectSeq(inside, LAMBDA r : r.tag = "PARA_TEXT")))
        IN [ListHeaderCell(recs[j], text) EXCEPT
              !.style = UNION {inside[m].style : m \in DOMAIN inside}]
  IN GridTable([n \in DOMAIN heads |-> cell(n)], table.cols, table.rows)

\* The style of a text is that of its paragraph and of its first characters.  A
\* record has the style that DocInfo gives to its shape ids.
BuildParaStyle(para, char) == para \cup char

\* st: the blocks so far, the next record, the paragraph's and the characters'
\* style that the next text takes.
HwpStep(recs, st) ==
  LET i == st.i
      rec == recs[i]
      Next(b, para, char) ==
        [blocks |-> st.blocks \o b, i |-> i + 1, para |-> para, char |-> char]
  IN CASE rec.tag = "PARA_HEADER" /\ rec.level <= 1 -> Next(<<>>, rec.style, st.char)
       [] rec.tag = "PARA_CHAR_SHAPE" /\ rec.level <= 2 -> Next(<<>>, st.para, rec.style)
       [] rec.tag = "PARA_TEXT" /\ rec.level <= 1 ->
            Next(MapSeq(LAMBDA b : [b EXCEPT !.style = BuildParaStyle(st.para, st.char)],
                        PlainParagraphs(<<ExtractText(rec.text)>>)), {}, {})
       [] rec.tag = "CTRL_HEADER" /\ rec.level = 1 /\ FindTable(recs, i) # {} ->
            [blocks |-> Append(st.blocks,
               ParseTableBlock(recs, i, recs[CHOOSE j \in FindTable(recs, i) : TRUE])),
             i |-> EndOf(recs, i + 1, 1), para |-> {}, char |-> {}]
       [] OTHER -> Next(<<>>, st.para, st.char)

RECURSIVE HwpFrom(_, _)
HwpFrom(recs, st) ==
  IF st.i > Len(recs) THEN st.blocks ELSE HwpFrom(recs, HwpStep(recs, st))

RecordsToPage(recs) == HwpFrom(recs, [blocks |-> <<>>, i |-> 1, para |-> {}, char |-> {}])

\* "Section10" comes before "Section2".
NameKey(number) ==
  IF number < 10 THEN 11 * number ELSE 11 * (number \div 10) + (number % 10) + 1

\* The sections of the body are read in the order of their names.
ParseHwp(file) ==
  LET body == SelectSeq(ReadOle2(file.ole), LAMBDA s : Len(s.path) = 2 /\ s.path[1] = "BodyText")
  IN IF file.encrypted THEN <<>>
     ELSE MapSeq(LAMBDA s : RecordsToPage(ParseRecords(s.data, 1)),
                 SortSeq(body, LAMBDA a, b : NameKey(a.path[2]) < NameKey(b.path[2])))

----------------------------------------------------------------------------
(***************************************************************************)
(* HWPX.  A paragraph is a sequence of runs; a run has text and at most one*)
(* table that counts.  A run that holds a table is its table, a table in a *)
(* cell is left out.                                                       *)
(***************************************************************************)
HwpxRun(text, tables) == [text |-> text, tables |-> tables]

HwpxCell(tc) == Cell(tc.text, tc.row, tc.col, tc.cs, tc.rs)
HwpxTable(tbl) == GridTable(MapSeq(HwpxCell, tbl.cells), tbl.cols, tbl.rows)

FlushText(st) == [blocks |-> st.blocks \o PlainParagraphs(<<st.text>>), text |-> <<>>]

\* Mutant: the text before a table is written after it.
ReadRunLate(st, run) ==
  IF run.tables = <<>> THEN [st EXCEPT !.text = @ \o run.text]
  ELSE [st EXCEPT !.blocks = Append(@, HwpxTable(run.tables[1]))]

ReadRun(st, run) ==
  IF run.tables = <<>> THEN [st EXCEPT !.text = @ \o run.text]
  ELSE [FlushText(st) EXCEPT !.blocks = Append(@, HwpxTable(run.tables[1]))]

HwpxParagraph(runs) ==
  FlushText(FoldLeft(ReadRun, [blocks |-> <<>>, text |-> <<>>], runs)).blocks

HwpxSection(s) == Flatten(MapSeq(HwpxParagraph, s.paragraphs))

ParseHwpx(file) ==
  IF file.encrypted THEN <<>>
  ELSE MapSeq(HwpxSection,
              SortSeq(file.sections, LAMBDA a, b : a.number < b.number))

----------------------------------------------------------------------------
(***************************************************************************)
(* PowerPoint.  The slides come in the order of the presentation's list of *)
(* relationship ids, those without a slide part left out.                  *)
(***************************************************************************)
SlideOrder(file) ==
  LET resolved == SelectSeq(file.ids, LAMBDA id : id \in DOMAIN file.rels) IN
  SelectSeq(MapSeq(LAMBDA id : file.rels[id], resolved), LAMBDA p : p \in DOMAIN file.parts)

ShapeBlocks(shape) ==
  LET texts == SelectSeq(MapSeq(Strip, shape.texts), LAMBDA t : t # <<>>) IN
  IF texts = <<>> THEN <<>>
  ELSE IF shape.title
  THEN <<Heading(1, Joined(Unescaped(
           FoldLeft(LAMBDA acc, t : IF acc = <<>> THEN t ELSE acc \o <<NL>> \o t,
                    <<>>, texts))))>>
  ELSE PlainParagraphs(texts)

\* Every place of the grid has a cell; one that a span covers is merged.
PptxTable(rows) ==
  LET widths == {Len(rows[r]) : r \in DOMAIN rows}
      cellsOf(r) ==
        Flatten([c \in DOMAIN rows[r] |->
          IF rows[r][c].merged THEN <<>>
          ELSE <<Cell(Strip(rows[r][c].text), r - 1, c - 1, rows[r][c].cs, rows[r][c].rs)>>])
  IN GridTable(Flatten([r \in DOMAIN rows |-> cellsOf(r)]),
               CHOOSE w \in widths : \A v \in widths : w >= v, Len(rows))

RECURSIVE CollectBlocks(_)
CollectBlocks(shapes) ==
  Flatten(MapSeq(LAMBDA s :
            CASE s.k = "sp" -> ShapeBlocks(s)
              [] s.k = "graphicFrame" -> <<PptxTable(s.rows)>>
              [] s.k = "grpSp" -> CollectBlocks(s.kids)
              [] OTHER -> <<>>, shapes))

ParsePptx(file) == MapSeq(LAMBDA p : CollectBlocks(file.parts[p]), SlideOrder(file))

----------------------------------------------------------------------------
(***************************************************************************)
(* Excel.  A cell says its column, or has the one after the cell before it;*)
(* its value is a shared string, a text of its own, a number or a truth    *)
(* value.  A sheet is a table as wide as its widest row.                   *)
(***************************************************************************)
XlsxValue(cell, shared) ==
  CASE cell.t = "s" -> IF cell.index \in 1 .. Len(shared) THEN shared[cell.index] ELSE <<>>
    [] cell.t = "b" -> IF cell.text = <<"1">> THEN <<"TRUE">> ELSE <<"FALSE">>
    [] OTHER -> cell.text

PlaceXlsx(st, cell) ==
  LET col == IF cell.ref = 0 THEN st.next ELSE cell.ref IN
  [cells |-> Append(st.cells, [col |-> col, cell |-> cell]), next |-> col + 1]
RowCells(row) == FoldLeft(PlaceXlsx, [cells |-> <<>>, next |-> 1], row).cells

SheetMatrix(sheet, shared) ==
  LET rows == MapSeq(RowCells, sheet.rows)
      cols == {sheet.dimension} \cup
              UNION {{rows[r][i].col : i \in DOMAIN rows[r]} : r \in DOMAIN rows}
      width == CHOOSE w \in cols : \A v \in cols : w >= v
      at(r, c) == {i \in DOMAIN rows[r] : rows[r][i].col = c}
  IN IF width = 0 THEN <<>>
     ELSE [r \in DOMAIN rows |-> [c \in 1 .. width |->
            IF at(r, c) = {} THEN <<>>
            ELSE XlsxValue(rows[r][CHOOSE i \in at(r, c) : \A j \in at(r, c) : i >= j].cell,
                           shared)]]

MatrixIsEmpty(matrix) ==
  \A r \in DOMAIN matrix : \A c \in DOMAIN matrix[r] : matrix[r][c] = <<>>

ParseXlsx(file) ==
  LET sheets == SelectSeq(MapSeq(LAMBDA s : [name |-> s.name,
                                             matrix |-> SheetMatrix(s, file.shared)],
                                 file.sheets),
                          LAMBDA s : ~MatrixIsEmpty(s.matrix))
  IN MapSeq(LAMBDA s :
       (IF Len(sheets) > 1 THEN <<Heading(2, Joined(Unescaped(s.name)))>> ELSE <<>>)
         \o <<SimpleTable(s.matrix[1], Tail(s.matrix))>>, sheets)
=============================================================================
