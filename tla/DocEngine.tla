----------------------------- MODULE DocEngine -----------------------------
(***************************************************************************)
(* The document engine at work: a file of some format, built up part by    *)
(* part, is imported (engine/doc/ingest.py), and the document is saved,    *)
(* exported, and as a manuscript cut into the chapters of a book.  The     *)
(* importers are operators on the whole file, but that of Markdown, whose  *)
(* loop is taken one iteration at a time.                                  *)
(*                                                                         *)
(* A part is what its format's importer reads (it) and the words a reader  *)
(* of the file sees in it (words).                                         *)
(***************************************************************************)
EXTENDS TextFormats, OfficeFormats, EpubFormat, BookImports

CONSTANTS FileFormats, \* the parts a file of each format may have
          MaxParts,    \* how many parts a file has at most
          Images,      \* the pictures at hand when a document is exported
          Shared,      \* the shared strings of an Excel file
          DocStyles    \* the styles a Word file declares

VARIABLES format, source,  \* the file
          phase,           \* "written", "reading", "read"
          at, got,         \* Markdown: the line to read and the blocks so far
          pages            \* the document

engineVars == <<format, source, phase, at, got, pages>>

EngineInit ==
  /\ format \in DOMAIN FileFormats
  /\ source = <<>>
  /\ phase = "written"
  /\ at = 0
  /\ got = <<>>
  /\ pages = <<>>

Items == MapSeq(LAMBDA p : p.it, source)

----------------------------------------------------------------------------
(***************************************************************************)
(* The programs that write the files.                                      *)
(***************************************************************************)
\* A section stream: a header for every record, the size of a long one in a
\* unit of its own, and the units of its text.
Unit(piece) == [piece |-> piece, size |-> 0]
Header(rec, size) == [record |-> [rec EXCEPT !.text = <<>>], size |-> size, piece |-> NL]
WriteRecords(recs) ==
  Flatten(MapSeq(LAMBDA r :
    LET size == Len(r.text) IN
    (IF size < LongSize THEN <<Header(r, size)>>
     ELSE <<Header(r, LongSize), [piece |-> NL, size |-> size]>>) \o MapSeq(Unit, r.text),
    recs))

\* An OLE2 file in which every unit is a sector and chains run backwards: the
\* root, its storage and the streams, which are right children of each other.
Cutoff == 6
WriteOle(streams) ==
  LET small == SelectSeq([i \in DOMAIN streams |-> i], LAMBDA i : Len(streams[i]) < Cutoff)
      large == SelectSeq([i \in DOMAIN streams |-> i], LAMBDA i : Len(streams[i]) >= Cutoff)
      mini == Flatten(MapSeq(LAMBDA i : Reverse(streams[i]), small))
      data == Flatten(MapSeq(LAMBDA i : Reverse(streams[i]), large)) \o Reverse(mini)
      upTo(list, i) == FoldLeft(LAMBDA n, j : IF j <= i THEN n + Len(streams[j]) ELSE n, 0, list)
      start(i) == (IF Len(streams[i]) < Cutoff THEN upTo(small, i) ELSE upTo(large, i)) - 1
      firsts(list) == {upTo(list, i) - Len(streams[i]) : i \in {list[n] : n \in DOMAIN list}}
      chain(n, ends) == [s \in 1 .. n |-> IF s - 1 \in ends THEN End ELSE s - 2]
      entry(i) == [type |-> "stream", name |-> i - 1, start |-> start(i),
                   size |-> Len(streams[i]), left |-> NoStream,
                   right |-> IF i < Len(streams) THEN i + 2 ELSE NoStream, child |-> NoStream]
      dir(type, name, child) ==
        [type |-> type, name |-> name, start |-> Len(data) - 1, size |-> Len(mini),
         left |-> NoStream, right |-> NoStream, child |-> child]
  IN [sectors |-> MapSeq(LAMBDA u : <<u>>, data), cutoff |-> Cutoff,
      fat |-> chain(Len(data), firsts(large) \cup {Len(data) - Len(mini)}),
      miniFat |-> chain(Len(mini), firsts(small)),
      directory |-> <<dir("root", "Root Entry", 1), dir("storage", "BodyText", 2)>>
                      \o [i \in DOMAIN streams |-> entry(i)]]

WriteHwp(sections) ==
  [encrypted |-> FALSE, ole |-> WriteOle(MapSeq(WriteRecords, sections))]

\* The sections of an HWPX file lie in it last first, as do the slides of a
\* presentation, whose list gives their order.
WriteHwpx(sections) ==
  LET n == Len(sections) IN
  [encrypted |-> FALSE,
   sections |-> [i \in 1 .. n |-> [number |-> n - i, paragraphs |-> sections[n - i + 1]]]]

WritePptx(slides) ==
  LET n == Len(slides) IN
  [ids |-> [i \in 1 .. n |-> i], rels |-> [i \in 1 .. n |-> n - i + 1],
   parts |-> [i \in 1 .. n |-> slides[n - i + 1]]]

----------------------------------------------------------------------------
ParserOf(f, items) ==
  CASE f = "txt" -> ParseText(items)
    [] f = "csv" -> ParseCsv(items)
    [] f = "html" -> ParseHtml(items)
    [] f = "pdf" -> ParsePdf(items)
    [] f = "docx" -> ParseDocx([styles |-> DocStyles, body |-> items])
    [] f = "hwp" -> ParseHwp(WriteHwp(items))
    [] f = "hwpx" -> ParseHwpx(WriteHwpx(items))
    [] f = "pptx" -> ParsePptx(WritePptx(items))
    [] f = "xlsx" -> ParseXlsx([sheets |-> items, shared |-> Shared])

Write(i) ==
  /\ phase = "written"
  /\ Len(source) < MaxParts
  /\ source' = Append(source, FileFormats[format][i])
  /\ UNCHANGED <<format, phase, at, got, pages>>

Import ==
  /\ phase = "written"
  /\ format # "md"
  /\ phase' = "read"
  /\ pages' = ParserOf(format, Items)
  /\ UNCHANGED <<format, source, at, got>>

StartLines ==
  /\ phase = "written"
  /\ format = "md"
  /\ phase' = "reading"
  /\ at' = 1
  /\ UNCHANGED <<format, source, got, pages>>

ReadBlock ==
  /\ phase = "reading"
  /\ at <= Len(source)
  /\ LET read == ParseLine(Items, at) IN
       /\ at' = read.next
       /\ got' = got \o read.blocks
  /\ UNCHANGED <<format, source, phase, pages>>

EndLines ==
  /\ phase = "reading"
  /\ at > Len(source)
  /\ phase' = "read"
  /\ pages' = Page(got)
  /\ UNCHANGED <<format, source, at, got>>

EngineNext ==
  \/ \E i \in DOMAIN FileFormats[format] : Write(i)
  \/ Import \/ StartLines \/ ReadBlock \/ EndLines

EngineSpec == EngineInit /\ [][EngineNext]_engineVars

----------------------------------------------------------------------------
(***************************************************************************)
(* What a reader sees of a document: its words, line breaks aside.         *)
(***************************************************************************)
WordsOf(pieces) == SelectSeq(pieces, LAMBDA p : p # NL)
TextOf(tokens) ==
  Flatten(MapSeq(LAMBDA t : t.text, SelectSeq(tokens, LAMBDA t : t.k = "text")))

BlockWords(b) ==
  WordsOf(CASE b.type = "TABLE" -> Flatten(MapSeq(LAMBDA c : c.text, b.cells))
                                     \o Flatten(b.headers) \o Flatten(Flatten(b.rows))
            [] b.type = "CODE" -> b.plain
            [] b.type = "IMAGE" -> b.alt
            [] OTHER -> TextOf(b.content))

DocWords(doc) == Flatten(MapSeq(BlockWords, Flatten(doc)))

Saved == SerializeDoc(pages)
Reopened == ParseDialect(Saved)
SheetNames == IF format # "xlsx" THEN {}
              ELSE UNION {{Items[i].name[j] : j \in DOMAIN Items[i].name} : i \in DOMAIN Items}

\* The importers of these formats put the text of the file into the content of
\* a block unescaped: a piece that looks like a tag is a tag to the sanitizer,
\* which unwraps it, and the piece is lost (in a table or code it is not).
RawFormats == {"txt", "md", "hwp", "hwpx", "pptx", "pdf"}
SourceWords == Flatten(MapSeq(LAMBDA p : p.words, source))
Kept(words) ==
  SelectSeq(words, LAMBDA w : /\ w \notin SheetNames
                              /\ format \in RawFormats => w # Tagish)

\* An imported and saved document has the words of the file in their order,
\* nothing around a piece that is taken for a tag being lost with it, and those
\* pieces too where the importer escapes.  Only the names of sheets are added.
DocumentKeepsTheText ==
  format # "html" => Kept(DocWords(Reopened)) = Kept(SourceWords)

\* The blocks of a book made of plain text have all its words, even those that
\* look like tags, and every later check of a block's grammar accepts them.
TextBlocksAreValid ==
  format \in {"txt", "md"} =>
    LET blocks == TextToBlocks(Items) IN
    /\ \A i \in DOMAIN blocks : ValidBlockHtml(blocks[i].type, blocks[i].html)
    /\ WordsOf(Flatten(MapSeq(LAMBDA b : TextOf(b.html), blocks))) = SourceWords

\* Those the studio makes of a PDF have every word with the marks it is set in.
MarkedWords(spans) ==
  Flatten(MapSeq(LAMBDA s : MapSeq(LAMBDA w : <<w, s.marks>>, WordsOf(s.text)), spans))
StudioKeepsTheMarks ==
  format = "pdf" =>
    LET boxes == Flatten(Items) IN
    Flatten(MapSeq(LAMBDA b : MarkedWords(b.spans), PdfToNeutralBlocks(boxes)))
      = MarkedWords(Spans(boxes))

\* Whichever importer reads a file, no word of it is lost or displaced, but for
\* the loss that is known: where an importer does not escape, the pieces of the
\* text that look like a tag (see RawFormats), against dialect.py:15-18, which
\* holds the sanitizer safe on plain text.
ImportsKeepTheText ==
  phase = "read" => DocumentKeepsTheText /\ TextBlocksAreValid /\ StudioKeepsTheMarks

\* Saving a document that was saved before changes nothing: what the editor
\* shows after a save is what is stored, and a save that is repeated is idle.
Stable(html) == Canonical(html) = html
SavingIsIdempotent == phase = "read" => Stable(Canonical(Saved))

Pictured(b) == b.type = "IMAGE" /\ Embeds(Images, b.url)
VisibleWords(b) ==
  IF b.type # "IMAGE" THEN BlockWords(b)
  ELSE IF Pictured(b) THEN <<>> ELSE WordsOf(AltText(b.alt))
Headings(doc) ==
  MapSeq(LAMBDA b : <<b.level, BlockWords(b)>>,
         SelectSeq(Flatten(doc), LAMBDA b : b.type = "HEADING" /\ BlockWords(b) # <<>>))

PicturesOf(file) ==
  SelectSeq(MapSeq(LAMBDA e : IF e.k = "p" THEN e.picture.url ELSE "", file.body),
            LAMBDA url : url # "")

SameDocument(again, doc) ==
  /\ DocWords(again) = Flatten(MapSeq(VisibleWords, Flatten(doc)))
  /\ Headings(again) = Headings(doc)

IsWordFileOf(file, doc) ==
  /\ SameDocument(ParseDocx(file), doc)
  /\ PicturesOf(file) = MapSeq(LAMBDA b : b.url, SelectSeq(Flatten(doc), Pictured))

\* The Word file a document is exported to, imported again, has the words of
\* the document in their order, the picture or else the alternative text of
\* its images, and its headings with their levels.
WordFileKeepsTheDocument ==
  phase = "read" => IsWordFileOf(ExportDocx(Reopened, Images), Reopened)

HeadingAnchors(epub) ==
  SelectSeq(epub.content, LAMBDA t : t.k = "open" /\ t.tag \in Range(HeadingTags))
HeadingsOf(doc) == SelectSeq(Flatten(doc), LAMBDA b : b.type = "HEADING")

Navigable(epub, anchors, heads) ==
  /\ Len(anchors) = Len(heads)
  /\ \A i, j \in DOMAIN anchors : i # j => anchors[i].attrs.lang # anchors[j].attrs.lang
  /\ \A n \in DOMAIN epub.nav : epub.nav[n].anchor # "" =>
       \E i \in DOMAIN anchors :
         /\ anchors[i].attrs.lang = epub.nav[n].anchor
         /\ heads[i].level <= 3
         /\ TextOf(epub.nav[n].label) = TextOf(heads[i].content)
  /\ IsInjective(epub.manifest)

IsEpubOf(epub, doc) == Navigable(epub, HeadingAnchors(epub), HeadingsOf(doc))

\* Every entry of the table of contents leads to the heading it names, each in
\* its place, and every picture of the EPUB is in it once.
TocLeadsToItsHeadings ==
  phase = "read" => IsEpubOf(ExportEpub(Reopened, <<"title">>, Images), Reopened)

Stem == <<"stem">>
TextOfBlocks(blocks) == WordsOf(Flatten(MapSeq(LAMBDA b : TextOf(b.html), blocks)))
BlocksOf(chapters) == Flatten(MapSeq(LAMBDA c : c.blocks, chapters))
EpubWords(epub) ==
  Flatten(MapSeq(LAMBDA e : WordsOf(e.label) \o WordsOf(TextOf(epub.files[e.href])), epub.nav))

IsBookOf(sent, doc) ==
  LET all == BlocksOf(sent)
      words == Flatten(MapSeq(LAMBDA c : WordsOf(c.title) \o TextOfBlocks(c.blocks), sent))
  IN /\ SelectSeq(words, LAMBDA w : w # "stem") = DocWords(doc)
     /\ SelectSeq(EpubWords(BuildEpub(sent)), LAMBDA w : w # "chapter") = words
     /\ \A n \in 0 .. Len(all) : BlocksOf(ToPreview(sent, n)) = SubSeq(all, 1, n)

IsSentAs(doc, sent) == sent # <<>> => IsBookOf(sent, doc)

\* A manuscript that is imported on the desktop and published has, in the
\* titles and blocks of its chapters, the words of the file in their order
\* (and the title of an untitled beginning); so has the EPUB made of it, along
\* its table of contents, and a preview is as much of its beginning as it says.
PublishedBookKeepsTheText ==
  phase = "read" => IsSentAs(pages, PreflightChapters(ImportManuscript(pages, Stem)))

\* Every iteration of the Markdown importer reads a line: it comes to an end.
LinesAreConsumed == [][phase = "reading" /\ phase' = "reading" => at' > at]_engineVars
=============================================================================
