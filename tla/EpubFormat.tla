----------------------------- MODULE EpubFormat -----------------------------
(***************************************************************************)
(* The EPUB a document is exported to (engine/doc/exporters/epub.py): the  *)
(* XHTML of its content, its table of contents and its pictures.           *)
(***************************************************************************)
EXTENDS DocxFormat

\* The anchors of the headings are numbered over the document.
Anchored(tag, anchor) == OpenWith(tag, [NoAttrs EXCEPT !.lang = anchor])
AnchorOf(n) == "sec" \o ToString(n)

\* An embedder numbers the pictures it takes in, each url once.
HrefFor(taken, url, images) ==
  IF \E i \in DOMAIN taken : taken[i] = url THEN taken
  ELSE IF Embeds(images, url) THEN Append(taken, url) ELSE taken

ImageFile(taken, url) == "image" \o ToString(CHOOSE i \in DOMAIN taken : taken[i] = url)

EpubBlock(b, anchor, taken) ==
  CASE b.type = "HEADING" ->
         <<Anchored(HeadingTags[Clamped(b.level)], anchor)>>
           \o SerializeInline(b.content) \o <<Close(HeadingTags[Clamped(b.level)])>>
    [] b.type = "IMAGE" ->
         IF \E i \in DOMAIN taken : taken[i] = b.url
         THEN <<OpenWith("img", [NoAttrs EXCEPT !.url = ImageFile(taken, b.url), !.alt = b.alt])>>
         ELSE Element("p", Escaped(AltText(b.alt)))
    [] OTHER -> SerializeBlock(b)

\* Mutant: only the headings the table of contents lists are numbered.
AddListedHeading(st, b, images) ==
  LET listed == b.type = "HEADING" /\ Clamped(b.level) <= 3
      n == IF listed THEN st.n + 1 ELSE st.n
  IN [st EXCEPT !.body = @ \o EpubBlock(b, AnchorOf(n), st.taken), !.n = n,
        !.toc = IF listed THEN Append(@, [anchor |-> AnchorOf(n),
                                          label |-> SerializeInline(b.content)]) ELSE @]

\* st: the content, the table of contents, the number of headings, the pictures.
AddToBook(st, b, images) ==
  LET n == IF b.type = "HEADING" THEN st.n + 1 ELSE st.n
      taken == IF b.type = "IMAGE" THEN HrefFor(st.taken, b.url, images) ELSE st.taken
  IN [body |-> st.body \o EpubBlock(b, AnchorOf(n), taken),
      toc |-> IF b.type = "HEADING" /\ Clamped(b.level) <= 3
              THEN Append(st.toc, [anchor |-> AnchorOf(n), label |-> SerializeInline(b.content)])
              ELSE st.toc,
      n |-> n, taken |-> taken]

BuildBodyAndToc(pages, images) ==
  FoldLeft(LAMBDA st, b : AddToBook(st, b, images),
           [body |-> <<>>, toc |-> <<>>, n |-> 0, taken |-> <<>>], Flatten(pages))

\* The navigation has one entry at least: the whole content, without an anchor.
Nav(toc, title) ==
  IF toc = <<>> THEN <<[anchor |-> "", label |-> Escaped(title)]>> ELSE toc

Untitled == <<"Untitled">>

ExportEpub(pages, title, images) ==
  LET book == BuildBodyAndToc(pages, images)
      safe == IF Strip(title) = <<>> THEN Untitled ELSE Strip(title)
  IN [title |-> safe, content |-> Joined(book.body), nav |-> Nav(book.toc, safe),
      manifest |-> book.taken]
=============================================================================
