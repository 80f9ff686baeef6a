------------------------------- MODULE Books -------------------------------
(***************************************************************************)
(* Manuscripts on the server: creating a book, importing and replacing its *)
(* chapters, its age rating, and reading it.  Each request reads first and *)
(* writes later in a transaction that locks nothing.  Prices, orders and   *)
(* verified ages belong to other components and change at any time.        *)
(***************************************************************************)
EXTENDS Integers, FiniteSets, FiniteSetsExt, People

CONSTANTS BookHandlers,        \* requests at a time
          Criteria,            \* the categories of the rating
          TopTier,             \* TIERS are the ranks 0 (ALL) .. TopTier
          PreviewLimits, DefaultPreview, \* bound: limits asked for; the column's default
          MaxUpload,           \* bound: uploads ever made of a book
          MaxChapters          \* bound: chapters of one upload

ASSUME BooksAssumption ==
    /\ Books # {} /\ "anonymous" \notin Accounts /\ IsFiniteSet(Criteria)
    /\ TopTier \in Nat /\ MaxUpload \in Nat /\ MaxChapters \in Nat \ {0}
    /\ DefaultPreview \in Nat /\ PreviewLimits \subseteq Int

VARIABLES author,        \* Book.author_id
          chapters,      \* the chapters of a book
          uploads,       \* uploads ever made of a book
          previewLimit,  \* Book.preview_limit
          rating, detail,\* Book.content_rating, content_rating_detail
          forSale,       \* books with a price
          paid,          \* <<account, book>> of PAID orders
          verified,      \* verified tier of an account
          delivered,     \* <<account, book>> with delivered_ts
          hasRead,       \* history: <<account, book>> answered with the full text
          cutOff,        \* history: <<account, book>> whose answer failed once the delivery was recorded
          bookRequest    \* the requests under way

bookVars == <<author, chapters, uploads, previewLimit, rating, detail, forSale, paid, verified,
              delivered, hasRead, cutOff, bookRequest>>

NoBook == "no book"
Anonymous == "anonymous"
Visitors == Accounts \cup {Anonymous}
Tiers == 0..TopTier
Unrated == [c \in {} |-> 0]
Chapter == [upload : 1..MaxUpload, order : Nat, of : 1..MaxChapters]
Overrides == UNION {[C -> Tiers] : C \in SUBSET Criteria}
IdleBookRequest == [op |-> "idle", step |-> "idle", b |-> CHOOSE b \in Books : TRUE, who |-> Anonymous,
                    seen |-> {}, order |-> 0, ask |-> Unrated, tier |-> 0, free |-> TRUE]
ReadingSteps == {"idle", "read", "loaded", "owned", "recorded", "answering"}
BookRequest == [op : {"idle", "import", "replace", "rate", "content", "epub"}, step : ReadingSteps,
                b : Books, who : Visitors, seen : SUBSET Chapter, order : Nat, ask : Overrides, tier : Tiers,
                free : BOOLEAN]

BooksTypeOK ==
    /\ author \in [Books -> Visitors \cup {NoBook}]
    /\ chapters \in [Books -> SUBSET Chapter]
    /\ uploads \in [Books -> 0..MaxUpload]
    /\ previewLimit \in [Books -> Nat]
    /\ rating \in [Books -> Tiers]
    /\ detail \in [Books -> {Unrated} \cup [Criteria -> Tiers]]
    /\ forSale \subseteq Books /\ verified \in [Accounts -> Tiers]
    /\ paid \cup hasRead \cup delivered \cup cutOff \subseteq Accounts \X Books
    /\ bookRequest \in [BookHandlers -> BookRequest]

BooksInit ==
    /\ author = [b \in Books |-> NoBook]
    /\ chapters = [b \in Books |-> {}] /\ uploads = [b \in Books |-> 0]
    /\ previewLimit = [b \in Books |-> DefaultPreview]
    /\ rating = [b \in Books |-> 0] /\ detail = [b \in Books |-> Unrated]
    /\ forSale = {} /\ paid = {} /\ delivered = {} /\ hasRead = {} /\ cutOff = {}
    /\ verified = [a \in Accounts |-> 0]
    /\ bookRequest = [h \in BookHandlers |-> IdleBookRequest]

manuscript == <<author, chapters, uploads, previewLimit>>
ratings == <<rating, detail>>
sales == <<forSale, paid, verified, delivered, hasRead, cutOff>>

Asked(h, q) == bookRequest[h] = IdleBookRequest /\ bookRequest' = [bookRequest EXCEPT ![h] = q]
Done(h) == bookRequest' = [bookRequest EXCEPT ![h] = IdleBookRequest]
Asking(op, b, who) == [IdleBookRequest EXCEPT !.op = op, !.step = "read", !.b = b, !.who = who]
MayImport(who, b) == author[b] \in {who, Anonymous}
MayEdit(who, b) == author[b] = who /\ who # Anonymous

-----------------------------------------------------------------------------
(* Writing *)

CreateBook(b, who) ==
    /\ author[b] = NoBook
    /\ author' = [author EXCEPT ![b] = who]
    /\ UNCHANGED <<chapters, uploads, previewLimit, ratings, sales, bookRequest>>

\* import_text appends one chapter: its order is the number there are.
StartImport(h, b, who) ==
    /\ MayImport(who, b)
    /\ Asked(h, [Asking("import", b, who) EXCEPT !.order = Cardinality(chapters[b])])
    /\ UNCHANGED <<manuscript, ratings, sales>>

FinishImport(h) ==
    LET q == bookRequest[h] IN
    /\ q.op = "import"
    /\ uploads[q.b] < MaxUpload
    /\ uploads' = [uploads EXCEPT ![q.b] = @ + 1]
    /\ chapters' = [chapters EXCEPT ![q.b] = @ \cup {[upload |-> uploads'[q.b], order |-> q.order, of |-> 1]}]
    /\ Done(h)
    /\ UNCHANGED <<author, previewLimit, ratings, sales>>

\* set_content reads the chapters there are; a text that breaks the block
\* grammar is refused before.
StartReplace(h, b, who) ==
    /\ MayEdit(who, b)
    /\ Asked(h, [Asking("replace", b, who) EXCEPT !.seen = chapters[b]])
    /\ UNCHANGED <<manuscript, ratings, sales>>

\* Mutant: only the positions that the new text takes are replaced.
DropPositions(there, seen, n) == {c \in there : c \notin seen \/ c.order >= n}

\* It deletes the chapters it read; one that is gone meanwhile is no error.
DropSeen(there, seen, n) == there \ seen

FinishReplace(h, n) ==
    LET q == bookRequest[h] IN
    /\ q.op = "replace"
    /\ uploads[q.b] < MaxUpload
    /\ uploads' = [uploads EXCEPT ![q.b] = @ + 1]
    /\ chapters' = [chapters EXCEPT ![q.b] = DropSeen(@, q.seen, n) \cup
                      [upload : {uploads'[q.b]}, order : 0..(n - 1), of : {n}]]
    /\ Done(h)
    /\ UNCHANGED <<author, previewLimit, ratings, sales>>

\* Mutant: a negative limit is stored.
SetLimitAsAsked(b, who, limit) ==
    /\ MayEdit(who, b)
    /\ previewLimit' = [previewLimit EXCEPT ![b] = limit]
    /\ UNCHANGED <<author, chapters, uploads, ratings, sales, bookRequest>>

SetPreviewLimit(b, who, limit) ==
    /\ MayEdit(who, b)
    /\ previewLimit' = [previewLimit EXCEPT ![b] = Max({0, limit})]
    /\ UNCHANGED <<author, chapters, uploads, ratings, sales, bookRequest>>

-----------------------------------------------------------------------------
(* The age rating *)

OverallRating(d) == Max({0} \cup {d[c] : c \in DOMAIN d})
Merge(existing, overrides) ==
    [c \in Criteria |-> CASE c \in DOMAIN overrides -> overrides[c]
                          [] c \in DOMAIN existing  -> existing[c]
                          [] OTHER                  -> 0]

\* set_rating merges the author's overrides with the detail it reads;
\* suggest_rating takes the classifier's answer for every category.
StartRating(h, b, who, overrides) ==
    /\ MayEdit(who, b)
    /\ Asked(h, [Asking("rate", b, who) EXCEPT !.ask = Merge(detail[b], overrides)])
    /\ UNCHANGED <<manuscript, ratings, sales>>

\* The classifier is not there or its answer is not valid.
SuggestFails(h) ==
    /\ bookRequest[h].op = "rate" /\ bookRequest[h].step = "read"
    /\ Done(h)
    /\ UNCHANGED <<manuscript, ratings, sales>>

\* set_content_rating loads the row ...
LoadRating(h) ==
    LET q == bookRequest[h] IN
    /\ q.op = "rate" /\ q.step = "read"
    /\ bookRequest' = [bookRequest EXCEPT ![h].step = "loaded", ![h].tier = rating[q.b]]
    /\ UNCHANGED <<manuscript, ratings, sales>>

\* ... and updates the columns that differ from what it loaded.
WriteRating(h) ==
    LET q == bookRequest[h]
        new == OverallRating(q.ask)
    IN
    /\ q.op = "rate" /\ q.step = "loaded"
    /\ rating' = IF new = q.tier THEN rating ELSE [rating EXCEPT ![q.b] = new]
    /\ detail' = [detail EXCEPT ![q.b] = q.ask]
    /\ Done(h)
    /\ UNCHANGED <<manuscript, sales>>

-----------------------------------------------------------------------------
(* Reading *)

VerifiedTier(who) == IF who = Anonymous THEN 0 ELSE verified[who]
AgeAllows(who, b, tier) == VerifiedTier(who) >= tier \/ MayEdit(who, b)
Owned(who, b) == <<who, b>> \in paid

StartReading(h, b, who, op) ==
    /\ author[b] # NoBook
    /\ Asked(h, [Asking(op, b, who) EXCEPT !.tier = rating[b], !.free = b \notin forSale])
    /\ UNCHANGED <<manuscript, ratings, sales>>

\* get_content: everyone but the author needs a tier as high as the book's.
PassAgeGate(h) ==
    LET q == bookRequest[h] IN
    /\ q.op \in {"content", "epub"} /\ q.step = "read"
    /\ IF AgeAllows(q.who, q.b, q.tier)
       THEN bookRequest' = [bookRequest EXCEPT ![h].step = "loaded"]
       ELSE Done(h)
    /\ UNCHANGED <<manuscript, ratings, sales>>

ReadOn(h, step) == bookRequest' = [bookRequest EXCEPT ![h].step = step]
Sale(q) == <<q.who, q.b>>
Reading(h, step) == bookRequest[h].op \in {"content", "epub"} /\ bookRequest[h].step = step

\* orders.owns: an EPUB is refused to who has not bought it, unless the book
\* is free or that reader's own.
CheckOwned(h) ==
    LET q == bookRequest[h] IN
    /\ Reading(h, "loaded")
    /\ IF Owned(q.who, q.b) THEN ReadOn(h, "owned")
       ELSE IF q.op = "content" \/ q.free \/ MayEdit(q.who, q.b) THEN ReadOn(h, "answering")
       ELSE Done(h)
    /\ UNCHANGED <<manuscript, ratings, sales>>

\* mark_delivered, committed before the answer is built; it touches PAID
\* orders alone, and is best effort.
MarkDelivered(h) ==
    LET q == bookRequest[h] IN
    /\ Reading(h, "owned")
    /\ delivered' \in {delivered, delivered \cup ({Sale(q)} \cap paid)}
    /\ ReadOn(h, "recorded")
    /\ UNCHANGED <<manuscript, ratings, forSale, paid, verified, hasRead, cutOff>>

\* The full text goes to a buyer, to everyone if it is free, and as an EPUB
\* to the author; others get a preview.
AnswerReader(h) ==
    LET q == bookRequest[h]
        full == q.step = "recorded" \/ q.free \/ q.op = "epub"
    IN
    /\ Reading(h, "recorded") \/ Reading(h, "answering")
    /\ hasRead' = IF full /\ q.who # Anonymous THEN hasRead \cup {Sale(q)} ELSE hasRead
    /\ Done(h)
    /\ UNCHANGED <<manuscript, ratings, forSale, paid, verified, delivered, cutOff>>

\* build_epub raises, the process dies or the connection breaks.
ReaderIsCutOff(h) ==
    LET q == bookRequest[h] IN
    /\ \E step \in {"owned", "recorded", "answering"} : Reading(h, step)
    /\ cutOff' = IF q.step = "recorded" THEN cutOff \cup ({Sale(q)} \cap delivered) ELSE cutOff
    /\ Done(h)
    /\ UNCHANGED <<manuscript, ratings, forSale, paid, verified, delivered, hasRead>>

\* Catalog, billing and the verification of ages.
OthersChange ==
    /\ \/ \E b \in Books : forSale' = forSale \cup {b} /\ UNCHANGED <<paid, verified, delivered>>
       \/ \E a \in Accounts, b \in forSale :
            /\ verified[a] >= rating[b]
            /\ paid' = paid \cup {<<a, b>>} /\ UNCHANGED <<forSale, verified, delivered>>
       \/ \E o \in paid : /\ paid' = paid \ {o} /\ delivered' = delivered \ {o}
                          /\ UNCHANGED <<forSale, verified>>
       \/ \E a \in Accounts : /\ verified' = [verified EXCEPT ![a] = TopTier]
                              /\ UNCHANGED <<forSale, paid, delivered>>
    /\ UNCHANGED <<manuscript, ratings, hasRead, cutOff, bookRequest>>

BooksNext ==
    \/ \E b \in Books, who \in Visitors :
        \/ CreateBook(b, who)
        \/ \E limit \in PreviewLimits : SetPreviewLimit(b, who, limit)
        \/ \E h \in BookHandlers :
            \/ StartImport(h, b, who) \/ StartReplace(h, b, who)
            \/ \E overrides \in Overrides : StartRating(h, b, who, overrides)
            \/ \E op \in {"content", "epub"} : StartReading(h, b, who, op)
    \/ \E h \in BookHandlers :
        \/ FinishImport(h) \/ SuggestFails(h) \/ LoadRating(h) \/ WriteRating(h) \/ PassAgeGate(h)
        \/ CheckOwned(h) \/ MarkDelivered(h) \/ AnswerReader(h) \/ ReaderIsCutOff(h)
        \/ \E n \in 0..MaxChapters : FinishReplace(h, n)
    \/ OthersChange

BooksSpec == BooksInit /\ [][BooksNext]_bookVars

-----------------------------------------------------------------------------
(* Properties *)

\* A text is stored whole or not at all, whatever imports and replacements of
\* the manuscript run at the same time: replace_content and
\* add_chapter_with_blocks are one transaction each, and a replacement
\* deletes all the chapters it read.
UploadsAreWhole ==
    \A b \in Books : \A c \in chapters[b] : Cardinality({d \in chapters[b] : d.upload = c.upload}) = c.of

\* A purchase counts as delivered, which ends the right to withdraw and lets
\* the share be paid out, only for a buyer who got the full text or whose
\* answer is the next thing to be built: not when a rating raised after the
\* purchase shuts the buyer out.  mark_delivered commits before the answer is
\* built, so an answer that fails then leaves a delivery nobody read: cutOff.
DeliveredHasRead ==
    \A o \in delivered : \/ o \in hasRead \cup cutOff
                         \/ \E h \in BookHandlers : Reading(h, "recorded") /\ Sale(bookRequest[h]) = o

\* What the author stored and the reader got.
BooksSafety == UploadsAreWhole /\ DeliveredHasRead
=============================================================================
