----------------------------- MODULE BooksProofs -----------------------------
(***************************************************************************)
(* The way of a book on the server, for any number of books, requests and  *)
(* uploads: its manuscript, its publication, and the studio's documents.   *)
(***************************************************************************)
EXTENDS Books, Catalog, Documents, FiniteSetTheorems, FunctionTheorems, TLAPS

-----------------------------------------------------------------------------
(* Two facts about finite sets *)

\* A non-empty set of numbers up to N has a greatest one, which Max is.
LEMMA MaxIsGreatest ==
    ASSUME NEW N \in Nat, NEW S \in SUBSET (0..N), S # {}
    PROVE  Max(S) \in S /\ \A y \in S : Max(S) >= y
  <1> DEFINE R == OpToRel(<, Nat)
             T == {n \in Nat : \E x \in S : n = N - x}
  <1>1. \A x \in S : N - x \in T
    OBVIOUS
  <1>2. T # {} /\ T \subseteq Nat
    BY <1>1
  <1>3. PICK n \in T : \A m \in T : ~(<<m, n>> \in R)
    BY <1>2, WFMin, NatLessThanWellFounded
  <1>4. \A m \in T : ~(m < n)
    BY <1>2, <1>3 DEF OpToRel
  <1>5. PICK x \in S : n = N - x
    OBVIOUS
  <1>6. \A y \in S : x >= y
    BY <1>1, <1>4, <1>5
  <1>7. QED
    BY <1>6 DEF Max

\* An upload is as many chapters as it has positions.
LEMMA UploadSize ==
    ASSUME NEW u, NEW n \in Nat
    PROVE  LET new == [upload : {u}, order : 0..(n - 1), of : {n}] IN
           IsFiniteSet(new) /\ Cardinality(new) = n
  <1> DEFINE new == [upload : {u}, order : 0..(n - 1), of : {n}]
             f == [k \in 0..(n - 1) |-> [upload |-> u, order |-> k, of |-> n]]
  <1>1. f \in [0..(n - 1) -> new] /\ \A a, b \in 0..(n - 1) : f[a] = f[b] => a = b
    OBVIOUS
  <1>2. \A t \in new : \E k \in 0..(n - 1) : f[k] = t
    OBVIOUS
  <1>3. f \in Bijection(0..(n - 1), new)
    BY <1>1, <1>2, Fun_IsBij
  <1>4. IsFiniteSet(0..(n - 1)) /\ Cardinality(0..(n - 1)) = n
    BY FS_Interval
  <1>5. QED
    BY <1>3, <1>4, FS_Bijection DEF ExistsBijection

-----------------------------------------------------------------------------
(* Manuscripts *)

\* What a request read is as it was stored: with a chapter of an upload it
\* has all of them that are still there.  Only an account owns a book.
SoundReads ==
    {q \in BookRequest :
        /\ q.op = "rate" => q.ask \in [Criteria -> Tiers]
        /\ q.step \in {"owned", "recorded"} => q.who \in Accounts
        /\ \A c \in q.seen : /\ c.upload <= uploads[q.b]
                             /\ \A d \in chapters[q.b] : d.upload = c.upload => d \in q.seen}
StoredUploads ==
    \A b \in Books : IsFiniteSet(chapters[b]) /\ \A c \in chapters[b] : c.upload <= uploads[b]

BooksInv ==
    /\ BooksTypeOK /\ StoredUploads /\ UploadsAreWhole /\ DeliveredHasRead
    /\ bookRequest \in [BookHandlers -> SoundReads]

LEMMA BooksBounds ==
    /\ Books # {} /\ IsFiniteSet(Criteria) /\ TopTier \in Nat /\ MaxUpload \in Nat /\ MaxChapters \in Nat \ {0}
    /\ DefaultPreview \in Nat /\ PreviewLimits \subseteq Int
  BY BooksAssumption

LEMMA AnonymousHasNoAccount == Anonymous \notin Accounts
  BY BooksAssumption DEF Anonymous

LEMMA UnratedIs == Unrated \in Overrides /\ DOMAIN Unrated = {}
  <1>1. Unrated \in [{} -> Tiers] /\ DOMAIN Unrated = {}
    BY DEF Unrated
  <1>2. QED
    BY <1>1 DEF Overrides

LEMMA ReadsMade ==
    ASSUME NEW op \in {"import", "replace", "rate", "content", "epub"}, NEW b \in Books, NEW who \in Visitors
    PROVE  /\ Asking(op, b, who) \in SoundReads \/ op = "rate"
           /\ Asking(op, b, who) \in BookRequest
           /\ Asking(op, b, who).op = op /\ Asking(op, b, who).b = b /\ Asking(op, b, who).seen = {}
           /\ Asking(op, b, who).who = who /\ Asking(op, b, who).step = "read"
           /\ IdleBookRequest \in SoundReads /\ IdleBookRequest \in SoundReads'
           /\ IdleBookRequest \in BookRequest
  <1>1. IdleBookRequest \in BookRequest /\ IdleBookRequest.op = "idle" /\ IdleBookRequest.seen = {}
        /\ IdleBookRequest.step = "idle"
    <2>1. 0 \in Tiers /\ {} \in SUBSET Chapter /\ Anonymous \in Visitors /\ (CHOOSE x \in Books : TRUE) \in Books
      BY BooksBounds DEF Tiers, Visitors
    <2>2. QED
      BY <2>1, UnratedIs DEF IdleBookRequest, BookRequest, ReadingSteps
  <1>2. /\ Asking(op, b, who) \in BookRequest
        /\ Asking(op, b, who).op = op /\ Asking(op, b, who).b = b /\ Asking(op, b, who).seen = {}
        /\ Asking(op, b, who).who = who /\ Asking(op, b, who).step = "read"
    BY <1>1 DEF Asking, BookRequest, ReadingSteps
  <1>3. QED
    BY <1>1, <1>2 DEF SoundReads

LEMMA IdleReads == IdleBookRequest \in SoundReads /\ IdleBookRequest \in SoundReads'
  <1>1. PICK b \in Books : TRUE
    BY BooksBounds
  <1>2. Anonymous \in Visitors
    BY DEF Visitors
  <1>3. QED
    BY <1>1, <1>2, ReadsMade

\* What was delivered was read, or cut off, or is about to be answered, unless
\* the request that was about to answer ends without either.
LEMMA DeliveriesStay ==
    ASSUME BooksInv, NEW h \in BookHandlers, NEW q, bookRequest' = [bookRequest EXCEPT ![h] = q],
           delivered' \subseteq delivered, hasRead \subseteq hasRead', cutOff \subseteq cutOff',
           Reading(h, "recorded") /\ Sale(bookRequest[h]) \in delivered' => Sale(bookRequest[h]) \in hasRead' \cup cutOff'
    PROVE  DeliveredHasRead'
  <1> SUFFICES ASSUME NEW o \in delivered', o \notin hasRead' \cup cutOff'
               PROVE  \E g \in BookHandlers : Reading(g, "recorded")' /\ Sale(bookRequest'[g]) = o
    BY DEF DeliveredHasRead
  <1>1. PICK g \in BookHandlers : Reading(g, "recorded") /\ Sale(bookRequest[g]) = o
    BY DEF BooksInv, DeliveredHasRead
  <1>2. g # h
    BY <1>1
  <1>3. bookRequest'[g] = bookRequest[g]
    BY <1>2 DEF BooksInv
  <1>4. QED
    BY <1>1, <1>3 DEF Reading, Sale

\* The same of a step that leaves the requests as they are.
LEMMA DeliveriesRest ==
    ASSUME BooksInv, UNCHANGED <<bookRequest, hasRead, cutOff>>, delivered' \subseteq delivered
    PROVE  DeliveredHasRead'
  BY DEF BooksInv, DeliveredHasRead, Reading, Sale

\* The parts a step on requests alone leaves alone.
LEMMA OnlyReads ==
    ASSUME BooksInv, UNCHANGED <<manuscript, ratings, sales>>,
           NEW h \in BookHandlers, NEW q \in SoundReads, bookRequest' = [bookRequest EXCEPT ![h] = q],
           ~Reading(h, "recorded")
    PROVE  BooksInv'
  <1> USE DEF manuscript, ratings, sales
  <1>1. SoundReads' = SoundReads
    BY DEF SoundReads
  <1>2. bookRequest' \in [BookHandlers -> SoundReads']
    BY <1>1 DEF BooksInv
  <1>3. bookRequest' \in [BookHandlers -> BookRequest]
    BY <1>2 DEF SoundReads
  <1>4. BooksTypeOK'
    BY <1>3 DEF BooksInv, BooksTypeOK
  <1>5. StoredUploads' /\ UploadsAreWhole' /\ DeliveredHasRead'
    BY DeliveriesStay DEF BooksInv, StoredUploads, UploadsAreWhole
  <1>6. QED
    BY <1>2, <1>4, <1>5 DEF BooksInv

\* An upload is stored whole: what it replaces is whole uploads, and a request
\* that read before has nothing of it.
LEMMA UploadStored ==
    ASSUME BooksInv, NEW b \in Books, NEW n \in 0..MaxChapters, NEW seen \in SUBSET Chapter, NEW new,
           chapters' \in [Books -> SUBSET Chapter], uploads' \in [Books -> 0..MaxUpload],
           uploads'[b] = uploads[b] + 1, chapters'[b] = (chapters[b] \ seen) \cup new,
           \A a \in Books : a # b => chapters'[a] = chapters[a] /\ uploads'[a] = uploads[a],
           \A c \in seen, d \in chapters[b] : d.upload = c.upload => d \in seen,
           new \in SUBSET Chapter, IsFiniteSet(new), Cardinality(new) = n,
           \A c \in new : c.upload = uploads[b] + 1 /\ c.of = n
    PROVE  StoredUploads' /\ UploadsAreWhole' /\ SoundReads \subseteq SoundReads'
  <1>1. /\ chapters \in [Books -> SUBSET Chapter] /\ uploads \in [Books -> 0..MaxUpload]
        /\ uploads[b] \in Nat
        /\ \A c \in Chapter : c.upload \in Nat /\ c.of \in Nat
    BY BooksBounds DEF BooksInv, BooksTypeOK, Chapter
  <1>3. \A c \in chapters[b] : c \in Chapter /\ c.upload <= uploads[b] /\ c.upload # uploads[b] + 1
    BY <1>1 DEF BooksInv, StoredUploads
  <1>4. StoredUploads'
    <2>1. IsFiniteSet(chapters[b] \ seen)
      BY FS_Difference DEF BooksInv, StoredUploads
    <2>2. IsFiniteSet(chapters'[b])
      <3>1. IsFiniteSet((chapters[b] \ seen) \cup new)
        BY <2>1, FS_Union
      <3>2. QED
        BY <3>1
    <2>3. \A c \in chapters'[b] : c.upload <= uploads'[b]
      BY <1>1, <1>3
    <2>4. QED
      BY <2>2, <2>3 DEF BooksInv, StoredUploads
  <1>5. UploadsAreWhole'
    <2>1. ASSUME NEW a \in Books, NEW c \in chapters'[a]
          PROVE  Cardinality({d \in chapters'[a] : d.upload = c.upload}) = c.of
      <3>1. CASE a # b
        BY <2>1, <3>1 DEF BooksInv, UploadsAreWhole
      <3>2. CASE a = b /\ c \in new
        <4>1. {d \in chapters'[a] : d.upload = c.upload} = new
          BY <1>3, <3>2
        <4>2. QED
          BY <3>2, <4>1
      <3>3. CASE a = b /\ c \in chapters[b] \ seen
        <4>1. {d \in chapters'[a] : d.upload = c.upload} = {d \in chapters[a] : d.upload = c.upload}
          BY <1>3, <3>3
        <4>2. QED
          BY <3>3, <4>1 DEF BooksInv, UploadsAreWhole
      <3>4. QED
        BY <2>1, <3>1, <3>2, <3>3
    <2>2. QED
      BY <2>1 DEF UploadsAreWhole
  <1>6. ASSUME NEW q \in SoundReads
        PROVE  q \in SoundReads'
    <2>1. q \in BookRequest /\ q.b \in Books /\ q.seen \subseteq Chapter
      BY DEF SoundReads, BookRequest
    <2>2. ASSUME NEW c \in q.seen
          PROVE  c.upload <= uploads'[q.b] /\ \A d \in chapters'[q.b] : d.upload = c.upload => d \in q.seen
      <3>1. c.upload \in Nat /\ c.upload <= uploads[q.b] /\ uploads[q.b] \in Nat
            /\ \A d \in chapters[q.b] : d.upload = c.upload => d \in q.seen
        BY <1>1, <2>1 DEF SoundReads
      <3>2. CASE q.b # b
        BY <2>1, <3>1, <3>2
      <3>3. CASE q.b = b
        BY <1>1, <3>1, <3>3
      <3>4. QED
        BY <3>2, <3>3
    <2>3. QED
      BY <2>1, <2>2 DEF SoundReads
  <1>7. QED
    BY <1>4, <1>5, <1>6

LEMMA TextStored ==
    ASSUME BooksInv, NEW h \in BookHandlers,
           FinishImport(h) \/ \E n \in 0..MaxChapters : FinishReplace(h, n)
    PROVE  BooksInv'
  <1> USE DEF ratings, sales
  <1> DEFINE q == bookRequest[h]
  <1>1. /\ q.b \in Books /\ q.seen \in SUBSET Chapter /\ q.order \in Nat
        /\ \A c \in q.seen, d \in chapters[q.b] : d.upload = c.upload => d \in q.seen
        /\ uploads[q.b] \in 0..MaxUpload /\ chapters[q.b] \in SUBSET Chapter
    BY DEF BooksInv, BooksTypeOK, SoundReads, BookRequest
  <1>2. /\ chapters' \in [Books -> SUBSET Chapter] /\ uploads' \in [Books -> 0..MaxUpload]
        /\ StoredUploads' /\ UploadsAreWhole' /\ SoundReads \subseteq SoundReads'
    <2>1. CASE FinishImport(h)
      <3> DEFINE c == [upload |-> uploads[q.b] + 1, order |-> q.order, of |-> 1]
      <3>1. PICK b \in Books : b = q.b
        BY <1>1
      <3>2. uploads[b] < MaxUpload /\ uploads' = [uploads EXCEPT ![b] = @ + 1]
            /\ chapters' = [chapters EXCEPT ![b] = @ \cup {[upload |-> uploads'[b], order |-> q.order, of |-> 1]}]
        BY <2>1, <3>1 DEF FinishImport
      <3>3. uploads'[b] = uploads[b] + 1
        BY <3>2 DEF BooksInv, BooksTypeOK
      <3>4. chapters' = [chapters EXCEPT ![b] = (chapters[b] \ {}) \cup {c}]
        BY <3>1, <3>2, <3>3
      <3>5. PICK n \in 0..MaxChapters : n = 1
        BY BooksBounds
      <3>6. c \in Chapter
        BY <1>1, <3>1, <3>2, BooksBounds DEF Chapter
      <3>7. IsFiniteSet({c}) /\ Cardinality({c}) = 1 /\ c.upload = uploads[b] + 1 /\ c.of = 1
        BY <3>1, FS_Singleton
      <3> HIDE DEF c
      <3>8. {c} \in SUBSET Chapter /\ {} \in SUBSET Chapter
        BY <3>6
      <3>9. /\ chapters' \in [Books -> SUBSET Chapter] /\ uploads' \in [Books -> 0..MaxUpload]
            /\ uploads'[b] = uploads[b] + 1 /\ chapters'[b] = (chapters[b] \ {}) \cup {c}
            /\ \A a \in Books : a # b => chapters'[a] = chapters[a] /\ uploads'[a] = uploads[a]
        <4>1. uploads[b] + 1 \in 0..MaxUpload
          BY <1>1, <3>1, <3>2, BooksBounds
        <4>2. QED
          BY <3>2, <3>4, <3>7, <3>8, <4>1 DEF BooksInv, BooksTypeOK
      <3>10. QED
        <4>1. \A x \in {c} : x.upload = uploads[b] + 1 /\ x.of = n
          BY <3>5, <3>7
        <4>2. Cardinality({c}) = n /\ IsFiniteSet({c})
          BY <3>5, <3>7
        <4>3. PICK none \in SUBSET Chapter : none = {}
          BY <3>8
        <4>4. \A x \in none, d \in chapters[b] : d.upload = x.upload => d \in none
          BY <4>3
        <4>5. chapters'[b] = (chapters[b] \ none) \cup {c}
          BY <3>9, <4>3
        <4>6. PICK new \in SUBSET Chapter : new = {c}
          BY <3>8
        <4>7. QED
          BY <3>9, <4>1, <4>2, <4>4, <4>5, <4>6, UploadStored
    <2>2. ASSUME NEW n \in 0..MaxChapters, FinishReplace(h, n)
          PROVE  /\ chapters' \in [Books -> SUBSET Chapter] /\ uploads' \in [Books -> 0..MaxUpload]
                 /\ StoredUploads' /\ UploadsAreWhole' /\ SoundReads \subseteq SoundReads'
      <3> DEFINE u == uploads[q.b] + 1
                 new == [upload : {u}, order : 0..(n - 1), of : {n}]
      <3>1. PICK b \in Books : b = q.b
        BY <1>1
      <3>2. uploads[b] < MaxUpload /\ uploads' = [uploads EXCEPT ![b] = @ + 1]
            /\ chapters' = [chapters EXCEPT ![b] = (chapters[b] \ q.seen) \cup
                               [upload : {uploads'[b]}, order : 0..(n - 1), of : {n}]]
        BY <2>2, <3>1 DEF FinishReplace, DropSeen
      <3>3. uploads'[b] = u
        BY <3>1, <3>2 DEF BooksInv, BooksTypeOK
      <3>4. chapters' = [chapters EXCEPT ![b] = (chapters[b] \ q.seen) \cup new]
        BY <3>2, <3>3
      <3>5. \A c \in new : c.upload = u /\ c.of = n
        OBVIOUS
      <3>6. new \in SUBSET Chapter
        <4>1. \A k \in 0..(n - 1) : k \in Nat /\ n \in 1..MaxChapters
          BY BooksBounds
        <4>2. u \in 1..MaxUpload
          BY <1>1, <3>1, <3>2, BooksBounds
        <4> HIDE DEF u
        <4>3. \A c \in new : c \in Chapter
          BY <4>1, <4>2 DEF Chapter
        <4>4. QED
          BY <4>3
      <3>7. IsFiniteSet(new) /\ Cardinality(new) = n
        <4>1. n \in Nat
          BY BooksBounds
        <4>2. QED
          BY <4>1, UploadSize
      <3> HIDE DEF new
      <3>8. /\ chapters' \in [Books -> SUBSET Chapter] /\ uploads' \in [Books -> 0..MaxUpload]
            /\ uploads'[b] = uploads[b] + 1 /\ chapters'[b] = (chapters[b] \ q.seen) \cup new
            /\ \A a \in Books : a # b => chapters'[a] = chapters[a] /\ uploads'[a] = uploads[a]
        <4>1. uploads[b] + 1 \in 0..MaxUpload
          BY <1>1, <3>1, <3>2, BooksBounds
        <4>2. QED
          BY <3>2, <3>4, <3>5, <3>6, <3>7, <4>1 DEF BooksInv, BooksTypeOK
      <3>9. QED
        <4>1. \A c \in new : c.upload = uploads[b] + 1 /\ c.of = n
          BY <3>1, <3>5
        <4>2. \A c \in q.seen, d \in chapters[b] : d.upload = c.upload => d \in q.seen
          BY <1>1, <3>1
        <4>3. q.seen \in SUBSET Chapter
          BY <1>1
        <4> HIDE DEF q
        <4>4. QED
          BY SMTT(30), <3>6, <3>7, <3>8, <4>1, <4>2, <4>3, UploadStored
    <2>3. QED
      BY <2>1, <2>2
  <1>3. bookRequest' = [bookRequest EXCEPT ![h] = IdleBookRequest]
        /\ UNCHANGED <<author, previewLimit, ratings, sales>>
    BY DEF FinishImport, FinishReplace, Done
  <1>4. bookRequest' \in [BookHandlers -> SoundReads']
    BY <1>2, <1>3, IdleReads DEF BooksInv
  <1>5. bookRequest' \in [BookHandlers -> BookRequest]
    BY <1>4 DEF SoundReads
  <1>6. DeliveredHasRead'
    <2>1. ~Reading(h, "recorded")
      BY DEF FinishImport, FinishReplace, Reading
    <2>2. QED
      BY <1>3, <2>1, DeliveriesStay
  <1>7. BooksTypeOK'
    BY <1>2, <1>3, <1>5 DEF BooksInv, BooksTypeOK
  <1>8. QED
    BY <1>2, <1>4, <1>6, <1>7 DEF BooksInv

\* The steps of a request that only read.
LEMMA ReadingGoesOn ==
    ASSUME BooksInv, NEW h \in BookHandlers,
           \/ \E b \in Books, who \in Visitors :
                \/ StartImport(h, b, who) \/ StartReplace(h, b, who)
                \/ \E overrides \in Overrides : StartRating(h, b, who, overrides)
                \/ \E op \in {"content", "epub"} : StartReading(h, b, who, op)
           \/ SuggestFails(h) \/ LoadRating(h) \/ PassAgeGate(h) \/ CheckOwned(h)
    PROVE  BooksInv'
  <1>1. /\ chapters \in [Books -> SUBSET Chapter] /\ rating \in [Books -> Tiers]
        /\ detail \in [Books -> {Unrated} \cup [Criteria -> Tiers]]
        /\ bookRequest[h] \in SoundReads /\ bookRequest[h] \in BookRequest /\ bookRequest[h].b \in Books
    BY DEF BooksInv, BooksTypeOK, SoundReads, BookRequest
  <1> ~Reading(h, "recorded")
    <2>1. IdleBookRequest.op = "idle"
      BY DEF IdleBookRequest
    <2>2. CASE bookRequest[h] = IdleBookRequest
      BY <2>1, <2>2 DEF Reading
    <2>3. CASE SuggestFails(h) \/ LoadRating(h) \/ PassAgeGate(h) \/ CheckOwned(h)
      BY <2>3 DEF SuggestFails, LoadRating, PassAgeGate, CheckOwned, Reading
    <2>4. QED
      BY <2>2, <2>3 DEF StartImport, StartReplace, StartRating, StartReading, Asked
  <1>2. ASSUME NEW b \in Books, NEW who \in Visitors, StartImport(h, b, who)
        PROVE  BooksInv'
    <2> DEFINE q == [Asking("import", b, who) EXCEPT !.order = Cardinality(chapters[b])]
    <2>1. Cardinality(chapters[b]) \in Nat
      BY FS_CardinalityType DEF BooksInv, StoredUploads
    <2>2. q \in SoundReads
      BY <2>1, ReadsMade DEF SoundReads, BookRequest
    <2>3. bookRequest' = [bookRequest EXCEPT ![h] = q] /\ UNCHANGED <<manuscript, ratings, sales>>
      BY <1>2 DEF StartImport, Asked
    <2>4. QED
      BY <2>2, <2>3, OnlyReads
  <1>3. ASSUME NEW b \in Books, NEW who \in Visitors, StartReplace(h, b, who)
        PROVE  BooksInv'
    <2> DEFINE q == [Asking("replace", b, who) EXCEPT !.seen = chapters[b]]
    <2>1. q \in BookRequest /\ q.op = "replace" /\ q.b = b /\ q.seen = chapters[b] /\ q.step = "read"
      BY <1>1, ReadsMade DEF BookRequest
    <2>2. bookRequest' = [bookRequest EXCEPT ![h] = q] /\ UNCHANGED <<manuscript, ratings, sales>>
      BY <1>3 DEF StartReplace, Asked
    <2> HIDE DEF q
    <2>3. q \in SoundReads
      BY <2>1 DEF SoundReads, BooksInv, StoredUploads
    <2>4. QED
      BY <2>2, <2>3, OnlyReads
  <1>4. ASSUME NEW b \in Books, NEW who \in Visitors, NEW overrides \in Overrides, StartRating(h, b, who, overrides)
        PROVE  BooksInv'
    <2> DEFINE q == [Asking("rate", b, who) EXCEPT !.ask = Merge(detail[b], overrides)]
    <2>1. Merge(detail[b], overrides) \in [Criteria -> Tiers]
      <3>1. \A c \in DOMAIN overrides : overrides[c] \in Tiers
        BY DEF Overrides
      <3>2. \A c \in DOMAIN detail[b] : detail[b][c] \in Tiers
        BY <1>1, UnratedIs
      <3>3. 0 \in Tiers
        BY BooksBounds DEF Tiers
      <3>4. QED
        BY <3>1, <3>2, <3>3 DEF Merge
    <2>2. q \in BookRequest /\ q.op = "rate" /\ q.seen = {} /\ q.ask = Merge(detail[b], overrides) /\ q.step = "read"
      <3>1. Merge(detail[b], overrides) \in Overrides
        BY <2>1 DEF Overrides
      <3>2. QED
        BY <3>1, ReadsMade DEF BookRequest
    <2>3. bookRequest' = [bookRequest EXCEPT ![h] = q] /\ UNCHANGED <<manuscript, ratings, sales>>
      BY <1>4 DEF StartRating, Asked
    <2> HIDE DEF q
    <2>4. q \in SoundReads
      BY <2>1, <2>2 DEF SoundReads
    <2>5. QED
      BY <2>3, <2>4, OnlyReads
  <1>5. ASSUME NEW b \in Books, NEW who \in Visitors, NEW op \in {"content", "epub"}, StartReading(h, b, who, op)
        PROVE  BooksInv'
    <2> DEFINE q == [Asking(op, b, who) EXCEPT !.tier = rating[b], !.free = b \notin forSale]
    <2>1. q \in SoundReads
      <3>1. rating[b] \in Tiers /\ (b \notin forSale) \in BOOLEAN
        BY <1>1
      <3>2. Asking(op, b, who) \in BookRequest /\ Asking(op, b, who).op = op /\ Asking(op, b, who).seen = {}
              /\ Asking(op, b, who).step = "read"
        BY ReadsMade
      <3>3. q \in BookRequest /\ q.op = op /\ q.seen = {} /\ q.step = "read"
        BY <3>1, <3>2 DEF BookRequest
      <3>4. QED
        BY <3>3 DEF SoundReads
    <2>2. bookRequest' = [bookRequest EXCEPT ![h] = q] /\ UNCHANGED <<manuscript, ratings, sales>>
      BY <1>5 DEF StartReading, Asked
    <2>3. QED
      BY <2>1, <2>2, OnlyReads
  <1>6. CASE SuggestFails(h)
    BY <1>6, IdleReads, OnlyReads DEF SuggestFails, Done
  <1>7. CASE LoadRating(h)
    <2> DEFINE q == [bookRequest[h] EXCEPT !.step = "loaded", !.tier = rating[bookRequest[h].b]]
    <2>1. q \in BookRequest /\ q.op = bookRequest[h].op /\ q.seen = bookRequest[h].seen
          /\ q.b = bookRequest[h].b /\ q.ask = bookRequest[h].ask /\ q.step = "loaded"
      BY <1>1 DEF BookRequest, ReadingSteps
    <2>2. bookRequest' = [bookRequest EXCEPT ![h] = q] /\ UNCHANGED <<manuscript, ratings, sales>>
      BY <1>7 DEF LoadRating
    <2> HIDE DEF q
    <2>3. q \in SoundReads
      BY <1>1, <2>1 DEF SoundReads
    <2>4. QED
      BY <2>2, <2>3, OnlyReads
  <1>8. CASE PassAgeGate(h)
    <2> DEFINE q == [bookRequest[h] EXCEPT !.step = "loaded"]
    <2>1. q \in BookRequest /\ q.op = bookRequest[h].op /\ q.seen = bookRequest[h].seen
          /\ q.b = bookRequest[h].b /\ q.ask = bookRequest[h].ask /\ q.step = "loaded"
      BY <1>1 DEF BookRequest, ReadingSteps
    <2>2. UNCHANGED <<manuscript, ratings, sales>>
          /\ (bookRequest' = [bookRequest EXCEPT ![h] = q] \/ bookRequest' = [bookRequest EXCEPT ![h] = IdleBookRequest])
      BY <1>8 DEF PassAgeGate, Done
    <2> HIDE DEF q
    <2>3. q \in SoundReads
      BY <1>1, <2>1 DEF SoundReads
    <2>4. QED
      BY <2>2, <2>3, IdleReads, OnlyReads
  <1>9. CASE CheckOwned(h)
    <2>1. ASSUME NEW step \in {"owned", "answering"}, step = "owned" => bookRequest[h].who \in Accounts
          PROVE  [bookRequest[h] EXCEPT !.step = step] \in SoundReads
      <3> DEFINE q == [bookRequest[h] EXCEPT !.step = step]
      <3>1. q \in BookRequest /\ q.op = bookRequest[h].op /\ q.seen = bookRequest[h].seen
            /\ q.b = bookRequest[h].b /\ q.ask = bookRequest[h].ask /\ q.step = step /\ q.who = bookRequest[h].who
        BY <1>1 DEF BookRequest, ReadingSteps
      <3> HIDE DEF q
      <3>2. q \in SoundReads
        BY <1>1, <2>1, <3>1 DEF SoundReads
      <3>3. QED
        BY <3>2 DEF q
    <2>2. Owned(bookRequest[h].who, bookRequest[h].b) => bookRequest[h].who \in Accounts
      BY DEF Owned, BooksInv, BooksTypeOK
    <2>3. UNCHANGED <<manuscript, ratings, sales>>
          /\ \/ bookRequest' = [bookRequest EXCEPT ![h] = IdleBookRequest]
             \/ \E step \in {"owned", "answering"} :
                  /\ step = "owned" => bookRequest[h].who \in Accounts
                  /\ bookRequest' = [bookRequest EXCEPT ![h] = [bookRequest[h] EXCEPT !.step = step]]
      BY <1>9, <2>2 DEF CheckOwned, Done, ReadOn
    <2>4. QED
      BY <2>1, <2>3, IdleReads, OnlyReads
  <1>10. QED
    BY <1>2, <1>3, <1>4, <1>5, <1>6, <1>7, <1>8, <1>9

\* Steps that store no text.
LEMMA NoTextStored ==
    ASSUME BooksInv, UNCHANGED <<chapters, uploads>>, bookRequest' \in [BookHandlers -> SoundReads]
    PROVE  /\ StoredUploads' /\ UploadsAreWhole' /\ bookRequest' \in [BookHandlers -> SoundReads']
           /\ bookRequest' \in [BookHandlers -> BookRequest]
  <1>1. SoundReads' = SoundReads
    BY DEF SoundReads
  <1>2. bookRequest' \in [BookHandlers -> BookRequest]
    BY DEF SoundReads
  <1>3. QED
    BY <1>1, <1>2 DEF BooksInv, StoredUploads, UploadsAreWhole

LEMMA RowsOfBooksChange ==
    ASSUME BooksInv,
           \/ \E b \in Books, who \in Visitors :
                CreateBook(b, who) \/ \E limit \in PreviewLimits : SetPreviewLimit(b, who, limit)
           \/ OthersChange
    PROVE  BooksInv'
  <1> USE DEF manuscript, ratings, sales
  <1>1. UNCHANGED <<chapters, uploads, bookRequest>>
    BY DEF CreateBook, SetPreviewLimit, OthersChange
  <1>2. StoredUploads' /\ UploadsAreWhole' /\ bookRequest' \in [BookHandlers -> SoundReads']
        /\ bookRequest' \in [BookHandlers -> BookRequest]
    BY <1>1, NoTextStored DEF BooksInv
  <1>3. ASSUME NEW b \in Books, NEW who \in Visitors, CreateBook(b, who)
        PROVE  BooksTypeOK' /\ DeliveredHasRead'
    BY <1>2, <1>3, DeliveriesRest DEF CreateBook, BooksInv, BooksTypeOK
  <1>4. ASSUME NEW b \in Books, NEW who \in Visitors, NEW limit \in PreviewLimits, SetPreviewLimit(b, who, limit)
        PROVE  BooksTypeOK' /\ DeliveredHasRead'
    <2>1. Max({0, limit}) \in Nat
      <3>1. limit \in Int
        BY BooksBounds
      <3>2. \E x \in {0, limit} : \A y \in {0, limit} : x >= y
        BY <3>1
      <3>3. Max({0, limit}) \in {0, limit} /\ \A y \in {0, limit} : Max({0, limit}) >= y
        BY <3>2 DEF Max
      <3>4. QED
        BY <3>1, <3>3
    <2>2. QED
      BY <1>2, <1>4, <2>1, DeliveriesRest DEF SetPreviewLimit, BooksInv, BooksTypeOK
  <1>5. CASE OthersChange
    <2>1. UNCHANGED <<author, previewLimit, rating, detail, hasRead, cutOff>> /\ delivered' \subseteq delivered
      BY <1>5 DEF OthersChange
    <2>2. forSale' \subseteq Books /\ paid' \subseteq Accounts \X Books /\ verified' \in [Accounts -> Tiers]
      <3>1. TopTier \in Tiers
        BY BooksBounds DEF Tiers
      <3>2. QED
        BY <1>5, <3>1 DEF OthersChange, BooksInv, BooksTypeOK
    <2>3. QED
      BY <1>1, <1>2, <2>1, <2>2, DeliveriesRest DEF BooksInv, BooksTypeOK
  <1>6. BooksTypeOK' /\ DeliveredHasRead'
    BY <1>3, <1>4, <1>5 DEF BooksInv
  <1>7. QED
    BY <1>2, <1>6 DEF BooksInv

LEMMA RatingWritten ==
    ASSUME BooksInv, NEW h \in BookHandlers, WriteRating(h)
    PROVE  BooksInv'
  <1> USE DEF manuscript, sales
  <1> DEFINE q == bookRequest[h]
  <1>1. q.b \in Books /\ q.ask \in [Criteria -> Tiers]
    BY DEF WriteRating, BooksInv, SoundReads, BookRequest
  <1>2. OverallRating(q.ask) \in Tiers
    <2> DEFINE S == {0} \cup {q.ask[c] : c \in DOMAIN q.ask}
    <2>1. S \in SUBSET (0..TopTier) /\ S # {} /\ TopTier \in Nat
      BY <1>1, BooksBounds DEF Tiers
    <2> HIDE DEF S
    <2>2. Max(S) \in S
      BY <2>1, MaxIsGreatest
    <2>3. Max(S) \in Tiers
      BY <2>1, <2>2 DEF Tiers
    <2>4. QED
      BY <2>3 DEF OverallRating, S
  <1>3. bookRequest' \in [BookHandlers -> SoundReads] /\ UNCHANGED <<manuscript, sales>>
    BY IdleReads DEF WriteRating, Done, BooksInv
  <1>4. StoredUploads' /\ UploadsAreWhole' /\ bookRequest' \in [BookHandlers -> SoundReads']
        /\ bookRequest' \in [BookHandlers -> BookRequest]
    BY <1>3, NoTextStored
  <1>5. rating' \in [Books -> Tiers] /\ detail' \in [Books -> {Unrated} \cup [Criteria -> Tiers]]
    BY <1>1, <1>2 DEF WriteRating, BooksInv, BooksTypeOK
  <1>6. BooksTypeOK' /\ DeliveredHasRead'
    <2>1. ~Reading(h, "recorded") /\ bookRequest' = [bookRequest EXCEPT ![h] = IdleBookRequest]
      BY DEF WriteRating, Reading, Done
    <2>2. QED
      BY <1>3, <1>4, <1>5, <2>1, DeliveriesStay DEF BooksInv, BooksTypeOK
  <1>7. QED
    BY <1>4, <1>6 DEF BooksInv

\* A delivery is recorded by the request that is going to answer it.
LEMMA DeliveryRecorded ==
    ASSUME BooksInv, NEW h \in BookHandlers, MarkDelivered(h)
    PROVE  BooksInv'
  <1> USE DEF manuscript, ratings
  <1> DEFINE q == bookRequest[h]
             g == [q EXCEPT !.step = "recorded"]
  <1>1. q \in SoundReads /\ q \in BookRequest /\ q.op \in {"content", "epub"} /\ q.step = "owned"
        /\ q.who \in Accounts /\ paid \subseteq Accounts \X Books
    BY DEF BooksInv, BooksTypeOK, SoundReads, MarkDelivered, Reading
  <1>2. /\ g \in BookRequest /\ g.op = q.op /\ g.seen = q.seen /\ g.b = q.b /\ g.ask = q.ask /\ g.who = q.who
        /\ g.step = "recorded"
    BY <1>1 DEF BookRequest, ReadingSteps
  <1>3. /\ bookRequest' = [bookRequest EXCEPT ![h] = g]
        /\ UNCHANGED <<manuscript, ratings, forSale, paid, verified, hasRead, cutOff>>
        /\ delivered' \subseteq delivered \cup ({Sale(q)} \cap paid)
    BY DEF MarkDelivered, ReadOn
  <1> HIDE DEF g
  <1>4. g \in SoundReads
    BY <1>1, <1>2 DEF SoundReads
  <1>5. StoredUploads' /\ UploadsAreWhole' /\ bookRequest' \in [BookHandlers -> SoundReads']
        /\ bookRequest' \in [BookHandlers -> BookRequest]
    BY <1>3, <1>4, NoTextStored DEF BooksInv
  <1>6. DeliveredHasRead'
    <2> SUFFICES ASSUME NEW o \in delivered', o \notin hasRead' \cup cutOff'
                 PROVE  \E x \in BookHandlers : Reading(x, "recorded")' /\ Sale(bookRequest'[x]) = o
      BY DEF DeliveredHasRead
    <2>1. bookRequest'[h] = g
      BY <1>3 DEF BooksInv
    <2>2. CASE o = Sale(q)
      BY <1>1, <1>2, <2>1, <2>2 DEF Reading, Sale
    <2>3. CASE o # Sale(q)
      <3>1. PICK x \in BookHandlers : Reading(x, "recorded") /\ Sale(bookRequest[x]) = o
        BY <1>3, <2>3 DEF BooksInv, DeliveredHasRead
      <3>2. x # h
        BY <2>3, <3>1
      <3>3. bookRequest'[x] = bookRequest[x]
        BY <1>3, <3>2 DEF BooksInv
      <3>4. QED
        BY <3>1, <3>3 DEF Reading, Sale
    <2>4. QED
      BY <2>2, <2>3
  <1>7. BooksTypeOK'
    BY <1>1, <1>3, <1>5 DEF BooksInv, BooksTypeOK
  <1>8. QED
    BY <1>5, <1>6, <1>7 DEF BooksInv

\* The end of a request that may serve the text.
LEMMA TextServed ==
    ASSUME BooksInv, NEW h \in BookHandlers, AnswerReader(h) \/ ReaderIsCutOff(h)
    PROVE  BooksInv'
  <1> USE DEF manuscript, ratings
  <1> DEFINE q == bookRequest[h]
  <1>1. q \in SoundReads /\ q.b \in Books /\ q.who \in Accounts \cup {Anonymous}
        /\ (q.step = "recorded" => q.who \in Accounts)
    BY DEF BooksInv, SoundReads, BookRequest, Visitors
  <1>2. /\ bookRequest' = [bookRequest EXCEPT ![h] = IdleBookRequest]
        /\ UNCHANGED <<manuscript, ratings, forSale, paid, verified, delivered>>
        /\ hasRead \subseteq hasRead' /\ cutOff \subseteq cutOff'
        /\ hasRead' \subseteq hasRead \cup ({Sale(q)} \cap (Accounts \X Books))
        /\ cutOff' \subseteq cutOff \cup ({Sale(q)} \cap delivered)
    <2>1. q.who # Anonymous => Sale(q) \in Accounts \X Books
      BY <1>1 DEF Sale
    <2>2. CASE AnswerReader(h)
      BY <2>1, <2>2 DEF AnswerReader, Done
    <2>3. CASE ReaderIsCutOff(h)
      BY <2>3 DEF ReaderIsCutOff, Done
    <2>4. QED
      BY <2>2, <2>3
  <1>3. Reading(h, "recorded") /\ Sale(q) \in delivered' => Sale(q) \in hasRead' \cup cutOff'
    <2> SUFFICES ASSUME q.step = "recorded", Sale(q) \in delivered
                 PROVE  Sale(q) \in hasRead' \cup cutOff'
      BY <1>2 DEF Reading
    <2>1. q.who # Anonymous
      BY <1>1, AnonymousHasNoAccount
    <2>2. CASE AnswerReader(h)
      BY <2>1, <2>2 DEF AnswerReader
    <2>3. CASE ReaderIsCutOff(h)
      BY <2>3 DEF ReaderIsCutOff
    <2>4. QED
      BY <2>2, <2>3
  <1>4. bookRequest' \in [BookHandlers -> SoundReads]
    BY <1>2, IdleReads DEF BooksInv
  <1>5. StoredUploads' /\ UploadsAreWhole' /\ bookRequest' \in [BookHandlers -> SoundReads']
        /\ bookRequest' \in [BookHandlers -> BookRequest]
    BY <1>2, <1>4, NoTextStored
  <1>6. DeliveredHasRead'
    BY <1>2, <1>3, DeliveriesStay
  <1>7. BooksTypeOK'
    BY <1>2, <1>5 DEF BooksInv, BooksTypeOK
  <1>8. QED
    BY <1>5, <1>6, <1>7 DEF BooksInv

LEMMA BooksInvInit == BooksInit => BooksInv
  <1> SUFFICES ASSUME BooksInit PROVE BooksInv
    OBVIOUS
  <1> USE DEF BooksInit
  <1>1. bookRequest \in [BookHandlers -> SoundReads]
    BY IdleReads
  <1>2. BooksTypeOK
    <2>1. bookRequest \in [BookHandlers -> BookRequest]
      BY <1>1 DEF SoundReads
    <2>2. 0 \in Tiers /\ 0 \in 0..MaxUpload
      BY BooksBounds DEF Tiers
    <2>3. QED
      BY <2>1, <2>2, BooksBounds DEF BooksTypeOK
  <1>3. StoredUploads /\ UploadsAreWhole /\ DeliveredHasRead
    BY FS_EmptySet DEF StoredUploads, UploadsAreWhole, DeliveredHasRead
  <1>4. QED
    BY <1>1, <1>2, <1>3 DEF BooksInv

LEMMA BooksInvNext == BooksInv /\ [BooksNext]_bookVars => BooksInv'
  <1> SUFFICES ASSUME BooksInv, [BooksNext]_bookVars
               PROVE  BooksInv'
    OBVIOUS
  <1>1. CASE BooksNext
    <2>1. ASSUME NEW b \in Books, NEW who \in Visitors,
                 \/ CreateBook(b, who) \/ \E limit \in PreviewLimits : SetPreviewLimit(b, who, limit)
                 \/ \E h \in BookHandlers :
                      \/ StartImport(h, b, who) \/ StartReplace(h, b, who)
                      \/ \E overrides \in Overrides : StartRating(h, b, who, overrides)
                      \/ \E op \in {"content", "epub"} : StartReading(h, b, who, op)
          PROVE  BooksInv'
      BY <2>1, ReadingGoesOn, RowsOfBooksChange
    <2>2. ASSUME NEW h \in BookHandlers,
                 \/ FinishImport(h) \/ SuggestFails(h) \/ LoadRating(h) \/ WriteRating(h) \/ PassAgeGate(h)
                 \/ CheckOwned(h) \/ MarkDelivered(h) \/ AnswerReader(h) \/ ReaderIsCutOff(h)
                 \/ \E n \in 0..MaxChapters : FinishReplace(h, n)
          PROVE  BooksInv'
      BY <2>2, TextStored, ReadingGoesOn, RatingWritten, DeliveryRecorded, TextServed
    <2>3. QED
      BY <1>1, <2>1, <2>2, RowsOfBooksChange DEF BooksNext
  <1>2. CASE UNCHANGED bookVars
    <2>1. UNCHANGED <<chapters, uploads, bookRequest>> /\ UNCHANGED bookVars
      BY <1>2 DEF bookVars
    <2>2. StoredUploads' /\ UploadsAreWhole' /\ bookRequest' \in [BookHandlers -> SoundReads']
          /\ bookRequest' \in [BookHandlers -> BookRequest]
      BY <2>1, NoTextStored DEF BooksInv
    <2>3. QED
      BY <2>1, <2>2, DeliveriesRest DEF BooksInv, BooksTypeOK, bookVars
  <1>3. QED
    BY <1>1, <1>2

LEMMA BooksInvariant == BooksSpec => []BooksInv
  BY BooksInvInit, BooksInvNext, PTL DEF BooksSpec

\* The tables and requests of the manuscripts have the shapes the code gives them:
\* no rating beyond the highest tier, no negative preview.
THEOREM BooksTypeCorrect == BooksSpec => []BooksTypeOK
  <1>1. BooksInv => BooksTypeOK
    BY DEF BooksInv
  <1>2. QED
    BY <1>1, BooksInvariant, PTL

\* However many imports and replacements run at a time, a text is there whole or
\* not at all; and what counts as delivered was read by its buyer, is about to be
\* answered, or lost its answer after the delivery was recorded.
THEOREM BooksSafetyHolds == BooksSpec => []BooksSafety
  <1>1. BooksInv => BooksSafety
    BY DEF BooksInv, BooksSafety
  <1>2. QED
    BY <1>1, BooksInvariant, PTL

-----------------------------------------------------------------------------
(* Publication *)

\* A request under way asks for something the catalog knows.
CatalogInv ==
    /\ CatalogTypeOK
    /\ \A h \in CatalogHandlers : ask[h].step # "idle" => ask[h].op \in CatalogOps

LEMMA IdleAskIs == IdleAsk \in CatalogAsk /\ IdleAsk.step = "idle"
  BY CatalogAssumption DEF IdleAsk, CatalogAsk, BookStatus

LEMMA BookAfterIs ==
    ASSUME NEW row \in BookRow, NEW q \in CatalogAsk, q.op \in CatalogOps \ {"delete"}
    PROVE  /\ BookAfter(row, q.op, q) \in BookRow
           /\ row.blocked => BookAfter(row, q.op, q).blocked \/ q.op = "restore"
           /\ BookAfter(row, q.op, q).exists = row.exists
  <1>1. q.op \in Publications \cup {"price", "describe", "submit", "unpublish", "schedule", "takedown", "restore"}
    BY DEF CatalogOps
  <1>2. ASSUME NEW s \in BookStatus
        PROVE  /\ SetStatus(row, q.status, s) \in BookRow /\ SetStatus(row, q.status, s).blocked = row.blocked
               /\ SetStatus(row, q.status, s).exists = row.exists
    BY DEF SetStatus, BookRow
  <1>3. "DRAFT" \in BookStatus /\ "REVIEW" \in BookStatus /\ "PUBLISHED" \in BookStatus
    BY DEF BookStatus
  <1>4. CASE q.op \in Publications
    BY <1>2, <1>3, <1>4 DEF BookAfter, Publications
  <1>5. CASE q.op \in {"submit", "unpublish"}
    BY <1>2, <1>3, <1>5 DEF BookAfter, Publications
  <1>6. CASE q.op \in {"price", "describe", "takedown"}
    BY <1>6 DEF BookAfter, Publications, BookRow
  <1>7. CASE q.op = "schedule"
    BY <1>7 DEF BookAfter, Publications, BookRow, CatalogAsk
  <1>8. CASE q.op = "restore"
    BY <1>8 DEF BookAfter, Publications, BookRow
  <1>9. QED
    BY <1>1, <1>4, <1>5, <1>6, <1>7, <1>8

LEMMA CatalogInvInit == CatalogInit => CatalogInv
  <1> SUFFICES ASSUME CatalogInit PROVE CatalogInv
    OBVIOUS
  <1>1. CatalogTypeOK
    BY IdleAskIs, CatalogAssumption DEF CatalogInit, CatalogTypeOK, BookRow, BookStatus, IdlePass
  <1>2. QED
    BY <1>1, IdleAskIs DEF CatalogInit, CatalogInv

LEMMA CatalogInvNext == CatalogInv /\ [CatalogNext]_catalogVars => CatalogInv'
  <1> SUFFICES ASSUME CatalogInv, [CatalogNext]_catalogVars
               PROVE  CatalogInv'
    OBVIOUS
  <1> USE IdleAskIs DEF CatalogInv, rest
  <1>1. ASSUME NEW h \in CatalogHandlers, NEW op \in CatalogOps, NEW b \in Books,
               NEW when \in {NotScheduled} \cup Times, StartCatalog(h, op, b, when)
        PROVE  CatalogInv'
    <2>1. [IdleAsk EXCEPT !.op = op, !.step = "load", !.b = b, !.when = when] \in CatalogAsk
      BY DEF CatalogAsk
    <2>2. CatalogTypeOK'
      BY <1>1, <2>1 DEF StartCatalog, CatalogTypeOK
    <2>3. [IdleAsk EXCEPT !.op = op, !.step = "load", !.b = b, !.when = when].op = op
      BY DEF CatalogAsk
    <2>4. \A g \in CatalogHandlers : ask'[g].step # "idle" => ask'[g].op \in CatalogOps
      BY <1>1, <2>3 DEF StartCatalog, CatalogTypeOK
    <2>5. QED
      BY <2>2, <2>4
  <1>2. ASSUME NEW h \in CatalogHandlers, LoadBook(h)
        PROVE  CatalogInv'
    <2> DEFINE q == [ask[h] EXCEPT !.step = "write", !.status = book[ask[h].b].status,
                                   !.blocked = book[ask[h].b].blocked]
    <2>1. q \in CatalogAsk /\ q.op = ask[h].op /\ ask[h].op \in CatalogOps
      BY <1>2 DEF LoadBook, CatalogTypeOK, CatalogAsk, BookRow
    <2>2. ask' = [ask EXCEPT ![h] = q] \/ ask' = [ask EXCEPT ![h] = IdleAsk]
      BY <1>2 DEF LoadBook, Answer
    <2> HIDE DEF q
    <2>3. ask' \in [CatalogHandlers -> CatalogAsk]
          /\ \A g \in CatalogHandlers : ask'[g].step # "idle" => ask'[g].op \in CatalogOps
      BY <2>1, <2>2 DEF CatalogTypeOK
    <2>4. QED
      BY <1>2, <2>3 DEF LoadBook, CatalogTypeOK
  <1>3. ASSUME NEW h \in CatalogHandlers, WriteBook(h) \/ DeleteBook(h) \/ WriteFails(h)
        PROVE  CatalogInv'
    <2>1. ask' \in [CatalogHandlers -> CatalogAsk]
          /\ \A g \in CatalogHandlers : ask'[g].step # "idle" => ask'[g].op \in CatalogOps
      BY <1>3 DEF WriteBook, DeleteBook, WriteFails, Answer, CatalogTypeOK
    <2>2. book' \in [Books -> BookRow]
      <3>1. CASE WriteBook(h)
        <4>1. ask[h] \in CatalogAsk /\ ask[h].op \in CatalogOps \ {"delete"} /\ ask[h].b \in Books
              /\ book[ask[h].b] \in BookRow
          BY <3>1 DEF WriteBook, CatalogTypeOK, CatalogAsk
        <4>2. BookAfter(book[ask[h].b], ask[h].op, ask[h]) \in BookRow
          BY <4>1, BookAfterIs
        <4>3. QED
          BY <3>1, <4>1, <4>2 DEF WriteBook, CatalogTypeOK
      <3>2. CASE DeleteBook(h)
        <4>1. [exists |-> FALSE, status |-> "DRAFT", priced |-> FALSE, blocked |-> FALSE,
               scheduled |-> NotScheduled] \in BookRow
          BY DEF BookRow, BookStatus
        <4>2. QED
          BY <3>2, <4>1 DEF DeleteBook, Erase, CatalogTypeOK
      <3>3. CASE WriteFails(h)
        BY <3>3 DEF WriteFails, CatalogTypeOK
      <3>4. QED
        BY <1>3, <3>1, <3>2, <3>3
    <2>3. QED
      BY <1>3, <2>1, <2>2 DEF WriteBook, DeleteBook, WriteFails, CatalogTypeOK
  <1>4. CASE SelectDue \/ NotifyNext \/ PassFails
    BY <1>4 DEF SelectDue, NotifyNext, PassFails, IdlePass, CatalogTypeOK
  <1>5. CASE PublishDue
    <2>1. \A row \in BookRow : [row EXCEPT !.status = "PUBLISHED", !.scheduled = NotScheduled] \in BookRow
      BY DEF BookRow, BookStatus
    <2>2. book' \in [Books -> BookRow]
      BY <1>5, <2>1 DEF PublishDue, CatalogTypeOK
    <2>3. QED
      BY <1>5, <2>2 DEF PublishDue, CatalogTypeOK
  <1>6. ASSUME NEW r \in Accounts, NEW b \in Books, OrderBook(r, b)
        PROVE  CatalogInv'
    BY <1>6 DEF OrderBook, CatalogTypeOK
  <1>7. CASE NextHour
    BY <1>7, CatalogAssumption DEF NextHour, CatalogTypeOK
  <1>8. CASE UNCHANGED catalogVars
    BY <1>8 DEF catalogVars, CatalogTypeOK
  <1>9. "schedule" \in CatalogOps
    BY DEF CatalogOps
  <1>10. QED
    BY <1>1, <1>2, <1>3, <1>4, <1>5, <1>6, <1>7, <1>8, <1>9 DEF CatalogNext

LEMMA CatalogInvariant == CatalogSpec => []CatalogInv
  BY CatalogInvInit, CatalogInvNext, PTL DEF CatalogSpec

\* The tables and requests of the catalog have the shapes the code gives them.
THEOREM CatalogTypeCorrect == CatalogSpec => []CatalogTypeOK
  <1>1. CatalogInv => CatalogTypeOK
    BY DEF CatalogInv
  <1>2. QED
    BY <1>1, CatalogInvariant, PTL

\* No publication, however scheduled, and no other act of an author brings a book
\* an operator took down back to the store.
THEOREM TakedownHoldsAlways == CatalogSpec => TakedownHolds
  <1> DEFINE Lifted == \A b \in Books : ~InStore(b) /\ InStore(b)' /\ book[b].blocked =>
                         \E h \in CatalogHandlers : ask[h].op = "restore" /\ ask[h].b = b
  <1>1. CatalogInv /\ [CatalogNext]_catalogVars => Lifted
    <2> SUFFICES ASSUME CatalogInv, [CatalogNext]_catalogVars, NEW b \in Books,
                        book[b].blocked, book'[b].exists, ~book'[b].blocked
                 PROVE  \E h \in CatalogHandlers : ask[h].op = "restore" /\ ask[h].b = b
      BY DEF InStore
    <2>1. book' # book /\ book \in [Books -> BookRow]
      BY DEF CatalogInv, CatalogTypeOK
    <2>2. ~PublishDue
      BY ZenonT(60), <2>1 DEF PublishDue, BookRow
    <2>3. ~\E h \in CatalogHandlers : DeleteBook(h)
      BY <2>1 DEF DeleteBook, Erase
    <2>4. PICK h \in CatalogHandlers : WriteBook(h)
      BY <2>1, <2>2, <2>3 DEF CatalogNext, catalogVars, StartCatalog, LoadBook, WriteFails, SelectDue, NotifyNext,
         PassFails, OrderBook, NextHour
    <2>5. ask[h] \in CatalogAsk /\ ask[h].op \in CatalogOps \ {"delete"} /\ ask[h].b \in Books
      BY <2>4 DEF WriteBook, CatalogInv, CatalogTypeOK, CatalogAsk
    <2>6. ask[h].b = b
      BY <2>1, <2>4, <2>5 DEF WriteBook
    <2>7. book'[b] = BookAfter(book[b], ask[h].op, ask[h])
      BY <2>1, <2>4, <2>6 DEF WriteBook
    <2>8. ask[h].op = "restore"
      BY <2>1, <2>5, <2>7, BookAfterIs
    <2>9. QED
      BY <2>6, <2>8
  <1>2. CatalogInv /\ [CatalogNext]_catalogVars => [Lifted]_catalogVars
    BY <1>1
  <1>3. QED
    BY <1>2, CatalogInvariant, PTL DEF CatalogSpec, TakedownHolds

\* What a row on its way may count on.  A publication that was asked for or selected
\* is of a book with a price; so is a published book; a deleted one is blank.
SoundAsk(q) == q.step # "idle" /\ q.op \in Publications /\ book[q.b].exists => book[q.b].priced
SoundRow(row) == IF row.exists THEN row.status = "PUBLISHED" => row.priced ELSE ~row.blocked
ShelfInv ==
    /\ \A h \in CatalogHandlers : SoundAsk(ask[h])
    /\ \A b \in Books : SoundRow(book[b])
    /\ pass.step = "selected" => \A b \in pass.books : book[b].exists => book[b].priced

\* What a write makes of a row: the book is still there, a price stays, and only a
\* publication publishes.
LEMMA WriteKeeps ==
    ASSUME NEW row \in BookRow, NEW q \in CatalogAsk, q.op \in CatalogOps \ {"delete"}
    PROVE  LET new == BookAfter(row, q.op, q) IN
           /\ new.exists = row.exists
           /\ row.priced => new.priced
           /\ new.status = "PUBLISHED" => row.status = "PUBLISHED" \/ q.op \in Publications
           /\ new.blocked => row.blocked \/ q.op = "takedown"
  <1>1. q.op \in Publications \cup {"price", "describe", "submit", "unpublish", "schedule", "takedown", "restore"}
    BY DEF CatalogOps
  <1>2. CASE q.op \in Publications
    BY <1>2 DEF BookAfter, SetStatus, Publications, BookRow
  <1>3. CASE q.op \in {"submit", "unpublish"}
    BY <1>3 DEF BookAfter, SetStatus, Publications, BookRow
  <1>4. CASE q.op \in {"price", "describe", "takedown"}
    BY <1>4 DEF BookAfter, Publications, BookRow
  <1>5. CASE q.op \in {"schedule", "restore"}
    BY <1>5 DEF BookAfter, Publications, BookRow
  <1>6. QED
    BY <1>1, <1>2, <1>3, <1>4, <1>5

\* What a step does to the rows: a deleted book does not come back, and a book that
\* is there keeps its price.
LEMMA RowsGoOn ==
    ASSUME CatalogInv, [CatalogNext]_catalogVars, NEW b \in Books
    PROVE  book'[b].exists => book[b].exists /\ (book[b].priced => book'[b].priced)
  <1>1. CASE UNCHANGED book
    BY <1>1
  <1>2. ASSUME NEW h \in CatalogHandlers, WriteBook(h)
        PROVE  book'[b].exists => book[b].exists /\ (book[b].priced => book'[b].priced)
    <2>1. /\ ask[h] \in CatalogAsk /\ ask[h].op \in CatalogOps \ {"delete"} /\ ask[h].b \in Books
          /\ book[ask[h].b] \in BookRow
      BY <1>2 DEF WriteBook, CatalogInv, CatalogTypeOK, CatalogAsk
    <2>2. book' = [book EXCEPT ![ask[h].b] = BookAfter(book[ask[h].b], ask[h].op, ask[h])]
      BY <1>2, <2>1 DEF WriteBook
    <2>3. QED
      BY <2>1, <2>2, WriteKeeps DEF CatalogInv, CatalogTypeOK
  <1>3. ASSUME NEW h \in CatalogHandlers, DeleteBook(h)
        PROVE  book'[b].exists => book[b].exists /\ (book[b].priced => book'[b].priced)
    BY <1>3 DEF DeleteBook, Erase, CatalogInv, CatalogTypeOK
  <1>4. CASE PublishDue
    <2>1. book[b] \in BookRow
      BY DEF CatalogInv, CatalogTypeOK
    <2>2. book'[b] = book[b]
          \/ book'[b] = [book[b] EXCEPT !.status = "PUBLISHED", !.scheduled = NotScheduled]
      BY <1>4 DEF PublishDue
    <2>3. QED
      BY <2>1, <2>2 DEF BookRow
  <1>5. QED
    BY <1>1, <1>2, <1>3, <1>4 DEF CatalogNext, catalogVars, StartCatalog, LoadBook, WriteFails, SelectDue,
       NotifyNext, PassFails, OrderBook, NextHour, rest

LEMMA ShelfInvInit == CatalogInit => ShelfInv
  BY IdleAskIs DEF CatalogInit, ShelfInv, SoundAsk, SoundRow, IdlePass

LEMMA ShelfInvNext == CatalogInv /\ ShelfInv /\ [CatalogNext]_catalogVars => ShelfInv'
  <1> SUFFICES ASSUME CatalogInv, ShelfInv, [CatalogNext]_catalogVars
               PROVE  ShelfInv'
    OBVIOUS
  <1> DEFINE Kept == \A b \in Books : book'[b].exists => book[b].exists /\ (book[b].priced => book'[b].priced)
             PassStays == pass' = pass \/ pass'.step # "selected"
  <1>1. Kept
    BY RowsGoOn
  <1>2. ask \in [CatalogHandlers -> CatalogAsk] /\ book \in [Books -> BookRow]
        /\ pass \in [step : {"idle", "selected", "notify"}, books : SUBSET Books]
    BY DEF CatalogInv, CatalogTypeOK
  <1>3. \A h \in CatalogHandlers : ask[h].b \in Books
    BY <1>2 DEF CatalogAsk
  <1>4. ASSUME NEW h \in CatalogHandlers, ask'[h] = ask[h] \/ ask'[h] = IdleAsk
        PROVE  SoundAsk(ask[h])'
    <2>1. SoundAsk(ask[h])
      BY DEF ShelfInv
    <2>2. QED
      BY <1>1, <1>3, <1>4, <2>1, IdleAskIs DEF SoundAsk
  <1>5. ASSUME PassStays
        PROVE  pass'.step = "selected" => \A b \in pass'.books : book'[b].exists => book'[b].priced
    <2>1. \A b \in pass.books : b \in Books
      BY <1>2
    <2>2. QED
      BY <1>1, <1>5, <2>1 DEF ShelfInv
  <1> HIDE DEF Kept
  <1>6. ASSUME NEW h \in CatalogHandlers, NEW op \in CatalogOps, NEW b \in Books, NEW when,
               StartCatalog(h, op, b, when)
        PROVE  ShelfInv'
    <2>1. \A g \in CatalogHandlers \ {h} : ask'[g] = ask[g]
      BY <1>2, <1>6 DEF StartCatalog
    <2>2. ask'[h].op = op /\ ask'[h].b = b
      BY <1>2, <1>6 DEF StartCatalog, IdleAsk
    <2>3. op \in Publications => book'[b].priced
      BY <1>6 DEF StartCatalog, Allowed
    <2>4. \A g \in CatalogHandlers : SoundAsk(ask[g])'
      BY <1>4, <2>1, <2>2, <2>3 DEF SoundAsk
    <2>5. QED
      BY <1>5, <1>6, <2>4 DEF StartCatalog, rest, ShelfInv
  <1>7. ASSUME NEW h \in CatalogHandlers, LoadBook(h)
        PROVE  ShelfInv'
    <2>1. \A g \in CatalogHandlers \ {h} : ask'[g] = ask[g]
      BY <1>2, <1>7 DEF LoadBook, Answer
    <2>2. ask'[h] = IdleAsk \/ (ask[h].step # "idle" /\ ask'[h].op = ask[h].op /\ ask'[h].b = ask[h].b)
      BY <1>2, <1>7 DEF LoadBook, Answer, CatalogAsk
    <2>3. SoundAsk(ask[h])'
      BY <1>1, <1>3, <1>4, <1>7, <2>2 DEF ShelfInv, SoundAsk, LoadBook
    <2>4. QED
      BY <1>4, <1>5, <1>7, <2>1, <2>3 DEF LoadBook, rest, ShelfInv
  <1>8. ASSUME NEW h \in CatalogHandlers, Answer(h), UNCHANGED pass
        PROVE  /\ \A g \in CatalogHandlers : SoundAsk(ask[g])'
               /\ pass'.step = "selected" => \A b \in pass'.books : book'[b].exists => book'[b].priced
    <2>1. \A g \in CatalogHandlers : ask'[g] = ask[g] \/ ask'[g] = IdleAsk
      BY <1>2, <1>8 DEF Answer
    <2>2. QED
      BY <1>4, <1>5, <1>8, <2>1
  <1>9. ASSUME NEW h \in CatalogHandlers, WriteBook(h)
        PROVE  ShelfInv'
    <2> DEFINE q == ask[h]
               row == book[q.b]
               new == BookAfter(row, q.op, q)
    <2>1. q \in CatalogAsk /\ q.op \in CatalogOps \ {"delete"} /\ row \in BookRow /\ q.step # "idle"
          /\ row.exists
      BY <1>2, <1>3, <1>9 DEF WriteBook, CatalogInv
    <2>2. book' = [book EXCEPT ![q.b] = new]
      BY <1>9 DEF WriteBook
    <2>3. SoundRow(new)
      <3>1. SoundRow(row) /\ SoundAsk(q)
        BY <1>3 DEF ShelfInv
      <3>2. QED
        BY <2>1, <3>1, WriteKeeps DEF SoundRow, SoundAsk
    <2> HIDE DEF new
    <2>4. \A b \in Books : SoundRow(book'[b])
      BY <1>2, <2>2, <2>3 DEF ShelfInv
    <2>5. QED
      BY <1>8, <1>9, <2>4 DEF WriteBook, rest, ShelfInv, SoundRow
  <1>10. ASSUME NEW h \in CatalogHandlers, DeleteBook(h)
         PROVE  ShelfInv'
    <2>1. \A b \in Books : SoundRow(book'[b])
      BY <1>2, <1>10 DEF DeleteBook, Erase, ShelfInv, SoundRow
    <2>2. QED
      BY <1>8, <1>10, <2>1 DEF DeleteBook, ShelfInv, SoundRow
  <1>11. ASSUME NEW h \in CatalogHandlers, WriteFails(h)
         PROVE  ShelfInv'
    BY <1>8, <1>11 DEF WriteFails, rest, ShelfInv, SoundRow
  <1>12. CASE SelectDue
    <2>1. \A b \in pass'.books : book'[b].priced
      BY <1>12 DEF SelectDue, Due
    <2>2. QED
      BY <1>4, <1>12, <2>1 DEF SelectDue, ShelfInv, SoundRow
  <1>13. CASE PublishDue
    <2>1. ASSUME NEW b \in Books
          PROVE  SoundRow(book'[b])
      <3>1. SoundRow(book[b]) /\ book[b] \in BookRow
        BY <1>2 DEF ShelfInv
      <3>2. CASE b \in pass.books
        BY <1>13, <3>1, <3>2 DEF PublishDue, ShelfInv, SoundRow, BookRow
      <3>3. CASE b \notin pass.books
        BY <1>13, <3>1, <3>3 DEF PublishDue
      <3>4. QED
        BY <3>2, <3>3
    <2>2. PassStays
      BY <1>2, <1>13 DEF PublishDue
    <2>3. QED
      BY <1>4, <1>5, <1>13, <2>1, <2>2 DEF PublishDue, ShelfInv, SoundRow
  <1>14. CASE NotifyNext \/ PassFails \/ NextHour \/ (\E r \in Accounts, b \in Books : OrderBook(r, b))
              \/ UNCHANGED catalogVars
    <2>1. UNCHANGED <<book, ask>> /\ PassStays
      BY <1>2, <1>14 DEF NotifyNext, PassFails, NextHour, OrderBook, catalogVars, IdlePass
    <2>2. QED
      BY <1>4, <1>5, <2>1 DEF ShelfInv, SoundRow
  <1>15. "schedule" \in CatalogOps
    BY DEF CatalogOps
  <1>16. QED
    BY <1>6, <1>7, <1>9, <1>10, <1>11, <1>12, <1>13, <1>14, <1>15 DEF CatalogNext

LEMMA ShelfInvariant == CatalogSpec => [](CatalogInv /\ ShelfInv)
  BY CatalogInvInit, CatalogInvNext, ShelfInvInit, ShelfInvNext, PTL DEF CatalogSpec

\* A row that is written is seen as a move of its book on the shelf.
LEMMA OneRowOnTheShelf ==
    ASSUME CatalogInv, NEW b \in Books, NEW row, book' = [book EXCEPT ![b] = row]
    PROVE  /\ Shelf' = [Shelf EXCEPT ![b] = ShelfOf(row)]
           /\ row.blocked => TakenDown' = TakenDown \cup {b}
           /\ ~row.blocked => TakenDown' = TakenDown \ {b}
  <1>1. book \in [Books -> BookRow]
    BY DEF CatalogInv, CatalogTypeOK
  <1>2. \A c \in Books : book'[c] = IF c = b THEN row ELSE book[c]
    BY <1>1
  <1>3. Shelf' = [c \in Books |-> ShelfOf(book'[c])]
    BY DEF Shelf, ShelfOf
  <1>4. Shelf' = [Shelf EXCEPT ![b] = ShelfOf(row)]
    <2>1. \A c \in Books : ShelfOf(book'[c]) = IF c = b THEN ShelfOf(row) ELSE ShelfOf(book[c])
      BY <1>2
    <2>2. QED
      BY <1>3, <2>1 DEF Shelf
  <1>5. (row.blocked => TakenDown' = TakenDown \cup {b}) /\ (~row.blocked => TakenDown' = TakenDown \ {b})
    BY <1>2 DEF TakenDown
  <1>6. QED
    BY <1>4, <1>5

\* A request that is answered was not about a takedown, or it leaves one that asks
\* to lift it, or it was the last.
LEMMA AnswerLeaves ==
    ASSUME CatalogInv, NEW h \in CatalogHandlers, Answer(h)
    PROVE  /\ ask[h].op # "restore" => AskedToRestore' = AskedToRestore
           /\ AskedToRestore' \in {AskedToRestore, AskedToRestore \ {ask[h].b}}
  <1>1. \A g \in CatalogHandlers \ {h} : ask'[g] = ask[g]
    BY DEF Answer, CatalogInv, CatalogTypeOK
  <1>2. ask'[h].op # "restore"
    BY DEF Answer, CatalogInv, CatalogTypeOK, IdleAsk
  <1>3. AskedToRestore' \subseteq AskedToRestore
    BY <1>1, <1>2 DEF AskedToRestore
  <1>4. \A b \in AskedToRestore : b \in AskedToRestore' \/ (ask[h].op = "restore" /\ ask[h].b = b)
    BY <1>1 DEF AskedToRestore
  <1>5. QED
    BY <1>3, <1>4

\* What a write of a row is seen as.
LEMMA WriteOnTheShelf ==
    ASSUME CatalogInv, ShelfInv, NEW h \in CatalogHandlers, WriteBook(h)
    PROVE  Shelves!PublicationNext \/ UNCHANGED Shelves!publicationVars
  <1> DEFINE q == ask[h]
             b == q.b
             row == book[b]
             new == BookAfter(row, q.op, q)
  <1>1. /\ q \in CatalogAsk /\ q.op \in CatalogOps \ {"delete"} /\ b \in Books /\ row \in BookRow
        /\ row.exists /\ SoundRow(row) /\ SoundAsk(q) /\ q.step # "idle"
    BY DEF WriteBook, CatalogInv, CatalogTypeOK, CatalogAsk, ShelfInv
  <1>2. book' = [book EXCEPT ![b] = new] /\ Answer(h) /\ UNCHANGED orderedBy
    BY DEF WriteBook, rest
  <1>3. /\ q.op # "restore" => AskedToRestore' = AskedToRestore
        /\ AskedToRestore' \in {AskedToRestore, AskedToRestore \ {b}}
    BY <1>2, AnswerLeaves
  <1>4. /\ Shelf' = [Shelf EXCEPT ![b] = ShelfOf(new)]
        /\ new.blocked => TakenDown' = TakenDown \cup {b}
        /\ ~new.blocked => TakenDown' = TakenDown \ {b}
    BY <1>1, <1>2, OneRowOnTheShelf
  <1>5. Shelf[b] = ShelfOf(row) /\ (b \in TakenDown <=> row.blocked) /\ Shelf[b] # "gone"
    BY <1>1 DEF Shelf, TakenDown, ShelfOf
  <1>6. DOMAIN Shelf = Books /\ Shelf = [c \in Books |-> Shelf[c]]
    BY DEF Shelf
  <1>7. q.op \in Publications \cup {"price", "describe", "submit", "unpublish", "schedule", "takedown", "restore"}
    BY <1>1 DEF CatalogOps
  <1> HIDE DEF new
  <1>8. ASSUME new.blocked = row.blocked
        PROVE  TakenDown' = TakenDown
    BY <1>4, <1>5, <1>8
  <1>9. ASSUME ShelfOf(new) = ShelfOf(row)
        PROVE  Shelf' = Shelf
    BY <1>4, <1>5, <1>6, <1>9
  <1>10. CASE q.op = "price"
    <2>1. new.blocked = row.blocked /\ ShelfOf(new) = IF ShelfOf(row) = "unpriced" THEN "priced" ELSE ShelfOf(row)
      BY <1>1, <1>10 DEF new, BookAfter, ShelfOf, BookRow, Publications
    <2>2. CASE ShelfOf(row) = "unpriced"
      BY <1>1, <1>2, <1>3, <1>4, <1>5, <1>8, <1>10, <2>1, <2>2 DEF Shelves!Price, Shelves!PublicationNext
    <2>3. CASE ShelfOf(row) # "unpriced"
      BY <1>2, <1>3, <1>8, <1>9, <1>10, <2>1, <2>3 DEF Shelves!publicationVars
    <2>4. QED
      BY <2>2, <2>3
  <1>11. CASE q.op \in {"describe", "schedule"}
    <2>1. new.blocked = row.blocked /\ ShelfOf(new) = ShelfOf(row)
      BY <1>1, <1>11 DEF new, BookAfter, ShelfOf, BookRow, Publications
    <2>2. QED
      BY <1>2, <1>3, <1>8, <1>9, <1>11, <2>1 DEF Shelves!publicationVars
  <1>12. CASE q.op \in {"submit", "unpublish"}
    <2>1. new.blocked = row.blocked /\ (ShelfOf(new) = ShelfOf(row)
                                         \/ (ShelfOf(row) = "published" /\ ShelfOf(new) = "priced"))
      BY <1>1, <1>12 DEF new, BookAfter, SetStatus, ShelfOf, SoundRow, BookRow, Publications
    <2>2. CASE ShelfOf(new) = ShelfOf(row)
      BY <1>2, <1>3, <1>8, <1>9, <1>12, <2>1, <2>2 DEF Shelves!publicationVars
    <2>3. CASE ShelfOf(row) = "published" /\ ShelfOf(new) = "priced"
      BY <1>1, <1>2, <1>3, <1>4, <1>5, <1>8, <1>12, <2>1, <2>3 DEF Shelves!Withdraw, Shelves!PublicationNext
    <2>4. QED
      BY <2>1, <2>2, <2>3
  <1>13. CASE q.op \in Publications
    <2>1. new.blocked = row.blocked /\ (ShelfOf(new) = ShelfOf(row) \/ ShelfOf(new) = "published")
      BY <1>1, <1>13 DEF new, BookAfter, SetStatus, ShelfOf, BookRow, Publications
    <2>2. CASE ShelfOf(new) = ShelfOf(row)
      BY <1>2, <1>3, <1>8, <1>9, <1>13, <2>1, <2>2 DEF Shelves!publicationVars, Publications
    <2>3. CASE ShelfOf(new) = "published"
      <3>1. Shelf[b] \in {"priced", "published"}
        BY <1>1, <1>5, <1>13 DEF SoundAsk, ShelfOf
      <3>2. Shelf' = [c \in Books |-> IF c \in {b} THEN "published" ELSE Shelf[c]]
        BY <1>4, <1>6, <2>3
      <3>3. Shelves!Publish({b})
        BY <1>2, <1>3, <1>8, <1>13, <2>1, <3>1, <3>2 DEF Shelves!Publish, Publications
      <3>4. QED
        BY <1>1, <3>3 DEF Shelves!PublicationNext
    <2>4. QED
      BY <2>1, <2>2, <2>3
  <1>14. CASE q.op = "takedown"
    <2>1. new.blocked /\ ShelfOf(new) = ShelfOf(row)
      BY <1>1, <1>14 DEF new, BookAfter, ShelfOf, BookRow, Publications
    <2>2. QED
      BY <1>1, <1>2, <1>3, <1>4, <1>5, <1>9, <1>14, <2>1 DEF Shelves!TakeDown, Shelves!PublicationNext
  <1>15. CASE q.op = "restore"
    <2>1. b \in AskedToRestore
      BY <1>1, <1>15 DEF AskedToRestore
    <2>2. ShelfOf(new) = ShelfOf(row) /\ (new.blocked = row.blocked \/ ~new.blocked)
      BY <1>1, <1>15 DEF new, BookAfter, ShelfOf, BookRow, Publications
    <2>3. CASE ~new.blocked
      BY <1>1, <1>2, <1>3, <1>4, <1>5, <1>9, <2>1, <2>2, <2>3 DEF Shelves!Lift, Shelves!PublicationNext
    <2>4. CASE new.blocked = row.blocked
      BY <1>1, <1>2, <1>3, <1>8, <1>9, <2>2, <2>4
         DEF Shelves!LeaveAsItIs, Shelves!PublicationNext, Shelves!publicationVars
    <2>5. QED
      BY <2>2, <2>3, <2>4
  <1>16. QED
    BY <1>7, <1>10, <1>11, <1>12, <1>13, <1>14, <1>15

LEMMA PublicationInitHolds == CatalogInit => Shelves!PublicationInit
  <1> SUFFICES ASSUME CatalogInit PROVE Shelves!PublicationInit
    OBVIOUS
  <1>1. \A b \in Books : ShelfOf(book[b]) = "unpriced" /\ ~book[b].blocked
    BY DEF CatalogInit, ShelfOf
  <1>2. \A h \in CatalogHandlers : ask[h].op # "restore"
    BY DEF CatalogInit, IdleAsk
  <1>3. QED
    BY <1>1, <1>2 DEF CatalogInit, Shelves!PublicationInit, Shelf, TakenDown, AskedToRestore

\* Each step of requests and scheduler is one step of the store, or none.
LEMMA PublicationStep ==
    ASSUME CatalogInv, ShelfInv, [CatalogNext]_catalogVars
    PROVE  [Shelves!PublicationNext]_(Shelves!publicationVars)
  <1> SUFFICES Shelves!PublicationNext \/ UNCHANGED Shelves!publicationVars
    OBVIOUS
  <1>1. /\ ask \in [CatalogHandlers -> CatalogAsk] /\ book \in [Books -> BookRow]
        /\ \A h \in CatalogHandlers : ask[h].b \in Books
        /\ pass \in [step : {"idle", "selected", "notify"}, books : SUBSET Books]
    BY DEF CatalogInv, CatalogTypeOK, CatalogAsk
  <1>2. UNCHANGED book => UNCHANGED <<Shelf, TakenDown>>
    BY DEF Shelf, TakenDown
  <1>3. UNCHANGED ask => UNCHANGED AskedToRestore
    BY DEF AskedToRestore
  <1>4. ASSUME NEW h \in CatalogHandlers, Answer(h), UNCHANGED <<book, orderedBy>>
        PROVE  Shelves!PublicationNext \/ UNCHANGED Shelves!publicationVars
    <2>1. AskedToRestore' \in {AskedToRestore, AskedToRestore \ {ask[h].b}}
      BY <1>4, AnswerLeaves
    <2>2. QED
      BY <1>1, <1>2, <1>4, <2>1 DEF Shelves!LeaveAsItIs, Shelves!PublicationNext, Shelves!publicationVars
  <1>5. ASSUME NEW h \in CatalogHandlers, NEW op \in CatalogOps, NEW b \in Books, NEW when,
               StartCatalog(h, op, b, when)
        PROVE  Shelves!PublicationNext \/ UNCHANGED Shelves!publicationVars
    <2>1. \A g \in CatalogHandlers \ {h} : ask'[g] = ask[g]
      BY <1>1, <1>5 DEF StartCatalog
    <2>2. ask'[h].op = op /\ ask'[h].b = b /\ ask[h].op # "restore"
      BY <1>1, <1>5 DEF StartCatalog, IdleAsk
    <2>3. AskedToRestore' = IF op = "restore" THEN AskedToRestore \cup {b} ELSE AskedToRestore
      BY <2>1, <2>2 DEF AskedToRestore
    <2>4. QED
      BY <1>2, <1>5, <2>3 DEF StartCatalog, rest, Shelves!AskToLift, Shelves!PublicationNext, Shelves!publicationVars
  <1>6. ASSUME NEW h \in CatalogHandlers, LoadBook(h)
        PROVE  Shelves!PublicationNext \/ UNCHANGED Shelves!publicationVars
    <2>1. CASE Answer(h)
      BY <1>4, <1>6, <2>1 DEF LoadBook, rest
    <2>2. CASE ~Answer(h)
      <3>1. \A g \in CatalogHandlers : ask'[g].op = ask[g].op /\ ask'[g].b = ask[g].b
        BY <1>1, <1>6, <2>2 DEF LoadBook, CatalogAsk
      <3>2. UNCHANGED AskedToRestore
        BY <3>1 DEF AskedToRestore
      <3>3. QED
        BY <1>2, <1>6, <3>2 DEF LoadBook, rest, Shelves!publicationVars
    <2>3. QED
      BY <2>1, <2>2
  <1>7. ASSUME NEW h \in CatalogHandlers, DeleteBook(h)
        PROVE  Shelves!PublicationNext \/ UNCHANGED Shelves!publicationVars
    <2> DEFINE b == ask[h].b
               blank == [exists |-> FALSE, status |-> "DRAFT", priced |-> FALSE, blocked |-> FALSE,
                         scheduled |-> NotScheduled]
    <2>1. UNCHANGED AskedToRestore
      BY <1>7, AnswerLeaves DEF DeleteBook
    <2>2. ShelfOf(blank) = "gone" /\ ~blank.blocked
      BY DEF ShelfOf
    <2>3. book' = [book EXCEPT ![b] = blank]
      BY <1>7 DEF DeleteBook, Erase
    <2> HIDE DEF blank
    <2>4. Shelf' = [Shelf EXCEPT ![b] = "gone"] /\ TakenDown' = TakenDown \ {b}
      BY <1>1, <2>2, <2>3, OneRowOnTheShelf
    <2>5. CASE Shelf[b] = "gone"
      <3>1. ~book[b].exists
        BY <1>1, <2>5 DEF Shelf, ShelfOf
      <3>2. b \notin TakenDown
        BY <1>1, <3>1 DEF ShelfInv, SoundRow, TakenDown
      <3>3. UNCHANGED <<Shelf, TakenDown>>
        BY <2>4, <2>5, <3>2 DEF Shelf
      <3>4. QED
        BY <1>7, <2>1, <3>3 DEF DeleteBook, Shelves!publicationVars
    <2>6. CASE Shelf[b] # "gone"
      BY <1>1, <1>7, <2>1, <2>4, <2>6 DEF DeleteBook, Shelves!Delete, Shelves!PublicationNext
    <2>7. QED
      BY <2>5, <2>6
  <1>8. ASSUME NEW h \in CatalogHandlers, WriteFails(h)
        PROVE  Shelves!PublicationNext \/ UNCHANGED Shelves!publicationVars
    BY <1>4, <1>8 DEF WriteFails, rest
  <1>9. CASE PublishDue
    <2>1. ASSUME NEW b \in pass.books
          PROVE  Shelf[b] \in {"priced", "published"}
      BY <1>1, <1>9, <2>1 DEF PublishDue, ShelfInv, Shelf, ShelfOf
    <2>2. ASSUME NEW b \in Books
          PROVE  /\ ShelfOf(book'[b]) = IF b \in pass.books THEN "published" ELSE ShelfOf(book[b])
                 /\ book'[b].blocked = book[b].blocked
      <3>1. CASE b \in pass.books
        <4>1. book'[b] = [book[b] EXCEPT !.status = "PUBLISHED", !.scheduled = NotScheduled]
              /\ book[b] \in BookRow /\ book[b].exists
          BY <1>1, <1>9, <3>1 DEF PublishDue
        <4>2. QED
          BY <3>1, <4>1 DEF ShelfOf, BookRow
      <3>2. CASE b \notin pass.books
        BY <1>9, <3>2 DEF PublishDue
      <3>3. QED
        BY <3>1, <3>2
    <2>3. Shelf' = [b \in Books |-> ShelfOf(book'[b])]
      BY DEF Shelf, ShelfOf
    <2>4. \A b \in Books : Shelf[b] = ShelfOf(book[b])
      BY DEF Shelf
    <2>5. Shelf' = [b \in Books |-> IF b \in pass.books THEN "published" ELSE Shelf[b]]
      BY <2>2, <2>3, <2>4
    <2>6. TakenDown' = TakenDown
      BY <2>2 DEF TakenDown
    <2>7. Shelves!Publish(pass.books)
      BY <1>3, <1>9, <2>1, <2>5, <2>6 DEF PublishDue, Shelves!Publish
    <2>8. QED
      BY <1>1, <2>7 DEF Shelves!PublicationNext
  <1>10. ASSUME NEW r \in Accounts, NEW b \in Books, OrderBook(r, b)
         PROVE  Shelves!PublicationNext
    <2>1. Shelf[b] # "gone"
      BY <1>10 DEF OrderBook, Shelf, ShelfOf
    <2>2. Shelves!Buy(r, b)
      BY <1>2, <1>3, <1>10, <2>1 DEF OrderBook, Shelves!Buy
    <2>3. QED
      BY <2>2 DEF Shelves!PublicationNext
  <1>11. CASE SelectDue \/ NotifyNext \/ PassFails \/ NextHour \/ UNCHANGED catalogVars
    <2>1. UNCHANGED <<book, ask, orderedBy>>
      BY <1>11 DEF SelectDue, NotifyNext, PassFails, NextHour, catalogVars
    <2>2. QED
      BY <1>2, <1>3, <2>1 DEF Shelves!publicationVars
  <1>12. "schedule" \in CatalogOps
    BY DEF CatalogOps
  <1>13. QED
    BY <1>5, <1>6, <1>7, <1>8, <1>9, <1>10, <1>11, <1>12, WriteOnTheShelf DEF CatalogNext

\* Whatever requests of authors and operators overlap with each other and with the
\* scheduler, the catalog does to a book only what Publication allows.
THEOREM PublicationImplemented == CatalogSpec => ImplementsPublication
  <1>1. CatalogInit => Shelves!PublicationInit
    BY PublicationInitHolds
  <1>2. (CatalogInv /\ ShelfInv) /\ [CatalogNext]_catalogVars => [Shelves!PublicationNext]_(Shelves!publicationVars)
    BY PublicationStep
  <1>3. QED
    BY <1>1, <1>2, ShelfInvariant, PTL DEF CatalogSpec, ImplementsPublication, Shelves!PublicationSpec

LEMMA BoughtIsKeptInit == Shelves!PublicationInit => Shelves!BoughtIsKept
  BY DEF Shelves!PublicationInit, Shelves!BoughtIsKept

LEMMA BoughtIsKeptNext ==
    ASSUME CatalogInv, Shelves!BoughtIsKept, [Shelves!PublicationNext]_(Shelves!publicationVars)
    PROVE  Shelves!BoughtIsKept'
  <1> SUFFICES ASSUME NEW c \in Books, Shelf'[c] = "gone", Shelf[c] # "gone" \/ orderedBy'[c] # orderedBy[c]
               PROVE  orderedBy'[c] = {}
    BY DEF Shelves!BoughtIsKept
  <1>1. Shelf = [b \in Books |-> Shelf[b]] /\ orderedBy = [b \in Books |-> orderedBy[b]]
    BY DEF Shelf, CatalogInv, CatalogTypeOK
  <1>2. ~UNCHANGED Shelves!publicationVars
    BY DEF Shelves!publicationVars
  <1>3. ~\E books \in SUBSET Books : Shelves!Publish(books)
    BY <1>1 DEF Shelves!Publish
  <1>4. ~\E b \in Books : \/ Shelves!Price(b) \/ Shelves!Withdraw(b) \/ Shelves!TakeDown(b)
                         \/ Shelves!AskToLift(b) \/ Shelves!Lift(b) \/ Shelves!LeaveAsItIs(b)
    BY <1>1 DEF Shelves!Price, Shelves!Withdraw, Shelves!TakeDown, Shelves!AskToLift, Shelves!Lift,
                Shelves!LeaveAsItIs
  <1>5. ~\E b \in Books, r \in Accounts : Shelves!Buy(r, b)
    BY <1>1 DEF Shelves!Buy
  <1>6. PICK b \in Books : Shelves!Delete(b)
    BY <1>2, <1>3, <1>4, <1>5 DEF Shelves!PublicationNext
  <1>7. QED
    BY <1>1, <1>6 DEF Shelves!Delete

\* A book somebody ordered, paid or not, is never deleted, although a deletion looks
\* for orders long before it deletes: the promise of Publication, kept by the catalog.
THEOREM OrderedBooksStay == CatalogSpec => [](\A b \in Books : orderedBy[b] # {} => book[b].exists)
  <1>1. CatalogInit => Shelves!BoughtIsKept
    BY PublicationInitHolds, BoughtIsKeptInit
  <1>2. (CatalogInv /\ ShelfInv) /\ Shelves!BoughtIsKept /\ [CatalogNext]_catalogVars => Shelves!BoughtIsKept'
    BY PublicationStep, BoughtIsKeptNext
  <1>3. Shelves!BoughtIsKept => \A b \in Books : orderedBy[b] # {} => book[b].exists
    BY DEF Shelves!BoughtIsKept, Shelf, ShelfOf
  <1>4. QED
    BY <1>1, <1>2, <1>3, ShelfInvariant, PTL DEF CatalogSpec

-----------------------------------------------------------------------------
(* Documents and sharing *)

\* What a request found out stays true: who may change a document does not
\* change, a deletion and a revocation are for good, a link stays with its
\* document, and the store loses nothing.
SoundCalls ==
  {q \in RequestState :
     /\ q.ready \subseteq hosted
     /\ q.op \in LinkOps \cup {"share", "revoke"} => q.link \in Links
     /\ q.op \in OwnerOps => /\ q.doc \in Documents /\ document[q.doc].made
                             /\ q.hopeless => document[q.doc].deleted
     /\ q.op \in LinkOps => /\ link[q.link].doc # NoDocument
                            /\ q.hopeless => ~Active(q.link) \/ ~Alive(link[q.link].doc)
     /\ q.at \in {"in", "found", "rendering"} /\ q.op \in OwnerOps => CanModify(q.doc, q.who) /\ ~q.hopeless
     /\ q.at \in {"in", "found", "rendering"} /\ q.op \in LinkOps =>
          /\ q.doc = link[q.link].doc /\ Gives(link[q.link].capability, q.op)
          /\ q.hopeless => ~Alive(q.doc)
     /\ q.at = "found" => q.op \in {"save", "link save"} /\ ~q.hopeless
     /\ q.at = "putting" => q.op = "upload" /\ (q.puts >= 1 => \A p \in q.text : <<p, "original">> \in stored)
     /\ q.at = "rendering" /\ q.op # "link read" => q.text \cap q.ready \subseteq q.got \cup q.left}
LinksAreToDocuments == \A l \in Links : link[l].doc # NoDocument => document[link[l].doc].made
HostedIsStored == \A p \in hosted : <<p, "original">> \in stored

DocInv ==
  /\ DocTypeOK /\ LinksAreToDocuments /\ HostedIsStored
  /\ docRequest \in [DocHandlers -> SoundCalls]

LEMMA NoneIsNoDocument == NoDocument \notin Documents /\ NoLink \notin Links
  BY DocAssumption DEF NoDocument, NoLink

LEMMA IdleDocCall ==
  /\ IdleDocRequest \in RequestState /\ IdleDocRequest \in SoundCalls /\ IdleDocRequest \in SoundCalls'
  /\ IdleDocRequest.at = "idle" /\ IdleDocRequest.got = {} /\ IdleDocRequest.left = {}
  /\ IdleDocRequest.puts = 0 /\ IdleDocRequest.ready = {}
  <1>1. /\ IdleDocRequest \in RequestState /\ IdleDocRequest.at = "idle" /\ IdleDocRequest.op = "none"
        /\ IdleDocRequest.ready = {} /\ IdleDocRequest.got = {} /\ IdleDocRequest.left = {} /\ IdleDocRequest.puts = 0
    BY DEF IdleDocRequest, RequestState
  <1>2. QED
    BY <1>1 DEF SoundCalls, OwnerOps, LinkOps

LEMMA CallsStay ==
  ASSUME DocInv,
         \A d \in Documents : document[d].made =>
           /\ document'[d].made /\ document'[d].owner = document[d].owner
           /\ document[d].deleted => document'[d].deleted,
         \A l \in Links : link[l].doc # NoDocument =>
           /\ link'[l].doc = link[l].doc /\ link'[l].capability = link[l].capability
           /\ link[l].revoked => link'[l].revoked,
         stored \subseteq stored', hosted \subseteq hosted'
  PROVE  SoundCalls \subseteq SoundCalls'
  <1> SUFFICES ASSUME NEW q \in SoundCalls
               PROVE  q \in SoundCalls'
    OBVIOUS
  <1>1. q \in RequestState /\ q.ready \subseteq hosted'
        /\ (q.op \in LinkOps \cup {"share", "revoke"} => q.link \in Links)
    BY DEF SoundCalls
  <1>2. CASE q.op \in OwnerOps
    <2>1. q.doc \in Documents /\ document[q.doc].made
      BY <1>2 DEF SoundCalls
    <2>2. q.op \notin LinkOps /\ q.op # "upload"
      BY <1>2 DEF OwnerOps, LinkOps
    <2>3. CanModify(q.doc, q.who)' <=> CanModify(q.doc, q.who)
      BY <2>1 DEF CanModify
    <2>4. QED
      BY <1>1, <1>2, <2>1, <2>2, <2>3 DEF SoundCalls
  <1>3. CASE q.op \in LinkOps
    <2>1. q.link \in Links /\ link[q.link].doc # NoDocument
      BY <1>3 DEF SoundCalls
    <2>2. link[q.link].doc \in Documents /\ document[link[q.link].doc].made
      BY <2>1 DEF DocInv, DocTypeOK, LinkRow, LinksAreToDocuments
    <2>3. q.op \notin OwnerOps /\ q.op # "upload"
      BY <1>3 DEF OwnerOps, LinkOps
    <2>4. /\ ~Active(q.link) => ~Active(q.link)'
          /\ ~Alive(link[q.link].doc) => ~Alive(link[q.link].doc)'
      BY <2>1, <2>2 DEF Active, Alive
    <2>5. q.at \in {"in", "found", "rendering"} /\ q.hopeless => ~Alive(q.doc)'
      BY <1>3, <2>1, <2>2 DEF SoundCalls, Alive
    <2>6. link'[q.link].doc = link[q.link].doc /\ link'[q.link].capability = link[q.link].capability
      BY <2>1
    <2>7. (q.at = "found" => q.op \in {"save", "link save"} /\ ~q.hopeless)
          /\ (q.at = "putting" => q.op = "upload")
          /\ (q.at = "rendering" /\ q.op # "link read" => q.text \cap q.ready \subseteq q.got \cup q.left)
          /\ (q.hopeless => ~Active(q.link) \/ ~Alive(link[q.link].doc))
          /\ (q.at \in {"in", "found", "rendering"} =>
                q.doc = link[q.link].doc /\ Gives(link[q.link].capability, q.op))
      BY <1>3 DEF SoundCalls
    <2>8. QED
      BY <1>1, <1>3, <2>1, <2>3, <2>4, <2>5, <2>6, <2>7 DEF SoundCalls
  <1>4. CASE q.op \notin OwnerOps \cup LinkOps
    BY <1>1, <1>4 DEF SoundCalls
  <1>5. QED
    BY <1>2, <1>3, <1>4

\* A step of a request that leaves the tables and the store alone.
LEMMA OnlyTheCall ==
  ASSUME DocInv, NEW h \in DocHandlers, NEW q \in SoundCalls, docRequest' = [docRequest EXCEPT ![h] = q],
         UNCHANGED <<document, link, stored, hosted>>
  PROVE  DocInv'
  <1>1. SoundCalls \subseteq SoundCalls'
    BY CallsStay
  <1>2. docRequest' \in [DocHandlers -> SoundCalls'] /\ docRequest' \in [DocHandlers -> RequestState]
    BY ZenonT(60), <1>1 DEF DocInv, DocTypeOK, SoundCalls
  <1>3. QED
    BY <1>2 DEF DocInv, DocTypeOK, LinksAreToDocuments, HostedIsStored

LEMMA CallIs ==
  ASSUME DocInv, NEW h \in DocHandlers
  PROVE  Req(h) \in SoundCalls /\ Req(h) \in RequestState /\ Req(h) = docRequest[h]
  BY DEF DocInv, SoundCalls, Req

LEMMA PuttingIs ==
  ASSUME NEW q \in SoundCalls, q.at = "putting"
  PROVE  /\ q.op = "upload" /\ q.puts \in 0..3 /\ q.text \in SUBSET Pictures
         /\ q.puts >= 1 => \A p \in q.text : <<p, "original">> \in stored
  <1>1. q \in RequestState /\ q.op = "upload" /\ (q.puts >= 1 => \A p \in q.text : <<p, "original">> \in stored)
    BY DEF SoundCalls
  <1>2. QED
    BY <1>1 DEF RequestState

LEMMA CallGivenUp ==
  ASSUME DocInv, NEW h \in DocHandlers, Respond(h), UNCHANGED <<document, link, stored, hosted>>
  PROVE  DocInv'
  BY IdleDocCall, OnlyTheCall DEF Respond

LEMMA CallBegins ==
  ASSUME DocInv, NEW h \in DocHandlers,
         \/ \E op \in OwnerOps, who \in Accounts \cup {Nobody}, d \in Documents,
               l \in Links, text \in SUBSET Pictures : BeginOwnerOp(h, op, who, d, l, text)
         \/ \E op \in LinkOps, l \in Links, text \in SUBSET Pictures : BeginLinkOp(h, op, l, text)
         \/ \E who \in Accounts \cup {Nobody}, l \in Links : BeginRevoke(h, who, l)
         \/ \E p \in Pictures : BeginMedia(h, p)
  PROVE  DocInv'
  <1>1. document \in [Documents -> DocumentRow] /\ link \in [Links -> LinkRow] /\ hosted \in SUBSET Pictures
    BY DEF DocInv, DocTypeOK
  <1>2. ASSUME NEW op \in OwnerOps, NEW who \in Accounts \cup {Nobody}, NEW d \in Documents,
               NEW l \in Links, NEW text \in SUBSET Pictures, BeginOwnerOp(h, op, who, d, l, text)
        PROVE  DocInv'
    <2> DEFINE lk == IF op = "share" THEN l ELSE NoLink
               tx == IF op = "save" THEN text ELSE {}
               q == [IdleDocRequest EXCEPT !.at = "begun", !.op = op, !.who = who, !.doc = d, !.link = lk,
                                           !.text = tx, !.hopeless = document[d].deleted, !.ready = hosted]
    <2>1. lk \in Links \cup {NoLink} /\ tx \in SUBSET Pictures /\ document[d].deleted \in BOOLEAN
          /\ (op = "share" => lk = l)
      BY <1>1 DEF DocumentRow
    <2>2. document[d].made /\ docRequest' = [docRequest EXCEPT ![h] = q]
          /\ UNCHANGED <<document, link, stored, hosted>>
      BY <1>2 DEF BeginOwnerOp
    <2> HIDE DEF lk, tx
    <2>3. /\ q \in RequestState /\ q.at = "begun" /\ q.op = op /\ q.doc = d /\ q.ready = hosted
          /\ q.hopeless = document[d].deleted /\ q.link = lk
      BY ZenonT(60), <1>1, <2>1, IdleDocCall DEF RequestState
    <2>4. op \notin LinkOps /\ op # "revoke"
      BY DEF OwnerOps, LinkOps
    <2> HIDE DEF q
    <2>5. q \in SoundCalls
      BY <2>1, <2>2, <2>3, <2>4 DEF SoundCalls
    <2>6. QED
      BY <2>2, <2>5, OnlyTheCall
  <1>3. ASSUME NEW op \in LinkOps, NEW l \in Links, NEW text \in SUBSET Pictures, BeginLinkOp(h, op, l, text)
        PROVE  DocInv'
    <2> DEFINE tx == IF op = "link save" THEN text ELSE {}
               no == ~Active(l) \/ ~Alive(link[l].doc)
               q == [IdleDocRequest EXCEPT !.at = "begun", !.op = op, !.link = l, !.text = tx,
                                           !.hopeless = no, !.ready = hosted]
    <2>1. tx \in SUBSET Pictures /\ no \in BOOLEAN /\ (no => ~Active(l) \/ ~Alive(link[l].doc))
      OBVIOUS
    <2>2. link[l].doc # NoDocument /\ docRequest' = [docRequest EXCEPT ![h] = q]
          /\ UNCHANGED <<document, link, stored, hosted>>
      BY <1>3 DEF BeginLinkOp
    <2> HIDE DEF tx, no
    <2>3. q \in RequestState /\ q.at = "begun" /\ q.op = op /\ q.link = l /\ q.ready = hosted /\ q.hopeless = no
      BY ZenonT(60), <1>1, <2>1, IdleDocCall DEF RequestState
    <2>4. op \notin OwnerOps
      BY DEF OwnerOps, LinkOps
    <2> HIDE DEF q
    <2>5. q \in SoundCalls
      BY <2>1, <2>2, <2>3, <2>4 DEF SoundCalls
    <2>6. QED
      BY <2>2, <2>5, OnlyTheCall
  <1>4. ASSUME NEW who \in Accounts \cup {Nobody}, NEW l \in Links, BeginRevoke(h, who, l)
        PROVE  DocInv'
    <2> DEFINE q == [IdleDocRequest EXCEPT !.at = "begun", !.op = "revoke", !.who = who, !.link = l]
    <2>1. q \in RequestState /\ q.at = "begun" /\ q.op = "revoke" /\ q.link = l /\ q.ready = {}
      BY IdleDocCall DEF RequestState
    <2>2. docRequest' = [docRequest EXCEPT ![h] = q] /\ UNCHANGED <<document, link, stored, hosted>>
      BY <1>4 DEF BeginRevoke
    <2> HIDE DEF q
    <2>3. q \in SoundCalls
      BY <2>1 DEF SoundCalls, OwnerOps, LinkOps
    <2>4. QED
      BY <2>2, <2>3, OnlyTheCall
  <1>5. ASSUME NEW p \in Pictures, BeginMedia(h, p)
        PROVE  DocInv'
    <2> DEFINE q == [IdleDocRequest EXCEPT !.at = "putting", !.op = "upload", !.text = {p}]
    <2>1. q \in RequestState /\ q.at = "putting" /\ q.op = "upload" /\ q.puts = 0 /\ q.ready = {}
      <3>1. {p} \in SUBSET Pictures
        OBVIOUS
      <3>2. QED
        BY <3>1, IdleDocCall DEF RequestState
    <2>2. docRequest' = [docRequest EXCEPT ![h] = q] /\ UNCHANGED <<document, link, stored, hosted>>
      BY <1>5 DEF BeginMedia
    <2> HIDE DEF q
    <2>3. q.op \notin OwnerOps /\ q.op \notin LinkOps /\ q.op \notin {"share", "revoke"}
      BY <2>1 DEF OwnerOps, LinkOps
    <2>4. q \in SoundCalls
      <3>1. ~(q.puts >= 1)
        BY <2>1
      <3>2. QED
        BY <2>1, <2>3, <3>1 DEF SoundCalls
    <2>5. QED
      BY <2>2, <2>4, OnlyTheCall
  <1>6. QED
    BY <1>2, <1>3, <1>4, <1>5

\* A request that goes on with what it found.
LEMMA CallFinds ==
  ASSUME DocInv, NEW h \in DocHandlers,
         \/ EnsureCanModify(h) \/ FindForUpdate(h) \/ ResolveActiveShare(h) \/ ActiveDocument(h)
         \/ MayRevoke(h) \/ AnswerRendered(h) \/ DocRequestFails(h)
         \/ \E p \in Pictures : ResolveImage(h, p)
  PROVE  DocInv'
  <1> DEFINE q == docRequest[h]
  <1>1. /\ q \in SoundCalls /\ q \in RequestState /\ Req(h) = q
        /\ document \in [Documents -> DocumentRow] /\ link \in [Links -> LinkRow]
        /\ UNCHANGED <<document, link, stored, hosted>>
    BY CallIs DEF DocInv, DocTypeOK, EnsureCanModify, FindForUpdate, ResolveActiveShare, ActiveDocument,
       MayRevoke, AnswerRendered, DocRequestFails, ResolveImage
  <1>2. CASE Respond(h)
    BY <1>1, <1>2, CallGivenUp
  <1>3. CASE EnsureCanModify(h)
    <2> DEFINE d == q.doc
    <2>1. d \in Documents /\ q.at = "begun" /\ q.op \in OwnerOps /\ q.op \notin LinkOps /\ q.op # "revoke"
      BY <1>1, <1>3 DEF EnsureCanModify, SoundCalls, OwnerOps, LinkOps
    <2>2. \/ Respond(h)
          \/ Alive(d) /\ CanModify(d, q.who)
      BY <1>1, <1>3 DEF EnsureCanModify
    <2>3. Alive(d) => ~q.hopeless
      BY <1>1, <2>1 DEF SoundCalls, Alive
    <2>4. ASSUME Alive(d), CanModify(d, q.who), q.op = "export"
          PROVE  DocInv'
      <3> DEFINE g == [q EXCEPT !.at = "rendering", !.text = document[d].text, !.left = document[d].text]
      <3>1. docRequest' = [docRequest EXCEPT ![h] = g]
        BY <1>1, <1>3, <2>4 DEF EnsureCanModify
      <3>2. /\ g \in RequestState /\ g.at = "rendering" /\ g.op = q.op /\ g.doc = q.doc /\ g.who = q.who
            /\ g.hopeless = q.hopeless /\ g.ready = q.ready /\ g.link = q.link /\ g.text = g.left
        BY <1>1, <2>1 DEF RequestState, DocumentRow
      <3> HIDE DEF g
      <3>3. g \in SoundCalls
        BY <1>1, <2>1, <2>3, <2>4, <3>2 DEF SoundCalls
      <3>4. QED
        BY <1>1, <3>1, <3>3, OnlyTheCall
    <2>5. ASSUME Alive(d), CanModify(d, q.who), q.op # "export"
          PROVE  DocInv'
      <3> DEFINE g == [q EXCEPT !.at = "in"]
      <3>1. docRequest' = [docRequest EXCEPT ![h] = g] \/ Respond(h)
        BY <1>1, <1>3, <2>5 DEF EnsureCanModify, Goto
      <3>2. /\ g \in RequestState /\ g.at = "in" /\ g.op = q.op /\ g.doc = q.doc /\ g.who = q.who
            /\ g.hopeless = q.hopeless /\ g.ready = q.ready /\ g.link = q.link
        BY <1>1 DEF RequestState
      <3> HIDE DEF g
      <3>3. g \in SoundCalls
        BY <1>1, <2>1, <2>3, <2>5, <3>2 DEF SoundCalls
      <3>4. QED
        BY <1>1, <1>2, <3>1, <3>3, OnlyTheCall
    <2>6. QED
      BY <1>2, <2>2, <2>4, <2>5
  <1>4. CASE FindForUpdate(h) /\ Alive(q.doc)
    <2> DEFINE g == [q EXCEPT !.at = "found"]
    <2>1. docRequest' = [docRequest EXCEPT ![h] = g] /\ q.at = "in" /\ q.op \in {"save", "link save"}
      BY <1>1, <1>4 DEF FindForUpdate, Goto
    <2>2. /\ g \in RequestState /\ g.at = "found" /\ g.op = q.op /\ g.doc = q.doc /\ g.who = q.who
          /\ g.hopeless = q.hopeless /\ g.ready = q.ready /\ g.link = q.link
      BY <1>1 DEF RequestState
    <2>3. q.op \in OwnerOps \/ q.op \in LinkOps
      BY <2>1 DEF OwnerOps, LinkOps
    <2>4. ~q.hopeless
      BY <1>1, <1>4, <2>1, <2>3 DEF SoundCalls
    <2> HIDE DEF g
    <2>5. g \in SoundCalls
      BY <1>1, <2>1, <2>2, <2>4 DEF SoundCalls
    <2>6. QED
      BY <1>1, <2>1, <2>5, OnlyTheCall
  <1>5. CASE ResolveActiveShare(h) /\ Active(q.link) /\ Gives(link[q.link].capability, q.op)
    <2> DEFINE g == [q EXCEPT !.at = "in", !.doc = link[q.link].doc]
    <2>1. docRequest' = [docRequest EXCEPT ![h] = g] /\ q.op \in LinkOps /\ q.op \notin OwnerOps /\ q.op # "revoke"
      BY <1>1, <1>5 DEF ResolveActiveShare, LinkOps, OwnerOps
    <2>2. link[q.link].doc \in Documents
      BY <1>1, <2>1 DEF SoundCalls, LinkRow
    <2>3. /\ g \in RequestState /\ g.at = "in" /\ g.op = q.op /\ g.doc = link[q.link].doc
          /\ g.hopeless = q.hopeless /\ g.ready = q.ready /\ g.link = q.link
      BY <1>1, <2>2 DEF RequestState
    <2> HIDE DEF g
    <2>4. g \in SoundCalls
      BY <1>1, <1>5, <2>1, <2>3 DEF SoundCalls
    <2>5. QED
      BY <1>1, <2>1, <2>4, OnlyTheCall
  <1>6. CASE ActiveDocument(h) /\ Alive(q.doc)
    <2> DEFINE lf == IF q.op = "link export" THEN document[q.doc].text ELSE {}
               g == [q EXCEPT !.at = "rendering", !.text = document[q.doc].text, !.left = lf]
    <2>1. docRequest' = [docRequest EXCEPT ![h] = g] /\ q.at = "in" /\ q.op \in {"link read", "link export"}
      BY <1>1, <1>6 DEF ActiveDocument
    <2>2. q.op \in LinkOps /\ q.op \notin OwnerOps /\ q.op # "revoke"
      BY <2>1 DEF OwnerOps, LinkOps
    <2>3. q.doc \in Documents
      BY <1>1, <2>1, <2>2 DEF SoundCalls, LinkRow
    <2>4. lf \in SUBSET Pictures /\ (q.op # "link read" => lf = document[q.doc].text)
      BY <1>1, <2>1, <2>3 DEF DocumentRow
    <2>5. document[q.doc].text \in SUBSET Pictures
      BY <1>1, <2>3 DEF DocumentRow
    <2> HIDE DEF lf
    <2>6. /\ g \in RequestState /\ g.at = "rendering" /\ g.op = q.op /\ g.doc = q.doc /\ g.who = q.who
          /\ g.hopeless = q.hopeless /\ g.ready = q.ready /\ g.link = q.link
          /\ g.text = document[q.doc].text /\ g.left = lf
      BY <1>1, <2>4, <2>5 DEF RequestState
    <2> HIDE DEF g
    <2>7. g.op # "link read" => g.text \cap g.ready \subseteq g.got \cup g.left
      BY <2>4, <2>6
    <2>8. g \in SoundCalls
      BY <1>1, <2>1, <2>2, <2>6, <2>7 DEF SoundCalls
    <2>9. QED
      BY <1>1, <2>1, <2>8, OnlyTheCall
  <1>7. CASE MayRevoke(h) /\ Goto(h, "in")
    <2> DEFINE g == [q EXCEPT !.at = "in"]
    <2>1. docRequest' = [docRequest EXCEPT ![h] = g] /\ q.op = "revoke"
      BY <1>1, <1>7 DEF MayRevoke, Goto
    <2>2. q.op \notin OwnerOps /\ q.op \notin LinkOps
      BY <2>1 DEF OwnerOps, LinkOps
    <2>3. g \in RequestState /\ g.at = "in" /\ g.op = q.op /\ g.ready = q.ready /\ g.link = q.link
      BY <1>1 DEF RequestState
    <2> HIDE DEF g
    <2>4. g \in SoundCalls
      BY <1>1, <2>1, <2>2, <2>3 DEF SoundCalls
    <2>5. QED
      BY <1>1, <2>1, <2>4, OnlyTheCall
  <1>8. ASSUME NEW p \in Pictures, ResolveImage(h, p)
        PROVE  DocInv'
    <2> DEFINE g == [q EXCEPT !.left = q.left \ {p}, !.got = q.got \cup Fetched(p)]
    <2>1. docRequest' = [docRequest EXCEPT ![h] = g] /\ q.at = "rendering"
      BY <1>1, <1>8 DEF ResolveImage
    <2>2. Fetched(p) \subseteq Pictures /\ (p \in q.ready => p \in Fetched(p))
      BY <1>1 DEF Fetched, SoundCalls, DocInv, HostedIsStored
    <2>3. q.left \ {p} \in SUBSET Pictures /\ q.got \cup Fetched(p) \in SUBSET Pictures
      BY <1>1, <2>2 DEF RequestState
    <2>4. /\ g \in RequestState /\ g.at = q.at /\ g.op = q.op /\ g.doc = q.doc /\ g.who = q.who
          /\ g.hopeless = q.hopeless /\ g.ready = q.ready /\ g.link = q.link /\ g.text = q.text
          /\ g.left = q.left \ {p} /\ g.got = q.got \cup Fetched(p)
      BY <1>1, <2>3 DEF RequestState
    <2> HIDE DEF g
    <2>5. q.op # "link read" => q.text \cap q.ready \subseteq q.got \cup q.left
      BY <1>1, <2>1 DEF SoundCalls
    <2>6. g.op # "link read" => g.text \cap g.ready \subseteq g.got \cup g.left
      BY <2>2, <2>4, <2>5
    <2>7. g \in SoundCalls
      BY <1>1, <2>1, <2>4, <2>6 DEF SoundCalls
    <2>8. QED
      BY <1>1, <2>1, <2>7, OnlyTheCall
  <1>9. QED
    <2>1. CASE FindForUpdate(h)
      BY <1>1, <1>2, <1>4, <2>1 DEF FindForUpdate
    <2>2. CASE ResolveActiveShare(h)
      BY <1>1, <1>2, <1>5, <2>2 DEF ResolveActiveShare
    <2>3. CASE ActiveDocument(h)
      BY <1>1, <1>2, <1>6, <2>3 DEF ActiveDocument
    <2>4. CASE MayRevoke(h)
      BY <1>1, <1>2, <1>7, <2>4 DEF MayRevoke
    <2>5. CASE AnswerRendered(h) \/ DocRequestFails(h)
      BY <1>2, <2>5 DEF AnswerRendered, DocRequestFails
    <2>6. QED
      BY <1>3, <1>8, <2>1, <2>2, <2>3, <2>4, <2>5

\* What a step that writes a table or the store has to keep.
LEMMA TablesChange ==
  ASSUME DocInv, NEW h \in DocHandlers, Respond(h) \/ UNCHANGED docRequest,
         document' \in [Documents -> DocumentRow], link' \in [Links -> LinkRow],
         hosted' \in SUBSET Pictures, UNCHANGED stored, HostedIsStored', LinksAreToDocuments',
         \A d \in Documents : document[d].made =>
           /\ document'[d].made /\ document'[d].owner = document[d].owner
           /\ document[d].deleted => document'[d].deleted,
         \A l \in Links : link[l].doc # NoDocument =>
           /\ link'[l].doc = link[l].doc /\ link'[l].capability = link[l].capability
           /\ link[l].revoked => link'[l].revoked,
         hosted \subseteq hosted'
  PROVE  DocInv'
  <1>1. SoundCalls \subseteq SoundCalls'
    BY CallsStay
  <1>2. docRequest' \in [DocHandlers -> SoundCalls']
    BY <1>1, IdleDocCall DEF DocInv, Respond
  <1>3. docRequest' \in [DocHandlers -> RequestState]
    BY <1>2 DEF SoundCalls
  <1>4. QED
    BY <1>2, <1>3 DEF DocInv, DocTypeOK

LEMMA DocumentWritten ==
  ASSUME DocInv, NEW h \in DocHandlers,
         \/ UpdateHtml(h) \/ SoftDelete(h) \/ Revoke(h) \/ AnswerMedia(h)
         \/ \E capability \in Capabilities : CreateLink(h, capability)
         \/ \E d \in Documents, who \in Accounts \cup {Nobody}, text \in SUBSET Pictures : CreateDocument(d, who, text)
  PROVE  DocInv'
  <1> DEFINE q == docRequest[h]
  <1>1. /\ q \in SoundCalls /\ q \in RequestState /\ Req(h) = q
        /\ document \in [Documents -> DocumentRow] /\ link \in [Links -> LinkRow] /\ hosted \in SUBSET Pictures
        /\ LinksAreToDocuments /\ HostedIsStored
    BY CallIs DEF DocInv, DocTypeOK
  <1>2. CASE UpdateHtml(h) \/ SoftDelete(h)
    <2>1. q.doc \in Documents /\ q.text \in SUBSET Pictures
      <3>1. CASE q.op \in OwnerOps
        BY <1>1, <3>1 DEF SoundCalls, RequestState
      <3>2. CASE q.op \in LinkOps /\ UpdateHtml(h)
        BY <1>1, <3>2 DEF UpdateHtml, SoundCalls, RequestState, LinkRow
      <3>3. q.op \in OwnerOps \/ (q.op \in LinkOps /\ UpdateHtml(h))
        BY <1>1, <1>2 DEF UpdateHtml, SoftDelete, SoundCalls, OwnerOps, LinkOps
      <3>4. QED
        BY <3>1, <3>2, <3>3
    <2>2. \A row \in DocumentRow :
            /\ [row EXCEPT !.text = q.text] \in DocumentRow /\ [row EXCEPT !.deleted = TRUE] \in DocumentRow
            /\ [row EXCEPT !.text = q.text].made = row.made /\ [row EXCEPT !.text = q.text].owner = row.owner
            /\ [row EXCEPT !.text = q.text].deleted = row.deleted /\ [row EXCEPT !.deleted = TRUE].deleted
            /\ [row EXCEPT !.deleted = TRUE].made = row.made /\ [row EXCEPT !.deleted = TRUE].owner = row.owner
      BY <2>1 DEF DocumentRow
    <2>3. PICK row \in DocumentRow :
            /\ document' = [document EXCEPT ![q.doc] = row]
            /\ row.made = document[q.doc].made /\ row.owner = document[q.doc].owner
            /\ document[q.doc].deleted => row.deleted
      <3>1. document[q.doc] \in DocumentRow
        BY <1>1, <2>1
      <3>2. \/ document' = [document EXCEPT ![q.doc] = [document[q.doc] EXCEPT !.text = q.text]]
            \/ document' = [document EXCEPT ![q.doc] = [document[q.doc] EXCEPT !.deleted = TRUE]]
        BY <1>1, <1>2 DEF UpdateHtml, SoftDelete
      <3>3. QED
        BY ZenonT(60), <2>2, <3>1, <3>2
    <2>4. /\ Respond(h) /\ UNCHANGED <<link, stored, hosted>>
      BY <1>2 DEF UpdateHtml, SoftDelete
    <2>5. document' \in [Documents -> DocumentRow]
          /\ \A d \in Documents : /\ document'[d].made = document[d].made /\ document'[d].owner = document[d].owner
                                  /\ document[d].deleted => document'[d].deleted
      BY <1>1, <2>1, <2>3
    <2>6. LinksAreToDocuments' /\ HostedIsStored'
      BY <1>1, <2>4, <2>5 DEF LinksAreToDocuments, HostedIsStored, LinkRow
    <2>7. QED
      BY <1>1, <2>4, <2>5, <2>6, TablesChange
  <1>3. CASE Revoke(h)
    <2>1. /\ Respond(h) /\ UNCHANGED <<document, stored, hosted>> /\ q.link \in Links
          /\ link' = [link EXCEPT ![q.link].revoked = TRUE]
      BY <1>1, <1>3 DEF Revoke, SoundCalls
    <2>2. link' \in [Links -> LinkRow]
          /\ \A l \in Links : /\ link'[l].doc = link[l].doc /\ link'[l].capability = link[l].capability
                              /\ link[l].revoked => link'[l].revoked
      BY <1>1, <2>1 DEF LinkRow
    <2>3. LinksAreToDocuments' /\ HostedIsStored'
      BY <1>1, <2>1, <2>2 DEF LinksAreToDocuments, HostedIsStored
    <2>4. QED
      BY <1>1, <2>1, <2>2, <2>3, TablesChange
  <1>4. ASSUME NEW capability \in Capabilities, CreateLink(h, capability)
        PROVE  DocInv'
    <2> DEFINE row == [doc |-> q.doc, capability |-> capability, revoked |-> FALSE]
    <2>1. /\ Respond(h) /\ UNCHANGED <<document, stored, hosted>>
          /\ q.op = "share" /\ link[q.link].doc = NoDocument /\ link' = [link EXCEPT ![q.link] = row]
      BY <1>1, <1>4 DEF CreateLink
    <2>2. q.doc \in Documents /\ document[q.doc].made /\ q.link \in Links
      BY <1>1, <2>1 DEF SoundCalls, OwnerOps
    <2>3. /\ link' \in [Links -> LinkRow]
          /\ link'[q.link].doc = q.doc
          /\ \A l \in Links : link[l].doc # NoDocument => link'[l] = link[l]
          /\ \A l \in Links : l # q.link => link'[l] = link[l]
      BY <1>1, <2>1, <2>2 DEF LinkRow
    <2>4. LinksAreToDocuments' /\ HostedIsStored'
      BY <1>1, <2>1, <2>2, <2>3 DEF LinksAreToDocuments, HostedIsStored
    <2>5. QED
      BY <1>1, <2>1, <2>3, <2>4, TablesChange
  <1>5. CASE AnswerMedia(h)
    <2>1. Respond(h) /\ UNCHANGED <<document, link, stored>> /\ hosted' = hosted \cup q.text /\ q.text \in SUBSET Pictures
      BY <1>1, <1>5 DEF AnswerMedia, RequestState
    <2>2. \A p \in q.text : <<p, "original">> \in stored
      <3>1. q.at = "putting" /\ q.puts = 3
        BY <1>5 DEF AnswerMedia, Req
      <3>2. q.puts >= 1 => \A p \in q.text : <<p, "original">> \in stored
        BY <1>1, <3>1, PuttingIs
      <3>3. q.puts >= 1
        BY <3>1
      <3>4. QED
        BY <3>2, <3>3
    <2>3. LinksAreToDocuments' /\ HostedIsStored' /\ hosted' \in SUBSET Pictures
      BY <1>1, <2>1, <2>2 DEF LinksAreToDocuments, HostedIsStored
    <2>4. QED
      BY <1>1, <2>1, <2>3, TablesChange
  <1>6. ASSUME NEW d \in Documents, NEW who \in Accounts \cup {Nobody}, NEW text \in SUBSET Pictures,
               CreateDocument(d, who, text)
        PROVE  DocInv'
    <2> DEFINE row == [made |-> TRUE, owner |-> who, text |-> text, deleted |-> FALSE]
    <2>1. /\ ~document[d].made /\ document' = [document EXCEPT ![d] = row] /\ UNCHANGED <<link, stored, hosted, docRequest>>
      BY <1>6 DEF CreateDocument
    <2>2. row \in DocumentRow /\ row.made
      BY DEF DocumentRow
    <2> HIDE DEF row
    <2>3. document' \in [Documents -> DocumentRow]
          /\ \A x \in Documents : document[x].made => document'[x].made /\ document'[x] = document[x]
      BY <1>1, <2>1, <2>2
    <2>4. LinksAreToDocuments' /\ HostedIsStored'
      BY <1>1, <2>1, <2>3 DEF LinksAreToDocuments, HostedIsStored, LinkRow
    <2>5. QED
      BY <1>1, <2>1, <2>3, <2>4, TablesChange
  <1>7. QED
    BY <1>2, <1>3, <1>4, <1>5, <1>6

LEMMA VariantPut ==
  ASSUME DocInv, NEW h \in DocHandlers, PutVariant(h)
  PROVE  DocInv'
  <1> DEFINE q == docRequest[h]
             g == [q EXCEPT !.puts = q.puts + 1]
             v == Variants[q.puts + 1]
  <1>1. /\ q \in SoundCalls /\ q \in RequestState /\ Req(h) = q
        /\ q.at = "putting" /\ q.op = "upload" /\ q.puts \in 0..2 /\ q.text \in SUBSET Pictures
    <2>1. q \in SoundCalls /\ q \in RequestState /\ Req(h) = q /\ q.at = "putting" /\ q.puts < 3
      BY CallIs DEF PutVariant
    <2>2. q.op = "upload" /\ q.puts \in 0..3 /\ q.text \in SUBSET Pictures
      BY <2>1, PuttingIs
    <2>3. QED
      BY <2>1, <2>2
  <1>2. /\ stored' = stored \cup (q.text \X {v}) /\ docRequest' = [docRequest EXCEPT ![h] = g]
        /\ UNCHANGED <<document, link, hosted>>
    BY <1>1 DEF PutVariant
  <1>3. v \in {"original", "display", "thumb"} /\ (q.puts = 0 => v = "original")
    <2>1. CASE q.puts = 0
      BY <2>1 DEF Variants
    <2>2. CASE q.puts = 1
      BY <2>2 DEF Variants
    <2>3. CASE q.puts = 2
      BY <2>3 DEF Variants
    <2>4. QED
      BY <1>1, <2>1, <2>2, <2>3
  <1> HIDE DEF v
  <1>4. \A p \in q.text : <<p, "original">> \in stored'
    <2>1. CASE q.puts = 0
      BY <1>2, <1>3, <2>1
    <2>2. CASE q.puts # 0
      <3>1. q.puts >= 1
        BY <1>1, <2>2
      <3>2. QED
        BY <1>1, <1>2, <3>1, PuttingIs
    <2>3. QED
      BY <2>1, <2>2
  <1>5. /\ g \in RequestState /\ g.at = q.at /\ g.op = q.op /\ g.text = q.text /\ g.ready = q.ready /\ g.link = q.link
    <2>1. q.puts + 1 \in 0..3
      BY <1>1
    <2>2. QED
      BY <1>1, <2>1 DEF RequestState
  <1> HIDE DEF g
  <1>6. SoundCalls \subseteq SoundCalls' /\ stored \subseteq stored'
    BY <1>2, CallsStay
  <1>7. q.op \notin OwnerOps /\ q.op \notin LinkOps /\ q.op \notin {"share", "revoke"}
    BY <1>1 DEF OwnerOps, LinkOps
  <1>8. g \in SoundCalls'
    <2>1. g.ready \subseteq hosted'
      BY <1>1, <1>2, <1>5 DEF SoundCalls
    <2>2. QED
      BY <1>1, <1>4, <1>5, <1>7, <2>1 DEF SoundCalls
  <1>9. docRequest' \in [DocHandlers -> SoundCalls'] /\ docRequest' \in [DocHandlers -> RequestState]
    <2>1. docRequest' \in [DocHandlers -> SoundCalls']
      BY <1>2, <1>6, <1>8 DEF DocInv
    <2>2. SoundCalls' \subseteq RequestState
      BY DEF SoundCalls
    <2>3. QED
      BY <2>1, <2>2
  <1>10. stored' \in SUBSET (Pictures \X {"original", "display", "thumb"})
    BY <1>1, <1>2, <1>3 DEF DocInv, DocTypeOK
  <1>11. HostedIsStored' /\ LinksAreToDocuments'
    BY <1>2, <1>6 DEF DocInv, HostedIsStored, LinksAreToDocuments
  <1>12. QED
    BY <1>2, <1>9, <1>10, <1>11 DEF DocInv, DocTypeOK

LEMMA DocInvInit == DocInit => DocInv
  <1> SUFFICES ASSUME DocInit PROVE DocInv
    OBVIOUS
  <1>1. DocTypeOK
    BY IdleDocCall DEF DocInit, DocTypeOK, DocumentRow, LinkRow, Capabilities
  <1>2. LinksAreToDocuments /\ HostedIsStored
    BY DEF DocInit, LinksAreToDocuments, HostedIsStored
  <1>3. docRequest \in [DocHandlers -> SoundCalls]
    BY IdleDocCall DEF DocInit
  <1>4. QED
    BY <1>1, <1>2, <1>3 DEF DocInv

LEMMA DocInvNext == DocInv /\ [DocNext]_docVars => DocInv'
  <1> SUFFICES ASSUME DocInv, [DocNext]_docVars
               PROVE  DocInv'
    OBVIOUS
  <1>1. ASSUME NEW h \in DocHandlers, DocHandle(h)
        PROVE  DocInv'
    BY <1>1, CallBegins, CallFinds, DocumentWritten, VariantPut DEF DocHandle
  <1>2. ASSUME NEW d \in Documents, NEW who \in Accounts \cup {Nobody}, NEW text \in SUBSET Pictures,
               CreateDocument(d, who, text)
        PROVE  DocInv'
    <2>1. UNCHANGED <<link, stored, hosted, docRequest>>
      BY <1>2 DEF CreateDocument
    <2>2. CASE DocHandlers # {}
      BY <1>2, <2>2, DocumentWritten
    <2>3. CASE DocHandlers = {}
      BY <1>2, <2>1, <2>3 DEF CreateDocument, DocInv, DocTypeOK, DocumentRow, LinkRow, LinksAreToDocuments, HostedIsStored
    <2>4. QED
      BY <2>2, <2>3
  <1>3. CASE UNCHANGED docVars
    <2>1. SoundCalls \subseteq SoundCalls' /\ UNCHANGED <<document, link, stored, hosted, docRequest>>
      BY <1>3, CallsStay DEF docVars
    <2>2. QED
      BY <2>1 DEF DocInv, DocTypeOK, LinksAreToDocuments, HostedIsStored
  <1>4. {} \in SUBSET Pictures
    OBVIOUS
  <1>5. QED
    BY <1>1, <1>2, <1>3, <1>4 DEF DocNext, CreateEmpty, UploadDocument

LEMMA DocInvariant == DocSpec => []DocInv
  BY DocInvInit, DocInvNext, PTL DEF DocSpec

\* The documents, links, objects and requests have the shapes the code gives them.
THEOREM DocTypeCorrect == DocSpec => []DocTypeOK
  <1>1. DocInv => DocTypeOK
    BY DEF DocInv
  <1>2. QED
    BY <1>1, DocInvariant, PTL

\* Every picture whose upload was answered before an export was asked for is in
\* the export, whatever uploads and exports run or die meanwhile.
THEOREM ExportHasItsPicturesHolds == DocSpec => []ExportHasItsPictures
  <1>1. DocInv => ExportHasItsPictures
    <2> SUFFICES ASSUME DocInv, NEW h \in DocHandlers, Req(h).at = "rendering", Req(h).op # "link read",
                        Req(h).left = {}
                 PROVE  Req(h).text \cap Req(h).ready \subseteq Req(h).got
      BY DEF ExportHasItsPictures
    <2>1. Req(h).text \cap Req(h).ready \subseteq Req(h).got \cup Req(h).left
      BY CallIs DEF SoundCalls
    <2>2. QED
      BY <2>1
  <1>2. QED
    BY <1>1, DocInvariant, PTL

\* A document's text is changed by its owner, by anybody if it has none, or by
\* the holder of a link to edit it, and never for a request that came too late.
THEOREM WritesAreEntitledHolds == DocSpec => WritesAreEntitled
  <1> DEFINE Entitled ==
       \A d \in Documents :
         document[d].made /\ document'[d].text # document[d].text =>
           \E h \in DocHandlers :
             /\ Req(h).at = "found" /\ Req(h).doc = d /\ docRequest'[h].at = "idle"
             /\ ~Req(h).hopeless
             /\ \/ Req(h).op = "save" /\ document[d].owner \in {Nobody, Req(h).who}
                \/ /\ Req(h).op = "link save"
                   /\ link[Req(h).link].doc = d
                   /\ link[Req(h).link].capability = "edit"
  <1>1. DocInv /\ [DocNext]_docVars => Entitled
    <2> SUFFICES ASSUME DocInv, [DocNext]_docVars, NEW d \in Documents,
                        document[d].made, document'[d].text # document[d].text
                 PROVE  \E h \in DocHandlers :
                          /\ Req(h).at = "found" /\ Req(h).doc = d /\ docRequest'[h].at = "idle"
                          /\ ~Req(h).hopeless
                          /\ \/ Req(h).op = "save" /\ document[d].owner \in {Nobody, Req(h).who}
                             \/ /\ Req(h).op = "link save"
                                /\ link[Req(h).link].doc = d
                                /\ link[Req(h).link].capability = "edit"
      OBVIOUS
    <2>1. document' # document /\ document \in [Documents -> DocumentRow]
      BY DEF DocInv, DocTypeOK
    <2>2. ~\E x \in Documents, who \in Accounts \cup {Nobody}, text \in SUBSET Pictures : CreateDocument(x, who, text)
      BY <2>1 DEF CreateDocument
    <2>3. PICK h \in DocHandlers : DocHandle(h)
      <3>1. {} \in SUBSET Pictures
        OBVIOUS
      <3>2. QED
        BY <2>1, <2>2, <3>1 DEF DocNext, docVars, CreateEmpty, UploadDocument
    <2>4. ~SoftDelete(h)
      BY <2>1 DEF SoftDelete, DocumentRow
    <2>5. UpdateHtml(h)
      BY <2>1, <2>3, <2>4 DEF DocHandle, BeginOwnerOp, BeginLinkOp, BeginRevoke, BeginMedia, ResolveImage, CreateLink,
         EnsureCanModify, FindForUpdate, ResolveActiveShare, ActiveDocument, MayRevoke, Revoke, AnswerRendered,
         PutVariant, AnswerMedia, DocRequestFails
    <2>6. Req(h).at = "found" /\ Req(h).doc = d
      BY <2>1, <2>5 DEF UpdateHtml
    <2>7. docRequest'[h].at = "idle"
      BY <2>5, IdleDocCall DEF UpdateHtml, Respond, DocInv, DocTypeOK
    <2>8. ~Req(h).hopeless /\ Req(h).op \in {"save", "link save"}
      BY <2>6, CallIs DEF SoundCalls
    <2>9. CASE Req(h).op = "save"
      BY <2>6, <2>7, <2>8, <2>9, CallIs DEF SoundCalls, OwnerOps, CanModify
    <2>10. CASE Req(h).op = "link save"
      <3>1. link[Req(h).link].doc = d /\ Gives(link[Req(h).link].capability, "link save")
        BY <2>6, <2>10, CallIs DEF SoundCalls, LinkOps
      <3>2. QED
        BY <2>6, <2>7, <2>8, <2>10, <3>1 DEF Gives
    <2>11. QED
      BY <2>8, <2>9, <2>10
  <1>2. DocInv /\ [DocNext]_docVars => [Entitled]_docVars
    BY <1>1
  <1>3. QED
    BY <1>2, DocInvariant, PTL DEF DocSpec, WritesAreEntitled
=============================================================================
