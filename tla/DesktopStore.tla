---------------------------- MODULE DesktopStore ----------------------------
(***************************************************************************)
(* The SQLite store of the desktop editor: chapters and their snapshots.  *)
(* pywebview runs every call of the page on a thread of its own and every *)
(* call opens a connection of its own.  Python's sqlite3 begins the       *)
(* transaction at the first statement that writes, so what a call reads   *)
(* before is read in a step of its own: every operation that reads and    *)
(* then writes is two steps here.  Titles, synopsis, status and the place *)
(* of a chapter in the book (order_no) are left out.                      *)
(***************************************************************************)
EXTENDS Integers, FiniteSets, FiniteSetsExt

CONSTANTS Chapters,      \* chapter ids (AUTOINCREMENT: never used twice)
          Texts,         \* what a chapter can hold
          DefaultHtml,   \* DEFAULT_CHAPTER_HTML
          Threads,       \* js_api calls at a time
          AutoInterval,  \* SNAPSHOT_AUTO_INTERVAL_S
          MaxSnapshots,  \* SNAPSHOT_MAX_PER_CHAPTER
          MaxClock,      \* bound: the clock
          MaxSnapshotId, \* bound: snapshots ever taken
          Seed, NoText

ASSUME DesktopStoreAssumption == /\ Seed \in Chapters
                                 /\ DefaultHtml \in Texts
                                 /\ NoText \notin Texts
                                 /\ MaxSnapshots \in Nat \ {0}
                                 /\ MaxClock \in Nat /\ MaxSnapshotId \in Nat

VARIABLES text,     \* chapter.html, NoText where there is no row
          fresh,    \* ids not given out yet
          snaps,    \* the snapshot table
          nextSnap, \* its AUTOINCREMENT counter
          now,      \* the local clock
          call      \* the calls under way

storeVars == <<text, fresh, snaps, nextSnap, now, call>>

Labels == {"auto", "manual", "restore"}
Snapshots == [id : 1..MaxSnapshotId, chapter : Chapters, html : Texts,
              label : Labels, ts : 0..MaxClock]
IdleCall == [op |-> "idle", chapter |-> Seed, html |-> NoText, before |-> NoText, ts |-> 0]
CallRecords == [op : {"idle", "save", "take", "restore"}, chapter : Chapters,
                html : Texts \cup {NoText}, before : Texts \cup {NoText}, ts : 0..MaxClock]

StoreTypeOK ==
    /\ text \in [Chapters -> Texts \cup {NoText}]
    /\ fresh \subseteq Chapters
    /\ snaps \subseteq Snapshots
    /\ nextSnap \in 1..(MaxSnapshotId + 1)
    /\ now \in 0..MaxClock
    /\ call \in [Threads -> CallRecords]

\* The first run makes one book with one chapter in it.
StoreInit ==
    /\ text = [c \in Chapters |-> IF c = Seed THEN DefaultHtml ELSE NoText]
    /\ fresh = Chapters \ {Seed}
    /\ snaps = {}
    /\ nextSnap = 1
    /\ now = 0
    /\ call = [t \in Threads |-> IdleCall]

-----------------------------------------------------------------------------
(* Snapshots *)

SnapsOf(S, c) == {s \in S : s.chapter = c}
Older(s, t) == s.ts < t.ts \/ (s.ts = t.ts /\ s.id < t.id)

\* The newest snapshot of the chapter is AutoInterval old, or there is none.
ShouldAutoSnapshot(c) == \A s \in SnapsOf(snaps, c) : now - s.ts >= AutoInterval

\* Mutant: the newest go first.
PruneNewest(S, c) ==
    {s \in S : s.chapter = c => Cardinality({r \in SnapsOf(S, c) : Older(r, s)}) < MaxSnapshots}

\* Of a chapter's snapshots those stay that fewer than MaxSnapshots are newer than.
PruneSnapshots(S, c) ==
    {s \in S : s.chapter = c => Cardinality({r \in SnapsOf(S, c) : Older(s, r)}) < MaxSnapshots}

InsertSnapshot(c, html, label, ts) ==
    /\ nextSnap <= MaxSnapshotId
    /\ snaps' = PruneSnapshots(snaps \cup {[id |-> nextSnap, chapter |-> c, html |-> html,
                                            label |-> label, ts |-> ts]}, c)
    /\ nextSnap' = nextSnap + 1

-----------------------------------------------------------------------------
(* The calls *)

Begin(t, op, c, html, before) ==
    /\ call[t] = IdleCall
    /\ call' = [call EXCEPT ![t] = [op |-> op, chapter |-> c, html |-> html,
                                    before |-> before, ts |-> now]]
    /\ UNCHANGED <<text, fresh, snaps, nextSnap, now>>
AnswerCall(t) == call' = [call EXCEPT ![t] = IdleCall]

\* save_chapter reads what it will overwrite if a snapshot of it is due.  A
\* patch need not hold a text (NoText).
StartSave(t, c, html) ==
    Begin(t, "save", c, html, IF ShouldAutoSnapshot(c) THEN text[c] ELSE NoText)

SaveChapter(t) ==
    LET k == call[t] IN
    /\ k.op = "save"
    /\ IF k.before # NoText THEN InsertSnapshot(k.chapter, k.before, "auto", k.ts)
                            ELSE UNCHANGED <<snaps, nextSnap>>
    /\ text' = IF k.html # NoText /\ text[k.chapter] # NoText
               THEN [text EXCEPT ![k.chapter] = k.html] ELSE text
    /\ AnswerCall(t)
    /\ UNCHANGED <<fresh, now>>

StartTake(t, c) == text[c] # NoText /\ Begin(t, "take", c, NoText, text[c])

TakeSnapshot(t) ==
    /\ call[t].op = "take"
    /\ InsertSnapshot(call[t].chapter, call[t].before, "manual", call[t].ts)
    /\ AnswerCall(t)
    /\ UNCHANGED <<text, fresh, now>>

\* An orphan, whose chapter was deleted, cannot be restored.
StartRestore(t, s) ==
    /\ text[s.chapter] # NoText
    /\ Begin(t, "restore", s.chapter, s.html, text[s.chapter])

\* If the chapter is gone by now, reading it again fails and all is rolled back.
RestoreSnapshot(t) ==
    LET k == call[t] IN
    /\ k.op = "restore"
    /\ text[k.chapter] # NoText
    /\ InsertSnapshot(k.chapter, k.before, "restore", k.ts)
    /\ text' = [text EXCEPT ![k.chapter] = k.html]
    /\ AnswerCall(t)
    /\ UNCHANGED <<fresh, now>>

CreateChapter(c) ==
    /\ c \in fresh
    /\ fresh' = fresh \ {c}
    /\ text' = [text EXCEPT ![c] = DefaultHtml]
    /\ UNCHANGED <<snaps, nextSnap, now, call>>

\* All chapters of a file in one transaction; an empty one gets the default text.
ImportChapters(new) ==
    /\ DOMAIN new # {}
    /\ DOMAIN new \subseteq fresh
    /\ fresh' = fresh \ DOMAIN new
    /\ text' = [c \in Chapters |-> IF c \in DOMAIN new THEN new[c] ELSE text[c]]
    /\ UNCHANGED <<snaps, nextSnap, now, call>>

DeleteChapter(c) ==
    /\ text[c] # NoText
    /\ text' = [text EXCEPT ![c] = NoText]
    /\ UNCHANGED <<fresh, snaps, nextSnap, now, call>>

\* The transaction is rolled back: the database is locked, the chapter that was
\* to be restored is gone, or the application is closed.
Rollback(t) ==
    /\ call[t] # IdleCall
    /\ AnswerCall(t)
    /\ UNCHANGED <<text, fresh, snaps, nextSnap, now>>

Clock == /\ now < MaxClock
         /\ now' = now + 1
         /\ UNCHANGED <<text, fresh, snaps, nextSnap, call>>

StoreNext ==
    \/ \E t \in Threads :
        \/ \E c \in Chapters : StartTake(t, c)
        \/ \E c \in Chapters, html \in Texts \cup {NoText} : StartSave(t, c, html)
        \/ \E s \in snaps : StartRestore(t, s)
        \/ SaveChapter(t) \/ TakeSnapshot(t) \/ RestoreSnapshot(t) \/ Rollback(t)
    \/ \E c \in Chapters : CreateChapter(c) \/ DeleteChapter(c)
    \/ \E S \in SUBSET fresh : \E new \in [S -> Texts] : ImportChapters(new)
    \/ Clock

StoreSpec == StoreInit /\ [][StoreNext]_storeVars

-----------------------------------------------------------------------------
\* A snapshot is lost only to newer ones: when it goes, the cap is filled with
\* newer snapshots of its chapter.  The end of the chapter is no reason.
LostToNewerOnes ==
    \A s \in snaps \ snaps' :
        Cardinality({r \in SnapsOf(snaps', s.chapter) : Older(s, r)}) = MaxSnapshots

\* A restore keeps the text it saw when it began, though a save came in between,
\* unless the cap has been filled since then: its snapshot has the time of that
\* reading and is the first to go.
RestoreIsKept ==
    \A t \in Threads : call[t].op = "restore" /\ call'[t] = IdleCall
                           /\ text'[call[t].chapter] # text[call[t].chapter]
        => \/ \E s \in snaps' : s.chapter = call[t].chapter /\ s.html = call[t].before
           \/ Cardinality({s \in SnapsOf(snaps', call[t].chapter) : s.ts > call[t].ts}) = MaxSnapshots

\* What was saved once can be had back, whatever calls run at the same time.
SnapshotsSurvive == [][LostToNewerOnes /\ RestoreIsKept]_storeVars
=============================================================================
