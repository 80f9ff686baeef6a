--------------------------- MODULE DesktopPublish ---------------------------
(***************************************************************************)
(* Publishing from the desktop: preflight, POST /books once, PUT of the    *)
(* content, publish-now.  The page can start publish() on two threads, the *)
(* application can die and an answer can be lost between any two requests. *)
(* The texts are the book as a whole: those of Publishable pass            *)
(* validate_block_html in every block.                                     *)
(***************************************************************************)
EXTENDS Integers, FiniteSets

CONSTANTS RemoteBooks,       \* ids the server gives to books
          Contents,    \* what the local book can hold
          Publishable, \* the contents preflight passes
          Publishes,   \* publish() calls at a time
          MaxLoss,     \* bound: answers lost and crashes
          NoRemoteBook, NoContent

ASSUME PublishAssumption == /\ Publishable \subseteq Contents /\ NoContent \notin Contents
                            /\ NoRemoteBook \notin RemoteBooks
                            /\ MaxLoss \in Nat

VARIABLES content,  \* the local book
          remote,   \* book.remote_book_id
          server,   \* the account's books on the server: their content, public or not
          publish,  \* the publish() calls
          losses,   \* history: answers lost and crashes so far
          overlap   \* history: books made though another call had just made one

publishVars == <<content, remote, server, publish, losses, overlap>>

IdlePublish == [stage |-> "idle", chapters |-> NoContent, book |-> NoRemoteBook]
PublishStages == {"idle", "checked", "create", "created", "put", "release"}

ServerBook == [content : Contents \cup {NoContent}, public : BOOLEAN]
PublishCall == [stage : PublishStages, chapters : Contents \cup {NoContent},
                book : RemoteBooks \cup {NoRemoteBook}]

PublishTypeOK ==
    /\ content \in Contents
    /\ remote \in RemoteBooks \cup {NoRemoteBook}
    /\ DOMAIN server \subseteq RemoteBooks
    /\ server \in [DOMAIN server -> ServerBook]
    /\ publish \in [Publishes -> PublishCall]
    /\ losses \in 0..MaxLoss
    /\ overlap \in Nat

PublishInit ==
    /\ content \in Contents
    /\ remote = NoRemoteBook
    /\ server = [b \in {} |-> 0]
    /\ publish = [p \in Publishes |-> IdlePublish]
    /\ losses = 0
    /\ overlap = 0

-----------------------------------------------------------------------------
\* The author goes on writing.
Edit == content' \in Contents \ {content} /\ UNCHANGED <<remote, server, publish, losses, overlap>>

\* No request is made for a book with a violation in it.
Preflight(p) ==
    /\ publish[p].stage = "idle"
    /\ content \in Publishable
    /\ publish' = [publish EXCEPT ![p] = [IdlePublish EXCEPT !.stage = "checked", !.chapters = content]]
    /\ UNCHANGED <<content, remote, server, losses, overlap>>

GetRemoteBookId(p) ==
    /\ publish[p].stage = "checked"
    /\ publish' = [publish EXCEPT ![p].stage = IF remote = NoRemoteBook THEN "create" ELSE "put",
                                  ![p].book = remote]
    /\ UNCHANGED <<content, remote, server, losses, overlap>>

PostBook(p) ==
    /\ publish[p].stage = "create"
    /\ \E b \in RemoteBooks \ DOMAIN server :
        /\ server' = [c \in DOMAIN server \cup {b} |->
                        IF c = b THEN [content |-> NoContent, public |-> FALSE] ELSE server[c]]
        /\ publish' = [publish EXCEPT ![p].stage = "created", ![p].book = b]
    /\ overlap' = IF remote # NoRemoteBook \/ \E q \in Publishes : publish[q].stage = "created"
                  THEN overlap + 1 ELSE overlap
    /\ UNCHANGED <<content, remote, losses>>

\* Mutant: the id is stored at the end, with the result.
ForgetRemoteBookId(p) ==
    /\ publish[p].stage = "created"
    /\ publish' = [publish EXCEPT ![p].stage = "put"]
    /\ UNCHANGED <<content, remote, server, losses, overlap>>

\* The answer of POST /books: the id is stored before anything else is asked.
SetRemoteBookId(p) ==
    /\ publish[p].stage = "created"
    /\ remote' = publish[p].book
    /\ publish' = [publish EXCEPT ![p].stage = "put"]
    /\ UNCHANGED <<content, server, losses, overlap>>

PutContent(p) ==
    /\ publish[p].stage = "put"
    /\ server' = [server EXCEPT ![publish[p].book].content = publish[p].chapters]
    /\ publish' = [publish EXCEPT ![p].stage = "release"]
    /\ UNCHANGED <<content, remote, losses, overlap>>

PublishNow(p) ==
    /\ publish[p].stage = "release"
    /\ server' = [server EXCEPT ![publish[p].book].public = TRUE]
    /\ publish' = [publish EXCEPT ![p] = IdlePublish]
    /\ UNCHANGED <<content, remote, losses, overlap>>

\* 4xx, 5xx or no connection: nothing was done and the call ends.
RequestRefused(p) ==
    /\ publish[p].stage \in {"create", "put", "release"}
    /\ publish' = [publish EXCEPT ![p] = IdlePublish]
    /\ UNCHANGED <<content, remote, server, losses, overlap>>

\* The server did it and the client does not learn it: the answer is lost, or
\* the application is closed before the id is stored.
AnswerLost(p) ==
    /\ publish[p].stage = "created"
    /\ losses < MaxLoss
    /\ losses' = losses + 1
    /\ publish' = [publish EXCEPT ![p] = IdlePublish]
    /\ UNCHANGED <<content, remote, server, overlap>>

PublishDesktopNext ==
    \/ Edit
    \/ \E p \in Publishes :
        \/ Preflight(p) \/ GetRemoteBookId(p) \/ PostBook(p) \/ SetRemoteBookId(p)
        \/ PutContent(p) \/ PublishNow(p) \/ RequestRefused(p) \/ AnswerLost(p)

PublishDesktopSpec == PublishInit /\ [][PublishDesktopNext]_publishVars

-----------------------------------------------------------------------------
\* However long the author writes while the requests are on their way, only a
\* content that passed preflight as a whole gets to the server.
OnlyCheckedContentIsSent ==
    \A b \in DOMAIN server : server[b].content \in Publishable \cup {NoContent}

\* A book is made public with its content in it.
PublicBooksHaveContent == \A b \in DOMAIN server : server[b].public => server[b].content # NoContent

\* A refused upload or release is retried on the same book: the server has one
\* book of the local one, and one more for each answer that was lost after the
\* book was made and each pair of calls that overlapped before it was.
ARetryMakesNoBook == Cardinality(DOMAIN server) <= 1 + losses + overlap

\* What the server has is one checked book, and what is public is whole.
PublishSafety == OnlyCheckedContentIsSent /\ PublicBooksHaveContent /\ ARetryMakesNoBook
=============================================================================
