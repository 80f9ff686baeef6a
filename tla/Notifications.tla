---------------------------- MODULE Notifications ----------------------------
(***************************************************************************)
(* Follows and the notices of the in-app inbox.  A fan-out reads whom to   *)
(* tell, reads who has the notice, and commits one batch; the unique key   *)
(* (recipient, book, kind) makes a batch that lost a race roll back whole. *)
(***************************************************************************)
EXTENDS People

CONSTANT Fanouts       \* fan-outs that may run at a time

VARIABLES follows,     \* commu.follow: pairs <<follower, author>>
          notice,      \* commu.notification by (recipient, book, kind)
          fanout       \* the fan-outs under way

notificationVars == <<follows, notice, fanout>>

\* Created once, or relit at every revision.  ASSIGNED and DUE_SOON go to one
\* reviewer by the same code as NEW_BOOK.
NoticeKinds == {"NEW_BOOK", "REVISION", "DUE_SOON"}
NoticeState == {"none", "unread", "read"}
NoNews == "no news"
IdleFanout == [step |-> "idle", b |-> NoNews, kind |-> "NEW_BOOK", to |-> {}, found |-> {}, lit |-> {}]
Fanout == [step : {"idle", "recipients", "select", "commit"}, b : Books \cup {NoNews}, kind : NoticeKinds,
           to : SUBSET Accounts, found : SUBSET Accounts, lit : SUBSET Accounts]

NotificationTypeOK ==
    /\ follows \subseteq Accounts \X Accounts
    /\ notice \in [Accounts \X Books \X NoticeKinds -> NoticeState]
    /\ fanout \in [Fanouts -> Fanout]

NotificationInit ==
    /\ follows = {}
    /\ notice = [n \in Accounts \X Books \X NoticeKinds |-> "none"]
    /\ fanout = [f \in Fanouts |-> IdleFanout]

Has(r, b, kind) == notice[<<r, b, kind>>] # "none"

-----------------------------------------------------------------------------
(* Follows.  A second follow, also one that races, ends on the unique key. *)

Follow(r, a) ==
    /\ r # a
    /\ follows' = follows \cup {<<r, a>>}
    /\ UNCHANGED <<notice, fanout>>

Unfollow(r, a) ==
    /\ <<r, a>> \in follows
    /\ follows' = follows \ {<<r, a>>}
    /\ UNCHANGED <<notice, fanout>>

FollowerIds(a) == {r \in Accounts : <<r, a>> \in follows}

-----------------------------------------------------------------------------
(* Fan-out *)

\* A publication of the catalog, or its scheduler, starts a fan-out; the
\* recipients are read later.
BeginFanout(f, b, kind) ==
    /\ fanout[f] = IdleFanout
    /\ fanout' = [fanout EXCEPT ![f] = [IdleFanout EXCEPT !.step = "recipients", !.b = b, !.kind = kind]]
    /\ UNCHANGED <<follows, notice>>

FinishFanout(f) == fanout' = [fanout EXCEPT ![f] = IdleFanout]

\* notify_new_book: the followers of the author as they are now, not himself.
NotifyNewBook(f) ==
    LET a == BookAuthor[fanout[f].b]
        to == FollowerIds(a) \ {a}
    IN
    /\ fanout[f].step = "recipients" /\ fanout[f].kind = "NEW_BOOK"
    /\ IF to = {} THEN FinishFanout(f)
       ELSE fanout' = [fanout EXCEPT ![f].step = "select", ![f].to = to]
    /\ UNCHANGED <<follows, notice>>

\* notify_revision: the buyers the orders know.
NotifyRevision(f, buyers) ==
    /\ fanout[f].step = "recipients" /\ fanout[f].kind = "REVISION"
    /\ IF buyers = {} THEN FinishFanout(f)
       ELSE fanout' = [fanout EXCEPT ![f].step = "select", ![f].to = buyers]
    /\ UNCHANGED <<follows, notice>>

\* notify_due_soon (and notify_assigned): one reviewer.
NotifyReviewer(f, b, r) ==
    /\ fanout[f] = IdleFanout
    /\ fanout' = [fanout EXCEPT ![f] = [IdleFanout EXCEPT !.step = "select", !.b = b, !.kind = "DUE_SOON", !.to = {r}]]
    /\ UNCHANGED <<follows, notice>>

\* Who of the recipients has the notice already.
SelectExisting(f) ==
    LET q == fanout[f]
        found == {r \in q.to : Has(r, q.b, q.kind)}
    IN
    /\ q.step = "select"
    /\ IF q.kind # "REVISION" /\ found = q.to THEN FinishFanout(f)
       ELSE fanout' = [fanout EXCEPT ![f].step = "commit", ![f].found = found,
                                     ![f].lit = {r \in found : notice[<<r, q.b, q.kind>>] = "unread"}]
    /\ UNCHANGED <<follows, notice>>

Written(f, toUnread) ==
    [n \in Accounts \X Books \X NoticeKinds |->
        IF n \in toUnread \X {fanout[f].b} \X {fanout[f].kind} THEN "unread" ELSE notice[n]]

\* What a commit writes: the fresh ones, and for a revision also those that were
\* read when it looked (an unchanged column is not written).
WrittenBy(f) == fanout[f].to \ (IF fanout[f].kind = "REVISION" THEN fanout[f].lit ELSE fanout[f].found)

\* Mutant: an upsert in place of the unique key.
CommitOverwrites(f) ==
    /\ fanout[f].step = "commit"
    /\ notice' = Written(f, WrittenBy(f))
    /\ FinishFanout(f)
    /\ UNCHANGED follows

CommitNotices(f) ==
    LET q == fanout[f] IN
    /\ q.step = "commit"
    /\ \A r \in q.to \ q.found : ~Has(r, q.b, q.kind)
    /\ notice' = Written(f, WrittenBy(f))
    /\ FinishFanout(f)
    /\ UNCHANGED follows

\* IntegrityError: the whole batch is rolled back and taken for done.
NoticesCollide(f) ==
    LET q == fanout[f] IN
    /\ q.step = "commit"
    /\ \E r \in q.to \ q.found : Has(r, q.b, q.kind)
    /\ FinishFanout(f)
    /\ UNCHANGED <<follows, notice>>

\* The process dies, or an error is logged: nobody is told.
FanoutFails(f) ==
    /\ fanout[f] # IdleFanout
    /\ FinishFanout(f)
    /\ UNCHANGED <<follows, notice>>

-----------------------------------------------------------------------------
(* The inbox *)

MarkRead(r, b, kind) ==
    /\ Has(r, b, kind)
    /\ notice' = [notice EXCEPT ![<<r, b, kind>>] = "read"]
    /\ UNCHANGED <<follows, fanout>>

MarkAllRead(r) ==
    /\ \E b \in Books, kind \in NoticeKinds : notice[<<r, b, kind>>] = "unread"
    /\ notice' = [n \in Accounts \X Books \X NoticeKinds |->
                    IF n[1] = r /\ notice[n] = "unread" THEN "read" ELSE notice[n]]
    /\ UNCHANGED <<follows, fanout>>

NotificationNext ==
    \/ \E r \in Accounts :
        \/ \E a \in Accounts : Follow(r, a) \/ Unfollow(r, a)
        \/ \E b \in Books, kind \in NoticeKinds : MarkRead(r, b, kind)
        \/ MarkAllRead(r)
        \/ \E f \in Fanouts, b \in Books : NotifyReviewer(f, b, r)
    \/ \E f \in Fanouts :
        \/ \E b \in Books, kind \in {"NEW_BOOK", "REVISION"} : BeginFanout(f, b, kind)
        \/ NotifyNewBook(f) \/ \E buyers \in SUBSET Accounts : NotifyRevision(f, buyers)
        \/ SelectExisting(f) \/ CommitNotices(f) \/ NoticesCollide(f) \/ FanoutFails(f)

NotificationSpec == NotificationInit /\ [][NotificationNext]_notificationVars

-----------------------------------------------------------------------------
\* A notice that was read stays read: publishing again does not repeat the news
\* of a book, only a revision lights its notice again.
NewsIsToldOnce ==
    [][\A n \in Accounts \X Books \X NoticeKinds :
         notice[n] = "read" /\ notice'[n] = "unread" => n[3] = "REVISION"]_notificationVars
=============================================================================
