---------------------------- MODULE DesktopBackup ----------------------------
(***************************************************************************)
(* The one-way backup of the desktop's chapters to the manuscript service. *)
(* A backup reads the chapters one at a time, sends them in one request,   *)
(* and the server stores them one transaction at a time.  The client may   *)
(* give up while the server goes on.  A text is the number of the save     *)
(* that wrote it; titles are left out.                                     *)
(***************************************************************************)
EXTENDS Integers, FiniteSets

CONSTANTS Keys,         \* chapter ids, as the server's chapter keys
          Owners,     \* who may be logged in
          Backups,      \* backups at a time
          MaxRevisions, \* MAX_REVISIONS_PER_CHAPTER
          MaxSave,      \* bound: saves
          MaxRevision,  \* bound: revisions ever stored
          NoOwner

ASSUME BackupAssumption == /\ MaxRevisions \in Nat \ {0}
                           /\ NoOwner \notin Owners
                           /\ IsFiniteSet(Backups)
                           /\ MaxSave \in Nat /\ MaxRevision \in Nat

VARIABLES html,       \* the text of each chapter, Gone once it is deleted
          saves,      \* how many saves there were
          token,      \* whose token the keychain holds
          lastBackup, \* last_backup_at, as its distance to now
          inFlight,   \* _auto_backup_in_flight
          backup,     \* the backups under way
          owner,      \* manuscript_book.account_id
          revisions,  \* the table manuscript_revision
          nextRev,    \* orders the revisions (created_ts, id)
          recorded,   \* history: what the last recorded backup had read
          pushed      \* history: the revisions ever committed

clientVars == <<html, saves, token, lastBackup, inFlight>>
serverVars == <<owner, revisions, nextRev, pushed>>
backupVars == <<clientVars, serverVars, backup, recorded>>

Gone == -1
Unread == -2
Versions == Gone..MaxSave

RevisionRows == [key : Keys, html : 0..MaxSave, at : 1..MaxRevision]
NothingRead == [k \in Keys |-> Unread]

\* kind: who asked; by: the token it took; listed: the chapters still to load;
\* got: what was loaded; todo: what the server has still to store; step: where
\* push_chapter stands; storing: its chapter, until the row is inserted; own,
\* stale: the row of its transaction and the rows it is going to prune.
IdleBackup == [kind |-> "none", waits |-> FALSE, by |-> NoOwner, stage |-> "idle", listed |-> {},
               got |-> NothingRead, todo |-> {}, step |-> "next", storing |-> {}, own |-> {}, stale |-> {}]
BackupStages == {"idle", "decided", "reading", "sent", "serving", "served", "failed"}
BackupRecords == [kind : {"none", "auto", "manual"}, waits : BOOLEAN, by : Owners \cup {NoOwner},
                  stage : BackupStages, listed : SUBSET Keys, got : [Keys -> Unread..MaxSave],
                  todo : SUBSET Keys, step : {"next", "insert", "prune", "commit"},
                  storing : SUBSET Keys, own : SUBSET RevisionRows, stale : SUBSET RevisionRows]

BackupTypeOK ==
    /\ html \in [Keys -> Versions]
    /\ saves \in 0..MaxSave
    /\ token \in Owners \cup {NoOwner}
    /\ lastBackup \in {"never", "recent", "old"}
    /\ inFlight \in BOOLEAN
    /\ backup \in [Backups -> BackupRecords]
    /\ owner \in Owners \cup {NoOwner}
    /\ revisions \subseteq RevisionRows
    /\ nextRev \in 1..(MaxRevision + 1)
    /\ recorded \in [Keys -> Unread..MaxSave]
    /\ pushed \subseteq RevisionRows

BackupInit ==
    /\ html = [k \in Keys |-> 0]
    /\ saves = 0
    /\ token \in Owners
    /\ lastBackup = "never"
    /\ inFlight = FALSE
    /\ backup = [b \in Backups |-> IdleBackup]
    /\ owner = NoOwner
    /\ revisions = {}
    /\ nextRev = 1
    /\ recorded = NothingRead
    /\ pushed = {}

-----------------------------------------------------------------------------
(* The client *)

\* _maybe_auto_backup up to the lock: there is a token and the last backup that
\* worked is 15 minutes old.
AutoBackupDue == token # NoOwner /\ lastBackup # "recent"

\* save_chapter, and the decision taken on the way out of it.
SaveAndDecide(k, b) ==
    /\ html[k] # Gone
    /\ saves < MaxSave
    /\ saves' = saves + 1
    /\ html' = [html EXCEPT ![k] = saves + 1]
    /\ IF AutoBackupDue
       THEN /\ backup[b] = IdleBackup
            /\ backup' = [backup EXCEPT ![b] = [IdleBackup EXCEPT !.stage = "decided", !.by = token,
                                                                  !.kind = "auto"]]
       ELSE UNCHANGED backup
    /\ UNCHANGED <<token, lastBackup, inFlight, serverVars, recorded>>

StartChapters(b, kind, by) ==
    backup' = [backup EXCEPT ![b] = [IdleBackup EXCEPT !.stage = "reading", !.kind = kind, !.by = by,
                                        !.waits = TRUE, !.listed = {k \in Keys : html[k] # Gone}]]

\* Under _auto_backup_lock: one background thread at a time.
ClaimAutoBackup(b) ==
    /\ backup[b].stage = "decided"
    /\ inFlight' = TRUE
    /\ IF inFlight THEN backup' = [backup EXCEPT ![b] = IdleBackup]
                   ELSE StartChapters(b, "auto", backup[b].by)
    /\ UNCHANGED <<html, saves, token, lastBackup, serverVars, recorded>>

\* The backup button, with or without a token.
BackupNow(b) ==
    /\ backup[b] = IdleBackup
    /\ StartChapters(b, "manual", token)
    /\ UNCHANGED <<clientVars, serverVars, recorded>>

\* The end of the call for the client; a background thread clears the flag.
\* The server may still be at work on it.
Leave(b) ==
    /\ inFlight' = (inFlight /\ backup[b].kind # "auto")
    /\ backup' = [backup EXCEPT ![b] = IF @.stage = "serving" THEN [@ EXCEPT !.waits = FALSE]
                                                             ELSE IdleBackup]

\* One chapter of the list; if it was deleted meanwhile load_chapter raises.
LoadChapter(b, k) ==
    /\ backup[b].stage = "reading"
    /\ k \in backup[b].listed
    /\ IF html[k] = Gone THEN Leave(b)
       ELSE /\ backup' = [backup EXCEPT ![b].got[k] = html[k], ![b].listed = @ \ {k}]
            /\ UNCHANGED inFlight
    /\ UNCHANGED <<html, saves, token, lastBackup, serverVars, recorded>>

Send(b) ==
    /\ backup[b].stage = "reading"
    /\ backup[b].listed = {}
    /\ backup' = [backup EXCEPT ![b].stage = "sent"]
    /\ UNCHANGED <<clientVars, serverVars, recorded>>

\* The answer: only a backup that worked is recorded.
RecordBackup(b) ==
    /\ backup[b].stage = "served" /\ backup[b].waits
    /\ lastBackup' = "recent"
    /\ recorded' = backup[b].got
    /\ Leave(b)
    /\ UNCHANGED <<html, saves, token, serverVars>>

\* No connection, no answer, or an error: PublishHttpError.
RequestFails(b) ==
    /\ backup[b].stage \in {"sent", "serving", "served", "failed"} /\ backup[b].waits
    /\ Leave(b)
    /\ UNCHANGED <<html, saves, token, lastBackup, serverVars, recorded>>

DeleteBackedUpChapter(k) ==
    /\ html[k] # Gone
    /\ html' = [html EXCEPT ![k] = Gone]
    /\ UNCHANGED <<saves, token, lastBackup, inFlight, serverVars, backup, recorded>>

\* login of an account, or logout.
SwitchAccount ==
    /\ token' \in (Owners \cup {NoOwner}) \ {token}
    /\ UNCHANGED <<html, saves, lastBackup, inFlight, serverVars, backup, recorded>>

FifteenMinutesPass ==
    /\ lastBackup = "recent"
    /\ lastBackup' = "old"
    /\ UNCHANGED <<html, saves, token, inFlight, serverVars, backup, recorded>>

-----------------------------------------------------------------------------
(* The server *)

Of(R, k) == {r \in R : r.key = k}
Latest(R, k) == {r \in Of(R, k) : \A q \in Of(R, k) : q.at <= r.at}
NewerThan(R, r) == {q \in Of(R, r.key) : q.at > r.at}

ServerStep(b, stage) == backup' = [backup EXCEPT ![b].stage = stage,
                                           ![b].todo = {k \in Keys : backup[b].got[k] # Unread}]

\* The book is found by its sync_key or made; it must be the account's.
AcceptPush(b) ==
    /\ backup[b].stage = "sent" /\ backup[b].by # NoOwner
    /\ owner \in {NoOwner, backup[b].by}
    /\ owner' = backup[b].by
    /\ ServerStep(b, "serving")
    /\ UNCHANGED <<clientVars, revisions, nextRev, pushed, recorded>>

\* 401 without an account, 403 to another one, 500 when sync_key is no longer
\* free at the INSERT.
RefusePush(b) ==
    /\ backup[b].stage = "sent"
    /\ \/ backup[b].by = NoOwner
       \/ owner # NoOwner
    /\ ServerStep(b, "failed")
    /\ UNCHANGED <<clientVars, serverVars, recorded>>

\* What _prune deletes of the rows it sees: all but the newest MaxRevisions.
Stale(R) == {r \in R : Cardinality(NewerThan(R, r)) >= MaxRevisions}

\* push_chapter: a text that is the latest one already is skipped, any other is
\* going to be inserted.
BeginStore(b, k) ==
    /\ backup[b].stage = "serving" /\ backup[b].step = "next"
    /\ k \in backup[b].todo
    /\ IF \E r \in Latest(revisions, k) : r.html = backup[b].got[k]
       THEN backup' = [backup EXCEPT ![b].todo = @ \ {k}]
       ELSE backup' = [backup EXCEPT ![b].step = "insert", ![b].storing = {k}]
    /\ UNCHANGED <<clientVars, serverVars, recorded>>

\* The flush: the row has its created_at, and nobody else sees it yet.
InsertRevision(b) ==
    /\ backup[b].step = "insert"
    /\ nextRev <= MaxRevision
    /\ nextRev' = nextRev + 1
    /\ backup' = [backup EXCEPT ![b].step = "prune", ![b].storing = {},
                     ![b].own = {[key |-> k, html |-> backup[b].got[k], at |-> nextRev] : k \in backup[b].storing}]
    /\ UNCHANGED <<clientVars, owner, revisions, pushed, recorded>>

\* _prune: the rows that are committed by now, and its own.
PickStale(b) ==
    /\ backup[b].step = "prune"
    /\ \E row \in backup[b].own :
         backup' = [backup EXCEPT ![b].step = "commit",
                                  ![b].stale = Stale(Of(revisions, row.key) \cup {row})]
    /\ UNCHANGED <<clientVars, serverVars, recorded>>

\* The commit; a row that somebody else has pruned meanwhile is only warned about.
CommitChapter(b) ==
    /\ backup[b].step = "commit"
    /\ revisions' = (revisions \cup backup[b].own) \ backup[b].stale
    /\ pushed' = pushed \cup backup[b].own
    /\ backup' = [backup EXCEPT ![b].step = "next", ![b].own = {}, ![b].stale = {},
                                ![b].todo = @ \ {row.key : row \in backup[b].own}]
    /\ UNCHANGED <<clientVars, owner, nextRev, recorded>>

\* What is left of a request that was answered.
Answered(b, stage) ==
    backup' = [backup EXCEPT ![b] = IF @.waits THEN [@ EXCEPT !.stage = stage, !.todo = {}, !.step = "next",
                                                              !.storing = {}, !.own = {}, !.stale = {}]
                                               ELSE IdleBackup]

\* Mutant: the answer is sent before every chapter is stored.
AnswerEarly(b) ==
    /\ backup[b].stage = "serving"
    /\ Answered(b, "served")
    /\ UNCHANGED <<clientVars, serverVars, recorded>>

AnswerPush(b) ==
    /\ backup[b].stage = "serving" /\ backup[b].todo = {}
    /\ Answered(b, "served")
    /\ UNCHANGED <<clientVars, serverVars, recorded>>

\* The server dies between two transactions or in one: what is committed stays.
ServerFails(b) ==
    /\ backup[b].stage = "serving"
    /\ Answered(b, "failed")
    /\ UNCHANGED <<clientVars, serverVars, recorded>>

BackupNext ==
    \/ \E b \in Backups :
        \/ \E k \in Keys : SaveAndDecide(k, b) \/ LoadChapter(b, k) \/ BeginStore(b, k)
        \/ ClaimAutoBackup(b) \/ BackupNow(b) \/ Send(b) \/ RecordBackup(b) \/ RequestFails(b)
        \/ AcceptPush(b) \/ RefusePush(b) \/ InsertRevision(b) \/ PickStale(b) \/ CommitChapter(b)
        \/ AnswerPush(b) \/ ServerFails(b)
    \/ \E k \in Keys : DeleteBackedUpChapter(k)
    \/ SwitchAccount \/ FifteenMinutesPass

BackupSpec == BackupInit /\ [][BackupNext]_backupVars

-----------------------------------------------------------------------------
\* One automatic backup at a time, and the flag says whether there is one: it
\* can neither be lost (no backup ever again) nor cleared too early.
OneAutoBackup ==
    Cardinality({b \in Backups : backup[b].kind = "auto" /\ backup[b].waits}) = IF inFlight THEN 1 ELSE 0

\* When last_backup_at is set, every chapter the backup had read was stored, and
\* the row is still there or had to make room for as many NEWER ones of its
\* chapter as are kept, whatever pushes insert, prune and commit around it.
RecordedBackupIsOnServer ==
    \A k \in Keys : recorded[k] # Unread =>
        \E r \in Of(pushed, k) :
            /\ r.html = recorded[k]
            /\ r \in revisions \/ Cardinality(NewerThan(revisions, r)) >= MaxRevisions

\* Concurrent prunes do not see each other's row: the cap may be passed by one
\* row for each other push under way, and by no more.
RevisionsBounded ==
    \A k \in Keys : Cardinality(Of(revisions, k)) <= MaxRevisions + Cardinality(Backups) - 1

\* The desktop and the server agree on what is safe.
BackupSafety == OneAutoBackup /\ RecordedBackupIsOnServer /\ RevisionsBounded
=============================================================================
