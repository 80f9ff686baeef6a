------------------------------ MODULE Woncheon ------------------------------
(***************************************************************************)
(* Reporting the tax withheld from a paid payout to an outside service.     *)
(* The report follows the payment in the same request, its failure is only  *)
(* logged; an operator's script tries again.  The service files a payment   *)
(* once for an idempotency key, which is the payout's id; its answer may be *)
(* lost, and the process may die before it notes the report.                *)
(***************************************************************************)
EXTENDS Integers, FiniteSets

CONSTANTS PaidOuts,      \* payouts an operator has approved
          IncomeTypes,   \* what a withholding subject is registered as
          Reporters,     \* requests and scripts at a time
          MaxPosts       \* bound: requests sent for a payout

ASSUME WoncheonAssumption == MaxPosts \in Nat /\ "no payout" \notin PaidOuts

VARIABLES paidOut,   \* payouts that are PAID
          subject,   \* bill.withholding_subject of a payout
          reported,  \* payouts with woncheon_reported_at
          filed,     \* the outside service: what it filed, by idempotency key
          posts,     \* requests sent for a payout
          reporter   \* the reports under way

woncheonVars == <<paidOut, subject, reported, filed, posts, reporter>>

NoSubject == "not registered"
NoPayout == "no payout"
NoFiling == [payout |-> NoPayout, type |-> NoSubject]
Keys == PaidOuts \X (0..MaxPosts)
IdleReporter == [step |-> "idle", p |-> NoPayout, type |-> NoSubject]

Filing == {NoFiling} \cup [payout : PaidOuts, type : IncomeTypes]
Report == [step : {"idle", "subject", "post", "mark"}, p : PaidOuts \cup {NoPayout}, type : IncomeTypes \cup {NoSubject}]

WoncheonTypeOK ==
    /\ paidOut \subseteq PaidOuts /\ reported \subseteq PaidOuts
    /\ subject \in [PaidOuts -> IncomeTypes \cup {NoSubject}]
    /\ filed \in [Keys -> Filing]
    /\ posts \in [PaidOuts -> 0..MaxPosts]
    /\ reporter \in [Reporters -> Report]

WoncheonInit ==
    /\ paidOut = {} /\ reported = {}
    /\ subject = [p \in PaidOuts |-> NoSubject]
    /\ filed = [k \in Keys |-> NoFiling]
    /\ posts = [p \in PaidOuts |-> 0]
    /\ reporter = [h \in Reporters |-> IdleReporter]

Becomes(h, r) == reporter' = [reporter EXCEPT ![h] = r]

\* register_subject: the latest registration counts; it needs an income type.
RegisterSubject(p, type) ==
    /\ subject' = [subject EXCEPT ![p] = type]
    /\ UNCHANGED <<paidOut, reported, filed, posts, reporter>>

\* mark_paid: the payment is settled, then the hook reports it.
MarkPaid(h, p) ==
    /\ reporter[h] = IdleReporter
    /\ p \notin paidOut
    /\ paidOut' = paidOut \cup {p}
    /\ Becomes(h, [IdleReporter EXCEPT !.step = "subject", !.p = p])
    /\ UNCHANGED <<subject, reported, filed, posts>>

\* The script takes the payouts list_unreported shows, with a subject.
Unreported == {p \in paidOut \ reported : subject[p] # NoSubject}
RetryReport(h, p) ==
    /\ reporter[h] = IdleReporter
    /\ p \in Unreported
    /\ Becomes(h, [IdleReporter EXCEPT !.step = "subject", !.p = p])
    /\ UNCHANGED <<paidOut, subject, reported, filed, posts>>

\* report_paid: without a subject the report waits.
ReadSubject(h) ==
    LET r == reporter[h] IN
    /\ r.step = "subject"
    /\ Becomes(h, IF subject[r.p] = NoSubject THEN IdleReporter
                  ELSE [r EXCEPT !.step = "post", !.type = subject[r.p]])
    /\ UNCHANGED <<paidOut, subject, reported, filed, posts>>

\* Mutant: each request has a key of its own.
KeyOfAttempt(p) == <<p, posts[p]>>

\* Idempotency-Key: the payout's id.
IdempotencyKey(p) == <<p, 0>>

\* An answer other than success, or none, is ok=False.
Answered(h, arrives, answered) == arrives /\ answered

\* The request arrives or not; an answer comes or not.
Post(h, arrives, answered) ==
    LET r == reporter[h]
        key == IdempotencyKey(r.p)
    IN
    /\ r.step = "post"
    /\ posts[r.p] < MaxPosts
    /\ posts' = [posts EXCEPT ![r.p] = @ + 1]
    /\ filed' = IF arrives /\ filed[key] = NoFiling THEN [filed EXCEPT ![key] = [payout |-> r.p, type |-> r.type]]
                ELSE filed
    /\ Becomes(h, IF Answered(h, arrives, answered) THEN [r EXCEPT !.step = "mark"] ELSE IdleReporter)
    /\ UNCHANGED <<paidOut, subject, reported>>

MarkReported(h) ==
    LET r == reporter[h] IN
    /\ r.step = "mark"
    /\ reported' = reported \cup {r.p}
    /\ Becomes(h, IdleReporter)
    /\ UNCHANGED <<paidOut, subject, filed, posts>>

\* The process dies.
WoncheonCrash ==
    /\ reporter' = [h \in Reporters |-> IdleReporter]
    /\ UNCHANGED <<paidOut, subject, reported, filed, posts>>

WoncheonNext ==
    \/ \E p \in PaidOuts : \/ \E type \in IncomeTypes : RegisterSubject(p, type)
                           \/ \E h \in Reporters : MarkPaid(h, p) \/ RetryReport(h, p)
    \/ \E h \in Reporters : \/ ReadSubject(h) \/ MarkReported(h)
                            \/ \E arrives, answered \in BOOLEAN : Post(h, arrives, answered)
    \/ WoncheonCrash

WoncheonSpec == WoncheonInit /\ [][WoncheonNext]_woncheonVars

-----------------------------------------------------------------------------
(* Properties *)

FilingsOf(p) == {k \in Keys : filed[k].payout = p}

\* However often a report is sent again, by the request that paid, by the
\* script, twice at once or after a crash, a payment is filed at most once
\* with the tax service, and only after it was paid.
FiledOnce == \A p \in PaidOuts : /\ Cardinality(FilingsOf(p)) <= 1
                                 /\ FilingsOf(p) # {} => p \in paidOut

\* A payout that leaves the list of unreported ones is with the service: an
\* answer that is lost keeps it on the list.
ReportedIsFiled == \A p \in reported : FilingsOf(p) # {}

\* The tax service and the table payout agree as far as answers arrive.
WoncheonSafety == FiledOnce /\ ReportedIsFiled

\* The tax office's books: reports that are sent again, at once, or under a type
\* registered since add nothing to them and change nothing.
TaxEntries == [p \in PaidOuts |-> {filed[k].type : k \in FilingsOf(p)}]
Office == INSTANCE TaxReports WITH
    Payments <- PaidOuts, Types <- IncomeTypes, paid <- paidOut, entries <- TaxEntries, marked <- reported
ImplementsTaxReports == Office!TaxSpec
=============================================================================
