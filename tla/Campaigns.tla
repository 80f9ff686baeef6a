------------------------------ MODULE Campaigns ------------------------------
(***************************************************************************)
(* Review campaigns: applications, assignment with a free copy, reviews,   *)
(* missed deadlines and the block they lead to.  All campaigns are of one  *)
(* book.  An operation that reads rows and writes them later is several    *)
(* steps; assign locks what it reads, a sweep what it has written.  A      *)
(* request takes the time once, when it begins.  A copy and a purchase are *)
(* what the orders say; both are taken as they are used here.              *)
(***************************************************************************)
EXTENDS Integers, FiniteSets, FiniteSetsExt

CONSTANTS Campaigns, Reviewers,
          CampaignHandlers, \* the requests there can be at a time
          Worlds,           \* bound: who applies, or has applied when it begins, how many
                            \* requests run at a time, for how many days, and what else happens
          Slots,            \* review_campaign.slots
          ReviewDays, BlockDays,
          OperatorBlockDays,
          MissLimit,
          LastDay,          \* bound: the clock in any world
          MaxRow            \* bound: applications ever made for a pair

ASSUME CampaignAssumption ==
    /\ Campaigns # {} /\ Reviewers # {}
    /\ \A w \in Worlds : /\ w.entries \subseteq Campaigns \X Reviewers /\ IsFiniteSet(w.entries)
                         /\ w.applied \subseteq w.entries
                         /\ w.handlers \subseteq CampaignHandlers
                         /\ w.days \in 0..LastDay
                         /\ w.acts \subseteq {"cancel", "close", "review", "buy", "operate", "die"}
    /\ Slots \in Nat \ {0} /\ MissLimit \in Nat \ {0}
    /\ ReviewDays \in Nat \ {0} /\ BlockDays \in Nat \ {0}
    /\ OperatorBlockDays \in Nat /\ OperatorBlockDays > BlockDays
    /\ LastDay \in Nat /\ MaxRow \in Nat \ {0}

VARIABLES world,       \* the bounds of this behaviour
          campaign,    \* review_campaign: status, filled
          application, \* review_application, NoRow where there is none
          rows,        \* rows ever made for a pair (a new row has a new key)
          blockedUntil,\* reviewer_block, Never where there is no row
          day,         \* now
          copy, bought,\* reviewers with a PAID order of the book: REVIEW, another channel
          written,     \* the day a reviewer last wrote the review of the book, or Never
          missed,      \* history: the rows that were found overdue
          atoned,      \* history: those that were missed by a block of the rule
          raced,       \* history: whose block an overtaken sweep set
          lifted,      \* history: whose block an operator set or lifted
          request      \* the requests under way

campaignVars == <<world, campaign, application, rows, blockedUntil, day, copy, bought,
                  written, missed, atoned, raced, lifted, request>>

Never == -1
ApplicationStatus == {"PENDING", "ASSIGNED", "COMPLETED", "EXPIRED"}
NoRow == [status |-> "NONE", row |-> 0, assigned |-> Never, deadline |-> Never]
NewRow(k) == [NoRow EXCEPT !.status = "PENDING", !.row = k]
IdleRequest == [op |-> "idle", c |-> CHOOSE c \in Campaigns : TRUE, r |-> CHOOSE r \in Reviewers : TRUE,
                now |-> 0, filled |-> 0, picked |-> {}, until |-> Never, blocks |-> FALSE, overtaken |-> FALSE]
Sweeping == {"sweep", "count", "commit"}
Operations == Sweeping \cup {"idle", "check", "insert", "delete", "assign", "locked", "grant", "mark", "complete"}
Pairs == Campaigns \X Reviewers
RowKeys == Pairs \X (1..MaxRow)

CampaignRow == [status : {"OPEN", "CLOSED"}, filled : Nat]
ApplicationRow == {NoRow} \cup [status : ApplicationStatus, row : 1..MaxRow,
                               assigned : Never..LastDay, deadline : Never..(LastDay + ReviewDays)]
CampaignRequest == [op : Operations, c : Campaigns, r : Reviewers, now : 0..LastDay, filled : Nat,
                    picked : SUBSET RowKeys, until : Never..(LastDay + OperatorBlockDays),
                    blocks : BOOLEAN, overtaken : BOOLEAN]

CampaignTypeOK ==
    /\ world \in Worlds
    /\ campaign \in [Campaigns -> CampaignRow]
    /\ application \in [Pairs -> ApplicationRow]
    /\ rows \in [Pairs -> 0..MaxRow]
    /\ blockedUntil \in [Reviewers -> Never..(LastDay + OperatorBlockDays)]
    /\ day \in 0..LastDay
    /\ copy \subseteq Reviewers /\ bought \subseteq Reviewers
    /\ lifted \subseteq Reviewers /\ raced \subseteq Reviewers
    /\ missed \subseteq RowKeys /\ atoned \subseteq missed
    /\ written \in [Reviewers -> Never..LastDay]
    /\ request \in [CampaignHandlers -> CampaignRequest]

CampaignInit ==
    /\ world \in Worlds
    /\ campaign = [c \in Campaigns |-> [status |-> "OPEN", filled |-> 0]]
    /\ application = [e \in Pairs |-> IF e \in world.applied THEN NewRow(1) ELSE NoRow]
    /\ rows = [e \in Pairs |-> IF e \in world.applied THEN 1 ELSE 0]
    /\ blockedUntil = [r \in Reviewers |-> Never]
    /\ day = 0
    /\ copy = {} /\ bought = {} /\ lifted = {} /\ raced = {}
    /\ written = [r \in Reviewers |-> Never]
    /\ missed = {} /\ atoned = {}
    /\ request = [h \in CampaignHandlers |-> IdleRequest]

missHistory == <<missed, atoned, raced>>
campaignHistory == <<written, missHistory, lifted>>
campaignTables == <<campaign, application, rows, blockedUntil, copy, bought, campaignHistory>>

\* A request begins; it goes on, for the same pair and with the same time.
Begin(h, op, c, r, picked) ==
    /\ request[h] = IdleRequest
    /\ <<c, r>> \in world.entries
    /\ request' = [request EXCEPT ![h] = [IdleRequest EXCEPT !.op = op, !.c = c, !.r = r, !.now = day, !.picked = picked]]
GoOn(q, op) == [IdleRequest EXCEPT !.op = op, !.c = q.c, !.r = q.r, !.now = q.now]
Ask(h, op) == request' = [request EXCEPT ![h] = GoOn(@, op)]
Reply(h) == request' = [request EXCEPT ![h] = IdleRequest]

OfReviewer(r) == {e \in world.entries : e[2] = r}
WithStatus(r, s) == {e \in OfReviewer(r) : application[e].status = s}
Key(e) == <<e, application[e].row>>

-----------------------------------------------------------------------------
(* Missed deadlines *)

\* The day a block until then began.
BlockStart(until) == until - BlockDays

\* Mutant: every miss there ever was counts.
CountAllMisses(r, picked, until) ==
    Cardinality({e \in OfReviewer(r) : Key(e) \in picked \/ application[e].status = "EXPIRED"})

\* Misses since the last block: their deadline is later than its first day.
CycleMissed(r, picked, until) ==
    Cardinality({e \in OfReviewer(r) :
        /\ Key(e) \in picked \/ application[e].status = "EXPIRED"
        /\ until # Never => application[e].deadline > BlockStart(until)})

\* sweep_overdue and what it serves: "check" for apply, "idle" for a look at
\* one's own applications or standing.  It reads the overdue assignments.
StartSweep(h, c, r) ==
    LET overdue == {Key(e) : e \in {x \in WithStatus(r, "ASSIGNED") : application[x].deadline < day}} IN
    /\ Begin(h, IF overdue = {} THEN "check" ELSE "sweep", c, r, overdue)
    /\ UNCHANGED <<campaignTables, world, day>>

AllThere(r, picked) == picked \subseteq {Key(e) : e \in OfReviewer(r)}

\* A row it read was deleted: its update fails and with it the whole sweep.
SweepRaises(h) ==
    /\ request[h].op = "sweep"
    /\ ~AllThere(request[h].r, request[h].picked)
    /\ Reply(h)
    /\ UNCHANGED <<campaignTables, world, day>>

\* Rows a sweep has written are locked until it commits.
Locked(k) == \E g \in CampaignHandlers : request[g].op \in {"count", "commit"} /\ k \in request[g].picked

\* The flush of EXPIRED, once no other sweep holds a row of it, and the block
\* there is; nobody is blocked twice.
FlushSweep(h) ==
    LET q == request[h] IN
    /\ q.op = "sweep"
    /\ AllThere(q.r, q.picked)
    /\ \A k \in q.picked : ~Locked(k)
    /\ request' = [request EXCEPT ![h].until = blockedUntil[q.r],
                                  ![h].op = IF blockedUntil[q.r] <= q.now THEN "count" ELSE "commit"]
    /\ UNCHANGED <<campaignTables, world, day>>

\* It sees its own misses and those that others have committed by now.
CountSweep(h) ==
    LET q == request[h] IN
    /\ q.op = "count"
    /\ request' = [request EXCEPT ![h].op = "commit", ![h].blocks = CycleMissed(q.r, q.picked, q.until) >= MissLimit]
    /\ UNCHANGED <<campaignTables, world, day>>

\* What a commit makes of another sweep g: it counts misses of later days than
\* its own, or does not know of the block that these led to.
Overtaken(g, q) ==
    /\ request[g].op \in Sweeping /\ request[g].r = q.r
    /\ \/ request[g].now < q.now
       \/ request[g].op # "sweep" /\ q.blocks /\ request[g].now # q.now

\* The block is counted from the time the request began.  (A block row that came
\* or went since the upsert looked for it makes the commit fail: DieInRequest.)
CommitSweep(h) ==
    LET q == request[h] IN
    /\ q.op = "commit"
    /\ application' = [e \in Pairs |->
                         IF Key(e) \in q.picked THEN [application[e] EXCEPT !.status = "EXPIRED"] ELSE application[e]]
    /\ blockedUntil' = IF q.blocks THEN [blockedUntil EXCEPT ![q.r] = q.now + BlockDays] ELSE blockedUntil
    /\ missed' = missed \cup q.picked
    /\ atoned' = IF q.blocks THEN atoned \cup {k \in missed' : k[1][2] = q.r} ELSE atoned
    /\ raced' = IF q.blocks /\ q.overtaken THEN raced \cup {q.r} ELSE raced
    /\ \E next \in {GoOn(q, "check"), IdleRequest} :
         request' = [g \in CampaignHandlers |->
                       IF g = h THEN next
                       ELSE [request[g] EXCEPT !.overtaken = @ \/ Overtaken(g, q)]]
    /\ UNCHANGED <<world, campaign, rows, day, copy, bought, written, lifted>>

-----------------------------------------------------------------------------
(* Applying *)

CheckApply(h) ==
    /\ request[h].op = "check"
    /\ IF blockedUntil[request[h].r] <= request[h].now /\ campaign[request[h].c].status = "OPEN"
       THEN Ask(h, "insert") ELSE Reply(h)
    /\ UNCHANGED <<campaignTables, world, day>>

\* The unique key makes a second application, or a race of two, do nothing.
InsertApplication(h) ==
    LET e == <<request[h].c, request[h].r>> IN
    /\ request[h].op = "insert"
    /\ Reply(h)
    /\ IF application[e] # NoRow THEN UNCHANGED <<application, rows>>
       ELSE /\ rows[e] < MaxRow
            /\ rows' = [rows EXCEPT ![e] = @ + 1]
            /\ application' = [application EXCEPT ![e] = NewRow(rows[e] + 1)]
    /\ UNCHANGED <<world, campaign, blockedUntil, day, copy, bought, campaignHistory>>

StartCancel(h, c, r) ==
    /\ application[<<c, r>>].status = "PENDING"
    /\ Begin(h, "delete", c, r, {Key(<<c, r>>)})
    /\ UNCHANGED <<campaignTables, world, day>>

\* The row is deleted by its key, whatever its status is by now.
DeleteApplication(h) ==
    LET e == <<request[h].c, request[h].r>> IN
    /\ request[h].op = "delete"
    /\ ~Locked(Key(e))
    /\ application' = [application EXCEPT ![e] = IF Key(e) \in request[h].picked THEN NoRow ELSE @]
    /\ Reply(h)
    /\ UNCHANGED <<world, campaign, rows, blockedUntil, day, copy, bought, campaignHistory>>

-----------------------------------------------------------------------------
(* Assigning *)

\* The deadline is counted from here.
StartAssign(h, c, r) ==
    /\ Begin(h, "assign", c, r, {})
    /\ UNCHANGED <<campaignTables, world, day>>

\* Mutant: the campaign is read without FOR UPDATE.
ReadCampaign(h) ==
    LET q == request[h] IN
    /\ q.op = "assign"
    /\ IF campaign[q.c].filled >= Slots THEN Reply(h)
       ELSE request' = [request EXCEPT ![h].op = "locked", ![h].filled = campaign[q.c].filled]
    /\ UNCHANGED <<campaignTables, world, day>>

\* A closed campaign with free slots may still be assigned.
LockCampaign(h) ==
    LET q == request[h] IN
    /\ q.op = "assign"
    /\ \A g \in CampaignHandlers : request[g].op = "locked" => request[g].c # q.c
    /\ IF campaign[q.c].filled >= Slots THEN Reply(h)
       ELSE request' = [request EXCEPT ![h].op = "locked", ![h].filled = campaign[q.c].filled]
    /\ UNCHANGED <<campaignTables, world, day>>

Assign(h) ==
    LET c == request[h].c
        e == <<c, request[h].r>>
        filled == request[h].filled + 1
    IN
    /\ request[h].op = "locked"
    /\ IF application[e].status # "PENDING"
       THEN Reply(h) /\ UNCHANGED <<campaign, application>>
       ELSE /\ application' = [application EXCEPT ![e].status = "ASSIGNED", ![e].assigned = day,
                                                  ![e].deadline = request[h].now + ReviewDays]
            /\ campaign' = [campaign EXCEPT ![c].filled = filled,
                                            ![c].status = IF filled >= Slots THEN "CLOSED" ELSE @]
            /\ Ask(h, "grant")
    /\ UNCHANGED <<world, rows, blockedUntil, day, copy, bought, campaignHistory>>

\* grant_review_copy: one who owns the book gets none.
GrantCopy(h) ==
    /\ request[h].op = "grant"
    /\ copy' = IF request[h].r \in copy \cup bought THEN copy ELSE copy \cup {request[h].r}
    /\ Reply(h)
    /\ UNCHANGED <<world, campaign, application, rows, blockedUntil, day, bought, campaignHistory>>

CloseCampaign(c) ==
    /\ campaign[c].status = "OPEN"
    /\ campaign' = [campaign EXCEPT ![c].status = "CLOSED"]
    /\ UNCHANGED <<world, application, rows, blockedUntil, day, copy, bought, campaignHistory, request>>

-----------------------------------------------------------------------------
(* Reviewing *)

\* Owners only.  The review of a copy also completes an assignment.
WriteReview(h, c, r) ==
    /\ r \in copy \cup bought
    /\ written' = [written EXCEPT ![r] = day]
    /\ IF r \in copy THEN Begin(h, "mark", c, r, {}) ELSE UNCHANGED request
    /\ UNCHANGED <<world, campaign, application, rows, blockedUntil, day, copy, bought, missHistory, lifted>>

\* mark_completed reads the assignment that is oldest.
PickAssigned(h) ==
    LET r == request[h].r
        open == WithStatus(r, "ASSIGNED")
    IN
    /\ request[h].op = "mark"
    /\ IF open = {} THEN Reply(h)
       ELSE \E e \in open : /\ \A x \in open : application[e].assigned <= application[x].assigned
                            /\ request' = [request EXCEPT ![h].op = "complete", ![h].c = e[1], ![h].picked = {Key(e)}]
    /\ UNCHANGED <<campaignTables, world, day>>

CompleteApplication(h) ==
    LET e == <<request[h].c, request[h].r>> IN
    /\ request[h].op = "complete"
    /\ ~Locked(Key(e))
    /\ application' = [application EXCEPT ![e].status = IF Key(e) \in request[h].picked THEN "COMPLETED" ELSE @]
    /\ Reply(h)
    /\ UNCHANGED <<world, campaign, rows, blockedUntil, day, copy, bought, campaignHistory>>

-----------------------------------------------------------------------------
(* Operators, buyers, time, failures *)

\* Mutant: a second block is added to the one under way.
BlockExtending(r) ==
    /\ blockedUntil' = [blockedUntil EXCEPT ![r] = Max({@, day}) + OperatorBlockDays]
    /\ lifted' = lifted \cup {r}
    /\ UNCHANGED <<world, campaign, application, rows, day, copy, bought, written, missHistory, request>>

BlockReviewer(r) ==
    /\ blockedUntil' = [blockedUntil EXCEPT ![r] = day + OperatorBlockDays]
    /\ lifted' = lifted \cup {r}
    /\ UNCHANGED <<world, campaign, application, rows, day, copy, bought, written, missHistory, request>>

UnblockReviewer(r) ==
    /\ blockedUntil[r] # Never
    /\ blockedUntil' = [blockedUntil EXCEPT ![r] = Never]
    /\ lifted' = lifted \cup {r}
    /\ UNCHANGED <<world, campaign, application, rows, day, copy, bought, written, missHistory, request>>

BuyBook(r) ==
    /\ r \notin bought
    /\ bought' = bought \cup {r}
    /\ UNCHANGED <<world, campaign, application, rows, blockedUntil, day, copy, campaignHistory, request>>

NextDay == /\ day < world.days
           /\ day' = day + 1
           /\ UNCHANGED <<world, campaignTables, request>>

\* The process dies: the transaction under way is rolled back.
DieInRequest(h) ==
    /\ request[h] # IdleRequest
    /\ Reply(h)
    /\ UNCHANGED <<world, campaignTables, day>>

CampaignNext ==
    \/ \E h \in world.handlers :
        \/ \E e \in world.entries :
            \/ StartSweep(h, e[1], e[2])
            \/ StartAssign(h, e[1], e[2])
            \/ "cancel" \in world.acts /\ StartCancel(h, e[1], e[2])
            \/ "review" \in world.acts /\ WriteReview(h, e[1], e[2])
        \/ FlushSweep(h) \/ SweepRaises(h) \/ CountSweep(h) \/ CommitSweep(h)
        \/ CheckApply(h) \/ InsertApplication(h) \/ DeleteApplication(h)
        \/ LockCampaign(h) \/ Assign(h) \/ GrantCopy(h) \/ PickAssigned(h) \/ CompleteApplication(h)
        \/ "die" \in world.acts /\ DieInRequest(h)
    \/ \E e \in world.entries :
        \/ "close" \in world.acts /\ CloseCampaign(e[1])
        \/ "buy" \in world.acts /\ BuyBook(e[2])
        \/ "operate" \in world.acts /\ (BlockReviewer(e[2]) \/ UnblockReviewer(e[2]))
    \/ NextDay

CampaignSpec == CampaignInit /\ [][CampaignNext]_campaignVars

-----------------------------------------------------------------------------
Given == {"ASSIGNED", "COMPLETED", "EXPIRED"}
GivenSlots(c) == {e \in world.entries : e[1] = c /\ application[e].status \in Given}

\* Concurrent assignments never give out more copies than there are slots, and
\* a filled campaign takes no more applications.
SlotsAreNotOversold ==
    \A c \in Campaigns : /\ Cardinality(GivenSlots(c)) <= campaign[c].filled
                         /\ campaign[c].filled <= Slots
                         /\ campaign[c].filled = Slots => campaign[c].status = "CLOSED"

MissedBy(r, keys) == {k \in keys : k[1][2] = r}

\* A block the rule sets is earned: by MissLimit rows of the reviewer that were
\* found overdue, however sweeps of several requests overlap.  And by as many that
\* no earlier block of the rule had counted, unless a sweep that another one
\* overtook has set a block of theirs: that block begins before misses it counted,
\* which then count again.  (For reviewers no operator blocked or unblocked.)
BlockIsEarned ==
    [][\A r \in Reviewers \ lifted' : blockedUntil'[r] > blockedUntil[r]
          => /\ Cardinality(MissedBy(r, missed')) >= MissLimit
             /\ r \notin raced' => Cardinality(MissedBy(r, missed' \ atoned)) >= MissLimit]_campaignVars

\* Only what was assigned is completed, and only for who has the review copy and
\* wrote a review.  (Not: since the assignment.  The review and what it completes
\* are two transactions, between which the next assignment may come.)
CompletedMeansReviewed ==
    \A e \in world.entries : application[e].status = "COMPLETED" =>
        /\ application[e].assigned # Never
        /\ written[e[2]] # Never /\ e[2] \in copy

\* Copies go to as many reviewers as there are slots, and reviews come from those
\* who have a copy.
CampaignSafety == SlotsAreNotOversold /\ CompletedMeansReviewed
=============================================================================
