---------------------------- MODULE CampaignsProofs ----------------------------
(***************************************************************************)
(* Review campaigns, for any number of campaigns, reviewers, requests and  *)
(* days: slots are not oversold, and a block of the rule is earned.        *)
(***************************************************************************)
EXTENDS Campaigns, FiniteSetTheorems, TLAPS

-----------------------------------------------------------------------------
(* The inductive invariant *)

\* The row of an application is the newest of its pair; what was assigned has a day.
RowsAreKept ==
    \A e \in Pairs :
        /\ application[e].row <= rows[e]
        /\ application[e].status \in Given => application[e].assigned # Never
        /\ application[e].status = "COMPLETED" => written[e[2]] # Never /\ e[2] \in copy

\* Every miss that a sweep may count was noted; one whose row is still there was
\* assigned and is past its deadline.
Current(k) == application[k[1]].row = k[2]
MissesAreNoted ==
    /\ \A e \in Pairs : application[e].status = "EXPIRED" => Key(e) \in missed
    /\ \A k \in missed :
         /\ k[1] \in world.entries /\ k[2] <= rows[k[1]]
         /\ Current(k) => application[k[1]].status \in Given /\ application[k[1]].deadline < day

\* Unless an operator or an overtaken sweep set the block, the misses it was for
\* are none of the next ones.
AtonedAreOver ==
    \A k \in atoned : k[1][2] \notin lifted \cup raced =>
        /\ blockedUntil[k[1][2]] # Never
        /\ Current(k) => application[k[1]].deadline <= BlockStart(blockedUntil[k[1][2]])

\* What a request read is still so as far as it relies on it: the lock keeps the
\* filled slots; a row it read was not replaced, it is assigned or beyond.
StillSo(k, q) ==
    application[k[1]].row = k[2] =>
        /\ q.op \in Sweeping \cup {"complete"} => application[k[1]].status \in Given
        /\ q.op \in Sweeping => application[k[1]].deadline < q.now
SoundLock(q) ==
    /\ q.op \in {"assign", "locked"} => <<q.c, q.r>> \in world.entries
    /\ q.op = "locked" => q.filled = campaign[q.c].filled /\ q.filled < Slots

\* A sweep blocks for misses there are; if none overtook it, all that were noted
\* are before its time, and those it counts are new to the block that it read.
Counts(q, keys) == Cardinality(MissedBy(q.r, keys)) >= MissLimit
InTime(q) ==
    /\ \A k \in missed : k[1][2] = q.r /\ Current(k) => application[k[1]].deadline < q.now
    /\ q.op # "sweep" /\ q.r \notin lifted \cup raced =>
         /\ blockedUntil[q.r] \in {q.until, q.now + BlockDays}
         /\ q.blocks /\ blockedUntil[q.r] = q.until => Counts(q, (missed \cup q.picked) \ atoned)
SoundSweep(q) ==
    /\ q.now <= day
    /\ \A k \in q.picked : k[1] \in OfReviewer(q.r)
    /\ q.op = "count" \/ q.blocks => q.until <= q.now
    /\ q.blocks => q.op = "commit" /\ Counts(q, missed \cup q.picked)
    /\ ~q.overtaken => InTime(q)

SoundRequests ==
    {q \in CampaignRequest :
        /\ SoundLock(q)
        /\ q.op \in {"mark", "complete"} => written[q.r] # Never /\ q.r \in copy
        /\ \A k \in q.picked : k[2] <= rows[k[1]] /\ StillSo(k, q)
        /\ q.op \in Sweeping => SoundSweep(q)}
LocksExclude ==
    \A g, h \in CampaignHandlers :
        request[g].op = "locked" /\ request[h].op = "locked" /\ request[g].c = request[h].c => g = h

CampaignInv ==
    /\ CampaignTypeOK
    /\ SlotsAreNotOversold /\ RowsAreKept /\ MissesAreNoted /\ AtonedAreOver
    /\ request \in [CampaignHandlers -> SoundRequests] /\ LocksExclude

-----------------------------------------------------------------------------
(* Facts about the constants and the rows *)

\* One element more makes a set larger by at most one.
LEMMA OneMore ==
    ASSUME NEW S, NEW x, IsFiniteSet(S)
    PROVE  /\ IsFiniteSet(S \cup {x})
           /\ Cardinality(S \cup {x}) \in Nat /\ Cardinality(S \cup {x}) <= Cardinality(S) + 1
  <1>1. Cardinality(S) \in Nat
    BY FS_CardinalityType
  <1>2. IsFiniteSet(S \cup {x})
    BY FS_AddElement
  <1>3. Cardinality(S \cup {x}) = Cardinality(S) \/ Cardinality(S \cup {x}) = Cardinality(S) + 1
    BY FS_AddElement
  <1>4. QED
    BY <1>1, <1>2, <1>3

LEMMA Bounds ==
    /\ Campaigns # {} /\ Reviewers # {} /\ Slots \in Nat \ {0} /\ MissLimit \in Nat \ {0}
    /\ ReviewDays \in Nat \ {0} /\ BlockDays \in Nat \ {0} /\ OperatorBlockDays \in Nat /\ OperatorBlockDays > BlockDays
    /\ LastDay \in Nat /\ MaxRow \in Nat \ {0} /\ Never = -1
  BY CampaignAssumption DEF Never

LEMMA Entries ==
    ASSUME world \in Worlds
    PROVE  /\ world.entries \subseteq Pairs /\ IsFiniteSet(world.entries)
           /\ world.handlers \subseteq CampaignHandlers /\ world.applied \subseteq world.entries
           /\ world.days \in 0..LastDay
  BY CampaignAssumption DEF Pairs

LEMMA PairsAre ==
    /\ \A e \in Pairs : e[1] \in Campaigns /\ e[2] \in Reviewers /\ e = <<e[1], e[2]>>
    /\ \A c \in Campaigns, r \in Reviewers : <<c, r>> \in Pairs
  BY DEF Pairs

LEMMA KeysAre ==
    /\ \A k \in RowKeys : k[1] \in Pairs /\ k[2] \in 1..MaxRow /\ k = <<k[1], k[2]>>
    /\ \A e \in Pairs, n \in 1..MaxRow : <<e, n>> \in RowKeys
  BY DEF RowKeys

\* A reviewer's applications are finitely many pairs.
LEMMA OfReviewerFinite ==
    ASSUME world \in Worlds, NEW r
    PROVE  /\ OfReviewer(r) \subseteq Pairs /\ IsFiniteSet(OfReviewer(r))
           /\ \A s \in SUBSET OfReviewer(r) : IsFiniteSet(s) /\ Cardinality(s) \in Nat
  <1>1. OfReviewer(r) \subseteq world.entries
    BY DEF OfReviewer
  <1>2. QED
    BY <1>1, Entries, FS_Subset, FS_CardinalityType

\* More rows, more misses; and finitely many, as there are finitely many pairs.
LEMMA MoreMissed ==
    ASSUME world \in Worlds, NEW r, NEW S, NEW T, S \subseteq T,
           \A k \in T : k \in RowKeys /\ k[1] \in world.entries
    PROVE  /\ IsFiniteSet(MissedBy(r, T)) /\ Cardinality(MissedBy(r, S)) \in Nat
           /\ Cardinality(MissedBy(r, T)) \in Nat
           /\ Cardinality(MissedBy(r, S)) <= Cardinality(MissedBy(r, T))
  <1>1. MissedBy(r, T) \subseteq world.entries \X (1..MaxRow)
    BY KeysAre DEF MissedBy
  <1>2. IsFiniteSet(world.entries \X (1..MaxRow))
    <2>1. IsFiniteSet(world.entries)
      BY Entries
    <2>2. 1 \in Int /\ MaxRow \in Int
      BY Bounds
    <2>3. IsFiniteSet(1..MaxRow)
      BY <2>2, FS_Interval
    <2>4. QED
      BY <2>1, <2>3, FS_Product
  <1>3. IsFiniteSet(MissedBy(r, T))
    BY <1>1, <1>2, FS_Subset
  <1>4. MissedBy(r, S) \subseteq MissedBy(r, T)
    BY DEF MissedBy
  <1>5. QED
    BY <1>3, <1>4, FS_Subset, FS_CardinalityType

\* Every application has one row.
LEMMA OneRowEach ==
    ASSUME NEW S, NEW T, IsFiniteSet(T), \A e \in S : Key(e) \in T
    PROVE  Cardinality(S) <= Cardinality(T)
  <1> DEFINE f == [e \in S |-> Key(e)]
  <1>1. f \in Injection(S, T)
    BY DEF Injection, IsInjective, Key
  <1>2. QED
    BY <1>1, FS_Injection

LEMMA RowShapes ==
    /\ NoRow \in ApplicationRow /\ NoRow.status = "NONE" /\ NoRow.row = 0
    /\ \A x \in ApplicationRow :
         /\ x.status \in ApplicationStatus \cup {"NONE"} /\ x.row \in 0..MaxRow
         /\ x.assigned \in Int /\ x.deadline \in Int
         /\ x.status # "NONE" <=> x.row \in 1..MaxRow
         /\ x.status = "NONE" <=> x = NoRow
  <1>1. NoRow \in ApplicationRow /\ NoRow.status = "NONE" /\ NoRow.row = 0
    BY DEF NoRow, ApplicationRow
  <1>2. ASSUME NEW x \in [status : ApplicationStatus, row : 1..MaxRow,
                          assigned : Never..LastDay, deadline : Never..(LastDay + ReviewDays)]
        PROVE  /\ x.status \in ApplicationStatus /\ x.status # "NONE" /\ x.row \in 1..MaxRow
               /\ x.assigned \in Int /\ x.deadline \in Int
    BY Bounds DEF ApplicationStatus
  <1>3. NoRow.assigned \in Int /\ NoRow.deadline \in Int
    BY Bounds DEF NoRow
  <1>4. \A x \in ApplicationRow : x = NoRow \/ x \in [status : ApplicationStatus, row : 1..MaxRow,
                          assigned : Never..LastDay, deadline : Never..(LastDay + ReviewDays)]
    BY DEF ApplicationRow
  <1>5. QED
    BY <1>1, <1>2, <1>3, <1>4, Bounds

\* What the operations make of a row.
LEMMA RowsMade ==
    ASSUME NEW x \in ApplicationRow
    PROVE  /\ \A n \in 1..MaxRow :
                NewRow(n) \in ApplicationRow /\ NewRow(n).status = "PENDING" /\ NewRow(n).row = n
           /\ x.status # "NONE" => \A s \in ApplicationStatus :
                LET new == [x EXCEPT !.status = s] IN
                /\ new \in ApplicationRow /\ new.status = s
                /\ new.row = x.row /\ new.assigned = x.assigned /\ new.deadline = x.deadline
  <1> DEFINE made == [status : ApplicationStatus, row : 1..MaxRow,
                      assigned : Never..LastDay, deadline : Never..(LastDay + ReviewDays)]
  <1>1. ASSUME NEW n \in 1..MaxRow
        PROVE  NewRow(n) \in ApplicationRow /\ NewRow(n).status = "PENDING" /\ NewRow(n).row = n
    <2>1. Never \in Never..LastDay /\ Never \in Never..(LastDay + ReviewDays)
      BY Bounds
    <2>2. "PENDING" \in ApplicationStatus
      BY DEF ApplicationStatus
    <2>3. QED
      BY <2>1, <2>2 DEF NewRow, NoRow, ApplicationRow
  <1>2. x.status # "NONE" => x \in made
    BY DEF ApplicationRow, NoRow
  <1>3. ASSUME x \in made, NEW s \in ApplicationStatus
        PROVE  LET new == [x EXCEPT !.status = s] IN
               /\ new \in ApplicationRow /\ new.status = s
               /\ new.row = x.row /\ new.assigned = x.assigned /\ new.deadline = x.deadline
    BY <1>3 DEF ApplicationRow
  <1>4. QED
    BY <1>1, <1>2, <1>3

-----------------------------------------------------------------------------
(* Requests that rely on nothing, and what keeps the others sound *)

FreeOperations == {"idle", "check", "insert", "grant"}
FreeRequests == {q \in CampaignRequest : q.op \in FreeOperations /\ q.picked = {}}

LEMMA FreeIsSound == FreeRequests \subseteq SoundRequests /\ FreeRequests \subseteq SoundRequests'
  BY DEF FreeRequests, FreeOperations, SoundRequests, SoundLock, Sweeping

LEMMA IdleShape ==
    /\ IdleRequest \in CampaignRequest /\ IdleRequest.op = "idle" /\ IdleRequest.picked = {}
    /\ IdleRequest.filled = 0 /\ IdleRequest.blocks = FALSE /\ IdleRequest.overtaken = FALSE
  BY Bounds DEF IdleRequest, CampaignRequest, Operations

LEMMA IdleIsFree == IdleRequest \in FreeRequests
  BY IdleShape DEF FreeRequests, FreeOperations

\* A request that begins, and one that goes on.
NewRequest(op, c, r, now, picked) ==
    [IdleRequest EXCEPT !.op = op, !.c = c, !.r = r, !.now = now, !.picked = picked]

LEMMA WentOn ==
    ASSUME NEW q \in CampaignRequest, NEW op \in Operations
    PROVE  /\ GoOn(q, op) \in CampaignRequest /\ GoOn(q, op).op = op /\ GoOn(q, op).r = q.r
           /\ GoOn(q, op).picked = {}
  BY IdleShape DEF CampaignRequest, GoOn

\* One request goes on, the others stay as they are.
LEMMA OneGoesOn ==
    ASSUME CampaignInv, NEW h \in CampaignHandlers, NEW q \in SoundRequests',
           request' = [request EXCEPT ![h] = q],
           \A g \in CampaignHandlers \ {h} : request[g] \in SoundRequests',
           q.op = "locked" => \A g \in CampaignHandlers : request[g].op = "locked" => request[g].c # q.c
    PROVE  request' \in [CampaignHandlers -> SoundRequests'] /\ LocksExclude'
  <1>1. request \in [CampaignHandlers -> SoundRequests] /\ LocksExclude
    BY DEF CampaignInv
  <1>2. request'[h] = q /\ \A g \in CampaignHandlers : g # h => request'[g] = request[g]
    BY <1>1
  <1>3. request' \in [CampaignHandlers -> SoundRequests']
    BY <1>1, <1>2
  <1>4. LocksExclude'
    BY <1>1, <1>2 DEF LocksExclude
  <1>5. QED
    BY <1>3, <1>4

LEMMA Replied ==
    ASSUME CampaignInv, NEW h \in CampaignHandlers, SoundRequests \subseteq SoundRequests',
           Reply(h) \/ \E op \in FreeOperations : Ask(h, op)
    PROVE  request' \in [CampaignHandlers -> SoundRequests'] /\ LocksExclude'
  <1>1. PICK q \in FreeRequests : request' = [request EXCEPT ![h] = q]
    <2>1. CASE Reply(h)
      BY <2>1, IdleIsFree DEF Reply
    <2>2. ASSUME NEW op \in FreeOperations, Ask(h, op)
          PROVE  \E q \in FreeRequests : request' = [request EXCEPT ![h] = q]
      <3>1. op \in Operations
        BY DEF FreeOperations, Operations
      <3>2. request[h] \in CampaignRequest
        BY DEF CampaignInv, CampaignTypeOK
      <3>3. GoOn(request[h], op) \in FreeRequests
        BY <3>1, <3>2, WentOn DEF FreeRequests
      <3>4. QED
        BY <2>2, <3>3 DEF Ask
    <2>3. QED
      BY <2>1, <2>2
  <1>2. q \in SoundRequests' /\ q.op # "locked"
    BY FreeIsSound DEF FreeRequests, FreeOperations
  <1>3. \A g \in CampaignHandlers \ {h} : request[g] \in SoundRequests'
    BY DEF CampaignInv
  <1>4. QED
    BY <1>1, <1>2, <1>3, OneGoesOn

-----------------------------------------------------------------------------
(* What a step has to leave alone for each part of the invariant *)

\* A row that is still the one it was went on towards a review or a miss.
GoesOn(e) ==
    /\ rows'[e] \in Int /\ rows[e] <= rows'[e]
    /\ application'[e].row \in 1..rows[e] =>
         /\ application'[e].row = application[e].row
         /\ application[e].status \in Given =>
              application'[e].status \in Given /\ application'[e].deadline = application[e].deadline

\* Misses stay noted: their rows go on, and only operators touch the blocks.
Undisturbed ==
    /\ UNCHANGED <<world, missed, atoned, raced>>
    /\ lifted \subseteq lifted'
    /\ \A r \in Reviewers \ lifted' : blockedUntil'[r] = blockedUntil[r]

LEMMA MissGoesOn ==
    ASSUME CampaignInv, NEW k \in RowKeys, k[2] <= rows[k[1]], GoesOn(k[1])
    PROVE  /\ k[1] \in Pairs /\ k[1][2] \in Reviewers /\ k[2] <= rows'[k[1]]
           /\ Current(k)' =>
                /\ Current(k) /\ application[k[1]].deadline \in Int
                /\ application[k[1]].status \in Given =>
                     application'[k[1]].status \in Given /\ application'[k[1]].deadline = application[k[1]].deadline
  <1>1. k[1] \in Pairs /\ k[2] \in 1..MaxRow /\ k[1][2] \in Reviewers
    BY KeysAre, PairsAre
  <1>2. rows[k[1]] \in Nat /\ rows'[k[1]] \in Int
    BY <1>1, Bounds DEF CampaignInv, CampaignTypeOK, GoesOn
  <1>3. k[2] \in 1..rows[k[1]] /\ k[2] <= rows'[k[1]]
    BY <1>1, <1>2, Bounds DEF GoesOn
  <1>4. application[k[1]].deadline \in Int
    BY <1>1, RowShapes DEF CampaignInv, CampaignTypeOK
  <1>5. QED
    BY <1>1, <1>3, <1>4 DEF GoesOn, Current

LEMMA MissesAre ==
    ASSUME CampaignInv, NEW k \in missed
    PROVE  /\ k \in RowKeys /\ k[1] \in world.entries /\ k[2] <= rows[k[1]]
           /\ Current(k) => application[k[1]].status \in Given /\ application[k[1]].deadline < day
  BY DEF CampaignInv, CampaignTypeOK, MissesAreNoted

LEMMA StaySound ==
    ASSUME CampaignInv, Undisturbed, day \in Int, day' \in Int, day <= day', copy \subseteq copy',
           \A e \in Pairs : GoesOn(e),
           \A r \in Reviewers : written[r] # Never => written'[r] # Never,
           NEW q \in SoundRequests, q.op = "locked" => campaign'[q.c].filled = campaign[q.c].filled
    PROVE  q \in SoundRequests'
  <1>1. q \in CampaignRequest /\ q.r \in Reviewers /\ q.picked \subseteq RowKeys /\ q.now \in Int
    BY DEF SoundRequests, CampaignRequest
  <1>2. ASSUME NEW k \in q.picked
        PROVE  k[2] <= rows'[k[1]] /\ StillSo(k, q)'
    <2>1. k \in RowKeys /\ k[2] <= rows[k[1]] /\ StillSo(k, q)
      BY <1>1 DEF SoundRequests
    <2>2. GoesOn(k[1])
      BY <2>1, KeysAre
    <2>3. QED
      BY <2>1, <2>2, MissGoesOn DEF StillSo, Current, Sweeping
  <1>3. SoundLock(q)'
    BY DEF SoundRequests, SoundLock, Undisturbed
  <1>4. ASSUME q.op \in Sweeping, ~q.overtaken
        PROVE  InTime(q)'
    <2>1. InTime(q)
      BY <1>4 DEF SoundRequests, SoundSweep
    <2>2. ASSUME NEW k \in missed, k[1][2] = q.r, Current(k)'
          PROVE  application'[k[1]].deadline < q.now
      <3>1. GoesOn(k[1])
        BY MissesAre, KeysAre
      <3>2. QED
        BY <1>1, <2>1, <2>2, <3>1, MissesAre, MissGoesOn DEF InTime
    <2>3. q.r \notin lifted' \cup raced' => blockedUntil'[q.r] = blockedUntil[q.r] /\ q.r \notin lifted \cup raced
      BY <1>1 DEF Undisturbed
    <2>4. QED
      BY <2>1, <2>2, <2>3 DEF InTime, Undisturbed, Counts
  <1>5. ASSUME q.op \in Sweeping
        PROVE  SoundSweep(q)'
    <2>1. SoundSweep(q)
      BY <1>5 DEF SoundRequests
    <2>2. q.now <= day'
      BY <1>1, <2>1 DEF SoundSweep
    <2>3. OfReviewer(q.r)' = OfReviewer(q.r)
      BY DEF OfReviewer, Undisturbed
    <2>4. q.blocks => q.op = "commit" /\ Counts(q, missed' \cup q.picked)
      BY <2>1 DEF SoundSweep, Undisturbed
    <2>5. QED
      BY <1>4, <1>5, <2>1, <2>2, <2>3, <2>4 DEF SoundSweep, Counts
  <1>6. q.op \in {"mark", "complete"} => written'[q.r] # Never /\ q.r \in copy'
    BY <1>1 DEF SoundRequests
  <1>7. QED
    BY <1>1, <1>2, <1>3, <1>5, <1>6 DEF SoundRequests

LEMMA SlotsStay ==
    ASSUME CampaignInv, world' = world,
           \A c \in Campaigns : /\ campaign'[c].filled = campaign[c].filled
                                /\ campaign[c].status = "CLOSED" => campaign'[c].status = "CLOSED",
           \A e \in Pairs : application'[e].status \in Given => application[e].status \in Given
    PROVE  SlotsAreNotOversold'
  <1> SUFFICES ASSUME NEW c \in Campaigns
               PROVE  /\ Cardinality(GivenSlots(c))' <= campaign'[c].filled
                      /\ campaign'[c].filled <= Slots
                      /\ campaign'[c].filled = Slots => campaign'[c].status = "CLOSED"
    BY DEF SlotsAreNotOversold
  <1>1. GivenSlots(c)' \subseteq GivenSlots(c) /\ GivenSlots(c) \subseteq world.entries
    BY Entries DEF GivenSlots, CampaignInv, CampaignTypeOK
  <1>2. IsFiniteSet(GivenSlots(c)) /\ Cardinality(GivenSlots(c))' <= Cardinality(GivenSlots(c))
        /\ Cardinality(GivenSlots(c)) \in Nat /\ Cardinality(GivenSlots(c))' \in Nat
    BY <1>1, Entries, FS_Subset, FS_CardinalityType DEF CampaignInv, CampaignTypeOK
  <1>3. Cardinality(GivenSlots(c)) <= campaign[c].filled /\ campaign[c].filled \in Nat
        /\ campaign[c].filled <= Slots /\ (campaign[c].filled = Slots => campaign[c].status = "CLOSED")
    BY DEF CampaignInv, SlotsAreNotOversold, CampaignTypeOK, CampaignRow
  <1>4. QED
    BY <1>2, <1>3

LEMMA MissesStay ==
    ASSUME CampaignInv, Undisturbed, day \in Int, day' \in Int, day <= day',
           \A e \in Pairs : GoesOn(e),
           \A e \in Pairs : application'[e].status = "EXPIRED" =>
                application[e].status = "EXPIRED" /\ application'[e].row = application[e].row
    PROVE  MissesAreNoted' /\ AtonedAreOver'
  <1>1. ASSUME NEW e \in Pairs, application'[e].status = "EXPIRED"
        PROVE  Key(e)' \in missed'
    BY <1>1 DEF CampaignInv, MissesAreNoted, Key, Undisturbed
  <1>2. ASSUME NEW k \in missed
        PROVE  /\ k[1] \in world.entries /\ k[2] <= rows'[k[1]] /\ k[1][2] \in Reviewers
               /\ Current(k)' => /\ Current(k) /\ application'[k[1]].deadline = application[k[1]].deadline
                                 /\ application'[k[1]].status \in Given /\ application'[k[1]].deadline < day'
    <2>1. GoesOn(k[1])
      BY MissesAre, KeysAre
    <2>2. QED
      BY <2>1, MissesAre, MissGoesOn
  <1>3. MissesAreNoted'
    BY <1>1, <1>2 DEF MissesAreNoted, Undisturbed
  <1>4. atoned \subseteq missed
    BY DEF CampaignInv, CampaignTypeOK
  <1>5. ASSUME NEW k \in atoned, k[1][2] \notin lifted' \cup raced'
        PROVE  /\ blockedUntil'[k[1][2]] # Never
               /\ Current(k)' => application'[k[1]].deadline <= BlockStart(blockedUntil'[k[1][2]])
    <2>1. blockedUntil'[k[1][2]] = blockedUntil[k[1][2]] /\ k[1][2] \notin lifted \cup raced
      BY <1>2, <1>4, <1>5 DEF Undisturbed
    <2>2. QED
      BY <1>2, <1>4, <2>1 DEF CampaignInv, AtonedAreOver
  <1>6. AtonedAreOver'
    BY <1>5 DEF AtonedAreOver, Undisturbed, BlockStart
  <1>7. QED
    BY <1>3, <1>6

\* A step that touches nothing but the request.
LEMMA OnlyTheRequest ==
    ASSUME CampaignInv, UNCHANGED <<campaignTables, world, day>>,
           request' \in [CampaignHandlers -> SoundRequests'], LocksExclude'
    PROVE  CampaignInv'
  <1> USE DEF campaignTables, campaignHistory, missHistory
  <1>1. SoundRequests' \subseteq CampaignRequest
    BY DEF SoundRequests
  <1>2. CampaignTypeOK'
    BY <1>1 DEF CampaignInv, CampaignTypeOK
  <1>3. SlotsAreNotOversold' /\ RowsAreKept'
    BY DEF CampaignInv, SlotsAreNotOversold, RowsAreKept, GivenSlots
  <1>4. MissesAreNoted' /\ AtonedAreOver'
    BY DEF CampaignInv, MissesAreNoted, AtonedAreOver, Current, BlockStart, Key
  <1>5. QED
    BY <1>2, <1>3, <1>4 DEF CampaignInv

LEMMA SameSound == UNCHANGED <<campaignTables, world, day>> => SoundRequests' = SoundRequests
  <1> SUFFICES ASSUME UNCHANGED <<campaignTables, world, day>> PROVE SoundRequests' = SoundRequests
    OBVIOUS
  <1> USE DEF campaignTables, campaignHistory, missHistory
  <1>1. \A q : SoundLock(q)' = SoundLock(q)
    BY DEF SoundLock
  <1>2. \A q, k : StillSo(k, q)' = StillSo(k, q)
    BY DEF StillSo
  <1>3. \A q : SoundSweep(q)' = SoundSweep(q)
    BY DEF SoundSweep, InTime, Counts, Current, OfReviewer
  <1>4. QED
    BY <1>1, <1>2, <1>3 DEF SoundRequests

-----------------------------------------------------------------------------
(* Steps that only read *)

LEMMA DaysAre == CampaignInv => day \in 0..LastDay /\ day \in Int /\ day # Never
  BY Bounds DEF CampaignInv, CampaignTypeOK

LEMMA RequestsAre ==
    ASSUME CampaignInv, NEW h \in CampaignHandlers
    PROVE  LET q == request[h] IN
           /\ q \in SoundRequests /\ q \in CampaignRequest
           /\ q.c \in Campaigns /\ q.r \in Reviewers /\ <<q.c, q.r>> \in Pairs /\ q.now \in 0..LastDay
           /\ q.picked \subseteq RowKeys /\ q.op \in Operations
  <1>1. request[h] \in SoundRequests /\ request[h] \in CampaignRequest
    BY DEF CampaignInv, SoundRequests
  <1>2. QED
    BY <1>1, PairsAre DEF CampaignRequest

LEMMA RowsAre ==
    ASSUME CampaignInv, NEW e \in Pairs
    PROVE  /\ application[e] \in ApplicationRow /\ rows[e] \in 0..MaxRow /\ application[e].row <= rows[e]
           /\ application[e].status # "NONE" => Key(e) \in RowKeys /\ application[e].row \in 1..MaxRow
           /\ Key(e) \in RowKeys => application[e].status # "NONE"
           /\ Key(e)[1] = e /\ Key(e)[2] = application[e].row
  BY RowShapes, KeysAre DEF CampaignInv, CampaignTypeOK, RowsAreKept, Key

\* A request that begins, or one that goes on to read more, changes nothing else.
LEMMA ReadsOn ==
    ASSUME CampaignInv, NEW h \in CampaignHandlers, UNCHANGED <<campaignTables, world, day>>,
           NEW q \in SoundRequests, request' = [request EXCEPT ![h] = q],
           q.op = "locked" => \A g \in CampaignHandlers : request[g].op = "locked" => request[g].c # q.c
    PROVE  CampaignInv'
  <1>1. SoundRequests' = SoundRequests
    BY SameSound
  <1>2. request' \in [CampaignHandlers -> SoundRequests'] /\ LocksExclude'
    BY <1>1, OneGoesOn DEF CampaignInv
  <1>3. QED
    BY <1>2, OnlyTheRequest

LEMMA SweepStarts ==
    ASSUME CampaignInv, NEW h \in CampaignHandlers, NEW e \in Pairs, StartSweep(h, e[1], e[2])
    PROVE  CampaignInv'
  <1> DEFINE late == {x \in WithStatus(e[2], "ASSIGNED") : application[x].deadline < day}
             picked == {Key(x) : x \in late}
             op == IF picked = {} THEN "check" ELSE "sweep"
             q == NewRequest(op, e[1], e[2], day, picked)
  <1>1. \A x \in late : /\ x \in OfReviewer(e[2]) /\ x \in Pairs
                        /\ application[x].status = "ASSIGNED" /\ application[x].deadline < day
    BY OfReviewerFinite DEF WithStatus, CampaignInv, CampaignTypeOK
  <1>2. picked \in SUBSET RowKeys
    BY <1>1, RowsAre
  <1>3. request' = [request EXCEPT ![h] = q] /\ UNCHANGED <<campaignTables, world, day>>
    BY DEF StartSweep, Begin, NewRequest
  <1>4. /\ q \in CampaignRequest /\ q.op = op /\ q.r = e[2] /\ q.now = day /\ q.picked = picked
        /\ q.blocks = FALSE /\ q.overtaken = FALSE /\ op \in {"check", "sweep"}
    <2>1. op \in Operations /\ e[1] \in Campaigns /\ e[2] \in Reviewers /\ op \in {"check", "sweep"}
          /\ day \in 0..LastDay
      BY PairsAre, DaysAre DEF Operations, Sweeping
    <2> HIDE DEF picked, op
    <2>2. QED
      BY <1>2, <2>1, IdleShape DEF CampaignRequest, NewRequest
  <1>5. ASSUME NEW k \in picked
        PROVE  k[2] <= rows[k[1]] /\ StillSo(k, q) /\ k[1] \in OfReviewer(e[2])
    <2>1. PICK x \in late : k = Key(x)
      OBVIOUS
    <2>2. k[1] = x /\ k[2] = application[x].row /\ k[2] <= rows[k[1]]
      BY <1>1, <2>1, RowsAre
    <2> HIDE DEF q, late, picked, op
    <2>3. QED
      BY <1>1, <1>4, <2>1, <2>2 DEF StillSo, Given
  <1> HIDE DEF picked, late, q, op
  <1>6. ASSUME q.op = "sweep"
        PROVE  SoundSweep(q)
    <2>1. InTime(q)
      BY <1>4, <1>6, MissesAre DEF InTime
    <2>2. q.now <= day
      BY <1>4, DaysAre
    <2>3. QED
      BY <1>4, <1>5, <1>6, <2>1, <2>2 DEF SoundSweep
  <1>7. q \in SoundRequests
    BY <1>4, <1>5, <1>6 DEF SoundRequests, SoundLock, Sweeping
  <1>8. QED
    BY <1>3, <1>4, <1>7, ReadsOn

LEMMA CancelStarts ==
    ASSUME CampaignInv, NEW h \in CampaignHandlers, NEW e \in Pairs, StartCancel(h, e[1], e[2])
    PROVE  CampaignInv'
  <1> DEFINE q == NewRequest("delete", e[1], e[2], day, {Key(e)})
  <1>1. e = <<e[1], e[2]>> /\ Key(e) \in RowKeys
    BY PairsAre, RowsAre DEF StartCancel
  <1>2. q \in CampaignRequest /\ q.op = "delete" /\ q.picked = {Key(e)}
    <2>1. "delete" \in Operations /\ e[1] \in Campaigns /\ e[2] \in Reviewers /\ {Key(e)} \in SUBSET RowKeys
          /\ day \in 0..LastDay
      BY <1>1, PairsAre, DaysAre DEF Operations
    <2>2. QED
      BY <2>1, IdleShape DEF CampaignRequest, NewRequest
  <1>3. request' = [request EXCEPT ![h] = q] /\ UNCHANGED <<campaignTables, world, day>>
    BY <1>1 DEF StartCancel, Begin, NewRequest
  <1> HIDE DEF q
  <1>4. q \in SoundRequests
    BY <1>2, RowsAre DEF SoundRequests, SoundLock, StillSo, Sweeping
  <1>5. QED
    BY <1>2, <1>3, <1>4, ReadsOn

LEMMA AssignStarts ==
    ASSUME CampaignInv, NEW h \in CampaignHandlers, NEW e \in Pairs, StartAssign(h, e[1], e[2])
    PROVE  CampaignInv'
  <1> DEFINE q == NewRequest("assign", e[1], e[2], day, {})
  <1>1. q \in CampaignRequest /\ q.op = "assign" /\ q.picked = {}
    <2>1. "assign" \in Operations /\ e[1] \in Campaigns /\ e[2] \in Reviewers /\ {} \in SUBSET RowKeys
          /\ day \in 0..LastDay
      BY PairsAre, DaysAre DEF Operations
    <2>2. QED
      BY <2>1, IdleShape DEF CampaignRequest, NewRequest
  <1>2. request' = [request EXCEPT ![h] = q] /\ UNCHANGED <<campaignTables, world, day>>
    BY DEF StartAssign, Begin, NewRequest
  <1>3. <<q.c, q.r>> \in world.entries
    <2>1. q.c = e[1] /\ q.r = e[2]
      <3>1. "assign" \in Operations /\ e[1] \in Campaigns /\ e[2] \in Reviewers /\ {} \in SUBSET RowKeys
            /\ day \in 0..LastDay
        BY PairsAre, DaysAre DEF Operations
      <3>2. QED
        BY <3>1, IdleShape DEF CampaignRequest, NewRequest
    <2>2. QED
      BY <2>1 DEF StartAssign, Begin
  <1> HIDE DEF q
  <1>4. q \in SoundRequests
    BY <1>1, <1>3 DEF SoundRequests, SoundLock, Sweeping
  <1>5. QED
    BY <1>1, <1>2, <1>4, ReadsOn

LEMMA LockTaken ==
    ASSUME CampaignInv, NEW h \in CampaignHandlers, LockCampaign(h)
    PROVE  CampaignInv'
  <1> DEFINE q == request[h]
             n == [q EXCEPT !.op = "locked", !.filled = campaign[q.c].filled]
  <1>1. CASE Reply(h)
    <2>1. SoundRequests' = SoundRequests /\ UNCHANGED <<campaignTables, world, day>>
      BY SameSound DEF LockCampaign
    <2>2. QED
      BY <1>1, <2>1, Replied, OnlyTheRequest
  <1>2. CASE ~Reply(h)
    <2>a. request' = [request EXCEPT ![h].op = "locked", ![h].filled = campaign[q.c].filled]
      BY <1>2 DEF LockCampaign
    <2>1. /\ UNCHANGED <<campaignTables, world, day>>
          /\ q.op = "assign" /\ ~(campaign[q.c].filled >= Slots)
          /\ \A g \in CampaignHandlers : request[g].op = "locked" => request[g].c # q.c
      BY <1>2 DEF LockCampaign
    <2>2. q \in SoundRequests /\ q \in CampaignRequest /\ q.c \in Campaigns /\ q.r \in Reviewers
      BY RequestsAre
    <2>3. campaign[q.c].filled \in Nat /\ campaign[q.c].filled < Slots
      BY <2>1, <2>2, Bounds DEF CampaignInv, CampaignTypeOK, CampaignRow
    <2>4. /\ n \in CampaignRequest /\ n.op = "locked" /\ n.filled = campaign[q.c].filled
          /\ n.c = q.c /\ n.r = q.r /\ n.picked = q.picked
      BY <2>2, <2>3 DEF CampaignRequest, Operations
    <2>5. request' = [request EXCEPT ![h] = n]
      BY <2>a DEF CampaignInv, CampaignTypeOK
    <2>6. <<q.c, q.r>> \in world.entries
      BY <2>1, <2>2 DEF SoundRequests, SoundLock
    <2> HIDE DEF n, q
    <2>7. n \in SoundRequests
      BY <2>1, <2>2, <2>3, <2>4, <2>6 DEF SoundRequests, SoundLock, StillSo, Sweeping
    <2>8. QED
      BY <2>1, <2>4, <2>5, <2>7, ReadsOn
  <1>3. QED
    BY <1>1, <1>2

LEMMA AssignmentPicked ==
    ASSUME CampaignInv, NEW h \in CampaignHandlers, PickAssigned(h)
    PROVE  CampaignInv'
  <1> DEFINE q == request[h]
  <1>1. /\ q \in SoundRequests /\ q \in CampaignRequest /\ q.op = "mark"
        /\ q.r \in Reviewers /\ written[q.r] # Never /\ q.r \in copy
    BY RequestsAre DEF PickAssigned, SoundRequests
  <1>2. SoundRequests' = SoundRequests /\ UNCHANGED <<campaignTables, world, day>>
    BY SameSound DEF PickAssigned
  <1>3. CASE Reply(h)
    BY <1>2, <1>3, Replied, OnlyTheRequest
  <1>4. ASSUME NEW e \in WithStatus(q.r, "ASSIGNED"),
               request' = [request EXCEPT ![h].op = "complete", ![h].c = e[1], ![h].picked = {Key(e)}]
        PROVE  CampaignInv'
    <2> DEFINE n == [q EXCEPT !.op = "complete", !.c = e[1], !.picked = {Key(e)}]
    <2>1. e \in Pairs /\ application[e].status = "ASSIGNED" /\ e[1] \in Campaigns
      BY OfReviewerFinite, PairsAre DEF WithStatus, CampaignInv, CampaignTypeOK
    <2>2. Key(e) \in RowKeys /\ Key(e)[1] = e /\ Key(e)[2] <= rows[e]
      BY <2>1, RowsAre
    <2>3. n \in CampaignRequest /\ n.op = "complete" /\ n.r = q.r /\ n.picked = {Key(e)}
      BY <1>1, <2>1, <2>2 DEF CampaignRequest, Operations
    <2>4. request' = [request EXCEPT ![h] = n]
      BY <1>4 DEF CampaignInv, CampaignTypeOK
    <2> HIDE DEF n, q
    <2>5. n \in SoundRequests
      BY <1>1, <2>1, <2>2, <2>3 DEF SoundRequests, SoundLock, StillSo, Given, Sweeping
    <2>6. QED
      BY <1>2, <2>3, <2>4, <2>5, ReadsOn
  <1>5. QED
    BY <1>3, <1>4 DEF PickAssigned

LEMMA CheckAndLetGo ==
    ASSUME CampaignInv, NEW h \in CampaignHandlers, CheckApply(h) \/ SweepRaises(h) \/ DieInRequest(h)
    PROVE  CampaignInv'
  <1>1. SoundRequests' = SoundRequests /\ UNCHANGED <<campaignTables, world, day>>
    BY SameSound DEF CheckApply, SweepRaises, DieInRequest
  <1>2. Reply(h) \/ Ask(h, "insert")
    BY DEF CheckApply, SweepRaises, DieInRequest
  <1>3. request' \in [CampaignHandlers -> SoundRequests'] /\ LocksExclude'
    BY <1>1, <1>2, Replied DEF FreeOperations
  <1>4. QED
    BY <1>1, <1>3, OnlyTheRequest

\* The rows stay the sweep's: it holds on to them.
LEMMA SweepFlushes ==
    ASSUME CampaignInv, NEW h \in CampaignHandlers, FlushSweep(h)
    PROVE  CampaignInv'
  <1> DEFINE q == request[h]
             op == IF blockedUntil[q.r] <= q.now THEN "count" ELSE "commit"
             n == [q EXCEPT !.until = blockedUntil[q.r], !.op = op]
  <1>1. /\ q \in SoundRequests /\ q \in CampaignRequest /\ q.r \in Reviewers /\ q.op = "sweep"
        /\ UNCHANGED <<campaignTables, world, day>>
    BY RequestsAre DEF FlushSweep
  <1>2. blockedUntil[q.r] \in Never..(LastDay + OperatorBlockDays)
    BY <1>1 DEF CampaignInv, CampaignTypeOK
  <1>3. /\ n \in CampaignRequest /\ n.op \in {"count", "commit"} /\ n.until = blockedUntil[q.r]
        /\ n.r = q.r /\ n.now = q.now /\ n.picked = q.picked /\ n.blocks = q.blocks /\ n.overtaken = q.overtaken
        /\ n.op = "count" => n.until <= n.now
    BY <1>1, <1>2 DEF CampaignRequest, Operations, Sweeping
  <1>4. request' = [request EXCEPT ![h] = n]
    BY DEF FlushSweep, CampaignInv, CampaignTypeOK
  <1> HIDE DEF n, op, q
  <1>5. SoundSweep(q) /\ ~q.blocks
    BY <1>1 DEF SoundRequests, SoundSweep, Sweeping
  <1>6. SoundSweep(n)
    <2>1. ~n.overtaken => InTime(n)
      BY <1>3, <1>5 DEF SoundSweep, InTime
    <2>2. QED
      BY <1>3, <1>5, <2>1 DEF SoundSweep
  <1>7. n \in SoundRequests
    BY <1>1, <1>3, <1>6 DEF SoundRequests, SoundLock, StillSo, Sweeping
  <1>8. QED
    BY <1>1, <1>3, <1>4, <1>7, ReadsOn

\* What a sweep counts was missed; and if none overtook it, no earlier block was for it.
LEMMA SweepCounts ==
    ASSUME CampaignInv, NEW h \in CampaignHandlers, CountSweep(h)
    PROVE  CampaignInv'
  <1> DEFINE q == request[h]
             b == CycleMissed(q.r, q.picked, q.until) >= MissLimit
             n == [q EXCEPT !.op = "commit", !.blocks = b]
             All == missed \cup q.picked
             S == {e \in OfReviewer(q.r) :
                     /\ Key(e) \in q.picked \/ application[e].status = "EXPIRED"
                     /\ q.until # Never => application[e].deadline > BlockStart(q.until)}
  <1>1. /\ q \in SoundRequests /\ q \in CampaignRequest /\ q.r \in Reviewers /\ q.op = "count"
        /\ q.picked \subseteq RowKeys /\ UNCHANGED <<campaignTables, world, day>>
    BY RequestsAre DEF CountSweep
  <1>2. SoundSweep(q) /\ world \in Worlds
    BY <1>1 DEF SoundRequests, Sweeping, CampaignInv, CampaignTypeOK
  <1>3. /\ n \in CampaignRequest /\ n.op = "commit" /\ n.until = q.until /\ n.r = q.r /\ n.now = q.now
        /\ n.picked = q.picked /\ n.blocks = b /\ n.overtaken = q.overtaken
    <2>1. b \in BOOLEAN
      OBVIOUS
    <2> HIDE DEF b
    <2>2. QED
      BY <1>1, <2>1 DEF CampaignRequest, Operations, Sweeping
  <1>4. request' = [request EXCEPT ![h] = n]
    BY DEF CountSweep, CampaignInv, CampaignTypeOK
  <1>5. CycleMissed(q.r, q.picked, q.until) = Cardinality(S) /\ S \subseteq OfReviewer(q.r) /\ S \subseteq Pairs
        /\ Cardinality(S) \in Nat
    BY <1>2, OfReviewerFinite DEF CycleMissed
  <1>6. \A k \in All : k \in RowKeys /\ k[1] \in world.entries
    BY <1>1, <1>2, MissesAre DEF SoundSweep, OfReviewer
  <1>7. \A e \in S : Key(e) \in MissedBy(q.r, All) /\ Key(e)[1] = e /\ Current(Key(e))
    <2>1. \A e \in S : Key(e) \in All /\ e \in Pairs /\ e[2] = q.r
      BY <1>5 DEF CampaignInv, MissesAreNoted, OfReviewer
    <2>2. QED
      BY <2>1, RowsAre DEF MissedBy, Current
  <1>8. b => Counts(q, All)
    <2>1. Cardinality(S) <= Cardinality(MissedBy(q.r, All)) /\ Cardinality(MissedBy(q.r, All)) \in Nat
      BY <1>2, <1>6, <1>7, MoreMissed, OneRowEach
    <2>2. QED
      BY <1>5, <2>1, Bounds DEF Counts
  <1>9. ASSUME ~q.overtaken
        PROVE  InTime(n)
    <2>1. InTime(q)
      BY <1>2, <1>9 DEF SoundSweep
    <2>2. ASSUME b, q.r \notin lifted \cup raced, blockedUntil[q.r] = q.until
          PROVE  Counts(q, All \ atoned)
      <3>1. \A e \in S : Key(e) \in MissedBy(q.r, All \ atoned)
        <4>1. ASSUME NEW e \in S, Key(e) \in atoned
              PROVE  FALSE
          <5>1. Key(e)[1] = e /\ e[2] = q.r /\ e \in Pairs /\ Current(Key(e))
            BY <1>5, <1>7 DEF OfReviewer
          <5>2. q.until # Never /\ application[e].deadline <= BlockStart(q.until)
            BY <2>2, <4>1, <5>1 DEF CampaignInv, AtonedAreOver
          <5>3. application[e].deadline > BlockStart(q.until)
            BY <5>2
          <5>4. application[e].deadline \in Int /\ BlockStart(q.until) \in Int
            BY <1>1, <5>1, RowsAre, RowShapes, Bounds DEF BlockStart, CampaignRequest
          <5>5. QED
            BY <5>2, <5>3, <5>4
        <4>2. QED
          BY <1>7, <4>1 DEF MissedBy
      <3>2. IsFiniteSet(MissedBy(q.r, All \ atoned)) /\ Cardinality(MissedBy(q.r, All \ atoned)) \in Nat
        BY <1>2, <1>6, MoreMissed
      <3>3. Cardinality(S) <= Cardinality(MissedBy(q.r, All \ atoned))
        BY <3>1, <3>2, OneRowEach
      <3>4. QED
        BY <1>5, <2>2, <3>2, <3>3, Bounds DEF Counts
    <2> HIDE DEF n, b, S
    <2>3. QED
      BY <1>1, <1>3, <2>1, <2>2 DEF InTime, Counts
  <1> HIDE DEF n, b, S, q
  <1>10. SoundSweep(n)
    BY <1>1, <1>2, <1>3, <1>8, <1>9 DEF SoundSweep, Counts, All
  <1>11. n \in SoundRequests
    BY <1>1, <1>3, <1>10 DEF SoundRequests, SoundLock, StillSo, Sweeping
  <1>12. QED
    BY <1>1, <1>3, <1>4, <1>11, ReadsOn

-----------------------------------------------------------------------------
(* Steps that write, but no application *)

LEMMA NobodyDisturbs ==
    UNCHANGED <<world, missHistory, lifted, blockedUntil>> => Undisturbed /\ UNCHANGED <<missed, atoned, raced>>
  BY DEF Undisturbed, missHistory

LEMMA SameRowsGoOn ==
    ASSUME CampaignInv, UNCHANGED <<application, rows>>
    PROVE  \A e \in Pairs : GoesOn(e)
  BY Bounds DEF GoesOn, CampaignInv, CampaignTypeOK

\* The requests stay sound if the rows and the slots stay.
LEMMA SameRowsSound ==
    ASSUME CampaignInv, Undisturbed, UNCHANGED <<application, rows>>, day' \in Int, day <= day', copy \subseteq copy',
           \A r \in Reviewers : written[r] # Never => written'[r] # Never,
           \A c \in Campaigns : campaign'[c].filled = campaign[c].filled
    PROVE  /\ SoundRequests \subseteq SoundRequests' /\ MissesAreNoted' /\ AtonedAreOver'
           /\ UNCHANGED request => request' \in [CampaignHandlers -> SoundRequests'] /\ LocksExclude'
  <1>1. SoundRequests \subseteq SoundRequests'
    <2>1. ASSUME NEW q \in SoundRequests
          PROVE  q \in SoundRequests'
      <3>1. q.c \in Campaigns
        BY DEF SoundRequests, CampaignRequest
      <3>2. QED
        BY <3>1, StaySound, SameRowsGoOn, DaysAre
    <2>2. QED
      BY <2>1
  <1>2. UNCHANGED request => request' \in [CampaignHandlers -> SoundRequests'] /\ LocksExclude'
    BY <1>1 DEF CampaignInv, LocksExclude
  <1>3. MissesAreNoted' /\ AtonedAreOver'
    BY SameRowsGoOn, MissesStay, DaysAre
  <1>4. QED
    BY <1>1, <1>2, <1>3

LEMMA CopyGranted ==
    ASSUME CampaignInv, NEW h \in CampaignHandlers, GrantCopy(h)
    PROVE  CampaignInv'
  <1> USE DEF campaignHistory
  <1>1. /\ Reply(h) /\ copy \subseteq copy' /\ copy' \subseteq copy \cup {request[h].r}
        /\ UNCHANGED <<world, campaign, application, rows, blockedUntil, day, bought, written, missHistory, lifted>>
    BY DEF GrantCopy
  <1>u. Undisturbed /\ UNCHANGED <<missed, atoned, raced>>
    BY <1>1, NobodyDisturbs
  <1>2. request' \in [CampaignHandlers -> SoundRequests'] /\ LocksExclude'
    BY <1>1, <1>u, SameRowsSound, DaysAre, Replied
  <1>3. CampaignTypeOK'
    <2>1. request' \in [CampaignHandlers -> CampaignRequest]
      BY <1>2 DEF SoundRequests
    <2>2. copy' \subseteq Reviewers
      BY <1>1, RequestsAre DEF CampaignInv, CampaignTypeOK
    <2>3. QED
      BY <1>1, <1>u, <2>1, <2>2 DEF CampaignInv, CampaignTypeOK
  <1>4. SlotsAreNotOversold' /\ MissesAreNoted' /\ AtonedAreOver'
    BY <1>1, <1>u, SlotsStay, SameRowsSound, DaysAre
  <1>5. RowsAreKept'
    BY <1>1 DEF RowsAreKept, CampaignInv
  <1>6. QED
    BY <1>2, <1>3, <1>4, <1>5 DEF CampaignInv

LEMMA ReviewWritten ==
    ASSUME CampaignInv, NEW h \in CampaignHandlers, NEW c \in Campaigns, NEW r \in Reviewers, WriteReview(h, c, r)
    PROVE  CampaignInv'
  <1>1. /\ UNCHANGED <<world, campaign, application, rows, blockedUntil, day, copy, bought, missHistory, lifted>>
        /\ written' = [written EXCEPT ![r] = day]
        /\ (r \in copy /\ Begin(h, "mark", c, r, {})) \/ UNCHANGED request
    BY DEF WriteReview
  <1>u. Undisturbed /\ UNCHANGED <<missed, atoned, raced>>
    BY <1>1, NobodyDisturbs
  <1>2. written' \in [Reviewers -> Never..LastDay] /\ written'[r] # Never
        /\ \A x \in Reviewers : written[x] # Never => written'[x] # Never
    BY <1>1, DaysAre, Bounds DEF CampaignInv, CampaignTypeOK
  <1>3. SoundRequests \subseteq SoundRequests' /\ MissesAreNoted' /\ AtonedAreOver'
    BY <1>1, <1>u, <1>2, SameRowsSound, DaysAre
  <1>4. request' \in [CampaignHandlers -> SoundRequests'] /\ LocksExclude'
    <2>1. CASE UNCHANGED request
      BY <1>1, <1>u, <1>2, <2>1, SameRowsSound, DaysAre
    <2>2. CASE r \in copy /\ Begin(h, "mark", c, r, {})
      <3> DEFINE q == NewRequest("mark", c, r, day, {})
      <3>1. q \in CampaignRequest /\ q.op = "mark" /\ q.r = r /\ q.picked = {}
        <4>1. "mark" \in Operations /\ {} \in SUBSET RowKeys /\ day \in 0..LastDay
          BY DaysAre DEF Operations
        <4>2. QED
          BY <4>1, IdleShape DEF CampaignRequest, NewRequest
      <3>2. request' = [request EXCEPT ![h] = q]
        BY <2>2 DEF Begin, NewRequest
      <3> HIDE DEF q
      <3>3. q \in SoundRequests'
        BY <1>1, <1>2, <2>2, <3>1 DEF SoundRequests, SoundLock, Sweeping
      <3>4. QED
        BY <1>3, <3>1, <3>2, <3>3, OneGoesOn DEF CampaignInv
    <2>3. QED
      BY <1>1, <2>1, <2>2
  <1>5. CampaignTypeOK'
    <2>1. request' \in [CampaignHandlers -> CampaignRequest]
      BY <1>4 DEF SoundRequests
    <2>2. QED
      BY <1>1, <1>u, <1>2, <2>1 DEF CampaignInv, CampaignTypeOK
  <1>6. SlotsAreNotOversold' /\ MissesAreNoted' /\ AtonedAreOver'
    BY <1>1, <1>u, <1>3, SlotsStay
  <1>7. RowsAreKept'
    BY <1>1, <1>2, PairsAre DEF RowsAreKept, CampaignInv
  <1>8. QED
    BY <1>4, <1>5, <1>6, <1>7 DEF CampaignInv

LEMMA OthersAct ==
    ASSUME CampaignInv,
           \/ \E c \in Campaigns : CloseCampaign(c)
           \/ \E r \in Reviewers : BuyBook(r) \/ BlockReviewer(r) \/ UnblockReviewer(r)
           \/ NextDay
    PROVE  CampaignInv'
  <1> USE DEF campaignHistory, campaignTables
  <1>1. ASSUME NEW c \in Campaigns, CloseCampaign(c)
        PROVE  CampaignInv'
    <2>1. /\ campaign' \in [Campaigns -> CampaignRow]
          /\ \A d \in Campaigns : /\ campaign'[d].filled = campaign[d].filled
                                  /\ campaign[d].status = "CLOSED" => campaign'[d].status = "CLOSED"
          /\ UNCHANGED <<world, application, rows, blockedUntil, day, copy, bought, written, missHistory, lifted, request>>
      BY <1>1 DEF CloseCampaign, CampaignInv, CampaignTypeOK, CampaignRow
    <2>u. Undisturbed /\ UNCHANGED <<missed, atoned, raced>>
      BY <2>1, NobodyDisturbs
    <2>2. request' \in [CampaignHandlers -> SoundRequests'] /\ LocksExclude' /\ MissesAreNoted' /\ AtonedAreOver'
      BY <2>1, <2>u, SameRowsSound, DaysAre
    <2>3. CampaignTypeOK' /\ RowsAreKept'
      BY <2>1, <2>u DEF CampaignInv, CampaignTypeOK, RowsAreKept
    <2>4. SlotsAreNotOversold'
      BY <2>1, <2>u, SlotsStay
    <2>5. QED
      BY <2>2, <2>3, <2>4 DEF CampaignInv
  <1>2. ASSUME NEW r \in Reviewers, BuyBook(r) \/ BlockReviewer(r) \/ UnblockReviewer(r)
        PROVE  CampaignInv'
    <2>1. /\ UNCHANGED <<world, campaign, application, rows, day, copy, written, missHistory, request>>
          /\ bought' \subseteq Reviewers /\ lifted' \subseteq Reviewers /\ lifted \subseteq lifted'
          /\ blockedUntil' \in [Reviewers -> Never..(LastDay + OperatorBlockDays)]
          /\ \A x \in Reviewers \ lifted' : blockedUntil'[x] = blockedUntil[x]
      <3>1. day + OperatorBlockDays \in Never..(LastDay + OperatorBlockDays)
            /\ Never \in Never..(LastDay + OperatorBlockDays)
        BY DaysAre, Bounds
      <3>2. QED
        BY <1>2, <3>1 DEF BuyBook, BlockReviewer, UnblockReviewer, CampaignInv, CampaignTypeOK
    <2>u. Undisturbed /\ UNCHANGED <<missed, atoned, raced>>
      BY <2>1 DEF Undisturbed, missHistory
    <2>2. request' \in [CampaignHandlers -> SoundRequests'] /\ LocksExclude' /\ MissesAreNoted' /\ AtonedAreOver'
      BY <2>1, <2>u, SameRowsSound, DaysAre
    <2>3. CampaignTypeOK' /\ RowsAreKept'
      BY <2>1, <2>u DEF CampaignInv, CampaignTypeOK, RowsAreKept
    <2>4. SlotsAreNotOversold'
      BY <2>1, <2>u, SlotsStay
    <2>5. QED
      BY <2>2, <2>3, <2>4 DEF CampaignInv
  <1>3. CASE NextDay
    <2>1. /\ UNCHANGED <<world, campaign, application, rows, blockedUntil, copy, bought, written, missHistory, lifted, request>>
          /\ day' \in 0..LastDay /\ day' \in Int /\ day < day'
      BY <1>3, Entries, DaysAre, Bounds DEF NextDay, CampaignInv, CampaignTypeOK
    <2>u. Undisturbed /\ UNCHANGED <<missed, atoned, raced>>
      BY <2>1, NobodyDisturbs
    <2>2. request' \in [CampaignHandlers -> SoundRequests'] /\ LocksExclude' /\ MissesAreNoted' /\ AtonedAreOver'
      BY <2>1, <2>u, SameRowsSound, DaysAre
    <2>3. CampaignTypeOK' /\ RowsAreKept'
      BY <2>1, <2>u DEF CampaignInv, CampaignTypeOK, RowsAreKept
    <2>4. SlotsAreNotOversold'
      BY <2>1, <2>u, SlotsStay
    <2>5. QED
      BY <2>2, <2>3, <2>4 DEF CampaignInv
  <1>4. QED
    BY <1>1, <1>2, <1>3

-----------------------------------------------------------------------------
(* Steps that write an application *)

LEMMA ApplicationInserted ==
    ASSUME CampaignInv, NEW h \in CampaignHandlers, InsertApplication(h)
    PROVE  CampaignInv'
  <1> USE DEF campaignHistory
  <1> DEFINE p == <<request[h].c, request[h].r>>
  <1>1. /\ p \in Pairs /\ Reply(h)
        /\ UNCHANGED <<world, campaign, blockedUntil, day, copy, bought, written, missHistory, lifted>>
    BY RequestsAre DEF InsertApplication
  <1>u. Undisturbed /\ UNCHANGED <<missed, atoned, raced>>
    BY <1>1, NobodyDisturbs
  <1>2. CASE application[p] # NoRow
    <2>1. UNCHANGED <<application, rows>>
      BY <1>2 DEF InsertApplication
    <2>2. request' \in [CampaignHandlers -> SoundRequests'] /\ LocksExclude' /\ MissesAreNoted' /\ AtonedAreOver'
      BY <1>1, <1>u, <2>1, SameRowsSound, DaysAre, Replied
    <2>3. request' \in [CampaignHandlers -> CampaignRequest]
      BY <2>2 DEF SoundRequests
    <2>4. CampaignTypeOK' /\ RowsAreKept'
      BY <1>1, <1>u, <2>1, <2>3 DEF CampaignInv, CampaignTypeOK, RowsAreKept
    <2>5. SlotsAreNotOversold'
      BY <1>1, <1>u, <2>1, SlotsStay
    <2>6. QED
      BY <2>2, <2>4, <2>5 DEF CampaignInv
  <1>3. CASE application[p] = NoRow
    <2> DEFINE n == rows[p] + 1
               new == NewRow(n)
    <2>1. /\ rows' = [rows EXCEPT ![p] = @ + 1] /\ rows[p] < MaxRow
          /\ application' = [application EXCEPT ![p] = new]
      BY <1>3 DEF InsertApplication
    <2>2. n \in 1..MaxRow /\ rows[p] \in Nat
      BY <1>1, <2>1, RowsAre, Bounds
    <2>3. new \in ApplicationRow /\ new.status = "PENDING" /\ new.row = n
      BY <1>1, <2>2, RowsMade, RowsAre
    <2> HIDE DEF new, p
    <2>4. /\ rows' \in [Pairs -> 0..MaxRow] /\ rows'[p] = rows[p] + 1
          /\ application' \in [Pairs -> ApplicationRow] /\ application'[p] = new
          /\ \A e \in Pairs : e # p => application'[e] = application[e] /\ rows'[e] = rows[e]
      <3>1. rows[p] + 1 \in 0..MaxRow
        BY <2>2
      <3>2. QED
        BY <1>1, <2>1, <2>3, <3>1 DEF CampaignInv, CampaignTypeOK
    <2>5. \A e \in Pairs : GoesOn(e)
      <3>1. \A e \in Pairs : rows[e] \in Nat
        BY RowsAre, Bounds
      <3>2. ASSUME NEW e \in Pairs, e # p
            PROVE  GoesOn(e)
        BY <2>4, <3>1, <3>2 DEF GoesOn
      <3>3. GoesOn(p)
        BY <1>1, <2>2, <2>3, <2>4 DEF GoesOn
      <3>4. QED
        BY <3>2, <3>3
    <2>6. SoundRequests \subseteq SoundRequests'
      <3>1. \A q \in SoundRequests : q \in SoundRequests'
        BY <1>1, <1>u, <2>5, StaySound, DaysAre
      <3>2. QED
        BY <3>1
    <2>7. request' \in [CampaignHandlers -> SoundRequests'] /\ LocksExclude'
      BY <1>1, <2>6, Replied
    <2>8. request' \in [CampaignHandlers -> CampaignRequest]
      BY <2>7 DEF SoundRequests
    <2>9. CampaignTypeOK'
      BY <1>1, <1>u, <2>4, <2>8 DEF CampaignInv, CampaignTypeOK
    <2>10. RowsAreKept'
      BY <1>1, <2>2, <2>3, <2>4 DEF CampaignInv, RowsAreKept, Given
    <2>11. \A e \in Pairs : application'[e].status \in Given \cup {"EXPIRED"} => application'[e] = application[e]
      BY <2>3, <2>4 DEF Given
    <2>12. SlotsAreNotOversold' /\ MissesAreNoted' /\ AtonedAreOver'
      <3>1. SlotsAreNotOversold'
        BY <1>1, <1>u, <2>11, SlotsStay
      <3>2. MissesAreNoted' /\ AtonedAreOver'
        BY <1>1, <1>u, <2>5, <2>11, MissesStay, DaysAre
      <3>3. QED
        BY <3>1, <3>2
    <2>13. QED
      BY <2>7, <2>9, <2>10, <2>12 DEF CampaignInv
  <1>4. QED
    BY <1>2, <1>3

LEMMA ApplicationDeleted ==
    ASSUME CampaignInv, NEW h \in CampaignHandlers, DeleteApplication(h)
    PROVE  CampaignInv'
  <1> USE DEF campaignHistory
  <1> DEFINE p == <<request[h].c, request[h].r>>
  <1>1. /\ p \in Pairs /\ Reply(h)
        /\ UNCHANGED <<world, campaign, rows, blockedUntil, day, copy, bought, written, missHistory, lifted>>
    BY RequestsAre DEF DeleteApplication
  <1>u. Undisturbed /\ UNCHANGED <<missed, atoned, raced>>
    BY <1>1, NobodyDisturbs
  <1>2. application' = [application EXCEPT ![p] = IF Key(p) \in request[h].picked THEN NoRow ELSE application[p]]
    BY DEF DeleteApplication
  <1> HIDE DEF p
  <1>3. /\ application' \in [Pairs -> ApplicationRow]
        /\ \A e \in Pairs : application'[e] = application[e] \/ application'[e] = NoRow
    BY <1>1, <1>2, RowShapes DEF CampaignInv, CampaignTypeOK
  <1>4. \A e \in Pairs : GoesOn(e)
    <2>1. ASSUME NEW e \in Pairs
          PROVE  GoesOn(e)
      <3>1. rows[e] \in Nat /\ rows'[e] = rows[e] /\ NoRow.row = 0
        BY <1>1, RowsAre, RowShapes, Bounds
      <3>2. QED
        BY <1>3, <3>1 DEF GoesOn
    <2>2. QED
      BY <2>1
  <1>5. SoundRequests \subseteq SoundRequests'
    <2>1. \A q \in SoundRequests : q \in SoundRequests'
      BY <1>1, <1>u, <1>4, StaySound, DaysAre
    <2>2. QED
      BY <2>1
  <1>6. request' \in [CampaignHandlers -> SoundRequests'] /\ LocksExclude'
    BY <1>1, <1>5, Replied
  <1>7. CampaignTypeOK'
    <2>1. request' \in [CampaignHandlers -> CampaignRequest]
      BY <1>6 DEF SoundRequests
    <2>2. QED
      BY <1>1, <1>u, <1>3, <2>1 DEF CampaignInv, CampaignTypeOK
  <1>8. \A e \in Pairs : application'[e].status # "NONE" => application'[e] = application[e]
    BY <1>3, RowShapes
  <1>9. RowsAreKept'
    <2>1. \A e \in Pairs : application'[e] = application[e] \/ (application'[e].row = 0 /\ application'[e].status = "NONE")
      BY <1>3, RowShapes
    <2>2. \A e \in Pairs : rows[e] \in Nat /\ rows'[e] = rows[e]
      BY <1>1, RowsAre, Bounds
    <2>3. QED
      BY <1>1, <2>1, <2>2 DEF CampaignInv, RowsAreKept, Given
  <1>10. SlotsAreNotOversold' /\ MissesAreNoted' /\ AtonedAreOver'
    <2>1. \A e \in Pairs : application'[e].status \in Given => application'[e] = application[e]
      BY <1>8 DEF Given
    <2>2. \A e \in Pairs : application'[e].status = "EXPIRED" => application'[e] = application[e]
      BY <1>8
    <2>3. SlotsAreNotOversold'
      BY <1>1, <1>u, <2>1, SlotsStay
    <2>4. MissesAreNoted' /\ AtonedAreOver'
      BY <1>1, <1>u, <1>4, <2>2, MissesStay, DaysAre
    <2>5. QED
      BY <2>3, <2>4
  <1>11. QED
    BY <1>6, <1>7, <1>9, <1>10 DEF CampaignInv

LEMMA ApplicationCompleted ==
    ASSUME CampaignInv, NEW h \in CampaignHandlers, CompleteApplication(h)
    PROVE  CampaignInv'
  <1> USE DEF campaignHistory
  <1> DEFINE p == <<request[h].c, request[h].r>>
             new == [application[p] EXCEPT !.status = "COMPLETED"]
  <1>1. /\ p \in Pairs /\ Reply(h) /\ p[2] = request[h].r
        /\ UNCHANGED <<world, campaign, rows, blockedUntil, day, copy, bought, written, missHistory, lifted>>
    BY RequestsAre DEF CompleteApplication
  <1>u. Undisturbed /\ UNCHANGED <<missed, atoned, raced>>
    BY <1>1, NobodyDisturbs
  <1>2. /\ application' = [application EXCEPT ![p].status = IF Key(p) \in request[h].picked THEN "COMPLETED"
                                                            ELSE @]
        /\ request[h].op = "complete" /\ written[p[2]] # Never /\ p[2] \in copy
    BY <1>1, RequestsAre DEF CompleteApplication, SoundRequests
  <1>3. Key(p) \in request[h].picked =>
          /\ application[p].status \in Given
          /\ new \in ApplicationRow /\ new.status = "COMPLETED"
          /\ new.row = application[p].row /\ new.assigned = application[p].assigned
          /\ new.deadline = application[p].deadline
    <2>1. SUFFICES ASSUME Key(p) \in request[h].picked
                   PROVE  /\ application[p].status \in Given
                          /\ new \in ApplicationRow /\ new.status = "COMPLETED"
                          /\ new.row = application[p].row /\ new.assigned = application[p].assigned
                          /\ new.deadline = application[p].deadline
      OBVIOUS
    <2> HIDE DEF p
    <2>2. StillSo(Key(p), request[h]) /\ Key(p)[1] = p /\ Key(p)[2] = application[p].row
      BY <1>1, <2>1, RequestsAre, RowsAre DEF SoundRequests
    <2>3. application[p].status \in Given
      BY <1>2, <2>2 DEF StillSo
    <2>4. application[p].status # "NONE" /\ "COMPLETED" \in ApplicationStatus
      BY <2>3 DEF Given, ApplicationStatus
    <2>5. application[p] \in [status : ApplicationStatus, row : 1..MaxRow,
                               assigned : Never..LastDay, deadline : Never..(LastDay + ReviewDays)]
      BY <1>1, <2>4, RowsAre DEF ApplicationRow, NoRow
    <2>6. QED
      BY <2>3, <2>4, <2>5 DEF ApplicationRow
  <1> HIDE DEF p
  <1>4. \A e \in Pairs :
          /\ application'[e] \in ApplicationRow
          /\ application'[e].row = application[e].row /\ application'[e].assigned = application[e].assigned
          /\ application'[e].deadline = application[e].deadline
          /\ \/ application'[e].status = application[e].status
             \/ e = p /\ application[e].status \in Given /\ application'[e].status = "COMPLETED"
    <2>1. CASE Key(p) \in request[h].picked
      <3>1. application' = [application EXCEPT ![p] = new]
        BY <1>2, <2>1
      <3> HIDE DEF new
      <3>2. QED
        BY <1>1, <1>3, <2>1, <3>1 DEF CampaignInv, CampaignTypeOK
    <2>2. CASE Key(p) \notin request[h].picked
      <3>1. /\ application'[p] = [application[p] EXCEPT !.status = application[p].status]
            /\ \A e \in Pairs : e # p => application'[e] = application[e]
        BY <1>1, <1>2, <2>2 DEF CampaignInv, CampaignTypeOK
      <3>2. \A x \in ApplicationRow : [x EXCEPT !.status = x.status] = x
        BY DEF ApplicationRow, NoRow
      <3>3. application[p] \in ApplicationRow
        BY <1>1, RowsAre
      <3>4. \A e \in Pairs : application'[e] = application[e]
        BY <3>1, <3>2, <3>3
      <3>5. QED
        BY <3>4 DEF CampaignInv, CampaignTypeOK
    <2>3. QED
      BY <2>1, <2>2
  <1>5. application' \in [Pairs -> ApplicationRow]
    <2>1. DOMAIN application' = Pairs /\ application' = [e \in Pairs |-> application'[e]]
      BY <1>1, <1>2 DEF CampaignInv, CampaignTypeOK
    <2>2. QED
      BY <1>4, <2>1
  <1>6. \A e \in Pairs : GoesOn(e)
    <2>1. ASSUME NEW e \in Pairs
          PROVE  GoesOn(e)
      <3>1. rows[e] \in Nat /\ rows'[e] = rows[e]
        BY <1>1, RowsAre, Bounds
      <3>2. QED
        BY <1>4, <3>1 DEF GoesOn, Given
    <2>2. QED
      BY <2>1
  <1>7. SoundRequests \subseteq SoundRequests'
    <2>1. \A q \in SoundRequests : q \in SoundRequests'
      BY <1>1, <1>u, <1>6, StaySound, DaysAre
    <2>2. QED
      BY <2>1
  <1>8. request' \in [CampaignHandlers -> SoundRequests'] /\ LocksExclude'
    BY <1>1, <1>7, Replied
  <1>9. CampaignTypeOK'
    <2>1. request' \in [CampaignHandlers -> CampaignRequest]
      BY <1>8 DEF SoundRequests
    <2>2. QED
      BY <1>1, <1>u, <1>5, <2>1 DEF CampaignInv, CampaignTypeOK
  <1>10. RowsAreKept'
    BY <1>1, <1>2, <1>4 DEF CampaignInv, RowsAreKept, Given
  <1>11. SlotsAreNotOversold' /\ MissesAreNoted' /\ AtonedAreOver'
    <2>1. \A e \in Pairs : application'[e].status \in Given => application[e].status \in Given
      BY <1>4
    <2>2. \A e \in Pairs : application'[e].status = "EXPIRED" =>
            application[e].status = "EXPIRED" /\ application'[e].row = application[e].row
      BY <1>4
    <2>3. SlotsAreNotOversold'
      BY <1>1, <1>u, <2>1, SlotsStay
    <2>4. MissesAreNoted' /\ AtonedAreOver'
      BY <1>1, <1>u, <1>6, <2>2, MissesStay, DaysAre
    <2>5. QED
      BY <2>3, <2>4
  <1>12. QED
    BY <1>8, <1>9, <1>10, <1>11 DEF CampaignInv

LEMMA SlotGivenOut ==
    ASSUME CampaignInv, world' = world, NEW c \in Campaigns, NEW p \in Pairs, p[1] = c,
           campaign[c].filled < Slots,
           campaign'[c].filled = campaign[c].filled + 1,
           campaign'[c].filled >= Slots => campaign'[c].status = "CLOSED",
           \A d \in Campaigns : d # c => campaign'[d] = campaign[d],
           \A e \in Pairs : e # p => application'[e] = application[e]
    PROVE  SlotsAreNotOversold'
  <1> SUFFICES ASSUME NEW d \in Campaigns
               PROVE  /\ Cardinality(GivenSlots(d))' <= campaign'[d].filled
                      /\ campaign'[d].filled <= Slots
                      /\ campaign'[d].filled = Slots => campaign'[d].status = "CLOSED"
    BY DEF SlotsAreNotOversold
  <1>1. IsFiniteSet(GivenSlots(d)) /\ GivenSlots(d) \subseteq Pairs /\ Cardinality(GivenSlots(d)) \in Nat
    BY Entries, FS_Subset, FS_CardinalityType DEF GivenSlots, CampaignInv, CampaignTypeOK
  <1>2. Cardinality(GivenSlots(d)) <= campaign[d].filled /\ campaign[d].filled \in Nat
        /\ campaign[d].filled <= Slots /\ (campaign[d].filled = Slots => campaign[d].status = "CLOSED")
    BY DEF CampaignInv, SlotsAreNotOversold, CampaignTypeOK, CampaignRow
  <1>3. world.entries \subseteq Pairs
    BY Entries DEF CampaignInv, CampaignTypeOK
  <1>4. CASE d # c
    <2>1. GivenSlots(d)' = GivenSlots(d)
      BY <1>3, <1>4 DEF GivenSlots
    <2>2. QED
      BY <1>2, <1>4, <2>1
  <1>5. CASE d = c
    <2>1. GivenSlots(d)' \subseteq GivenSlots(d) \cup {p}
      BY <1>3 DEF GivenSlots
    <2>2. /\ IsFiniteSet(GivenSlots(d) \cup {p})
          /\ Cardinality(GivenSlots(d) \cup {p}) \in Nat
          /\ Cardinality(GivenSlots(d) \cup {p}) <= Cardinality(GivenSlots(d)) + 1
      BY <1>1, OneMore
    <2>3. Cardinality(GivenSlots(d))' <= Cardinality(GivenSlots(d) \cup {p}) /\ Cardinality(GivenSlots(d))' \in Nat
      BY <2>1, <2>2, FS_Subset, FS_CardinalityType
    <2>4. QED
      BY <1>1, <1>2, <1>5, <2>2, <2>3, Bounds
  <1>6. QED
    BY <1>4, <1>5

LEMMA CampaignAssigned ==
    ASSUME CampaignInv, NEW h \in CampaignHandlers, Assign(h)
    PROVE  CampaignInv'
  <1> USE DEF campaignHistory
  <1> DEFINE c == request[h].c
             p == <<c, request[h].r>>
             new == [application[p] EXCEPT !.status = "ASSIGNED", !.assigned = day,
                                            !.deadline = request[h].now + ReviewDays]
             row == [campaign[c] EXCEPT !.filled = request[h].filled + 1,
                        !.status = IF request[h].filled + 1 >= Slots THEN "CLOSED" ELSE @]
  <1>1. /\ p \in Pairs /\ c \in Campaigns /\ p[1] = c
        /\ UNCHANGED <<world, rows, blockedUntil, day, copy, bought, written, missHistory, lifted>>
    BY RequestsAre DEF Assign
  <1>u. Undisturbed /\ UNCHANGED <<missed, atoned, raced>>
    BY <1>1, NobodyDisturbs
  <1>2. /\ request[h].op = "locked" /\ request[h].filled = campaign[c].filled /\ campaign[c].filled < Slots
        /\ p \in world.entries
    BY RequestsAre DEF Assign, SoundRequests, SoundLock
  <1>3. CASE application[p].status # "PENDING"
    <2>1. Reply(h) /\ UNCHANGED <<campaignTables, world, day>>
      BY <1>3 DEF Assign, campaignTables
    <2>2. QED
      BY <2>1, SameSound, Replied, OnlyTheRequest
  <1>4. CASE application[p].status = "PENDING"
    <2>1. /\ application' = [application EXCEPT ![p] = new]
          /\ campaign' = [campaign EXCEPT ![c] = row]
          /\ Ask(h, "grant")
      BY <1>4 DEF Assign
    <2>2. new \in ApplicationRow /\ new.status = "ASSIGNED" /\ new.row = application[p].row /\ new.assigned = day
      <3>1. application[p] \in [status : ApplicationStatus, row : 1..MaxRow,
                                assigned : Never..LastDay, deadline : Never..(LastDay + ReviewDays)]
        BY <1>1, <1>4, RowsAre DEF ApplicationRow, NoRow
      <3>2. /\ day \in Never..LastDay /\ request[h].now + ReviewDays \in Never..(LastDay + ReviewDays)
            /\ "ASSIGNED" \in ApplicationStatus
        <4>1. request[h].now \in 0..LastDay /\ day \in 0..LastDay
          BY RequestsAre, DaysAre
        <4>2. QED
          BY <4>1, Bounds DEF ApplicationStatus
      <3>3. QED
        BY <3>1, <3>2 DEF ApplicationRow
    <2>3. row \in CampaignRow /\ row.filled = campaign[c].filled + 1
          /\ (row.filled >= Slots => row.status = "CLOSED")
      <3>1. campaign[c] \in CampaignRow
        BY <1>1 DEF CampaignInv, CampaignTypeOK
      <3>2. campaign[c].filled \in Nat /\ campaign[c].status \in {"OPEN", "CLOSED"}
            /\ request[h].filled + 1 = campaign[c].filled + 1 /\ campaign[c].filled + 1 \in Nat
        BY <1>2, <3>1 DEF CampaignRow
      <3>3. row.filled = request[h].filled + 1
            /\ row.status = (IF request[h].filled + 1 >= Slots THEN "CLOSED" ELSE campaign[c].status)
            /\ DOMAIN row = {"status", "filled"}
        BY <3>1 DEF CampaignRow
      <3>4. row \in CampaignRow
        BY <3>1, <3>2 DEF CampaignRow
      <3>5. QED
        BY <3>2, <3>3, <3>4
    <2> HIDE DEF new, row, p, c
    <2>4. /\ application' \in [Pairs -> ApplicationRow] /\ application'[p] = new
          /\ \A e \in Pairs : e # p => application'[e] = application[e]
          /\ campaign' \in [Campaigns -> CampaignRow] /\ campaign'[c] = row
          /\ \A d \in Campaigns : d # c => campaign'[d] = campaign[d]
      BY <1>1, <2>1, <2>2, <2>3 DEF CampaignInv, CampaignTypeOK
    <2>5. \A e \in Pairs : GoesOn(e)
      <3>1. ASSUME NEW e \in Pairs
            PROVE  GoesOn(e)
        <4>1. rows[e] \in Nat /\ rows'[e] = rows[e]
          BY <1>1, RowsAre, Bounds
        <4>2. CASE e = p
          BY <1>4, <2>2, <2>4, <4>1, <4>2 DEF GoesOn, Given
        <4>3. CASE e # p
          BY <2>4, <4>1, <4>3 DEF GoesOn
        <4>4. QED
          BY <4>2, <4>3
      <3>2. QED
        BY <3>1
    <2>6. ASSUME NEW g \in CampaignHandlers \ {h}
          PROVE  request[g] \in SoundRequests'
      <3>1. request[g] \in SoundRequests /\ request[g].c \in Campaigns
        BY RequestsAre
      <3>2. request[g].op = "locked" => request[g].c # c
        BY <1>2 DEF CampaignInv, LocksExclude, c
      <3>3. request[g].op = "locked" => campaign'[request[g].c].filled = campaign[request[g].c].filled
        BY <2>4, <3>1, <3>2
      <3>4. QED
        BY <1>1, <1>u, <2>5, <3>1, <3>3, StaySound, DaysAre
    <2>7. request' \in [CampaignHandlers -> SoundRequests'] /\ LocksExclude'
      <3>1. PICK q \in FreeRequests : request' = [request EXCEPT ![h] = q]
        <4>1. "grant" \in Operations /\ "grant" \in FreeOperations
          BY DEF Operations, FreeOperations
        <4>2. GoOn(request[h], "grant") \in FreeRequests
          BY <4>1, WentOn, RequestsAre DEF FreeRequests
        <4>3. QED
          BY <2>1, <4>2 DEF Ask
      <3>2. q \in SoundRequests' /\ q.op # "locked"
        BY FreeIsSound DEF FreeRequests, FreeOperations
      <3>3. QED
        BY <2>6, <3>1, <3>2, OneGoesOn
    <2>8. CampaignTypeOK'
      <3>1. request' \in [CampaignHandlers -> CampaignRequest]
        BY <2>7 DEF SoundRequests
      <3>2. QED
        BY <1>1, <1>u, <2>4, <3>1 DEF CampaignInv, CampaignTypeOK
    <2>9. RowsAreKept'
      BY <1>1, <2>2, <2>4, DaysAre DEF CampaignInv, RowsAreKept, Given
    <2>10. MissesAreNoted' /\ AtonedAreOver'
      <3>1. \A e \in Pairs : application'[e].status = "EXPIRED" => application'[e] = application[e]
        BY <2>2, <2>4
      <3>2. QED
        BY <1>1, <1>u, <2>5, <3>1, MissesStay, DaysAre
    <2>11. SlotsAreNotOversold'
      BY <1>1, <1>2, <2>3, <2>4, SlotGivenOut
    <2>12. QED
      BY <2>7, <2>8, <2>9, <2>10, <2>11 DEF CampaignInv
  <1>5. QED
    BY <1>3, <1>4

\* What the commit of a sweep makes of the rows.
LEMMA SweepWrites ==
    ASSUME CampaignInv, NEW h \in CampaignHandlers, CommitSweep(h)
    PROVE  /\ application' \in [Pairs -> ApplicationRow]
           /\ \A e \in Pairs :
                /\ application'[e].row = application[e].row /\ application'[e].assigned = application[e].assigned
                /\ application'[e].deadline = application[e].deadline
                /\ Key(e) \notin request[h].picked => application'[e] = application[e]
                /\ Key(e) \in request[h].picked => /\ application[e].status \in Given
                                                   /\ application'[e].status = "EXPIRED"
  <1>1. application' = [e \in Pairs |-> IF Key(e) \in request[h].picked
                                        THEN [application[e] EXCEPT !.status = "EXPIRED"] ELSE application[e]]
    BY DEF CommitSweep
  <1>2. ASSUME NEW e \in Pairs
        PROVE  /\ application'[e] \in ApplicationRow
               /\ application'[e].row = application[e].row /\ application'[e].assigned = application[e].assigned
               /\ application'[e].deadline = application[e].deadline
               /\ Key(e) \notin request[h].picked => application'[e] = application[e]
               /\ Key(e) \in request[h].picked => /\ application[e].status \in Given
                                                  /\ application'[e].status = "EXPIRED"
    <2>1. CASE Key(e) \notin request[h].picked
      BY <1>1, <2>1, RowsAre
    <2>2. CASE Key(e) \in request[h].picked
      <3>1. StillSo(Key(e), request[h]) /\ request[h].op \in Sweeping
        BY <2>2, RequestsAre DEF SoundRequests, CommitSweep, Sweeping
      <3>2. application[e].status \in Given
        BY <3>1, RowsAre DEF StillSo
      <3>3. application[e] \in [status : ApplicationStatus, row : 1..MaxRow,
                                assigned : Never..LastDay, deadline : Never..(LastDay + ReviewDays)]
        BY <3>2, RowsAre DEF ApplicationRow, NoRow, Given
      <3>4. "EXPIRED" \in ApplicationStatus
        BY DEF ApplicationStatus
      <3>5. application'[e] = [application[e] EXCEPT !.status = "EXPIRED"]
        BY <1>1, <2>2
      <3>6. QED
        BY <2>2, <3>2, <3>3, <3>4, <3>5 DEF ApplicationRow
    <2>3. QED
      BY <2>1, <2>2
  <1>3. application' \in [Pairs -> ApplicationRow]
    <2>1. DOMAIN application' = Pairs /\ application' = [e \in Pairs |-> application'[e]]
      BY <1>1
    <2>2. QED
      BY <1>2, <2>1
  <1>4. QED
    BY <1>2, <1>3

\* A commit notes its misses; they were overdue at its time.
LEMMA SweepNotes ==
    ASSUME CampaignInv, NEW h \in CampaignHandlers, CommitSweep(h)
    PROVE  LET q == request[h] IN
           /\ q \in SoundRequests /\ q \in CampaignRequest /\ SoundSweep(q) /\ q.r \in Reviewers /\ q.now \in 0..LastDay
           /\ UNCHANGED <<world, campaign, rows, day, copy, bought, written, lifted>>
           /\ \A e \in Pairs : GoesOn(e)
           /\ missed' = missed \cup q.picked /\ missed' \subseteq RowKeys /\ raced \subseteq raced'
           /\ \A k \in missed' :
                /\ k[1] \in world.entries /\ k[2] <= rows'[k[1]] /\ k[1][2] \in Reviewers
                /\ Current(k)' => /\ Current(k) /\ application'[k[1]].deadline = application[k[1]].deadline
                                  /\ application'[k[1]].status \in Given /\ application'[k[1]].deadline < day'
                                  /\ application'[k[1]].deadline \in Int
                /\ k \in q.picked /\ Current(k)' => application'[k[1]].deadline < q.now
           /\ q.blocks => /\ blockedUntil' = [blockedUntil EXCEPT ![q.r] = q.now + BlockDays]
                          /\ atoned' = atoned \cup {k \in missed' : k[1][2] = q.r}
                          /\ q.r \notin raced' => ~q.overtaken
           /\ ~q.blocks => UNCHANGED <<blockedUntil, atoned>>
  <1> DEFINE q == request[h]
  <1>1. /\ q \in SoundRequests /\ q \in CampaignRequest /\ q.r \in Reviewers /\ q.now \in 0..LastDay
        /\ q.picked \subseteq RowKeys /\ q.op = "commit"
    BY RequestsAre DEF CommitSweep
  <1>2. /\ UNCHANGED <<world, campaign, rows, day, copy, bought, written, lifted>>
        /\ missed' = missed \cup q.picked
        /\ raced' = IF q.blocks /\ q.overtaken THEN raced \cup {q.r} ELSE raced
        /\ blockedUntil' = IF q.blocks THEN [blockedUntil EXCEPT ![q.r] = q.now + BlockDays] ELSE blockedUntil
        /\ atoned' = IF q.blocks THEN atoned \cup {k \in missed' : k[1][2] = q.r} ELSE atoned
    BY DEF CommitSweep
  <1>3. SoundSweep(q)
    BY <1>1 DEF SoundRequests, Sweeping
  <1>4. ASSUME NEW e \in Pairs
        PROVE  GoesOn(e)
    <2>1. rows[e] \in Nat /\ rows'[e] = rows[e]
      BY <1>2, RowsAre, Bounds
    <2>2. QED
      BY <2>1, SweepWrites DEF GoesOn, Given
  <1>5. ASSUME NEW k \in missed'
        PROVE  /\ k \in RowKeys /\ k[1] \in world.entries /\ k[2] <= rows'[k[1]] /\ k[1][2] \in Reviewers
               /\ Current(k)' => /\ Current(k) /\ application'[k[1]].deadline = application[k[1]].deadline
                                 /\ application'[k[1]].status \in Given /\ application'[k[1]].deadline < day'
                                 /\ application'[k[1]].deadline \in Int
               /\ k \in q.picked /\ Current(k)' => application'[k[1]].deadline < q.now
    <2>1. k \in q.picked => /\ k[1] \in OfReviewer(q.r) /\ k[2] <= rows[k[1]]
                            /\ Current(k) => application[k[1]].status \in Given /\ application[k[1]].deadline < q.now
      BY <1>1, <1>3 DEF SoundRequests, SoundSweep, StillSo, Current, Sweeping
    <2>2. k \in RowKeys /\ k[1] \in world.entries /\ k[2] <= rows[k[1]]
      BY <1>1, <1>2, <2>1, MissesAre DEF OfReviewer
    <2>3. k[1] \in Pairs /\ GoesOn(k[1])
      BY <1>4, <2>2, KeysAre
    <2>4. Current(k)' => application[k[1]].status \in Given /\ application[k[1]].deadline < day
      <3>1. q.now <= day /\ q.now \in Int /\ day \in Int /\ application[k[1]].deadline \in Int
        BY <1>1, <1>3, <2>3, DaysAre, RowsAre, RowShapes DEF SoundSweep
      <3>2. Current(k)' => Current(k)
        BY <2>2, <2>3, MissGoesOn
      <3>3. QED
        BY <1>2, <2>1, <3>1, <3>2, MissesAre
    <2>5. QED
      BY <1>2, <2>1, <2>2, <2>3, <2>4, MissGoesOn
  <1> HIDE DEF q
  <1>6. missed' \subseteq RowKeys /\ raced \subseteq raced'
    BY <1>2, <1>5
  <1>7. QED
    BY <1>1, <1>2, <1>3, <1>4, <1>5, <1>6 DEF q

LEMMA SweepKeepsMisses ==
    ASSUME CampaignInv, NEW h \in CampaignHandlers, CommitSweep(h)
    PROVE  MissesAreNoted' /\ AtonedAreOver'
  <1> DEFINE q == request[h]
  <1>1. ASSUME NEW e \in Pairs, application'[e].status = "EXPIRED"
        PROVE  Key(e)' \in missed'
    <2>1. Key(e)' = Key(e)
      BY SweepWrites DEF Key
    <2>2. Key(e) \in q.picked \/ application[e].status = "EXPIRED"
      BY <1>1, SweepWrites
    <2>3. QED
      BY <2>1, <2>2, SweepNotes DEF CampaignInv, MissesAreNoted
  <1>2. MissesAreNoted'
    BY <1>1, SweepNotes DEF MissesAreNoted
  <1>3. ASSUME NEW k \in atoned', k[1][2] \notin lifted' \cup raced'
        PROVE  /\ blockedUntil'[k[1][2]] # Never
               /\ Current(k)' => application'[k[1]].deadline <= BlockStart(blockedUntil'[k[1][2]])
    <2>1. k[1][2] \notin lifted \cup raced
      BY <1>3, SweepNotes
    <2>2. blockedUntil \in [Reviewers -> Never..(LastDay + OperatorBlockDays)] /\ atoned \subseteq missed
      BY DEF CampaignInv, CampaignTypeOK
    <2>3. CASE q.blocks /\ k[1][2] = q.r
      <3>1. k \in missed' /\ blockedUntil'[q.r] = q.now + BlockDays /\ q.now \in Int /\ q.now >= 0
        BY <2>2, <2>3, SweepNotes
      <3>2. blockedUntil'[q.r] # Never /\ BlockStart(blockedUntil'[q.r]) = q.now
        BY <3>1, Bounds DEF BlockStart
      <3>3. InTime(q)
        BY <1>3, <2>3, SweepNotes DEF SoundSweep
      <3>4. Current(k)' => application'[k[1]].deadline < q.now /\ application'[k[1]].deadline \in Int
        <4>1. CASE k \in q.picked
          BY <3>1, <4>1, SweepNotes
        <4>2. CASE k \in missed
          BY <2>3, <3>1, <3>3, <4>2, SweepNotes DEF InTime
        <4>3. QED
          BY <3>1, <4>1, <4>2, SweepNotes
      <3>5. QED
        BY <2>3, <3>1, <3>2, <3>4
    <2>4. CASE ~(q.blocks /\ k[1][2] = q.r)
      <3>1. k \in atoned /\ k \in missed' /\ k[1][2] \in Reviewers
        BY <1>3, <2>2, <2>4, SweepNotes
      <3>2. blockedUntil'[k[1][2]] = blockedUntil[k[1][2]]
        BY <2>2, <2>4, <3>1, SweepNotes
      <3>3. QED
        BY <2>1, <3>1, <3>2, SweepNotes DEF CampaignInv, AtonedAreOver
    <2>5. QED
      BY <2>3, <2>4
  <1>4. AtonedAreOver'
    BY <1>3 DEF AtonedAreOver, BlockStart
  <1>5. QED
    BY <1>2, <1>4

\* The requests that are under way stay sound; those it overtakes are told apart.
LEMMA SweepPassesOthers ==
    ASSUME CampaignInv, NEW h \in CampaignHandlers, CommitSweep(h), NEW g \in CampaignHandlers \ {h}
    PROVE  /\ request'[g] \in SoundRequests'
           /\ request'[g].op = request[g].op /\ request'[g].c = request[g].c
  <1> DEFINE q == request[h]
             p == request[g]
             b == p.overtaken \/ Overtaken(g, q)
  <1>1. /\ p \in SoundRequests /\ p \in CampaignRequest /\ p.r \in Reviewers /\ p.c \in Campaigns
        /\ p.picked \subseteq RowKeys /\ p.now \in 0..LastDay
    BY RequestsAre
  <1>2. PICK n : n = [p EXCEPT !.overtaken = b] /\ request'[g] = n
    BY DEF CommitSweep, CampaignInv, CampaignTypeOK
  <1>3. /\ n \in CampaignRequest /\ n.op = p.op /\ n.c = p.c /\ n.r = p.r /\ n.now = p.now /\ n.filled = p.filled
        /\ n.picked = p.picked /\ n.until = p.until /\ n.blocks = p.blocks /\ n.overtaken = b
    <2>1. b \in BOOLEAN
      BY <1>1 DEF Overtaken, CampaignRequest
    <2> HIDE DEF b
    <2>2. QED
      BY <1>1, <1>2, <2>1 DEF CampaignRequest
  <1> HIDE DEF b
  <1>4. ASSUME NEW k \in n.picked
        PROVE  k[2] <= rows'[k[1]] /\ StillSo(k, n)'
    <2>1. k \in RowKeys /\ k[2] <= rows[k[1]] /\ StillSo(k, p)
      BY <1>1, <1>3, <1>4 DEF SoundRequests
    <2>2. GoesOn(k[1])
      BY <2>1, KeysAre, SweepNotes
    <2>3. QED
      BY <1>3, <2>1, <2>2, MissGoesOn DEF StillSo, Current, Sweeping
  <1>5. SoundLock(n)'
    BY <1>1, <1>3, SweepNotes DEF SoundRequests, SoundLock
  <1>6. n.op \in {"mark", "complete"} => written'[n.r] # Never /\ n.r \in copy'
    BY <1>1, <1>3, SweepNotes DEF SoundRequests
  <1>7. ASSUME n.op \in Sweeping
        PROVE  SoundSweep(n)'
    <2>1. SoundSweep(p) /\ p.op \in Sweeping /\ world \in Worlds
      BY <1>1, <1>3, <1>7 DEF SoundRequests, CampaignInv, CampaignTypeOK
    <2>2. \A k \in missed' \cup p.picked : k \in RowKeys /\ k[1] \in world.entries
      BY <1>1, <2>1, SweepNotes DEF SoundSweep, OfReviewer
    <2>3. OfReviewer(n.r)' = OfReviewer(p.r) /\ n.now <= day'
      BY <1>3, <2>1, SweepNotes DEF OfReviewer, SoundSweep
    <2>4. \A S, T : S \subseteq T /\ T \subseteq missed' \cup p.picked /\ Counts(p, S) => Counts(p, T)
      <3>1. ASSUME NEW S, NEW T, S \subseteq T, T \subseteq missed' \cup p.picked, Counts(p, S)
            PROVE  Counts(p, T)
        <4>1. /\ Cardinality(MissedBy(p.r, S)) \in Nat /\ Cardinality(MissedBy(p.r, T)) \in Nat
              /\ Cardinality(MissedBy(p.r, S)) <= Cardinality(MissedBy(p.r, T))
          BY <2>1, <2>2, <3>1, MoreMissed
        <4>2. QED
          BY <3>1, <4>1, Bounds DEF Counts
      <3>2. QED
        BY <3>1
    <2>5. n.blocks => n.op = "commit" /\ Counts(n, missed' \cup n.picked)
      <3>1. p.blocks => Counts(p, missed' \cup p.picked)
        <4>1. p.blocks => Counts(p, missed \cup p.picked)
          BY <2>1 DEF SoundSweep
        <4>2. missed \cup p.picked \subseteq missed' \cup p.picked
          BY SweepNotes
        <4>3. QED
          BY <2>4, <4>1, <4>2
      <3>2. QED
        BY <1>3, <2>1, <3>1 DEF SoundSweep, Counts
    <2>6. ASSUME ~n.overtaken
          PROVE  InTime(n)'
      <3>1. InTime(p) /\ ~Overtaken(g, q)
        BY <1>3, <2>1, <2>6 DEF SoundSweep, b
      <3>2. p.r = q.r => ~(p.now < q.now) /\ (p.op # "sweep" /\ q.blocks => p.now = q.now)
        BY <2>1, <3>1 DEF Overtaken
      <3>3. ASSUME NEW k \in missed', k[1][2] = p.r, Current(k)'
            PROVE  application'[k[1]].deadline < p.now
        <4>1. CASE k \in missed
          BY <3>1, <3>3, <4>1, SweepNotes DEF InTime
        <4>2. CASE k \in q.picked
          <5>1. p.r = q.r
            BY <3>3, <4>2, SweepNotes DEF SoundSweep, OfReviewer
          <5>2. application'[k[1]].deadline < q.now /\ application'[k[1]].deadline \in Int
            BY <3>3, <4>2, SweepNotes
          <5>3. q.now \in Int /\ p.now \in Int /\ ~(p.now < q.now)
            BY <1>1, <3>2, <5>1, SweepNotes
          <5>4. QED
            BY <5>2, <5>3
        <4>3. QED
          BY <4>1, <4>2, SweepNotes
      <3>4. ASSUME p.op # "sweep", p.r \notin lifted' \cup raced'
            PROVE  /\ blockedUntil'[p.r] \in {p.until, p.now + BlockDays}
                   /\ p.blocks /\ blockedUntil'[p.r] = p.until => Counts(p, (missed' \cup p.picked) \ atoned')
        <4>1. /\ blockedUntil[p.r] \in {p.until, p.now + BlockDays}
              /\ p.blocks /\ blockedUntil[p.r] = p.until => Counts(p, (missed \cup p.picked) \ atoned)
          BY <3>1, <3>4, SweepNotes DEF InTime
        <4>2. blockedUntil \in [Reviewers -> Never..(LastDay + OperatorBlockDays)]
          BY DEF CampaignInv, CampaignTypeOK
        <4>3. CASE ~q.blocks
          <5>1. blockedUntil' = blockedUntil
                /\ (missed \cup p.picked) \ atoned \subseteq (missed' \cup p.picked) \ atoned'
            BY <4>3, SweepNotes
          <5>2. QED
            BY <2>4, <4>1, <5>1
        <4>4. CASE q.blocks /\ p.r # q.r
          <5>1. blockedUntil'[p.r] = blockedUntil[p.r]
            BY <1>1, <4>2, <4>4, SweepNotes
          <5>2. MissedBy(p.r, (missed \cup p.picked) \ atoned) \subseteq (missed' \cup p.picked) \ atoned'
            BY <4>4, SweepNotes DEF MissedBy
          <5>3. MissedBy(p.r, MissedBy(p.r, (missed \cup p.picked) \ atoned))
                  = MissedBy(p.r, (missed \cup p.picked) \ atoned)
            BY DEF MissedBy
          <5>4. Counts(p, (missed \cup p.picked) \ atoned)
                  => Counts(p, MissedBy(p.r, (missed \cup p.picked) \ atoned))
            BY <5>3 DEF Counts
          <5>5. Counts(p, (missed \cup p.picked) \ atoned)
                  => Counts(p, (missed' \cup p.picked) \ atoned')
            BY <2>4, <5>2, <5>4
          <5>6. QED
            BY <4>1, <5>1, <5>5
        <4>5. CASE q.blocks /\ p.r = q.r
          <5>1. p.now = q.now /\ blockedUntil'[p.r] = p.now + BlockDays
            BY <1>1, <3>2, <3>4, <4>2, <4>5, SweepNotes
          <5>2. p.blocks => p.until <= p.now
            BY <1>1, <2>1 DEF SoundSweep
          <5>3. p.until \in Int /\ p.now \in Int /\ BlockDays \in Int /\ BlockDays > 0
            BY <1>1, SweepNotes, Bounds DEF CampaignRequest
          <5>4. p.blocks => blockedUntil'[p.r] # p.until
            BY <5>1, <5>2, <5>3
          <5>5. QED
            BY <5>1, <5>4
        <4>6. QED
          BY <4>3, <4>4, <4>5
      <3> HIDE DEF p, q
      <3>5. QED
        BY <1>3, <3>3, <3>4 DEF InTime, Counts
    <2>7. n.op = "count" \/ n.blocks => n.until <= n.now
      BY <1>3, <2>1 DEF SoundSweep
    <2>8. \A k \in n.picked : k[1] \in OfReviewer(n.r)'
      BY <1>3, <2>1, <2>3 DEF SoundSweep
    <2> HIDE DEF p, q
    <2>9. QED
      BY <2>3, <2>5, <2>6, <2>7, <2>8 DEF SoundSweep, Counts
  <1>8. QED
    BY <1>2, <1>3, <1>4, <1>5, <1>6, <1>7 DEF SoundRequests

LEMMA SweepCommits ==
    ASSUME CampaignInv, NEW h \in CampaignHandlers, CommitSweep(h)
    PROVE  CampaignInv'
  <1> DEFINE q == request[h]
  <1>1. request'[h] \in SoundRequests' /\ request'[h].op # "locked"
    <2>1. PICK next \in {GoOn(q, "check"), IdleRequest} :
            request' = [g \in CampaignHandlers |->
                          IF g = h THEN next
                          ELSE [request[g] EXCEPT !.overtaken = @ \/ Overtaken(g, q)]]
      BY DEF CommitSweep
    <2>2. GoOn(q, "check") \in FreeRequests
      <3>1. q \in CampaignRequest
        BY RequestsAre
      <3>2. GoOn(q, "check") \in CampaignRequest /\ GoOn(q, "check").op = "check" /\ GoOn(q, "check").picked = {}
        BY <3>1, WentOn DEF Operations
      <3>3. QED
        BY <3>2 DEF FreeRequests, FreeOperations
    <2>3. request'[h] = next
      BY <2>1
    <2> HIDE DEF q
    <2>4. request'[h] \in FreeRequests
      BY <2>2, <2>3, IdleIsFree
    <2>5. request'[h].op # "locked"
      BY <2>4 DEF FreeRequests, FreeOperations
    <2>6. QED
      BY <2>4, <2>5, FreeIsSound
  <1>2. request' \in [CampaignHandlers -> SoundRequests']
    <2>1. DOMAIN request' = CampaignHandlers /\ request' = [g \in CampaignHandlers |-> request'[g]]
      BY DEF CommitSweep
    <2>2. QED
      BY <1>1, <2>1, SweepPassesOthers
  <1>3. LocksExclude'
    BY <1>1, SweepPassesOthers DEF LocksExclude, CampaignInv
  <1>4. CampaignTypeOK'
    <2>1. request' \in [CampaignHandlers -> CampaignRequest]
      BY <1>2 DEF SoundRequests
    <2>2. blockedUntil' \in [Reviewers -> Never..(LastDay + OperatorBlockDays)]
      <3>1. q.now + BlockDays \in Never..(LastDay + OperatorBlockDays)
        BY SweepNotes, Bounds
      <3>2. blockedUntil \in [Reviewers -> Never..(LastDay + OperatorBlockDays)]
        BY DEF CampaignInv, CampaignTypeOK
      <3>3. QED
        BY <3>1, <3>2, SweepNotes
    <2>3. atoned' \subseteq missed' /\ raced' \subseteq Reviewers
      <3>1. atoned \subseteq missed /\ raced \subseteq Reviewers
        BY DEF CampaignInv, CampaignTypeOK
      <3>2. atoned' \subseteq missed'
        BY <3>1, SweepNotes
      <3>3. raced' \subseteq raced \cup {q.r}
        BY DEF CommitSweep
      <3>4. QED
        BY <3>1, <3>2, <3>3, SweepNotes
    <2>4. QED
      BY <2>1, <2>2, <2>3, SweepNotes, SweepWrites DEF CampaignInv, CampaignTypeOK
  <1>5. RowsAreKept'
    <2>1. \A e \in Pairs : rows'[e] = rows[e] /\ application[e].row <= rows[e]
      BY SweepNotes, RowsAre
    <2>2. \A e \in Pairs : application[e].status \in Given => application[e].assigned # Never
      BY DEF CampaignInv, RowsAreKept
    <2>3. \A e \in Pairs : /\ application'[e].status \in Given => application[e].status \in Given
                           /\ application'[e].status = "COMPLETED" => application[e].status = "COMPLETED"
      BY SweepWrites
    <2>4. QED
      BY <2>1, <2>2, <2>3, SweepWrites, SweepNotes DEF CampaignInv, RowsAreKept
  <1>6. SlotsAreNotOversold'
    <2>1. \A e \in Pairs : application'[e].status \in Given => application[e].status \in Given
      BY SweepWrites
    <2>2. UNCHANGED <<world, campaign>>
      BY SweepNotes
    <2>3. QED
      BY <2>1, <2>2, SlotsStay
  <1>7. QED
    BY <1>2, <1>3, <1>4, <1>5, <1>6, SweepKeepsMisses DEF CampaignInv

-----------------------------------------------------------------------------
(* The theorems *)

LEMMA CampaignInvInit == CampaignInit => CampaignInv
  <1> SUFFICES ASSUME CampaignInit PROVE CampaignInv
    OBVIOUS
  <1> USE DEF CampaignInit
  <1>1. request \in [CampaignHandlers -> SoundRequests] /\ LocksExclude
    BY IdleIsFree, FreeIsSound, IdleShape DEF LocksExclude
  <1>2. CampaignTypeOK
    <2>1. [status |-> "OPEN", filled |-> 0] \in CampaignRow
      BY DEF CampaignRow
    <2>2. /\ 0 \in 0..MaxRow /\ 1 \in 0..MaxRow /\ 1 \in 1..MaxRow /\ 0 \in 0..LastDay
          /\ Never \in Never..LastDay /\ Never \in Never..(LastDay + OperatorBlockDays)
      BY Bounds
    <2>3. NewRow(1) \in ApplicationRow
      BY <2>2, RowsMade, RowShapes
    <2>4. QED
      BY <2>1, <2>2, <2>3, IdleShape, RowShapes DEF CampaignTypeOK
  <1>3. \A e \in Pairs : /\ application[e].status \in {"NONE", "PENDING"} /\ application[e].row = rows[e]
                         /\ rows[e] \in Nat
    <2>1. 1 \in 1..MaxRow
      BY Bounds
    <2>2. NewRow(1).status = "PENDING" /\ NewRow(1).row = 1
      BY <2>1, RowsMade, RowShapes
    <2>3. QED
      BY <2>2, RowShapes
  <1>4. RowsAreKept
    BY <1>3 DEF RowsAreKept, Given
  <1>5. SlotsAreNotOversold
    <2>1. \A c \in Campaigns : GivenSlots(c) = {}
      BY <1>2, <1>3, Entries DEF GivenSlots, Given, CampaignTypeOK
    <2>2. \A c \in Campaigns : Cardinality(GivenSlots(c)) = 0
      BY <2>1, FS_EmptySet
    <2>3. QED
      BY <2>2, Bounds DEF SlotsAreNotOversold
  <1>6. MissesAreNoted /\ AtonedAreOver
    BY <1>3 DEF MissesAreNoted, AtonedAreOver
  <1>7. QED
    BY <1>1, <1>2, <1>4, <1>5, <1>6 DEF CampaignInv

LEMMA CampaignInvNext == CampaignInv /\ [CampaignNext]_campaignVars => CampaignInv'
  <1> SUFFICES ASSUME CampaignInv, [CampaignNext]_campaignVars
               PROVE  CampaignInv'
    OBVIOUS
  <1>1. world.entries \subseteq Pairs /\ world.handlers \subseteq CampaignHandlers
    BY Entries DEF CampaignInv, CampaignTypeOK
  <1>2. ASSUME NEW h \in world.handlers, NEW e \in world.entries,
               StartSweep(h, e[1], e[2]) \/ StartAssign(h, e[1], e[2])
               \/ StartCancel(h, e[1], e[2]) \/ WriteReview(h, e[1], e[2])
        PROVE  CampaignInv'
    BY <1>1, <1>2, PairsAre, SweepStarts, AssignStarts, CancelStarts, ReviewWritten
  <1>3. ASSUME NEW h \in world.handlers,
               \/ FlushSweep(h) \/ SweepRaises(h) \/ CountSweep(h) \/ CommitSweep(h)
               \/ CheckApply(h) \/ DieInRequest(h)
        PROVE  CampaignInv'
    BY <1>1, <1>3, SweepFlushes, SweepCounts, SweepCommits, CheckAndLetGo
  <1>4. ASSUME NEW h \in world.handlers,
               \/ InsertApplication(h) \/ DeleteApplication(h) \/ LockCampaign(h) \/ Assign(h)
               \/ GrantCopy(h) \/ PickAssigned(h) \/ CompleteApplication(h)
        PROVE  CampaignInv'
    BY <1>1, <1>4, ApplicationInserted, ApplicationDeleted, LockTaken, CampaignAssigned, CopyGranted,
       AssignmentPicked, ApplicationCompleted
  <1>5. ASSUME NEW e \in world.entries,
               CloseCampaign(e[1]) \/ BuyBook(e[2]) \/ BlockReviewer(e[2]) \/ UnblockReviewer(e[2])
        PROVE  CampaignInv'
    BY <1>1, <1>5, PairsAre, OthersAct
  <1>6. CASE NextDay
    BY <1>6, OthersAct
  <1>7. CASE UNCHANGED campaignVars
    <2>1. UNCHANGED <<campaignTables, world, day, request>>
      BY <1>7 DEF campaignVars, campaignTables, campaignHistory, missHistory
    <2>2. request' \in [CampaignHandlers -> SoundRequests'] /\ LocksExclude'
      BY <2>1, SameSound DEF CampaignInv, LocksExclude
    <2>3. QED
      BY <2>1, <2>2, OnlyTheRequest
  <1>8. QED
    BY <1>2, <1>3, <1>4, <1>5, <1>6, <1>7 DEF CampaignNext

LEMMA CampaignInvariant == CampaignSpec => []CampaignInv
  BY CampaignInvInit, CampaignInvNext, PTL DEF CampaignSpec

\* The tables and the requests have the shapes the code gives them.
THEOREM CampaignTypeCorrect == CampaignSpec => []CampaignTypeOK
  <1>1. CampaignInv => CampaignTypeOK
    BY DEF CampaignInv
  <1>2. QED
    BY <1>1, CampaignInvariant, PTL

\* However many assignments, sweeps and reviews run at a time, no campaign gives
\* out more slots than it has, and what is completed was reviewed by who has a copy.
THEOREM CampaignSafetyHolds == CampaignSpec => []CampaignSafety
  <1>1. CampaignInv => CampaignSafety
    <2>1. SUFFICES ASSUME CampaignInv PROVE CampaignSafety
      OBVIOUS
    <2>2. world.entries \subseteq Pairs
      BY <2>1, Entries DEF CampaignInv, CampaignTypeOK
    <2>3. QED
      BY <2>1, <2>2 DEF CampaignInv, RowsAreKept, CampaignSafety, CompletedMeansReviewed, Given
  <1>2. QED
    BY <1>1, CampaignInvariant, PTL

\* Only the commit of a sweep lengthens the block of a reviewer no operator touched.
LEMMA OnlySweepsBlock ==
    ASSUME CampaignInv, [CampaignNext]_campaignVars, NEW r \in Reviewers,
           blockedUntil'[r] # blockedUntil[r], r \notin lifted'
    PROVE  \E h \in CampaignHandlers : CommitSweep(h)
  <1> USE DEF campaignTables, campaignHistory
  <1>1. blockedUntil \in [Reviewers -> Never..(LastDay + OperatorBlockDays)]
        /\ world \in Worlds /\ world.handlers \subseteq CampaignHandlers /\ world.entries \subseteq Pairs
    BY Entries DEF CampaignInv, CampaignTypeOK
  <1>2. ASSUME NEW x \in Reviewers, BlockReviewer(x) \/ UnblockReviewer(x)
        PROVE  FALSE
    <2>1. x # r
      BY <1>2 DEF BlockReviewer, UnblockReviewer
    <2>2. blockedUntil'[r] = blockedUntil[r]
      BY <1>1, <1>2, <2>1 DEF BlockReviewer, UnblockReviewer
    <2>3. QED
      BY <2>2
  <1>3. ASSUME NEW h, NEW c, NEW x,
               StartSweep(h, c, x) \/ StartAssign(h, c, x) \/ StartCancel(h, c, x) \/ WriteReview(h, c, x)
        PROVE  FALSE
    BY <1>3 DEF StartSweep, StartAssign, StartCancel, WriteReview
  <1>4. ASSUME NEW h, FlushSweep(h) \/ SweepRaises(h) \/ CountSweep(h) \/ CheckApply(h) \/ DieInRequest(h)
        PROVE  FALSE
    BY <1>4 DEF FlushSweep, SweepRaises, CountSweep, CheckApply, DieInRequest
  <1>5. ASSUME NEW h, InsertApplication(h) \/ DeleteApplication(h) \/ LockCampaign(h) \/ Assign(h)
        PROVE  FALSE
    BY <1>5 DEF InsertApplication, DeleteApplication, LockCampaign, Assign
  <1>6. ASSUME NEW h, GrantCopy(h) \/ PickAssigned(h) \/ CompleteApplication(h)
        PROVE  FALSE
    BY <1>6 DEF GrantCopy, PickAssigned, CompleteApplication
  <1>7. ASSUME NEW x, CloseCampaign(x) \/ BuyBook(x)
        PROVE  FALSE
    BY <1>7 DEF CloseCampaign, BuyBook
  <1>8. ~NextDay /\ ~(UNCHANGED campaignVars)
    BY DEF campaignVars, NextDay
  <1>9. \A e \in world.entries : e[2] \in Reviewers
    BY <1>1, PairsAre
  <1>10. QED
    BY <1>1, <1>2, <1>3, <1>4, <1>5, <1>6, <1>7, <1>8, <1>9 DEF CampaignNext

\* However the sweeps of any number of requests overlap, a block of the rule rests
\* on MissLimit rows that were found overdue; and on as many that no earlier block
\* of the rule had counted, if no overtaken sweep has set a block of the reviewer's.
THEOREM BlockIsEarnedHolds == CampaignSpec => BlockIsEarned
  <1> DEFINE Earned == \A r \in Reviewers \ lifted' : blockedUntil'[r] > blockedUntil[r]
               => /\ Cardinality(MissedBy(r, missed')) >= MissLimit
                  /\ r \notin raced' => Cardinality(MissedBy(r, missed' \ atoned)) >= MissLimit
  <1>1. CampaignInv /\ [CampaignNext]_campaignVars => Earned
    <2> SUFFICES ASSUME CampaignInv, [CampaignNext]_campaignVars, NEW r \in Reviewers \ lifted',
                        blockedUntil'[r] > blockedUntil[r]
                 PROVE  /\ Cardinality(MissedBy(r, missed')) >= MissLimit
                        /\ r \notin raced' => Cardinality(MissedBy(r, missed' \ atoned)) >= MissLimit
      OBVIOUS
    <2>1. blockedUntil \in [Reviewers -> Never..(LastDay + OperatorBlockDays)] /\ blockedUntil[r] \in Int
      BY Bounds DEF CampaignInv, CampaignTypeOK
    <2>2. blockedUntil'[r] # blockedUntil[r]
      BY <2>1
    <2>3. PICK h \in CampaignHandlers : CommitSweep(h)
      BY <2>2, OnlySweepsBlock
    <2> DEFINE q == request[h]
    <2>4. q.r = r /\ q.blocks /\ blockedUntil'[r] = q.now + BlockDays /\ SoundSweep(q)
          /\ missed' = missed \cup q.picked /\ r \notin lifted
      BY <2>1, <2>2, <2>3, SweepNotes
    <2>5. Cardinality(MissedBy(r, missed')) >= MissLimit
      BY <2>4 DEF SoundSweep, Counts
    <2>6. ASSUME r \notin raced'
          PROVE  Cardinality(MissedBy(r, missed' \ atoned)) >= MissLimit
      <3>1. InTime(q) /\ q.op = "commit" /\ r \notin raced
        BY <2>3, <2>4, <2>6, SweepNotes DEF SoundSweep
      <3>2. blockedUntil[r] # q.now + BlockDays
        BY <2>2, <2>4
      <3>3. QED
        BY <2>4, <3>1, <3>2 DEF InTime, Counts
    <2>7. QED
      BY <2>5, <2>6
  <1>2. CampaignInv /\ [CampaignNext]_campaignVars => [Earned]_campaignVars
    BY <1>1
  <1>3. QED
    BY <1>2, CampaignInvariant, PTL DEF CampaignSpec, BlockIsEarned
=============================================================================
