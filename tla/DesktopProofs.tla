---------------------------- MODULE DesktopProofs ----------------------------
(***************************************************************************)
(* The desktop editor's login, publishing, backup and snapshots, for any   *)
(* number of calls at a time; and together with them the manuscripts and   *)
(* the catalog of the server.                                              *)
(***************************************************************************)
EXTENDS MCDesk, BooksProofs

-----------------------------------------------------------------------------
(* Login *)

\* A wait keeps the deadline it began with.
KeepsDeadline(f) == f.phase \in {"waiting", "blocked"} => f.deadline = f.since + Timeout
GivesBack(f) == f.open => \/ f.phase \in {"asking", "blocked"}
                          \/ f.phase = "waiting" /\ (TimeLeft(f) \/ f.late)
LoginInv == LoginTypeOK /\ ListenerClosed /\ \A l \in Logins : KeepsDeadline(flow[l])

LEMMA BacklogIsShort ==
  /\ <<>> \in Backlogs
  /\ \A b \in Backlogs : b \in Seq(Connections) /\ Len(b) <= MaxBacklog
  /\ \A b \in Seq(Connections) : Len(b) <= MaxBacklog => b \in Backlogs
  <1> USE LoginAssumption DEF Backlogs
  <1>1. <<>> \in [1..0 -> Connections]
    OBVIOUS
  <1>2. ASSUME NEW b \in Backlogs
        PROVE  b \in Seq(Connections) /\ Len(b) <= MaxBacklog
    <2>1. PICK n \in 0..MaxBacklog : b \in [1..n -> Connections]
      OBVIOUS
    <2>2. QED
      BY <2>1
  <1>3. ASSUME NEW b \in Seq(Connections), Len(b) <= MaxBacklog
        PROVE  b \in Backlogs
    <2>1. Len(b) \in 0..MaxBacklog /\ b \in [1..Len(b) -> Connections]
      BY <1>3
    <2>2. QED
      BY <2>1
  <1>4. QED
    BY <1>1, <1>2, <1>3

\* What a step of one login leaves of the others.
LEMMA FlowMoves ==
  ASSUME LoginInv, NEW l \in Logins, NEW g \in LoginFlow,
         GivesBack(g), KeepsDeadline(g),
         flow' = [flow EXCEPT ![l] = g], UNCHANGED <<clock, plain>>, keyring' \in {keyring, l}
  PROVE  LoginInv'
  <1>1. LoginTypeOK'
    BY DEF LoginInv, LoginTypeOK
  <1>2. ASSUME NEW k \in Logins
        PROVE  GivesBack(flow[k])' /\ KeepsDeadline(flow[k])'
    <2>1. flow'[k] = IF k = l THEN g ELSE flow[k]
      BY DEF LoginInv, LoginTypeOK
    <2>2. clock' = clock /\ GivesBack(flow[k]) /\ KeepsDeadline(flow[k])
      BY DEF LoginInv, ListenerClosed, GivesBack
    <2>3. QED
      BY <2>1, <2>2 DEF GivesBack, KeepsDeadline, TimeLeft
  <1>3. QED
    BY <1>1, <1>2 DEF LoginInv, ListenerClosed, GivesBack

LEMMA LoginInvNext == LoginInv /\ [LoginNext]_loginVars => LoginInv'
  <1> SUFFICES ASSUME LoginInv, [LoginNext]_loginVars
               PROVE  LoginInv'
    OBVIOUS
  <1> USE LoginAssumption
  <1>1. ASSUME NEW l \in Logins, NEW phase \in Phases \ {"waiting", "blocked"}, CloseWith(l, phase), UNCHANGED <<clock, keyring, plain>>
        PROVE  LoginInv'
    <2> DEFINE g == [flow[l] EXCEPT !.phase = phase, !.open = FALSE, !.backlog = <<>>]
    <2>1. g \in LoginFlow /\ GivesBack(g) /\ KeepsDeadline(g)
      BY BacklogIsShort DEF LoginInv, LoginTypeOK, LoginFlow, GivesBack, KeepsDeadline
    <2>2. flow' = [flow EXCEPT ![l] = g]
      BY <1>1 DEF CloseWith, LoginInv, LoginTypeOK, LoginFlow
    <2> HIDE DEF g
    <2>3. QED
      BY <1>1, <2>1, <2>2, FlowMoves
  <1>3. ASSUME NEW l \in Logins, HandleRequest(l)
        PROVE  LoginInv'
    <2> DEFINE c == Head(flow[l].backlog)
    <2>1. /\ flow[l] \in LoginFlow /\ flow[l].phase = "waiting" /\ flow[l].backlog # <<>>
          /\ UNCHANGED <<clock, keyring, plain>> /\ GivesBack(flow[l]) /\ KeepsDeadline(flow[l])
      BY <1>3 DEF HandleRequest, LoginInv, LoginTypeOK, ListenerClosed, GivesBack
    <2>2. Tail(flow[l].backlog) \in Backlogs
      <3>1. PICK b \in Backlogs : b = flow[l].backlog
        BY <2>1 DEF LoginFlow
      <3>2. b \in Seq(Connections) /\ Len(b) <= MaxBacklog /\ b # <<>>
        BY <2>1, <3>1, BacklogIsShort
      <3>3. Tail(b) \in Seq(Connections) /\ Len(Tail(b)) <= MaxBacklog
        BY <3>2
      <3>4. QED
        BY <3>1, <3>3, BacklogIsShort
    <2>3. ASSUME NEW phase \in {"waiting", "blocked"},
                 flow' = [flow EXCEPT ![l].backlog = Tail(@), ![l].phase = phase]
          PROVE  LoginInv'
      <3> DEFINE g == [flow[l] EXCEPT !.backlog = Tail(flow[l].backlog), !.phase = phase]
      <3>1. g \in LoginFlow /\ GivesBack(g) /\ KeepsDeadline(g)
        BY <2>1, <2>2 DEF LoginFlow, Phases, GivesBack, KeepsDeadline, TimeLeft
      <3>2. flow' = [flow EXCEPT ![l] = g]
        BY <2>1, <2>3 DEF LoginInv, LoginTypeOK, LoginFlow
      <3> HIDE DEF g
      <3>3. QED
        BY <2>1, <3>1, <3>2, FlowMoves
    <2>4. CASE c = "noise" /\ flow' = [flow EXCEPT ![l].backlog = Tail(@)]
      <3>1. flow' = [flow EXCEPT ![l].backlog = Tail(@), ![l].phase = "waiting"]
        BY <2>1, <2>4 DEF LoginInv, LoginTypeOK, LoginFlow
      <3>2. QED
        BY <2>3, <3>1
    <2>5. CASE c = "silent" /\ flow' = [flow EXCEPT ![l].backlog = Tail(@), ![l].phase = "blocked"]
      BY <2>3, <2>5
    <2>6. CASE CloseWith(l, "token") \/ CloseWith(l, "failed")
      BY <1>1, <2>1, <2>6 DEF Phases
    <2>7. QED
      BY <1>3, <2>4, <2>5, <2>6 DEF HandleRequest
  <1>4. ASSUME NEW l \in Logins, OpenListener(l)
        PROVE  LoginInv'
    <2> DEFINE g == [flow[l] EXCEPT !.phase = "asking", !.open = TRUE]
    <2>1. g \in LoginFlow /\ GivesBack(g) /\ KeepsDeadline(g)
      BY DEF LoginInv, LoginTypeOK, LoginFlow, Phases, GivesBack, KeepsDeadline
    <2>2. flow' = [flow EXCEPT ![l] = g]
      BY <1>4 DEF OpenListener, LoginInv, LoginTypeOK, LoginFlow
    <2> HIDE DEF g
    <2>3. QED
      BY <1>4, <2>1, <2>2, FlowMoves DEF OpenListener
  <1>5. ASSUME NEW l \in Logins, OpenBrowser(l)
        PROVE  LoginInv'
    <2> DEFINE g == [flow[l] EXCEPT !.phase = "waiting", !.deadline = clock + Timeout, !.since = clock]
    <2>1. clock + Timeout \in 0..(MaxTime + Timeout) /\ clock \in 0..MaxTime
      BY DEF LoginInv, LoginTypeOK
    <2>2. g \in LoginFlow /\ GivesBack(g) /\ KeepsDeadline(g)
      <3>1. g \in LoginFlow /\ g.phase = "waiting" /\ g.since = clock /\ g.deadline = clock + Timeout
        BY <2>1 DEF LoginInv, LoginTypeOK, LoginFlow, Phases
      <3> HIDE DEF g
      <3>2. TimeLeft(g)
        BY <2>1, <3>1 DEF TimeLeft
      <3>3. QED
        BY <3>1, <3>2 DEF GivesBack, KeepsDeadline
    <2>3. flow' = [flow EXCEPT ![l] = g]
      BY <1>5 DEF OpenBrowser, LoginInv, LoginTypeOK, LoginFlow
    <2> HIDE DEF g
    <2>4. QED
      BY <1>5, <2>2, <2>3, FlowMoves DEF OpenBrowser
  <1>6. ASSUME NEW l \in Logins, SilentConnectionCloses(l)
        PROVE  LoginInv'
    <2> DEFINE g == [flow[l] EXCEPT !.phase = "waiting", !.late = ~TimeLeft(flow[l])]
    <2>0. (~TimeLeft(flow[l])) \in BOOLEAN
      BY DEF TimeLeft
    <2>1. /\ g \in LoginFlow /\ g.phase = "waiting" /\ g.since = flow[l].since /\ g.deadline = flow[l].deadline
          /\ (g.late <=> ~TimeLeft(flow[l]))
      BY <2>0 DEF LoginInv, LoginTypeOK, LoginFlow, Phases
    <2>2. flow' = [flow EXCEPT ![l] = g]
      BY <1>6 DEF SilentConnectionCloses, LoginInv, LoginTypeOK, LoginFlow
    <2> HIDE DEF g
    <2>3. GivesBack(g) /\ KeepsDeadline(g)
      <3>1. KeepsDeadline(flow[l]) /\ flow[l].phase = "blocked"
        BY <1>6 DEF LoginInv, SilentConnectionCloses
      <3>2. TimeLeft(g) <=> TimeLeft(flow[l])
        BY <2>1 DEF TimeLeft
      <3>3. QED
        BY <2>1, <3>1, <3>2 DEF GivesBack, KeepsDeadline
    <2>4. QED
      BY <1>6, <2>1, <2>2, <2>3, FlowMoves DEF SilentConnectionCloses
  <1>7. ASSUME NEW l \in Logins, StoreToken(l)
        PROVE  LoginInv'
    <2>1. PICK phase \in Ended : flow' = [flow EXCEPT ![l].phase = phase]
      BY <1>7 DEF StoreToken, Ended
    <2> DEFINE g == [flow[l] EXCEPT !.phase = phase]
    <2>2. g \in LoginFlow /\ GivesBack(g) /\ KeepsDeadline(g)
      BY <1>7 DEF StoreToken, LoginInv, LoginTypeOK, ListenerClosed, LoginFlow, Phases, Ended, GivesBack, KeepsDeadline
    <2>3. flow' = [flow EXCEPT ![l] = g]
      BY <2>1 DEF LoginInv, LoginTypeOK, LoginFlow
    <2> HIDE DEF g
    <2>4. QED
      BY <1>7, <2>2, <2>3, FlowMoves DEF StoreToken
  <1>8. ASSUME NEW l \in Logins, NEW c \in Connections, Connect(l, c)
        PROVE  LoginInv'
    <2> DEFINE queue == Append(flow[l].backlog, c)
               g == [flow[l] EXCEPT !.backlog = queue]
    <2>1. queue \in Backlogs
      <3>1. PICK b \in Backlogs : b = flow[l].backlog
        BY DEF LoginInv, LoginTypeOK, LoginFlow
      <3>2. b \in Seq(Connections) /\ Len(b) < MaxBacklog
        BY <1>8, <3>1, BacklogIsShort DEF Connect
      <3>3. Append(b, c) \in Seq(Connections) /\ Len(Append(b, c)) <= MaxBacklog
        BY <3>2
      <3>4. QED
        BY <3>1, <3>3, BacklogIsShort
    <2>2. flow' = [flow EXCEPT ![l].backlog = queue]
      BY <1>8 DEF Connect, LoginInv, LoginTypeOK
    <2> HIDE DEF queue
    <2>3. g \in LoginFlow /\ GivesBack(g) /\ KeepsDeadline(g)
      BY <2>1 DEF LoginInv, LoginTypeOK, ListenerClosed, LoginFlow, GivesBack, KeepsDeadline, TimeLeft
    <2>4. flow' = [flow EXCEPT ![l] = g]
      BY <2>2 DEF LoginInv, LoginTypeOK, LoginFlow
    <2> HIDE DEF g
    <2>5. QED
      BY <1>8, <2>3, <2>4, FlowMoves DEF Connect
  <1>9. ASSUME NEW l \in Logins, AskingFails(l) \/ LoginTimesOut(l)
        PROVE  LoginInv'
    BY <1>1, <1>9 DEF AskingFails, LoginTimesOut, Phases
  <1>10. CASE Logout \/ SaveManualToken \/ UNCHANGED loginVars
    BY <1>10 DEF Logout, SaveManualToken, loginVars, LoginInv, LoginTypeOK, ListenerClosed, TimeLeft, KeepsDeadline
  <1>11. CASE LoginTick
    <2>1. LoginTypeOK' /\ UNCHANGED flow /\ clock' = clock + 1 /\ clock \in 0..MaxTime
      BY <1>11 DEF LoginTick, LoginInv, LoginTypeOK
    <2>2. ASSUME NEW l \in Logins
          PROVE  GivesBack(flow[l])' /\ KeepsDeadline(flow[l])'
      <3>1. KeepsDeadline(flow[l]) /\ GivesBack(flow[l]) /\ flow[l].since \in Int /\ flow[l].deadline \in Int
        BY DEF LoginInv, ListenerClosed, GivesBack, LoginTypeOK, LoginFlow
      <3>2. flow[l].phase = "waiting" => clock < flow[l].deadline
        BY <1>11 DEF LoginTick
      <3>3. QED
        BY <2>1, <3>1, <3>2 DEF GivesBack, KeepsDeadline, TimeLeft
    <2>3. QED
      BY <2>1, <2>2 DEF LoginInv, ListenerClosed, GivesBack
  <1>12. QED
    BY <1>3, <1>4, <1>5, <1>6, <1>7, <1>8, <1>9, <1>10, <1>11 DEF LoginNext

LEMMA LoginInvHolds == LoginSpec => []LoginInv
  <1>1. LoginInit => LoginInv
    BY LoginAssumption, BacklogIsShort
       DEF LoginInit, LoginInv, LoginTypeOK, ListenerClosed, LoginFlow, Phases, KeepsDeadline
  <1>2. QED
    BY <1>1, LoginInvNext, PTL DEF LoginSpec

\* Whatever connects to the listeners, and however many logins run: the queue
\* of each stays within its bound, the deadline within its range.
THEOREM LoginTypeCorrect == LoginSpec => []LoginTypeOK
  BY LoginInvHolds, PTL DEF LoginInv

\* No listener outlives its login, whichever of wait_for_callback and
\* run_login_flow it ends in, and beyond timeout_s a port is open only while a
\* silent connection is served.
THEOREM ListenerClosedHolds == LoginSpec => []ListenerClosed
  BY LoginInvHolds, PTL DEF LoginInv
-----------------------------------------------------------------------------
(* Publishing *)

Made == remote # NoRemoteBook \/ \E p \in Publishes : publish[p].stage = "created"
BooksAreCounted ==
    /\ IsFiniteSet(DOMAIN server)
    /\ Cardinality(DOMAIN server) <= losses + overlap + (IF Made THEN 1 ELSE 0)

\* What a call may hold at its stage, given the books the server has.
SoundPublish == {g \in PublishCall :
    /\ g.stage # "idle" => g.chapters \in Publishable
    /\ g.stage \in {"put", "created", "release"} => g.book \in DOMAIN server
    /\ g.stage = "release" => server[g.book].content # NoContent}
RemoteIsThere == remote # NoRemoteBook => remote \in DOMAIN server

PublishInv ==
    /\ PublishTypeOK /\ publish \in [Publishes -> SoundPublish] /\ RemoteIsThere
    /\ BooksAreCounted /\ OnlyCheckedContentIsSent /\ PublicBooksHaveContent

LEMMA PublishInvInit == PublishInit => PublishInv
  <1> SUFFICES ASSUME PublishInit PROVE PublishInv
    OBVIOUS
  <1> USE PublishAssumption DEF PublishInit
  <1>1. DOMAIN server = {} /\ remote = NoRemoteBook /\ content \in Contents /\ losses = 0 /\ overlap = 0
    OBVIOUS
  <1>2. IdlePublish \in PublishCall /\ IdlePublish.stage = "idle"
    BY DEF IdlePublish, PublishCall, PublishStages
  <1>3. publish \in [Publishes -> SoundPublish] /\ publish \in [Publishes -> PublishCall]
    BY <1>2 DEF SoundPublish
  <1>4. server \in [DOMAIN server -> ServerBook]
    BY <1>1
  <1>5. IsFiniteSet(DOMAIN server) /\ Cardinality(DOMAIN server) = 0
    BY <1>1, FS_EmptySet
  <1>6. BooksAreCounted
    BY <1>1, <1>5 DEF BooksAreCounted
  <1>7. PublishTypeOK
    BY <1>1, <1>3, <1>4 DEF PublishTypeOK
  <1>8. QED
    BY <1>1, <1>3, <1>6, <1>7 DEF PublishInv, RemoteIsThere, OnlyCheckedContentIsSent, PublicBooksHaveContent

\* A step of one call that leaves the server's books alone and makes none of
\* its own known or forgotten.
LEMMA CallMovesOn ==
  ASSUME PublishInv, NEW p \in Publishes, NEW g \in SoundPublish, publish' = [publish EXCEPT ![p] = g],
         publish[p].stage # "created", g.stage # "created",
         UNCHANGED <<content, remote, server, losses, overlap>>
  PROVE  PublishInv'
  <1>1. SoundPublish' = SoundPublish /\ g \in PublishCall
    BY DEF SoundPublish
  <1>2. publish' \in [Publishes -> SoundPublish'] /\ publish' \in [Publishes -> PublishCall]
    BY <1>1 DEF PublishInv, PublishTypeOK
  <1>3. \A q \in Publishes : publish'[q].stage = "created" <=> publish[q].stage = "created"
    BY DEF PublishInv, PublishTypeOK
  <1>4. Made' = Made
    BY <1>3 DEF Made
  <1>5. BooksAreCounted'
    BY <1>4 DEF PublishInv, BooksAreCounted
  <1>6. QED
    BY <1>2, <1>5 DEF PublishInv, PublishTypeOK, RemoteIsThere, OnlyCheckedContentIsSent, PublicBooksHaveContent

LEMMA IdlePublishIsSound == IdlePublish \in SoundPublish /\ IdlePublish.stage = "idle"
  BY DEF IdlePublish, SoundPublish, PublishCall, PublishStages

LEMMA BookPosted ==
  ASSUME PublishInv, NEW p \in Publishes, PostBook(p)
  PROVE  PublishInv'
  <1>1. PICK b \in RemoteBooks \ DOMAIN server :
          /\ server' = [c \in DOMAIN server \cup {b} |->
                          IF c = b THEN [content |-> NoContent, public |-> FALSE] ELSE server[c]]
          /\ publish' = [publish EXCEPT ![p].stage = "created", ![p].book = b]
    BY DEF PostBook
  <1> DEFINE g == [publish[p] EXCEPT !.stage = "created", !.book = b]
  <1>2. /\ publish[p].stage = "create" /\ UNCHANGED <<content, remote, losses>>
        /\ overlap' = IF Made THEN overlap + 1 ELSE overlap
    BY DEF PostBook, Made
  <1>3. /\ DOMAIN server' = DOMAIN server \cup {b} /\ server'[b] = [content |-> NoContent, public |-> FALSE]
        /\ \A c \in DOMAIN server : server'[c] = server[c]
    BY <1>1
  <1>4. SoundPublish \subseteq SoundPublish'
    BY <1>3 DEF SoundPublish
  <1>5. g \in SoundPublish' /\ g \in PublishCall /\ g.stage = "created"
    <2>1. publish[p] \in PublishCall /\ publish[p].chapters \in Publishable
      BY <1>2 DEF PublishInv, PublishTypeOK, SoundPublish
    <2>2. g \in PublishCall /\ g.stage = "created" /\ g.book = b /\ g.chapters \in Publishable
      BY <2>1 DEF PublishCall, PublishStages
    <2> HIDE DEF g
    <2>3. QED
      BY <1>3, <2>2 DEF SoundPublish
  <1>6. publish' = [publish EXCEPT ![p] = g]
    BY <1>1 DEF PublishInv, PublishTypeOK, PublishCall
  <1> HIDE DEF g
  <1>7. publish' \in [Publishes -> SoundPublish'] /\ publish' \in [Publishes -> PublishCall]
    BY <1>4, <1>5, <1>6 DEF PublishInv, PublishTypeOK
  <1>8. BooksAreCounted'
    <2>1. IsFiniteSet(DOMAIN server') /\ Cardinality(DOMAIN server') = Cardinality(DOMAIN server) + 1
      BY <1>3, FS_AddElement DEF PublishInv, BooksAreCounted
    <2>2. Made'
      BY <1>5, <1>6 DEF Made, PublishInv, PublishTypeOK
    <2>3. losses \in Nat /\ overlap \in Nat /\ Cardinality(DOMAIN server) \in Nat
      BY PublishAssumption, FS_CardinalityType DEF PublishInv, PublishTypeOK, BooksAreCounted
    <2>4. QED
      BY <1>2, <2>1, <2>2, <2>3 DEF PublishInv, BooksAreCounted
  <1>9. PublishTypeOK'
    <2>1. [content |-> NoContent, public |-> FALSE] \in ServerBook
      BY DEF ServerBook
    <2>2. server' \in [DOMAIN server' -> ServerBook]
      BY <1>1, <1>3, <2>1 DEF PublishInv, PublishTypeOK
    <2>3. DOMAIN server' \subseteq RemoteBooks /\ overlap' \in Nat
      BY <1>2, <1>3 DEF PublishInv, PublishTypeOK
    <2>4. QED
      BY <1>2, <1>7, <2>2, <2>3 DEF PublishInv, PublishTypeOK
  <1>10. RemoteIsThere' /\ OnlyCheckedContentIsSent' /\ PublicBooksHaveContent'
    BY <1>2, <1>3 DEF PublishInv, RemoteIsThere, OnlyCheckedContentIsSent, PublicBooksHaveContent
  <1>11. QED
    BY <1>7, <1>8, <1>9, <1>10 DEF PublishInv

\* What PUT and publish-now do to a book the server has.
LEMMA BookUpdated ==
  ASSUME PublishInv, NEW p \in Publishes, NEW g, NEW b \in DOMAIN server, NEW row \in ServerBook,
         publish' = [publish EXCEPT ![p] = g], g \in SoundPublish', publish[p].stage # "created", g.stage # "created",
         server' = [server EXCEPT ![b] = row], row.content \in Publishable,
         UNCHANGED <<content, remote, losses, overlap>>
  PROVE  PublishInv'
  <1> USE PublishAssumption
  <1>1. /\ DOMAIN server' = DOMAIN server /\ server'[b] = row /\ server' \in [DOMAIN server -> ServerBook]
        /\ \A c \in DOMAIN server \ {b} : server'[c] = server[c]
    BY DEF PublishInv, PublishTypeOK
  <1>2. SoundPublish \subseteq SoundPublish' /\ g \in PublishCall
    BY <1>1 DEF SoundPublish
  <1>3. publish' \in [Publishes -> SoundPublish'] /\ publish' \in [Publishes -> PublishCall]
    BY <1>2 DEF PublishInv, PublishTypeOK
  <1>4. \A q \in Publishes : publish'[q].stage = "created" <=> publish[q].stage = "created"
    BY DEF PublishInv, PublishTypeOK
  <1>5. Made' = Made
    BY <1>4 DEF Made
  <1>6. BooksAreCounted'
    BY <1>1, <1>5 DEF PublishInv, BooksAreCounted
  <1>7. PublishTypeOK'
    BY <1>1, <1>3 DEF PublishInv, PublishTypeOK
  <1>8. RemoteIsThere' /\ OnlyCheckedContentIsSent' /\ PublicBooksHaveContent'
    BY <1>1 DEF PublishInv, RemoteIsThere, OnlyCheckedContentIsSent, PublicBooksHaveContent
  <1>9. QED
    BY <1>3, <1>6, <1>7, <1>8 DEF PublishInv

LEMMA PublishInvNext == PublishInv /\ [PublishDesktopNext]_publishVars => PublishInv'
  <1> SUFFICES ASSUME PublishInv, [PublishDesktopNext]_publishVars
               PROVE  PublishInv'
    OBVIOUS
  <1> USE PublishAssumption
  <1>1. CASE UNCHANGED publishVars \/ Edit
    <2>1. UNCHANGED <<remote, server, publish, losses, overlap>> /\ content' \in Contents
      BY <1>1 DEF publishVars, Edit, PublishInv, PublishTypeOK
    <2>2. SoundPublish' = SoundPublish /\ Made' = Made
      BY <2>1 DEF SoundPublish, Made
    <2>3. BooksAreCounted'
      BY <2>1, <2>2 DEF PublishInv, BooksAreCounted
    <2>4. QED
      BY <2>1, <2>2, <2>3 DEF PublishInv, PublishTypeOK, RemoteIsThere, OnlyCheckedContentIsSent, PublicBooksHaveContent
  <1>2. ASSUME NEW p \in Publishes, Preflight(p)
        PROVE  PublishInv'
    <2> DEFINE g == [IdlePublish EXCEPT !.stage = "checked", !.chapters = content]
    <2>1. g \in SoundPublish /\ g.stage = "checked"
      BY <1>2 DEF Preflight, IdlePublish, SoundPublish, PublishCall, PublishStages
    <2> HIDE DEF g
    <2>2. QED
      BY <1>2, <2>1, CallMovesOn DEF Preflight, g
  <1>3. ASSUME NEW p \in Publishes, GetRemoteBookId(p)
        PROVE  PublishInv'
    <2> DEFINE stage == IF remote = NoRemoteBook THEN "create" ELSE "put"
               g == [publish[p] EXCEPT !.stage = stage, !.book = remote]
    <2>1. /\ publish[p] \in PublishCall /\ publish[p].chapters \in Publishable /\ publish[p].stage = "checked"
          /\ publish' = [publish EXCEPT ![p].stage = stage, ![p].book = remote]
          /\ UNCHANGED <<content, remote, server, losses, overlap>>
      BY <1>3 DEF GetRemoteBookId, PublishInv, PublishTypeOK, SoundPublish
    <2>2. stage \in {"create", "put"} /\ (stage = "put" => remote \in DOMAIN server)
      BY DEF PublishInv, RemoteIsThere
    <2> HIDE DEF stage
    <2>3. publish' = [publish EXCEPT ![p] = g]
      BY <2>1 DEF PublishInv, PublishTypeOK, PublishCall
    <2>4. g \in PublishCall /\ g.stage = stage /\ g.book = remote /\ g.chapters \in Publishable
      BY <2>1, <2>2 DEF PublishCall, PublishStages, PublishInv, PublishTypeOK
    <2> HIDE DEF g
    <2>5. g \in SoundPublish
      BY <2>2, <2>4 DEF SoundPublish
    <2>6. QED
      BY <2>1, <2>2, <2>3, <2>4, <2>5, CallMovesOn
  <1>4. ASSUME NEW p \in Publishes, PostBook(p)
        PROVE  PublishInv'
    BY <1>4, BookPosted
  <1>5. ASSUME NEW p \in Publishes, SetRemoteBookId(p)
        PROVE  PublishInv'
    <2> DEFINE g == [publish[p] EXCEPT !.stage = "put"]
    <2>1. /\ publish[p].stage = "created" /\ remote' = publish[p].book /\ remote' \in DOMAIN server
          /\ publish[p].chapters \in Publishable
          /\ publish' = [publish EXCEPT ![p].stage = "put"]
          /\ UNCHANGED <<content, server, losses, overlap>>
      BY <1>5 DEF SetRemoteBookId, PublishInv, PublishTypeOK, SoundPublish
    <2>2. g \in PublishCall /\ g.stage = "put" /\ g.book \in DOMAIN server /\ g.chapters \in Publishable
      BY <2>1 DEF PublishInv, PublishTypeOK, PublishCall, PublishStages
    <2>3. publish' = [publish EXCEPT ![p] = g]
      BY <2>1 DEF PublishInv, PublishTypeOK, PublishCall
    <2> HIDE DEF g
    <2>4. SoundPublish' = SoundPublish /\ g \in SoundPublish
      BY <2>1, <2>2 DEF SoundPublish
    <2>5. publish' \in [Publishes -> SoundPublish'] /\ publish' \in [Publishes -> PublishCall]
      BY <2>2, <2>3, <2>4 DEF PublishInv, PublishTypeOK
    <2>6. Made /\ Made'
      BY <2>1 DEF Made, PublishInv, PublishTypeOK
    <2>7. BooksAreCounted'
      BY <2>1, <2>6 DEF PublishInv, BooksAreCounted
    <2>8. QED
      BY <2>1, <2>5, <2>7 DEF PublishInv, PublishTypeOK, RemoteIsThere, OnlyCheckedContentIsSent, PublicBooksHaveContent
  <1>6. ASSUME NEW p \in Publishes, PutContent(p)
        PROVE  PublishInv'
    <2> DEFINE b == publish[p].book
               row == [server[b] EXCEPT !.content = publish[p].chapters]
               g == [publish[p] EXCEPT !.stage = "release"]
    <2>1. /\ publish[p].stage = "put" /\ b \in DOMAIN server /\ publish[p].chapters \in Publishable
          /\ publish[p] \in PublishCall /\ server[b] \in ServerBook
          /\ server' = [server EXCEPT ![b].content = publish[p].chapters]
          /\ publish' = [publish EXCEPT ![p].stage = "release"]
          /\ UNCHANGED <<content, remote, losses, overlap>>
      BY <1>6 DEF PutContent, PublishInv, PublishTypeOK, SoundPublish
    <2>2. row \in ServerBook /\ row.content \in Publishable /\ row.content # NoContent
      BY <2>1 DEF ServerBook, PublishCall
    <2>3. server' = [server EXCEPT ![b] = row]
      BY <2>1 DEF PublishInv, PublishTypeOK, ServerBook
    <2>4. g \in PublishCall /\ g.stage = "release" /\ g.book = b /\ g.chapters \in Publishable
      BY <2>1 DEF PublishCall, PublishStages
    <2>5. publish' = [publish EXCEPT ![p] = g]
      BY <2>1 DEF PublishInv, PublishTypeOK, PublishCall
    <2> HIDE DEF g, row
    <2>6. server'[b] = row /\ DOMAIN server' = DOMAIN server
      BY <2>1, <2>3 DEF PublishInv, PublishTypeOK
    <2>7. g \in SoundPublish'
      BY <2>1, <2>2, <2>4, <2>6 DEF SoundPublish
    <2>8. publish[p].stage # "created" /\ g.stage # "created"
      BY <2>1, <2>4
    <2> HIDE DEF b
    <2>9. QED
      BY ZenonT(60), <2>1, <2>2, <2>3, <2>5, <2>7, <2>8, BookUpdated
  <1>7. ASSUME NEW p \in Publishes, PublishNow(p)
        PROVE  PublishInv'
    <2> DEFINE b == publish[p].book
               row == [server[b] EXCEPT !.public = TRUE]
    <2>1. /\ publish[p].stage = "release" /\ b \in DOMAIN server
          /\ server[b].content # NoContent /\ server[b] \in ServerBook
          /\ server' = [server EXCEPT ![b].public = TRUE]
          /\ publish' = [publish EXCEPT ![p] = IdlePublish]
          /\ UNCHANGED <<content, remote, losses, overlap>>
      BY <1>7 DEF PublishNow, PublishInv, PublishTypeOK, SoundPublish
    <2>2. server[b].content \in Publishable
      BY <2>1 DEF PublishInv, OnlyCheckedContentIsSent
    <2>3. row \in ServerBook /\ row.content \in Publishable
      BY <2>1, <2>2 DEF ServerBook
    <2>4. server' = [server EXCEPT ![b] = row]
      BY <2>1 DEF PublishInv, PublishTypeOK, ServerBook
    <2> HIDE DEF row
    <2>5. IdlePublish \in SoundPublish' /\ IdlePublish.stage = "idle"
      BY IdlePublishIsSound DEF SoundPublish
    <2>6. QED
      BY <2>1, <2>3, <2>4, <2>5, BookUpdated
  <1>8. ASSUME NEW p \in Publishes, RequestRefused(p)
        PROVE  PublishInv'
    BY <1>8, IdlePublishIsSound, CallMovesOn DEF RequestRefused
  <1>9. ASSUME NEW p \in Publishes, AnswerLost(p)
        PROVE  PublishInv'
    <2>1. /\ losses < MaxLoss /\ losses' = losses + 1 /\ UNCHANGED <<content, remote, server, overlap>>
          /\ publish' = [publish EXCEPT ![p] = IdlePublish]
      BY <1>9 DEF AnswerLost
    <2>2. SoundPublish' = SoundPublish /\ IdlePublish \in PublishCall
      BY <2>1, IdlePublishIsSound DEF SoundPublish
    <2>3. publish' \in [Publishes -> SoundPublish'] /\ publish' \in [Publishes -> PublishCall]
      BY <2>1, <2>2, IdlePublishIsSound DEF PublishInv, PublishTypeOK
    <2>4. losses \in Nat /\ overlap \in Nat /\ Cardinality(DOMAIN server) \in Nat /\ losses' \in 0..MaxLoss
      BY <2>1, FS_CardinalityType DEF PublishInv, PublishTypeOK, BooksAreCounted
    <2>5. BooksAreCounted'
      BY <2>1, <2>4 DEF PublishInv, BooksAreCounted
    <2>6. QED
      BY <2>1, <2>3, <2>4, <2>5 DEF PublishInv, PublishTypeOK, RemoteIsThere, OnlyCheckedContentIsSent, PublicBooksHaveContent
  <1>10. QED
    BY <1>1, <1>2, <1>3, <1>4, <1>5, <1>6, <1>7, <1>8, <1>9 DEF PublishDesktopNext

LEMMA PublishInvHolds == PublishDesktopSpec => []PublishInv
  BY PublishInvInit, PublishInvNext, PTL DEF PublishDesktopSpec

\* The ids a call holds are the server's and its stage says which.
THEOREM PublishTypeCorrect == PublishDesktopSpec => []PublishTypeOK
  BY PublishInvHolds, PTL DEF PublishInv

\* publish() sends only what preflight passed, makes nothing public without a
\* text and makes no second book but for a lost answer or an overlapping call:
\* the books are counted against the answers lost, the overlaps, and whether
\* the local book or a call under way knows of one.
THEOREM PublishSafetyHolds == PublishDesktopSpec => []PublishSafety
  <1>1. PublishInv => PublishSafety
    <2> SUFFICES ASSUME PublishInv PROVE PublishSafety
      OBVIOUS
    <2>1. losses \in Nat /\ overlap \in Nat /\ Cardinality(DOMAIN server) \in Nat
      BY PublishAssumption, FS_CardinalityType DEF PublishInv, PublishTypeOK, BooksAreCounted
    <2>2. ARetryMakesNoBook
      BY <2>1 DEF PublishInv, BooksAreCounted, ARetryMakesNoBook
    <2>3. QED
      BY <2>2 DEF PublishInv, PublishSafety
  <1>2. QED
    BY <1>1, PublishInvHolds, PTL
-----------------------------------------------------------------------------
(* Keeping the newest of a finite set *)

\* What is above r in R, by the order Lt, and what is kept of R: the elements
\* that fewer than n others are above.
Above(R, Lt, r) == {q \in R : <<r, q>> \in Lt}
Kept(R, Lt, n) == {r \in R : Cardinality(Above(R, Lt, r)) < n}
Orders(R, Lt) ==
    /\ \A r \in R : <<r, r>> \notin Lt
    /\ \A r, q, s \in R : <<r, q>> \in Lt /\ <<q, s>> \in Lt => <<r, s>> \in Lt
    /\ \A r, q \in R : r = q \/ <<r, q>> \in Lt \/ <<q, r>> \in Lt

LEMMA AboveIsFinite ==
  ASSUME NEW R, IsFiniteSet(R), NEW Lt, NEW r
  PROVE  IsFiniteSet(Above(R, Lt, r)) /\ Cardinality(Above(R, Lt, r)) \in Nat
  <1>1. Above(R, Lt, r) \subseteq R
    BY DEF Above
  <1>2. IsFiniteSet(Above(R, Lt, r))
    BY <1>1, FS_Subset
  <1>3. QED
    BY <1>2, FS_CardinalityType

\* The higher an element, the less is above it.
LEMMA HigherHasLessAbove ==
  ASSUME NEW R, IsFiniteSet(R), NEW Lt, Orders(R, Lt), NEW r \in R, NEW q \in R, <<r, q>> \in Lt
  PROVE  /\ Above(R, Lt, q) \subseteq Above(R, Lt, r)
         /\ Cardinality(Above(R, Lt, q)) < Cardinality(Above(R, Lt, r))
  <1>1. Above(R, Lt, q) \subseteq Above(R, Lt, r) /\ q \in Above(R, Lt, r) /\ q \notin Above(R, Lt, q)
    BY DEF Orders, Above
  <1>2. IsFiniteSet(Above(R, Lt, r)) /\ IsFiniteSet(Above(R, Lt, q)) /\ Cardinality(Above(R, Lt, q)) \in Nat
        /\ Cardinality(Above(R, Lt, r)) \in Nat
    BY AboveIsFinite
  <1>3. Cardinality(Above(R, Lt, q)) <= Cardinality(Above(R, Lt, r))
        /\ (Cardinality(Above(R, Lt, r)) = Cardinality(Above(R, Lt, q)) => Above(R, Lt, r) = Above(R, Lt, q))
    BY <1>1, <1>2, FS_Subset
  <1>4. QED
    BY <1>1, <1>2, <1>3

\* No more than n are kept.
LEMMA KeptAreFew ==
  ASSUME NEW R, IsFiniteSet(R), NEW Lt, Orders(R, Lt), NEW n \in Nat \ {0}
  PROVE  IsFiniteSet(Kept(R, Lt, n)) /\ Cardinality(Kept(R, Lt, n)) \in Nat /\ Cardinality(Kept(R, Lt, n)) <= n
  <1> DEFINE K == Kept(R, Lt, n)
             f(r) == Cardinality(Above(R, Lt, r))
  <1>1. \A r \in R : f(r) \in Nat
    BY AboveIsFinite
  <1>2. K \subseteq R /\ IsFiniteSet(K)
    <2>1. K \subseteq R
      BY DEF Kept
    <2>2. QED
      BY <2>1, FS_Subset
  <1>3. Cardinality(K) \in Nat
    BY <1>2, FS_CardinalityType
  <1>4. CASE K = {}
    BY <1>2, <1>3, <1>4, FS_EmptySet
  <1>5. CASE K # {}
    <2> DEFINE T == {m \in Nat : \E r \in K : m = n - f(r)}
    <2>1. \A r \in K : f(r) \in Nat /\ f(r) < n
      BY <1>1, <1>2 DEF Kept
    <2> HIDE DEF f
    <2>2. \A r \in K : n - f(r) \in T
      BY <2>1
    <2>3. T # {} /\ T \subseteq Nat
      BY <1>5, <2>2
    <2>4. PICK m \in T : \A x \in T : ~(<<x, m>> \in OpToRel(<, Nat))
      BY <2>3, WFMin, NatLessThanWellFounded
    <2>5. \A x \in T : ~(x < m)
      BY <2>3, <2>4 DEF OpToRel
    <2>6. PICK r \in K : m = n - f(r)
      OBVIOUS
    <2>7. \A q \in K : f(q) <= f(r)
      BY <2>1, <2>2, <2>5, <2>6
    <2>8. K \ {r} \subseteq Above(R, Lt, r)
      <3>1. ASSUME NEW q \in K \ {r}, q \notin Above(R, Lt, r)
            PROVE  FALSE
        <4>1. q \in R /\ r \in R /\ <<q, r>> \in Lt
          BY <1>2, <3>1 DEF Orders, Above
        <4>2. f(r) < f(q)
          BY <4>1, HigherHasLessAbove DEF f
        <4>3. QED
          BY <2>1, <2>7, <4>2
      <3>2. QED
        BY <3>1
    <2>9. IsFiniteSet(Above(R, Lt, r))
      BY AboveIsFinite
    <2>10. Cardinality(K \ {r}) <= f(r)
      BY <2>8, <2>9, FS_Subset DEF f
    <2>11. Cardinality(K \ {r}) = Cardinality(K) - 1
      BY <1>2, FS_RemoveElement
    <2>12. QED
      BY <1>2, <1>3, <2>1, <2>10, <2>11
  <1>6. QED
    BY <1>4, <1>5

\* What is not kept gives way to n that are, all of them above it.
LEMMA DroppedForHigher ==
  ASSUME NEW R, IsFiniteSet(R), NEW Lt, Orders(R, Lt), NEW n \in Nat \ {0}, NEW s \in R \ Kept(R, Lt, n)
  PROVE  Kept(R, Lt, n) \subseteq Above(R, Lt, s) /\ Cardinality(Kept(R, Lt, n)) = n
  <1> DEFINE K == Kept(R, Lt, n)
             f(r) == Cardinality(Above(R, Lt, r))
  <1>1. (\A r \in R : f(r) \in Nat) /\ (\A r \in K : f(r) < n) /\ (\A r \in R \ K : f(r) >= n) /\ K \subseteq R
    <2>1. \A r \in R : f(r) \in Nat
      BY AboveIsFinite
    <2>2. QED
      BY <2>1 DEF Kept
  <1> HIDE DEF f
  <1>2. K \subseteq Above(R, Lt, s)
    <2>1. ASSUME NEW r \in K, r \notin Above(R, Lt, s)
          PROVE  FALSE
      <3>1. r \in R /\ <<r, s>> \in Lt
        BY <1>1, <2>1 DEF Orders, Above
      <3>2. f(s) < f(r)
        BY <3>1, HigherHasLessAbove DEF f
      <3>3. QED
        BY <1>1, <3>1, <3>2
    <2>2. QED
      BY <2>1
  <1>3. PICK t \in R \ K : \A q \in R \ K : f(t) <= f(q)
    <2> DEFINE T == {m \in Nat : \E r \in R \ K : m = f(r)}
    <2>1. f(s) \in T /\ T \subseteq Nat
      BY <1>1
    <2>2. PICK m \in T : \A x \in T : ~(<<x, m>> \in OpToRel(<, Nat))
      BY <2>1, WFMin, NatLessThanWellFounded
    <2>3. \A x \in T : ~(x < m)
      BY <2>1, <2>2 DEF OpToRel
    <2>4. PICK r \in R \ K : m = f(r)
      OBVIOUS
    <2>5. \A q \in R \ K : f(q) \in T
      BY <1>1
    <2>6. QED
      BY <1>1, <2>3, <2>4, <2>5
  <1>4. Above(R, Lt, t) \subseteq K
    <2>1. ASSUME NEW q \in Above(R, Lt, t), q \notin K
          PROVE  FALSE
      <3>1. q \in R \ K /\ <<t, q>> \in Lt
        BY <2>1 DEF Above
      <3>2. f(q) < f(t)
        BY <3>1, HigherHasLessAbove DEF f
      <3>3. QED
        BY <1>1, <1>3, <3>1, <3>2
    <2>2. QED
      BY <2>1
  <1>5. IsFiniteSet(K) /\ Cardinality(K) \in Nat /\ Cardinality(K) <= n
    BY KeptAreFew
  <1>6. f(t) <= Cardinality(K)
    BY <1>4, <1>5, FS_Subset DEF f
  <1>7. QED
    BY <1>1, <1>2, <1>3, <1>5, <1>6
-----------------------------------------------------------------------------
(* Backup *)

\* The backups the flag inFlight speaks of.
AutoBackups == {b \in Backups : backup[b].kind = "auto" /\ backup[b].waits}
AutoIsAlone == IF inFlight THEN \E b \in Backups : AutoBackups = {b} ELSE AutoBackups = {}

\* A text is safe on the server: it is there, or gave way to newer ones.
Safe(k, v) ==
    \E r \in Of(pushed, k) :
        /\ r.html = v
        /\ r \in revisions \/ Cardinality(NewerThan(revisions, r)) >= MaxRevisions

\* What a backup may hold at its stage, given the revisions there are.
SoundStep(g) ==
    /\ g.stage # "serving" => g.step = "next"
    /\ g.step \in {"next", "insert"} => g.own = {}
    /\ g.step \in {"prune", "commit"} => g.own # {}
    /\ g.step # "commit" => g.stale = {}
    /\ g.step = "insert" => \E k \in g.todo : g.storing = {k}
    /\ \A r \in g.own : /\ g.own = {r} /\ r.at < nextRev /\ r.html = g.got[r.key]
                        /\ \A q \in g.stale : q.key = r.key
    /\ \A r \in g.stale : Cardinality(NewerThan(revisions \cup g.own, r)) >= MaxRevisions
SoundBackups == {g \in BackupRecords :
    /\ g.stage \in {"reading", "sent", "served", "failed"} => g.waits
    /\ g.stage = "decided" => ~g.waits
    /\ \A k \in Keys : g.got[k] # Gone
    /\ \A k \in g.todo : g.got[k] # Unread
    /\ g.stage = "served" => g.todo = {}
    /\ g.stage \in {"serving", "served"} => \A k \in Keys : g.got[k] # Unread => k \in g.todo \/ Safe(k, g.got[k])
    /\ SoundStep(g)}

\* Rows are told apart by their number, those under way included.
Rows == revisions \cup UNION {backup[b].own : b \in Backups}
OwnIsNew == \A b \in Backups : /\ backup[b].own \cap revisions = {}
                               /\ \A c \in Backups \ {b} : backup[b].own \cap backup[c].own = {}
RowsAreNumbered ==
    /\ IsFiniteSet(revisions) /\ revisions \subseteq pushed /\ OwnIsNew
    /\ \A r \in Rows : r.at < nextRev
    /\ \A r, q \in Rows : r.at = q.at => r = q

\* However many of the transactions under way on a chapter commit first, the
\* rows they leave are few enough for the rest of them to add theirs.
Pending(k) == {b \in Backups : backup[b].step = "commit" /\ \E r \in backup[b].own \ backup[b].stale : r.key = k}
StaleOf(P) == UNION {backup[b].stale : b \in P}
CapIsKept ==
    \A k \in Keys : \A P \in SUBSET Pending(k) :
        Cardinality(Of(revisions, k) \ StaleOf(P)) <= MaxRevisions - 1 + Cardinality(Backups) - Cardinality(P)

ClientTypeOK ==
    /\ html \in [Keys -> Versions] /\ saves \in 0..MaxSave /\ token \in Owners \cup {NoOwner}
    /\ lastBackup \in {"never", "recent", "old"} /\ inFlight \in BOOLEAN
ServerTypeOK ==
    /\ owner \in Owners \cup {NoOwner} /\ revisions \subseteq RevisionRows /\ nextRev \in 1..(MaxRevision + 1)
    /\ pushed \subseteq RevisionRows
RecordedIsSafe ==
    /\ recorded \in [Keys -> Unread..MaxSave]
    /\ \A k \in Keys : recorded[k] # Unread => Safe(k, recorded[k])

BackupInv ==
    /\ ClientTypeOK /\ ServerTypeOK /\ RecordedIsSafe /\ backup \in [Backups -> SoundBackups] /\ AutoIsAlone
    /\ RowsAreNumbered /\ CapIsKept

LEMMA HighestRow ==
  ASSUME NEW S \in SUBSET RevisionRows, S # {}
  PROVE  \E s \in S : \A q \in S : q.at <= s.at
  <1> USE BackupAssumption
  <1> DEFINE T == {m \in Nat : \E r \in S : m = MaxRevision - r.at}
  <1>1. \A r \in S : r.at \in 1..MaxRevision
    BY DEF RevisionRows
  <1>2. \A r \in S : MaxRevision - r.at \in Nat
    BY <1>1
  <1>3. T # {} /\ T \subseteq Nat /\ \A r \in S : MaxRevision - r.at \in T
    BY <1>2
  <1>4. PICK m \in T : \A x \in T : ~(<<x, m>> \in OpToRel(<, Nat))
    BY <1>3, WFMin, NatLessThanWellFounded
  <1>5. \A x \in T : ~(x < m)
    BY <1>3, <1>4 DEF OpToRel
  <1>6. PICK r \in S : m = MaxRevision - r.at
    OBVIOUS
  <1>7. \A q \in S : ~(MaxRevision - q.at < MaxRevision - r.at) /\ q.at \in Int /\ r.at \in Int
    BY <1>1, <1>5, <1>6, <1>3
  <1>8. \A q \in S : q.at <= r.at
    BY <1>7
  <1>9. QED
    BY <1>8

LEMMA IdleBackupIsSound ==
  /\ IdleBackup \in SoundBackups /\ IdleBackup.own = {} /\ IdleBackup.stage = "idle" /\ ~IdleBackup.waits
  /\ IdleBackup.stale = {} /\ IdleBackup.step = "next" /\ IdleBackup.todo = {} /\ IdleBackup.got = NothingRead /\ IdleBackup.by = NoOwner
  <1>1. NothingRead \in [Keys -> Unread..MaxSave] /\ \A k \in Keys : NothingRead[k] # Gone
    BY BackupAssumption DEF NothingRead, Unread, Gone
  <1>2. IdleBackup \in BackupRecords
    BY <1>1 DEF IdleBackup, BackupRecords, BackupStages
  <1>3. /\ IdleBackup.own = {} /\ IdleBackup.stage = "idle" /\ ~IdleBackup.waits
        /\ IdleBackup.stale = {} /\ IdleBackup.step = "next" /\ IdleBackup.todo = {} /\ IdleBackup.got = NothingRead /\ IdleBackup.by = NoOwner
    BY DEF IdleBackup
  <1>4. IdleBackup \in SoundBackups
    BY <1>1, <1>2, <1>3 DEF SoundBackups, SoundStep
  <1>5. QED
    BY <1>3, <1>4

LEMMA BackupInvInit == BackupInit => BackupInv
  <1> SUFFICES ASSUME BackupInit PROVE BackupInv
    OBVIOUS
  <1> USE BackupAssumption
  <1>1. /\ revisions = {} /\ nextRev = 1 /\ backup = [b \in Backups |-> IdleBackup] /\ recorded = NothingRead /\ inFlight = FALSE
        /\ owner = NoOwner /\ pushed = {}
    BY DEF BackupInit
  <1>2. ClientTypeOK
    <2>1. 0 \in Versions /\ 0 \in 0..MaxSave
      BY DEF Versions, Gone
    <2>2. html \in [Keys -> Versions]
      BY <2>1 DEF BackupInit
    <2>3. QED
      BY <2>1, <2>2 DEF BackupInit, ClientTypeOK
  <1>3. ServerTypeOK
    BY <1>1 DEF ServerTypeOK
  <1>4. RecordedIsSafe
    BY <1>1 DEF RecordedIsSafe, NothingRead, Unread
  <1>5. backup \in [Backups -> SoundBackups] /\ \A b \in Backups : backup[b].own = {} /\ ~backup[b].waits
    BY <1>1, IdleBackupIsSound
  <1>6. AutoIsAlone
    BY <1>1, <1>5 DEF AutoIsAlone, AutoBackups
  <1>7. RowsAreNumbered
    BY <1>1, <1>5, FS_EmptySet DEF RowsAreNumbered, OwnIsNew, Rows
  <1>8. CapIsKept
    <2> SUFFICES ASSUME NEW k \in Keys, NEW P \in SUBSET Pending(k)
                 PROVE  Cardinality(Of(revisions, k) \ StaleOf(P))
                          <= MaxRevisions - 1 + Cardinality(Backups) - Cardinality(P)
      BY DEF CapIsKept
    <2>1. P = {} /\ Of(revisions, k) \ StaleOf(P) = {}
      BY <1>1, <1>5 DEF Pending, Of
    <2>2. Cardinality(Backups) \in Nat
      BY FS_CardinalityType
    <2>3. QED
      BY <2>1, <2>2, FS_EmptySet
  <1>9. QED
    BY <1>2, <1>3, <1>4, <1>5, <1>6, <1>7, <1>8 DEF BackupInv

\* A step of a backup that touches no row, but may give up its transaction.
LEMMA BackupMoves ==
  ASSUME BackupInv, NEW b \in Backups, NEW g \in SoundBackups, backup' = [backup EXCEPT ![b] = g],
         UNCHANGED <<revisions, nextRev, pushed>>,
         g.own = {} \/ (g.own = backup[b].own /\ g.stale = backup[b].stale /\ g.step = backup[b].step),
         ClientTypeOK', owner' \in Owners \cup {NoOwner}, RecordedIsSafe', AutoIsAlone'
  PROVE  BackupInv'
  <1>1. /\ \A c \in Backups \ {b} : backup'[c] = backup[c]
        /\ backup'[b] = g
    BY DEF BackupInv
  <1>2. SoundBackups' = SoundBackups
    BY DEF SoundBackups, SoundStep, Safe
  <1>3. backup' \in [Backups -> SoundBackups']
    BY <1>2 DEF BackupInv
  <1>4. Rows' \subseteq Rows /\ \A c \in Backups : backup'[c].own \subseteq backup[c].own
    BY <1>1 DEF Rows
  <1>5. RowsAreNumbered'
    BY <1>4 DEF BackupInv, RowsAreNumbered, OwnIsNew
  <1>6. CapIsKept'
    <2> SUFFICES ASSUME NEW k \in Keys, NEW P \in SUBSET Pending(k)'
                 PROVE  Cardinality(Of(revisions, k) \ StaleOf(P)')
                          <= MaxRevisions - 1 + Cardinality(Backups) - Cardinality(P)
      BY DEF CapIsKept
    <2>1. \A c \in P : c \in Backups /\ c \in Pending(k) /\ backup'[c].stale = backup[c].stale
      BY <1>1 DEF Pending
    <2>2. StaleOf(P)' = StaleOf(P)
      BY <2>1 DEF StaleOf
    <2>3. P \in SUBSET Pending(k)
      BY <2>1
    <2>4. QED
      BY <2>2, <2>3 DEF BackupInv, CapIsKept
  <1>7. QED
    BY <1>3, <1>5, <1>6 DEF BackupInv, ServerTypeOK

\* The flag and the background backup, where a step changes neither.
LEMMA AutoStays ==
  ASSUME BackupInv, NEW b \in Backups, NEW g, backup' = [backup EXCEPT ![b] = g], inFlight' = inFlight,
         (g.kind = "auto" /\ g.waits) <=> (backup[b].kind = "auto" /\ backup[b].waits)
  PROVE  AutoIsAlone'
  <1>1. \A c \in Backups : (backup'[c].kind = "auto" /\ backup'[c].waits) <=> (backup[c].kind = "auto" /\ backup[c].waits)
    BY DEF BackupInv
  <1>2. AutoBackups' = AutoBackups
    BY <1>1 DEF AutoBackups
  <1>3. QED
    BY <1>2 DEF BackupInv, AutoIsAlone

LEMMA NothingMoves ==
  ASSUME BackupInv, UNCHANGED <<backup, revisions, nextRev, pushed, recorded, inFlight>>,
         ClientTypeOK', owner' \in Owners \cup {NoOwner}
  PROVE  BackupInv'
  <1>1. SoundBackups' = SoundBackups /\ AutoBackups' = AutoBackups /\ Rows' = Rows
    BY DEF SoundBackups, SoundStep, Safe, AutoBackups, Rows
  <1>2. RecordedIsSafe' /\ AutoIsAlone' /\ RowsAreNumbered'
    BY <1>1 DEF BackupInv, RecordedIsSafe, Safe, AutoIsAlone, RowsAreNumbered, OwnIsNew
  <1>3. CapIsKept'
    BY DEF BackupInv, CapIsKept, Pending, StaleOf
  <1>4. QED
    BY <1>1, <1>2, <1>3 DEF BackupInv, ServerTypeOK

LEMMA RecordStays ==
  ASSUME BackupInv, UNCHANGED <<revisions, pushed, recorded>>
  PROVE  RecordedIsSafe'
  BY DEF BackupInv, RecordedIsSafe, Safe

\* The client gives up or is done: the flag is cleared by the backup it speaks of.
LEMMA CallLeft ==
  ASSUME BackupInv, NEW b \in Backups, backup[b].waits, Leave(b), UNCHANGED <<html, saves, token, serverVars>>,
         lastBackup' \in {"never", "recent", "old"}, RecordedIsSafe'
  PROVE  BackupInv'
  <1> DEFINE g == IF backup[b].stage = "serving" THEN [backup[b] EXCEPT !.waits = FALSE] ELSE IdleBackup
  <1>1. /\ backup' = [backup EXCEPT ![b] = g] /\ inFlight' = (inFlight /\ backup[b].kind # "auto")
        /\ backup[b] \in SoundBackups /\ backup[b] \in BackupRecords
    BY DEF Leave, BackupInv, SoundBackups
  <1>2. g \in SoundBackups /\ ~g.waits /\ (g.own = {} \/ (g.own = backup[b].own /\ g.stale = backup[b].stale /\ g.step = backup[b].step))
    <2>1. CASE backup[b].stage # "serving"
      BY <2>1, IdleBackupIsSound
    <2>2. CASE backup[b].stage = "serving"
      <3> DEFINE e == backup[b]
                 f == [e EXCEPT !.waits = FALSE]
      <3>1. /\ e.stage = "serving" /\ e \in SoundBackups
            /\ f \in BackupRecords /\ ~f.waits /\ f.stage = "serving" /\ f.own = e.own /\ f.stale = e.stale
            /\ f.got = e.got /\ f.todo = e.todo /\ f.step = e.step /\ f.storing = e.storing
        BY <1>1, <2>2 DEF BackupRecords
      <3>2. g = f
        BY <2>2
      <3> HIDE DEF f, g, e
      <3>3. \A k \in Keys : f.got[k] # Gone /\ (f.got[k] # Unread => k \in f.todo \/ Safe(k, f.got[k]))
        BY <3>1 DEF SoundBackups
      <3>4. \A k \in f.todo : f.got[k] # Unread
        BY <3>1 DEF SoundBackups
      <3>5. SoundStep(f)
        <4>1. SoundStep(e)
          BY <3>1 DEF SoundBackups
        <4>2. /\ f.stage = e.stage /\ f.own = e.own /\ f.stale = e.stale /\ f.got = e.got /\ f.todo = e.todo
              /\ f.step = e.step /\ f.storing = e.storing
          BY <3>1
        <4>3. /\ f.stage # "serving" => f.step = "next"
              /\ f.step \in {"next", "insert"} => f.own = {}
              /\ f.step \in {"prune", "commit"} => f.own # {}
              /\ f.step # "commit" => f.stale = {}
              /\ f.step = "insert" => \E k \in f.todo : f.storing = {k}
          BY <4>1, <4>2 DEF SoundStep
        <4>4. \A r \in f.own : /\ f.own = {r} /\ r.at < nextRev /\ r.html = f.got[r.key]
                                /\ \A s \in f.stale : s.key = r.key
          BY <4>1, <4>2 DEF SoundStep
        <4>5. \A r \in f.stale : Cardinality(NewerThan(revisions \cup f.own, r)) >= MaxRevisions
          BY <4>1, <4>2 DEF SoundStep
        <4>6. QED
          BY <4>3, <4>4, <4>5 DEF SoundStep
      <3>6. f \in SoundBackups
        BY <3>1, <3>3, <3>4, <3>5 DEF SoundBackups
      <3>7. QED
        BY <3>1, <3>2, <3>6 DEF e
    <2>3. QED
      BY <2>1, <2>2
  <1> HIDE DEF g
  <1>3. \A c \in Backups : /\ c # b => backup'[c] = backup[c]
                           /\ c = b => backup'[c] = g
    BY <1>1 DEF BackupInv
  <1>4. AutoBackups' = AutoBackups \ {b}
    BY <1>2, <1>3 DEF AutoBackups
  <1>5. AutoIsAlone'
    <2>1. CASE backup[b].kind = "auto"
      <3>1. b \in AutoBackups /\ ~inFlight'
        BY <1>1, <2>1 DEF AutoBackups
      <3>2. AutoBackups = {b}
        BY <3>1 DEF BackupInv, AutoIsAlone
      <3>3. QED
        BY <1>4, <3>1, <3>2 DEF AutoIsAlone
    <2>2. CASE backup[b].kind # "auto"
      <3>1. b \notin AutoBackups /\ inFlight' = inFlight
        BY <1>1, <2>2 DEF AutoBackups, BackupInv, ClientTypeOK
      <3>2. QED
        BY <1>4, <3>1 DEF AutoIsAlone, BackupInv
    <2>3. QED
      BY <2>1, <2>2
  <1>6. ClientTypeOK' /\ owner' \in Owners \cup {NoOwner} /\ UNCHANGED <<revisions, nextRev, pushed>>
    BY <1>1 DEF BackupInv, ClientTypeOK, ServerTypeOK, serverVars
  <1>7. QED
    BY <1>1, <1>2, <1>5, <1>6, BackupMoves
\* A set of rows of one chapter is ordered by their numbers; what Stale leaves
\* of it are the rows that are kept.
LEMMA StaleIsDropped ==
  ASSUME NEW k \in Keys, NEW R \in SUBSET RevisionRows, IsFiniteSet(R), \A r \in R : r.key = k,
         \A r, q \in R : r.at = q.at => r = q
  PROVE  IsFiniteSet(R \ Stale(R)) /\ Cardinality(R \ Stale(R)) \in Nat /\ Cardinality(R \ Stale(R)) <= MaxRevisions
  <1> DEFINE Lt == {e \in R \X R : e[1].at < e[2].at}
  <1>1. \A r \in R : r.at \in 1..MaxRevision
    BY DEF RevisionRows
  <1>2. \A r, q \in R : <<r, q>> \in Lt <=> r.at < q.at
    OBVIOUS
  <1> HIDE DEF Lt
  <1>3. Orders(R, Lt)
    BY <1>1, <1>2, BackupAssumption DEF Orders
  <1>4. \A r \in R : Above(R, Lt, r) = NewerThan(R, r)
    BY <1>2 DEF Above, NewerThan, Of
  <1>5. \A r \in R : Cardinality(NewerThan(R, r)) \in Nat
    BY <1>4, AboveIsFinite
  <1>6. R \ Stale(R) = Kept(R, Lt, MaxRevisions)
    BY <1>4, <1>5, BackupAssumption DEF Stale, Kept
  <1>7. QED
    BY <1>3, <1>6, KeptAreFew, BackupAssumption

\* A row is inserted: it is the newest there is.
LEMMA RevisionInserted ==
  ASSUME BackupInv, NEW b \in Backups, InsertRevision(b)
  PROVE  BackupInv'
  <1> USE BackupAssumption
  <1> DEFINE e == backup[b]
  <1>1. /\ e.step = "insert" /\ e \in SoundBackups /\ e \in BackupRecords /\ e.stage = "serving"
        /\ nextRev <= MaxRevision /\ nextRev' = nextRev + 1
        /\ UNCHANGED <<clientVars, owner, revisions, pushed, recorded>>
    BY DEF InsertRevision, BackupInv, SoundBackups, SoundStep
  <1>2. PICK k \in e.todo : e.storing = {k}
    BY <1>1 DEF SoundBackups, SoundStep
  <1> DEFINE row == [key |-> k, html |-> e.got[k], at |-> nextRev]
             g == [e EXCEPT !.step = "prune", !.storing = {}, !.own = {row}]
  <1>3. k \in Keys /\ e.got \in [Keys -> Unread..MaxSave] /\ e.got[k] # Unread /\ e.got[k] # Gone /\ e.own = {} /\ e.stale = {}
    BY <1>1, <1>2 DEF BackupRecords, SoundBackups, SoundStep
  <1>4. row \in RevisionRows /\ row.key = k /\ row.html = e.got[k] /\ row.at = nextRev
    <2>1. e.got[k] \in 0..MaxSave
      BY <1>3 DEF Gone, Unread
    <2>2. nextRev \in 1..MaxRevision
      BY <1>1 DEF BackupInv, ServerTypeOK
    <2>3. QED
      BY <1>3, <2>1, <2>2 DEF RevisionRows
  <1>5. backup' = [backup EXCEPT ![b] = g]
    <2>1. {[key |-> x, html |-> e.got[x], at |-> nextRev] : x \in e.storing} = {row}
      BY <1>2
    <2>2. backup' = [backup EXCEPT ![b].step = "prune", ![b].storing = {}, ![b].own = {row}]
      BY <2>1 DEF InsertRevision
    <2>3. QED
      BY <1>1, <2>2 DEF BackupInv, BackupRecords
  <1>6. /\ g \in BackupRecords /\ g.stage = "serving" /\ g.own = {row} /\ g.stale = {} /\ g.got = e.got /\ g.todo = e.todo
        /\ g.kind = e.kind /\ g.waits = e.waits /\ g.step = "prune"
    BY <1>1, <1>3, <1>4 DEF BackupRecords
  <1> HIDE DEF row, g
  <1>7. /\ ClientTypeOK' /\ owner' \in Owners \cup {NoOwner} /\ inFlight' = inFlight /\ ServerTypeOK' /\ RecordedIsSafe'
        /\ nextRev \in Nat
    <2>1. RecordedIsSafe'
      BY <1>1, RecordStays
    <2>2. QED
      BY <1>1, <2>1 DEF clientVars, ClientTypeOK, ServerTypeOK, BackupInv
  <1>8. SoundBackups \subseteq SoundBackups'
    <2>1. \A r \in RevisionRows : r.at < nextRev => r.at < nextRev'
      BY <1>1, <1>7 DEF RevisionRows
    <2>2. \A f \in SoundBackups : f.own \subseteq RevisionRows
      BY DEF SoundBackups, BackupRecords
    <2>3. \A f \in SoundBackups : SoundStep(f)'
      BY <1>1, <2>1, <2>2 DEF SoundBackups, SoundStep
    <2>4. QED
      BY <1>1, <2>3 DEF SoundBackups, Safe
  <1>9. g \in SoundBackups'
    <2>1. PICK d \in SoundBackups, f \in BackupRecords : d = e /\ f = g
      BY <1>1, <1>6
    <2>2. /\ d.stage = "serving" /\ row.html = d.got[k]
          /\ f.stage = "serving" /\ f.own = {row} /\ f.stale = {} /\ f.got = d.got /\ f.todo = d.todo /\ f.step = "prune"
      BY <1>1, <1>4, <1>6, <2>1
    <2>3. \A r \in f.own : f.own = {r} /\ r.at < nextRev' /\ r.html = f.got[r.key]
      BY <1>1, <1>4, <1>7, <2>2
    <2>4. SoundStep(f)'
      BY <2>2, <2>3 DEF SoundStep
    <2>5. /\ \A x \in Keys : f.got[x] # Gone
          /\ \A x \in f.todo : f.got[x] # Unread
          /\ \A x \in Keys : f.got[x] # Unread => x \in f.todo \/ Safe(x, f.got[x])
      BY <2>2 DEF SoundBackups
    <2>6. \A x \in Keys : f.got[x] # Unread => x \in f.todo \/ Safe(x, f.got[x])'
      BY <1>1, <2>5 DEF Safe
    <2>7. f \in SoundBackups'
      BY <2>2, <2>4, <2>5, <2>6 DEF SoundBackups
    <2>8. QED
      BY <2>1, <2>7
  <1>10. backup' \in [Backups -> SoundBackups'] /\ backup'[b] = g /\ \A c \in Backups \ {b} : backup'[c] = backup[c]
    BY <1>5, <1>8, <1>9 DEF BackupInv
  <1>11. RowsAreNumbered'
    <2>1. Rows' \subseteq Rows \cup {row}
      BY <1>1, <1>6, <1>10 DEF Rows
    <2>2. \A r \in Rows : r.at \in Nat
      <3>1. \A c \in Backups : backup[c].own \subseteq RevisionRows
        BY DEF BackupInv, SoundBackups, BackupRecords
      <3>2. Rows \subseteq RevisionRows
        BY <3>1 DEF Rows, BackupInv, ServerTypeOK
      <3>3. QED
        BY <3>2 DEF RevisionRows
    <2>3. (\A r \in Rows : r.at < nextRev) /\ \A r, q \in Rows : r.at = q.at => r = q
      BY DEF BackupInv, RowsAreNumbered
    <2>4. \A r \in Rows' : r.at < nextRev'
      BY <1>1, <1>4, <1>7, <2>1, <2>2, <2>3
    <2>5. \A r, q \in Rows' : r.at = q.at => r = q
      BY <1>4, <1>7, <2>1, <2>2, <2>3
    <2>6. row \notin Rows
      BY <1>4, <1>7, <2>2, <2>3
    <2>7. OwnIsNew'
      <3>1. \A c \in Backups : backup[c].own \subseteq Rows /\ revisions \subseteq Rows
        BY DEF Rows
      <3>2. OwnIsNew
        BY DEF BackupInv, RowsAreNumbered
      <3>3. QED
        BY <1>1, <1>6, <1>10, <2>6, <3>1, <3>2 DEF OwnIsNew
    <2>8. QED
      BY <1>1, <2>4, <2>5, <2>7 DEF RowsAreNumbered, BackupInv
  <1>12. CapIsKept'
    <2> SUFFICES ASSUME NEW x \in Keys, NEW P \in SUBSET Pending(x)'
                 PROVE  Cardinality(Of(revisions, x) \ StaleOf(P)')
                          <= MaxRevisions - 1 + Cardinality(Backups) - Cardinality(P)
      BY <1>1 DEF CapIsKept
    <2>1. P \in SUBSET Pending(x) /\ StaleOf(P)' = StaleOf(P)
      BY <1>6, <1>10 DEF Pending, StaleOf
    <2>2. QED
      BY <2>1 DEF BackupInv, CapIsKept
  <1>13. AutoIsAlone'
    BY <1>5, <1>6, <1>7, AutoStays DEF e
  <1>14. QED
    BY <1>7, <1>10, <1>11, <1>12, <1>13 DEF BackupInv

\* The rows to prune are picked: what is left of those that are visible is no
\* more than the cap, its own row, if that is left, included.
LEMMA StalePicked ==
  ASSUME BackupInv, NEW b \in Backups, PickStale(b)
  PROVE  BackupInv'
  <1> USE BackupAssumption
  <1> DEFINE e == backup[b]
  <1>1. /\ e.step = "prune" /\ e \in SoundBackups /\ e \in BackupRecords /\ e.stage = "serving" /\ e.own # {}
        /\ UNCHANGED <<clientVars, serverVars, recorded>>
    BY DEF PickStale, BackupInv, SoundBackups, SoundStep
  <1>2. PICK row \in e.own : e.own = {row}
    BY <1>1 DEF SoundBackups, SoundStep
  <1> DEFINE k == row.key
             R == Of(revisions, k) \cup {row}
             stale == Stale(R)
             g == [e EXCEPT !.step = "commit", !.stale = stale]
  <1>3. row \in RevisionRows /\ k \in Keys /\ row.at < nextRev /\ row.html = e.got[k]
    BY <1>1, <1>2 DEF BackupRecords, RevisionRows, SoundBackups, SoundStep
  <1>4. backup' = [backup EXCEPT ![b] = g]
    <2>1. backup' = [backup EXCEPT ![b].step = "commit", ![b].stale = stale]
      BY <1>2 DEF PickStale
    <2>2. QED
      BY <1>1, <2>1 DEF BackupInv, BackupRecords
  <1>5. /\ IsFiniteSet(revisions) /\ revisions \subseteq RevisionRows
        /\ \A r, q \in Rows : r.at = q.at => r = q
        /\ revisions \subseteq Rows /\ row \in Rows
    BY <1>2 DEF BackupInv, ServerTypeOK, RowsAreNumbered, Rows
  <1>6. /\ IsFiniteSet(R) /\ R \in SUBSET RevisionRows /\ (\A r \in R : r.key = k)
        /\ \A r, q \in R : r.at = q.at => r = q
    <2>1. Of(revisions, k) \subseteq revisions /\ \A r \in Of(revisions, k) : r.key = k
      BY DEF Of
    <2>2. IsFiniteSet(R)
      BY <1>5, <2>1, FS_Subset, FS_AddElement
    <2>3. QED
      BY <1>3, <1>5, <2>1, <2>2
  <1>7. /\ stale \subseteq R /\ stale \in SUBSET RevisionRows
        /\ \A r \in stale : r.key = k /\ Cardinality(NewerThan(revisions \cup {row}, r)) >= MaxRevisions
    <2>1. stale \subseteq R
      BY DEF Stale
    <2>2. \A r \in R : NewerThan(R, r) = NewerThan(revisions \cup {row}, r)
      BY <1>6 DEF NewerThan, Of
    <2>3. QED
      BY <1>6, <2>1, <2>2 DEF Stale
  <1>8. IsFiniteSet(R \ stale) /\ Cardinality(R \ stale) \in Nat /\ Cardinality(R \ stale) <= MaxRevisions
    BY <1>3, <1>6, StaleIsDropped
  <1>9. ASSUME row \notin stale
        PROVE  Cardinality(Of(revisions, k) \ stale) <= MaxRevisions - 1
    <2>1. row \notin Of(revisions, k)
      BY <1>1, <1>2 DEF BackupInv, RowsAreNumbered, OwnIsNew, Of
    <2>2. Of(revisions, k) \ stale = (R \ stale) \ {row} /\ row \in R \ stale
      BY <1>9, <2>1
    <2> HIDE DEF stale, R
    <2>3. Cardinality((R \ stale) \ {row}) = Cardinality(R \ stale) - 1
      BY <1>8, <2>2, FS_RemoveElement
    <2>4. QED
      BY <1>8, <2>2, <2>3
  <1>10. IsFiniteSet(Of(revisions, k) \ stale)
    BY <1>5, FS_Subset DEF Of
  <1> HIDE DEF stale, R
  <1>11. /\ g \in BackupRecords /\ g.stage = "serving" /\ g.own = {row} /\ g.stale = stale /\ g.got = e.got /\ g.todo = e.todo
         /\ g.kind = e.kind /\ g.waits = e.waits /\ g.step = "commit"
    BY <1>1, <1>2, <1>7 DEF BackupRecords
  <1> HIDE DEF g
  <1>12. /\ ClientTypeOK' /\ owner' \in Owners \cup {NoOwner} /\ inFlight' = inFlight /\ ServerTypeOK' /\ RecordedIsSafe'
         /\ UNCHANGED <<revisions, nextRev, pushed>>
    <2>1. UNCHANGED <<revisions, nextRev, pushed, owner>> /\ RecordedIsSafe'
      BY <1>1, RecordStays DEF serverVars
    <2>2. QED
      BY <1>1, <2>1 DEF clientVars, ClientTypeOK, ServerTypeOK, BackupInv
  <1>13. SoundBackups' = SoundBackups
    BY <1>12 DEF SoundBackups, SoundStep, Safe
  <1>14. g \in SoundBackups
    <2>1. SoundStep(g)
      BY <1>3, <1>7, <1>11 DEF SoundStep
    <2>2. /\ \A x \in Keys : g.got[x] # Gone
          /\ \A x \in g.todo : g.got[x] # Unread
          /\ \A x \in Keys : g.got[x] # Unread => x \in g.todo \/ Safe(x, g.got[x])
      BY <1>1, <1>11 DEF SoundBackups
    <2> HIDE DEF e
    <2>3. QED
      BY <1>11, <2>1, <2>2 DEF SoundBackups
  <1>15. backup' \in [Backups -> SoundBackups'] /\ backup'[b] = g /\ \A c \in Backups \ {b} : backup'[c] = backup[c]
    BY <1>4, <1>13, <1>14 DEF BackupInv
  <1>16. RowsAreNumbered'
    <2>1. \A c \in Backups : backup'[c].own = backup[c].own
      BY <1>2, <1>11, <1>15
    <2>2. Rows' = Rows
      BY <1>12, <2>1 DEF Rows
    <2>3. QED
      BY <1>12, <2>1, <2>2 DEF RowsAreNumbered, OwnIsNew, BackupInv
  <1>17. CapIsKept'
    <2> SUFFICES ASSUME NEW x \in Keys, NEW P \in SUBSET Pending(x)'
                 PROVE  Cardinality(Of(revisions, x) \ StaleOf(P)')
                          <= MaxRevisions - 1 + Cardinality(Backups) - Cardinality(P)
      BY <1>12 DEF CapIsKept
    <2>1. P \subseteq Backups
      BY DEF Pending
    <2>2. CASE b \notin P
      <3>1. P \in SUBSET Pending(x) /\ StaleOf(P)' = StaleOf(P)
        BY <1>15, <2>1, <2>2 DEF Pending, StaleOf
      <3>2. QED
        BY <3>1 DEF BackupInv, CapIsKept
    <2>3. CASE b \in P
      <3>1. x = k /\ row \notin stale
        BY <1>11, <1>15, <2>3 DEF Pending
      <3>2. stale \subseteq StaleOf(P)'
        BY <1>11, <1>15, <2>3 DEF StaleOf
      <3>3. Of(revisions, x) \ StaleOf(P)' \subseteq Of(revisions, k) \ stale
        BY <3>1, <3>2
      <3>4. Cardinality(Of(revisions, x) \ StaleOf(P)') <= MaxRevisions - 1
            /\ Cardinality(Of(revisions, x) \ StaleOf(P)') \in Nat
        <4>1. /\ IsFiniteSet(Of(revisions, x) \ StaleOf(P)')
              /\ Cardinality(Of(revisions, x) \ StaleOf(P)') <= Cardinality(Of(revisions, k) \ stale)
          BY <1>10, <3>3, FS_Subset
        <4>2. Cardinality(Of(revisions, k) \ stale) \in Nat /\ Cardinality(Of(revisions, x) \ StaleOf(P)') \in Nat
          BY <1>10, <4>1, FS_CardinalityType
        <4>3. QED
          BY <1>9, <3>1, <4>1, <4>2
      <3>5. Cardinality(P) <= Cardinality(Backups) /\ Cardinality(P) \in Nat /\ Cardinality(Backups) \in Nat
        BY <2>1, FS_Subset, FS_CardinalityType
      <3>6. QED
        BY <3>4, <3>5
    <2>4. QED
      BY <2>2, <2>3
  <1>18. AutoIsAlone'
    BY <1>4, <1>11, <1>12, AutoStays DEF e
  <1>19. QED
    BY <1>12, <1>15, <1>16, <1>17, <1>18 DEF BackupInv

\* When a chapter is committed, whatever row any backup is still to prune has as
\* many newer ones as are kept, and no text that was safe is lost.
LEMMA ChapterCommitted ==
  ASSUME BackupInv, NEW b \in Backups, CommitChapter(b)
  PROVE  BackupInv'
  <1> USE BackupAssumption
  <1> DEFINE e == backup[b]
  <1>1. /\ e.step = "commit" /\ e.stage = "serving" /\ e.own # {} /\ e \in SoundBackups /\ e \in BackupRecords
        /\ revisions' = (revisions \cup e.own) \ e.stale /\ pushed' = pushed \cup e.own
        /\ backup' = [backup EXCEPT ![b].step = "next", ![b].own = {}, ![b].stale = {},
                                    ![b].todo = @ \ {row.key : row \in e.own}]
        /\ UNCHANGED <<clientVars, owner, nextRev, recorded>>
    BY DEF CommitChapter, BackupInv, SoundBackups, SoundStep
  <1>2. PICK row \in e.own : e.own = {row} /\ row.html = e.got[row.key] /\ \A q \in e.stale : q.key = row.key
    BY <1>1 DEF SoundBackups, SoundStep
  <1> DEFINE R == revisions \cup {row}
             g == [e EXCEPT !.step = "next", !.own = {}, !.stale = {}, !.todo = e.todo \ {row.key}]
  <1>3. /\ row \in RevisionRows /\ e.stale \subseteq RevisionRows /\ revisions \subseteq RevisionRows
        /\ IsFiniteSet(revisions) /\ IsFiniteSet(R)
        /\ \A r \in e.stale : Cardinality(NewerThan(R, r)) >= MaxRevisions
    <2>1. IsFiniteSet(revisions) /\ IsFiniteSet(R)
      BY FS_AddElement DEF BackupInv, RowsAreNumbered
    <2>2. QED
      BY <1>1, <1>2, <2>1 DEF BackupInv, ServerTypeOK, SoundBackups, SoundStep, BackupRecords
  <1>4. revisions' = R \ e.stale /\ revisions' \subseteq RevisionRows /\ IsFiniteSet(revisions')
    <2>1. revisions' = R \ e.stale /\ revisions' \subseteq RevisionRows
      BY <1>1, <1>2, <1>3
    <2>2. QED
      BY <1>3, <2>1, FS_Subset
  <1>5. \A r \in RevisionRows : IsFiniteSet(NewerThan(revisions', r)) /\ IsFiniteSet(Of(revisions', r.key))
    <2>1. \A r \in RevisionRows : NewerThan(revisions', r) \subseteq revisions' /\ Of(revisions', r.key) \subseteq revisions'
      BY DEF NewerThan, Of
    <2>2. QED
      BY <1>4, <2>1, FS_Subset
  <1>6. ASSUME NEW r \in RevisionRows, NEW q \in e.stale, q.key = r.key, q.at >= r.at
        PROVE  Cardinality(NewerThan(revisions', r)) >= MaxRevisions
    <2>1. PICK s \in e.stale : \A x \in e.stale : x.at <= s.at
      BY <1>3, <1>6, HighestRow
    <2>2. s.key = r.key /\ s.at >= r.at
      <3>1. q.at \in Int /\ s.at \in Int /\ r.at \in Int
        BY <1>3, <1>6, <2>1 DEF RevisionRows
      <3>2. q.at <= s.at
        BY <1>6, <2>1
      <3>3. QED
        BY <1>2, <1>6, <2>1, <3>1, <3>2
    <2>3. NewerThan(R, s) \subseteq NewerThan(revisions', r)
      <3>1. ASSUME NEW x \in NewerThan(R, s)
            PROVE  x \in NewerThan(revisions', r)
        <4>1. x \in R /\ x.key = r.key /\ x.at > s.at /\ x.at \in Int /\ s.at \in Int /\ r.at \in Int
          BY <1>3, <2>1, <2>2, <3>1 DEF NewerThan, Of, RevisionRows
        <4>2. x \notin e.stale
          BY <2>1, <4>1
        <4>3. QED
          BY <1>4, <2>2, <4>1, <4>2 DEF NewerThan, Of
      <3>2. QED
        BY <3>1
    <2>4. Cardinality(NewerThan(R, s)) >= MaxRevisions
      BY <1>3, <2>1
    <2>5. Cardinality(NewerThan(R, s)) <= Cardinality(NewerThan(revisions', r)) /\ IsFiniteSet(NewerThan(R, s))
      BY <1>5, <2>3, FS_Subset
    <2>6. Cardinality(NewerThan(revisions', r)) \in Nat /\ Cardinality(NewerThan(R, s)) \in Nat
      BY <1>5, <2>5, FS_CardinalityType
    <2>7. QED
      BY <2>4, <2>5, <2>6
  <1> HIDE DEF R
  <1>7. ASSUME NEW r \in RevisionRows, r \in R \/ Cardinality(NewerThan(revisions, r)) >= MaxRevisions
        PROVE  r \in revisions' \/ Cardinality(NewerThan(revisions', r)) >= MaxRevisions
    <2>1. CASE \E q \in e.stale : q.key = r.key /\ q.at >= r.at
      BY <1>6, <2>1
    <2>2. CASE ~\E q \in e.stale : q.key = r.key /\ q.at >= r.at
      <3>1. r \notin e.stale
        BY <2>2, <1>7 DEF RevisionRows
      <3>2. CASE r \in R
        BY <1>4, <3>1, <3>2
      <3>3. CASE Cardinality(NewerThan(revisions, r)) >= MaxRevisions
        <4>1. NewerThan(revisions, r) \subseteq NewerThan(revisions', r)
          <5>1. ASSUME NEW x \in NewerThan(revisions, r)
                PROVE  x \in NewerThan(revisions', r)
            <6>1. x \in revisions /\ x.key = r.key /\ x.at > r.at /\ x.at \in Int /\ r.at \in Int
              BY <1>3, <1>7, <5>1 DEF NewerThan, Of, RevisionRows
            <6>2. x \in revisions'
              BY <1>4, <2>2, <6>1 DEF R
            <6>3. QED
              BY <6>1, <6>2 DEF NewerThan, Of
          <5>2. QED
            BY <5>1
        <4>2. IsFiniteSet(NewerThan(revisions', r))
          BY <1>5
        <4>3. IsFiniteSet(NewerThan(revisions, r)) /\ Cardinality(NewerThan(revisions, r)) <= Cardinality(NewerThan(revisions', r))
          BY <4>1, <4>2, FS_Subset
        <4>4. Cardinality(NewerThan(revisions, r)) \in Nat /\ Cardinality(NewerThan(revisions', r)) \in Nat
          BY <4>2, <4>3, FS_CardinalityType
        <4>5. QED
          BY <3>3, <4>3, <4>4
      <3>4. QED
        BY <1>7, <3>2, <3>3
    <2>3. QED
      BY <2>1, <2>2
  <1>7a. /\ \A k \in Keys : \A v : Safe(k, v) => Safe(k, v)'
         /\ Safe(row.key, row.html)'
    <2>1. pushed \subseteq RevisionRows /\ revisions \subseteq R /\ row \in R /\ row \in pushed' /\ pushed \subseteq pushed'
      BY <1>1, <1>2 DEF BackupInv, ServerTypeOK, R
    <2>2. ASSUME NEW k \in Keys, NEW v, Safe(k, v)
          PROVE  Safe(k, v)'
      <3>1. PICK r \in Of(pushed, k) : r.html = v /\ (r \in revisions \/ Cardinality(NewerThan(revisions, r)) >= MaxRevisions)
        BY <2>2 DEF Safe
      <3>2. r \in RevisionRows /\ r \in Of(pushed', k)
        BY <2>1, <3>1 DEF Of
      <3>3. r \in revisions' \/ Cardinality(NewerThan(revisions', r)) >= MaxRevisions
        BY <1>7, <2>1, <3>1, <3>2
      <3>4. QED
        BY <3>1, <3>2, <3>3 DEF Safe
    <2>3. Safe(row.key, row.html)'
      <3>1. row \in Of(pushed', row.key)
        BY <2>1 DEF Of
      <3>2. row \in revisions' \/ Cardinality(NewerThan(revisions', row)) >= MaxRevisions
        BY <1>3, <1>7, <2>1
      <3>3. QED
        BY <3>1, <3>2 DEF Safe
    <2>4. QED
      BY <2>2, <2>3
  <1>8. ASSUME NEW f \in SoundBackups
        PROVE  f \in SoundBackups'
    <2>1. ASSUME NEW r \in f.stale
          PROVE  Cardinality(NewerThan(revisions' \cup f.own, r)) >= MaxRevisions
      <3>1. r \in RevisionRows /\ Cardinality(NewerThan(revisions \cup f.own, r)) >= MaxRevisions
        BY <1>8, <2>1 DEF SoundBackups, SoundStep, BackupRecords
      <3>2. f.own = {} \/ \E x \in f.own : f.own = {x}
        BY <1>8 DEF SoundBackups, SoundStep
      <3>3. IsFiniteSet(revisions' \cup f.own) /\ IsFiniteSet(revisions \cup f.own)
        <4>1. CASE f.own = {}
          <5>1. revisions' \cup f.own = revisions' /\ revisions \cup f.own = revisions
            BY <4>1
          <5>2. QED
            BY <1>3, <1>4, <5>1
        <4>2. ASSUME NEW x \in f.own, f.own = {x}
              PROVE  IsFiniteSet(revisions' \cup f.own) /\ IsFiniteSet(revisions \cup f.own)
          <5>1. IsFiniteSet(revisions' \cup {x}) /\ IsFiniteSet(revisions \cup {x})
            BY <1>3, <1>4, FS_AddElement
          <5>2. QED
            BY <4>2, <5>1
        <4>3. QED
          BY <3>2, <4>1, <4>2
      <3>4. /\ NewerThan(revisions' \cup f.own, r) \subseteq revisions' \cup f.own
            /\ NewerThan(revisions \cup f.own, r) \subseteq revisions \cup f.own
            /\ NewerThan(revisions', r) \subseteq NewerThan(revisions' \cup f.own, r)
        BY DEF NewerThan, Of
      <3>5. IsFiniteSet(NewerThan(revisions' \cup f.own, r)) /\ IsFiniteSet(NewerThan(revisions \cup f.own, r))
        BY <3>3, <3>4, FS_Subset
      <3>6. /\ Cardinality(NewerThan(revisions' \cup f.own, r)) \in Nat
            /\ Cardinality(NewerThan(revisions \cup f.own, r)) \in Nat
            /\ Cardinality(NewerThan(revisions', r)) \in Nat
            /\ Cardinality(NewerThan(revisions', r)) <= Cardinality(NewerThan(revisions' \cup f.own, r))
        BY <1>5, <3>1, <3>4, <3>5, FS_Subset, FS_CardinalityType
      <3>7. CASE \E q \in e.stale : q.key = r.key /\ q.at >= r.at
        <4>1. Cardinality(NewerThan(revisions', r)) >= MaxRevisions
          BY <1>6, <3>1, <3>7
        <4>2. QED
          BY <3>6, <4>1
      <3>8. CASE ~\E q \in e.stale : q.key = r.key /\ q.at >= r.at
        <4>1. NewerThan(revisions \cup f.own, r) \subseteq NewerThan(revisions' \cup f.own, r)
          <5>1. ASSUME NEW x \in NewerThan(revisions \cup f.own, r)
                PROVE  x \in NewerThan(revisions' \cup f.own, r)
            <6>1. x \in revisions \cup f.own /\ x.key = r.key /\ x.at > r.at
              BY <5>1 DEF NewerThan, Of
            <6>2. f.own \subseteq RevisionRows
              BY <1>8 DEF SoundBackups, BackupRecords
            <6>3. x \in RevisionRows
              BY <1>3, <6>1, <6>2
            <6>4. x.at \in Int /\ r.at \in Int
              BY <3>1, <6>3 DEF RevisionRows
            <6>5. x \notin e.stale
              BY <3>8, <6>1, <6>4
            <6>6. x \in revisions' \cup f.own
              BY <1>4, <6>1, <6>5 DEF R
            <6>7. QED
              BY <6>1, <6>6 DEF NewerThan, Of
          <5>2. QED
            BY <5>1
        <4>2. Cardinality(NewerThan(revisions \cup f.own, r)) <= Cardinality(NewerThan(revisions' \cup f.own, r))
          BY <3>5, <4>1, FS_Subset
        <4>3. QED
          BY <3>1, <3>6, <4>2
      <3>9. QED
        BY <3>7, <3>8
    <2>2. nextRev' = nextRev
      BY <1>1
    <2>3. f.stage \in {"serving", "served"} => \A k \in Keys : f.got[k] # Unread => k \in f.todo \/ Safe(k, f.got[k])'
      BY <1>7a, <1>8 DEF SoundBackups
    <2>4. SoundStep(f)'
      BY <1>8, <2>1, <2>2 DEF SoundBackups, SoundStep
    <2>5. QED
      BY <1>8, <2>3, <2>4 DEF SoundBackups
  <1>9. /\ g \in BackupRecords /\ g.own = {} /\ g.stale = {} /\ g.step = "next" /\ g.stage = e.stage /\ g.got = e.got
        /\ g.todo = e.todo \ {row.key} /\ g.kind = e.kind /\ g.waits = e.waits
    BY <1>1 DEF BackupRecords
  <1>10. backup' = [backup EXCEPT ![b] = g]
    <2>1. {r.key : r \in e.own} = {row.key}
      BY <1>2
    <2>2. backup' = [backup EXCEPT ![b].step = "next", ![b].own = {}, ![b].stale = {}, ![b].todo = @ \ {row.key}]
      BY <1>1, <2>1
    <2>3. QED
      BY <1>1, <2>2 DEF BackupInv, BackupRecords
  <1> HIDE DEF g, e
  <1>11. g \in SoundBackups'
    <2>1. PICK d \in SoundBackups, f \in BackupRecords : d = e /\ f = g
      BY <1>1, <1>9
    <2>2. /\ d \in SoundBackups' /\ d.stage = "serving" /\ row.html = d.got[row.key]
          /\ f.own = {} /\ f.stale = {} /\ f.step = "next" /\ f.stage = "serving" /\ f.got = d.got /\ f.todo = d.todo \ {row.key}
      BY <1>1, <1>2, <1>8, <1>9, <2>1
    <2>3. ASSUME NEW k \in Keys, f.got[k] # Unread
          PROVE  k \in f.todo \/ Safe(k, f.got[k])'
      <3>1. CASE k = row.key
        BY <1>7a, <2>2, <3>1
      <3>2. CASE k # row.key
        BY <2>2, <2>3, <3>2 DEF SoundBackups
      <3>3. QED
        BY <3>1, <3>2
    <2>4. (\A k \in Keys : f.got[k] # Gone) /\ \A k \in f.todo : f.got[k] # Unread
      BY <2>2 DEF SoundBackups
    <2>5. SoundStep(f)'
      BY <2>2 DEF SoundStep
    <2>6. f \in SoundBackups'
      BY <2>2, <2>3, <2>4, <2>5 DEF SoundBackups
    <2>7. QED
      BY <2>1, <2>6
  <1>12. backup' \in [Backups -> SoundBackups'] /\ backup'[b] = g /\ \A c \in Backups \ {b} : backup'[c] = backup[c]
    BY <1>8, <1>10, <1>11 DEF BackupInv
  <1>13. RowsAreNumbered'
    <2>0. /\ \A c \in Backups : backup'[c].own \subseteq backup[c].own
          /\ revisions' \subseteq revisions \cup backup[b].own
      BY <1>1, <1>9, <1>12 DEF e
    <2>1. Rows' \subseteq Rows /\ nextRev' = nextRev
      <3>1. ASSUME NEW r \in Rows'
            PROVE  r \in Rows
        <4>1. r \in revisions' \/ \E c \in Backups : r \in backup'[c].own
          BY <3>1 DEF Rows
        <4>2. r \in revisions \/ \E c \in Backups : r \in backup[c].own
          BY <2>0, <4>1
        <4>3. QED
          BY <4>2 DEF Rows
      <3>2. QED
        BY <1>1, <3>1
    <2>2. revisions' \subseteq pushed'
      BY <1>1 DEF BackupInv, RowsAreNumbered
    <2>3. OwnIsNew'
      <3>1. \A c \in Backups : backup'[c].own = IF c = b THEN {} ELSE backup[c].own
        BY <1>9, <1>12
      <3>2. OwnIsNew
        BY DEF BackupInv, RowsAreNumbered
      <3>3. revisions' \subseteq revisions \cup backup[b].own
        BY <1>1 DEF e
      <3>4. QED
        BY <3>1, <3>2, <3>3 DEF OwnIsNew
    <2>4. QED
      BY <1>4, <2>1, <2>2, <2>3 DEF RowsAreNumbered, BackupInv
  <1>14. CapIsKept'
    <2> SUFFICES ASSUME NEW k \in Keys, NEW P \in SUBSET Pending(k)'
                 PROVE  Cardinality(Of(revisions', k) \ StaleOf(P)')
                          <= MaxRevisions - 1 + Cardinality(Backups) - Cardinality(P)
      BY DEF CapIsKept
    <2>1. /\ P \in SUBSET Pending(k) /\ b \notin P /\ P \subseteq Backups /\ StaleOf(P)' = StaleOf(P)
      BY <1>9, <1>12 DEF Pending, StaleOf
    <2> DEFINE old == Of(revisions, k) \ StaleOf(P)
               new == Of(revisions', k) \ StaleOf(P)'
    <2>2. IsFiniteSet(old) /\ Cardinality(old) \in Nat
      <3>1. old \subseteq revisions
        BY DEF Of
      <3>2. IsFiniteSet(old)
        BY <1>3, <3>1, FS_Subset
      <3>3. QED
        BY <3>2, FS_CardinalityType
    <2>3. IsFiniteSet(P) /\ Cardinality(P) \in Nat /\ Cardinality(Backups) \in Nat
      BY <2>1, FS_Subset, FS_CardinalityType
    <2>4. CASE row.key # k \/ row \in e.stale
      <3>1. new \subseteq old
        BY <1>4, <2>1, <2>4 DEF Of, R
      <3>2. Cardinality(new) <= Cardinality(old) /\ Cardinality(new) \in Nat
        BY <2>2, <3>1, FS_Subset, FS_CardinalityType
      <3>3. Cardinality(old) <= MaxRevisions - 1 + Cardinality(Backups) - Cardinality(P)
        BY <2>1 DEF BackupInv, CapIsKept
      <3>4. QED
        BY <2>2, <2>3, <3>2, <3>3
    <2>5. CASE row.key = k /\ row \notin e.stale
      <3> DEFINE Q == P \cup {b}
                 others == Of(revisions, k) \ StaleOf(Q)
      <3>1. Q \in SUBSET Pending(k)
        BY <1>1, <1>2, <2>1, <2>5 DEF Pending, e
      <3>2. Cardinality(Q) = Cardinality(P) + 1
        BY <2>1, <2>3, FS_AddElement
      <3>3. Cardinality(others) <= MaxRevisions - 1 + Cardinality(Backups) - Cardinality(Q)
        BY <3>1 DEF BackupInv, CapIsKept
      <3>4. StaleOf(Q) = StaleOf(P) \cup e.stale
        BY DEF StaleOf, e
      <3>5. new \subseteq others \cup {row}
        BY <1>4, <2>1, <3>4 DEF Of, R
      <3>6. IsFiniteSet(others)
        <4>1. others \subseteq revisions
          BY DEF Of
        <4>2. QED
          BY <1>3, <4>1, FS_Subset
      <3> HIDE DEF others, new, Q
      <3>7. Cardinality(new) <= Cardinality(others) + 1 /\ Cardinality(new) \in Nat /\ Cardinality(others) \in Nat
        <4>1. IsFiniteSet(others \cup {row}) /\ Cardinality(others \cup {row}) <= Cardinality(others) + 1
              /\ Cardinality(others) \in Nat /\ Cardinality(others \cup {row}) \in Nat
          <5>1. /\ IsFiniteSet(others \cup {row})
                /\ Cardinality(others \cup {row}) = IF row \in others THEN Cardinality(others) ELSE Cardinality(others) + 1
            BY <3>6, FS_AddElement
          <5>2. Cardinality(others) \in Nat
            BY <3>6, FS_CardinalityType
          <5>3. QED
            BY <5>1, <5>2
        <4>2. IsFiniteSet(new) /\ Cardinality(new) <= Cardinality(others \cup {row})
          BY <3>5, <4>1, FS_Subset
        <4>3. Cardinality(new) \in Nat
          BY <4>2, FS_CardinalityType
        <4>4. QED
          BY <4>1, <4>2, <4>3
      <3>8. Cardinality(new) <= MaxRevisions - 1 + Cardinality(Backups) - Cardinality(P)
        BY <2>3, <3>2, <3>3, <3>7
      <3>9. QED
        BY <3>8 DEF new
    <2>6. QED
      BY <2>4, <2>5
  <1>15. RecordedIsSafe'
    BY <1>1, <1>7a DEF BackupInv, RecordedIsSafe
  <1>16. ClientTypeOK' /\ ServerTypeOK' /\ inFlight' = inFlight
    <2>1. pushed' \subseteq RevisionRows
      BY <1>1, <1>2, <1>3 DEF BackupInv, ServerTypeOK
    <2>2. QED
      BY <1>1, <1>4, <2>1 DEF clientVars, ClientTypeOK, ServerTypeOK, BackupInv
  <1>17. AutoIsAlone'
    BY <1>9, <1>10, <1>16, AutoStays DEF e
  <1>18. QED
    BY <1>12, <1>13, <1>14, <1>15, <1>16, <1>17 DEF BackupInv

LEMMA BackupInvNext == BackupInv /\ [BackupNext]_backupVars => BackupInv'
  <1> SUFFICES ASSUME BackupInv, [BackupNext]_backupVars
               PROVE  BackupInv'
    OBVIOUS
  <1> USE BackupAssumption
  <1>1. ASSUME NEW k \in Keys, NEW b \in Backups, SaveAndDecide(k, b)
        PROVE  BackupInv'
    <2>1. /\ ClientTypeOK' /\ owner' \in Owners \cup {NoOwner}
          /\ UNCHANGED <<revisions, nextRev, pushed, recorded, inFlight>>
      <3>1. html[k] # Gone /\ saves + 1 \in 0..MaxSave /\ saves' = saves + 1 /\ html' = [html EXCEPT ![k] = saves + 1]
            /\ UNCHANGED <<token, lastBackup, inFlight, serverVars, recorded>>
        BY <1>1 DEF SaveAndDecide, BackupInv, ClientTypeOK
      <3>2. saves + 1 \in Versions
        BY <3>1 DEF Versions, Gone
      <3>3. QED
        BY <3>1, <3>2 DEF BackupInv, ClientTypeOK, ServerTypeOK, serverVars
    <2>2. CASE UNCHANGED backup
      BY <2>1, <2>2, NothingMoves
    <2>3. CASE ~UNCHANGED backup
      <3> DEFINE g == [IdleBackup EXCEPT !.stage = "decided", !.by = token, !.kind = "auto"]
      <3>1. backup[b] = IdleBackup /\ backup' = [backup EXCEPT ![b] = g]
        BY <1>1, <2>3 DEF SaveAndDecide
      <3>2. IdleBackup \in BackupRecords /\ token \in Owners \cup {NoOwner}
        BY IdleBackupIsSound DEF SoundBackups, BackupInv, ClientTypeOK
      <3>3. /\ g \in BackupRecords /\ g.stage = "decided" /\ ~g.waits /\ g.own = {} /\ g.stale = {} /\ g.todo = {}
            /\ g.got = NothingRead /\ g.step = "next"
        BY <3>2, IdleBackupIsSound DEF BackupRecords, BackupStages
      <3> HIDE DEF g
      <3>4. g \in SoundBackups
        BY <3>3, IdleBackupIsSound DEF SoundBackups, SoundStep
      <3>5. AutoIsAlone'
        BY <2>1, <3>1, <3>3, IdleBackupIsSound, AutoStays
      <3>6. QED
        BY <2>1, <3>1, <3>3, <3>4, <3>5, RecordStays, BackupMoves
    <2>4. QED
      BY <2>2, <2>3
  <1>2. ASSUME NEW b \in Backups, NEW kind \in {"auto", "manual"}, NEW by \in Owners \cup {NoOwner},
               StartChapters(b, kind, by), ~backup[b].waits,
               kind = "auto" => ~inFlight /\ inFlight', kind = "manual" => inFlight' = inFlight,
               UNCHANGED <<html, saves, token, lastBackup, serverVars, recorded>>
        PROVE  BackupInv'
    <2> DEFINE list == {k \in Keys : html[k] # Gone}
               g == [IdleBackup EXCEPT !.stage = "reading", !.kind = kind, !.by = by, !.waits = TRUE, !.listed = list]
    <2>1. backup' = [backup EXCEPT ![b] = g]
      BY <1>2 DEF StartChapters
    <2>2. /\ g \in BackupRecords /\ g.stage = "reading" /\ g.waits /\ g.own = {} /\ g.stale = {} /\ g.todo = {}
          /\ g.got = NothingRead /\ g.kind = kind /\ g.step = "next"
      <3>1. IdleBackup \in BackupRecords /\ list \in SUBSET Keys
        BY IdleBackupIsSound DEF SoundBackups
      <3> HIDE DEF list
      <3>2. QED
        BY <3>1, IdleBackupIsSound DEF BackupRecords, BackupStages
    <2> HIDE DEF g
    <2>3. g \in SoundBackups
      BY <2>2, IdleBackupIsSound DEF SoundBackups, SoundStep
    <2>4. \A c \in Backups : /\ c # b => backup'[c] = backup[c]
                             /\ c = b => backup'[c] = g
      BY <2>1 DEF BackupInv
    <2>5. AutoIsAlone'
      <3>1. CASE kind = "manual"
        BY <1>2, <2>1, <2>2, <3>1, AutoStays
      <3>2. CASE kind = "auto"
        <4>1. AutoBackups = {}
          BY <1>2, <3>2 DEF BackupInv, AutoIsAlone
        <4>2. AutoBackups' = {b}
          BY <2>2, <2>4, <3>2, <4>1 DEF AutoBackups
        <4>3. QED
          BY <1>2, <3>2, <4>2 DEF AutoIsAlone
      <3>3. QED
        BY <3>1, <3>2
    <2>6. ClientTypeOK' /\ owner' \in Owners \cup {NoOwner} /\ UNCHANGED <<revisions, nextRev, pushed, recorded>>
      BY <1>2 DEF BackupInv, ClientTypeOK, ServerTypeOK, serverVars
    <2>7. QED
      BY <2>1, <2>2, <2>3, <2>5, <2>6, RecordStays, BackupMoves
  <1>3. ASSUME NEW b \in Backups, BackupNow(b)
        PROVE  BackupInv'
    <2>1. StartChapters(b, "manual", token) /\ ~backup[b].waits /\ UNCHANGED <<clientVars, serverVars, recorded>>
          /\ token \in Owners \cup {NoOwner}
      BY <1>3, IdleBackupIsSound DEF BackupNow, BackupInv, ClientTypeOK
    <2>2. QED
      BY <1>2, <2>1 DEF clientVars
  <1>4. ASSUME NEW b \in Backups, ClaimAutoBackup(b)
        PROVE  BackupInv'
    <2>1. /\ ~backup[b].waits /\ backup[b].by \in Owners \cup {NoOwner} /\ inFlight' = TRUE
          /\ UNCHANGED <<html, saves, token, lastBackup, serverVars, recorded>>
      BY <1>4 DEF ClaimAutoBackup, BackupInv, SoundBackups, BackupRecords
    <2>2. CASE ~inFlight
      BY <1>2, <1>4, <2>1, <2>2 DEF ClaimAutoBackup
    <2>3. CASE inFlight
      <3>1. backup' = [backup EXCEPT ![b] = IdleBackup] /\ inFlight' = inFlight
        BY <1>4, <2>1, <2>3 DEF ClaimAutoBackup, BackupInv, ClientTypeOK
      <3>2. ClientTypeOK' /\ owner' \in Owners \cup {NoOwner} /\ UNCHANGED <<revisions, nextRev, pushed, recorded>>
        BY <2>1, <3>1 DEF BackupInv, ClientTypeOK, ServerTypeOK, serverVars
      <3>3. AutoIsAlone'
        BY <2>1, <3>1, IdleBackupIsSound, AutoStays
      <3>4. QED
        BY <3>1, <3>2, <3>3, IdleBackupIsSound, RecordStays, BackupMoves
    <2>4. QED
      BY <2>1, <2>2, <2>3 DEF BackupInv, ClientTypeOK
  <1>5. ASSUME NEW b \in Backups, NEW k \in Keys, LoadChapter(b, k)
        PROVE  BackupInv'
    <2>1. backup[b].stage = "reading" /\ backup[b].waits /\ UNCHANGED <<html, saves, token, lastBackup, serverVars, recorded>>
          /\ backup[b] \in SoundBackups /\ backup[b] \in BackupRecords
      BY <1>5 DEF LoadChapter, BackupInv, SoundBackups
    <2>2. CASE html[k] = Gone
      <3>1. Leave(b) /\ RecordedIsSafe' /\ lastBackup' \in {"never", "recent", "old"}
        BY <1>5, <2>1, <2>2, RecordStays DEF LoadChapter, serverVars, BackupInv, ClientTypeOK
      <3>2. QED
        BY <2>1, <3>1, CallLeft
    <2>3. CASE html[k] # Gone
      <3> DEFINE e == backup[b]
                 g == [e EXCEPT !.got = [e.got EXCEPT ![k] = html[k]], !.listed = e.listed \ {k}]
      <3>1. backup' = [backup EXCEPT ![b].got[k] = html[k], ![b].listed = @ \ {k}] /\ inFlight' = inFlight
        BY <1>5, <2>3 DEF LoadChapter
      <3>2. backup' = [backup EXCEPT ![b] = g]
        BY <2>1, <3>1 DEF BackupInv, BackupRecords
      <3>3. html[k] \in Unread..MaxSave /\ html[k] # Unread
        BY DEF BackupInv, ClientTypeOK, Versions, Gone, Unread
      <3>4. e.got \in [Keys -> Unread..MaxSave]
        BY <2>1 DEF BackupRecords
      <3>5. /\ g.got \in [Keys -> Unread..MaxSave] /\ g.got[k] = html[k] /\ \A x \in Keys \ {k} : g.got[x] = e.got[x]
            /\ g.stage = "reading" /\ g.waits /\ g.own = e.own /\ g.stale = e.stale /\ g.todo = e.todo /\ g.kind = e.kind
            /\ g.step = e.step
        BY <2>1, <3>3, <3>4 DEF BackupRecords
      <3>6. g \in BackupRecords
        BY <2>1, <3>5 DEF BackupRecords
      <3> HIDE DEF g, e
      <3>7. (\A x \in Keys : g.got[x] # Gone) /\ \A x \in g.todo : g.got[x] # Unread
        <4>1. e \in SoundBackups /\ e.todo \subseteq Keys
          BY <2>1 DEF e, BackupRecords
        <4>2. (\A x \in Keys : e.got[x] # Gone) /\ \A x \in e.todo : e.got[x] # Unread
          BY <4>1 DEF SoundBackups
        <4>3. QED
          BY <2>3, <3>3, <3>5, <4>1, <4>2
      <3>8. g \in SoundBackups
        <4>1. e \in SoundBackups
          BY <2>1 DEF e
        <4>2. e.step = "next" /\ e.own = {} /\ e.stale = {}
          BY <2>1 DEF SoundBackups, SoundStep, e
        <4>3. SoundStep(g)
          BY <3>5, <4>2 DEF SoundStep
        <4>4. QED
          BY <3>5, <3>6, <3>7, <4>3 DEF SoundBackups
      <3>9. ClientTypeOK' /\ owner' \in Owners \cup {NoOwner} /\ UNCHANGED <<revisions, nextRev, pushed, recorded>>
        BY <2>1, <3>1 DEF BackupInv, ClientTypeOK, ServerTypeOK, serverVars
      <3>10. AutoIsAlone'
        <4>1. (g.kind = "auto" /\ g.waits) <=> (backup[b].kind = "auto" /\ backup[b].waits)
          BY <2>1, <3>5 DEF e
        <4>2. QED
          BY <3>1, <3>2, <4>1, AutoStays
      <3>11. g.own = backup[b].own /\ g.stale = backup[b].stale /\ g.step = backup[b].step
        BY <3>5 DEF e
      <3>12. QED
        BY <3>2, <3>8, <3>9, <3>10, <3>11, RecordStays, BackupMoves
    <2>4. QED
      BY <2>2, <2>3
  <1>6. ASSUME NEW b \in Backups, NEW g \in SoundBackups, backup' = [backup EXCEPT ![b] = g],
               g.kind = backup[b].kind, g.waits = backup[b].waits,
               g.own = {} \/ (g.own = backup[b].own /\ g.stale = backup[b].stale /\ g.step = backup[b].step),
               UNCHANGED <<clientVars, revisions, nextRev, pushed, recorded>>, owner' \in Owners \cup {NoOwner}
        PROVE  BackupInv'
    <2>1. ClientTypeOK' /\ inFlight' = inFlight /\ UNCHANGED <<revisions, nextRev, pushed, recorded>>
      BY <1>6 DEF BackupInv, ClientTypeOK, clientVars
    <2>2. AutoIsAlone'
      BY <1>6, <2>1, AutoStays
    <2>3. QED
      BY <1>6, <2>1, <2>2, RecordStays, BackupMoves
  <1>7. ASSUME NEW b \in Backups, backup' = [backup EXCEPT ![b] = IdleBackup], ~backup[b].waits,
               UNCHANGED <<clientVars, serverVars, recorded>>
        PROVE  BackupInv'
    <2>1. ClientTypeOK' /\ inFlight' = inFlight /\ UNCHANGED <<revisions, nextRev, pushed, recorded>> /\ owner' \in Owners \cup {NoOwner}
      BY <1>7 DEF BackupInv, ClientTypeOK, ServerTypeOK, clientVars, serverVars
    <2>2. AutoIsAlone'
      BY <1>7, <2>1, IdleBackupIsSound, AutoStays
    <2>3. QED
      BY <1>7, <2>1, <2>2, IdleBackupIsSound, RecordStays, BackupMoves
  <1>8. ASSUME NEW b \in Backups, Send(b)
        PROVE  BackupInv'
    <2> DEFINE e == backup[b]
               g == [e EXCEPT !.stage = "sent"]
    <2>1. /\ e.stage = "reading" /\ e \in SoundBackups /\ e \in BackupRecords /\ backup' = [backup EXCEPT ![b].stage = "sent"]
          /\ UNCHANGED <<clientVars, serverVars, recorded>>
      BY <1>8 DEF Send, BackupInv, SoundBackups
    <2>2. backup' = [backup EXCEPT ![b] = g]
      BY <2>1 DEF BackupInv, BackupRecords
    <2>3. /\ g \in BackupRecords /\ g.stage = "sent" /\ g.waits = e.waits /\ g.kind = e.kind /\ g.got = e.got
          /\ g.todo = e.todo /\ g.own = {} /\ g.stale = {} /\ g.step = "next"
      BY <2>1 DEF BackupRecords, BackupStages, SoundBackups, SoundStep
    <2> HIDE DEF g, e
    <2>4. g \in SoundBackups
      BY <2>1, <2>3 DEF SoundBackups, SoundStep
    <2>5. owner' \in Owners \cup {NoOwner} /\ UNCHANGED <<revisions, nextRev, pushed>>
      BY <2>1 DEF serverVars, BackupInv, ServerTypeOK
    <2>6. QED
      BY <1>6, <2>1, <2>2, <2>3, <2>4, <2>5 DEF e
  <1>9. ASSUME NEW b \in Backups, NEW stage \in {"serving", "failed"}, backup[b].stage = "sent", ServerStep(b, stage),
               UNCHANGED <<clientVars, revisions, nextRev, pushed, recorded>>, owner' \in Owners \cup {NoOwner}
        PROVE  BackupInv'
    <2> DEFINE e == backup[b]
               read == {k \in Keys : e.got[k] # Unread}
               g == [e EXCEPT !.stage = stage, !.todo = read]
    <2>1. e.waits /\ e \in SoundBackups /\ e \in BackupRecords /\ backup' = [backup EXCEPT ![b].stage = stage, ![b].todo = read]
      BY <1>9 DEF ServerStep, BackupInv, SoundBackups
    <2>2. backup' = [backup EXCEPT ![b] = g]
      BY <2>1 DEF BackupInv, BackupRecords
    <2>3. read \in SUBSET Keys /\ \A k \in Keys : k \in read <=> e.got[k] # Unread
      OBVIOUS
    <2> HIDE DEF read
    <2>4. /\ g \in BackupRecords /\ g.stage = stage /\ g.waits = e.waits /\ g.kind = e.kind /\ g.got = e.got
          /\ g.todo = read /\ g.own = {} /\ g.stale = {} /\ g.step = "next"
      BY <1>9, <2>1, <2>3 DEF BackupRecords, BackupStages, SoundBackups, SoundStep
    <2> HIDE DEF g, e
    <2>5. g \in SoundBackups
      BY <2>1, <2>3, <2>4 DEF SoundBackups, SoundStep
    <2>6. QED
      BY <1>6, <1>9, <2>2, <2>4, <2>5 DEF e
  <1>10. ASSUME NEW b \in Backups, AcceptPush(b) \/ RefusePush(b)
         PROVE  BackupInv'
    <2>1. CASE AcceptPush(b)
      <3>1. backup[b].by \in Owners \cup {NoOwner}
        BY DEF BackupInv, SoundBackups, BackupRecords
      <3>2. QED
        BY <1>9, <2>1, <3>1 DEF AcceptPush
    <2>2. CASE RefusePush(b)
      <3>1. owner' \in Owners \cup {NoOwner} /\ UNCHANGED <<revisions, nextRev, pushed>>
        BY <2>2 DEF RefusePush, serverVars, BackupInv, ServerTypeOK
      <3>2. QED
        BY <1>9, <2>2, <3>1 DEF RefusePush
    <2>3. QED
      BY <1>10, <2>1, <2>2
  <1>11. ASSUME NEW b \in Backups, NEW stage \in {"served", "failed"}, Answered(b, stage), backup[b].stage = "serving",
                UNCHANGED <<clientVars, serverVars, recorded>>, stage = "served" => backup[b].todo = {}
         PROVE  BackupInv'
    <2> DEFINE e == backup[b]
               g == [e EXCEPT !.stage = stage, !.todo = {}, !.step = "next", !.storing = {}, !.own = {}, !.stale = {}]
    <2>1. /\ e.stage = "serving" /\ e \in SoundBackups /\ e \in BackupRecords
          /\ backup' = [backup EXCEPT ![b] = IF e.waits THEN g ELSE IdleBackup]
      BY <1>11 DEF Answered, BackupInv, SoundBackups
    <2>2. CASE ~e.waits
      BY <1>7, <1>11, <2>1, <2>2
    <2>3. CASE e.waits
      <3>1. /\ g \in BackupRecords /\ g.stage = stage /\ g.waits = e.waits /\ g.kind = e.kind /\ g.got = e.got
            /\ g.todo = {} /\ g.own = {} /\ g.stale = {} /\ g.step = "next"
        BY <2>1 DEF BackupRecords, BackupStages
      <3>2. backup' = [backup EXCEPT ![b] = g] /\ (stage = "served" => e.todo = {})
        BY <1>11, <2>1, <2>3
      <3> HIDE DEF g, e
      <3>3. g \in SoundBackups
        <4>1. SoundStep(g)
          BY <3>1 DEF SoundStep
        <4>2. \A k \in Keys : g.got[k] # Gone /\ (g.stage = "served" => (g.got[k] # Unread => Safe(k, g.got[k])))
          BY <2>1, <3>1, <3>2 DEF SoundBackups
        <4>3. QED
          BY <2>3, <3>1, <4>1, <4>2 DEF SoundBackups
      <3>4. owner' \in Owners \cup {NoOwner} /\ UNCHANGED <<revisions, nextRev, pushed>>
        BY <1>11 DEF serverVars, BackupInv, ServerTypeOK
      <3>5. QED
        BY <1>6, <1>11, <2>1, <3>1, <3>2, <3>3, <3>4 DEF e
    <2>4. QED
      BY <2>2, <2>3
  <1>12. ASSUME NEW b \in Backups, AnswerPush(b) \/ ServerFails(b)
         PROVE  BackupInv'
    BY <1>11, <1>12 DEF AnswerPush, ServerFails
  <1>12a. ASSUME NEW b \in Backups, NEW k \in Keys, BeginStore(b, k)
          PROVE  BackupInv'
    <2> DEFINE e == backup[b]
    <2>1. /\ e.stage = "serving" /\ e.step = "next" /\ k \in e.todo /\ e \in SoundBackups /\ e \in BackupRecords
          /\ e.own = {} /\ e.stale = {} /\ UNCHANGED <<clientVars, serverVars, recorded>>
      BY <1>12a DEF BeginStore, BackupInv, SoundBackups, SoundStep
    <2>2. owner' \in Owners \cup {NoOwner} /\ UNCHANGED <<revisions, nextRev, pushed>>
      BY <2>1 DEF serverVars, BackupInv, ServerTypeOK
    <2>3. CASE \E r \in Latest(revisions, k) : r.html = e.got[k]
      <3> DEFINE g == [e EXCEPT !.todo = e.todo \ {k}]
      <3>1. backup' = [backup EXCEPT ![b] = g]
        BY <1>12a, <2>1, <2>3 DEF BeginStore, BackupInv, BackupRecords
      <3>2. Safe(k, e.got[k])
        <4>1. revisions \subseteq pushed
          BY DEF BackupInv, RowsAreNumbered
        <4>2. QED
          BY <2>3, <4>1 DEF Latest, Of, Safe
      <3>3. /\ g \in BackupRecords /\ g.stage = "serving" /\ g.own = {} /\ g.stale = {} /\ g.got = e.got /\ g.step = "next"
            /\ g.todo = e.todo \ {k} /\ g.kind = e.kind /\ g.waits = e.waits
        BY <2>1 DEF BackupRecords
      <3> HIDE DEF g, e
      <3>4. g \in SoundBackups
        <4>1. SoundStep(g)
          BY <3>3 DEF SoundStep
        <4>2. QED
          BY <2>1, <3>2, <3>3, <4>1 DEF SoundBackups
      <3>5. QED
        BY <1>6, <2>1, <2>2, <3>1, <3>3, <3>4 DEF e
    <2>4. CASE ~\E r \in Latest(revisions, k) : r.html = e.got[k]
      <3> DEFINE g == [e EXCEPT !.step = "insert", !.storing = {k}]
      <3>1. backup' = [backup EXCEPT ![b] = g]
        BY <1>12a, <2>1, <2>4 DEF BeginStore, BackupInv, BackupRecords
      <3>2. /\ g \in BackupRecords /\ g.stage = "serving" /\ g.own = {} /\ g.stale = {} /\ g.got = e.got /\ g.step = "insert"
            /\ g.todo = e.todo /\ g.kind = e.kind /\ g.waits = e.waits /\ g.storing = {k}
        BY <2>1 DEF BackupRecords
      <3> HIDE DEF g, e
      <3>3. g \in SoundBackups
        <4>1. SoundStep(g)
          BY <2>1, <3>2 DEF SoundStep
        <4>2. QED
          BY <2>1, <3>2, <4>1 DEF SoundBackups
      <3>4. QED
        BY <1>6, <2>1, <2>2, <3>1, <3>2, <3>3 DEF e
    <2>5. QED
      BY <2>3, <2>4
  <1>13. ASSUME NEW b \in Backups, RecordBackup(b)
         PROVE  BackupInv'
    <2> DEFINE e == backup[b]
    <2>1. /\ e.stage = "served" /\ e.waits /\ lastBackup' = "recent" /\ recorded' = e.got /\ Leave(b)
          /\ UNCHANGED <<html, saves, token, serverVars>> /\ e \in SoundBackups /\ e.got \in [Keys -> Unread..MaxSave]
      BY <1>13 DEF RecordBackup, BackupInv, SoundBackups, BackupRecords
    <2>2. \A k \in Keys : e.got[k] # Unread => Safe(k, e.got[k])
      BY <2>1 DEF SoundBackups
    <2>3. UNCHANGED <<revisions, pushed>>
      BY <2>1 DEF serverVars
    <2>4. RecordedIsSafe'
      BY <2>1, <2>2, <2>3 DEF RecordedIsSafe, Safe
    <2>5. QED
      BY <2>1, <2>4, CallLeft
  <1>14. ASSUME NEW b \in Backups, RequestFails(b)
         PROVE  BackupInv'
    <2>1. backup[b].waits /\ Leave(b) /\ UNCHANGED <<html, saves, token, lastBackup, serverVars, recorded>>
          /\ lastBackup' \in {"never", "recent", "old"}
      BY <1>14 DEF RequestFails, BackupInv, ClientTypeOK
    <2>2. UNCHANGED <<revisions, pushed>>
      BY <2>1 DEF serverVars
    <2>3. QED
      BY <2>1, <2>2, RecordStays, CallLeft
  <1>15. ASSUME NEW k \in Keys, DeleteBackedUpChapter(k)
         PROVE  BackupInv'
    <2>1. Gone \in Versions
      BY DEF Gone, Versions
    <2>2. ClientTypeOK' /\ owner' \in Owners \cup {NoOwner} /\ UNCHANGED <<backup, revisions, nextRev, pushed, recorded, inFlight>>
      BY <1>15, <2>1 DEF DeleteBackedUpChapter, BackupInv, ClientTypeOK, ServerTypeOK, serverVars
    <2>3. QED
      BY <2>2, NothingMoves
  <1>16. CASE SwitchAccount \/ FifteenMinutesPass \/ UNCHANGED backupVars
    <2>1. ClientTypeOK' /\ owner' \in Owners \cup {NoOwner} /\ UNCHANGED <<backup, revisions, nextRev, pushed, recorded, inFlight>>
      BY <1>16 DEF SwitchAccount, FifteenMinutesPass, backupVars, clientVars, serverVars, BackupInv, ClientTypeOK, ServerTypeOK
    <2>2. QED
      BY <2>1, NothingMoves
  <1>17. QED
    BY <1>1, <1>3, <1>4, <1>5, <1>8, <1>10, <1>12, <1>12a, <1>13, <1>14, <1>15, <1>16,
       RevisionInserted, StalePicked, ChapterCommitted
       DEF BackupNext

LEMMA BackupInvHolds == BackupSpec => []BackupInv
  BY BackupInvInit, BackupInvNext, PTL DEF BackupSpec

\* What a backup reads, sends and has under way is what the desktop and the
\* server hold.
THEOREM BackupTypeCorrect == BackupSpec => []BackupTypeOK
  <1>1. BackupInv => BackupTypeOK
    <2>1. SoundBackups \subseteq BackupRecords
      BY DEF SoundBackups
    <2>2. QED
      BY <2>1 DEF BackupInv, ClientTypeOK, ServerTypeOK, RecordedIsSafe, BackupTypeOK
  <1>2. QED
    BY <1>1, BackupInvHolds, PTL

\* _auto_backup_in_flight is neither lost nor cleared too early; what is recorded
\* as backed up is on the server or had to make room for as many newer texts as
\* are kept, though prunes run that do not see each other's rows; and these pass
\* the cap by less than their number.
THEOREM BackupSafetyHolds == BackupSpec => []BackupSafety
  <1>1. BackupInv => BackupSafety
    <2> SUFFICES ASSUME BackupInv PROVE BackupSafety
      OBVIOUS
    <2>1. OneAutoBackup
      BY FS_EmptySet, FS_Singleton DEF BackupInv, AutoIsAlone, AutoBackups, OneAutoBackup
    <2>2. RecordedBackupIsOnServer
      BY DEF BackupInv, RecordedIsSafe, Safe, RecordedBackupIsOnServer
    <2>3. RevisionsBounded
      <3> SUFFICES ASSUME NEW k \in Keys
                   PROVE  Cardinality(Of(revisions, k)) <= MaxRevisions + Cardinality(Backups) - 1
        BY DEF RevisionsBounded
      <3>1. PICK P \in SUBSET Pending(k) : P = {}
        OBVIOUS
      <3>2. Of(revisions, k) \ StaleOf(P) = Of(revisions, k)
        BY <3>1 DEF StaleOf
      <3>3. Cardinality(Of(revisions, k)) <= MaxRevisions - 1 + Cardinality(Backups) - Cardinality(P)
        BY <3>2 DEF BackupInv, CapIsKept
      <3>4. Cardinality(P) = 0 /\ Cardinality(Backups) \in Nat /\ Cardinality(Of(revisions, k)) \in Nat
        <4>1. IsFiniteSet(Of(revisions, k))
          BY FS_Subset DEF Of, BackupInv, RowsAreNumbered
        <4>2. QED
          BY <3>1, <4>1, BackupAssumption, FS_EmptySet, FS_CardinalityType
      <3>5. QED
        BY <3>3, <3>4, BackupAssumption
    <2>4. QED
      BY <2>1, <2>2, <2>3 DEF BackupSafety
  <1>2. QED
    BY <1>1, BackupInvHolds, PTL
-----------------------------------------------------------------------------
(* Snapshots *)

SnapshotsAreNumbered ==
    /\ IsFiniteSet(snaps)
    /\ \A s \in snaps : s.id < nextSnap
    /\ \A s, r \in snaps : s.id = r.id => s = r
\* What is about to become a snapshot is a text.
StoreCalls == {r \in CallRecords : r.op \in {"take", "restore"} => r.before # NoText}
StoreInv == StoreTypeOK /\ SnapshotsAreNumbered /\ call \in [Threads -> StoreCalls]

LEMMA StoreCallsAreCalls == StoreCalls \subseteq CallRecords
  BY DEF StoreCalls

\* The order snapshots are listed in.
ByAge(R) == {e \in R \X R : Older(e[1], e[2])}

LEMMA AgeOrders ==
  ASSUME NEW R \in SUBSET Snapshots, \A s, r \in R : s.id = r.id => s = r
  PROVE  /\ Orders(R, ByAge(R))
         /\ \A s, r \in R : <<s, r>> \in ByAge(R) <=> Older(s, r)
  <1>1. \A s, r \in R : <<s, r>> \in ByAge(R) <=> Older(s, r)
    BY DEF ByAge
  <1>2. \A s \in R : s.ts \in Int /\ s.id \in Int
    BY DEF Snapshots
  <1>3. Orders(R, ByAge(R))
    BY <1>1, <1>2 DEF Orders, Older
  <1>4. QED
    BY <1>1, <1>3

\* What an insertion with its pruning leaves behind.
SnapshotsStaySound ==
    /\ snaps' \subseteq Snapshots /\ nextSnap' \in 1..(MaxSnapshotId + 1) /\ SnapshotsAreNumbered'
    /\ LostToNewerOnes
KeptOrFull(c, t, ts) ==
    \/ \E s \in snaps' : s.chapter = c /\ s.html = t
    \/ Cardinality({s \in SnapsOf(snaps', c) : s.ts > ts}) = MaxSnapshots
\* _insert_snapshot, which prunes the chapter it inserts for.
LEMMA SnapshotInserted ==
  ASSUME StoreInv, NEW c \in Chapters, NEW t \in Texts, NEW label \in Labels, NEW ts \in 0..MaxClock,
         InsertSnapshot(c, t, label, ts)
  PROVE  SnapshotsStaySound /\ KeptOrFull(c, t, ts)
  <1> USE DesktopStoreAssumption
  <1> DEFINE new == [id |-> nextSnap, chapter |-> c, html |-> t, label |-> label, ts |-> ts]
             S == snaps \cup {new}
             R == SnapsOf(S, c)
             K == Kept(R, ByAge(R), MaxSnapshots)
  <1>1. nextSnap \in 1..MaxSnapshotId /\ nextSnap' = nextSnap + 1 /\ snaps' = PruneSnapshots(S, c)
    BY DEF InsertSnapshot, StoreInv, StoreTypeOK
  <1>2. new \in Snapshots /\ new.id = nextSnap /\ new.chapter = c /\ new.html = t /\ new.ts = ts
    BY <1>1 DEF Snapshots
  <1> HIDE DEF new
  <1>3. /\ S \subseteq Snapshots /\ IsFiniteSet(S) /\ snaps \subseteq S /\ new \in R /\ R \subseteq S
        /\ \A s \in snaps : s.id < new.id
        /\ \A s, r \in S : s.id = r.id => s = r
    <2>1. /\ IsFiniteSet(snaps) /\ snaps \subseteq Snapshots /\ \A s \in snaps : s.id < new.id /\ s.id \in Int
          /\ \A s, r \in snaps : s.id = r.id => s = r
      BY <1>2 DEF StoreInv, StoreTypeOK, SnapshotsAreNumbered, Snapshots
    <2>2. IsFiniteSet(S)
      BY <2>1, FS_AddElement
    <2>3. new.id \in Int
      BY <1>1, <1>2
    <2>4. \A s, r \in S : s.id = r.id => s = r
      BY <2>1, <2>3
    <2>5. QED
      BY <1>2, <2>1, <2>2, <2>4 DEF SnapsOf
  <1> HIDE DEF S
  <1>4. /\ IsFiniteSet(R) /\ R \in SUBSET Snapshots /\ Orders(R, ByAge(R))
        /\ \A s, r \in R : <<s, r>> \in ByAge(R) <=> Older(s, r)
    <2>1. R \in SUBSET Snapshots /\ \A s, r \in R : s.id = r.id => s = r
      BY <1>3
    <2>2. IsFiniteSet(R)
      BY <1>3, FS_Subset
    <2> HIDE DEF R
    <2>3. QED
      BY <2>1, <2>2, AgeOrders
  <1>5. snaps' = {s \in S : s.chapter = c => s \in K}
    <2>1. \A s \in R : Above(R, ByAge(R), s) = {r \in SnapsOf(S, c) : Older(s, r)}
      BY <1>4 DEF Above
    <2>2. \A s \in S : s.chapter = c => s \in R
      BY DEF SnapsOf
    <2>3. QED
      BY <1>1, <2>1, <2>2 DEF PruneSnapshots, Kept
  <1>6. SnapsOf(snaps', c) = K
    <2>1. K \subseteq R
      BY DEF Kept
    <2>2. QED
      BY <1>5, <2>1 DEF SnapsOf
  <1> HIDE DEF R
  <1>7. ASSUME NEW s \in R \ K
        PROVE  K \subseteq Above(R, ByAge(R), s) /\ Cardinality(K) = MaxSnapshots
    BY <1>4, <1>7, DroppedForHigher
  <1>8. \A s \in R \ K : \A r \in K : Older(s, r) /\ r \in R
    BY <1>4, <1>7 DEF Above
  <1>9. snaps' \subseteq Snapshots /\ nextSnap' \in 1..(MaxSnapshotId + 1) /\ SnapshotsAreNumbered'
    <2>1. snaps' \subseteq S
      BY <1>5
    <2>2. IsFiniteSet(snaps')
      BY <1>3, <2>1, FS_Subset
    <2>3. \A s \in S : s.id < nextSnap'
      <3>1. \A s \in Snapshots : s.id \in Int
        BY DEF Snapshots
      <3>2. QED
        BY <1>1, <1>2, <1>3, <3>1 DEF S
    <2>4. QED
      BY <1>1, <1>3, <2>1, <2>2, <2>3 DEF SnapshotsAreNumbered
  <1>10. LostToNewerOnes
    <2> SUFFICES ASSUME NEW s \in snaps \ snaps'
                 PROVE  Cardinality({r \in SnapsOf(snaps', s.chapter) : Older(s, r)}) = MaxSnapshots
      BY DEF LostToNewerOnes
    <2>1. s.chapter = c /\ s \in R \ K
      BY <1>3, <1>5 DEF R, SnapsOf
    <2>2. {r \in SnapsOf(snaps', s.chapter) : Older(s, r)} = K
      BY <1>6, <1>8, <2>1
    <2>3. QED
      BY <1>7, <2>1, <2>2
  <1>11. \/ \E s \in snaps' : s.chapter = c /\ s.html = t
         \/ Cardinality({s \in SnapsOf(snaps', c) : s.ts > ts}) = MaxSnapshots
    <2>1. CASE new \in K
      <3>1. new \in snaps'
        BY <1>3, <1>5, <2>1
      <3>2. QED
        BY <1>2, <3>1
    <2>2. CASE new \notin K
      <3>1. \A r \in K : r.ts > ts
        <4>1. ASSUME NEW r \in K
              PROVE  r.ts > ts
          <5>1. Older(new, r) /\ r \in R /\ r # new
            BY <1>3, <1>8, <2>2
          <5>2. r \in snaps /\ r.ts \in Int /\ r.id \in Int /\ new.id \in Int /\ ts \in Int
            BY <1>1, <1>2, <1>3, <1>4, <5>1 DEF S, Snapshots
          <5>3. r.id < new.id
            BY <1>3, <5>2
          <5>4. QED
            BY <1>2, <5>1, <5>2, <5>3 DEF Older
        <4>2. QED
          BY <4>1
      <3>2. {s \in SnapsOf(snaps', c) : s.ts > ts} = K
        BY <1>6, <3>1
      <3>3. QED
        BY <1>3, <1>7, <2>2, <3>2
    <2>3. QED
      BY <2>1, <2>2
  <1>12. QED
    BY <1>9, <1>10, <1>11 DEF SnapshotsStaySound, KeptOrFull

\* What a call may have read.
LEMMA CallShapes ==
  /\ IdleCall \in StoreCalls /\ IdleCall.op = "idle"
  /\ \A t \in Threads : StoreInv =>
       /\ call[t].chapter \in Chapters /\ call[t].ts \in 0..MaxClock
       /\ call[t].html \in Texts \cup {NoText} /\ call[t].before \in Texts \cup {NoText}
       /\ call[t].op \in {"take", "restore"} => call[t].before \in Texts
  <1>1. IdleCall \in CallRecords /\ IdleCall.op = "idle"
    BY DesktopStoreAssumption DEF IdleCall, CallRecords
  <1>2. ASSUME NEW r \in StoreCalls
        PROVE  /\ r.chapter \in Chapters /\ r.ts \in 0..MaxClock
               /\ r.html \in Texts \cup {NoText} /\ r.before \in Texts \cup {NoText}
               /\ r.op \in {"take", "restore"} => r.before \in Texts
    BY <1>2 DEF StoreCalls, CallRecords
  <1>3. QED
    BY <1>1, <1>2 DEF StoreInv, StoreCalls
\* A call begins or is given up: nothing is stored.
LEMMA NothingStored ==
  ASSUME StoreInv, call' \in [Threads -> StoreCalls], UNCHANGED <<text, fresh, snaps, nextSnap>>, now' \in 0..MaxClock
  PROVE  StoreInv' /\ LostToNewerOnes /\ RestoreIsKept
  BY StoreCallsAreCalls DEF StoreInv, StoreTypeOK, SnapshotsAreNumbered, LostToNewerOnes, RestoreIsKept

\* The chapters change and no snapshot does.
LEMMA NoSnapshotTaken ==
  ASSUME StoreInv, text' \in [Chapters -> Texts \cup {NoText}], fresh' \subseteq Chapters,
         UNCHANGED <<snaps, nextSnap, now, call>>
  PROVE  StoreInv' /\ LostToNewerOnes /\ RestoreIsKept
  <1>1. \A t \in Threads : call[t].op = "restore" => call'[t] # IdleCall
    BY CallShapes
  <1>2. QED
    BY <1>1 DEF StoreInv, StoreTypeOK, SnapshotsAreNumbered, LostToNewerOnes, RestoreIsKept

\* A call that stores: what is left is that of the other calls none ends.
LEMMA CallStored ==
  ASSUME StoreInv, NEW t \in Threads, AnswerCall(t), UNCHANGED <<fresh, now>>,
         text' \in [Chapters -> Texts \cup {NoText}],
         snaps' \subseteq Snapshots, nextSnap' \in 1..(MaxSnapshotId + 1), SnapshotsAreNumbered', LostToNewerOnes,
         call[t].op = "restore" =>
           \/ \E s \in snaps' : s.chapter = call[t].chapter /\ s.html = call[t].before
           \/ Cardinality({s \in SnapsOf(snaps', call[t].chapter) : s.ts > call[t].ts}) = MaxSnapshots
  PROVE  StoreInv' /\ LostToNewerOnes /\ RestoreIsKept
  <1>1. call' = [call EXCEPT ![t] = IdleCall] /\ call' \in [Threads -> StoreCalls]
    BY CallShapes DEF AnswerCall, StoreInv, StoreTypeOK
  <1>2. \A u \in Threads \ {t} : call'[u] = call[u]
    BY <1>1 DEF StoreInv, StoreTypeOK
  <1>3. \A u \in Threads \ {t} : call[u].op = "restore" => call'[u] # IdleCall
    BY <1>2, CallShapes
  <1>4. RestoreIsKept
    BY <1>3 DEF RestoreIsKept
  <1>5. StoreInv'
    BY <1>1, StoreCallsAreCalls DEF StoreInv, StoreTypeOK
  <1>6. QED
    BY <1>4, <1>5

LEMMA CallBegun ==
  ASSUME StoreInv, NEW t \in Threads, NEW op \in {"save", "take", "restore"}, NEW c \in Chapters,
         NEW x \in Texts \cup {NoText}, NEW y \in Texts \cup {NoText}, Begin(t, op, c, x, y),
         op # "save" => y # NoText
  PROVE  StoreInv' /\ LostToNewerOnes /\ RestoreIsKept
  <1> DEFINE r == [op |-> op, chapter |-> c, html |-> x, before |-> y, ts |-> now]
  <1>1. r \in CallRecords /\ r.op = op /\ r.before = y
    BY DEF CallRecords, StoreInv, StoreTypeOK
  <1>2. call' = [call EXCEPT ![t] = r] /\ UNCHANGED <<text, fresh, snaps, nextSnap, now>>
    BY DEF Begin
  <1> HIDE DEF r
  <1>3. r \in StoreCalls
    BY <1>1 DEF StoreCalls
  <1>4. call' \in [Threads -> StoreCalls] /\ now' \in 0..MaxClock
    BY <1>2, <1>3 DEF StoreInv, StoreTypeOK
  <1>5. QED
    BY <1>2, <1>4, NothingStored

LEMMA StoreStep == StoreInv /\ [StoreNext]_storeVars => StoreInv' /\ LostToNewerOnes /\ RestoreIsKept
  <1> SUFFICES ASSUME StoreInv, [StoreNext]_storeVars
               PROVE  StoreInv' /\ LostToNewerOnes /\ RestoreIsKept
    OBVIOUS
  <1> USE DesktopStoreAssumption
  <1>1. ASSUME NEW t \in Threads, NEW c \in Chapters, StartTake(t, c)
        PROVE  StoreInv' /\ LostToNewerOnes /\ RestoreIsKept
    <2>1. text[c] \in Texts \cup {NoText} /\ text[c] # NoText /\ Begin(t, "take", c, NoText, text[c])
      BY <1>1 DEF StartTake, StoreInv, StoreTypeOK
    <2>2. QED
      BY <2>1, CallBegun
  <1>2. ASSUME NEW t \in Threads, NEW c \in Chapters, NEW x \in Texts \cup {NoText}, StartSave(t, c, x)
        PROVE  StoreInv' /\ LostToNewerOnes /\ RestoreIsKept
    <2>1. PICK y \in Texts \cup {NoText} : y = IF ShouldAutoSnapshot(c) THEN text[c] ELSE NoText
      BY DEF StoreInv, StoreTypeOK
    <2>2. Begin(t, "save", c, x, y)
      BY <1>2, <2>1 DEF StartSave
    <2>3. QED
      BY <2>2, CallBegun
  <1>3. ASSUME NEW t \in Threads, NEW s \in snaps, StartRestore(t, s)
        PROVE  StoreInv' /\ LostToNewerOnes /\ RestoreIsKept
    <2>1. s.chapter \in Chapters /\ s.html \in Texts
      BY DEF StoreInv, StoreTypeOK, Snapshots
    <2>2. text[s.chapter] \in Texts \cup {NoText} /\ text[s.chapter] # NoText
          /\ Begin(t, "restore", s.chapter, s.html, text[s.chapter])
      BY <1>3, <2>1 DEF StartRestore, StoreInv, StoreTypeOK
    <2>3. QED
      BY <2>1, <2>2, CallBegun
  <1>4. ASSUME NEW t \in Threads, SaveChapter(t)
        PROVE  StoreInv' /\ LostToNewerOnes /\ RestoreIsKept
    <2> DEFINE c == call[t].chapter
    <2>1. /\ call[t].op = "save" /\ AnswerCall(t) /\ UNCHANGED <<fresh, now>> /\ c \in Chapters
          /\ call[t].html \in Texts \cup {NoText} /\ call[t].before \in Texts \cup {NoText} /\ call[t].ts \in 0..MaxClock
      BY <1>4, CallShapes DEF SaveChapter
    <2>2. text' \in [Chapters -> Texts \cup {NoText}]
      BY <1>4, <2>1 DEF SaveChapter, StoreInv, StoreTypeOK
    <2>3. call[t].op # "restore"
      BY <2>1
    <2>4. CASE call[t].before = NoText
      <3>1. UNCHANGED <<snaps, nextSnap>>
        BY <1>4, <2>4 DEF SaveChapter
      <3>2. /\ snaps' \subseteq Snapshots /\ nextSnap' \in 1..(MaxSnapshotId + 1) /\ SnapshotsAreNumbered'
            /\ LostToNewerOnes
        BY <3>1 DEF StoreInv, StoreTypeOK, SnapshotsAreNumbered, LostToNewerOnes
      <3>3. QED
        BY <2>1, <2>2, <2>3, <3>2, CallStored
    <2>5. CASE call[t].before # NoText
      <3>1. InsertSnapshot(c, call[t].before, "auto", call[t].ts) /\ call[t].before \in Texts /\ "auto" \in Labels
        BY <1>4, <2>1, <2>5 DEF SaveChapter, Labels
      <3>2. SnapshotsStaySound
        BY <2>1, <3>1, SnapshotInserted
      <3>3. QED
        BY <2>1, <2>2, <2>3, <3>2, CallStored DEF SnapshotsStaySound
    <2>6. QED
      BY <2>4, <2>5
  <1>5. ASSUME NEW t \in Threads, TakeSnapshot(t)
        PROVE  StoreInv' /\ LostToNewerOnes /\ RestoreIsKept
    <2>1. /\ call[t].op = "take" /\ AnswerCall(t) /\ UNCHANGED <<text, fresh, now>> /\ call[t].chapter \in Chapters
          /\ call[t].before \in Texts /\ call[t].ts \in 0..MaxClock
          /\ InsertSnapshot(call[t].chapter, call[t].before, "manual", call[t].ts) /\ "manual" \in Labels
      BY <1>5, CallShapes DEF TakeSnapshot, Labels
    <2>2. SnapshotsStaySound
      BY <2>1, SnapshotInserted
    <2>3. text' \in [Chapters -> Texts \cup {NoText}] /\ call[t].op # "restore"
      BY <2>1 DEF StoreInv, StoreTypeOK
    <2>4. QED
      BY <2>1, <2>2, <2>3, CallStored DEF SnapshotsStaySound
  <1>6. ASSUME NEW t \in Threads, RestoreSnapshot(t)
        PROVE  StoreInv' /\ LostToNewerOnes /\ RestoreIsKept
    <2>1. /\ call[t].op = "restore" /\ AnswerCall(t) /\ UNCHANGED <<fresh, now>> /\ call[t].chapter \in Chapters
          /\ call[t].before \in Texts /\ call[t].ts \in 0..MaxClock /\ call[t].html \in Texts \cup {NoText}
          /\ InsertSnapshot(call[t].chapter, call[t].before, "restore", call[t].ts) /\ "restore" \in Labels
          /\ text' = [text EXCEPT ![call[t].chapter] = call[t].html]
      BY <1>6, CallShapes DEF RestoreSnapshot, Labels
    <2>2. SnapshotsStaySound /\ KeptOrFull(call[t].chapter, call[t].before, call[t].ts)
      BY <2>1, SnapshotInserted
    <2>3. text' \in [Chapters -> Texts \cup {NoText}]
      BY <2>1 DEF StoreInv, StoreTypeOK
    <2>4. QED
      BY <2>1, <2>2, <2>3, CallStored DEF SnapshotsStaySound, KeptOrFull
  <1>7. ASSUME NEW t \in Threads, Rollback(t)
        PROVE  StoreInv' /\ LostToNewerOnes /\ RestoreIsKept
    <2>1. call' \in [Threads -> StoreCalls] /\ UNCHANGED <<text, fresh, snaps, nextSnap, now>>
      BY <1>7, CallShapes DEF Rollback, AnswerCall, StoreInv, StoreTypeOK
    <2>2. QED
      BY <2>1, NothingStored DEF StoreInv, StoreTypeOK
  <1>8. ASSUME NEW c \in Chapters, CreateChapter(c) \/ DeleteChapter(c)
        PROVE  StoreInv' /\ LostToNewerOnes /\ RestoreIsKept
    <2>1. /\ text' \in [Chapters -> Texts \cup {NoText}] /\ fresh' \subseteq Chapters
          /\ UNCHANGED <<snaps, nextSnap, now, call>>
      BY <1>8 DEF CreateChapter, DeleteChapter, StoreInv, StoreTypeOK
    <2>2. QED
      BY <2>1, NoSnapshotTaken
  <1>9. ASSUME NEW S \in SUBSET fresh, NEW new \in [S -> Texts], ImportChapters(new)
        PROVE  StoreInv' /\ LostToNewerOnes /\ RestoreIsKept
    <2>1. /\ text' \in [Chapters -> Texts \cup {NoText}] /\ fresh' \subseteq Chapters
          /\ UNCHANGED <<snaps, nextSnap, now, call>>
      BY <1>9 DEF ImportChapters, StoreInv, StoreTypeOK
    <2>2. QED
      BY <2>1, NoSnapshotTaken
  <1>10. CASE Clock \/ UNCHANGED storeVars
    <2>1. call' \in [Threads -> StoreCalls] /\ UNCHANGED <<text, fresh, snaps, nextSnap>> /\ now' \in 0..MaxClock
      BY <1>10 DEF Clock, storeVars, StoreInv, StoreTypeOK
    <2>2. QED
      BY <2>1, NothingStored
  <1>11. QED
    BY <1>1, <1>2, <1>3, <1>4, <1>5, <1>6, <1>7, <1>8, <1>9, <1>10 DEF StoreNext

LEMMA StoreInvInit == StoreInit => StoreInv
  <1> SUFFICES ASSUME StoreInit PROVE StoreInv
    OBVIOUS
  <1> USE DesktopStoreAssumption DEF StoreInit
  <1>1. StoreTypeOK
    BY CallShapes, StoreCallsAreCalls DEF StoreTypeOK
  <1>2. SnapshotsAreNumbered
    BY FS_EmptySet DEF SnapshotsAreNumbered
  <1>3. call \in [Threads -> StoreCalls]
    BY CallShapes
  <1>4. QED
    BY <1>1, <1>2, <1>3 DEF StoreInv

\* The rows of chapter and snapshot are whole after every transaction.
THEOREM StoreTypeCorrect == StoreSpec => []StoreTypeOK
  <1>1. StoreInv /\ [StoreNext]_storeVars => StoreInv'
    BY StoreStep
  <1>2. StoreInv => StoreTypeOK
    BY DEF StoreInv
  <1>3. QED
    BY <1>1, <1>2, StoreInvInit, PTL DEF StoreSpec

\* However the calls of the page interleave, _prune_snapshots drops a snapshot
\* only for as many newer ones as the cap allows, and a restore loses the text
\* it overwrites to no fewer.
THEOREM SnapshotsSurviveAlways == StoreSpec => SnapshotsSurvive
  <1>1. StoreInv /\ [StoreNext]_storeVars => StoreInv'
    BY StoreStep
  <1>2. StoreInv /\ [StoreNext]_storeVars => [LostToNewerOnes /\ RestoreIsKept]_storeVars
    BY StoreStep
  <1>3. QED
    BY <1>1, <1>2, StoreInvInit, PTL DEF StoreSpec, SnapshotsSurvive

-----------------------------------------------------------------------------
(* From the desk to the store *)

\* A step of the whole is a step of each component, or one it does not notice.
LEMMA StepsOfTheDesk ==
    ASSUME [DeskNext]_deskVars
    PROVE  /\ [StoreNext]_storeVars /\ [BackupNext]_backupVars /\ [LoginNext]_loginVars
           /\ [PublishDesktopNext]_publishVars /\ [BooksNext]_bookVars /\ [CatalogNext]_catalogVars
  <1>1. CASE UNCHANGED deskVars
    BY <1>1 DEF deskVars
  <1>2. CASE DeskNext
    BY <1>2 DEF DeskNext, StorePartNext, BackupPartNext, BooksPartNext, CatalogPartNext
  <1>3. QED
    BY <1>1, <1>2

\* The editor, the manuscripts and the catalog together implement the specification
\* of each of them.
THEOREM DeskKeepsItsSpecs ==
    DeskSpec => StoreSpec /\ BackupSpec /\ LoginSpec /\ PublishDesktopSpec /\ BooksSpec /\ CatalogSpec
  <1>1. DeskInit => StoreInit /\ BackupInit /\ LoginInit /\ PublishInit /\ BooksInit /\ CatalogInit
    BY DEF DeskInit
  <1>2. [DeskNext]_deskVars =>
           /\ [StoreNext]_storeVars /\ [BackupNext]_backupVars /\ [LoginNext]_loginVars
           /\ [PublishDesktopNext]_publishVars /\ [BooksNext]_bookVars /\ [CatalogNext]_catalogVars
    BY StepsOfTheDesk
  <1>3. QED
    BY <1>1, <1>2, PTL DEF DeskSpec, StoreSpec, BackupSpec, LoginSpec, PublishDesktopSpec, BooksSpec,
                           CatalogSpec

\* Every chapter, snapshot, setting, login, request and row from the desk to the
\* store keeps the shape the code gives it, whichever component moves.
THEOREM PublishingTypeCorrect == DeskSpec => []PublishingTypeOK
  <1>1. /\ StoreTypeOK /\ BackupTypeOK /\ LoginTypeOK /\ PublishTypeOK /\ BooksTypeOK /\ CatalogTypeOK
        => PublishingTypeOK
    BY DEF PublishingTypeOK
  <1>2. QED
    BY <1>1, DeskKeepsItsSpecs, StoreTypeCorrect, BackupTypeCorrect, LoginTypeCorrect, PublishTypeCorrect,
       BooksTypeCorrect, CatalogTypeCorrect, PTL

\* What the editor, the manuscripts and the catalog promise one by one, they promise
\* together.
THEOREM PublishingIsSafe ==
    DeskSpec => /\ [](BackupSafety /\ ListenerClosed /\ PublishSafety /\ BooksSafety)
                /\ SnapshotsSurvive /\ TakedownHolds /\ ImplementsPublication
  BY DeskKeepsItsSpecs, BackupSafetyHolds, ListenerClosedHolds, PublishSafetyHolds, BooksSafetyHolds,
     SnapshotsSurviveAlways, TakedownHoldsAlways, PublicationImplemented, PTL
=============================================================================
