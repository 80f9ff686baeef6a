----------------------------- MODULE MCPlatform -----------------------------
(***************************************************************************)
(* Instances of the components of the server that people act on, for TLC.  *)
(* They meet only where one module says so, so that a behaviour follows    *)
(* one of them (part) while the others stand still.                        *)
(***************************************************************************)
EXTENDS Campaigns, Notifications, Identity, AgeVerification, Console, Woncheon, Documents,
        PayoutSums, TLC

CONSTANTS acct1, acct2, bk1, h1, h2, c1, c2, c3, r1, r2, po, ag, ord, acc, bk, rep,
          Parts      \* the components that are checked

VARIABLE part

platformVars == <<part, campaignVars, notificationVars, identityVars, ageVars, consoleVars,
                  woncheonVars, docVars, sumsVars>>

----------------------------------------------------------------------------
(***************************************************************************)
(* Values of constants.                                                    *)
(***************************************************************************)
\* Two reviewers after the copies of one campaign; one reviewer who misses the
\* deadlines of three; and everything else that happens to an application.
TwoReviewers == [entries |-> {<<c1, r1>>, <<c1, r2>>}, applied |-> {}, handlers |-> {h1, h2}, days |-> 1,
                 acts |-> {"close", "cancel", "review", "die"}]
ThreeCampaigns == [entries |-> {<<c1, r1>>, <<c2, r1>>, <<c3, r1>>},
                   applied |-> {<<c1, r1>>, <<c2, r1>>, <<c3, r1>>}, handlers |-> {h1, h2}, days |-> 6,
                   acts |-> {}]
OneApplication == [entries |-> {<<c1, r1>>}, applied |-> {<<c1, r1>>}, handlers |-> {h1, h2}, days |-> 2,
                   acts |-> {"cancel", "review", "buy", "operate"}]
MCWorlds == {TwoReviewers, ThreeCampaigns, OneApplication}

WrittenBySomebody == bk1 :> acct1
\* Both profiles come with the same email.
OneEmail == [p \in Profiles |-> "email"]
KindOfEntity == po :> "PAYOUT" @@ ag :> "AGE" @@ ord :> "ORDER" @@ acc :> "ACCOUNT"
                  @@ bk :> "BOOK" @@ rep :> "REPORT"

Symmetry == Permutations({h1, h2})

----------------------------------------------------------------------------
(***************************************************************************)
(* What a part looks at: of the campaigns, first applications and          *)
(* assignments of pending ones, and of the three deadlines, sweeps that    *)
(* race with one another (other requests have the reviewer to themselves,  *)
(* time goes by while a sweep has no more than read, and the copies are    *)
(* assigned in turn, the first on day 0); of the notices, those of the     *)
(* author and of one reader; of the console, acts on one entity; of the    *)
(* documents, those of one owner, being shared and changed or having their *)
(* pictures exported.                                                      *)
(***************************************************************************)
CampaignsPartNext ==
  /\ CampaignNext
  /\ \A h \in CampaignHandlers :
       LET was == request[h].op now == request'[h].op e == <<request'[h].c, request'[h].r>> IN
       /\ was = "idle" /\ now = "check" => application[e] = NoRow
       /\ was = "idle" /\ now = "assign" => application[e].status = "PENDING"
  /\ world = ThreeCampaigns =>
       LET Busy(ops) == {h \in CampaignHandlers : request'[h].op \notin ops} IN
       /\ Busy({"idle", "sweep"}) # {} => day' = day
       /\ Busy({"idle"} \cup Sweeping) # {} => Cardinality(Busy({"idle"})) = 1
       /\ day' > 0 => application[c1, r1].assigned = 0
       /\ \A e \in {<<c1, c2>>, <<c2, c3>>} :
            application'[e[2], r1].assigned # Never => application[e[1], r1].assigned # Never
       /\ \A e \in world.entries : application'[e].deadline < LastDay

NotificationsPartNext ==
  /\ NotificationNext
  /\ follows' \subseteq {<<acct2, acct1>>}
  /\ \A f \in Fanouts : fanout'[f].kind = "DUE_SOON" => fanout'[f].to = {acct2}

ConsolePartNext ==
  /\ ConsoleNext
  /\ \A o \in Clerks : deed'[o].e \in {part, NoDeed}
  /\ part # rep => UNCHANGED <<entity[rep]>>

DocumentOps ==
  [sharing |-> {"none", "save", "delete", "share", "link save", "link read", "revoke"},
   pictures |-> {"none", "export", "share", "link export", "upload"}]
DocumentsPartNext ==
  /\ DocNext
  /\ \A h \in DocHandlers : docRequest'[h].op \in DocumentOps[part]
  /\ \A d \in Documents : document'[d].owner # acct2

PlatformInit ==
  /\ part \in Parts
  /\ CampaignInit /\ (part # "campaigns" => world = OneApplication)
  /\ NotificationInit /\ IdentityInit /\ AgeInit /\ ConsoleInit /\ WoncheonInit
  /\ DocInit /\ SumsInit

PlatformNext ==
  /\ UNCHANGED part
  /\ IF part = "campaigns" THEN CampaignsPartNext ELSE UNCHANGED campaignVars
  /\ IF part = "notifications" THEN NotificationsPartNext ELSE UNCHANGED notificationVars
  /\ IF part = "identity" THEN IdentityNext ELSE UNCHANGED identityVars
  /\ IF part = "age" THEN AgeNext ELSE UNCHANGED ageVars
  /\ IF part \in Entities THEN ConsolePartNext ELSE UNCHANGED consoleVars
  /\ IF part = "woncheon" THEN WoncheonNext ELSE UNCHANGED woncheonVars
  /\ IF part \in DOMAIN DocumentOps THEN DocumentsPartNext ELSE UNCHANGED docVars
  /\ IF part = "sums" THEN SumsNext ELSE UNCHANGED sumsVars

PlatformSpec == PlatformInit /\ [][PlatformNext]_platformVars

\* Every component's rows and requests have the fields the code gives them.
PlatformTypeOK ==
  /\ CampaignTypeOK /\ NotificationTypeOK /\ IdentityTypeOK /\ AgeTypeOK /\ ConsoleTypeOK
  /\ WoncheonTypeOK /\ DocTypeOK /\ SumsTypeOK
=============================================================================
