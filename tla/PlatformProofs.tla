--------------------------- MODULE PlatformProofs ---------------------------
(***************************************************************************)
(* The components of the server taken together, however many there are of  *)
(* everything: whatever part moves, each component sees a behaviour of its *)
(* own specification, and so keeps what is proved of it alone.             *)
(***************************************************************************)
EXTENDS MCPlatform, CampaignsProofs, PeopleProofs, BooksProofs, PayoutSumsProofs

\* A step of the whole is a step of each component, or one it does not notice.
LEMMA StepsOfTheParts ==
    ASSUME [PlatformNext]_platformVars
    PROVE  /\ [CampaignNext]_campaignVars /\ [NotificationNext]_notificationVars
           /\ [IdentityNext]_identityVars /\ [AgeNext]_ageVars /\ [ConsoleNext]_consoleVars
           /\ [WoncheonNext]_woncheonVars /\ [DocNext]_docVars /\ [SumsNext]_sumsVars
  <1>1. CASE UNCHANGED platformVars
    BY <1>1 DEF platformVars
  <1>2. CASE PlatformNext
    BY <1>2 DEF PlatformNext, CampaignsPartNext, NotificationsPartNext, ConsolePartNext, DocumentsPartNext
  <1>3. QED
    BY <1>1, <1>2

\* The platform implements the specification of each of its components.
THEOREM PartsKeepTheirSpecs ==
    PlatformSpec => /\ CampaignSpec /\ NotificationSpec /\ IdentitySpec /\ AgeSpec
                    /\ ConsoleSpec /\ WoncheonSpec /\ DocSpec /\ SumsSpec
  <1>1. PlatformInit => /\ CampaignInit /\ NotificationInit /\ IdentityInit /\ AgeInit
                        /\ ConsoleInit /\ WoncheonInit /\ DocInit /\ SumsInit
    BY DEF PlatformInit
  <1>2. [PlatformNext]_platformVars =>
           /\ [CampaignNext]_campaignVars /\ [NotificationNext]_notificationVars
           /\ [IdentityNext]_identityVars /\ [AgeNext]_ageVars /\ [ConsoleNext]_consoleVars
           /\ [WoncheonNext]_woncheonVars /\ [DocNext]_docVars /\ [SumsNext]_sumsVars
    BY StepsOfTheParts
  <1>3. QED
    BY <1>1, <1>2, PTL DEF PlatformSpec, CampaignSpec, NotificationSpec, IdentitySpec, AgeSpec,
                           ConsoleSpec, WoncheonSpec, DocSpec, SumsSpec

LEMMA SumsTypeCorrect == SumsSpec => []SumsTypeOK
  <1>1. IInv => SumsTypeOK
    BY DEF IInv
  <1>2. QED
    BY <1>1, IInvHolds, PTL

\* Every row and request of every component keeps the shape the code gives it,
\* whichever component moves.
THEOREM PlatformTypeCorrect == PlatformSpec => []PlatformTypeOK
  <1>1. /\ CampaignTypeOK /\ NotificationTypeOK /\ IdentityTypeOK /\ AgeTypeOK
        /\ ConsoleTypeOK /\ WoncheonTypeOK /\ DocTypeOK /\ SumsTypeOK
        => PlatformTypeOK
    BY DEF PlatformTypeOK
  <1>2. QED
    BY <1>1, PartsKeepTheirSpecs, CampaignTypeCorrect, NotificationTypeCorrect, IdentityTypeCorrect,
       AgeTypeCorrect, ConsoleTypeCorrect, WoncheonTypeCorrect, DocTypeCorrect, SumsTypeCorrect, PTL

\* What campaigns, sign-in, proofs of age, operators, tax reports, shared documents
\* and payouts promise one by one, they promise together.
THEOREM PlatformIsSafe ==
    PlatformSpec => /\ [](/\ CampaignSafety /\ IdentitySafety /\ AgeSafety /\ ConsoleSafety
                          /\ WoncheonSafety /\ ExportHasItsPictures
                          /\ PayoutBalances /\ WithholdingDriftBounded)
                    /\ BlockIsEarned /\ NewsIsToldOnce /\ WritesAreEntitled /\ ImplementsTaxReports
  BY PartsKeepTheirSpecs, CampaignSafetyHolds, IdentitySafetyHolds, AgeSafetyHolds, ConsoleSafetyHolds,
     WoncheonSafetyHolds, ExportHasItsPicturesHolds, PayoutBalancesHolds, WithholdingDriftBoundedHolds,
     BlockIsEarnedHolds, NewsIsToldOnceHolds, WritesAreEntitledHolds, TaxReportsImplemented, PTL
=============================================================================
