---------------------------- MODULE MCPublishing ----------------------------
(***************************************************************************)
(* Instances of all a text passes on its way to its readers, for TLC: the  *)
(* importers and exporters beside the components of MCDesk.                *)
(***************************************************************************)
EXTENDS MCFiles, MCDesk

publishingVars == <<deskVars, engineVars>>

PublishingInit == DeskInit /\ EngineInit /\ (part # "files" => format = "txt")

PublishingNext ==
  /\ DeskNext
  /\ IF part = "files" THEN EngineNext ELSE UNCHANGED engineVars

\* What Catalog asks of its scheduler, where there is one.
PublishingFairness ==
  /\ WF_catalogVars(part = "catalog" /\ SelectDue /\ PublishingNext)
  /\ SF_catalogVars(part = "catalog" /\ PublishDue /\ PublishingNext)
  /\ WF_catalogVars(part = "catalog" /\ NotifyNext /\ PublishingNext)

PublishingSpec ==
  PublishingInit /\ [][PublishingNext]_publishingVars /\ PublishingFairness
=============================================================================
