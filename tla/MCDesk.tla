------------------------------- MODULE MCDesk -------------------------------
(***************************************************************************)
(* Instances of the components a book passes from the author's desk to the *)
(* store, for TLC: the desktop's store, backup, login and publishing, the  *)
(* manuscript and the catalog of the server.  As in MCPlatform a behaviour *)
(* follows one part.  MCPublishing adds the document engine.               *)
(***************************************************************************)
EXTENDS DesktopStore, DesktopBackup, DesktopLogin, DesktopPublish, Books, Catalog, TLC

CONSTANTS acct1, bk1,
          Parts      \* the components that are checked

VARIABLE part

deskVars == <<part, storeVars, backupVars, loginVars, publishVars, bookVars, catalogVars>>

----------------------------------------------------------------------------
(***************************************************************************)
(* Values of constants.                                                    *)
(***************************************************************************)
WrittenBySomebody == bk1 :> acct1
WholeBook == {-1}

----------------------------------------------------------------------------
(***************************************************************************)
(* What a part looks at: of the store, calls on its first chapter, the     *)
(* others being made with the default text and left; of the backup, one    *)
(* request by the button at a time, the account as it is when the author   *)
(* begins to write, and time going by while there is something to save (an *)
(* automatic backup comes with a save); of the manuscript, writing, rating *)
(* or reading it, one rating, one view and one download while it is read,  *)
(* and one buyer, whom nobody else joins once there is a sale (handlers    *)
(* are alike: a request goes to the first that is free); of the catalog,   *)
(* requests that are for different things, or to restore.                  *)
(***************************************************************************)
StorePartNext ==
  /\ StoreNext
  /\ \A t \in Threads : call'[t].chapter = Seed
  /\ \A c \in Chapters \ {Seed} : text'[c] \in {text[c], DefaultHtml}

BackupPartNext ==
  /\ BackupNext
  /\ Cardinality({n \in Backups : backup'[n].kind = "manual"}) <= 1
  /\ (token' # token \/ \E k \in Keys : html'[k] < html[k]) => saves = 0 /\ nextRev = 1
  /\ lastBackup' = "old" => lastBackup = "old" \/ saves < MaxSave
  /\ \A b \in Backups : backup[b] = IdleBackup =>
       backup'[b] = IdleBackup \/ b = CHOOSE c \in Backups : backup[c] = IdleBackup

BookOps == [write |-> {"idle", "import", "replace"}, rate |-> {"idle", "rate"},
            read |-> {"idle", "content", "epub", "rate"}]
BookParts == DOMAIN BookOps

FirstFree == CHOOSE h \in BookHandlers : bookRequest[h] = IdleBookRequest
BooksPartNext ==
  /\ BooksNext
  /\ \A h \in BookHandlers :
       /\ bookRequest'[h].op \in BookOps[part]
       /\ bookRequest[h] = IdleBookRequest => bookRequest'[h] = IdleBookRequest \/ h = FirstFree
  /\ part # "write" => /\ author'[bk1] \in {NoBook, acct1}
                       /\ UNCHANGED previewLimit
  /\ part # "read" => UNCHANGED sales
  /\ part = "read" => /\ \A op \in {"rate", "content", "epub"} : Cardinality({h \in BookHandlers : bookRequest'[h].op = op}) <= 1
                      /\ \A h \in BookHandlers :
                           bookRequest'[h].op \in {"content", "epub"} /\ paid' \cup hasRead' # {} =>
                             bookRequest'[h].who \notin {acct1, Anonymous}
                      /\ verified'[acct1] = 0
                      /\ \A sale \in paid' : sale[1] # acct1

Preparing == {"price", "describe", "submit", "schedule"}

CatalogPartNext ==
  /\ CatalogNext
  /\ \A ops \in {Preparing, Publications, {"delete"}, {"unpublish"}, {"takedown"}} :
       Cardinality({h \in CatalogHandlers : ask'[h].op \in ops}) <= 1

DeskInit ==
  /\ part \in Parts
  /\ StoreInit
  /\ BackupInit /\ token = CHOOSE o \in Owners : TRUE
  /\ LoginInit /\ (part # "login" => plain = NoToken)
  /\ PublishInit /\ content = CHOOSE c \in Publishable : TRUE
  /\ BooksInit /\ CatalogInit

DeskNext ==
  /\ UNCHANGED part
  /\ IF part = "store" THEN StorePartNext ELSE UNCHANGED storeVars
  /\ IF part = "backup" THEN BackupPartNext ELSE UNCHANGED backupVars
  /\ IF part = "login" THEN LoginNext ELSE UNCHANGED loginVars
  /\ IF part = "publish" THEN PublishDesktopNext ELSE UNCHANGED publishVars
  /\ IF part \in BookParts THEN BooksPartNext ELSE UNCHANGED bookVars
  /\ IF part = "catalog" THEN CatalogPartNext ELSE UNCHANGED catalogVars

DeskSpec == DeskInit /\ [][DeskNext]_deskVars

\* Every component's rows and requests have the fields the code gives them.
PublishingTypeOK ==
  /\ StoreTypeOK /\ BackupTypeOK /\ LoginTypeOK /\ PublishTypeOK /\ BooksTypeOK /\ CatalogTypeOK
=============================================================================
