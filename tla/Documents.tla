----------------------------- MODULE Documents -----------------------------
(***************************************************************************)
(* The document studio of features/doc: canonical HTML documents, owned or *)
(* open to everybody, the share links that open one of them to a stranger, *)
(* and the pictures kept in the object store.  The HTML is abstracted to   *)
(* the set of hosted pictures it shows; a link is its own token.  Every    *)
(* await of a request is a step of its handler, and a handler may die at   *)
(* any of them.                                                            *)
(***************************************************************************)
EXTENDS Integers, FiniteSets, People

CONSTANTS Documents, Links, Pictures, DocHandlers

Nobody == "nobody"              \* no owner, and a caller who is not signed in
NoDocument == "no document"
NoLink == "no link"
Capabilities == {"view", "edit", "export"}

ASSUME DocAssumption == "no document" \notin Documents /\ "no link" \notin Links

Variants == <<"original", "display", "thumb">>

VARIABLES
  document,     \* the documents table
  link,         \* the share links table
  stored,       \* the objects of the store: <<picture, variant>>
  hosted,       \* the pictures whose upload was answered
  docRequest    \* what each handler is doing

docVars == <<document, link, stored, hosted, docRequest>>

DocumentRow ==
  [made : BOOLEAN, owner : Accounts \cup {Nobody},
   text : SUBSET Pictures, deleted : BOOLEAN]
LinkRow ==
  [doc : Documents \cup {NoDocument}, capability : Capabilities,
   revoked : BOOLEAN]
OwnerOps == {"save", "export", "delete", "share"}
LinkOps == {"link save", "link export", "link read"}
\* hopeless, ready: what held when the request came in; for the properties.
RequestState ==
  [at : {"idle", "begun", "in", "found", "rendering", "putting"},
   op : OwnerOps \cup LinkOps \cup {"none", "revoke", "upload"},
   who : Accounts \cup {Nobody}, doc : Documents \cup {NoDocument},
   link : Links \cup {NoLink}, text : SUBSET Pictures,
   left : SUBSET Pictures, got : SUBSET Pictures, puts : 0 .. 3,
   hopeless : BOOLEAN, ready : SUBSET Pictures]

IdleDocRequest ==
  [at |-> "idle", op |-> "none", who |-> Nobody, doc |-> NoDocument,
   link |-> NoLink, text |-> {}, left |-> {}, got |-> {}, puts |-> 0,
   hopeless |-> FALSE, ready |-> {}]

DocInit ==
  /\ document = [d \in Documents |->
                   [made |-> FALSE, owner |-> Nobody, text |-> {}, deleted |-> FALSE]]
  /\ link = [l \in Links |->
               [doc |-> NoDocument, capability |-> "view", revoked |-> FALSE]]
  /\ stored = {}
  /\ hosted = {}
  /\ docRequest = [h \in DocHandlers |-> IdleDocRequest]

Req(h) == docRequest[h]
Alive(d) == document[d].made /\ ~document[d].deleted
Active(l) == link[l].doc # NoDocument /\ ~link[l].revoked
\* The gate every change of a document and of its links goes through.
CanModify(d, who) == document[d].owner \in {Nobody, who}

Respond(h) == docRequest' = [docRequest EXCEPT ![h] = IdleDocRequest]
Goto(h, step) == docRequest' = [docRequest EXCEPT ![h].at = step]

(***************************************************************************)
(* Documents are created in one transaction, empty or from an upload the   *)
(* importers accept.                                                       *)
(***************************************************************************)
CreateDocument(d, who, text) ==
  /\ ~document[d].made
  /\ document' = [document EXCEPT ![d] =
                    [made |-> TRUE, owner |-> who, text |-> text, deleted |-> FALSE]]
  /\ UNCHANGED <<link, stored, hosted, docRequest>>

CreateEmpty(d, who) == CreateDocument(d, who, {})

UploadDocument(d, who, text) == CreateDocument(d, who, text)

----------------------------------------------------------------------------
(***************************************************************************)
(* A request of an owner, of anybody on an open document, or of a stranger.*)
(***************************************************************************)
BeginOwnerOp(h, op, who, d, l, text) ==
  /\ Req(h).at = "idle"
  /\ document[d].made
  /\ docRequest' = [docRequest EXCEPT ![h] =
       [IdleDocRequest EXCEPT !.at = "begun", !.op = op, !.who = who, !.doc = d,
                           !.link = IF op = "share" THEN l ELSE NoLink,
                           !.text = IF op = "save" THEN text ELSE {},
                           !.hopeless = document[d].deleted, !.ready = hosted]]
  /\ UNCHANGED <<document, link, stored, hosted>>

\* ensure_can_modify: 404 for a deleted document, 403 for somebody else's.
\* An export keeps the document it reads here.
EnsureCanModify(h) ==
  LET d == Req(h).doc IN
  /\ Req(h).at = "begun"
  /\ Req(h).op \in OwnerOps
  /\ IF ~Alive(d) \/ ~CanModify(d, Req(h).who) THEN Respond(h)
     ELSE IF Req(h).op = "export"
     THEN docRequest' = [docRequest EXCEPT ![h].at = "rendering",
                           ![h].text = document[d].text, ![h].left = document[d].text]
     ELSE Goto(h, "in")
  /\ UNCHANGED <<document, link, stored, hosted>>

\* update_html reads the row again, and refuses a deleted one.
FindForUpdate(h) ==
  /\ Req(h).at = "in"
  /\ Req(h).op \in {"save", "link save"}
  /\ IF Alive(Req(h).doc) THEN Goto(h, "found") ELSE Respond(h)
  /\ UNCHANGED <<document, link, stored, hosted>>

\* The UPDATE has only the key in its WHERE.
UpdateHtml(h) ==
  /\ Req(h).at = "found"
  /\ document' = [document EXCEPT ![Req(h).doc].text = Req(h).text]
  /\ Respond(h)
  /\ UNCHANGED <<link, stored, hosted>>

SoftDelete(h) ==
  /\ Req(h).at = "in"
  /\ Req(h).op = "delete"
  /\ document' = [document EXCEPT ![Req(h).doc].deleted = TRUE]
  /\ Respond(h)
  /\ UNCHANGED <<link, stored, hosted>>

CreateLink(h, capability) ==
  /\ Req(h).at = "in"
  /\ Req(h).op = "share"
  /\ link[Req(h).link].doc = NoDocument
  /\ link' = [link EXCEPT ![Req(h).link] =
                [doc |-> Req(h).doc, capability |-> capability, revoked |-> FALSE]]
  /\ Respond(h)
  /\ UNCHANGED <<document, stored, hosted>>

----------------------------------------------------------------------------
(***************************************************************************)
(* Share links.  A link that was never made and a revoked one are answered *)
(* alike, and so is a link to a deleted document.                          *)
(***************************************************************************)
BeginLinkOp(h, op, l, text) ==
  /\ Req(h).at = "idle"
  /\ link[l].doc # NoDocument
  /\ docRequest' = [docRequest EXCEPT ![h] =
       [IdleDocRequest EXCEPT !.at = "begun", !.op = op, !.link = l,
                           !.text = IF op = "link save" THEN text ELSE {},
                           !.hopeless = ~Active(l) \/ ~Alive(link[l].doc),
                           !.ready = hosted]]
  /\ UNCHANGED <<document, link, stored, hosted>>

\* Mutant: the capability treated as a rank.
GivesByRank(capability, op) == op = "link read" \/ capability # "view"

\* EDIT and EXPORT are not ordered: neither gives the other.
Gives(capability, op) ==
  \/ op = "link read"
  \/ op = "link save" /\ capability = "edit"
  \/ op = "link export" /\ capability = "export"

ResolveActiveShare(h) ==
  LET l == Req(h).link IN
  /\ Req(h).at = "begun"
  /\ Req(h).op \in LinkOps
  /\ IF Active(l) /\ Gives(link[l].capability, Req(h).op)
     THEN docRequest' = [docRequest EXCEPT ![h].at = "in", ![h].doc = link[l].doc]
     ELSE Respond(h)
  /\ UNCHANGED <<document, link, stored, hosted>>

\* What a link shows or exports is read after the link was.
ActiveDocument(h) ==
  LET d == Req(h).doc IN
  /\ Req(h).at = "in"
  /\ Req(h).op \in {"link read", "link export"}
  /\ IF ~Alive(d) THEN Respond(h)
     ELSE docRequest' = [docRequest EXCEPT ![h].at = "rendering",
                           ![h].text = document[d].text,
                           ![h].left = IF Req(h).op = "link export"
                                       THEN document[d].text ELSE {}]
  /\ UNCHANGED <<document, link, stored, hosted>>

BeginRevoke(h, who, l) ==
  /\ Req(h).at = "idle"
  /\ docRequest' = [docRequest EXCEPT ![h] =
       [IdleDocRequest EXCEPT !.at = "begun", !.op = "revoke", !.who = who, !.link = l]]
  /\ UNCHANGED <<document, link, stored, hosted>>

\* The link of a deleted document may be revoked by anybody.
MayRevoke(h) ==
  LET d == link[Req(h).link].doc IN
  /\ Req(h).at = "begun"
  /\ Req(h).op = "revoke"
  /\ IF d # NoDocument /\ (Alive(d) => CanModify(d, Req(h).who))
     THEN Goto(h, "in") ELSE Respond(h)
  /\ UNCHANGED <<document, link, stored, hosted>>

Revoke(h) ==
  /\ Req(h).at = "in"
  /\ Req(h).op = "revoke"
  /\ link' = [link EXCEPT ![Req(h).link].revoked = TRUE]
  /\ Respond(h)
  /\ UNCHANGED <<document, stored, hosted>>

----------------------------------------------------------------------------
(***************************************************************************)
(* Rendering fetches the hosted pictures one at a time; one the store does *)
(* not have is left to its alternative text.                               *)
(***************************************************************************)
Fetched(p) == {p} \cap {q \in Pictures : <<q, "original">> \in stored}

ResolveImage(h, p) ==
  /\ Req(h).at = "rendering"
  /\ p \in Req(h).left
  /\ docRequest' = [docRequest EXCEPT ![h].left = @ \ {p},
                                      ![h].got = @ \cup Fetched(p)]
  /\ UNCHANGED <<document, link, stored, hosted>>

AnswerRendered(h) ==
  /\ Req(h).at = "rendering"
  /\ Req(h).left = {}
  /\ Respond(h)
  /\ UNCHANGED <<document, link, stored, hosted>>

(***************************************************************************)
(* A picture that passes the checks is stored three times under the digest *)
(* of its bytes, and answered after the third.                             *)
(***************************************************************************)
BeginMedia(h, p) ==
  /\ Req(h).at = "idle"
  /\ docRequest' = [docRequest EXCEPT ![h] =
       [IdleDocRequest EXCEPT !.at = "putting", !.op = "upload", !.text = {p}]]
  /\ UNCHANGED <<document, link, stored, hosted>>

PutVariant(h) ==
  /\ Req(h).at = "putting"
  /\ Req(h).puts < 3
  /\ stored' = stored \cup (Req(h).text \X {Variants[Req(h).puts + 1]})
  /\ docRequest' = [docRequest EXCEPT ![h].puts = @ + 1]
  /\ UNCHANGED <<document, link, hosted>>

\* Mutant: the puts left to a background task.
AnswerMediaFirst(h) ==
  /\ Req(h).at = "putting"
  /\ hosted' = hosted \cup Req(h).text
  /\ UNCHANGED <<document, link, stored, docRequest>>

AnswerMedia(h) ==
  /\ Req(h).at = "putting"
  /\ Req(h).puts = 3
  /\ hosted' = hosted \cup Req(h).text
  /\ Respond(h)
  /\ UNCHANGED <<document, link, stored>>

\* The process or the connection to the store is lost.
DocRequestFails(h) ==
  /\ Req(h).at # "idle"
  /\ Respond(h)
  /\ UNCHANGED <<document, link, stored, hosted>>

----------------------------------------------------------------------------
DocHandle(h) ==
  \/ \E op \in OwnerOps, who \in Accounts \cup {Nobody}, d \in Documents,
        l \in Links, text \in SUBSET Pictures : BeginOwnerOp(h, op, who, d, l, text)
  \/ \E op \in LinkOps, l \in Links, text \in SUBSET Pictures :
        BeginLinkOp(h, op, l, text)
  \/ \E who \in Accounts \cup {Nobody}, l \in Links : BeginRevoke(h, who, l)
  \/ \E p \in Pictures : BeginMedia(h, p) \/ ResolveImage(h, p)
  \/ \E capability \in Capabilities : CreateLink(h, capability)
  \/ EnsureCanModify(h) \/ FindForUpdate(h) \/ UpdateHtml(h) \/ SoftDelete(h)
  \/ ResolveActiveShare(h) \/ ActiveDocument(h) \/ MayRevoke(h) \/ Revoke(h)
  \/ AnswerRendered(h) \/ PutVariant(h) \/ AnswerMedia(h)
  \/ DocRequestFails(h)

DocNext ==
  \/ \E d \in Documents, who \in Accounts \cup {Nobody} :
       \/ CreateEmpty(d, who)
       \/ \E text \in SUBSET Pictures : UploadDocument(d, who, text)
  \/ \E h \in DocHandlers : DocHandle(h)

DocSpec == DocInit /\ [][DocNext]_docVars

----------------------------------------------------------------------------
\* Rows, objects and requests have the fields the code gives them.
DocTypeOK ==
  /\ document \in [Documents -> DocumentRow]
  /\ link \in [Links -> LinkRow]
  /\ stored \in SUBSET (Pictures \X {"original", "display", "thumb"})
  /\ hosted \in SUBSET Pictures
  /\ docRequest \in [DocHandlers -> RequestState]

\* The text of a document is only ever changed by somebody entitled to it:
\* its owner, anybody when it has none, or the holder of an EDIT link to this
\* very document; and never by a request that came in after the document was
\* deleted or the link revoked.
WritesAreEntitled ==
  [][\A d \in Documents :
       document[d].made /\ document'[d].text # document[d].text =>
         \E h \in DocHandlers :
           /\ Req(h).at = "found" /\ Req(h).doc = d /\ docRequest'[h].at = "idle"
           /\ ~Req(h).hopeless
           /\ \/ Req(h).op = "save" /\ document[d].owner \in {Nobody, Req(h).who}
              \/ /\ Req(h).op = "link save"
                 /\ link[Req(h).link].doc = d
                 /\ link[Req(h).link].capability = "edit"]_docVars

\* An export has every picture of the document whose upload was answered
\* before the export was asked for, whatever uploads died half way.
ExportHasItsPictures ==
  \A h \in DocHandlers :
    Req(h).at = "rendering" /\ Req(h).op # "link read" /\ Req(h).left = {} =>
      Req(h).text \cap Req(h).ready \subseteq Req(h).got
=============================================================================
