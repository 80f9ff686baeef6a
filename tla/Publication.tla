----------------------------- MODULE Publication -----------------------------
(***************************************************************************)
(* What the catalog promises about a book, seen from outside: it gets a    *)
(* price, then it may be published and withdrawn as often as one likes; an *)
(* operator takes it down and only an operator lifts that; a book somebody *)
(* ordered is not deleted, and a deleted one is gone for good.  Catalog    *)
(* implements this.                                                        *)
(***************************************************************************)
CONSTANTS Books, Buyers

VARIABLES shelf,    \* "unpriced", "priced", "published" or "gone"
          down,     \* books an operator took down
          lifting,  \* books an operator has asked to restore
          bought    \* who has an order of a book

publicationVars == <<shelf, down, lifting, bought>>

PublicationInit ==
    /\ shelf = [b \in Books |-> "unpriced"]
    /\ down = {} /\ lifting = {}
    /\ bought = [b \in Books |-> {}]

Price(b) ==
    /\ shelf[b] = "unpriced"
    /\ shelf' = [shelf EXCEPT ![b] = "priced"]
    /\ UNCHANGED <<down, lifting, bought>>

\* One book by its author, or all that are due by the scheduler.
Publish(books) ==
    /\ \A b \in books : shelf[b] \in {"priced", "published"}
    /\ shelf' = [b \in Books |-> IF b \in books THEN "published" ELSE shelf[b]]
    /\ UNCHANGED <<down, lifting, bought>>

Withdraw(b) ==
    /\ shelf[b] = "published"
    /\ shelf' = [shelf EXCEPT ![b] = "priced"]
    /\ UNCHANGED <<down, lifting, bought>>

Delete(b) ==
    /\ shelf[b] # "gone" /\ bought[b] = {}
    /\ shelf' = [shelf EXCEPT ![b] = "gone"]
    /\ down' = down \ {b}
    /\ UNCHANGED <<lifting, bought>>

TakeDown(b) ==
    /\ shelf[b] # "gone"
    /\ down' = down \cup {b}
    /\ UNCHANGED <<shelf, lifting, bought>>

AskToLift(b) ==
    /\ lifting' = lifting \cup {b}
    /\ UNCHANGED <<shelf, down, bought>>

\* Another operator may have asked for the same.
Lift(b) ==
    /\ b \in lifting /\ shelf[b] # "gone"
    /\ down' = down \ {b}
    /\ lifting' \in {lifting, lifting \ {b}}
    /\ UNCHANGED <<shelf, bought>>

\* There was nothing to lift, or the book is gone.
LeaveAsItIs(b) ==
    /\ lifting' = lifting \ {b}
    /\ UNCHANGED <<shelf, down, bought>>

Buy(r, b) ==
    /\ shelf[b] # "gone"
    /\ bought' = [bought EXCEPT ![b] = @ \cup {r}]
    /\ UNCHANGED <<shelf, down, lifting>>

PublicationNext ==
    \/ \E b \in Books : \/ Price(b) \/ Withdraw(b) \/ Delete(b)
                        \/ TakeDown(b) \/ AskToLift(b) \/ Lift(b) \/ LeaveAsItIs(b)
                        \/ \E r \in Buyers : Buy(r, b)
    \/ \E books \in SUBSET Books : Publish(books)

PublicationSpec == PublicationInit /\ [][PublicationNext]_publicationVars

\* An order keeps its book: what was bought is not deleted.
BoughtIsKept == \A b \in Books : bought[b] # {} => shelf[b] # "gone"
=============================================================================
