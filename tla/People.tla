------------------------------- MODULE People -------------------------------
(***************************************************************************)
(* The accounts and the books the server's components share, and who wrote *)
(* which book (pub.book.author_id).                                        *)
(***************************************************************************)
CONSTANTS Accounts, Books, BookAuthor

ASSUME PeopleAssumption == BookAuthor \in [Books -> Accounts]
=============================================================================
