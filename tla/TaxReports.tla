----------------------------- MODULE TaxReports ------------------------------
(***************************************************************************)
(* What the tax reports promise, seen from the tax office: a payment is    *)
(* made, then entered once, under the income type of the report that came  *)
(* first, and it counts as reported only once it is entered.  Woncheon     *)
(* implements this.                                                        *)
(***************************************************************************)
CONSTANTS Payments, Types

VARIABLES paid,      \* payments made
          entries,   \* the types a payment was entered under
          marked     \* payments that count as reported

taxVars == <<paid, entries, marked>>

TaxInit == paid = {} /\ entries = [p \in Payments |-> {}] /\ marked = {}

Pay(p) ==
    /\ p \notin paid
    /\ paid' = paid \cup {p}
    /\ UNCHANGED <<entries, marked>>

Enter(p, type) ==
    /\ p \in paid /\ entries[p] = {}
    /\ entries' = [entries EXCEPT ![p] = {type}]
    /\ UNCHANGED <<paid, marked>>

Mark(p) ==
    /\ entries[p] # {}
    /\ marked' = marked \cup {p}
    /\ UNCHANGED <<paid, entries>>

TaxNext == \E p \in Payments : Pay(p) \/ Mark(p) \/ \E type \in Types : Enter(p, type)

TaxSpec == TaxInit /\ [][TaxNext]_taxVars

\* An entry stands, whatever is registered for the payment later, and what
\* counts as reported was paid.
EntriesStand ==
    [][\A p \in Payments : entries[p] # {} => entries'[p] = entries[p] /\ p \in paid']_taxVars
=============================================================================
