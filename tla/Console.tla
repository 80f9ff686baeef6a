------------------------------ MODULE Console ------------------------------
(***************************************************************************)
(* The operators' console: signing in with a password, acting on payouts,  *)
(* proofs of age, orders, accounts, books and reports, and the record of   *)
(* each act.  An act is a transaction of the component it acts on; its     *)
(* record is a later one of another session.  Reports are kept here, the   *)
(* other entities only by the status an act turns on.                      *)
(***************************************************************************)
EXTENDS Integers, FiniteSets, FiniteSetsExt

CONSTANTS Clerks,         \* operators
          Entities, KindOf,  \* what can be acted on: ids and their kinds
          MaxActs         \* bound: acts that take effect

EntityKinds == {"PAYOUT", "AGE", "ORDER", "ACCOUNT", "BOOK", "REPORT"}

ASSUME ConsoleAssumption == MaxActs \in Nat /\ KindOf \in [Entities -> EntityKinds]

VARIABLES clerk,   \* potato.operator: whether active
          badge,   \* operators with a token that has not run out
          entity,  \* the status of an entity
          deed,    \* the acts under way
          done,    \* history: <<operator, action, entity>> of the acts that took effect
          audit    \* potato.audit_log: how many records of each

consoleVars == <<clerk, badge, entity, deed, done, audit>>

NoDeed == "no deed"
\* What each kind can be told, from which status to which.  Under a lock,
\* "from" is read again; the others are written whatever they are.
Act(kind) ==
    CASE kind = "PAYOUT"  -> [PAYOUT_APPROVE |-> [from |-> {"REQUESTED"}, to |-> "APPROVED"],
                              PAYOUT_PAID    |-> [from |-> {"APPROVED"}, to |-> "PAID"],
                              PAYOUT_REJECT  |-> [from |-> {"REQUESTED", "APPROVED"}, to |-> "REJECTED"]]
      [] kind = "AGE"     -> [AGE_VERIFICATION_APPROVE |-> [from |-> {"PENDING"}, to |-> "APPROVED"],
                              AGE_VERIFICATION_REJECT  |-> [from |-> {"PENDING"}, to |-> "REJECTED"]]
      [] kind = "ORDER"   -> [ORDER_REFUND |-> [from |-> {"PAID"}, to |-> "REFUNDED"]]
      [] kind = "ACCOUNT" -> [SUSPEND |-> [from |-> {"ACTIVE", "SUSPENDED"}, to |-> "SUSPENDED"],
                              UNSUSPEND |-> [from |-> {"ACTIVE", "SUSPENDED"}, to |-> "ACTIVE"]]
      [] kind = "BOOK"    -> [TAKEDOWN |-> [from |-> {"shown", "blocked"}, to |-> "blocked"],
                              RESTORE |-> [from |-> {"shown", "blocked"}, to |-> "shown"]]
      [] kind = "REPORT"  -> [RESOLVE |-> [from |-> {"OPEN", "RESOLVED", "DISMISSED"}, to |-> "RESOLVED"],
                              DISMISS |-> [from |-> {"OPEN", "RESOLVED", "DISMISSED"}, to |-> "DISMISSED"]]

FirstStatus(kind) == CASE kind = "PAYOUT" -> "REQUESTED" [] kind = "AGE" -> "PENDING" [] kind = "ORDER" -> "PAID"
                       [] kind = "ACCOUNT" -> "ACTIVE" [] kind = "BOOK" -> "shown" [] kind = "REPORT" -> "NONE"
Statuses(kind) == {FirstStatus(kind)} \cup UNION {Act(kind)[a].from \cup {Act(kind)[a].to} : a \in DOMAIN Act(kind)}
Actions == UNION {DOMAIN Act(k) : k \in EntityKinds}
Deeds == {t \in Clerks \X Actions \X Entities : t[2] \in DOMAIN Act(KindOf[t[3]])}
TotalOf(log) == MapThenSumSet(LAMBDA t : log[t], Deeds)
IdleDeed == [step |-> "idle", action |-> NoDeed, e |-> NoDeed]

DeedRow == [step : {"idle", "act", "record"}, action : Actions \cup {NoDeed}, e : Entities \cup {NoDeed}]

ConsoleTypeOK ==
    /\ clerk \in [Clerks -> BOOLEAN] /\ badge \subseteq Clerks
    /\ DOMAIN entity = Entities /\ \A e \in Entities : entity[e] \in Statuses(KindOf[e])
    /\ deed \in [Clerks -> DeedRow]
    /\ DOMAIN done = Deeds /\ DOMAIN audit = Deeds
    /\ \A t \in Deeds : done[t] \in Nat /\ audit[t] \in Nat

ConsoleInit ==
    /\ clerk = [o \in Clerks |-> TRUE]
    /\ badge = {}
    /\ entity = [e \in Entities |-> FirstStatus(KindOf[e])]
    /\ deed = [o \in Clerks |-> IdleDeed]
    /\ done = [t \in Deeds |-> 0]
    /\ audit = done

\* login: the password is right and the operator active.
OperatorSignsIn(o) ==
    /\ clerk[o]
    /\ badge' = badge \cup {o}
    /\ UNCHANGED <<clerk, entity, deed, done, audit>>

\* The token carries the role; that the operator is still active is not
\* asked again.
Deactivate(o) ==
    /\ clerk[o]
    /\ clerk' = [clerk EXCEPT ![o] = FALSE]
    /\ UNCHANGED <<badge, entity, deed, done, audit>>

BadgeExpires(o) ==
    /\ badge' = badge \ {o}
    /\ UNCHANGED <<clerk, entity, deed, done, audit>>

\* A customer reports something (reports: submit).
SubmitReport(e) ==
    /\ KindOf[e] = "REPORT" /\ entity[e] = "NONE"
    /\ entity' = [entity EXCEPT ![e] = "OPEN"]
    /\ UNCHANGED <<clerk, badge, deed, done, audit>>

\* An operator's request is let in, on what the console showed at the time.
StartDeed(o, e, action) ==
    /\ o \in badge
    /\ deed[o] = IdleDeed
    /\ action \in DOMAIN Act(KindOf[e])
    /\ entity[e] \in Act(KindOf[e])[action].from
    /\ deed' = [deed EXCEPT ![o] = [step |-> "act", action |-> action, e |-> e]]
    /\ UNCHANGED <<clerk, badge, entity, done, audit>>

\* Mutant: the status is not looked at again.
ActBlindly(o) ==
    LET d == deed[o] IN
    /\ d.step = "act"
    /\ TotalOf(done) < MaxActs
    /\ entity' = [entity EXCEPT ![d.e] = Act(KindOf[d.e])[d.action].to]
    /\ done' = [done EXCEPT ![<<o, d.action, d.e>>] = @ + 1]
    /\ deed' = [deed EXCEPT ![o].step = "record"]
    /\ UNCHANGED <<clerk, badge, audit>>

\* The component carries it out, or refuses because of what it is by now.
TakeEffect(o) ==
    LET d == deed[o]
        act == Act(KindOf[d.e])[d.action]
    IN
    /\ d.step = "act"
    /\ IF entity[d.e] \in act.from
       THEN /\ TotalOf(done) < MaxActs
            /\ entity' = [entity EXCEPT ![d.e] = act.to]
            /\ done' = [done EXCEPT ![<<o, d.action, d.e>>] = @ + 1]
            /\ deed' = [deed EXCEPT ![o].step = "record"]
       ELSE /\ deed' = [deed EXCEPT ![o] = IdleDeed]
            /\ UNCHANGED <<entity, done>>
    /\ UNCHANGED <<clerk, badge, audit>>

RecordDeed(o) ==
    LET d == deed[o] IN
    /\ d.step = "record"
    /\ audit' = [audit EXCEPT ![<<o, d.action, d.e>>] = @ + 1]
    /\ deed' = [deed EXCEPT ![o] = IdleDeed]
    /\ UNCHANGED <<clerk, badge, entity, done>>

\* The process dies.
ConsoleCrash ==
    /\ deed' = [o \in Clerks |-> IdleDeed]
    /\ UNCHANGED <<clerk, badge, entity, done, audit>>

ConsoleNext ==
    \/ \E o \in Clerks :
        \/ OperatorSignsIn(o) \/ Deactivate(o) \/ BadgeExpires(o) \/ TakeEffect(o) \/ RecordDeed(o)
        \/ \E e \in Entities, a \in Actions : StartDeed(o, e, a)
    \/ \E e \in Entities : SubmitReport(e)
    \/ ConsoleCrash

ConsoleSpec == ConsoleInit /\ [][ConsoleNext]_consoleVars

-----------------------------------------------------------------------------
(* Properties *)

Final == {"PAYOUT_PAID", "PAYOUT_REJECT", "AGE_VERIFICATION_APPROVE", "AGE_VERIFICATION_REJECT", "ORDER_REFUND"}
FinalDeeds == [e \in Entities |-> {t \in Deeds : t[3] = e /\ t[2] \in Final}]
DecidedBy(log, e) == {t \in FinalDeeds[e] : log[t] > 0}

\* A payout is paid or rejected once, an order refunded once, a proof of age
\* decided once, and the log names one operator for it, whatever the console
\* showed the operators when they asked.
OneDecision(log) ==
    \A e \in Entities : \A t, u \in DecidedBy(log, e) : t = u /\ log[t] = 1
DecidedOnce == OneDecision(done) /\ OneDecision(audit)

\* potato: audit.record comes after the act and only if it was not refused,
\* so that no record is of something that did not happen.
AuditIsOfDeeds == \A t \in Deeds : audit[t] <= done[t]

\* What was done is done once, and what is on record was done.
ConsoleSafety == DecidedOnce /\ AuditIsOfDeeds
=============================================================================
