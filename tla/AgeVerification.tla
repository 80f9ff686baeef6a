--------------------------- MODULE AgeVerification ---------------------------
(***************************************************************************)
(* Proof of age: an account sends a photo of an ID, operators approve or   *)
(* reject it under a lock of its row.  The photo, the request, the tier of *)
(* the account and the deletion of the photo are separate steps, between   *)
(* which the process may die.                                              *)
(***************************************************************************)
EXTENDS Integers, FiniteSets, People

CONSTANTS ProofIds,       \* bound: submissions there can be
          AgeHandlers,    \* submissions at a time
          Reviewing       \* operators at work

\* The value that stands for a missing key is none.
ASSUME AgeAssumption == "no one" \notin ProofIds

VARIABLES proof,     \* usr.age_verification_request, keyed as its photo
          photos,    \* the photos on disk
          tier,      \* accounts with verified_tier AGE18
          submission,\* the submissions under way
          review,    \* the reviews under way
          crashed    \* history: photos whose submission or review the process did not survive

ageVars == <<proof, photos, tier, submission, review, crashed>>

NoOne == "no one"
Decisions == {"APPROVED", "REJECTED"}
NoProof == [status |-> "NONE", account |-> NoOne, photo |-> FALSE]
IdleSubmission == [step |-> "idle", account |-> NoOne, key |-> NoOne]
IdleReview == [step |-> "idle", key |-> NoOne, decision |-> "REJECTED"]

ProofRow == {NoProof} \cup [status : {"PENDING"} \cup Decisions, account : Accounts, photo : BOOLEAN]
Submission == [step : {"idle", "save", "insert"}, account : Accounts \cup {NoOne}, key : ProofIds \cup {NoOne}]
Review == [step : {"idle", "decide", "tier", "delete"}, key : ProofIds \cup {NoOne}, decision : Decisions]

AgeTypeOK ==
    /\ proof \in [ProofIds -> ProofRow]
    /\ photos \subseteq ProofIds /\ tier \subseteq Accounts /\ crashed \subseteq ProofIds
    /\ submission \in [AgeHandlers -> Submission]
    /\ review \in [Reviewing -> Review]

AgeInit ==
    /\ proof = [k \in ProofIds |-> NoProof]
    /\ photos = {} /\ tier = {} /\ crashed = {}
    /\ submission = [h \in AgeHandlers |-> IdleSubmission]
    /\ review = [o \in Reviewing |-> IdleReview]

Pending(a) == {k \in ProofIds : proof[k].status = "PENDING" /\ proof[k].account = a}

-----------------------------------------------------------------------------
(* The customer *)

\* submit: refused if a request is pending; two pending ones make it raise.
StartSubmit(h, a) ==
    /\ submission[h] = IdleSubmission
    /\ Pending(a) = {}
    /\ submission' = [submission EXCEPT ![h] = [step |-> "save", account |-> a, key |-> NoOne]]
    /\ UNCHANGED <<proof, photos, tier, review, crashed>>

SavePhoto(h, k) ==
    /\ submission[h].step = "save"
    /\ proof[k] = NoProof /\ k \notin photos \cup crashed
    /\ \A g \in AgeHandlers : submission[g].key # k
    /\ photos' = photos \cup {k}
    /\ submission' = [submission EXCEPT ![h].step = "insert", ![h].key = k]
    /\ UNCHANGED <<proof, tier, review, crashed>>

CreateProof(h) ==
    LET s == submission[h] IN
    /\ s.step = "insert"
    /\ proof' = [proof EXCEPT ![s.key] = [status |-> "PENDING", account |-> s.account, photo |-> TRUE]]
    /\ submission' = [submission EXCEPT ![h] = IdleSubmission]
    /\ UNCHANGED <<photos, tier, review, crashed>>

-----------------------------------------------------------------------------
(* The operators *)

\* approve and reject read the request, with the key of its photo ...
StartReview(o, k, decision) ==
    /\ review[o] = IdleReview
    /\ proof[k].status = "PENDING"
    /\ review' = [review EXCEPT ![o] = [step |-> "decide", key |-> k, decision |-> decision]]
    /\ UNCHANGED <<proof, photos, tier, submission, crashed>>

\* Mutant: only an approval deletes the photo.
RejectKeepsPhoto(o) ==
    LET r == review[o]
        open == proof[r.key].status = "PENDING"
        next == IF r.decision = "APPROVED" THEN [r EXCEPT !.step = "tier"] ELSE IdleReview
    IN
    /\ r.step = "decide"
    /\ proof' = IF open THEN [proof EXCEPT ![r.key].status = r.decision, ![r.key].photo = FALSE] ELSE proof
    /\ review' = [review EXCEPT ![o] = IF open THEN next ELSE IdleReview]
    /\ UNCHANGED <<photos, tier, submission, crashed>>

\* ... and decide it under a lock if it is still pending.
Decide(o) ==
    LET r == review[o]
        open == proof[r.key].status = "PENDING"
        next == IF r.decision = "APPROVED" THEN "tier" ELSE "delete"
    IN
    /\ r.step = "decide"
    /\ proof' = IF open THEN [proof EXCEPT ![r.key].status = r.decision, ![r.key].photo = FALSE] ELSE proof
    /\ review' = [review EXCEPT ![o] = IF open THEN [r EXCEPT !.step = next] ELSE IdleReview]
    /\ UNCHANGED <<photos, tier, submission, crashed>>

SetVerifiedTier(o) ==
    LET r == review[o] IN
    /\ r.step = "tier"
    /\ tier' = tier \cup {proof[r.key].account}
    /\ review' = [review EXCEPT ![o].step = "delete"]
    /\ UNCHANGED <<proof, photos, submission, crashed>>

\* The file may resist; that is logged and the review stands.
DeletePhoto(o) ==
    LET r == review[o] IN
    /\ r.step = "delete"
    /\ \/ photos' = photos \ {r.key} /\ UNCHANGED crashed
       \/ UNCHANGED photos /\ crashed' = crashed \cup {r.key}
    /\ review' = [review EXCEPT ![o] = IdleReview]
    /\ UNCHANGED <<proof, tier, submission>>

\* The process dies; what is not stored is lost.
AgeCrash ==
    /\ crashed' = (crashed \cup {submission[h].key : h \in AgeHandlers} \cup {review[o].key : o \in Reviewing}) \ {NoOne}
    /\ submission' = [h \in AgeHandlers |-> IdleSubmission]
    /\ review' = [o \in Reviewing |-> IdleReview]
    /\ UNCHANGED <<proof, photos, tier>>

\* get_photo: what an operator is shown.
ShownPhotos == {k \in ProofIds : proof[k].photo /\ k \in photos}

AgeNext ==
    \/ \E h \in AgeHandlers : \/ CreateProof(h)
                              \/ \E a \in Accounts : StartSubmit(h, a)
                              \/ \E k \in ProofIds : SavePhoto(h, k)
    \/ \E o \in Reviewing : \/ Decide(o) \/ SetVerifiedTier(o) \/ DeletePhoto(o)
                            \/ \E k \in ProofIds, d \in Decisions : StartReview(o, k, d)
    \/ AgeCrash

AgeSpec == AgeInit /\ [][AgeNext]_ageVars

-----------------------------------------------------------------------------
(* Properties *)

\* An account is verified only by a request that was approved and stays so,
\* though two operators decide on it differently at the same time.
VerifiedWasApproved ==
    \A a \in tier : \E k \in ProofIds : proof[k].account = a /\ proof[k].status = "APPROVED"

\* The photo of an ID is kept for the review only: when it has been decided
\* and nobody is at it any more, it is gone, unless the process died or the
\* disk refused on the way; and an operator is shown the photo of a pending
\* request only.
PhotoGoesWithTheDecision ==
    /\ \A k \in photos \ crashed : \/ proof[k].status = "PENDING"
                                   \/ \E h \in AgeHandlers : submission[h].key = k
                                   \/ \E o \in Reviewing : review[o].key = k
    /\ \A k \in ShownPhotos : proof[k].status = "PENDING"

\* What a decision of an operator leaves behind.
AgeSafety == VerifiedWasApproved /\ PhotoGoesWithTheDecision
=============================================================================
