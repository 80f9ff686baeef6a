----------------------------- MODULE PeopleProofs -----------------------------
(***************************************************************************)
(* The server's components that customers and operators act on, for any    *)
(* number of accounts, requests and operators.                             *)
(***************************************************************************)
EXTENDS Identity, AgeVerification, Notifications, Woncheon, Console, FiniteSetTheorems, TLAPS

-----------------------------------------------------------------------------
(* Identity *)

\* A row that was made stays, whoever holds on to it, and is found by the
\* credential of the profile it was made for until its owner withdraws.
RowsAreMadeForProfiles ==
    /\ \A a \in Accounts : account[a] # Free <=> madeFor[a] # NoProfile
    /\ \A a \in Accounts \ left : account[a] # Free => credential[madeFor[a]] = a
    /\ \A p \in Profiles : credential[p] # NoAccount => account[credential[p]] # Free
    /\ \A a \in left : account[a] # Free /\ account[a].email = NoEmail /\ \A p \in Profiles : credential[p] # a
RequestsAreOnRows ==
    /\ \A h \in LoginHandlers : signIn[h].step # "idle" => signIn[h].profile \in Profiles
    /\ \A h \in LoginHandlers : signIn[h].step = "issue" => signIn[h].found \in Accounts /\ account[signIn[h].found] # Free
    /\ \A t \in token : account[t[2]] # Free
    /\ \A o \in Operators : standing[o] # IdleStanding =>
         /\ standing[o].a \in Accounts /\ account[standing[o].a] # Free
         /\ standing[o].to \in AccountStatus
IdentityInv == IdentityTypeOK /\ RowsAreMadeForProfiles /\ RequestsAreOnRows

LEMMA NoneIsNoRow == NoAccount \notin Accounts /\ NoProfile \notin Profiles /\ NoAccount \notin AccountStatus
  BY IdentityAssumption DEF NoAccount, NoProfile, AccountStatus

LEMMA IdentityInvInit == IdentityInit => IdentityInv
  <1> SUFFICES ASSUME IdentityInit PROVE IdentityInv
    OBVIOUS
  <1> USE NoneIsNoRow DEF IdentityInit
  <1>1. IdentityTypeOK
    BY DEF IdentityTypeOK, AccountRow, SignIn, Standing, IdleSignIn, IdleStanding
  <1>2. RowsAreMadeForProfiles
    BY DEF RowsAreMadeForProfiles
  <1>3. RequestsAreOnRows
    BY DEF RequestsAreOnRows, IdleSignIn
  <1>4. QED
    BY <1>1, <1>2, <1>3 DEF IdentityInv

LEMMA IdentityInvNext == IdentityInv /\ [IdentityNext]_identityVars => IdentityInv'
  <1> SUFFICES ASSUME IdentityTypeOK, RowsAreMadeForProfiles, RequestsAreOnRows, [IdentityNext]_identityVars
               PROVE  IdentityInv'
    BY DEF IdentityInv
  <1> USE NoneIsNoRow
  <1>1. ASSUME NEW h \in LoginHandlers, NEW p \in Profiles, StartSignIn(h, p)
        PROVE  IdentityInv'
    <2>1. IdentityTypeOK'
      BY <1>1 DEF IdentityTypeOK, SignIn, StartSignIn
    <2>2. RowsAreMadeForProfiles'
      BY <1>1 DEF RowsAreMadeForProfiles, StartSignIn
    <2>3. RequestsAreOnRows'
      BY <1>1 DEF RequestsAreOnRows, RowsAreMadeForProfiles, IdentityTypeOK, StartSignIn
    <2>4. QED
      BY <2>1, <2>2, <2>3 DEF IdentityInv
  <1>2. ASSUME NEW h \in LoginHandlers, NEW a \in Accounts, CreateAccount(h, a)
        PROVE  IdentityInv'
    <2>1. PICK p \in Profiles : p = signIn[h].profile
      BY <1>2 DEF CreateAccount, RequestsAreOnRows
    <2>2. [status |-> "ACTIVE", email |-> EmailOf[p]] \in AccountRow \ {Free}
      BY DEF AccountRow, AccountStatus, Free
    <2>3. [signIn[h] EXCEPT !.step = "issue", !.found = a] \in SignIn
      BY DEF IdentityTypeOK, SignIn
    <2>4. IdentityTypeOK'
      BY <1>2, <2>1, <2>2, <2>3 DEF IdentityTypeOK, CreateAccount
    <2>5. a \notin left /\ account'[a] # Free
      BY <1>2, <2>1, <2>2 DEF CreateAccount, RowsAreMadeForProfiles, IdentityTypeOK
    <2>6. RowsAreMadeForProfiles'
      <3>1. /\ madeFor'[a] = p /\ credential'[p] = a /\ credential[p] = NoAccount /\ left' = left
            /\ \A b \in Accounts : b # a => account'[b] = account[b] /\ madeFor'[b] = madeFor[b]
            /\ \A q \in Profiles : q # p => credential'[q] = credential[q]
        BY <1>2, <2>1 DEF CreateAccount, IdentityTypeOK
      <3>2. left \subseteq Accounts /\ \A b \in Accounts : madeFor[b] \in Profiles \cup {NoProfile}
        BY DEF IdentityTypeOK
      <3>3. \A b \in Accounts \ left' : account'[b] # Free => credential'[madeFor'[b]] = b
        BY <2>1, <3>1, <3>2 DEF RowsAreMadeForProfiles
      <3>4. \A b \in left' : account'[b] # Free /\ account'[b].email = NoEmail /\ \A q \in Profiles : credential'[q] # b
        BY <2>1, <2>5, <3>1, <3>2 DEF RowsAreMadeForProfiles
      <3>5. (\A b \in Accounts : account[b] # Free <=> madeFor[b] # NoProfile)'
        BY <2>1, <2>5, <3>1, <3>2 DEF RowsAreMadeForProfiles
      <3>6. (\A q \in Profiles : credential[q] # NoAccount => account[credential[q]] # Free)'
        BY <2>1, <2>5, <3>1, <3>2 DEF RowsAreMadeForProfiles, IdentityTypeOK
      <3>7. QED
        BY <3>3, <3>4, <3>5, <3>6 DEF RowsAreMadeForProfiles
    <2>7. RequestsAreOnRows'
      BY <1>2, <2>1, <2>5 DEF RequestsAreOnRows, IdentityTypeOK, SignIn, CreateAccount
    <2>8. QED
      BY <2>4, <2>6, <2>7 DEF IdentityInv
  <1>3. ASSUME NEW h \in LoginHandlers, CreateRaises(h)
        PROVE  IdentityInv'
    BY <1>3 DEF IdentityTypeOK, SignIn, RowsAreMadeForProfiles, RequestsAreOnRows, CreateRaises, IdleSignIn, IdentityInv
  <1>4. ASSUME NEW h \in LoginHandlers, IssueToken(h)
        PROVE  IdentityInv'
    <2>1. <<signIn[h].profile, signIn[h].found>> \in Profiles \X Accounts /\ account[signIn[h].found] # Free
      BY <1>4 DEF IssueToken, RequestsAreOnRows
    <2>2. IdentityTypeOK'
      BY <1>4, <2>1 DEF IdentityTypeOK, SignIn, IssueToken, IdleSignIn
    <2>3. RowsAreMadeForProfiles'
      BY <1>4 DEF RowsAreMadeForProfiles, IssueToken
    <2>a. \A g \in LoginHandlers : signIn'[g] = signIn[g] \/ signIn'[g] = IdleSignIn
      BY <1>4 DEF IdentityTypeOK, IssueToken
    <2>b. \A t \in token' : account[t[2]] # Free
      BY <1>4, <2>1 DEF RequestsAreOnRows, IssueToken
    <2>4. RequestsAreOnRows'
      BY <1>4, <2>a, <2>b DEF RequestsAreOnRows, IssueToken, IdleSignIn
    <2>5. QED
      BY <2>2, <2>3, <2>4 DEF IdentityInv
  <1>5. ASSUME NEW t \in token, TokenExpires(t)
        PROVE  IdentityInv'
    BY <1>5 DEF IdentityTypeOK, RowsAreMadeForProfiles, RequestsAreOnRows, TokenExpires, IdentityInv
  <1>6. ASSUME NEW t \in token, Withdraw(t[1], t[2])
        PROVE  IdentityInv'
    <2> DEFINE a == t[2]
               row == [status |-> "DELETED", email |-> NoEmail]
    <2>1. a \in Accounts /\ account[a] # Free
      BY DEF IdentityTypeOK, RequestsAreOnRows
    <2>2. row \in AccountRow \ {Free}
      BY DEF AccountRow, AccountStatus, Free
    <2>3. account'[a] # Free /\ account'[a].email = NoEmail
      BY <1>6, <2>1, <2>2 DEF Withdraw, IdentityTypeOK
    <2>4. \A b \in Accounts : b # a => account'[b] = account[b]
      BY <1>6 DEF Withdraw, IdentityTypeOK
    <2>5. IdentityTypeOK'
      BY <1>6, <2>1, <2>2 DEF IdentityTypeOK, Withdraw
    <2>6. RowsAreMadeForProfiles'
      <3>1. \A b \in Accounts \ left' : account'[b] # Free => account[b] # Free /\ b # a /\ b \notin left
        BY <1>6, <2>4 DEF Withdraw
      <3>2. \A p \in Profiles : credential'[p] = IF credential[p] = a THEN NoAccount ELSE credential[p]
        BY <1>6 DEF Withdraw
      <3>3. QED
        <4>1. /\ \A b \in Accounts : madeFor'[b] = madeFor[b] /\ madeFor[b] \in Profiles \cup {NoProfile}
              /\ left' = left \cup {a} /\ left' \subseteq Accounts
              /\ \A p \in Profiles : credential[p] \in Accounts \cup {NoAccount}
          BY <1>6, <2>1 DEF Withdraw, IdentityTypeOK
        <4>2. \A b \in Accounts : account'[b] # Free <=> account[b] # Free
          BY <2>1, <2>3, <2>4
        <4>3. (\A b \in left : account[b] # Free /\ account[b].email = NoEmail /\ \A p \in Profiles : credential[p] # b)'
          BY <2>1, <2>3, <2>4, <3>2, <4>1, <4>2 DEF RowsAreMadeForProfiles
        <4>4. (\A b \in Accounts \ left : account[b] # Free => credential[madeFor[b]] = b)'
          BY <3>1, <3>2, <4>1 DEF RowsAreMadeForProfiles
        <4>5. QED
          BY <3>2, <4>1, <4>2, <4>3, <4>4 DEF RowsAreMadeForProfiles
    <2>7. RequestsAreOnRows'
      BY <1>6, <2>1, <2>3, <2>4 DEF RequestsAreOnRows, IdentityTypeOK, Withdraw
    <2>8. QED
      BY <2>5, <2>6, <2>7 DEF IdentityInv
  <1>7. ASSUME NEW o \in Operators, NEW a \in Accounts, NEW to \in {"ACTIVE", "SUSPENDED"},
               LoadStanding(o, a, to)
        PROVE  IdentityInv'
    <2>1. account[a].status \in AccountStatus \cup {NoAccount}
      <3>1. \A row \in AccountRow : row.status \in AccountStatus \cup {NoAccount}
        BY DEF AccountRow, Free
      <3>2. QED
        BY <3>1 DEF IdentityTypeOK
    <2>2. IdentityTypeOK'
      BY <1>7, <2>1 DEF IdentityTypeOK, Standing, LoadStanding, AccountStatus
    <2>3. RowsAreMadeForProfiles'
      BY <1>7 DEF RowsAreMadeForProfiles, LoadStanding
    <2>4. RequestsAreOnRows'
      BY <1>7 DEF RequestsAreOnRows, IdentityTypeOK, LoadStanding, AccountStatus
    <2>5. QED
      BY <2>2, <2>3, <2>4 DEF IdentityInv
  <1>8. ASSUME NEW o \in Operators, SetStanding(o)
        PROVE  IdentityInv'
    <2> DEFINE s == standing[o]
               row == [account[s.a] EXCEPT !.status = s.to]
    <2>1. s.a \in Accounts /\ account[s.a] # Free /\ s.to \in AccountStatus
      BY <1>8 DEF SetStanding, RequestsAreOnRows
    <2>2. account[s.a] \in [status : AccountStatus, email : {NoEmail} \cup {EmailOf[p] : p \in Profiles}]
      BY <2>1 DEF IdentityTypeOK, AccountRow
    <2>3. row \in AccountRow /\ row # Free /\ row.email = account[s.a].email
      BY <2>1, <2>2 DEF AccountRow, AccountStatus, Free
    <2>4. /\ account' \in [Accounts -> AccountRow]
          /\ \A b \in Accounts : /\ account'[b].email = account[b].email
                                 /\ account'[b] = Free <=> account[b] = Free
      BY <1>8, <2>1, <2>3 DEF SetStanding, IdentityTypeOK
    <2>5. IdentityTypeOK'
      BY <1>8, <2>4 DEF IdentityTypeOK, Standing, SetStanding, IdleStanding
    <2>6. RowsAreMadeForProfiles'
      <3>1. UNCHANGED <<madeFor, credential, left>> /\ left \subseteq Accounts
            /\ \A p \in Profiles : credential[p] \in Accounts \cup {NoAccount}
        BY <1>8 DEF SetStanding, IdentityTypeOK
      <3>2. QED
        BY <2>4, <3>1 DEF RowsAreMadeForProfiles
    <2>7. RequestsAreOnRows'
      BY <1>8, <2>4 DEF RequestsAreOnRows, IdentityTypeOK, SetStanding, IdleStanding
    <2>8. QED
      BY <2>5, <2>6, <2>7 DEF IdentityInv
  <1>9. CASE UNCHANGED identityVars
    BY <1>9 DEF IdentityTypeOK, RowsAreMadeForProfiles, RequestsAreOnRows, identityVars, IdentityInv
  <1>10. QED
    BY <1>1, <1>2, <1>3, <1>4, <1>5, <1>6, <1>7, <1>8, <1>9 DEF IdentityNext

\* The accounts' rows and requests keep their fields, for any number of sign-ins
\* and operators.
THEOREM IdentityTypeCorrect == IdentitySpec => []IdentityTypeOK
  <1>1. IdentityInv => IdentityTypeOK
    BY DEF IdentityInv
  <1>2. QED
    BY <1>1, IdentityInvInit, IdentityInvNext, PTL DEF IdentitySpec

\* However many sign-ins, withdrawals and suspensions interleave, a profile has
\* one account that has not withdrawn, and a withdrawn one stays anonymous.
THEOREM IdentitySafetyHolds == IdentitySpec => []IdentitySafety
  <1>1. IdentityInv => IdentitySafety
    BY DEF IdentityInv, IdentityTypeOK, RowsAreMadeForProfiles, IdentitySafety, OneAccountPerProfile,
           WithdrawnIsAnonymous
  <1>2. QED
    BY <1>1, IdentityInvInit, IdentityInvNext, PTL DEF IdentitySpec

-----------------------------------------------------------------------------
(* AgeVerification *)

\* A photo is saved for one submission, and a review is of a request; who set
\* the tier of an account had approved its request.
SubmissionsAreFresh ==
    /\ \A h \in AgeHandlers : submission[h].step # "idle" => submission[h].account \in Accounts
    /\ \A h \in AgeHandlers : submission[h].key # NoOne <=> submission[h].step = "insert"
    /\ \A h \in AgeHandlers : submission[h].step = "insert" => proof[submission[h].key] = NoProof
    /\ \A g, h \in AgeHandlers : submission[g].key = submission[h].key /\ submission[g].key # NoOne => g = h
ReviewsAreOfRequests ==
    /\ \A o \in Reviewing : review[o].key # NoOne <=> review[o].step # "idle"
    /\ \A o \in Reviewing : review[o].step = "tier" => proof[review[o].key].status = "APPROVED"
\* Somebody is at a photo whose request is not pending: who saved it, or who
\* decided; and a decided request names no photo.
PhotosAreLookedAfter ==
    /\ \A k \in photos \ crashed :
        \/ proof[k].status = "PENDING"
        \/ \E h \in AgeHandlers : submission[h].step = "insert" /\ submission[h].key = k
        \/ \E o \in Reviewing : review[o].step \in {"tier", "delete"} /\ review[o].key = k
    /\ \A k \in ProofIds : proof[k].photo => proof[k].status = "PENDING"
AgeInv == AgeTypeOK /\ SubmissionsAreFresh /\ ReviewsAreOfRequests /\ VerifiedWasApproved /\ PhotosAreLookedAfter

LEMMA NoOneIsNoKey == NoOne \notin ProofIds
  BY AgeAssumption DEF NoOne

LEMMA ProofRows ==
    /\ NoProof \in ProofRow /\ NoProof.status = "NONE" /\ ~NoProof.photo
    /\ \A a \in Accounts : [status |-> "PENDING", account |-> a, photo |-> TRUE] \in ProofRow
    /\ \A row \in ProofRow : row.status \in {"NONE", "PENDING", "APPROVED", "REJECTED"} /\ row.photo \in BOOLEAN
    /\ \A row \in ProofRow : row.status # "NONE" => row.account \in Accounts
    /\ \A row \in ProofRow, d \in Decisions :
         row.status = "PENDING" =>
           LET new == [row EXCEPT !.status = d, !.photo = FALSE] IN
           new \in ProofRow /\ new.status = d /\ ~new.photo /\ new.account = row.account
  <1>1. NoProof \in ProofRow /\ NoProof.status = "NONE" /\ ~NoProof.photo
    BY DEF ProofRow, NoProof
  <1>2. \A a \in Accounts : [status |-> "PENDING", account |-> a, photo |-> TRUE] \in ProofRow
    BY DEF ProofRow
  <1>3. \A row \in ProofRow : row.status \in {"NONE", "PENDING", "APPROVED", "REJECTED"} /\ row.photo \in BOOLEAN
    <2>1. ASSUME NEW row \in [status : {"PENDING"} \cup Decisions, account : Accounts, photo : BOOLEAN]
          PROVE  row.status \in {"NONE", "PENDING", "APPROVED", "REJECTED"} /\ row.photo \in BOOLEAN
      BY DEF Decisions
    <2>2. NoProof.status \in {"NONE", "PENDING", "APPROVED", "REJECTED"} /\ NoProof.photo \in BOOLEAN
      BY DEF NoProof
    <2>3. QED
      BY <2>1, <2>2 DEF ProofRow
  <1>4. \A row \in ProofRow : row.status # "NONE" => row.account \in Accounts
    BY DEF ProofRow, NoProof
  <1>5. ASSUME NEW row \in ProofRow, NEW d \in Decisions, row.status = "PENDING"
        PROVE  LET new == [row EXCEPT !.status = d, !.photo = FALSE] IN
               new \in ProofRow /\ new.status = d /\ ~new.photo /\ new.account = row.account
    <2>1. row \in [status : {"PENDING"} \cup Decisions, account : Accounts, photo : BOOLEAN]
      BY <1>1, <1>5 DEF ProofRow
    <2>2. QED
      BY <2>1 DEF ProofRow
  <1>6. QED
    BY <1>1, <1>2, <1>3, <1>4, <1>5

LEMMA AgeInvInit == AgeInit => AgeInv
  <1> SUFFICES ASSUME AgeInit PROVE AgeInv
    OBVIOUS
  <1> USE NoOneIsNoKey DEF AgeInit
  <1>1. AgeTypeOK
    BY ProofRows DEF AgeTypeOK, Submission, Review, IdleSubmission, IdleReview, Decisions
  <1>2. SubmissionsAreFresh /\ ReviewsAreOfRequests /\ VerifiedWasApproved
    BY DEF SubmissionsAreFresh, ReviewsAreOfRequests, VerifiedWasApproved, IdleSubmission, IdleReview
  <1>3. PhotosAreLookedAfter
    BY ProofRows DEF PhotosAreLookedAfter
  <1>4. QED
    BY <1>1, <1>2, <1>3 DEF AgeInv

LEMMA AgeInvNext == AgeInv /\ [AgeNext]_ageVars => AgeInv'
  <1> SUFFICES ASSUME AgeTypeOK, SubmissionsAreFresh, ReviewsAreOfRequests, VerifiedWasApproved,
                      PhotosAreLookedAfter, [AgeNext]_ageVars
               PROVE  AgeInv'
    BY DEF AgeInv
  <1> USE NoOneIsNoKey
  <1>1. ASSUME NEW h \in AgeHandlers, NEW a \in Accounts, StartSubmit(h, a)
        PROVE  AgeInv'
    <2>1. AgeTypeOK'
      BY <1>1 DEF StartSubmit, AgeTypeOK, Submission
    <2>2. /\ submission'[h] = [step |-> "save", account |-> a, key |-> NoOne]
          /\ submission[h].step = "idle"
          /\ \A g \in AgeHandlers : g # h => submission'[g] = submission[g]
      BY <1>1 DEF StartSubmit, AgeTypeOK, IdleSubmission
    <2>3. SubmissionsAreFresh'
      BY <1>1, <2>2 DEF StartSubmit, SubmissionsAreFresh
    <2>4. ReviewsAreOfRequests' /\ VerifiedWasApproved'
      BY <1>1 DEF StartSubmit, ReviewsAreOfRequests, VerifiedWasApproved
    <2>5. PhotosAreLookedAfter'
      BY <1>1, <2>2 DEF StartSubmit, PhotosAreLookedAfter
    <2>6. QED
      BY <2>1, <2>3, <2>4, <2>5 DEF AgeInv
  <1>2. ASSUME NEW h \in AgeHandlers, NEW k \in ProofIds, SavePhoto(h, k)
        PROVE  AgeInv'
    <2>1. AgeTypeOK'
      BY <1>2 DEF SavePhoto, AgeTypeOK, Submission
    <2>2. /\ submission'[h].step = "insert" /\ submission'[h].key = k
          /\ submission'[h].account = submission[h].account
          /\ submission[h].step = "save"
          /\ \A g \in AgeHandlers : g # h => submission'[g] = submission[g]
          /\ \A g \in AgeHandlers : submission[g].key # k
          /\ proof[k] = NoProof /\ photos' = photos \cup {k}
          /\ UNCHANGED <<proof, tier, review, crashed>>
      BY <1>2 DEF SavePhoto, AgeTypeOK, Submission
    <2>3. SubmissionsAreFresh'
      BY <2>2 DEF SubmissionsAreFresh
    <2>4. ReviewsAreOfRequests' /\ VerifiedWasApproved'
      BY <1>2 DEF SavePhoto, ReviewsAreOfRequests, VerifiedWasApproved
    <2>5. PhotosAreLookedAfter'
      BY <2>2 DEF PhotosAreLookedAfter
    <2>6. QED
      BY <2>1, <2>3, <2>4, <2>5 DEF AgeInv
  <1>3. ASSUME NEW h \in AgeHandlers, CreateProof(h)
        PROVE  AgeInv'
    <2>1. PICK k \in ProofIds : k = submission[h].key
      BY <1>3 DEF CreateProof, AgeTypeOK, Submission, SubmissionsAreFresh
    <2>2. PICK a \in Accounts : a = submission[h].account
      BY <1>3 DEF CreateProof, SubmissionsAreFresh
    <2> DEFINE row == [status |-> "PENDING", account |-> a, photo |-> TRUE]
    <2>3. row \in ProofRow /\ row.status = "PENDING"
      BY ProofRows
    <2>4. /\ proof' \in [ProofIds -> ProofRow] /\ proof'[k] = row /\ proof[k] = NoProof
          /\ \A j \in ProofIds : j # k => proof'[j] = proof[j]
          /\ UNCHANGED <<photos, tier, review, crashed>>
      BY <1>3, <2>1, <2>2, <2>3 DEF CreateProof, AgeTypeOK, SubmissionsAreFresh
    <2>5. /\ submission'[h].step = "idle" /\ submission'[h].key = NoOne
          /\ \A g \in AgeHandlers : g # h => submission'[g] = submission[g] /\ submission[g].key # k
          /\ submission' \in [AgeHandlers -> Submission]
      BY <1>3, <2>1 DEF CreateProof, AgeTypeOK, SubmissionsAreFresh, Submission, IdleSubmission
    <2>6. AgeTypeOK'
      BY <2>4, <2>5 DEF AgeTypeOK
    <2>7. SubmissionsAreFresh'
      <3>1. \A g \in AgeHandlers : submission[g].step = "insert" => submission[g].key \in ProofIds
        BY DEF SubmissionsAreFresh, AgeTypeOK, Submission
      <3>2. QED
        BY <2>4, <2>5, <3>1 DEF SubmissionsAreFresh
    <2>8. ReviewsAreOfRequests'
      <3>1. NoProof.status = "NONE"
        BY ProofRows
      <3>2. \A o \in Reviewing : review[o].step = "tier" => review[o].key \in ProofIds
        BY DEF ReviewsAreOfRequests, AgeTypeOK, Review
      <3>3. QED
        BY <2>3, <2>4, <3>1, <3>2 DEF ReviewsAreOfRequests
    <2>9. VerifiedWasApproved'
      <3>1. NoProof.status = "NONE"
        BY ProofRows
      <3>2. QED
        BY <2>4, <3>1 DEF VerifiedWasApproved
    <2>10. PhotosAreLookedAfter'
      BY <2>1, <2>3, <2>4, <2>5 DEF PhotosAreLookedAfter, AgeTypeOK
    <2>11. QED
      BY <2>6, <2>7, <2>8, <2>9, <2>10 DEF AgeInv
  <1>4. ASSUME NEW o \in Reviewing, NEW k \in ProofIds, NEW d \in Decisions, StartReview(o, k, d)
        PROVE  AgeInv'
    <2>1. AgeTypeOK'
      BY <1>4 DEF StartReview, AgeTypeOK, Review
    <2>2. /\ review'[o].step = "decide" /\ review'[o].key = k /\ review[o].step = "idle"
          /\ \A p \in Reviewing : p # o => review'[p] = review[p]
      BY <1>4 DEF StartReview, AgeTypeOK, IdleReview
    <2>3. SubmissionsAreFresh' /\ VerifiedWasApproved'
      BY <1>4 DEF StartReview, SubmissionsAreFresh, VerifiedWasApproved
    <2>4. ReviewsAreOfRequests'
      BY <1>4, <2>2 DEF StartReview, ReviewsAreOfRequests
    <2>5. PhotosAreLookedAfter'
      BY <1>4, <2>2 DEF StartReview, PhotosAreLookedAfter
    <2>6. QED
      BY <2>1, <2>3, <2>4, <2>5 DEF AgeInv
  <1>5. ASSUME NEW o \in Reviewing, Decide(o)
        PROVE  AgeInv'
    <2>1. PICK k \in ProofIds : k = review[o].key
      BY <1>5 DEF Decide, ReviewsAreOfRequests, AgeTypeOK, Review
    <2>2. PICK d \in Decisions : d = review[o].decision
      BY DEF AgeTypeOK, Review
    <2>3. CASE proof[k].status # "PENDING"
      <3>1. UNCHANGED <<proof, photos, tier, submission, crashed>>
        BY <1>5, <2>1, <2>3 DEF Decide
      <3>2. /\ review' \in [Reviewing -> Review]
            /\ review'[o].step = "idle" /\ review'[o].key = NoOne /\ review[o].step = "decide"
            /\ \A p \in Reviewing : p # o => review'[p] = review[p]
        BY <1>5, <2>1, <2>3 DEF Decide, AgeTypeOK, Review, IdleReview, Decisions
      <3>3. ReviewsAreOfRequests'
        BY <3>1, <3>2 DEF ReviewsAreOfRequests
      <3>4. PhotosAreLookedAfter'
        BY <3>1, <3>2 DEF PhotosAreLookedAfter
      <3>5. SubmissionsAreFresh' /\ VerifiedWasApproved' /\ AgeTypeOK'
        BY <3>1, <3>2 DEF SubmissionsAreFresh, VerifiedWasApproved, AgeTypeOK
      <3>6. QED
        BY <3>3, <3>4, <3>5 DEF AgeInv
    <2>4. CASE proof[k].status = "PENDING"
      <3> DEFINE row == [proof[k] EXCEPT !.status = d, !.photo = FALSE]
      <3>1. row \in ProofRow /\ row.status = d /\ ~row.photo /\ row.account = proof[k].account
        BY <2>4, ProofRows DEF AgeTypeOK
      <3>2. /\ proof' \in [ProofIds -> ProofRow] /\ proof'[k].status = d /\ ~proof'[k].photo
            /\ proof'[k].account = proof[k].account
            /\ \A j \in ProofIds : j # k => proof'[j] = proof[j]
            /\ UNCHANGED <<photos, tier, submission, crashed>>
        BY <1>5, <2>1, <2>2, <2>4, <3>1 DEF Decide, AgeTypeOK
      <3>3. /\ review' \in [Reviewing -> Review]
            /\ review'[o].key = k /\ review'[o].step \in {"tier", "delete"}
            /\ review'[o].step = "tier" => d = "APPROVED"
            /\ review[o].step = "decide"
            /\ \A p \in Reviewing : p # o => review'[p] = review[p]
        BY <1>5, <2>1, <2>2, <2>4 DEF Decide, AgeTypeOK, Review
      <3>4. SubmissionsAreFresh'
        <4>1. \A g \in AgeHandlers : submission[g].step = "insert" => submission[g].key \in ProofIds \ {k}
          <5>1. NoProof.status = "NONE"
            BY ProofRows
          <5>2. QED
            BY <2>4, <5>1 DEF SubmissionsAreFresh, AgeTypeOK, Submission
        <4>2. QED
          BY <3>2, <4>1 DEF SubmissionsAreFresh
      <3>5. ReviewsAreOfRequests'
        <4>1. \A p \in Reviewing : review[p].step = "tier" => review[p].key \in ProofIds \ {k}
          BY <2>4 DEF ReviewsAreOfRequests, AgeTypeOK, Review
        <4>2. QED
          BY <3>2, <3>3, <4>1 DEF ReviewsAreOfRequests
      <3>6. VerifiedWasApproved'
        BY <2>4, <3>2 DEF VerifiedWasApproved
      <3>7. PhotosAreLookedAfter'
        BY <3>2, <3>3 DEF PhotosAreLookedAfter, AgeTypeOK
      <3>8. AgeTypeOK'
        BY <3>2, <3>3 DEF AgeTypeOK
      <3>9. QED
        BY <3>4, <3>5, <3>6, <3>7, <3>8 DEF AgeInv
    <2>5. QED
      BY <2>3, <2>4
  <1>6. ASSUME NEW o \in Reviewing, SetVerifiedTier(o)
        PROVE  AgeInv'
    <2>1. PICK k \in ProofIds : k = review[o].key
      BY <1>6 DEF SetVerifiedTier, ReviewsAreOfRequests, AgeTypeOK, Review
    <2>2. proof[k].status = "APPROVED" /\ proof[k].account \in Accounts
      BY <1>6, <2>1, ProofRows DEF SetVerifiedTier, ReviewsAreOfRequests, AgeTypeOK
    <2>3. /\ review' \in [Reviewing -> Review]
          /\ review'[o].step = "delete" /\ review'[o].key = k /\ review[o].step = "tier"
          /\ \A p \in Reviewing : p # o => review'[p] = review[p]
          /\ UNCHANGED <<proof, photos, submission, crashed>>
          /\ tier' = tier \cup {proof[k].account}
      BY <1>6, <2>1 DEF SetVerifiedTier, AgeTypeOK, Review
    <2>4. AgeTypeOK' /\ SubmissionsAreFresh'
      BY <2>2, <2>3 DEF AgeTypeOK, SubmissionsAreFresh
    <2>5. ReviewsAreOfRequests'
      BY <2>3 DEF ReviewsAreOfRequests
    <2>6. VerifiedWasApproved'
      BY <2>2, <2>3 DEF VerifiedWasApproved
    <2>7. PhotosAreLookedAfter'
      BY <2>1, <2>3 DEF PhotosAreLookedAfter
    <2>8. QED
      BY <2>4, <2>5, <2>6, <2>7 DEF AgeInv
  <1>7. ASSUME NEW o \in Reviewing, DeletePhoto(o)
        PROVE  AgeInv'
    <2>1. PICK k \in ProofIds : k = review[o].key
      BY <1>7 DEF DeletePhoto, ReviewsAreOfRequests, AgeTypeOK, Review
    <2>2. /\ review' \in [Reviewing -> Review]
          /\ review'[o].step = "idle" /\ review'[o].key = NoOne /\ review[o].key = k
          /\ \A p \in Reviewing : p # o => review'[p] = review[p]
          /\ UNCHANGED <<proof, tier, submission>>
      BY <1>7, <2>1 DEF DeletePhoto, AgeTypeOK, Review, IdleReview, Decisions
    <2>3. photos' \ crashed' = (photos \ crashed) \ {k} /\ photos' \subseteq ProofIds /\ crashed' \subseteq ProofIds
      BY <1>7, <2>1 DEF DeletePhoto, AgeTypeOK
    <2>4. AgeTypeOK' /\ SubmissionsAreFresh' /\ VerifiedWasApproved'
      BY <2>2, <2>3 DEF AgeTypeOK, SubmissionsAreFresh, VerifiedWasApproved
    <2>5. ReviewsAreOfRequests'
      BY <2>2 DEF ReviewsAreOfRequests
    <2>6. PhotosAreLookedAfter'
      BY <2>2, <2>3 DEF PhotosAreLookedAfter
    <2>7. QED
      BY <2>4, <2>5, <2>6 DEF AgeInv
  <1>8. CASE AgeCrash
    <2>1. /\ \A h \in AgeHandlers : submission'[h] = IdleSubmission
          /\ \A o \in Reviewing : review'[o] = IdleReview
          /\ UNCHANGED <<proof, photos, tier>>
      BY <1>8 DEF AgeCrash
    <2>2. AgeTypeOK'
      BY <1>8 DEF AgeCrash, AgeTypeOK, Submission, Review, IdleSubmission, IdleReview, Decisions
    <2>3. SubmissionsAreFresh' /\ ReviewsAreOfRequests' /\ VerifiedWasApproved'
      BY <2>1 DEF SubmissionsAreFresh, ReviewsAreOfRequests, VerifiedWasApproved, IdleSubmission, IdleReview
    <2>4. PhotosAreLookedAfter'
      <3>1. \A k \in photos' \ crashed' : k \in photos \ crashed /\ proof[k].status = "PENDING"
        <4>1. ASSUME NEW k \in photos' \ crashed'
              PROVE  k \in photos \ crashed /\ (\A h \in AgeHandlers : submission[h].key # k)
                     /\ (\A o \in Reviewing : review[o].key # k)
          BY <1>8, <4>1 DEF AgeCrash, AgeTypeOK
        <4>2. QED
          BY <4>1 DEF PhotosAreLookedAfter
      <3>2. QED
        BY <2>1, <3>1 DEF PhotosAreLookedAfter
    <2>5. QED
      BY <2>2, <2>3, <2>4 DEF AgeInv
  <1>9. CASE UNCHANGED ageVars
    <2>1. AgeTypeOK' /\ SubmissionsAreFresh'
      BY <1>9 DEF ageVars, AgeTypeOK, SubmissionsAreFresh
    <2>2. ReviewsAreOfRequests' /\ VerifiedWasApproved' /\ PhotosAreLookedAfter'
      BY <1>9 DEF ageVars, ReviewsAreOfRequests, VerifiedWasApproved, PhotosAreLookedAfter
    <2>3. QED
      BY <2>1, <2>2 DEF AgeInv
  <1>10. QED
    BY <1>1, <1>2, <1>3, <1>4, <1>5, <1>6, <1>7, <1>8, <1>9 DEF AgeNext

\* The requests and the reviews keep their fields.
THEOREM AgeTypeCorrect == AgeSpec => []AgeTypeOK
  <1>1. AgeInv => AgeTypeOK
    BY DEF AgeInv
  <1>2. QED
    BY <1>1, AgeInvInit, AgeInvNext, PTL DEF AgeSpec

\* However many customers submit, operators decide and processes die, an
\* account is verified by an approved request, and the photo of a decided one
\* goes or is known to be left behind.
THEOREM AgeSafetyHolds == AgeSpec => []AgeSafety
  <1>1. AgeInv => AgeSafety
    <2> SUFFICES ASSUME AgeInv PROVE AgeSafety
      OBVIOUS
    <2>1. VerifiedWasApproved
      BY DEF AgeInv
    <2>2. PhotoGoesWithTheDecision
      BY DEF AgeInv, PhotosAreLookedAfter, PhotoGoesWithTheDecision, ShownPhotos
    <2>3. QED
      BY <2>1, <2>2 DEF AgeSafety
  <1>2. QED
    BY <1>1, AgeInvInit, AgeInvNext, PTL DEF AgeSpec

-----------------------------------------------------------------------------
(* Notifications *)

Notices == Accounts \X Books \X NoticeKinds

LEMMA FinishTyped ==
    ASSUME NotificationTypeOK, NEW f \in Fanouts, FinishFanout(f)
    PROVE  fanout' \in [Fanouts -> Fanout]
  BY DEF NotificationTypeOK, FinishFanout, IdleFanout, Fanout, NoticeKinds

LEMMA WrittenTyped ==
    ASSUME NotificationTypeOK, NEW f \in Fanouts, NEW to
    PROVE  Written(f, to) \in [Notices -> NoticeState]
  BY DEF NotificationTypeOK, Written, Notices, NoticeState

LEMMA NotificationInvInit == NotificationInit => NotificationTypeOK
  BY DEF NotificationInit, NotificationTypeOK, IdleFanout, Fanout, NoticeKinds, NoticeState

LEMMA NotificationInvNext == NotificationTypeOK /\ [NotificationNext]_notificationVars => NotificationTypeOK'
  <1> SUFFICES ASSUME NotificationTypeOK, [NotificationNext]_notificationVars
               PROVE  NotificationTypeOK'
    OBVIOUS
  <1>1. ASSUME NEW r \in Accounts, NEW a \in Accounts, Follow(r, a) \/ Unfollow(r, a)
        PROVE  NotificationTypeOK'
    BY <1>1 DEF Follow, Unfollow, NotificationTypeOK
  <1>2. ASSUME NEW r \in Accounts, (\E b \in Books, kind \in NoticeKinds : MarkRead(r, b, kind)) \/ MarkAllRead(r)
        PROVE  NotificationTypeOK'
    BY <1>2 DEF MarkRead, MarkAllRead, NotificationTypeOK, NoticeState
  <1>3. ASSUME NEW f \in Fanouts, NEW b \in Books, NEW r \in Accounts, NotifyReviewer(f, b, r)
        PROVE  NotificationTypeOK'
    BY <1>3 DEF NotifyReviewer, NotificationTypeOK, IdleFanout, Fanout, NoticeKinds
  <1>4. ASSUME NEW f \in Fanouts, NEW b \in Books, NEW kind \in {"NEW_BOOK", "REVISION"},
               BeginFanout(f, b, kind)
        PROVE  NotificationTypeOK'
    BY <1>4 DEF BeginFanout, NotificationTypeOK, IdleFanout, Fanout, NoticeKinds
  <1>5. ASSUME NEW f \in Fanouts, NotifyNewBook(f) \/ \E buyers \in SUBSET Accounts : NotifyRevision(f, buyers)
        PROVE  NotificationTypeOK'
    <2>1. ASSUME NEW to \in SUBSET Accounts,
                 \/ FinishFanout(f)
                 \/ fanout' = [fanout EXCEPT ![f].step = "select", ![f].to = to]
          PROVE  fanout' \in [Fanouts -> Fanout]
      BY SMTT(30), <2>1, FinishTyped DEF NotificationTypeOK, Fanout
    <2>2. FollowerIds(BookAuthor[fanout[f].b]) \ {BookAuthor[fanout[f].b]} \in SUBSET Accounts
      BY DEF FollowerIds
    <2>3. fanout' \in [Fanouts -> Fanout] /\ UNCHANGED <<follows, notice>>
      BY <1>5, <2>1, <2>2 DEF NotifyNewBook, NotifyRevision
    <2>4. QED
      BY <2>3 DEF NotificationTypeOK
  <1>6. ASSUME NEW f \in Fanouts, SelectExisting(f)
        PROVE  NotificationTypeOK'
    <2>1. ASSUME NEW found \in SUBSET Accounts, NEW lit \in SUBSET Accounts,
                 \/ FinishFanout(f)
                 \/ fanout' = [fanout EXCEPT ![f].step = "commit", ![f].found = found, ![f].lit = lit]
          PROVE  fanout' \in [Fanouts -> Fanout]
      BY <2>1, FinishTyped DEF NotificationTypeOK, Fanout
    <2>2. fanout[f].to \subseteq Accounts
      BY DEF NotificationTypeOK, Fanout
    <2> DEFINE found == {r \in fanout[f].to : Has(r, fanout[f].b, fanout[f].kind)}
               lit == {r \in found : notice[<<r, fanout[f].b, fanout[f].kind>>] = "unread"}
    <2>a. found \in SUBSET Accounts /\ lit \in SUBSET Accounts
      BY <2>2
    <2>b. /\ UNCHANGED <<follows, notice>>
          /\ \/ FinishFanout(f)
             \/ fanout' = [fanout EXCEPT ![f].step = "commit", ![f].found = found, ![f].lit = lit]
      BY <1>6 DEF SelectExisting
    <2> HIDE DEF found, lit
    <2>3. fanout' \in [Fanouts -> Fanout] /\ UNCHANGED <<follows, notice>>
      BY <2>1, <2>a, <2>b
    <2>4. QED
      BY <2>3 DEF NotificationTypeOK
  <1>7. ASSUME NEW f \in Fanouts, CommitNotices(f)
        PROVE  NotificationTypeOK'
    BY <1>7, FinishTyped, WrittenTyped DEF CommitNotices, NotificationTypeOK, Notices
  <1>8. ASSUME NEW f \in Fanouts, NoticesCollide(f) \/ FanoutFails(f)
        PROVE  NotificationTypeOK'
    BY <1>8, FinishTyped DEF NoticesCollide, FanoutFails, NotificationTypeOK
  <1>9. CASE UNCHANGED notificationVars
    BY <1>9 DEF notificationVars, NotificationTypeOK
  <1>10. QED
    BY <1>1, <1>2, <1>3, <1>4, <1>5, <1>6, <1>7, <1>8, <1>9 DEF NotificationNext

\* The notices and the fan-outs keep their fields.
THEOREM NotificationTypeCorrect == NotificationSpec => []NotificationTypeOK
  BY NotificationInvInit, NotificationInvNext, PTL DEF NotificationSpec

\* Only a revision lights a notice that was read, whatever fan-outs race: a
\* batch writes a recipient's notice only if the commit finds none.
LEMMA OnlyRevisionsLight ==
    ASSUME NotificationTypeOK, [NotificationNext]_notificationVars,
           NEW n \in Notices, notice[n] = "read", notice'[n] = "unread"
    PROVE  n[3] = "REVISION"
  <1>1. PICK f \in Fanouts : CommitNotices(f)
    <2>1. ASSUME NEW r \in Accounts, NEW b \in Books, NEW kind \in NoticeKinds, MarkRead(r, b, kind)
          PROVE  FALSE
      BY <2>1 DEF MarkRead, NotificationTypeOK, Notices
    <2>2. ASSUME NEW r \in Accounts, MarkAllRead(r)
          PROVE  FALSE
      BY <2>2 DEF MarkAllRead, Notices
    <2>3. notice' # notice
      OBVIOUS
    <2>4. QED
      BY <2>1, <2>2, <2>3 DEF NotificationNext, notificationVars, Follow, Unfollow, NotifyReviewer, BeginFanout,
           NotifyNewBook, NotifyRevision, SelectExisting, NoticesCollide, FanoutFails
  <1> DEFINE q == fanout[f]
  <1>2. n \in WrittenBy(f) \X {q.b} \X {q.kind}
    <2>1. notice' = Written(f, WrittenBy(f))
      BY <1>1 DEF CommitNotices
    <2>2. QED
      BY <2>1 DEF Written, Notices
  <1>3. CASE q.kind = "REVISION"
    BY <1>2, <1>3
  <1>4. CASE q.kind # "REVISION"
    <2>1. n[1] \in q.to \ q.found /\ n = <<n[1], q.b, q.kind>>
      BY <1>2, <1>4 DEF WrittenBy
    <2>2. QED
      BY <1>1, <2>1 DEF CommitNotices, Has
  <1>5. QED
    BY <1>3, <1>4

THEOREM NewsIsToldOnceHolds == NotificationSpec => NewsIsToldOnce
  <1>1. NotificationTypeOK /\ [NotificationNext]_notificationVars =>
          [\A n \in Accounts \X Books \X NoticeKinds :
             notice[n] = "read" /\ notice'[n] = "unread" => n[3] = "REVISION"]_notificationVars
    BY OnlyRevisionsLight DEF Notices
  <1>2. QED
    BY <1>1, NotificationTypeCorrect, PTL DEF NotificationSpec, NewsIsToldOnce

-----------------------------------------------------------------------------
(* Woncheon *)

IsFiled(p) == filed[IdempotencyKey(p)] # NoFiling

\* What is filed is filed under its payout's key, and is of a payment made; who
\* is about to note a report has had it filed.
FilingsAreOfPayments ==
    \A k \in Keys : filed[k] # NoFiling => filed[k].payout \in paidOut /\ k = IdempotencyKey(filed[k].payout)
ReportsAreOfPayments ==
    /\ \A h \in Reporters : reporter[h].step # "idle" => reporter[h].p \in paidOut
    /\ \A h \in Reporters : reporter[h].step = "post" => reporter[h].type \in IncomeTypes
    /\ \A h \in Reporters : reporter[h].step = "mark" => IsFiled(reporter[h].p)
    /\ \A p \in reported : IsFiled(p)
WoncheonInv == WoncheonTypeOK /\ FilingsAreOfPayments /\ ReportsAreOfPayments

LEMMA NoPayoutIsNone == NoPayout \notin PaidOuts
  BY WoncheonAssumption DEF NoPayout

LEMMA PostsAreCounted == MaxPosts \in Nat
  BY WoncheonAssumption

LEMMA KeysOfPayouts == \A p \in PaidOuts : IdempotencyKey(p) \in Keys
  BY PostsAreCounted DEF IdempotencyKey, Keys

LEMMA FilingsMade ==
    ASSUME NEW p \in PaidOuts, NEW type \in IncomeTypes
    PROVE  [payout |-> p, type |-> type] \in Filing \ {NoFiling}
  BY NoPayoutIsNone DEF Filing, NoFiling

LEMMA WoncheonInvInit == WoncheonInit => WoncheonInv
  <1> SUFFICES ASSUME WoncheonInit PROVE WoncheonInv
    OBVIOUS
  <1>1. WoncheonTypeOK
    BY PostsAreCounted DEF WoncheonInit, WoncheonTypeOK, Filing, Report, IdleReporter
  <1>2. FilingsAreOfPayments /\ ReportsAreOfPayments
    BY DEF WoncheonInit, FilingsAreOfPayments, ReportsAreOfPayments, IdleReporter
  <1>3. QED
    BY <1>1, <1>2 DEF WoncheonInv

LEMMA WoncheonInvNext == WoncheonInv /\ [WoncheonNext]_woncheonVars => WoncheonInv'
  <1> SUFFICES ASSUME WoncheonTypeOK, FilingsAreOfPayments, ReportsAreOfPayments,
                      [WoncheonNext]_woncheonVars
               PROVE  WoncheonInv'
    BY DEF WoncheonInv
  <1>1. ASSUME NEW p \in PaidOuts, NEW type \in IncomeTypes, RegisterSubject(p, type)
        PROVE  WoncheonInv'
    <2>1. WoncheonTypeOK'
      BY <1>1 DEF RegisterSubject, WoncheonTypeOK
    <2>2. FilingsAreOfPayments' /\ ReportsAreOfPayments'
      BY <1>1 DEF RegisterSubject, FilingsAreOfPayments, ReportsAreOfPayments, IsFiled
    <2>3. QED
      BY <2>1, <2>2 DEF WoncheonInv
  <1>2. ASSUME NEW p \in PaidOuts, NEW h \in Reporters, MarkPaid(h, p) \/ RetryReport(h, p)
        PROVE  WoncheonInv'
    <2>1. /\ paidOut' \subseteq PaidOuts /\ paidOut \subseteq paidOut' /\ p \in paidOut'
          /\ Becomes(h, [IdleReporter EXCEPT !.step = "subject", !.p = p])
          /\ UNCHANGED <<subject, reported, filed, posts>>
      BY <1>2 DEF MarkPaid, RetryReport, Unreported, WoncheonTypeOK
    <2>2. /\ reporter' \in [Reporters -> Report] /\ reporter'[h].step = "subject" /\ reporter'[h].p = p
          /\ \A g \in Reporters : g # h => reporter'[g] = reporter[g]
      BY <2>1 DEF Becomes, WoncheonTypeOK, Report, IdleReporter
    <2>3. WoncheonTypeOK'
      BY <2>1, <2>2 DEF WoncheonTypeOK
    <2>4. FilingsAreOfPayments' /\ ReportsAreOfPayments'
      BY <2>1, <2>2 DEF FilingsAreOfPayments, ReportsAreOfPayments, IsFiled
    <2>5. QED
      BY <2>3, <2>4 DEF WoncheonInv
  <1>3. ASSUME NEW h \in Reporters, ReadSubject(h)
        PROVE  WoncheonInv'
    <2>1. reporter[h].p \in PaidOuts /\ reporter[h].p \in paidOut /\ reporter[h] \in Report
      BY <1>3 DEF ReadSubject, ReportsAreOfPayments, WoncheonTypeOK
    <2>2. CASE subject[reporter[h].p] = NoSubject
      <3>1. Becomes(h, IdleReporter) /\ UNCHANGED <<paidOut, subject, reported, filed, posts>>
        BY <1>3, <2>2 DEF ReadSubject
      <3>2. /\ reporter' \in [Reporters -> Report] /\ reporter'[h].step = "idle"
            /\ \A g \in Reporters : g # h => reporter'[g] = reporter[g]
        BY <3>1 DEF Becomes, WoncheonTypeOK, Report, IdleReporter
      <3>3. QED
        BY <3>1, <3>2 DEF WoncheonInv, WoncheonTypeOK, FilingsAreOfPayments, ReportsAreOfPayments, IsFiled
    <2>3. CASE subject[reporter[h].p] # NoSubject
      <3>1. PICK type \in IncomeTypes : type = subject[reporter[h].p]
        BY <2>1, <2>3 DEF WoncheonTypeOK
      <3>2. /\ Becomes(h, [reporter[h] EXCEPT !.step = "post", !.type = type])
            /\ UNCHANGED <<paidOut, subject, reported, filed, posts>>
        BY <1>3, <2>3, <3>1 DEF ReadSubject
      <3>3. /\ reporter' \in [Reporters -> Report] /\ reporter'[h].step = "post"
            /\ reporter'[h].p = reporter[h].p /\ reporter'[h].type = type
            /\ \A g \in Reporters : g # h => reporter'[g] = reporter[g]
        BY <2>1, <3>2 DEF Becomes, WoncheonTypeOK, Report
      <3>4. QED
        BY <2>1, <3>2, <3>3 DEF WoncheonInv, WoncheonTypeOK, FilingsAreOfPayments, ReportsAreOfPayments, IsFiled
    <2>4. QED
      BY <2>2, <2>3
  <1>4. ASSUME NEW h \in Reporters, NEW arrives \in BOOLEAN, NEW answered \in BOOLEAN,
               Post(h, arrives, answered)
        PROVE  WoncheonInv'
    <2>1. PICK p \in PaidOuts : p = reporter[h].p /\ p \in paidOut
      BY <1>4 DEF Post, ReportsAreOfPayments, WoncheonTypeOK
    <2>2. PICK type \in IncomeTypes : type = reporter[h].type
      BY <1>4 DEF Post, ReportsAreOfPayments
    <2> DEFINE key == IdempotencyKey(p)
               new == [payout |-> p, type |-> type]
    <2>3. key \in Keys /\ new \in Filing \ {NoFiling} /\ new.payout = p
      BY KeysOfPayouts, FilingsMade
    <2>4. \/ filed' = filed
          \/ filed[key] = NoFiling /\ filed' = [filed EXCEPT ![key] = new]
      <3>1. CASE arrives = TRUE
        BY <1>4, <2>1, <2>2, <3>1 DEF Post
      <3>2. CASE arrives = FALSE
        BY <1>4, <3>2 DEF Post
      <3>3. QED
        BY <3>1, <3>2
    <2>5. \/ Becomes(h, IdleReporter)
          \/ Becomes(h, [reporter[h] EXCEPT !.step = "mark"]) /\ (filed[key] = NoFiling => filed' # filed)
      <3>1. CASE arrives = TRUE /\ answered = TRUE
        <4>1. Becomes(h, [reporter[h] EXCEPT !.step = "mark"])
          BY <1>4, <3>1 DEF Post, Answered
        <4>2. filed[key] = NoFiling => filed' = [filed EXCEPT ![key] = new]
          BY <1>4, <2>1, <2>2, <3>1 DEF Post
        <4> HIDE DEF key, new
        <4>3. filed[key] = NoFiling => filed'[key] # filed[key]
          BY <2>3, <4>2 DEF WoncheonTypeOK
        <4>4. QED
          BY <4>1, <4>3
      <3>2. CASE arrives = FALSE \/ answered = FALSE
        BY <1>4, <3>2 DEF Post, Answered
      <3>3. QED
        BY <3>1, <3>2
    <2> HIDE DEF key, new
    <2>6. /\ filed' \in [Keys -> Filing]
          /\ \A k \in Keys : filed'[k] = filed[k] \/ (k = key /\ filed'[k] = new)
          /\ \A k \in Keys : filed[k] # NoFiling => filed'[k] = filed[k]
      <3>1. CASE filed' = filed
        BY <3>1 DEF WoncheonTypeOK
      <3>2. CASE filed[key] = NoFiling /\ filed' = [filed EXCEPT ![key] = new]
        <4>1. filed' \in [Keys -> Filing]
          BY <2>3, <3>2 DEF WoncheonTypeOK
        <4>2. filed'[key] = new /\ \A k \in Keys : k # key => filed'[k] = filed[k]
          BY <2>3, <3>2 DEF WoncheonTypeOK
        <4>3. QED
          BY <3>2, <4>1, <4>2
      <3>3. QED
        BY <2>4, <3>1, <3>2
    <2>7. posts' \in [PaidOuts -> 0..MaxPosts] /\ UNCHANGED <<paidOut, subject, reported>>
      BY <1>4, <2>1, PostsAreCounted DEF Post, WoncheonTypeOK
    <2>8. /\ reporter' \in [Reporters -> Report]
          /\ \A g \in Reporters : g # h => reporter'[g] = reporter[g]
          /\ \/ reporter'[h].step = "idle"
             \/ reporter'[h].step = "mark" /\ reporter'[h].p = p /\ filed'[key] # NoFiling
      <3>1. (filed[key] = NoFiling => filed' # filed) => filed'[key] # NoFiling
        BY <2>3, <2>4 DEF WoncheonTypeOK
      <3>2. Becomes(h, IdleReporter) \/ (Becomes(h, [reporter[h] EXCEPT !.step = "mark"]) /\ filed'[key] # NoFiling)
        <4> DEFINE idles == Becomes(h, IdleReporter)
                   marks == Becomes(h, [reporter[h] EXCEPT !.step = "mark"])
        <4>1. idles \/ (marks /\ (filed[key] = NoFiling => filed' # filed))
          BY <2>5
        <4> HIDE DEF idles, marks
        <4>2. idles \/ (marks /\ filed'[key] # NoFiling)
          BY <3>1, <4>1
        <4> USE DEF idles, marks
        <4>3. QED
          BY <4>2
      <3>3. QED
        BY <2>1, <3>2 DEF Becomes, WoncheonTypeOK, Report, IdleReporter
    <2>9. WoncheonTypeOK'
      BY <2>6, <2>7, <2>8 DEF WoncheonTypeOK
    <2>10. FilingsAreOfPayments'
      BY <2>1, <2>3, <2>6, <2>7 DEF FilingsAreOfPayments, key
    <2>11. \A q \in PaidOuts : IsFiled(q) => IsFiled(q)'
      BY <2>6, KeysOfPayouts DEF IsFiled, IdempotencyKey
    <2>12. ReportsAreOfPayments'
      <3>1. \A q \in reported' : IsFiled(q)'
        BY <2>7, <2>11 DEF ReportsAreOfPayments, WoncheonTypeOK
      <3>2. ASSUME NEW g \in Reporters, g # h, reporter[g].step = "mark"
            PROVE  (IsFiled(reporter[g].p))'
        <4>1. reporter'[g] = reporter[g] /\ reporter[g].p \in PaidOuts /\ IsFiled(reporter[g].p)
          BY <2>8, <3>2 DEF ReportsAreOfPayments, WoncheonTypeOK
        <4>2. QED
          BY <2>11, <4>1 DEF IsFiled, IdempotencyKey
      <3>3. reporter'[h].step = "mark" => (IsFiled(reporter[h].p))'
        BY <2>8 DEF IsFiled, IdempotencyKey, key
      <3>4. QED
        BY <2>1, <2>7, <2>8, <3>1, <3>2, <3>3 DEF ReportsAreOfPayments
    <2>13. QED
      BY <2>9, <2>10, <2>12 DEF WoncheonInv
  <1>5. ASSUME NEW h \in Reporters, MarkReported(h)
        PROVE  WoncheonInv'
    <2>1. /\ Becomes(h, IdleReporter) /\ UNCHANGED <<paidOut, subject, filed, posts>>
          /\ reported' = reported \cup {reporter[h].p}
          /\ reporter[h].p \in PaidOuts /\ IsFiled(reporter[h].p)
      BY <1>5 DEF MarkReported, ReportsAreOfPayments, WoncheonTypeOK
    <2>2. /\ reporter' \in [Reporters -> Report] /\ reporter'[h].step = "idle"
          /\ \A g \in Reporters : g # h => reporter'[g] = reporter[g]
      BY <2>1 DEF Becomes, WoncheonTypeOK, Report, IdleReporter
    <2>3. WoncheonTypeOK' /\ FilingsAreOfPayments'
      BY <2>1, <2>2 DEF WoncheonTypeOK, FilingsAreOfPayments
    <2>4. ReportsAreOfPayments'
      BY <2>1, <2>2 DEF ReportsAreOfPayments, IsFiled, IdempotencyKey
    <2>5. QED
      BY <2>3, <2>4 DEF WoncheonInv
  <1>6. CASE WoncheonCrash
    <2>1. /\ reporter' \in [Reporters -> Report] /\ \A g \in Reporters : reporter'[g].step = "idle"
          /\ UNCHANGED <<paidOut, subject, reported, filed, posts>>
      BY <1>6 DEF WoncheonCrash, Report, IdleReporter
    <2>2. QED
      BY <2>1 DEF WoncheonInv, WoncheonTypeOK, FilingsAreOfPayments, ReportsAreOfPayments, IsFiled
  <1>7. CASE UNCHANGED woncheonVars
    BY <1>7 DEF woncheonVars, WoncheonInv, WoncheonTypeOK, FilingsAreOfPayments, ReportsAreOfPayments, IsFiled
  <1>8. QED
    BY <1>1, <1>2, <1>3, <1>4, <1>5, <1>6, <1>7 DEF WoncheonNext

\* The reports and the filings keep their fields.
THEOREM WoncheonTypeCorrect == WoncheonSpec => []WoncheonTypeOK
  <1>1. WoncheonInv => WoncheonTypeOK
    BY DEF WoncheonInv
  <1>2. QED
    BY <1>1, WoncheonInvInit, WoncheonInvNext, PTL DEF WoncheonSpec

\* What the service has of a payment is what it has under the payment's key.
LEMMA FilingsUnderTheKey ==
    ASSUME WoncheonInv, NEW p \in PaidOuts
    PROVE  /\ FilingsOf(p) = IF IsFiled(p) THEN {IdempotencyKey(p)} ELSE {}
           /\ IsFiled(p) => p \in paidOut /\ filed[IdempotencyKey(p)].payout = p
  <1>1. ASSUME IsFiled(p)
        PROVE  p \in paidOut /\ filed[IdempotencyKey(p)].payout = p
    BY <1>1, KeysOfPayouts DEF IsFiled, WoncheonInv, FilingsAreOfPayments, IdempotencyKey
  <1>2. ASSUME NEW k \in FilingsOf(p)
        PROVE  k = IdempotencyKey(p) /\ IsFiled(p)
    <2>1. k \in Keys /\ filed[k].payout = p /\ filed[k] # NoFiling
      BY <1>2, NoPayoutIsNone DEF FilingsOf, NoFiling
    <2>2. k = IdempotencyKey(p)
      BY <2>1 DEF WoncheonInv, FilingsAreOfPayments
    <2>3. QED
      BY <2>1, <2>2 DEF IsFiled
  <1>3. IsFiled(p) => IdempotencyKey(p) \in FilingsOf(p)
    BY <1>1, KeysOfPayouts DEF FilingsOf
  <1>4. QED
    BY <1>1, <1>2, <1>3

\* However often a report is sent, with however many answers lost, a payment is
\* filed once, and what is noted as reported is filed.
THEOREM WoncheonSafetyHolds == WoncheonSpec => []WoncheonSafety
  <1>1. WoncheonInv => WoncheonSafety
    <2> SUFFICES ASSUME WoncheonInv PROVE WoncheonSafety
      OBVIOUS
    <2>1. ASSUME NEW p \in PaidOuts
          PROVE  /\ FilingsOf(p) = IF IsFiled(p) THEN {IdempotencyKey(p)} ELSE {}
                 /\ IsFiled(p) => p \in paidOut
      BY FilingsUnderTheKey
    <2>2. ASSUME NEW p \in PaidOuts
          PROVE  Cardinality(FilingsOf(p)) <= 1
      <3>1. FilingsOf(p) = {} \/ FilingsOf(p) = {IdempotencyKey(p)}
        BY <2>1
      <3>2. QED
        BY <3>1, FS_EmptySet, FS_Singleton
    <2>3. FiledOnce
      BY <2>1, <2>2 DEF FiledOnce
    <2>4. ReportedIsFiled
      BY <2>1 DEF ReportedIsFiled, WoncheonInv, WoncheonTypeOK, ReportsAreOfPayments
    <2>5. QED
      BY <2>3, <2>4 DEF WoncheonSafety
  <1>2. QED
    BY <1>1, WoncheonInvInit, WoncheonInvNext, PTL DEF WoncheonSpec

EntryOf(p) == IF IsFiled(p) THEN {filed[IdempotencyKey(p)].type} ELSE {}

LEMMA EntriesAreFilings ==
    ASSUME WoncheonInv
    PROVE  TaxEntries = [p \in PaidOuts |-> EntryOf(p)]
  <1>1. ASSUME NEW p \in PaidOuts
        PROVE  {filed[k].type : k \in FilingsOf(p)} = EntryOf(p)
    <2>1. FilingsOf(p) = IF IsFiled(p) THEN {IdempotencyKey(p)} ELSE {}
      BY FilingsUnderTheKey
    <2>2. QED
      BY <2>1 DEF EntryOf
  <1>2. QED
    BY <1>1 DEF TaxEntries

LEMMA OfficeInitHolds == WoncheonInit => Office!TaxInit
  <1> SUFFICES ASSUME WoncheonInit PROVE Office!TaxInit
    OBVIOUS
  <1>1. TaxEntries = [p \in PaidOuts |-> EntryOf(p)]
    BY WoncheonInvInit, EntriesAreFilings
  <1>2. \A p \in PaidOuts : EntryOf(p) = {}
    BY KeysOfPayouts DEF WoncheonInit, EntryOf, IsFiled
  <1>3. QED
    BY <1>1, <1>2 DEF WoncheonInit, Office!TaxInit

\* A payment is Pay, a report that arrives first Enter, the note of it Mark;
\* registrations, retries, lost requests and crashes are not seen.
LEMMA OfficeStep ==
    WoncheonInv /\ WoncheonInv' /\ [WoncheonNext]_woncheonVars => [Office!TaxNext]_(Office!taxVars)
  <1> SUFFICES ASSUME WoncheonInv, WoncheonInv', [WoncheonNext]_woncheonVars
               PROVE  [Office!TaxNext]_(Office!taxVars)
    OBVIOUS
  <1>1. /\ TaxEntries = [p \in PaidOuts |-> EntryOf(p)]
        /\ TaxEntries' = [p \in PaidOuts |-> EntryOf(p)']
    <2>1. TaxEntries = [p \in PaidOuts |-> EntryOf(p)]
      BY EntriesAreFilings
    <2>2. (TaxEntries = [p \in PaidOuts |-> EntryOf(p)])'
      BY EntriesAreFilings, PTL
    <2>3. QED
      BY <2>1, <2>2
  <1>2. ASSUME UNCHANGED filed
        PROVE  TaxEntries' = TaxEntries
    BY <1>1, <1>2 DEF EntryOf, IsFiled, IdempotencyKey
  <1>3. ASSUME UNCHANGED <<paidOut, reported, filed>>
        PROVE  UNCHANGED Office!taxVars
    BY <1>2, <1>3 DEF Office!taxVars
  <1>4. ASSUME NEW p \in PaidOuts, NEW h \in Reporters, MarkPaid(h, p)
        PROVE  Office!TaxNext
    <2>1. Office!Pay(p)
      BY <1>2, <1>4 DEF MarkPaid, Office!Pay
    <2>2. QED
      BY <2>1 DEF Office!TaxNext
  <1>5. ASSUME NEW h \in Reporters, MarkReported(h)
        PROVE  Office!TaxNext
    <2>1. PICK p \in PaidOuts : p = reporter[h].p /\ IsFiled(p)
      BY <1>5 DEF MarkReported, WoncheonInv, ReportsAreOfPayments, WoncheonTypeOK
    <2>2. TaxEntries[p] # {}
      BY <1>1, <2>1 DEF EntryOf
    <2>3. Office!Mark(p)
      BY <1>2, <1>5, <2>1, <2>2 DEF MarkReported, Office!Mark
    <2>4. QED
      BY <2>3 DEF Office!TaxNext
  <1>6. ASSUME NEW h \in Reporters, NEW arrives \in BOOLEAN, NEW answered \in BOOLEAN,
               Post(h, arrives, answered)
        PROVE  Office!TaxNext \/ UNCHANGED Office!taxVars
    <2>1. UNCHANGED <<paidOut, reported>>
      BY <1>6 DEF Post
    <2>2. CASE filed' = filed
      BY <1>3, <2>1, <2>2
    <2>3. CASE filed' # filed
      <3>1. PICK p \in PaidOuts : p = reporter[h].p /\ p \in paidOut
        BY <1>6 DEF Post, WoncheonInv, ReportsAreOfPayments, WoncheonTypeOK
      <3>2. PICK type \in IncomeTypes : type = reporter[h].type
        BY <1>6 DEF Post, WoncheonInv, ReportsAreOfPayments
      <3> DEFINE key == IdempotencyKey(p)
                 new == [payout |-> p, type |-> type]
      <3>3. filed[key] = NoFiling /\ filed' = [filed EXCEPT ![key] = new]
        BY <1>6, <2>3, <3>1, <3>2 DEF Post
      <3>4. /\ key \in Keys /\ new # NoFiling /\ new.type = type /\ filed \in [Keys -> Filing]
            /\ \A q \in PaidOuts : q # p => IdempotencyKey(q) # key
        BY KeysOfPayouts, FilingsMade DEF IdempotencyKey, WoncheonInv, WoncheonTypeOK
      <3> HIDE DEF key, new
      <3>5. filed'[key] = new /\ \A k \in Keys : k # key => filed'[k] = filed[k]
        BY <3>3, <3>4
      <3>6. EntryOf(p) = {} /\ EntryOf(p)' = {type}
        BY <3>3, <3>4, <3>5 DEF EntryOf, IsFiled, IdempotencyKey, key
      <3>7. \A q \in PaidOuts : q # p => EntryOf(q)' = EntryOf(q)
        BY <3>4, <3>5, KeysOfPayouts DEF EntryOf, IsFiled, IdempotencyKey
      <3>8. TaxEntries[p] = {} /\ TaxEntries' = [TaxEntries EXCEPT ![p] = {type}]
        BY <1>1, <3>6, <3>7
      <3>9. Office!Enter(p, type)
        BY <2>1, <3>1, <3>8 DEF Office!Enter
      <3>10. QED
        BY <3>9 DEF Office!TaxNext
    <2>4. QED
      BY <2>2, <2>3
  <1>7. CASE \E p \in PaidOuts : \/ \E type \in IncomeTypes : RegisterSubject(p, type)
                                \/ \E h \in Reporters : RetryReport(h, p)
    BY <1>3, <1>7 DEF RegisterSubject, RetryReport
  <1>8. CASE WoncheonCrash \/ UNCHANGED woncheonVars \/ \E h \in Reporters : ReadSubject(h)
    BY <1>3, <1>8 DEF WoncheonCrash, ReadSubject, woncheonVars
  <1>9. QED
    BY <1>4, <1>5, <1>6, <1>7, <1>8 DEF WoncheonNext

\* Reports, retries, crashes and answers lost in any order come to what
\* TaxReports allows: a payment is entered once and marked when it is entered.
THEOREM TaxReportsImplemented == WoncheonSpec => ImplementsTaxReports
  <1>1. WoncheonSpec => []WoncheonInv
    BY WoncheonInvInit, WoncheonInvNext, PTL DEF WoncheonSpec
  <1>2. QED
    BY <1>1, OfficeInitHolds, OfficeStep, PTL DEF WoncheonSpec, ImplementsTaxReports, Office!TaxSpec

\* An entry at the tax office stands, whatever is registered or sent later.
THEOREM FilingsStand == WoncheonSpec => Office!EntriesStand
  <1> DEFINE Stands == \A p \in PaidOuts : TaxEntries[p] # {} => TaxEntries'[p] = TaxEntries[p] /\ p \in paidOut'
  <1>1. WoncheonInv /\ WoncheonInv' /\ [WoncheonNext]_woncheonVars => [Stands]_(Office!taxVars)
    <2> SUFFICES ASSUME WoncheonInv, WoncheonInv', [WoncheonNext]_woncheonVars,
                        NEW p \in PaidOuts, TaxEntries[p] # {}
                 PROVE  (TaxEntries'[p] = TaxEntries[p] /\ p \in paidOut') \/ UNCHANGED Office!taxVars
      OBVIOUS
    <2>1. TaxEntries = [q \in PaidOuts |-> EntryOf(q)]
      BY EntriesAreFilings
    <2>2. p \in paidOut
      BY <2>1, FilingsUnderTheKey DEF EntryOf
    <2>3. [Office!TaxNext]_(Office!taxVars)
      BY OfficeStep
    <2>4. QED
      BY <2>1, <2>2, <2>3 DEF Office!TaxNext, Office!Pay, Office!Mark, Office!Enter
  <1>2. WoncheonSpec => []WoncheonInv
    BY WoncheonInvInit, WoncheonInvNext, PTL DEF WoncheonSpec
  <1>3. QED
    BY <1>1, <1>2, PTL DEF WoncheonSpec, Office!EntriesStand

-----------------------------------------------------------------------------
(* Console *)

\* No act is possible any more on an entity that was decided.
Ended(e) == \A a \in DOMAIN Act(KindOf[e]) : entity[e] \notin Act(KindOf[e])[a].from
DeedOf(o) == <<o, deed[o].action, deed[o].e>>

\* What was decided is over and was done once; an act waits for its record
\* before the next one of the operator.
DecisionsEnd ==
    \A e \in Entities : DecidedBy(done, e) # {} => Ended(e)
DeedsAreRecorded ==
    /\ \A o \in Clerks : deed[o].step # "idle" => deed[o].e \in Entities /\ deed[o].action \in DOMAIN Act(KindOf[deed[o].e])
    /\ \A t \in Deeds : audit[t] <= done[t]
    /\ \A o \in Clerks : deed[o].step = "record" => audit[DeedOf(o)] < done[DeedOf(o)]
ConsoleInv == ConsoleTypeOK /\ DecisionsEnd /\ OneDecision(done) /\ DeedsAreRecorded

LEMMA KindsAreKinds == \A e \in Entities : KindOf[e] \in EntityKinds
  BY ConsoleAssumption

\* A final act leads to a status that no act starts from, and a report has none.
LEMMA FinalActsEnd ==
    ASSUME NEW kind \in EntityKinds, NEW a \in DOMAIN Act(kind) \cap Final, NEW b \in DOMAIN Act(kind)
    PROVE  Act(kind)[a].to \notin Act(kind)[b].from /\ kind # "REPORT"
  <1> DEFINE Ends(k) == \A x \in DOMAIN Act(k) \cap Final, y \in DOMAIN Act(k) : Act(k)[x].to \notin Act(k)[y].from
  <1>1. Ends("PAYOUT")
    BY DEF Act, Final
  <1>2. Ends("AGE")
    BY DEF Act, Final
  <1>3. Ends("ORDER")
    BY DEF Act, Final
  <1>4. DOMAIN Act("ACCOUNT") \cap Final = {}
    BY DEF Act, Final
  <1>5. DOMAIN Act("BOOK") \cap Final = {}
    BY DEF Act, Final
  <1>6. DOMAIN Act("REPORT") \cap Final = {}
    BY DEF Act, Final
  <1>7. Ends(kind) /\ kind # "REPORT"
    BY <1>1, <1>2, <1>3, <1>4, <1>5, <1>6 DEF EntityKinds
  <1>8. QED
    BY <1>7

LEMMA ReportOpens == "OPEN" \in Statuses("REPORT") /\ "REPORT" \in EntityKinds
  BY DEF Statuses, Act, EntityKinds

LEMMA ActsAreTyped ==
    ASSUME NEW e \in Entities, NEW a \in DOMAIN Act(KindOf[e])
    PROVE  /\ a \in Actions /\ Act(KindOf[e])[a].to \in Statuses(KindOf[e])
           /\ \A o \in Clerks : <<o, a, e>> \in Deeds
  <1>1. a \in Actions
    BY KindsAreKinds DEF Actions
  <1>2. Act(KindOf[e])[a].to \in Statuses(KindOf[e])
    BY DEF Statuses
  <1>3. \A o \in Clerks : <<o, a, e>> \in Deeds
    BY <1>1 DEF Deeds
  <1>4. QED
    BY <1>1, <1>2, <1>3

LEMMA IdleDeedTyped == IdleDeed \in DeedRow /\ IdleDeed.step = "idle"
  BY DEF IdleDeed, DeedRow

LEMMA DeedsTyped ==
    /\ \A t \in Deeds : t[1] \in Clerks /\ t[2] \in Actions /\ t[3] \in Entities /\ t = <<t[1], t[2], t[3]>>
                        /\ t[2] \in DOMAIN Act(KindOf[t[3]])
    /\ \A e \in Entities : \A t \in FinalDeeds[e] : t \in Deeds /\ t[3] = e /\ t[2] \in DOMAIN Act(KindOf[e]) \cap Final
  <1>1. \A t \in Deeds : t[1] \in Clerks /\ t[2] \in Actions /\ t[3] \in Entities /\ t = <<t[1], t[2], t[3]>>
                        /\ t[2] \in DOMAIN Act(KindOf[t[3]])
    BY DEF Deeds
  <1>2. QED
    BY <1>1 DEF FinalDeeds

LEMMA ConsoleInvInit == ConsoleInit => ConsoleInv
  <1> SUFFICES ASSUME ConsoleInit PROVE ConsoleInv
    OBVIOUS
  <1>1. ConsoleTypeOK
    <2>1. \A e \in Entities : FirstStatus(KindOf[e]) \in Statuses(KindOf[e])
      BY DEF Statuses
    <2>2. QED
      BY <2>1, IdleDeedTyped DEF ConsoleInit, ConsoleTypeOK
  <1>2. \A e \in Entities : DecidedBy(done, e) = {}
    BY DEF ConsoleInit, DecidedBy, FinalDeeds
  <1>3. DeedsAreRecorded
    BY IdleDeedTyped DEF ConsoleInit, DeedsAreRecorded
  <1>4. QED
    BY <1>1, <1>2, <1>3 DEF ConsoleInv, DecisionsEnd, OneDecision

LEMMA ConsoleInvNext == ConsoleInv /\ [ConsoleNext]_consoleVars => ConsoleInv'
  <1> SUFFICES ASSUME ConsoleTypeOK, DecisionsEnd, OneDecision(done), DeedsAreRecorded,
                      [ConsoleNext]_consoleVars
               PROVE  ConsoleInv'
    BY DEF ConsoleInv
  <1>1. ASSUME UNCHANGED <<entity, done>>
        PROVE  DecisionsEnd' /\ OneDecision(done)'
    <2>1. \A e \in Entities : DecidedBy(done, e)' = DecidedBy(done, e)
      BY <1>1 DEF DecidedBy, FinalDeeds
    <2>2. QED
      BY <1>1, <2>1 DEF DecisionsEnd, OneDecision, Ended
  <1>2. ASSUME UNCHANGED <<done, audit, deed>>
        PROVE  DeedsAreRecorded'
    BY <1>2 DEF DeedsAreRecorded, DeedOf
  <1>3. ASSUME NEW o \in Clerks, OperatorSignsIn(o) \/ Deactivate(o) \/ BadgeExpires(o)
        PROVE  ConsoleInv'
    <2>1. ConsoleTypeOK' /\ UNCHANGED <<entity, done, audit, deed>>
      BY <1>3 DEF OperatorSignsIn, Deactivate, BadgeExpires, ConsoleTypeOK
    <2>2. QED
      BY <1>1, <1>2, <2>1 DEF ConsoleInv
  <1>4. ASSUME NEW e \in Entities, SubmitReport(e)
        PROVE  ConsoleInv'
    <2>1. /\ UNCHANGED <<clerk, badge, deed, done, audit>> /\ KindOf[e] = "REPORT"
          /\ DOMAIN entity' = Entities /\ entity'[e] = "OPEN"
          /\ \A f \in Entities : f # e => entity'[f] = entity[f]
      BY <1>4 DEF SubmitReport, ConsoleTypeOK
    <2>2. ConsoleTypeOK'
      BY <2>1, ReportOpens DEF ConsoleTypeOK
    <2>3. DecidedBy(done, e) = {}
      BY <2>1, FinalActsEnd, DeedsTyped, KindsAreKinds DEF DecidedBy
    <2>4. \A f \in Entities : DecidedBy(done, f)' = DecidedBy(done, f)
      BY <2>1 DEF DecidedBy, FinalDeeds
    <2>5. DecisionsEnd' /\ OneDecision(done)'
      BY <2>1, <2>3, <2>4 DEF DecisionsEnd, OneDecision, Ended
    <2>6. QED
      BY <1>2, <2>1, <2>2, <2>5 DEF ConsoleInv
  <1>5. ASSUME NEW o \in Clerks, NEW e \in Entities, NEW a \in Actions, StartDeed(o, e, a)
        PROVE  ConsoleInv'
    <2>1. /\ UNCHANGED <<clerk, badge, entity, done, audit>> /\ a \in DOMAIN Act(KindOf[e])
          /\ deed' \in [Clerks -> DeedRow]
          /\ deed'[o] = [step |-> "act", action |-> a, e |-> e]
          /\ \A p \in Clerks : p # o => deed'[p] = deed[p]
      BY <1>5 DEF StartDeed, ConsoleTypeOK, DeedRow
    <2>2. ConsoleTypeOK'
      BY <2>1 DEF ConsoleTypeOK
    <2>3. DeedsAreRecorded'
      BY <2>1 DEF DeedsAreRecorded, DeedOf
    <2>4. QED
      BY <1>1, <2>1, <2>2, <2>3 DEF ConsoleInv
  <1>6. ASSUME NEW o \in Clerks, TakeEffect(o)
        PROVE  ConsoleInv'
    <2>1. PICK e \in Entities : e = deed[o].e
      BY <1>6 DEF TakeEffect, DeedsAreRecorded
    <2>2. PICK a \in DOMAIN Act(KindOf[e]) : a = deed[o].action
      BY <1>6, <2>1 DEF TakeEffect, DeedsAreRecorded
    <2> DEFINE act == Act(KindOf[e])[a]
               new == <<o, a, e>>
    <2>3. act.to \in Statuses(KindOf[e]) /\ new \in Deeds
      BY ActsAreTyped
    <2>4. CASE entity[e] \notin act.from
      <3>1. /\ UNCHANGED <<clerk, badge, entity, done, audit>>
            /\ deed' = [deed EXCEPT ![o] = IdleDeed]
        BY <1>6, <2>1, <2>2, <2>4 DEF TakeEffect
      <3>2. ConsoleTypeOK'
        BY <3>1, IdleDeedTyped DEF ConsoleTypeOK
      <3>3. DeedsAreRecorded'
        BY <3>1, IdleDeedTyped DEF DeedsAreRecorded, DeedOf, ConsoleTypeOK
      <3>4. QED
        BY <1>1, <3>1, <3>2, <3>3 DEF ConsoleInv
    <2>5. CASE entity[e] \in act.from
      <3>1. /\ entity' = [entity EXCEPT ![e] = act.to]
            /\ done' = [done EXCEPT ![new] = @ + 1]
            /\ deed' = [deed EXCEPT ![o].step = "record"]
            /\ UNCHANGED <<clerk, badge, audit>>
        BY <1>6, <2>1, <2>2, <2>5 DEF TakeEffect
      <3> HIDE DEF new, act
      <3>2. /\ DOMAIN entity' = Entities /\ entity'[e] = act.to
            /\ \A f \in Entities : f # e => entity'[f] = entity[f]
        BY <3>1 DEF ConsoleTypeOK
      <3>3. /\ DOMAIN done' = Deeds /\ done'[new] = done[new] + 1 /\ done[new] \in Nat
            /\ \A t \in Deeds : t # new => done'[t] = done[t]
        BY <2>3, <3>1 DEF ConsoleTypeOK
      <3>4. /\ deed' \in [Clerks -> DeedRow]
            /\ deed'[o].step = "record" /\ deed'[o].action = a /\ deed'[o].e = e
            /\ \A p \in Clerks : p # o => deed'[p] = deed[p]
        BY <2>1, <2>2, <3>1 DEF ConsoleTypeOK, DeedRow
      <3>5. ConsoleTypeOK'
        BY <2>3, <3>1, <3>2, <3>3, <3>4 DEF ConsoleTypeOK
      <3>6. DecidedBy(done, e) = {}
        BY <2>5 DEF DecisionsEnd, Ended, act
      <3>7. DecidedBy(done, e)' \subseteq {new} /\ (new \in DecidedBy(done, e)' => a \in Final /\ done'[new] = 1)
        <4>1. \A t \in FinalDeeds[e] : done[t] = 0
          BY <3>6, DeedsTyped DEF DecidedBy, ConsoleTypeOK
        <4>2. \A t \in FinalDeeds[e] : t # new => ~(done'[t] > 0)
          BY <3>3, <4>1, DeedsTyped
        <4>3. new \in FinalDeeds[e] => done'[new] = 1
          BY <3>3, <4>1
        <4>4. new \in FinalDeeds[e] => a \in Final
          BY DEF FinalDeeds, new
        <4>5. DecidedBy(done, e)' = {t \in FinalDeeds[e] : done'[t] > 0}
          BY DEF DecidedBy, FinalDeeds
        <4>6. QED
          BY <4>2, <4>3, <4>4, <4>5
      <3>8. \A f \in Entities \ {e} : DecidedBy(done, f)' = DecidedBy(done, f)
        <4>1. \A f \in Entities \ {e} : \A t \in FinalDeeds[f] : t \in Deeds /\ t # new
          BY DeedsTyped DEF new
        <4>2. QED
          BY <3>3, <4>1 DEF DecidedBy, FinalDeeds
      <3>9. DecisionsEnd'
        <4>1. ASSUME DecidedBy(done, e)' # {}
              PROVE  Ended(e)'
          <5>1. a \in DOMAIN Act(KindOf[e]) \cap Final
            BY <3>7, <4>1
          <5>2. QED
            BY <3>2, <5>1, FinalActsEnd, KindsAreKinds DEF Ended, act
        <4>2. \A f \in Entities \ {e} : Ended(f) => Ended(f)'
          BY <3>2 DEF Ended
        <4>3. QED
          BY <3>8, <4>1, <4>2 DEF DecisionsEnd
      <3>10. OneDecision(done)'
        <4>1. \A f \in Entities \ {e} : \A t \in DecidedBy(done, f) : done'[t] = done[t]
          BY <3>3, DeedsTyped DEF DecidedBy, new
        <4>2. QED
          BY <3>7, <3>8, <4>1 DEF OneDecision
      <3>11. DeedsAreRecorded'
        <4>1. \A t \in Deeds : audit'[t] <= done'[t] /\ done[t] <= done'[t]
          BY <3>1, <3>3 DEF DeedsAreRecorded, ConsoleTypeOK
        <4>2. audit'[new] < done'[new]
          BY <2>3, <3>1, <3>3 DEF DeedsAreRecorded, ConsoleTypeOK
        <4>3. \A p \in Clerks : deed'[p].step # "idle" =>
                deed'[p].e \in Entities /\ deed'[p].action \in DOMAIN Act(KindOf[deed'[p].e])
          BY <3>4 DEF DeedsAreRecorded
        <4>4. ASSUME NEW p \in Clerks, p # o, deed'[p].step = "record"
              PROVE  (audit[DeedOf(p)] < done[DeedOf(p)])'
          <5>1. DeedOf(p)' = DeedOf(p) /\ DeedOf(p) \in Deeds /\ audit[DeedOf(p)] < done[DeedOf(p)]
            BY <3>4, <4>4, ActsAreTyped DEF DeedsAreRecorded, DeedOf
          <5>2. audit[DeedOf(p)] \in Nat /\ done[DeedOf(p)] \in Nat /\ done'[DeedOf(p)] \in Nat
            BY <3>5, <5>1 DEF ConsoleTypeOK
          <5>3. QED
            BY <3>1, <4>1, <5>1, <5>2
        <4>5. DeedOf(o)' = new
          BY <3>4 DEF DeedOf, new
        <4>6. QED
          BY <4>1, <4>2, <4>3, <4>4, <4>5 DEF DeedsAreRecorded
      <3>12. QED
        BY <3>5, <3>9, <3>10, <3>11 DEF ConsoleInv
    <2>6. QED
      BY <2>4, <2>5
  <1>7. ASSUME NEW o \in Clerks, RecordDeed(o)
        PROVE  ConsoleInv'
    <2> DEFINE t == DeedOf(o)
    <2>1. /\ t \in Deeds /\ audit[t] < done[t]
          /\ UNCHANGED <<clerk, badge, entity, done>>
          /\ audit' = [audit EXCEPT ![t] = @ + 1]
          /\ deed' = [deed EXCEPT ![o] = IdleDeed]
      BY <1>7, ActsAreTyped DEF RecordDeed, DeedsAreRecorded, DeedOf
    <2>2. \A p \in Clerks \ {o} : deed[p].step = "record" => DeedOf(p) \in Deeds /\ DeedOf(p) # t
      BY ActsAreTyped DEF DeedsAreRecorded, DeedOf
    <2>3. /\ deed' \in [Clerks -> DeedRow] /\ deed'[o].step = "idle"
          /\ \A p \in Clerks : p # o => deed'[p] = deed[p] /\ DeedOf(p)' = DeedOf(p)
      BY <2>1, IdleDeedTyped DEF ConsoleTypeOK, DeedOf
    <2> HIDE DEF t
    <2>4. /\ DOMAIN audit' = Deeds /\ audit'[t] = audit[t] + 1
          /\ \A u \in Deeds : u # t => audit'[u] = audit[u]
      BY <2>1 DEF ConsoleTypeOK
    <2>5. ConsoleTypeOK'
      BY <2>1, <2>3, <2>4 DEF ConsoleTypeOK
    <2>6. DeedsAreRecorded'
      <3>1. \A u \in Deeds : audit'[u] <= done'[u]
        BY <2>1, <2>4 DEF DeedsAreRecorded, ConsoleTypeOK
      <3>2. QED
        BY <2>1, <2>2, <2>3, <2>4, <3>1 DEF DeedsAreRecorded
    <2>7. QED
      BY <1>1, <2>1, <2>5, <2>6 DEF ConsoleInv
  <1>8. CASE ConsoleCrash
    <2>1. UNCHANGED <<clerk, badge, entity, done, audit>> /\ deed' = [o \in Clerks |-> IdleDeed]
      BY <1>8 DEF ConsoleCrash
    <2>2. ConsoleTypeOK' /\ DeedsAreRecorded'
      BY <2>1, IdleDeedTyped DEF ConsoleTypeOK, DeedsAreRecorded
    <2>3. QED
      BY <1>1, <2>1, <2>2 DEF ConsoleInv
  <1>9. CASE UNCHANGED consoleVars
    <2>1. ConsoleTypeOK' /\ UNCHANGED <<entity, done, audit, deed>>
      BY <1>9 DEF consoleVars, ConsoleTypeOK
    <2>2. QED
      BY <1>1, <1>2, <2>1 DEF ConsoleInv
  <1>10. QED
    BY <1>3, <1>4, <1>5, <1>6, <1>7, <1>8, <1>9 DEF ConsoleNext

\* What the console acts on has the statuses of its kind.
THEOREM ConsoleTypeCorrect == ConsoleSpec => []ConsoleTypeOK
  <1>1. ConsoleInv => ConsoleTypeOK
    BY DEF ConsoleInv
  <1>2. QED
    BY <1>1, ConsoleInvInit, ConsoleInvNext, PTL DEF ConsoleSpec

\* Whatever operators act on the same payouts, proofs of age and orders, each is
\* decided once, and the log has no act that did not happen.
THEOREM ConsoleSafetyHolds == ConsoleSpec => []ConsoleSafety
  <1>1. ConsoleInv => ConsoleSafety
    <2> SUFFICES ASSUME ConsoleInv PROVE ConsoleSafety
      OBVIOUS
    <2>1. \A t \in Deeds : audit[t] <= done[t] /\ audit[t] \in Nat /\ done[t] \in Nat
      BY DEF ConsoleInv, DeedsAreRecorded, ConsoleTypeOK
    <2>2. \A e \in Entities : DecidedBy(audit, e) \subseteq DecidedBy(done, e)
      BY <2>1, DeedsTyped DEF DecidedBy
    <2>3. \A e \in Entities : \A t \in DecidedBy(audit, e) : t \in Deeds /\ audit[t] > 0
      BY DeedsTyped DEF DecidedBy
    <2>4. OneDecision(done)
      BY DEF ConsoleInv
    <2>5. OneDecision(audit)
      BY <2>1, <2>2, <2>3, <2>4 DEF OneDecision
    <2>6. QED
      BY <2>1, <2>4, <2>5 DEF ConsoleSafety, DecidedOnce, AuditIsOfDeeds
  <1>2. QED
    BY <1>1, ConsoleInvInit, ConsoleInvNext, PTL DEF ConsoleSpec
=============================================================================
