------------------------------ MODULE Identity ------------------------------
(***************************************************************************)
(* Accounts and sign-in: a social profile finds its account by credential  *)
(* or gets a new one, and a token that no later change takes back.  Looking *)
(* the credential up and inserting the account are separate; the database   *)
(* keeps credentials and emails unique.                                     *)
(***************************************************************************)
EXTENDS Integers, FiniteSets, People

CONSTANTS Profiles,       \* social identities: provider and user id
          EmailOf,        \* the email a provider hands out for one
          LoginHandlers,  \* sign-ins at a time
          Operators

\* The values that stand for a missing row are no account and no profile.
ASSUME IdentityAssumption == /\ DOMAIN EmailOf = Profiles
                             /\ Accounts # {} /\ Profiles # {}
                             /\ "no account" \notin Accounts /\ "no profile" \notin Profiles

VARIABLES account,    \* usr.account: status, email
          madeFor,    \* history: the profile an account was made for
          credential, \* usr.credential: profile -> account
          token,      \* <<profile, account>> of the tokens that have not run out
          signIn,     \* the sign-ins under way
          standing,   \* operators under way: the status they loaded, to set another
          left        \* history: accounts that withdrew

identityVars == <<account, madeFor, credential, token, signIn, standing, left>>

NoAccount == "no account"
NoEmail == "no email"
NoProfile == "no profile"
AccountStatus == {"ACTIVE", "SUSPENDED", "DELETED"}
Free == [status |-> NoAccount, email |-> NoEmail]
IdleSignIn == [step |-> "idle", profile |-> NoProfile, found |-> NoAccount]
IdleStanding == [a |-> NoAccount, loaded |-> NoAccount, to |-> NoAccount]

AccountRow == {Free} \cup [status : AccountStatus, email : {NoEmail} \cup {EmailOf[p] : p \in Profiles}]
SignIn == [step : {"idle", "found", "issue"}, profile : Profiles \cup {NoProfile}, found : Accounts \cup {NoAccount}]
Standing == [a : Accounts \cup {NoAccount}, loaded : AccountStatus \cup {NoAccount}, to : AccountStatus \cup {NoAccount}]

IdentityTypeOK ==
    /\ account \in [Accounts -> AccountRow]
    /\ madeFor \in [Accounts -> Profiles \cup {NoProfile}]
    /\ credential \in [Profiles -> Accounts \cup {NoAccount}]
    /\ token \subseteq Profiles \X Accounts
    /\ signIn \in [LoginHandlers -> SignIn]
    /\ standing \in [Operators -> Standing]
    /\ left \subseteq Accounts

IdentityInit ==
    /\ account = [a \in Accounts |-> Free]
    /\ madeFor = [a \in Accounts |-> NoProfile]
    /\ credential = [p \in Profiles |-> NoAccount]
    /\ token = {} /\ left = {}
    /\ signIn = [h \in LoginHandlers |-> IdleSignIn]
    /\ standing = [o \in Operators |-> IdleStanding]

-----------------------------------------------------------------------------
(* Signing in *)

\* complete_login: the provider vouches for the profile, the account is
\* looked up by its credential.
StartSignIn(h, p) ==
    /\ signIn[h] = IdleSignIn
    /\ signIn' = [signIn EXCEPT ![h] = [step |-> IF credential[p] = NoAccount THEN "found" ELSE "issue",
                                        profile |-> p, found |-> credential[p]]]
    /\ UNCHANGED <<account, madeFor, credential, token, standing, left>>

EmailTaken(e) == \E a \in Accounts : account[a].email = e

\* create_with_credential: both rows in one transaction.
CreateAccount(h, a) ==
    LET p == signIn[h].profile IN
    /\ signIn[h].step = "found"
    /\ account[a] = Free
    /\ credential[p] = NoAccount /\ ~EmailTaken(EmailOf[p])
    /\ account' = [account EXCEPT ![a] = [status |-> "ACTIVE", email |-> EmailOf[p]]]
    /\ madeFor' = [madeFor EXCEPT ![a] = p]
    /\ credential' = [credential EXCEPT ![p] = a]
    /\ signIn' = [signIn EXCEPT ![h].step = "issue", ![h].found = a]
    /\ UNCHANGED <<token, standing, left>>

\* Mutant: the account is committed before the credential, whose conflict
\* then leaves it behind.
RaisesLeavingAccount(h) ==
    LET p == signIn[h].profile IN
    /\ signIn[h].step = "found"
    /\ credential[p] # NoAccount \/ EmailTaken(EmailOf[p])
    /\ signIn' = [signIn EXCEPT ![h] = IdleSignIn]
    /\ \E a \in Accounts :
        /\ account[a] = Free
        /\ account' = [account EXCEPT ![a] = [status |-> "ACTIVE", email |-> NoEmail]]
        /\ madeFor' = [madeFor EXCEPT ![a] = p]
    /\ UNCHANGED <<credential, token, standing, left>>

\* The email or the credential is there by now: nothing is kept, the sign-in
\* fails.
CreateRaises(h) ==
    LET p == signIn[h].profile IN
    /\ signIn[h].step = "found"
    /\ credential[p] # NoAccount \/ EmailTaken(EmailOf[p])
    /\ signIn' = [signIn EXCEPT ![h] = IdleSignIn]
    /\ UNCHANGED <<account, madeFor, credential, token, standing, left>>

\* The token names the account; its status is not looked at, here or later.
IssueToken(h) ==
    /\ signIn[h].step = "issue"
    /\ token' = token \cup {<<signIn[h].profile, signIn[h].found>>}
    /\ signIn' = [signIn EXCEPT ![h] = IdleSignIn]
    /\ UNCHANGED <<account, madeFor, credential, standing, left>>

TokenExpires(t) ==
    /\ t \in token
    /\ token' = token \ {t}
    /\ UNCHANGED <<account, madeFor, credential, signIn, standing, left>>

-----------------------------------------------------------------------------
(* Withdrawal and suspension *)

\* The row stays for the orders, anonymous; the credentials go.
Withdraw(p, a) ==
    /\ <<p, a>> \in token
    /\ account' = [account EXCEPT ![a] = [status |-> "DELETED", email |-> NoEmail]]
    /\ credential' = [q \in Profiles |-> IF credential[q] = a THEN NoAccount ELSE credential[q]]
    /\ left' = left \cup {a}
    /\ UNCHANGED <<madeFor, token, signIn, standing>>

\* suspend and unsuspend load the row ...
LoadStanding(o, a, to) ==
    /\ standing[o] = IdleStanding
    /\ account[a] # Free
    /\ standing' = [standing EXCEPT ![o] = [a |-> a, loaded |-> account[a].status, to |-> to]]
    /\ UNCHANGED <<account, madeFor, credential, token, signIn, left>>

\* ... and write the status if it is another one, whatever it is by now.
SetStanding(o) ==
    LET s == standing[o] IN
    /\ s # IdleStanding
    /\ account' = IF s.loaded = s.to THEN account ELSE [account EXCEPT ![s.a].status = s.to]
    /\ standing' = [standing EXCEPT ![o] = IdleStanding]
    /\ UNCHANGED <<madeFor, credential, token, signIn, left>>

IdentityNext ==
    \/ \E h \in LoginHandlers :
        \/ CreateRaises(h) \/ IssueToken(h)
        \/ \E p \in Profiles : StartSignIn(h, p)
        \/ \E a \in Accounts : CreateAccount(h, a)
    \/ \E t \in token : TokenExpires(t) \/ Withdraw(t[1], t[2])
    \/ \E o \in Operators : \/ SetStanding(o)
                            \/ \E a \in Accounts, to \in {"ACTIVE", "SUSPENDED"} : LoadStanding(o, a, to)

IdentitySpec == IdentityInit /\ [][IdentityNext]_identityVars

-----------------------------------------------------------------------------
(* Properties *)

\* However often somebody signs in for the first time at once, there is one
\* account for the profile that has not withdrawn, and no other account is
\* made for it until it does.
OneAccountPerProfile ==
    \A a, b \in Accounts \ left : madeFor[a] = madeFor[b] /\ madeFor[a] # NoProfile => a = b

\* account_repo.withdraw: "no way back to this account by signing in again".
\* Whatever sign-ins and operators are under way, a withdrawn account never
\* has a credential or an email again.
WithdrawnIsAnonymous ==
    \A a \in left : account[a].email = NoEmail /\ \A p \in Profiles : credential[p] # a

\* One person is one account, until it is nobody's.
IdentitySafety == OneAccountPerProfile /\ WithdrawnIsAnonymous
=============================================================================
