---------------------------- MODULE DesktopLogin ----------------------------
(***************************************************************************)
(* Logging in on the desktop: a listener on the loopback address, the      *)
(* system browser, the callback and the keychain.  Each click on "log in"  *)
(* has a listener and a deadline of its own; the keychain and the setting  *)
(* table are shared.  A login serves one connection at a time.             *)
(***************************************************************************)
EXTENDS Integers, Sequences

CONSTANTS Logins,     \* logins started
          Timeout,    \* timeout_s
          MaxTime,    \* bound: the monotonic clock
          MaxBacklog, \* bound: connections that wait
          ManualToken, NoToken

ASSUME LoginAssumption == /\ Timeout \in Nat \ {0} /\ MaxTime \in Nat /\ MaxBacklog \in Nat
                          /\ ManualToken \notin Logins
                          /\ NoToken \notin Logins \cup {ManualToken}

VARIABLES clock,
          flow,    \* the logins: phase, deadline, the listener and its backlog; history: when
                   \* the wait began, and whether a silent connection held it beyond its time
          keyring, \* the token in the keychain
          plain    \* setting.token, the manual fallback

loginVars == <<clock, flow, keyring, plain>>

\* What can connect to the listener: the callback with a token, with an error
\* or with neither, a request for another path, a connection without a request.
Connections == {"token", "error", "empty", "noise", "silent"}
Phases == {"idle", "asking", "waiting", "blocked", "token", "ok", "failed"}
Ended == {"ok", "failed"}

Backlogs == UNION {[1..n -> Connections] : n \in 0..MaxBacklog}
LoginFlow == [phase : Phases, deadline : 0..(MaxTime + Timeout), since : 0..MaxTime,
              late : BOOLEAN, open : BOOLEAN, backlog : Backlogs]

LoginTypeOK ==
    /\ clock \in 0..MaxTime
    /\ flow \in [Logins -> LoginFlow]
    /\ keyring \in Logins \cup {NoToken}
    /\ plain \in {NoToken, ManualToken}

LoginInit ==
    /\ clock = 0
    /\ flow = [l \in Logins |-> [phase |-> "idle", deadline |-> 0, since |-> 0, late |-> FALSE,
                               open |-> FALSE, backlog |-> <<>>]]
    /\ keyring = NoToken
    /\ plain \in {NoToken, ManualToken}

\* _effective_token: the keychain first, then what was typed in by hand.
EffectiveToken == IF keyring # NoToken THEN keyring ELSE plain

-----------------------------------------------------------------------------
OpenListener(l) ==
    /\ flow[l].phase = "idle"
    /\ flow' = [flow EXCEPT ![l].phase = "asking", ![l].open = TRUE]
    /\ UNCHANGED <<clock, keyring, plain>>

\* server_close in the finally of wait_for_callback or the except of run_login_flow.
CloseWith(l, phase) == flow' = [flow EXCEPT ![l].phase = phase, ![l].open = FALSE, ![l].backlog = <<>>]

\* The browser does not open.
AskingFails(l) ==
    /\ flow[l].phase = "asking"
    /\ CloseWith(l, "failed")
    /\ UNCHANGED <<clock, keyring, plain>>

OpenBrowser(l) ==
    /\ flow[l].phase = "asking"
    /\ flow' = [flow EXCEPT ![l].phase = "waiting", ![l].deadline = clock + Timeout,
                            ![l].since = clock]
    /\ UNCHANGED <<clock, keyring, plain>>

\* The socket listens from the start; the kernel queues what connects.
Connect(l, c) ==
    /\ flow[l].open
    /\ Len(flow[l].backlog) < MaxBacklog
    /\ flow' = [flow EXCEPT ![l].backlog = Append(@, c)]
    /\ UNCHANGED <<clock, keyring, plain>>

\* Mutant: every request that is served gets the whole time again.
HandleAnew(l) ==
    LET c == Head(flow[l].backlog) IN
    /\ flow[l].phase = "waiting"
    /\ clock < flow[l].deadline
    /\ flow[l].backlog # <<>>
    /\ \/ c = "noise" /\ flow' = [flow EXCEPT ![l].backlog = Tail(@), ![l].deadline = clock + Timeout]
       \/ c = "silent" /\ flow' = [flow EXCEPT ![l].backlog = Tail(@), ![l].phase = "blocked"]
       \/ c = "token"  /\ CloseWith(l, "token")
       \/ c \in {"error", "empty"} /\ CloseWith(l, "failed")
    /\ UNCHANGED <<clock, keyring, plain>>

\* handle_request, if there is time left: noise is answered 404, a connection
\* that sends nothing is waited for: server.timeout bounds the wait for a
\* connection, not the reading of what it sends.
HandleRequest(l) ==
    LET c == Head(flow[l].backlog) IN
    /\ flow[l].phase = "waiting"
    /\ clock < flow[l].deadline
    /\ flow[l].backlog # <<>>
    /\ \/ c = "noise"  /\ flow' = [flow EXCEPT ![l].backlog = Tail(@)]
       \/ c = "silent" /\ flow' = [flow EXCEPT ![l].backlog = Tail(@), ![l].phase = "blocked"]
       \/ c = "token"  /\ CloseWith(l, "token")
       \/ c \in {"error", "empty"} /\ CloseWith(l, "failed")
    /\ UNCHANGED <<clock, keyring, plain>>

TimeLeft(f) == clock <= f.since + Timeout

SilentConnectionCloses(l) ==
    /\ flow[l].phase = "blocked"
    /\ flow' = [flow EXCEPT ![l].phase = "waiting", ![l].late = ~TimeLeft(flow[l])]
    /\ UNCHANGED <<clock, keyring, plain>>

LoginTimesOut(l) ==
    /\ flow[l].phase = "waiting"
    /\ clock >= flow[l].deadline
    /\ CloseWith(l, "failed")
    /\ UNCHANGED <<clock, keyring, plain>>

\* set_token, then whoami: a keychain that fails stores nothing; a server that
\* fails leaves the token where it is and the login says it failed.
StoreToken(l) ==
    /\ flow[l].phase = "token"
    /\ \/ /\ keyring' = l
          /\ \E end \in Ended : flow' = [flow EXCEPT ![l].phase = end]
       \/ /\ flow' = [flow EXCEPT ![l].phase = "failed"]
          /\ UNCHANGED keyring
    /\ UNCHANGED <<clock, plain>>

\* delete_token: there may be none; setting.token stays.
Logout == keyring' = NoToken /\ UNCHANGED <<clock, flow, plain>>

\* save_settings, typed in by hand.
SaveManualToken == plain' \in {NoToken, ManualToken} /\ UNCHANGED <<clock, flow, keyring>>

\* The loop looks at the clock as soon as it has control again.
LoginTick ==
    /\ clock < MaxTime
    /\ \A l \in Logins : flow[l].phase = "waiting" => clock < flow[l].deadline
    /\ clock' = clock + 1
    /\ UNCHANGED <<flow, keyring, plain>>

LoginNext ==
    \/ \E l \in Logins :
        \/ OpenListener(l) \/ AskingFails(l) \/ OpenBrowser(l) \/ HandleRequest(l)
        \/ SilentConnectionCloses(l) \/ LoginTimesOut(l) \/ StoreToken(l)
        \/ \E c \in Connections : Connect(l, c)
    \/ Logout \/ SaveManualToken \/ LoginTick

LoginSpec == LoginInit /\ [][LoginNext]_loginVars

-----------------------------------------------------------------------------
\* However a login ends, by a token, an error, the clock or an exception, its
\* port is given back, and no request that is served makes its wait longer:
\* beyond timeout_s the port is open only while a silent connection is served.
\* Nothing bounds that: see WaitEndsInTime.
ListenerClosed ==
    \A l \in Logins : flow[l].open =>
        \/ flow[l].phase \in {"asking", "blocked"}
        \/ flow[l].phase = "waiting" /\ (TimeLeft(flow[l]) \/ flow[l].late)

\* wait_for_callback says that the whole wait does not exceed timeout_s and
\* that the listener is closed even then.
WaitEndsInTime == \A l \in Logins : flow[l].phase \in {"waiting", "blocked"} => TimeLeft(flow[l])
=============================================================================
