----------------------------- MODULE MCPayouts -----------------------------
(***************************************************************************)
(* Instances of Payouts for TLC.  A behaviour plays one scene: "requests", *)
(* two sales of one author whose request races with the weekly batch, with *)
(* a rejection and with two first registrations of an account; "batches",  *)
(* two processes that tick for two authors; "accounts", one process and    *)
(* two first registrations.  Time passes over the sales where batches are  *)
(* what the scene is about.                                                *)
(***************************************************************************)
EXTENDS Payouts, TLC

CONSTANTS o1, o2, o3, a1, a2, p1, p2, p3, c1, s1, s2, w1, w2,
          Scenes     \* the scenes that are played

VARIABLE scene

sceneVars == <<vars, scene>>

TwoAuthors == o1 :> a1 @@ o2 :> a1 @@ o3 :> a2

\* Who takes part.
Plays ==
  [requests |-> [sales |-> {o1, o2}, payouts |-> {p1, p2, p3}, callers |-> {c1}, schedulers |-> {s1},
                 authors |-> {a1}, writers |-> {w1, w2}],
   batches  |-> [sales |-> {o1, o3}, payouts |-> {p1, p2}, callers |-> {}, schedulers |-> {s1, s2},
                 authors |-> {a1, a2}, writers |-> {w1}],
   accounts |-> [sales |-> {o1, o3}, payouts |-> {p1, p2}, callers |-> {}, schedulers |-> {s1},
                 authors |-> {a1, a2}, writers |-> {w1, w2}]]

OneOf(S) == IF S = {} THEN {} ELSE {CHOOSE x \in S : TRUE}

SceneInit == Init /\ scene \in Scenes

\* The payouts are alike, and so are the requests that register an account: the
\* first that is free is taken.
SceneNext ==
  LET cast == Plays[scene]
      nextPayout == OneOf({p \in cast.payouts : pstatus[p] = "NONE"})
      nextWriter == OneOf({w \in cast.writers : writer[w] = NoAuthor})
  IN
  /\ Next
  /\ UNCHANGED scene
  /\ \A o \in Orders \ cast.sales : status'[o] = status[o]
  /\ \A p \in Payouts : IF pstatus'[p] # pstatus[p] /\ pstatus[p] = "NONE" THEN p \in nextPayout ELSE TRUE
  /\ \A w \in Workers \ (cast.callers \cup cast.schedulers) : call'[w] = NoCall
  /\ \A s \in Schedulers \ cast.schedulers : batch'[s] = NoBatch
  /\ \A a \in Authors \ cast.authors : bank'[a] = 0
  /\ \A w \in Writers : IF writer'[w] # writer[w] /\ writer[w] = NoAuthor
                          THEN w \in nextWriter /\ writer'[w] \in cast.authors ELSE TRUE
  /\ IF scene = "requests" THEN UNCHANGED aged ELSE \A p \in Payouts : pstatus'[p] # "REJECTED"

\* What Payouts asks of its scheduler, where that is what the scene is about.
Fair == scene # "requests"
SceneFairness ==
  /\ \A s \in Schedulers : /\ SF_vars(Fair /\ Commits(s)) /\ SF_vars(Fair /\ Locks(s))
                          /\ WF_vars(Fair /\ s \in Plays[scene].schedulers /\ GoesOn(s))
  /\ WF_vars(Fair /\ NextWednesday)
  /\ <>[][\A s \in Schedulers : Die(s) => EndsByItself(s)]_vars

SceneSpec == SceneInit /\ [][SceneNext]_sceneVars /\ SceneFairness
=============================================================================
