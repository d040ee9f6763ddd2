----------------------------- MODULE RunOutcome -----------------------------
(***************************************************************************)
(* What the platform promises about generation runs: a run is started at   *)
(* most once, fresh or from a run that has ended, and ends with exactly    *)
(* one outcome that nothing changes afterwards.                            *)
(***************************************************************************)
CONSTANTS Runs, NoRun

VARIABLES
  outcome,  \* [Runs]: "none" before the start, "pending", then its outcome
  parent    \* [Runs]: the run it was started from, or NoRun

Outcomes == {"completed", "failed", "cancelled"}

Init ==
  /\ outcome = [r \in Runs |-> "none"]
  /\ parent = [r \in Runs |-> NoRun]

Start(r, p) ==
  /\ outcome[r] = "none"
  /\ p \in Runs => outcome[p] \in Outcomes
  /\ outcome' = [outcome EXCEPT ![r] = "pending"]
  /\ parent' = [parent EXCEPT ![r] = p]

End(r) ==
  /\ outcome[r] = "pending"
  /\ \E o \in Outcomes : outcome' = [outcome EXCEPT ![r] = o]
  /\ UNCHANGED parent

Next ==
  \/ \E r \in Runs, p \in Runs \cup {NoRun} : Start(r, p)
  \/ \E r \in Runs : End(r)

vars == <<outcome, parent>>

Safe == Init /\ [][Next]_vars

\* ... and every started run ends.
Promise == Safe /\ \A r \in Runs : WF_vars(End(r))
=============================================================================
