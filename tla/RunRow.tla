------------------------------- MODULE RunRow -------------------------------
(***************************************************************************)
(* What the database row of one run tells whoever loads it, whichever      *)
(* processes save it and whenever one dies: an end is never taken back, no *)
(* success and no cancellation is made up, a failure is told only of a run *)
(* that failed, was interrupted or was cancelled, and the first outcome    *)
(* told stays unless the run has two writers.                              *)
(***************************************************************************)
CONSTANT RunsAgain  \* BOOLEAN: an interrupted run may be run a second time

VARIABLES
  seen,    \* "none" without a row, "active", or the outcome it is loaded with
  reached  \* what has happened to the run: its outcomes so far, "interrupted"

vars == <<seen, reached>>

Outcomes == {"completed", "failed", "cancelled"}

\* A cancelled run is saved by the cancel route and by its pipeline; one that
\* is run again by two pipelines.
TwoWriters ==
  "cancelled" \in reached \/ (RunsAgain /\ "interrupted" \in reached)

Init == seen \in {"none", "active"} /\ reached = {}

Reach(o) == reached' = reached \cup {o} /\ UNCHANGED seen

Appear == seen = "none" /\ seen' = "active" /\ UNCHANGED reached

Show(o) ==
  /\ seen \in Outcomes => TwoWriters
  /\ o \in reached \/ (o = "failed" /\ reached \cap {"cancelled", "interrupted"} # {})
  /\ seen' = o
  /\ UNCHANGED reached

Delete == seen' = "none" /\ UNCHANGED reached

Next ==
  \/ \E o \in Outcomes \cup {"interrupted"} : Reach(o)
  \/ Appear \/ Delete
  \/ \E o \in Outcomes : Show(o)

Spec == Init /\ [][Next]_vars
=============================================================================
