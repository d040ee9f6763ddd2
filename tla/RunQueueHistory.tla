--------------------------- MODULE RunQueueHistory ---------------------------
(***************************************************************************)
(* RunQueue with a history of what has happened to the run.  No variable   *)
(* of RunQueue remembers it: a crash drops the worker's record, and the    *)
(* job is run again from its payload.                                      *)
(***************************************************************************)
EXTENDS RunQueue

VARIABLE reached  \* the ends announced so far, and "interrupted"

\* What the current state tells of.
happening ==
  {e \in TerminalEvents : \E i \in DOMAIN rec.events : rec.events[i] = e}
  \cup (IF cancel.step \in {"new", "refused"} THEN {} ELSE {"cancelled"})
  \cup (IF crashes = 0 THEN {} ELSE {"interrupted"})

HistoryInit == Init /\ reached = {}

HistoryNext == Next /\ reached' = reached \cup happening'

HistorySpec == HistoryInit /\ [][HistoryNext]_<<vars, reached>>

FairHistorySpec == HistorySpec /\ Fairness

\* The outcome a process loads the run with.
seen ==
  IF ~LoadedTerminal THEN "active"
  ELSE IF Interrupted THEN "failed" ELSE row.snapshot

Row == INSTANCE RunRow WITH RunsAgain <- TRUE

\* What the row tells stays true to what happened, across two processes, a job
\* that is run again over the row it has ended, and a cancel the worker may
\* have missed.
KeepsRow == Row!Spec
=============================================================================
