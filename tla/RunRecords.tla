----------------------------- MODULE RunRecords -----------------------------
(***************************************************************************)
(* One run record of the API process and the synchronous operations on it: *)
(* runs/records/run-record-store.ts, run-cancellation.ts and the record    *)
(* transitions of run-actions.ts.                                          *)
(*                                                                         *)
(* Events are their type.  A stage_started event stands for itself and for *)
(* the stage_progress event emitted with it; llm_chunk events never enter  *)
(* the record unless a debug flag is set and are left out, as are time     *)
(* stamps and the persistence callback (modelled in RunStore).             *)
(***************************************************************************)
EXTENDS Naturals, Sequences

TerminalEvents == {"completed", "failed", "cancelled"}

Events == TerminalEvents \cup
          {"queued", "stage_started", "artifact_ready", "run_action"}

Statuses == TerminalEvents \cup {"queued", "running"}

\* RunError, as far as billing and the user tell errors apart: none, a
\* platform_provider error, any other pipeline error, and RUN_CANCELLED.
PipelineErrors == {"PLATFORM_PROVIDER", "RUN_ERROR"}

RunErrors == PipelineErrors \cup {"none", "RUN_CANCELLED"}

RunRecord == [status : Statuses, error : RunErrors,
              terminal : BOOLEAN, events : Seq(Events)]

\* A freshly created record, before its queued event.
EmptyRecord ==
  [status |-> "queued", error |-> "none", terminal |-> FALSE, events |-> <<>>]

isTerminalRunEvent(e) == e \in TerminalEvents

HasTerminalEvent(evs) == \E i \in DOMAIN evs : isTerminalRunEvent(evs[i])

FirstTerminal(evs) ==
  CHOOSE i \in DOMAIN evs :
    /\ isTerminalRunEvent(evs[i])
    /\ \A j \in DOMAIN evs : j < i => ~isTerminalRunEvent(evs[j])

\* The status the record is closed with: its first terminal event, or a
\* terminal snapshot status when no event says so.
restoreRecordedTerminalStatus(rec) ==
  IF HasTerminalEvent(rec.events)
  THEN [rec EXCEPT !.status = rec.events[FirstTerminal(rec.events)]]
  ELSE rec

\* Mutants: the late event leaves the status the caller wrote; late progress is
\* taken; run_action is dropped as well.
emitEvent_no_restore(rec, e) ==
  IF rec.terminal /\ e # "run_action" THEN rec
  ELSE [rec EXCEPT !.events = Append(@, e),
                   !.terminal = @ \/ isTerminalRunEvent(e)]

emitEvent_late_progress(rec, e) ==
  IF rec.terminal /\ isTerminalRunEvent(e)
  THEN restoreRecordedTerminalStatus(rec)
  ELSE [rec EXCEPT !.events = Append(@, e),
                   !.terminal = @ \/ isTerminalRunEvent(e)]

\* A closed record takes no event but run_action; a late terminal event only
\* puts the recorded status back.
emitEvent(rec, e) ==
  IF rec.terminal /\ e # "run_action"
  THEN IF isTerminalRunEvent(e) THEN restoreRecordedTerminalStatus(rec) ELSE rec
  ELSE [rec EXCEPT !.events = Append(@, e),
                   !.terminal = @ \/ isTerminalRunEvent(e)]

isRunCancelled(rec) == rec.terminal \/ rec.status = "cancelled"

isActiveRun(rec) == ~rec.terminal /\ rec.status \in {"queued", "running"}

isRetryableRun(rec) ==
  \/ rec.status \in {"failed", "cancelled"}
  \/ rec.terminal /\ rec.status \in {"queued", "running"}

cancelRunRecord(rec) ==
  emitEvent([rec EXCEPT !.status = "cancelled", !.error = "RUN_CANCELLED"],
            "cancelled")

\* updateStage of every pipeline, past its cancellation check.
openStage(rec) == emitEvent([rec EXCEPT !.status = "running"], "stage_started")

\* The end of every pipeline.
completeRun(rec) ==
  emitEvent([rec EXCEPT !.status = "completed", !.error = "none"], "completed")

\* Mutant: the failure is recorded but not announced.
failRun_silent(rec, err) == [rec EXCEPT !.status = "failed", !.error = err]

failRun(rec, err) ==
  emitEvent([rec EXCEPT !.status = "failed", !.error = err], "failed")

-----------------------------------------------------------------------------
(***************************************************************************)
(* An SSE stream of a run (sse/run-events.ts): what it has sent and whether *)
(* its listener is still attached.  It closes on the first terminal event. *)
(***************************************************************************)
\* Mutant: the stream is closed before its terminal event is sent.
UptoTerminal_closes_first(evs) ==
  IF HasTerminalEvent(evs) THEN SubSeq(evs, 1, FirstTerminal(evs) - 1) ELSE evs

UptoTerminal(evs) ==
  IF HasTerminalEvent(evs) THEN SubSeq(evs, 1, FirstTerminal(evs)) ELSE evs

\* emitEvent calls the attached listeners with every event it takes.
deliver(stream, old, new) ==
  LET fresh == SubSeq(new.events, Len(old.events) + 1, Len(new.events))
  IN  [stream EXCEPT !.sent = @ \o UptoTerminal(fresh),
                     !.open = ~HasTerminalEvent(fresh)]
=============================================================================
