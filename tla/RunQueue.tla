------------------------------ MODULE RunQueue ------------------------------
(***************************************************************************)
(* One run that is generated by a worker process: runs/queue/run-queue.ts, *)
(* workers/generation-worker.ts and the Redis half of sse/run-events.ts.   *)
(* The API process has saved the run and is about to enqueue it; the       *)
(* worker takes the BullMQ job, revives the record from the job's payload  *)
(* and runs the pipeline; both processes save the run to one row; events   *)
(* and cancellations cross between them over Redis.                        *)
(*                                                                         *)
(* A refresh and a save are one step each (RunStore splits them), the rows *)
(* of run_events and billing (Billing) are left out, and of the events a   *)
(* stream is sent only the terminal ones are kept.  A pipeline has one     *)
(* stage here (RunLifecycle has the stages).  Queries do not fail.         *)
(***************************************************************************)
EXTENDS RunRecords

CONSTANT MaxCrashes   \* bound: crashes of the worker process

ASSUME MaxCrashesAssumption == MaxCrashes \in Nat

VARIABLES
  job,          \* the BullMQ job: "none", "waiting", "active", "stalled",
                \* "completed", "failed" or "removed"
  stalls,       \* how often the job has been found stalled
  worker,       \* where processRun is, "idle", or "down"
  rec,          \* the record the worker revived last
  workerSaves,  \* saves of the worker process, first to run first
  cancel,       \* the cancel route: [step, rec], with the record it refreshed
  stream,       \* an SSE request: "new", "subscribing", "subscribed", "open", "closed"
  apiSaves,     \* saves of the API process, first to run first
  row,          \* the row of run_records
  control,      \* cancel messages on their way to the worker
  wire,         \* terminal events on their way to a subscribed stream
  crashes       \* crashes of the worker so far

workerVars == <<job, stalls, worker, rec, workerSaves, crashes>>
apiVars == <<cancel, stream, apiSaves>>
vars == <<workerVars, apiVars, row, control, wire>>

\* jobPayloadForRun is made when the run has only been queued.
Payload == emitEvent(EmptyRecord, "queued")

-----------------------------------------------------------------------------
(***************************************************************************)
(* The row.  A save is the event it was queued for, "none" for a save      *)
(* without one, or "loaded" for that of a record loaded as interrupted.    *)
(***************************************************************************)
\* The terminal event being saved, or the recorded one, or the snapshot's.
persistedStatus(r, e) ==
  IF isTerminalRunEvent(e) THEN e
  ELSE restoreRecordedTerminalStatus(r).status

\* Mutant: the end date of this save alone.
saved_not_coalesced(r, e) ==
  [status |-> persistedStatus(r, e), snapshot |-> r.status,
   completedAt |-> r.terminal \/ isTerminalRunEvent(e)]

\* saveRecord keeps an end date the row has.
saved(r, e) ==
  IF e = "loaded"
  THEN [status |-> "failed", snapshot |-> "failed", completedAt |-> TRUE]
  ELSE [status |-> persistedStatus(r, e), snapshot |-> r.status,
        completedAt |-> r.terminal \/ isTerminalRunEvent(e) \/ row.completedAt]

\* A row that is active and has an end date is loaded as a failed run, in any
\* process, and that is saved.
Interrupted == row.status \in {"queued", "running"} /\ row.completedAt

LoadSaves == IF Interrupted THEN <<"loaded">> ELSE <<>>

LoadedTerminal == row.status \in TerminalEvents \/ row.completedAt

WorkerSaves ==
  /\ workerSaves # <<>>
  /\ row' = saved(rec, Head(workerSaves))
  /\ workerSaves' = Tail(workerSaves)
  /\ UNCHANGED <<job, stalls, worker, rec, crashes, apiVars, control, wire>>

ApiSaves ==
  /\ apiSaves # <<>>
  /\ row' = saved(cancel.rec, Head(apiSaves))
  /\ apiSaves' = Tail(apiSaves)
  /\ UNCHANGED <<workerVars, cancel, stream, control, wire>>

-----------------------------------------------------------------------------
(***************************************************************************)
(* The job.                                                                *)
(***************************************************************************)
\* The start route, after its flush; a failing queue.add leaves "none".
enqueueRun ==
  /\ job = "none"
  /\ job' = "waiting"
  /\ UNCHANGED <<stalls, worker, rec, workerSaves, crashes, apiVars, row,
                 control, wire>>

TakesJob ==
  /\ job = "waiting" /\ worker = "idle"
  /\ job' = "active" /\ worker' = "taken"
  /\ UNCHANGED <<stalls, rec, workerSaves, crashes, apiVars, row, control, wire>>

\* BullMQ finds a job whose worker died: once it is run again (maxStalledCount).
StalledJobReturns ==
  /\ job = "stalled"
  /\ stalls' = stalls + 1
  /\ job' = IF stalls = 0 THEN "waiting" ELSE "failed"
  /\ UNCHANGED <<worker, rec, workerSaves, crashes, apiVars, row, control, wire>>

-----------------------------------------------------------------------------
(***************************************************************************)
(* processRun.                                                             *)
(***************************************************************************)
\* Mutant: the revived record has no publisher.
announces_nothing(new) == {}

\* emitEvent calls the publisher of the worker's record.
announces(new) ==
  {new.events[i] : i \in (Len(rec.events) + 1)..Len(new.events)} \cap TerminalEvents

\* The worker's record becomes new, its new events are published and saved.
Emits(new) ==
  /\ rec' = new
  /\ wire' = wire \cup announces(new)
  /\ workerSaves' = workerSaves
                    \o SubSeq(new.events, Len(rec.events) + 1, Len(new.events))

\* runs.set saves the record as it was queued, whatever the row says by now.
ProcessRun ==
  /\ worker = "taken"
  /\ rec' = Payload /\ workerSaves' = Append(workerSaves, "none")
  /\ worker' = "resolving"
  /\ UNCHANGED <<job, stalls, crashes, apiVars, row, control, wire>>

\* Mutant: the provider is refused without a word to the run.
ProviderUnusable_silent ==
  /\ worker = "resolving"
  /\ job' = "failed" /\ worker' = "idle"
  /\ UNCHANGED <<stalls, rec, workerSaves, crashes, apiVars, row, control, wire>>

\* resolveWorkerProviderSettings throws, and processRun throws it again.
ProviderUnusable ==
  /\ worker = "resolving"
  /\ Emits(IF isRunCancelled(rec) THEN rec ELSE failRun(rec, "RUN_ERROR"))
  /\ job' = "failed" /\ worker' = "idle"
  /\ UNCHANGED <<stalls, crashes, apiVars, row, control>>

OpensStage ==
  /\ ~isRunCancelled(rec)
  /\ worker = "resolving" /\ worker' = "running"
  /\ Emits(openStage(rec))
  /\ UNCHANGED <<job, stalls, crashes, apiVars, row, control>>

\* The pipeline ends; runRunRecordPipeline then settles the credit.
PipelineEnds ==
  /\ \/ /\ worker = "running" /\ ~isRunCancelled(rec)
        /\ Emits(completeRun(rec)) \/ Emits(failRun(rec, "RUN_ERROR"))
     \/ /\ worker \in {"resolving", "running"} /\ isRunCancelled(rec)
        /\ Emits(rec)
  /\ worker' = "settling"
  /\ UNCHANGED <<job, stalls, crashes, apiVars, row, control>>

\* The record leaves activeRecords; its saves may still be under way.
JobEnds ==
  /\ worker = "settling"
  /\ job' = "completed" /\ worker' = "idle"
  /\ UNCHANGED <<stalls, rec, workerSaves, crashes, apiVars, row, control, wire>>

activeRecord == worker \in {"resolving", "running", "settling"}

\* onCancelRun: nothing but a record in activeRecords is cancelled.
onCancelRun ==
  /\ control > 0 /\ worker # "down"
  /\ control' = control - 1
  /\ rec' = IF activeRecord
            THEN [rec EXCEPT !.status = "cancelled", !.terminal = TRUE] ELSE rec
  /\ UNCHANGED <<job, stalls, worker, workerSaves, crashes, apiVars, row, wire>>

\* The worker dies with its saves and what it has not published yet.
WorkerCrashes ==
  /\ worker # "down" /\ crashes < MaxCrashes
  /\ crashes' = crashes + 1
  /\ worker' = "down" /\ workerSaves' = <<>> /\ control' = 0
  /\ job' = IF job = "active" THEN "stalled" ELSE job
  /\ \E lost \in SUBSET (wire \ {"cancelled"}) : wire' = wire \ lost
  /\ UNCHANGED <<stalls, rec, apiVars, row>>

\* createApiPersistence restores the store before the worker listens.
WorkerRestarts ==
  /\ worker = "down"
  /\ worker' = "idle" /\ workerSaves' = LoadSaves
  /\ UNCHANGED <<job, stalls, rec, crashes, apiVars, row, control, wire>>

-----------------------------------------------------------------------------
(***************************************************************************)
(* The cancel route of the API process.                                    *)
(***************************************************************************)
CancelReads ==
  /\ cancel.step = "new"
  /\ cancel' = [step |-> IF LoadedTerminal THEN "refused" ELSE "read",
                rec  |-> [Payload EXCEPT !.status = row.snapshot,
                                         !.terminal = LoadedTerminal]]
  /\ apiSaves' = apiSaves \o LoadSaves
  /\ UNCHANGED <<workerVars, stream, row, control, wire>>

\* job.remove fails on a job whose lock a worker holds, or held until lately.
CancelRemoves ==
  /\ cancel.step = "read"
  /\ cancel' = [cancel EXCEPT !.step = "removed"]
  /\ \/ job \in {"waiting", "stalled"} /\ job' = "removed"
     \/ job # "waiting" /\ UNCHANGED job
  /\ UNCHANGED <<stalls, worker, rec, workerSaves, crashes, stream, apiSaves, row,
                 control, wire>>

\* Pub/sub keeps no message for a worker that is not there.
CancelPublishes ==
  /\ cancel.step = "removed"
  /\ cancel' = [cancel EXCEPT !.step = "published"]
  /\ control' = IF worker = "down" THEN control ELSE control + 1
  /\ UNCHANGED <<workerVars, stream, apiSaves, row, wire>>

\* cancelRunRecord: published, told to local listeners, saved.
CancelFinishes ==
  /\ cancel.step = "published"
  /\ cancel' = [cancel EXCEPT !.step = "cancelled", !.rec = cancelRunRecord(@)]
  /\ wire' = wire \cup {"cancelled"}
  /\ stream' = IF stream = "open" THEN "closed" ELSE stream
  /\ apiSaves' = Append(apiSaves, "cancelled")
  /\ UNCHANGED <<workerVars, row, control>>

-----------------------------------------------------------------------------
(***************************************************************************)
(* An SSE request of the API process.                                      *)
(***************************************************************************)
StreamReads ==
  /\ stream = "new"
  /\ stream' = IF LoadedTerminal THEN "closed" ELSE "subscribing"
  /\ apiSaves' = apiSaves \o LoadSaves
  /\ UNCHANGED <<workerVars, cancel, row, control, wire>>

StreamSubscribes ==
  /\ stream = "subscribing"
  /\ stream' = "subscribed"
  /\ UNCHANGED <<workerVars, cancel, apiSaves, row, control, wire>>

\* The second refresh and the replay; then the local listener is attached.
StreamReplays ==
  /\ stream = "subscribed"
  /\ stream' = IF LoadedTerminal THEN "closed" ELSE "open"
  /\ apiSaves' = apiSaves \o LoadSaves
  /\ UNCHANGED <<workerVars, cancel, row, control, wire>>

\* The subscription fails or the client goes away.
StreamDrops ==
  /\ stream \in {"subscribing", "subscribed", "open"}
  /\ stream' = "closed"
  /\ UNCHANGED <<workerVars, cancel, apiSaves, row, control, wire>>

\* sendAndMaybeClose; without a subscription the message is gone.
Delivers(e) ==
  /\ e \in wire
  /\ wire' = wire \ {e}
  /\ stream' = IF stream \in {"subscribed", "open"} THEN "closed" ELSE stream
  /\ UNCHANGED <<workerVars, cancel, apiSaves, row, control>>

-----------------------------------------------------------------------------
\* The start route has saved the queued run and has not called the queue yet.
Init ==
  /\ job = "none" /\ stalls = 0 /\ worker = "idle" /\ crashes = 0
  /\ rec = EmptyRecord /\ workerSaves = <<>>
  /\ cancel = [step |-> "new", rec |-> EmptyRecord]
  /\ stream = "new" /\ apiSaves = <<>>
  /\ row = [status |-> "queued", snapshot |-> "queued", completedAt |-> FALSE]
  /\ control = 0 /\ wire = {}

Job == enqueueRun \/ TakesJob \/ StalledJobReturns

Pipeline == ProviderUnusable \/ OpensStage \/ PipelineEnds

Worker == ProcessRun \/ Pipeline \/ JobEnds \/ onCancelRun \/ WorkerRestarts

CancelGoesOn == CancelRemoves \/ CancelPublishes \/ CancelFinishes

Stream == StreamReads \/ StreamSubscribes \/ StreamReplays \/ StreamDrops

Next ==
  \/ Job \/ Worker \/ WorkerSaves \/ WorkerCrashes
  \/ CancelReads \/ CancelGoesOn \/ Stream \/ ApiSaves
  \/ \E e \in TerminalEvents : Delivers(e)

Spec == Init /\ [][Next]_vars

\* BullMQ hands out waiting jobs and finds stalled ones; both event loops run
\* what they have started; Redis delivers what is published.  Nobody has to
\* enqueue, cancel or watch.
Fairness ==
  /\ WF_vars(TakesJob) /\ WF_vars(StalledJobReturns)
  /\ WF_vars(ProcessRun) /\ WF_vars(Pipeline) /\ WF_vars(JobEnds)
  /\ WF_vars(WorkerRestarts)
  /\ WF_vars(WorkerSaves) /\ WF_vars(ApiSaves) /\ WF_vars(CancelGoesOn)
  /\ \A e \in TerminalEvents : WF_vars(Delivers(e))

FairSpec == Spec /\ Fairness

-----------------------------------------------------------------------------
(***************************************************************************)
(* Properties.                                                             *)
(***************************************************************************)
\* Types of the variables (both processes, the row and Redis).
TypeOK ==
  /\ job \in {"none", "waiting", "active", "stalled", "completed", "failed", "removed"}
  /\ stalls \in Nat /\ crashes \in 0..MaxCrashes /\ control \in Nat
  /\ worker \in {"idle", "taken", "resolving", "running", "settling", "down"}
  /\ rec \in RunRecord
  /\ workerSaves \in Seq(Events \cup {"none", "loaded"})
  /\ apiSaves \in Seq({"cancelled", "loaded"})
  /\ cancel.step \in {"new", "read", "removed", "published", "cancelled", "refused"}
  /\ cancel.rec \in RunRecord
  /\ stream \in {"new", "subscribing", "subscribed", "open", "closed"}
  /\ row \in [status : Statuses, snapshot : Statuses, completedAt : BOOLEAN]
  /\ wire \subseteq TerminalEvents

\* The worker died with the last save of a run whose job was done, or died a
\* second time: nobody runs the job again, and no process loads the run as
\* interrupted when a queue is configured.
Abandoned ==
  /\ crashes > 0 /\ workerSaves = <<>> /\ ~row.completedAt
  /\ job = "completed" \/ (job = "failed" /\ worker # "settling")

\* A run that is in the queue gets its end date, whatever the worker, a cancel
\* or one crash in the middle of the pipeline do: the job that is run again
\* ends it.  Only an abandoned one does not.
EveryQueuedRunEnds == job = "waiting" ~> row.completedAt \/ Abandoned

\* No process loads a run that has ended as active again: neither the worker
\* that writes the queued snapshot of its payload over the row, nor a worker
\* that missed the cancellation.
NeverReopened == [][ LoadedTerminal => LoadedTerminal' ]_vars

\* Neither the worker's record nor the cancel route has told of an end yet.
NothingAnnounced ==
  ~HasTerminalEvent(rec.events) /\ cancel.step # "cancelled"

\* A stream that is subscribed before the end is told is closed by it, although
\* the end is told before it is saved and two processes may tell it.  Only a
\* worker that dies while it tells the end leaves it open.
WatcherSeesTheEnd ==
  stream = "subscribed" /\ NothingAnnounced /\ job # "none"
    ~> stream = "closed"
       \/ (crashes > 0 /\ wire = {} /\ job \in {"completed", "failed"})
=============================================================================
