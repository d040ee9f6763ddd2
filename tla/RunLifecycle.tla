---------------------------- MODULE RunLifecycle ----------------------------
(***************************************************************************)
(* Generation runs in one API process (no queue, in-memory records): the    *)
(* start and retry routes, the pipelines, billing settlement, the cancel    *)
(* routes, deletion and SSE streams.  Every action is the code between two  *)
(* awaits of one actor: JavaScript runs it without interruption, and any    *)
(* other actor may run before the next one.                                 *)
(***************************************************************************)
EXTENDS RunRecords, FiniteSets

CONSTANTS
  Runs,         \* run ids
  Cancels,      \* cancel requests of users, in flight or answered
  Streams,      \* SSE connections
  FreshRuns,    \* bound: the runs not made of an earlier run
  Kind,         \* the pipeline of each run: "document" or "feasibility"
  MaxRepairs,   \* repair calls after a first invalid model answer
  NoRun         \* not a run id

ASSUME FreshAssumption == FreshRuns \subseteq Runs
ASSUME KindAssumption == Kind \in [Runs -> {"document", "feasibility"}]
ASSUME RepairsAssumption == MaxRepairs \in Nat
ASSUME NoRunAssumption == NoRun \notin Runs

VARIABLES
  phase,        \* [Runs]: "unused", "starting" (reserved, no record yet),
                \* "created", "deleted" or "start_failed"
  source,       \* [Runs]: the run it retries, or NoRun
  record,       \* [Runs]: the RunRecord object, meaningful once created
  pipe,         \* [Runs]: where its pipeline is suspended
  written,      \* [Runs]: the steps whose result is in the snapshot
  library,      \* the runs whose document is in the document library
  reservation,  \* [Runs]: status of its credit reservation
  charge,       \* [Runs]: its usage and compensation ledger entries
  called,       \* the runs the model provider was called for
  cancel,       \* [Cancels]: where each cancel request is suspended
  stream        \* [Streams]: each SSE connection

vars == <<phase, source, record, pipe, written, library, reservation, charge,
          called, cancel, stream>>

-----------------------------------------------------------------------------
(***************************************************************************)
(* The pipelines, one entry per await: what the await is for, the events    *)
(* of entering it (with stage_started, after updateStage's cancellation     *)
(* check), whether the code checks for cancellation when the await returns, *)
(* and the events of writing its result to the snapshot.                    *)
(***************************************************************************)
\* Mutant: the document's save is not awaited.
DocumentSteps_unsaved ==
  << [awaits |-> "llm", begin |-> <<"stage_started">>, checks |-> TRUE,
      finish |-> <<>>],
     [awaits |-> "render", begin |-> <<"stage_started">>, checks |-> TRUE,
      finish |-> <<"artifact_ready">>] >>

DocumentSteps ==
  << [awaits |-> "llm", begin |-> <<"stage_started">>, checks |-> TRUE,
      finish |-> <<>>],
     [awaits |-> "render", begin |-> <<"stage_started">>, checks |-> TRUE,
      finish |-> <<>>],
     [awaits |-> "save", begin |-> <<>>, checks |-> TRUE,
      finish |-> <<"artifact_ready">>] >>

FeasibilitySteps ==
  << [awaits |-> "llm", begin |-> <<"stage_started">>, checks |-> FALSE,
      finish |-> <<>>],
     [awaits |-> "render", begin |-> <<"stage_started", "artifact_ready">>,
      checks |-> FALSE, finish |-> <<"artifact_ready">>],
     [awaits |-> "llm", begin |-> <<"stage_started">>, checks |-> FALSE,
      finish |-> <<"artifact_ready">>] >>

Steps(r) == IF Kind[r] = "document" THEN DocumentSteps ELSE FeasibilitySteps

\* Whether a repair attempt of a model answer first checks for cancellation.
RepairChecks(r) == Kind[r] = "feasibility"

StepOf(r) == Steps(r)[pipe[r].step]

IsLastStep(r) == pipe[r].step = Len(Steps(r))

NoPipeline ==
  [pc |-> "none", step |-> 1, repairs |-> 0, confirmed |-> FALSE,
   error |-> "none"]

PipePcs == {"none", "confirming", "confirm_write", "queued", "calling",
            "rendering", "saving", "saved", "throwing", "settling", "done"}

\* Pipeline p of r suspended in its step: a model call first confirms the
\* billing reservation, once, and then waits for the LLM scheduler.
await(r, p) ==
  LET kind == Steps(r)[p.step].awaits
  IN  [p EXCEPT !.pc = CASE kind = "render" -> "rendering"
                         [] kind = "save" -> "saving"
                         [] kind = "llm" /\ p.confirmed -> "queued"
                         [] OTHER -> "confirming"]

\* The cancellation error is none of the pipeline's own errors.
throws(p, err) == [p EXCEPT !.pc = "throwing", !.error = err]

beginStep(rec, step) ==
  IF step.begin = <<>> THEN rec
  ELSE IF Len(step.begin) = 1 THEN openStage(rec)
  ELSE emitEvent(openStage(rec), step.begin[2])

finishStep(rec, step) ==
  IF step.finish = <<>> THEN rec ELSE emitEvent(rec, step.finish[1])

-----------------------------------------------------------------------------
\* Record r becomes rec; its open streams hear the events it took.
Update(r, rec) ==
  /\ record' = [record EXCEPT ![r] = rec]
  /\ stream' = [s \in Streams |->
                  IF stream[s].run = r /\ stream[s].open
                  THEN deliver(stream[s], record[r], rec)
                  ELSE stream[s]]

KeepRecords == UNCHANGED <<record, stream>>

(***************************************************************************)
(* The start routes: a reservation, further awaits, then the record and the *)
(* first segment of the pipeline in one go.                                 *)
(***************************************************************************)
BeginStart(n, src) ==
  /\ phase[n] = "unused"
  /\ phase' = [phase EXCEPT ![n] = "starting"]
  /\ source' = [source EXCEPT ![n] = src]
  /\ reservation' = [reservation EXCEPT ![n] = "reserved"]
  /\ KeepRecords
  /\ UNCHANGED <<pipe, written, library, charge, called, cancel>>

StartRun(n) == n \in FreshRuns /\ BeginStart(n, NoRun)

\* A user retries a failed, cancelled or interrupted run, or reruns any run
\* that is not active.
RunAction(n, src, action) ==
  /\ phase[src] = "created"
  /\ Kind[n] = Kind[src]
  /\ action = "retry" => isRetryableRun(record[src])
  /\ ~isActiveRun(record[src])
  /\ BeginStart(n, src)

\* recordProviderUsage or recordGenerationUsage throws after the reservation.
StartFails(n) ==
  /\ phase[n] = "starting"
  /\ phase' = [phase EXCEPT ![n] = "start_failed"]
  /\ KeepRecords
  /\ UNCHANGED <<source, pipe, written, library, reservation, charge, called,
                 cancel>>

\* The record with its queued event, the run_action event on the source, and
\* the pipeline up to its first await.
CreateRun(n) ==
  LET queued == emitEvent(EmptyRecord, "queued")
      src == source[n]
  IN  /\ phase[n] = "starting"
      /\ phase' = [phase EXCEPT ![n] = "created"]
      /\ LET started == beginStep(queued, Steps(n)[1])
         IN  IF src = NoRun
             THEN /\ record' = [record EXCEPT ![n] = started]
                  /\ UNCHANGED stream
             ELSE LET acted == emitEvent(record[src], "run_action")
                  IN  /\ record' = [record EXCEPT ![n] = started, ![src] = acted]
                      /\ stream' = [s \in Streams |->
                                      IF stream[s].run = src /\ stream[s].open
                                      THEN deliver(stream[s], record[src], acted)
                                      ELSE stream[s]]
      /\ pipe' = [pipe EXCEPT ![n] = await(n, NoPipeline)]
      /\ UNCHANGED <<source, written, library, reservation, charge, called, cancel>>

-----------------------------------------------------------------------------
(***************************************************************************)
(* Billing confirmation, a database transaction without a lock: it reads    *)
(* the reservation, and only if it was reserved adds the usage entry and    *)
(* confirms whatever is still reserved.                                     *)
(***************************************************************************)
ConfirmReads(r) ==
  /\ pipe[r].pc = "confirming"
  /\ pipe' = [pipe EXCEPT ![r] =
                IF reservation[r] = "reserved"
                THEN [@ EXCEPT !.pc = "confirm_write"]
                ELSE await(r, [@ EXCEPT !.confirmed = TRUE])]
  /\ KeepRecords
  /\ UNCHANGED <<phase, source, written, library, reservation, charge, called,
                 cancel>>

ConfirmWrites(r) ==
  /\ pipe[r].pc = "confirm_write"
  /\ charge' = [charge EXCEPT ![r].usage = TRUE]
  /\ reservation' = [reservation EXCEPT ![r] =
                       IF @ = "reserved" THEN "confirmed" ELSE @]
  /\ pipe' = [pipe EXCEPT ![r] = await(r, [@ EXCEPT !.confirmed = TRUE])]
  /\ KeepRecords
  /\ UNCHANGED <<phase, source, written, library, called, cancel>>

\* The LLM scheduler starts the queued model call of r.
SlotGranted(r) ==
  /\ pipe[r].pc = "queued"
  /\ pipe' = [pipe EXCEPT ![r].pc = "calling"]
  /\ called' = called \cup {r}
  /\ KeepRecords
  /\ UNCHANGED <<phase, source, written, library, reservation, charge, cancel>>

\* saveGeneratedDocument takes effect in the document library.
LibrarySaves(r) ==
  /\ pipe[r].pc = "saving"
  /\ pipe' = [pipe EXCEPT ![r].pc = "saved"]
  /\ library' = library \cup {r}
  /\ KeepRecords
  /\ UNCHANGED <<phase, source, written, reservation, charge, called, cancel>>

\* A model answer does not parse: repair it with another call, or give up.
AnswerInvalid(r) ==
  /\ pipe[r].pc = "calling"
  /\ LET repair == [pipe[r] EXCEPT !.repairs = @ + 1]
     IN  pipe' = [pipe EXCEPT ![r] =
                    IF @.repairs = MaxRepairs THEN throws(@, "RUN_ERROR")
                    ELSE IF RepairChecks(r) /\ isRunCancelled(record[r])
                    THEN throws(@, "none")
                    ELSE await(r, repair)]
  /\ KeepRecords
  /\ UNCHANGED <<phase, source, written, library, reservation, charge, called,
                 cancel>>

\* The awaited confirmation, call, rendering or save rejects.  (A queued call
\* is rejected by cancelRun only.)
AwaitFails(r) ==
  /\ pipe[r].pc \in {"confirming", "confirm_write", "calling", "rendering",
                     "saving"}
  /\ \E err \in PipelineErrors :
       pipe' = [pipe EXCEPT ![r] = throws(@, err)]
  /\ KeepRecords
  /\ UNCHANGED <<phase, source, written, library, reservation, charge, called,
                 cancel>>

\* The awaited result arrives: it is checked, written to the snapshot and
\* announced, and the pipeline goes on to its next await or to its end.
AwaitReturns(r) ==
  LET step == StepOf(r)
      rec  == record[r]
      done == finishStep(rec, step)
      next == [pipe[r] EXCEPT !.step = @ + 1, !.repairs = 0]
  IN
  /\ pipe[r].pc \in {"calling", "rendering", "saved"}
  /\ IF step.checks /\ isRunCancelled(rec)
     THEN /\ pipe' = [pipe EXCEPT ![r] = throws(@, "none")]
          /\ KeepRecords
          /\ UNCHANGED written
     ELSE /\ written' = [written EXCEPT ![r] = @ \cup {pipe[r].step}]
          /\ CASE IsLastStep(r) ->
                    /\ Update(r, completeRun(done))
                    /\ pipe' = [pipe EXCEPT ![r].pc = "settling"]
               [] ~IsLastStep(r) /\ Steps(r)[next.step].begin # <<>>
                  /\ isRunCancelled(done) ->
                    /\ Update(r, done)
                    /\ pipe' = [pipe EXCEPT ![r] = throws(@, "none")]
               [] OTHER ->
                    /\ Update(r, beginStep(done, Steps(r)[next.step]))
                    /\ pipe' = [pipe EXCEPT ![r] = await(r, next)]
  /\ UNCHANGED <<phase, source, library, reservation, charge, called, cancel>>

\* The starter catches what the pipeline threw.
handleRunPipelineError(r) ==
  /\ pipe[r].pc = "throwing"
  /\ IF pipe[r].error = "none" \/ isRunCancelled(record[r])
     THEN /\ pipe' = [pipe EXCEPT ![r].pc = "settling", ![r].error = "none"]
          /\ KeepRecords
     ELSE /\ pipe' = [pipe EXCEPT ![r].pc = "settling"]
          /\ Update(r, failRun(record[r], pipe[r].error))
  /\ UNCHANGED <<phase, source, written, library, reservation, charge, called,
                 cancel>>

releaseRunUsage(r) ==
  /\ reservation' = [reservation EXCEPT ![r] =
                       IF @ = "reserved" THEN "released" ELSE @]
  /\ UNCHANGED charge

\* Mutant: the refund does not ask whether the run was charged.
compensateRunUsage_unchecked(r) ==
  /\ reservation' = [reservation EXCEPT ![r] = "released"]
  /\ charge' = [charge EXCEPT ![r].refund = TRUE]

compensateRunUsage(r) ==
  /\ reservation' = [reservation EXCEPT ![r] = "released"]
  /\ charge' = [charge EXCEPT ![r].refund =
                  @ \/ reservation[r] = "confirmed"]

\* Mutant: a cancelled run is left to the cancel route.
Settle_skips_cancelled(r) ==
  /\ pipe[r].pc = "settling"
  /\ pipe' = [pipe EXCEPT ![r].pc = "done"]
  /\ IF pipe[r].error = "PLATFORM_PROVIDER" THEN compensateRunUsage(r)
     ELSE IF record[r].status = "cancelled" THEN UNCHANGED <<reservation, charge>>
     ELSE releaseRunUsage(r)
  /\ KeepRecords
  /\ UNCHANGED <<phase, source, written, library, called, cancel>>

\* The starter's finally block.
Settle(r) ==
  /\ pipe[r].pc = "settling"
  /\ pipe' = [pipe EXCEPT ![r].pc = "done"]
  /\ IF pipe[r].error = "PLATFORM_PROVIDER"
     THEN compensateRunUsage(r)
     ELSE releaseRunUsage(r)
  /\ KeepRecords
  /\ UNCHANGED <<phase, source, written, library, called, cancel>>

-----------------------------------------------------------------------------
\* The LLM scheduler rejects r's queued model calls with an ordinary error.
schedulerCancelRun(r) ==
  pipe' = [pipe EXCEPT ![r] =
             IF @.pc = "queued" THEN throws(@, "RUN_ERROR") ELSE @]

\* The cancel route up to its first await: refuse a terminal run, otherwise
\* cancel its queued model calls and go and release its reservation.
CancelRequested(c, r) ==
  /\ cancel[c].pc = "idle"
  /\ phase[r] = "created"
  /\ IF record[r].terminal
     THEN /\ cancel' = [cancel EXCEPT ![c] =
                          [pc |-> "answered", run |-> r, answer |-> "conflict"]]
          /\ UNCHANGED pipe
     ELSE /\ cancel' = [cancel EXCEPT ![c] =
                          [pc |-> "releasing", run |-> r, answer |-> "none"]]
          /\ schedulerCancelRun(r)
  /\ KeepRecords
  /\ UNCHANGED <<phase, source, written, library, reservation, charge, called>>

CancelReleases(c) ==
  /\ cancel[c].pc = "releasing"
  /\ cancel' = [cancel EXCEPT ![c].pc = "released"]
  /\ releaseRunUsage(cancel[c].run)
  /\ KeepRecords
  /\ UNCHANGED <<phase, source, pipe, written, library, called>>

\* The database refuses the release: the route answers 500.
CancelReleaseFails(c) ==
  /\ cancel[c].pc = "releasing"
  /\ cancel' = [cancel EXCEPT ![c].pc = "answered", ![c].answer = "error"]
  /\ KeepRecords
  /\ UNCHANGED <<phase, source, pipe, written, library, reservation, charge,
                 called>>

\* Back in the route: the record is cancelled without a second look at it.
CancelFinishes(c) ==
  LET r == cancel[c].run
      cancelled == cancelRunRecord(record[r])
  IN  /\ cancel[c].pc = "released"
      /\ Update(r, cancelled)
      /\ cancel' = [cancel EXCEPT ![c].pc = "answered",
                                  ![c].answer = cancelled.status]
      /\ UNCHANGED <<phase, source, pipe, written, library, reservation,
                     charge, called>>

\* The administrator's cancel does all of it at once and leaves billing alone.
AdminCancel(r) ==
  /\ phase[r] = "created"
  /\ ~record[r].terminal
  /\ schedulerCancelRun(r)
  /\ Update(r, cancelRunRecord(record[r]))
  /\ UNCHANGED <<phase, source, written, library, reservation, charge, called,
                 cancel>>

\* Only inactive runs are deleted; whoever holds the record object keeps it.
DeleteRun(r) ==
  /\ phase[r] = "created"
  /\ ~isActiveRun(record[r])
  /\ phase' = [phase EXCEPT ![r] = "deleted"]
  /\ KeepRecords
  /\ UNCHANGED <<source, pipe, written, library, reservation, charge, called,
                 cancel>>

-----------------------------------------------------------------------------
\* Mutant: the stream of a closed run waits for more.
Subscribe_never_closes(s, r) ==
  /\ stream[s].run = NoRun
  /\ phase[r] = "created"
  /\ stream' = [stream EXCEPT ![s] = [run |-> r, sent |-> record[r].events,
                                      open |-> TRUE]]
  /\ UNCHANGED <<phase, source, record, pipe, written, library, reservation,
                 charge, called, cancel>>

\* A stream replays the record's events and then listens, unless it is closed.
Subscribe(s, r) ==
  /\ stream[s].run = NoRun
  /\ phase[r] = "created"
  /\ stream' = [stream EXCEPT ![s] = [run |-> r, sent |-> record[r].events,
                                      open |-> ~record[r].terminal]]
  /\ UNCHANGED <<phase, source, record, pipe, written, library, reservation,
                 charge, called, cancel>>

\* The client goes away and the listener is removed.
Disconnect(s) ==
  /\ stream[s].open
  /\ stream' = [stream EXCEPT ![s] = [run |-> NoRun, sent |-> <<>>,
                                      open |-> FALSE]]
  /\ UNCHANGED <<phase, source, record, pipe, written, library, reservation,
                 charge, called, cancel>>

-----------------------------------------------------------------------------
PipelineStep(r) ==
  \/ ConfirmReads(r) \/ ConfirmWrites(r) \/ SlotGranted(r) \/ LibrarySaves(r)
  \/ AnswerInvalid(r) \/ AwaitFails(r) \/ AwaitReturns(r)
  \/ handleRunPipelineError(r) \/ Settle(r)

CancelStep(c) == CancelReleases(c) \/ CancelReleaseFails(c) \/ CancelFinishes(c)

Init ==
  /\ phase = [r \in Runs |-> "unused"]
  /\ source = [r \in Runs |-> NoRun]
  /\ record = [r \in Runs |-> EmptyRecord]
  /\ pipe = [r \in Runs |-> NoPipeline]
  /\ written = [r \in Runs |-> {}]
  /\ library = {}
  /\ reservation = [r \in Runs |-> "none"]
  /\ charge = [r \in Runs |-> [usage |-> FALSE, refund |-> FALSE]]
  /\ called = {}
  /\ cancel = [c \in Cancels |-> [pc |-> "idle", run |-> NoRun,
                                  answer |-> "none"]]
  /\ stream = [s \in Streams |-> [run |-> NoRun, sent |-> <<>>, open |-> FALSE]]

Next ==
  \/ \E n \in Runs : StartRun(n) \/ StartFails(n) \/ CreateRun(n)
  \/ \E n, src \in Runs : \E action \in {"retry", "rerun"} :
       RunAction(n, src, action)
  \/ \E r \in Runs : PipelineStep(r) \/ AdminCancel(r) \/ DeleteRun(r)
  \/ \E c \in Cancels : CancelStep(c) \/ \E r \in Runs : CancelRequested(c, r)
  \/ \E s \in Streams : Disconnect(s) \/ \E r \in Runs : Subscribe(s, r)

Spec == Init /\ [][Next]_vars

\* The event loop runs every segment that is ready, model calls, renderings
\* and saves end (each has a time-out), and the scheduler grants slots.
Fairness ==
  /\ \A r \in Runs : WF_vars(PipelineStep(r))
  /\ \A c \in Cancels : WF_vars(CancelStep(c))

FairSpec == Spec /\ Fairness

-----------------------------------------------------------------------------
Phases == {"unused", "starting", "created", "deleted", "start_failed"}

\* Every variable has its type; a run's pipeline never leaves its program.
TypeOK ==
  /\ phase \in [Runs -> Phases]
  /\ source \in [Runs -> Runs \cup {NoRun}]
  /\ record \in [Runs -> RunRecord]
  /\ pipe \in [Runs -> [pc : PipePcs, step : 1..3, repairs : 0..MaxRepairs,
                        confirmed : BOOLEAN,
                        error : PipelineErrors \cup {"none"}]]
  /\ written \in [Runs -> SUBSET (1..3)]
  /\ library \subseteq Runs
  /\ reservation \in [Runs -> {"none", "reserved", "confirmed", "released"}]
  /\ charge \in [Runs -> [usage : BOOLEAN, refund : BOOLEAN]]
  /\ called \subseteq Runs
  /\ cancel \in [Cancels ->
        [pc : {"idle", "releasing", "released", "answered"},
         run : Runs \cup {NoRun},
         answer : Statuses \cup {"none", "conflict", "error"}]]
  /\ stream \in [Streams -> [run : Runs \cup {NoRun}, sent : Seq(Events),
                              open : BOOLEAN]]

isCreated(r) == phase[r] \in {"created", "deleted"}

\* A record is closed exactly when its log holds a terminal event, holds only
\* one, and whatever cancel routes and pipelines wrote to its status since,
\* shows that event's status ("keeps the first terminal state when late
\* terminal events arrive").
OneOutcome ==
  \A r \in Runs :
    LET rec == record[r]
        ends == {i \in DOMAIN rec.events : isTerminalRunEvent(rec.events[i])}
    IN  IF rec.terminal
        THEN \E i \in ends : ends = {i} /\ rec.status = rec.events[i]
        ELSE ends = {} /\ rec.status \in {"queued", "running"}

\* What an SSE client sees agrees with the history it could fetch: an open
\* stream has sent the whole log, a closed one a part of it that ends the run.
StreamsAgree ==
  \A s \in Streams :
    LET evs == record[stream[s].run].events
    IN  stream[s].run # NoRun =>
          IF stream[s].open
          THEN stream[s].sent = evs
          ELSE /\ HasTerminalEvent(stream[s].sent)
               /\ Len(stream[s].sent) <= Len(evs)
               /\ stream[s].sent = SubSeq(evs, 1, Len(stream[s].sent))

\* A run that ended as completed wrote every result of its pipeline before,
\* and a document run's document is in the library.
CompletedHasArtifacts ==
  \A r \in Runs :
    record[r].terminal /\ record[r].status = "completed" =>
      /\ written[r] = DOMAIN Steps(r)
      /\ Kind[r] = "document" => r \in library

\* No pipeline ends with its reservation outstanding, and a reservation that
\* nobody settled belongs to a run that has not ended its pipeline.
NoReservationLeftBehind ==
  \A r \in Runs :
    /\ pipe[r].pc = "done" => reservation[r] \in {"confirmed", "released"}
    /\ reservation[r] = "confirmed" => charge[r].usage

undisturbed(r) == \A c \in Cancels : cancel[c].run # r

\* A refund is paid only for what was charged.  Without a user's cancel request, a
\* run that is not cancelled is charged exactly if the provider was called ("Billing
\* confirmation happens exactly once, at the first real LLM call"): a completed run
\* costs one credit, one that failed at the platform's provider costs none.
FairPrice ==
  \A r \in Runs :
    /\ charge[r].refund => charge[r].usage /\ record[r].status = "failed"
    /\ undisturbed(r) /\ pipe[r].pc = "done" =>
         /\ record[r].status # "cancelled" => (charge[r].usage <=> r \in called)
         /\ record[r].status = "completed" =>
              charge[r].usage /\ ~charge[r].refund
         /\ pipe[r].error = "PLATFORM_PROVIDER" =>
              charge[r].usage = charge[r].refund

\* Once a run is closed its log only grows by run_action events and its
\* status stays ("lifecycle terminal state itself is immutable once the first
\* terminal event closes the run").
StaysClosed ==
  \A r \in Runs : record[r].terminal =>
    LET old == record[r].events
        new == record'[r].events
    IN  /\ record'[r].terminal
        /\ record'[r].status = record[r].status
        /\ Len(old) <= Len(new)
        /\ \A i \in DOMAIN new :
             IF i <= Len(old) THEN new[i] = old[i] ELSE new[i] = "run_action"

ClosedForGood == [][StaysClosed]_vars

\* The outcome of each run and where it came from, as its users see them.
outcomes ==
  [r \in Runs |-> IF ~isCreated(r) THEN "none"
                 ELSE IF record[r].terminal THEN record[r].status
                 ELSE "pending"]

parents == [r \in Runs |-> IF isCreated(r) THEN source[r] ELSE NoRun]

Outcome == INSTANCE RunOutcome WITH outcome <- outcomes, parent <- parents

\* Routes, pipelines and cancellations together keep what RunOutcome promises.
KeepsSafe == Outcome!Safe
KeepsPromise == Outcome!Promise

\* The credit of a run that got a record does not stay reserved.
EveryReservationSettles ==
  \A r \in Runs : isCreated(r) ~> reservation[r] \in {"confirmed", "released"}

\* No SSE client waits forever.
EveryStreamCloses == \A s \in Streams : stream[s].open ~> ~stream[s].open
=============================================================================
