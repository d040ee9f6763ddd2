------------------------- MODULE RunLifecycleProofs -------------------------
(***************************************************************************)
(* Theorems about RunLifecycle, for any runs, cancel requests, streams and *)
(* repair limit.                                                           *)
(***************************************************************************)
EXTENDS RunLifecycle, RunRecordLemmas

Pipe == [pc : PipePcs, step : 1..3, repairs : 0..MaxRepairs,
         confirmed : BOOLEAN, error : PipelineErrors \cup {"none"}]

Stream == [run : Runs \cup {NoRun}, sent : Seq(Events), open : BOOLEAN]

RecordsOK == \A r \in Runs : RecordOK(record[r])

\* Before its record is made a run has neither events nor a pipeline, and it
\* reserved its credit before anything else.
StartOK ==
  \A n \in Runs :
    /\ ~isCreated(n) => record[n] = EmptyRecord /\ pipe[n].pc = "none"
    /\ phase[n] # "unused" => reservation[n] # "none"

\* A retry was made of a record that had ended.
SourceOK ==
  \A n \in Runs :
    source[n] # NoRun => isCreated(source[n]) /\ record[source[n]].terminal

\* The cancel routes hold records that exist.
CancelOK ==
  \A c \in Cancels :
    cancel[c].pc \in {"releasing", "released"} =>
      cancel[c].run \in Runs /\ isCreated(cancel[c].run)

\* What the steps of the system preserve.
IInv == TypeOK /\ RecordsOK /\ StartOK /\ SourceOK /\ CancelOK

-----------------------------------------------------------------------------
(***************************************************************************)
(* The pieces of a pipeline segment.                                       *)
(***************************************************************************)
\* Both pipelines have three steps; what they emit is progress.
LEMMA StepFacts ==
  ASSUME NEW r \in Runs
  PROVE  /\ Len(Steps(r)) = 3
         /\ \A i \in 1..3 :
              /\ Steps(r)[i].begin \in {<<>>, <<"stage_started">>,
                                        <<"stage_started", "artifact_ready">>}
              /\ Steps(r)[i].finish \in {<<>>, <<"artifact_ready">>}
         /\ Steps(r)[1].begin = <<"stage_started">>
<1>1. CASE Kind[r] = "document"
  <2>1. Steps(r) = DocumentSteps
    BY <1>1 DEF Steps
  <2> QED BY <2>1 DEF DocumentSteps
<1>2. CASE Kind[r] # "document"
  <2>1. Steps(r) = FeasibilitySteps
    BY <1>2 DEF Steps
  <2> QED BY <2>1 DEF FeasibilitySteps
<1> QED BY <1>1, <1>2

LEMMA AwaitType ==
  ASSUME NEW r \in Runs, NEW p \in Pipe
  PROVE  await(r, p) \in Pipe
<1> DEFINE kind == Steps(r)[p.step].awaits
           pc == CASE kind = "render" -> "rendering"
                   [] kind = "save" -> "saving"
                   [] kind = "llm" /\ p.confirmed -> "queued"
                   [] OTHER -> "confirming"
<1>1. pc \in PipePcs
  BY DEF PipePcs
<1>2. await(r, p) = [p EXCEPT !.pc = pc]
  BY DEF await
<1> HIDE DEF pc
<1> QED BY <1>1, <1>2 DEF Pipe

LEMMA NextStepType ==
  ASSUME NEW p \in Pipe, NEW k \in 1..3
  PROVE  /\ [p EXCEPT !.step = k, !.repairs = 0] \in Pipe
         /\ [p EXCEPT !.step = k, !.repairs = 0].step = k
<1>1. 0 \in 0..MaxRepairs
  BY RepairsAssumption
<1> QED BY <1>1 DEF Pipe

\* The first segment of a stage, on a record that is open when it emits.
LEMMA BeginEvolves ==
  ASSUME NEW rec, RecordOK(rec), NEW step,
         step.begin \in {<<>>, <<"stage_started">>,
                         <<"stage_started", "artifact_ready">>},
         step.begin = <<>> \/ ~rec.terminal
  PROVE  /\ Evolves(rec, beginStep(rec, step))
         /\ beginStep(rec, step).terminal = rec.terminal
<1>1. CASE step.begin = <<>>
  <2>1. beginStep(rec, step) = rec
    BY <1>1 DEF beginStep
  <2> QED BY <2>1, EvolvesRefl
<1>2. CASE step.begin = <<"stage_started">>
  <2>1. beginStep(rec, step) = openStage(rec)
    BY <1>2 DEF beginStep
  <2>2. ~rec.terminal
    BY <1>2
  <2>3. rec.terminal \in BOOLEAN /\ openStage(rec).terminal \in BOOLEAN
    BY <2>2, OpenStageEvolves DEF Evolves, RecordOK, LogOK, RunRecord
  <2> QED BY <2>1, <2>2, <2>3, OpenStageEvolves
<1>3. CASE step.begin = <<"stage_started", "artifact_ready">>
  <2>1. beginStep(rec, step) = emitEvent(openStage(rec), "artifact_ready")
    BY <1>3 DEF beginStep
  <2>2. ~rec.terminal
    BY <1>3
  <2>3. Evolves(rec, openStage(rec)) /\ ~openStage(rec).terminal
    BY <2>2, OpenStageEvolves
  <2>4. rec.terminal = openStage(rec).terminal
    BY <2>2, <2>3 DEF Evolves, RecordOK, LogOK, RunRecord
  <2>5. "artifact_ready" \in Events \ TerminalEvents
    BY DEF Events, TerminalEvents
  <2>6. RecordOK(openStage(rec))
    BY <2>3 DEF Evolves
  <2>7. /\ Evolves(openStage(rec), beginStep(rec, step))
        /\ beginStep(rec, step).terminal = openStage(rec).terminal
    BY <2>1, <2>5, <2>6, EmitProgress
  <2> QED BY <2>3, <2>4, <2>7, EvolvesTrans
<1> QED BY <1>1, <1>2, <1>3

\* Announcing a result.
LEMMA FinishEvolves ==
  ASSUME NEW rec, RecordOK(rec), NEW step,
         step.finish \in {<<>>, <<"artifact_ready">>}
  PROVE  /\ Evolves(rec, finishStep(rec, step))
         /\ finishStep(rec, step).terminal = rec.terminal
<1>1. CASE step.finish = <<>>
  <2>1. finishStep(rec, step) = rec
    BY <1>1 DEF finishStep
  <2> QED BY <2>1, EvolvesRefl
<1>2. CASE step.finish = <<"artifact_ready">>
  <2>1. finishStep(rec, step) = emitEvent(rec, "artifact_ready")
    BY <1>2 DEF finishStep
  <2>2. "artifact_ready" \in Events \ TerminalEvents
    BY DEF Events, TerminalEvents
  <2> QED BY <2>1, <2>2, EmitProgress
<1> QED BY <1>1, <1>2

-----------------------------------------------------------------------------
\* A record update keeps types and lets its record evolve.
LEMMA UpdateOK ==
  ASSUME TypeOK, RecordsOK, NEW r \in Runs, NEW rec,
         Evolves(record[r], rec), Update(r, rec)
  PROVE  /\ record' \in [Runs -> RunRecord]
         /\ stream' \in [Streams -> Stream]
         /\ record' = [record EXCEPT ![r] = rec]
         /\ \A q \in Runs : Evolves(record[q], record'[q])
<1>1. record \in [Runs -> RunRecord] /\ record' = [record EXCEPT ![r] = rec]
  BY DEF TypeOK, Update
<1>2. rec \in RunRecord
  BY DEF Evolves, RecordOK, LogOK
<1>3. \A q \in Runs : record'[q] = IF q = r THEN rec ELSE record[q]
  BY <1>1
<1>4. \A q \in Runs : Evolves(record[q], record'[q])
  BY <1>3, EvolvesRefl DEF RecordsOK
<1>5. stream' \in [Streams -> Stream]
  <2>1. \A s \in Streams : deliver(stream[s], record[r], rec) \in Stream
    BY DeliverOK DEF TypeOK, Stream, RecordsOK
  <2> QED BY <2>1 DEF Update, TypeOK, Stream
<1> QED BY <1>1, <1>2, <1>4, <1>5

(***************************************************************************)
(* Every step lets every record evolve.                                    *)
(***************************************************************************)
RecordStep ==
  /\ record' \in [Runs -> RunRecord]
  /\ stream' \in [Streams -> Stream]
  /\ \A q \in Runs : Evolves(record[q], record'[q])

LEMMA KeepStep ==
  ASSUME TypeOK, RecordsOK, KeepRecords
  PROVE  RecordStep
BY EvolvesRefl DEF TypeOK, RecordsOK, KeepRecords, RecordStep, Stream

\* A new record is open, and its run_action event does not open the old one.
LEMMA CreateStep ==
  ASSUME IInv, NEW n \in Runs, CreateRun(n)
  PROVE  /\ RecordStep
         /\ ~record'[n].terminal
         /\ \A q \in Runs \ {n} : record'[q].terminal = record[q].terminal
<1> DEFINE queued == emitEvent(EmptyRecord, "queued")
           started == beginStep(queued, Steps(n)[1])
           acted == emitEvent(record[source[n]], "run_action")
<1>1. record \in [Runs -> RunRecord] /\ stream \in [Streams -> Stream]
  BY DEF IInv, TypeOK, Stream
<1>2. /\ phase[n] = "starting" /\ ~isCreated(n)
      /\ record[n] = EmptyRecord
  BY DEF IInv, StartOK, CreateRun, isCreated
<1>3. Evolves(EmptyRecord, queued) /\ ~queued.terminal
  <2>1. "queued" \in Events \ TerminalEvents
    BY DEF Events, TerminalEvents
  <2>2. ~EmptyRecord.terminal
    BY DEF EmptyRecord
  <2> QED BY <2>1, <2>2, EmptyOK, EmitProgress
<1>4. Evolves(queued, started) /\ ~started.terminal
  <2> DEFINE step == Steps(n)[1]
  <2>1. step.begin \in {<<>>, <<"stage_started">>,
                        <<"stage_started", "artifact_ready">>}
    BY StepFacts
  <2>2. RecordOK(queued)
    BY <1>3 DEF Evolves
  <2> HIDE DEF queued, step
  <2>3. /\ Evolves(queued, beginStep(queued, step))
        /\ beginStep(queued, step).terminal = queued.terminal
    BY <1>3, <2>1, <2>2, BeginEvolves
  <2> QED BY <1>3, <2>3 DEF step
<1>5. Evolves(record[n], started)
  BY <1>2, <1>3, <1>4, EmptyOK, EvolvesTrans
<1>6. started \in RunRecord
  BY <1>5 DEF Evolves, RecordOK, LogOK
<1> HIDE DEF queued, started
<1>7. CASE source[n] = NoRun
  <2>1. record' = [record EXCEPT ![n] = started] /\ stream' = stream
    BY <1>7 DEF CreateRun, queued, started
  <2>2. record' \in [Runs -> RunRecord] /\ stream' \in [Streams -> Stream]
    BY <1>1, <1>6, <2>1
  <2>3. \A q \in Runs : record'[q] = IF q = n THEN started ELSE record[q]
    BY <1>1, <2>1
  <2>4. \A q \in Runs : Evolves(record[q], record'[q])
    BY <1>5, <2>3, EvolvesRefl DEF IInv, RecordsOK
  <2> QED BY <1>4, <2>2, <2>3, <2>4 DEF RecordStep
<1>8. CASE source[n] # NoRun
  <2> DEFINE src == source[n]
  <2>1. /\ src \in Runs /\ src # n /\ RecordOK(record[src])
    BY <1>2, <1>8 DEF IInv, SourceOK, TypeOK, RecordsOK
  <2>2. "run_action" \in Events \ TerminalEvents
    BY DEF Events, TerminalEvents
  <2>3. Evolves(record[src], acted) /\ acted.terminal = record[src].terminal
    BY <2>1, <2>2, EmitProgress
  <2>4. acted \in RunRecord
    BY <2>3 DEF Evolves, RecordOK, LogOK
  <2>5. /\ record' = [record EXCEPT ![n] = started, ![src] = acted]
        /\ stream' = [s \in Streams |->
                        IF stream[s].run = src /\ stream[s].open
                        THEN deliver(stream[s], record[src], acted)
                        ELSE stream[s]]
    BY <1>8 DEF CreateRun, queued, started
  <2>6. \A s \in Streams : deliver(stream[s], record[src], acted) \in Stream
    BY <1>1, <2>1, <2>3, DeliverOK DEF Stream
  <2> HIDE DEF src, acted
  <2>7. \A q \in Runs : record'[q] = IF q = src THEN acted
                                     ELSE IF q = n THEN started ELSE record[q]
    BY <1>1, <2>1, <2>5
  <2>8. record' \in [Runs -> RunRecord]
    BY <1>1, <1>6, <2>4, <2>5
  <2>9. stream' \in [Streams -> Stream]
    BY <1>1, <2>5, <2>6
  <2>10. \A q \in Runs : Evolves(record[q], record'[q])
    BY <1>5, <2>3, <2>7, EvolvesRefl DEF IInv, RecordsOK
  <2> QED BY <1>4, <2>1, <2>3, <2>7, <2>8, <2>9, <2>10 DEF RecordStep
<1> QED BY <1>7, <1>8

\* A pipeline segment only opens a stage of a run that is still open.
LEMMA ReturnStep ==
  ASSUME IInv, NEW r \in Runs, AwaitReturns(r)
  PROVE  /\ pipe' \in [Runs -> Pipe]
         /\ written' \in [Runs -> SUBSET (1..3)]
         /\ KeepRecords \/ \E rec : Evolves(record[r], rec) /\ Update(r, rec)
<1> DEFINE step == StepOf(r)
           next == [pipe[r] EXCEPT !.step = @ + 1, !.repairs = 0]
           done == finishStep(record[r], step)
<1>1. /\ pipe \in [Runs -> Pipe] /\ pipe[r] \in Pipe /\ RecordOK(record[r])
      /\ written \in [Runs -> SUBSET (1..3)]
  BY DEF IInv, TypeOK, Pipe, RecordsOK
<1>2. pipe[r].step \in 1..3
  BY <1>1 DEF Pipe
<1>3. step.finish \in {<<>>, <<"artifact_ready">>}
  BY <1>2, StepFacts DEF StepOf
<1>4. Evolves(record[r], done) /\ done.terminal = record[r].terminal
  BY <1>1, <1>3, FinishEvolves
<1>5. RecordOK(done)
  BY <1>4 DEF Evolves
<1>6. \A err \in PipelineErrors \cup {"none"} : throws(pipe[r], err) \in Pipe
  BY <1>1 DEF throws, Pipe, PipePcs
<1>7. throws(pipe[r], "none") \in Pipe
  BY <1>6
<1>8. CASE step.checks /\ isRunCancelled(record[r])
  <2>1. /\ pipe' = [pipe EXCEPT ![r] = throws(@, "none")]
        /\ KeepRecords /\ written' = written
    BY <1>8 DEF AwaitReturns
  <2> QED BY <1>1, <1>7, <2>1
<1>9. CASE ~(step.checks /\ isRunCancelled(record[r]))
  <2>1. /\ written' = [written EXCEPT ![r] = @ \cup {pipe[r].step}]
        /\ CASE IsLastStep(r) ->
                    /\ Update(r, completeRun(done))
                    /\ pipe' = [pipe EXCEPT ![r].pc = "settling"]
               [] ~IsLastStep(r) /\ Steps(r)[next.step].begin # <<>>
                  /\ isRunCancelled(done) ->
                    /\ Update(r, done)
                    /\ pipe' = [pipe EXCEPT ![r] = throws(@, "none")]
               [] OTHER ->
                    /\ Update(r, beginStep(done, Steps(r)[next.step]))
                    /\ pipe' = [pipe EXCEPT ![r] = await(r, next)]
    BY <1>9 DEF AwaitReturns
  <2>2. written' \in [Runs -> SUBSET (1..3)]
    BY <1>1, <1>2, <2>1
  <2>3. CASE IsLastStep(r)
    <3>1. /\ Update(r, completeRun(done))
          /\ pipe' = [pipe EXCEPT ![r].pc = "settling"]
      BY <2>1, <2>3
    <3>2. pipe' \in [Runs -> Pipe]
      BY <1>1, <3>1 DEF Pipe, PipePcs
    <3>3. "completed" \in TerminalEvents /\ "none" \in RunErrors
      BY DEF TerminalEvents, RunErrors
    <3> HIDE DEF done
    <3>4. Evolves(done, completeRun(done))
      BY <1>5, <3>3, EndEvolves DEF completeRun
    <3>5. Evolves(record[r], completeRun(done))
      BY <1>1, <1>4, <3>4, EvolvesTrans
    <3> QED BY <2>2, <3>1, <3>2, <3>5
  <2>4. CASE ~IsLastStep(r) /\ Steps(r)[next.step].begin # <<>>
             /\ isRunCancelled(done)
    <3>1. /\ Update(r, done)
          /\ pipe' = [pipe EXCEPT ![r] = throws(@, "none")]
      BY <2>1, <2>4
    <3>2. pipe' \in [Runs -> Pipe]
      BY <1>1, <1>7, <3>1
    <3> QED BY <1>4, <2>2, <3>1, <3>2
  <2>5. CASE ~IsLastStep(r) /\ ~(Steps(r)[next.step].begin # <<>>
                                 /\ isRunCancelled(done))
    <3> DEFINE begun == beginStep(done, Steps(r)[next.step])
    <3>1. /\ Update(r, begun)
          /\ pipe' = [pipe EXCEPT ![r] = await(r, next)]
      BY <2>1, <2>5
    <3>2. pipe[r].step + 1 \in 1..3
      <4>1. pipe[r].step # 3
        BY <2>5, StepFacts DEF IsLastStep
      <4> QED BY <1>2, <4>1
    <3>3. next \in Pipe /\ next.step \in 1..3
      BY <1>1, <3>2, NextStepType
    <3>4. await(r, next) \in Pipe
      BY <3>3, AwaitType
    <3>5. pipe' \in [Runs -> Pipe]
      BY <1>1, <3>1, <3>4
    <3>6. Steps(r)[next.step].begin \in {<<>>, <<"stage_started">>,
                                         <<"stage_started", "artifact_ready">>}
      BY <3>3, StepFacts
    <3>7. Steps(r)[next.step].begin = <<>> \/ ~done.terminal
      BY <2>5 DEF isRunCancelled
    <3> HIDE DEF done, next
    <3>8. Evolves(done, begun)
      BY <1>5, <3>6, <3>7, BeginEvolves
    <3>9. Evolves(record[r], begun)
      BY <1>1, <1>4, <3>8, EvolvesTrans
    <3> QED BY <2>2, <3>1, <3>5, <3>9
  <2> QED BY <2>3, <2>4, <2>5
<1> QED BY <1>8, <1>9

LEMMA FailStep ==
  ASSUME IInv, NEW r \in Runs, handleRunPipelineError(r)
  PROVE  /\ pipe' \in [Runs -> Pipe]
         /\ KeepRecords \/ \E rec : Evolves(record[r], rec) /\ Update(r, rec)
<1>1. /\ pipe \in [Runs -> Pipe] /\ pipe[r].error \in PipelineErrors \cup {"none"}
      /\ RecordOK(record[r])
  BY DEF IInv, TypeOK, Pipe, RecordsOK
<1>2. pipe' \in [Runs -> Pipe]
  <2>1. \/ pipe' = [pipe EXCEPT ![r].pc = "settling", ![r].error = "none"]
        \/ pipe' = [pipe EXCEPT ![r].pc = "settling"]
    BY DEF handleRunPipelineError
  <2> QED BY <1>1, <2>1 DEF Pipe, PipePcs
<1>3. CASE pipe[r].error = "none" \/ isRunCancelled(record[r])
  BY <1>2, <1>3 DEF handleRunPipelineError
<1>4. CASE ~(pipe[r].error = "none" \/ isRunCancelled(record[r]))
  <2>1. Update(r, failRun(record[r], pipe[r].error))
    BY <1>4 DEF handleRunPipelineError
  <2>2. pipe[r].error \in RunErrors /\ "failed" \in TerminalEvents
    BY <1>1 DEF RunErrors, TerminalEvents
  <2>3. Evolves(record[r], failRun(record[r], pipe[r].error))
    BY <1>1, <2>2, EndEvolves DEF failRun
  <2> QED BY <1>2, <2>1, <2>3
<1> QED BY <1>3, <1>4

\* A cancellation of any record leaves it closed.
LEMMA CancelEvolves ==
  ASSUME NEW rec, RecordOK(rec)
  PROVE  Evolves(rec, cancelRunRecord(rec)) /\ cancelRunRecord(rec).terminal
<1>1. "cancelled" \in TerminalEvents /\ "RUN_CANCELLED" \in RunErrors
  BY DEF TerminalEvents, RunErrors
<1> QED BY <1>1, EndEvolves DEF cancelRunRecord

LEMMA StreamStep ==
  ASSUME IInv, NEW s \in Streams,
         Disconnect(s) \/ \E r \in Runs : Subscribe(s, r)
  PROVE  RecordStep
<1>1. record \in [Runs -> RunRecord] /\ stream \in [Streams -> Stream]
  BY DEF IInv, TypeOK, Stream
<1>2. CASE Disconnect(s)
  <2>1. [run |-> NoRun, sent |-> <<>>, open |-> FALSE] \in Stream
    BY DEF Stream
  <2>2. record' = record /\ stream' \in [Streams -> Stream]
    BY <1>1, <1>2, <2>1 DEF Disconnect
  <2> QED BY <1>1, <2>2, EvolvesRefl DEF IInv, RecordsOK, RecordStep
<1>3. ASSUME NEW r \in Runs, Subscribe(s, r)
      PROVE  RecordStep
  <2>1. [run |-> r, sent |-> record[r].events, open |-> ~record[r].terminal]
          \in Stream
    BY <1>1 DEF Stream, RunRecord
  <2>2. record' = record /\ stream' \in [Streams -> Stream]
    BY <1>1, <1>3, <2>1 DEF Subscribe
  <2> QED BY <1>1, <2>2, EvolvesRefl DEF IInv, RecordsOK, RecordStep
<1> QED BY <1>2, <1>3

\* The one way a step can change a record, but for CreateRun: one Update.
LEMMA RecordUpdates ==
  ASSUME IInv, Next
  PROVE  \/ KeepRecords
         \/ \E r \in Runs : isCreated(r) /\ phase' = phase /\ source' = source
              /\ \E rec : Evolves(record[r], rec) /\ Update(r, rec)
         \/ \E n \in Runs : CreateRun(n)
         \/ \E s \in Streams : Disconnect(s) \/ \E r \in Runs : Subscribe(s, r)
<1>1. \A n, src \in Runs, action \in {"retry", "rerun"} :
        StartRun(n) \/ StartFails(n) \/ RunAction(n, src, action) => KeepRecords
  BY DEF StartRun, StartFails, RunAction, BeginStart
<1>2. \A r \in Runs :
        ConfirmReads(r) \/ ConfirmWrites(r) \/ SlotGranted(r) \/ LibrarySaves(r)
        \/ AnswerInvalid(r) \/ AwaitFails(r) \/ Settle(r) \/ DeleteRun(r)
          => KeepRecords
  BY DEF ConfirmReads, ConfirmWrites, SlotGranted, LibrarySaves, AnswerInvalid,
         AwaitFails, Settle, DeleteRun
<1>3. \A c \in Cancels :
        CancelReleases(c) \/ CancelReleaseFails(c)
        \/ (\E r \in Runs : CancelRequested(c, r)) => KeepRecords
  BY DEF CancelReleases, CancelReleaseFails, CancelRequested
<1>4. ASSUME NEW r \in Runs, AwaitReturns(r) \/ handleRunPipelineError(r)
      PROVE  /\ isCreated(r) /\ phase' = phase /\ source' = source
             /\ KeepRecords \/ \E rec : Evolves(record[r], rec) /\ Update(r, rec)
  <2>1. pipe[r].pc # "none" /\ phase' = phase /\ source' = source
    BY <1>4 DEF AwaitReturns, handleRunPipelineError
  <2> QED BY <1>4, <2>1, ReturnStep, FailStep DEF IInv, StartOK
<1>5. ASSUME NEW r \in Runs, AdminCancel(r)
      PROVE  /\ isCreated(r) /\ phase' = phase /\ source' = source
             /\ \E rec : Evolves(record[r], rec) /\ Update(r, rec)
  BY <1>5, CancelEvolves DEF AdminCancel, isCreated, IInv, RecordsOK
<1>6. ASSUME NEW c \in Cancels, CancelFinishes(c)
      PROVE  \E r \in Runs : isCreated(r) /\ phase' = phase /\ source' = source
               /\ \E rec : Evolves(record[r], rec) /\ Update(r, rec)
  <2>1. cancel[c].run \in Runs /\ isCreated(cancel[c].run)
    BY <1>6 DEF IInv, CancelOK, CancelFinishes
  <2>2. /\ Update(cancel[c].run, cancelRunRecord(record[cancel[c].run]))
        /\ phase' = phase /\ source' = source
    BY <1>6 DEF CancelFinishes
  <2> QED BY <2>1, <2>2, CancelEvolves DEF IInv, RecordsOK
<1>7. CASE \E n \in Runs : StartRun(n) \/ StartFails(n) \/ CreateRun(n)
  BY <1>1, <1>7
<1>8. CASE \E n, src \in Runs : \E action \in {"retry", "rerun"} :
             RunAction(n, src, action)
  BY <1>1, <1>8
<1>9. CASE \E r \in Runs : PipelineStep(r) \/ AdminCancel(r) \/ DeleteRun(r)
  BY <1>2, <1>4, <1>5, <1>9 DEF PipelineStep
<1>10. CASE \E c \in Cancels : CancelStep(c) \/ \E r \in Runs : CancelRequested(c, r)
  BY <1>3, <1>6, <1>10 DEF CancelStep
<1>11. CASE \E s \in Streams : Disconnect(s) \/ \E r \in Runs : Subscribe(s, r)
  BY <1>11
<1> QED BY <1>7, <1>8, <1>9, <1>10, <1>11 DEF Next

LEMMA NextRecordStep ==
  ASSUME IInv, Next
  PROVE  RecordStep
<1>1. TypeOK /\ RecordsOK
  BY DEF IInv
<1>2. ASSUME NEW r \in Runs, NEW rec, Evolves(record[r], rec), Update(r, rec)
      PROVE  RecordStep
  BY <1>1, <1>2, UpdateOK DEF RecordStep
<1> QED BY <1>1, <1>2, RecordUpdates, KeepStep, CreateStep, StreamStep

-----------------------------------------------------------------------------
(***************************************************************************)
(* Every step preserves the invariant.                                     *)
(***************************************************************************)
RestOK == StartOK /\ SourceOK /\ CancelOK

\* Most steps leave the phases, sources and cancel requests alone and touch
\* the pipeline and the credit of one created run.
LEMMA SegmentRest ==
  ASSUME IInv, RecordStep, NEW r \in Runs, pipe[r].pc # "none",
         UNCHANGED <<phase, source, cancel>>,
         KeepRecords \/ \E rec : Update(r, rec),
         \A q \in Runs \ {r} : pipe'[q] = pipe[q],
         \A q \in Runs : reservation[q] # "none" => reservation'[q] # "none"
  PROVE  RestOK'
<1>1. isCreated(r)
  BY DEF IInv, StartOK
<1>2. \A q \in Runs \ {r} : record'[q] = record[q]
  BY DEF KeepRecords, Update, IInv, TypeOK
<1>3. \A q \in Runs : isCreated(q)' <=> isCreated(q)
  BY DEF isCreated
<1>4. StartOK'
  BY <1>1, <1>2, <1>3 DEF IInv, StartOK
<1>5. SourceOK'
  <2>1. \A q \in Runs : record[q].terminal => record'[q].terminal
    BY DEF RecordStep, Evolves
  <2>2. \A q \in Runs : source[q] # NoRun => source[q] \in Runs
    BY DEF IInv, TypeOK
  <2> QED BY <1>3, <2>1, <2>2 DEF IInv, SourceOK
<1>6. CancelOK'
  BY <1>3 DEF IInv, CancelOK
<1> QED BY <1>4, <1>5, <1>6 DEF RestOK

LEMMA PipelineTypes ==
  ASSUME IInv, RecordStep, NEW r \in Runs, PipelineStep(r)
  PROVE  /\ TypeOK'
         /\ \A q \in Runs \ {r} : pipe'[q] = pipe[q]
         /\ \A q \in Runs : reservation[q] # "none" => reservation'[q] # "none"
<1>1. /\ pipe \in [Runs -> Pipe] /\ pipe[r] \in Pipe
      /\ record' \in [Runs -> RunRecord] /\ stream' \in [Streams -> Stream]
  BY DEF IInv, TypeOK, Pipe, RecordStep
<1>2. \A err \in PipelineErrors \cup {"none"} :
        [pipe EXCEPT ![r] = throws(@, err)] \in [Runs -> Pipe]
  <2>1. \A err \in PipelineErrors \cup {"none"} : throws(pipe[r], err) \in Pipe
    BY <1>1 DEF throws, Pipe, PipePcs
  <2> QED BY <1>1, <2>1
<1>3. \A pc \in PipePcs : [pipe EXCEPT ![r].pc = pc] \in [Runs -> Pipe]
  BY <1>1 DEF Pipe
<1>4. /\ phase \in [Runs -> Phases]
      /\ source \in [Runs -> Runs \cup {NoRun}]
      /\ written \in [Runs -> SUBSET (1..3)]
      /\ library \subseteq Runs
      /\ reservation \in [Runs -> {"none", "reserved", "confirmed", "released"}]
      /\ charge \in [Runs -> [usage : BOOLEAN, refund : BOOLEAN]]
      /\ called \subseteq Runs
  BY DEF IInv, TypeOK
<1>5. PipelineErrors \subseteq PipelineErrors \cup {"none"}
  OBVIOUS
<1>6. CASE ConfirmReads(r)
  <2>1. [pipe[r] EXCEPT !.confirmed = TRUE] \in Pipe
    BY <1>1 DEF Pipe
  <2>2. await(r, [pipe[r] EXCEPT !.confirmed = TRUE]) \in Pipe
    BY <2>1, AwaitType
  <2>3. [pipe[r] EXCEPT !.pc = "confirm_write"] \in Pipe
    BY <1>1 DEF Pipe, PipePcs
  <2>4. pipe' \in [Runs -> Pipe] /\ \A q \in Runs \ {r} : pipe'[q] = pipe[q]
    BY <1>1, <1>6, <2>2, <2>3 DEF ConfirmReads
  <2> QED BY <1>1, <1>4, <1>6, <2>4 DEF ConfirmReads, IInv, TypeOK, Pipe, Stream
<1>7. CASE ConfirmWrites(r)
  <2>1. [pipe[r] EXCEPT !.confirmed = TRUE] \in Pipe
    BY <1>1 DEF Pipe
  <2>2. await(r, [pipe[r] EXCEPT !.confirmed = TRUE]) \in Pipe
    BY <2>1, AwaitType
  <2>3. pipe' \in [Runs -> Pipe] /\ \A q \in Runs \ {r} : pipe'[q] = pipe[q]
    BY <1>1, <1>7, <2>2 DEF ConfirmWrites
  <2>4. /\ reservation' \in [Runs -> {"none", "reserved", "confirmed", "released"}]
        /\ \A q \in Runs : reservation[q] # "none" => reservation'[q] # "none"
    BY <1>4, <1>7 DEF ConfirmWrites
  <2>5. charge' \in [Runs -> [usage : BOOLEAN, refund : BOOLEAN]]
    BY <1>4, <1>7 DEF ConfirmWrites
  <2> QED BY <1>1, <1>4, <1>7, <2>3, <2>4, <2>5
          DEF ConfirmWrites, IInv, TypeOK, Pipe, Stream
<1>8. CASE SlotGranted(r)
  <2>1. pipe' \in [Runs -> Pipe] /\ \A q \in Runs \ {r} : pipe'[q] = pipe[q]
    BY <1>1, <1>3, <1>8 DEF SlotGranted, PipePcs
  <2> QED BY <1>1, <1>4, <1>8, <2>1 DEF SlotGranted, IInv, TypeOK, Pipe, Stream
<1>9. CASE LibrarySaves(r)
  <2>1. pipe' \in [Runs -> Pipe] /\ \A q \in Runs \ {r} : pipe'[q] = pipe[q]
    BY <1>1, <1>3, <1>9 DEF LibrarySaves, PipePcs
  <2> QED BY <1>1, <1>4, <1>9, <2>1 DEF LibrarySaves, IInv, TypeOK, Pipe, Stream
<1>10. CASE AnswerInvalid(r)
  <2> DEFINE p == [pipe[r] EXCEPT !.repairs = @ + 1]
  <2>0. pipe[r].repairs # MaxRepairs => pipe[r].repairs + 1 \in 0..MaxRepairs
    <3>1. pipe[r].repairs \in 0..MaxRepairs
      BY <1>1 DEF Pipe
    <3> QED BY <3>1, RepairsAssumption
  <2>1. pipe[r].repairs # MaxRepairs => p \in Pipe
    BY <1>1, <2>0 DEF Pipe
  <2>2. pipe[r].repairs # MaxRepairs => await(r, p) \in Pipe
    BY <2>1, AwaitType
  <2>3. \/ pipe' = [pipe EXCEPT ![r] = throws(@, "RUN_ERROR")]
        \/ pipe' = [pipe EXCEPT ![r] = throws(@, "none")]
        \/ /\ pipe[r].repairs # MaxRepairs
           /\ pipe' = [pipe EXCEPT ![r] = await(r, p)]
    BY <1>10 DEF AnswerInvalid
  <2>4. pipe' \in [Runs -> Pipe] /\ \A q \in Runs \ {r} : pipe'[q] = pipe[q]
    BY <1>1, <1>2, <2>2, <2>3 DEF PipelineErrors
  <2> QED BY <1>1, <1>4, <1>10, <2>4 DEF AnswerInvalid, IInv, TypeOK, Pipe, Stream
<1>11. CASE AwaitFails(r)
  <2>1. pipe' \in [Runs -> Pipe] /\ \A q \in Runs \ {r} : pipe'[q] = pipe[q]
    BY <1>1, <1>2, <1>11 DEF AwaitFails
  <2> QED BY <1>1, <1>4, <1>11, <2>1 DEF AwaitFails, IInv, TypeOK, Pipe, Stream
<1>12. CASE AwaitReturns(r)
  <2>1. pipe' \in [Runs -> Pipe] /\ written' \in [Runs -> SUBSET (1..3)]
    BY <1>12, ReturnStep
  <2>2. \A q \in Runs \ {r} : pipe'[q] = pipe[q]
    BY <1>1, <1>12 DEF AwaitReturns
  <2> QED BY <1>1, <1>4, <1>12, <2>1, <2>2 DEF AwaitReturns, IInv, TypeOK, Pipe, Stream
<1>13. CASE handleRunPipelineError(r)
  <2>1. pipe' \in [Runs -> Pipe]
    BY <1>13, FailStep
  <2>2. \A q \in Runs \ {r} : pipe'[q] = pipe[q]
    BY <1>1, <1>13 DEF handleRunPipelineError
  <2> QED BY <1>1, <1>4, <1>13, <2>1, <2>2
          DEF handleRunPipelineError, IInv, TypeOK, Pipe, Stream
<1>14. CASE Settle(r)
  <2>1. pipe' \in [Runs -> Pipe] /\ \A q \in Runs \ {r} : pipe'[q] = pipe[q]
    BY <1>1, <1>3, <1>14 DEF Settle, PipePcs
  <2>2. compensateRunUsage(r) \/ releaseRunUsage(r)
    BY <1>14 DEF Settle
  <2>3. /\ reservation' \in [Runs -> {"none", "reserved", "confirmed", "released"}]
        /\ \A q \in Runs : reservation[q] # "none" => reservation'[q] # "none"
    BY <1>4, <2>2 DEF compensateRunUsage, releaseRunUsage
  <2>4. charge' \in [Runs -> [usage : BOOLEAN, refund : BOOLEAN]]
    <3>1. PICK b \in BOOLEAN : b = (charge[r].refund \/ reservation[r] = "confirmed")
      OBVIOUS
    <3>2. charge' = charge \/ charge' = [charge EXCEPT ![r].refund = b]
      BY <2>2, <3>1 DEF compensateRunUsage, releaseRunUsage
    <3> QED BY <1>4, <3>2
  <2> QED BY <1>1, <1>4, <1>14, <2>1, <2>3, <2>4
          DEF Settle, IInv, TypeOK, Pipe, Stream
<1> QED BY <1>6, <1>7, <1>8, <1>9, <1>10, <1>11, <1>12, <1>13, <1>14
        DEF PipelineStep

LEMMA PipelinePreserves ==
  ASSUME IInv, RecordStep, NEW r \in Runs, PipelineStep(r)
  PROVE  TypeOK' /\ RestOK'
<1>1. /\ TypeOK'
      /\ \A q \in Runs \ {r} : pipe'[q] = pipe[q]
      /\ \A q \in Runs : reservation[q] # "none" => reservation'[q] # "none"
  BY PipelineTypes
<1>2. /\ pipe[r].pc # "none"
      /\ UNCHANGED <<phase, source, cancel>>
      /\ KeepRecords \/ \E rec : Update(r, rec)
  <2>1. CASE AwaitReturns(r)
    BY <2>1, ReturnStep DEF AwaitReturns
  <2>2. CASE ~AwaitReturns(r)
    BY <2>2 DEF PipelineStep, ConfirmReads, ConfirmWrites, SlotGranted,
         LibrarySaves, AnswerInvalid, AwaitFails, handleRunPipelineError, Settle
  <2> QED BY <2>1, <2>2
<1> QED BY <1>1, <1>2, SegmentRest

\* Reserving, failing to start, creating and deleting a run.
LEMMA StartPreserves ==
  ASSUME IInv, RecordStep, NEW n \in Runs,
         \/ StartRun(n) \/ StartFails(n) \/ DeleteRun(n)
         \/ \E src \in Runs, action \in {"retry", "rerun"} :
              RunAction(n, src, action)
  PROVE  TypeOK' /\ RestOK'
<1>1. /\ phase \in [Runs -> Phases] /\ source \in [Runs -> Runs \cup {NoRun}]
      /\ reservation \in [Runs -> {"none", "reserved", "confirmed", "released"}]
  BY DEF IInv, TypeOK
<1>2. \A q \in Runs : source[q] \in Runs \cup {NoRun}
  BY <1>1
<1>3. CASE StartFails(n) \/ DeleteRun(n)
  <2>1. /\ UNCHANGED <<source, record, stream, pipe, written, library,
                       reservation, charge, called, cancel>>
        /\ \/ phase[n] = "starting" /\ phase' = [phase EXCEPT ![n] = "start_failed"]
           \/ phase[n] = "created" /\ phase' = [phase EXCEPT ![n] = "deleted"]
    BY <1>3 DEF StartFails, DeleteRun, KeepRecords
  <2>2. phase' \in [Runs -> Phases]
    BY <1>1, <2>1 DEF Phases
  <2>3. /\ \A q \in Runs : isCreated(q)' <=> isCreated(q)
        /\ \A q \in Runs : phase'[q] = "unused" <=> phase[q] = "unused"
    BY <1>1, <2>1 DEF isCreated
  <2>4. TypeOK'
    BY <2>1, <2>2 DEF IInv, TypeOK
  <2> QED BY <1>2, <2>1, <2>3, <2>4
          DEF IInv, StartOK, SourceOK, CancelOK, RestOK
<1>4. CASE \/ StartRun(n)
           \/ \E src \in Runs, action \in {"retry", "rerun"} :
                RunAction(n, src, action)
  <2>1. PICK src \in Runs \cup {NoRun} :
          /\ BeginStart(n, src)
          /\ src # NoRun => phase[src] = "created" /\ ~isActiveRun(record[src])
    BY <1>4 DEF StartRun, RunAction
  <2>2. /\ phase[n] = "unused"
        /\ phase' = [phase EXCEPT ![n] = "starting"]
        /\ source' = [source EXCEPT ![n] = src]
        /\ reservation' = [reservation EXCEPT ![n] = "reserved"]
        /\ UNCHANGED <<record, stream, pipe, written, library, charge, called,
                       cancel>>
    BY <2>1 DEF BeginStart, KeepRecords
  <2>3. /\ phase' \in [Runs -> Phases] /\ source' \in [Runs -> Runs \cup {NoRun}]
        /\ reservation' \in [Runs -> {"none", "reserved", "confirmed", "released"}]
    BY <1>1, <2>2 DEF Phases
  <2>4. TypeOK'
    BY <2>2, <2>3 DEF IInv, TypeOK
  <2>5. \A q \in Runs : isCreated(q)' <=> isCreated(q)
    BY <1>1, <2>2 DEF isCreated
  <2>6. StartOK'
    BY <1>1, <2>2, <2>5 DEF IInv, StartOK
  <2>7. src # NoRun => isCreated(src) /\ record[src].terminal
    BY <2>1 DEF IInv, RecordsOK, RecordOK, isActiveRun, isCreated
  <2>8. SourceOK'
    BY <1>1, <1>2, <2>2, <2>5, <2>7 DEF IInv, SourceOK
  <2>9. CancelOK'
    BY <2>2, <2>5 DEF IInv, CancelOK
  <2> QED BY <2>4, <2>6, <2>8, <2>9 DEF RestOK
<1> QED BY <1>3, <1>4

LEMMA CreatePreserves ==
  ASSUME IInv, NEW n \in Runs, CreateRun(n)
  PROVE  TypeOK' /\ RestOK'
<1>1. /\ phase \in [Runs -> Phases] /\ pipe \in [Runs -> Pipe]
      /\ record \in [Runs -> RunRecord]
  BY DEF IInv, TypeOK, Pipe
<1>2. RecordStep
  BY CreateStep
<1>3. /\ phase[n] = "starting"
      /\ phase' = [phase EXCEPT ![n] = "created"]
      /\ pipe' = [pipe EXCEPT ![n] = await(n, NoPipeline)]
      /\ UNCHANGED <<source, written, library, reservation, charge, called,
                     cancel>>
  BY DEF CreateRun
<1>4. NoPipeline \in Pipe
  BY RepairsAssumption DEF NoPipeline, Pipe, PipePcs
<1>5. await(n, NoPipeline) \in Pipe
  BY <1>4, AwaitType
<1>6. phase' \in [Runs -> Phases] /\ pipe' \in [Runs -> Pipe]
  BY <1>1, <1>3, <1>5 DEF Phases
<1>7. TypeOK'
  BY <1>2, <1>3, <1>6 DEF IInv, TypeOK, Pipe, Stream, RecordStep
<1>8. \A q \in Runs : isCreated(q)' <=> isCreated(q) \/ q = n
  BY <1>1, <1>3 DEF isCreated
<1>9. \A q \in Runs : record[q].terminal => record'[q].terminal
  BY <1>2 DEF RecordStep, Evolves
<1>10. \A q \in Runs : source[q] # NoRun => source[q] \in Runs
  BY DEF IInv, TypeOK
<1>11. \A q \in Runs : ~isCreated(q)' => record'[q] = record[q] /\ pipe'[q] = pipe[q]
  <2>1. source[n] # NoRun => isCreated(source[n]) /\ source[n] \in Runs
    BY <1>10 DEF IInv, SourceOK
  <2>2. \A q \in Runs : q # n /\ q # source[n] => record'[q] = record[q]
    BY <1>1, <2>1 DEF CreateRun
  <2>3. \A q \in Runs : q # n => pipe'[q] = pipe[q]
    BY <1>1, <1>3
  <2>4. \A q \in Runs : ~isCreated(q)' => q # n /\ q # source[n]
    BY <1>8, <2>1, NoRunAssumption
  <2> QED BY <2>2, <2>3, <2>4
<1>12. StartOK'
  <2>1. \A q \in Runs : ~isCreated(q)' => ~isCreated(q)
    BY <1>8
  <2>2. \A q \in Runs : phase'[q] # "unused" => phase[q] # "unused"
    BY <1>1, <1>3
  <2> QED BY <1>3, <1>11, <2>1, <2>2 DEF IInv, StartOK
<1>13. SourceOK'
  BY <1>3, <1>8, <1>9, <1>10 DEF IInv, SourceOK
<1>14. CancelOK'
  BY <1>3, <1>8 DEF IInv, CancelOK
<1> QED BY <1>7, <1>12, <1>13, <1>14 DEF RestOK

Cancel == [pc : {"idle", "releasing", "released", "answered"},
           run : Runs \cup {NoRun},
           answer : Statuses \cup {"none", "conflict", "error"}]

\* The cancel routes, a user's and the administrator's.
LEMMA CancelPreserves ==
  ASSUME IInv, RecordStep,
         \/ \E c \in Cancels : CancelStep(c) \/ \E r \in Runs : CancelRequested(c, r)
         \/ \E r \in Runs : AdminCancel(r)
  PROVE  TypeOK' /\ RestOK'
<1>1. /\ record \in [Runs -> RunRecord] /\ pipe \in [Runs -> Pipe]
      /\ reservation \in [Runs -> {"none", "reserved", "confirmed", "released"}]
      /\ cancel \in [Cancels -> Cancel]
      /\ record' \in [Runs -> RunRecord] /\ stream' \in [Streams -> Stream]
  BY DEF IInv, TypeOK, Pipe, Cancel, RecordStep
<1>2. \A q \in Runs : record[q].terminal => record'[q].terminal
  BY DEF RecordStep, Evolves
<1>3. \A q \in Runs : source[q] # NoRun => source[q] \in Runs
  BY DEF IInv, TypeOK
<1>4. /\ UNCHANGED <<phase, source, written, library, charge, called>>
  BY DEF CancelStep, CancelReleases, CancelReleaseFails, CancelFinishes,
         CancelRequested, AdminCancel, releaseRunUsage
<1>5. \A q \in Runs : isCreated(q)' <=> isCreated(q)
  BY <1>4 DEF isCreated
<1>6. SourceOK'
  BY <1>2, <1>3, <1>4, <1>5 DEF IInv, SourceOK
<1>7. /\ pipe' \in [Runs -> Pipe]
      /\ \A q \in Runs : pipe[q].pc = "none" => pipe'[q].pc = "none"
  <2>1. ASSUME NEW r \in Runs, schedulerCancelRun(r)
        PROVE  /\ pipe' \in [Runs -> Pipe]
               /\ \A q \in Runs : pipe[q].pc = "none" => pipe'[q].pc = "none"
    <3>1. throws(pipe[r], "RUN_ERROR") \in Pipe
      <4>1. pipe[r] \in Pipe
        BY <1>1
      <4>2. "throwing" \in PipePcs /\ "RUN_ERROR" \in PipelineErrors
        BY DEF PipePcs, PipelineErrors
      <4> QED BY <4>1, <4>2 DEF throws, Pipe
    <3> QED BY <1>1, <2>1, <3>1 DEF schedulerCancelRun
  <2>2. pipe' = pipe \/ \E r \in Runs : schedulerCancelRun(r)
    BY DEF CancelStep, CancelReleases, CancelReleaseFails, CancelFinishes,
           CancelRequested, AdminCancel
  <2> QED BY <1>1, <2>1, <2>2
<1>8. /\ reservation' \in [Runs -> {"none", "reserved", "confirmed", "released"}]
      /\ \A q \in Runs : reservation[q] # "none" => reservation'[q] # "none"
  <2>1. reservation' = reservation \/ \E r : releaseRunUsage(r)
    BY DEF CancelStep, CancelReleases, CancelReleaseFails, CancelFinishes,
           CancelRequested, AdminCancel
  <2> QED BY <1>1, <2>1 DEF releaseRunUsage
<1>9. \A q \in Runs : ~isCreated(q) => record'[q] = record[q]
  <2>1. \/ KeepRecords
        \/ \E r \in Runs : isCreated(r) /\ \E rec : Update(r, rec)
    BY DEF CancelStep, CancelReleases, CancelReleaseFails, CancelFinishes,
           CancelRequested, AdminCancel, isCreated, IInv, CancelOK
  <2> QED BY <1>1, <2>1 DEF KeepRecords, Update
<1>10. StartOK'
  BY <1>4, <1>5, <1>7, <1>8, <1>9 DEF IInv, StartOK
<1>11. cancel' \in [Cancels -> Cancel] /\ CancelOK'
  <2>1. CASE \E c \in Cancels : CancelReleases(c) \/ CancelReleaseFails(c)
    <3>1. PICK c \in Cancels : CancelReleases(c) \/ CancelReleaseFails(c)
      BY <2>1
    <3>2. \/ cancel' = [cancel EXCEPT ![c].pc = "released"]
             /\ cancel[c].pc = "releasing"
          \/ cancel' = [cancel EXCEPT ![c].pc = "answered", ![c].answer = "error"]
      BY <3>1 DEF CancelReleases, CancelReleaseFails
    <3>3. cancel \in [Cancels -> Cancel] /\ CancelOK
      BY <1>1 DEF IInv
    <3>4. /\ cancel' \in [Cancels -> Cancel]
          /\ \A d \in Cancels : cancel'[d].run = cancel[d].run
          /\ \A d \in Cancels : cancel'[d].pc \in {"releasing", "released"} =>
               cancel[d].pc \in {"releasing", "released"}
      BY <3>2, <3>3 DEF Cancel
    <3> QED BY <1>5, <3>3, <3>4 DEF CancelOK
  <2>2. CASE \E c \in Cancels : CancelFinishes(c)
    <3>1. PICK c \in Cancels : CancelFinishes(c)
      BY <2>2
    <3>2. cancel[c].run \in Runs
      BY <3>1 DEF CancelFinishes, IInv, CancelOK
    <3> DEFINE status == cancelRunRecord(record[cancel[c].run]).status
    <3>3. status \in Statuses
      BY <3>2, CancelEvolves DEF IInv, RecordsOK, Evolves, RecordOK, LogOK, RunRecord
    <3>4. cancel' = [cancel EXCEPT ![c].pc = "answered", ![c].answer = status]
      BY <3>1 DEF CancelFinishes
    <3> HIDE DEF status
    <3>5. cancel \in [Cancels -> Cancel] /\ CancelOK
      BY <1>1 DEF IInv
    <3>6. cancel' \in [Cancels -> Cancel]
      <4>1. [cancel[c] EXCEPT !.pc = "answered", !.answer = status] \in Cancel
        BY <3>3, <3>5 DEF Cancel
      <4> QED BY <3>4, <3>5, <4>1
    <3>7. \A d \in Cancels :
             cancel'[d].pc \in {"releasing", "released"} => cancel'[d] = cancel[d]
      <4>1. cancel'[c].pc = "answered" /\ \A d \in Cancels : d # c => cancel'[d] = cancel[d]
        BY <3>4, <3>5 DEF Cancel
      <4> QED BY <4>1
    <3> QED BY <1>5, <3>5, <3>6, <3>7 DEF CancelOK
  <2>3. CASE \E c \in Cancels, r \in Runs : CancelRequested(c, r)
    <3>1. PICK c \in Cancels, r \in Runs : CancelRequested(c, r)
      BY <2>3
    <3>2. /\ isCreated(r)
          /\ \/ cancel' = [cancel EXCEPT ![c] =
                             [pc |-> "answered", run |-> r, answer |-> "conflict"]]
             \/ cancel' = [cancel EXCEPT ![c] =
                             [pc |-> "releasing", run |-> r, answer |-> "none"]]
      BY <3>1 DEF CancelRequested, isCreated
    <3> QED BY <1>1, <1>5, <3>2 DEF Cancel, IInv, CancelOK
  <2>4. CASE \E r \in Runs : AdminCancel(r)
    BY <1>1, <1>5, <2>4 DEF AdminCancel, IInv, CancelOK
  <2> QED BY <2>1, <2>2, <2>3, <2>4 DEF CancelStep
<1>12. TypeOK'
  BY <1>1, <1>4, <1>7, <1>8, <1>11 DEF IInv, TypeOK, Pipe, Cancel, Stream
<1> QED BY <1>6, <1>10, <1>11, <1>12 DEF RestOK

LEMMA QuietPreserves ==
  ASSUME IInv, RecordStep,
         UNCHANGED <<phase, source, record, pipe, written, library, reservation,
                     charge, called, cancel>>
  PROVE  TypeOK' /\ RestOK'
<1>1. TypeOK'
  BY DEF IInv, TypeOK, RecordStep, Stream
<1>2. \A q \in Runs : isCreated(q)' <=> isCreated(q)
  BY DEF isCreated
<1>3. \A q \in Runs : source[q] # NoRun => source[q] \in Runs
  BY DEF IInv, TypeOK
<1> QED BY <1>1, <1>2, <1>3 DEF IInv, StartOK, SourceOK, CancelOK, RestOK

LEMMA InitInv == ASSUME Init PROVE IInv
<1>1. TypeOK
  BY EmptyOK, RepairsAssumption
     DEF Init, TypeOK, Phases, NoPipeline, PipePcs, RecordOK, LogOK
<1> QED BY <1>1, EmptyOK
        DEF Init, IInv, RecordsOK, StartOK, SourceOK, CancelOK, NoPipeline

LEMMA StepInv == ASSUME IInv, [Next]_vars PROVE IInv'
<1>1. CASE Next
  <2>1. RecordStep
    BY <1>1, NextRecordStep
  <2>2. RecordsOK'
    BY <2>1 DEF RecordStep, RecordsOK, Evolves
  <2>3. TypeOK' /\ RestOK'
    <3>1. CASE \E n \in Runs : CreateRun(n)
      BY <3>1, CreatePreserves
    <3>2. CASE \E n \in Runs : StartRun(n) \/ StartFails(n) \/ DeleteRun(n)
      BY <2>1, <3>2, StartPreserves
    <3>3. CASE \E n, src \in Runs : \E action \in {"retry", "rerun"} :
                 RunAction(n, src, action)
      BY <2>1, <3>3, StartPreserves
    <3>4. CASE \E r \in Runs : PipelineStep(r)
      BY <2>1, <3>4, PipelinePreserves
    <3>5. CASE \/ \E c \in Cancels :
                    CancelStep(c) \/ \E r \in Runs : CancelRequested(c, r)
               \/ \E r \in Runs : AdminCancel(r)
      BY <2>1, <3>5, CancelPreserves
    <3>6. CASE \E s \in Streams : Disconnect(s) \/ \E r \in Runs : Subscribe(s, r)
      BY <2>1, <3>6, QuietPreserves DEF Disconnect, Subscribe
    <3> QED BY <1>1, <3>1, <3>2, <3>3, <3>4, <3>5, <3>6 DEF Next
  <2> QED BY <2>2, <2>3 DEF IInv, RestOK
<1>2. CASE UNCHANGED vars
  <2>1. TypeOK' /\ RecordsOK'
    BY <1>2 DEF vars, IInv, TypeOK, RecordsOK
  <2>2. \A q \in Runs : isCreated(q)' <=> isCreated(q)
    BY <1>2 DEF vars, isCreated
  <2>3. \A q \in Runs : source[q] # NoRun => source[q] \in Runs
    BY DEF IInv, TypeOK
  <2> QED BY <1>2, <2>1, <2>2, <2>3 DEF vars, IInv, StartOK, SourceOK, CancelOK
<1> QED BY <1>1, <1>2

\* The strengthened invariant holds throughout.
THEOREM Invariance == Spec => []IInv
BY InitInv, StepInv, PTL DEF Spec

-----------------------------------------------------------------------------
(***************************************************************************)
(* What follows from it.                                                   *)
(***************************************************************************)
\* Every variable keeps its type; no pipeline leaves its program.
THEOREM TypeCorrect == Spec => []TypeOK
<1>1. IInv => TypeOK
  BY DEF IInv
<1> QED BY <1>1, Invariance, PTL

\* A record is closed by exactly one terminal event, and its status is that
\* event's, whatever routes and pipelines wrote to it since (emitEvent).
THEOREM OneOutcomeAlways == Spec => []OneOutcome
<1>1. ASSUME IInv PROVE OneOutcome
  <2> SUFFICES ASSUME NEW r \in Runs
               PROVE  LET rec == record[r]
                          ends == Ends(rec.events)
                      IN  IF rec.terminal
                          THEN \E i \in ends : ends = {i}
                                               /\ rec.status = rec.events[i]
                          ELSE ends = {} /\ rec.status \in {"queued", "running"}
    BY DEF OneOutcome, Ends
  <2> QED BY <1>1 DEF IInv, RecordsOK, RecordOK, LogOK
<1> QED BY <1>1, Invariance, PTL

\* A closed record only gains run_action events, whoever still holds it: a
\* pipeline, a cancel route or a retry.
THEOREM StaysClosedForGood == Spec => ClosedForGood
<1>1. ASSUME IInv, [Next]_vars PROVE [StaysClosed]_vars
  <2>1. CASE Next
    <3>1. \A q \in Runs : Evolves(record[q], record'[q])
      BY <1>1, <2>1, NextRecordStep DEF RecordStep
    <3>2. \A q \in Runs : record[q].events \in Seq(Events)
                          /\ record'[q].events \in Seq(Events)
      BY <1>1, <3>1 DEF IInv, RecordsOK, Evolves, RecordOK, LogOK, RunRecord
    <3>3. StaysClosed
      <4> SUFFICES ASSUME NEW r \in Runs, record[r].terminal
                   PROVE  /\ record'[r].terminal
                          /\ record'[r].status = record[r].status
                          /\ Len(record[r].events) <= Len(record'[r].events)
                          /\ \A i \in DOMAIN record'[r].events :
                               IF i <= Len(record[r].events)
                               THEN record'[r].events[i] = record[r].events[i]
                               ELSE record'[r].events[i] = "run_action"
        BY DEF StaysClosed
      <4> QED BY <3>1, <3>2 DEF Evolves
    <3> QED BY <3>3
  <2>2. CASE UNCHANGED vars
    BY <2>2
  <2> QED BY <1>1, <2>1, <2>2
<1> QED BY <1>1, Invariance, PTL DEF Spec, ClosedForGood

\* Starts, segments and cancellations together implement RunOutcome: a run
\* starts once, from nothing or from an ended run, and ends once.
THEOREM ImplementsOutcome == Spec => KeepsSafe
<1>1. ASSUME Init PROVE Outcome!Init
  BY <1>1 DEF Init, Outcome!Init, outcomes, parents, isCreated
<1>2. ASSUME IInv, [Next]_vars PROVE [Outcome!Next]_(Outcome!vars)
  <2>1. /\ phase \in [Runs -> Phases] /\ record \in [Runs -> RunRecord]
        /\ source \in [Runs -> Runs \cup {NoRun}]
    BY <1>2 DEF IInv, TypeOK
  <2>2. ASSUME \A q \in Runs : isCreated(q)' <=> isCreated(q),
               \A q \in Runs : isCreated(q) => source'[q] = source[q],
               \A q \in Runs : /\ record'[q].terminal = record[q].terminal
                               /\ record[q].terminal =>
                                    record'[q].status = record[q].status
        PROVE  outcomes' = outcomes /\ parents' = parents
    BY <2>2 DEF outcomes, parents
  <2>3. CASE KeepRecords /\ Next /\ ~\E n \in Runs : CreateRun(n)
    <3>1. \/ UNCHANGED <<phase, source>>
          \/ \E n \in Runs : \E src : BeginStart(n, src)
          \/ \E n \in Runs : StartFails(n) \/ DeleteRun(n)
      <4>1. ASSUME NEW r \in Runs, PipelineStep(r) PROVE UNCHANGED <<phase, source>>
        BY <4>1 DEF PipelineStep, ConfirmReads, ConfirmWrites, SlotGranted,
             LibrarySaves, AnswerInvalid, AwaitFails, AwaitReturns,
             handleRunPipelineError, Settle
      <4>2. ASSUME NEW c \in Cancels,
                   CancelStep(c) \/ \E r \in Runs : CancelRequested(c, r)
            PROVE  UNCHANGED <<phase, source>>
        BY <4>2 DEF CancelStep, CancelReleases, CancelReleaseFails,
             CancelFinishes, CancelRequested
      <4>3. ASSUME NEW r \in Runs, AdminCancel(r) PROVE UNCHANGED <<phase, source>>
        BY <4>3 DEF AdminCancel
      <4>4. ASSUME NEW s \in Streams,
                   Disconnect(s) \/ \E r \in Runs : Subscribe(s, r)
            PROVE  UNCHANGED <<phase, source>>
        BY <4>4 DEF Disconnect, Subscribe
      <4> QED BY <2>3, <4>1, <4>2, <4>3, <4>4 DEF Next, StartRun, RunAction
    <3>2. /\ \A q \in Runs : isCreated(q)' <=> isCreated(q)
          /\ \A q \in Runs : isCreated(q) => source'[q] = source[q]
      <4>1. CASE UNCHANGED <<phase, source>>
        BY <4>1 DEF isCreated
      <4>2. ASSUME NEW n \in Runs, NEW src, BeginStart(n, src)
            PROVE  /\ \A q \in Runs : isCreated(q)' <=> isCreated(q)
                   /\ \A q \in Runs : isCreated(q) => source'[q] = source[q]
        BY <2>1, <4>2 DEF BeginStart, isCreated
      <4>3. ASSUME NEW n \in Runs, StartFails(n) \/ DeleteRun(n)
            PROVE  /\ \A q \in Runs : isCreated(q)' <=> isCreated(q)
                   /\ \A q \in Runs : isCreated(q) => source'[q] = source[q]
        BY <2>1, <4>3 DEF StartFails, DeleteRun, isCreated
      <4> QED BY <3>1, <4>1, <4>2, <4>3
    <3> QED BY <2>2, <2>3, <3>2 DEF KeepRecords, Outcome!vars
  <2>4. ASSUME NEW r \in Runs, isCreated(r), phase' = phase, source' = source,
               NEW rec, Evolves(record[r], rec), Update(r, rec)
        PROVE  [Outcome!Next]_(Outcome!vars)
    <3>1. /\ \A q \in Runs : isCreated(q)' <=> isCreated(q)
          /\ record' = [record EXCEPT ![r] = rec]
          /\ parents' = parents
      BY <2>4 DEF isCreated, Update, parents
    <3>2. CASE rec.terminal = record[r].terminal
      <4>1. /\ \A q \in Runs : record'[q].terminal = record[q].terminal
            /\ \A q \in Runs : record[q].terminal =>
                 record'[q].status = record[q].status
        BY <2>1, <2>4, <3>1, <3>2 DEF Evolves
      <4> QED BY <2>2, <2>4, <3>1, <4>1 DEF Outcome!vars
    <3>3. CASE rec.terminal # record[r].terminal
      <4>1. rec.terminal /\ ~record[r].terminal
        BY <2>1, <2>4, <3>3 DEF Evolves, RecordOK, LogOK, RunRecord
      <4>2. rec.status \in Outcome!Outcomes
        BY <2>4, <4>1 DEF Evolves, RecordOK, LogOK, Ends, isTerminalRunEvent,
                          TerminalEvents, Outcome!Outcomes
      <4>3. outcomes[r] = "pending"
        BY <2>4, <4>1 DEF outcomes
      <4>4. outcomes' = [outcomes EXCEPT ![r] = rec.status]
        BY <2>1, <2>4, <3>1, <4>1 DEF outcomes
      <4>5. Outcome!End(r)
        BY <3>1, <4>2, <4>3, <4>4 DEF Outcome!End
      <4> QED BY <4>5 DEF Outcome!Next
    <3> QED BY <3>2, <3>3
  <2>5. ASSUME NEW n \in Runs, CreateRun(n)
        PROVE  Outcome!Start(n, source[n])
    <3>1. /\ RecordStep
          /\ ~record'[n].terminal
          /\ \A q \in Runs \ {n} : record'[q].terminal = record[q].terminal
      BY <1>2, <2>5, CreateStep
    <3>2. /\ phase[n] = "starting" /\ phase' = [phase EXCEPT ![n] = "created"]
          /\ source' = source
      BY <2>5 DEF CreateRun
    <3>3. /\ ~isCreated(n)
          /\ \A q \in Runs : isCreated(q)' <=> isCreated(q) \/ q = n
      BY <2>1, <3>2 DEF isCreated
    <3>4. \A q \in Runs : record[q].terminal =>
            record'[q].status = record[q].status
      BY <3>1 DEF RecordStep, Evolves
    <3>5. outcomes' = [outcomes EXCEPT ![n] = "pending"]
      BY <3>1, <3>3, <3>4 DEF outcomes
    <3>6. parents' = [parents EXCEPT ![n] = source[n]]
      BY <3>2, <3>3 DEF parents
    <3>7. outcomes[n] = "none"
      BY <3>3 DEF outcomes
    <3>8. ASSUME source[n] \in Runs
          PROVE  outcomes[source[n]] \in Outcome!Outcomes
      <4> DEFINE src == source[n]
      <4>1. isCreated(src) /\ record[src].terminal /\ RecordOK(record[src])
        BY <1>2, <3>8, NoRunAssumption DEF IInv, SourceOK, RecordsOK
      <4>2. outcomes[src] = record[src].status
        BY <3>8, <4>1 DEF outcomes
      <4> HIDE DEF src
      <4>3. record[src].status \in Outcome!Outcomes
        BY <4>1 DEF RecordOK, LogOK, Ends, isTerminalRunEvent, TerminalEvents,
                    Outcome!Outcomes
      <4> QED BY <4>2, <4>3 DEF src
    <3> QED BY <3>5, <3>6, <3>7, <3>8 DEF Outcome!Start
  <2>6. ASSUME NEW s \in Streams,
               Disconnect(s) \/ \E r \in Runs : Subscribe(s, r)
        PROVE  outcomes' = outcomes /\ parents' = parents
    BY <2>6 DEF Disconnect, Subscribe, outcomes, parents, isCreated
  <2>7. CASE UNCHANGED vars
    BY <2>7 DEF vars, outcomes, parents, isCreated, Outcome!vars
  <2>8. CASE \E n \in Runs : CreateRun(n)
    <3>1. PICK n \in Runs : CreateRun(n)
      BY <2>8
    <3>2. Outcome!Start(n, source[n]) /\ source[n] \in Runs \cup {NoRun}
      BY <2>1, <2>5, <3>1
    <3> QED BY <3>2 DEF Outcome!Next
  <2>9. CASE Next /\ ~\E n \in Runs : CreateRun(n)
    BY <1>2, <2>3, <2>4, <2>6, <2>9, RecordUpdates DEF Outcome!vars
  <2> QED BY <1>2, <2>7, <2>8, <2>9
<1> QED BY <1>1, <1>2, Invariance, PTL DEF Spec, KeepsSafe, Outcome!Safe

LEMMA AwaitWaits ==
  ASSUME NEW r \in Runs, NEW p \in Pipe
  PROVE  await(r, p).pc # "done"
<1> DEFINE kind == Steps(r)[p.step].awaits
           pc == CASE kind = "render" -> "rendering"
                   [] kind = "save" -> "saving"
                   [] kind = "llm" /\ p.confirmed -> "queued"
                   [] OTHER -> "confirming"
<1>1. pc # "done"
  OBVIOUS
<1>2. await(r, p) = [p EXCEPT !.pc = pc]
  BY DEF await
<1> HIDE DEF pc
<1> QED BY <1>1, <1>2 DEF Pipe

\* Only its starter's last step ends a pipeline.
LEMMA OnlySettleEnds ==
  ASSUME IInv, Next, NEW r \in Runs, pipe'[r].pc = "done", pipe[r].pc # "done"
  PROVE  Settle(r)
<1>1. /\ pipe \in [Runs -> Pipe] /\ \A q \in Runs : pipe[q] \in Pipe
  BY DEF IInv, TypeOK, Pipe
<1>2. \A q \in Runs : \A err : throws(pipe[q], err).pc # "done"
  BY <1>1 DEF throws, Pipe
<1>3. ASSUME NEW q \in Runs, schedulerCancelRun(q)
      PROVE  FALSE
  BY <1>1, <1>2, <1>3 DEF schedulerCancelRun
<1>4. ASSUME NEW q \in Runs, PipelineStep(q)
      PROVE  Settle(r)
  <2>1. [pipe[q] EXCEPT !.confirmed = TRUE] \in Pipe
    BY <1>1 DEF Pipe
  <2>2. await(q, [pipe[q] EXCEPT !.confirmed = TRUE]).pc # "done"
    BY <2>1, AwaitWaits
  <2>3. CASE ConfirmReads(q) \/ ConfirmWrites(q)
    BY <1>1, <2>2, <2>3 DEF ConfirmReads, ConfirmWrites, Pipe
  <2>4. CASE SlotGranted(q) \/ LibrarySaves(q) \/ handleRunPipelineError(q)
    BY <1>1, <2>4 DEF SlotGranted, LibrarySaves, handleRunPipelineError, Pipe
  <2>5. CASE AwaitFails(q)
    BY <1>1, <1>2, <2>5 DEF AwaitFails
  <2>6. CASE AnswerInvalid(q)
    <3> DEFINE p == [pipe[q] EXCEPT !.repairs = @ + 1]
    <3>1. pipe[q].repairs # MaxRepairs => p \in Pipe
      BY <1>1, RepairsAssumption DEF Pipe
    <3>2. pipe[q].repairs # MaxRepairs => await(q, p).pc # "done"
      BY <3>1, AwaitWaits
    <3> HIDE DEF p
    <3>3. \/ pipe' = [pipe EXCEPT ![q] = throws(@, "RUN_ERROR")]
          \/ pipe' = [pipe EXCEPT ![q] = throws(@, "none")]
          \/ /\ pipe[q].repairs # MaxRepairs
             /\ pipe' = [pipe EXCEPT ![q] = await(q, p)]
      BY <2>6 DEF AnswerInvalid, p
    <3> QED BY <1>1, <1>2, <3>2, <3>3
  <2>7. CASE AwaitReturns(q)
    <3> DEFINE next == [pipe[q] EXCEPT !.step = @ + 1, !.repairs = 0]
    <3>1. \/ pipe' = [pipe EXCEPT ![q] = throws(@, "none")]
          \/ pipe' = [pipe EXCEPT ![q].pc = "settling"]
          \/ ~IsLastStep(q) /\ pipe' = [pipe EXCEPT ![q] = await(q, next)]
      BY <2>7 DEF AwaitReturns
    <3>2. ~IsLastStep(q) => pipe[q].step + 1 \in 1..3
      <4>1. ~IsLastStep(q) => pipe[q].step # 3
        BY StepFacts DEF IsLastStep
      <4> QED BY <1>1, <4>1 DEF Pipe
    <3>3. ~IsLastStep(q) => next \in Pipe
      BY <1>1, <3>2, NextStepType
    <3>4. ~IsLastStep(q) => await(q, next).pc # "done"
      BY <3>3, AwaitWaits
    <3> HIDE DEF next
    <3> QED BY <1>1, <1>2, <3>1, <3>4 DEF Pipe
  <2>8. CASE Settle(q)
    BY <1>1, <2>8 DEF Settle
  <2> QED BY <1>4, <2>3, <2>4, <2>5, <2>6, <2>7, <2>8 DEF PipelineStep
<1>5. ASSUME NEW n \in Runs, CreateRun(n)
      PROVE  FALSE
  <2>1. NoPipeline \in Pipe
    BY RepairsAssumption DEF NoPipeline, Pipe, PipePcs
  <2> QED BY <1>1, <1>5, <2>1, AwaitWaits DEF CreateRun
<1> QED BY <1>3, <1>4, <1>5
        DEF Next, StartRun, StartFails, RunAction, BeginStart, AdminCancel,
            DeleteRun, CancelStep, CancelReleases, CancelReleaseFails,
            CancelFinishes, CancelRequested, Disconnect, Subscribe

\* What a step may do to the credit of a run.
LEMMA CreditStep ==
  ASSUME IInv, Next, NEW r \in Runs
  PROVE  /\ pipe[r].pc # "none" /\ reservation[r] \in {"confirmed", "released"} =>
              reservation'[r] \in {"confirmed", "released"}
         /\ reservation'[r] = "confirmed" =>
              reservation[r] = "confirmed" \/ charge'[r].usage
         /\ charge[r].usage => charge'[r].usage
<1>1. /\ reservation \in [Runs -> {"none", "reserved", "confirmed", "released"}]
      /\ charge \in [Runs -> [usage : BOOLEAN, refund : BOOLEAN]]
  BY DEF IInv, TypeOK
<1>2. CASE reservation' = reservation /\ charge' = charge
  BY <1>2
<1>3. CASE \E q \in Runs : ConfirmWrites(q)
  BY <1>1, <1>3 DEF ConfirmWrites
<1>4. CASE \E q : releaseRunUsage(q)
  BY <1>1, <1>4 DEF releaseRunUsage
<1>5. CASE \E q : compensateRunUsage(q)
  BY <1>1, <1>5 DEF compensateRunUsage
<1>6. CASE \E n \in Runs : \E src : BeginStart(n, src)
  <2>0. PICK n \in Runs : \E src : BeginStart(n, src)
    BY <1>6
  <2>1. PICK src : BeginStart(n, src)
    BY <2>0
  <2>2. pipe[n].pc = "none"
    BY <2>1 DEF BeginStart, IInv, StartOK, isCreated
  <2> QED BY <1>1, <2>1, <2>2 DEF BeginStart
<1>7. \/ reservation' = reservation /\ charge' = charge
      \/ \E q \in Runs : ConfirmWrites(q)
      \/ \E q : releaseRunUsage(q) \/ compensateRunUsage(q)
      \/ \E n \in Runs : \E src : BeginStart(n, src)
  BY DEF Next, StartRun, StartFails, CreateRun, RunAction, PipelineStep,
         ConfirmReads, SlotGranted, LibrarySaves, AnswerInvalid, AwaitFails,
         AwaitReturns, handleRunPipelineError, Settle, AdminCancel, DeleteRun,
         CancelStep, CancelReleases, CancelReleaseFails, CancelFinishes,
         CancelRequested, Disconnect, Subscribe
<1> QED BY <1>2, <1>3, <1>4, <1>5, <1>6, <1>7

\* No pipeline ends with its reservation outstanding, whichever of the
\* pipeline, its confirmation and the cancel routes touched it last.
THEOREM NothingLeftReserved == Spec => []NoReservationLeftBehind
<1>1. Init => NoReservationLeftBehind
  BY DEF Init, NoReservationLeftBehind, NoPipeline
<1>2. ASSUME IInv, IInv', NoReservationLeftBehind, [Next]_vars
      PROVE  NoReservationLeftBehind'
  <2>1. CASE UNCHANGED vars
    BY <1>2, <2>1 DEF vars, NoReservationLeftBehind
  <2>2. CASE Next
    <3> SUFFICES ASSUME NEW r \in Runs
                 PROVE  /\ pipe'[r].pc = "done" =>
                             reservation'[r] \in {"confirmed", "released"}
                        /\ reservation'[r] = "confirmed" => charge'[r].usage
      BY DEF NoReservationLeftBehind
    <3>1. ASSUME Settle(r)
          PROVE  reservation'[r] \in {"confirmed", "released"}
      <4>1. reservation[r] \in {"reserved", "confirmed", "released"}
        BY <1>2, <3>1 DEF IInv, StartOK, TypeOK, Settle, isCreated
      <4> QED BY <1>2, <3>1, <4>1 DEF Settle, compensateRunUsage,
                 releaseRunUsage, IInv, TypeOK
    <3>2. pipe[r].pc = "done" => reservation[r] \in {"confirmed", "released"}
      BY <1>2 DEF NoReservationLeftBehind
    <3>3. pipe'[r].pc = "done" => reservation'[r] \in {"confirmed", "released"}
      BY <1>2, <2>2, <3>1, <3>2, OnlySettleEnds, CreditStep
    <3>4. reservation'[r] = "confirmed" => charge'[r].usage
      BY <1>2, <2>2, CreditStep DEF NoReservationLeftBehind
    <3> QED BY <3>3, <3>4
  <2> QED BY <1>2, <2>1, <2>2
<1> QED BY <1>1, <1>2, Invariance, PTL DEF Spec

-----------------------------------------------------------------------------
(***************************************************************************)
(* Streams.                                                                *)
(***************************************************************************)
\* A stream is on a run that has been created, and agrees with its log.
StreamsOK ==
  \A s \in Streams : stream[s].run # NoRun =>
    /\ isCreated(stream[s].run)
    /\ Agrees(stream[s], record[stream[s].run].events)

LEMMA CreatedStays ==
  ASSUME IInv, Next
  PROVE  \A q \in Runs : isCreated(q) => isCreated(q)'
<1>1. phase \in [Runs -> Phases]
  BY DEF IInv, TypeOK
<1>2. ASSUME NEW n \in Runs, StartRun(n) \/ StartFails(n) \/ CreateRun(n) \/ DeleteRun(n)
             \/ \E src, action : RunAction(n, src, action)
      PROVE  \/ ~isCreated(n) /\ \E p \in Phases : phase' = [phase EXCEPT ![n] = p]
             \/ phase' = [phase EXCEPT ![n] = "deleted"]
  BY <1>2 DEF StartRun, StartFails, CreateRun, DeleteRun, RunAction, BeginStart,
              isCreated, Phases
<1>3. ASSUME NEW n \in Runs, StartRun(n) \/ StartFails(n) \/ CreateRun(n) \/ DeleteRun(n)
             \/ \E src, action : RunAction(n, src, action)
      PROVE  \A q \in Runs : isCreated(q) => isCreated(q)'
  BY <1>1, <1>2, <1>3 DEF isCreated
<1>4. ASSUME NEW r \in Runs, PipelineStep(r) \/ AdminCancel(r)
      PROVE  phase' = phase
  BY <1>4 DEF PipelineStep, ConfirmReads, ConfirmWrites, SlotGranted, LibrarySaves,
              AnswerInvalid, AwaitFails, AwaitReturns, handleRunPipelineError,
              Settle, AdminCancel
<1>5. ASSUME NEW c \in Cancels, CancelStep(c) \/ \E r \in Runs : CancelRequested(c, r)
      PROVE  phase' = phase
  BY <1>5 DEF CancelStep, CancelReleases, CancelReleaseFails, CancelFinishes,
              CancelRequested
<1>6. ASSUME NEW s \in Streams, Disconnect(s) \/ \E r \in Runs : Subscribe(s, r)
      PROVE  phase' = phase
  BY <1>6 DEF Disconnect, Subscribe
<1> QED BY <1>3, <1>4, <1>5, <1>6 DEF Next, isCreated

\* One record evolves, and its open streams are told.
LEMMA StreamsHear ==
  ASSUME IInv, StreamsOK, NEW r \in Runs, NEW rec, Evolves(record[r], rec),
         \A q \in Runs : isCreated(q) => isCreated(q)',
         record'[r] = rec,
         \A q \in Runs \ {r} : isCreated(q) => record'[q] = record[q],
         stream' = [s \in Streams |->
                      IF stream[s].run = r /\ stream[s].open
                      THEN deliver(stream[s], record[r], rec)
                      ELSE stream[s]]
  PROVE  StreamsOK'
<1>1. /\ \A s \in Streams : stream[s] \in Stream
      /\ \A q \in Runs : RecordOK(record[q])
  BY DEF IInv, TypeOK, Stream, RecordsOK
<1> SUFFICES ASSUME NEW s \in Streams, stream'[s].run # NoRun
             PROVE  /\ isCreated(stream[s].run)'
                    /\ Agrees(stream'[s], record'[stream'[s].run].events)
  BY DEF StreamsOK
<1>2. CASE stream[s].run = r /\ stream[s].open
  <2>1. isCreated(r) /\ stream[s].sent = record[r].events
    BY <1>2, NoRunAssumption DEF StreamsOK, Agrees
  <2>2. stream'[s] = deliver(stream[s], record[r], rec)
    BY <1>2
  <2>3. /\ Agrees(deliver(stream[s], record[r], rec), rec.events)
        /\ deliver(stream[s], record[r], rec).run = stream[s].run
    BY <1>1, <2>1, DeliverAgrees DEF Stream
  <2> QED BY <1>2, <2>1, <2>2, <2>3
<1>3. CASE stream[s].run = r /\ ~stream[s].open
  <2>1. stream'[s] = stream[s]
    BY <1>3
  <2>2. isCreated(r) /\ Agrees(stream[s], record[r].events)
    BY <1>3, NoRunAssumption DEF StreamsOK
  <2>3. stream[s].sent \in Seq(Events)
    BY <1>1 DEF Stream
  <2>4. Agrees(stream[s], rec.events)
    BY <1>1, <1>3, <2>2, <2>3, ClosedAgrees
  <2> QED BY <1>3, <2>1, <2>2, <2>4
<1>4. CASE stream[s].run # r
  <2>1. stream'[s] = stream[s]
    BY <1>4
  <2>2. stream[s].run \in Runs \ {r}
    BY <1>1, <1>4, <2>1 DEF Stream
  <2> QED BY <2>1, <2>2 DEF StreamsOK
<1> QED BY <1>2, <1>3, <1>4

LEMMA StreamsStep ==
  ASSUME IInv, StreamsOK, Next
  PROVE  StreamsOK'
<1>1. \A q \in Runs : isCreated(q) => isCreated(q)'
  BY CreatedStays
<1>2. /\ stream \in [Streams -> Stream] /\ record \in [Runs -> RunRecord]
      /\ \A s \in Streams : stream[s].run \in Runs \cup {NoRun}
      /\ \A q \in Runs : RecordOK(record[q])
  BY DEF IInv, TypeOK, Stream, RecordsOK
<1>3. CASE KeepRecords
  BY <1>1, <1>2, <1>3 DEF KeepRecords, StreamsOK
<1>4. ASSUME NEW r \in Runs, NEW rec, Evolves(record[r], rec), Update(r, rec)
      PROVE  StreamsOK'
  <2>1. /\ record'[r] = rec
        /\ \A q \in Runs \ {r} : record'[q] = record[q]
    BY <1>2, <1>4 DEF Update
  <2> QED BY <1>1, <1>4, <2>1, StreamsHear DEF Update
<1>5. ASSUME NEW n \in Runs, CreateRun(n)
      PROVE  StreamsOK'
  <2> DEFINE src == source[n]
             acted == emitEvent(record[src], "run_action")
  <2>1. ~isCreated(n)
    BY <1>5 DEF CreateRun, isCreated
  <2>2. CASE src = NoRun
    <3>1. stream' = stream /\ \A q \in Runs \ {n} : record'[q] = record[q]
      BY <1>2, <1>5, <2>2 DEF CreateRun
    <3> QED BY <1>1, <1>2, <2>1, <3>1 DEF StreamsOK
  <2>3. CASE src # NoRun
    <3>1. src \in Runs /\ src # n /\ RecordOK(record[src])
      BY <1>2, <2>1, <2>3 DEF IInv, SourceOK, TypeOK
    <3>2. "run_action" \in Events \ TerminalEvents
      BY DEF Events, TerminalEvents
    <3>3. Evolves(record[src], acted)
      BY <3>1, <3>2, EmitProgress
    <3>4. /\ record'[src] = acted
          /\ \A q \in Runs \ {src} : q # n => record'[q] = record[q]
          /\ stream' = [s \in Streams |->
                          IF stream[s].run = src /\ stream[s].open
                          THEN deliver(stream[s], record[src], acted)
                          ELSE stream[s]]
      BY <1>2, <1>5, <2>3, <3>1 DEF CreateRun
    <3> HIDE DEF src, acted
    <3> QED BY <1>1, <2>1, <3>1, <3>3, <3>4, StreamsHear
  <2> QED BY <2>2, <2>3
<1>6. ASSUME NEW s \in Streams, Disconnect(s)
      PROVE  StreamsOK'
  <2>1. /\ stream' = [stream EXCEPT ![s] = [run |-> NoRun, sent |-> <<>>,
                                            open |-> FALSE]]
        /\ record' = record
    BY <1>6 DEF Disconnect
  <2> QED BY <1>1, <1>2, <2>1 DEF StreamsOK
<1>7. ASSUME NEW s \in Streams, NEW r \in Runs, Subscribe(s, r)
      PROVE  StreamsOK'
  <2> DEFINE evs == record[r].events
             new == [run |-> r, sent |-> evs, open |-> ~record[r].terminal]
  <2>1. stream' = [stream EXCEPT ![s] = new] /\ record' = record /\ isCreated(r)
    BY <1>7 DEF Subscribe, isCreated
  <2>2. Agrees(new, evs)
    <3>1. evs \in Seq(Events) /\ Len(evs) <= Len(evs)
      BY <1>2 DEF RunRecord
    <3>2. record[r].terminal => HasTerminalEvent(evs)
      BY <1>2 DEF RecordOK, LogOK, Ends, HasTerminalEvent
    <3>3. evs = SubSeq(evs, 1, Len(evs))
      BY <3>1, SubSeqFull
    <3> HIDE DEF evs
    <3> QED BY <3>1, <3>2, <3>3 DEF Agrees
  <2>3. new.run = r
    OBVIOUS
  <2> HIDE DEF new
  <2> QED BY <1>1, <1>2, <2>1, <2>2, <2>3 DEF StreamsOK
<1> QED BY <1>3, <1>4, <1>5, <1>6, <1>7, RecordUpdates

\* What an SSE client has been sent is the log of its run, whole while the
\* stream is open and up to its end when it is closed (streamRunEvents).
THEOREM StreamsAlwaysAgree == Spec => []StreamsAgree
<1>1. Init => StreamsOK
  BY DEF Init, StreamsOK
<1>2. ASSUME IInv, StreamsOK, [Next]_vars
      PROVE  StreamsOK'
  <2>1. CASE UNCHANGED vars
    BY <1>2, <2>1 DEF vars, StreamsOK, isCreated
  <2> QED BY <1>2, <2>1, StreamsStep
<1>3. StreamsOK => StreamsAgree
  BY DEF StreamsOK, StreamsAgree, Agrees
<1> QED BY <1>1, <1>2, <1>3, Invariance, PTL DEF Spec

-----------------------------------------------------------------------------
(***************************************************************************)
(* Results.                                                                *)
(***************************************************************************)
Waiting == {"confirming", "confirm_write", "queued", "calling", "rendering",
            "saving", "saved"}

\* A suspended pipeline awaits what its step is for, with the credit confirmed
\* from its first call on, and has written what its earlier steps produced.
PipeOK(r) ==
  LET p == pipe[r]
      kind == StepOf(r).awaits
  IN  /\ p.pc \in {"confirming", "confirm_write"} => kind = "llm" /\ ~p.confirmed
      /\ p.pc \in {"queued", "calling"} => kind = "llm" /\ p.confirmed
      /\ p.pc = "rendering" => kind = "render"
      /\ p.pc \in {"saving", "saved"} => kind = "save"
      /\ p.pc = "saved" => r \in library
      /\ p.pc \in Waiting =>
           /\ p.error = "none"
           /\ \A k \in 1..3 : k < p.step => k \in written[r]
           /\ p.step # 1 => p.confirmed

\* A completed run has what its last step left.
CompletedOK(r) ==
  record[r].terminal /\ record[r].status = "completed" =>
    /\ written[r] = 1..3
    /\ Kind[r] = "document" => r \in library
    /\ pipe[r].pc \in {"settling", "done"}
    /\ pipe[r].error = "none" /\ pipe[r].confirmed

ResultsOK == \A r \in Runs : PipeOK(r) /\ CompletedOK(r)

\* What the steps of the two pipelines are for.
LEMMA StepKinds ==
  ASSUME NEW r \in Runs
  PROVE  /\ \A k \in 1..3 : Steps(r)[k].awaits \in {"llm", "render", "save"}
         /\ Steps(r)[1].awaits = "llm"
         /\ Kind[r] = "document" => Steps(r)[3].awaits = "save"
         /\ DOMAIN Steps(r) = 1..3
<1>1. CASE Kind[r] = "document"
  <2>1. Steps(r) = DocumentSteps
    BY <1>1 DEF Steps
  <2> QED BY <2>1 DEF DocumentSteps
<1>2. CASE Kind[r] # "document"
  <2>1. Steps(r) = FeasibilitySteps
    BY <1>2 DEF Steps
  <2> QED BY <1>2, <2>1 DEF FeasibilitySteps
<1> QED BY <1>1, <1>2

\* Where await leaves a pipeline.
LEMMA AwaitFacts ==
  ASSUME NEW r \in Runs, NEW p \in Pipe
  PROVE  LET q == await(r, p)
             kind == Steps(r)[p.step].awaits
         IN  /\ q.step = p.step /\ q.confirmed = p.confirmed /\ q.error = p.error
             /\ kind = "render" => q.pc = "rendering"
             /\ kind = "save" => q.pc = "saving"
             /\ kind = "llm" /\ p.confirmed => q.pc = "queued"
             /\ kind = "llm" /\ ~p.confirmed => q.pc = "confirming"
             /\ kind \in {"llm", "render", "save"}
<1> DEFINE kind == Steps(r)[p.step].awaits
           pc == CASE kind = "render" -> "rendering"
                   [] kind = "save" -> "saving"
                   [] kind = "llm" /\ p.confirmed -> "queued"
                   [] OTHER -> "confirming"
<1>1. await(r, p) = [p EXCEPT !.pc = pc]
  BY DEF await
<1>2. p.step \in 1..3 /\ p.confirmed \in BOOLEAN
  BY DEF Pipe
<1>3. kind \in {"llm", "render", "save"}
  BY <1>2, StepKinds
<1> HIDE DEF kind
<1>4. /\ kind = "render" => pc = "rendering"
      /\ kind = "save" => pc = "saving"
      /\ kind = "llm" /\ p.confirmed => pc = "queued"
      /\ kind = "llm" /\ ~p.confirmed => pc = "confirming"
  BY <1>2
<1> HIDE DEF pc
<1>5. /\ await(r, p).step = p.step /\ await(r, p).confirmed = p.confirmed
      /\ await(r, p).error = p.error /\ await(r, p).pc = pc
  BY <1>1 DEF Pipe
<1> QED BY <1>3, <1>4, <1>5 DEF kind

\* The end of an open record is the one it is given.
LEMMA EndStatus ==
  ASSUME NEW rec, RecordOK(rec), ~rec.terminal, NEW e \in TerminalEvents,
         NEW err \in RunErrors
  PROVE  emitEvent([rec EXCEPT !.status = e, !.error = err], e).status = e
<1> DEFINE mid == [rec EXCEPT !.status = e, !.error = err]
<1>1. mid.status = e /\ mid.terminal = rec.terminal /\ mid.events = rec.events
  BY DEF RecordOK, LogOK, RunRecord
<1>2. rec.terminal = FALSE
  BY DEF RecordOK, LogOK, RunRecord
<1> HIDE DEF mid
<1>3. emitEvent(mid, e) = [mid EXCEPT !.events = Append(mid.events, e),
                                      !.terminal = mid.terminal \/ isTerminalRunEvent(e)]
  BY <1>1, <1>2 DEF emitEvent
<1>4. emitEvent(mid, e).status = mid.status
  BY <1>3
<1> QED BY <1>1, <1>4 DEF mid

LEMMA CancelStatus ==
  ASSUME NEW rec, RecordOK(rec), ~rec.terminal
  PROVE  cancelRunRecord(rec).status = "cancelled"
<1>1. "cancelled" \in TerminalEvents /\ "RUN_CANCELLED" \in RunErrors
  BY DEF TerminalEvents, RunErrors
<1> QED BY <1>1, EndStatus DEF cancelRunRecord

LEMMA FailStatus ==
  ASSUME NEW rec, RecordOK(rec), ~rec.terminal, NEW err \in RunErrors
  PROVE  failRun(rec, err).status = "failed"
<1>1. "failed" \in TerminalEvents
  BY DEF TerminalEvents
<1> QED BY <1>1, EndStatus DEF failRun

\* How an awaited result is taken: the pipeline throws, ends or goes on.
ThrowsThen(r) ==
  /\ pipe' = [pipe EXCEPT ![r] = throws(@, "none")]
  /\ record'[r].terminal = record[r].terminal
  /\ \A q \in Runs : written[q] \subseteq written'[q]

EndsThen(r) ==
  /\ IsLastStep(r)
  /\ pipe' = [pipe EXCEPT ![r].pc = "settling"]
  /\ written' = [written EXCEPT ![r] = @ \cup {pipe[r].step}]

GoesOn(r) ==
  /\ ~IsLastStep(r)
  /\ pipe' = [pipe EXCEPT ![r] =
                await(r, [pipe[r] EXCEPT !.step = @ + 1, !.repairs = 0])]
  /\ written' = [written EXCEPT ![r] = @ \cup {pipe[r].step}]
  /\ record'[r].terminal = record[r].terminal

\* Only the second may close the record.
LEMMA Returns ==
  ASSUME IInv, NEW r \in Runs, AwaitReturns(r)
  PROVE  /\ \A q \in Runs \ {r} : record'[q] = record[q]
         /\ pipe[r].pc \in {"calling", "rendering", "saved"}
         /\ ThrowsThen(r) \/ EndsThen(r) \/ GoesOn(r)
<1> DEFINE step == StepOf(r)
           next == [pipe[r] EXCEPT !.step = @ + 1, !.repairs = 0]
           done == finishStep(record[r], step)
           begun == beginStep(done, Steps(r)[next.step])
<1>1. /\ pipe[r] \in Pipe /\ RecordOK(record[r]) /\ pipe[r].step \in 1..3
      /\ record \in [Runs -> RunRecord] /\ written \in [Runs -> SUBSET (1..3)]
  BY DEF IInv, TypeOK, Pipe, RecordsOK
<1>2. done.terminal = record[r].terminal /\ RecordOK(done)
  <2>1. step.finish \in {<<>>, <<"artifact_ready">>}
    BY <1>1, StepFacts DEF StepOf
  <2>2. Evolves(record[r], done) /\ done.terminal = record[r].terminal
    BY <1>1, <2>1, FinishEvolves
  <2> QED BY <2>2 DEF Evolves
<1>3. \A q \in Runs : written[q] \subseteq written'[q]
  BY <1>1 DEF AwaitReturns
<1>4. pipe[r].pc \in {"calling", "rendering", "saved"}
  BY DEF AwaitReturns
<1>5. CASE step.checks /\ isRunCancelled(record[r])
  BY <1>3, <1>4, <1>5 DEF AwaitReturns, KeepRecords, ThrowsThen
<1>6. CASE ~(step.checks /\ isRunCancelled(record[r]))
  <2>1. /\ written' = [written EXCEPT ![r] = @ \cup {pipe[r].step}]
        /\ CASE IsLastStep(r) ->
                    /\ Update(r, completeRun(done))
                    /\ pipe' = [pipe EXCEPT ![r].pc = "settling"]
               [] ~IsLastStep(r) /\ Steps(r)[next.step].begin # <<>>
                  /\ isRunCancelled(done) ->
                    /\ Update(r, done)
                    /\ pipe' = [pipe EXCEPT ![r] = throws(@, "none")]
               [] OTHER ->
                    /\ Update(r, begun)
                    /\ pipe' = [pipe EXCEPT ![r] = await(r, next)]
    BY <1>6 DEF AwaitReturns
  <2>2. \A rec : Update(r, rec) =>
          record'[r] = rec /\ \A q \in Runs \ {r} : record'[q] = record[q]
    BY <1>1 DEF Update
  <2>3. CASE IsLastStep(r)
    BY <1>4, <2>1, <2>2, <2>3 DEF EndsThen
  <2>4. CASE ~IsLastStep(r) /\ Steps(r)[next.step].begin # <<>>
             /\ isRunCancelled(done)
    <3>1. Update(r, done) /\ pipe' = [pipe EXCEPT ![r] = throws(@, "none")]
      BY <2>1, <2>4
    <3> QED BY <1>2, <1>3, <1>4, <2>2, <3>1 DEF ThrowsThen
  <2>5. CASE ~IsLastStep(r) /\ ~(Steps(r)[next.step].begin # <<>>
                                 /\ isRunCancelled(done))
    <3>1. Update(r, begun) /\ pipe' = [pipe EXCEPT ![r] = await(r, next)]
      BY <2>1, <2>5
    <3>2. pipe[r].step # 3
      BY <2>5, StepFacts DEF IsLastStep
    <3>3. next.step \in 1..3
      <4>1. pipe[r].step + 1 \in 1..3
        BY <1>1, <3>2
      <4>2. pipe[r] \in Pipe
        BY <1>1
      <4>3. next.step = pipe[r].step + 1
        BY <4>2 DEF Pipe
      <4> QED BY <4>1, <4>3
    <3>4. Steps(r)[next.step].begin \in {<<>>, <<"stage_started">>,
                                         <<"stage_started", "artifact_ready">>}
      BY <3>3, StepFacts
    <3>5. Steps(r)[next.step].begin = <<>> \/ ~done.terminal
      BY <2>5 DEF isRunCancelled
    <3> HIDE DEF done, next
    <3>6. begun.terminal = done.terminal
      BY <1>2, <3>4, <3>5, BeginEvolves
    <3> HIDE DEF begun
    <3>7. record'[r].terminal = record[r].terminal
      BY <1>2, <2>2, <3>1, <3>6
    <3> USE DEF next
    <3> QED BY <1>4, <2>1, <2>2, <2>5, <3>1, <3>7 DEF GoesOn
  <2> QED BY <2>3, <2>4, <2>5
<1> QED BY <1>5, <1>6

\* Which step may close a record how.
LEMMA Closes ==
  ASSUME IInv, Next, NEW q \in Runs, record'[q].terminal, ~record[q].terminal
  PROVE  \/ AwaitReturns(q) /\ EndsThen(q) /\ library' = library
         \/ handleRunPipelineError(q) /\ record'[q].status = "failed"
         \/ record'[q].status = "cancelled" /\ ~PipelineStep(q)
<1>1. /\ record \in [Runs -> RunRecord] /\ \A r \in Runs : RecordOK(record[r])
      /\ \A r \in Runs : pipe[r].error \in PipelineErrors \cup {"none"}
  BY DEF IInv, TypeOK, RecordsOK, Pipe
<1>2. \A r \in Runs : \A rec : Update(r, rec) /\ r # q => record'[q] = record[q]
  BY <1>1 DEF Update
<1>3. \A rec : Update(q, rec) => record'[q] = rec
  BY <1>1 DEF Update
<1>4. cancelRunRecord(record[q]).status = "cancelled"
  BY <1>1, CancelStatus
<1>5. ~KeepRecords
  BY DEF KeepRecords
<1>6. ASSUME NEW r \in Runs, PipelineStep(r)
      PROVE  \/ AwaitReturns(q) /\ EndsThen(q) /\ library' = library
             \/ handleRunPipelineError(q) /\ record'[q].status = "failed"
  <2>1. AwaitReturns(r) \/ handleRunPipelineError(r)
    BY <1>5, <1>6 DEF PipelineStep, ConfirmReads, ConfirmWrites, SlotGranted,
         LibrarySaves, AnswerInvalid, AwaitFails, Settle
  <2>2. CASE AwaitReturns(r)
    <3>1. \A p \in Runs \ {r} : record'[p] = record[p]
      BY <2>2, Returns
    <3>2. r = q
      BY <3>1
    <3>3. AwaitReturns(q) /\ record'[q].terminal # record[q].terminal
      BY <2>2, <3>2
    <3>4. ThrowsThen(q) \/ EndsThen(q) \/ GoesOn(q)
      BY <3>3, Returns
    <3>5. EndsThen(q)
      BY <3>3, <3>4 DEF ThrowsThen, GoesOn
    <3>6. library' = library
      BY <3>3 DEF AwaitReturns
    <3> QED BY <3>3, <3>5, <3>6
  <2>3. CASE handleRunPipelineError(r)
    <3>1. /\ ~(pipe[r].error = "none" \/ isRunCancelled(record[r]))
          /\ Update(r, failRun(record[r], pipe[r].error))
      BY <1>5, <2>3 DEF handleRunPipelineError
    <3>2. r = q
      BY <1>2, <3>1
    <3>3. "failed" \in TerminalEvents /\ pipe[q].error \in RunErrors
      BY <1>1 DEF TerminalEvents, RunErrors
    <3>4. failRun(record[q], pipe[q].error).status = "failed"
      BY <1>1, <3>3, FailStatus
    <3> QED BY <1>3, <2>3, <3>1, <3>2, <3>4
  <2> QED BY <2>1, <2>2, <2>3
<1>7. ASSUME ~\E r \in Runs : PipelineStep(r)
      PROVE  record'[q].status = "cancelled"
  <2>1. ASSUME NEW r \in Runs, Update(r, cancelRunRecord(record[r]))
        PROVE  record'[q].status = "cancelled"
    <3>1. r = q
      BY <1>2, <2>1
    <3> QED BY <1>3, <1>4, <2>1, <3>1
  <2>2. ~\E n \in Runs : CreateRun(n)
    BY CreateStep
  <2>3. ~\E s \in Streams : Disconnect(s) \/ \E r \in Runs : Subscribe(s, r)
    BY DEF Disconnect, Subscribe
  <2>4. \/ \E r \in Runs : AdminCancel(r)
        \/ \E c \in Cancels : CancelFinishes(c)
    BY <1>5, <1>7, <2>2, <2>3
       DEF Next, StartRun, StartFails, RunAction, BeginStart, DeleteRun, CancelStep,
           CancelReleases, CancelReleaseFails, CancelRequested
  <2>5. \A c \in Cancels : CancelFinishes(c) => cancel[c].run \in Runs
    BY DEF IInv, CancelOK, CancelFinishes
  <2> QED BY <2>1, <2>4, <2>5 DEF AdminCancel, CancelFinishes
<1> QED BY <1>6, <1>7

\* What a step may do to where a pipeline is.
LEMMA PipeMoves ==
  ASSUME IInv, Next, NEW r \in Runs, ~PipelineStep(r)
  PROVE  /\ \/ pipe'[r] = pipe[r]
            \/ pipe'[r] = await(r, NoPipeline) /\ CreateRun(r)
            \/ /\ pipe[r].pc = "queued" /\ pipe'[r] = throws(pipe[r], "RUN_ERROR")
               /\ \/ AdminCancel(r)
                  \/ \E c \in Cancels : CancelRequested(c, r) /\ cancel'[c].run = r
         /\ written'[r] = written[r]
         /\ r \in library => r \in library'
         /\ r \in called' <=> r \in called
<1>1. /\ pipe \in [Runs -> Pipe] /\ written \in [Runs -> SUBSET (1..3)]
      /\ cancel \in [Cancels -> Cancel]
  BY DEF IInv, TypeOK, Pipe, Cancel
<1>2. ASSUME NEW q \in Runs, PipelineStep(q)
      PROVE  /\ pipe'[r] = pipe[r] /\ written'[r] = written[r]
             /\ r \in library => r \in library'
             /\ r \in called' <=> r \in called
  <2>1. q # r
    BY <1>2
  <2>2. pipe'[r] = pipe[r]
    BY <1>2, <2>1, NextRecordStep, PipelineTypes
  <2> QED BY <1>1, <1>2, <2>1, <2>2
          DEF PipelineStep, ConfirmReads, ConfirmWrites, SlotGranted, LibrarySaves,
              AnswerInvalid, AwaitFails, AwaitReturns, handleRunPipelineError, Settle
<1>3. ASSUME ~\E q \in Runs : PipelineStep(q)
      PROVE  UNCHANGED <<written, library, called>>
  BY <1>3 DEF Next, StartRun, StartFails, CreateRun, RunAction, BeginStart, AdminCancel,
         DeleteRun, CancelStep, CancelReleases, CancelReleaseFails, CancelFinishes,
         CancelRequested, Disconnect, Subscribe
<1>4. ASSUME NEW q \in Runs, schedulerCancelRun(q)
      PROVE  \/ pipe'[r] = pipe[r]
             \/ q = r /\ pipe[r].pc = "queued" /\ pipe'[r] = throws(pipe[r], "RUN_ERROR")
  BY <1>1, <1>4 DEF schedulerCancelRun
<1>5. ASSUME NEW q \in Runs, AdminCancel(q)
      PROVE  \/ pipe'[r] = pipe[r]
             \/ AdminCancel(r) /\ pipe[r].pc = "queued"
                /\ pipe'[r] = throws(pipe[r], "RUN_ERROR")
  BY <1>4, <1>5 DEF AdminCancel
<1>6. ASSUME NEW c \in Cancels, NEW q \in Runs, CancelRequested(c, q)
      PROVE  \/ pipe'[r] = pipe[r]
             \/ CancelRequested(c, r) /\ pipe[r].pc = "queued"
                /\ pipe'[r] = throws(pipe[r], "RUN_ERROR") /\ cancel'[c].run = r
  <2>1. cancel'[c].run = q
    BY <1>1, <1>6 DEF CancelRequested
  <2>2. pipe' = pipe \/ schedulerCancelRun(q)
    BY <1>6 DEF CancelRequested
  <2> QED BY <1>4, <1>6, <2>1, <2>2
<1>7. ASSUME NEW n \in Runs, CreateRun(n)
      PROVE  \/ pipe'[r] = pipe[r]
             \/ CreateRun(r) /\ pipe'[r] = await(r, NoPipeline)
  <2>1. pipe' = [pipe EXCEPT ![n] = await(n, NoPipeline)]
    BY <1>7 DEF CreateRun
  <2>2. CASE n = r
    BY <1>1, <1>7, <2>1, <2>2
  <2>3. CASE n # r
    BY <1>1, <2>1, <2>3
  <2> QED BY <2>2, <2>3
<1>8. \/ pipe' = pipe
      \/ \E q \in Runs : PipelineStep(q) \/ AdminCancel(q) \/ CreateRun(q)
      \/ \E c \in Cancels, q \in Runs : CancelRequested(c, q)
  BY DEF Next, StartRun, StartFails, RunAction, BeginStart,
         DeleteRun, CancelStep, CancelReleases, CancelReleaseFails, CancelFinishes,
         Disconnect, Subscribe
<1>9. \/ pipe'[r] = pipe[r]
      \/ pipe'[r] = await(r, NoPipeline) /\ CreateRun(r)
      \/ /\ pipe[r].pc = "queued" /\ pipe'[r] = throws(pipe[r], "RUN_ERROR")
         /\ \/ AdminCancel(r)
            \/ \E c \in Cancels : CancelRequested(c, r) /\ cancel'[c].run = r
  BY <1>2, <1>5, <1>6, <1>7, <1>8
<1> QED BY <1>2, <1>3, <1>9

LEMMA PipeOKStep ==
  ASSUME IInv, ResultsOK, Next, NEW r \in Runs
  PROVE  PipeOK(r)'
<1>1. /\ pipe \in [Runs -> Pipe] /\ pipe[r] \in Pipe /\ PipeOK(r)
      /\ written \in [Runs -> SUBSET (1..3)]
  BY DEF IInv, TypeOK, Pipe, ResultsOK
<1>2. \A q \in Pipe : q.pc \in {"none", "throwing", "settling", "done"} =>
        (pipe'[r] = q => PipeOK(r)')
  BY DEF PipeOK, Waiting
<1>3. \A err \in PipelineErrors \cup {"none"} :
        throws(pipe[r], err) \in Pipe /\ throws(pipe[r], err).pc = "throwing"
  BY <1>1 DEF throws, Pipe, PipePcs
<1>4. \A err \in PipelineErrors \cup {"none"} :
        pipe' = [pipe EXCEPT ![r] = throws(@, err)] => PipeOK(r)'
  BY <1>1, <1>2, <1>3
<1>5. ASSUME ~PipelineStep(r)
      PROVE  PipeOK(r)'
  <2>1. written'[r] = written[r] /\ (r \in library => r \in library')
    BY <1>5, PipeMoves
  <2>2. CASE pipe'[r] = pipe[r]
    BY <1>1, <2>1, <2>2 DEF PipeOK, StepOf
  <2>3. CASE pipe'[r] = await(r, NoPipeline)
    <3>1. NoPipeline \in Pipe /\ NoPipeline.step = 1 /\ ~NoPipeline.confirmed
          /\ NoPipeline.error = "none"
      BY RepairsAssumption DEF NoPipeline, Pipe, PipePcs
    <3>2. Steps(r)[1].awaits = "llm"
      BY StepKinds
    <3>3. /\ pipe'[r].pc = "confirming" /\ pipe'[r].step = 1
          /\ ~pipe'[r].confirmed /\ pipe'[r].error = "none"
      BY <2>3, <3>1, <3>2, AwaitFacts
    <3> QED BY <3>2, <3>3 DEF PipeOK, StepOf
  <2>4. CASE pipe'[r] = throws(pipe[r], "RUN_ERROR")
    BY <1>2, <1>3, <2>4 DEF PipelineErrors
  <2> QED BY <1>5, <2>2, <2>3, <2>4, PipeMoves
<1>6. CASE ConfirmReads(r) \/ ConfirmWrites(r)
  <2> DEFINE p == [pipe[r] EXCEPT !.confirmed = TRUE]
             q == await(r, p)
  <2>1. /\ p \in Pipe /\ p.step = pipe[r].step /\ p.confirmed = TRUE
        /\ p.error = pipe[r].error
    BY <1>1 DEF Pipe
  <2>2. pipe[r].pc \in {"confirming", "confirm_write"}
        /\ written' = written /\ library' = library
    BY <1>6 DEF ConfirmReads, ConfirmWrites
  <2>3. /\ Steps(r)[pipe[r].step].awaits = "llm" /\ ~pipe[r].confirmed
        /\ pipe[r].error = "none" /\ \A k \in 1..3 : k < pipe[r].step => k \in written[r]
        /\ pipe[r].step = 1
    BY <1>1, <2>2 DEF PipeOK, StepOf, Waiting
  <2>4. pipe' = [pipe EXCEPT ![r].pc = "confirm_write"] \/ pipe' = [pipe EXCEPT ![r] = q]
    BY <1>6 DEF ConfirmReads, ConfirmWrites
  <2>5. CASE pipe' = [pipe EXCEPT ![r].pc = "confirm_write"]
    <3>1. /\ pipe'[r].pc = "confirm_write" /\ pipe'[r].step = pipe[r].step
          /\ pipe'[r].confirmed = pipe[r].confirmed /\ pipe'[r].error = pipe[r].error
      BY <1>1, <2>5 DEF Pipe
    <3> QED BY <2>2, <2>3, <3>1 DEF PipeOK, StepOf, Waiting
  <2>6. CASE pipe' = [pipe EXCEPT ![r] = q]
    <3>1. pipe'[r] = q
      BY <1>1, <2>6
    <3> HIDE DEF p
    <3>2. /\ q.pc = "queued" /\ q.step = p.step /\ q.confirmed = p.confirmed
          /\ q.error = p.error
      BY <2>1, <2>3, AwaitFacts
    <3> HIDE DEF q
    <3> QED BY <2>1, <2>2, <2>3, <3>1, <3>2 DEF PipeOK, StepOf, Waiting
  <2> QED BY <2>4, <2>5, <2>6
<1>7. CASE SlotGranted(r)
  <2>1. /\ pipe[r].pc = "queued" /\ written' = written
        /\ pipe'[r].pc = "calling" /\ pipe'[r].step = pipe[r].step
        /\ pipe'[r].confirmed = pipe[r].confirmed /\ pipe'[r].error = pipe[r].error
    BY <1>1, <1>7 DEF SlotGranted, Pipe
  <2> QED BY <1>1, <2>1 DEF PipeOK, StepOf, Waiting
<1>8. CASE LibrarySaves(r)
  <2>1. /\ pipe[r].pc = "saving" /\ written' = written /\ r \in library'
        /\ pipe'[r].pc = "saved" /\ pipe'[r].step = pipe[r].step
        /\ pipe'[r].confirmed = pipe[r].confirmed /\ pipe'[r].error = pipe[r].error
    BY <1>1, <1>8 DEF LibrarySaves, Pipe
  <2> QED BY <1>1, <2>1 DEF PipeOK, StepOf, Waiting
<1>9. CASE AnswerInvalid(r)
  <2> DEFINE p == [pipe[r] EXCEPT !.repairs = @ + 1]
             q == await(r, p)
  <2>1. \/ pipe' = [pipe EXCEPT ![r] = throws(@, "RUN_ERROR")]
        \/ pipe' = [pipe EXCEPT ![r] = throws(@, "none")]
        \/ pipe[r].repairs # MaxRepairs /\ pipe' = [pipe EXCEPT ![r] = q]
    BY <1>9 DEF AnswerInvalid
  <2>2. CASE pipe[r].repairs # MaxRepairs /\ pipe' = [pipe EXCEPT ![r] = q]
    <3>1. pipe[r].repairs + 1 \in 0..MaxRepairs
      <4>1. pipe[r].repairs \in 0..MaxRepairs
        BY <1>1 DEF Pipe
      <4> QED BY <2>2, <4>1, RepairsAssumption
    <3>2. /\ p \in Pipe /\ p.step = pipe[r].step /\ p.confirmed = pipe[r].confirmed
          /\ p.error = pipe[r].error
      BY <1>1, <3>1 DEF Pipe
    <3>3. pipe'[r] = q
      BY <1>1, <2>2
    <3>4. pipe[r].pc = "calling" /\ written' = written
      BY <1>9 DEF AnswerInvalid
    <3>5. Steps(r)[pipe[r].step].awaits = "llm" /\ pipe[r].confirmed
      BY <1>1, <3>4 DEF PipeOK, StepOf
    <3> HIDE DEF p
    <3>6. /\ q.pc = "queued" /\ q.step = p.step /\ q.confirmed = p.confirmed
          /\ q.error = p.error
      BY <3>2, <3>5, AwaitFacts
    <3> HIDE DEF q
    <3> QED BY <1>1, <3>2, <3>3, <3>4, <3>5, <3>6 DEF PipeOK, StepOf, Waiting
  <2> QED BY <1>4, <2>1, <2>2 DEF PipelineErrors
<1>10. CASE AwaitFails(r)
  BY <1>4, <1>10 DEF AwaitFails
<1>11. CASE AwaitReturns(r)
  <2>1. ThrowsThen(r) \/ EndsThen(r) \/ GoesOn(r)
    BY <1>11, Returns
  <2>2. CASE ThrowsThen(r)
    BY <1>4, <2>2 DEF ThrowsThen
  <2>3. CASE EndsThen(r)
    <3>1. pipe'[r].pc = "settling"
      BY <1>1, <2>3 DEF EndsThen, Pipe
    <3> QED BY <3>1 DEF PipeOK, Waiting
  <2>4. CASE GoesOn(r)
    <3> DEFINE p == [pipe[r] EXCEPT !.step = @ + 1, !.repairs = 0]
               q == await(r, p)
    <3>1. pipe[r].step \in 1..3 /\ pipe[r].step # 3
      BY <1>1, <2>4, StepFacts DEF GoesOn, IsLastStep, Pipe
    <3>2. /\ p \in Pipe /\ p.step = pipe[r].step + 1
          /\ p.confirmed = pipe[r].confirmed /\ p.error = pipe[r].error
      <4>1. 0 \in 0..MaxRepairs /\ pipe[r].step + 1 \in 1..3
        BY <3>1, RepairsAssumption
      <4> QED BY <1>1, <4>1 DEF Pipe
    <3>3. /\ pipe'[r] = q /\ written'[r] = written[r] \cup {pipe[r].step}
      BY <1>1, <2>4 DEF GoesOn
    <3>4. pipe[r].pc \in {"calling", "rendering", "saved"} /\ library' = library
      BY <1>11 DEF AwaitReturns
    <3>5. /\ pipe[r].error = "none" /\ pipe[r].confirmed
          /\ \A k \in 1..3 : k < pipe[r].step => k \in written[r]
      <4>1. pipe[r].step = 1 => Steps(r)[pipe[r].step].awaits = "llm"
        BY StepKinds
      <4> QED BY <1>1, <3>4, <4>1 DEF PipeOK, StepOf, Waiting
    <3>6. \A k \in 1..3 : k < pipe[r].step + 1 => k \in written'[r]
      BY <3>1, <3>3, <3>5
    <3> HIDE DEF p
    <3>7. /\ q.step = p.step /\ q.confirmed = p.confirmed /\ q.error = p.error
          /\ LET kind == Steps(r)[p.step].awaits
             IN  \/ kind = "render" /\ q.pc = "rendering"
                 \/ kind = "save" /\ q.pc = "saving"
                 \/ kind = "llm" /\ q.pc = "queued"
      <4>1. p.confirmed
        BY <3>2, <3>5
      <4> QED BY <3>2, <4>1, AwaitFacts
    <3> HIDE DEF q
    <3> QED BY <3>2, <3>3, <3>5, <3>6, <3>7 DEF PipeOK, StepOf, Waiting
  <2> QED BY <2>1, <2>2, <2>3, <2>4
<1>12. CASE handleRunPipelineError(r) \/ Settle(r)
  <2>1. pipe'[r].pc \in {"settling", "done"}
    BY <1>1, <1>12 DEF handleRunPipelineError, Settle, Pipe
  <2> QED BY <2>1 DEF PipeOK, Waiting
<1> QED BY <1>5, <1>6, <1>7, <1>8, <1>9, <1>10, <1>11, <1>12 DEF PipelineStep

LEMMA CompletedOKStep ==
  ASSUME IInv, ResultsOK, Next, NEW r \in Runs
  PROVE  CompletedOK(r)'
<1> SUFFICES ASSUME record'[r].terminal, record'[r].status = "completed"
             PROVE  /\ written'[r] = 1..3
                    /\ Kind[r] = "document" => r \in library'
                    /\ pipe'[r].pc \in {"settling", "done"}
                    /\ pipe'[r].error = "none" /\ pipe'[r].confirmed
  BY DEF CompletedOK
<1>1. /\ pipe \in [Runs -> Pipe] /\ pipe[r] \in Pipe /\ PipeOK(r) /\ CompletedOK(r)
      /\ written \in [Runs -> SUBSET (1..3)] /\ written[r] \subseteq 1..3
  BY DEF IInv, TypeOK, Pipe, ResultsOK
<1>2. CASE record[r].terminal
  <2>1. record[r].status = "completed"
    BY <1>2, NextRecordStep DEF RecordStep, Evolves
  <2>2. /\ written[r] = 1..3 /\ (Kind[r] = "document" => r \in library)
        /\ pipe[r].pc \in {"settling", "done"}
        /\ pipe[r].error = "none" /\ pipe[r].confirmed
    BY <1>1, <1>2, <2>1 DEF CompletedOK
  <2>3. CASE PipelineStep(r)
    <3>1. Settle(r)
      BY <2>2, <2>3 DEF PipelineStep, ConfirmReads, ConfirmWrites, SlotGranted,
           LibrarySaves, AnswerInvalid, AwaitFails, AwaitReturns,
           handleRunPipelineError
    <3>2. /\ pipe'[r].pc = "done" /\ pipe'[r].error = pipe[r].error
          /\ pipe'[r].confirmed = pipe[r].confirmed
          /\ written' = written /\ library' = library
      BY <1>1, <3>1 DEF Settle, Pipe
    <3> QED BY <2>2, <3>2
  <2>4. CASE ~PipelineStep(r)
    <3>1. ~CreateRun(r)
      BY <2>2 DEF CreateRun, IInv, StartOK, isCreated
    <3>2. pipe'[r] = pipe[r] /\ written'[r] = written[r]
          /\ (r \in library => r \in library')
      BY <2>2, <2>4, <3>1, PipeMoves
    <3> QED BY <2>2, <3>2
  <2> QED BY <2>3, <2>4
<1>3. CASE ~record[r].terminal
  <2>1. AwaitReturns(r) /\ EndsThen(r) /\ library' = library
    BY <1>3, Closes
  <2>2. pipe[r].step = 3
    BY <2>1, StepFacts DEF EndsThen, IsLastStep
  <2>3. pipe[r].pc \in {"calling", "rendering", "saved"}
    BY <2>1 DEF AwaitReturns
  <2>4. /\ pipe[r].error = "none" /\ pipe[r].confirmed
        /\ \A k \in 1..3 : k < 3 => k \in written[r]
    BY <1>1, <2>2, <2>3 DEF PipeOK, Waiting
  <2>5. /\ pipe'[r].pc = "settling" /\ pipe'[r].error = pipe[r].error
        /\ pipe'[r].confirmed = pipe[r].confirmed
        /\ written'[r] = written[r] \cup {3}
    BY <1>1, <2>1, <2>2 DEF EndsThen, Pipe
  <2>6. written'[r] = 1..3
    <3>1. \A k \in 1..3 : k < 3 \/ k = 3
      OBVIOUS
    <3> QED BY <1>1, <2>4, <2>5, <3>1
  <2>7. Kind[r] = "document" => r \in library
    <3>1. Kind[r] = "document" => StepOf(r).awaits = "save"
      BY <2>2, StepKinds DEF StepOf
    <3> QED BY <1>1, <2>3, <3>1 DEF PipeOK
  <2> QED BY <2>1, <2>4, <2>5, <2>6, <2>7
<1> QED BY <1>2, <1>3

LEMMA InitResults == ASSUME Init PROVE ResultsOK
BY DEF Init, ResultsOK, PipeOK, CompletedOK, Waiting, NoPipeline, EmptyRecord

LEMMA ResultsStep == ASSUME IInv, ResultsOK, [Next]_vars PROVE ResultsOK'
<1>1. CASE Next
  BY <1>1, PipeOKStep, CompletedOKStep DEF ResultsOK
<1>2. CASE UNCHANGED vars
  BY <1>2 DEF vars, ResultsOK, PipeOK, CompletedOK, StepOf
<1> QED BY <1>1, <1>2

THEOREM ResultsInvariance == Spec => []ResultsOK
BY Invariance, InitResults, ResultsStep, PTL DEF Spec

\* Whatever is cancelled, repaired and retried meanwhile, a completed run has every
\* result of its pipeline, and a document run its document in the library.
THEOREM CompletedAlwaysHasArtifacts == Spec => []CompletedHasArtifacts
<1>1. ResultsOK => CompletedHasArtifacts
  BY StepKinds DEF ResultsOK, CompletedOK, CompletedHasArtifacts
<1> QED BY <1>1, ResultsInvariance, PTL

-----------------------------------------------------------------------------
(***************************************************************************)
(* The price.                                                              *)
(***************************************************************************)
\* A cancel request that has not been made is about no run.
IdleOK == \A c \in Cancels : cancel[c].pc = "idle" => cancel[c].run = NoRun

\* The provider is called once the pipeline has confirmed the credit; a refund is
\* that of a run that has failed.  As long as no cancel request releases the
\* credit, the ledger says what the pipeline knows.
ChargeOK(r) ==
  LET p == pipe[r]
  IN  /\ p.pc = "none" => ~p.confirmed
      /\ r \in called => p.confirmed
      /\ p.pc \in {"settling", "done"} /\ p.error # "none" =>
           record[r].terminal /\ record[r].status = "failed"
      /\ charge[r].refund =>
           charge[r].usage /\ record[r].terminal /\ record[r].status = "failed"
      /\ undisturbed(r) =>
           /\ charge[r].usage = p.confirmed
           /\ p.confirmed /\ r \notin called =>
                \/ p.pc = "queued"
                \/ record[r].terminal /\ record[r].status = "cancelled"
           /\ p.pc # "done" => ~charge[r].refund
           /\ p.pc # "done" /\ phase[r] # "unused" =>
                reservation[r] = IF p.confirmed THEN "confirmed" ELSE "reserved"
           /\ p.pc = "done" =>
                (charge[r].refund <=> p.error = "PLATFORM_PROVIDER" /\ p.confirmed)

ChargesOK == IdleOK /\ \A r \in Runs : ChargeOK(r)

LEMMA IdleStep ==
  ASSUME IInv, IdleOK, Next
  PROVE  /\ IdleOK'
         /\ \A r \in Runs : undisturbed(r)' => undisturbed(r)
<1>1. cancel \in [Cancels -> Cancel]
  BY DEF IInv, TypeOK, Cancel
<1>2. ASSUME NEW c \in Cancels, CancelStep(c)
      PROVE  /\ cancel'[c].run = cancel[c].run /\ cancel'[c].pc # "idle"
             /\ \A d \in Cancels \ {c} : cancel'[d] = cancel[d]
  BY <1>1, <1>2 DEF CancelStep, CancelReleases, CancelReleaseFails, CancelFinishes,
                    Cancel
<1>3. ASSUME NEW c \in Cancels, NEW r \in Runs, CancelRequested(c, r)
      PROVE  /\ cancel[c].pc = "idle" /\ cancel'[c].pc # "idle"
             /\ \A d \in Cancels \ {c} : cancel'[d] = cancel[d]
  BY <1>1, <1>3 DEF CancelRequested
<1>4. \/ cancel' = cancel
      \/ \E c \in Cancels : CancelStep(c) \/ \E r \in Runs : CancelRequested(c, r)
  <2>1. ASSUME NEW n \in Runs,
               \/ StartRun(n) \/ StartFails(n) \/ CreateRun(n)
               \/ \E src, action : RunAction(n, src, action)
        PROVE  cancel' = cancel
    BY <2>1 DEF StartRun, StartFails, CreateRun, RunAction, BeginStart
  <2>2. ASSUME NEW r \in Runs, PipelineStep(r) \/ AdminCancel(r) \/ DeleteRun(r)
        PROVE  cancel' = cancel
    BY <2>2 DEF PipelineStep, ConfirmReads, ConfirmWrites, SlotGranted, LibrarySaves,
                AnswerInvalid, AwaitFails, AwaitReturns, handleRunPipelineError,
                Settle, AdminCancel, DeleteRun
  <2>3. ASSUME NEW s \in Streams, Disconnect(s) \/ \E r \in Runs : Subscribe(s, r)
        PROVE  cancel' = cancel
    BY <2>3 DEF Disconnect, Subscribe
  <2> QED BY <2>1, <2>2, <2>3 DEF Next
<1>5. CASE cancel' = cancel
  BY <1>5 DEF IdleOK, undisturbed
<1>6. ASSUME NEW c \in Cancels, CancelStep(c)
      PROVE  IdleOK' /\ \A r \in Runs : undisturbed(r)' => undisturbed(r)
  BY <1>2, <1>6 DEF IdleOK, undisturbed
<1>7. ASSUME NEW c \in Cancels, NEW q \in Runs, CancelRequested(c, q)
      PROVE  IdleOK' /\ \A r \in Runs : undisturbed(r)' => undisturbed(r)
  <2>1. /\ cancel[c].run = NoRun /\ cancel'[c].pc # "idle"
        /\ \A d \in Cancels \ {c} : cancel'[d] = cancel[d]
    BY <1>3, <1>7 DEF IdleOK
  <2> QED BY <2>1, NoRunAssumption DEF IdleOK, undisturbed
<1> QED BY <1>4, <1>5, <1>6, <1>7

\* Who else touches the credit of a run: the route that starts it, and cancel
\* requests about it.
LEMMA CreditElsewhere ==
  ASSUME IInv, Next, NEW r \in Runs, ~PipelineStep(r)
  PROVE  /\ charge'[r] = charge[r]
         /\ undisturbed(r) =>
              \/ reservation'[r] = reservation[r]
                 /\ (phase'[r] # "unused" => phase[r] # "unused")
              \/ reservation'[r] = "reserved" /\ pipe[r].pc = "none"
<1>1. /\ reservation \in [Runs -> {"none", "reserved", "confirmed", "released"}]
      /\ charge \in [Runs -> [usage : BOOLEAN, refund : BOOLEAN]]
      /\ phase \in [Runs -> Phases]
  BY DEF IInv, TypeOK
<1>2. ASSUME NEW q \in Runs, PipelineStep(q)
      PROVE  /\ charge'[r] = charge[r] /\ reservation'[r] = reservation[r]
             /\ phase' = phase
  <2>1. q # r
    BY <1>2
  <2> QED BY <1>1, <1>2, <2>1
          DEF PipelineStep, ConfirmReads, ConfirmWrites, SlotGranted, LibrarySaves,
              AnswerInvalid, AwaitFails, AwaitReturns, handleRunPipelineError, Settle,
              releaseRunUsage, compensateRunUsage
<1>3. ASSUME NEW c \in Cancels, CancelReleases(c)
      PROVE  /\ charge'[r] = charge[r] /\ phase' = phase
             /\ undisturbed(r) => reservation'[r] = reservation[r]
  BY <1>1, <1>3 DEF CancelReleases, releaseRunUsage, undisturbed
<1>4. ASSUME NEW n \in Runs, NEW src, BeginStart(n, src)
      PROVE  /\ charge'[r] = charge[r]
             /\ \/ reservation'[r] = reservation[r] /\ phase'[r] = phase[r]
                \/ reservation'[r] = "reserved" /\ pipe[r].pc = "none"
  <2>1. phase[n] = "unused" /\ charge' = charge
        /\ reservation' = [reservation EXCEPT ![n] = "reserved"]
        /\ phase' = [phase EXCEPT ![n] = "starting"]
    BY <1>4 DEF BeginStart
  <2>2. pipe[n].pc = "none"
    BY <2>1 DEF IInv, StartOK, isCreated
  <2>3. CASE n = r
    BY <1>1, <2>1, <2>2, <2>3
  <2>4. CASE n # r
    BY <1>1, <2>1, <2>4
  <2> QED BY <2>3, <2>4
<1>5. \/ \E q \in Runs : PipelineStep(q)
      \/ \E c \in Cancels : CancelReleases(c)
      \/ \E n \in Runs : \E src : BeginStart(n, src)
      \/ reservation' = reservation /\ charge' = charge
         /\ \/ phase' = phase
            \/ \E n \in Runs : phase[n] # "unused"
                               /\ \E p \in Phases : phase' = [phase EXCEPT ![n] = p]
  BY DEF Next, StartRun, StartFails, CreateRun, RunAction, AdminCancel, DeleteRun,
         CancelStep, CancelReleaseFails, CancelFinishes, CancelRequested, Disconnect,
         Subscribe, Phases
<1>6. CASE reservation' = reservation /\ charge' = charge
           /\ \/ phase' = phase
              \/ \E n \in Runs : phase[n] # "unused"
                                 /\ \E p \in Phases : phase' = [phase EXCEPT ![n] = p]
  BY <1>1, <1>6
<1> QED BY <1>2, <1>3, <1>4, <1>5, <1>6

\* A pipeline's step that leaves its credit alone.
LEMMA Onward ==
  ASSUME IInv, NEW r \in Runs, ChargeOK(r), Evolves(record[r], record'[r]),
         phase' = phase, cancel' = cancel, reservation' = reservation, charge' = charge,
         r \in called => r \in called',
         r \in called' => pipe'[r].confirmed,
         pipe'[r].confirmed = pipe[r].confirmed,
         pipe[r].pc # "done",
         pipe[r].pc = "queued" => r \in called',
         pipe'[r].pc \notin {"none", "done"},
         pipe'[r].pc = "settling" /\ pipe'[r].error # "none" =>
           record'[r].terminal /\ record'[r].status = "failed"
  PROVE  ChargeOK(r)'
<1>1. record[r].terminal =>
        record'[r].terminal /\ record'[r].status = record[r].status
  BY DEF Evolves
<1> QED BY <1>1 DEF ChargeOK, undisturbed

\* The pipeline stands still, starts, or loses its queued call to a cancellation.
LEMMA ChargeElsewhere ==
  ASSUME IInv, ResultsOK, ChargesOK, Next, NEW r \in Runs, ~PipelineStep(r)
  PROVE  ChargeOK(r)'
<1>1. /\ ChargeOK(r) /\ PipeOK(r) /\ pipe[r] \in Pipe
      /\ undisturbed(r)' => undisturbed(r)
      /\ Evolves(record[r], record'[r])
  BY IdleStep, NextRecordStep DEF ChargesOK, ResultsOK, RecordStep, IInv, TypeOK, Pipe
<1>2. /\ charge'[r] = charge[r]
      /\ undisturbed(r) =>
           \/ reservation'[r] = reservation[r]
              /\ (phase'[r] # "unused" => phase[r] # "unused")
           \/ reservation'[r] = "reserved" /\ pipe[r].pc = "none"
      /\ r \in called' <=> r \in called
  BY CreditElsewhere, PipeMoves
<1>3. record[r].terminal =>
        record'[r].terminal /\ record'[r].status = record[r].status
  BY <1>1 DEF Evolves
<1>4. CASE pipe'[r] = pipe[r]
  BY <1>1, <1>2, <1>3, <1>4 DEF ChargeOK
<1>5. CASE pipe'[r] = await(r, NoPipeline) /\ CreateRun(r)
  <2>1. /\ NoPipeline \in Pipe /\ NoPipeline.step = 1 /\ NoPipeline.confirmed = FALSE
        /\ Steps(r)[1].awaits = "llm"
    BY RepairsAssumption, StepKinds DEF NoPipeline, Pipe, PipePcs
  <2>2. pipe'[r].pc = "confirming" /\ pipe'[r].confirmed = FALSE
    BY <1>5, <2>1, AwaitFacts
  <2>3. pipe[r].pc = "none" /\ phase[r] # "unused"
    BY <1>5 DEF CreateRun, IInv, StartOK, isCreated
  <2>4. reservation' = reservation
    BY <1>5 DEF CreateRun
  <2>5. pipe[r].confirmed = FALSE /\ r \notin called
    BY <1>1, <2>3 DEF ChargeOK, Pipe
  <2>6. undisturbed(r) => charge[r].usage = FALSE /\ reservation[r] = "reserved"
    BY <1>1, <2>3, <2>5 DEF ChargeOK
  <2> QED BY <1>1, <1>2, <1>3, <2>2, <2>3, <2>4, <2>5, <2>6 DEF ChargeOK
<1>6. CASE /\ pipe[r].pc = "queued" /\ pipe'[r] = throws(pipe[r], "RUN_ERROR")
           /\ \/ AdminCancel(r)
              \/ \E c \in Cancels : CancelRequested(c, r) /\ cancel'[c].run = r
  <2>1. pipe'[r].pc = "throwing" /\ pipe'[r].confirmed = pipe[r].confirmed
    BY <1>1, <1>6 DEF throws, Pipe
  <2>2. pipe[r].confirmed /\ pipe[r].pc = "queued"
    BY <1>1, <1>6 DEF PipeOK
  <2>3. phase[r] # "unused"
    BY <2>2 DEF IInv, StartOK, isCreated
  <2>4. CASE AdminCancel(r)
    <3>1. /\ ~record[r].terminal /\ Update(r, cancelRunRecord(record[r]))
          /\ RecordOK(record[r]) /\ record \in [Runs -> RunRecord]
      BY <2>4 DEF AdminCancel, IInv, RecordsOK, TypeOK
    <3>2. record'[r] = cancelRunRecord(record[r])
      BY <3>1 DEF Update
    <3>3. record'[r].terminal /\ record'[r].status = "cancelled"
      BY <3>1, <3>2, CancelStatus, CancelEvolves
    <3> QED BY <1>1, <1>2, <1>3, <2>1, <2>2, <2>3, <3>3 DEF ChargeOK
  <2>5. CASE \E c \in Cancels : CancelRequested(c, r) /\ cancel'[c].run = r
    <3>1. ~undisturbed(r)'
      BY <2>5 DEF undisturbed
    <3> QED BY <1>1, <1>2, <1>3, <2>1, <2>2, <3>1 DEF ChargeOK
  <2> QED BY <1>6, <2>4, <2>5
<1> QED BY <1>4, <1>5, <1>6, PipeMoves

\* The confirmation of the credit.
LEMMA ConfirmCharges ==
  ASSUME IInv, ResultsOK, ChargesOK, Next, NEW r \in Runs,
         ConfirmReads(r) \/ ConfirmWrites(r)
  PROVE  ChargeOK(r)'
<1> DEFINE p == [pipe[r] EXCEPT !.confirmed = TRUE]
           q == await(r, p)
<1>1. /\ ChargeOK(r) /\ PipeOK(r) /\ pipe \in [Runs -> Pipe] /\ pipe[r] \in Pipe
      /\ Evolves(record[r], record'[r])
      /\ reservation \in [Runs -> {"none", "reserved", "confirmed", "released"}]
      /\ charge \in [Runs -> [usage : BOOLEAN, refund : BOOLEAN]]
  BY NextRecordStep DEF ChargesOK, ResultsOK, RecordStep, IInv, TypeOK, Pipe
<1>2. /\ pipe[r].pc \in {"confirming", "confirm_write"}
      /\ phase' = phase /\ cancel' = cancel /\ called' = called /\ record' = record
  BY DEF ConfirmReads, ConfirmWrites, KeepRecords
<1>3. /\ Steps(r)[pipe[r].step].awaits = "llm" /\ ~pipe[r].confirmed
      /\ pipe[r].error = "none" /\ r \notin called
  BY <1>1, <1>2 DEF PipeOK, StepOf, Waiting, ChargeOK
<1>4. phase[r] # "unused"
  BY <1>2 DEF IInv, StartOK, isCreated
<1>5. q.pc = "queued" /\ q.confirmed
  <2>1. p \in Pipe /\ p.step = pipe[r].step /\ p.confirmed = TRUE
    BY <1>1 DEF Pipe
  <2> HIDE DEF p
  <2> QED BY <1>3, <2>1, AwaitFacts
<1> HIDE DEF q
<1>6. CASE ConfirmReads(r) /\ reservation[r] = "reserved"
  <2>1. pipe' = [pipe EXCEPT ![r].pc = "confirm_write"]
        /\ reservation' = reservation /\ charge' = charge
    BY <1>1, <1>6 DEF ConfirmReads
  <2>2. pipe'[r].pc = "confirm_write" /\ pipe'[r].confirmed = pipe[r].confirmed
    BY <1>1, <2>1 DEF Pipe
  <2> QED BY <1>1, <1>2, <1>3, <2>1, <2>2 DEF ChargeOK, undisturbed
<1>7. CASE ConfirmReads(r) /\ reservation[r] # "reserved"
  <2>1. pipe' = [pipe EXCEPT ![r] = q] /\ reservation' = reservation /\ charge' = charge
    BY <1>1, <1>7 DEF ConfirmReads, q, p
  <2>2. pipe'[r] = q
    BY <1>1, <2>1
  <2>3. ~undisturbed(r)'
    BY <1>1, <1>2, <1>3, <1>4, <1>7 DEF ChargeOK, undisturbed
  <2> QED BY <1>1, <1>2, <1>3, <1>5, <2>1, <2>2, <2>3 DEF ChargeOK
<1>8. CASE ConfirmWrites(r)
  <2>1. /\ pipe' = [pipe EXCEPT ![r] = q]
        /\ charge' = [charge EXCEPT ![r].usage = TRUE]
        /\ reservation' = [reservation EXCEPT ![r] =
                             IF @ = "reserved" THEN "confirmed" ELSE @]
    BY <1>8 DEF ConfirmWrites, q, p
  <2>2. /\ pipe'[r] = q
        /\ charge'[r].usage = TRUE /\ charge'[r].refund = charge[r].refund
        /\ reservation[r] = "reserved" => reservation'[r] = "confirmed"
    BY <1>1, <2>1
  <2> QED BY <1>1, <1>2, <1>3, <1>4, <1>5, <2>2 DEF ChargeOK, undisturbed
<1> QED BY <1>6, <1>7, <1>8

\* The starter's last step, which may refund.
LEMMA SettleCharges ==
  ASSUME IInv, ChargesOK, NoReservationLeftBehind, NEW r \in Runs, Settle(r)
  PROVE  ChargeOK(r)'
<1>1. /\ ChargeOK(r) /\ pipe \in [Runs -> Pipe] /\ pipe[r] \in Pipe
      /\ reservation \in [Runs -> {"none", "reserved", "confirmed", "released"}]
      /\ charge \in [Runs -> [usage : BOOLEAN, refund : BOOLEAN]]
  BY DEF ChargesOK, IInv, TypeOK, Pipe
<1>2. /\ pipe[r].pc = "settling" /\ pipe' = [pipe EXCEPT ![r].pc = "done"]
      /\ phase' = phase /\ cancel' = cancel /\ called' = called /\ record' = record
  BY DEF Settle, KeepRecords
<1>3. /\ pipe'[r].pc = "done" /\ pipe'[r].confirmed = pipe[r].confirmed
      /\ pipe'[r].error = pipe[r].error
  BY <1>1, <1>2 DEF Pipe
<1>4. phase[r] # "unused"
  BY <1>2 DEF IInv, StartOK, isCreated
<1>5. CASE pipe[r].error = "PLATFORM_PROVIDER"
  <2>1. charge' = [charge EXCEPT ![r].refund = @ \/ reservation[r] = "confirmed"]
    BY <1>5 DEF Settle, compensateRunUsage
  <2>2. /\ charge'[r].usage = charge[r].usage
        /\ charge'[r].refund <=> charge[r].refund \/ reservation[r] = "confirmed"
    BY <1>1, <2>1
  <2>3. reservation[r] = "confirmed" => charge[r].usage
    BY DEF NoReservationLeftBehind
  <2>4. record[r].terminal /\ record[r].status = "failed"
    BY <1>1, <1>2, <1>5 DEF ChargeOK
  <2> QED BY <1>1, <1>2, <1>3, <1>4, <1>5, <2>2, <2>3, <2>4 DEF ChargeOK, undisturbed
<1>6. CASE pipe[r].error # "PLATFORM_PROVIDER"
  <2>1. charge' = charge
    BY <1>6 DEF Settle, releaseRunUsage
  <2> QED BY <1>1, <1>2, <1>3, <1>6, <2>1 DEF ChargeOK, undisturbed
<1> QED BY <1>5, <1>6

\* A failure of any record leaves it closed.
LEMMA FailEvolves ==
  ASSUME NEW rec, RecordOK(rec), NEW err \in RunErrors
  PROVE  Evolves(rec, failRun(rec, err)) /\ failRun(rec, err).terminal
<1>1. "failed" \in TerminalEvents
  BY DEF TerminalEvents
<1>2. LET new == emitEvent([rec EXCEPT !.status = "failed", !.error = err], "failed")
      IN  Evolves(rec, new) /\ new.terminal
  BY <1>1, EndEvolves, Zenon
<1> QED BY <1>2 DEF failRun

\* Everything else a pipeline does is Onward.
LEMMA OnwardCharges ==
  ASSUME IInv, ResultsOK, ChargesOK, Next, NEW r \in Runs,
         \/ SlotGranted(r) \/ LibrarySaves(r) \/ AnswerInvalid(r) \/ AwaitFails(r)
         \/ AwaitReturns(r) \/ handleRunPipelineError(r)
  PROVE  ChargeOK(r)'
<1>1. /\ ChargeOK(r) /\ PipeOK(r) /\ pipe \in [Runs -> Pipe] /\ pipe[r] \in Pipe
      /\ Evolves(record[r], record'[r])
  BY NextRecordStep DEF ChargesOK, ResultsOK, RecordStep, IInv, TypeOK, Pipe
<1>2. UNCHANGED <<phase, cancel, reservation, charge>>
  BY DEF SlotGranted, LibrarySaves, AnswerInvalid, AwaitFails, AwaitReturns,
         handleRunPipelineError
<1>3. r \in called => pipe[r].confirmed
  BY <1>1 DEF ChargeOK
<1>4. /\ pipe[r].pc # "done"
      /\ pipe[r].pc = "queued" => r \in called'
      /\ r \in called => r \in called'
      /\ r \in called' => pipe[r].confirmed
  BY <1>1, <1>3 DEF SlotGranted, LibrarySaves, AnswerInvalid, AwaitFails, AwaitReturns,
                    handleRunPipelineError, PipeOK
<1>5. ASSUME NEW q \in Pipe, pipe'[r] = q, q.confirmed = pipe[r].confirmed,
             q.pc \notin {"none", "done", "settling"}
      PROVE  ChargeOK(r)'
  BY <1>1, <1>2, <1>4, <1>5, Onward
<1>6. ASSUME NEW err \in PipelineErrors \cup {"none"}, pipe'[r] = throws(pipe[r], err)
      PROVE  ChargeOK(r)'
  <2>1. /\ throws(pipe[r], err) \in Pipe
        /\ throws(pipe[r], err).confirmed = pipe[r].confirmed
        /\ throws(pipe[r], err).pc = "throwing"
    BY <1>1 DEF throws, Pipe, PipePcs
  <2> QED BY <1>5, <1>6, <2>1
<1>7. ASSUME NEW p \in Pipe, p.confirmed = pipe[r].confirmed, pipe'[r] = await(r, p)
      PROVE  ChargeOK(r)'
  <2>1. await(r, p).confirmed = pipe[r].confirmed
    BY <1>7, AwaitFacts
  <2>2. await(r, p).pc \in {"rendering", "saving", "queued", "confirming"}
    BY <1>7, AwaitFacts DEF Pipe
  <2>3. await(r, p) \in Pipe
    BY <1>7, AwaitType
  <2> QED BY <1>5, <1>7, <2>1, <2>2, <2>3
<1>8. CASE SlotGranted(r) \/ LibrarySaves(r)
  <2> DEFINE pc == IF SlotGranted(r) THEN "calling" ELSE "saved"
  <2>1. pc \in {"calling", "saved"}
    OBVIOUS
  <2>2. pipe' = [pipe EXCEPT ![r].pc = pc]
    BY <1>8 DEF SlotGranted, LibrarySaves
  <2> HIDE DEF pc
  <2>3. /\ [pipe[r] EXCEPT !.pc = pc] \in Pipe
        /\ [pipe[r] EXCEPT !.pc = pc].confirmed = pipe[r].confirmed
        /\ [pipe[r] EXCEPT !.pc = pc].pc = pc
        /\ pipe'[r] = [pipe[r] EXCEPT !.pc = pc]
    BY <1>1, <2>1, <2>2 DEF Pipe, PipePcs
  <2> QED BY <1>5, <2>1, <2>3
<1>9. CASE AnswerInvalid(r)
  <2> DEFINE p == [pipe[r] EXCEPT !.repairs = @ + 1]
  <2>1. \/ pipe' = [pipe EXCEPT ![r] = throws(@, "RUN_ERROR")]
        \/ pipe' = [pipe EXCEPT ![r] = throws(@, "none")]
        \/ pipe[r].repairs # MaxRepairs /\ pipe' = [pipe EXCEPT ![r] = await(r, p)]
    BY <1>9 DEF AnswerInvalid
  <2>2. CASE pipe[r].repairs # MaxRepairs /\ pipe' = [pipe EXCEPT ![r] = await(r, p)]
    <3>1. pipe[r].repairs + 1 \in 0..MaxRepairs
      <4>1. pipe[r].repairs \in 0..MaxRepairs
        BY <1>1 DEF Pipe
      <4> QED BY <2>2, <4>1, RepairsAssumption
    <3>2. p \in Pipe /\ p.confirmed = pipe[r].confirmed
      BY <1>1, <3>1 DEF Pipe
    <3>3. pipe'[r] = await(r, p)
      BY <1>1, <2>2
    <3> HIDE DEF p
    <3> QED BY <1>7, <3>2, <3>3
  <2>3. \A err : pipe' = [pipe EXCEPT ![r] = throws(@, err)] =>
          pipe'[r] = throws(pipe[r], err)
    BY <1>1
  <2> QED BY <1>6, <2>1, <2>2, <2>3 DEF PipelineErrors
<1>10. CASE AwaitFails(r)
  <2>1. PICK err \in PipelineErrors : pipe' = [pipe EXCEPT ![r] = throws(@, err)]
    BY <1>10 DEF AwaitFails
  <2>2. pipe'[r] = throws(pipe[r], err)
    BY <1>1, <2>1
  <2> QED BY <1>6, <2>2
<1>11. CASE AwaitReturns(r)
  <2>1. CASE ThrowsThen(r)
    <3>1. pipe'[r] = throws(pipe[r], "none")
      BY <1>1, <2>1 DEF ThrowsThen
    <3> QED BY <1>6, <3>1
  <2>2. CASE EndsThen(r)
    <3>1. pipe[r].error = "none"
      BY <1>1, <1>11 DEF AwaitReturns, PipeOK, Waiting
    <3>2. /\ pipe'[r].pc = "settling" /\ pipe'[r].error = "none"
          /\ pipe'[r].confirmed = pipe[r].confirmed
      BY <1>1, <2>2, <3>1 DEF EndsThen, Pipe
    <3> QED BY <1>1, <1>2, <1>4, <3>2, Onward
  <2>3. CASE GoesOn(r)
    <3> DEFINE p == [pipe[r] EXCEPT !.step = @ + 1, !.repairs = 0]
    <3>1. pipe[r].step + 1 \in 1..3
      <4>1. pipe[r].step \in 1..3 /\ pipe[r].step # 3
        BY <1>1, <2>3, StepFacts DEF GoesOn, IsLastStep, Pipe
      <4> QED BY <4>1
    <3>2. p \in Pipe /\ p.confirmed = pipe[r].confirmed
      <4>1. 0 \in 0..MaxRepairs
        BY RepairsAssumption
      <4> QED BY <1>1, <3>1, <4>1 DEF Pipe
    <3>3. pipe'[r] = await(r, p)
      BY <1>1, <2>3 DEF GoesOn
    <3> HIDE DEF p
    <3> QED BY <1>7, <3>2, <3>3
  <2> QED BY <1>11, <2>1, <2>2, <2>3, Returns
<1>12. CASE handleRunPipelineError(r)
  <2>1. CASE pipe[r].error = "none" \/ isRunCancelled(record[r])
    <3>1. pipe' = [pipe EXCEPT ![r].pc = "settling", ![r].error = "none"]
      BY <1>12, <2>1 DEF handleRunPipelineError
    <3>2. /\ pipe'[r].pc = "settling" /\ pipe'[r].error = "none"
          /\ pipe'[r].confirmed = pipe[r].confirmed
      BY <1>1, <3>1 DEF Pipe
    <3> QED BY <1>1, <1>2, <1>4, <3>2, Onward
  <2>2. CASE ~(pipe[r].error = "none" \/ isRunCancelled(record[r]))
    <3>1. /\ pipe' = [pipe EXCEPT ![r].pc = "settling"]
          /\ Update(r, failRun(record[r], pipe[r].error))
      BY <1>12, <2>2 DEF handleRunPipelineError
    <3>2. pipe'[r].pc = "settling" /\ pipe'[r].confirmed = pipe[r].confirmed
      BY <1>1, <3>1 DEF Pipe
    <3>3. /\ RecordOK(record[r]) /\ ~record[r].terminal
          /\ pipe[r].error \in RunErrors /\ "failed" \in TerminalEvents
      BY <1>1, <2>2 DEF isRunCancelled, IInv, RecordsOK, Pipe, RunErrors, TerminalEvents
    <3>4. /\ failRun(record[r], pipe[r].error).status = "failed"
          /\ failRun(record[r], pipe[r].error).terminal
      <4>1. failRun(record[r], pipe[r].error).status = "failed"
        BY <3>3, FailStatus
      <4>2. failRun(record[r], pipe[r].error).terminal
        BY <3>3, FailEvolves
      <4> QED BY <4>1, <4>2
    <3>5. record'[r] = failRun(record[r], pipe[r].error)
      BY <3>1 DEF Update, IInv, TypeOK
    <3> QED BY <1>1, <1>2, <1>4, <3>2, <3>4, <3>5, Onward
  <2> QED BY <2>1, <2>2
<1> QED BY <1>8, <1>9, <1>10, <1>11, <1>12

LEMMA InitCharges == ASSUME Init PROVE ChargesOK
BY DEF Init, ChargesOK, IdleOK, ChargeOK, NoPipeline, EmptyRecord

LEMMA ChargesStep ==
  ASSUME IInv, ResultsOK, NoReservationLeftBehind, ChargesOK, [Next]_vars
  PROVE  ChargesOK'
<1>1. CASE Next
  <2>1. IdleOK'
    BY <1>1, IdleStep DEF ChargesOK
  <2>2. ASSUME NEW r \in Runs
        PROVE  ChargeOK(r)'
    <3>1. CASE PipelineStep(r)
      BY <1>1, <3>1, ConfirmCharges, SettleCharges, OnwardCharges DEF PipelineStep
    <3>2. CASE ~PipelineStep(r)
      BY <1>1, <3>2, ChargeElsewhere
    <3> QED BY <3>1, <3>2
  <2> QED BY <2>1, <2>2 DEF ChargesOK
<1>2. CASE UNCHANGED vars
  BY <1>2 DEF vars, ChargesOK, IdleOK, ChargeOK, undisturbed
<1> QED BY <1>1, <1>2

THEOREM ChargesInvariance == Spec => []ChargesOK
BY Invariance, ResultsInvariance, NothingLeftReserved, InitCharges, ChargesStep, PTL
   DEF Spec

\* Whoever fails, repairs or closes the run in between: a refund is paid only for what
\* was charged, and a run no user asked to cancel is charged exactly for a provider
\* that was called, once if it completed and not at all if the provider failed.
THEOREM PriceAlwaysFair == Spec => []FairPrice
<1>1. ASSUME IInv, ResultsOK, ChargesOK
      PROVE  FairPrice
  <2> SUFFICES ASSUME NEW r \in Runs
               PROVE  /\ charge[r].refund => charge[r].usage /\ record[r].status = "failed"
                      /\ undisturbed(r) /\ pipe[r].pc = "done" =>
                           /\ record[r].status # "cancelled" =>
                                (charge[r].usage <=> r \in called)
                           /\ record[r].status = "completed" =>
                                charge[r].usage /\ ~charge[r].refund
                           /\ pipe[r].error = "PLATFORM_PROVIDER" =>
                                charge[r].usage = charge[r].refund
    BY DEF FairPrice
  <2>1. /\ ChargeOK(r) /\ CompletedOK(r) /\ RecordOK(record[r]) /\ pipe[r] \in Pipe
        /\ charge[r] \in [usage : BOOLEAN, refund : BOOLEAN]
    BY <1>1 DEF ResultsOK, ChargesOK, IInv, RecordsOK, TypeOK, Pipe
  <2>2. record[r].status = "completed" => record[r].terminal
    BY <2>1 DEF RecordOK, LogOK
  <2> QED BY <2>1, <2>2 DEF ChargeOK, CompletedOK, Pipe
<1> QED BY <1>1, Invariance, ResultsInvariance, ChargesInvariance, PTL
=============================================================================
