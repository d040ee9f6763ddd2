--------------------------- MODULE RunQueueProofs ---------------------------
(***************************************************************************)
(* Theorems about RunQueue, for every number of crashes of the worker.     *)
(***************************************************************************)
EXTENDS RunQueueHistory, RunRecordLemmas

\* A record as a process of RunQueue may hold it: open and consistent, or
\* closed, by one event at most; onCancelRun closes it without one.
Sound(r) ==
  /\ r \in RunRecord
  /\ ~r.terminal => RecordOK(r)
  /\ \A i, j \in Ends(r.events) : i = j

\* What the row and its snapshot say of an end is dated.
Dated ==
  /\ row.status \in TerminalEvents => row.completedAt
  /\ row.snapshot \in TerminalEvents => row.completedAt

\* The route goes on with a record it read as open.
CancelOpen ==
  cancel.step \in {"read", "removed", "published"} => ~cancel.rec.terminal

CancelRecords ==
  [step : {"new", "read", "removed", "published", "cancelled", "refused"},
   rec : RunRecord]

\* The route removes the job once.
NotRemoved == cancel.step \in {"new", "read", "refused"} => job # "removed"

IInv ==
  /\ TypeOK /\ cancel \in CancelRecords
  /\ Sound(rec) /\ Sound(cancel.rec)
  /\ Dated /\ CancelOpen /\ NotRemoved

-----------------------------------------------------------------------------
\* The records processes start from.
LEMMA PayloadOK == RecordOK(EmptyRecord) /\ RecordOK(Payload)
                   /\ ~EmptyRecord.terminal /\ ~Payload.terminal
                   /\ Payload.events = <<"queued">>
<1>1. "queued" \in Events \ TerminalEvents
  BY DEF Events, TerminalEvents
<1>2. ~EmptyRecord.terminal /\ EmptyRecord.events = <<>>
  BY DEF EmptyRecord
<1>3. Payload = [EmptyRecord EXCEPT !.events = Append(<<>>, "queued"),
                                    !.terminal = FALSE]
  BY <1>1, <1>2 DEF Payload, emitEvent, isTerminalRunEvent, EmptyRecord
<1>4. Payload.events = <<"queued">>
  BY <1>3 DEF EmptyRecord
<1> QED BY <1>1, <1>2, <1>4, EmptyOK, EmitProgress DEF Payload, Evolves

\* A consistent record is sound.
LEMMA OKSound ==
  ASSUME NEW r, RecordOK(r)
  PROVE  Sound(r)
BY DEF RecordOK, LogOK, Sound

\* A status that tells of an end is that of a closed record.
LEMMA OpenStatus ==
  ASSUME NEW r, Sound(r), r.status \in TerminalEvents
  PROVE  r.terminal
BY DEF Sound, RecordOK, TerminalEvents

\* What is saved of a sound record is a row, its end is dated, and a date the
\* row had is kept.
LEMMA SavedOK ==
  ASSUME NEW r, Sound(r), NEW e \in Events \cup {"none", "loaded"}, TypeOK
  PROVE  LET new == saved(r, e)
         IN  /\ new \in [status : Statuses, snapshot : Statuses,
                         completedAt : BOOLEAN]
             /\ new.status \in TerminalEvents => new.completedAt
             /\ new.snapshot \in TerminalEvents => new.completedAt
             /\ row.completedAt => new.completedAt
<1>1. CASE e = "loaded"
  BY <1>1 DEF saved, Statuses, TerminalEvents
<1>2. CASE e # "loaded"
  <2>1. /\ r.status \in Statuses /\ r.terminal \in BOOLEAN
        /\ r.events \in Seq(Events) /\ r \in RunRecord
        /\ row.completedAt \in BOOLEAN
    BY DEF Sound, RunRecord, TypeOK
  <2>2. HasTerminalEvent(r.events) =>
          /\ r.terminal
          /\ restoreRecordedTerminalStatus(r).status \in TerminalEvents
    <3> SUFFICES ASSUME HasTerminalEvent(r.events)
                 PROVE  /\ r.terminal
                        /\ restoreRecordedTerminalStatus(r).status \in TerminalEvents
      OBVIOUS
    <3>1. PICK i \in Ends(r.events) : TRUE
      BY DEF HasTerminalEvent, Ends
    <3>2. r.terminal
      BY <3>1 DEF Sound, RecordOK, LogOK
    <3>3. /\ i \in DOMAIN r.events /\ isTerminalRunEvent(r.events[i])
          /\ \A j \in DOMAIN r.events : isTerminalRunEvent(r.events[j]) => j = i
      BY <3>1 DEF Sound, Ends
    <3>4. FirstTerminal(r.events) = i
      BY <2>1, <3>3 DEF FirstTerminal
    <3>5. restoreRecordedTerminalStatus(r) = [r EXCEPT !.status = r.events[i]]
      BY <3>4 DEF restoreRecordedTerminalStatus
    <3> QED BY <2>1, <3>2, <3>3, <3>5 DEF isTerminalRunEvent, RunRecord
  <2>3. persistedStatus(r, e) \in Statuses
    BY <2>1, <2>2 DEF persistedStatus, isTerminalRunEvent, Statuses,
                      restoreRecordedTerminalStatus
  <2>4. persistedStatus(r, e) \in TerminalEvents => r.terminal \/ isTerminalRunEvent(e)
    BY <2>2, OpenStatus DEF persistedStatus, restoreRecordedTerminalStatus
  <2>5. isTerminalRunEvent(e) \in BOOLEAN
    BY DEF isTerminalRunEvent
  <2>6. saved(r, e) =
          [status |-> persistedStatus(r, e), snapshot |-> r.status,
           completedAt |-> r.terminal \/ isTerminalRunEvent(e) \/ row.completedAt]
    BY <1>2 DEF saved
  <2> QED BY <2>1, <2>3, <2>4, <2>5, <2>6, OpenStatus
<1> QED BY <1>1, <1>2

\* What the worker emits on an open record.
LEMMA EmitsOK ==
  ASSUME TypeOK, Sound(rec), NEW new, Evolves(rec, new) \/ new = rec,
         Emits(new)
  PROVE  /\ Sound(rec)' /\ rec' \in RunRecord
         /\ workerSaves' \in Seq(Events \cup {"none", "loaded"})
         /\ wire' \subseteq TerminalEvents
<1>1. /\ Sound(new) /\ new \in RunRecord /\ new.events \in Seq(Events)
      /\ Len(rec.events) <= Len(new.events) /\ Len(rec.events) \in Nat
  <2>1. Sound(new)
    BY OKSound DEF Evolves
  <2>2. /\ new \in RunRecord /\ new.events \in Seq(Events)
        /\ rec.events \in Seq(Events)
    BY <2>1 DEF Sound, RunRecord
  <2>3. Len(rec.events) <= Len(new.events)
    BY <2>2 DEF Evolves
  <2> QED BY <2>1, <2>2, <2>3
<1>2. rec' = new
  BY DEF Emits
<1>3. SubSeq(new.events, Len(rec.events) + 1, Len(new.events)) \in Seq(Events)
  BY <1>1, LogSuffix
<1>4. SubSeq(new.events, Len(rec.events) + 1, Len(new.events))
        \in Seq(Events \cup {"none", "loaded"})
  BY <1>3
<1>5. workerSaves' \in Seq(Events \cup {"none", "loaded"})
  BY <1>4 DEF Emits, TypeOK
<1>6. wire' \subseteq TerminalEvents
  BY DEF Emits, announces, TypeOK
<1> QED BY <1>1, <1>2, <1>5, <1>6

\* The pipeline's transitions of an open record.
LEMMA OpenEvolves ==
  ASSUME Sound(rec), ~isRunCancelled(rec)
  PROVE  /\ Evolves(rec, failRun(rec, "RUN_ERROR"))
         /\ Evolves(rec, completeRun(rec))
         /\ Evolves(rec, openStage(rec))
<1>1. RecordOK(rec) /\ ~rec.terminal
  BY DEF Sound, isRunCancelled
<1>2. "RUN_ERROR" \in RunErrors /\ "none" \in RunErrors
      /\ "failed" \in TerminalEvents /\ "completed" \in TerminalEvents
  BY DEF RunErrors, PipelineErrors, TerminalEvents
<1> QED BY <1>1, <1>2, EndEvolves, OpenStageEvolves DEF failRun, completeRun

-----------------------------------------------------------------------------
LEMMA InitInv == Init => IInv
<1> SUFFICES ASSUME Init PROVE IInv
  OBVIOUS
<1>1. RecordOK(EmptyRecord) /\ EmptyRecord \in RunRecord /\ Sound(EmptyRecord)
  BY PayloadOK, OKSound DEF RecordOK, LogOK
<1>2. TypeOK
  BY <1>1, MaxCrashesAssumption DEF Init, TypeOK, Statuses, TerminalEvents
<1> QED BY <1>1, <1>2
     DEF Init, IInv, CancelRecords, Dated, CancelOpen, NotRemoved, TerminalEvents

\* The saves.
LEMMA SavesInv ==
  ASSUME IInv, WorkerSaves \/ ApiSaves
  PROVE  IInv' /\ (row.completedAt => row'.completedAt)
<1>1. CASE WorkerSaves
  <2>1. Head(workerSaves) \in Events \cup {"none", "loaded"}
        /\ Tail(workerSaves) \in Seq(Events \cup {"none", "loaded"})
    BY <1>1 DEF WorkerSaves, IInv, TypeOK
  <2> QED BY <1>1, <2>1, SavedOK
       DEF WorkerSaves, IInv, TypeOK, Dated, CancelOpen, NotRemoved, apiVars
<1>2. CASE ApiSaves
  <2>1. Head(apiSaves) \in {"cancelled", "loaded"}
        /\ Tail(apiSaves) \in Seq({"cancelled", "loaded"})
    BY <1>2 DEF ApiSaves, IInv, TypeOK
  <2>2. Head(apiSaves) \in Events \cup {"none", "loaded"}
    BY <2>1 DEF Events, TerminalEvents
  <2> QED BY <1>2, <2>1, <2>2, SavedOK
       DEF ApiSaves, IInv, TypeOK, Dated, CancelOpen, NotRemoved, workerVars
<1> QED BY <1>1, <1>2

\* The job, and the worker's steps that leave the records alone.
LEMMA JobInv ==
  ASSUME IInv, enqueueRun \/ TakesJob \/ StalledJobReturns \/ JobEnds
  PROVE  IInv' /\ row' = row
BY DEF IInv, TypeOK, Dated, CancelOpen, NotRemoved, apiVars,
       enqueueRun, TakesJob, StalledJobReturns, JobEnds

LEMMA ProcessInv ==
  ASSUME IInv, ProcessRun
  PROVE  IInv' /\ row' = row
<1>1. Sound(Payload) /\ Payload \in RunRecord
  BY PayloadOK, OKSound DEF Sound
<1>2. Append(workerSaves, "none") \in Seq(Events \cup {"none", "loaded"})
  BY DEF IInv, TypeOK
<1> QED BY <1>1, <1>2
     DEF IInv, TypeOK, Dated, CancelOpen, NotRemoved, apiVars, ProcessRun

LEMMA PipelineInv ==
  ASSUME IInv, Pipeline
  PROVE  IInv' /\ row' = row
<1>1. TypeOK /\ Sound(rec)
  BY DEF IInv
<1>2. PICK new : (Evolves(rec, new) \/ new = rec) /\ Emits(new)
  BY <1>1, OpenEvolves DEF Pipeline, ProviderUnusable, OpensStage, PipelineEnds
<1>3. /\ Sound(rec)' /\ rec' \in RunRecord
      /\ workerSaves' \in Seq(Events \cup {"none", "loaded"})
      /\ wire' \subseteq TerminalEvents
  BY <1>1, <1>2, EmitsOK
<1>4. /\ UNCHANGED <<stalls, crashes, apiVars, row, control>>
      /\ worker' \in {"idle", "running", "settling"}
      /\ job' \in {job, "failed"}
  BY DEF Pipeline, ProviderUnusable, OpensStage, PipelineEnds
<1> QED BY <1>3, <1>4
     DEF IInv, TypeOK, Dated, CancelOpen, NotRemoved, apiVars

LEMMA CancelRunInv ==
  ASSUME IInv, onCancelRun
  PROVE  IInv' /\ row' = row
<1>1. /\ rec \in RunRecord /\ Sound(rec)
      /\ rec' \in {rec, [rec EXCEPT !.status = "cancelled", !.terminal = TRUE]}
  BY DEF IInv, TypeOK, onCancelRun
<1>2. /\ rec' \in RunRecord /\ rec'.events = rec.events
      /\ rec' = rec \/ rec'.terminal
  BY <1>1 DEF RunRecord, Statuses, TerminalEvents
<1>3. Sound(rec)'
  BY <1>1, <1>2 DEF Sound
<1>4. control' \in Nat
  BY DEF onCancelRun, IInv, TypeOK
<1> QED BY <1>2, <1>3, <1>4
     DEF IInv, TypeOK, Dated, CancelOpen, NotRemoved, apiVars, onCancelRun

LEMMA CrashInv ==
  ASSUME IInv, WorkerCrashes \/ WorkerRestarts
  PROVE  IInv' /\ row' = row
<1>1. CASE WorkerCrashes
  <2>1. /\ crashes' \in 0..MaxCrashes /\ wire' \subseteq TerminalEvents
        /\ workerSaves' \in Seq(Events \cup {"none", "loaded"})
    BY <1>1, MaxCrashesAssumption DEF WorkerCrashes, IInv, TypeOK
  <2> QED BY <1>1, <2>1
       DEF WorkerCrashes, IInv, TypeOK, Dated, CancelOpen, NotRemoved, apiVars
<1>2. CASE WorkerRestarts
  <2>1. workerSaves' \in Seq(Events \cup {"none", "loaded"})
    <3>1. CASE Interrupted
      BY <1>2, <3>1 DEF WorkerRestarts, LoadSaves
    <3>2. CASE ~Interrupted
      BY <1>2, <3>2 DEF WorkerRestarts, LoadSaves
    <3> QED BY <3>1, <3>2
  <2> QED BY <1>2, <2>1
       DEF WorkerRestarts, IInv, TypeOK, Dated, CancelOpen, NotRemoved, apiVars
<1> QED BY <1>1, <1>2

\* The saves a refresh queues in the API process.
LEMMA ApiLoads ==
  ASSUME TypeOK
  PROVE  apiSaves \o LoadSaves \in Seq({"cancelled", "loaded"})
<1>1. LoadSaves \in Seq({"cancelled", "loaded"})
  <2>1. CASE Interrupted
    BY <2>1 DEF LoadSaves
  <2>2. CASE ~Interrupted
    BY <2>2 DEF LoadSaves
  <2> QED BY <2>1, <2>2
<1> QED BY <1>1 DEF TypeOK

LEMMA CancelReadsInv ==
  ASSUME IInv, CancelReads
  PROVE  IInv' /\ row' = row
<1> DEFINE read == [Payload EXCEPT !.status = row.snapshot,
                                   !.terminal = LoadedTerminal]
<1>1. /\ TypeOK /\ Payload \in RunRecord /\ RecordOK(Payload)
      /\ row.snapshot \in Statuses /\ LoadedTerminal \in BOOLEAN
  BY PayloadOK DEF IInv, TypeOK, RecordOK, LogOK, LoadedTerminal
<1>2. /\ read \in RunRecord /\ read.events = Payload.events
      /\ read.status = row.snapshot /\ read.terminal = LoadedTerminal
  BY <1>1 DEF RunRecord
<1>3. Ends(read.events) = {}
  BY <1>1, <1>2, PayloadOK DEF RecordOK, LogOK
<1>4. ~LoadedTerminal => row.snapshot \in {"queued", "running"}
  BY <1>1 DEF IInv, Dated, LoadedTerminal, Statuses
<1>5. Sound(read)
  BY <1>2, <1>3, <1>4 DEF Sound, RecordOK, LogOK
<1>6. cancel' = [step |-> IF LoadedTerminal THEN "refused" ELSE "read",
                 rec |-> read]
  BY DEF CancelReads
<1>7. /\ cancel' \in CancelRecords /\ Sound(cancel'.rec)
      /\ cancel'.step \in {"read", "removed", "published"} => ~cancel'.rec.terminal
  BY <1>2, <1>5, <1>6 DEF CancelRecords
<1>8. apiSaves' \in Seq({"cancelled", "loaded"})
  BY <1>1, ApiLoads DEF CancelReads
<1>9. UNCHANGED <<workerVars, stream, row, control, wire>> /\ job # "removed"
  BY DEF CancelReads, IInv, NotRemoved
<1> QED BY <1>7, <1>8, <1>9
     DEF IInv, TypeOK, Dated, CancelOpen, NotRemoved, workerVars, CancelRecords

LEMMA CancelGoesOnInv ==
  ASSUME IInv, CancelRemoves \/ CancelPublishes
  PROVE  IInv' /\ row' = row
<1>1. /\ cancel \in CancelRecords /\ Sound(cancel.rec) /\ ~cancel.rec.terminal
      /\ cancel.step = "read" => job # "removed"
  BY DEF IInv, CancelOpen, NotRemoved, CancelRemoves, CancelPublishes
<1>2. CASE CancelRemoves
  <2>1. job \in {"none", "waiting", "active", "stalled", "completed", "failed"}
    BY <1>1, <1>2 DEF CancelRemoves, IInv, TypeOK
  <2>2. cancel' \in CancelRecords /\ cancel'.rec = cancel.rec
        /\ cancel'.step = "removed"
    BY <1>1, <1>2, <2>1 DEF CancelRemoves, CancelRecords
  <2>3. /\ UNCHANGED <<stalls, worker, rec, workerSaves, crashes, stream, apiSaves,
                        row, control, wire>>
        /\ job' \in {job, "removed"} /\ IInv
    BY <1>2 DEF CancelRemoves
  <2>4. TypeOK'
    BY <2>1, <2>2, <2>3 DEF IInv, TypeOK, CancelRecords
  <2>5. Dated' /\ CancelOpen' /\ NotRemoved' /\ Sound(rec)' /\ Sound(cancel.rec)'
    BY <1>1, <2>2, <2>3 DEF IInv, Dated, CancelOpen, NotRemoved
  <2> QED BY <2>2, <2>3, <2>4, <2>5 DEF IInv
<1>3. CASE CancelPublishes
  <2>1. cancel' \in CancelRecords /\ cancel'.rec = cancel.rec
        /\ cancel'.step = "published" /\ control' \in Nat
    <3>1. control \in Nat
      BY DEF IInv, TypeOK
    <3> QED BY <1>1, <1>3, <3>1 DEF CancelPublishes, CancelRecords
  <2>2. UNCHANGED <<workerVars, stream, apiSaves, row, wire>> /\ IInv
    BY <1>3 DEF CancelPublishes
  <2>3. TypeOK'
    BY <2>1, <2>2 DEF IInv, TypeOK, CancelRecords, workerVars
  <2>4. Dated' /\ CancelOpen' /\ NotRemoved' /\ Sound(rec)' /\ Sound(cancel.rec)'
    BY <1>1, <2>1, <2>2 DEF IInv, Dated, CancelOpen, NotRemoved, workerVars
  <2> QED BY <2>1, <2>2, <2>3, <2>4 DEF IInv
<1> QED BY <1>2, <1>3

LEMMA CancelFinishesInv ==
  ASSUME IInv, CancelFinishes
  PROVE  IInv' /\ row' = row
<1>1. cancel \in CancelRecords /\ RecordOK(cancel.rec)
  BY DEF IInv, CancelOpen, CancelFinishes, Sound
<1>2. "cancelled" \in TerminalEvents /\ "RUN_CANCELLED" \in RunErrors
  BY DEF TerminalEvents, RunErrors
<1>3. RecordOK(cancelRunRecord(cancel.rec))
  BY <1>1, <1>2, EndEvolves DEF cancelRunRecord, Evolves
<1>4. Sound(cancelRunRecord(cancel.rec)) /\ cancelRunRecord(cancel.rec) \in RunRecord
  BY <1>3, OKSound DEF RecordOK, LogOK
<1>5. /\ cancel' \in CancelRecords /\ Sound(cancel'.rec)
      /\ cancel'.step = "cancelled"
  BY <1>1, <1>4 DEF CancelFinishes, CancelRecords
<1>6. apiSaves' \in Seq({"cancelled", "loaded"}) /\ wire' \subseteq TerminalEvents
  BY <1>2 DEF CancelFinishes, IInv, TypeOK
<1> QED BY <1>5, <1>6
     DEF CancelFinishes, IInv, TypeOK, Dated, CancelOpen, NotRemoved, workerVars,
         CancelRecords

LEMMA StreamInv ==
  ASSUME IInv, Stream \/ \E e \in TerminalEvents : Delivers(e)
  PROVE  IInv' /\ row' = row
<1>1. apiSaves \o LoadSaves \in Seq({"cancelled", "loaded"})
  BY ApiLoads DEF IInv
<1>2. CASE Stream
  <2>1. /\ stream' \in {"closed", "subscribing", "subscribed", "open"}
        /\ apiSaves' \in {apiSaves, apiSaves \o LoadSaves}
        /\ UNCHANGED <<workerVars, cancel, row, control, wire>>
    BY <1>2 DEF Stream, StreamReads, StreamSubscribes, StreamReplays, StreamDrops
  <2>2. apiSaves' \in Seq({"cancelled", "loaded"})
    BY <1>1, <2>1 DEF IInv, TypeOK
  <2>3. /\ stream' \in {"new", "closed", "subscribing", "subscribed", "open"}
        /\ UNCHANGED <<workerVars, cancel, row, control, wire>>
    BY <2>1
  <2> QED BY <2>2, <2>3
       DEF IInv, TypeOK, Dated, CancelOpen, NotRemoved, workerVars
<1>3. CASE \E e \in TerminalEvents : Delivers(e)
  <2>1. /\ stream' \in {"closed", stream} /\ wire' \subseteq wire
        /\ UNCHANGED <<workerVars, cancel, apiSaves, row, control>>
    BY <1>3 DEF Delivers
  <2>2. /\ wire' \subseteq TerminalEvents
        /\ stream' \in {"new", "subscribing", "subscribed", "open", "closed"}
    BY <2>1 DEF IInv, TypeOK
  <2> QED BY <2>1, <2>2
       DEF IInv, TypeOK, Dated, CancelOpen, NotRemoved, workerVars
<1> QED BY <1>2, <1>3

\* Every step keeps the invariant, and an end date the row has.
LEMMA NextInv ==
  ASSUME IInv, [Next]_vars
  PROVE  IInv' /\ (row.completedAt => row'.completedAt)
<1>1. CASE UNCHANGED vars
  BY <1>1 DEF vars, workerVars, apiVars, IInv, TypeOK, Dated, CancelOpen, NotRemoved
<1>2. CASE Next
  BY <1>2, SavesInv, JobInv, ProcessInv, PipelineInv, CancelRunInv, CrashInv,
     CancelReadsInv, CancelGoesOnInv, CancelFinishesInv, StreamInv
     DEF Next, Job, Worker, CancelGoesOn
<1> QED BY <1>1, <1>2

LEMMA Invariance == Spec => []IInv
BY InitInv, NextInv, PTL DEF Spec

-----------------------------------------------------------------------------
\* The variables of both processes keep their types (restore and refresh
\* included), for every number of crashes.
THEOREM TypeCorrect == Spec => []TypeOK
<1>1. IInv => TypeOK
  BY DEF IInv
<1> QED BY <1>1, Invariance, PTL

\* A run that has ended is never loaded as active again, however the saves of
\* the worker, a cancel and a second worker interleave.
THEOREM NeverReopenedAlways == Spec => NeverReopened
<1>1. IInv /\ [Next]_vars => [LoadedTerminal => LoadedTerminal']_vars
  BY NextInv DEF IInv, Dated, LoadedTerminal
<1> QED BY <1>1, Invariance, PTL DEF Spec, NeverReopened

-----------------------------------------------------------------------------
(***************************************************************************)
(* The row stays true to the history.  Who may have written the row at all *)
(* is what the history tells: while nobody has cancelled the run and no    *)
(* worker has died, only the worker's current record was saved.            *)
(***************************************************************************)
Alone == reached \cap {"cancelled", "interrupted"} = {}

\* Whatever there is to be seen of an end has been recorded.
Remembered ==
  /\ happening \subseteq reached /\ reached \subseteq TerminalEvents \cup {"interrupted"}
  /\ rec.terminal => rec.status \in TerminalEvents /\ rec.status \in reached
  /\ cancel.step = "cancelled" => cancel.rec.terminal /\ cancel.rec.status = "cancelled"
  /\ control > 0 => "cancelled" \in reached
  /\ job = "stalled" => "interrupted" \in reached

\* No worker is at work on the job, or it has not looked at it.
NotBegun == job \in {"none", "waiting", "stalled"} \/ worker = "taken"

\* A save of an end is that of a closed record; one of a loaded record was
\* queued for a row with an end date that two writers have garbled.
SavesOK ==
  /\ \A i \in DOMAIN workerSaves :
       /\ isTerminalRunEvent(workerSaves[i]) => rec.terminal
       /\ workerSaves[i] = "loaded" => ~Alone /\ row.completedAt
       /\ NotBegun => workerSaves[i] = "loaded"
  /\ \A i \in DOMAIN apiSaves :
       /\ apiSaves[i] = "cancelled" => cancel.step = "cancelled"
       /\ apiSaves[i] = "loaded" => ~Alone /\ row.completedAt
  /\ worker \in {"taken", "resolving", "running", "settling"} => job = "active"

\* The row says of an end what its snapshot says, and what the only writer says.
RowTrue ==
  /\ row.status \in TerminalEvents => row.snapshot \in TerminalEvents
  /\ Alone /\ row.completedAt =>
       /\ ~NotBegun /\ rec.terminal
       /\ row.status \in TerminalEvents /\ row.snapshot = rec.status

HInv == IInv /\ Remembered /\ SavesOK /\ RowTrue

-----------------------------------------------------------------------------
LEMMA InitHistory == HistoryInit => HInv
<1> SUFFICES ASSUME HistoryInit PROVE HInv
  OBVIOUS
<1>1. IInv
  BY InitInv DEF HistoryInit
<1>2. /\ rec = EmptyRecord /\ reached = {} /\ cancel.step = "new" /\ crashes = 0
      /\ control = 0 /\ job = "none" /\ worker = "idle"
      /\ workerSaves = <<>> /\ apiSaves = <<>>
      /\ row = [status |-> "queued", snapshot |-> "queued", completedAt |-> FALSE]
  BY DEF HistoryInit, Init
<1>3. happening = {} /\ ~rec.terminal
  BY <1>2 DEF happening, EmptyRecord
<1>4. Remembered
  BY <1>2, <1>3 DEF Remembered
<1>5. SavesOK /\ RowTrue
  BY <1>2 DEF SavesOK, RowTrue, TerminalEvents
<1> QED BY <1>1, <1>4, <1>5 DEF HInv

\* The history only grows, and only by what it may hold.
LEMMA HistoryGrows ==
  ASSUME HInv, HistoryNext
  PROVE  /\ reached \subseteq reached' /\ happening' \subseteq reached'
         /\ reached' \subseteq TerminalEvents \cup {"interrupted"}
         /\ Alone' => Alone
BY DEF HInv, Remembered, HistoryNext, happening, Alone, TerminalEvents

\* A row with an end date that is not loaded as that end has had two writers.
LEMMA TwoWritersLoad ==
  ASSUME HInv
  PROVE  /\ Interrupted => ~Alone /\ row.completedAt
         /\ \A i \in DOMAIN LoadSaves :
              LoadSaves[i] = "loaded" /\ ~Alone /\ row.completedAt
<1>1. Interrupted => ~Alone /\ row.completedAt
  BY DEF HInv, RowTrue, Interrupted, TerminalEvents
<1>2. \A i \in DOMAIN LoadSaves : LoadSaves[i] = "loaded" /\ Interrupted
  BY DEF LoadSaves
<1> QED BY <1>1, <1>2

\* What is saved says of an end what the record says.
LEMMA SavedTrue ==
  ASSUME NEW r, Sound(r), r.terminal => r.status \in TerminalEvents,
         NEW e \in Events \cup {"none"}, isTerminalRunEvent(e) => r.terminal
  PROVE  LET new == saved(r, e)
         IN  /\ new.snapshot = r.status
             /\ new.completedAt = (r.terminal \/ row.completedAt)
             /\ new.status \in TerminalEvents <=> r.terminal
             /\ new.snapshot \in TerminalEvents <=> r.terminal
<1>1. r.status \in TerminalEvents <=> r.terminal
  BY OpenStatus
<1>2. HasTerminalEvent(r.events) => r.terminal
  BY DEF HasTerminalEvent, Sound, RecordOK, LogOK, Ends
<1>3. ASSUME HasTerminalEvent(r.events)
      PROVE  restoreRecordedTerminalStatus(r).status \in TerminalEvents
  <2>1. PICK i \in Ends(r.events) : TRUE
    BY <1>3 DEF HasTerminalEvent, Ends
  <2>2. /\ i \in DOMAIN r.events /\ isTerminalRunEvent(r.events[i])
        /\ \A j \in DOMAIN r.events : isTerminalRunEvent(r.events[j]) => j = i
    BY <2>1 DEF Sound, Ends
  <2>3. r.events \in Seq(Events) /\ r \in RunRecord
    BY DEF Sound, RunRecord
  <2>4. FirstTerminal(r.events) = i
    BY <2>2, <2>3 DEF FirstTerminal
  <2>5. restoreRecordedTerminalStatus(r) = [r EXCEPT !.status = r.events[i]]
    BY <1>3, <2>4 DEF restoreRecordedTerminalStatus
  <2> QED BY <2>2, <2>3, <2>5 DEF isTerminalRunEvent, RunRecord
<1>4. ~HasTerminalEvent(r.events) => restoreRecordedTerminalStatus(r) = r
  BY DEF restoreRecordedTerminalStatus
<1>5. persistedStatus(r, e) \in TerminalEvents <=> r.terminal
  BY <1>1, <1>2, <1>3, <1>4 DEF persistedStatus, isTerminalRunEvent
<1>6. e # "loaded"
  BY DEF Events, TerminalEvents
<1> QED BY <1>1, <1>5, <1>6 DEF saved

\* A save of the API process is that of the cancelled record, or of a record
\* loaded from a garbled row.
LEMMA ApiSaved ==
  ASSUME HInv, ApiSaves
  PROVE  /\ ~Alone
         /\ row' = saved(cancel.rec, Head(apiSaves))
         /\ row'.snapshot \in TerminalEvents
         /\ row'.snapshot = "failed" \/ row'.snapshot \in reached
<1>1. /\ 1 \in DOMAIN apiSaves /\ Head(apiSaves) = apiSaves[1]
      /\ Head(apiSaves) \in {"cancelled", "loaded"}
  BY DEF ApiSaves, HInv, IInv, TypeOK
<1>2. row' = saved(cancel.rec, Head(apiSaves))
  BY DEF ApiSaves
<1>3. CASE Head(apiSaves) = "loaded"
  <2>1. ~Alone
    BY <1>1, <1>3 DEF HInv, SavesOK
  <2>2. row'.snapshot = "failed"
    BY <1>2, <1>3 DEF saved
  <2> QED BY <1>2, <2>1, <2>2 DEF TerminalEvents
<1>4. CASE Head(apiSaves) = "cancelled"
  <2>1. cancel.step = "cancelled"
    BY <1>1, <1>4 DEF HInv, SavesOK
  <2>2. /\ cancel.rec.terminal /\ cancel.rec.status = "cancelled"
        /\ "cancelled" \in reached
    BY <2>1 DEF HInv, Remembered, happening
  <2>3. row'.snapshot = "cancelled"
    BY <1>2, <1>4, <2>2 DEF saved
  <2> QED BY <1>2, <2>2, <2>3 DEF Alone, TerminalEvents
<1> QED BY <1>1, <1>3, <1>4

\* A save of the worker is that of the record it generates, or of a record
\* loaded from a garbled row.
LEMMA WorkerSaved ==
  ASSUME HInv, WorkerSaves
  PROVE  \/ /\ ~Alone /\ row.completedAt
            /\ row' = [status |-> "failed", snapshot |-> "failed", completedAt |-> TRUE]
         \/ /\ ~NotBegun
            /\ row'.snapshot = rec.status
            /\ row'.completedAt = (rec.terminal \/ row.completedAt)
            /\ row'.status \in TerminalEvents <=> rec.terminal
            /\ row'.snapshot \in TerminalEvents <=> rec.terminal
<1> DEFINE e == Head(workerSaves)
<1>1. /\ 1 \in DOMAIN workerSaves /\ e = workerSaves[1]
      /\ e \in Events \cup {"none", "loaded"}
  BY DEF WorkerSaves, HInv, IInv, TypeOK
<1>2. row' = saved(rec, e)
  BY DEF WorkerSaves
<1>3. CASE e = "loaded"
  BY <1>1, <1>2, <1>3 DEF HInv, SavesOK, saved
<1>4. CASE e # "loaded"
  <2>1. /\ ~NotBegun /\ e \in Events \cup {"none"}
        /\ isTerminalRunEvent(e) => rec.terminal
    BY <1>1, <1>4 DEF HInv, SavesOK
  <2>2. Sound(rec) /\ (rec.terminal => rec.status \in TerminalEvents)
    BY DEF HInv, IInv, Remembered
  <2> QED BY <1>2, <2>1, <2>2, SavedTrue
<1> QED BY <1>3, <1>4

-----------------------------------------------------------------------------
\* The saves.
LEMMA SavesHistory ==
  ASSUME HInv, HistoryNext, WorkerSaves \/ ApiSaves
  PROVE  Remembered' /\ SavesOK' /\ RowTrue'
<1>1. /\ UNCHANGED <<rec, cancel, crashes, control, job, worker>>
      /\ happening' = happening /\ reached' = reached
      /\ Alone' = Alone /\ NotBegun' = NotBegun
  <2>1. UNCHANGED <<rec, cancel, crashes, control, job, worker>>
    BY DEF WorkerSaves, ApiSaves, workerVars, apiVars
  <2>2. happening' = happening
    BY <2>1 DEF happening
  <2>3. reached' = reached
    BY <2>2 DEF HistoryNext, HInv, Remembered
  <2> QED BY <2>1, <2>2, <2>3 DEF Alone, NotBegun
<1>2. Remembered'
  BY <1>1 DEF HInv, Remembered
<1>3. row.completedAt => row'.completedAt
  BY SavesInv DEF HInv
<1>4. SavesOK'
  <2>1. workerSaves \in Seq(Events \cup {"none", "loaded"})
        /\ apiSaves \in Seq({"cancelled", "loaded"})
    BY DEF HInv, IInv, TypeOK
  <2>2. \A i \in DOMAIN workerSaves' :
          \E j \in DOMAIN workerSaves : workerSaves'[i] = workerSaves[j]
    <3>1. CASE WorkerSaves
      <4>1. workerSaves # <<>> /\ workerSaves' = Tail(workerSaves)
        BY <3>1 DEF WorkerSaves
      <4>2. \A i \in DOMAIN Tail(workerSaves) :
              i + 1 \in DOMAIN workerSaves
              /\ Tail(workerSaves)[i] = workerSaves[i + 1]
        BY <2>1, <4>1
      <4> QED BY <4>1, <4>2
    <3>2. CASE ApiSaves
      BY <3>2 DEF ApiSaves, workerVars
    <3> QED BY <3>1, <3>2
  <2>3. \A i \in DOMAIN apiSaves' :
          \E j \in DOMAIN apiSaves : apiSaves'[i] = apiSaves[j]
    <3>1. CASE ApiSaves
      <4>1. apiSaves # <<>> /\ apiSaves' = Tail(apiSaves)
        BY <3>1 DEF ApiSaves
      <4>2. \A i \in DOMAIN Tail(apiSaves) :
              i + 1 \in DOMAIN apiSaves /\ Tail(apiSaves)[i] = apiSaves[i + 1]
        BY <2>1, <4>1
      <4> QED BY <4>1, <4>2
    <3>2. CASE WorkerSaves
      BY <3>2 DEF WorkerSaves, apiVars
    <3> QED BY <3>1, <3>2
  <2>4. SavesOK
    BY DEF HInv
  <2>5. \A i \in DOMAIN workerSaves' :
          /\ isTerminalRunEvent(workerSaves'[i]) => rec'.terminal
          /\ workerSaves'[i] = "loaded" => ~Alone' /\ row'.completedAt
          /\ NotBegun' => workerSaves'[i] = "loaded"
    BY <1>1, <1>3, <2>2, <2>4 DEF SavesOK
  <2>6. \A i \in DOMAIN apiSaves' :
          /\ apiSaves'[i] = "cancelled" => cancel'.step = "cancelled"
          /\ apiSaves'[i] = "loaded" => ~Alone' /\ row'.completedAt
    BY <1>1, <1>3, <2>3, <2>4 DEF SavesOK
  <2>7. worker' \in {"taken", "resolving", "running", "settling"} => job' = "active"
    BY <1>1, <2>4 DEF SavesOK
  <2> QED BY <2>5, <2>6, <2>7 DEF SavesOK
<1>5. RowTrue'
  <2>1. CASE WorkerSaves
    <3>1. RowTrue /\ (rec.terminal => rec.status \in TerminalEvents)
      BY DEF HInv, Remembered
    <3>2. CASE row' = [status |-> "failed", snapshot |-> "failed",
                       completedAt |-> TRUE] /\ ~Alone
      BY <1>1, <3>2 DEF RowTrue, TerminalEvents
    <3>3. CASE /\ ~NotBegun
               /\ row'.snapshot = rec.status
               /\ row'.completedAt = (rec.terminal \/ row.completedAt)
               /\ row'.status \in TerminalEvents <=> rec.terminal
               /\ row'.snapshot \in TerminalEvents <=> rec.terminal
      <4>1. row'.status \in TerminalEvents => row'.snapshot \in TerminalEvents
        BY <3>3
      <4>2. Alone /\ row'.completedAt => rec.terminal
        BY <3>1, <3>3 DEF RowTrue
      <4> QED BY <1>1, <3>3, <4>1, <4>2 DEF RowTrue
    <3> QED BY <2>1, <3>2, <3>3, WorkerSaved
  <2>2. CASE ApiSaves
    BY <1>1, <2>2, ApiSaved DEF RowTrue
  <2> QED BY <2>1, <2>2
<1> QED BY <1>2, <1>4, <1>5

\* A step that leaves the record and the saves alone keeps the row true, if it
\* does not put the job back.
LEMMA QuietHistory ==
  ASSUME HInv, HistoryNext, UNCHANGED <<rec, workerSaves, row>>,
         NotBegun' => NotBegun \/ ~Alone',
         NotBegun' => NotBegun \/ workerSaves = <<>>,
         worker' \in {"taken", "resolving", "running", "settling"} => job' = "active",
         cancel'.step = "cancelled" =>
           cancel'.rec.terminal /\ cancel'.rec.status = "cancelled",
         control' > 0 => "cancelled" \in reached',
         job' = "stalled" => "interrupted" \in reached',
         \A i \in DOMAIN apiSaves' :
           /\ apiSaves'[i] = "cancelled" => cancel'.step = "cancelled"
           /\ apiSaves'[i] = "loaded" => ~Alone /\ row.completedAt
  PROVE  Remembered' /\ SavesOK' /\ RowTrue'
<1>1. /\ reached \subseteq reached' /\ happening' \subseteq reached'
      /\ reached' \subseteq TerminalEvents \cup {"interrupted"}
      /\ Alone' => Alone
  BY HistoryGrows
<1>2. Remembered'
  BY <1>1 DEF HInv, Remembered
<1>3. SavesOK'
  <2>1. SavesOK
    BY DEF HInv
  <2>2. \A i \in DOMAIN workerSaves' :
          /\ isTerminalRunEvent(workerSaves'[i]) => rec'.terminal
          /\ workerSaves'[i] = "loaded" => ~Alone' /\ row'.completedAt
          /\ NotBegun' => workerSaves'[i] = "loaded"
    BY <1>1, <2>1 DEF SavesOK
  <2>3. \A i \in DOMAIN apiSaves' :
          /\ apiSaves'[i] = "cancelled" => cancel'.step = "cancelled"
          /\ apiSaves'[i] = "loaded" => ~Alone' /\ row'.completedAt
    BY <1>1
  <2> QED BY <2>2, <2>3 DEF SavesOK
<1>4. RowTrue'
  BY <1>1 DEF HInv, RowTrue
<1> QED BY <1>2, <1>3, <1>4

\* The saves a refresh queues in the API process.
LEMMA ApiLoadsHistory ==
  ASSUME HInv, apiSaves' \in {apiSaves, apiSaves \o LoadSaves},
         cancel'.step = "cancelled" \/ cancel.step # "cancelled"
  PROVE  \A i \in DOMAIN apiSaves' :
           /\ apiSaves'[i] = "cancelled" => cancel'.step = "cancelled"
           /\ apiSaves'[i] = "loaded" => ~Alone /\ row.completedAt
<1>1. apiSaves \in Seq({"cancelled", "loaded"})
  BY DEF HInv, IInv, TypeOK
<1>2. LoadSaves \in Seq({"loaded"})
  <2>1. CASE Interrupted
    BY <2>1 DEF LoadSaves
  <2>2. CASE ~Interrupted
    BY <2>2 DEF LoadSaves
  <2> QED BY <2>1, <2>2
<1>3. \A i \in DOMAIN apiSaves' :
        \/ \E j \in DOMAIN apiSaves : apiSaves'[i] = apiSaves[j]
        \/ \E j \in DOMAIN LoadSaves : apiSaves'[i] = LoadSaves[j]
  <2>1. CASE apiSaves' = apiSaves
    BY <2>1
  <2>2. CASE apiSaves' = apiSaves \o LoadSaves
    <3> TAKE i \in DOMAIN apiSaves'
    <3>1. CASE i <= Len(apiSaves)
      BY <1>1, <1>2, <2>2, <3>1
    <3>2. CASE ~(i <= Len(apiSaves))
      BY <1>1, <1>2, <2>2, <3>2
    <3> QED BY <3>1, <3>2
  <2> QED BY <2>1, <2>2
<1> QED BY <1>3, TwoWritersLoad DEF HInv, SavesOK

\* The queue, the stream, Redis and the cancel route leave the worker's record
\* and saves alone.
LEMMA ElsewhereHistory ==
  ASSUME HInv, HistoryNext,
         \/ Job \/ JobEnds \/ CancelReads \/ CancelGoesOn \/ Stream
         \/ \E e \in TerminalEvents : Delivers(e)
  PROVE  Remembered' /\ SavesOK' /\ RowTrue'
<1>1. UNCHANGED <<rec, workerSaves, row, crashes>>
  BY DEF Job, enqueueRun, TakesJob, StalledJobReturns, JobEnds, CancelReads,
         CancelGoesOn, CancelRemoves, CancelPublishes, CancelFinishes, Stream,
         StreamReads, StreamSubscribes, StreamReplays, StreamDrops, Delivers,
         workerVars
<1>2. /\ reached \subseteq reached' /\ happening' \subseteq reached'
      /\ TypeOK /\ SavesOK /\ Remembered
  BY HistoryGrows DEF HInv, IInv
<1>3. cancel'.step \in {"read", "removed", "published", "cancelled"} =>
        "cancelled" \in reached'
  BY <1>2 DEF happening
<1>4. CASE Job \/ JobEnds
  <2>1. UNCHANGED <<cancel, control, apiSaves>>
    BY <1>4 DEF Job, enqueueRun, TakesJob, StalledJobReturns, JobEnds, apiVars
  <2>2. /\ NotBegun' => NotBegun
        /\ worker' \in {"taken", "resolving", "running", "settling"} => job' = "active"
        /\ job' # "stalled"
    BY <1>2, <1>4 DEF Job, enqueueRun, TakesJob, StalledJobReturns, JobEnds,
                      NotBegun, SavesOK, TypeOK
  <2> QED BY <1>1, <1>2, <2>1, <2>2, QuietHistory DEF Remembered, SavesOK
<1>5. CASE CancelReads \/ Stream \/ \E e \in TerminalEvents : Delivers(e)
  <2>1. /\ UNCHANGED <<job, worker, control>>
        /\ apiSaves' \in {apiSaves, apiSaves \o LoadSaves}
        /\ \/ cancel' = cancel
           \/ cancel'.step \in {"read", "refused"} /\ cancel.step = "new"
    <3>1. CASE CancelReads
      BY <3>1 DEF CancelReads, workerVars
    <3>2. CASE Stream
      BY <3>2 DEF Stream, StreamReads, StreamSubscribes, StreamReplays, StreamDrops,
                  workerVars
    <3>3. CASE \E e \in TerminalEvents : Delivers(e)
      BY <3>3 DEF Delivers, workerVars
    <3> QED BY <1>5, <3>1, <3>2, <3>3
  <2>2. \A i \in DOMAIN apiSaves' :
          /\ apiSaves'[i] = "cancelled" => cancel'.step = "cancelled"
          /\ apiSaves'[i] = "loaded" => ~Alone /\ row.completedAt
    BY <2>1, ApiLoadsHistory
  <2> QED BY <1>1, <1>2, <2>1, <2>2, QuietHistory DEF Remembered, SavesOK, NotBegun
<1>6. CASE CancelRemoves
  <2>1. /\ UNCHANGED <<worker, control, apiSaves>>
        /\ cancel'.step = "removed" /\ cancel.step = "read"
        /\ job' = job \/ (job \in {"waiting", "stalled"} /\ job' = "removed")
    <3>1. cancel \in CancelRecords
      BY DEF HInv, IInv
    <3> QED BY <1>6, <3>1 DEF CancelRemoves, CancelRecords
  <2>2. /\ NotBegun' => NotBegun
        /\ worker' \in {"taken", "resolving", "running", "settling"} => job' = "active"
        /\ job' = "stalled" => job = "stalled"
    BY <1>2, <2>1 DEF NotBegun, SavesOK
  <2> QED BY <1>1, <1>2, <2>1, <2>2, QuietHistory DEF Remembered, SavesOK
<1>7. CASE CancelPublishes
  <2>1. /\ UNCHANGED <<worker, job, apiSaves>>
        /\ cancel'.step = "published" /\ cancel.step = "removed"
    BY <1>7 DEF CancelPublishes, HInv, IInv, CancelRecords, workerVars
  <2> QED BY <1>1, <1>2, <1>3, <2>1, QuietHistory DEF Remembered, SavesOK, NotBegun
<1>8. CASE CancelFinishes
  <2>1. cancel \in CancelRecords /\ RecordOK(cancel.rec) /\ ~cancel.rec.terminal
    BY <1>8 DEF HInv, IInv, CancelOpen, CancelFinishes, Sound
  <2>2. /\ cancel'.step = "cancelled" /\ cancel'.rec = cancelRunRecord(cancel.rec)
        /\ UNCHANGED <<worker, job, control>>
    BY <1>8, <2>1 DEF CancelFinishes, CancelRecords, workerVars
  <2>3. "cancelled" \in TerminalEvents /\ "cancelled" # "run_action"
    BY DEF TerminalEvents
  <2>4. cancel'.rec.terminal /\ cancel'.rec.status = "cancelled"
    <3>1. cancel.rec \in RunRecord
      BY <2>1 DEF CancelRecords
    <3> QED BY <2>1, <2>2, <2>3, <3>1
         DEF cancelRunRecord, emitEvent, isTerminalRunEvent, RunRecord
  <2>5. /\ apiSaves' = Append(apiSaves, "cancelled")
        /\ apiSaves \in Seq({"cancelled", "loaded"})
    BY <1>2, <1>8 DEF CancelFinishes, TypeOK
  <2>6. \A i \in DOMAIN apiSaves' :
          /\ apiSaves'[i] = "cancelled" => cancel'.step = "cancelled"
          /\ apiSaves'[i] = "loaded" => ~Alone /\ row.completedAt
    <3>1. \A i \in DOMAIN apiSaves' :
            \/ i \in DOMAIN apiSaves /\ apiSaves'[i] = apiSaves[i]
            \/ apiSaves'[i] = "cancelled"
      BY <2>5
    <3> QED BY <1>2, <2>2, <3>1 DEF SavesOK
  <2> QED BY <1>1, <1>2, <2>2, <2>4, <2>6, QuietHistory DEF Remembered, SavesOK, NotBegun
<1> QED BY <1>4, <1>5, <1>6, <1>7, <1>8 DEF CancelGoesOn

LEMMA ProcessHistory ==
  ASSUME HInv, HistoryNext, ProcessRun
  PROVE  Remembered' /\ SavesOK' /\ RowTrue'
<1>1. /\ worker = "taken" /\ job = "active" /\ worker' = "resolving"
      /\ rec' = Payload /\ workerSaves' = Append(workerSaves, "none")
      /\ UNCHANGED <<job, apiSaves, cancel, row, control>>
  BY DEF ProcessRun, HInv, SavesOK, apiVars
<1>2. /\ reached \subseteq reached' /\ happening' \subseteq reached'
      /\ reached' \subseteq TerminalEvents \cup {"interrupted"}
      /\ Alone' => Alone
  BY HistoryGrows
<1>3. ~rec'.terminal /\ NotBegun /\ ~NotBegun'
  BY <1>1, PayloadOK DEF NotBegun
<1>4. Remembered'
  BY <1>1, <1>2, <1>3 DEF HInv, Remembered
<1>5. SavesOK'
  <2>1. workerSaves \in Seq(Events \cup {"none", "loaded"}) /\ SavesOK
    BY DEF HInv, IInv, TypeOK
  <2>2. \A i \in DOMAIN workerSaves' :
          \/ i \in DOMAIN workerSaves /\ workerSaves'[i] = workerSaves[i]
          \/ workerSaves'[i] = "none"
    BY <1>1, <2>1
  <2>3. ~isTerminalRunEvent("none") /\ ~isTerminalRunEvent("loaded")
    BY DEF isTerminalRunEvent, TerminalEvents
  <2>4. \A i \in DOMAIN workerSaves' :
          /\ isTerminalRunEvent(workerSaves'[i]) => rec'.terminal
          /\ workerSaves'[i] = "loaded" => ~Alone' /\ row'.completedAt
          /\ NotBegun' => workerSaves'[i] = "loaded"
    BY <1>1, <1>2, <1>3, <2>1, <2>2, <2>3 DEF SavesOK
  <2> QED BY <1>1, <1>2, <2>1, <2>4 DEF SavesOK
<1>6. RowTrue'
  BY <1>1, <1>2, <1>3 DEF HInv, RowTrue
<1> QED BY <1>4, <1>5, <1>6

LEMMA PipelineHistory ==
  ASSUME HInv, HistoryNext, Pipeline
  PROVE  Remembered' /\ SavesOK' /\ RowTrue'
<1>1. PICK new : /\ Emits(new)
                 /\ new = rec \/ (Evolves(rec, new) /\ ~rec.terminal)
  BY OpenEvolves DEF HInv, IInv, Pipeline, ProviderUnusable, OpensStage,
                     PipelineEnds, isRunCancelled
<1>2. /\ UNCHANGED <<apiSaves, cancel, row, control>>
      /\ worker \in {"resolving", "running"} /\ job = "active"
      /\ \/ worker' \in {"running", "settling"} /\ job' = "active"
         \/ worker' = "idle" /\ job' = "failed"
  BY DEF Pipeline, ProviderUnusable, OpensStage, PipelineEnds, HInv, SavesOK, apiVars
<1>3. /\ reached \subseteq reached' /\ happening' \subseteq reached'
      /\ reached' \subseteq TerminalEvents \cup {"interrupted"}
      /\ Alone' => Alone
  BY HistoryGrows
<1>4. /\ Sound(rec) /\ Sound(new) /\ rec' = new
      /\ ~NotBegun /\ ~NotBegun'
  BY <1>1, <1>2, OKSound DEF HInv, IInv, Evolves, Emits, NotBegun
<1>5. \A i \in Ends(new.events) : new.events[i] \in reached'
  BY <1>3, <1>4 DEF happening, Ends, isTerminalRunEvent
<1>6. new.terminal => new.status \in TerminalEvents /\ new.status \in reached'
  <2>1. CASE new = rec
    BY <1>3, <2>1 DEF HInv, Remembered
  <2>2. CASE Evolves(rec, new)
    BY <1>5, <2>2 DEF Evolves, RecordOK, LogOK, Ends, isTerminalRunEvent
  <2> QED BY <1>1, <2>1, <2>2
<1>7. Remembered'
  BY <1>2, <1>3, <1>4, <1>6 DEF HInv, Remembered
<1>8. SavesOK'
  <2> DEFINE fresh == SubSeq(new.events, Len(rec.events) + 1, Len(new.events))
  <2>1. /\ workerSaves \in Seq(Events \cup {"none", "loaded"}) /\ SavesOK
        /\ rec.events \in Seq(Events) /\ new.events \in Seq(Events)
    BY <1>4 DEF HInv, IInv, TypeOK, Sound, RunRecord
  <2>2. Len(rec.events) \in Nat /\ Len(rec.events) <= Len(new.events)
    BY <1>1, <2>1 DEF Evolves
  <2>3. /\ fresh \in Seq(Events)
        /\ \A i \in DOMAIN fresh : /\ i + Len(rec.events) \in DOMAIN new.events
                                   /\ fresh[i] = new.events[i + Len(rec.events)]
    BY <2>1, <2>2, LogSuffix
  <2>4. workerSaves' = workerSaves \o fresh
    BY <1>1 DEF Emits
  <2>5. \A i \in DOMAIN new.events :
          isTerminalRunEvent(new.events[i]) => new.terminal
    BY <1>4 DEF Sound, RecordOK, LogOK, Ends
  <2> HIDE DEF fresh
  <2>6. /\ \A i \in DOMAIN fresh : isTerminalRunEvent(fresh[i]) => new.terminal
        /\ \A i \in DOMAIN fresh : fresh[i] # "loaded"
    <3>1. "loaded" \notin Events
      BY DEF Events, TerminalEvents
    <3> QED BY <2>3, <2>5, <3>1
  <2>7. \A i \in DOMAIN workerSaves' :
          \/ \E j \in DOMAIN workerSaves : workerSaves'[i] = workerSaves[j]
          \/ \E j \in DOMAIN fresh : workerSaves'[i] = fresh[j]
    <3> TAKE i \in DOMAIN workerSaves'
    <3>1. CASE i <= Len(workerSaves)
      BY <2>1, <2>3, <2>4, <3>1
    <3>2. CASE ~(i <= Len(workerSaves))
      <4>1. i - Len(workerSaves) \in DOMAIN fresh
        BY <2>1, <2>3, <2>4, <3>2
      <4>2. workerSaves'[i] = fresh[i - Len(workerSaves)]
        BY <2>1, <2>3, <2>4, <3>2
      <4> QED BY <4>1, <4>2
    <3> QED BY <3>1, <3>2
  <2>8. rec.terminal => new.terminal
    BY <1>1
  <2>9. \A i \in DOMAIN workerSaves' :
          /\ isTerminalRunEvent(workerSaves'[i]) => rec'.terminal
          /\ workerSaves'[i] = "loaded" => ~Alone' /\ row'.completedAt
          /\ NotBegun' => workerSaves'[i] = "loaded"
    BY <1>2, <1>3, <1>4, <2>1, <2>6, <2>7, <2>8 DEF SavesOK
  <2> QED BY <1>2, <1>3, <2>1, <2>9 DEF SavesOK
<1>9. RowTrue'
  <2>1. Alone' /\ row'.completedAt => new = rec
    BY <1>1, <1>2, <1>3 DEF HInv, RowTrue
  <2> QED BY <1>2, <1>3, <1>4, <2>1 DEF HInv, RowTrue
<1> QED BY <1>7, <1>8, <1>9

LEMMA CancelRunHistory ==
  ASSUME HInv, HistoryNext, onCancelRun
  PROVE  Remembered' /\ SavesOK' /\ RowTrue'
<1>1. /\ UNCHANGED <<job, worker, workerSaves, apiSaves, cancel, row>>
      /\ control > 0 /\ control \in Nat /\ control' = control - 1
      /\ rec' \in {rec, [rec EXCEPT !.status = "cancelled", !.terminal = TRUE]}
      /\ rec \in RunRecord
  BY DEF onCancelRun, HInv, IInv, TypeOK, apiVars
<1>2. /\ reached \subseteq reached' /\ happening' \subseteq reached'
      /\ reached' \subseteq TerminalEvents \cup {"interrupted"}
      /\ "cancelled" \in reached' /\ "cancelled" \in TerminalEvents
      /\ ~Alone /\ ~Alone' /\ NotBegun' = NotBegun
  BY <1>1, HistoryGrows DEF HInv, Remembered, Alone, NotBegun, TerminalEvents
<1>3. /\ rec'.terminal => rec'.status \in TerminalEvents /\ rec'.status \in reached'
      /\ rec.terminal => rec'.terminal
  BY <1>1, <1>2 DEF HInv, Remembered, RunRecord
<1>4. Remembered'
  BY <1>1, <1>2, <1>3 DEF HInv, Remembered
<1>5. SavesOK'
  BY <1>1, <1>2, <1>3 DEF HInv, SavesOK
<1>6. RowTrue'
  BY <1>1, <1>2 DEF HInv, RowTrue
<1> QED BY <1>4, <1>5, <1>6

LEMMA CrashHistory ==
  ASSUME HInv, HistoryNext, WorkerCrashes \/ WorkerRestarts
  PROVE  Remembered' /\ SavesOK' /\ RowTrue'
<1>1. /\ reached \subseteq reached' /\ happening' \subseteq reached'
      /\ reached' \subseteq TerminalEvents \cup {"interrupted"}
      /\ Alone' => Alone
      /\ Remembered /\ SavesOK /\ RowTrue
  BY HistoryGrows DEF HInv
<1>2. CASE WorkerCrashes
  <2>1. /\ UNCHANGED <<rec, apiSaves, cancel, row>>
        /\ crashes' # 0 /\ worker' = "down" /\ workerSaves' = <<>> /\ control' = 0
    BY <1>2, MaxCrashesAssumption DEF WorkerCrashes, HInv, IInv, TypeOK, apiVars
  <2>2. "interrupted" \in reached' /\ ~Alone'
    BY <1>1, <2>1 DEF happening, Alone
  <2>3. Remembered'
    BY <1>1, <2>1, <2>2 DEF Remembered
  <2>4. SavesOK'
    BY <1>1, <2>1 DEF SavesOK
  <2>5. RowTrue'
    BY <1>1, <2>1, <2>2 DEF RowTrue
  <2> QED BY <2>3, <2>4, <2>5
<1>3. CASE WorkerRestarts
  <2>1. /\ UNCHANGED <<rec, apiSaves, cancel, row, job, control>>
        /\ worker = "down" /\ worker' = "idle" /\ workerSaves' = LoadSaves
    BY <1>3 DEF WorkerRestarts, apiVars
  <2>2. Remembered'
    BY <1>1, <2>1 DEF Remembered
  <2>3. ~isTerminalRunEvent("loaded")
    BY DEF isTerminalRunEvent, TerminalEvents
  <2>4. \A i \in DOMAIN workerSaves' :
          workerSaves'[i] = "loaded" /\ ~Alone /\ row.completedAt
    BY <2>1, TwoWritersLoad
  <2>5. SavesOK'
    BY <1>1, <2>1, <2>3, <2>4 DEF SavesOK
  <2>6. NotBegun' => NotBegun
    BY <2>1 DEF NotBegun
  <2>7. RowTrue'
    BY <1>1, <2>1, <2>6 DEF RowTrue
  <2> QED BY <2>2, <2>5, <2>7
<1> QED BY <1>2, <1>3

LEMMA NextHistory ==
  ASSUME HInv, [HistoryNext]_<<vars, reached>>
  PROVE  HInv'
<1>1. CASE HistoryNext
  <2>1. IInv'
    BY <1>1, NextInv DEF HInv, HistoryNext
  <2>2. Remembered' /\ SavesOK' /\ RowTrue'
    BY <1>1, SavesHistory, ElsewhereHistory, ProcessHistory, PipelineHistory,
       CancelRunHistory, CrashHistory DEF HistoryNext, Next, Worker
  <2> QED BY <2>1, <2>2 DEF HInv
<1>2. CASE UNCHANGED <<vars, reached>>
  <2>1. IInv' /\ UNCHANGED <<vars, workerVars, apiVars>>
    BY <1>2, NextInv DEF HInv, vars
  <2> QED BY <1>2, <2>1
       DEF HInv, Remembered, SavesOK, RowTrue, happening, Alone, NotBegun, vars,
           workerVars, apiVars
<1> QED BY <1>1, <1>2

LEMMA HistoryInvariance == HistorySpec => []HInv
BY InitHistory, NextHistory, PTL DEF HistorySpec

-----------------------------------------------------------------------------
\* A step adds to the history one thing at most.
LEMMA OneThingHappens ==
  ASSUME HInv, HistoryNext
  PROVE  reached' = reached \/ \E o \in Row!Outcomes \cup {"interrupted"} :
                                reached' = reached \cup {o}
<1> DEFINE Things == Row!Outcomes \cup {"interrupted"}
<1>1. Row!Outcomes = TerminalEvents
  BY DEF Row!Outcomes, TerminalEvents
<1>2. SUFFICES \/ happening' \subseteq reached
               \/ \E o \in Things : happening' \subseteq reached \cup {o} /\ o \in happening'
  BY DEF HistoryNext
<1>3. happening \subseteq reached /\ Sound(rec) /\ rec \in RunRecord
  BY DEF HInv, Remembered, IInv, Sound
<1>4. Next
  BY DEF HistoryNext
<1>5. CASE Pipeline
  <2>1. PICK new : Emits(new) /\ (new = rec \/ Evolves(rec, new))
    BY <1>5, OpenEvolves DEF HInv, IInv, Pipeline, ProviderUnusable, OpensStage,
                             PipelineEnds
  <2>2. /\ UNCHANGED <<cancel, crashes>> /\ rec' = new /\ Sound(new)
    BY <1>3, <1>5, <2>1, OKSound
       DEF Pipeline, ProviderUnusable, OpensStage, PipelineEnds, apiVars, Emits, Evolves
  <2>3. \A i \in DOMAIN new.events, j \in DOMAIN new.events :
          new.events[i] \in TerminalEvents /\ new.events[j] \in TerminalEvents => i = j
    BY <2>2 DEF Sound, Ends, isTerminalRunEvent
  <2>4. \A e \in happening' :
          \/ e \in happening
          \/ e \in TerminalEvents /\ \E i \in DOMAIN new.events : new.events[i] = e
    BY <2>2 DEF happening
  <2>5. \A e, f \in happening' : e \notin happening /\ f \notin happening => e = f
    BY <2>3, <2>4
  <2> QED BY <1>1, <1>3, <2>4, <2>5
<1>6. CASE ProcessRun
  <2>1. rec' = Payload /\ UNCHANGED <<cancel, crashes>>
    BY <1>6 DEF ProcessRun, apiVars
  <2>2. happening' \subseteq happening
    BY <2>1, PayloadOK DEF happening, TerminalEvents
  <2> QED BY <1>3, <2>2
<1>7. CASE CancelReads
  <2>1. rec' = rec /\ crashes' = crashes
    BY <1>7 DEF CancelReads, workerVars
  <2>2. happening' \subseteq happening \cup {"cancelled"}
    BY <2>1 DEF happening
  <2> QED BY <1>1, <1>3, <2>2 DEF TerminalEvents
<1>8. CASE WorkerCrashes
  <2>1. rec' = rec /\ cancel' = cancel
    BY <1>8 DEF WorkerCrashes, apiVars
  <2>2. happening' \subseteq happening \cup {"interrupted"}
    BY <2>1 DEF happening
  <2> QED BY <1>3, <2>2
<1>9. CASE CancelGoesOn
  <2>1. rec' = rec /\ crashes' = crashes /\ cancel.step \notin {"new", "refused"}
    BY <1>9 DEF CancelGoesOn, CancelRemoves, CancelPublishes, CancelFinishes, workerVars
  <2>2. happening' \subseteq happening
    BY <2>1 DEF happening
  <2> QED BY <1>3, <2>2
<1>10. CASE \/ Job \/ JobEnds \/ onCancelRun \/ WorkerRestarts \/ Stream
            \/ \E e \in TerminalEvents : Delivers(e)
  <2>1. rec'.events = rec.events /\ cancel' = cancel /\ crashes' = crashes
    <3>1. CASE onCancelRun
      BY <1>3, <3>1 DEF onCancelRun, apiVars, RunRecord
    <3>2. CASE \/ Job \/ JobEnds \/ WorkerRestarts \/ Stream
               \/ \E e \in TerminalEvents : Delivers(e)
      BY <3>2 DEF Job, enqueueRun, TakesJob, StalledJobReturns, JobEnds, WorkerRestarts,
                  Stream, StreamReads, StreamSubscribes, StreamReplays, StreamDrops,
                  Delivers, workerVars, apiVars
    <3> QED BY <1>10, <3>1, <3>2
  <2>2. happening' = happening
    BY <2>1 DEF happening
  <2> QED BY <1>3, <2>2
<1>11. CASE WorkerSaves \/ ApiSaves
  <2>1. rec' = rec /\ cancel' = cancel /\ crashes' = crashes
    BY <1>11 DEF WorkerSaves, ApiSaves, workerVars, apiVars
  <2>2. happening' = happening
    BY <2>1 DEF happening
  <2> QED BY <1>3, <2>2
<1> QED BY <1>4, <1>5, <1>6, <1>7, <1>8, <1>9, <1>10, <1>11 DEF Next, Worker

\* The row changes by a save, in a step in which nothing happens to the run.
LEMMA OnlySavesChangeRow ==
  ASSUME HInv, HistoryNext
  PROVE  \/ row' = row
         \/ (WorkerSaves \/ ApiSaves) /\ reached' = reached /\ rec' = rec
<1>1. CASE WorkerSaves \/ ApiSaves
  <2>1. rec' = rec /\ cancel' = cancel /\ crashes' = crashes
    BY <1>1 DEF WorkerSaves, ApiSaves, workerVars, apiVars
  <2>2. happening' = happening
    BY <2>1 DEF happening
  <2> QED BY <1>1, <2>1, <2>2 DEF HistoryNext, HInv, Remembered
<1>2. CASE ~(WorkerSaves \/ ApiSaves)
  BY <1>2, JobInv, ProcessInv, PipelineInv, CancelRunInv, CrashInv, CancelReadsInv,
     CancelGoesOnInv, CancelFinishesInv, StreamInv
     DEF HInv, HistoryNext, Next, Job, Worker, CancelGoesOn
<1> QED BY <1>1, <1>2

\* What a true row is loaded with.
SeenTrue ==
  /\ ~row.completedAt => seen = "active"
  /\ row.completedAt /\ ~Interrupted =>
       seen = row.snapshot /\ row.status \in TerminalEvents
  /\ Interrupted => seen = "failed" /\ ~Alone
  /\ seen \in Row!Outcomes <=> row.completedAt
  /\ Alone /\ row.completedAt => seen = rec.status

LEMMA SeenOK == HInv => SeenTrue
<1> SUFFICES ASSUME HInv PROVE SeenTrue
  OBVIOUS
<1>1. LoadedTerminal <=> row.completedAt
  BY DEF HInv, IInv, Dated, LoadedTerminal
<1>2. Interrupted => row.completedAt /\ ~Alone
  BY TwoWritersLoad
<1>3. row.completedAt /\ ~Interrupted => row.status \in TerminalEvents
  BY DEF Interrupted, HInv, IInv, TypeOK, Statuses
<1>4. row.status \in TerminalEvents => row.snapshot \in TerminalEvents
  BY DEF HInv, RowTrue
<1>5. seen = IF ~row.completedAt THEN "active"
             ELSE IF Interrupted THEN "failed" ELSE row.snapshot
  BY <1>1 DEF seen
<1>6. Row!Outcomes = TerminalEvents /\ "failed" \in TerminalEvents
      /\ "active" \notin TerminalEvents
  BY DEF Row!Outcomes, TerminalEvents
<1>7. Alone /\ row.completedAt => row.snapshot = rec.status
  BY DEF HInv, RowTrue
<1> QED BY <1>2, <1>3, <1>4, <1>5, <1>6, <1>7 DEF SeenTrue

LEMMA SeenOKNext == HInv' => SeenTrue'
BY SeenOK, PTL

\* Every step of the two processes is one the abstract row allows.
LEMMA RowStep ==
  ASSUME HInv, HInv', HistoryNext
  PROVE  [Row!Next]_Row!vars
<1>1. CASE row' = row
  <2>1. seen' = seen
    BY <1>1 DEF seen, LoadedTerminal, Interrupted
  <2> QED BY <2>1, OneThingHappens DEF Row!Next, Row!Reach, Row!vars
<1>2. CASE row' # row
  <2>1. (WorkerSaves \/ ApiSaves) /\ reached' = reached /\ rec' = rec
        /\ Alone' = Alone
    BY <1>2, OnlySavesChangeRow DEF Alone
  <2>2. row.completedAt => row'.completedAt
    BY <2>1, SavesInv DEF HInv
  <2>3. SeenTrue /\ SeenTrue'
    BY SeenOK, SeenOKNext
  <2>4. Row!Outcomes = TerminalEvents /\ "failed" \in TerminalEvents
    BY DEF Row!Outcomes, TerminalEvents
  <2>5. CASE ~row'.completedAt
    BY <2>1, <2>2, <2>3, <2>5 DEF SeenTrue, Row!vars
  <2>6. CASE row'.completedAt /\ Alone
    <3>1. WorkerSaves /\ rec.terminal /\ rec.status \in reached
          /\ rec.status \in TerminalEvents /\ seen' = rec.status
      <4>1. WorkerSaves
        BY <2>1, <2>6, ApiSaved
      <4>2. rec.terminal
        BY <2>6, <4>1, WorkerSaved DEF HInv, RowTrue
      <4> QED BY <2>1, <2>3, <2>6, <4>1, <4>2 DEF SeenTrue, HInv, Remembered
    <3>2. row.completedAt => seen = rec.status
      BY <2>3, <2>6 DEF SeenTrue
    <3>3. CASE row.completedAt
      BY <2>1, <3>1, <3>2, <3>3 DEF Row!vars
    <3>4. CASE ~row.completedAt
      <4>1. Row!Show(rec.status)
        BY <2>1, <2>3, <3>1, <3>4 DEF Row!Show, SeenTrue
      <4> QED BY <2>4, <3>1, <4>1 DEF Row!Next
    <3> QED BY <3>3, <3>4
  <2>7. CASE row'.completedAt /\ ~Alone
    <3>1. Row!TwoWriters /\ reached \cap {"cancelled", "interrupted"} # {}
      BY <2>7 DEF Row!TwoWriters, Alone
    <3>2. seen' \in TerminalEvents
      BY <2>3, <2>4, <2>7 DEF SeenTrue
    <3>3. seen' = "failed" \/ seen' \in reached
      <4>1. CASE Interrupted'
        BY <2>3, <4>1 DEF SeenTrue
      <4>2. CASE ~Interrupted'
        <5>1. seen' = row'.snapshot /\ row'.status \in TerminalEvents
          BY <2>3, <2>7, <4>2 DEF SeenTrue
        <5>2. CASE ApiSaves
          BY <5>1, <5>2, ApiSaved
        <5>3. CASE WorkerSaves
          <6>1. \/ row'.snapshot = "failed"
                \/ rec.terminal /\ row'.snapshot = rec.status
            BY <5>1, <5>3, WorkerSaved
          <6> QED BY <5>1, <6>1 DEF HInv, Remembered
        <5> QED BY <2>1, <5>2, <5>3
      <4> QED BY <4>1, <4>2
    <3>4. Row!Show(seen')
      BY <2>1, <3>1, <3>3 DEF Row!Show
    <3> QED BY <2>4, <3>2, <3>4 DEF Row!Next
  <2> QED BY <2>5, <2>6, <2>7
<1> QED BY <1>1, <1>2

\* The row of a run that a worker generates implements the abstract row: across
\* two processes, crashes of the worker, a job that is run again and a cancel
\* the worker may miss, no end is taken back and no outcome is made up.
THEOREM RowKept == HistorySpec => KeepsRow
<1>1. HistoryInit => Row!Init
  BY DEF HistoryInit, Init, Row!Init, seen, LoadedTerminal, TerminalEvents
<1>2. HInv /\ HInv' /\ [HistoryNext]_<<vars, reached>> => [Row!Next]_Row!vars
  <2> SUFFICES ASSUME HInv, HInv', [HistoryNext]_<<vars, reached>>
               PROVE  [Row!Next]_Row!vars
    OBVIOUS
  <2>1. CASE HistoryNext
    BY <2>1, RowStep
  <2>2. CASE UNCHANGED <<vars, reached>>
    BY <2>2 DEF vars, Row!vars, seen, LoadedTerminal, Interrupted
  <2> QED BY <2>1, <2>2
<1> QED BY <1>1, <1>2, HistoryInvariance, PTL DEF HistorySpec, KeepsRow, Row!Spec

-----------------------------------------------------------------------------
(***************************************************************************)
(* What is left to save when the job is done, or its cancel accepted.      *)
(***************************************************************************)
Working == worker \in {"taken", "resolving", "running", "settling"}

CancelTold == cancel.step \in {"published", "cancelled"}

\* The row has ended, the end waits to be saved, or the cancel route has told
\* the worker and will save it.
EndOnItsWay ==
  \/ row.completedAt \/ CancelTold
  \/ \E i \in DOMAIN workerSaves : isTerminalRunEvent(workerSaves[i])

EndsOK ==
  /\ cancel.step = "cancelled" => row.completedAt \/ apiSaves # <<>>
  /\ control > 0 => CancelTold
  /\ job = "stalled" \/ worker = "down" => crashes > 0
  /\ worker = "down" => workerSaves = <<>>
  /\ Working => job = "active"
  /\ worker = "settling" => rec.terminal
  /\ activeRecord /\ rec.terminal => EndOnItsWay
  /\ crashes = 0 /\ job \in {"completed", "failed"} => EndOnItsWay

\* A cancel that was accepted and saved has ended the row, whatever the worker
\* did meanwhile; and so has a job that is done, if no worker has died.
EndedAtRest ==
  /\ cancel.step = "cancelled" /\ apiSaves = <<>> => row.completedAt
  /\ crashes = 0 /\ job \in {"completed", "failed"} /\ workerSaves = <<>>
       /\ apiSaves = <<>> /\ cancel.step # "published" => row.completedAt

\* Whatever died before, the worker that completes the job has ended the row or
\* is about to, and nothing but its own death between the two loses the end.
OnlyACrashLosesTheEnd ==
  [][ job' = "completed" /\ ~EndOnItsWay' =>
        (job = "completed" /\ ~EndOnItsWay) \/ worker' = "down" ]_vars

-----------------------------------------------------------------------------
LEMMA InitEnds == Init => EndsOK
BY DEF Init, EndsOK, Working, activeRecord

\* What a save leaves on its way.
LEMMA SavesEnds ==
  ASSUME IInv, EndsOK, WorkerSaves \/ ApiSaves
  PROVE  EndsOK' /\ (EndOnItsWay => EndOnItsWay')
<1>1. row.completedAt => row'.completedAt
  BY SavesInv
<1>2. UNCHANGED <<job, worker, rec, crashes, cancel, control>>
  BY DEF WorkerSaves, ApiSaves, workerVars, apiVars
<1>3. EndOnItsWay => EndOnItsWay'
  <2>1. CASE WorkerSaves
    <3>1. /\ workerSaves \in Seq(Events \cup {"none", "loaded"}) /\ workerSaves # <<>>
          /\ workerSaves' = Tail(workerSaves)
          /\ row' = saved(rec, Head(workerSaves))
          /\ Head(workerSaves) = workerSaves[1]
      BY <2>1 DEF IInv, TypeOK, WorkerSaves
    <3>2. isTerminalRunEvent(workerSaves[1]) => row'.completedAt
      BY <3>1 DEF saved
    <3>3. ASSUME NEW i \in DOMAIN workerSaves, i # 1
          PROVE  \E j \in DOMAIN workerSaves' : workerSaves'[j] = workerSaves[i]
      <4>1. /\ i - 1 \in DOMAIN Tail(workerSaves)
            /\ Tail(workerSaves)[i - 1] = workerSaves[i]
        BY <3>1, <3>3
      <4> QED BY <3>1, <4>1
    <3> QED BY <1>1, <1>2, <3>2, <3>3 DEF EndOnItsWay, CancelTold
  <2>2. CASE ApiSaves
    BY <1>1, <1>2, <2>2 DEF ApiSaves, workerVars, EndOnItsWay, CancelTold
  <2> QED BY <2>1, <2>2
<1>4. cancel.step = "cancelled" => row'.completedAt \/ apiSaves' # <<>>
  <2>1. CASE WorkerSaves
    BY <1>1, <2>1 DEF WorkerSaves, apiVars, EndsOK
  <2>2. CASE ApiSaves
    <3>1. /\ Head(apiSaves) \in {"cancelled", "loaded"}
          /\ row' = saved(cancel.rec, Head(apiSaves))
      BY <2>2 DEF ApiSaves, IInv, TypeOK
    <3> QED BY <3>1 DEF saved, isTerminalRunEvent, TerminalEvents
  <2> QED BY <2>1, <2>2
<1>5. worker = "down" => workerSaves' = <<>>
  <2>1. CASE WorkerSaves
    BY <2>1 DEF WorkerSaves, EndsOK
  <2>2. CASE ApiSaves
    BY <2>2 DEF ApiSaves, workerVars, EndsOK
  <2> QED BY <2>1, <2>2
<1>6. /\ Working' = Working /\ CancelTold' = CancelTold
      /\ activeRecord' = activeRecord
  BY <1>2 DEF Working, activeRecord, CancelTold
<1> QED BY <1>2, <1>3, <1>4, <1>5, <1>6 DEF EndsOK

\* What the pipeline emits ends the record by an event it saves, if it was open.
LEMMA PipelineEndsOK ==
  ASSUME IInv, EndsOK, Pipeline
  PROVE  EndsOK' /\ (EndOnItsWay => EndOnItsWay')
<1>1. PICK new : /\ Emits(new)
                 /\ new = rec \/ (Evolves(rec, new) /\ ~rec.terminal)
                 /\ worker' # "running" => new.terminal
  <2>1. Sound(rec) /\ (isRunCancelled(rec) => rec.terminal)
    BY OpenStatus DEF IInv, isRunCancelled, TerminalEvents
  <2>2. ASSUME ~isRunCancelled(rec)
        PROVE  /\ ~rec.terminal
               /\ Evolves(rec, failRun(rec, "RUN_ERROR")) /\ Evolves(rec, completeRun(rec))
               /\ Evolves(rec, openStage(rec))
               /\ failRun(rec, "RUN_ERROR").terminal /\ completeRun(rec).terminal
    <3>1. RecordOK(rec) /\ ~rec.terminal
      BY <2>1, <2>2 DEF Sound, isRunCancelled
    <3>2. "RUN_ERROR" \in RunErrors /\ "none" \in RunErrors
          /\ "failed" \in TerminalEvents /\ "completed" \in TerminalEvents
      BY DEF RunErrors, PipelineErrors, TerminalEvents
    <3> QED BY <2>1, <2>2, <3>1, <3>2, OpenEvolves, EndEvolves DEF failRun, completeRun
  <2> QED BY <2>1, <2>2 DEF Pipeline, ProviderUnusable, OpensStage, PipelineEnds
<1>2. /\ UNCHANGED <<crashes, apiSaves, cancel, row, control>>
      /\ worker \in {"resolving", "running"} /\ job = "active"
      /\ \/ worker' \in {"running", "settling"} /\ job' = "active"
         \/ worker' = "idle" /\ job' = "failed"
  BY DEF Pipeline, ProviderUnusable, OpensStage, PipelineEnds, EndsOK, Working, apiVars
<1> DEFINE fresh == SubSeq(new.events, Len(rec.events) + 1, Len(new.events))
<1>3. /\ workerSaves \in Seq(Events \cup {"none", "loaded"})
      /\ workerSaves' = workerSaves \o fresh
      /\ rec.events \in Seq(Events) /\ new.events \in Seq(Events) /\ rec' = new
  BY <1>1, OKSound DEF IInv, TypeOK, Sound, RunRecord, Emits, Evolves
<1>4. Len(rec.events) \in Nat /\ Len(rec.events) <= Len(new.events)
  BY <1>1, <1>3 DEF Evolves
<1>5. /\ fresh \in Seq(Events)
      /\ Len(fresh) = Len(new.events) - Len(rec.events)
      /\ \A i \in DOMAIN fresh : fresh[i] = new.events[i + Len(rec.events)]
  BY <1>3, <1>4, LogSuffix
<1>6. ASSUME ~rec.terminal, new.terminal
      PROVE  \E i \in DOMAIN fresh : isTerminalRunEvent(fresh[i])
  <2>1. Evolves(rec, new) /\ RecordOK(rec)
    BY <1>1, <1>6 DEF IInv, Sound
  <2>2. PICK i \in Ends(new.events) : TRUE
    BY <1>6, <2>1 DEF Evolves, RecordOK, LogOK
  <2>3. i \in DOMAIN new.events /\ isTerminalRunEvent(new.events[i])
    BY <2>2 DEF Ends
  <2>4. i \notin DOMAIN rec.events
    BY <1>6, <2>1, <2>3 DEF Evolves, RecordOK, LogOK, Ends
  <2>5. /\ i \in Nat /\ i > Len(rec.events) /\ i <= Len(new.events)
    BY <1>3, <1>4, <2>3, <2>4
  <2> HIDE DEF fresh
  <2>6. i - Len(rec.events) \in DOMAIN fresh /\ (i - Len(rec.events)) + Len(rec.events) = i
    BY <1>4, <1>5, <2>5
  <2> QED BY <1>5, <2>3, <2>6
<1> HIDE DEF fresh
<1>7. /\ \A i \in DOMAIN workerSaves :
           \E j \in DOMAIN workerSaves' : workerSaves'[j] = workerSaves[i]
      /\ \A i \in DOMAIN fresh :
           \E j \in DOMAIN workerSaves' : workerSaves'[j] = fresh[i]
  <2>1. ASSUME NEW i \in DOMAIN workerSaves
        PROVE  i \in DOMAIN workerSaves' /\ workerSaves'[i] = workerSaves[i]
    BY <1>3, <1>5, <2>1
  <2>2. ASSUME NEW i \in DOMAIN fresh
        PROVE  /\ Len(workerSaves) + i \in DOMAIN workerSaves'
               /\ workerSaves'[Len(workerSaves) + i] = fresh[i]
    BY <1>3, <1>5, <2>2
  <2> QED BY <2>1, <2>2
<1>8. EndOnItsWay => EndOnItsWay'
  BY <1>2, <1>7 DEF EndOnItsWay, CancelTold
<1>9. new.terminal => EndOnItsWay'
  <2>1. CASE ~rec.terminal
    BY <1>6, <1>7, <2>1 DEF EndOnItsWay
  <2>2. CASE rec.terminal
    BY <1>2, <1>8, <2>2 DEF EndsOK, activeRecord
  <2> QED BY <2>1, <2>2
<1> QED BY <1>1, <1>2, <1>3, <1>8, <1>9 DEF EndsOK, Working, activeRecord, CancelTold

\* The job and the worker's other steps.
LEMMA WorkerEnds ==
  ASSUME IInv, EndsOK, Job \/ Worker \/ WorkerCrashes
  PROVE  /\ EndsOK'
         /\ EndOnItsWay => EndOnItsWay' \/ WorkerCrashes
         /\ job' = "completed" => job = "completed" \/ EndOnItsWay'
<1>1. crashes \in Nat /\ MaxCrashes \in Nat
  BY MaxCrashesAssumption DEF IInv, TypeOK
<1>2. ASSUME UNCHANGED <<workerSaves, cancel, row>>
      PROVE  CancelTold' = CancelTold /\ EndOnItsWay' = EndOnItsWay
  BY <1>2 DEF EndOnItsWay, CancelTold
<1>3. CASE Job
  BY <1>2, <1>3 DEF Job, enqueueRun, TakesJob, StalledJobReturns, apiVars, EndsOK,
     Working, activeRecord
<1>4. CASE JobEnds
  BY <1>2, <1>4 DEF JobEnds, apiVars, EndsOK, Working, activeRecord
<1>5. CASE Pipeline
  <2>1. job' # "completed"
    BY <1>5 DEF Pipeline, ProviderUnusable, OpensStage, PipelineEnds, EndsOK, Working
  <2> QED BY <1>5, <2>1, PipelineEndsOK
<1>6. CASE ProcessRun
  <2>1. /\ UNCHANGED <<job, crashes, apiSaves, cancel, row, control>>
        /\ worker = "taken" /\ worker' = "resolving" /\ rec' = Payload
        /\ workerSaves' = Append(workerSaves, "none")
        /\ workerSaves \in Seq(Events \cup {"none", "loaded"})
    BY <1>6 DEF ProcessRun, apiVars, IInv, TypeOK
  <2>2. \A i \in DOMAIN workerSaves :
          i \in DOMAIN workerSaves' /\ workerSaves'[i] = workerSaves[i]
    BY <2>1
  <2>3. EndOnItsWay => EndOnItsWay'
    BY <2>1, <2>2 DEF EndOnItsWay, CancelTold
  <2> QED BY <2>1, <2>3, PayloadOK DEF EndsOK, Working, activeRecord, CancelTold
<1>7. CASE onCancelRun
  <2>1. /\ UNCHANGED <<job, worker, workerSaves, crashes, apiSaves, cancel, row>>
        /\ control > 0 /\ control' = control - 1
        /\ rec'.terminal \/ rec' = rec
    BY <1>7 DEF onCancelRun, apiVars, IInv, TypeOK, RunRecord
  <2>2. CancelTold /\ EndOnItsWay
    BY <2>1 DEF EndsOK, EndOnItsWay
  <2> QED BY <1>2, <2>1, <2>2 DEF EndsOK, Working, activeRecord
<1>8. CASE WorkerRestarts
  <2>1. /\ UNCHANGED <<job, rec, crashes, apiSaves, cancel, row, control>>
        /\ worker = "down" /\ worker' = "idle" /\ crashes > 0
        /\ workerSaves' = LoadSaves /\ workerSaves = <<>>
    BY <1>8 DEF WorkerRestarts, apiVars, EndsOK
  <2>2. EndOnItsWay => EndOnItsWay'
    BY <2>1 DEF EndOnItsWay, CancelTold
  <2>3. ~Working' /\ ~activeRecord' /\ CancelTold' = CancelTold
    BY <2>1 DEF Working, activeRecord, CancelTold
  <2> QED BY <2>1, <2>2, <2>3 DEF EndsOK
<1>9. CASE WorkerCrashes
  <2>1. /\ UNCHANGED <<apiSaves, cancel, row>> /\ crashes' = crashes + 1
        /\ control' = 0 /\ worker' = "down"
        /\ job' = IF job = "active" THEN "stalled" ELSE job
        /\ workerSaves' = <<>>
    BY <1>9 DEF WorkerCrashes, apiVars
  <2>2. crashes' > 0 /\ crashes' # 0 /\ ~(control' > 0)
    BY <1>1, <2>1
  <2>3. ~Working' /\ ~activeRecord' /\ CancelTold' = CancelTold
    BY <2>1 DEF Working, activeRecord, CancelTold
  <2>4. EndsOK'
    BY <2>1, <2>2, <2>3 DEF EndsOK
  <2>5. job' = "completed" => job = "completed"
    BY <2>1
  <2> QED BY <1>9, <2>4, <2>5
<1> QED BY <1>3, <1>4, <1>5, <1>6, <1>7, <1>8, <1>9 DEF Worker

\* The API process and Redis.
LEMMA ElsewhereEnds ==
  ASSUME IInv, EndsOK,
         CancelReads \/ CancelGoesOn \/ Stream \/ \E e \in TerminalEvents : Delivers(e)
  PROVE  EndsOK' /\ (EndOnItsWay => EndOnItsWay') /\ (job' = "completed" => job = "completed")
<1>1. /\ UNCHANGED <<worker, rec, workerSaves, crashes, row>>
      /\ \/ job' = job
         \/ job' = "removed" /\ job \in {"waiting", "stalled"}
  <2>1. CASE CancelReads \/ CancelPublishes \/ CancelFinishes
    BY <2>1 DEF CancelReads, CancelPublishes, CancelFinishes, workerVars
  <2>2. CASE CancelRemoves
    BY <2>2 DEF CancelRemoves
  <2>3. CASE Stream
    BY <2>3 DEF Stream, StreamReads, StreamSubscribes, StreamReplays, StreamDrops,
       workerVars
  <2>4. CASE \E e \in TerminalEvents : Delivers(e)
    BY <2>4 DEF Delivers, workerVars
  <2> QED BY <2>1, <2>2, <2>3, <2>4 DEF CancelGoesOn
<1>2. ASSUME UNCHANGED <<cancel, control>>
      PROVE  apiSaves # <<>> => apiSaves' # <<>>
  <2>1. CASE Stream
    <3>1. /\ apiSaves \in Seq({"cancelled", "loaded"})
          /\ LoadSaves \in Seq({"cancelled", "loaded"})
      <4>1. <<"loaded">> \in Seq({"cancelled", "loaded"})
        OBVIOUS
      <4>2. <<>> \in Seq({"cancelled", "loaded"})
        OBVIOUS
      <4>3. apiSaves \in Seq({"cancelled", "loaded"})
        BY DEF IInv, TypeOK
      <4>4. LoadSaves = <<"loaded">> \/ LoadSaves = <<>>
        BY DEF LoadSaves
      <4> QED BY <4>1, <4>2, <4>3, <4>4
    <3>2. apiSaves # <<>> => apiSaves \o LoadSaves # <<>>
      BY <3>1
    <3> QED BY <2>1, <3>2 DEF Stream, StreamReads, StreamSubscribes, StreamReplays, StreamDrops
  <2>2. CASE \E e \in TerminalEvents : Delivers(e)
    BY <2>2 DEF Delivers
  <2>3. CASE CancelReads \/ CancelGoesOn
    <3>1. CASE CancelReads
      <4>1. cancel.step = "new" /\ cancel'.step \in {"refused", "read"}
        BY <3>1 DEF CancelReads
      <4> QED BY <1>2, <4>1
    <3>2. CASE CancelGoesOn
      <4>1. cancel \in CancelRecords
        BY DEF IInv
      <4>2. cancel'.step # cancel.step
        BY <3>2, <4>1 DEF CancelGoesOn, CancelRemoves, CancelPublishes,
           CancelFinishes, CancelRecords
      <4> QED BY <1>2, <4>2
    <3> QED BY <2>3, <3>1, <3>2
  <2> QED BY <2>1, <2>2, <2>3
<1>3. /\ CancelTold => CancelTold'
      /\ control' > 0 => CancelTold'
      /\ cancel'.step = "cancelled" => row.completedAt \/ apiSaves' # <<>>
  <2>1. CASE CancelReads
    BY <2>1 DEF CancelReads, CancelTold, EndsOK
  <2>2. CASE CancelRemoves \/ CancelPublishes
    BY <2>2 DEF CancelRemoves, CancelPublishes, CancelTold, EndsOK, IInv, TypeOK,
       CancelRecords
  <2>3. CASE CancelFinishes
    <3>1. cancel'.step = "cancelled" /\ apiSaves' = Append(apiSaves, "cancelled")
      BY <2>3 DEF CancelFinishes, IInv, CancelRecords
    <3>2. apiSaves' # <<>>
      BY <3>1 DEF IInv, TypeOK
    <3> QED BY <3>1, <3>2 DEF CancelTold
  <2>4. CASE Stream \/ \E e \in TerminalEvents : Delivers(e)
    <3>1. UNCHANGED <<cancel, control>>
      BY <2>4 DEF Stream, StreamReads, StreamSubscribes, StreamReplays, StreamDrops,
         Delivers
    <3> QED BY <1>2, <3>1 DEF EndsOK, CancelTold
  <2> QED BY <2>1, <2>2, <2>3, <2>4 DEF CancelGoesOn
<1>4. EndOnItsWay => EndOnItsWay'
  BY <1>1, <1>3 DEF EndOnItsWay
<1>5. Working => job' = "active"
  BY <1>1 DEF EndsOK
<1> QED BY <1>1, <1>3, <1>4, <1>5 DEF EndsOK, Working, activeRecord

LEMMA StepEnds ==
  ASSUME IInv, EndsOK, [Next]_vars
  PROVE  /\ EndsOK'
         /\ EndOnItsWay => EndOnItsWay' \/ worker' = "down"
         /\ job' = "completed" => job = "completed" \/ EndOnItsWay'
<1>1. CASE UNCHANGED vars
  BY <1>1 DEF vars, workerVars, apiVars, EndsOK, Working, activeRecord, EndOnItsWay,
     CancelTold
<1>2. CASE WorkerSaves \/ ApiSaves
  <2>1. job' = job
    BY <1>2 DEF WorkerSaves, ApiSaves, workerVars
  <2> QED BY <1>2, <2>1, SavesEnds
<1>3. CASE Job \/ Worker \/ WorkerCrashes
  BY <1>3, WorkerEnds DEF WorkerCrashes
<1>4. CASE CancelReads \/ CancelGoesOn \/ Stream \/ \E e \in TerminalEvents : Delivers(e)
  BY <1>4, ElsewhereEnds
<1> QED BY <1>1, <1>2, <1>3, <1>4 DEF Next

LEMMA EndsInvariance == Spec => []EndsOK
<1>1. IInv /\ EndsOK /\ [Next]_vars => EndsOK'
  BY StepEnds
<1> QED BY <1>1, InitEnds, Invariance, PTL DEF Spec

\* EndedAtRest in every reachable state: an accepted cancel that was saved has
\* ended the row, and so has a job that is done and saved if no worker has died.
THEOREM AlwaysEndedAtRest == Spec => []EndedAtRest
<1>1. EndsOK => EndedAtRest
  BY DEF EndsOK, EndedAtRest, EndOnItsWay, CancelTold
<1> QED BY <1>1, EndsInvariance, PTL

\* OnlyACrashLosesTheEnd in every step: the worker that completes the job leaves
\* the row ended or its end waiting to be saved, however many died before it.
THEOREM EndLostByACrashAlone == Spec => OnlyACrashLosesTheEnd
<1>1. IInv /\ EndsOK /\ [Next]_vars =>
        [job' = "completed" /\ ~EndOnItsWay' =>
           (job = "completed" /\ ~EndOnItsWay) \/ worker' = "down"]_vars
  BY StepEnds
<1> QED BY <1>1, Invariance, EndsInvariance, PTL DEF Spec, OnlyACrashLosesTheEnd
=============================================================================
