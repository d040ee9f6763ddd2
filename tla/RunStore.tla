------------------------------ MODULE RunStore ------------------------------
(***************************************************************************)
(* One run in the Postgres record store of an API process without a queue  *)
(* (runs/records/postgres-run-record-store.ts): the record objects in      *)
(* memory, the chain of asynchronous saves, the two tables, the requests   *)
(* that refresh the record from them, and crashes of the process.          *)
(*                                                                         *)
(* An action is what one actor does between two awaits; a query is one     *)
(* step, at the moment the database executes it.  The run is a document    *)
(* run.  Left out: llm_chunk and run_action events, and the in-memory      *)
(* fields no table holds.                                                  *)
(***************************************************************************)
EXTENDS RunRecords

CONSTANTS
  Requests,   \* HTTP requests on the run
  Kind,       \* what each does: "read", "cancel" or "delete"
  Restarts,   \* bound: crashes of the process
  Failures    \* bound: save queries the database rejects

ASSUME KindAssumption == Kind \in [Requests -> {"read", "cancel", "delete"}]
ASSUME BoundsAssumption == Restarts \in Nat /\ Failures \in Nat

VARIABLES
  heap,      \* the RunRecord objects of the run, in the order they were made
  entry,     \* the one the Map holds, an index of heap, or 0
  pipe,      \* where the pipeline is; it holds heap[1] from start to end
  chain,     \* the save jobs of the run, first to run first
  row,       \* its row of run_records, or NoRow
  rows,      \* its rows of run_events by sequence, Absent where there is none
  request,   \* [Requests]: where each is suspended and what it has read
  restarts,  \* crashes so far
  failures   \* rejected saves so far

vars == <<heap, entry, pipe, chain, row, rows, request, restarts, failures>>

Absent == "absent"

\* The row before the run's first save and after its deletion.
NoRow == [status |-> "none"]

\* A job saves a record without an event, saves it with one, or deletes the
\* row; next is the query it runs next.
Job(o, e) == [object |-> o, event |-> e,
              next |-> IF e = "stage_progress" THEN "event" ELSE "record"]

SaveOf(o, evs) == [i \in DOMAIN evs |-> Job(o, evs[i])]

Ended(r) == r # NoRow /\ r.completedAt

-----------------------------------------------------------------------------
(***************************************************************************)
(* Reading the tables.                                                     *)
(***************************************************************************)
isActiveStatus(s) == s \in {"queued", "running"}

restoredInterruptedRun(r, mark) ==
  isActiveStatus(r.status) /\ (mark \/ r.completedAt)

\* The event rows there are, by sequence.
eventsOf(evs) ==
  LET kept[n \in 0..Len(evs)] ==
        IF n = 0 THEN <<>>
        ELSE IF evs[n] = Absent THEN kept[n - 1]
        ELSE Append(kept[n - 1], evs[n])
  IN  kept[Len(evs)]

\* Mutants: a row with an end date is taken for a success; an interrupted run
\* is loaded as it stands.
applyLoadedRows_end_is_success(r, evs, mark) ==
  [status   |-> IF restoredInterruptedRun(r, mark) THEN "completed"
                                                   ELSE r.snapshot.status,
   error    |-> r.snapshot.error,
   terminal |-> r.status \in TerminalEvents \/ restoredInterruptedRun(r, mark),
   events   |-> eventsOf(evs)]

applyLoadedRows_unmarked(r, evs, mark) ==
  [status   |-> r.snapshot.status, error |-> r.snapshot.error,
   terminal |-> r.status \in TerminalEvents \/ r.completedAt,
   events   |-> eventsOf(evs)]

\* The record object made of a row and its event rows.  A run nobody can be
\* working on is loaded as failed, with an event only the memory has.
applyLoadedRows(r, evs, mark) ==
  IF restoredInterruptedRun(r, mark)
  THEN [status   |-> "failed",
        error    |-> IF r.snapshot.error = "none" THEN "RUN_ERROR"
                                                  ELSE r.snapshot.error,
        terminal |-> TRUE,
        events   |-> IF \E i \in DOMAIN evs : evs[i] = "failed"
                     THEN eventsOf(evs)
                     ELSE Append(eventsOf(evs), "failed")]
  ELSE [status   |-> r.snapshot.status,
        error    |-> r.snapshot.error,
        terminal |-> r.status \in TerminalEvents \/ r.completedAt,
        events   |-> eventsOf(evs)]

-----------------------------------------------------------------------------
(***************************************************************************)
(* Writing the tables.                                                     *)
(***************************************************************************)
\* The terminal event being saved, or the last one recorded, or the snapshot.
readPersistedStatus(rec, e) ==
  LET ends == {i \in DOMAIN rec.events : isTerminalRunEvent(rec.events[i])}
  IN  IF isTerminalRunEvent(e) THEN e
      ELSE IF rec.terminal /\ ends # {}
      THEN rec.events[CHOOSE i \in ends : \A j \in ends : j <= i]
      ELSE rec.status

\* Mutants: on conflict do nothing; the end date of this save alone.
upsertRecord_do_nothing(rec, e) ==
  IF row # NoRow THEN row
  ELSE [status |-> readPersistedStatus(rec, e),
        snapshot |-> [status |-> rec.status, error |-> rec.error],
        completedAt |-> rec.terminal \/ isTerminalRunEvent(e)]

upsertRecord_not_coalesced(rec, e) ==
  [status |-> readPersistedStatus(rec, e),
   snapshot |-> [status |-> rec.status, error |-> rec.error],
   completedAt |-> rec.terminal \/ isTerminalRunEvent(e)]

\* insert ... on conflict (id) do update
upsertRecord(rec, e) ==
  [status |-> readPersistedStatus(rec, e),
   snapshot |-> [status |-> rec.status, error |-> rec.error],
   completedAt |-> rec.terminal \/ isTerminalRunEvent(e) \/ Ended(row)]

\* insert ... on conflict (run_id, sequence) do update
upsertEvent(n, e) ==
  [i \in 1..(IF n > Len(rows) THEN n ELSE Len(rows)) |->
     IF i = n THEN e ELSE IF i <= Len(rows) THEN rows[i] ELSE Absent]

SaveRecord ==
  /\ chain # <<>> /\ Head(chain).next = "record" /\ Head(chain).event # "delete"
  /\ row' = upsertRecord(heap[Head(chain).object], Head(chain).event)
  /\ chain' = IF Head(chain).event = "none" THEN Tail(chain)
              ELSE [chain EXCEPT ![1].next = "event"]
  /\ UNCHANGED <<heap, entry, pipe, rows, request, restarts, failures>>

\* The sequence is the length the record's event list has by now.
SaveEvent ==
  /\ chain # <<>> /\ Head(chain).next = "event" /\ row # NoRow
  /\ rows' = upsertEvent(Len(heap[Head(chain).object].events), Head(chain).event)
  /\ chain' = Tail(chain)
  /\ UNCHANGED <<heap, entry, pipe, row, request, restarts, failures>>

DeleteRow ==
  /\ chain # <<>> /\ Head(chain).event = "delete"
  /\ row' = NoRow /\ rows' = <<>>
  /\ chain' = Tail(chain)
  /\ UNCHANGED <<heap, entry, pipe, request, restarts, failures>>

\* A rejected query ends its job, and the next job runs.  An event without its
\* run is always rejected.
SaveFails ==
  /\ chain # <<>>
  /\ \/ failures < Failures /\ failures' = failures + 1
     \/ Head(chain).next = "event" /\ row = NoRow /\ UNCHANGED failures
  /\ chain' = Tail(chain)
  /\ UNCHANGED <<heap, entry, pipe, row, rows, request, restarts>>

-----------------------------------------------------------------------------
(***************************************************************************)
(* The pipeline, on the record the start route made.  It emits its events  *)
(* in bursts without an await between them.                                *)
(***************************************************************************)
Emits(rec, evs) ==
  /\ heap' = [heap EXCEPT ![1] = rec]
  /\ chain' = IF Len(rec.events) = Len(heap[1].events) THEN chain
              ELSE chain \o SaveOf(1, evs)

opened(rec) == emitEvent(openStage(rec), "stage_progress")

StartRun ==
  /\ pipe = "none"
  /\ heap' = <<opened(emitEvent(EmptyRecord, "queued"))>>
  /\ entry' = 1
  /\ chain' = <<Job(1, "none")>>
              \o SaveOf(1, <<"queued", "stage_started", "stage_progress">>)
  /\ pipe' = "text"
  /\ UNCHANGED <<row, rows, request, restarts, failures>>

OpensSecondStage ==
  /\ pipe = "text" /\ ~isRunCancelled(heap[1])
  /\ Emits(opened(heap[1]), <<"stage_started", "stage_progress">>)
  /\ pipe' = "render"
  /\ UNCHANGED <<entry, row, rows, request, restarts, failures>>

Completes ==
  /\ pipe = "render" /\ ~isRunCancelled(heap[1])
  /\ Emits(completeRun(emitEvent(heap[1], "artifact_ready")),
           <<"artifact_ready", "completed">>)
  /\ pipe' = "completed"
  /\ UNCHANGED <<entry, row, rows, request, restarts, failures>>

Fails ==
  /\ pipe \in {"text", "render"} /\ ~isRunCancelled(heap[1])
  /\ Emits(failRun(heap[1], "RUN_ERROR"), <<"failed">>)
  /\ pipe' = "failed"
  /\ UNCHANGED <<entry, row, rows, request, restarts, failures>>

\* It sees that its record is closed, and ends without an event.
Stops ==
  /\ pipe \in {"text", "render"} /\ isRunCancelled(heap[1])
  /\ pipe' = "stopped"
  /\ UNCHANGED <<heap, entry, chain, row, rows, request, restarts, failures>>

-----------------------------------------------------------------------------
(***************************************************************************)
(* Requests.  Each begins with refreshRun: two queries, then a new record   *)
(* object takes the place of the one in the Map.                           *)
(***************************************************************************)
ReadsRow(q) ==
  /\ entry # 0 \/ row # NoRow
  /\ request[q].step = "new"
  /\ request' = [request EXCEPT ![q].step = "row_read", ![q].row = row]
  /\ UNCHANGED <<heap, entry, pipe, chain, row, rows, restarts, failures>>

\* Mutant: the run is deleted whatever its state.
Continues_unguarded(q, o, objects, saves) ==
  /\ request' = [request EXCEPT
       ![q].step = IF Kind[q] = "delete" /\ o # 0 THEN "deleted" ELSE "answered",
       ![q].object = o]
  /\ chain' = chain \o saves \o (IF Kind[q] = "delete" /\ o # 0
                                 THEN <<Job(o, "delete")>> ELSE <<>>)
  /\ entry' = IF Kind[q] = "delete" THEN 0 ELSE o

\* What the route does with the record object o, past the refresh; saves are
\* the jobs the refresh itself has queued.
Continues(q, o, objects, saves) ==
  \/ /\ Kind[q] = "read" \/ o = 0
     /\ request' = [request EXCEPT ![q].step = "answered", ![q].object = o]
     /\ chain' = chain \o saves /\ entry' = o
  \/ /\ Kind[q] = "cancel" /\ o # 0
     /\ request' = [request EXCEPT
          ![q].step = IF objects[o].terminal THEN "refused" ELSE "cancelling",
          ![q].object = o]
     /\ chain' = chain \o saves /\ entry' = o
  \/ /\ Kind[q] = "delete" /\ o # 0 /\ isActiveRun(objects[o])
     /\ request' = [request EXCEPT ![q].step = "refused", ![q].object = o]
     /\ chain' = chain \o saves /\ entry' = o
  \/ /\ Kind[q] = "delete" /\ o # 0 /\ ~isActiveRun(objects[o])
     /\ request' = [request EXCEPT ![q].step = "deleted", ![q].object = o]
     /\ chain' = chain \o saves \o <<Job(o, "delete")>> /\ entry' = 0

ReadsEvents(q) ==
  /\ request[q].step = "row_read"
  /\ IF request[q].row = NoRow
     THEN heap' = heap /\ Continues(q, entry, heap, <<>>)
     ELSE LET o == Len(heap) + 1
          IN  /\ heap' = Append(heap, applyLoadedRows(request[q].row, rows, FALSE))
              /\ Continues(q, o, heap',
                   IF restoredInterruptedRun(request[q].row, FALSE)
                   THEN <<Job(o, "none")>> ELSE <<>>)
  /\ UNCHANGED <<pipe, row, rows, restarts, failures>>

\* The cancel route, when the scheduler, the queue and billing have answered.
CancelFinishes(q) ==
  /\ request[q].step = "cancelling"
  /\ LET o == request[q].object
         rec == cancelRunRecord(heap[o])
     IN  /\ heap' = [heap EXCEPT ![o] = rec]
         /\ chain' = IF Len(rec.events) = Len(heap[o].events) THEN chain
                     ELSE Append(chain, Job(o, "cancelled"))
  /\ request' = [request EXCEPT ![q].step = "cancelled"]
  /\ UNCHANGED <<entry, pipe, row, rows, restarts, failures>>

-----------------------------------------------------------------------------
\* The process dies and restores its records from the tables before it serves.
Restart ==
  /\ pipe # "none" /\ restarts < Restarts
  /\ restarts' = restarts + 1
  /\ heap' = IF row = NoRow THEN <<>> ELSE <<applyLoadedRows(row, rows, TRUE)>>
  /\ entry' = IF row = NoRow THEN 0 ELSE 1
  /\ chain' = IF row # NoRow /\ restoredInterruptedRun(row, TRUE)
              THEN <<Job(1, "none")>> ELSE <<>>
  /\ pipe' = IF pipe \in {"text", "render"} THEN "lost" ELSE pipe
  /\ request' = [q \in Requests |->
       IF request[q].step \in {"row_read", "cancelling"}
       THEN [request[q] EXCEPT !.step = "lost"] ELSE request[q]]
  /\ UNCHANGED <<row, rows, failures>>

-----------------------------------------------------------------------------
Init ==
  /\ heap = <<>> /\ entry = 0 /\ pipe = "none" /\ chain = <<>>
  /\ row = NoRow /\ rows = <<>>
  /\ request = [q \in Requests |-> [step |-> "new", row |-> NoRow, object |-> 0]]
  /\ restarts = 0 /\ failures = 0

Saves == SaveRecord \/ SaveEvent \/ DeleteRow \/ SaveFails

Pipeline == OpensSecondStage \/ Completes \/ Fails \/ Stops

Request(q) == ReadsRow(q) \/ ReadsEvents(q) \/ CancelFinishes(q)

Next == StartRun \/ Saves \/ Pipeline \/ Restart \/ \E q \in Requests : Request(q)

Spec == Init /\ [][Next]_vars

\* The event loop runs every pipeline and every save in the end.
FairSpec == Spec /\ WF_vars(Saves) /\ WF_vars(Pipeline)

-----------------------------------------------------------------------------
(***************************************************************************)
(* Properties.                                                             *)
(***************************************************************************)
AtRest == chain = <<>> /\ failures = 0

CancelDone ==
  \E q \in Requests : Kind[q] = "cancel" /\ request[q].step = "cancelled"

\* No cancel request has closed a record: only the pipeline's was written to.
OneWriter == ~CancelDone

\* When every save is through, the row tells what the pipeline's record tells:
\* the chain applies the saves in order, whatever requests have read and loaded
\* in between.  And once the pipeline is over, the row has ended: no crash, no
\* refresh and no save of a stale record leaves it behind.
RowAgreesAtRest ==
  AtRest /\ row # NoRow =>
    /\ OneWriter /\ restarts = 0 =>
         /\ row.status = heap[1].status
         /\ row.snapshot.status = heap[1].status
         /\ row.completedAt = heap[1].terminal
    /\ pipe \notin {"text", "render"} => Ended(row) /\ row.status \in TerminalEvents

\* A row says completed only of a run whose pipeline completed, and cancelled
\* only of one a user cancelled: no crash, refresh or lost save makes one up.
OutcomeIsTrue ==
  row # NoRow =>
    /\ row.status = "completed" => pipe = "completed"
    /\ row.status = "cancelled" =>
         \E q \in Requests : Kind[q] = "cancel" /\ request[q].step = "cancelled"

\* A run the tables know as ended is never again loaded as active, even if a
\* save of a record that is still running comes after; and as long as nobody
\* cancels it, it keeps its outcome through crashes, refreshes and lost saves.
EndedStaysEnded ==
  [][ Ended(row) /\ row' # NoRow =>
        /\ Ended(row')
        /\ ~isActiveRun(applyLoadedRows(row', rows', FALSE))
        /\ OneWriter => row'.status = row.status ]_vars

\* Once a request has deleted the run, no save brings its row back, whatever
\* waits in the chain, crashes or is refreshed, until the deletion itself has
\* been run.  A cancel is excepted: the record it closes may be another than the
\* one the pipeline goes on saving, and it may save it after the deletion.
DeletedForGood ==
  [][ row = NoRow /\ row' # NoRow /\ OneWriter' =>
        \/ \A q \in Requests : request[q].step # "deleted"
        \/ \E i \in DOMAIN chain : chain[i].event = "delete" ]_vars

\* A run that has a row ends there or is deleted, a crash or a cancel at any
\* point included, unless the database rejects a save.
EveryRowEnds ==
  row # NoRow ~>
    failures > 0 \/ row = NoRow \/ (Ended(row) /\ row.status \in TerminalEvents)

\* What the store's test counts: when every save is through, there is a row for
\* every event of the record.
EveryEventHasItsRow ==
  AtRest /\ entry = 1 => Len(eventsOf(rows)) = Len(heap[1].events)

\* The outcome the run is loaded with, and what has happened to it.
seen ==
  IF row = NoRow THEN "none"
  ELSE LET rec == applyLoadedRows(row, rows, FALSE)
       IN  IF isActiveRun(rec) THEN "active" ELSE rec.status

reached ==
  ({pipe} \cap TerminalEvents)
  \cup (IF CancelDone THEN {"cancelled"} ELSE {})
  \cup (IF restarts = 0 THEN {} ELSE {"interrupted"})

Row == INSTANCE RunRow WITH RunsAgain <- FALSE

\* What the row tells stays true to what happened: no crash, refresh, lost save
\* or second writer takes an end back or makes one up.
KeepsRow == Row!Spec
=============================================================================
